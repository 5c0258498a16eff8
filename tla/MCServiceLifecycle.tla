------------------------- MODULE MCServiceLifecycle -------------------------
EXTENDS ServiceLifecycle

\* Two signals to a program that is started once, one if it is started twice.
\* The user need do neither, so no fairness is touched.
FewUserSteps == sent' + launches' <= 3

=============================================================================
