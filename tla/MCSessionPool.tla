---------------------------- MODULE MCSessionPool -----------------------------
EXTENDS SessionPool

CONSTANTS service, connections, updater, r1, r2

\* The two threads of the service that use the database.
MCHome == [t \in {connections, updater} |-> service]

=============================================================================
