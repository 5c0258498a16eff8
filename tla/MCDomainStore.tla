--------------------------- MODULE MCDomainStore ---------------------------
EXTENDS DomainStore, TLC
Sym == Permutations(Client)
=============================================================================
