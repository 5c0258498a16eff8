---------------------------- MODULE BlockPolicy ----------------------------
(***************************************************************************)
(* What the domain managers promise, without ids, transactions or look-ups *)
(* (manager/domain_list_manager.hxx, manager/domain_manager.hxx): lists    *)
(* have names, every domain belongs to at most one of them, and every      *)
(* operation takes effect at once.                                         *)
(***************************************************************************)
CONSTANTS Domain, ListName, CUSTOM, WHITELIST

VARIABLES
    policy,     \* name of a list -> its flags
    owner       \* domain -> the name of the list it is on

Fresh == [active |-> TRUE, white |-> FALSE]

Seeded ==
    [n \in {CUSTOM, WHITELIST} |->
        IF n = WHITELIST THEN [Fresh EXCEPT !.white = TRUE] ELSE Fresh]

Exempt == {d \in DOMAIN owner : policy[owner[d]].white}

\* D moves to list n.
Move(D, n) ==
    owner' = [d \in DOMAIN owner \cup D |-> IF d \in D THEN n ELSE owner[d]]

Init ==
    /\ policy = Seeded
    /\ owner = [d \in {} |-> CUSTOM]

\* A database without lists is seeded again.
Reseed ==
    /\ DOMAIN policy = {}
    /\ policy' = Seeded
    /\ UNCHANGED owner

AddList(n) ==
    /\ n \notin DOMAIN policy
    /\ policy' = [m \in DOMAIN policy \cup {n} |-> IF m = n THEN Fresh ELSE policy[m]]
    /\ UNCHANGED owner

\* A removed list takes its domains along.
DropList(n) ==
    /\ n \in DOMAIN policy
    /\ policy' = [m \in DOMAIN policy \ {n} |-> policy[m]]
    /\ owner' = [d \in {e \in DOMAIN owner : owner[e] # n} |-> owner[d]]

SetActive(n, b) ==
    /\ n \in DOMAIN policy
    /\ policy' = [policy EXCEPT ![n].active = b]
    /\ UNCHANGED owner

\* Blocking spares what a whitelist has.
BlockInto(n, D) ==
    /\ n \in DOMAIN policy
    /\ Move(D \ Exempt, n)
    /\ UNCHANGED policy

Block(D) == BlockInto(CUSTOM, D)

Unblock(D) ==
    /\ WHITELIST \in DOMAIN policy
    /\ Move(D, WHITELIST)
    /\ UNCHANGED policy

\* An import takes its domains from wherever they are.
Import(n, D) ==
    /\ n \in DOMAIN policy
    /\ Move(D, n)
    /\ UNCHANGED policy

Next ==
    \/ Reseed
    \/ \E n \in ListName :
         \/ AddList(n)
         \/ DropList(n)
         \/ \E b \in BOOLEAN : SetActive(n, b)
         \/ \E D \in SUBSET Domain : Import(n, D)
    \/ \E D \in SUBSET Domain : Block(D) \/ Unblock(D)

Spec == Init /\ [][Next]_<<policy, owner>>

-----------------------------------------------------------------------------
\* What is left of it when several clients are at work: the id of a list that
\* was removed is handed out again, and who still holds it blocks into whatever
\* list has it now.
SharedNext ==
    \/ Next
    \/ \E n \in ListName, D \in SUBSET Domain : BlockInto(n, D)

SharedSpec == Init /\ [][SharedNext]_<<policy, owner>>

-----------------------------------------------------------------------------
\* Every domain is on a list that there is, so that what is blocked is defined
\* (ddl.hxx:32-38).
PolicyOK ==
    /\ DOMAIN policy \subseteq ListName
    /\ policy \in [DOMAIN policy -> [active : BOOLEAN, white : BOOLEAN]]
    /\ DOMAIN owner \subseteq Domain
    /\ owner \in [DOMAIN owner -> DOMAIN policy]

\* What a whitelist has stays exempt, unless its list is removed or the domain
\* is named by an import or by an unblock, which moves it to the list that now
\* is named WHITELIST, whitelist or not (domain_manager.cxx:169-220).
ExemptionKept ==
    [][\A d \in Exempt :
          \/ d \in Exempt'
          \/ owner[d] \notin DOMAIN policy'
          \/ \E D \in SUBSET Domain :
               d \in D /\ (Unblock(D) \/ \E n \in ListName : Import(n, D))]_<<policy, owner>>

=============================================================================
