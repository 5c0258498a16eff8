------------------------- MODULE BlockPolicyProofs -------------------------
(***************************************************************************)
(* Proofs about BlockPolicy for any lists and domains, with any number of  *)
(* clients at work.  What is proved here holds of DomainStore, which       *)
(* implements it, and of ProxyConfig, which is composed with it.           *)
(***************************************************************************)
EXTENDS BlockPolicy, TLAPS

Flag == [active : BOOLEAN, white : BOOLEAN]

\* Domains that move to a list that there is are on a list that there is.
LEMMA MoveOK ==
    ASSUME PolicyOK, NEW n \in DOMAIN policy, NEW D \in SUBSET Domain,
           Move(D, n), UNCHANGED policy
    PROVE  PolicyOK'
BY DEF PolicyOK, Move

\* The operations on lists keep every domain on a list.
LEMMA ListsOK ==
    ASSUME {CUSTOM, WHITELIST} \subseteq ListName, PolicyOK,
           \/ Reseed
           \/ \E n \in ListName :
                AddList(n) \/ DropList(n) \/ \E b \in BOOLEAN : SetActive(n, b)
    PROVE  PolicyOK'
<1> USE DEF PolicyOK
<1>1. Fresh \in Flag /\ [Fresh EXCEPT !.white = TRUE] \in Flag
  BY DEF Fresh, Flag
<1>2. CASE Reseed
  <2>1. Seeded \in [{CUSTOM, WHITELIST} -> Flag]
    BY <1>1 DEF Seeded
  <2>2. owner \in [DOMAIN owner -> DOMAIN policy'] /\ DOMAIN owner = {}
    BY <1>2 DEF Reseed
  <2> QED
    BY <1>2, <2>1, <2>2 DEF Reseed, Flag
<1>3. ASSUME NEW n \in ListName, AddList(n)
      PROVE  PolicyOK'
  <2>1. policy' \in [DOMAIN policy \cup {n} -> Flag]
    BY <1>1, <1>3 DEF AddList, Flag
  <2> QED
    BY <1>3, <2>1 DEF AddList, Flag
<1>4. ASSUME NEW n \in ListName, DropList(n)
      PROVE  PolicyOK'
  <2>1. policy' \in [DOMAIN policy \ {n} -> Flag]
    BY <1>4 DEF DropList, Flag
  <2>2. owner' \in [DOMAIN owner' -> DOMAIN policy \ {n}] /\ DOMAIN owner' \subseteq DOMAIN owner
    BY <1>4 DEF DropList
  <2> QED
    BY <2>1, <2>2 DEF Flag
<1>5. ASSUME NEW n \in ListName, NEW b \in BOOLEAN, SetActive(n, b)
      PROVE  PolicyOK'
  <2>1. policy' \in [DOMAIN policy -> Flag]
    BY <1>5 DEF SetActive, Flag
  <2> QED
    BY <1>5, <2>1 DEF SetActive, Flag
<1> QED
  BY <1>2, <1>3, <1>4, <1>5

\* A step of any client is one of those.
LEMMA SharedKinds ==
    ASSUME SharedNext
    PROVE  \/ Reseed
           \/ \E n \in ListName :
                AddList(n) \/ DropList(n) \/ \E b \in BOOLEAN : SetActive(n, b)
           \/ \E n \in DOMAIN policy, D \in SUBSET Domain :
                /\ UNCHANGED policy
                /\ Move(D, n)
                /\ D \cap Exempt = {} \/ Unblock(D) \/ (n \in ListName /\ Import(n, D))
<1>1. ASSUME NEW n, NEW D \in SUBSET Domain, BlockInto(n, D)
      PROVE  \E E \in SUBSET Domain :
               n \in DOMAIN policy /\ UNCHANGED policy /\ Move(E, n) /\ E \cap Exempt = {}
  BY <1>1 DEF BlockInto
<1>2. ASSUME NEW D \in SUBSET Domain, Unblock(D)
      PROVE  WHITELIST \in DOMAIN policy /\ UNCHANGED policy /\ Move(D, WHITELIST)
  BY <1>2 DEF Unblock
<1>3. ASSUME NEW n \in ListName, NEW D \in SUBSET Domain, Import(n, D)
      PROVE  n \in DOMAIN policy /\ UNCHANGED policy /\ Move(D, n)
  BY <1>3 DEF Import
<1> QED
  BY <1>1, <1>2, <1>3 DEF SharedNext, Next, Block

\* Every domain is on one list, and the list exists.
THEOREM PolicySound ==
    ASSUME {CUSTOM, WHITELIST} \subseteq ListName
    PROVE  SharedSpec => []PolicyOK
<1>1. Init => PolicyOK
  <2>1. Seeded \in [{CUSTOM, WHITELIST} -> Flag]
    BY DEF Seeded, Fresh, Flag
  <2> QED
    BY <2>1 DEF Init, PolicyOK, Flag
<1>2. PolicyOK /\ [SharedNext]_<<policy, owner>> => PolicyOK'
  <2>1. PolicyOK /\ UNCHANGED <<policy, owner>> => PolicyOK'
    BY DEF PolicyOK
  <2> QED
    BY <2>1, MoveOK, ListsOK, SharedKinds
<1> QED
  BY <1>1, <1>2, PTL DEF SharedSpec

\* Blocking takes no domain off a whitelist, whoever else is at work.
THEOREM ExemptionIsKept ==
    ASSUME {CUSTOM, WHITELIST} \subseteq ListName
    PROVE  SharedSpec => ExemptionKept
<1> DEFINE Kept == \A d \in Exempt :
              \/ d \in Exempt'
              \/ owner[d] \notin DOMAIN policy'
              \/ \E D \in SUBSET Domain :
                   d \in D /\ (Unblock(D) \/ \E n \in ListName : Import(n, D))
<1>1. PolicyOK /\ SharedNext => Kept
  <2> SUFFICES ASSUME PolicyOK, SharedNext, NEW d \in Exempt,
                      owner[d] \in DOMAIN policy',
                      ~ \E D \in SUBSET Domain :
                          d \in D /\ (Unblock(D) \/ \E n \in ListName : Import(n, D))
               PROVE  d \in Exempt'
    OBVIOUS
  <2>1. d \in DOMAIN owner /\ owner[d] \in DOMAIN policy /\ policy[owner[d]].white
    BY DEF Exempt, PolicyOK
  <2>2. CASE Reseed
    BY <2>1, <2>2 DEF Reseed
  <2>3. ASSUME NEW n \in ListName, AddList(n)
        PROVE  d \in Exempt'
    BY <2>1, <2>3 DEF AddList, Exempt
  <2>4. ASSUME NEW n \in ListName, DropList(n)
        PROVE  d \in Exempt'
    <3>1. policy' = [m \in DOMAIN policy \ {n} |-> policy[m]]
      BY <2>4 DEF DropList
    <3>2. owner[d] # n
      BY <3>1
    <3>3. d \in DOMAIN owner' /\ owner'[d] = owner[d] /\ policy'[owner[d]] = policy[owner[d]]
      BY <2>1, <2>4, <3>1, <3>2 DEF DropList
    <3> QED
      BY <2>1, <3>3 DEF Exempt
  <2>5. ASSUME NEW n \in ListName, NEW b \in BOOLEAN, SetActive(n, b)
        PROVE  d \in Exempt'
    <3>1. owner' = owner
      BY <2>5 DEF SetActive
    <3>2. policy'[owner[d]].white = policy[owner[d]].white
      BY <2>1, <2>5 DEF SetActive, PolicyOK
    <3> QED
      BY <2>1, <3>1, <3>2 DEF Exempt
  <2>6. ASSUME NEW n \in DOMAIN policy, NEW D \in SUBSET Domain, UNCHANGED policy, Move(D, n),
               d \notin D
        PROVE  d \in Exempt'
    BY <2>1, <2>6 DEF Move, Exempt
  <2> QED
    BY <2>2, <2>3, <2>4, <2>5, <2>6, SharedKinds
<1>2. PolicyOK /\ [SharedNext]_<<policy, owner>> => [Kept]_<<policy, owner>>
  BY <1>1
<1> QED
  BY PolicySound, <1>2, PTL DEF SharedSpec, ExemptionKept

=============================================================================
