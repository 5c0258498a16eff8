------------------------- MODULE DomainStoreProofs -------------------------
(***************************************************************************)
(* Proofs about DomainStore for any number of domains, lists and clients.  *)
(***************************************************************************)
EXTENDS DomainStore, TLAPS

\* No two lists have one name (ddl.hxx:23, domain_list_manager.cxx:25).
UniqueNames ==
    \A i, j \in DOMAIN lists : lists[i].name = lists[j].name => i = j

\* Only the list that is named WHITELIST can be a whitelist.
WhitelistNamed == \A i \in DOMAIN lists : lists[i].white => lists[i].name = WHITELIST

\* The invariant that every step preserves.
IInv == TypeOK /\ ReferentialIntegrity /\ UniqueNames /\ WhitelistNamed

-----------------------------------------------------------------------------
\* What a client holds stays within its type when it goes on or returns.
LEMMA OpType ==
    ASSUME op \in [Client -> Op], NEW c \in Client
    PROVE  /\ \A pc \in Pc : GoTo(c, pc) => op' \in [Client -> Op]
           /\ Return(c) => op' \in [Client -> Op]
           /\ AfterUnblock(c) => op' \in [Client -> Op]
<1>1. Rest \in Op
  BY StoreAssumption DEF Rest, Task, Op, Pc, Kind, NoId
<1>2. \A pc \in Pc : GoTo(c, pc) => op' \in [Client -> Op]
  BY DEF GoTo, Op
<1>3. Return(c) => op' \in [Client -> Op]
  BY <1>1 DEF Return
<1>4. AfterUnblock(c) => op' \in [Client -> Op]
  BY <1>2, <1>3 DEF AfterUnblock, Pc
<1>5. QED
  BY <1>2, <1>3, <1>4

\* The seeded rows are rows, of which one is the whitelist.
LEMMA SeedType ==
    /\ DOMAIN Seed = {1, 2}
    /\ Seed \in [{1, 2} -> Row]
    /\ {1, 2} \subseteq ListId
    /\ Seed[1].name = CUSTOM /\ ~Seed[1].white
    /\ Seed[2].name = WHITELIST /\ Seed[2].white
<1>1. NewRow(CUSTOM) \in Row /\ NewRow(WHITELIST) \in Row
  BY StoreAssumption DEF NewRow, Row
<1>2. [NewRow(WHITELIST) EXCEPT !.white = TRUE] \in Row
  BY <1>1 DEF Row
<1>3. DOMAIN Seed = {1, 2} /\ Seed \in [{1, 2} -> Row]
  BY <1>1, <1>2 DEF Seed
<1>4. {1, 2} \subseteq ListId
  BY StoreAssumption DEF ListId
<1>5. Seed[1].name = CUSTOM /\ ~Seed[1].white
  BY DEF Seed, NewRow
<1>6. Seed[2].name = WHITELIST /\ Seed[2].white
  BY DEF Seed, NewRow
<1>7. QED
  BY <1>3, <1>4, <1>5, <1>6

\* The id of a new row is not in use.
LEMMA FreshIdIsNew ==
    ASSUME DOMAIN lists \subseteq ListId, NEW i \in ListId, FreshId(i)
    PROVE  i \notin DOMAIN lists
BY StoreAssumption DEF FreshId, ListId

-----------------------------------------------------------------------------
\* The invariant holds in a database that was just created.
LEMMA InitInv == Init => IInv
<1> SUFFICES ASSUME Init PROVE IInv
  OBVIOUS
<1>1. TypeOK
  <2>1. Rest \in Op
    BY StoreAssumption DEF Rest, Task, Op, Pc, Kind, NoId
  <2>2. QED
    BY <2>1, SeedType DEF Init, TypeOK
<1>2. ReferentialIntegrity
  BY DEF Init, ReferentialIntegrity
<1>3. UniqueNames /\ WhitelistNamed
  BY SeedType, StoreAssumption DEF Init, UniqueNames, WhitelistNamed
<1>4. QED
  BY <1>1, <1>2, <1>3 DEF IInv

\* Every step of every client preserves it.
LEMMA StepInv ==
    ASSUME IInv, NEW c \in Client, Step(c)
    PROVE  IInv'
<1> USE DEF IInv
<1>0. op[c] \in Op
  BY DEF TypeOK
<1>1. CASE BeginCommandLine(c)
  <2>1. PICK t \in Tasks : op' = [op EXCEPT ![c] = [t EXCEPT !.pc = "open"]]
    BY <1>1 DEF BeginCommandLine
  <2>2. t \in Op
    BY StoreAssumption DEF Tasks, Task, Op, Pc, Kind, NoId
  <2>3. TypeOK'
    BY <1>1, <2>1, <2>2 DEF BeginCommandLine, TypeOK, Op, Pc
  <2>4. QED
    BY <1>1, <2>3 DEF BeginCommandLine, ReferentialIntegrity, UniqueNames, WhitelistNamed
<1>2. CASE BeginService(c)
  <2>1. PICK t \in Tasks : op' = [op EXCEPT ![c] = [t EXCEPT !.pc = Entry(t)]]
    BY <1>2 DEF BeginService
  <2>2. t \in Op
    BY StoreAssumption DEF Tasks, Task, Op, Pc, Kind, NoId
  <2>3. Entry(t) \in Pc
    BY DEF Entry, Pc
  <2>4. TypeOK'
    BY <1>2, <2>1, <2>2, <2>3 DEF BeginService, TypeOK, Op
  <2>5. QED
    BY <1>2, <2>4 DEF BeginService, ReferentialIntegrity, UniqueNames, WhitelistNamed
<1>3. CASE OpenDb(c)
  <2>1. Entry(op[c]) \in Pc
    BY DEF Entry, Pc
  <2>2. op' \in [Client -> Op]
    BY <1>3, <2>1, OpType DEF OpenDb, TypeOK
  <2>3. CASE DOMAIN lists = {}
    <3>1. lists' = Seed /\ domains' = domains /\ DOMAIN domains = {}
      BY <1>3, <2>3 DEF OpenDb, ReferentialIntegrity
    <3>2. TypeOK'
      BY <2>2, <3>1, SeedType DEF TypeOK
    <3>3. (ReferentialIntegrity /\ UniqueNames /\ WhitelistNamed)'
      BY <3>1, SeedType, StoreAssumption DEF ReferentialIntegrity, UniqueNames, WhitelistNamed
    <3>4. QED
      BY <3>2, <3>3
  <2>4. CASE DOMAIN lists # {}
    <3>1. lists' = lists /\ domains' = domains
      BY <1>3, <2>4 DEF OpenDb
    <3>2. QED
      BY <2>2, <3>1 DEF TypeOK, ReferentialIntegrity, UniqueNames, WhitelistNamed
  <2>5. QED
    BY <2>3, <2>4
<1>4. CASE Unblock(c)
  <2>1. op' \in [Client -> Op] /\ lists' = lists
    BY <1>4, OpType DEF Unblock, TypeOK
  <2>2. PICK i \in Named(WHITELIST) :
           domains' = [d \in DOMAIN domains \cup op[c].un |->
                          IF d \in op[c].un THEN i ELSE domains[d]]
    BY <1>4 DEF Unblock
  <2>3. op[c].un \subseteq Domain /\ i \in DOMAIN lists
    BY <1>0, <2>2 DEF Op, Named
  <2>4. TypeOK'
    BY <2>1, <2>2, <2>3 DEF TypeOK
  <2>5. (ReferentialIntegrity /\ UniqueNames /\ WhitelistNamed)'
    BY <2>1, <2>2, <2>3 DEF ReferentialIntegrity, UniqueNames, WhitelistNamed
  <2>6. QED
    BY <2>4, <2>5
<1>5. CASE CreateList(c)
  <2>1. op' \in [Client -> Op] /\ domains' = domains
    BY <1>5, OpType DEF CreateList, TypeOK, Pc
  <2>2. CASE Named(op[c].name) # {}
    BY <1>5, <2>1, <2>2
    DEF CreateList, TypeOK, ReferentialIntegrity, UniqueNames, WhitelistNamed
  <2>3. CASE Named(op[c].name) = {}
    <3>1. PICK i \in ListId :
             /\ FreshId(i)
             /\ lists' = [j \in DOMAIN lists \cup {i} |->
                             IF j = i THEN NewRow(op[c].name) ELSE lists[j]]
      BY <1>5, <2>3 DEF CreateList
    <3>2. i \notin DOMAIN lists
      BY <3>1, FreshIdIsNew DEF TypeOK
    <3>3. /\ NewRow(op[c].name) \in Row
          /\ NewRow(op[c].name).name = op[c].name
          /\ NewRow(op[c].name).white = FALSE
      BY <1>0 DEF NewRow, Row, Op
    <3>4. TypeOK'
      BY <2>1, <3>1, <3>3 DEF TypeOK
    <3>5. ReferentialIntegrity'
      BY <2>1, <3>1 DEF ReferentialIntegrity
    <3>6. UniqueNames'
      BY <2>3, <3>1, <3>2, <3>3 DEF UniqueNames, Named
    <3>7. WhitelistNamed'
      BY <3>1, <3>3 DEF WhitelistNamed
    <3>8. QED
      BY <3>4, <3>5, <3>6, <3>7
  <2>4. QED
    BY <2>2, <2>3
<1>6. CASE LookupId(c)
  <2>1. PICK i \in Found(op[c].name) :
           IF op[c].kind = "add"
           THEN Return(c)
           ELSE op' = [op EXCEPT ![c].pc = "put", ![c].id = i]
    BY <1>6 DEF LookupId
  <2>2. i \in ListId \cup {NoId}
    BY DEF Found, Named, TypeOK
  <2>3. op' \in [Client -> Op]
    BY <1>0, <2>1, <2>2, OpType DEF TypeOK, Op, Pc
  <2>4. QED
    BY <1>6, <2>3 DEF LookupId, TypeOK, ReferentialIntegrity, UniqueNames, WhitelistNamed
<1>7. CASE PutBlock(c)
  <2> DEFINE fresh == op[c].put \ OnWhitelist
  <2>1. /\ op' \in [Client -> Op]
        /\ lists' = lists
        /\ fresh = {} \/ op[c].id \in DOMAIN lists
        /\ domains' = [d \in DOMAIN domains \cup fresh |->
                          IF d \in fresh THEN op[c].id ELSE domains[d]]
    BY <1>7, OpType DEF PutBlock, TypeOK, References
  <2>2. fresh \subseteq Domain
    BY <1>0 DEF Op
  <2> HIDE DEF fresh
  <2>3. TypeOK'
    BY <2>1, <2>2 DEF TypeOK
  <2>4. (ReferentialIntegrity /\ UniqueNames /\ WhitelistNamed)'
    BY <2>1, <2>2 DEF ReferentialIntegrity, UniqueNames, WhitelistNamed
  <2>5. QED
    BY <2>3, <2>4
<1>8. CASE PutImport(c)
  <2>1. /\ op' \in [Client -> Op]
        /\ op[c].put = {} \/ op[c].id \in DOMAIN lists
        /\ domains' = [d \in DOMAIN domains \cup op[c].put |->
                          IF d \in op[c].put THEN op[c].id ELSE domains[d]]
        /\ lists' = [i \in DOMAIN lists |->
                        IF i = op[c].id THEN [lists[i] EXCEPT !.stamped = TRUE]
                        ELSE lists[i]]
    BY <1>8, OpType DEF PutImport, TypeOK, References
  <2>2. /\ DOMAIN lists' = DOMAIN lists
        /\ lists' \in [DOMAIN lists -> Row]
        /\ \A i \in DOMAIN lists : /\ lists'[i].name = lists[i].name
                                   /\ lists'[i].white = lists[i].white
    BY <2>1 DEF TypeOK, Row
  <2>3. op[c].put \subseteq Domain
    BY <1>0 DEF Op
  <2>4. TypeOK'
    BY <2>1, <2>2, <2>3 DEF TypeOK
  <2>5. ReferentialIntegrity'
    BY <2>1, <2>2, <2>3 DEF ReferentialIntegrity
  <2>6. (UniqueNames /\ WhitelistNamed)'
    BY <2>2 DEF UniqueNames, WhitelistNamed
  <2>7. QED
    BY <2>4, <2>5, <2>6
<1>9. CASE RemoveList(c)
  <2> DEFINE left == DOMAIN lists \ Named(op[c].name)
  <2>1. /\ op' \in [Client -> Op]
        /\ lists' = [i \in left |-> lists[i]]
        /\ domains' = [d \in {e \in DOMAIN domains : domains[e] \in left} |-> domains[d]]
    BY <1>9, OpType DEF RemoveList, TypeOK
  <2>2. left \subseteq DOMAIN lists
    OBVIOUS
  <2> HIDE DEF left
  <2>3. TypeOK'
    BY <2>1, <2>2 DEF TypeOK
  <2>4. (ReferentialIntegrity /\ UniqueNames /\ WhitelistNamed)'
    BY <2>1, <2>2 DEF ReferentialIntegrity, UniqueNames, WhitelistNamed
  <2>5. QED
    BY <2>3, <2>4
<1>10. CASE SetEnabled(c)
  <2>1. /\ op' \in [Client -> Op]
        /\ domains' = domains
        /\ lists' = [i \in DOMAIN lists |->
                        IF i \in Named(op[c].name)
                        THEN [lists[i] EXCEPT !.active = (op[c].kind = "enable")]
                        ELSE lists[i]]
    BY <1>10, OpType DEF SetEnabled, TypeOK
  <2>2. (op[c].kind = "enable") \in BOOLEAN
    OBVIOUS
  <2>3. /\ DOMAIN lists' = DOMAIN lists
        /\ lists' \in [DOMAIN lists -> Row]
        /\ \A i \in DOMAIN lists : /\ lists'[i].name = lists[i].name
                                   /\ lists'[i].white = lists[i].white
    BY <2>1, <2>2 DEF TypeOK, Row
  <2>4. QED
    BY <2>1, <2>3 DEF TypeOK, ReferentialIntegrity, UniqueNames, WhitelistNamed
<1>11. CASE Raise(c)
  <2>1. op' \in [Client -> Op]
    BY <1>0, <1>11, OpType DEF Raise, TypeOK, Op, Pc
  <2>2. QED
    BY <1>11, <2>1 DEF Raise, TypeOK, ReferentialIntegrity, UniqueNames, WhitelistNamed
<1>12. CASE Crash(c)
  <2>1. op' \in [Client -> Op]
    BY <1>12, OpType DEF Crash, TypeOK
  <2>2. QED
    BY <1>12, <2>1 DEF Crash, TypeOK, ReferentialIntegrity, UniqueNames, WhitelistNamed
<1>13. QED
  BY <1>1, <1>2, <1>3, <1>4, <1>5, <1>6, <1>7, <1>8, <1>9, <1>10, <1>11, <1>12 DEF Step

\* A step that changes no variable preserves it too.
LEMMA StutterInv == IInv /\ UNCHANGED vars => IInv'
BY DEF IInv, vars, TypeOK, ReferentialIntegrity, UniqueNames, WhitelistNamed

-----------------------------------------------------------------------------
\* How one step changes the lists: no row turns into a whitelist, and the only
\* whitelist rows that appear are seeded.
LEMMA StepWhitelists ==
    ASSUME IInv, NEW c \in Client, Step(c)
    PROVE  \A i \in DOMAIN lists' :
              lists'[i].white => \/ DOMAIN lists = {}
                                 \/ i \in DOMAIN lists /\ lists[i].white
<1>1. CASE OpenDb(c)
  BY <1>1 DEF OpenDb
<1>2. CASE CreateList(c)
  <2>1. CASE lists' = lists
    BY <2>1
  <2>2. CASE lists' # lists
    <3>1. PICK j \in ListId :
             lists' = [i \in DOMAIN lists \cup {j} |->
                          IF i = j THEN NewRow(op[c].name) ELSE lists[i]]
      BY <1>2, <2>2 DEF CreateList
    <3>2. NewRow(op[c].name).white = FALSE
      BY DEF NewRow
    <3>3. QED
      BY <3>1, <3>2
  <2>3. QED
    BY <2>1, <2>2
<1>3. CASE PutImport(c)
  BY <1>3 DEF PutImport, IInv, TypeOK, Row
<1>4. CASE RemoveList(c)
  BY <1>4 DEF RemoveList
<1>5. CASE SetEnabled(c)
  BY <1>5 DEF SetEnabled, IInv, TypeOK, Row
<1>6. CASE UNCHANGED lists
  BY <1>6
<1>7. QED
  BY <1>1, <1>2, <1>3, <1>4, <1>5, <1>6
  DEF Step, BeginCommandLine, BeginService, Unblock, LookupId, PutBlock, Raise, Crash

\* How one step changes a domain that is on a whitelist.
LEMMA StepKeepsWhitelist ==
    ASSUME IInv, NEW c \in Client, Step(c), NEW d \in OnWhitelist
    PROVE  \/ d \in DOMAIN domains' /\ domains'[d] = domains[d]
           \/ Importing(d)
           \/ domains[d] \notin DOMAIN lists'
<1>1. d \in DOMAIN domains /\ domains[d] \in DOMAIN lists /\ lists[domains[d]].white
  BY DEF OnWhitelist, IInv, ReferentialIntegrity
<1>2. CASE Unblock(c)
  <2>1. \A i \in Named(WHITELIST) : i = domains[d]
    BY <1>1 DEF Named, IInv, UniqueNames, WhitelistNamed
  <2>2. QED
    BY <1>1, <1>2, <2>1 DEF Unblock
<1>3. CASE PutBlock(c)
  BY <1>1, <1>3 DEF PutBlock
<1>4. CASE PutImport(c)
  BY <1>1, <1>4 DEF PutImport, Importing
<1>5. CASE RemoveList(c)
  BY <1>1, <1>5 DEF RemoveList
<1>6. CASE UNCHANGED domains
  BY <1>1, <1>6
<1>7. QED
  BY <1>2, <1>3, <1>4, <1>5, <1>6
  DEF Step, BeginCommandLine, BeginService, OpenDb, CreateList, LookupId, SetEnabled,
      Raise, Crash

\* How one step changes the set of domains that are listed.
LEMMA StepKeepsDomains ==
    ASSUME IInv, NEW c \in Client, Step(c), NEW d \in DOMAIN domains
    PROVE  d \in DOMAIN domains' \/ domains[d] \notin DOMAIN lists'
<1>1. CASE Unblock(c)
  BY <1>1 DEF Unblock
<1>2. CASE PutBlock(c)
  BY <1>2 DEF PutBlock
<1>3. CASE PutImport(c)
  BY <1>3 DEF PutImport
<1>4. CASE RemoveList(c)
  BY <1>4 DEF RemoveList
<1>5. CASE UNCHANGED domains
  BY <1>5
<1>6. QED
  BY <1>1, <1>2, <1>3, <1>4, <1>5
  DEF Step, BeginCommandLine, BeginService, OpenDb, CreateList, LookupId, SetEnabled,
      Raise, Crash

-----------------------------------------------------------------------------
\* The inductive invariant of the store.
THEOREM StoreInvariant == Spec => []IInv
<1>1. IInv /\ [Next]_vars => IInv'
  BY StepInv, StutterInv DEF Next
<1>2. QED
  BY InitInv, <1>1, PTL DEF Spec

\* Every row and every client stay within their type.
THEOREM TypeCorrect == Spec => []TypeOK
<1>1. IInv => TypeOK
  BY DEF IInv
<1>2. QED
  BY StoreInvariant, <1>1, PTL

\* No domain row ever points at a list that is gone.
THEOREM StoreReferentialIntegrity == Spec => []ReferentialIntegrity
<1>1. IInv => ReferentialIntegrity
  BY DEF IInv
<1>2. QED
  BY StoreInvariant, <1>1, PTL

\* No list but a seeded one is ever a whitelist.
THEOREM StoreWhitelistOnlySeeded == Spec => WhitelistOnlySeeded
<1> DEFINE Seeded ==
             \A i \in DOMAIN lists' :
                lists'[i].white => \/ DOMAIN lists = {}
                                   \/ i \in DOMAIN lists /\ lists[i].white
<1>1. IInv /\ [Next]_vars => [Seeded]_vars
  BY StepWhitelists DEF Next
<1>2. QED
  BY StoreInvariant, <1>1, PTL DEF Spec, WhitelistOnlySeeded

\* Blocking, creating and enabling never take a domain off its whitelist.
THEOREM StoreWhitelistKept == Spec => WhitelistKept
<1> DEFINE Kept ==
             \A d \in OnWhitelist :
                \/ d \in DOMAIN domains' /\ domains'[d] = domains[d]
                \/ Importing(d)
                \/ domains[d] \notin DOMAIN lists'
<1>1. IInv /\ [Next]_vars => [Kept]_vars
  BY StepKeepsWhitelist DEF Next
<1>2. QED
  BY StoreInvariant, <1>1, PTL DEF Spec, WhitelistKept

\* No operation drops a domain that is listed, except by removing its list.
THEOREM StoreNoDomainLost == Spec => NoDomainLost
<1> DEFINE Listed ==
             \A d \in DOMAIN domains :
                d \in DOMAIN domains' \/ domains[d] \notin DOMAIN lists'
<1>1. IInv /\ [Next]_vars => [Listed]_vars
  BY StepKeepsDomains DEF Next
<1>2. QED
  BY StoreInvariant, <1>1, PTL DEF Spec, NoDomainLost

-----------------------------------------------------------------------------
(***************************************************************************)
(* The store implements BlockPolicy: all of it with one client, and with    *)
(* more of them but for the list that a block or an import goes to.         *)
(***************************************************************************)

\* The flags of a row, as the rows are written.
LEMMA FlagsFacts ==
    /\ \A n \in ListName : Flags(NewRow(n)) = Policy!Fresh
    /\ \A r \in Row, b \in BOOLEAN :
         Flags([r EXCEPT !.white = b]) = [Flags(r) EXCEPT !.white = b]
    /\ \A r \in Row, b \in BOOLEAN :
         Flags([r EXCEPT !.active = b]) = [Flags(r) EXCEPT !.active = b]
    /\ \A r \in Row : Flags([r EXCEPT !.stamped = TRUE]) = Flags(r)
<1>1. \A n \in ListName : Flags(NewRow(n)) = Policy!Fresh
  BY DEF Flags, NewRow, Policy!Fresh
<1>2. \A r \in Row, b \in BOOLEAN :
        Flags([r EXCEPT !.white = b]) = [Flags(r) EXCEPT !.white = b]
  BY DEF Flags, Row
<1>3. \A r \in Row, b \in BOOLEAN :
        Flags([r EXCEPT !.active = b]) = [Flags(r) EXCEPT !.active = b]
  BY DEF Flags, Row
<1>4. \A r \in Row : Flags([r EXCEPT !.stamped = TRUE]) = Flags(r)
  BY DEF Flags, Row
<1> QED
  BY <1>1, <1>2, <1>3, <1>4

\* Names being unique, the policy of a list is what its row says.
PolicyIsRows ==
    /\ DOMAIN PolicyOf = {lists[i].name : i \in DOMAIN lists}
    /\ \A i \in DOMAIN lists : PolicyOf[lists[i].name] = Flags(lists[i])
    /\ PolicyOf = [n \in DOMAIN PolicyOf |-> PolicyOf[n]]

LEMMA PolicyFacts == IInv => PolicyIsRows
<1> SUFFICES ASSUME IInv PROVE PolicyIsRows
  OBVIOUS
<1>1. DOMAIN PolicyOf = {lists[i].name : i \in DOMAIN lists}
      /\ PolicyOf = [n \in DOMAIN PolicyOf |-> PolicyOf[n]]
  BY DEF PolicyOf
<1>2. ASSUME NEW i \in DOMAIN lists PROVE PolicyOf[lists[i].name] = Flags(lists[i])
  <2>1. i \in Named(lists[i].name)
    BY DEF Named
  <2>2. (CHOOSE j \in Named(lists[i].name) : TRUE) \in Named(lists[i].name)
    BY <2>1
  <2>3. (CHOOSE j \in Named(lists[i].name) : TRUE) = i
    BY <2>2 DEF Named, IInv, UniqueNames
  <2>4. PolicyOf[lists[i].name] = Flags(lists[CHOOSE j \in Named(lists[i].name) : TRUE])
    BY DEF PolicyOf
  <2> QED
    BY <2>3, <2>4
<1> QED
  BY <1>1, <1>2 DEF PolicyIsRows

\* What leaves names and flags alone leaves the policy alone.
LEMMA SamePolicy ==
    ASSUME PolicyIsRows, PolicyIsRows', DOMAIN lists' = DOMAIN lists,
           \A i \in DOMAIN lists :
              lists'[i].name = lists[i].name /\ Flags(lists'[i]) = Flags(lists[i])
    PROVE  PolicyOf' = PolicyOf
<1>1. DOMAIN PolicyOf' = DOMAIN PolicyOf
  BY DEF PolicyIsRows
<1>2. \A n \in DOMAIN PolicyOf : PolicyOf'[n] = PolicyOf[n]
  BY DEF PolicyIsRows
<1> QED
  BY <1>1, <1>2 DEF PolicyIsRows

\* Domains that are written to a row move to the list of that row.
LEMMA Moves ==
    ASSUME IInv, NEW D, NEW i \in DOMAIN lists,
           \A j \in DOMAIN lists : lists'[j].name = lists[j].name,
           domains' = [d \in DOMAIN domains \cup D |-> IF d \in D THEN i ELSE domains[d]]
    PROVE  Policy!Move(D, lists[i].name)
<1>1. DOMAIN OwnerOf = DOMAIN domains /\ \A d \in DOMAIN domains : OwnerOf[d] = lists[domains[d]].name
  BY DEF OwnerOf
<1>2. \A d \in DOMAIN domains : domains[d] \in DOMAIN lists
  BY DEF IInv, ReferentialIntegrity
<1>3. OwnerOf' = [d \in DOMAIN domains \cup D |->
                    IF d \in D THEN lists[i].name ELSE lists[domains[d]].name]
  BY <1>2 DEF OwnerOf
<1> QED
  BY <1>1, <1>3 DEF Policy!Move

\* While no one else is at work, the id that was looked up is that of the list
\* that was asked for.
Holding ==
    \A c \in Client :
        /\ op[c].pc = "put" => op[c].id = NoId \/ op[c].id \in Named(op[c].name)
        /\ op[c].kind = "manage" => op[c].name = CUSTOM

LEMMA InitHolding == Init => Holding
BY DEF Init, Holding, Rest, Task

\* While one client is at work, each of its steps keeps it so.
LEMMA HoldingStep ==
    ASSUME \A a, b \in Client : a = b, IInv, Holding, NEW c \in Client, Step(c)
    PROVE  Holding'
<1>1. op[c] \in Op /\ op' \in [Client -> Op]
  BY StepInv DEF IInv, TypeOK
<1>2. SUFFICES /\ op'[c].pc = "put" =>
                     \/ op'[c].id = NoId
                     \/ op'[c].id \in {i \in DOMAIN lists' : lists'[i].name = op'[c].name}
               /\ op'[c].kind = "manage" => op'[c].name = CUSTOM
  BY DEF Holding, Named
<1>3. Rest.pc = "idle" /\ Rest.name = CUSTOM
  BY DEF Rest, Task
<1>4. Return(c) => op'[c] = Rest
  BY DEF Return, IInv, TypeOK
<1>5. ASSUME NEW pc \in Pc, GoTo(c, pc)
      PROVE  /\ op'[c].pc = pc
             /\ op'[c].kind = op[c].kind
             /\ op'[c].name = op[c].name
  BY <1>1, <1>5 DEF GoTo, IInv, TypeOK, Op
<1>6. CASE Return(c)
  BY <1>3, <1>4, <1>6
<1>7. CASE \E pc \in Pc \ {"put"} : GoTo(c, pc)
  BY <1>5, <1>7 DEF Holding
<1>8. CASE BeginCommandLine(c) \/ BeginService(c)
  <2>1. PICK t \in Tasks, pc \in Pc \ {"put"} : op' = [op EXCEPT ![c] = [t EXCEPT !.pc = pc]]
    BY <1>8 DEF BeginCommandLine, BeginService, Entry, Pc
  <2>2. t \in Op /\ (t.kind = "manage" => t.name = CUSTOM)
    BY StoreAssumption DEF Tasks, Task, Op, Pc, Kind, NoId
  <2> QED
    BY <1>1, <2>1, <2>2 DEF Op
<1>9. CASE LookupId(c)
  <2>1. PICK i \in Found(op[c].name) :
           IF op[c].kind = "add"
           THEN Return(c)
           ELSE op' = [op EXCEPT ![c].pc = "put", ![c].id = i]
    BY <1>9 DEF LookupId
  <2>2. CASE op' = [op EXCEPT ![c].pc = "put", ![c].id = i]
    <3>1. op'[c].id = i /\ op'[c].name = op[c].name /\ op'[c].kind = op[c].kind
      BY <1>1, <2>2 DEF Op, IInv, TypeOK
    <3>2. lists' = lists
      BY <1>9 DEF LookupId
    <3> QED
      BY <3>1, <3>2 DEF Found, Named, Holding
  <2> QED
    BY <1>6, <2>1, <2>2
<1>10. CASE op' = [op EXCEPT ![c].pc = "put", ![c].id = NoId]
  BY <1>1, <1>10 DEF Op, Holding
<1>11. AfterUnblock(c) => Return(c) \/ \E pc \in Pc \ {"put"} : GoTo(c, pc)
  BY DEF AfterUnblock, Pc
<1>12. Entry(op[c]) \in Pc \ {"put"}
  BY DEF Entry, Pc
<1>13. CASE OpenDb(c) \/ CreateList(c)
  BY <1>7, <1>12, <1>13 DEF OpenDb, CreateList, Pc
<1>14. CASE Unblock(c)
  BY <1>6, <1>7, <1>11, <1>14 DEF Unblock
<1>15. CASE PutBlock(c) \/ PutImport(c) \/ RemoveList(c) \/ SetEnabled(c) \/ Crash(c)
  BY <1>6, <1>15 DEF PutBlock, PutImport, RemoveList, SetEnabled, Crash
<1>16. CASE Raise(c)
  BY <1>6, <1>7, <1>10, <1>11, <1>16 DEF Raise
<1> QED
  BY <1>8, <1>9, <1>13, <1>14, <1>15, <1>16 DEF Step

\* What leaves the tables alone leaves the policy and the owners alone.
LEMMA SameTables ==
    lists' = lists /\ domains' = domains => PolicyOf' = PolicyOf /\ OwnerOf' = OwnerOf
BY DEF PolicyOf, OwnerOf, Named

\* Owners only look at the names of the lists.
LEMMA SameOwners ==
    ASSUME IInv, domains' = domains,
           \A i \in DOMAIN lists : i \in DOMAIN lists' /\ lists'[i].name = lists[i].name
    PROVE  OwnerOf' = OwnerOf
BY DEF OwnerOf, IInv, ReferentialIntegrity

\* An empty database is seeded as the policy is.
LEMMA SeedPolicy ==
    ASSUME lists = Seed, PolicyIsRows
    PROVE  PolicyOf = Policy!Seeded
<1>1. DOMAIN lists = {1, 2} /\ lists[1] = NewRow(CUSTOM)
      /\ lists[2] = [NewRow(WHITELIST) EXCEPT !.white = TRUE]
  BY DEF Seed
<1>2. lists[2].name = WHITELIST
  BY SeedType
<1>3. NewRow(WHITELIST) \in Row
  BY StoreAssumption DEF NewRow, Row
<1>4. Flags(lists[1]) = Policy!Fresh
  BY <1>1, FlagsFacts, StoreAssumption
<1>5. Flags(lists[2]) = [Policy!Fresh EXCEPT !.white = TRUE]
  BY <1>1, <1>3, FlagsFacts, StoreAssumption
<1>6. lists[1].name = CUSTOM
  BY SeedType
<1>7. DOMAIN PolicyOf = {CUSTOM, WHITELIST}
  <2>1. {lists[i].name : i \in {1, 2}} = {lists[1].name, lists[2].name}
    OBVIOUS
  <2>2. DOMAIN PolicyOf = {lists[i].name : i \in {1, 2}}
    BY <1>1 DEF PolicyIsRows
  <2> QED
    BY <1>2, <1>6, <2>1, <2>2
<1>8. PolicyOf[CUSTOM] = Policy!Fresh /\ PolicyOf[WHITELIST] = [Policy!Fresh EXCEPT !.white = TRUE]
  BY <1>1, <1>2, <1>4, <1>5, <1>6 DEF PolicyIsRows
<1> QED
  BY <1>7, <1>8, StoreAssumption DEF PolicyIsRows, Policy!Seeded

\* What each transaction does to the policy: what its name says, to the list
\* that has the id which was looked up, or nothing.
Simulates(c) ==
    \/ PolicyOf' = PolicyOf /\ OwnerOf' = OwnerOf
    \/ Policy!Next
    \/ /\ op[c].pc = "put"
       /\ op[c].id \in DOMAIN lists
       /\ \/ op[c].kind = "manage" /\ Policy!BlockInto(lists[op[c].id].name, op[c].put)
          \/ op[c].kind = "import" /\ Policy!Import(lists[op[c].id].name, op[c].put)

LEMMA StepSimulates ==
    ASSUME IInv, NEW c \in Client, Step(c)
    PROVE  Simulates(c)
<1> USE DEF Simulates
<1> DEFINE o == op[c]
<1>1. o \in Op /\ o.name \in ListName /\ o.put \subseteq Domain /\ o.un \subseteq Domain
  BY DEF IInv, TypeOK, Op
<1>2. PolicyIsRows /\ PolicyIsRows'
  <2>1. IInv'
    BY StepInv
  <2> QED
    BY <2>1, PolicyFacts, PTL
<1>3. lists \in [DOMAIN lists -> Row] /\ domains \in [DOMAIN domains -> ListId]
  BY DEF IInv, TypeOK
<1>4. \A n \in DOMAIN PolicyOf : \E i \in Named(n) : TRUE
  BY <1>2 DEF PolicyIsRows, Named
<1>5. \A n \in ListName : Named(n) # {} <=> n \in DOMAIN PolicyOf
  BY <1>2 DEF PolicyIsRows, Named
<1>6. CASE OpenDb(c)
  <2>1. CASE DOMAIN lists # {}
    BY <1>6, <2>1, SameTables DEF OpenDb
  <2>2. CASE DOMAIN lists = {}
    <3>1. lists' = Seed /\ domains' = domains /\ DOMAIN domains = {}
      BY <1>6, <2>2 DEF OpenDb, IInv, ReferentialIntegrity
    <3>2. PolicyOf' = Policy!Seeded
      <4>1. (lists = Seed /\ PolicyIsRows => PolicyOf = Policy!Seeded)'
        BY SeedPolicy, PTL
      <4> QED
        BY <1>2, <3>1, <4>1 DEF Seed, NewRow, Policy!Seeded, Policy!Fresh
    <3>3. OwnerOf' = OwnerOf
      BY <3>1 DEF OwnerOf
    <3>4. DOMAIN PolicyOf = {}
      BY <1>2, <2>2 DEF PolicyIsRows
    <3> QED
      BY <3>2, <3>3, <3>4 DEF Policy!Reseed, Policy!Next
  <2> QED
    BY <2>1, <2>2
<1>7. CASE Unblock(c)
  <2>1. PICK i \in Named(WHITELIST) :
           domains' = [d \in DOMAIN domains \cup o.un |->
                          IF d \in o.un THEN i ELSE domains[d]]
    BY <1>7 DEF Unblock
  <2>2. i \in DOMAIN lists /\ lists[i].name = WHITELIST /\ lists' = lists
    BY <1>7, <2>1 DEF Unblock, Named
  <2>3. Policy!Move(o.un, WHITELIST)
    BY <2>1, <2>2, Moves
  <2>4. PolicyOf' = PolicyOf /\ WHITELIST \in DOMAIN PolicyOf
    BY <1>2, <2>2 DEF PolicyOf, PolicyIsRows, Named
  <2> QED
    BY <1>1, <2>3, <2>4 DEF Policy!Unblock, Policy!Next
<1>8. CASE CreateList(c)
  <2>1. CASE Named(o.name) # {}
    BY <1>8, <2>1, SameTables DEF CreateList
  <2>2. CASE Named(o.name) = {}
    <3>1. PICK i \in ListId :
             /\ FreshId(i)
             /\ lists' = [j \in DOMAIN lists \cup {i} |->
                             IF j = i THEN NewRow(o.name) ELSE lists[j]]
      BY <1>8, <2>2 DEF CreateList
    <3>2. i \notin DOMAIN lists /\ domains' = domains
      BY <1>8, <3>1, FreshIdIsNew DEF IInv, TypeOK, CreateList
    <3>3. \A j \in DOMAIN lists : j \in DOMAIN lists' /\ lists'[j] = lists[j]
      BY <3>1, <3>2
    <3>4. DOMAIN lists' = DOMAIN lists \cup {i} /\ lists'[i].name = o.name
          /\ Flags(lists'[i]) = Policy!Fresh
      BY <1>1, <3>1, FlagsFacts DEF NewRow
    <3>5. OwnerOf' = OwnerOf
      BY <3>2, <3>3, SameOwners
    <3>6. o.name \notin DOMAIN PolicyOf
      BY <1>1, <1>5, <2>2
    <3>7. DOMAIN PolicyOf' = DOMAIN PolicyOf \cup {o.name}
      BY <1>2, <3>3, <3>4 DEF PolicyIsRows
    <3>8. PolicyOf'[o.name] = Policy!Fresh
      BY <1>2, <3>4 DEF PolicyIsRows, Flags
    <3>9. ASSUME NEW n \in DOMAIN PolicyOf PROVE PolicyOf'[n] = PolicyOf[n]
      <4>1. PICK j \in Named(n) : TRUE
        BY <1>4
      <4>2. PolicyOf[n] = Flags(lists[j])
        BY <1>2, <4>1 DEF PolicyIsRows, Named
      <4>3. PolicyOf'[n] = Flags(lists'[j])
        BY <1>2, <3>3, <4>1 DEF PolicyIsRows, Named
      <4> QED
        BY <3>3, <4>1, <4>2, <4>3 DEF Named
    <3>10. Policy!AddList(o.name)
      BY <1>2, <3>5, <3>6, <3>7, <3>8, <3>9 DEF PolicyIsRows, Policy!AddList
    <3> QED
      BY <1>1, <3>10 DEF Policy!Next
  <2> QED
    BY <2>1, <2>2
<1>9. CASE PutBlock(c)
  <2> DEFINE fresh == o.put \ OnWhitelist
  <2>1. /\ lists' = lists
        /\ fresh = {} \/ o.id \in DOMAIN lists
        /\ domains' = [d \in DOMAIN domains \cup fresh |->
                          IF d \in fresh THEN o.id ELSE domains[d]]
    BY <1>9 DEF PutBlock, References
  <2>3. Policy!Exempt = OnWhitelist
    <3>1. ASSUME NEW d \in DOMAIN domains
          PROVE  PolicyOf[OwnerOf[d]].white = lists[domains[d]].white
      <4>1. OwnerOf[d] = lists[domains[d]].name /\ domains[d] \in DOMAIN lists
        BY DEF OwnerOf, IInv, ReferentialIntegrity
      <4>2. PolicyOf[OwnerOf[d]] = Flags(lists[domains[d]])
        BY <1>2, <4>1 DEF PolicyIsRows
      <4> QED
        BY <4>2 DEF Flags
    <3>2. DOMAIN OwnerOf = DOMAIN domains
      BY DEF OwnerOf
    <3> QED
      BY <3>1, <3>2 DEF Policy!Exempt, OnWhitelist
  <2> HIDE DEF fresh
  <2>4. CASE fresh = {}
    <3>1. domains' = domains
      BY <1>3, <2>1, <2>4
    <3> QED
      BY <2>1, <3>1, SameTables
  <2>5. CASE o.id \in DOMAIN lists
    <3> DEFINE n == lists[o.id].name
    <3>1. Policy!Move(fresh, n)
      BY <2>1, <2>5, Moves
    <3>2. PolicyOf' = PolicyOf /\ n \in DOMAIN PolicyOf
      BY <1>2, <2>1, <2>5 DEF PolicyOf, PolicyIsRows, Named
    <3>3. Policy!BlockInto(n, o.put)
      BY <2>3, <3>1, <3>2 DEF Policy!BlockInto, fresh
    <3> QED
      BY <1>9, <2>5, <3>3 DEF PutBlock
  <2> QED
    BY <2>1, <2>4, <2>5
<1>10. CASE PutImport(c)
  <2>1. /\ o.put = {} \/ o.id \in DOMAIN lists
        /\ domains' = [d \in DOMAIN domains \cup o.put |->
                          IF d \in o.put THEN o.id ELSE domains[d]]
        /\ lists' = [i \in DOMAIN lists |->
                        IF i = o.id THEN [lists[i] EXCEPT !.stamped = TRUE]
                        ELSE lists[i]]
    BY <1>10 DEF PutImport, References
  <2>2. DOMAIN lists' = DOMAIN lists
        /\ \A i \in DOMAIN lists : lists'[i].name = lists[i].name
    BY <1>3, <2>1 DEF Row
  <2>3. \A i \in DOMAIN lists : Flags(lists'[i]) = Flags(lists[i])
    BY <1>3, <2>1, FlagsFacts
  <2>4. PolicyOf' = PolicyOf
    BY <1>2, <2>2, <2>3, SamePolicy
  <2>5. CASE o.put = {}
    <3>1. domains' = domains
      BY <1>3, <2>1, <2>5
    <3> QED
      BY <2>2, <2>4, <3>1, SameOwners
  <2>6. CASE o.id \in DOMAIN lists
    <3>1. Policy!Move(o.put, lists[o.id].name)
      BY <2>1, <2>2, <2>6, Moves
    <3>2. lists[o.id].name \in DOMAIN PolicyOf
      BY <1>2, <2>6 DEF PolicyIsRows
    <3> QED
      BY <1>10, <2>4, <2>6, <3>1, <3>2 DEF Policy!Import, PutImport
  <2> QED
    BY <2>1, <2>5, <2>6
<1>11. CASE RemoveList(c)
  <2> DEFINE left == DOMAIN lists \ Named(o.name)
  <2>1. /\ lists' = [i \in left |-> lists[i]]
        /\ domains' = [d \in {e \in DOMAIN domains : domains[e] \in left} |-> domains[d]]
    BY <1>11 DEF RemoveList
  <2>2. \A i \in DOMAIN lists : i \in left <=> lists[i].name # o.name
    BY DEF Named
  <2>3. left \subseteq DOMAIN lists /\ (Named(o.name) = {} => left = DOMAIN lists)
    OBVIOUS
  <2> HIDE DEF left
  <2>4. \A d \in DOMAIN domains : domains[d] \in DOMAIN lists
    BY DEF IInv, ReferentialIntegrity
  <2>5. CASE Named(o.name) = {}
    <3>1. lists' = lists /\ domains' = domains
      BY <1>3, <2>1, <2>3, <2>4, <2>5
    <3> QED
      BY <3>1, SameTables
  <2>6. CASE Named(o.name) # {}
    <3>1. o.name \in DOMAIN PolicyOf
      BY <1>1, <1>5, <2>6
    <3>2. DOMAIN PolicyOf' = DOMAIN PolicyOf \ {o.name}
      BY <1>2, <2>1, <2>2, <2>3 DEF PolicyIsRows
    <3>3. ASSUME NEW n \in DOMAIN PolicyOf' PROVE PolicyOf'[n] = PolicyOf[n]
      <4>1. PICK j \in left : lists[j].name = n
        BY <1>2, <2>1, <2>3 DEF PolicyIsRows
      <4>2. j \in DOMAIN lists /\ j \in DOMAIN lists' /\ lists'[j] = lists[j]
        BY <2>1, <2>3, <4>1
      <4>3. PolicyOf[n] = Flags(lists[j])
        BY <1>2, <4>1, <4>2 DEF PolicyIsRows
      <4>4. PolicyOf'[n] = Flags(lists'[j])
        BY <1>2, <4>1, <4>2 DEF PolicyIsRows
      <4> QED
        BY <4>2, <4>3, <4>4
    <3>4. DOMAIN OwnerOf = DOMAIN domains
          /\ \A d \in DOMAIN domains : OwnerOf[d] = lists[domains[d]].name
      BY DEF OwnerOf
    <3>5. {d \in DOMAIN OwnerOf : OwnerOf[d] # o.name} = DOMAIN domains'
      BY <2>1, <2>2, <2>4, <3>4
    <3>6. \A d \in DOMAIN domains' : lists'[domains'[d]].name = OwnerOf[d]
      BY <2>1, <2>3, <3>4
    <3>7. OwnerOf' = [d \in DOMAIN domains' |-> OwnerOf[d]]
      BY <3>6 DEF OwnerOf
    <3>8. PolicyOf' = [n \in DOMAIN PolicyOf \ {o.name} |-> PolicyOf[n]]
      BY <1>2, <3>2, <3>3 DEF PolicyIsRows
    <3>9. Policy!DropList(o.name)
      BY <3>1, <3>5, <3>7, <3>8 DEF Policy!DropList
    <3> QED
      BY <1>1, <3>9 DEF Policy!Next
  <2> QED
    BY <2>5, <2>6
<1>12. CASE SetEnabled(c)
  <2> DEFINE on == (o.kind = "enable")
  <2>1. /\ domains' = domains
        /\ lists' = [i \in DOMAIN lists |->
                        IF i \in Named(o.name) THEN [lists[i] EXCEPT !.active = on]
                        ELSE lists[i]]
    BY <1>12 DEF SetEnabled
  <2>2. on \in BOOLEAN
    OBVIOUS
  <2> HIDE DEF on
  <2>3. DOMAIN lists' = DOMAIN lists
        /\ \A i \in DOMAIN lists : lists'[i].name = lists[i].name
    BY <1>3, <2>1 DEF Row
  <2>4. OwnerOf' = OwnerOf
    BY <2>1, <2>3, SameOwners
  <2>5. CASE Named(o.name) = {}
    <3>1. lists' = lists
      BY <1>3, <2>1, <2>5
    <3> QED
      BY <2>1, <3>1, SameTables
  <2>6. CASE Named(o.name) # {}
    <3>1. o.name \in DOMAIN PolicyOf
      BY <1>1, <1>5, <2>6
    <3>2. DOMAIN PolicyOf' = DOMAIN PolicyOf
      BY <1>2, <2>3 DEF PolicyIsRows
    <3>3. \A i \in DOMAIN lists :
             Flags(lists'[i]) = IF lists[i].name = o.name
                                THEN [Flags(lists[i]) EXCEPT !.active = on]
                                ELSE Flags(lists[i])
      BY <1>3, <2>1, <2>2, FlagsFacts DEF Named
    <3>4. \A n \in DOMAIN PolicyOf :
             PolicyOf'[n] = IF n = o.name THEN [PolicyOf[n] EXCEPT !.active = on]
                            ELSE PolicyOf[n]
      BY <1>2, <2>3, <3>3 DEF PolicyIsRows
    <3>5. PolicyOf' = [PolicyOf EXCEPT ![o.name].active = on]
      BY <1>2, <3>1, <3>2, <3>4 DEF PolicyIsRows
    <3> QED
      BY <1>1, <2>2, <2>4, <3>1, <3>5 DEF Policy!SetActive, Policy!Next
  <2> QED
    BY <2>5, <2>6
<1>13. CASE lists' = lists /\ domains' = domains
  BY <1>13, SameTables
<1> QED
  BY <1>6, <1>7, <1>8, <1>9, <1>10, <1>11, <1>12, <1>13
  DEF Step, BeginCommandLine, BeginService, LookupId, Raise, Crash

\* A new database holds the seeded policy.
LEMMA InitPolicy == Init => Policy!Init
<1> SUFFICES ASSUME Init PROVE Policy!Init
  OBVIOUS
<1>1. PolicyIsRows
  BY InitInv, PolicyFacts
<1>2. PolicyOf = Policy!Seeded
  BY <1>1, SeedPolicy DEF Init
<1>3. OwnerOf = [d \in {} |-> CUSTOM]
  BY DEF Init, OwnerOf
<1> QED
  BY <1>2, <1>3 DEF Policy!Init

\* With one client at work, whatever domains and lists there are, each
\* operation does to the policy what its name says, or nothing.
THEOREM StoreImplementsPolicy ==
    ASSUME \A a, b \in Client : a = b
    PROVE  Spec => ImplementsPolicy
<1>1. IInv /\ Holding /\ [Next]_vars => Holding'
  <2>1. UNCHANGED vars /\ Holding => Holding'
    BY DEF vars, Holding, Named
  <2> QED
    BY <2>1, HoldingStep DEF Next
<1>2. IInv /\ Holding /\ [Next]_vars => [Policy!Next]_<<PolicyOf, OwnerOf>>
  <2>1. UNCHANGED vars => UNCHANGED <<PolicyOf, OwnerOf>>
    BY SameTables DEF vars
  <2>2. ASSUME IInv, Holding, NEW c \in Client, Step(c)
        PROVE  [Policy!Next]_<<PolicyOf, OwnerOf>>
    <3>1. op[c].put \in SUBSET Domain /\ op[c].name \in ListName
      BY <2>2 DEF IInv, TypeOK, Op
    <3>2. CASE /\ op[c].pc = "put"
               /\ op[c].id \in DOMAIN lists
      <4>1. op[c].id # NoId
        BY <2>2, <3>2, StoreAssumption DEF IInv, TypeOK, ListId, NoId
      <4>2. lists[op[c].id].name = op[c].name
        BY <2>2, <3>2, <4>1 DEF Holding, Named
      <4>3. op[c].kind = "manage" => op[c].name = CUSTOM
        BY <2>2 DEF Holding
      <4>4. Policy!BlockInto(CUSTOM, op[c].put) => Policy!Next
        BY <3>1 DEF Policy!Block, Policy!Next
      <4>5. Policy!Import(op[c].name, op[c].put) => Policy!Next
        BY <3>1 DEF Policy!Next
      <4> QED
        BY <2>2, <4>2, <4>3, <4>4, <4>5, StepSimulates DEF Simulates
    <3> QED
      BY <2>2, <3>2, StepSimulates DEF Simulates
  <2> QED
    BY <2>1, <2>2 DEF Next
<1> QED
  BY InitHolding, InitPolicy, StoreInvariant, <1>1, <1>2, PTL
  DEF Spec, ImplementsPolicy, Policy!Spec

\* With any number of clients, each transaction is an operation of the policy
\* on one list, be it not the list that was meant, or changes nothing.
THEOREM StoreImplementsSharedPolicy == Spec => ImplementsSharedPolicy /\ Policy!SharedSpec
<1>1. IInv /\ [Next]_vars => [Policy!SharedNext]_<<PolicyOf, OwnerOf>>
  <2>1. UNCHANGED vars => UNCHANGED <<PolicyOf, OwnerOf>>
    BY SameTables DEF vars
  <2>2. ASSUME IInv, NEW c \in Client, Step(c)
        PROVE  [Policy!SharedNext]_<<PolicyOf, OwnerOf>>
    <3>1. op[c].put \in SUBSET Domain
      BY <2>2 DEF IInv, TypeOK, Op
    <3>2. ASSUME op[c].id \in DOMAIN lists
          PROVE  lists[op[c].id].name \in ListName
      BY <2>2, <3>2 DEF IInv, TypeOK, Row
    <3>3. ASSUME NEW n \in ListName, Policy!BlockInto(n, op[c].put) \/ Policy!Import(n, op[c].put)
          PROVE  Policy!SharedNext
      BY <3>1, <3>3 DEF Policy!SharedNext, Policy!Next
    <3>4. Policy!Next => Policy!SharedNext
      BY DEF Policy!SharedNext
    <3> QED
      BY <2>2, <3>2, <3>3, <3>4, StepSimulates DEF Simulates
  <2> QED
    BY <2>1, <2>2 DEF Next
<1>2. [Policy!SharedNext]_<<PolicyOf, OwnerOf>>
        => [UNCHANGED <<lists, domains>> \/ Policy!SharedNext]_<<PolicyOf, OwnerOf>>
  OBVIOUS
<1> QED
  BY InitPolicy, StoreInvariant, <1>1, <1>2, PTL
  DEF Spec, ImplementsSharedPolicy, Policy!SharedSpec

=============================================================================
