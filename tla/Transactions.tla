----------------------------- MODULE Transactions -----------------------------
(***************************************************************************)
(* What the managers promise of the operations that they run in one        *)
(* transaction each (manager/domain_manager.cxx, domain_list_manager.cxx,  *)
(* settings_manager.cxx): an operation writes all of its rows at once or   *)
(* none of them.                                                           *)
(*                                                                         *)
(* An operation is known by its number; a row holds the number of the last *)
(* operation that wrote it.                                                *)
(***************************************************************************)
EXTENDS Naturals

CONSTANTS Thread, Row, MaxJob

VARIABLES
    db,         \* what is committed
    last,       \* the last operation that was asked for
    want        \* what each thread is asked to write, and whether it did

vars == <<db, last, want>>

Job == 1 .. MaxJob
NoJob == 0
Rest == [id |-> NoJob, rows |-> {}, done |-> FALSE]

Init ==
    /\ db = [r \in Row |-> NoJob]
    /\ last = 0
    /\ want = [t \in Thread |-> Rest]

Ask(t) ==
    /\ want[t].id = NoJob
    /\ last < MaxJob
    /\ last' = last + 1
    /\ \E rows \in SUBSET Row :
         want' = [want EXCEPT ![t] = [id |-> last', rows |-> rows, done |-> FALSE]]
    /\ UNCHANGED db

Perform(t) ==
    /\ want[t].id # NoJob
    /\ ~want[t].done
    /\ want' = [want EXCEPT ![t].done = TRUE]
    /\ db' = [r \in Row |-> IF r \in want[t].rows THEN want[t].id ELSE db[r]]
    /\ UNCHANGED last

Answer(t) ==
    /\ want[t].id # NoJob
    /\ want' = [want EXCEPT ![t] = Rest]
    /\ UNCHANGED <<db, last>>

\* The process of some threads ends: nobody is answered.
Cut(T) ==
    /\ want' = [t \in Thread |-> IF t \in T THEN Rest ELSE want[t]]
    /\ UNCHANGED <<db, last>>

Next ==
    \/ \E t \in Thread : Ask(t) \/ Perform(t) \/ Answer(t)
    \/ \E T \in SUBSET Thread : Cut(T)

Spec == Init /\ [][Next]_vars

-----------------------------------------------------------------------------
(***************************************************************************)
(* Properties                                                              *)
(***************************************************************************)
TypeOK ==
    /\ db \in [Row -> Nat]
    /\ last \in Nat
    /\ want \in [Thread -> [id : Nat, rows : SUBSET Row, done : BOOLEAN]]

\* Of an operation that is not done nothing is to be seen, and of one that is
\* done in its own rows only (domain_manager.cxx:149-193).
OwnRowsWhenDone ==
    \A t \in Thread, r \in Row :
        want[t].id # NoJob /\ db[r] = want[t].id => want[t].done /\ r \in want[t].rows

\* An operation whose thread was answered, or died, before it was done leaves
\* nothing behind that comes to light later (db.cxx:61-65).
FailedStaysOut ==
    [][\A id \in 1 .. last :
          /\ \A t \in Thread : want[t].id # id
          /\ \A r \in Row : db[r] # id
          => \A r \in Row : db'[r] # id]_vars

=============================================================================
