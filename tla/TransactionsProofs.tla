-------------------------- MODULE TransactionsProofs --------------------------
(***************************************************************************)
(* What follows from Transactions alone, for any threads, rows and number  *)
(* of operations; SessionPoolProofs has it of the sessions.                *)
(***************************************************************************)
EXTENDS Transactions, TLAPS

\* Every operation has a number of its own, given out before.
Numbered ==
    /\ \A t \in Thread : want[t].id <= last
    /\ \A t, u \in Thread : want[t].id = want[u].id /\ want[t].id # NoJob => t = u
    /\ \A r \in Row : db[r] <= last

IInv == TypeOK /\ Numbered /\ OwnRowsWhenDone

-----------------------------------------------------------------------------
LEMMA InitInv == Init => IInv
BY DEF Init, IInv, TypeOK, Numbered, OwnRowsWhenDone, Rest, NoJob

LEMMA AskInv ==
    ASSUME IInv, NEW t \in Thread, Ask(t)
    PROVE  IInv'
<1> USE DEF IInv, TypeOK, Numbered, OwnRowsWhenDone, NoJob
<1>1. PICK rows \in SUBSET Row :
        want' = [want EXCEPT ![t] = [id |-> last + 1, rows |-> rows, done |-> FALSE]]
  BY DEF Ask
<1>2. last' = last + 1 /\ db' = db
  BY DEF Ask
<1> DEFINE w == [id |-> last + 1, rows |-> rows, done |-> FALSE]
<1>3. w \in [id : Nat, rows : SUBSET Row, done : BOOLEAN] /\ w.id = last + 1 /\ ~w.done
  OBVIOUS
<1> HIDE DEF w
<1>4. /\ want'[t] = w
      /\ \A u \in Thread \ {t} : want'[u] = want[u]
      /\ want' \in [Thread -> [id : Nat, rows : SUBSET Row, done : BOOLEAN]]
  <2>1. want' = [want EXCEPT ![t] = w]
    BY <1>1 DEF w
  <2>2. QED
    BY <1>3, <2>1
<1>5. TypeOK'
  BY <1>2, <1>4
<1>5a. \A u \in Thread : want[u].id \in Nat /\ want[u].id < w.id
  BY <1>3
<1>5b. \A r \in Row : db[r] \in Nat /\ db[r] < w.id
  BY <1>3
<1>6. Numbered'
  <2>1. \A u \in Thread : want'[u].id <= last'
    BY <1>2, <1>3, <1>4
  <2>2. \A u, v \in Thread : want'[u].id = want'[v].id /\ want'[u].id # NoJob => u = v
    BY <1>4, <1>5a
  <2>3. \A r \in Row : db'[r] <= last'
    BY <1>2, <1>3, <1>5b
  <2>4. QED
    BY <2>1, <2>2, <2>3
<1>7. OwnRowsWhenDone'
  BY <1>2, <1>4, <1>5b
<1>8. QED
  BY <1>5, <1>6, <1>7

LEMMA PerformInv ==
    ASSUME IInv, NEW t \in Thread, Perform(t)
    PROVE  IInv'
<1> USE DEF IInv, TypeOK, Numbered, OwnRowsWhenDone, NoJob
<1>1. /\ want' = [want EXCEPT ![t] = [want[t] EXCEPT !.done = TRUE]]
      /\ db' = [r \in Row |-> IF r \in want[t].rows THEN want[t].id ELSE db[r]]
      /\ last' = last /\ want[t].id # NoJob /\ ~want[t].done
  BY DEF Perform
<1> DEFINE w == [want[t] EXCEPT !.done = TRUE]
<1>2. /\ w \in [id : Nat, rows : SUBSET Row, done : BOOLEAN]
      /\ w.id = want[t].id /\ w.rows = want[t].rows /\ w.done
  OBVIOUS
<1> HIDE DEF w
<1>3. /\ want'[t] = w
      /\ \A u \in Thread \ {t} : want'[u] = want[u]
      /\ want' \in [Thread -> [id : Nat, rows : SUBSET Row, done : BOOLEAN]]
  BY <1>1, <1>2 DEF w
<1>4. \A r \in Row : db'[r] = IF r \in want[t].rows THEN want[t].id ELSE db[r]
  BY <1>1
<1>5. TypeOK'
  BY <1>1, <1>3
<1>6. Numbered'
  BY <1>1, <1>2, <1>3, <1>4
<1>7. OwnRowsWhenDone'
  BY <1>1, <1>2, <1>3, <1>4
<1>8. QED
  BY <1>5, <1>6, <1>7

\* Threads that are answered or end.
LEMMA RestInv ==
    ASSUME IInv, NEW T \in SUBSET Thread, Cut(T)
    PROVE  IInv'
<1>1. \A t \in Thread : want'[t] = IF t \in T THEN Rest ELSE want[t]
  BY DEF Cut
<1>2. db' = db /\ last' = last /\ Rest.id = NoJob
  BY DEF Cut, Rest
<1>3. TypeOK'
  BY DEF IInv, TypeOK, Cut, Rest, NoJob
<1>4. Numbered' /\ OwnRowsWhenDone'
  BY <1>1, <1>2 DEF IInv, TypeOK, Numbered, OwnRowsWhenDone, NoJob
<1>5. QED
  BY <1>3, <1>4 DEF IInv

LEMMA AnswerCuts ==
    ASSUME TypeOK, NEW t \in Thread, Answer(t)
    PROVE  Cut({t})
BY DEF TypeOK, Answer, Cut

LEMMA NextInv == IInv /\ [Next]_vars => IInv'
<1> SUFFICES ASSUME IInv, [Next]_vars PROVE IInv'
  OBVIOUS
<1>1. ASSUME NEW t \in Thread, Answer(t) PROVE IInv'
  BY <1>1, AnswerCuts, RestInv DEF IInv
<1>2. CASE UNCHANGED vars
  BY <1>2 DEF vars, IInv, TypeOK, Numbered, OwnRowsWhenDone
<1>3. QED
  BY <1>1, <1>2, AskInv, PerformInv, RestInv DEF Next

\* Nothing is seen of an operation before it is done, and then its own rows only.
THEOREM DoneIsSeen == Spec => []OwnRowsWhenDone
<1>1. IInv => OwnRowsWhenDone
  BY DEF IInv
<1>2. QED
  BY <1>1, InitInv, NextInv, PTL DEF Spec

\* Of what failed nothing comes to light later.
THEOREM FailedIsOut == Spec => FailedStaysOut
<1> DEFINE Out == \A id \in 1 .. last :
                     /\ \A t \in Thread : want[t].id # id
                     /\ \A r \in Row : db[r] # id
                     => \A r \in Row : db'[r] # id
<1>1. ASSUME Next PROVE Out
  <2>1. ASSUME NEW t \in Thread, Perform(t) PROVE Out
    BY <2>1 DEF Perform
  <2>2. CASE db' = db
    BY <2>2
  <2>3. QED
    BY <1>1, <2>1, <2>2 DEF Next, Ask, Answer, Cut
<1>2. [Next]_vars => [Out]_vars
  BY <1>1
<1>3. QED
  BY <1>2, PTL DEF Spec, FailedStaysOut

=============================================================================
