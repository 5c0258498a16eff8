-------------------------- MODULE SessionPoolProofs --------------------------
(***************************************************************************)
(* Proofs about SessionPool, for any number of processes, threads,         *)
(* sessions, rows and operations.                                          *)
(***************************************************************************)
EXTENDS SessionPool, FiniteSetTheorems, TLAPS

Promised == INSTANCE TransactionsProofs WITH want <- Want

(***************************************************************************)
(* The invariant.                                                          *)
(***************************************************************************)

Leased(t) == holds[t] # NoSession

\* A thread has a session from Lease on, one that is in no pool.
HoldsOne(t) ==
    /\ Leased(t) <=> at[t] \notin {"idle", "lease"}
    /\ Leased(t) => Mine(t) \notin free

\* What writes has a number and rows, what reads has none; done says that it
\* is committed.
JobFits(t) ==
    /\ job[t].kind = "write" => job[t].id # NoJob
    /\ job[t].kind # "write" => job[t].id = NoJob /\ job[t].rows = {}
    /\ job[t].todo \subseteq job[t].rows
    /\ job[t].done <=> at[t] = "return" /\ job[t].kind = "write"
    /\ at[t] = "idle" => job[t] = Idle
    /\ at[t] \in {"lease", "begin"} => job[t].todo = job[t].rows
    /\ at[t] \in {"begin", "work"} => job[t].kind # "query"
    /\ at[t] \in {"select", "fetch"} => job[t].kind # "write"

\* The transaction of a thread holds its own rows, as far as it came.
TransactionFits(t) ==
    LET s == session[Mine(t)] IN
    /\ at[t] = "work" \/ (at[t] \in {"select", "fetch"} /\ job[t].kind = "count") =>
          /\ s.open
          /\ \A r \in Row : s.dirty[r] = IF r \in job[t].rows \ job[t].todo
                                         THEN job[t].id ELSE NoJob
    /\ at[t] = "fetch" => s.lock # "none"

ThreadOK(t) == HoldsOne(t) /\ JobFits(t) /\ TransactionFits(t)

\* Only a transaction has rows, and only with a lock to write.
RowsOK(x) ==
    /\ ~x.open => x.dirty = Untouched
    /\ x.dirty # Untouched => x.lock \in Writing

\* A session that is in no pool is with a thread, and with one only.
Accounted ==
    /\ \A s \in Session : s \notin free => \E t \in Thread : Leased(t) /\ Mine(t) = s
    /\ \A t, u \in Thread : Leased(t) /\ Mine(t) = Mine(u) => t = u

IInv ==
    /\ Types
    /\ \A t \in Thread : ThreadOK(t)
    /\ \A s \in Session : RowsOK(session[s])
    /\ Accounted

ValidSession == [open : BOOLEAN, lock : Lock, dirty : [Row -> Job \cup {NoJob}]]
ValidJob == [id : Job \cup {NoJob}, kind : Kind, rows : SUBSET Row,
             todo : SUBSET Row, done : BOOLEAN]

-----------------------------------------------------------------------------
LEMMA MineIsSession ==
    ASSUME Types, NEW t \in Thread, Leased(t)
    PROVE  Mine(t) \in Session /\ session[Mine(t)] \in ValidSession
BY PoolAssumption DEF Types, Leased, Mine, Session, ValidSession

LEMMA CleanIsValid == Clean \in ValidSession /\ RowsOK(Clean) /\ Idle \in ValidJob
BY DEF Clean, Idle, ValidSession, ValidJob, RowsOK, Untouched, Lock, Kind

LEMMA InitInv == Init => IInv
<1> SUFFICES ASSUME Init PROVE IInv
  OBVIOUS
<1>1. Types
  BY CleanIsValid, PoolAssumption
     DEF Init, Types, ValidSession, ValidJob, Untouched, Job, NoJob, NoSession
<1>2. \A t \in Thread : ThreadOK(t)
  BY DEF Init, ThreadOK, HoldsOne, JobFits, TransactionFits, Leased, Idle
<1>3. \A s \in Session : RowsOK(session[s])
  BY CleanIsValid DEF Init
<1>4. Accounted
  BY DEF Init, Accounted, Leased
<1>5. QED
  BY <1>1, <1>2, <1>3, <1>4 DEF IInv

\* A thread that works on its session touches nothing else.
LEMMA WorkInv ==
    ASSUME IInv, NEW t \in Thread, Leased(t),
           NEW a, NEW j \in ValidJob, NEW x \in ValidSession,
           a \in {"begin", "work", "select", "fetch", "return"},
           at' = [at EXCEPT ![t] = a],
           job' = [job EXCEPT ![t] = j],
           session' = [session EXCEPT ![Mine(t)] = x],
           db' \in [Row -> Job \cup {NoJob}],
           UNCHANGED <<free, holds, last>>,
           RowsOK(x), JobFits(t)', TransactionFits(t)'
    PROVE  IInv'
<1> USE DEF IInv
<1>0. Mine(t) \in Session
  BY MineIsSession
<1>1. Types'
  BY <1>0 DEF Types, ValidJob, ValidSession
<1>2. ASSUME NEW u \in Thread PROVE ThreadOK(u)'
  <2>1. HoldsOne(u)'
    BY DEF ThreadOK, HoldsOne, Leased, Mine, Types
  <2>2. CASE u = t
    BY <2>1, <2>2 DEF ThreadOK
  <2>3. CASE u # t
    <3>1. at'[u] = at[u] /\ job'[u] = job[u] /\ Mine(u)' = Mine(u)
      BY <2>3 DEF Types, Mine
    <3>2. CASE ~Leased(u)
      BY <2>1, <3>1, <3>2 DEF ThreadOK, HoldsOne, JobFits, TransactionFits
    <3>3. CASE Leased(u)
      <4>1. Mine(u) # Mine(t)
        BY <2>3, <3>3 DEF Accounted
      <4>2. session'[Mine(u)] = session[Mine(u)]
        BY <4>1, <3>3, MineIsSession DEF Types
      <4>3. TransactionFits(u)'
        BY <3>1, <4>2 DEF ThreadOK, TransactionFits
      <4>4. JobFits(u)'
        BY <3>1 DEF ThreadOK, JobFits
      <4>5. QED
        BY <2>1, <4>3, <4>4 DEF ThreadOK
    <3>4. QED
      BY <3>2, <3>3
  <2>4. QED
    BY <2>2, <2>3
<1>3. \A s \in Session : RowsOK(session'[s])
  BY <1>0 DEF Types
<1>4. Accounted'
  BY DEF Accounted, Leased, Mine
<1>5. QED
  BY <1>1, <1>2, <1>3, <1>4

\* A thread that gives its session back, in whatever state, is at rest.
LEMMA GiveBackInv ==
    ASSUME IInv, NEW t \in Thread, Leased(t), NEW x \in ValidSession, RowsOK(x),
           GiveBack(t, x)
    PROVE  IInv'
<1> USE DEF IInv, GiveBack
<1>0. Mine(t) \in Session
  BY MineIsSession
<1>1. Types'
  BY <1>0, CleanIsValid DEF Types, ValidJob, ValidSession
<1>2. ASSUME NEW u \in Thread PROVE ThreadOK(u)'
  <2>1. CASE u = t
    BY <2>1 DEF ThreadOK, HoldsOne, JobFits, TransactionFits, Leased, Idle, Types
  <2>2. CASE u # t
    <3>1. at'[u] = at[u] /\ job'[u] = job[u] /\ holds'[u] = holds[u] /\ Mine(u)' = Mine(u)
      BY <2>2 DEF Types, Mine
    <3>2. CASE ~Leased(u)
      BY <3>1, <3>2 DEF ThreadOK, HoldsOne, JobFits, TransactionFits, Leased
    <3>3. CASE Leased(u)
      <4>1. Mine(u) # Mine(t)
        BY <2>2, <3>3 DEF Accounted
      <4>2. session'[Mine(u)] = session[Mine(u)]
        BY <4>1, <3>3, MineIsSession DEF Types
      <4>3. TransactionFits(u)'
        BY <3>1, <4>2 DEF ThreadOK, TransactionFits
      <4>4. JobFits(u)' /\ HoldsOne(u)'
        BY <3>1, <4>1 DEF ThreadOK, JobFits, HoldsOne, Leased
      <4>5. QED
        BY <4>3, <4>4 DEF ThreadOK
    <3>4. QED
      BY <3>2, <3>3
  <2>3. QED
    BY <2>1, <2>2
<1>3. \A s \in Session : RowsOK(session'[s])
  BY <1>0 DEF Types
<1>4. Accounted'
  <2>1. ASSUME NEW s \in Session, s \notin free' PROVE \E u \in Thread : Leased(u)' /\ Mine(u)' = s
    <3>1. PICK u \in Thread : Leased(u) /\ Mine(u) = s
      BY <2>1 DEF Accounted
    <3>2. u # t
      BY <2>1, <3>1
    <3>3. QED
      BY <3>1, <3>2 DEF Leased, Mine, Types
  <2>2. ASSUME NEW u \in Thread, NEW v \in Thread, Leased(u)', Mine(u)' = Mine(v)' PROVE u = v
    <3>1. u # t /\ v # t
      BY <2>2 DEF Leased, Mine, Types
    <3>2. QED
      BY <3>1, <2>2 DEF Accounted, Leased, Mine, Types
  <2>3. QED
    BY <2>1, <2>2 DEF Accounted
<1>5. QED
  BY <1>1, <1>2, <1>3, <1>4

LEMMA FinalizedOK ==
    ASSUME IInv, NEW t \in Thread, Leased(t)
    PROVE  /\ Finalized(Mine(t)) \in ValidSession
           /\ RowsOK(Finalized(Mine(t)))
           /\ RowsOK(session[Mine(t)])
<1>1. Mine(t) \in Session /\ session[Mine(t)] \in ValidSession
  BY MineIsSession DEF IInv
<1>2. RowsOK(session[Mine(t)])
  BY <1>1 DEF IInv
<1>3. CASE session[Mine(t)].open
  BY <1>1, <1>2, <1>3 DEF Finalized
<1>4. CASE ~session[Mine(t)].open
  <2>1. Finalized(Mine(t)) = Clean
    BY <1>4 DEF Finalized
  <2>2. QED
    BY <1>1, <1>2, <2>1, CleanIsValid
<1>5. QED
  BY <1>3, <1>4

\* What a failed statement that wanted to write leaves behind is valid too.
LEMMA LockedOK ==
    ASSUME IInv, NEW t \in Thread, Leased(t), session[Mine(t)].open,
           NEW lock \in Writing
    PROVE  /\ [session[Mine(t)] EXCEPT !.lock = lock] \in ValidSession
           /\ RowsOK([session[Mine(t)] EXCEPT !.lock = lock])
<1>1. Mine(t) \in Session /\ session[Mine(t)] \in ValidSession
  BY MineIsSession DEF IInv
<1> DEFINE x == [session[Mine(t)] EXCEPT !.lock = lock]
<1>2. x.open /\ x.lock = lock /\ x \in ValidSession
  <2>1. lock \in Lock
    BY DEF Writing, Lock
  <2>2. QED
    BY <1>1, <2>1 DEF ValidSession
<1>3. RowsOK(x)
  BY <1>2 DEF RowsOK
<1>4. QED
  BY <1>2, <1>3

LEMMA AskInv ==
    ASSUME IInv, NEW t \in Thread, Ask(t)
    PROVE  IInv'
<1> USE DEF IInv, Ask
<1>1. PICK j \in ValidJob :
        /\ job' = [job EXCEPT ![t] = j]
        /\ ~j.done /\ j.todo = j.rows
        /\ j.kind = "write" => j.id # NoJob
        /\ j.kind # "write" => j.id = NoJob /\ j.rows = {}
        /\ last' \in Job \cup {NoJob}
  <2>1. CASE last < MaxJob /\ last' = last + 1
                /\ \E rows \in SUBSET Row \ {{}} :
                     job' = [job EXCEPT ![t] = [id |-> last', kind |-> "write", rows |-> rows,
                                                todo |-> rows, done |-> FALSE]]
    <3>1. last' \in Job /\ last' # NoJob
      BY <2>1, PoolAssumption DEF Types, Job, NoJob
    <3>2. PICK rows \in SUBSET Row \ {{}} :
            job' = [job EXCEPT ![t] = [id |-> last', kind |-> "write", rows |-> rows,
                                       todo |-> rows, done |-> FALSE]]
      BY <2>1
    <3> DEFINE j == [id |-> last', kind |-> "write", rows |-> rows, todo |-> rows, done |-> FALSE]
    <3>3. j \in ValidJob /\ ~j.done /\ j.todo = j.rows /\ j.kind = "write" /\ j.id # NoJob
      BY <3>1 DEF ValidJob, Kind
    <3>4. QED
      BY <3>1, <3>2, <3>3
  <2>2. CASE /\ \E kind \in {"count", "query"} : job' = [job EXCEPT ![t].kind = kind]
             /\ UNCHANGED last
    <3>1. job[t] = Idle
      BY DEF ThreadOK, JobFits
    <3>2. PICK kind \in {"count", "query"} : job' = [job EXCEPT ![t] = [Idle EXCEPT !.kind = kind]]
      BY <2>2, <3>1
    <3> DEFINE j == [Idle EXCEPT !.kind = kind]
    <3>3. /\ j \in ValidJob /\ ~j.done /\ j.todo = j.rows
          /\ j.kind # "write" /\ j.id = NoJob /\ j.rows = {}
      BY DEF ValidJob, Kind, Idle
    <3>4. QED
      BY <2>2, <3>2, <3>3 DEF Types
  <2>3. QED
    BY <2>1, <2>2
<1>2. Types'
  BY <1>1 DEF Types, ValidJob
<1>3. ASSUME NEW u \in Thread PROVE ThreadOK(u)'
  <2>1. CASE u = t
    BY <1>1, <2>1 DEF ThreadOK, HoldsOne, JobFits, TransactionFits, Leased, Mine, Types
  <2>2. CASE u # t
    BY <1>1, <2>2 DEF ThreadOK, HoldsOne, JobFits, TransactionFits, Leased, Mine, Types
  <2>3. QED
    BY <2>1, <2>2
<1>4. Accounted' /\ \A s \in Session : RowsOK(session'[s])
  BY DEF Accounted, Leased, Mine
<1>5. QED
  BY <1>2, <1>3, <1>4

LEMMA LeaseInv ==
    ASSUME IInv, NEW t \in Thread, Lease(t)
    PROVE  IInv'
<1> USE DEF IInv, Lease
<1>1. PICK n \in Number :
        /\ <<Home[t], n>> \in free
        /\ holds' = [holds EXCEPT ![t] = n]
        /\ free' = free \ {<<Home[t], n>>}
  BY DEF FreeFor
<1>2. n # NoSession
  BY DEF Number, NoSession
<1>3. Types'
  BY <1>1 DEF Types
<1>4. ASSUME NEW u \in Thread, Leased(u) PROVE Mine(u) # <<Home[t], n>> /\ u # t
  BY <1>1, <1>4 DEF ThreadOK, HoldsOne
<1>5. ASSUME NEW u \in Thread PROVE ThreadOK(u)'
  <2>1. CASE u = t
    <3>1. /\ at'[t] = IF job[t].kind = "query" THEN "select" ELSE "begin"
          /\ holds'[t] = n /\ job' = job /\ session' = session /\ Mine(t)' = <<Home[t], n>>
      BY <1>1 DEF Types, Mine
    <3>2. at[t] = "lease" /\ JobFits(t)
      BY DEF ThreadOK
    <3>3. HoldsOne(t)'
      BY <1>1, <1>2, <3>1 DEF HoldsOne, Leased
    <3>4. JobFits(t)'
      BY <3>1, <3>2 DEF JobFits
    <3>5. TransactionFits(t)'
      BY <3>1, <3>2 DEF TransactionFits, JobFits
    <3>6. QED
      BY <2>1, <3>3, <3>4, <3>5 DEF ThreadOK
  <2>2. CASE u # t
    <3>1. at'[u] = at[u] /\ job'[u] = job[u] /\ holds'[u] = holds[u] /\ Mine(u)' = Mine(u)
      BY <1>1, <2>2 DEF Types, Mine
    <3>2. QED
      BY <1>1, <1>4, <3>1 DEF ThreadOK, HoldsOne, JobFits, TransactionFits, Leased, Mine
  <2>3. QED
    BY <2>1, <2>2
<1>6. Accounted'
  <2>1. ASSUME NEW s \in Session, s \notin free' PROVE \E u \in Thread : Leased(u)' /\ Mine(u)' = s
    <3>1. CASE s = <<Home[t], n>>
      BY <1>1, <1>2, <3>1 DEF Leased, Mine, Types
    <3>2. CASE s # <<Home[t], n>>
      <4>1. PICK u \in Thread : Leased(u) /\ Mine(u) = s
        BY <1>1, <2>1, <3>2 DEF Accounted
      <4>2. QED
        BY <1>1, <1>4, <4>1 DEF Leased, Mine, Types
    <3>3. QED
      BY <3>1, <3>2
  <2>2. ASSUME NEW u \in Thread, NEW v \in Thread, Leased(u)', Mine(u)' = Mine(v)' PROVE u = v
    <3>1. \A w \in Thread \ {t} : Leased(w)' = Leased(w) /\ Mine(w)' = Mine(w)
      BY <1>1 DEF Leased, Mine, Types
    <3>2. Mine(t)' = <<Home[t], n>> /\ Leased(t)'
      BY <1>1, <1>2 DEF Leased, Mine, Types
    <3>3. Leased(v)'
      BY <1>1, <2>2 DEF Leased, Mine
    <3>4. QED
      BY <1>4, <2>2, <3>1, <3>2, <3>3 DEF Accounted
  <2>3. QED
    BY <2>1, <2>2 DEF Accounted
<1>7. QED
  BY <1>3, <1>5, <1>6

LEMMA DieInv ==
    ASSUME IInv, NEW p \in Process, Die(p)
    PROVE  IInv'
<1> USE DEF IInv, Die
<1>1. Types'
  BY CleanIsValid DEF Types, ValidSession, ValidJob, Session
<1>2. \A s \in Session : RowsOK(session'[s])
  BY CleanIsValid
<1>3. ASSUME NEW u \in Thread, Home[u] # p
      PROVE  /\ at'[u] = at[u] /\ job'[u] = job[u] /\ holds'[u] = holds[u] /\ Mine(u)' = Mine(u)
             /\ Leased(u) => Mine(u) \in Session /\ session'[Mine(u)] = session[Mine(u)]
  BY <1>3, MineIsSession DEF Mine, Leased
<1>4. ASSUME NEW u \in Thread PROVE ThreadOK(u)'
  <2>1. CASE Home[u] = p
    BY <2>1 DEF ThreadOK, HoldsOne, JobFits, TransactionFits, Leased, Idle
  <2>2. CASE Home[u] # p /\ Leased(u)
    <3>1. Mine(u) \notin free'
      BY <2>2 DEF ThreadOK, HoldsOne, Mine
    <3>2. HoldsOne(u)'
      BY <1>3, <2>2, <3>1 DEF ThreadOK, HoldsOne, Leased
    <3>3. JobFits(u)'
      BY <1>3, <2>2 DEF ThreadOK, JobFits
    <3>4. session'[Mine(u)'] = session[Mine(u)]
      BY <1>3, <2>2
    <3>5. TransactionFits(u)'
      BY <1>3, <2>2, <3>4 DEF ThreadOK, TransactionFits
    <3>6. QED
      BY <3>2, <3>3, <3>5 DEF ThreadOK
  <2>3. CASE Home[u] # p /\ ~Leased(u)
    BY <1>3, <2>3 DEF ThreadOK, HoldsOne, JobFits, TransactionFits, Leased
  <2>4. QED
    BY <2>1, <2>2, <2>3
<1>5. Accounted'
  <2>1. ASSUME NEW s \in Session, s \notin free' PROVE \E u \in Thread : Leased(u)' /\ Mine(u)' = s
    <3>1. PICK u \in Thread : Leased(u) /\ Mine(u) = s
      BY <2>1 DEF Accounted
    <3>2. s[1] = Home[u] /\ s[2] \in Number /\ s = <<s[1], s[2]>>
      BY <3>1, MineIsSession DEF Mine, Session
    <3>2a. s \notin {p} \X Number
      BY <2>1
    <3>2b. Home[u] # p
      BY <3>2, <3>2a
    <3>3. QED
      BY <1>3, <3>1, <3>2b DEF Leased
  <2>2. ASSUME NEW u \in Thread, NEW v \in Thread, Leased(u)', Mine(u)' = Mine(v)' PROVE u = v
    <3>1. Home[u] # p /\ Home[v] # p
      BY <2>2 DEF Leased, Mine
    <3>2. holds'[u] = holds[u] /\ Mine(u)' = Mine(u) /\ Mine(v)' = Mine(v)
      BY <1>3, <3>1
    <3>3. Leased(u) /\ Mine(u) = Mine(v)
      BY <2>2, <3>2 DEF Leased
    <3>4. \A x, y \in Thread : Leased(x) /\ Mine(x) = Mine(y) => x = y
      BY DEF Accounted
    <3>5. QED
      BY <3>3, <3>4
  <2>3. QED
    BY <2>1, <2>2 DEF Accounted
<1>6. QED
  BY <1>1, <1>2, <1>4, <1>5

LEMMA ProceedInv ==
    ASSUME IInv, NEW t \in Thread, Proceed(t) \/ Fails(t)
    PROVE  IInv'
<1>1. CASE Lease(t)
  BY <1>1, LeaseInv
<1> DEFINE s == session[Mine(t)]
<1>2. /\ Types /\ HoldsOne(t) /\ JobFits(t) /\ TransactionFits(t)
      /\ job[t] \in ValidJob
      /\ at[t] \notin {"idle", "lease"} => Mine(t) \in Session /\ s \in ValidSession /\ RowsOK(s)
  <2>1. Types /\ HoldsOne(t) /\ JobFits(t) /\ TransactionFits(t)
    BY DEF IInv, ThreadOK
  <2>2. at[t] \notin {"idle", "lease"} => Leased(t)
    BY <2>1 DEF HoldsOne
  <2>3. QED
    BY <2>1, <2>2, MineIsSession DEF IInv, Types, ValidJob
<1>3. CASE Begin(t)
  <2> DEFINE x == [s EXCEPT !.open = TRUE]
             a == IF job[t].kind = "count" THEN "select" ELSE "work"
  <2>1. Leased(t) /\ s.dirty = Untouched
    BY <1>2, <1>3 DEF Begin, HoldsOne, RowsOK
  <2>2. x \in ValidSession /\ RowsOK(x) /\ x.open /\ x.dirty = Untouched
    BY <1>2, <1>3, <2>1 DEF Begin, ValidSession, RowsOK
  <2>3. /\ at' = [at EXCEPT ![t] = a] /\ job' = [job EXCEPT ![t] = job[t]]
        /\ session' = [session EXCEPT ![Mine(t)] = x] /\ UNCHANGED <<db, free, holds, last>>
    BY <1>2, <1>3 DEF Begin, Types
  <2>4. Mine(t)' = Mine(t) /\ session'[Mine(t)] = x /\ job'[t] = job[t] /\ at'[t] = a
    BY <1>2, <1>3, <2>3 DEF Mine, Types, Begin
  <2>5. JobFits(t)'
    BY <1>2, <1>3, <2>4 DEF JobFits, Begin, Kind, ValidJob
  <2>6. TransactionFits(t)'
    <3>1. job[t].rows \ job[t].todo = {} /\ a # "fetch"
      BY <1>2, <1>3 DEF JobFits, Begin
    <3>2. \A r \in Row : x.dirty[r] = NoJob
      BY <2>2 DEF Untouched
    <3>3. QED
      BY <2>2, <2>4, <3>1, <3>2 DEF TransactionFits
  <2>7. db' \in [Row -> Job \cup {NoJob}]
    BY <1>2, <2>3 DEF Types
  <2>8. QED
    BY <1>2, <2>1, <2>2, <2>3, <2>5, <2>6, <2>7, WorkInv
<1>4. CASE Work(t)
  <2>1. PICK r \in job[t].todo, lock \in Writing :
          /\ session' = [session EXCEPT ![Mine(t)].lock = lock, ![Mine(t)].dirty[r] = job[t].id]
          /\ job' = [job EXCEPT ![t].todo = job[t].todo \ {r}]
    BY <1>4 DEF Work
  <2> DEFINE x == [s EXCEPT !.lock = lock, !.dirty[r] = job[t].id]
             j == [job[t] EXCEPT !.todo = job[t].todo \ {r}]
  <2>2. Leased(t) /\ s.open /\ r \in Row /\ lock \in Lock /\ at[t] = "work"
    BY <1>2, <1>4 DEF Work, HoldsOne, TransactionFits, ValidJob, Writing, Lock
  <2>3. /\ x \in ValidSession /\ x.open /\ x.lock = lock
        /\ x.dirty = [s.dirty EXCEPT ![r] = job[t].id]
    BY <1>2, <2>2 DEF ValidSession, ValidJob
  <2>4. RowsOK(x)
    BY <2>3 DEF RowsOK
  <2>5. j \in ValidJob
    BY <1>2 DEF ValidJob
  <2>6. /\ at' = [at EXCEPT ![t] = "work"] /\ job' = [job EXCEPT ![t] = j]
        /\ session' = [session EXCEPT ![Mine(t)] = x] /\ UNCHANGED <<db, free, holds, last>>
    <3>1. at' = at /\ UNCHANGED <<db, free, holds, last>>
      BY <1>4 DEF Work
    <3>2. at' = [at EXCEPT ![t] = "work"]
      BY <1>2, <2>2, <3>1 DEF Types
    <3>3. job' = [job EXCEPT ![t] = j]
      BY <2>1
    <3>4. session' = [session EXCEPT ![Mine(t)] = x]
      BY <2>1
    <3> QED
      BY <3>1, <3>2, <3>3, <3>4
  <2>7. Mine(t)' = Mine(t) /\ session'[Mine(t)] = x /\ job'[t] = j /\ at'[t] = "work"
    BY <1>2, <2>2, <2>6 DEF Mine, Types
  <2>8. JobFits(t)'
    BY <1>2, <2>2, <2>7 DEF JobFits, ValidJob
  <2>9. \A q \in Row : x.dirty[q] = IF q \in j.rows \ j.todo THEN j.id ELSE NoJob
    <3>1. j.rows = job[t].rows /\ j.todo = job[t].todo \ {r} /\ j.id = job[t].id
      BY <1>2 DEF ValidJob
    <3>2. r \in job[t].rows /\ s.dirty \in [Row -> Job \cup {NoJob}]
      BY <1>2, <2>2 DEF JobFits, ValidSession
    <3>3. QED
      BY <1>2, <2>2, <2>3, <3>1, <3>2 DEF TransactionFits
  <2>10. TransactionFits(t)'
    BY <2>3, <2>7, <2>9 DEF TransactionFits
  <2>11. db' \in [Row -> Job \cup {NoJob}]
    BY <1>2, <2>6 DEF Types
  <2>12. QED
    BY <2>2, <2>3, <2>4, <2>5, <2>6, <2>8, <2>10, <2>11, WorkInv
<1>5. CASE Select(t)
  <2> DEFINE x == IF s.lock = "none" THEN [s EXCEPT !.lock = "shared"] ELSE s
  <2>1. Leased(t) /\ at[t] = "select" /\ Mine(t) \in Session /\ s \in ValidSession
    BY <1>2, <1>5 DEF Select, HoldsOne
  <2>2. x \in ValidSession /\ x.open = s.open /\ x.dirty = s.dirty /\ x.lock # "none"
    BY <2>1 DEF ValidSession, Lock
  <2>3. RowsOK(x)
    BY <1>2, <1>5, <2>1, <2>2 DEF RowsOK, Writing
  <2>4. /\ at' = [at EXCEPT ![t] = "fetch"] /\ job' = [job EXCEPT ![t] = job[t]]
        /\ session' = [session EXCEPT ![Mine(t)] = x] /\ UNCHANGED <<db, free, holds, last>>
    BY <1>2, <1>5, <2>1 DEF Select, Types
  <2>5. Mine(t)' = Mine(t) /\ session'[Mine(t)] = x /\ job'[t] = job[t] /\ at'[t] = "fetch"
    BY <1>2, <2>1, <2>4 DEF Mine, Types
  <2>6. JobFits(t)' /\ TransactionFits(t)'
    BY <1>2, <2>1, <2>2, <2>5 DEF JobFits, TransactionFits
  <2>7. db' \in [Row -> Job \cup {NoJob}]
    BY <1>2, <2>4 DEF Types
  <2>8. QED
    BY <1>2, <2>1, <2>2, <2>3, <2>4, <2>6, <2>7, WorkInv
<1>6. CASE Fetched(t)
  <2> DEFINE x == Finalized(Mine(t))
             a == IF job[t].kind = "query" THEN "return" ELSE "work"
  <2>1. Leased(t) /\ at[t] = "fetch" /\ Mine(t) \in Session
    BY <1>2, <1>6 DEF Fetched, HoldsOne
  <2>2. x \in ValidSession /\ RowsOK(x)
    BY <2>1, FinalizedOK
  <2>3. /\ at' = [at EXCEPT ![t] = a] /\ job' = [job EXCEPT ![t] = job[t]]
        /\ session' = [session EXCEPT ![Mine(t)] = x] /\ UNCHANGED <<db, free, holds, last>>
    BY <1>2, <1>6 DEF Fetched, Types
  <2>4. Mine(t)' = Mine(t) /\ session'[Mine(t)] = x /\ job'[t] = job[t] /\ at'[t] = a
    BY <1>2, <2>1, <2>3 DEF Mine, Types
  <2>5. JobFits(t)'
    BY <1>2, <2>1, <2>4 DEF JobFits
  <2>6. TransactionFits(t)'
    <3>1. CASE a = "return"
      BY <2>4, <3>1 DEF TransactionFits
    <3>2. CASE job[t].kind = "count"
      <4>1. s.open /\ x = s
        BY <1>2, <2>1, <3>2 DEF TransactionFits, Finalized
      <4>2. QED
        BY <1>2, <2>1, <2>4, <3>2, <4>1 DEF TransactionFits
    <3>3. QED
      BY <1>2, <2>1, <3>1, <3>2 DEF JobFits, ValidJob, Kind
  <2>7. db' \in [Row -> Job \cup {NoJob}]
    BY <1>2, <2>3 DEF Types
  <2>8. QED
    BY <1>2, <2>1, <2>2, <2>3, <2>5, <2>6, <2>7, WorkInv
<1>7. CASE Commit(t)
  <2> DEFINE j == [job[t] EXCEPT !.done = (job[t].kind = "write")]
  <2>1. Leased(t) /\ at[t] = "work" /\ Mine(t) \in Session
    BY <1>2, <1>7 DEF Commit, HasWorked, HoldsOne
  <2>2. /\ at' = [at EXCEPT ![t] = "return"] /\ job' = [job EXCEPT ![t] = j]
        /\ session' = [session EXCEPT ![Mine(t)] = Clean] /\ UNCHANGED <<free, holds, last>>
    BY <1>7 DEF Commit
  <2>3. j \in ValidJob
    BY <1>2 DEF ValidJob
  <2>4. job'[t] = j /\ at'[t] = "return"
    BY <1>2, <2>2 DEF Types
  <2>5. JobFits(t)' /\ TransactionFits(t)'
    BY <1>2, <2>1, <2>4 DEF JobFits, TransactionFits, ValidJob
  <2>6. db' \in [Row -> Job \cup {NoJob}]
    BY <1>2, <1>7, <2>1 DEF Commit, Types, ValidSession
  <2>7. QED
    BY <2>1, <2>2, <2>3, <2>5, <2>6, CleanIsValid, WorkInv
<1>8. ASSUME NEW x \in ValidSession, RowsOK(x), at[t] \notin {"idle", "lease"}, GiveBack(t, x)
      PROVE  IInv'
  <2>1. Leased(t)
    BY <1>2, <1>8 DEF HoldsOne
  <2>2. QED
    BY <1>8, <2>1, GiveBackInv
<1>9. CASE Return(t) \/ BeginRaises(t)
  BY <1>2, <1>8, <1>9 DEF Return, BeginRaises
<1>10. at[t] \notin {"idle", "lease"} => Finalized(Mine(t)) \in ValidSession /\ RowsOK(Finalized(Mine(t)))
  BY <1>2, FinalizedOK DEF HoldsOne
<1>11. ASSUME at[t] = "work", NEW lock \in Writing
       PROVE  [s EXCEPT !.lock = lock] \in ValidSession /\ RowsOK([s EXCEPT !.lock = lock])
  <2>1. Leased(t) /\ s.open
    BY <1>2, <1>11 DEF HoldsOne, TransactionFits
  <2>2. QED
    BY <2>1, LockedOK
<1>12. "pending" \in Writing /\ "reserved" \in Writing
  BY DEF Writing
<1>13. CASE Busy(t)
  <2>1. CASE at[t] = "work" /\ GiveBack(t, s)
    BY <1>2, <1>8, <2>1
  <2>2. CASE at[t] = "select" /\ GiveBack(t, Finalized(Mine(t)))
    BY <1>8, <1>10, <2>2
  <2>3. CASE at[t] = "work" /\ GiveBack(t, [s EXCEPT !.lock = "pending"])
    BY <1>8, <1>11, <1>12, <2>3
  <2>4. QED
    BY <1>13, <2>1, <2>2, <2>3 DEF Busy, HasWorked
<1>14. CASE Fails(t)
  <2>1. at[t] \notin {"idle", "lease"}
    BY <1>14 DEF Fails
  <2>2. CASE GiveBack(t, Finalized(Mine(t)))
    BY <1>8, <1>10, <2>1, <2>2
  <2>3. CASE GiveBack(t, Clean)
    BY <1>8, <2>1, <2>3, CleanIsValid
  <2>4. CASE at[t] = "work" /\ GiveBack(t, [s EXCEPT !.lock = "reserved"])
    BY <1>8, <1>11, <1>12, <2>4
  <2>5. QED
    BY <1>14, <2>2, <2>3, <2>4 DEF Fails
<1>15. QED
  BY <1>1, <1>3, <1>4, <1>5, <1>6, <1>7, <1>9, <1>13, <1>14 DEF Proceed

LEMMA NextInv == IInv /\ [Next]_vars => IInv'
<1> SUFFICES ASSUME IInv, [Next]_vars PROVE IInv'
  OBVIOUS
<1>1. CASE UNCHANGED vars
  BY <1>1 DEF vars, thread, IInv, Types, ThreadOK, HoldsOne, JobFits, TransactionFits,
              Leased, Mine, Accounted
<1>2. QED
  BY <1>1, AskInv, ProceedInv, DieInv DEF Next

\* Sessions, threads and their transactions fit each other in every reachable
\* state (db.cxx:61-65 and every manager).
THEOREM PoolInvariant == Spec => []IInv
BY InitInv, NextInv, PTL DEF Spec

\* Every variable stays within its type.
THEOREM TypeCorrect == Spec => []TypeOK
<1>1. IInv => TypeOK
  BY DEF IInv, ThreadOK, HoldsOne, Leased, TypeOK
<1>2. QED
  BY <1>1, PoolInvariant, PTL

-----------------------------------------------------------------------------
(***************************************************************************)
(* Nobody waits for a session: were they all taken, there would be as many *)
(* other threads of the process as the pool has sessions.                  *)
(***************************************************************************)
LEMMA SessionIsFree == IInv => NobodyWaits
<1> SUFFICES ASSUME IInv, NEW t \in Thread, at[t] = "lease", FreeFor(t) = {}
             PROVE  FALSE
  BY DEF NobodyWaits
<1> USE DEF IInv
<1> DEFINE T == {u \in Thread : Home[u] = Home[t]}
           R == T \ {t}
           Taker(n) == CHOOSE u \in Thread : Leased(u) /\ Mine(u) = <<Home[t], n>>
           f == [n \in Number |-> Taker(n)]
<1>1. ASSUME NEW n \in Number
      PROVE  f[n] \in R /\ Mine(f[n]) = <<Home[t], n>>
  <2>1. <<Home[t], n>> \in Session \ free
    BY PoolAssumption DEF FreeFor, Session
  <2>2. \E u \in Thread : Leased(u) /\ Mine(u) = <<Home[t], n>>
    BY <2>1 DEF Accounted
  <2>3. f[n] \in Thread /\ Leased(f[n]) /\ Mine(f[n]) = <<Home[t], n>>
    BY <2>2
  <2>4. f[n] # t
    BY <2>3 DEF ThreadOK, HoldsOne
  <2>5. QED
    BY <2>3, <2>4 DEF Mine
<1>2. f \in Injection(Number, R)
  <2>1. f \in [Number -> R]
    BY <1>1
  <2>2. \A m, n \in Number : f[m] = f[n] => m = n
    BY <1>1
  <2>3. QED
    BY <2>1, <2>2 DEF Injection, IsInjective
<1>3. IsFiniteSet(T) /\ IsFiniteSet(R) /\ Cardinality(R) = Cardinality(T) - 1
  BY PoolAssumption, FS_Subset, FS_RemoveElement
<1>4. Cardinality(T) \in Nat /\ Cardinality(T) <= PoolSize /\ PoolSize \in Nat
  BY <1>3, PoolAssumption, FS_CardinalityType
<1>5. Cardinality(Number) = PoolSize
  BY <1>4, FS_Interval DEF Number
<1>6. Cardinality(Number) <= Cardinality(R)
  BY <1>2, <1>3, FS_Injection
<1>7. QED
  BY <1>3, <1>4, <1>5, <1>6

\* Every path that leaves a manager gives the session back: while a process has
\* no more threads than sessions, none of them waits in DB::session().
THEOREM NobodyEverWaits == Spec => []NobodyWaits
BY SessionIsFree, PoolInvariant, PTL

-----------------------------------------------------------------------------
(***************************************************************************)
(* Transactions.                                                           *)
(***************************************************************************)

\* What a commit writes.
LEMMA CommitWrites ==
    ASSUME IInv, NEW t \in Thread, Commit(t)
    PROVE  db' = [r \in Row |-> IF r \in job[t].rows THEN job[t].id ELSE db[r]]
<1>1. job[t].todo = {} /\ at[t] = "work"
  BY DEF Commit, HasWorked
<1>2. \A r \in Row : session[Mine(t)].dirty[r] = IF r \in job[t].rows THEN job[t].id ELSE NoJob
  BY <1>1 DEF IInv, ThreadOK, TransactionFits
<1>3. job[t].id = NoJob => job[t].rows = {}
  BY DEF IInv, ThreadOK, JobFits
<1>4. QED
  BY <1>2, <1>3 DEF Commit

\* Only a commit of what writes changes what is committed.
LEMMA OnlyCommits ==
    ASSUME IInv, [Next]_vars, db' # db
    PROVE  \E t \in Thread : Commit(t) /\ job[t].kind = "write"
<1>1. PICK t \in Thread : Commit(t)
  BY DEF Next, vars, Ask, Proceed, Lease, Begin, BeginRaises, Work, Select, Fetched, Busy,
         Return, Fails, GiveBack, Die
<1>2. job[t].rows # {}
  BY <1>1, CommitWrites DEF IInv, Types
<1>3. QED
  BY <1>1, <1>2 DEF IInv, ThreadOK, JobFits

LEMMA QueryStable ==
    ASSUME IInv, [Next]_vars, NEW t \in Thread, at[t] = "fetch"
    PROVE  db' = db
<1> SUFFICES ASSUME db' # db PROVE FALSE
  OBVIOUS
<1>1. PICK u \in Thread : Commit(u) /\ job[u].kind = "write"
  BY OnlyCommits
<1>2. u # t /\ Leased(t) /\ Leased(u) /\ session[Mine(t)].lock # "none"
  BY <1>1 DEF Commit, HasWorked, IInv, ThreadOK, HoldsOne, TransactionFits
<1>3. Mine(t) \in Session /\ Mine(u) \in Session /\ Mine(t) # Mine(u)
  BY <1>2, MineIsSession DEF IInv, Accounted
<1>4. job[u].rows # {}
  BY <1>1, CommitWrites DEF IInv, Types
<1>5. PICK r \in Row : session[Mine(u)].dirty[r] = job[u].id /\ job[u].id # NoJob
  BY <1>1, <1>4 DEF Commit, HasWorked, IInv, ThreadOK, TransactionFits, JobFits, Types
<1>6. session[Mine(u)].lock \in Writing
  BY <1>3, <1>5 DEF IInv, RowsOK, Untouched
<1>7. QED
  BY <1>1, <1>2, <1>3, <1>6 DEF Commit, CanCommit, IsAlone, Others

\* While rows are fetched nothing is committed.
THEOREM QueriesAreStable == Spec => QueryIsStable
<1>1. IInv /\ [Next]_vars => [(\E t \in Thread : at[t] = "fetch") => db' = db]_vars
  BY QueryStable
<1>2. QED
  BY <1>1, PoolInvariant, PTL DEF Spec, QueryIsStable

-----------------------------------------------------------------------------
(***************************************************************************)
(* Every step of a thread shortens its operation.                          *)
(***************************************************************************)
LEMMA ToDo ==
    ASSUME Types, NEW t \in Thread
    PROVE  /\ IsFiniteSet(job[t].todo)
           /\ Cardinality(job[t].todo) \in Nat
           /\ job[t].todo = {} => Cardinality(job[t].todo) = 0
           /\ \A r \in job[t].todo :
                Cardinality(job[t].todo \ {r}) = Cardinality(job[t].todo) - 1
<1>1. job[t].todo \subseteq Row /\ IsFiniteSet(Row)
  BY PoolAssumption DEF Types
<1>2. IsFiniteSet(job[t].todo)
  BY <1>1, FS_Subset
<1>3. QED
  BY <1>2, FS_CardinalityType, FS_EmptySet, FS_RemoveElement

LEMMA LeftIsNat == ASSUME Types, NEW t \in Thread PROVE Left(t) \in Nat
<1>1. Cardinality(job[t].todo) \in Nat
  BY ToDo
<1>2. at[t] \in {"idle", "lease", "begin", "work", "select", "fetch", "return"}
  BY DEF Types
<1>3. QED
  BY <1>1, <1>2 DEF Left

LEMMA ProceedShortens ==
    ASSUME IInv, IInv', NEW t \in Thread, Proceed(t)
    PROVE  Left(t)' < Left(t)
<1> DEFINE c == Cardinality(job[t].todo)
<1>0. Types /\ JobFits(t)
  BY DEF IInv, ThreadOK
<1>1. c \in Nat /\ (job[t].todo = {} => c = 0)
  BY <1>0, ToDo
<1> HIDE DEF c
<1>2. ASSUME at'[t] = "idle", at[t] # "idle" PROVE Left(t)' < Left(t)
  <2>1. Left(t)' = 0
    BY <1>2 DEF Left
  <2>2. Left(t) > 0
    BY <1>0, <1>1, <1>2 DEF Left, Types, c
  <2>3. QED
    BY <2>1, <2>2
<1>3. CASE Return(t) \/ BeginRaises(t) \/ Busy(t)
  <2>1. at[t] # "idle" /\ at' = [at EXCEPT ![t] = "idle"]
    BY <1>3 DEF Return, BeginRaises, Busy, HasWorked, GiveBack
  <2>2. QED
    BY <1>0, <1>2, <2>1 DEF Types
<1>4. CASE Work(t)
  <2>1. PICK r \in job[t].todo : job' = [job EXCEPT ![t].todo = job[t].todo \ {r}]
    BY <1>4 DEF Work
  <2>2. job'[t].todo = job[t].todo \ {r}
    BY <1>0, <2>1 DEF Types
  <2>3. Cardinality(job'[t].todo) = c - 1
    BY <1>0, <2>2, ToDo DEF c
  <2>4. at[t] = "work" /\ at'[t] = "work"
    BY <1>4 DEF Work
  <2>5. Left(t) = 2 + c /\ Left(t)' = 2 + (c - 1)
    BY <2>3, <2>4 DEF Left, c
  <2>6. QED
    BY <1>1, <2>5
<1>5. ASSUME NEW a, at' = [at EXCEPT ![t] = a], job' = job
      PROVE  at'[t] = a /\ Cardinality(job'[t].todo) = c
  BY <1>0, <1>5 DEF Types, c
<1>6. CASE Lease(t)
  <2>1. at[t] = "lease" /\ at'[t] \in {"select", "begin"} /\ Cardinality(job'[t].todo) = c
    BY <1>5, <1>6 DEF Lease
  <2>2. Left(t) = 6 + c /\ Left(t)' \in {4, 5 + c}
    BY <2>1 DEF Left, c
  <2>3. QED
    BY <1>1, <2>2
<1>7. CASE Begin(t)
  <2>1. at[t] = "begin" /\ at'[t] \in {"select", "work"} /\ Cardinality(job'[t].todo) = c
    BY <1>5, <1>7 DEF Begin
  <2>2. Left(t) = 5 + c /\ Left(t)' \in {4, 2 + c}
    BY <2>1 DEF Left, c
  <2>3. QED
    BY <1>1, <2>2
<1>8. CASE Select(t)
  <2>1. at[t] = "select" /\ at'[t] = "fetch"
    BY <1>5, <1>8 DEF Select
  <2>2. QED
    BY <2>1 DEF Left
<1>9. CASE Fetched(t)
  <2>1. at[t] = "fetch" /\ at'[t] \in {"return", "work"} /\ Cardinality(job'[t].todo) = c
    BY <1>5, <1>9 DEF Fetched
  <2>2. c = 0
    BY <1>0, <1>1, <2>1 DEF JobFits
  <2>3. QED
    BY <2>1, <2>2 DEF Left
<1>10. CASE Commit(t)
  <2>1. at[t] = "work" /\ at' = [at EXCEPT ![t] = "return"]
    BY <1>10 DEF Commit, HasWorked
  <2>2. at'[t] = "return"
    BY <1>0, <2>1 DEF Types
  <2>3. Left(t) = 2 + c /\ Left(t)' = 1
    BY <2>1, <2>2 DEF Left, c
  <2>4. QED
    BY <1>1, <2>3
<1>11. QED
  BY <1>3, <1>4, <1>6, <1>7, <1>8, <1>9, <1>10 DEF Proceed

\* Another thread leaves at and job of this one alone.
LEMMA OthersKeep ==
    ASSUME Types, NEW t \in Thread, NEW u \in Thread, t # u,
           Ask(u) \/ Proceed(u) \/ Fails(u)
    PROVE  at'[t] = at[t] /\ job'[t] = job[t]
<1>1. CASE Ask(u)
  BY <1>1 DEF Ask, Types
<1>2. CASE Fails(u) \/ Busy(u) \/ Return(u) \/ BeginRaises(u)
  <2>1. at' = [at EXCEPT ![u] = "idle"] /\ job' = [job EXCEPT ![u] = Idle]
    BY <1>2 DEF Fails, Busy, Return, BeginRaises, GiveBack
  <2>2. QED
    BY <2>1 DEF Types
<1>3. CASE Lease(u) \/ Begin(u) \/ Work(u) \/ Select(u) \/ Fetched(u) \/ Commit(u)
  BY <1>3 DEF Lease, Begin, Work, Select, Fetched, Commit, Types
<1>4. QED
  BY <1>1, <1>2, <1>3 DEF Proceed

LEMMA NeverLonger ==
    ASSUME IInv, IInv', [Next]_vars, NEW t \in Thread, at[t] # "idle"
    PROVE  Left(t)' <= Left(t)
<1>0. Types /\ Types'
  BY DEF IInv
<1>1. Left(t) \in Nat
  BY <1>0, LeftIsNat
<1>1a. Left(t)' \in Nat
  <2>1. job'[t].todo \subseteq Row /\ IsFiniteSet(Row)
    BY <1>0, PoolAssumption DEF Types
  <2>2. Cardinality(job'[t].todo) \in Nat
    BY <2>1, FS_Subset, FS_CardinalityType
  <2>3. at'[t] \in {"idle", "lease", "begin", "work", "select", "fetch", "return"}
    BY <1>0 DEF Types
  <2>4. QED
    BY <2>2, <2>3 DEF Left
<1>2. CASE at'[t] = "idle"
  <2>1. Left(t)' = 0
    BY <1>2 DEF Left
  <2>2. QED
    BY <1>1, <2>1
<1>3. CASE at'[t] = at[t] /\ job'[t] = job[t]
  <2>1. Left(t)' = Left(t)
    BY <1>3 DEF Left
  <2>2. QED
    BY <1>1, <2>1
<1>4. CASE UNCHANGED vars
  BY <1>3, <1>4 DEF vars, thread
<1>5. ASSUME NEW p \in Process, Die(p) PROVE Left(t)' <= Left(t)
  BY <1>2, <1>3, <1>5 DEF Die
<1>6. ASSUME NEW u \in Thread, Ask(u) \/ Proceed(u) \/ Fails(u), u # t
      PROVE  Left(t)' <= Left(t)
  BY <1>0, <1>3, <1>6, OthersKeep
<1>7. CASE Proceed(t)
  <2>1. Left(t)' < Left(t)
    BY <1>7, ProceedShortens
  <2>2. QED
    BY <1>1, <1>1a, <2>1
<1>8. CASE Fails(t)
  BY <1>0, <1>2, <1>8 DEF Fails, GiveBack, Types
<1>9. QED
  BY <1>4, <1>5, <1>6, <1>7, <1>8 DEF Next, Ask

\* An operation is never set back: it needs as many steps of its thread as
\* are left, whatever the others do.  With the scheduling that Spec assumes,
\* it ends.
THEOREM OperationsShorten == Spec => OperationShortens
<1>1. IInv /\ IInv' /\ [Next]_vars
        => [\A t \in Thread : /\ at[t] # "idle" => Left(t)' <= Left(t)
                              /\ Proceed(t) => Left(t)' < Left(t)]_vars
  <2> SUFFICES ASSUME IInv, IInv', [Next]_vars
               PROVE  \A t \in Thread : /\ at[t] # "idle" => Left(t)' <= Left(t)
                                        /\ Proceed(t) => Left(t)' < Left(t)
    OBVIOUS
  <2>1. QED
    BY NeverLonger, ProceedShortens
<1>2. QED
  BY <1>1, PoolInvariant, PTL DEF Spec, OperationShortens

-----------------------------------------------------------------------------
(***************************************************************************)
(* Sessions, locks and abandoned transactions implement transactions that  *)
(* happen at once or not at all.                                           *)
(***************************************************************************)
\* What is wanted follows from the operation of each thread.
LEMMA WantOf ==
    ASSUME Types, Types', NEW t \in Thread, \A u \in Thread \ {t} : job'[u] = job[u]
    PROVE  Want' = [Want EXCEPT ![t] = Wanted(t)']
BY DEF Want, Wanted

LEMMA StepSimulation ==
    ASSUME IInv, IInv', [Next]_vars
    PROVE  [AllOrNothing!Next]_(AllOrNothing!vars)
<1> USE DEF AllOrNothing!vars, AllOrNothing!NoJob, AllOrNothing!Rest, NoJob
<1>0. Types /\ Types'
  BY DEF IInv
<1>2. ASSUME NEW t \in Thread, \A u \in Thread \ {t} : job'[u] = job[u], Wanted(t)' = Wanted(t),
             UNCHANGED <<db, last>>
      PROVE  UNCHANGED AllOrNothing!vars
  <2>1. Want' = Want
    BY <1>0, <1>2, WantOf DEF Want, Wanted
  <2>2. QED
    BY <1>2, <2>1
<1>3. ASSUME NEW t \in Thread, Ask(t)
      PROVE  [AllOrNothing!Next]_(AllOrNothing!vars)
  <2>1. job[t] = Idle /\ job[t].id = NoJob
    BY <1>3 DEF Ask, IInv, ThreadOK, JobFits, Idle
  <2>2. CASE UNCHANGED last
    <3>1. PICK kind \in {"count", "query"} : job' = [job EXCEPT ![t].kind = kind]
      BY <1>0, <1>3, <2>2 DEF Ask, Types, Job
    <3>2. Wanted(t)' = Wanted(t)
      BY <1>0, <3>1 DEF Wanted, Types
    <3>3. QED
      BY <1>0, <1>2, <1>3, <2>2, <3>1, <3>2 DEF Ask, Types
  <2>3. CASE last < MaxJob /\ last' = last + 1
    <3>1. PICK rows \in SUBSET Row :
            job' = [job EXCEPT ![t] = [id |-> last', kind |-> "write", rows |-> rows,
                                       todo |-> rows, done |-> FALSE]]
      BY <1>0, <1>3, <2>3 DEF Ask, Types, Job
    <3>2. Want' = [Want EXCEPT ![t] = [id |-> last', rows |-> rows, done |-> FALSE]]
      BY <1>0, <3>1, WantOf DEF Wanted, Types
    <3>3. Want[t].id = NoJob /\ db' = db
      BY <1>3, <2>1 DEF Want, Wanted, Ask
    <3>4. AllOrNothing!Ask(t)
      BY <2>3, <3>2, <3>3 DEF AllOrNothing!Ask
    <3>5. QED
      BY <3>4 DEF AllOrNothing!Next
  <2>4. QED
    BY <1>3, <2>2, <2>3 DEF Ask
<1>4. ASSUME NEW t \in Thread, Commit(t)
      PROVE  [AllOrNothing!Next]_(AllOrNothing!vars)
  <2> DEFINE j == [job[t] EXCEPT !.done = (job[t].kind = "write")]
  <2>1. job' = [job EXCEPT ![t] = j] /\ last' = last
    BY <1>4 DEF Commit
  <2>2. db' = [r \in Row |-> IF r \in job[t].rows THEN job[t].id ELSE db[r]]
    BY <1>4, CommitWrites
  <2>3. ~job[t].done
    BY <1>4 DEF Commit, HasWorked, IInv, ThreadOK, JobFits
  <2>4. job'[t] = j /\ job[t] \in ValidJob
    BY <1>0, <2>1 DEF Types, ValidJob
  <2>5. CASE job[t].kind = "write"
    <3>1. Wanted(t)' = [Wanted(t) EXCEPT !.done = TRUE]
      <4>1. (job[t].kind = "write") = TRUE
        BY <2>5
      <4>2. j = [job[t] EXCEPT !.done = TRUE]
        BY <4>1
      <4> HIDE DEF j
      <4>3. j.id = job[t].id /\ j.rows = job[t].rows /\ j.done = TRUE
        BY <2>4, <4>2 DEF ValidJob
      <4>4. Wanted(t)' = [id |-> j.id, rows |-> j.rows, done |-> j.done]
        BY <2>4 DEF Wanted
      <4>5. Wanted(t)' = [id |-> job[t].id, rows |-> job[t].rows, done |-> TRUE]
        BY <4>3, <4>4
      <4>6. PICK q : q = [Wanted(t) EXCEPT !.done = TRUE]
        OBVIOUS
      <4>7. Wanted(t) \in [id : Job \cup {NoJob}, rows : SUBSET Row, done : BOOLEAN]
        BY <2>4 DEF Wanted, ValidJob
      <4>8. q = [id |-> Wanted(t).id, rows |-> Wanted(t).rows, done |-> TRUE]
        BY <4>6, <4>7
      <4>9. QED
        BY <4>5, <4>6, <4>8 DEF Wanted
    <3>2. Want' = [Want EXCEPT ![t].done = TRUE]
      BY <1>0, <2>1, <3>1, WantOf DEF Want, Types
    <3>3. Want[t].id # NoJob /\ ~Want[t].done
      BY <2>3, <2>5 DEF Want, Wanted, IInv, ThreadOK, JobFits
    <3>4. db' = [r \in Row |-> IF r \in Want[t].rows THEN Want[t].id ELSE db[r]]
      BY <2>2 DEF Want, Wanted
    <3>5. AllOrNothing!Perform(t)
      BY <2>1, <3>2, <3>3, <3>4 DEF AllOrNothing!Perform
    <3>6. QED
      BY <3>5 DEF AllOrNothing!Next
  <2>6. CASE job[t].kind # "write"
    <3>1. job[t].rows = {}
      BY <2>6 DEF IInv, ThreadOK, JobFits
    <3>2. db' = db
      BY <1>0, <2>2, <3>1 DEF Types
    <3>3. Wanted(t)' = Wanted(t)
      BY <2>3, <2>4, <2>6 DEF Wanted, ValidJob
    <3>4. QED
      BY <1>0, <1>2, <2>1, <3>2, <3>3 DEF Types
  <2>7. QED
    BY <2>5, <2>6
<1>5. ASSUME NEW t \in Thread, NEW x, GiveBack(t, x)
      PROVE  [AllOrNothing!Next]_(AllOrNothing!vars)
  <2>1. job' = [job EXCEPT ![t] = Idle] /\ UNCHANGED <<db, last>>
    BY <1>5 DEF GiveBack
  <2>2. Wanted(t)' = [id |-> NoJob, rows |-> {}, done |-> FALSE]
    BY <1>0, <2>1 DEF Wanted, Idle, Types
  <2>3. CASE job[t].id = NoJob
    <3>1. Wanted(t) = [id |-> NoJob, rows |-> {}, done |-> FALSE]
      BY <1>0, <2>3 DEF Wanted, IInv, ThreadOK, JobFits, Types
    <3>2. QED
      BY <1>0, <1>2, <2>1, <2>2, <3>1 DEF Types
  <2>4. CASE job[t].id # NoJob
    <3>1. Want' = [Want EXCEPT ![t] = [id |-> NoJob, rows |-> {}, done |-> FALSE]]
      BY <1>0, <2>1, <2>2, WantOf DEF Types
    <3>2. Want[t].id # NoJob
      BY <2>4 DEF Want, Wanted
    <3>3. AllOrNothing!Answer(t)
      BY <2>1, <3>1, <3>2 DEF AllOrNothing!Answer
    <3>4. QED
      BY <3>3 DEF AllOrNothing!Next
  <2>5. QED
    BY <2>3, <2>4
<1>6. ASSUME NEW t \in Thread, Lease(t) \/ Begin(t) \/ Select(t) \/ Fetched(t)
      PROVE  UNCHANGED AllOrNothing!vars
  BY <1>6 DEF Lease, Begin, Select, Fetched, Want, Wanted
<1>7. ASSUME NEW t \in Thread, Work(t)
      PROVE  UNCHANGED AllOrNothing!vars
  <2>1. PICK r \in job[t].todo : job' = [job EXCEPT ![t].todo = job[t].todo \ {r}]
    BY <1>7 DEF Work
  <2>2. Wanted(t)' = Wanted(t)
    BY <1>0, <2>1 DEF Wanted, Types
  <2>3. QED
    BY <1>0, <1>2, <1>7, <2>1, <2>2 DEF Work, Types
<1>8. ASSUME NEW p \in Process, Die(p)
      PROVE  [AllOrNothing!Next]_(AllOrNothing!vars)
  <2> DEFINE T == {t \in Thread : Home[t] = p}
  <2>1. Want' = [t \in Thread |-> IF t \in T THEN [id |-> NoJob, rows |-> {}, done |-> FALSE]
                                  ELSE Want[t]]
    BY <1>8 DEF Die, Want, Wanted, Idle
  <2>2. AllOrNothing!Cut(T)
    BY <1>8, <2>1 DEF AllOrNothing!Cut, Die
  <2>3. T \in SUBSET Thread
    OBVIOUS
  <2>4. QED
    BY <2>2, <2>3 DEF AllOrNothing!Next
<1>9. ASSUME NEW t \in Thread, Return(t) \/ BeginRaises(t) \/ Busy(t) \/ Fails(t)
      PROVE  [AllOrNothing!Next]_(AllOrNothing!vars)
  BY <1>5, <1>9 DEF Return, BeginRaises, Busy, Fails
<1>10. CASE UNCHANGED vars
  BY <1>10 DEF vars, thread, Want, Wanted
<1>11. QED
  BY <1>3, <1>4, <1>6, <1>7, <1>8, <1>9, <1>10 DEF Next, Proceed

\* An operation writes all of its rows or none, and never those that another
\* left in the session it was given.
THEOREM PoolImplementsTransactions == Spec => ImplementsTransactions
<1>1. Init => AllOrNothing!Init
  BY DEF Init, Want, Wanted, AllOrNothing!Init, Untouched, Idle, AllOrNothing!Rest, NoJob, AllOrNothing!NoJob
<1>2. IInv /\ IInv' /\ [Next]_vars => [AllOrNothing!Next]_(AllOrNothing!vars)
  BY StepSimulation
<1>3. QED
  BY <1>1, <1>2, PoolInvariant, PTL DEF Spec, ImplementsTransactions, AllOrNothing!Spec

\* Of a session that was left with its transaction open, whatever the errors and
\* the deaths of processes, nothing is seen before the operation is done, nothing
\* but its own rows then, and nothing later when it failed.
THEOREM FailureLeavesNothing ==
    Spec => []Promised!OwnRowsWhenDone /\ Promised!FailedStaysOut
<1>1. ImplementsTransactions => Promised!Spec
  BY PTL DEF ImplementsTransactions,
     AllOrNothing!Spec, AllOrNothing!Init, AllOrNothing!Next, AllOrNothing!vars, AllOrNothing!Ask,
     AllOrNothing!Perform, AllOrNothing!Answer, AllOrNothing!Cut, AllOrNothing!Rest,
     AllOrNothing!NoJob,
     Promised!Spec, Promised!Init, Promised!Next, Promised!vars, Promised!Ask,
     Promised!Perform, Promised!Answer, Promised!Cut, Promised!Rest, Promised!NoJob
<1>2. QED
  BY <1>1, PoolImplementsTransactions, Promised!DoneIsSeen, Promised!FailedIsOut, PTL

=============================================================================
