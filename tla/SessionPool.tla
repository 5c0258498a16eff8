----------------------------- MODULE SessionPool ------------------------------
(***************************************************************************)
(* The sessions of the database (db/db.cxx) and the threads that run the   *)
(* operations of the managers on them.                                     *)
(*                                                                         *)
(* A manager takes a session from the pool of its process, begins a        *)
(* transaction, executes statements, commits, and gives the session back   *)
(* where its pointer leaves the scope.  A statement that raises leaves the *)
(* scope as well, and nothing rolls the transaction back: the session is   *)
(* in the pool again with its transaction open, its rows written and its   *)
(* lock on the file held, for whichever thread takes it next.              *)
(*                                                                         *)
(* soci and sqlite are external: a pool leases its first free session and  *)
(* waits without limit for one, "BEGIN" in a transaction raises, and a     *)
(* statement that cannot have its lock raises at once (no busy timeout is  *)
(* set).  Locks are those of the rollback journal, "pending" standing for  *)
(* exclusive also.                                                         *)
(***************************************************************************)
EXTENDS Naturals, FiniteSets

CONSTANTS
    Process,        \* the service, command lines
    Thread,
    Home,           \* the process of each thread
    PoolSize,       \* main.cxx:77
    Row,            \* rows that an operation may write
    MaxJob          \* bound: operations

ASSUME PoolAssumption ==
    /\ Home \in [Thread -> Process]
    /\ PoolSize \in Nat
    /\ IsFiniteSet(Thread)
    /\ IsFiniteSet(Row)
    /\ \A p \in Process : Cardinality({t \in Thread : Home[t] = p}) <= PoolSize
    /\ MaxJob \in Nat

VARIABLES
    db,             \* what is committed: the operation that last wrote each row
    session,        \* each session: in a transaction, its lock, what it wrote
    free,           \* sessions in their pool
    at,             \* where each thread is
    holds,          \* the number of the session it has
    job,            \* the operation it runs
    last            \* the last operation that writes

thread == <<at, holds, job>>
vars == <<db, session, free, thread, last>>

-----------------------------------------------------------------------------
Number == 1 .. PoolSize
Session == Process \X Number
NoSession == 0
Job == 1 .. MaxJob
NoJob == 0

\* begin, statements that write, commit; the same with a SELECT; a SELECT only.
Kind == {"write", "count", "query"}

Lock == {"none", "shared", "reserved", "pending"}
Writing == {"reserved", "pending"}

Untouched == [r \in Row |-> NoJob]
Clean == [open |-> FALSE, lock |-> "none", dirty |-> Untouched]
Idle == [id |-> NoJob, kind |-> "query", rows |-> {}, todo |-> {}, done |-> FALSE]

\* The session of thread t while it has one.
Mine(t) == <<Home[t], holds[t]>>

Others(s) == Session \ {s}

\* sqlite grants a lock.
CanRead(s) ==
    \/ session[s].lock # "none"
    \/ \A o \in Others(s) : session[o].lock # "pending"
CanWrite(s) == \A o \in Others(s) : session[o].lock \notin Writing
IsAlone(s) == \A o \in Others(s) : session[o].lock = "none"

-----------------------------------------------------------------------------
Init ==
    /\ db = Untouched
    /\ session = [s \in Session |-> Clean]
    /\ free = Session
    /\ at = [t \in Thread |-> "idle"]
    /\ holds = [t \in Thread |-> NoSession]
    /\ job = [t \in Thread |-> Idle]
    /\ last = 0

\* A request, the updater or the command line calls a manager.  What writes has
\* a number of its own.
Ask(t) ==
    /\ at[t] = "idle"
    /\ \/ /\ last < MaxJob
          /\ last' = last + 1
          /\ \E rows \in SUBSET Row \ {{}} :
               job' = [job EXCEPT ![t] = [id |-> last', kind |-> "write", rows |-> rows,
                                          todo |-> rows, done |-> FALSE]]
       \/ /\ \E kind \in {"count", "query"} : job' = [job EXCEPT ![t].kind = kind]
          /\ UNCHANGED last
    /\ at' = [at EXCEPT ![t] = "lease"]
    /\ UNCHANGED <<db, session, free, holds>>

FreeFor(t) == {n \in Number : <<Home[t], n>> \in free}

\* DB::session(): the first session that is free.
Lease(t) ==
    /\ at[t] = "lease"
    /\ \E n \in FreeFor(t) :
         /\ \A m \in FreeFor(t) : n <= m
         /\ holds' = [holds EXCEPT ![t] = n]
         /\ free' = free \ {<<Home[t], n>>}
    /\ at' = [at EXCEPT ![t] = IF job[t].kind = "query" THEN "select" ELSE "begin"]
    /\ UNCHANGED <<db, session, job, last>>

\* Mutant: begin joins the transaction that it finds.
Begin_Joins(t) ==
    /\ at[t] = "begin"
    /\ session' = [session EXCEPT ![Mine(t)].open = TRUE]
    /\ at' = [at EXCEPT ![t] = IF job[t].kind = "count" THEN "select" ELSE "work"]
    /\ UNCHANGED <<db, free, holds, job, last>>

Begin(t) ==
    /\ at[t] = "begin"
    /\ ~session[Mine(t)].open
    /\ session' = [session EXCEPT ![Mine(t)].open = TRUE]
    /\ at' = [at EXCEPT ![t] = IF job[t].kind = "count" THEN "select" ELSE "work"]
    /\ UNCHANGED <<db, free, holds, job, last>>

\* st.execute, once for every row.  When it fills its cache sqlite takes the
\* exclusive lock, if it can, ahead of the commit.
Work(t) ==
    LET s == Mine(t) IN
    /\ at[t] = "work"
    /\ CanWrite(s)
    /\ \E r \in job[t].todo, lock \in Writing :
         /\ lock = session[s].lock \/ session[s].lock # "pending"
         /\ lock = "pending" => IsAlone(s)
         /\ session' = [session EXCEPT ![s].lock = lock, ![s].dirty[r] = job[t].id]
         /\ job' = [job EXCEPT ![t].todo = job[t].todo \ {r}]
    /\ UNCHANGED <<db, free, at, holds, last>>

\* Mutant: the statement is over before its rows are fetched.
Select_Closes(t) ==
    /\ at[t] = "select"
    /\ CanRead(Mine(t))
    /\ at' = [at EXCEPT ![t] = "fetch"]
    /\ UNCHANGED <<db, session, free, holds, job, last>>

\* The first row of a SELECT.
Select(t) ==
    LET s == Mine(t) IN
    /\ at[t] = "select"
    /\ CanRead(s)
    /\ session' = IF session[s].lock = "none"
                  THEN [session EXCEPT ![s].lock = "shared"]
                  ELSE session
    /\ at' = [at EXCEPT ![t] = "fetch"]
    /\ UNCHANGED <<db, free, holds, job, last>>

\* What a statement leaves of its session when it is finalized.
Finalized(s) == IF session[s].open THEN session[s] ELSE Clean

\* The last row: while(st.fetch()).
Fetched(t) ==
    /\ at[t] = "fetch"
    /\ session' = [session EXCEPT ![Mine(t)] = Finalized(Mine(t))]
    /\ at' = [at EXCEPT ![t] = IF job[t].kind = "query" THEN "return" ELSE "work"]
    /\ UNCHANGED <<db, free, holds, job, last>>

HasWorked(t) == at[t] = "work" /\ job[t].todo = {}

CanCommit(s) == session[s].lock \in Writing => IsAlone(s)

Commit(t) ==
    LET s == Mine(t) IN
    /\ HasWorked(t)
    /\ CanCommit(s)
    /\ db' = [r \in Row |-> IF session[s].dirty[r] # NoJob THEN session[s].dirty[r] ELSE db[r]]
    /\ session' = [session EXCEPT ![s] = Clean]
    /\ job' = [job EXCEPT ![t].done = (job[t].kind = "write")]
    /\ at' = [at EXCEPT ![t] = "return"]
    /\ UNCHANGED <<free, holds, last>>

-----------------------------------------------------------------------------
\* The thread is done with its session and answers; after is how it leaves it.
GiveBack(t, after) ==
    /\ session' = [session EXCEPT ![Mine(t)] = after]
    /\ free' = free \cup {Mine(t)}
    /\ holds' = [holds EXCEPT ![t] = NoSession]
    /\ at' = [at EXCEPT ![t] = "idle"]
    /\ job' = [job EXCEPT ![t] = Idle]
    /\ UNCHANGED <<db, last>>

Return(t) ==
    /\ at[t] = "return"
    /\ GiveBack(t, session[Mine(t)])

\* Mutant: another session is tried, and this one is not given back.
BeginRaises_Retries(t) ==
    /\ at[t] = "begin"
    /\ session[Mine(t)].open
    /\ at' = [at EXCEPT ![t] = "lease"]
    /\ UNCHANGED <<db, session, free, holds, job, last>>

\* "cannot start a transaction within a transaction".
BeginRaises(t) ==
    /\ at[t] = "begin"
    /\ session[Mine(t)].open
    /\ GiveBack(t, session[Mine(t)])

\* Mutant: whoever finds the database locked keeps its session.
Busy_Keeps(t) ==
    LET s == Mine(t) IN
    /\ \/ at[t] = "work" /\ job[t].todo # {} /\ ~CanWrite(s)
       \/ at[t] = "select" /\ ~CanRead(s)
       \/ HasWorked(t) /\ ~CanCommit(s)
    /\ session' = IF HasWorked(t)
                  THEN [session EXCEPT ![s].lock = "pending"]
                  ELSE [session EXCEPT ![s] = Finalized(s)]
    /\ holds' = [holds EXCEPT ![t] = NoSession]
    /\ at' = [at EXCEPT ![t] = "idle"]
    /\ job' = [job EXCEPT ![t] = Idle]
    /\ UNCHANGED <<db, last, free>>

\* Mutant: a statement waits for its lock.
Busy_Waits(t) ==
    /\ HasWorked(t)
    /\ ~CanCommit(Mine(t))
    /\ GiveBack(t, [session[Mine(t)] EXCEPT !.lock = "pending"])

\* "database is locked".  A commit that has to wait for readers has locked new
\* ones out, and does so still when it is given up.
Busy(t) ==
    LET s == Mine(t) IN
    \/ /\ at[t] = "work"
       /\ job[t].todo # {}
       /\ ~CanWrite(s)
       /\ GiveBack(t, session[s])
    \/ /\ at[t] = "select"
       /\ ~CanRead(s)
       /\ GiveBack(t, Finalized(s))
    \/ /\ HasWorked(t)
       /\ ~CanCommit(s)
       /\ GiveBack(t, [session[s] EXCEPT !.lock = "pending"])

\* A statement fails for another reason.  A constraint takes back what the
\* statement did but not its lock; for some errors sqlite itself rolls back.
Fails(t) ==
    LET s == Mine(t) IN
    /\ at[t] \in {"begin", "work", "select", "fetch"}
    /\ \/ GiveBack(t, Finalized(s))
       \/ GiveBack(t, Clean)
       \/ /\ at[t] = "work"
          /\ CanWrite(s)
          /\ session[s].lock # "pending"
          /\ GiveBack(t, [session[s] EXCEPT !.lock = "reserved"])

\* A process ends or is killed: ~DB closes its sessions or the next to open the
\* file finds a hot journal.  The one that takes its place opens new sessions.
Die(p) ==
    LET gone == {t \in Thread : Home[t] = p} IN
    /\ session' = [s \in Session |-> IF s[1] = p THEN Clean ELSE session[s]]
    /\ free' = free \cup ({p} \X Number)
    /\ holds' = [t \in Thread |-> IF t \in gone THEN NoSession ELSE holds[t]]
    /\ at' = [t \in Thread |-> IF t \in gone THEN "idle" ELSE at[t]]
    /\ job' = [t \in Thread |-> IF t \in gone THEN Idle ELSE job[t]]
    /\ UNCHANGED <<db, last>>

Proceed(t) ==
    \/ Lease(t)
    \/ Begin(t)
    \/ BeginRaises(t)
    \/ Work(t)
    \/ Select(t)
    \/ Fetched(t)
    \/ Commit(t)
    \/ Busy(t)
    \/ Return(t)

Next ==
    \/ \E t \in Thread : Ask(t) \/ Proceed(t) \/ Fails(t)
    \/ \E p \in Process : Die(p)

\* The threads run; nobody has to ask, and nothing has to fail.
Spec ==
    /\ Init
    /\ [][Next]_vars
    /\ \A t \in Thread : WF_vars(Proceed(t))

-----------------------------------------------------------------------------
(***************************************************************************)
(* Properties                                                              *)
(***************************************************************************)

Types ==
    /\ db \in [Row -> Job \cup {NoJob}]
    /\ session \in [Session -> [open : BOOLEAN, lock : Lock,
                                dirty : [Row -> Job \cup {NoJob}]]]
    /\ free \in SUBSET Session
    /\ at \in [Thread -> {"idle", "lease", "begin", "work", "select", "fetch", "return"}]
    /\ holds \in [Thread -> Number \cup {NoSession}]
    /\ job \in [Thread -> [id : Job \cup {NoJob}, kind : Kind, rows : SUBSET Row,
                           todo : SUBSET Row, done : BOOLEAN]]
    /\ last \in Job \cup {NoJob}

\* Every variable holds what the code can put into it, and a thread has a
\* session from where it was given one until it leaves the manager.
TypeOK == Types /\ \A t \in Thread : holds[t] = NoSession <=> at[t] \in {"idle", "lease"}

\* Every session is in the pool or with one thread, on every path on which a
\* manager is left, so that a thread that asks for one (db.cxx:61) never waits:
\* there are as many as threads.
NobodyWaits == \A t \in Thread : at[t] = "lease" => FreeFor(t) # {}

\* What a query is given row by row (domain_manager.cxx:55-58) is one state of
\* the tables: nobody commits in between.
QueryIsStable == [][(\E t \in Thread : at[t] = "fetch") => db' = db]_vars

\* The steps that a thread has still to do.
Left(t) ==
    CASE at[t] = "idle"   -> 0
      [] at[t] = "return" -> 1
      [] at[t] = "work"   -> 2 + Cardinality(job[t].todo)
      [] at[t] = "fetch"  -> 3
      [] at[t] = "select" -> 4
      [] at[t] = "begin"  -> 5 + Cardinality(job[t].todo)
      [] at[t] = "lease"  -> 6 + Cardinality(job[t].todo)

\* Whatever a thread does brings it nearer to the end of its operation, and
\* nobody else takes it further from there: there is no retry, and none of them
\* waits in turns (the half of OperationEnds that needs no fairness).
OperationShortens ==
    [][\A t \in Thread :
          /\ at[t] # "idle" => Left(t)' <= Left(t)
          /\ Proceed(t) => Left(t)' < Left(t)]_vars

\* Every operation comes to an end: nobody waits for a lock or a session that
\* another, or an abandoned transaction, has.
OperationEnds == \A t \in Thread : at[t] # "idle" ~> at[t] = "idle"

\* What each thread is to write.
Wanted(t) == [id |-> job[t].id, rows |-> job[t].rows, done |-> job[t].done]
Want == [t \in Thread |-> Wanted(t)]

AllOrNothing == INSTANCE Transactions WITH want <- Want

\* Whatever is left open in the pool, an operation writes all of its rows or
\* none, and never those of another: nothing rolls back, but a transaction that
\* is left open is not committed by the next who has the session (db.cxx:61-65).
ImplementsTransactions == AllOrNothing!Spec

=============================================================================
