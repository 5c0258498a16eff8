-------------------------- MODULE WorkerLoopProofs --------------------------
(***************************************************************************)
(* Proofs about WorkerLoop and the Updater it runs, for any number of      *)
(* servers, lists, publications, signals and workers.                      *)
(***************************************************************************)
EXTENDS WorkerLoop, TLAPS

(***************************************************************************)
(* The invariant of the updater.                                           *)
(***************************************************************************)

\* What was fetched of list l is what is published, or that was published later.
Covers(l, version, t) ==
    version \in {Nothing, Own, web[l].version} \/ web[l].date = NoDate \/ t <= web[l].date

\* Dates of the past: what is stored and what is about to be.
InThePast ==
    /\ \A l \in List :
        /\ stored[l].mtime <= clock
        /\ snapshot[l] <= stored[l].mtime
        /\ fetched[l].at <= clock
    /\ body.at <= clock

StoredCovers ==
    \A l \in List :
        /\ Covers(l, stored[l].version, fetched[l].at)
        /\ stored[l].mtime = fetched[l].done

BodyCovers == upc = "import" => Covers(list, body.version, body.at)

UInv ==
    /\ UpdaterTypeOK
    /\ InThePast
    /\ StoredCovers
    /\ BodyCovers

\* A server is bound only while one is left to bind.
WInv ==
    /\ TypeOK
    /\ NoThreadInDeletedServer
    /\ at = "bind" => bound < NumServers

-----------------------------------------------------------------------------
(***************************************************************************)
(* The updater                                                             *)
(***************************************************************************)
LEMMA UpdaterInitInv == UpdaterInit => UInv
<1> SUFFICES ASSUME UpdaterInit PROVE UInv
  OBVIOUS
<1> USE UpdaterAssumption
<1>1. PICK before \in SUBSET List :
        /\ stored = [l \in List |-> IF l \in before THEN [version |-> 1, mtime |-> 1]
                                   ELSE [version |-> Nothing, mtime |-> 0]]
        /\ fetched = [l \in List |-> IF l \in before THEN [at |-> 1, done |-> 1]
                                    ELSE [at |-> 0, done |-> 0]]
  BY DEF UpdaterInit
<1>2. web \in [List -> [version : 1 .. MaxVersion, date : 0 .. MaxTime + 1]]
  BY DEF UpdaterInit, NoDate
<1>3. stored \in [List -> [version : 0 .. Own, mtime : {0} \cup Time]]
  BY <1>1 DEF Nothing, Own, Time
<1>4. fetched \in [List -> [at : {0} \cup Time, done : {0} \cup Time]]
  BY <1>1 DEF Time
<1>5. UpdaterTypeOK
  <2>1. clock \in Time /\ list \in List /\ upc \in {"idle", "look", "fetch", "import"}
    BY DEF UpdaterInit, Time
  <2>2. todo \in SUBSET List /\ updated \in BOOLEAN
    BY DEF UpdaterInit
  <2>3. snapshot \in [List -> {0} \cup Time]
    BY DEF UpdaterInit, NoSnapshot, Time
  <2>4. body \in [version : 0 .. MaxVersion, at : Time]
    BY DEF UpdaterInit, NoBody, Nothing, Time
  <2>5. QED
    BY <1>2, <1>3, <1>4, <2>1, <2>2, <2>3, <2>4 DEF UpdaterTypeOK
<1>6. InThePast /\ StoredCovers /\ BodyCovers
  BY <1>1 DEF UpdaterInit, InThePast, StoredCovers, BodyCovers, Covers, Nothing, NoBody, NoSnapshot
<1>7. QED
  BY <1>5, <1>6 DEF UInv

\* A step of the updater, or of the world around it, keeps the invariant.
LEMMA UpdaterInv ==
    ASSUME UInv,
           Snapshot \/ Look \/ Fetch \/ Import \/ UpdaterReturns \/ World \/ UNCHANGED updaterVars
    PROVE  UInv'
<1> USE UpdaterAssumption
    DEF UInv, UpdaterTypeOK, InThePast, StoredCovers, BodyCovers, Covers, Time,
        Nothing, Own, NoDate, NoBody, NoSnapshot, world, updater
<1>1. CASE Snapshot
  <2>1. UpdaterTypeOK'
    BY <1>1 DEF Snapshot
  <2>2. InThePast'
    BY <1>1 DEF Snapshot
  <2>3. StoredCovers'
    BY <1>1 DEF Snapshot
  <2>4. BodyCovers'
    BY <1>1 DEF Snapshot
  <2>5. QED
    BY <2>1, <2>2, <2>3, <2>4
<1>2. CASE Look
  BY <1>2 DEF Look
<1>3. CASE Fetch
  BY <1>3 DEF Fetch
<1>4. CASE Import
  <2>1. UpdaterTypeOK'
    <3>1. body.version \in 0 .. Own /\ body' \in [version : 0 .. MaxVersion, at : Time]
      BY <1>4 DEF Import
    <3>2. stored' \in [List -> [version : 0 .. Own, mtime : {0} \cup Time]]
      <4>1. [version |-> body.version, mtime |-> clock]
              \in [version : 0 .. Own, mtime : {0} \cup Time]
        BY <3>1
      <4>2. \/ stored' = [stored EXCEPT ![list] = [version |-> body.version, mtime |-> clock]]
            \/ UNCHANGED stored
        BY <1>4 DEF Import
      <4>3. QED
        BY <4>1, <4>2
    <3>3. fetched' \in [List -> [at : {0} \cup Time, done : {0} \cup Time]]
      <4>1. [at |-> body.at, done |-> clock] \in [at : {0} \cup Time, done : {0} \cup Time]
        OBVIOUS
      <4>2. \/ fetched' = [fetched EXCEPT ![list] = [at |-> body.at, done |-> clock]]
            \/ UNCHANGED fetched
        BY <1>4 DEF Import
      <4>3. QED
        BY <4>1, <4>2
    <3>4. updated' \in BOOLEAN /\ upc' \in {"idle", "look", "fetch", "import"}
      BY <1>4 DEF Import
    <3>5. UNCHANGED <<clock, web, todo, snapshot, list>>
      BY <1>4 DEF Import
    <3>6. QED
      BY <3>1, <3>2, <3>3, <3>4, <3>5
  <2>2. InThePast'
    <3>1. clock' = clock /\ body.at <= clock
      BY <1>4 DEF Import
    <3>2. \A l \in List \ {list} : stored'[l] = stored[l] /\ fetched'[l] = fetched[l]
      <4>1. \A l \in List \ {list} : stored'[l] = stored[l]
        BY <1>4 DEF Import
      <4>2. \A l \in List \ {list} : fetched'[l] = fetched[l]
        BY <1>4 DEF Import
      <4>3. QED
        BY <4>1, <4>2
    <3>3. \/ UNCHANGED <<stored, fetched>>
          \/ /\ stored'[list] = [version |-> body.version, mtime |-> clock]
             /\ fetched'[list] = [at |-> body.at, done |-> clock]
      <4>1. CASE UNCHANGED <<stored, fetched>>
        BY <4>1
      <4>2. CASE /\ stored' = [stored EXCEPT ![list] = [version |-> body.version, mtime |-> clock]]
                 /\ fetched' = [fetched EXCEPT ![list] = [at |-> body.at, done |-> clock]]
        BY <4>2
      <4>3. QED
        BY <1>4, <4>1, <4>2 DEF Import
    <3>4. UNCHANGED snapshot /\ body'.at = 1
      BY <1>4 DEF Import
    <3>5. ASSUME NEW l \in List
          PROVE  /\ stored'[l].mtime <= clock
                 /\ snapshot[l] <= stored'[l].mtime
                 /\ fetched'[l].at <= clock
      <4>1. CASE l # list
        BY <3>2, <4>1
      <4>2. CASE l = list
        BY <3>1, <3>3, <4>2
      <4>3. QED
        BY <4>1, <4>2
    <3>6. QED
      BY <3>1, <3>4, <3>5
  <2>3. StoredCovers'
    <3>1. web' = web /\ \A l \in List \ {list} : stored'[l] = stored[l] /\ fetched'[l] = fetched[l]
      BY <1>4 DEF Import
    <3>2. \/ UNCHANGED <<stored, fetched>>
          \/ /\ stored'[list] = [version |-> body.version, mtime |-> clock]
             /\ fetched'[list] = [at |-> body.at, done |-> clock]
      BY <1>4 DEF Import
    <3>3. Covers(list, body.version, body.at)
      BY <1>4 DEF Import
    <3>4. QED
      BY <3>1, <3>2, <3>3
  <2>4. BodyCovers'
    BY <1>4 DEF Import
  <2>5. QED
    BY <2>1, <2>2, <2>3, <2>4
<1>5. CASE UpdaterReturns
  <2>1. UpdaterTypeOK'
    BY <1>5 DEF UpdaterReturns
  <2>2. UNCHANGED <<clock, web, stored, list, body, fetched>>
    BY <1>5 DEF UpdaterReturns
  <2>3. \A l \in List : snapshot'[l] = 0
    BY <1>5 DEF UpdaterReturns
  <2>4. InThePast'
    BY <2>2, <2>3
  <2>5. StoredCovers'
    BY <2>2
  <2>6. BodyCovers'
    BY <1>5 DEF UpdaterReturns
  <2>7. QED
    BY <2>1, <2>4, <2>5, <2>6
<1>6. CASE Tick
  <2>1. clock' = clock + 1 /\ clock' \in Time
    BY <1>6 DEF Tick
  <2>2. UNCHANGED <<web, stored, updater, fetched>>
    BY <1>6 DEF Tick
  <2>3. InThePast'
    BY <2>1, <2>2
  <2>4. StoredCovers' /\ BodyCovers'
    BY <2>2
  <2>5. UpdaterTypeOK'
    BY <2>1, <2>2
  <2>6. QED
    BY <2>3, <2>4, <2>5
<1>7. ASSUME NEW l \in List, Publish(l)
      PROVE  UInv'
  <2>1. UpdaterTypeOK'
    BY <1>7 DEF Publish
  <2>2. InThePast'
    BY <1>7 DEF Publish
  <2>3. StoredCovers'
    <3>1. PICK date \in {NoDate, clock, clock + 1} :
            web' = [web EXCEPT ![l] = [version |-> web[l].version + 1, date |-> date]]
      BY <1>7 DEF Publish
    <3>2. UNCHANGED <<clock, stored, fetched>>
      BY <1>7 DEF Publish
    <3>3. ASSUME NEW k \in List, k # l
          PROVE  web'[k] = web[k]
      BY <3>1, <3>3
    <3>4. date = NoDate \/ fetched[l].at <= date
      BY <3>1
    <3>5. web'[l].date = date
      BY <3>1
    <3>6. ASSUME NEW k \in List
          PROVE  Covers(k, stored[k].version, fetched[k].at)'
      BY <3>2, <3>3, <3>4, <3>5
    <3>7. QED
      BY <3>2, <3>6
  <2>4. BodyCovers'
    BY <1>7 DEF Publish
  <2>5. QED
    BY <2>1, <2>2, <2>3, <2>4
<1>8. ASSUME NEW l \in List, ClientImport(l)
      PROVE  UInv'
  <2>1. UpdaterTypeOK'
    BY <1>8 DEF ClientImport
  <2>2. InThePast'
    BY <1>8 DEF ClientImport
  <2>3. StoredCovers'
    BY <1>8 DEF ClientImport
  <2>4. BodyCovers'
    BY <1>8 DEF ClientImport
  <2>5. QED
    BY <2>1, <2>2, <2>3, <2>4
<1>9. CASE UNCHANGED updaterVars
  BY <1>9 DEF updaterVars
<1>10. QED
  BY <1>1, <1>2, <1>3, <1>4, <1>5, <1>6, <1>7, <1>8, <1>9 DEF World

\* Every step of a worker is one of the updater or the world, the next worker's
\* first, or none to them.
LEMMA StepOfUpdater ==
    ASSUME [Next]_vars
    PROVE  \/ Snapshot \/ Look \/ Fetch \/ Import \/ UpdaterReturns \/ World
           \/ UNCHANGED updaterVars
           \/ NextWorker
<1> USE DEF updaterVars
<1>1. CASE Main
  BY <1>1 DEF Main, Bind, BindFails, DropPrivileges, RunUpdater, Updated, Test, Sleep, Halt, Join, Reset
<1>2. CASE Request \/ Timeout \/ Spurious
  BY <1>2 DEF Request, Timeout, Spurious
<1>3. ASSUME NEW s \in Server, ThreadStep(s) \/ Handle(s)
      PROVE  UNCHANGED updaterVars
  BY <1>3 DEF ThreadStep, Handle, Run, Handled, Leave
<1>4. CASE Reload \/ ReloadNotifies \/ SendSignal \/ Deliver \/ HandlerNotifies \/ Crash
  BY <1>4 DEF Reload, ReloadNotifies, SendSignal, Deliver, HandlerNotifies, Crash
<1>5. CASE UNCHANGED vars
  BY <1>5 DEF vars
<1>6. QED
  BY <1>1, <1>2, <1>3, <1>4, <1>5 DEF Next

\* The updater's invariant holds whatever the worker does.
THEOREM UpdaterInvariant == Spec => []UInv
<1>1. Init => UInv
  BY UpdaterInitInv DEF Init
<1>2. UInv /\ [Next]_vars => UInv'
  <2> SUFFICES ASSUME UInv, [Next]_vars PROVE UInv'
    OBVIOUS
  <2>1. CASE NextWorker
    BY <2>1 DEF NextWorker, UInv, UpdaterTypeOK, InThePast, StoredCovers, BodyCovers, Covers,
                Time, world
  <2>2. QED
    BY <2>1, StepOfUpdater, UpdaterInv
<1>3. QED
  BY <1>1, <1>2, PTL DEF Spec

\* A list is passed over only for a date that is not after its last import, as
\* far as dates are read right, and a publication that was imported is old then
\* only if it was fetched before the new one: not for an import that failed, not
\* for a stale date, not for a worker that ended.
THEOREM OldIsNotMissed == Spec => NothingOldIsMissed
<1> DEFINE Late(l) == /\ \E skew \in Skew : web[l].date - skew <= fetched[l].done
                      /\ IsOld(l) => fetched[l].at <= web[l].date
<1>1. ASSUME UInv, NEW l \in List, PassesOver(l),
             Snapshot \/ Look \/ Fetch \/ Import \/ UpdaterReturns \/ World \/ NextWorker
      PROVE  Late(l)
  <2>1. Look
    BY <1>1 DEF PassesOver, Snapshot, Fetch, Import, UpdaterReturns, World, Tick, Publish,
                ClientImport, NextWorker, updater
  <2>2. PICK skew \in Skew : PassOver(l, skew)
    BY <1>1, <2>1 DEF PassesOver, Look
  <2>3. web[l].date # NoDate /\ web[l].date - skew <= snapshot[l]
    BY <2>2 DEF PassOver
  <2>4. /\ web[l].date \in Int /\ skew \in Int
        /\ snapshot[l] \in Int /\ stored[l].mtime \in Int /\ fetched[l].done \in Int
    BY <1>1, UpdaterAssumption DEF UInv, UpdaterTypeOK, Time
  <2>5. snapshot[l] <= fetched[l].done
    BY <1>1 DEF UInv, InThePast, StoredCovers
  <2>6. IsOld(l) => fetched[l].at <= web[l].date
    BY <1>1, <2>3 DEF UInv, StoredCovers, Covers, IsOld
  <2>7. QED
    BY <2>3, <2>4, <2>5, <2>6
<1>2. UInv /\ [Next]_vars =>
        [\A l \in List :
            PassesOver(l) /\ stored[l].version # web[l].version => Late(l)]_updaterVars
  BY <1>1, StepOfUpdater
<1>3. QED
  BY <1>2, UpdaterInvariant, PTL DEF Spec, NothingOldIsMissed

-----------------------------------------------------------------------------
(***************************************************************************)
(* The threads                                                             *)
(***************************************************************************)

LEMMA WorkerInitInv == Init => WInv
<1> SUFFICES ASSUME Init PROVE WInv
  OBVIOUS
<1>1. UpdaterTypeOK
  BY UpdaterInitInv DEF Init, UInv
<1>2. stopflag = FALSE /\ pending = FALSE /\ handler = FALSE /\ told = FALSE
  BY DEF Init
<1>3. at = "bind" /\ bound = 0 /\ halted = {} /\ thread = [s \in Server |-> "none"]
  BY DEF Init
<1>4. sent \in 0 .. MaxSignal /\ turn \in Nat
  BY WorkerAssumption DEF Init
<1>5. bound \in 0 .. NumServers /\ bound < NumServers
  BY <1>3, WorkerAssumption
<1>6. QED
  BY <1>1, <1>2, <1>3, <1>4, <1>5 DEF WInv, TypeOK, NoThreadInDeletedServer, Gone

LEMMA WorkerInv ==
    ASSUME WInv, UpdaterTypeOK', [Next]_vars
    PROVE  WInv'
<1> USE WorkerAssumption
    DEF WInv, TypeOK, NoThreadInDeletedServer, Server, Gone, threads, stopping, EndThreads,
        Service, Notify, Thread
<1>1. CASE Bind
  BY <1>1 DEF Bind
<1>2. CASE BindFails \/ DropPrivileges \/ RunUpdater \/ Updated \/ Test \/ Sleep
  BY <1>2 DEF BindFails, DropPrivileges, RunUpdater, Updated, Test, Sleep
<1>3. CASE Halt \/ Join \/ Reset
  BY <1>3 DEF Halt, Join, Reset
<1>4. CASE Request \/ Timeout \/ Spurious
  BY <1>4 DEF Request, Timeout, Spurious
<1>5. CASE Reload
  BY <1>5 DEF Reload
<1>6. CASE ReloadNotifies
  BY <1>6 DEF ReloadNotifies
<1>7. ASSUME NEW s \in Server, ThreadStep(s) \/ Handle(s)
      PROVE  WInv'
  BY <1>7 DEF ThreadStep, Handle, Run, Handled, Leave
<1>8. CASE SendSignal
  <2>1. sent' \in 0 .. MaxSignal
    BY <1>8 DEF SendSignal
  <2>2. pending' = TRUE /\ UNCHANGED <<at, threads, stopflag, handler, told, turn>>
    BY <1>8 DEF SendSignal
  <2>3. QED
    BY <2>1, <2>2
<1>8a. CASE Deliver
  <2>1. pending' = FALSE /\ told' = TRUE /\ stopflag' = TRUE /\ handler' = TRUE
    BY <1>8a DEF Deliver
  <2>2. UNCHANGED <<at, threads, sent, turn>>
    BY <1>8a DEF Deliver
  <2>3. QED
    BY <2>1, <2>2
<1>9. CASE HandlerNotifies
  BY <1>9 DEF HandlerNotifies
<1>10. CASE Crash
  BY <1>10 DEF Crash
<1>11. CASE NextWorker
  <2>1. at' = "bind" /\ bound' = 0 /\ sent' = 0 /\ turn' \in Nat
    BY <1>11 DEF NextWorker
  <2>2. thread' = [s \in Server |-> "none"] /\ halted' = {}
    BY <1>11 DEF NextWorker
  <2>3. stopflag' = FALSE /\ pending' = FALSE /\ handler' = FALSE /\ told' = FALSE
    BY <1>11 DEF NextWorker
  <2>4. bound' \in 0 .. NumServers /\ sent' \in 0 .. MaxSignal /\ bound' < NumServers
    BY <2>1
  <2>5. QED
    BY <2>1, <2>2, <2>3, <2>4
<1>12. CASE UNCHANGED <<at, threads, stopping>>
  BY <1>12
<1>13. CASE UNCHANGED vars
  BY <1>13 DEF vars
<1>14. QED
  BY <1>1, <1>2, <1>3, <1>4, <1>5, <1>6, <1>7, <1>8, <1>8a, <1>9, <1>10, <1>11, <1>12, <1>13
     DEF Next, Main

\* The invariant of the threads holds in every reachable state.
THEOREM WorkerInvariant == Spec => []WInv
<1>1. WInv /\ UInv' /\ [Next]_vars => WInv'
  BY WorkerInv DEF UInv
<1>2. QED
  BY <1>1, WorkerInitInv, UpdaterInvariant, PTL DEF Spec

\* Every variable stays within its type.
THEOREM TypeCorrect == Spec => []TypeOK
<1>1. WInv => TypeOK
  BY DEF WInv
<1>2. QED
  BY <1>1, WorkerInvariant, PTL

\* No server is deleted with a thread in it.
THEOREM ThreadsAreJoined == Spec => []NoThreadInDeletedServer
<1>1. WInv => NoThreadInDeletedServer
  BY DEF WInv
<1>2. QED
  BY <1>1, WorkerInvariant, PTL

-----------------------------------------------------------------------------
(***************************************************************************)
(* The worker implements the worker of ServiceLifecycle.                   *)
(***************************************************************************)

\* Each step maps to a step of that worker, to none, or is the master's.
LEMMA StepSimulation ==
    ASSUME TypeOK, [Next]_vars
    PROVE  [Life!Worker(1) \/ SendSignal \/ NextWorker]_(Life!vars)
<1> USE DEF TypeOK, Gone, threads, stopping, Stage, One, Notify, Thread,
            Life!vars, Life!master, Life!files, Life!workers, Life!dns, Life!user, Life!history,
            Life!noMaster, Life!Becomes, Life!HasWorkerPtr, Life!NoPid
<1>1. CASE Bind
  BY <1>1 DEF Bind, Life!Worker, Life!WorkerStep, Life!RunServers
<1>2. CASE BindFails
  BY <1>2 DEF BindFails, Life!Worker, Life!WorkerStep, Life!RunServers
<1>3. CASE DropPrivileges
  BY <1>3 DEF DropPrivileges, Life!Worker, Life!WorkerStep, Life!DropPrivileges
<1>4. CASE Updated
  BY <1>4 DEF Updated, Life!Worker, Life!Updated
<1>5. CASE Test
  BY <1>5 DEF Test, Life!Worker, Life!LeaveLoop, Life!Sleep
<1>6. CASE Reset
  BY <1>6 DEF Reset, Life!Worker, Life!WorkerStep, Life!StopServers
<1>7. CASE RunUpdater \/ Sleep \/ Halt \/ Join \/ Request
  BY <1>7 DEF RunUpdater, Sleep, Halt, Join, Request
<1>7a. CASE Timeout \/ Spurious
  BY <1>7a DEF Timeout, Spurious, Life!Worker, Life!WorkerStep, Life!WakeUp
<1>8. CASE Reload
  BY <1>8 DEF Reload, Life!Worker, Life!Reload
<1>9. CASE ReloadNotifies \/ HandlerNotifies
  BY <1>9 DEF ReloadNotifies, HandlerNotifies, Life!Worker, Life!WorkerStep, Life!WakeUp
<1>10. ASSUME NEW s \in Server, ThreadStep(s) \/ Handle(s)
       PROVE  UNCHANGED Life!vars
  BY <1>10 DEF ThreadStep, Handle, Run, Handled, Leave
<1>11. CASE Deliver
  BY <1>11 DEF Deliver, Life!Worker, Life!WorkerSignal, Life!Alive, Life!Ended
<1>12. CASE Crash
  BY <1>12 DEF Crash, Life!Worker, Life!CrashWorker
<1>13. CASE UNCHANGED <<at, threads, stopping>>
  BY <1>13
<1>14. CASE UNCHANGED vars
  BY <1>14 DEF vars
<1>15. QED
  BY <1>1, <1>2, <1>3, <1>4, <1>5, <1>6, <1>7, <1>7a, <1>8, <1>9, <1>10, <1>11, <1>12, <1>13,
     <1>14
     DEF Next, Main

\* The threads, the handlers and the updater do nothing that the worker of
\* ServiceLifecycle does not do, from the moment worker_ptr_ is set to the end.
THEOREM WorkerImplementsLifecycle == Spec => StepsAreLifecycle
<1>1. TypeOK /\ [Next]_vars => [Life!Worker(1) \/ SendSignal \/ NextWorker]_(Life!vars)
  BY StepSimulation
<1>2. QED
  BY <1>1, TypeCorrect, PTL DEF Spec, StepsAreLifecycle

=============================================================================
