----------------------- MODULE ServiceLifecycleProofs -----------------------
(***************************************************************************)
(* Proofs about ServiceLifecycle for any number of incarnations, signals   *)
(* and launches.                                                           *)
(***************************************************************************)
EXTENDS ServiceLifecycle, TLAPS

(***************************************************************************)
(* The inductive invariant, in the parts that the properties need.         *)
(***************************************************************************)

\* Where there is an incarnation, and which numbers are not used yet.
Numbered ==
    /\ known => inc \in Inc
    /\ mpc \in {"fork", "savepid", "sigaction", "startproxy", "post", "enter", "wait",
                "stopproxy", "removepid", "finish"} => inc \in Inc
    /\ mpc \in {"savepid", "sigaction", "startproxy", "post", "enter", "wait"} => wpid = inc
    /\ mpc \in {"configure", "daemon"} => inc < MaxInc
    /\ \A i \in Inc : i > inc => worker[i] = "none" /\ sem[i] = 0
    /\ mpc = "fork" => worker[inc] = "none" /\ ~known
    /\ mpc \notin {"fork", "aborted"} => wpid \in {NoPid, inc}
    /\ mpc = "fork" => wpid \in {NoPid, inc - 1}

\* What a worker has in its worker_pid_ is the worker before it, if anyone.
Inherited == \A i \in Inc : inherited[i] \in {NoPid, i - 1}

\* A worker has the port exactly while its servers are open.
PortIsServed ==
    \A i \in Inc : port = i <=> worker[i] \in HasWorkerPtr \ {"binding"}

\* The semaphore of an incarnation is posted once, after its proxy was started.
Gated ==
    /\ mpc \in {"fork", "savepid", "sigaction", "startproxy", "post"} => sem[inc] = 0
    /\ mpc = "post" => inc \in proxied
    /\ \A i \in Inc : sem[i] > 0 => i \in proxied
    /\ \A i \in Inc : worker[i] \in {"starting"} \cup HasWorkerPtr => i \in proxied

\* A master that is past its waitpid, or is dead, left only unwaited workers.
Left ==
    \A i \in Inc : Alive(i) /\ (PastWait(i) \/ (i = inc /\ mpc \in {"aborted", "killed"}))
                      => i \in unwaited

\* A failure keeps the loop from going round.
Failure ==
    /\ failed => signaled
    /\ mpc \in {"boot", "configure", "daemon"} => ~failed

\* The pidfile is gone when the loop is about to end.
Pidfile ==
    /\ mpc = "finish" => pidfile = NoPid
    /\ mpc = "check" => pidfile = NoPid \/ (~known /\ ~signaled)
    /\ PidfileFollowsMaster

\* What the proxy is restored to is what it was at launch.
Restoring ==
    SystemProxy =>
      /\ mpc \in {"check", "boot", "configure", "daemon", "fork", "savepid", "sigaction",
                  "startproxy", "removepid", "finish", "exited"} => proxy = proxyAtLaunch
      /\ mpc \in {"post", "enter", "wait", "stopproxy"} => wasRunning = proxyAtLaunch

IInv ==
    /\ TypeOK
    /\ Numbered
    /\ Inherited
    /\ Gated
    /\ PortIsServed
    /\ Left
    /\ Failure
    /\ Pidfile
    /\ Restoring

\* The type invariant, the variables of the master apart from the rest.
MasterTypeOK ==
    /\ mpc \in Mpc
    /\ inc \in Inc \cup {0}
    /\ signaled \in BOOLEAN
    /\ service \in BOOLEAN
    /\ handlers \in BOOLEAN
    /\ wpid \in Inc \cup {NoPid}

SharedTypeOK ==
    /\ pidfile \in Inc \cup {NoPid}
    /\ known \in BOOLEAN
    /\ worker \in [Inc -> WorkerState]
    /\ inherited \in [Inc -> Inc \cup {NoPid}]
    /\ pending \in SUBSET Inc
    /\ stopflag \in SUBSET Inc
    /\ sem \in [Inc -> {0, 1}]
    /\ port \in Inc \cup {NoPid}
    /\ proxy \in BOOLEAN
    /\ wasRunning \in BOOLEAN

HistoryTypeOK ==
    /\ sent \in Nat
    /\ launches \in Nat
    /\ told \in SUBSET Inc
    /\ unwaited \in SUBSET Inc
    /\ proxied \in SUBSET Inc
    /\ failed \in BOOLEAN
    /\ proxyAtLaunch \in BOOLEAN

-----------------------------------------------------------------------------
(***************************************************************************)
(* The invariant holds at first and every step keeps it: one step of the   *)
(* proof per action, and under it, where the action needs it, one per part *)
(* of the invariant.                                                       *)
(***************************************************************************)

\* The program was just started.
LEMMA InitInv == Init => IInv
<1> SUFFICES ASSUME Init PROVE IInv
  OBVIOUS
<1> USE LifecycleAssumption DEF Init, Inc, NoPid
<1>1. TypeOK
  <2>1. proxy \in BOOLEAN /\ proxyAtLaunch \in BOOLEAN
    BY Zenon
  <2>2. worker \in [Inc -> WorkerState] /\ sem \in [Inc -> {0, 1}]
    BY DEF WorkerState
  <2>3. sent \in Nat /\ launches \in Nat /\ mpc \in Mpc /\ inherited \in [Inc -> Inc \cup {NoPid}]
    BY DEF Mpc
  <2>4. QED
    BY <2>1, <2>2, <2>3, Zenon DEF TypeOK
<1>2. Numbered /\ Inherited /\ Gated /\ PortIsServed
  BY DEF Numbered, Inherited, Gated, PortIsServed, HasWorkerPtr
<1>3. Left /\ Failure /\ Pidfile /\ Restoring
  BY DEF Left, Failure, Pidfile, PidfileFollowsMaster, Restoring, Alive
<1>4. QED
  BY <1>1, <1>2, <1>3 DEF IInv

\* A signal goes to a worker, if to anyone.
LEMMA KillIsTyped ==
    ASSUME TypeOK, Kill(wpid) \/ UNCHANGED pending
    PROVE  pending' \in SUBSET Inc
BY DEF TypeOK, Signalled, Kill

\* A step of the master keeps the invariant.
LEMMA MasterInv ==
    ASSUME IInv, Master
    PROVE  IInv'
<1>0. TypeOK
  BY DEF IInv
<1> USE LifecycleAssumption
    DEF IInv, TypeOK, Numbered, Inherited, Gated, PortIsServed, Left, Failure, Pidfile,
        PidfileFollowsMaster, Restoring, Inc, Mpc, Final, WorkerState, HasWorkerPtr, Ended, NoPid, Alive,
        PastWait, Signalled, Kill, master, files, workers, dns, user, history
<1>1. CASE Check
  BY <1>1 DEF Check
<1>2. CASE NewService
  <2>1. TypeOK'
    <3>1. MasterTypeOK'
      BY <1>2 DEF NewService, MasterTypeOK
    <3>2. SharedTypeOK' /\ HistoryTypeOK'
      BY <1>2 DEF NewService, SharedTypeOK, HistoryTypeOK
    <3>3. QED
      BY <3>1, <3>2 DEF MasterTypeOK, SharedTypeOK, HistoryTypeOK
  <2>2. Numbered' /\ Inherited'
    BY <1>2 DEF NewService
  <2>3. Gated'
    BY <1>2 DEF NewService
  <2>4. PortIsServed'
    BY <1>2 DEF NewService
  <2>5. Left'
    BY <1>2 DEF NewService
  <2>6. Failure'
    BY <1>2 DEF NewService
  <2>7. Pidfile'
    BY <1>2 DEF NewService
  <2>8. Restoring'
    BY <1>2 DEF NewService
  <2>9. QED
    BY <2>1, <2>2, <2>3, <2>4, <2>5, <2>6, <2>7, <2>8
<1>3. CASE Refuse
  BY <1>3 DEF Refuse
<1>4. CASE Configure
  BY <1>4 DEF Configure
<1>5. CASE ConfigureThrows
  <2>1. pending' \in SUBSET Inc
    <3>1. Kill(wpid)
      BY <1>5 DEF ConfigureThrows
    <3>2. QED
      BY <1>0, <3>1, KillIsTyped
  <2>2. TypeOK'
    <3>1. MasterTypeOK'
      BY <1>5 DEF ConfigureThrows, MasterTypeOK
    <3>2. SharedTypeOK' /\ HistoryTypeOK'
      BY <1>5, <2>1, Zenon DEF ConfigureThrows, SharedTypeOK, HistoryTypeOK
    <3>3. QED
      BY <3>1, <3>2 DEF MasterTypeOK, SharedTypeOK, HistoryTypeOK
  <2>3. Numbered' /\ Inherited'
    BY <1>5 DEF ConfigureThrows
  <2>4. Gated'
    BY <1>5 DEF ConfigureThrows
  <2>5. PortIsServed'
    BY <1>5 DEF ConfigureThrows
  <2>6. Left'
    BY <1>5 DEF ConfigureThrows
  <2>7. Failure'
    BY <1>5 DEF ConfigureThrows
  <2>8. Pidfile'
    BY <1>5 DEF ConfigureThrows
  <2>9. Restoring'
    BY <1>5 DEF ConfigureThrows
  <2>10. QED
    BY <2>2, <2>3, <2>4, <2>5, <2>6, <2>7, <2>8, <2>9
<1>6. CASE Daemon
  <2>1. TypeOK'
    <3>1. inc \in Inc \cup {0} /\ inc < MaxInc
      BY <1>6 DEF Daemon
    <3>2. inc' \in Inc
      BY <1>6, <3>1 DEF Daemon
    <3>3. mpc' = "fork" /\ known' = FALSE
      BY <1>6 DEF Daemon
    <3>4. MasterTypeOK'
      BY <1>6, <3>2, <3>3 DEF Daemon, MasterTypeOK
    <3>5. SharedTypeOK' /\ HistoryTypeOK'
      BY <1>6, <3>3 DEF Daemon, SharedTypeOK, HistoryTypeOK
    <3>6. QED
      BY <3>4, <3>5 DEF MasterTypeOK, SharedTypeOK, HistoryTypeOK
  <2>2. Numbered' /\ Inherited'
    BY <1>6 DEF Daemon
  <2>3. Gated'
    BY <1>6 DEF Daemon
  <2>4. PortIsServed'
    BY <1>6 DEF Daemon
  <2>5. Left'
    BY <1>6 DEF Daemon
  <2>6. Failure'
    BY <1>6 DEF Daemon
  <2>7. Pidfile'
    BY <1>6 DEF Daemon
  <2>8. Restoring'
    BY <1>6 DEF Daemon
  <2>9. QED
    BY <2>1, <2>2, <2>3, <2>4, <2>5, <2>6, <2>7, <2>8
<1>7. CASE Fork
  BY <1>7 DEF Fork
<1>8. CASE SavePidfile
  BY <1>8 DEF SavePidfile
<1>9. CASE Abort
  BY <1>9 DEF Abort
<1>10. CASE SetupMasterSignals
  BY <1>10 DEF SetupMasterSignals
<1>11. CASE StartProxy
  <2>1. TypeOK'
    <3>1. proxied' \in SUBSET Inc
      BY <1>11 DEF StartProxy
    <3>2. wasRunning' \in BOOLEAN /\ proxy' \in BOOLEAN
      BY <1>11, Zenon DEF StartProxy
    <3>3. mpc' = "post"
      BY <1>11 DEF StartProxy
    <3>4. MasterTypeOK'
      BY <1>11, <3>3 DEF StartProxy, MasterTypeOK
    <3>5. SharedTypeOK'
      BY <1>11, <3>2, Zenon DEF StartProxy, SharedTypeOK
    <3>6. HistoryTypeOK'
      BY <1>11, <3>1, Zenon DEF StartProxy, HistoryTypeOK
    <3>7. QED
      BY <3>4, <3>5, <3>6 DEF MasterTypeOK, SharedTypeOK, HistoryTypeOK
  <2>2. Numbered' /\ Inherited'
    BY <1>11 DEF StartProxy
  <2>3. Gated'
    BY <1>11 DEF StartProxy
  <2>4. PortIsServed'
    BY <1>11 DEF StartProxy
  <2>5. Left'
    BY <1>11 DEF StartProxy
  <2>6. Failure'
    BY <1>11 DEF StartProxy
  <2>7. Pidfile'
    BY <1>11 DEF StartProxy
  <2>8. Restoring'
    BY <1>11 DEF StartProxy
  <2>9. QED
    BY <2>1, <2>2, <2>3, <2>4, <2>5, <2>6, <2>7, <2>8
<1>12. CASE StartProxyThrows
  <2>1. pending' \in SUBSET Inc
    <3>1. Kill(wpid)
      BY <1>12 DEF StartProxyThrows
    <3>2. QED
      BY <1>0, <3>1, KillIsTyped
  <2>2. TypeOK'
    <3>1. MasterTypeOK'
      BY <1>12 DEF StartProxyThrows, MasterTypeOK
    <3>2. SharedTypeOK' /\ HistoryTypeOK'
      BY <1>12, <2>1, Zenon DEF StartProxyThrows, SharedTypeOK, HistoryTypeOK
    <3>3. QED
      BY <3>1, <3>2 DEF MasterTypeOK, SharedTypeOK, HistoryTypeOK
  <2>3. Numbered' /\ Inherited'
    BY <1>12 DEF StartProxyThrows
  <2>4. Gated'
    BY <1>12 DEF StartProxyThrows
  <2>5. PortIsServed'
    BY <1>12 DEF StartProxyThrows
  <2>6. Left'
    BY <1>12 DEF StartProxyThrows
  <2>7. Failure'
    BY <1>12 DEF StartProxyThrows
  <2>8. Pidfile'
    BY <1>12 DEF StartProxyThrows
  <2>9. Restoring'
    BY <1>12 DEF StartProxyThrows
  <2>10. QED
    BY <2>2, <2>3, <2>4, <2>5, <2>6, <2>7, <2>8, <2>9
<1>13. CASE Post
  BY <1>13 DEF Post
<1>14. CASE EnterWait
  BY <1>14 DEF EnterWait
<1>15. CASE Reap
  BY <1>15 DEF Reap
<1>16. CASE StopProxy
  BY <1>16 DEF StopProxy
<1>17. CASE RemovePidfile
  BY <1>17 DEF RemovePidfile
<1>18. CASE Finish
  <2>1. TypeOK'
    <3>1. MasterTypeOK'
      BY <1>18 DEF Finish, MasterTypeOK
    <3>2. SharedTypeOK' /\ HistoryTypeOK'
      BY <1>18 DEF Finish, SharedTypeOK, HistoryTypeOK
    <3>3. QED
      BY <3>1, <3>2 DEF MasterTypeOK, SharedTypeOK, HistoryTypeOK
  <2>2. Numbered' /\ Inherited'
    BY <1>18 DEF Finish
  <2>3. Gated'
    BY <1>18 DEF Finish
  <2>4. PortIsServed'
    BY <1>18 DEF Finish
  <2>5. Left'
    BY <1>18 DEF Finish
  <2>6. Failure'
    BY <1>18 DEF Finish
  <2>7. Pidfile'
    BY <1>18 DEF Finish
  <2>8. Restoring'
    BY <1>18 DEF Finish
  <2>9. QED
    BY <2>1, <2>2, <2>3, <2>4, <2>5, <2>6, <2>7, <2>8
<1>19. QED
  BY <1>1, <1>2, <1>3, <1>4, <1>5, <1>6, <1>7, <1>8, <1>9, <1>10, <1>11, <1>12, <1>13, <1>14, <1>15, <1>16, <1>17, <1>18 DEF Master

\* A signal, a kill or a new launch keeps it.
LEMMA UserInv ==
    ASSUME IInv, User
    PROVE  IInv'
<1>0. TypeOK
  BY DEF IInv
<1> USE LifecycleAssumption
    DEF IInv, TypeOK, Numbered, Inherited, Gated, PortIsServed, Left, Failure, Pidfile,
        PidfileFollowsMaster, Restoring, Inc, Mpc, Final, WorkerState, HasWorkerPtr, Ended, NoPid, Alive,
        PastWait, Signalled, Kill, master, files, workers, dns, user, history
<1>1. CASE KillMaster
  <2>1. TypeOK'
    BY <1>1 DEF KillMaster
  <2>2. Numbered' /\ Inherited'
    BY <1>1 DEF KillMaster
  <2>3. Gated'
    BY <1>1 DEF KillMaster
  <2>4. PortIsServed'
    BY <1>1 DEF KillMaster
  <2>5. Left'
    BY <1>1 DEF KillMaster
  <2>6. Failure'
    BY <1>1 DEF KillMaster
  <2>7. Pidfile'
    BY <1>1 DEF KillMaster
  <2>8. Restoring'
    BY <1>1 DEF KillMaster
  <2>9. QED
    BY <2>1, <2>2, <2>3, <2>4, <2>5, <2>6, <2>7, <2>8
<1>2. CASE Launch
  <2>1. TypeOK'
    <3>1. launches' \in Nat
      BY <1>2 DEF Launch
    <3>2. QED
      BY <1>2, <3>1, Zenon DEF Launch
  <2>2. Numbered' /\ Inherited'
    BY <1>2 DEF Launch
  <2>3. Gated'
    BY <1>2 DEF Launch
  <2>4. PortIsServed'
    BY <1>2 DEF Launch
  <2>5. Left'
    BY <1>2 DEF Launch
  <2>6. Failure'
    BY <1>2 DEF Launch
  <2>7. Pidfile'
    BY <1>2 DEF Launch
  <2>8. Restoring'
    BY <1>2 DEF Launch
  <2>9. QED
    BY <2>1, <2>2, <2>3, <2>4, <2>5, <2>6, <2>7, <2>8
<1>3. CASE \E sig \in {"TERM", "HUP"} : Signal(sig)
  <2>1. TypeOK'
    <3>1. PICK sig \in {"TERM", "HUP"} : Signal(sig)
      BY <1>3
    <3>2. pending' \in SUBSET Inc /\ unwaited' \in SUBSET Inc
      <4>1. pending' \in SUBSET Inc
        BY <1>0, <3>1, KillIsTyped DEF Signal
      <4>2. inc \in Inc
        BY <3>1 DEF Signal
      <4>3. QED
        BY <3>1, <4>1, <4>2 DEF Signal
    <3>3. signaled' \in BOOLEAN
      BY <3>1, Zenon DEF Signal
    <3>4. sent' \in Nat /\ mpc' \in Mpc
      BY <3>1 DEF Signal
    <3>5. MasterTypeOK'
      BY <3>1, <3>3, <3>4, Zenon DEF Signal, MasterTypeOK
    <3>6. SharedTypeOK' /\ HistoryTypeOK'
      BY <3>1, <3>2, <3>4, Zenon DEF Signal, SharedTypeOK, HistoryTypeOK
    <3>7. QED
      BY <3>5, <3>6 DEF MasterTypeOK, SharedTypeOK, HistoryTypeOK
  <2>2. Numbered' /\ Inherited'
    BY <1>3 DEF Signal
  <2>3. Gated'
    BY <1>3 DEF Signal
  <2>4. PortIsServed'
    BY <1>3 DEF Signal
  <2>5. Left'
    BY <1>3 DEF Signal
  <2>6. Failure'
    BY <1>3 DEF Signal
  <2>7. Pidfile'
    BY <1>3 DEF Signal
  <2>8. Restoring'
    BY <1>3 DEF Signal
  <2>9. QED
    BY <2>1, <2>2, <2>3, <2>4, <2>5, <2>6, <2>7, <2>8
<1>4. QED
  BY <1>1, <1>2, <1>3 DEF User

\* A step of any worker, alone or on a signal, keeps it.
LEMMA WorkerInv ==
    ASSUME IInv, NEW k \in Inc, Worker(k)
    PROVE  IInv'
<1> USE LifecycleAssumption
    DEF IInv, TypeOK, Numbered, Inherited, Gated, PortIsServed, Left, Failure, Pidfile,
        PidfileFollowsMaster, Restoring, Inc, Mpc, Final, WorkerState, HasWorkerPtr, Ended, NoPid, Alive,
        PastWait, Signalled, Kill, master, files, workers, dns, user, history, noMaster, Becomes
<1>1. CASE InstallHandlers(k)
  BY <1>1 DEF InstallHandlers
<1>2. CASE TakeSemaphore(k)
  BY <1>2 DEF TakeSemaphore
<1>3. CASE BlockOnSemaphore(k)
  BY <1>3 DEF BlockOnSemaphore
<1>4. CASE Timeout(k)
  BY <1>4 DEF Timeout
<1>5. CASE CreateWorker(k)
  BY <1>5 DEF CreateWorker
<1>6. CASE RunServers(k)
  BY <1>6 DEF RunServers
<1>7. CASE DropPrivileges(k)
  BY <1>7 DEF DropPrivileges
<1>8. CASE LeaveLoop(k)
  BY <1>8 DEF LeaveLoop
<1>9. CASE StopServers(k)
  <2>1. worker' = [worker EXCEPT ![k] = "exit"] /\ port' = NoPid
    BY <1>9 DEF StopServers
  <2>2. SharedTypeOK'
    BY <1>9, <2>1 DEF StopServers, SharedTypeOK
  <2>3. MasterTypeOK' /\ HistoryTypeOK'
    BY <1>9 DEF StopServers, MasterTypeOK, HistoryTypeOK
  <2>4. TypeOK'
    BY <2>2, <2>3 DEF MasterTypeOK, SharedTypeOK, HistoryTypeOK
  <2>5. Numbered' /\ Inherited' /\ Gated' /\ PortIsServed'
    BY <1>9, <2>1 DEF StopServers
  <2>6. Left' /\ Failure' /\ Pidfile' /\ Restoring'
    BY <1>9, <2>1 DEF StopServers
  <2>7. QED
    BY <2>4, <2>5, <2>6
<1>10. CASE WorkerSignal(k)
  BY <1>10 DEF WorkerSignal
<1>11. CASE Updated(k)
  BY <1>11 DEF Updated
<1>15. CASE Sleep(k)
  BY <1>15 DEF Sleep
<1>16. CASE WakeUp(k)
  BY <1>16 DEF WakeUp
<1>12. CASE CrashWorker(k)
  BY <1>12 DEF CrashWorker
<1>13. CASE Reload(k)
  BY <1>13 DEF Reload
<1>14. QED
  BY <1>1, <1>2, <1>3, <1>4, <1>5, <1>6, <1>7, <1>8, <1>9, <1>10, <1>11, <1>12, <1>13, <1>15, <1>16
     DEF Worker, WorkerStep

\* Nothing changes.
LEMMA StutterInv == IInv /\ UNCHANGED vars => IInv'
BY DEF vars, master, files, workers, dns, user, history, IInv, TypeOK, Numbered, Inherited,
       Gated, PortIsServed, Left, Failure, Pidfile, PidfileFollowsMaster, Restoring, Alive, PastWait

-----------------------------------------------------------------------------
\* The inductive invariant of the daemon.
THEOREM LifecycleInvariant == Spec => []IInv
<1>1. IInv /\ [Next]_vars => IInv'
  BY MasterInv, UserInv, WorkerInv, StutterInv DEF Next
<1>2. QED
  BY InitInv, <1>1, PTL DEF Spec

\* Every variable stays within its type; the semaphore never counts past one.
THEOREM TypeCorrect == Spec => []TypeOK
<1>1. IInv => TypeOK
  BY DEF IInv
<1>2. QED
  BY LifecycleInvariant, <1>1, PTL

\* No worker opens its servers before the DNS proxy of its incarnation was started.
THEOREM ServersWaitForProxy == Spec => []NoServiceBeforeProxy
<1>1. IInv => NoServiceBeforeProxy
  BY DEF IInv, Gated, NoServiceBeforeProxy
<1>2. QED
  BY LifecycleInvariant, <1>1, PTL

\* Only a signal, a kill or an exception of the master leaves a worker behind.
THEOREM OrphansAreUnwaited == Spec => []OrphanOnlyUnwaited
<1>1. IInv => OrphanOnlyUnwaited
  BY DEF IInv, Left, OrphanOnlyUnwaited
<1>2. QED
  BY LifecycleInvariant, <1>1, PTL

\* The pidfile names the waiting master, and no loop ends with a pidfile left.
THEOREM PidfileIsRight == Spec => []PidfileFollowsMaster
<1>1. IInv => PidfileFollowsMaster
  BY DEF IInv, Pidfile
<1>2. QED
  BY LifecycleInvariant, <1>1, PTL

\* A loop that ends leaves the system's DNS proxy as the launch found it.
THEOREM ProxyIsRestored == Spec => []ProxyRestored
<1>1. IInv => ProxyRestored
  BY DEF IInv, Restoring, ProxyRestored
<1>2. QED
  BY LifecycleInvariant, <1>1, PTL

\* After a crash or a failed startup there is no next incarnation.
THEOREM FailureIsFinal == Spec => NoRestartAfterFailure
<1>1. ASSUME IInv, Next, inc' # inc
      PROVE  ~failed
  <2>1. Daemon
    BY <1>1 DEF Next, Master, Check, NewService, Refuse, Configure, ConfigureThrows, Daemon,
                Fork, SavePidfile, Abort, SetupMasterSignals, StartProxy, StartProxyThrows,
                Post, EnterWait, Reap, StopProxy, RemovePidfile, Finish,
                User, KillMaster, Launch, Signal,
                Worker, WorkerStep, InstallHandlers, TakeSemaphore, BlockOnSemaphore,
                Timeout, CreateWorker, RunServers, DropPrivileges, LeaveLoop, Sleep, WakeUp,
                StopServers, WorkerSignal, Updated, CrashWorker, Reload, noMaster, master
  <2>2. QED
    BY <1>1, <2>1 DEF IInv, Failure, Daemon
<1>2. IInv /\ [Next]_vars => [inc' # inc => ~failed]_vars
  BY <1>1
<1>3. QED
  BY LifecycleInvariant, <1>2, PTL DEF Spec, NoRestartAfterFailure

\* A SIGTERM goes to the worker of the running incarnation, or from its worker,
\* as long as that has the handlers of the master, to the orphan before it: what an
\* older service left in worker_pid_ reaches no further (unix.cxx:60-83, 262-277).
THEOREM SignalsStayHome == Spec => SignalsOwnOrOrphan
<1> DEFINE Home(i) == i = inc \/ (i \in unwaited /\ i + 1 \in Inc /\ worker[i + 1] = "reborn")
<1>1. ASSUME IInv, Next, NEW i \in pending' \ pending
      PROVE  Home(i)
  <2> USE DEF master, files, workers, dns, user, history, noMaster
  <2>1. CASE Master
    <3>1. CASE ConfigureThrows \/ StartProxyThrows
      <4>1. wpid \in {NoPid, inc} /\ Kill(wpid)
        BY <1>1, <3>1 DEF ConfigureThrows, StartProxyThrows, IInv, Numbered
      <4>2. QED
        BY <1>1, <4>1 DEF Kill, Signalled, Inc, NoPid
    <3>2. CASE pending' = pending
      BY <1>1, <3>2
    <3>3. QED
      BY <2>1, <3>1, <3>2
         DEF Master, Check, NewService, Refuse, Configure, Daemon, Fork, SavePidfile, Abort,
             SetupMasterSignals, StartProxy, Post, EnterWait, Reap, StopProxy,
             RemovePidfile, Finish
  <2>2. CASE KillMaster \/ Launch
    BY <1>1, <2>2 DEF KillMaster, Launch
  <2>3. ASSUME NEW sig, Signal(sig)
        PROVE  Home(i)
    <3>1. known /\ mpc \notin Final /\ (pending' = pending \/ Kill(wpid))
      BY <2>3 DEF Signal
    <3>2. wpid \in {NoPid, inc}
      BY <1>1, <3>1 DEF IInv, Numbered, Final
    <3>3. QED
      BY <1>1, <3>1, <3>2 DEF Kill, Signalled, Inc, NoPid
  <2>4. ASSUME NEW k \in Inc, WorkerSignal(k)
        PROVE  Home(i)
    <3>1. worker[k] = "reborn" /\ i = inherited[k] /\ i \in Inc /\ Alive(i)
      BY <1>1, <2>4 DEF WorkerSignal, Signalled
    <3>2. k \in Nat /\ i = k - 1 /\ i + 1 = k
      BY <1>1, <3>1 DEF IInv, Inherited, Inc, NoPid
    <3>3. inc \in Nat /\ k <= inc
      BY <1>1, <3>1, LifecycleAssumption DEF IInv, TypeOK, Numbered, Inc
    <3>4. PastWait(i)
      BY <3>2, <3>3 DEF PastWait
    <3>5. i \in unwaited
      BY <1>1, <3>1, <3>4 DEF IInv, Left
    <3>6. QED
      BY <3>1, <3>2, <3>5
  <2>5. ASSUME NEW k \in Inc, Worker(k), ~WorkerSignal(k)
        PROVE  pending' = pending
    BY <2>5 DEF Worker, WorkerStep, InstallHandlers, TakeSemaphore, BlockOnSemaphore,
                Timeout, CreateWorker, RunServers, DropPrivileges, LeaveLoop, Sleep, WakeUp,
                StopServers, Updated, CrashWorker, Reload
  <2>6. QED
    BY <1>1, <2>1, <2>2, <2>3, <2>4, <2>5 DEF Next, User
<1>2. IInv /\ [Next]_vars => [\A i \in pending' \ pending : Home(i)]_vars
  BY <1>1
<1>3. QED
  BY LifecycleInvariant, <1>2, PTL DEF Spec, SignalsOwnOrOrphan

\* A worker that finds the port taken by another worker is an orphan or meets one.
PortFreeForNext ==
    \A i \in Inc : worker[i] = "binding" /\ port # NoPid => {i, port} \cap unwaited # {}

\* A reload whose master waited for its worker never has two workers contend for
\* the port (worker.cxx:60-67, 113-127, unix.cxx:373).
THEOREM OnlyOrphansContend == Spec => []PortFreeForNext
<1>1. ASSUME IInv, NEW i \in Inc, worker[i] = "binding", port # NoPid
      PROVE  {i, port} \cap unwaited # {}
  <2>1. port \in Inc /\ worker[port] \in HasWorkerPtr \ {"binding"}
    BY <1>1 DEF IInv, TypeOK, PortIsServed
  <2>2. Alive(i) /\ Alive(port) /\ port # i
    BY <1>1, <2>1 DEF Alive, HasWorkerPtr, Ended
  <2>3. inc \in Nat /\ i \in Nat /\ port \in Nat /\ i <= inc /\ port <= inc
    BY <1>1, <2>1, LifecycleAssumption
       DEF IInv, TypeOK, Numbered, Inc, HasWorkerPtr
  <2>4. PastWait(i) \/ PastWait(port)
    BY <2>2, <2>3 DEF PastWait
  <2>5. QED
    BY <1>1, <2>1, <2>2, <2>4 DEF IInv, Left
<1>2. IInv => PortFreeForNext
  BY <1>1 DEF PortFreeForNext
<1>3. QED
  BY LifecycleInvariant, <1>2, PTL

=============================================================================
