-------------------------- MODULE ServiceLifecycle --------------------------
(***************************************************************************)
(* The life of the daemon: the loop of main (main.cxx), the master process *)
(* and the worker process it forks (service/unix.cxx), the signals between *)
(* the user, the master and the worker, the semaphore they share, the      *)
(* pidfile, the listening port and the system's DNS proxy.                 *)
(*                                                                         *)
(* Every turn of the loop is an incarnation.  It has a master process of   *)
(* its own, because daemon() forks, and a worker of its own, so the number *)
(* of the incarnation stands for the process id of either.                 *)
(*                                                                         *)
(* A signal is handled between any two steps of the process it is sent to. *)
(* SIGINT is SIGTERM.  The handlers are installed without SA_RESTART.      *)
(***************************************************************************)
EXTENDS Naturals

CONSTANTS
    MaxInc,         \* bound: incarnations
    MaxSignal,      \* bound: signals the user sends
    MaxLaunch,      \* bound: times the user starts the program
    SystemProxy     \* ~api_->config.no_system_dns_proxy

ASSUME LifecycleAssumption ==
    /\ MaxInc \in Nat
    /\ MaxSignal \in Nat
    /\ MaxLaunch \in Nat
    /\ SystemProxy \in BOOLEAN

VARIABLES
    mpc,            \* where the master is
    inc,            \* the incarnation, and the pid of its master and worker
    signaled,       \* Service::signaled_exit
    service,        \* service_ptr is not null
    handlers,       \* the handlers of setup_master_signals are installed
    wpid,           \* worker_pid_, 0 when it is not a worker's
    pidfile,        \* the pid in the pidfile, 0 when there is none
    known,          \* the pid of the running master was in the pidfile
    worker,         \* what each worker is doing
    inherited,      \* worker_pid_ in the worker's own process
    pending,        \* workers with a SIGTERM on its way
    stopflag,       \* workers whose Worker::stop was called
    sem,            \* sync_semaphore of each incarnation
    port,           \* the worker that listens on the service port
    proxy,          \* the system's DNS proxy is running
    wasRunning,     \* system_proxy_was_running_
    sent,           \* signals sent
    launches        \* times started

\* What happened, for the properties only.
VARIABLES
    told,           \* workers that logged "Shutting down."
    unwaited,       \* incarnations whose master ended, or whose waitpid was
                    \* interrupted, before it learned the worker's status
    proxied,        \* incarnations whose start_dns_proxy succeeded
    failed,         \* a crash was reaped or the startup threw, in this launch
    proxyAtLaunch   \* proxy when the program was started

master == <<mpc, inc, signaled, service, handlers, wpid>>
files == <<pidfile, known>>
workers == <<worker, inherited, pending, stopflag, sem, port>>
dns == <<proxy, wasRunning>>
user == <<sent, launches>>
history == <<told, unwaited, proxied, failed, proxyAtLaunch>>
vars == <<master, files, workers, dns, user, history>>

-----------------------------------------------------------------------------
Inc == 1 .. MaxInc
NoPid == 0

\* The master ended: it left the loop, refused to start, returned from main
\* on an exception, died of an exception or a null pointer, was killed.
Final == {"exited", "refused", "rejected", "aborted", "killed"}

Mpc == Final \cup
       {"check", "boot", "configure", "daemon", "fork", "savepid", "sigaction",
        "startproxy", "post", "enter", "wait", "stopproxy", "removepid", "finish"}

\* _exit(0), _exit(1), killed by SIGTERM, killed by another signal.
Ended == {"exit", "fail", "term", "crash"}

\* A worker that was forked by a master with handlers is reborn: it has them too.
HasWorkerPtr == {"binding", "serving", "updating", "sleeping", "stopping"}
WorkerState ==
    {"none", "born", "reborn", "armed", "waiting", "starting"} \cup HasWorkerPtr \cup Ended

Alive(i) == worker[i] \notin Ended \cup {"none"}

\* SIGTERM to process i, if it is a worker that lives: Unix::stop with i in
\* worker_pid_.
Signalled(i) == {i} \cap {j \in Inc : Alive(j)}
Kill(i) == pending' = pending \cup Signalled(i)

-----------------------------------------------------------------------------
Init ==
    /\ mpc = "check"
    /\ inc = 0
    /\ signaled = FALSE
    /\ service = FALSE
    /\ handlers = FALSE
    /\ wpid = NoPid
    /\ pidfile = NoPid
    /\ known = FALSE
    /\ worker = [i \in Inc |-> "none"]
    /\ inherited = [i \in Inc |-> NoPid]
    /\ pending = {}
    /\ stopflag = {}
    /\ sem = [i \in Inc |-> 0]
    /\ port = NoPid
    /\ proxy \in BOOLEAN
    /\ wasRunning = FALSE
    /\ sent = 0
    /\ launches = 1
    /\ told = {}
    /\ unwaited = {}
    /\ proxied = {}
    /\ failed = FALSE
    /\ proxyAtLaunch = proxy

-----------------------------------------------------------------------------
(***************************************************************************)
(* The master                                                              *)
(***************************************************************************)

\* while(!Service::signaled_exit)
Check ==
    /\ mpc = "check"
    /\ mpc' = IF signaled THEN "exited" ELSE "boot"
    /\ UNCHANGED <<inc, signaled, service, handlers, wpid, files, workers, dns, user, history>>

\* A new Service; its worker_pid_ is not initialized and is what the memory
\* of the last one held, or nothing.
NewService ==
    /\ mpc = "boot"
    /\ inc < MaxInc
    /\ service' = TRUE
    /\ wpid' \in {wpid, NoPid}
    /\ wasRunning' = FALSE
    /\ mpc' = "configure"
    /\ UNCHANGED <<inc, signaled, handlers, files, workers, proxy, user, history>>

\* is_already_running: the pidfile names a living process.  After a crash it
\* names a dead one, unless that pid was given to another process since.
Refuse ==
    /\ mpc = "configure"
    /\ pidfile # NoPid
    /\ mpc' = "refused"
    /\ UNCHANGED <<inc, signaled, service, handlers, wpid, files, workers, dns, user, history>>

Configure ==
    /\ mpc = "configure"
    /\ mpc' = "daemon"
    /\ UNCHANGED <<inc, signaled, service, handlers, wpid, files, workers, dns, user, history>>

\* configure() throws: main stops what it takes for its worker and returns.
ConfigureThrows ==
    /\ mpc = "configure"
    /\ Kill(wpid)
    /\ mpc' = "rejected"
    /\ UNCHANGED <<inc, signaled, service, handlers, wpid, files,
                   worker, inherited, stopflag, sem, port, dns, user, history>>

\* The shared memory is new, and daemon() makes this a process with a new pid.
Daemon ==
    /\ mpc = "daemon"
    /\ inc' = inc + 1
    /\ known' = FALSE
    /\ mpc' = "fork"
    /\ UNCHANGED <<signaled, service, handlers, wpid, pidfile, workers, dns, user, history>>

\* Mutant: a worker_pid_ that is set is taken for that of this worker.
Fork_KeepsPid ==
    /\ mpc = "fork"
    /\ worker' = [worker EXCEPT ![inc] = IF handlers THEN "reborn" ELSE "born"]
    /\ inherited' = [inherited EXCEPT ![inc] = wpid]
    /\ wpid' = IF wpid = NoPid THEN inc ELSE wpid
    /\ mpc' = "savepid"
    /\ UNCHANGED <<inc, signaled, service, handlers, files,
                   pending, stopflag, sem, port, dns, user, history>>

\* fork() and, in the parent only, the assignment of worker_pid_.
Fork ==
    /\ mpc = "fork"
    /\ worker' = [worker EXCEPT ![inc] = IF handlers THEN "reborn" ELSE "born"]
    /\ inherited' = [inherited EXCEPT ![inc] = wpid]
    /\ wpid' = inc
    /\ mpc' = "savepid"
    /\ UNCHANGED <<inc, signaled, service, handlers, files,
                   pending, stopflag, sem, port, dns, user, history>>

SavePidfile ==
    /\ mpc = "savepid"
    /\ pidfile' = inc
    /\ known' = TRUE
    /\ mpc' = "sigaction"
    /\ UNCHANGED <<inc, signaled, service, handlers, wpid, workers, dns, user, history>>

\* save_pidfile and a failing fork throw through run() out of main.
Abort ==
    /\ mpc \in {"fork", "savepid"}
    /\ mpc' = "aborted"
    /\ unwaited' = unwaited \cup {inc}
    /\ UNCHANGED <<inc, signaled, service, handlers, wpid, files, workers, dns, user,
                   told, proxied, failed, proxyAtLaunch>>

SetupMasterSignals ==
    /\ mpc = "sigaction"
    /\ handlers' = TRUE
    /\ mpc' = "startproxy"
    /\ UNCHANGED <<inc, signaled, service, wpid, files, workers, dns, user, history>>

\* Mutant: whether the proxy ran is noted after it was restarted.
StartProxy_NotesLate ==
    /\ mpc = "startproxy"
    /\ IF SystemProxy
       THEN wasRunning' = TRUE /\ proxy' = TRUE
       ELSE UNCHANGED dns
    /\ proxied' = proxied \cup {inc}
    /\ mpc' = "post"
    /\ UNCHANGED <<inc, signaled, service, handlers, wpid, files, workers, user,
                   told, unwaited, failed, proxyAtLaunch>>

\* start_dns_proxy.  Of the system's proxy it first notes whether it ran; one
\* of its own it just runs.
StartProxy ==
    /\ mpc = "startproxy"
    /\ IF SystemProxy
       THEN wasRunning' = proxy /\ proxy' = TRUE
       ELSE UNCHANGED dns
    /\ proxied' = proxied \cup {inc}
    /\ mpc' = "post"
    /\ UNCHANGED <<inc, signaled, service, handlers, wpid, files, workers, user,
                   told, unwaited, failed, proxyAtLaunch>>

\* Mutant: the handler of the exception goes on to post the semaphore.
StartProxyThrows_Posts ==
    /\ mpc = "startproxy"
    /\ IF SystemProxy
       THEN wasRunning' = proxy /\ proxy' \in BOOLEAN
       ELSE UNCHANGED dns
    /\ signaled' = TRUE
    /\ failed' = TRUE
    /\ Kill(wpid)
    /\ mpc' = "post"
    /\ UNCHANGED <<inc, service, handlers, wpid, files, worker, inherited, stopflag, sem, port, user,
                   told, unwaited, proxied, proxyAtLaunch>>

\* start_dns_proxy throws, with the system's proxy restarted or not.  The
\* handler in process_master disables the restart and stops the worker.
StartProxyThrows ==
    /\ mpc = "startproxy"
    /\ IF SystemProxy
       THEN wasRunning' = proxy /\ proxy' \in BOOLEAN
       ELSE UNCHANGED dns
    /\ signaled' = TRUE
    /\ failed' = TRUE
    /\ Kill(wpid)
    /\ mpc' = "enter"
    /\ UNCHANGED <<inc, service, handlers, wpid, files, worker, inherited, stopflag, sem, port, user,
                   told, unwaited, proxied, proxyAtLaunch>>

\* Mutant: the semaphore is posted for the worker and once more to be safe.
Post_Twice ==
    /\ mpc = "post"
    /\ sem' = [sem EXCEPT ![inc] = @ + 2]
    /\ mpc' = "enter"
    /\ UNCHANGED <<inc, signaled, service, handlers, wpid, files,
                   worker, inherited, pending, stopflag, port, dns, user, history>>

Post ==
    /\ mpc = "post"
    /\ sem' = [sem EXCEPT ![inc] = @ + 1]
    /\ mpc' = "enter"
    /\ UNCHANGED <<inc, signaled, service, handlers, wpid, files,
                   worker, inherited, pending, stopflag, port, dns, user, history>>

\* waitpid() blocks.
EnterWait ==
    /\ mpc = "enter"
    /\ mpc' = "wait"
    /\ UNCHANGED <<inc, signaled, service, handlers, wpid, files, workers, dns, user, history>>

\* Mutant: waitpid() is called with WNOHANG.
Reap_NoHang ==
    /\ mpc = "wait"
    /\ signaled' = (signaled \/ worker[wpid] = "crash")
    /\ failed' = (failed \/ worker[wpid] = "crash")
    /\ mpc' = "stopproxy"
    /\ UNCHANGED <<inc, service, handlers, wpid, files, workers, dns, user,
                   told, unwaited, proxied, proxyAtLaunch>>

\* Mutant: a crash does not disable the reload.
Reap_Reloads ==
    /\ mpc = "wait"
    /\ worker[wpid] \in Ended
    /\ failed' = (failed \/ worker[wpid] = "crash")
    /\ mpc' = "stopproxy"
    /\ UNCHANGED <<inc, signaled, service, handlers, wpid, files, workers, dns, user,
                   told, unwaited, proxied, proxyAtLaunch>>

\* Mutant: only a worker that exited is taken for ended, not one that was killed.
Reap_ExitedOnly ==
    /\ mpc = "wait"
    /\ worker[wpid] \in {"exit", "fail"}
    /\ mpc' = "stopproxy"
    /\ UNCHANGED <<inc, signaled, service, handlers, wpid, files, workers, dns, user, history>>

\* waitpid() returns the status of the worker.
Reap ==
    /\ mpc = "wait"
    /\ worker[wpid] \in Ended
    /\ signaled' = (signaled \/ worker[wpid] = "crash")
    /\ failed' = (failed \/ worker[wpid] = "crash")
    /\ mpc' = "stopproxy"
    /\ UNCHANGED <<inc, service, handlers, wpid, files, workers, dns, user,
                   told, unwaited, proxied, proxyAtLaunch>>

\* stop_dns_proxy: the system's proxy is restarted without the generated
\* configuration if it ran before, and stopped if not.
StopProxy ==
    /\ mpc = "stopproxy"
    /\ proxy' = wasRunning
    /\ mpc' = "removepid"
    /\ UNCHANGED <<inc, signaled, service, handlers, wpid, files, workers, wasRunning,
                   user, history>>

\* Mutant: the pidfile is left for the next incarnation to replace.
RemovePidfile_Leaves ==
    /\ mpc = "removepid"
    /\ mpc' = "finish"
    /\ UNCHANGED <<inc, signaled, service, handlers, wpid, files, workers, dns, user, history>>

RemovePidfile ==
    /\ mpc = "removepid"
    /\ pidfile' = NoPid
    /\ mpc' = "finish"
    /\ UNCHANGED <<inc, signaled, service, handlers, wpid, known, workers, dns, user, history>>

\* Back in main: the service and its shared memory are destroyed, "##### Stopped."
\* or "##### Stopped. Reloading." is logged.
Finish ==
    /\ mpc = "finish"
    /\ service' = FALSE
    /\ mpc' = "check"
    /\ UNCHANGED <<inc, signaled, handlers, wpid, files, workers, dns, user, history>>

Master ==
    \/ Check
    \/ NewService
    \/ Refuse
    \/ Configure
    \/ ConfigureThrows
    \/ Daemon
    \/ Fork
    \/ SavePidfile
    \/ Abort
    \/ SetupMasterSignals
    \/ StartProxy
    \/ StartProxyThrows
    \/ Post
    \/ EnterWait
    \/ Reap
    \/ StopProxy
    \/ RemovePidfile
    \/ Finish

-----------------------------------------------------------------------------
(***************************************************************************)
(* The user: signals to the pid that was in the pidfile, and restarts      *)
(***************************************************************************)

\* The master's handler runs, and a blocked waitpid() fails with EINTR: the
\* master goes on as if the worker had ended.  While service_ptr is null, or
\* with the default action, the signal is the end of the master.
Signal(sig) ==
    /\ sent < MaxSignal
    /\ known
    /\ mpc \notin Final
    /\ sent' = sent + 1
    /\ \/ /\ ~handlers
          /\ mpc' = "killed"
          /\ UNCHANGED <<signaled, pending>>
       \/ /\ handlers
          /\ ~service
          /\ mpc' = "aborted"
          /\ UNCHANGED <<signaled, pending>>
       \/ /\ handlers
          /\ service
          /\ signaled' = (signaled \/ sig = "TERM")
          /\ Kill(wpid)
          /\ mpc' = IF mpc = "wait" THEN "stopproxy" ELSE mpc
    /\ unwaited' = IF mpc' = mpc THEN unwaited ELSE unwaited \cup {inc}
    /\ UNCHANGED <<inc, service, handlers, wpid, files, worker, inherited, stopflag, sem, port, dns,
                   launches, told, proxied, failed, proxyAtLaunch>>

\* SIGKILL, which pydbl/test/server.py falls back to.
KillMaster ==
    /\ sent < MaxSignal
    /\ known
    /\ mpc \notin Final
    /\ sent' = sent + 1
    /\ mpc' = "killed"
    /\ unwaited' = unwaited \cup {inc}
    /\ UNCHANGED <<inc, signaled, service, handlers, wpid, files, workers, dns,
                   launches, told, proxied, failed, proxyAtLaunch>>

\* The program is started again after it ended.
Launch ==
    /\ mpc \in Final
    /\ launches < MaxLaunch
    /\ launches' = launches + 1
    /\ mpc' = "check"
    /\ signaled' = FALSE
    /\ service' = FALSE
    /\ handlers' = FALSE
    /\ wpid' = NoPid
    /\ known' = FALSE
    /\ failed' = FALSE
    /\ proxyAtLaunch' = proxy
    /\ UNCHANGED <<inc, pidfile, workers, dns, sent, told, unwaited, proxied>>

User == KillMaster \/ Launch \/ \E sig \in {"TERM", "HUP"} : Signal(sig)

-----------------------------------------------------------------------------
(***************************************************************************)
(* The workers                                                             *)
(***************************************************************************)
noMaster == <<master, files, dns, user, inherited, unwaited, proxied, failed, proxyAtLaunch>>

Becomes(i, state) == worker' = [worker EXCEPT ![i] = state]

\* process_worker replaces the signal handlers.
InstallHandlers(i) ==
    /\ worker[i] \in {"born", "reborn"}
    /\ Becomes(i, "armed")
    /\ UNCHANGED <<noMaster, pending, stopflag, sem, port, told>>

\* timed_wait finds the semaphore posted, at once or after it has blocked.
TakeSemaphore(i) ==
    /\ worker[i] \in {"armed", "waiting"}
    /\ sem[i] > 0
    /\ sem' = [sem EXCEPT ![i] = @ - 1]
    /\ Becomes(i, "starting")
    /\ UNCHANGED <<noMaster, pending, stopflag, port, told>>

BlockOnSemaphore(i) ==
    /\ worker[i] = "armed"
    /\ sem[i] = 0
    /\ Becomes(i, "waiting")
    /\ UNCHANGED <<noMaster, pending, stopflag, sem, port, told>>

\* Mutant: wait() in place of timed_wait().
Timeout_Never(i) ==
    /\ worker[i] = "waiting"
    /\ sem[i] > 0
    /\ Becomes(i, "fail")
    /\ UNCHANGED <<noMaster, pending, stopflag, sem, port, told>>

\* timed_wait gives up after 10 s.  The semaphore is memory that was never
\* constructed, so a post need not wake the waiter: a timeout may happen even
\* when the semaphore was posted.
Timeout(i) ==
    /\ worker[i] = "waiting"
    /\ Becomes(i, "fail")
    /\ UNCHANGED <<noMaster, pending, stopflag, sem, port, told>>

\* run_worker sets worker_ptr_.
CreateWorker(i) ==
    /\ worker[i] = "starting"
    /\ Becomes(i, "binding")
    /\ UNCHANGED <<noMaster, pending, stopflag, sem, port, told>>

\* run_servers.  When a socket cannot be bound, because another worker has the
\* port or for a reason of its own, the worker is gone with status 0.
RunServers(i) ==
    /\ worker[i] = "binding"
    /\ \/ /\ port = NoPid
          /\ port' = i
          /\ Becomes(i, "serving")
       \/ /\ port' = port
          /\ Becomes(i, "exit")
    /\ UNCHANGED <<noMaster, pending, stopflag, sem, told>>

DropPrivileges(i) ==
    /\ worker[i] = "serving"
    /\ Becomes(i, "updating")
    /\ UNCHANGED <<noMaster, pending, stopflag, sem, port, told>>

\* Worker::run leaves its loop: stop() was called before the test.
LeaveLoop(i) ==
    /\ worker[i] = "updating"
    /\ i \in stopflag
    /\ Becomes(i, "stopping")
    /\ UNCHANGED <<noMaster, pending, stopflag, sem, port, told>>

\* The updater has news.
Updated(i) ==
    /\ worker[i] = "updating"
    /\ Becomes(i, "stopping")
    /\ UNCHANGED <<noMaster, pending, stopflag, sem, port, told>>

\* Mutant: the flag is not tested before the wait.
Sleep_Untested(i) ==
    /\ worker[i] = "updating"
    /\ Becomes(i, "sleeping")
    /\ UNCHANGED <<noMaster, pending, stopflag, sem, port, told>>

\* The updater has returned, and nobody has called stop() before the test.
Sleep(i) ==
    /\ worker[i] = "updating"
    /\ i \notin stopflag
    /\ Becomes(i, "sleeping")
    /\ UNCHANGED <<noMaster, pending, stopflag, sem, port, told>>

\* wait_for ends: by a notification, by the interval, or by itself.
WakeUp(i) ==
    /\ worker[i] = "sleeping"
    /\ Becomes(i, "updating")
    /\ UNCHANGED <<noMaster, pending, stopflag, sem, port, told>>

StopServers(i) ==
    /\ worker[i] = "stopping"
    /\ port' = NoPid
    /\ Becomes(i, "exit")
    /\ UNCHANGED <<noMaster, pending, stopflag, sem, told>>

\* An exception leaves drop_privileges or a server thread, or a null pointer
\* is followed.
CrashWorker(i) ==
    /\ worker[i] \in HasWorkerPtr
    /\ port' = IF port = i THEN NoPid ELSE port
    /\ Becomes(i, "crash")
    /\ UNCHANGED <<noMaster, pending, stopflag, sem, told>>

\* The reload command of a client: handle_reload calls signal_stop.  The thread
\* of the service answers while the responder is still to be bound, and until
\* it is joined.
Reload(i) ==
    /\ worker[i] \in HasWorkerPtr
    /\ stopflag' = stopflag \cup {i}
    /\ UNCHANGED <<noMaster, worker, pending, sem, port, told>>

\* A SIGTERM is delivered.  Before it has handlers of its own a worker dies of
\* it, or runs the master's handler that it inherited, which signals what was in
\* worker_pid_ before the fork: the worker of the last service, if that is an
\* orphan.  The worker's handler calls signal_stop, which stops no worker that is
\* not there yet, and makes a blocked timed_wait throw.
WorkerSignal(i) ==
    /\ i \in pending
    /\ pending' = (pending \ {i}) \cup
                     (IF worker[i] = "reborn" THEN Signalled(inherited[i]) ELSE {})
    /\ told' = IF worker[i] \in {"born", "reborn"} \/ ~Alive(i) THEN told ELSE told \cup {i}
    /\ worker' = CASE worker[i] = "born" -> [worker EXCEPT ![i] = "term"]
                   [] worker[i] = "waiting" -> [worker EXCEPT ![i] = "fail"]
                   [] OTHER -> worker
    /\ stopflag' = IF worker[i] \in HasWorkerPtr THEN stopflag \cup {i} ELSE stopflag
    /\ UNCHANGED <<noMaster, sem, port>>

\* What the code of a worker does by itself, without a server that may keep the
\* updater waiting.
WorkerStep(i) ==
    \/ InstallHandlers(i)
    \/ TakeSemaphore(i)
    \/ BlockOnSemaphore(i)
    \/ Timeout(i)
    \/ CreateWorker(i)
    \/ RunServers(i)
    \/ DropPrivileges(i)
    \/ WakeUp(i)
    \/ StopServers(i)

Worker(i) ==
    \/ WorkerStep(i)
    \/ WorkerSignal(i)
    \/ LeaveLoop(i)
    \/ Updated(i)
    \/ Sleep(i)
    \/ CrashWorker(i)
    \/ Reload(i)

-----------------------------------------------------------------------------
Next == Master \/ User \/ \E i \in Inc : Worker(i)

Spec == Init /\ [][Next]_vars

\* A process that can take a step takes one, and a signal is delivered.  Only
\* the updater need not return: its transfer has no timeout.
Fairness ==
    /\ WF_vars(Master)
    /\ \A i \in Inc : WF_vars(WorkerStep(i)) /\ WF_vars(WorkerSignal(i))

FairSpec == Spec /\ Fairness

-----------------------------------------------------------------------------
(***************************************************************************)
(* Properties                                                              *)
(***************************************************************************)

\* Every variable holds what the code can put into it.
TypeOK ==
    /\ mpc \in Mpc
    /\ inc \in Inc \cup {0}
    /\ signaled \in BOOLEAN
    /\ service \in BOOLEAN
    /\ handlers \in BOOLEAN
    /\ wpid \in Inc \cup {NoPid}
    /\ pidfile \in Inc \cup {NoPid}
    /\ known \in BOOLEAN
    /\ worker \in [Inc -> WorkerState]
    /\ inherited \in [Inc -> Inc \cup {NoPid}]
    /\ pending \in SUBSET Inc
    /\ stopflag \in SUBSET Inc
    /\ sem \in [Inc -> {0, 1}]
    /\ port \in Inc \cup {NoPid}
    /\ proxy \in BOOLEAN
    /\ wasRunning \in BOOLEAN
    /\ sent \in Nat
    /\ launches \in Nat
    /\ told \in SUBSET Inc
    /\ unwaited \in SUBSET Inc
    /\ proxied \in SUBSET Inc
    /\ failed \in BOOLEAN
    /\ proxyAtLaunch \in BOOLEAN

\* A worker opens its servers only after the DNS proxy of its incarnation was
\* started: the semaphore keeps it back (unix.cxx:322-337, 358-363).
NoServiceBeforeProxy == \A i \in Inc : worker[i] \in HasWorkerPtr => i \in proxied

\* The master is past the waitpid of incarnation i.
PastWait(i) ==
    \/ i < inc
    \/ i = inc /\ mpc \in {"stopproxy", "removepid", "finish", "check", "boot", "configure",
                           "daemon", "exited", "rejected", "refused"}

\* A worker that runs on without its master is one whose master ended first or
\* had its waitpid interrupted by a signal; in every other case the two end
\* together, however often the service reloads (unix.cxx:372-377).
OrphanOnlyUnwaited == \A i \in Inc : Alive(i) /\ PastWait(i) => i \in unwaited

\* A SIGTERM goes to the worker of the running incarnation, although worker_pid_
\* is not initialized and outlives its worker.  It goes to an older one only from
\* a worker that was forked with the master's handlers, and then that is the
\* orphan of the incarnation before (unix.cxx:60-83, 262-277, unix.hxx:25).
SignalsOwnOrOrphan ==
    [][\A i \in pending' \ pending :
           i = inc \/ (i \in unwaited /\ i + 1 \in Inc /\ worker[i + 1] = "reborn")]_vars

\* Once the master knows of a failure the loop does not go round again: a crash
\* of the worker whose status it got from waitpid, or a start_dns_proxy that
\* threw.  A crash that an interrupted waitpid never saw is no failure here, nor
\* is a worker that gives up with _exit(1) (unix.cxx:365-386).
NoRestartAfterFailure == [][inc' # inc => ~failed]_vars

\* A loop that ended leaves no pidfile, and while the master waits for its
\* worker the pidfile names that master (unix.cxx:85-114, 353, 396).
PidfileFollowsMaster ==
    /\ mpc = "exited" => pidfile = NoPid
    /\ mpc \in {"sigaction", "startproxy", "post", "enter", "wait", "stopproxy", "removepid"}
         => pidfile = inc

\* When the program ends through its loop the system's DNS proxy runs if and
\* only if it ran when the program was started, however many reloads there
\* were (unix.cxx:127, 211-218).
ProxyRestored == SystemProxy /\ mpc = "exited" => proxy = proxyAtLaunch

\* A worker never waits for its master for ever (unix.cxx:325-330).
WaitEnds == \A i \in Inc : worker[i] \in {"armed", "waiting"} ~> worker[i] \notin {"armed", "waiting"}

\* Worker i waits for ever for a server that sends the updater nothing.
UpdaterHangs(i) == <>[](worker[i] = "updating")

\* A stop that reaches the Worker object ends the worker process, unless the
\* updater hangs (worker.cxx:24-47, net/http/request.cxx:63-83).
StopEndsWorker == \A i \in Inc : UpdaterHangs(i) \/ (i \in stopflag ~> ~Alive(i))

\* After a crash that was reaped or a failed startup the master comes to its end:
\* it does not hang in waitpid on a worker that it told to stop too early
\* (unix.cxx:356-386).
FailureEndsMaster == failed ~> mpc \in Final \/ ~failed

\* A worker that ends is reaped, and its master goes on to the next incarnation
\* or to its end.
EndIsNoticed ==
    \A i \in Inc : inc = i /\ worker[i] \in Ended ~> inc # i \/ mpc \in Final \cup {"boot"}

\* main.cxx:146 logs "##### Stopped." for a program that was told to stop.  That
\* says that the worker stopped and the port is free.
StoppedMeansStopped == mpc = "exited" => \A i \in Inc : worker[i] \notin HasWorkerPtr

\* unix.cxx:308 logs "Worker caught SIGNAL ... Shutting down.": the worker that
\* logged it ends, unless its updater hangs.
ShuttingDownEnds == \A i \in Inc : UpdaterHangs(i) \/ (i \in told ~> ~Alive(i))

=============================================================================
