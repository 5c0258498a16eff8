----------------------------- MODULE WorkerLoop -----------------------------
(***************************************************************************)
(* A worker from the moment worker_ptr_ is set (service/worker/worker.cxx, *)
(* service/worker/unix.cxx): the main thread binds the servers, starts a   *)
(* thread for each, drops privileges, and alternates between the updater   *)
(* and a wait on a condition variable; the threads serve connections       *)
(* (service/server/server.hxx); signal_stop comes from a connection or     *)
(* from the signal handler, which any thread may run.                      *)
(*                                                                         *)
(* ServiceLifecycle has this as the states "binding" to "stopping" of a    *)
(* worker; StepsAreLifecycle states that nothing here is more than that.   *)
(***************************************************************************)
EXTENDS Updater

CONSTANTS
    NumServers,     \* the service, and the HTTP responder if it is enabled
    MaxSignal,      \* bound: signals the master sends
    MaxWorker       \* bound: workers, one after the other

ASSUME WorkerAssumption ==
    /\ NumServers \in Nat \ {0}
    /\ MaxSignal \in Nat
    /\ MaxWorker \in Nat

VARIABLES
    at,             \* where the main thread is
    bound,          \* servers that are constructed and have their thread
    thread,         \* what each server thread is doing
    halted,         \* servers whose io_service was stopped
    stopflag,       \* stop_flag_
    pending,        \* a signal is on its way
    handler,        \* a signal handler is about to notify
    told,           \* the handler logged "Shutting down."
    sent,           \* signals sent
    turn            \* number of this worker

threads == <<bound, thread, halted>>
stopping == <<stopflag, pending, handler, told, sent, turn>>
vars == <<at, threads, stopping, updaterVars>>

-----------------------------------------------------------------------------
Server == 1 .. NumServers
Service == 1

\* _exit and the death of the process end every thread.
Gone == {"exit", "crash"}
EndThreads == thread' = [s \in Server |-> "ended"]

Init ==
    /\ UpdaterInit
    /\ at = "bind"
    /\ bound = 0
    /\ thread = [s \in Server |-> "none"]
    /\ halted = {}
    /\ stopflag = FALSE
    /\ pending = FALSE
    /\ handler = FALSE
    /\ told = FALSE
    /\ sent = 0
    /\ turn = 1

-----------------------------------------------------------------------------
(***************************************************************************)
(* The main thread                                                         *)
(***************************************************************************)

\* Mutant: one server too many.
Bind_OneMore ==
    /\ at = "bind"
    /\ bound' = bound + 1
    /\ thread' = [thread EXCEPT ![bound'] = "starting"]
    /\ at' = IF bound = NumServers THEN "drop" ELSE "bind"
    /\ UNCHANGED <<halted, stopping, updaterVars>>

\* run_servers: bind, then start the thread.
Bind ==
    /\ at = "bind"
    /\ bound' = bound + 1
    /\ thread' = [thread EXCEPT ![bound'] = "starting"]
    /\ at' = IF bound' = NumServers THEN "drop" ELSE "bind"
    /\ UNCHANGED <<halted, stopping, updaterVars>>

\* A port is taken: _exit(0), with the servers that run already.
BindFails ==
    /\ at = "bind"
    /\ at' = "exit"
    /\ EndThreads
    /\ UNCHANGED <<bound, halted, stopping, updaterVars>>

DropPrivileges ==
    /\ at = "drop"
    /\ at' = "update"
    /\ UNCHANGED <<threads, stopping, updaterVars>>

\* run_updater, which does nothing for --no-update.
RunUpdater ==
    /\ at = "update"
    /\ Snapshot \/ Import
    /\ UNCHANGED <<at, threads, stopping>>

Request ==
    /\ at = "update"
    /\ Look \/ Fetch
    /\ UNCHANGED <<at, threads, stopping>>

Updated ==
    /\ at = "update"
    /\ UpdaterReturns
    /\ at' = IF updated THEN "halt" ELSE "test"
    /\ UNCHANGED <<threads, stopping>>

\* while(!stop_flag_)
Test ==
    /\ at = "test"
    /\ at' = IF stopflag THEN "halt" ELSE "lock"
    /\ UNCHANGED <<threads, stopping, updaterVars>>

\* wait_for releases the mutex, which nobody else takes, and sleeps.
Sleep ==
    /\ at = "lock"
    /\ at' = "wait"
    /\ UNCHANGED <<threads, stopping, updaterVars>>

\* Mutant: the wait has no end of its own.
Timeout_Never ==
    /\ at = "wait"
    /\ handler
    /\ at' = "update"
    /\ UNCHANGED <<threads, stopping, updaterVars>>

\* The interval is over, 3600 s at the least.
Timeout ==
    /\ at = "wait"
    /\ at' = "update"
    /\ UNCHANGED <<threads, stopping, updaterVars>>

\* A condition variable may wake up by itself.
Spurious ==
    /\ at = "wait"
    /\ at' = "test"
    /\ UNCHANGED <<threads, stopping, updaterVars>>

\* stop_servers stops one after the other.
Halt ==
    /\ at = "halt"
    /\ halted' = Server
    /\ at' = "join"
    /\ UNCHANGED <<bound, thread, stopping, updaterVars>>

\* Mutant: the threads are not joined.
Join_Detaches ==
    /\ at = "join"
    /\ at' = "reset"
    /\ UNCHANGED <<threads, stopping, updaterVars>>

Join ==
    /\ at = "join"
    /\ \A s \in Server : thread[s] = "ended"
    /\ at' = "reset"
    /\ UNCHANGED <<threads, stopping, updaterVars>>

\* The servers are deleted, their sockets closed, and the worker ends.
Reset ==
    /\ at = "reset"
    /\ at' = "exit"
    /\ EndThreads
    /\ UNCHANGED <<bound, halted, stopping, updaterVars>>

\* All that the main thread does without a clock or the network.
Main ==
    \/ Bind
    \/ BindFails
    \/ DropPrivileges
    \/ RunUpdater
    \/ Updated
    \/ Test
    \/ Sleep
    \/ Halt
    \/ Join
    \/ Reset

-----------------------------------------------------------------------------
(***************************************************************************)
(* The server threads                                                      *)
(***************************************************************************)
Thread(s, from, to) ==
    /\ at \notin Gone
    /\ thread[s] = from
    /\ thread' = [thread EXCEPT ![s] = to]
    /\ UNCHANGED <<at, bound, halted>>

\* cv_.notify_all() wakes the main thread if it sleeps.
Notify == at' = IF at = "wait" THEN "test" ELSE at

\* io_service::run() returns at once if it was stopped before.
Run(s) ==
    /\ Thread(s, "starting", IF s \in halted THEN "ended" ELSE "polling")
    /\ UNCHANGED <<stopping, updaterVars>>

\* A connection is accepted or a request has arrived.
Handle(s) ==
    /\ s \notin halted
    /\ Thread(s, "polling", "handling")
    /\ UNCHANGED <<stopping, updaterVars>>

\* The handler is done; of a reload, shutdown of a socket that the peer has
\* closed threw before signal_stop was called.
Handled(s) ==
    /\ Thread(s, "handling", "polling")
    /\ UNCHANGED <<stopping, updaterVars>>

\* handle_reload calls signal_stop: the flag, then the notification.
Reload ==
    /\ Thread(Service, "handling", "notifying")
    /\ stopflag' = TRUE
    /\ UNCHANGED <<pending, handler, told, sent, turn, updaterVars>>

ReloadNotifies ==
    /\ thread[Service] = "notifying"
    /\ thread' = [thread EXCEPT ![Service] = "polling"]
    /\ Notify
    /\ UNCHANGED <<bound, halted, stopping, updaterVars>>

\* io_service::run() returns.
Leave(s) ==
    /\ s \in halted
    /\ Thread(s, "polling", "ended")
    /\ UNCHANGED <<stopping, updaterVars>>

ThreadStep(s) == Run(s) \/ Handled(s) \/ Leave(s)

-----------------------------------------------------------------------------
(***************************************************************************)
(* Signals, the end of the process, the next worker                        *)
(***************************************************************************)
SendSignal ==
    /\ sent < MaxSignal
    /\ at \notin Gone
    /\ pending' = TRUE
    /\ sent' = sent + 1
    /\ UNCHANGED <<at, threads, stopflag, handler, told, turn, updaterVars>>

\* Mutant: signal_stop only notifies.
Deliver_NoFlag ==
    /\ pending
    /\ ~handler
    /\ at \notin Gone
    /\ pending' = FALSE
    /\ told' = TRUE
    /\ handler' = TRUE
    /\ UNCHANGED <<at, threads, stopflag, sent, turn, updaterVars>>

\* The handler of process_worker: signal_stop, on whatever thread.  The signal
\* is blocked while its handler runs.
Deliver ==
    /\ pending
    /\ ~handler
    /\ at \notin Gone
    /\ pending' = FALSE
    /\ told' = TRUE
    /\ stopflag' = TRUE
    /\ handler' = TRUE
    /\ UNCHANGED <<at, threads, sent, turn, updaterVars>>

HandlerNotifies ==
    /\ handler
    /\ at \notin Gone
    /\ handler' = FALSE
    /\ Notify
    /\ UNCHANGED <<threads, stopflag, pending, told, sent, turn, updaterVars>>

\* An exception leaves drop_privileges or a server thread.
Crash ==
    /\ at \notin Gone
    /\ at' = "crash"
    /\ EndThreads
    /\ UNCHANGED <<bound, halted, stopping, updaterVars>>

\* The loop of main went round.  The database is what it was.
NextWorker ==
    /\ at = "exit"
    /\ turn < MaxWorker
    /\ turn' = turn + 1
    /\ at' = "bind"
    /\ bound' = 0
    /\ thread' = [s \in Server |-> "none"]
    /\ halted' = {}
    /\ stopflag' = FALSE
    /\ pending' = FALSE
    /\ handler' = FALSE
    /\ told' = FALSE
    /\ sent' = 0
    /\ upc' = "idle"
    /\ UNCHANGED <<world, stored, todo, snapshot, list, body, updated, fetched>>

-----------------------------------------------------------------------------
Next ==
    \/ Main
    \/ Request
    \/ Timeout
    \/ Spurious
    \/ Reload
    \/ ReloadNotifies
    \/ \E s \in Server : ThreadStep(s) \/ Handle(s)
    \/ SendSignal
    \/ Deliver
    \/ HandlerNotifies
    \/ Crash
    \/ NextWorker
    \/ World /\ UNCHANGED <<at, threads, stopping>>

Spec == Init /\ [][Next]_vars

\* Threads run, a handler of a connection ends, an interval passes, signals are
\* delivered.  No request of the updater need ever be answered.
Fairness ==
    /\ WF_vars(Main)
    /\ WF_vars(Timeout)
    /\ WF_vars(ReloadNotifies)
    /\ \A s \in Server : WF_vars(ThreadStep(s))
    /\ WF_vars(Deliver)
    /\ WF_vars(HandlerNotifies)

FairSpec == Spec /\ Fairness

-----------------------------------------------------------------------------
(***************************************************************************)
(* Properties                                                              *)
(***************************************************************************)

\* Every variable holds what the code can put into it.
TypeOK ==
    /\ UpdaterTypeOK
    /\ at \in {"bind", "drop", "update", "test", "lock", "wait", "halt", "join", "reset"} \cup Gone
    /\ bound \in 0 .. NumServers
    /\ thread \in [Server -> {"none", "starting", "polling", "handling", "notifying", "ended"}]
    /\ halted \in SUBSET Server
    /\ stopflag \in BOOLEAN
    /\ pending \in BOOLEAN
    /\ handler \in BOOLEAN
    /\ told \in BOOLEAN
    /\ sent \in 0 .. MaxSignal
    /\ turn \in Nat

\* When the server objects are deleted no thread is in one of them, however
\* early the stop came (worker.cxx:107-127, server.hxx:59-73).
NoThreadInDeletedServer ==
    at \in {"reset", "exit"} => \A s \in Server : thread[s] \in {"none", "ended"}

\* A stop ends the worker, however it races the loop, even one whose
\* notification came before the wait; unless the updater waits for a server
\* that never answers (worker.cxx:26-29).
StopReachesEnd ==
    \/ <>[](at = "update" /\ Fetching)
    \/ stopflag ~> at \in Gone

\* pydbl/test/server.py:153-171 gives a service that it told to stop 10 s before
\* it logs "Killing with SIGKILL": a worker does not go to sleep for an hour
\* with its stop flag set and nobody about to wake it.
StopIsPrompt ==
    at = "wait" /\ stopflag => handler \/ thread[Service] = "notifying"

-----------------------------------------------------------------------------
(***************************************************************************)
(* This worker as the worker of an incarnation of ServiceLifecycle whose   *)
(* master waits for it.                                                    *)
(***************************************************************************)
Stage ==
    CASE at = "bind" -> "binding"
      [] at = "drop" -> "serving"
      [] at \in {"update", "test"} -> "updating"
      [] at \in {"lock", "wait"} -> "sleeping"
      [] at \in {"halt", "join", "reset"} -> "stopping"
      [] OTHER -> at

One(b) == IF b THEN {1} ELSE {}

Life == INSTANCE ServiceLifecycle WITH
    MaxInc <- 1, MaxSignal <- 0, MaxLaunch <- 1, SystemProxy <- TRUE,
    worker <- [i \in {1} |-> Stage],
    inherited <- [i \in {1} |-> 0],
    pending <- One(pending),
    stopflag <- One(stopflag),
    told <- One(told),
    port <- IF at \in Gone \cup {"bind"} THEN 0 ELSE 1,
    sem <- [i \in {1} |-> 0],
    mpc <- "wait", inc <- 1, signaled <- FALSE, service <- TRUE, handlers <- TRUE, wpid <- 1,
    pidfile <- 1, known <- TRUE, proxy <- TRUE, wasRunning <- FALSE, sent <- 0, launches <- 1,
    unwaited <- {}, proxied <- {1}, failed <- FALSE, proxyAtLaunch <- FALSE

\* Every step of the threads, of the handlers and of the updater is a step of
\* the worker of ServiceLifecycle, or none; the rest is the master's.
StepsAreLifecycle ==
    [][Life!Worker(1) \/ SendSignal \/ NextWorker]_(Life!vars)

=============================================================================
