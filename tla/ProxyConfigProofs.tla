------------------------- MODULE ProxyConfigProofs --------------------------
(***************************************************************************)
(* Proofs about ProxyConfig for any number of incarnations, lists and      *)
(* domains, and with clients that change the lists at any time.            *)
(***************************************************************************)
EXTENDS ProxyConfig, ServiceLifecycleProofs

StoreProofs == INSTANCE BlockPolicyProofs

(***************************************************************************)
(* The inductive invariant: what the configuration on disk and the one of  *)
(* the proxy are at each place of the master.                              *)
(***************************************************************************)

\* Nothing is left once the configuration was undone, but one that was stuck.
Cleared(c) == c = NoFile \/ (c.by = inc /\ inc \in stuck)

Undone ==
    /\ mpc \in {"removepid", "finish", "exited"} => Cleared(file) /\ Cleared(loaded)
    /\ mpc = "check" => ~service /\ (signaled => Cleared(file) /\ Cleared(loaded))

\* The file on disk was made by the incarnation that is being started or served.
FileIsOwn ==
    /\ mpc = "daemon" => file.by = inc + 1
    /\ mpc \in {"fork", "savepid", "sigaction", "startproxy", "post", "enter", "wait",
                "stopproxy"} => file.by = inc

\* start_dns_proxy of an incarnation has succeeded only once it was called.
ProxiedInTime ==
    /\ \A i \in proxied : i <= inc
    /\ mpc \in {"fork", "savepid", "sigaction", "startproxy"} => inc \notin proxied

\* What was listed since the incarnation began covers what was read.
ReadInTime ==
    /\ mpc = "configure" => Listed \subseteq seen
    /\ mpc \in {"daemon", "fork", "savepid", "sigaction", "startproxy"} => file.names \subseteq seen

CInv ==
    /\ Undone
    /\ FileIsOwn
    /\ ProxiedInTime
    /\ ReadInTime
    /\ ProxyIsCurrent
    /\ RedirectsForService
    /\ ReloadApplies

-----------------------------------------------------------------------------
\* A step of the composition is a step of the daemon, or leaves it as it is.
LEMMA StepIsLifecycle == [ConfigNext]_allVars => [Next]_vars
<1> SUFFICES ASSUME [ConfigNext]_allVars PROVE [Next]_vars
  OBVIOUS
<1>1. CASE Begin
  BY <1>1 DEF Begin, Next, Master
<1>2. CASE Generate
  BY <1>2 DEF Generate, Next, Master
<1>3. CASE Restart
  BY <1>3 DEF Restart, Next, Master
<1>4. CASE RestartFails
  BY <1>4 DEF RestartFails, Next, Master
<1>5. CASE Undo
  BY <1>5 DEF Undo, Next, Master
<1>6. CASE Elsewhere
  BY <1>6 DEF Elsewhere, Next, Master
<1>7. CASE Manage
  BY <1>7 DEF Manage
<1>8. CASE UNCHANGED allVars
  BY <1>8 DEF allVars
<1>9. QED
  BY <1>1, <1>2, <1>3, <1>4, <1>5, <1>6, <1>7, <1>8 DEF ConfigNext

\* The daemon keeps its invariant whatever clients do to the lists: every
\* theorem about ServiceLifecycle holds of the composition.
THEOREM ComposedLifecycle == ConfigSpec => Spec /\ []IInv
<1>1. ConfigInit => Init
  BY DEF ConfigInit
<1>2. ConfigSpec => Spec
  BY <1>1, StepIsLifecycle, PTL DEF ConfigSpec, Spec
<1>3. QED
  BY <1>2, LifecycleInvariant, PTL

\* With clients at work the pidfile still follows the master, the proxy is
\* restored and a failure is final.
THEOREM ComposedPromises ==
    ConfigSpec => []PidfileFollowsMaster /\ []ProxyRestored /\ NoRestartAfterFailure
BY ComposedLifecycle, PidfileIsRight, ProxyIsRestored, FailureIsFinal, PTL

\* A step of the composition is a step of the lists, or leaves them as they are.
LEMMA StepIsStore == [ConfigNext]_allVars => [StoreProofs!SharedNext]_<<policy, owner>>
<1>1. Begin \/ Generate \/ Restart \/ RestartFails \/ Undo \/ Elsewhere => UNCHANGED <<policy, owner>>
  BY DEF Begin, Generate, Restart, RestartFails, Undo, Elsewhere, store
<1>2. Manage => StoreProofs!SharedNext
  <2>1. Store!SharedNext => StoreProofs!SharedNext
    BY DEF Store!SharedNext, StoreProofs!SharedNext, Store!Next, StoreProofs!Next, Store!Reseed,
        StoreProofs!Reseed, Store!AddList, StoreProofs!AddList, Store!DropList,
        StoreProofs!DropList, Store!SetActive, StoreProofs!SetActive, Store!Block,
        StoreProofs!Block, Store!BlockInto, StoreProofs!BlockInto, Store!Unblock,
        StoreProofs!Unblock, Store!Import, StoreProofs!Import, Store!Move, StoreProofs!Move,
        Store!Exempt, StoreProofs!Exempt, Store!Seeded, StoreProofs!Seeded, Store!Fresh,
        StoreProofs!Fresh
  <2>2. QED
    BY <2>1 DEF Manage
<1>3. UNCHANGED allVars => UNCHANGED <<policy, owner>>
  BY DEF allVars, store
<1>4. QED
  BY <1>1, <1>2, <1>3 DEF ConfigNext

\* The daemon never writes the lists: every theorem about BlockPolicy holds of
\* the composition.  What is listed is defined whenever it is read, and what a
\* whitelist has stays exempt through reloads and restarts.
THEOREM ComposedStore ==
    ConfigSpec => StoreProofs!SharedSpec /\ []StoreProofs!PolicyOK /\ StoreProofs!ExemptionKept
<1>1. ConfigInit => StoreProofs!Init
  <2>1. Store!Init => StoreProofs!Init
    BY DEF Store!Init, StoreProofs!Init, Store!Seeded, StoreProofs!Seeded, Store!Fresh,
        StoreProofs!Fresh
  <2>2. QED
    BY <2>1 DEF ConfigInit
<1>2. ConfigSpec => StoreProofs!SharedSpec
  BY <1>1, StepIsStore, PTL DEF ConfigSpec, StoreProofs!SharedSpec
<1>3. {CUSTOM, WHITELIST} \subseteq ListName
  BY ProxyAssumption
<1>4. StoreProofs!SharedSpec => []StoreProofs!PolicyOK
  BY <1>3, StoreProofs!PolicySound
<1>5. StoreProofs!SharedSpec => StoreProofs!ExemptionKept
  BY <1>3, StoreProofs!ExemptionIsKept
<1>6. QED
  BY <1>2, <1>4, <1>5, PTL

-----------------------------------------------------------------------------
\* At the start there is no configuration.
LEMMA ConfigInitInv == ConfigInit => CInv
<1> SUFFICES ASSUME ConfigInit PROVE CInv
  OBVIOUS
<1> QED
  BY DEF ConfigInit, Init, CInv, Cleared, Undone, FileIsOwn, ProxiedInTime, ReadInTime,
         ProxyIsCurrent, RedirectsForService, ReloadApplies

\* The steps that handle the configuration keep the invariant.
LEMMA ConfigInv ==
    ASSUME IInv, CInv, Begin \/ Generate \/ Restart \/ RestartFails \/ Undo
    PROVE  CInv'
<1> USE ProxyAssumption, LifecycleAssumption
    DEF CInv, Cleared, Undone, FileIsOwn, ProxiedInTime, ReadInTime, ProxyIsCurrent,
        RedirectsForService, ReloadApplies, files, workers, user, config, store, Inc, NoPid
<1>1. inc \in Nat /\ proxied \subseteq Inc
  BY DEF IInv, TypeOK
<1>2. CASE Begin
  BY <1>1, <1>2 DEF Begin, NewService, history, Listed
<1>3. CASE Generate
  <2>1. PICK names \in Returned : file' = Written(names)
    BY <1>3 DEF Generate
  <2>2. file'.by = inc + 1 /\ file'.names \subseteq Listed
    BY <2>1 DEF Returned, Written
  <2>3. QED
    BY <1>1, <1>3, <2>2 DEF Generate, Configure, dns, history
<1>4. CASE Restart
  BY <1>1, <1>4 DEF Restart, StartProxy
<1>5. CASE RestartFails
  BY <1>1, <1>5 DEF RestartFails, StartProxyThrows, NoFile
<1>6. CASE Undo
  <2>1. mpc = "stopproxy" /\ mpc' = "removepid" /\ UNCHANGED <<inc, proxied, seen>>
    BY <1>6 DEF Undo, StopProxy, history
  <2>2. Cleared(file)' /\ (loaded' = file' \/ loaded' = NoFile)
    BY <1>6, <2>1 DEF Undo
  <2>3. QED
    BY <2>1, <2>2
<1>7. QED
  BY <1>2, <1>3, <1>4, <1>5, <1>6

\* The other steps of the daemon and its user keep it.
LEMMA ElsewhereInv ==
    ASSUME IInv, CInv, Elsewhere
    PROVE  CInv'
<1> USE LifecycleAssumption
    DEF CInv, Cleared, Undone, FileIsOwn, ProxiedInTime, ReadInTime, ProxyIsCurrent,
        RedirectsForService, ReloadApplies, files, workers, dns, user, history,
        config, store, Inc, NoPid, Listed
<1>1. inc \in Nat /\ proxied \subseteq Inc
  BY DEF IInv, TypeOK
<1>2. UNCHANGED <<file, loaded, stuck, policy, owner, seen>>
  BY DEF Elsewhere
<1>3. CASE Check
  BY <1>1, <1>2, <1>3 DEF Check
<1>4. CASE Refuse \/ ConfigureThrows
  BY <1>1, <1>2, <1>4 DEF Refuse, ConfigureThrows
<1>5. CASE Daemon
  <2>1. mpc = "daemon" /\ mpc' = "fork" /\ inc' = inc + 1 /\ UNCHANGED <<proxied, unwaited>>
    BY <1>5 DEF Daemon
  <2>2. Undone' /\ FileIsOwn' /\ ReadInTime' /\ ReloadApplies' /\ ProxyIsCurrent'
    BY <1>2, <2>1
  <2>3. ProxiedInTime'
    BY <1>1, <2>1
  <2>4. RedirectsForService'
    BY <1>2, <2>1
  <2>5. QED
    BY <2>2, <2>3, <2>4
<1>6. CASE Fork \/ SavePidfile \/ Abort \/ SetupMasterSignals
  BY <1>1, <1>2, <1>6 DEF Fork, SavePidfile, Abort, SetupMasterSignals
<1>7. CASE Post \/ EnterWait \/ Reap
  BY <1>1, <1>2, <1>7 DEF Post, EnterWait, Reap
<1>8. CASE RemovePidfile \/ Finish
  BY <1>1, <1>2, <1>8 DEF RemovePidfile, Finish
<1>9. CASE User
  <2>1. CASE KillMaster
    BY <1>1, <1>2, <2>1 DEF KillMaster
  <2>2. CASE Launch
    BY <1>1, <1>2, <2>2 DEF Launch, Final
  <2>3. ASSUME NEW sig \in {"TERM", "HUP"}, Signal(sig)
        PROVE  CInv'
    BY <1>1, <1>2, <2>3 DEF Signal, Final
  <2>4. QED
    BY <1>9, <2>1, <2>2, <2>3 DEF User
<1>10. ASSUME NEW i \in Inc, Worker(i)
       PROVE  CInv'
  <2>1. UNCHANGED noMaster
    BY <1>10 DEF Worker, WorkerStep, WorkerSignal, Updated, CrashWorker, Reload, InstallHandlers,
                 TakeSemaphore, BlockOnSemaphore, Timeout, CreateWorker, RunServers, DropPrivileges,
                 LeaveLoop, Sleep, WakeUp, StopServers
  <2>2. QED
    BY <1>1, <1>2, <2>1 DEF noMaster, master
<1>11. QED
  BY <1>3, <1>4, <1>5, <1>6, <1>7, <1>8, <1>9, <1>10 DEF Elsewhere

\* A change of the lists keeps it, and so does a step that changes nothing.
LEMMA ManageInv ==
    ASSUME CInv, Manage \/ UNCHANGED allVars
    PROVE  CInv'
<1> USE DEF CInv, Cleared, Undone, FileIsOwn, ProxiedInTime, ReadInTime, ProxyIsCurrent,
            RedirectsForService, ReloadApplies, vars, master, files, workers, dns, user, history,
            config, store
<1>1. CASE Manage
  BY <1>1 DEF Manage
<1>2. CASE UNCHANGED allVars
  BY <1>2 DEF allVars, Listed
<1>3. QED
  BY <1>1, <1>2

-----------------------------------------------------------------------------
\* The invariant of the composition holds in every reachable state.
THEOREM ConfigInvariant == ConfigSpec => []CInv
<1>1. IInv /\ CInv /\ [ConfigNext]_allVars => CInv'
  BY ConfigInv, ElsewhereInv, ManageInv DEF ConfigNext
<1>2. QED
  BY <1>1, ConfigInitInv, ComposedLifecycle, PTL DEF ConfigSpec

\* While a worker may serve, the proxy runs with what its own incarnation made.
THEOREM ProxyAlwaysCurrent == ConfigSpec => []ProxyIsCurrent
<1>1. CInv => ProxyIsCurrent
  BY DEF CInv
<1>2. QED
  BY <1>1, ConfigInvariant, PTL

\* A program that left its loop left no configuration, on disk or in the proxy,
\* but one that it could not unlink.
THEOREM NothingIsLeftRedirected == ConfigSpec => []StoppedRedirectsNothing
<1>1. CInv => StoppedRedirectsNothing
  BY DEF CInv, Cleared, Undone, StoppedRedirectsNothing
<1>2. QED
  BY <1>1, ConfigInvariant, PTL

\* Whatever is redirected is redirected for an incarnation that is served, or
\* whose master died, was interrupted, or could not unlink the configuration.
THEOREM RedirectsOnlyForService == ConfigSpec => []RedirectsForService
<1>1. CInv => RedirectsForService
  BY DEF CInv
<1>2. QED
  BY <1>1, ConfigInvariant, PTL

\* What was unlisted before a reload is not redirected after it, with clients
\* that change the lists at any time.
THEOREM ReloadIsApplied == ConfigSpec => []ReloadApplies
<1>1. CInv => ReloadApplies
  BY DEF CInv
<1>2. QED
  BY <1>1, ConfigInvariant, PTL

=============================================================================
