---------------------------- MODULE ProxyConfig -----------------------------
(***************************************************************************)
(* What the system's DNS proxy redirects.  The master generates a          *)
(* configuration from the lists of the database before it forks            *)
(* (Service::configure, dnsproxy/unbound.cxx, dnsproxy/dnsmasq.cxx),       *)
(* restarts the proxy with it, and removes it and restarts the proxy when  *)
(* the worker is gone (service/unix.cxx).                                  *)
(*                                                                         *)
(* This composes ServiceLifecycle, whose steps carry the configuration     *)
(* along, with BlockPolicy, which DomainStore implements: clients change   *)
(* the lists between any two steps of the daemon.  It is about the proxy   *)
(* of the system with dns_proxy_generate_config set.                       *)
(***************************************************************************)
EXTENDS ServiceLifecycle

CONSTANTS Domain, ListName, CUSTOM, WHITELIST

ASSUME ProxyAssumption ==
    /\ SystemProxy
    /\ {CUSTOM, WHITELIST} \subseteq ListName
    /\ CUSTOM # WHITELIST

VARIABLES
    policy,     \* the lists, see BlockPolicy
    owner,      \* the list of each domain
    file,       \* the generated configuration
    loaded,     \* the configuration that the running proxy was started with
    seen,       \* history: domains listed at some time since this incarnation began
    stuck       \* history: incarnations that could not unlink their configuration

store == <<policy, owner>>
config == <<file, loaded, stuck>>
allVars == <<vars, store, config, seen>>

Store == INSTANCE BlockPolicy

-----------------------------------------------------------------------------
\* No configuration; one is the domains it redirects and the incarnation that made it.
NoFile == [by |-> NoPid, names |-> {}]

\* get_domains: the domains on active lists.
Listed == {d \in DOMAIN owner : policy[owner[d]].active}

\* What DomainManager::get returns.  An error of the database is logged there, and
\* what was read before it is all there is.
Returned == SUBSET Listed

\* What create_config writes, of either proxy.
Written(names) == [by |-> inc + 1, names |-> names]

ConfigInit ==
    /\ Init
    /\ Store!Init
    /\ file = NoFile
    /\ loaded = NoFile
    /\ seen = {}
    /\ stuck = {}

\* The loop goes round with what the lists are now.
Begin ==
    /\ NewService
    /\ seen' = Listed
    /\ UNCHANGED <<config, store>>

\* Mutant: a configuration that is there already is taken for current.
Generate_Once ==
    /\ Configure
    /\ IF file = NoFile
       THEN \E names \in Returned : file' = Written(names)
       ELSE file' = file
    /\ UNCHANGED <<loaded, stuck, store, seen>>

\* create_config writes what DomainManager::get returns, over what was there.
Generate ==
    /\ Configure
    /\ \E names \in Returned : file' = Written(names)
    /\ UNCHANGED <<loaded, stuck, store, seen>>

\* Mutant: a proxy that runs already is left alone.
Restart_UnlessRunning ==
    /\ StartProxy
    /\ loaded' = IF proxy THEN loaded ELSE file
    /\ UNCHANGED <<file, stuck, store, seen>>

\* run_rc("restart") starts the proxy, which reads the file.
Restart ==
    /\ StartProxy
    /\ loaded' = file
    /\ UNCHANGED <<file, stuck, store, seen>>

\* The restart fails or is not seen to succeed: the proxy is down, still as it
\* was, or up with the new configuration after all.
RestartFails ==
    /\ StartProxyThrows
    /\ \/ ~proxy' /\ loaded' = NoFile
       \/ proxy' /\ proxy /\ loaded' = loaded
       \/ proxy' /\ loaded' = file
    /\ UNCHANGED <<file, stuck, store, seen>>

\* Mutant: the proxy is restarted before the file is unlinked.
Undo_RestartFirst ==
    /\ StopProxy
    /\ loaded' = IF wasRunning THEN file ELSE NoFile
    /\ \/ /\ file' = NoFile
          /\ stuck' = stuck
       \/ /\ file' = file
          /\ stuck' = stuck \cup {inc}
    /\ UNCHANGED <<store, seen>>

\* stop_dns_proxy unlinks the file, then restarts the proxy or stops it.  That
\* the file cannot be unlinked is logged, and the restarted proxy reads it again.
Undo ==
    /\ StopProxy
    /\ \/ /\ file' = NoFile
          /\ stuck' = stuck
       \/ /\ file' = file
          /\ stuck' = stuck \cup {inc}
    /\ loaded' = IF wasRunning THEN file' ELSE NoFile
    /\ UNCHANGED <<store, seen>>

\* Every other step of the daemon and its user.
Elsewhere ==
    /\ \/ Check
       \/ Refuse
       \/ ConfigureThrows
       \/ Daemon
       \/ Fork
       \/ SavePidfile
       \/ Abort
       \/ SetupMasterSignals
       \/ Post
       \/ EnterWait
       \/ Reap
       \/ RemovePidfile
       \/ Finish
       \/ User
       \/ \E i \in Inc : Worker(i)
    /\ UNCHANGED <<config, store, seen>>

\* A client changes the lists, beside other clients.
Manage ==
    /\ Store!SharedNext
    /\ seen' = seen \cup Listed'
    /\ UNCHANGED <<vars, config>>

ConfigNext == Begin \/ Generate \/ Restart \/ RestartFails \/ Undo \/ Elsewhere \/ Manage

ConfigSpec == ConfigInit /\ [][ConfigNext]_allVars

-----------------------------------------------------------------------------
\* While a worker may serve, the proxy runs with the configuration that its own
\* incarnation made, not with one from before the reload (unix.cxx:117-179).
ProxyIsCurrent ==
    mpc \in {"post", "enter", "wait"} /\ inc \in proxied => proxy /\ loaded.by = inc

\* A program that ended through its loop has left no generated configuration,
\* on disk or in the proxy, but one that its own incarnation could not unlink
\* (unix.cxx:199-219).
StoppedRedirectsNothing ==
    mpc = "exited" => \A c \in {file, loaded} : c = NoFile \/ (c.by = inc /\ inc \in stuck)

\* The proxy redirects only for an incarnation that is being served, or one
\* whose master died, was interrupted, or could not unlink the configuration.
RedirectsForService ==
    loaded # NoFile =>
        \/ loaded.by = inc /\ mpc \in {"post", "enter", "wait", "stopproxy"}
        \/ loaded.by \in unwaited \cup stuck

\* A reload applies what was changed before it: a domain that was unlisted, or
\* whose list was disabled, before the loop went round is not redirected while
\* the new worker may serve (queries.hxx:20-26, service.cxx:28-33).
ReloadApplies ==
    mpc \in {"post", "enter", "wait"} /\ inc \in proxied => loaded.names \subseteq seen

\* options.cxx:267-269 offers --unblock as "Unblock domain(s)", and
\* test_domains.cxx:96 expects of a domain it unblocked that it is not blocked:
\* a generated configuration redirects no domain of a whitelist.
UnblockedIsNotRedirected ==
    [][file' # file => file'.names \cap Store!Exempt = {}]_allVars

=============================================================================
