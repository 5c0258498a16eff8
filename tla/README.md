# dbl-service in TLA+

`dbl` blocks domains.  A daemon keeps lists of domains in a sqlite database,
generates a configuration for the DNS proxy of the system (unbound or dnsmasq)
that redirects every listed domain to an HTTP responder of its own, and lets a
local protocol, a command line and an updater change the lists.

These modules model the parts of it whose steps interleave: the shared
database with its sessions, locks and transactions, the daemon's processes and
signals, the threads of the worker with its updater, the service port with its
clients, and the proxy configuration that ties database and daemon together.
Paths below are relative to `src/src/`.

## 1. Inventory

| Component | Code | State it keeps | Operations | Here |
|---|---|---|---|---|
| Domain store | `dbl/manager/domain_list_manager.cxx`, `domain_manager.cxx`, `dbl/db/` | tables `domain_lists`, `domains` | create, import, remove, enable, disable a list; block, unblock domains; seed | `DomainStore`, `BlockPolicy` |
| Management command line | `dbl/mgmt/` | none | unblock then block; add, delete, enable, disable, export | `DomainStore` |
| Main loop | `dbl/main.cxx` | `signaled_exit`, `service_ptr` | start, reload, exit | `ServiceLifecycle` |
| Master process | `dbl/service/unix.cxx`, `service.cxx` | `worker_pid_`, `system_proxy_was_running_`, pidfile, signal handlers | run, stop, process_master, start and stop the proxy | `ServiceLifecycle` |
| Worker process | `dbl/service/worker/` | `worker_ptr_`, `stop_flag_`, servers, threads | process_worker, run, stop, drop privileges | `ServiceLifecycle` (coarse), `WorkerLoop` |
| Semaphore | `dbl/ipc/ipc.hxx` | a count in shared memory | post, timed_wait | `ServiceLifecycle` |
| Proxy configuration | `dbl/dnsproxy/` | the generated file, what the proxy loaded | create_config, unlink | `ProxyConfig` |
| Server, connections | `dbl/service/server/` | buffers, auth decision of a connection | 16 commands | `ServiceProtocol`; its threads in `WorkerLoop` |
| Auth, settings | `dbl/auth/`, `dbl/manager/settings_manager.cxx` | table `settings` | set, remove, check | `ServiceProtocol` |
| Updater | `dbl/updater/`, `dbl/net/http/` | `is_updated_` | fetch, compare dates, import | `Updater` |
| Session pool | `dbl/db/db.cxx` | 5 sessions with their transactions and locks | take, begin, execute, fetch, commit, return | `SessionPool`, `Transactions` |
| Client library | `dblclient/` | socket, deadline, the token it was given | every method of `Session` | `ServiceProtocol` |
| HTTP responder, configurator, query, options, logger, templates, validator | | | | not modelled: no state that later steps depend on, or pure input and output |

How they meet.  The command line, the threads of the service's connections and
the updater thread all write to the database, and the master reads it when the
loop of `main` goes round.  Master and worker share a semaphore, the process
table and signals.  The master and the proxy share the generated file; the
workers of successive incarnations share the service port; launches share the
pidfile.  Client and connection share two streams of bytes, and nothing that
says which answer belongs to which request.  The threads of a process share its
pool of sessions, and all sessions the locks of one file.

What is hard.  Signals arrive between any two steps, interrupt `waitpid`, and
are inherited over `fork`; processes die; the semaphore wait has a timeout;
statements raise and nothing rolls back; operations consist of several
transactions; a client gives up while its request is under way; and every one
of these is rarely met in a test.  `PROJECT.json` lists these as hazards, each at
its line.

What makes each part correct:

- store: no domain points at a list that is gone; blocking never loses a domain
  or takes one off a whitelist; one client sees each operation happen as a
  whole or as its documented parts;
- daemon: nothing is served before the proxy is up; the port, the pidfile and
  the proxy end as they should on every path; workers do not outlive masters;
  no restart after a failure; nobody waits for ever;
- worker: a stop is heard wherever it comes; no thread outlives its server;
- updater: no publication is missed for an import that failed or a stale date;
- sessions: an operation is all or nothing although an abandoned transaction
  stays open in the pool; nobody waits for a session or a lock; the rows of a
  query are one state of the tables;
- protocol: an answer is that to the caller's own request, success means done
  where the code looks at the result, a call that was given up is not carried
  out on the connection its client goes on with;
- proxy: what is redirected is what was listed when the current incarnation
  started, and nothing once the service has ended, unless the generated file
  cannot be unlinked.

## 2. Modules

| Module | What it is |
|---|---|
| `BlockPolicy` | the abstract promise of the managers: named lists, each domain on at most one, atomic operations |
| `BlockPolicyProofs` | theorems about what the promise is worth |
| `DomainStore` | the tables and every operation on them, one step per transaction |
| `DomainStoreProofs` | its theorems |
| `ServiceLifecycle` | main loop, master, workers, user |
| `ServiceLifecycleProofs` | its theorems |
| `ProxyConfig` | `ServiceLifecycle` composed with `BlockPolicy` and the generated configuration |
| `ProxyConfigProofs` | its theorems |
| `Updater` | the lists, what servers publish, and the updater between them |
| `WorkerLoop` | a worker's main thread, server threads, signal handler and stop flag, with `Updater` inside |
| `WorkerLoopProofs` | theorems about both |
| `Transactions` | the abstract promise of the sessions: an operation writes all of its rows at once or none |
| `TransactionsProofs` | theorems about what the promise is worth |
| `SessionPool` | the pool of each process, open transactions, sqlite's locks, and the threads that run operations on them |
| `SessionPoolProofs` | its theorems |
| `ServiceProtocol` | client library, connections, commands, password |
| `ServiceProtocolProofs` | its theorems |
| `MC*` | instances for TLC |

The layers: `SessionPool` implements `Transactions`, for any number of
processes and threads that fit their pool, which is what lets `DomainStore`
take one transaction for one step.  `DomainStore` implements `BlockPolicy` for
one client at a time.  For many clients it implements `SharedSpec` of the same
module, in which a block or an import may land in any list that there is
(`BlockInto`, `Import`): a second client can remove a list and have another take
its id between the look-up and the write, and nothing worse comes of it.  Both
refinements are checked and proved.  `ProxyConfig` extends `ServiceLifecycle`,
conjoins every step with what it does to the configuration, and adds the steps
of `SharedNext` as those of many clients.  `ConfigSpec => Spec` is proved, so
everything proved of the daemon holds in the composition, and
`ConfigSpec => SharedSpec`, so what is proved of the policy does too.  `WorkerLoop` is the inside of the states `binding`
to `stopping` of one worker of `ServiceLifecycle`; that it does nothing which
that worker may not do is checked and proved (`StepsAreLifecycle`).

Definitions named `X_Something` above a definition `X` are mutated forms of it,
marked "Mutant": `PROJECT.json` pairs each with the property that catches it.

### DomainStore

`lists` maps row ids to rows, `domains` maps names to `list_id`, and `op` says
what each client is in the middle of.  A client that works through the command
line first opens the database (`OpenDb`, which seeds an empty one); one inside
the service does not.  `DomainListManager::create` is `CreateList`, its
transaction, and `LookupId`, the `get` in another session after the commit; a
block or an import then writes with the id that was looked up (`PutBlock`,
`PutImport`).  Ids come back: the column is an `INTEGER PRIMARY KEY` without
`AUTOINCREMENT`, so the next id is the largest plus one.  `Raise` is any
statement that fails, `Crash` the end of a client's process between two steps.
The guard `References` is the foreign key, and `RemoveList` its cascade.

Of a row the model keeps name, `active`, whether it is a whitelist (`custom`
and the url decide nothing here) and whether `mtime` was set.  What a client is
answered is left out: no later step of the store depends on it.

### ServiceLifecycle

`mpc` is where the master is; each value is the place before one call in
`Unix::run`, `process_master` or `main`.  A turn of the loop is an incarnation:
`daemon()` gives it a master with a new pid and `fork()` a worker, so its number
`inc` stands for both.  `worker[i]` goes

    born/reborn -> armed -> waiting -> starting -> binding -> serving -> updating
    updating <-> sleeping, updating -> stopping -> exit

or ends as `fail` (`_exit(1)`), `term` (killed by SIGTERM) or `crash`.
`updating` is the loop of `Worker::run` up to its test of `stop_flag_`, the
updater's transfers included; `sleeping` is its wait.
`reborn` is a worker forked by a master that already had its handlers, from a
reload: it runs them until it installs its own.  Then a SIGTERM is not handled
but passed on, to what the process has in `worker_pid_`: `inherited[i]`, which is
what the master had there before the fork, the worker of the service before or
nothing.  Signals to the worker are in
`pending` until `WorkerSignal` delivers them; signals to the master are handled
at once by `Signal`, which has the three outcomes of the code: default action,
null `service_ptr`, handler.  A handler interrupts `waitpid` only when the
master is in it (`"wait"`), not between its steps.  `wpid` is `worker_pid_`,
which has no initializer: a new `Service` holds the old value or none.  The
timeout of `timed_wait` may fire even after a post, since the semaphore is
memory that was never constructed and a post need not wake the waiter.

`told`, `unwaited`, `proxied`, `failed`, `proxyAtLaunch` are history.

### ProxyConfig

`file` is the generated configuration and `loaded` what the running proxy was
started with; both are a set of domains and the incarnation that made it.
`Generate` writes what the database returned, and any part of it is possible
because an error while rows are fetched is only logged
(`manager/domain_manager.cxx:60`).  `Restart` loads the file, `Undo` unlinks it
before the proxy is restarted or stopped.  The unlink may fail, which the code
logs and ignores: the file stays, and a proxy that is restarted reads it again.
`seen` and `stuck` are history: what was listed at some time since this
incarnation began, and the incarnations that could not unlink their file.  The
properties except an incarnation that is stuck, and nothing that comes after it.

This module is about the system's proxy with `dns_proxy_generate_config` set.

### Updater

`web` is what each list's server publishes, a version and its Last-Modified,
`stored` what was last imported and `mtime`.  A run takes a `Snapshot` of the
`mtime`s (`mgr.get()`); for each list it fetches once for the date (`Look`), a
second time for the body (`Fetch`), and imports (`Import`); any of these may
fail.  A body that does not parse is imported as no domains (`Nothing`), as the
code does.  `Skew` is by how much a date may be read too early: the code takes a
GMT date for local time, with `tm_isdst` uninitialized, so a `Skew` of `{0}` is a
host that keeps UTC.  A date that is misread as 0 is no date to the code
(`PassOver`).  `fetched` is history: when what is stored was fetched, and when its
import ended.

### WorkerLoop

`at` is where the main thread is, `thread[s]` what the thread of server `s` does:
server 1 is the service, server 2 the HTTP responder if it is enabled.
`signal_stop` is two steps, the flag and the notification, whether a connection
(`Reload`, `ReloadNotifies`) or the signal handler (`Deliver`,
`HandlerNotifies`) calls it; the notification wakes the main thread only in
`"wait"`.  The main thread tests the flag (`Test`), takes the mutex and sleeps
(`Sleep`) in two steps, since the other side takes no mutex.  `Halt`, `Join` and
`Reset` are `stop_servers`.  After `"exit"` the next worker starts with the
database as it is (`NextWorker`).

### SessionPool

A session is open in a transaction or not, has one of sqlite's locks, and has
written some rows that are not committed (`dirty`).  `Lease` takes the first
free session of the process, as soci's pool does; `Begin`, `Work` (one
`execute` per row), `Select`, `Fetched` (the last row), `Commit` and `Return`
are the life of an operation.  `kind` is what the managers have of it: a
transaction that writes, one that counts, a query without a transaction.

Managers catch what a statement raises and leave the scope.  Nothing rolls
back, so `BeginRaises`, `Busy` and `Fails` give the session back as it is:
open, locked, with rows of an operation that was answered long ago.  `Busy` is
a lock that another session has; no busy timeout is set, so it is met at once.
A commit that must wait for readers leaves its lock "pending", which stands for
"exclusive" also, and shuts readers out.  `Die` is the end of a process.  The
command line is one more process with a pool and one thread.

`soci` and `sqlite` are modelled from how `db.cxx` and the managers use them and
marked external.

### ServiceProtocol

`up[k]` and `down[k]` are the bytes under way on connection `k`, in units of
requests and answers.  The server takes what one read returns for one request:
`ReadWhole` handles the first and drops what came with it, `ReadPart` meets a
long request in two pieces and answers each with an error.  The client takes
the first answer up to an end marker (`Take`), and drops what came behind it in
the same read.  Requests carry no number in the code; here they have one for
each connection, which only the properties look at.

`srv[k]` is the server's end, `authed[k]` its `is_authenticated_`, decided at
`Accept` and by the command `auth`; a read of the setting that fails finds no
password.  `Execute` is a call of `Session`; `auth` and `set_service_password`
first fetch a token (`ReceiveToken`).  `Dispatch` has one operator per kind of
command: `Manage` stands for all that write lists or domains, `Fetch` for all
that read.  `Damaged` is a long answer, of which the code writes the rest from a
string that is gone.  `Reload` closes the connection and signals the worker,
unless the peer has reset it, for then the shutdown throws first.

The client's deadline (`Timeout`) closes the socket.  The read that it ends has
taken nothing, and the code takes the 2 bytes of the end marker off that length
all the same (`dblclient/net/service_connection.cxx:115-120`): the client is
either without a connection afterwards, or dead.

`told` is what the last call returned.  `done`, `unchecked` and `astray` are
history: the requests that changed or checked what they are to, those to `auth`
that were let in unfit because the setting could not be read, and the
connections on which a request was read in parts, a reload refused, or an
answer damaged.

## 3. Runs

| Run | Instance | Shows |
|---|---|---|
| `store` | two clients, one domain, 3 list names, 3 ids | types, `ReferentialIntegrity`, `WhitelistOnlySeeded`, `WhitelistKept`, `NoDomainLost`, `ImplementsSharedPolicy` |
| `store_seq` | one client, two domains, 4 ids, fatal warnings | the store implements `BlockPolicy` |
| `lifecycle` | 2 incarnations; 2 signals, or 1 and a second launch | types, `NoServiceBeforeProxy`, `OrphanOnlyUnwaited`, `SignalsOwnOrOrphan`, `NoRestartAfterFailure`, `WaitEnds`, `StopEndsWorker`, `FailureEndsMaster`, `EndIsNoticed` |
| `lifecycle_stopped` | 2 incarnations, 1 signal | **violated**: "Stopped." means stopped |
| `lifecycle_lost` | 1 incarnation, 1 signal | **violated**: "Shutting down." leads to the end |
| `proxy` | 2 incarnations, 1 signal, 2 launches, 1 domain | `ProxyIsCurrent`, `StoppedRedirectsNothing`, `RedirectsForService`, `ReloadApplies`, `PidfileFollowsMaster`, `ProxyRestored` |
| `proxy_unblocked` | 1 incarnation | **violated**: an unblocked domain is not redirected |
| `worker` | 2 servers, 1 list, 2 publications, 2 times, 1 signal, 2 workers | types, `NoThreadInDeletedServer`, `NothingOldIsMissed`, `StopReachesEnd`, `StepsAreLifecycle` |
| `worker_prompt` | 1 server, 1 signal | **violated**: a worker with its stop flag set does not go to sleep |
| `worker_zone` | 1 server, dates read 1 too early | **violated**: what was published after the last import is fetched |
| `pool` | 1 process with 2 threads and 2 sessions, 2 rows, 3 operations that write | types, `NobodyWaits`, `QueryIsStable`, `OperationEnds`, `ImplementsTransactions` |
| `protocol` | 2 clients, 2 passwords, 2 connections, 2 requests on each | types, `AnswerIsOwn`, `ToldOkIsDone`, `EffectIsAwaited`, `EffectsInOrder`, `ReloadIsHeard` |

Why the bounds are enough.  Two clients suffice for every race of the store,
each of which is one stale id or one row against one other writer; three ids
let a list be removed and another take its id.  Two incarnations give a reload,
where a worker is born with inherited handlers while an orphan of the first
still has the port; two signals give one that orphans a worker and one that
hits the gap after it; a second launch meets the pidfile, the port and the
proxy that a dead master left.  The proofs remove these bounds for the safety
properties, so a reload of a reload, and more signals over more launches, are
theirs.

In `lifecycle` the two signals and the second launch are not combined
(`FewUserSteps` in the MC module); the user has to do neither, so the fairness
is that of the daemon alone.  A worker runs for ever unless it is told to stop,
so a service that goes on is allowed; what is checked is that whatever was told
to stop stops.

`pool` has two threads because the service has two that use the database, the
one of the connections and the updater's.  Two sessions rather than five: the
lowest free one is taken, so with two threads the others are never used.  Two
rows tell a whole operation from half of one; three operations are one that is
abandoned, one that meets what it left, and one beside it.

`protocol` has two clients for a password that one sets while the other is
connected, two connections for a client that gives up and connects again, and
two requests on each for a token and what is done with it, or a late answer and
the request after it.

`worker` needs two servers for one that stops while the other is in a handler, a
second worker for an import that the first left behind, and two publications and
times for a date that is new, equal or misread.  The lists of the updater do not
interact, so one is enough; the proof is for any number.

`proxy` lets the lists change only where the daemon is about to read them
(`ManageWhenRead`, in the next-state relation `MCNext`): changes at other times can as well happen there, since the
daemon reads the lists nowhere else.  And the lists themselves stay
(`ListsStay`): all that is read of them is which domains are on an active one,
and blocking and disabling make every such set.  The theorems about
`ProxyConfig` do without these reductions.

Deadlock is not checked in the runs of the daemon: it ends when the master is
in one of its final places and the bounds are used up, or, in `worker`, when no
worker is left.  Nor is it in `pool` and `protocol`, where everyone is at rest
once the operations, connections and requests are used up, or the clients are
dead; that no thread stops before that is what `OperationEnds` says.  A call need
not return: nothing says when the network delivers, and the deadline may be the
death of its client.

### Fairness

Weak fairness of the master, of each worker's own steps (`WorkerStep`) and of the
delivery of each worker's signal: processes that can run do, and the kernel
delivers signals.  That includes the timeout of the semaphore and the end of
the wait in `Worker::run`, which a clock drives.  Nothing is assumed of the user,
of clients that ask for a reload, of crashes, or of the updater: the steps out
of `updating` (`LeaveLoop`, `Updated`, `Sleep`) are not fair, because curl is given
no timeout (`net/http/request.cxx:63-83`).  So `StopEndsWorker` and
`ShuttingDownEnds` except a worker that stays in `updating` for ever
(`UpdaterHangs`).  `Master` is fair as a whole: which of its alternatives
happens (start or throw, refuse or go on) is not.

`WorkerLoop` is fair to the main thread, to each server thread once it is in a
handler or has to leave, to the end of the interval, and to the delivery of a
signal and the rest of its handler.  Requests of the updater are not, for the
same reason, and `StopReachesEnd` excepts the behaviours in which one is never
answered.

`SessionPool` is fair to each thread as a whole: it goes on with its operation,
or meets a lock.  Failures, deaths and new operations are not fair.
`ServiceProtocol` is fair to the server's event loop, which accepts and reads
what is ready, and to nothing else: an answer need never arrive, and the client
may die of its deadline.

## 4. Findings

1. `lifecycle_stopped`: the handlers are installed without `SA_RESTART`, so
   SIGTERM or SIGHUP makes `waitpid` fail; the master takes that for the end of
   the worker, tears down the proxy and the pidfile and logs "Stopped." while
   the worker serves on.
2. `lifecycle_lost`: SIGTERM that reaches the worker before `worker_ptr_` is
   set is logged as a shutdown and lost.
3. `proxy_unblocked`: the generated configuration contains every domain on an
   active list, the whitelist among them, so a domain that was unblocked is
   redirected.
4. `worker_prompt`: a stop that is notified between the test of `stop_flag_` and
   `wait_for` is not seen until the interval ends, an hour at the least; the
   test harness gives a service 10 s.
5. `worker_zone`: `Last-Modified` is read as local time and compared with an
   `mtime` in UTC; east of Greenwich what was published within the offset after
   an import is not fetched, at this or any later interval.

Also met, and stated here only:

- `dbl -U d -B d` unblocks first; the whitelist row then shields `d` from the
  block, while `mgmt.cxx:77-79` announces that it will be blocked.
- A body that does not parse, an error page for instance, is imported as a list
  without domains and stamps `mtime` (`updater.cxx:69`), so the list is taken
  for current; a server that sends no Last-Modified makes the service reload
  without pause (`updater.cxx:64`).
- `configurator/unix.cxx:76-86` throws after its `ioctl` in either case.
- With a DNS proxy of its own the service stops the system's proxy at its end
  and never its own (`unix.cxx:180-219`).
- A pidfile left by a killed master refuses the next start when its pid is some
  other process by then (`unix.cxx:44`).
- One statement that fails between begin and commit leaves the lowest session
  of the pool with a transaction that nothing ends: each later transaction on it
  fails at begin, queries through it see rows that were never committed, and its
  lock makes writers elsewhere fail, until the worker is started again
  (`db.cxx:61-65`).  Sessions 3 to 5 are not used with two threads.
- The results of block, unblock, import and `remove_service_password` are
  dropped: the client is told success (`service_connection.cxx:181`).  This is
  why `ToldOkIsDone` speaks of `auth` and `set_service_password` only.
- An `auth` at which the setting cannot be read finds no password and lets its
  client in (`auth.cxx:21-35`); `ToldOkIsDone` counts it as `unchecked`.
- A client whose deadline passes takes 2 off a length of 0
  (`dblclient/net/service_connection.cxx:115-120`).
- A generated configuration that cannot be unlinked stays, and the proxy is
  restarted with it (`unix.cxx:205-218`).
- The answer to a reload that was refused is taken for that to the next call
  (`session.cxx:207`); a request that is read in two parts is answered twice
  (`connection.cxx:26-52`); of an answer longer than the socket takes at once
  the rest is written from freed memory (`connection.cxx:66-79`); a list that
  cannot be read is dereferenced (`service_connection.cxx:263`).  The first
  three are what `astray` stands for.

## 5. Proofs

All of them hold for every value of the constants, under the assumptions the
modules name: `StoreAssumption`, `LifecycleAssumption`, `ProxyAssumption`,
`UpdaterAssumption`, `WorkerAssumption`, `PoolAssumption` and
`ProtocolAssumption` (the seeded lists exist and differ, bounds are naturals,
flags are Booleans, no process has more threads than sessions, an operation has
finitely many rows, and, for the configuration, the system's proxy is used).

`DomainStoreProofs`.  `StoreInvariant` is `TypeOK`, `ReferentialIntegrity`,
`UniqueNames` and `WhitelistNamed`; the integrity is what makes
`lists[domains[d]]` defined in every query, and unique names are what makes "the
list named n" one list.  Integrity survives stale ids because
the foreign key is tested in the step that writes, and survives removal because
of the cascade.  `WhitelistOnlySeeded`, `WhitelistKept` and `NoDomainLost`
follow step by step under the invariant.  `StoreImplementsPolicy` is the
refinement, for one client and any domains, lists and ids.  It needs `Holding`,
that an id that was looked up still is that of the list that was asked for,
which is just what a second client breaks; with it each step is matched to the
step of `BlockPolicy` that bears its name, or to a stutter.
`StoreImplementsSharedPolicy` is for any number of clients and does without
`Holding`: a write through a stale id is matched to `BlockInto` or `Import` of
the list that has the id now.

`BlockPolicyProofs`.  `PolicySound` and `ExemptionIsKept` are about `SharedSpec`,
and carry over to all that implements it.

`ServiceLifecycleProofs`.  No property is inductive alone.  `IInv` adds
- `Numbered`: numbers above `inc` are unused; `wpid = inc` while there is a
  worker to wait for, which gives meaning to every signal and wait; and what an
  older service left in `wpid` is there only until the fork gives it a value, or
  in a master that aborted before; nobody knows the pid of such a master yet, or
  it has ended, so no handler reads it;
- `Inherited`: what a worker has in its own `worker_pid_` is the number before
  its own, or nothing;
- `PortIsServed`: the port is held by exactly the worker whose servers are open;
- `Gated`: the semaphore is 0 until the master posts it once, after the proxy
  was started, so who passed it may serve;
- `Left`: a worker without a waiting master belongs to `unwaited`;
- `Failure`: a failure implies `signaled`, and the loop goes on only without;
- `Pidfile`: the file is gone before the loop is tested again, unless the
  program has just been launched;
- `Restoring`: the proxy before `start_dns_proxy`, and the note of it after,
  are what the launch found; only the stop brings one back to the other.

`SignalsStayHome` follows from the part of `Numbered` about `wpid`, so a master
signals the worker of its own incarnation only, from `Inherited`, so a reborn
worker signals the one before it only, and from `Left`, so that one is an orphan
if it lives.  `OnlyOrphansContend` is `PortIsServed` and `Left` together: of two
workers that are alive and want the port, the older is an orphan.

`LifecycleInvariant` has one lemma for the master, one for the user and one for
the workers, one step per action.

`ProxyConfigProofs`.  `ComposedLifecycle` shows that each step of the
composition is a step or a stutter of the daemon.  `CInv` relates the
configuration to the master's place: `FileIsOwn` (the file being started was
made by this incarnation), `ProxiedInTime` (so a failed restart is never taken
for a good one), `ReadInTime` (what was read lies within `seen`), `Undone`
(nothing is left after the stop but what the incarnation was stuck with, and in
the gap between two services a signal can only be the end of the program).  `ComposedPromises` takes what was proved
of the daemon over to the composition, and `ComposedStore` what was proved of
the policy.

`WorkerLoopProofs`.  `UInv` says what `mtime` is worth: `StoredCovers`, that what
is stored of a list is what is published or was fetched before that was
published; `BodyCovers`, the same of what the updater is about to import;
`InThePast`, that every `mtime`, and every snapshot of one, lies behind us.  With
these `OldIsNotMissed` follows from the test in `PassOver`.  It says of a list that
is passed over that its date, as misread, is not after the end of its last
import, and, of an import of a publication, that the fetch came before what is
published now.  So a publication is missed between a fetch and the end of its
import, within what the date is misread by, and behind an import by a client or
of a body that does not parse; the theorem leaves all of that open.  They hold over the
steps of the worker because no step but the updater's touches its variables
(`StepOfUpdater`).  `WInv` needs only that a server is bound while one is left.
`WorkerImplementsLifecycle` is a simulation, step by step: most map to a stutter.

`SessionPoolProofs`.  `IInv` adds to the types
- `Accounted`: a session that is in no pool is with exactly one thread, so the
  threads of a process that have none are as many as its free sessions at least
  (`NobodyEverWaits` counts them);
- `ThreadOK`: where a thread is says whether it has a session and what its
  operation still has to write; between begin and commit the session it has is
  in a transaction, whose uncommitted rows are those of its operation, as far as
  it came, and no others; a thread that fetches has a lock;
- `RowsOK`: only a session in a transaction, with a lock to write, has
  uncommitted rows, also when no thread has it any more.
No commit falls between two rows of a query (`QueriesAreStable`), for who
commits rows is alone with its lock and who fetches has one.  In
`PoolImplementsTransactions` a commit is `Perform` of just its own operation,
and every other step is `Ask`, `Answer`, `Cut` or a stutter.  A transaction that
was left open is never committed because `begin` fails on it.

`OperationsShorten` is the half of
`OperationEnds` that is safety: `Left(t)`, the steps a thread has still to do,
shrinks with each of its own and grows with nobody's.  With the weak fairness of
each thread the operation ends; that last conclusion needs ENABLED and stays
with TLC.  `FailureLeavesNothing` takes the theorems of `TransactionsProofs`
(`DoneIsSeen`, `FailedIsOut`) through the refinement.

`ServiceProtocolProofs`.  `IInv` adds
- `Owned`: two clients have different connections, and who has none waits for
  nothing;
- `Accepted`: nobody was answered on a connection before it was accepted;
- `InStep`: on a connection that is not astray and whose client is there, the
  requests under way are reloads, which nobody answers, and behind them at most
  the one the client waits for; an answer under way is the one it waits for,
  alone, and says only what was done.
`InStep` says what the missing numbers would: it is kept because a client that
gives up closes the socket (`Timeout`), and lost on the three paths of
`astray`.  `AnswersAreOwn` and `SuccessIsTrue` are part of `IInv`; the second says
of an `auth` that the password fits, or that it is `unchecked`, so the success of
one whose setting was not read is told apart from one that was compared.
`EffectsAreAwaited` follows from it step by step.

`EffectsKeepOrder` has an invariant of its own, `Numbered`: along a connection
numbers increase, above all that took effect and up to what its client has sent.
It does not except the connections that are astray.

Only model-checked: all liveness, and the five violations.  Liveness and
ENABLED are beyond the prover.  Only proved, and stated by no run:
`PortFreeForNext`, `OperationShortens`, `PolicyOK` and `ExemptionKept` of
`BlockPolicy`, `OwnRowsWhenDone` and `FailedStaysOut` of `Transactions`; the last
four are about abstract modules, which a run meets through the refinements.

## 6. Assumptions and what is not modelled

- The rc scripts do what `stop_dns_proxy` asks of them; it ignores their result.
- No two launches run at the same time, and nothing else uses the port unless
  `RunServers` fails for "a reason of its own".
- A segment of shared memory that a killed master left has a count of 0.
- A published list names itself: `init_from_json` would take another name from
  its body.  An import only adds domains, so a list is as old as its last import.
- A server's clock is not behind ours.
- A signal handler that takes a lock of the logger or of the condition variable
  which its own thread holds is not modelled.
- `Crash` and `CrashWorker` stand for every way a process can die.
- The foreground mode (`-f`), the test mode and the hosts of `configure_interface`
  are left out; `ConfigureThrows` covers whatever throws there.
- `DB::init` runs its own transaction on a session of the pool (`db.cxx:35`)
  before there is a thread to share it with; it is a step of `DomainStore` and not
  in `SessionPool`.
- The sqlite connections that the master opened before a fork are open in the
  worker also; they hold no lock at that time and are not used there.
- Running out of descriptors, and an `accept` whose peer has been reset already,
  are left out.
- Table `stats`, list urls and descriptions.
- HTTP responder, configurator, query command line, options, logger, templates,
  validator: they keep no state that a later step depends on, or are pure input
  and output.

## 7. Plan

1. Done: `BlockPolicy`, `DomainStore`, `ServiceLifecycle`, `ProxyConfig`, `Updater`,
   `WorkerLoop`, `Transactions`, `SessionPool` and `ServiceProtocol`, with runs and
   safety proofs, and the proofs of the refinements `ImplementsPolicy`,
   `ImplementsSharedPolicy`, `StepsAreLifecycle` and `ImplementsTransactions`.
   Every safety property of a passing run is a theorem.
2. To prove next: the safety half of `WaitEnds`, as `OperationsShorten` is that of
   `OperationEnds`; and of `StopReachesEnd`, that a stop flag once set stays set
   until the worker has left.
3. Left: two launches that race for the pidfile, the port and the proxy; the
   reload without pause that a missing Last-Modified causes; the service's own
   DNS proxy.
