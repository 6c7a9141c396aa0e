# A formal model of AURa

AURa is a virtual operating system written in Python: one process in which
threads play the parts of a CPU, a cloud, kernel services, a network and the
three layers ROOT, AURA and HOME. This directory holds TLA+ models of its
components, translated from the code in `aura/`, the TLC configurations that
check them on small instances, and proofs, checked by TLAPS, of the properties
that matter most. Paths and line numbers refer to `aura/` at the modelled
commit.

Contents: 1 the system; 2 the models and how they correspond to the code;
3 what each run checks; 4 bounds, fairness and symmetry; 5 what is proved and
how; 6 what the checks brought to light; 7 what is not modelled; 8 the order of
the work and what remains.

## 1. The system

`AIOS.start` (`os_core/ai_os.py` 521-825) creates every component in one
process; components call each other directly or through the process-wide
`EVENT_BUS` (`utils/__init__.py`), whose `publish` calls the subscribers in the
publishing thread. State is in memory, but for the SQLite store, the assistant's
state file, the audit file and the id of the node; locks are per component, and
no lock is held over a call into another component except by the cloud
(`remove_node` and `delete_volume` publish under it).

| component | state it keeps | operations | what is hard | what makes it correct |
|---|---|---|---|---|
| VirtualCPU `cpu/virtual_cpu.py` | task registry, priority queue, worker threads, counters, order of completion | `start`, `stop`, `submit`, `cancel`, the worker loop, eviction | threads against callers; unlocked look at the status; stop and restart with left-over poison pills; heap comparisons that raise | each task at most once, early cancels honoured, exact counters, bounded history, queued tasks are taken, workers end |
| VirtualCloud `cloud/virtual_cloud.py` | nodes, used vCPUs, task-to-node map, volumes, models | handlers of CPU events, add and remove nodes, volumes, models | events of one task in either order; nodes that go while tasks are booked; saturating arithmetic | usage explained by bookings, released when the task ends; listed volumes exist |
| Build pipeline `build/pipeline.py` | runs, stages, artefacts | `run` and its five stages | operators decide while the run looks; stages that raise; a full gate | deployed only if approved, no run left RUNNING |
| Approval gate `root/approval.py` | requests, tokens, `auto_approve` | `request`, `approve`, `reject`, `get`, `list_requests`, `verify_deploy_token` | lazily applied ttl, limit of pending requests | one final verdict, token exactly when approved |
| Cron `kernel/cron.py` | jobs, run flag, thread | add, remove, enable, disable, `start`, `stop`, the loop | a join that times out, two stops, a start during a stop, jobs that raise or change | one loop, exact run counts, due jobs fire |
| Service manager `kernel/service_manager.py` | record of each service | register, start, stop, restart, automatic restart | callables run outside the lock; recursion | the state shown is the truth; calls return |
| Process manager, IPC `kernel/process_manager.py`, `ipc.py` | processes, channels | spawn, kill; send, receive, clear | kill against the end of the thread; a drain while others send | a killed process stays killed; nothing lost or overtaken |
| System log, secrets `kernel/syslog.py`, `secrets_manager.py` | ring of entries; key-value table | log, query; set, get, delete | the ring at its limit | the log is a suffix of what was logged |
| DHCP and NAT `network/dhcp.py`, `nat.py` | leases; port mappings, port counter | request, release, expiry; `snat`, `dnat`, `flush` | lazy expiry, exhausted pool, counter that wraps, addresses that move | unique addresses, replies reach the sender |
| Firewall, DNS `network/firewall.py`, `dns.py` | rules; records | add, remove, evaluate; add, override, resolve | first match in priority order, ties, namesakes; suffixes and upstream | deny by default, order independent of insertion; an override holds |
| ROOT `root/policy.py`, `sovereign.py` | rules, HOME mount, audit ring | `evaluate`, `gate`, `mount_home`, `start`, `stop` | rule order, removal of namesakes, a full ring | a removed rule decides nothing; the ring tells the mount state |
| HOME `home/userland.py`, `filesystem.py` | packages, processes, file tree | install, clone, spawn, kill, start, stop | stop unmounts outside the lock; git runs outside it | offline means stopped; a restart replaces nothing |
| Boot `boot/bootloader.py`, `aura_init.py` | stage, services | boot, halt; start all, restart | restarts by other threads during boot and halt, a budget read without the lock | after halt all is down; boot ends |
| AI OS, entry point `os_core/ai_os.py`, `main.py` | run flag, references to all parts | start, stop, signal handlers | a handler that calls stop in the middle of stop | all is down at the end; ROOT last |
| Hardware `hardware/` | device table, RAM blocks, disks, pairings | allocate, free, mount, pair, ... | limits, alarms, volumes of one name | no sum beyond the limit, data kept, only paired devices connect |
| Identity `identity/` | tokens, sessions | issue, verify, revoke; create, get, invalidate | flags read after the lock was released | a dead token never verifies |
| vNode `vnode/` | identity file, registration, heartbeat thread, inboxes | start, stop, beat, register, send | restart within a tick, unreachable command center, files half-written | one loop, shown as registered when it is, id kept |
| Scheduler, resources `scheduler/`, `resources/` | records, quotas, RAM slots, ledger | submit, cancel | chains over several locks; two cancels of one task | what is booked is released once |
| Lanes, worker pool `scheduler/queue.py`, `worker_pool.py` | lanes, workers, pills | push, pop, cancel; start, stop | left-over pills over restarts | nothing lost; the size is kept |
| Event bus, audit, metrics `utils/`, `governance/`, `metrics/` | subscribers; ring and file; samples, collector thread | publish, subscribe; write, flush; start, stop | changes during publish; a flush during writes; a slow collector at restart | every handler told, the ring a suffix, one collector |
| Dispatcher `compute/dispatcher.py` | jobs | `submit` to CPU or cloud, `cancel` | the id of the task is noted after it may have run | the status shown is what became of the job |
| AI router `cloud/cloud_ai_router.py` | counters, executor | `route`, `pull_model`, `shutdown` | timeout against a late answer, shutdown | counters add up |
| Persistence, plugins, index `persistence/`, `plugins/`, `resources/intelligence_index.py` | table; plugins; ratings | set, delete with retries; register, unregister; update, top_n | a locked database, callbacks outside the lock, ratings that change | writes that return are there, once |
| Files, packages `fs/`, `pkg/` | tree, path map, registry, installed | mkdir, write, delete; map, resolve; install, upgrade | deletions under a mounted tree, lookups that age | tree sound, longest prefix, never older |
| AI engine `ai_engine/engine.py` | backend, history | ask, stream, save, load | no lock on the history; save in the middle of an exchange | whole exchanges, also after a restart |
| Web, remote, command center | clients, routes, server thread, mirrors | connect, broadcast, handle, start, stop, failover | stop waits for the thread; mirrors that change | delivery in order, the token is asked for, best mirror |
| HTTP dashboard `server/virtual_server.py` | server, thread | requests, start, stop | several stops at once, a stop before the thread serves | silent after stop, true answers |

Interaction that matters for correctness: the CPU publishes
`cpu.task.submitted`, `cpu.task.completed` and `cpu.task.failed`, which the
cloud consumes; the pipeline submits artefacts to ROOT's gate; AIOS registers
cron and the CPU with the service manager, whose callables run in the thread of
the command; leases of the DHCP server are the source addresses of the NAT
table; AIOS stops the components in a fixed order, some of which the service
manager or a command may have stopped already; dispatcher, router and task
scheduler submit to the CPU.

`PROJECT.json` lists the hazards line by line, each with the properties that
cover it.

## 2. The models

One action is a stretch of code whose middle no other thread can observe: a block
under the component's lock, one operation of an internally locked queue, one
unlocked read or write, or one call out of the component. `+= 1` on an attribute
(`restart_count`) is one such write: since version 3.10 CPython does not switch
threads inside it (`setup.py` allows 3.9, which may: an update lost there is not
modelled). Names are those of the code. `map` in `PROJECT.json` gives the lines of
every definition. Operators named after another one with a suffix ("Mutant of ...")
are deliberately wrong variants that show that the properties notice them; no
specification uses them.

| module | models |
|---|---|
| `VirtualCPU` | `cpu/virtual_cpu.py` |
| `TaskExecutor` | abstract: what the CPU promises its callers |
| `VirtualCloud` | compute nodes and event handlers of `cloud/virtual_cloud.py` |
| `CpuCloud` | `VirtualCPU` and `VirtualCloud`, coupled by `EVENT_BUS.publish` |
| `ApprovalGate` | `root/approval.py` |
| `BuildPipeline` | `build/pipeline.py` on the gate |
| `DeployControl` | abstract: what ROOT promises about deployment |
| `CronService` | `kernel/cron.py` |
| `ServiceManager` | `kernel/service_manager.py` |
| `KernelServices` | both, wired as in `os_core/ai_os.py` 574-583, 708-723 |
| `Layers` | start, stop and mounting of ROOT and HOME (`root/sovereign.py`, `home/userland.py`) |
| `AuraInit`, `Bootloader` | `boot/aura_init.py`; `boot/bootloader.py` over it and the layers |
| `AiosLifecycle` | start and stop of `os_core/ai_os.py` and the signal handlers of `main.py`, over the layers |
| `VirtualNetwork` | `network/dhcp.py` and `network/nat.py`, as `NetworkStack` uses them |
| `Lists` | what is left of a list, and the ordered rule lists that `root/policy.py` and `network/firewall.py` share |
| `PolicyGate` | `root/policy.py`, the gate, audit ring and HOME mount of `root/sovereign.py`, `hardware/device_manager.py` |
| `Firewall`, `NameService` | `network/firewall.py`; `network/dns.py` |
| `Hardware` | `hardware/vram.py`, `vdisk.py`, `vbt.py` |
| `Identity` | `identity/crypto.py`, `registry.py`, `session.py` |
| `KernelTables` | `kernel/process_manager.py`, `ipc.py`, `syslog.py`, `secrets_manager.py` |
| `VNode` | `vnode/heartbeat.py`, `registry.py`, `mesh.py`, `identity.py` |
| `Home` | `home/userland.py`, `filesystem.py` |
| `Scheduling` | `scheduler/scheduler.py` with `resources/model.py`, `ram.py`, `quota.py`, `ledger.py` |
| `Pools` | `scheduler/queue.py`, `worker_pool.py` |
| `Observers` | `utils/__init__.py`, `governance/audit.py`, `metrics/collector.py`, `health.py` |
| `Files` | `fs/vfs.py`, `fhs.py`, `pkg/registry.py`, `installer.py` |
| `Dispatch` | `compute/dispatcher.py`, `cloud/cloud_ai_router.py`, volumes and models of the cloud |
| `Stores` | `persistence/store.py`, `plugins/manager.py`, `resources/intelligence_index.py` |
| `Assistant` | `ai_engine/engine.py`, the choice of its backend, `_save_state` and `_load_state` of AIOS |
| `Web` | `web/ws.py`, `web/api.py`, `remote/`, `command_center/mirror.py` |
| `Dashboard` | `server/virtual_server.py` |
| `MC*` | instances for TLC |
| `*Proofs` | theorems and their proofs |

Components that share no state and do not call each other are checked together
in one run by a module that gives each behaviour to one of them: the variable
`by`, chosen at the start, says which. `MCLifecycle` does so for the two programs
that drive the layers, `MCRootServices`, `MCKernelSide` and `MCPlatform` for the
components of ROOT, of the kernel and HOME, and of everything above. Nothing is
lost by it: a behaviour of independent components shows each of them nothing but
a behaviour of its own. The components that do interact are composed for real:
`CpuCloud`, `BuildPipeline`, `KernelServices`, `VirtualNetwork`, `Bootloader`,
`AiosLifecycle`.

### VirtualCPU

State: `running`, `queue` and `pills` (the two kinds of entries in the priority
queue), `heapOk` (whether the heap order still holds), `registry` and `status`
(`_tasks`), `threads` (`_workers`, never cleared by the code), per worker its
place `pc` in `_worker_loop` and the task it holds, the four counters, the
pills the `stop()` in progress still owes, and history variables `runs`, `ack`
and `stops`.

`submit` has three steps, as the code has: register under the lock (163-169),
put (170), publish (171). A worker checks the flag (199), gets (200-203), reads
the status *without* the lock (209), overwrites it *under* it (213-216), runs
the function, publishes, and accounts in `finally` (233-242). `stop` clears the
flag and puts one pill per thread ever created, one at a time (139-145). A pill
`(0, object())` and a CRITICAL task `(0, CPUTask)` do not compare: `put` may
raise with the item in the heap (`StopPutRaises`, `SubmitPut`), `get` may raise
with the root lost (`GetRaises`), which ends the worker's thread. Functions
return, raise an `Exception`, or raise a `BaseException`, which passes the
handlers and leaves the task RUNNING (`FnExits`). Ties in the heap are broken
arbitrarily. Task data, results and time stamps are not modelled.

### VirtualCloud and CpuCloud

`nodes`, `used` (vCPUs), `nodeOf` (`_task_node_map`). Handlers are one critical
section each, with the saturating `min` and `max` of the code. Memory is booked
by the same arithmetic and adds nothing. In `CpuCloud` the CPU's publishing
steps are joined with the handlers: a submitter's and a worker's publication of
the same task's events are steps of different threads and come in either order.
A second lock-free read (the number of nodes, for the new node's name) is left
out; volumes and models share nothing with nodes and are in `Dispatch`.

### ApprovalGate and BuildPipeline

Requests are numbered in the order `request` issues them; the ttl is a step
`Age` that makes a pending request stale; it is applied, as in the code, only
by `get` and `list_requests`. A run goes through prepare, build, sign, approve
and deploy; the second half of `_approve` (290-296) reads the request after the
gate's lock has been released, when an operator may have decided already. Any
stage may raise. Hashes, tokens and signatures are abstracted to their presence.

### CronService, ServiceManager, KernelServices

A scheduler loop is `check` (150), `sweep` (151-156, under the lock), then one
`_fire` after the other without the lock (158-178). `stop` is one step per shared
read, because `self._thread` is read twice (118-119) and two threads may be in it:
`StopFlag`, `StopLook`, `StopLoad`, `StopJoin`, `StopEnd`; and `start`, which holds
no lock either, is one step per write: the flag (`CronStart`), the thread
(`StartMake`), the read of it (`StartLoad`) and its start (`StartRun`). A `stop` in
between finds no thread, or takes it away (AttributeError), or joins it before it
was started (`StopJoinRaises`). The join times out while a job is running, and
`abandoned` remembers the loops that were given up, and those that were there when a
`start` met a `stop` (`crossed`). The service manager's calls are records (where, on
what, whether it is a restart, how many retries); `start_fn` and `stop_fn` are
called outside the lock and return or raise. In `KernelServices` the `stop_fn` of
the service is the cron service's own `stop`, and its `start_fn` is empty, as in
AIOS.

### VirtualNetwork

`lease` is the address in `_leases` for each client, expired leases included;
`fresh` orders the clients with valid leases by their last renewal, which is the
order in which leases of one duration expire, so that time needs no clock.
`table` is the NAT table in its order of insertion, which is the order in which
`dnat` searches; `nextPort` is the counter that wraps. `flow` is what each client
was told by `snat`. The `enabled` flag is read outside the lock by `snat`; a
switch between the read and the lock is the same as a switch after it.

### Layers, AuraInit, Bootloader, AiosLifecycle

Two programs drive the layers: the bootloader (which AIOS imports and never
creates; the tests do) and `AIOS.start`/`stop`. In `Bootloader` one thread boots
and halts, stage by stage, while others register services and call
`restart_service`; a call on a service is a record (where, on what, whether it
is a restart), its steps those of `_start_service` and `_stop_service` between
two acquisitions of the lock. The budget of restarts is read and written
without it, in two steps. The inline recursion of `_start_service` is a loop.
`halt` begins after `boot` has returned or raised, as in every caller.

In `AiosLifecycle` there is one thread and a stack: `frames` are the calls of
`stop()` in progress, each interrupted by the signal handler that made the next.
A handler that finishes leaves by `SystemExit`, which ends all of them. What a
handler interrupts may hold a lock that is not reentrant; `block` is the step
of the new call that needs it, where the thread waits for itself (`hung`). A
`stop()` that raises (the CPU's queue, the audit file) unwinds every frame, into
the finally clause of `main` or into the shell, which hides it (`caught`).

### Lists, PolicyGate, Firewall, NameService

A rule list is the sequence the code keeps sorted by priority; `policyLog` and
`fwLog` are history variables that keep the same rules in the order they were
added, from which `ByPriority` states independently of the sorted list which rule
should decide. `PolicyGate` evaluates a small set of requests (who asks, for which
action, on which resource) against the default rules and up to two added ones,
two of which share name and priority and disagree; `mount_home`, `unmount_home`,
`start`, `stop` and the device table append to a bounded ring `audit`. The gate
does not raise when HOME is mounted against a DENY: `_gate` ignores
`raise_on_deny`. In `NameService` `pinned` is the answer `override` promised;
`Resolve` follows records, the search domain and the host's resolver, which may
answer or not (`upstream`).

### Hardware and Identity

Blocks of memory with owner and size, volumes with name and mount point and the
directories they use, peripherals with their state. `alarm` is the event of the
last allocation. Two volumes may have the same name and then share a directory,
which goes with the first (`robbed`). Lookups in `Identity` are steps: the store
is read under its lock, then the flag, the time and the signature without it, and
revocation, expiry or a change of the metadata may come between (`look`, `truth`).

### KernelTables, VNode, Home

A process is a state in the table and a place of its thread (`body`), which ends by
return, exception or `BaseException`. Messages and log entries are numbered, so that
loss, doubling and overtaking show. `clear` of a channel drains it one message at a
time. `VNode` has heartbeat threads of several generations (`start` raises the flag
under the lock, then makes and starts the shared `_thread` without it, in steps that
other calls may cut in two), requests to the command center that are lost, answered
late (`post`, `doubt`), or applied after the client gave up (`loose`), inboxes, and
the id file, which is read, written and possibly left empty by a crash in between
(`idPlace`). `Home` covers the packages that `start` looks for and installs in two
steps each (`raced`), clones made by git outside the lock, processes, and `tmp`,
which `unmount` empties.

### Scheduling and Pools

`submit` and `cancel` of the task scheduler cross five tables with a lock each;
each crossing is a step. `VirtualCPU.submit` reads `priority.value` of the integer
it is given, so `submit` raises after everything is booked (`scheduler.py` 171): what
is booked is given back by `cancel` alone, and the properties are about that. A
`snapshot` of a RAM slot takes a lock twice that is not reentrant and never
comes back (`slotStuck`). The lanes and the worker pool, which nothing constructs yet, are
modelled as they are: pills of an earlier stop mix with work, and `start` and `stop`,
which hold no lock, are steps that other threads, or a worker in `on_done`, may cut in
two (`strayed`).

### Observers, Files, Dispatch, Stores

`publishing` holds what is left of the snapshot that `publish` took; a handler
returns, raises an `Exception`, or a `BaseException`, which ends the round
(`HandlerExits`). The audit file is written entry by entry from a copy, without the
lock. A collector thread reads the flag between two rounds; `start` clears it, and
makes a thread only if the one before has ended. The tree is a function from paths
to kinds. A package operation looks up, decides and commits in steps (`admin`), and
`raced` marks packages whose registration changed in between. In `Dispatch` a job's
function may run before its task's id is noted (`_submit_local`), a routed query may
be answered after its caller timed out, and `shutdown` refuses what comes later. A
write to the store is retried while the database is locked, up to the code's limit;
the connection may be closed and the process end and start again at any step.
`top_n` lists under the lock and reads the ratings one by one without it (`TopKey`).

### Assistant, Web, Dashboard

`asking` is one call of `ask` or `stream`: the backend answers, with text, a stub,
an error in words or an exception; question and answer are appended in two steps,
and the slice that trims the history is cut and assigned in two more. `_save_state`
gathers history and models, empties the file and writes it; the process may end in
between, and the next one finds a whole file, a broken one or none.
`RemoteControlServer.start` and `stop` and those of the dashboard are chains of
steps around the library's `serve_forever` and `shutdown`, which are modelled by
their two flags. Requests are classes (public or not, with or without token, with a
handler that returns or raises); OPTIONS is answered by the server itself, without a
token, and is not counted (`preflights`); paths are sequences of letters, since
routing compares prefixes.

## 3. The runs

| run | question | states |
|---|---|---|
| `VirtualCPU` | safety of the CPU and the refinement of `TaskExecutor` | 213 k |
| `VirtualCPULive` | are queued tasks taken, do workers end | 77 k |
| `CpuCloud` | is node usage explained, and released unless events were overtaken | 316 k |
| `CpuCloudLeak` | *violation*: a finished task holds no node | |
| `BuildPipeline` | deployments against approvals, the refinement of `DeployControl`, every run settles | 95 k |
| `BuildDeploy` | *violation*: an approved artefact is deployed | |
| `KernelServices` | cron under AIOS and the service manager | 777 k |
| `KernelRestart` | *violation*: a restarted cron service runs | |
| `Lifecycle` | what halt and stop leave behind, the order of the layers, do both come to an end | 403 k |
| `RootServices` | addresses, rules, names, devices and identities | 41 k |
| `KernelSide` | services, processes, channels, log, virtual node, HOME | 330 k |
| `Platform` | the services above the kernel | 838 k |

What the properties say beyond the types. Where one property of a run is a
conjunction, its parts are named definitions next to the code they are about:

- `AtMostOnce`, `CancelHonoured`, `MetricsExact`, `LiveTasksRegistered`,
  `HistoryBounded`, `ImplementsExecutor` (`VirtualCPU`). The refinement maps
  threads, pills and the heap to a phase per task: each task executes in a slot
  of its own, a withdrawn task never does, a result never changes, and tasks are
  dropped only after `stop()`.
- `WorkersServe` (`VirtualCPULive`): `QueuedIsTaken` and `WorkersExit`.
- `UsageExplained`, and `BookingsSettle`, which adds `ReleasedUnlessOvertaken` to
  the types (`CpuCloud`).
- `DeployedOnlyIfApproved`, `TokenIffApproved`, `ImplementsControl`, and `RunsEnd`:
  `RunSettles` and `AutoApprovedDeploys` (`BuildPipeline`). `DeployControl` says
  that a verdict is given once and never withdrawn.
- `CronExact`: `SingleLoop`, `RunCountExact` and `LateFiring`; `DueJobsFire`
  (`KernelServices`).
- `BootKept`: `SupervisorSettled` and `HaltComplete`; `CleanEnd`, `RootOutlives`, and
  `LifecycleEnds`: `BootSettles` and `SignalEnds` (`Lifecycle`).
- `AddressesUnique`, `RenewalKeepsAddress`, `RepliesReachSender`; `AccessDecided`:
  `PolicyDecides`, `AuditTellsMount`, `FirewallDecides`, `OverrideHolds`;
  `DevicesKeepPromises`: `RamWithinTotal`, `VolumesKeepData`, `ConnectedWasPaired`;
  `IdentitiesHonoured`: `TokensHonoured`, `ActiveNotOverstated`; `EndsAreFinal`
  (`RootServices`).
- `KernelTablesTrue`: `StateIsTruth`, `KillIsFinal`, `MessagesInOrder`, `LogIsSuffix`,
  `MeshAccounts`; `NodeAndHomeKept`: `HeartbeatKept`, `RegistrationTrue`,
  `NodeKeepsId`, `OfflineIsStopped`, `PackagesAreThere`; `CallsReturn` and
  `HeartbeatEnds`: no call on a service hangs, and a stopped heartbeat falls silent
  (`KernelSide`).
- `ResourcesBalance`: `RamBalanced`, `CancelIsComplete`, `LedgerBounded`;
  `WorkReported`: `LanesFifo`, `PoolSize`, `JobsTrue`, `QueriesCounted`;
  `ObserversTold`: `EveryHandlerCalled`, `AuditIsSuffix`, `OneCollector`,
  `HealthByThreshold`, `HubDelivers`; `StoresSound`: `TreeSound`,
  `LongestPrefixWins`, `NeverOlder`, `VolumesBacked`, `WritesTold`,
  `LoadedIsRegistered`, `TopSorted`, `HistoryPaired`; `FrontsHold`: `ApiGuarded`,
  `RemoteSettles`, `FailoverIsBest`, `StopSilences`, `AnswersTrue` (`Platform`).

Some properties name an exception because the code has one. They are part of
what the models show, and each was found by trying the property without it:

- a `cancel()` between a worker's look at the status and its claim returns
  True, and the task runs (`CancelHonoured` says *early*);
- cancelled tasks leave the loop before they enter the history, and are never
  evicted (`HistoryBounded` counts executed tasks);
- a booking on a saturated node adds nothing but is released like the others,
  so a node may look idle while tasks are on it (`UsageExplained` is one-sided);
- tasks that are cancelled or still queued at `stop()` publish no end, and
  their node is never released;
- `approve` accepts a request whose ttl has passed, and stale requests count
  towards the limit, until somebody lists or gets them;
- overlapping calls on one service may record a state that is not the truth
  (`overlapped`);
- a `BaseException` of a job ends the loop, `_running` stays True, and `start()`
  will not replace it (`DueJobsFire`);
- a join that timed out leaves two loops, and so does a `stop()` that meets the
  `start()` that made the loop or the one after it: `SingleLoop` names those loops
  (`abandoned`) and excludes any other;
- leases that have expired block the pool until somebody lists them; the NAT
  counter wraps to ports in use (`Early`); an address that is leased anew
  inherits the NAT entries of its last holder;
- a service that another thread restarts while the system halts survives
  `halt()` (`late`), and the restart budget can be exceeded by one for each
  such thread (`SupervisorSettled`);
- a handler may wait for a lock that what it interrupted holds, and its
  exception may be hidden by the shell, which goes on with half a system and
  may start the remote server without ROOT (`RootOutlives`, `SignalEnds`);
- HOME is mounted whatever the policy says, and neither `halt()` nor
  `AIOS.stop()` stops it: no property claims that it is down;
- a look at a token or a session that began before its end may still say yes
  (`truth`);
- volumes of one name share a directory, and the first one deleted takes it
  (`robbed`);
- a task cancelled twice, or again after `submit` has marked it queued, is taken
  off its user's count twice (`uncounted`);
- overlapping requests, a lost answer, or a request that timed out and is applied
  later may leave a node shown as registered that is not, or the reverse, until a
  request that has the flag for itself is answered (`doubt`, `loose`);
- what a user installs while `start()` of HOME holds the default of that name for
  absent is replaced (`raced`);
- a `start()` of the worker pool during the joins of its `stop()` has its threads
  dropped from the list, and a worker that stops its own pool gets a RuntimeError:
  `PoolSize` holds as long as neither happens (`strayed`);
- a `BaseException` of a handler ends the round of `publish`; the handlers behind it
  are owed nothing (`due`);
- a rating that changes between the first key `top_n` reads and its last copy may
  put the list out of order (`since`);
- OPTIONS is answered without a token and not counted (`preflights`);
- a package whose registration changes under a call may be replaced by an older
  one (`raced`), and two overlapping `register` calls of one plugin, or an
  `unregister` during `on_load`, may leave one loaded that is not registered
  (`crossed`);
- `stream()` never trims the history, and two calls at once interleave their
  exchanges or lose one to the trimming of the other (`unchecked`, `overlapped`).

## 4. Bounds, fairness, symmetry

| run | bounds | why they are enough |
|---|---|---|
| `VirtualCPU` | 2 tasks (one CRITICAL), 3 threads, one worker per start, 2 stops, history 1 | three starts and two stops give left-over pills and a thread of an earlier start alive in a later one; a CRITICAL task ties with a pill; a history of one evicts at the second task |
| `VirtualCPULive` | 2 tasks, 2 workers, 1 stop | two workers compete for one queue while `stop()` is cut short |
| `CpuCloud` | 3 tasks, 2 workers, 2 nodes of one vCPU | three tasks saturate both nodes, one node is added and any removed |
| `BuildPipeline` | 4 runs, 3 requests, 2 pending | the gate refuses the third pending request, one run fails in its first stage |
| `KernelServices` | 1 job, 2 loops, 2 callers of `stop` | the two stops race, and the second loop overlaps the first; more jobs are independent under the lock |
| `Lifecycle` | 2 services, 1 thread besides the booting one, 1 restart; 2 signals | a restart overlaps each stage of boot and halt, one service has a stop function and restarts, the other neither; the second signal interrupts the `stop()` of the first |
| `RootServices` | 3 clients, 2 addresses, 2 source ports, 3 external ports; 2 rules beyond the defaults, an audit ring of 2; 2 names, 2 records each; 5 units of memory in 3 blocks, 3 volumes with 2 labels; 2 tokens, 1 session, 1 verifying thread | the pool is exhausted, addresses move and the port counter wraps; rules tie, share a name and disagree; a short name and the one it stands for; blocks of 1, 2 and 4 reach both alarms; a second looking thread would be independent of the first |
| `KernelSide` | 2 services under 2 threads, 3 automatic restarts (the code's number); 2 processes, 2 channels, 4 messages, 4 log entries for a log of 2; 3 generations of heartbeat threads, 2 client threads, 2 peers, 3 ids; 2 HOME processes, a default and a further package | calls on one service overlap, the chain of restarts runs out; the log overflows twice; a thread of each of two earlier starts is alive in the third; the second request overlaps the first |
| `Platform` | 2 jobs of 2 and 1 MB in a pool of 2, 2 cancelling threads; 2 lanes; 2 workers, and a thread and a worker that start and stop the pool; 2 handlers subscribed up to 3 times, 2 publishers; an audit log of 2 for 4 entries; 2 collectors; paths up to 2 deep; 2 packages under 2 threads; 3 jobs, 2 queries and a pull on one worker each; 3 writes; 2 plugins under 2 threads; 3 rated models; 2 askers, a history of 2; 2 hub clients; 2 users of the remote server and 2 stops of the dashboard; 3 mirrors | every pool, ring and history overflows, and each operation that is cut in steps meets a second one between any two of them |

Named bounds in the modules: `MaxStops` (calls of `stop`), `Worker` and `MaxLoops`
(threads ever created), `MaxRuns` (executions of a job), `MaxRequests`,
`MaxSignals`, `MaxExtra` and `MaxFwExtra` (added rules), `MaxRecords`, `MaxSends`,
`MaxLogged`, `MaxMsgs`, `MaxIds`, `MaxPushed`, `MaxWork`, `MaxThreads`, `MaxSubs`,
`MaxEvents`, `MaxWritten`, `MaxDepth`, `MaxMaps`, `MaxVersion`, `MaxRatings`,
`MaxSaves`, `MaxSent`, `MaxStarts`, `MaxAsked`, `MaxMoves`. `MaxHistory`,
`MaxPending`, `MaxAutoRestarts`, `MaxRestarts`, `MaxRetries`, `Pool`, `ExtPorts`,
`AuditMax`, `LogMax`, `TotalRam`, `PoolMb`, `LedgerMax` and `RouterMax` are limits
of the code itself.

Fairness is weak fairness of each thread on its own steps: Python threads are
scheduled by the operating system, and no thread is assumed to be faster than
another. Functions of tasks, jobs and services end (they are the users'), a
submitter that has begun its call finishes it, `join` returns after its
timeout, and a heartbeat's request does (`urlopen` has a timeout). Callers are
never obliged to call anything, and `stop()` is obliged to go on only as long as
it does not raise. `RootServices` and `Platform` check safety only and state no
fairness. Runs with liveness use no symmetry. Symmetry sets in the other runs
permute threads, tasks or clients that the model never distinguishes, or, in
`CpuCloud`, tasks of equal priority.

Deadlock is checked only in `RootServices`, whose components can always move:
elsewhere the bounded system really ends (after the last stop, all runs done,
every bounded step made), and the liveness properties say that it does not end
too early.

## 5. Proofs

Every theorem holds for all values of the constants that satisfy the named
assumptions: finite sets of tasks, workers and restarting threads, at least one
worker per start, priorities 0 to 4, a positive history; node sizes in `Nat`; at
least one port; any sets of jobs, threads, tokens and sessions; finite sets of nodes
of the mesh, of tasks of the scheduler, of threads that cancel and of workers that
stop their own pool; sizes of memory
in `Nat`; disjoint and finite sets of queries and pulls of the router; rules whose
priority is an integer and whose verdict is one of the policy's three; a search
domain that maps names to names; no user of the remote server and no thread of the
collector called `none`, which stands for nobody; no plugin of that name; at least
one model, the built-in one; an even, positive `MaxHistory`.

`DataLemmas` is the library the other proofs cite: what the model computes over
lists and sets. The library's induction theorems take an operator as a parameter,
which no installed prover instantiates; the lemmas here state induction with a *set*
instead: a set of numbers that has 0 and the successor of each of its members has
them all (`NatInduct`), and so for finite sets (`SubsetInduct`) and sequences
(`SeqInduct`). A fold is the function its definition chooses, which exists
(`FoldExists`) and is unique (`FoldsAgree`). From them: a sum over a finite set
grows by the term of a new element (`TotalAdd`, `TotalChange`, `TotalMore`), what is
kept of a list is kept when one appends to it and in the old order (`KeptAppend`,
`KeptSet`, `AscendingKept`, `InOrderKept`), and the set of a sequence follows
append, tail and concatenation (`SetOf...`). For rule lists, `Stable(rs, log)` says
that a list is sorted and that for each priority it has the rules of the log in the
log's order; `InsertStable` and `KeptStable` show that adding and removing keep it
so, `BuiltStable` that a list built from nothing is, and `DecidedAlike` that then
the first match is the oldest match of the lowest priority.

`VirtualCPUProofs`: `TypeCorrect`, `TaskRunsAtMostOnce`, `EarlyCancelIsHonoured`,
`MetricsAreExact`, `EvictionSparesLiveTasks`, `HistoryIsBounded`. None of these is
inductive alone. The invariant adds `TokenInv`, which treats a task as a token that
is in exactly one place: not submitted, registered, in the queue, in the hands of
one worker, or finished; its place determines `status`, `runs` and membership of
`registry`. From it, two workers never hold one task, so that a claim raises `runs`
from 0 to 1, and an id in `finished` is not live, so that eviction spares live
tasks. `CancelInv` relates `ack` to the place of the worker that holds the task. The
counters are equated with cardinalities, which change by one element at a time.
`HistoryInv` says that an executed task that is in the registry and in nobody's
hands is in `finished`, whose length is bounded.

`CpuImplementsExecutor`, in the same module, is the refinement of `TaskExecutor`:
every step of the CPU moves at most one task to another phase, by a step that the
executor has, or leaves all phases and results as they were. The slot of a task is
the worker that holds it, and `UniqueInv` makes it its own. Two more invariants
are needed: pills come from `stop()` alone (`PillInv`), so that a worker that ends,
and with it a task that is lost, implies that `stop()` was called or the task was
being executed; and a task cancelled too late is in the hands of the worker that
will run it (`LateInv`).

`UsageIsExplained` and `BookingsAreReleased`, in the same module, are about the CPU
coupled to the cloud. Every step of the CPU leaves the books alone, and each handler
moves at most one task in or out of one node's bookings. For the second,
`ReleaseInv` says that a task whose end has been published holds no booking unless
it is in `overtaken`; a step of the CPU that ends a task is one that publishes.

`BuildPipelineProofs`: `TypeCorrect`, `OnlyApprovedDeploys`, `TokensAreApprovals`
and `PipelineImplementsControl`, the refinement: the invariant adds that
requests are numbered without gaps, that run and request point at each other,
and that a run that is past its look at the status has an approved request,
which stays approved since no operation takes an approval back.

`KernelServicesProofs`: `TypeCorrect` and `CronIsExact`, for any number of jobs, of
loops and of threads that stop the service. `JoinInv`: while the flag is down and a
thread is registered and no `start()` is in progress, some `stop()` has still to deal with
that thread, or it was given up. `CrossInv`: a `start()` knows of every `stop()` it has met
(`crossed`), and replaces no loop but one that was given up. `LoopInv`
and `CountInv`: a loop holds one job while it is busy, and the count lags behind the
executions by the loops that are at it. `LateInv`: a loop that still lists a removed
job has one late execution left, so there are never more than loops were made.

`RootServicesProofs`: `TypeCorrect`, `NoSharedAddress`, `AddressStable` and
`ReturnTraffic`. The invariant adds: `fresh` repeats nobody; the table has one entry
per source; entry number *i* has port *i* as long as the counter has not wrapped,
and until then the counter is one more than the length of the table; every port a
client was told is in an entry of its present address.

`IdentitiesAreHonoured` and `NothingRevives`, in the same module. `Grows`: the reasons
for which a token or a session is bad are never taken back. `LookInv` says for each
step of a look what it has ruled out by then, or that the look began on something
good.

`AccessIsDecided`, in the same module: the rules of policy and firewall are `Stable`
with respect to the rules as they were added (`RulesInv`, `FwInv`), and `Capped`: no
more of them are default rules than at the start, and extra ones are added only
below their bound. `RingInv`: the last entry about HOME in the audit ring tells
whether it is mounted; what the ring drops is its oldest entry. `DnsInv`: an
override that was not taken back is the first address of its name.

`DevicesArePromised`, in the same module. `RamInv`: what is used is a sum over the blocks
that are held; an allocation adds its term, and a `free` leaves a subset, whose sum is no
greater (`TotalFewer`), so that the last alarm still covers it. `DiskInv` needs
only types; `BusInv` adds that a peripheral shown as paired was paired.

`KernelSideProofs`: `TablesTellTruth` and `NodeAndHome`. For the first, `ServiceInv`
follows each call of the service manager: while no two overlapped, at most one is in
progress and the displayed state is what it found or what it did. `TablesInv`: the
numbers of the processes ascend, and a killed one is shown as ended whatever its
thread still reports. `IpcInv`: what was sent and is neither received nor cleared is
in the channel, in the order it was sent, a `clear()` in progress included.
`LogInv`: the log is the tail of everything logged, and a query returns its matching
entries in order. `MeshInv`: for each peer, what is in its inbox and what it
received make up what was delivered to it; the totals are sums over all peers. For
the second, `BeatInv`: a flag that is up has a thread that will look at it, and a
beat after `stop()` was decided on before. `RegInv`: while nothing is in doubt no
request is loose and one at most is under way, and the registration flag lags behind
the command center by that request at most. `IdInv`: as long as an id is on disk to
be kept, file and node have it, and while the file is written anew there is none.
`HomeInv`: what runs while HOME is offline was spawned after the marking, and a
package that is there while `start()` holds it for absent is in `raced`.

`PlatformProofs`: `ResourcesAreBalanced`, `ObserversAreTold`, `WorkIsReported`,
`StoresAreSound` and `FrontsAreSound`. In the scheduler a task has a place in
`submit()` and each thread one in `cancel()`. `CallsInv`: what can be cancelled was
stored, so nothing is booked for it afterwards. `MemoryInv`: a task shown as
cancelled that still holds memory has a `cancel()` between its mark and the table.
With these, taking an entry moves its term from the sum over the table to the sum
over the threads under way (`TotalAdd`), and giving it back removes it there, never
below zero. `CountInv`: the user's count is at most the number of booked tasks, and
equals the number of those no `cancel()` counted down as long as none was counted
down twice. For observers, a `publish()` has called a beginning of its copy of the
handlers, each once and in order, and that copy is cut where a handler raised a
`BaseException`; what the audit log holds, what it wrote and what is on disk are
runs of one sequence of numbers; whoever has seen the collector running is the one
thread that runs; and what was addressed to a client of the hub is what it got
followed by its inbox. For work, what was pushed to a lane and neither popped nor
withdrawn is in it, in order; pills and workers balance, counted over the queue of
the pool and the place of the one call of `start()` or `stop()` in progress, as long
as no two overlapped; a job is at one place from `submit()` to its record; and the
counters of the router are sums over the queries by how each ended. For the fronts,
`RemoteInv`: the holder of the lock is the one `stop()` that waits; at most one
server is bound, and one whose thread is not made yet belongs to the one `start()`
under way. `MirrorInv`: unless something moved, what `failover()` listed is what it
would list now. `DashboardInv`: a request is in the making only while the loop is
on, and a code is 401 exactly for want of the token.

For what is kept (`StoresAreSound`), the paths above a path are closed under taking
the parent, and what is deleted is closed under descent. `BestOf` follows the loop
of `resolve()`: after each entry its best is the longest of the fitting prefixes
seen. `PackagesInv`: as long as no registration changed under a call, what the call
looked up is what is registered, no older than what is installed. `StoreInv`: the
newest write to a key in the log gives its value; a commit appends a write that was
not in the log, which leaves the newest write before it what it was (`LatestStays`).
`PluginInv`: unless calls crossed, one thread at a time is between finding the name
free and entering, and the name is free then. `IndexInv`: what is listed has a
rating, the list of `top_n()` is built by insertion and thus sorted (`BuiltStable`),
a key is the rating of its record as long as none changed since the first was read,
and so is a copy. `TalkInv`: unless calls overlapped, one call records at a time;
with a question said, the history is whole exchanges and that question, otherwise
whole exchanges; a slice is a number of them too, since `MAX_HISTORY` is even
(`PairedLast`); and what was saved is whole exchanges unless it was torn.

`LifecycleProofs`: `TypeCorrect`, `HaltTakesDown` (`BootKept`), `StopIsComplete` and
`RootIsLast`, of the specification of the `Lifecycle` run, for any services, any
finite set of threads that restart them, any budget and any number of signals.

- The supervisor. `Table` reads the twelve steps of `_start_service` and
  `_stop_service` as rows: where the call was, what it found, where it goes. The
  invariant then follows each service. `BudgetInv`: the restarts, plus the calls that
  have read the budget and not yet counted, are at most the budget plus the number of
  threads. `AloneInv`: on a service without overlapping calls one call at most is in
  progress, and the state is the truth before it and after it. `IdleInv`: until
  `halt()` begins, a service shown as stopped is about to start or is not up.
  `HaltInv`: once it has begun, a service that nobody restarts is down, or being
  stopped, or still ahead of `stop_all`.
- AIOS. All that a call of `stop()` in progress has taken down is still down: a call
  that interrupts it only takes down more, and the commands, which may start
  something, run only when none is in progress. `_running` is cleared last, and what
  remains up without ROOT is at most the remote server after a hidden failure.

In a behaviour one of the two drives the layers and the other is at rest, which
`LifecycleInv` says.

Model-checked only. Liveness (`WorkersServe`, `RunsEnd`, `DueJobsFire`,
`LifecycleEnds`, `CallsReturn`, `HeartbeatEnds`) is beyond the prover. Every other
property of a passing run is stated by a theorem.

## 6. What the runs brought to light

1. `CpuCloudLeak`: `submit()` puts a task on the queue before it publishes
   `cpu.task.submitted` (`cpu/virtual_cpu.py` 170-171). A worker may finish the
   task first; the cloud then handles the completion before the submission and
   books a vCPU that is never released.
2. `BuildDeploy`: deployment happens only if the request is approved while the run
   looks (`build/pipeline.py` 291); an approval that comes later, the documented
   way, deploys nothing.
3. `KernelRestart`: `svc restart kernel-cron` stops the cron service and starts
   nothing (`os_core/ai_os.py` 717), yet reports success.

Seen while translating, certain from the text and therefore modelled as they are
rather than stated as properties:

- `TaskScheduler.submit` always raises (`scheduler/scheduler.py` 171): the CPU reads
  `priority.value` of an integer. Everything is booked by then.
- `ResourceSlot.snapshot` takes a lock that is not reentrant twice
  (`resources/model.py` 80) and blocks for ever; every later use of the slot blocks too.
- The dispatcher reads `max_concurrent_tasks` (`compute/dispatcher.py` 217), which
  the CPU's metrics lack: one busy worker reads as full load.
- `stream()` never trims the history (`ai_engine/engine.py` 459-460).
- `remove_node` and `delete_volume` publish while they hold the cloud's lock, which
  is not reentrant (`cloud/virtual_cloud.py` 236): a subscriber that called the cloud
  would stand still. None of the program's own does.
- `AIOS.start` that raises half-way leaves threads and servers up, and `stop` refuses
  because `_running` is still False (`os_core/ai_os.py` 829).
- `VirtualServer.stop` never closes the listening socket (`server/virtual_server.py`).

## 7. Not modelled

- The devices that pass calls on (`hardware/vcpu.py`, `vgpu.py`, `vnet.py`): each call
  is one call of a component that is modelled.
- `identity/permissions.py` and `user.py`: a constant table of roles.
- `orchestration/`: nothing constructs it, and its runner goes through the scheduler's
  `submit`, which always raises.
- `LlamaBackend` and `ModelScanner`, which are never constructed; the model registry,
  a dictionary whose entries no other operation reads; personality traits, which shape
  only the text of a prompt.
- The shell, configuration, adapters, code templates and the signer: parsing,
  formatting, host probes, environment variables and hashes. What a shell command
  changes is modelled with the component it calls; the values of the configuration
  are the CONSTANTS.
- In modelled components: time stamps, log output, displayed counters that no
  operation reads, hashes and signatures (abstracted to their presence), and texts.
- In `AI OS` the commands that are one call of a component, and the reports; in
  `Metrics` the time series and the snapshot, containers of numbers; in the web
  components the SSH-like handler and the monitor, which print. `PROJECT.json` has
  these as *partly* modelled.

## 8. The order of the work, and what remains

The components with threads and the shared state of most others came first.

| # | modules | composed of / abstract specification | proofs |
|---|---|---|---|
| 1 | `VirtualCPU`, `TaskExecutor` | refinement | safety, history, refinement |
| 2 | `VirtualCloud`, `CpuCloud` | composition with 1 | usage and release |
| 3 | `ApprovalGate`, `BuildPipeline`, `DeployControl` | refinement | safety and refinement |
| 4 | `CronService`, `ServiceManager`, `KernelServices` | composition | cron; the manager's types |
| 5 | `VirtualNetwork` | composition of DHCP and NAT | safety |
| 6 | `Layers`, `AuraInit`, `Bootloader`, `AiosLifecycle` | composition | AIOS and the supervisor |
| 7 | `Lists`, `PolicyGate`, `Firewall`, `NameService`, `Hardware`, `Identity` | one rule table for policy and firewall | all |
| 8 | `KernelTables`, `VNode`, `Home` | | all |
| 9 | `Scheduling`, `Pools`, `Observers`, `Files`, `Dispatch`, `Stores`, `Assistant`, `Web`, `Dashboard` | | all |

What would add most next: the dispatcher and the router composed with
`VirtualCPU` instead of with its interface; an abstract specification of the
event bus for `CpuCloud` to be coupled by.
