----------------------------- MODULE MCPlatform -----------------------------
(***************************************************************************)
(* The services on top of the kernel: task scheduling and its resources,   *)
(* queues and pools, events, audit and metrics, files and packages, what   *)
(* dispatches work, what is stored, the assistant and the web side.  They  *)
(* do not call each other; a behaviour is one of them, chosen at the start.*)
(***************************************************************************)
EXTENDS Scheduling, Pools, Observers, Files, Dispatch, Stores, Assistant, Web,
        Dashboard, TLC

CONSTANTS j1, j2, etc, web, b1, b2, b3

VARIABLE by   \* the component that moves in this behaviour

MCJobMb == j1 :> 2 @@ j2 :> 1
\* Priorities below, inside and above the lanes.
MCAsk == {-1, 0, 5}
\* A built-in path, a prefix of another route, and that route.
MCRoutes == {<<"health">>, <<"h">>, <<"h", "i">>}
MCPriority == b1 :> 2 @@ b2 :> 1 @@ b3 :> 0

poolsVars == <<laneVars, poolVars>>
observerVars == <<busVars, auditVars, collectorVars>>
fileVars == <<treeVars, mapping, pkgVars>>
dispatchVars == <<gpuVars, routerVars, volumeVars>>
keptVars == <<storeVars, pluginVars, indexVars>>
webVars == <<hubVars, remoteVars, mirrorVars, dashboardVars>>

PlatformInit ==
  /\ SchedInit /\ LaneInit /\ PoolInit /\ EventInit /\ AuditInit /\ CollectorInit
  /\ VfsInit /\ FhsInit /\ PkgInit /\ GpuInit /\ RouterInit /\ VolumeInit
  /\ StoreInit /\ PluginInit /\ IndexInit /\ AssistantInit /\ HubInit /\ RemoteInit
  /\ MirrorInit /\ DashboardInit
  /\ by \in {"scheduler", "lanes", "pool", "events", "audit", "collector", "files",
             "paths", "packages", "vgpu", "router", "volumes", "store", "plugins",
             "index", "assistant", "hub", "remote", "mirrors", "dashboard"}
  /\ by # "assistant" => backend = "builtin"
  /\ by # "dashboard" => guard = "open"

PlatformNext ==
  /\ UNCHANGED by
  /\ \/ /\ UNCHANGED <<poolsVars, observerVars, fileVars, dispatchVars, keptVars, assistantVars, webVars>>
        /\ by = "scheduler" /\ SchedNext
     \/ /\ UNCHANGED <<schedVars, observerVars, fileVars, dispatchVars, keptVars, assistantVars, webVars>>
        /\ \/ by = "lanes" /\ UNCHANGED <<poolVars>> /\ LaneNext
           \/ by = "pool" /\ UNCHANGED <<laneVars>> /\ PoolNext
     \/ /\ UNCHANGED <<schedVars, poolsVars, fileVars, dispatchVars, keptVars, assistantVars, webVars>>
        /\ \/ by = "events" /\ UNCHANGED <<auditVars, collectorVars>> /\ EventNext
           \/ by = "audit" /\ UNCHANGED <<busVars, collectorVars>> /\ AuditNext
           \/ by = "collector" /\ UNCHANGED <<busVars, auditVars>> /\ CollectorNext
     \/ /\ UNCHANGED <<schedVars, poolsVars, observerVars, dispatchVars, keptVars, assistantVars, webVars>>
        /\ \/ by = "files" /\ UNCHANGED <<mapping, pkgVars>> /\ VfsNext
           \/ by = "paths" /\ UNCHANGED <<treeVars, pkgVars>> /\ FhsNext
           \/ by = "packages" /\ UNCHANGED <<treeVars, mapping>> /\ PkgNext
     \/ /\ UNCHANGED <<schedVars, poolsVars, observerVars, fileVars, keptVars, assistantVars, webVars>>
        /\ \/ by = "vgpu" /\ UNCHANGED <<routerVars, volumeVars>> /\ GpuNext
           \/ by = "router" /\ UNCHANGED <<gpuVars, volumeVars>> /\ RouterNext
           \/ by = "volumes" /\ UNCHANGED <<gpuVars, routerVars>> /\ VolumeNext
     \/ /\ UNCHANGED <<schedVars, poolsVars, observerVars, fileVars, dispatchVars, assistantVars, webVars>>
        /\ \/ by = "store" /\ UNCHANGED <<pluginVars, indexVars>> /\ StoreNext
           \/ by = "plugins" /\ UNCHANGED <<storeVars, indexVars>> /\ PluginNext
           \/ by = "index" /\ UNCHANGED <<storeVars, pluginVars>> /\ IndexNext
     \/ /\ UNCHANGED <<schedVars, poolsVars, observerVars, fileVars, dispatchVars, keptVars, webVars>>
        /\ by = "assistant" /\ AssistantNext
     \/ /\ UNCHANGED <<schedVars, poolsVars, observerVars, fileVars, dispatchVars, keptVars, assistantVars>>
        /\ \/ by = "hub" /\ UNCHANGED <<remoteVars, mirrorVars, dashboardVars>> /\ HubNext
           \/ by = "remote" /\ UNCHANGED <<hubVars, mirrorVars, dashboardVars>> /\ RemoteNext
           \/ by = "mirrors" /\ UNCHANGED <<hubVars, remoteVars, dashboardVars>> /\ MirrorNext
           \/ by = "dashboard" /\ UNCHANGED <<hubVars, remoteVars, mirrorVars>> /\ DashboardNext

PlatformSpec == PlatformInit /\ [][PlatformNext]_<<schedVars, poolsVars, observerVars, fileVars, dispatchVars, keptVars, assistantVars, webVars, by>>

-----------------------------------------------------------------------------
(* Properties. *)

\* Memory, quotas and the ledger of the task scheduler balance however many
\* cancel() calls meet: nothing is given out twice or given back twice, and a
\* cancelled task keeps nothing.
ResourcesBalance ==
  by = "scheduler" => SchedTypeOK /\ RamBalanced /\ CancelIsComplete /\ LedgerBounded

\* What is queued is neither lost, doubled nor overtaken in its lane, a pool
\* keeps its size over restarts, and what the dispatcher and the router report
\* of a job or a query is what became of it.
WorkReported ==
  /\ by = "lanes" => LanesFifo
  /\ by = "pool" => PoolSize
  /\ by = "vgpu" => JobsTrue
  /\ by = "router" => QueriesCounted

\* Every subscriber that was there at the start of publish() and is not taken
\* away sees the event, every client of the hub its messages in order, and the
\* audit log, its file, the collector and the health grades show what was.
ObserversTold ==
  /\ by = "events" => EveryHandlerCalled
  /\ by = "audit" => AuditIsSuffix
  /\ by = "collector" => OneCollector /\ HealthByThreshold
  /\ by = "hub" => HubDelivers

\* What is kept stays coherent: the tree of the VFS, the mount table, packages
\* under racing installs, volumes and their directories, writes and what they
\* return, plugins and what is loaded, the ranking of the index, and the history
\* of the conversation, whole exchanges within its limit, also over save and load.
StoresSound ==
  /\ by = "files" => TreeSound
  /\ by = "paths" => LongestPrefixWins
  /\ by = "packages" => NeverOlder
  /\ by = "volumes" => VolumesBacked
  /\ by = "store" => WritesTold
  /\ by = "plugins" => LoadedIsRegistered
  /\ by = "index" => TopSorted
  /\ by = "assistant" => HistoryPaired

\* The API answers only with the token; its start and stop settle, those of the
\* dashboard too, whose answers are true; and failover takes the best mirror
\* there is.
FrontsHold ==
  /\ by = "remote" => ApiGuarded /\ RemoteSettles
  /\ by = "mirrors" => FailoverIsBest
  /\ by = "dashboard" => StopSilences /\ AnswersTrue
=============================================================================
