---------------------------- MODULE MCKernelSide ----------------------------
(***************************************************************************)
(* What the kernel and HOME run for users: services, processes, channels,  *)
(* the log, the virtual node and HOME itself.  They do not call each       *)
(* other; a behaviour is one of each, chosen at the start.                 *)
(***************************************************************************)
EXTENDS ServiceManager, KernelTables, VNode, Home

VARIABLE by   \* the component that moves in this behaviour

sideVars == <<smVars, tableVars, vnodeVars, homeVars, by>>

SideInit ==
  /\ SMInit /\ ProcInit /\ IpcInit /\ LogInit /\ SecretInit
  /\ BeatInit /\ RegInit /\ MeshInit /\ IdInit /\ HomeInit
  /\ by \in {"services", "processes", "ipc", "log", "heartbeat", "registry", "mesh",
             "identity", "home"}

\* One component steps, and the others stay as they were at the start.
Services  == by = "services" /\ UNCHANGED <<tableVars, vnodeVars, homeVars, by>>
Processes == by = "processes" /\ UNCHANGED <<smVars, ipcVars, logVars, secret, vnodeVars, homeVars, by>>
Ipc       == by = "ipc" /\ UNCHANGED <<smVars, procVars, logVars, secret, vnodeVars, homeVars, by>>
SystemLog == by = "log" /\ UNCHANGED <<smVars, procVars, ipcVars, vnodeVars, homeVars, by>>
Heartbeat == by = "heartbeat" /\ UNCHANGED <<smVars, tableVars, regVars, meshVars, idVars, homeVars, by>>
Registry  == by = "registry" /\ UNCHANGED <<smVars, tableVars, beatVars, meshVars, idVars, homeVars, by>>
Mesh      == by = "mesh" /\ UNCHANGED <<smVars, tableVars, beatVars, regVars, idVars, homeVars, by>>
NodeId    == by = "identity" /\ UNCHANGED <<smVars, tableVars, beatVars, regVars, meshVars, homeVars, by>>
Userland  == by = "home" /\ UNCHANGED <<smVars, tableVars, vnodeVars, by>>

SideNext ==
  \/ Services /\ SMNext
  \/ Processes /\ ProcNext
  \/ Ipc /\ IpcNext
  \/ SystemLog /\ LogNext
  \/ Heartbeat /\ BeatNext
  \/ Registry /\ RegNext
  \/ Mesh /\ MeshNext
  \/ NodeId /\ IdNext
  \/ Userland /\ HomeNext

\* Threads are scheduled; start_fn, stop_fn and the requests of a heartbeat
\* (urlopen with a time-out) come back.
SideFair ==
  /\ \A t \in Thread : WF_sideVars(Services /\ CallStep(t))
  /\ \A b \in Beater : WF_sideVars(Heartbeat /\ BeatStep(b))

SideSpec == SideInit /\ [][SideNext]_sideVars /\ SideFair

-----------------------------------------------------------------------------
(* Properties. *)

\* The displayed state of services is true unless calls overlapped, and of
\* processes from the kill or the end of their thread on; no message, of a
\* channel or of the mesh, and no log entry is lost that should not be.
KernelTablesTrue ==
  /\ by = "services" => SMTypeOK /\ StateIsTruth
  /\ by \in {"processes", "ipc", "log"} =>
       TablesTypeOK /\ KillIsFinal /\ MessagesInOrder /\ LogIsSuffix
  /\ by = "mesh" => MeshAccounts

\* The node keeps its id, its registration and its heartbeat, and HOME its
\* processes and packages, through restarts and overlapping calls.
NodeAndHomeKept ==
  /\ by \in {"heartbeat", "registry", "mesh", "identity"} =>
       VNodeTypeOK /\ HeartbeatKept /\ RegistrationTrue /\ NodeKeepsId
  /\ by = "home" => HomeTypeOK /\ OfflineIsStopped /\ PackagesAreThere

\* A stopped heartbeat falls silent: unless it is started again, every thread
\* it had ends, that of a start() it has met too (start, stop, _loop).
HeartbeatEnds ==
  ~beatOn ~> (beatOn \/ \A b \in Beater : ~BeatAlive(b) /\ beatCall[b] \in {"no", "over"})
=============================================================================
