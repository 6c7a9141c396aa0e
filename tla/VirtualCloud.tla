---------------------------- MODULE VirtualCloud ----------------------------
(***************************************************************************)
(* The compute nodes of aura/cloud/virtual_cloud.py and the two EventBus   *)
(* handlers that book a vCPU for a submitted CPU task and release it when  *)
(* the task has finished.  Each handler and each operation is one critical *)
(* section of self._lock.  Memory is booked by the same saturating         *)
(* arithmetic as vCPUs and is not modelled separately.                     *)
(***************************************************************************)
EXTENDS Integers

CONSTANTS
  Task,        \* the CPU tasks that events speak of
  Node,        \* the node ids that may ever be generated
  NoNode,      \* task_id not in self._task_node_map
  FirstNodes,  \* the nodes _provision_nodes creates
  VCpus        \* ComputeNode.vcpus of each node

VARIABLES
  nodes,       \* the keys of self._nodes, all ONLINE
  gone,        \* history: nodes removed; generate_id never reuses an id
  used,        \* used_vcpus of each node
  nodeOf       \* self._task_node_map

cloudVars == <<nodes, gone, used, nodeOf>>

CloudInit ==
  /\ nodes = FirstNodes /\ gone = {}
  /\ used = [n \in Node |-> 0]
  /\ nodeOf = [t \in Task |-> NoNode]

\* n's cpu_utilisation is at most m's; a node without vCPUs counts as idle.
LessLoaded(n, m) ==
  \/ VCpus[n] = 0
  \/ VCpus[m] # 0 /\ used[n] * VCpus[m] <= used[m] * VCpus[n]
  \/ VCpus[m] = 0 /\ used[n] = 0

Lower(a, b) == IF a < b THEN a ELSE b

OnTaskSubmitted(t) ==
  \/ /\ nodes = {} /\ UNCHANGED cloudVars
  \/ \E n \in nodes :
       /\ \A m \in nodes : LessLoaded(n, m)
       /\ used' = [used EXCEPT ![n] = Lower(@ + 1, VCpus[n])]
       /\ nodeOf' = [nodeOf EXCEPT ![t] = n]
       /\ UNCHANGED <<nodes, gone>>

\* Mutants of OnTaskFinished: usage never falls below one; the task stays in
\* the map.
OnTaskFinishedFloorOne(t) ==
  /\ nodeOf' = [nodeOf EXCEPT ![t] = NoNode]
  /\ used' = IF nodeOf[t] \in nodes /\ used[nodeOf[t]] > 1
             THEN [used EXCEPT ![nodeOf[t]] = @ - 1] ELSE used
  /\ UNCHANGED <<nodes, gone>>
OnTaskFinishedKeepsEntry(t) ==
  /\ used' = IF nodeOf[t] \in nodes /\ used[nodeOf[t]] > 0
             THEN [used EXCEPT ![nodeOf[t]] = @ - 1] ELSE used
  /\ UNCHANGED <<nodes, gone, nodeOf>>

OnTaskFinished(t) ==
  /\ nodeOf' = [nodeOf EXCEPT ![t] = NoNode]
  /\ used' = IF nodeOf[t] \in nodes /\ used[nodeOf[t]] > 0
             THEN [used EXCEPT ![nodeOf[t]] = @ - 1] ELSE used
  /\ UNCHANGED <<nodes, gone>>

\* Mutant of AddNode: ids are numbered by the number of nodes and come back.
AddNodeReusesId ==
  /\ \E n \in Node \ nodes : nodes' = nodes \cup {n}
  /\ UNCHANGED <<gone, used, nodeOf>>

AddNode ==
  /\ \E n \in Node \ (nodes \cup gone) : nodes' = nodes \cup {n}
  /\ UNCHANGED <<gone, used, nodeOf>>

\* The node disappears whatever tasks are booked on it; their entries stay.
RemoveNode(n) ==
  /\ n \in nodes
  /\ nodes' = nodes \ {n}
  /\ gone' = gone \cup {n}
  /\ UNCHANGED <<used, nodeOf>>

CloudOperation == AddNode \/ \E n \in Node : RemoveNode(n)

CloudTypeOK ==
  /\ nodes \subseteq Node /\ gone \subseteq Node /\ nodes \cap gone = {}
  /\ used \in [Node -> Nat]
  /\ nodeOf \in [Task -> Node \cup {NoNode}]
=============================================================================
