------------------------------ MODULE CpuCloud ------------------------------
(***************************************************************************)
(* The virtual CPU and the virtual cloud, coupled by the global EventBus:  *)
(* publish() calls the cloud's handler in the publishing thread, so the    *)
(* submitter's "cpu.task.submitted" and the worker's "cpu.task.completed"  *)
(* reach the cloud in either order.                                        *)
(***************************************************************************)
EXTENDS VirtualCPU, TLC

CONSTANTS Node, NoNode, FirstNodes, VCpus

ASSUME NodeAssumption == /\ NoNode \notin Node /\ FirstNodes \subseteq Node
                         /\ VCpus \in [Node -> Nat]

VARIABLES nodes, gone, used, nodeOf,
          overtaken    \* history: tasks whose finish was published before
                       \* their submission

Cloud == INSTANCE VirtualCloud

cloudVars == <<nodes, gone, used, nodeOf>>
allVars   == <<vars, cloudVars, overtaken>>

CoupledInit == Init /\ Cloud!CloudInit /\ overtaken = {}

\* EventBus.publish of "cpu.task.submitted" with the cloud subscribed.
Announce(t) ==
  SubmitPublish(t) /\ Cloud!OnTaskSubmitted(t) /\ UNCHANGED overtaken

\* EventBus.publish of "cpu.task.completed" and "cpu.task.failed".
AnnounceEnd(w) ==
  /\ PublishFinished(w)
  /\ Cloud!OnTaskFinished(hold[w])
  /\ overtaken' = IF sub[hold[w]] \in {"put", "raised"}
                  THEN overtaken \cup {hold[w]} ELSE overtaken

Quiet == \/ LifecycleStep
         \/ \E t \in Task : CallerQuiet(t)
         \/ \E w \in Worker : WorkerQuiet(w)

CoupledNext ==
  \/ Quiet /\ UNCHANGED <<cloudVars, overtaken>>
  \/ \E t \in Task : Announce(t)
  \/ \E w \in Worker : AnnounceEnd(w)
  \/ Cloud!CloudOperation /\ UNCHANGED <<vars, overtaken>>

CoupledSpec == CoupledInit /\ [][CoupledNext]_allVars

CoupledTypeOK == TypeOK /\ Cloud!CloudTypeOK /\ overtaken \subseteq Task

\* Both events of t have been handled by the cloud.
Settled(t) == /\ sub[t] = "done" /\ status[t] \in {"completed", "failed"}
              /\ ~\E w \in Worker : pc[w] = "publish" /\ hold[w] = t

BookedOn(n) == {t \in Task : nodeOf[t] = n}

\* A node is never shown busier than the tasks booked on it explain, nor
\* beyond its size: no handler releases or books twice (the saturating
\* updates of _on_task_submitted and _on_task_finished).
UsageExplained ==
  \A n \in nodes : used[n] <= Cardinality(BookedOn(n)) /\ used[n] <= VCpus[n]

\* The booking of a task that has finished is gone, and was not booked twice,
\* unless its two events reached the cloud in the wrong order.
ReleasedUnlessOvertaken ==
  \A t \in Task : Settled(t) /\ nodeOf[t] # NoNode => t \in overtaken

\* Node usage is in sync with the CPU: a finished task holds no node.
InSyncWhenSettled == \A t \in Task : Settled(t) => nodeOf[t] = NoNode

\* What the cloud books is well-formed and does not outlive its task.
BookingsSettle == CoupledTypeOK /\ ReleasedUnlessOvertaken

-----------------------------------------------------------------------------
(* Values of the constants for the configurations. *)

EvenPrio         == [t \in Task |-> 2]
OneVCpu          == [n \in Node |-> 1]
CpuCloudSymmetry == Permutations(Worker) \cup Permutations(Task)
=============================================================================
