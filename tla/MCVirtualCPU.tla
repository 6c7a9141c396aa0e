---------------------------- MODULE MCVirtualCPU ----------------------------
(***************************************************************************)
(* Model-checking instances of VirtualCPU, and its refinement of           *)
(* TaskExecutor.                                                           *)
(***************************************************************************)
EXTENDS VirtualCPU, TLC

CONSTANTS t1, t2

\* One task that ties with the poison pills, and one ordinary task.
MCPrio == (t1 :> 0) @@ (t2 :> 2)

WorkerSymmetry == Permutations(Worker)

-----------------------------------------------------------------------------
Held(t)      == \E w \in Worker : hold[w] = t
Executing(t) == \E w \in Worker : hold[w] = t /\ pc[w] = "run"
Waiting(t)   == sub[t] = "registered" \/ t \in queue \/ Held(t)

\* Where the executor has each task.
Phase(t) ==
  CASE sub[t] = "no"                                    -> "new"
    [] runs[t] > 0 /\ Executing(t)                      -> "executing"
    [] runs[t] > 0 /\ ~Executing(t)                     -> "ended"
    [] sub[t] # "no" /\ runs[t] = 0 /\ ack[t] = "early" -> "withdrawn"
    [] /\ sub[t] # "no" /\ runs[t] = 0 /\ ack[t] # "early"
       /\ Waiting(t)                                    -> "pending"
    [] OTHER                                            -> "dropped"

Result(t) == IF Phase(t) # "ended" THEN "none"
             ELSE IF status[t] = "running" THEN "lost" ELSE status[t]

Executor == INSTANCE TaskExecutor
  WITH Slot     <- Worker,
       phase    <- [t \in Task |-> Phase(t)],
       result   <- [t \in Task |-> Result(t)],
       closed   <- stops > 0

\* The virtual CPU implements the task executor its callers rely on.
ImplementsExecutor == Executor!Spec
=============================================================================
