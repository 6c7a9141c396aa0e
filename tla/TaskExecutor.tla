---------------------------- MODULE TaskExecutor ----------------------------
(***************************************************************************)
(* What the virtual CPU promises its callers, without threads or a queue:  *)
(* an accepted task is executed at most once, each in a slot of its own    *)
(* while it is, a task withdrawn in time is never executed, the result of  *)
(* a task never changes once it has ended, and a task is lost only if the  *)
(* executor was told to stop.                                              *)
(***************************************************************************)
CONSTANTS Task,
          Slot    \* what executes tasks, one at a time

VARIABLES phase,    \* where each task is
          result,   \* how each task ended
          closed    \* TRUE once stop() has been called

vars == <<phase, result, closed>>

Init == /\ phase = [t \in Task |-> "new"]
        /\ result = [t \in Task |-> "none"]
        /\ closed = FALSE

Move(t, from, to) == phase[t] = from /\ phase' = [phase EXCEPT ![t] = to]

Accept(t) == Move(t, "new", "pending") /\ UNCHANGED <<result, closed>>

\* A task the executor has lost can still be withdrawn.
Withdraw(t) == /\ \/ Move(t, "pending", "withdrawn")
                  \/ Move(t, "dropped", "withdrawn")
               /\ UNCHANGED <<result, closed>>

\* There is a slot for each of these tasks.
Fit(S) == \E slot \in [S -> Slot] : \A u, v \in S : slot[u] = slot[v] => u = v

Begin(t) == /\ Fit({u \in Task : phase[u] = "executing"} \cup {t})
            /\ Move(t, "pending", "executing")
            /\ UNCHANGED <<result, closed>>

End(t) == /\ Move(t, "executing", "ended")
          /\ \E r \in {"completed", "failed", "lost"} :
               result' = [result EXCEPT ![t] = r]
          /\ UNCHANGED closed

Drop(t) == closed /\ Move(t, "pending", "dropped") /\ UNCHANGED <<result, closed>>

Close == closed' = TRUE /\ UNCHANGED <<phase, result>>

Next == \/ Close
        \/ \E t \in Task : \/ Accept(t) \/ Withdraw(t) \/ Begin(t)
                           \/ End(t) \/ Drop(t)

Spec == Init /\ [][Next]_vars
=============================================================================
