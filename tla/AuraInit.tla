------------------------------ MODULE AuraInit ------------------------------
(***************************************************************************)
(* aura-init, the supervisor of aura/boot/aura_init.py.  The lock covers   *)
(* the reads and writes of a service's state; start_fn and stop_fn run     *)
(* outside it, so restart_service of one thread interleaves with start_all *)
(* and stop_all of the thread that boots and halts.                        *)
(***************************************************************************)
EXTENDS Integers, Sequences, FiniteSets

CONSTANTS
  Svc,           \* the names that may be registered
  NoSvc,         \* the service of a thread outside aura-init
  Thread,        \* the threads that call restart_service
  Boot,          \* the thread of start_all and stop_all
  OnFailure,     \* the services with restart_on_failure
  HasStop,       \* the services with a stop_fn
  MaxRestarts    \* ServiceDescriptor.max_restarts

ASSUME SupervisorAssumption == /\ Boot \notin Thread /\ NoSvc \notin Svc
                               /\ MaxRestarts \in Nat /\ IsFiniteSet(Thread)

VARIABLES
  order,      \* self._order
  svc,        \* ServiceDescriptor.state, "absent" before register()
  restarts,   \* ServiceDescriptor.restart_count
  up,         \* the services whose start_fn has taken effect
  call,       \* the call each thread is in
  pos,        \* where start_all or stop_all is in self._order
  allUp,      \* self._running
  overlapped, \* history: services with two calls in progress at once
  forced      \* history: services recorded stopped although stop_fn raised

initVars == <<order, svc, restarts, up, call, pos, allUp, overlapped, forced>>

Proc   == Thread \cup {Boot}
NoCall == [at |-> "idle", on |-> NoSvc, restart |-> FALSE]
Call   == [at : {"look", "stopFn", "stopMark", "startMark", "startFn", "started",
                 "startFailed", "check", "count", "resume"},
           on : Svc, restart : BOOLEAN]

Registered == {order[i] : i \in 1..Len(order)}

SupervisorInit ==
  /\ order = <<>> /\ svc = [s \in Svc |-> "absent"]
  /\ restarts = [s \in Svc |-> 0] /\ up = {}
  /\ call = [t \in Proc |-> NoCall] /\ pos = 0 /\ allUp = FALSE
  /\ overlapped = {} /\ forced = {}

Register(s) ==
  /\ svc[s] = "absent"
  /\ svc' = [svc EXCEPT ![s] = "stopped"]
  /\ order' = Append(order, s)
  /\ UNCHANGED <<restarts, up, call, pos, allUp, overlapped, forced>>

-----------------------------------------------------------------------------
(* _start_service and _stop_service, as thread t executes them. *)

Enter(t, s, where, again) ==
  /\ call[t] = NoCall
  /\ call' = [call EXCEPT ![t] = [at |-> where, on |-> s, restart |-> again]]
  /\ overlapped' = IF \E u \in Proc : call[u].on = s THEN overlapped \cup {s} ELSE overlapped

At(t, from)  == call[t].at = from
Go(t, to)    == call' = [call EXCEPT ![t] = [at |-> to, on |-> call[t].on, restart |-> call[t].restart]]
Return(t)    == call' = [call EXCEPT ![t] = NoCall]
Mark(t, st)  == svc' = [svc EXCEPT ![call[t].on] = st]

\* restart_service goes on with _start_service.
Stopped(t) == IF call[t].restart THEN Go(t, "startMark") ELSE Return(t)

Look(t) ==
  /\ At(t, "look")
  /\ IF svc[call[t].on] = "stopped" THEN Stopped(t)
     ELSE Go(t, IF call[t].on \in HasStop THEN "stopFn" ELSE "stopMark")
  /\ UNCHANGED <<svc, restarts, up, forced>>

StopFnReturns(t) ==
  /\ At(t, "stopFn") /\ Go(t, "stopMark")
  /\ up' = up \ {call[t].on}
  /\ UNCHANGED <<svc, restarts, forced>>

\* The service is recorded as stopped all the same.
StopFnRaises(t) ==
  /\ At(t, "stopFn") /\ Go(t, "stopMark")
  /\ forced' = forced \cup {call[t].on}
  /\ UNCHANGED <<svc, restarts, up>>

StopMark(t) ==
  /\ At(t, "stopMark") /\ Mark(t, "stopped") /\ Stopped(t)
  /\ UNCHANGED <<restarts, up, forced>>

StartMark(t) ==
  /\ At(t, "startMark") /\ Mark(t, "starting") /\ Go(t, "startFn")
  /\ UNCHANGED <<restarts, up, forced>>

StartFnReturns(t) ==
  /\ At(t, "startFn") /\ Go(t, "started")
  /\ up' = up \cup {call[t].on}
  /\ UNCHANGED <<svc, restarts, forced>>

StartFnRaises(t) ==
  /\ At(t, "startFn") /\ Go(t, "startFailed")
  /\ UNCHANGED <<svc, restarts, up, forced>>

Started(t) ==
  /\ At(t, "started") /\ Mark(t, "running") /\ Return(t)
  /\ UNCHANGED <<restarts, up, forced>>

StartFailed(t) ==
  /\ At(t, "startFailed") /\ Mark(t, "failed") /\ Go(t, "check")
  /\ UNCHANGED <<restarts, up, forced>>

\* Mutants of CheckBudget: one restart too few; the budget is not looked at.
CheckBudgetShort(t) ==
  /\ At(t, "check")
  /\ IF call[t].on \in OnFailure /\ restarts[call[t].on] < MaxRestarts - 1
     THEN Go(t, "count") ELSE Return(t)
  /\ UNCHANGED <<svc, restarts, up, forced>>
CheckNothing(t) ==
  /\ At(t, "check")
  /\ IF call[t].on \in OnFailure THEN Go(t, "resume") ELSE Return(t)
  /\ UNCHANGED <<svc, restarts, up, forced>>

\* The budget is read, and then used, without the lock; it is never renewed.
CheckBudget(t) ==
  /\ At(t, "check")
  /\ IF call[t].on \in OnFailure /\ restarts[call[t].on] < MaxRestarts
     THEN Go(t, "count") ELSE Return(t)
  /\ UNCHANGED <<svc, restarts, up, forced>>

CountRestart(t) ==
  /\ At(t, "count") /\ Go(t, "resume")
  /\ restarts' = [restarts EXCEPT ![call[t].on] = @ + 1]
  /\ UNCHANGED <<svc, up, forced>>

Resume(t) ==
  /\ At(t, "resume") /\ Mark(t, "restarting") /\ Go(t, "startMark")
  /\ UNCHANGED <<restarts, up, forced>>

ServiceStep(t) ==
  /\ \/ Look(t) \/ StopFnReturns(t) \/ StopFnRaises(t) \/ StopMark(t)
     \/ StartMark(t) \/ StartFnReturns(t) \/ StartFnRaises(t) \/ Started(t)
     \/ StartFailed(t) \/ CheckBudget(t) \/ CountRestart(t) \/ Resume(t)
  /\ UNCHANGED <<order, pos, allUp, overlapped>>

-----------------------------------------------------------------------------
(* restart_service, start_all and stop_all. *)

RestartService(t, s) ==
  /\ s \in Registered
  /\ Enter(t, s, "look", TRUE)
  /\ UNCHANGED <<order, svc, restarts, up, pos, allUp, forced>>

\* The iterator of start_all sees services that are appended meanwhile.
StartNext ==
  /\ pos < Len(order)
  /\ pos' = pos + 1
  /\ Enter(Boot, order[pos + 1], "startMark", FALSE)
  /\ UNCHANGED <<order, svc, restarts, up, allUp, forced>>

\* A service registered after this is not started, although start_all says so.
StartExhausted == call[Boot] = NoCall /\ pos = Len(order) /\ UNCHANGED initVars

AllStarted ==
  /\ allUp' = TRUE
  /\ UNCHANGED <<order, svc, restarts, up, call, pos, overlapped, forced>>

\* Mutant of StopFrom: one too far.
StopFromBeyond ==
  /\ pos' = Len(order) + 1
  /\ UNCHANGED <<order, svc, restarts, up, call, allUp, overlapped, forced>>

\* The one of stop_all starts from what was last when it was made.
StopFrom ==
  /\ pos' = Len(order)
  /\ UNCHANGED <<order, svc, restarts, up, call, allUp, overlapped, forced>>

StopNext ==
  /\ pos > 0
  /\ pos' = pos - 1
  /\ Enter(Boot, order[pos], "look", FALSE)
  /\ UNCHANGED <<order, svc, restarts, up, allUp, forced>>

AllStopped ==
  /\ call[Boot] = NoCall /\ pos = 0
  /\ allUp' = FALSE
  /\ UNCHANGED <<order, svc, restarts, up, call, pos, overlapped, forced>>

SupervisorTypeOK ==
  /\ order \in Seq(Svc)
  /\ svc \in [Svc -> {"absent", "stopped", "starting", "running", "failed", "restarting"}]
  /\ restarts \in [Svc -> Nat] /\ up \subseteq Svc
  /\ call \in [Proc -> Call \cup {NoCall}]
  /\ pos \in 0..Len(order) /\ allUp \in BOOLEAN
  /\ overlapped \subseteq Svc /\ forced \subseteq Svc
=============================================================================
