---------------------------- MODULE ServiceManager ----------------------------
(***************************************************************************)
(* The service manager of aura/kernel/service_manager.py.  The lock covers *)
(* the reads and writes of a service's record, not the calls of start_fn   *)
(* and stop_fn, so the operations of several threads on one service        *)
(* interleave.  restart_count, which is only displayed, is left out.       *)
(***************************************************************************)
EXTENDS Integers

CONSTANTS
  Service,          \* the names that may be registered
  NoService,        \* the service of a thread outside the manager
  Thread,           \* the threads that call the manager
  AutoRestart,      \* the services with auto_restart
  NoopStart,        \* the services whose start_fn does nothing (ai_os.py)
  HasStop,          \* the services with a stop_fn
  MaxAutoRestarts   \* _MAX_AUTO_RESTARTS

ASSUME ManagerAssumption == NoService \notin Service /\ MaxAutoRestarts \in Nat

VARIABLES
  state,      \* svc["state"], "none" before register()
  up,         \* whether what the service stands for is running
  call,       \* the call each thread is in
  overlapped  \* history: services with two calls in progress at once

smVars == <<state, up, call, overlapped>>

Place == {"stopFn", "stopped", "stopFailed", "startFn", "started", "startFailed", "again"}

\* Where the call is, on which service, whether it is restart_service and the
\* _retry argument of start_service.
Call == [at : Place, on : Service, restart : BOOLEAN, retry : 0..MaxAutoRestarts]
NoCall == [at |-> "idle", on |-> NoService, restart |-> FALSE, retry |-> 0]

SMInit ==
  /\ state = [s \in Service |-> "none"]
  /\ up = [s \in Service |-> s \in NoopStart]
  /\ call = [t \in Thread |-> NoCall]
  /\ overlapped = {}

Register(s) ==
  /\ state[s] = "none"
  /\ state' = [state EXCEPT ![s] = "inactive"]
  /\ UNCHANGED <<up, call, overlapped>>

\* A call on a registered service enters the manager; others return False.
Enter(t, s, where, again) ==
  /\ call[t] = NoCall /\ state[s] # "none"
  /\ call' = [call EXCEPT ![t] = [at |-> where, on |-> s, restart |-> again, retry |-> 0]]
  /\ overlapped' = IF \E u \in Thread : call[u].on = s THEN overlapped \cup {s} ELSE overlapped
  /\ UNCHANGED <<state, up>>

StopEntry(s) == IF s \in HasStop THEN "stopFn" ELSE "stopped"

StartService(t, s)   == Enter(t, s, "startFn", FALSE)
StopService(t, s)    == Enter(t, s, StopEntry(s), FALSE)
RestartService(t, s) == Enter(t, s, StopEntry(s), TRUE)

At(t, from)   == call[t].at = from
Move(t, to)   == call' = [call EXCEPT ![t].at = to]
Return(t)     == call' = [call EXCEPT ![t] = NoCall]
Record(t, st) == state' = [state EXCEPT ![call[t].on] = st]

\* stop_fn returns or raises.
StopReturns(t) ==
  /\ At(t, "stopFn") /\ Move(t, "stopped")
  /\ up' = [up EXCEPT ![call[t].on] = FALSE]
  /\ UNCHANGED <<state, overlapped>>

StopRaises(t) ==
  /\ At(t, "stopFn") /\ Move(t, "stopFailed")
  /\ UNCHANGED <<state, up, overlapped>>

\* Mutant of StopRecorded: an exception of stop_fn is not looked at.
StopRecordedInactive(t) ==
  /\ At(t, "stopped") \/ At(t, "stopFailed")
  /\ Record(t, "inactive")
  /\ IF call[t].restart THEN Move(t, "startFn") ELSE Return(t)
  /\ UNCHANGED <<up, overlapped>>

\* restart_service goes on with start_service whatever stop_service returned.
StopRecorded(t) ==
  /\ \/ At(t, "stopped") /\ Record(t, "inactive")
     \/ At(t, "stopFailed") /\ Record(t, "failed")
  /\ IF call[t].restart THEN Move(t, "startFn") ELSE Return(t)
  /\ UNCHANGED <<up, overlapped>>

StartReturns(t) ==
  /\ At(t, "startFn") /\ Move(t, "started")
  /\ up' = IF call[t].on \in NoopStart THEN up ELSE [up EXCEPT ![call[t].on] = TRUE]
  /\ UNCHANGED <<state, overlapped>>

StartRaises(t) ==
  /\ call[t].on \notin NoopStart
  /\ At(t, "startFn") /\ Move(t, "startFailed")
  /\ UNCHANGED <<state, up, overlapped>>

StartRecorded(t) ==
  /\ At(t, "started") /\ Record(t, "active") /\ Return(t)
  /\ UNCHANGED <<up, overlapped>>

\* Mutant of StartFailed: one attempt too many.
StartFailedOneMore(t) ==
  /\ At(t, "startFailed") /\ Record(t, "failed")
  /\ IF call[t].on \in AutoRestart /\ call[t].retry <= MaxAutoRestarts
     THEN Move(t, "again") ELSE Return(t)
  /\ UNCHANGED <<up, overlapped>>

StartFailed(t) ==
  /\ At(t, "startFailed") /\ Record(t, "failed")
  /\ IF call[t].on \in AutoRestart /\ call[t].retry < MaxAutoRestarts
     THEN Move(t, "again") ELSE Return(t)
  /\ UNCHANGED <<up, overlapped>>

\* Mutant of StartAgain: the recursive call does not count its attempts.
StartAgainForever(t) ==
  /\ At(t, "again") /\ Move(t, "startFn")
  /\ UNCHANGED <<state, up, overlapped>>

\* auto_restart: start_service calls itself with _retry + 1.
StartAgain(t) ==
  /\ At(t, "again")
  /\ call' = [call EXCEPT ![t].at = "startFn", ![t].retry = @ + 1]
  /\ UNCHANGED <<state, up, overlapped>>

\* What a call does between and after the calls of stop_fn.
InnerStep(t) ==
  \/ StopRecorded(t) \/ StartReturns(t) \/ StartRaises(t)
  \/ StartRecorded(t) \/ StartFailed(t) \/ StartAgain(t)

\* "svc start", "svc stop" and "svc restart", and registration at boot.
Command == \/ \E s \in Service : Register(s)
           \/ \E t \in Thread, s \in Service :
                StartService(t, s) \/ StopService(t, s) \/ RestartService(t, s)

CallStep(t) == InnerStep(t) \/ StopReturns(t) \/ StopRaises(t)

SMNext == Command \/ \E t \in Thread : CallStep(t)

SMSpec == SMInit /\ [][SMNext]_smVars

\* Threads are scheduled, and start_fn and stop_fn return.
SMFairSpec == SMSpec /\ \A t \in Thread : WF_smVars(CallStep(t))

-----------------------------------------------------------------------------
(* Properties. *)

SMTypeOK ==
  /\ state \in [Service -> {"none", "inactive", "active", "failed"}]
  /\ up \in [Service -> BOOLEAN]
  /\ call \in [Thread -> Call \cup {NoCall}]
  /\ overlapped \subseteq Service

\* The state shown for a service is the truth whenever no call on it is in
\* progress, as long as calls on it never overlapped and its start_fn is not
\* the empty one of ai_os.py.  "failed" promises nothing: stop_fn may raise
\* before or after it has stopped the service.
StateIsTruth ==
  \A s \in Service \ (overlapped \cup NoopStart) :
    (\A t \in Thread : call[t].on # s) =>
      /\ state[s] = "active" => up[s]
      /\ state[s] = "inactive" /\ s \in HasStop => ~up[s]

\* Every call of the service manager returns: the chain of automatic restarts
\* of a service that keeps failing ends.
CallsReturn == \A t \in Thread : call[t] # NoCall ~> call[t] = NoCall
=============================================================================
