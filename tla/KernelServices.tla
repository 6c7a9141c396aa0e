---------------------------- MODULE KernelServices ----------------------------
(***************************************************************************)
(* The kernel services as aura/os_core/ai_os.py wires them: the service    *)
(* manager, whose service Cron has an empty start_fn and cron.stop as its  *)
(* stop_fn, and the cron service, which Main starts and stops directly.    *)
(* The other services share no state with these two.                       *)
(***************************************************************************)
EXTENDS CronService, ServiceManager

CONSTANTS Main,    \* the thread of AIOS.start and AIOS.stop
          Cron     \* the service "kernel-cron"

ASSUME WiringAssumption == /\ Caller = Thread \cup {Main} /\ Main \notin Thread
                           /\ Service = {Cron} /\ NoopStart = {Cron} /\ HasStop = {Cron}
                           /\ MaxLoops \in Nat /\ NoService # Cron

vars == <<cronVars, smVars>>

Init == CronInit /\ SMInit

\* AIOS and direct users of the CronService.
MainStep ==
  /\ \/ leaving[Main] = "no" /\ CronStart
     \/ StartStep
     \/ starting = "no" /\ StopFlag(Main)
     \/ StopStep(Main)
     \/ StopEnd(Main, "done") \/ StopEnd(Main, "raised")
  /\ UNCHANGED smVars

\* A thread in the stop_fn of Cron is in cron.stop().
CronStopStep(t) ==
  /\ At(t, "stopFn")
  /\ \/ (StopFlag(t) \/ StopStep(t)) /\ UNCHANGED smVars
     \/ StopEnd(t, "done") /\ StopReturns(t)
     \/ StopEnd(t, "raised") /\ StopRaises(t)

ThreadStep(t) == \/ CronStopStep(t)
                 \/ InnerStep(t) /\ UNCHANGED cronVars

\* AIOS.start registers the services once it has started the cron service.
Commanded ==
  /\ state[Cron] = "none" => starting = "no" /\ \E l \in Loop : pc[l] # "off"
  /\ Command
  /\ UNCHANGED cronVars

Next == \/ MainStep
        \/ \E t \in Thread : ThreadStep(t)
        \/ Commanded
        \/ RegistryStep /\ UNCHANGED smVars
        \/ \E l \in Loop : LoopStep(l) /\ UNCHANGED smVars

Spec == Init /\ [][Next]_vars

\* Threads are scheduled, that of a start() in progress too, jobs and the
\* callables of services end, and join returns after its timeout at the latest.
FairSpec == /\ Spec
            /\ WF_vars(StartStep /\ UNCHANGED smVars)
            /\ \A l \in Loop : WF_vars(LoopStep(l) /\ UNCHANGED smVars)
            /\ \A t \in Thread : WF_vars(ThreadStep(t))

-----------------------------------------------------------------------------
(* Properties. *)

TypeOK == CronTypeOK /\ SMTypeOK

\* A due job is executed while the cron service runs and the job is enabled,
\* unless a job has taken the loop's thread with it, or a start() has raised
\* because a stop() took the thread it was about to start.
DueJobsFire ==
  \A j \in Job : (running /\ job[j] = "on" /\ j \in ripe) ~>
    \/ j \notin ripe \/ job[j] # "on" \/ ~running \/ \E l \in Loop : pc[l] \in {"dead", "lost"}

\* What restart_service reports: a cron service that has been started runs
\* after its restart, unless AIOS stops it meanwhile.
RestartRevives ==
  [][\A t \in Thread :
       (/\ At(t, "started") /\ call[t].on = Cron /\ call[t].restart
        /\ call'[t] = NoCall
        /\ leaving[Main] = "no" /\ starting = "no"
        /\ \E l \in Loop : pc[l] # "off") => running]_vars
=============================================================================
