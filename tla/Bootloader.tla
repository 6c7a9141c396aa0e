----------------------------- MODULE Bootloader -----------------------------
(***************************************************************************)
(* The boot and halt sequences of aura/boot/bootloader.py over ROOT, HOME  *)
(* and aura-init, run by one thread, while other threads register services *)
(* and restart them.                                                       *)
(***************************************************************************)
EXTENDS Layers, AuraInit

VARIABLES
  boot,    \* Bootloader._state
  stage,   \* the stage of boot(), or the step of halt(), that comes next
  late     \* history: services restarted by a call that was in progress when
           \* halt() began, or began after it

bootVars == <<boot, stage, late>>

BootInit == SupervisorInit /\ boot = "cold" /\ stage = "none" /\ late = {}

\* A step of the sequence that leaves the layers and the services alone.
Quietly(from, to) ==
  /\ stage = from /\ stage' = to
  /\ UNCHANGED <<layerVars, initVars, boot, late>>

\* A step that is an operation of a layer.
Layered(from, to) ==
  /\ stage = from /\ stage' = to
  /\ UNCHANGED <<initVars, boot, late>>

\* A step of start_all or stop_all.
Supervised(from, to) ==
  /\ stage = from /\ stage' = to
  /\ UNCHANGED <<layerVars, boot, late>>

\* Stage FIRMWARE only logs; stage DEVICES raises unless ROOT is online.
BeginBoot ==
  /\ boot = "cold" /\ boot' = "booting"
  /\ stage' = "root"
  /\ UNCHANGED <<layerVars, initVars, late>>

Panic ==
  /\ boot' = "panic" /\ stage' = "none"
  /\ UNCHANGED <<layerVars, initVars, late>>

StageRoot        == Layered("root", "devices") /\ RootStart
StageDevices     == Quietly("devices", "home") /\ root
StageHome        == Layered("home", "mount") /\ HomeStart
StageHomeFails   == stage = "home" /\ Panic
StageMount       == Layered("mount", "init") /\ MountHome
StageInit        == Supervised("init", "init") /\ StartNext
StageInitDone    == Supervised("init", "report") /\ StartExhausted
StageInitReport  == Supervised("report", "shell") /\ AllStarted

Ready ==
  /\ stage = "shell" /\ stage' = "none" /\ boot' = "ready"
  /\ UNCHANGED <<layerVars, initVars, late>>

InProgress == {call[t].on : t \in Thread} \cap Svc

\* halt() after boot() has returned or raised.
BeginHalt ==
  /\ boot \in {"ready", "panic"} /\ stage = "none"
  /\ boot' = "halting" /\ stage' = "stop"
  /\ StopFrom
  /\ late' = late \cup InProgress
  /\ UNCHANGED layerVars

\* Mutant of HaltStopDone: halt does not wait for the supervisor.
HaltStopSkipped == Quietly("stop", "unmount")

HaltStop     == Supervised("stop", "stop") /\ StopNext
HaltStopDone == Supervised("stop", "unmount") /\ AllStopped
HaltUnmount  == Layered("unmount", "down") /\ UnmountHome
HaltRoot     == Layered("down", "halted") /\ RootStop

Halted ==
  /\ stage = "halted" /\ stage' = "none" /\ boot' = "halted"
  /\ UNCHANGED <<layerVars, initVars, late>>

BootStep ==
  \/ StageRoot \/ StageDevices \/ StageHome \/ StageHomeFails
  \/ StageMount \/ StageInit \/ StageInitDone \/ StageInitReport \/ Ready
  \/ HaltStop \/ HaltStopDone \/ HaltUnmount \/ HaltRoot \/ Halted
  \/ ServiceStep(Boot) /\ UNCHANGED <<layerVars, bootVars>>

\* restart_service of another thread.
Restart(t) ==
  /\ \E s \in Svc :
       /\ RestartService(t, s)
       /\ late' = IF boot \in {"halting", "halted"} THEN late \cup {s} ELSE late
  /\ UNCHANGED <<layerVars, boot, stage>>

ThreadStep(t) == ServiceStep(t) /\ UNCHANGED <<layerVars, bootVars>>

BootNext ==
  \/ BeginBoot \/ BeginHalt \/ BootStep
  \/ \E t \in Thread : Restart(t) \/ ThreadStep(t)
  \/ \E s \in Svc : Register(s) /\ UNCHANGED <<layerVars, bootVars>>

-----------------------------------------------------------------------------
(* Properties. *)

BootTypeOK ==
  /\ LayersTypeOK /\ SupervisorTypeOK /\ late \subseteq Svc
  /\ boot \in {"cold", "booting", "ready", "panic", "halting", "halted"}
  /\ stage \in {"none", "root", "devices", "home", "mount", "init", "report", "shell",
                "stop", "unmount", "down", "halted"}

\* The budget is exceeded by at most one restart for each thread that calls
\* restart_service; by none for a service on which two calls never overlapped.
\* Such a service, when no call on it is in progress, has a state that is the
\* truth, and has used up its budget if it is shown as failed (_start_service).
SupervisorSettled ==
  /\ \A s \in Svc : restarts[s] <= MaxRestarts + Cardinality(Thread)
  /\ \A s \in Registered \ overlapped :
    /\ restarts[s] <= MaxRestarts
    /\ (\A t \in Proc : call[t].on # s) =>
         /\ svc[s] \in {"stopped", "running", "failed"}
         /\ svc[s] = "running" => s \in up
         /\ svc[s] = "failed" /\ s \in OnFailure => restarts[s] = MaxRestarts

\* After halt() ROOT is offline, HOME is not mounted, and every service that
\* nobody restarted meanwhile is down if it has a stop_fn that did not raise.
HaltComplete ==
  boot = "halted" =>
    /\ ~root /\ ~mounted /\ ~allUp
    /\ \A s \in Svc \ late : svc[s] \in {"absent", "stopped"} /\ (s \in up \cap HasStop => s \in forced)

\* Every boot ends, READY or in PANIC, whatever fails and is restarted.
BootSettles == boot = "booting" ~> boot # "booting"

\* What the supervisor and halt() leave behind.
BootKept == SupervisorSettled /\ HaltComplete
=============================================================================
