--------------------------- MODULE AiosLifecycle ---------------------------
(***************************************************************************)
(* AIOS.start and AIOS.stop of aura/os_core/ai_os.py as aura/main.py calls *)
(* them, all in the main thread: start, the command that is run, and stop  *)
(* in the finally clause.  The handler of SIGINT and SIGTERM also calls    *)
(* stop, in the same thread, between any two steps of what it interrupts,  *)
(* a call of stop included, and then leaves by SystemExit.                 *)
(***************************************************************************)
EXTENDS Layers, Integers, Sequences

CONSTANT MaxSignals   \* bound: signals that arrive

ASSUME SignalAssumption == MaxSignals \in Nat

VARIABLES
  running,   \* AIOS._running
  online,    \* the parts other than the layers that are started
  begun,     \* how many steps of start() are done
  made,      \* AIOS._remote_server is not None
  main,      \* what the main thread executes, interruptions aside
  frames,    \* the calls of stop() in progress, each interrupted by the next
  hung,      \* the main thread waits for a lock that it holds itself
  signals,   \* signals that have arrived
  outcome    \* how the process ended, "caught" if a command hid a failed stop()

aiosVars == <<running, online, begun, made, main, frames, hung, signals, outcome>>

StartOrder == <<"persistence", "cron", "root", "cpu", "server", "home", "mount",
                "router", "heartbeat", "remote">>

\* Mutant of StopOrder: ROOT goes down before the CPU.
StopOrderRootEarly ==
  <<"state", "heartbeat", "remote", "cron", "audit", "server", "router",
    "unmount", "root", "cpu", "persistence">>

StopOrder  == <<"state", "heartbeat", "remote", "cron", "audit", "server", "router",
                "cpu", "unmount", "root", "persistence">>

Layer == {"root", "home", "mount", "unmount"}
Part  == {StartOrder[i] : i \in 1..Len(StartOrder)} \ Layer

StartMayRaise == {"persistence", "server", "home", "remote"}   \* the database, ports, files
StopMayRaise  == {"audit", "cpu"}          \* makedirs; the queue of CRITICAL tasks

\* Steps of stop() that take a lock which is not reentrant, their own or that
\* of the event bus.
Locking == {i \in 1..Len(StopOrder) :
              StopOrder[i] \in {"state", "remote", "server", "router", "cpu", "unmount", "root",
                               "persistence"}}

AiosInit ==
  /\ running = FALSE /\ online = {} /\ begun = 0 /\ made = FALSE /\ main = "starting"
  /\ frames = <<>> /\ hung = FALSE /\ signals = 0 /\ outcome = "none"

-----------------------------------------------------------------------------
(* start() and the command that main() runs. *)

End(how) == main' = "ended" /\ frames' = <<>> /\ outcome' = how

Bring(c) ==
  /\ online' = online \cup ({c} \cap Part)
  /\ \/ c = "root" /\ RootStart
     \/ c = "home" /\ HomeStart
     \/ c = "mount" /\ MountHome
     \/ c \in Part /\ UNCHANGED layerVars

StartStep ==
  /\ main = "starting" /\ begun < Len(StartOrder)
  /\ Bring(StartOrder[begun + 1])
  /\ begun' = begun + 1 /\ made' = (StartOrder[begun + 1] = "remote")
  /\ UNCHANGED <<running, main, frames, hung, signals, outcome>>

\* The remote control server is off by default.
StartWithoutRemote ==
  /\ main = "starting" /\ begun = Len(StartOrder) - 1
  /\ begun' = begun + 1
  /\ UNCHANGED <<layerVars, running, online, made, main, frames, hung, signals, outcome>>

\* start() is outside the try statement of main().
StartFails ==
  /\ main = "starting" /\ begun < Len(StartOrder)
  /\ StartOrder[begun + 1] \in StartMayRaise
  /\ End("raised")
  /\ UNCHANGED <<layerVars, running, online, begun, made, hung, signals>>

StartDone ==
  /\ main = "starting" /\ begun = Len(StartOrder)
  /\ running' = TRUE /\ main' = "body"
  /\ UNCHANGED <<layerVars, online, begun, made, frames, hung, signals, outcome>>

InBody == main = "body" /\ frames = <<>> /\ ~hung

\* "svc stop" and "remote stop" of the shell.
StopPart(c) ==
  /\ InBody /\ c \in {"cpu", "cron", "remote"}
  /\ online' = online \ {c}
  /\ UNCHANGED <<layerVars, running, begun, made, main, frames, hung, signals, outcome>>

\* "remote start" creates the server once, and the port may be taken.
StartRemote ==
  /\ InBody /\ ~made /\ made' = TRUE
  /\ online' \in {online, online \cup {"remote"}}
  /\ UNCHANGED <<layerVars, running, begun, main, frames, hung, signals, outcome>>

Frame(b) == [at |-> 1, block |-> b]

\* The command ends or raises: stop() of the finally clause.
Leave ==
  /\ InBody
  /\ main' = "finally" /\ frames' = <<Frame(0)>>
  /\ UNCHANGED <<layerVars, running, online, begun, made, hung, signals, outcome>>

-----------------------------------------------------------------------------
(* stop(), called by the finally clause or by a handler. *)

Top == frames[Len(frames)]

\* What the handler interrupts may hold a lock that its stop() needs.
MayBlock == frames = <<>> \/ Top.at \in Locking

\* Mutant of Signal: the handler takes note of the signal and returns.
SignalNoted ==
  /\ main \in {"body", "finally"} /\ ~hung /\ signals < MaxSignals /\ running
  /\ signals' = signals + 1
  /\ UNCHANGED <<layerVars, running, online, begun, made, main, frames, hung, outcome>>

Signal ==
  /\ main \in {"body", "finally"} /\ ~hung /\ signals < MaxSignals /\ running
  /\ signals' = signals + 1
  /\ \E b \in IF MayBlock THEN Locking \cup {0} ELSE {0} : frames' = Append(frames, Frame(b))
  /\ UNCHANGED <<layerVars, running, online, begun, made, main, hung, outcome>>

\* stop() returns at once, and the handler leaves by SystemExit.
SignalWhenStopped ==
  /\ main \in {"body", "finally"} /\ ~hung /\ signals < MaxSignals /\ ~running
  /\ signals' = signals + 1 /\ End("clean")
  /\ UNCHANGED <<layerVars, running, online, begun, made, hung>>

Stopping == frames # <<>> /\ ~hung /\ Top.at <= Len(StopOrder)

Take(c) ==
  /\ online' = online \ {c}
  /\ \/ c = "unmount" /\ UnmountHome
     \/ c = "root" /\ RootStop
     \/ c \notin Layer /\ UNCHANGED layerVars

\* Mutant of StopStep: stop() clears _running as it begins.
StopStepClearing ==
  /\ Stopping /\ Top.block # Top.at
  /\ Take(StopOrder[Top.at]) /\ running' = FALSE
  /\ frames' = [frames EXCEPT ![Len(frames)].at = @ + 1]
  /\ UNCHANGED <<begun, made, main, hung, signals, outcome>>

StopStep ==
  /\ Stopping /\ Top.block # Top.at
  /\ Take(StopOrder[Top.at])
  /\ frames' = [frames EXCEPT ![Len(frames)].at = @ + 1]
  /\ UNCHANGED <<running, begun, made, main, hung, signals, outcome>>

StopHangs ==
  /\ Stopping /\ Top.block = Top.at
  /\ hung' = TRUE
  /\ UNCHANGED <<layerVars, running, online, begun, made, main, frames, signals, outcome>>

\* The exception leaves every interrupted call of stop().  The shell hides one
\* that reaches a command; from anywhere else in main() it leads to finally.
StopRaises ==
  /\ Stopping /\ StopOrder[Top.at] \in StopMayRaise
  /\ \/ main = "finally" /\ End("raised")
     \/ main = "body" /\ main' = "body" /\ frames' = <<>> /\ outcome' = "caught"
     \/ main = "body" /\ main' = "finally" /\ frames' = <<Frame(0)>> /\ outcome' = outcome
  /\ UNCHANGED <<layerVars, running, online, begun, made, hung, signals>>

StopClears ==
  /\ frames # <<>> /\ ~hung /\ Top.at = Len(StopOrder) + 1
  /\ running' = FALSE
  /\ frames' = [frames EXCEPT ![Len(frames)].at = @ + 1]
  /\ UNCHANGED <<layerVars, online, begun, made, main, hung, signals, outcome>>

\* The finally clause is done, or the handler leaves by SystemExit: what it
\* interrupted does not go on, and stop() of the finally clause returns at once.
StopDone ==
  /\ frames # <<>> /\ ~hung /\ Top.at = Len(StopOrder) + 2
  /\ End("clean")
  /\ UNCHANGED <<layerVars, running, online, begun, made, hung, signals>>

AiosStep == StartStep \/ StartWithoutRemote \/ StartDone \/ StopStep \/ StopHangs \/ StopClears \/ StopDone

AiosNext ==
  \/ AiosStep \/ StartFails \/ StartRemote \/ Leave \/ Signal \/ SignalWhenStopped \/ StopRaises
  \/ \E c \in Part : StopPart(c)

-----------------------------------------------------------------------------
(* Properties. *)

AiosTypeOK ==
  /\ running \in BOOLEAN /\ online \subseteq Part /\ begun \in 0..Len(StartOrder)
  /\ made \in BOOLEAN /\ hung \in BOOLEAN /\ signals \in 0..MaxSignals
  /\ main \in {"starting", "body", "finally", "ended"}
  /\ frames \in Seq([at : 1..(Len(StopOrder) + 2), block : Locking \cup {0}])
  /\ outcome \in {"none", "clean", "raised", "caught"}

\* "Gracefully shut down all virtual components": unless stop() raised, the
\* process ends with every part but HOME down, however often a handler that
\* calls stop() interrupts stop().
CleanEnd == main = "ended" /\ outcome = "clean" => online = {} /\ ~root /\ ~mounted

\* "shut down last": the servers, the CPU, the router and the mounted HOME are
\* up only while ROOT is, in start() and through every interrupted stop(), until
\* the shell hides that a handler's stop() failed and may start a server again.
RootOutlives ==
  online \cap {"cpu", "server", "router", "remote"} # {} \/ mounted
    => root \/ outcome = "caught"

\* "graceful shutdown": after a signal the process ends, unless the handler
\* waits for a lock of what it interrupted or the shell hides its exception.
SignalEnds == signals > 0 ~> main = "ended" \/ hung \/ outcome = "caught"
=============================================================================
