------------------------------ MODULE Observers ------------------------------
(***************************************************************************)
(* What watches the system: the event bus of aura/utils, the audit log of  *)
(* aura/governance that listens to it, and the collector and the health    *)
(* probe of aura/metrics.                                                  *)
(***************************************************************************)
EXTENDS Lists

CONSTANTS
  Handler,      \* the callbacks of one event type
  Publisher,    \* threads that publish it
  MaxSubs,      \* bound on the subscriptions of it
  MaxEvents,    \* bound on the events published
  MaxWritten,   \* bound on the events audited
  AuditMax,     \* max_entries of the audit log
  Collector     \* the threads that start() of the collector may make

ASSUME ObserversAssumption == /\ {MaxSubs, MaxEvents, MaxWritten} \subseteq Nat /\ AuditMax \in Nat \ {0}
                               /\ "none" \notin Collector

VARIABLES
  subscribers,  \* EventBus._subscribers of the event type, in order
  publishing,   \* the handlers each publisher still has to call, and its event
  events,       \* history: the number of events published
  due,          \* history, per event: the handlers there were at publish(), up to
                \* one that raised a BaseException
  called,       \* history, per event: the handlers that were called
  audit,        \* AuditLog._events, numbered as written
  written,      \* history: the number of events written in this run
  flush,        \* where flush_to_disk is, and the copy it writes
  file,         \* audit.jsonl
  stopFlag,     \* MetricsCollector._stop_event
  collector,    \* where each collector thread is
  current       \* MetricsCollector._thread, "none" at first

busVars == <<subscribers, publishing, events, due, called>>
auditVars == <<audit, written, flush, file>>
collectorVars == <<stopFlag, collector, current>>

-----------------------------------------------------------------------------
(* Event bus. *)

Quiet == [event |-> 0, left |-> <<>>]
EventInit == /\ subscribers = <<>> /\ publishing = [p \in Publisher |-> Quiet]
             /\ events = 0 /\ due = <<>> /\ called = <<>>

Subscribe(h)   == /\ Len(subscribers) < MaxSubs /\ subscribers' = Append(subscribers, h)
                  /\ UNCHANGED <<publishing, events, due, called>>
\* All the subscriptions of the callback go.
Unsubscribe(h) == /\ subscribers' = Kept(subscribers, Handler \ {h})
                  /\ UNCHANGED <<publishing, events, due, called>>

\* publish() copies the list under the lock and calls outside it.
Publish(p) ==
  /\ publishing[p] = Quiet /\ events < MaxEvents /\ events' = events + 1
  /\ publishing' = [publishing EXCEPT ![p] = [event |-> events + 1, left |-> subscribers]]
  /\ due' = Append(due, subscribers) /\ called' = Append(called, <<>>)
  /\ UNCHANGED subscribers

\* Mutant of CallHandler: an exception ends the round.
CallHandlerBreak(p) ==
  LET now == publishing[p]
  IN  /\ now.left # <<>>
      /\ called' = [called EXCEPT ![now.event] = Append(@, Head(now.left))]
      /\ publishing' = [publishing EXCEPT ![p].left = <<>>]
      /\ UNCHANGED <<subscribers, events, due>>

\* A handler returns, or raises an Exception that is logged; then the next.
CallHandler(p) ==
  LET now == publishing[p]
  IN  /\ now.left # <<>>
      /\ called' = [called EXCEPT ![now.event] = Append(@, Head(now.left))]
      /\ publishing' = [publishing EXCEPT ![p].left = Tail(@)]
      /\ UNCHANGED <<subscribers, events, due>>

\* It raises a BaseException, say from a signal: it goes through publish(), and
\* the handlers that are left are owed nothing.
HandlerExits(p) ==
  LET now  == publishing[p]
      done == Append(called[now.event], Head(now.left))
  IN  /\ now.left # <<>> /\ called' = [called EXCEPT ![now.event] = done]
      /\ due' = [due EXCEPT ![now.event] = SubSeq(@, 1, Len(done))]
      /\ publishing' = [publishing EXCEPT ![p].left = <<>>]
      /\ UNCHANGED <<subscribers, events>>

PublishEnds(p) == /\ publishing[p].event > 0 /\ publishing[p].left = <<>>
                  /\ publishing' = [publishing EXCEPT ![p] = Quiet]
                  /\ UNCHANGED <<subscribers, events, due, called>>

EventNext == \/ \E h \in Handler : Subscribe(h) \/ Unsubscribe(h)
             \/ \E p \in Publisher : Publish(p) \/ CallHandler(p) \/ HandlerExits(p) \/ PublishEnds(p)

-----------------------------------------------------------------------------
(* Audit log.  The three kinds of events it listens to are written alike. *)

AuditInit == /\ audit = <<>> /\ written = 0 /\ file = <<>>
             /\ flush = [at |-> "no", copy |-> <<>>]

\* Mutant of WriteAudit: the slice drops one entry too many.
WriteAuditShort ==
  /\ written < MaxWritten /\ written' = written + 1
  /\ LET es == Append(audit, written + 1)
     IN  audit' = IF Len(es) >= AuditMax THEN Tail(es) ELSE es
  /\ UNCHANGED <<flush, file>>

WriteAudit ==
  /\ written < MaxWritten /\ written' = written + 1
  /\ LET es == Append(audit, written + 1)
     IN  audit' = IF Len(es) > AuditMax THEN Tail(es) ELSE es
  /\ UNCHANGED <<flush, file>>

\* flush_to_disk() copies under the lock, then empties the file and writes
\* line by line; an OSError or the end of the process may come anywhere.
FlushCopy == /\ flush.at = "no" /\ flush' = [at |-> "copied", copy |-> audit]
             /\ UNCHANGED <<audit, written, file>>
FlushOpen == /\ flush.at = "copied" /\ flush' = [flush EXCEPT !.at = "open"]
             /\ file' = <<>> /\ UNCHANGED <<audit, written>>
FlushLine == /\ flush.at = "open" /\ Len(file) < Len(flush.copy)
             /\ file' = Append(file, flush.copy[Len(file) + 1]) /\ UNCHANGED <<audit, written, flush>>
FlushDone == /\ flush.at = "open" /\ Len(file) = Len(flush.copy)
             /\ flush' = [flush EXCEPT !.at = "no"] /\ UNCHANGED <<audit, written, file>>
FlushFails == /\ flush.at \in {"copied", "open"} /\ flush' = [flush EXCEPT !.at = "no"]
              /\ UNCHANGED <<audit, written, file>>
AuditNext == WriteAudit \/ FlushCopy \/ FlushOpen \/ FlushLine \/ FlushDone \/ FlushFails

-----------------------------------------------------------------------------
(* Collector: one thread starts and stops it. *)

CollectorInit == /\ stopFlag = FALSE /\ current = "none"
                 /\ collector = [c \in Collector |-> "new"]
Collecting(c) == collector[c] \in {"look", "collect", "wait"}

\* Mutant of CollectorStart: the thread that is there is not asked.
CollectorStartAnew ==
  /\ stopFlag' = FALSE
  /\ \E c \in Collector : /\ collector[c] = "new" /\ current' = c
                          /\ collector' = [collector EXCEPT ![c] = "look"]

\* A thread that outlived its stop() makes start() do nothing.
CollectorStart ==
  /\ current # "none" => ~Collecting(current)
  /\ stopFlag' = FALSE
  /\ \E c \in Collector : /\ collector[c] = "new" /\ current' = c
                          /\ collector' = [collector EXCEPT ![c] = "look"]
\* The join gives up after a time.
CollectorStop == ~stopFlag /\ stopFlag' = TRUE /\ UNCHANGED <<collector, current>>
Collect(c) ==
  /\ Collecting(c) /\ UNCHANGED <<stopFlag, current>>
  /\ collector' = [collector EXCEPT ![c] =
       CASE @ = "look"    -> IF stopFlag THEN "gone" ELSE "collect"
         [] @ = "collect" -> "wait"
         [] @ = "wait"    -> "look"]
CollectorNext == CollectorStart \/ CollectorStop \/ \E c \in Collector : Collect(c)

-----------------------------------------------------------------------------
(* Health: the status of each subsystem by its metrics. *)

\* Mutant of Grade: the milder status is asked for first.
GradeMildFirst(x, degraded, critical) ==
  IF x >= degraded THEN "degraded" ELSE IF x >= critical THEN "critical" ELSE "ok"
Grade(x, degraded, critical) ==
  IF x >= critical THEN "critical" ELSE IF x >= degraded THEN "degraded" ELSE "ok"
CheckCpu(depth)   == Grade(depth, 50, 200)
CheckRam(percent) == Grade(percent, 80, 95)
CheckCloud(nodes) == IF nodes = 0 THEN "critical" ELSE "ok"

-----------------------------------------------------------------------------
(* Properties. *)

\* Each subscriber there was at publish() is called once for every time it had
\* subscribed, in order, whatever Exception the others raise and whoever
\* subscribes or unsubscribes in the meantime; only a BaseException cuts a round
\* short, after the handler that raised it (publish).
EveryHandlerCalled ==
  \A e \in 1..events :
    LET at == {p \in Publisher : publishing[p].event = e}
    IN  due[e] = called[e] \o (IF at = {} THEN <<>> ELSE publishing[CHOOSE p \in at : TRUE].left)

\* The audit log holds the latest events of this run up to its limit; the file
\* is the start of one copy of it, all of it if the flush ended (write,
\* flush_to_disk).
AuditIsSuffix ==
  /\ Len(audit) = IF written < AuditMax THEN written ELSE AuditMax
  /\ \A i \in DOMAIN audit : audit[i] = written - Len(audit) + i
  /\ \A i \in DOMAIN file : i > 1 => file[i] = file[i - 1] + 1
  /\ flush.at = "open" => IsPrefix(file, flush.copy)

\* Two collectors never run at once, however slow a stopped one is (start).
OneCollector == Cardinality({c \in Collector : Collecting(c)}) <= 1

\* Each status is reached at its threshold and not left for worse metrics.
HealthByThreshold ==
  LET rank == [ok |-> 0, degraded |-> 1, critical |-> 2]
  IN  \A x, y \in 0..201 : x <= y =>
        /\ rank[CheckCpu(x)] <= rank[CheckCpu(y)] /\ rank[CheckRam(x)] <= rank[CheckRam(y)]
        /\ (CheckCpu(y) = "critical") = (y >= 200) /\ (CheckRam(y) = "ok") = (y < 80)
        /\ CheckCloud(x) = "ok" => CheckCloud(y) = "ok"
=============================================================================
