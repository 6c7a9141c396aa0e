------------------------------ MODULE VirtualCPU ------------------------------
(***************************************************************************)
(* The task scheduler of aura/cpu/virtual_cpu.py: a registry of tasks, a   *)
(* priority queue, a pool of daemon worker threads that is started and     *)
(* stopped, and callers that submit and cancel tasks from other threads.   *)
(*                                                                         *)
(* One action is one stretch of the code that runs without another thread  *)
(* being able to observe its middle: a block under self._lock, one call on *)
(* the (internally locked) queue.PriorityQueue, or one unlocked read of a  *)
(* shared field.                                                           *)
(***************************************************************************)
EXTENDS Integers, Sequences, FiniteSets

CONSTANTS
  Task,         \* the tasks callers may submit, each at most once
  NoTask,       \* what a worker that has not dequeued a task holds
  Worker,       \* the threads that may ever be created by start()
  NumWorkers,   \* min(virtual_cores, max_concurrent_tasks, max(host, 2))
  Prio,         \* the TaskPriority of each task, 0 (CRITICAL) to 4
  Outcome,      \* how a task's fn may end: subset of Outcomes
  MaxHistory,   \* _MAX_TASK_HISTORY
  MaxStops      \* bound on the calls of stop()

\* A fn returns, raises an Exception, or raises a BaseException that the
\* worker's "except Exception" lets through (SystemExit for instance).
Outcomes == {"return", "raise", "exit"}

ASSUME TaskAssumption   == NoTask \notin Task /\ IsFiniteSet(Task)
ASSUME WorkerAssumption == IsFiniteSet(Worker) /\ NumWorkers \in Nat \ {0}
ASSUME PrioAssumption   == Prio \in [Task -> 0..4]
ASSUME BoundAssumption  == /\ MaxHistory \in Nat \ {0} /\ MaxStops \in Nat
                           /\ Outcome \subseteq Outcomes

VARIABLES
  running,      \* self._running
  queue,        \* the tasks in self._task_queue
  pills,        \* the poison pills in self._task_queue, all of priority 0
  heapOk,       \* FALSE once a failed comparison left the heap out of order
  registry,     \* the keys of self._tasks
  status,       \* CPUTask.status, "new" before the CPUTask exists
  sub,          \* where the caller is in submit(t)
  threads,      \* self._workers, which is never cleared
  pc,           \* where each worker thread is in _worker_loop
  hold,         \* the local variable "task" of each worker
  active,       \* self._active_task_count
  completed,    \* self._completed_count
  failed,       \* self._failed_count
  finished,     \* self._finished_order
  due,          \* pills that the stop() in progress has still to put
  stops,        \* history: calls of stop() so far
  runs,         \* history: how often each task's fn was called
  ack           \* history: how each task's cancel() returned True

qvars == <<queue, pills, heapOk>>
tvars == <<registry, status, sub, runs, ack>>
wvars == <<threads, pc, hold>>
cvars == <<active, completed, failed, finished>>
lvars == <<running, due, stops>>
vars  == <<qvars, tvars, wvars, cvars, lvars>>

Status   == {"new", "queued", "running", "completed", "failed", "cancelled"}
Terminal == {"completed", "failed", "cancelled"}
Critical == {t \in queue : Prio[t] = 0}

Init ==
  /\ running = FALSE /\ due = 0 /\ stops = 0
  /\ queue = {} /\ pills = 0 /\ heapOk = TRUE
  /\ registry = {} /\ status = [t \in Task |-> "new"]
  /\ sub = [t \in Task |-> "no"]
  /\ threads = {} /\ pc = [w \in Worker |-> "off"]
  /\ hold = [w \in Worker |-> NoTask]
  /\ active = 0 /\ completed = 0 /\ failed = 0 /\ finished = <<>>
  /\ runs = [t \in Task |-> 0] /\ ack = [t \in Task |-> "none"]

-----------------------------------------------------------------------------
(* Lifecycle.  One control thread issues start() and stop(), one at a time. *)

Start ==
  /\ ~running /\ due = 0
  /\ running' = TRUE
  /\ \E new \in SUBSET (Worker \ threads) :
       /\ Cardinality(new) = NumWorkers
       /\ threads' = threads \cup new
       /\ pc' = [w \in Worker |-> IF w \in new THEN "check" ELSE pc[w]]
  /\ UNCHANGED <<qvars, tvars, cvars, hold, due, stops>>

\* Mutant of StopFlag: one pill short.
StopFlagOneShort ==
  /\ due = 0 /\ stops < MaxStops
  /\ stops' = stops + 1
  /\ running' = FALSE
  /\ due' = Cardinality(threads) - 1
  /\ UNCHANGED <<qvars, tvars, wvars, cvars>>

\* stop() clears the flag, then puts one pill for every thread ever created.
StopFlag ==
  /\ due = 0 /\ stops < MaxStops
  /\ stops' = stops + 1
  /\ running' = FALSE
  /\ due' = Cardinality(threads)
  /\ UNCHANGED <<qvars, tvars, wvars, cvars>>

StopPut ==
  /\ due > 0
  /\ due' = due - 1
  /\ pills' = pills + 1
  /\ UNCHANGED <<queue, heapOk, tvars, wvars, cvars, running, stops>>

\* (0, object()) and (0, CPUTask) do not compare: heappush appends the pill,
\* then raises TypeError out of stop(), and the other pills are never put.
StopPutRaises ==
  /\ due > 0 /\ Critical # {}
  /\ due' = 0
  /\ pills' = pills + 1
  /\ UNCHANGED <<queue, heapOk, tvars, wvars, cvars, running, stops>>

-----------------------------------------------------------------------------
(* Callers: submit() in its three steps, and cancel(). *)

\* Mutant of SubmitRegister: eviction order is submission order.
SubmitRegisterOrdered(t) ==
  /\ sub[t] = "no"
  /\ sub' = [sub EXCEPT ![t] = "registered"]
  /\ status' = [status EXCEPT ![t] = "queued"]
  /\ registry' = registry \cup {t}
  /\ finished' = Append(finished, t)
  /\ UNCHANGED <<qvars, wvars, active, completed, failed, lvars, runs, ack>>

SubmitRegister(t) ==
  /\ sub[t] = "no"
  /\ sub' = [sub EXCEPT ![t] = "registered"]
  /\ status' = [status EXCEPT ![t] = "queued"]
  /\ registry' = registry \cup {t}
  /\ UNCHANGED <<qvars, wvars, cvars, lvars, runs, ack>>

SubmitPut(t) ==
  /\ sub[t] = "registered"
  /\ queue' = queue \cup {t}
  /\ \/ sub' = [sub EXCEPT ![t] = "put"]
     \/ /\ Prio[t] = 0 /\ pills > 0      \* TypeError, t is in the heap
        /\ sub' = [sub EXCEPT ![t] = "raised"]
  /\ UNCHANGED <<pills, heapOk, wvars, cvars, lvars,
                 registry, status, runs, ack>>

\* EVENT_BUS.publish("cpu.task.submitted"), only now.
SubmitPublish(t) ==
  /\ sub[t] = "put"
  /\ sub' = [sub EXCEPT ![t] = "done"]
  /\ UNCHANGED <<qvars, wvars, cvars, lvars, registry, status, runs, ack>>

\* The worker that has read t's status and is about to run it.
Claimed(t) == \E w \in Worker : pc[w] = "claim" /\ hold[w] = t

Cancel(t) ==
  /\ t \in registry /\ status[t] = "queued"
  /\ status' = [status EXCEPT ![t] = "cancelled"]
  /\ ack' = [ack EXCEPT ![t] = IF Claimed(t) THEN "late" ELSE "early"]
  /\ UNCHANGED <<qvars, wvars, cvars, lvars, registry, sub, runs>>

-----------------------------------------------------------------------------
(* Workers: _worker_loop. *)

Goto(w, from, to) == pc[w] = from /\ pc' = [pc EXCEPT ![w] = to]

\* Mutants of Check: a worker leaves when it finds nothing to do; a worker
\* leaves only by a pill.
CheckEmptyLeaves(w) ==
  /\ Goto(w, "check", IF running /\ queue # {} THEN "get" ELSE "dead")
  /\ UNCHANGED <<qvars, tvars, cvars, lvars, threads, hold>>
CheckForever(w) ==
  /\ Goto(w, "check", "get")
  /\ UNCHANGED <<qvars, tvars, cvars, lvars, threads, hold>>

Check(w) ==
  /\ Goto(w, "check", IF running THEN "get" ELSE "dead")
  /\ UNCHANGED <<qvars, tvars, cvars, lvars, threads, hold>>

\* get(timeout=0.5) raises queue.Empty only while the queue is empty.
GetEmpty(w) ==
  /\ queue = {} /\ pills = 0
  /\ Goto(w, "get", "check")
  /\ UNCHANGED <<qvars, tvars, cvars, lvars, threads, hold>>

GetPill(w) ==
  /\ pills > 0
  /\ Goto(w, "get", "dead")
  /\ pills' = pills - 1
  /\ UNCHANGED <<queue, heapOk, tvars, cvars, lvars, threads, hold>>

\* An item of least priority number; ties are broken arbitrarily by the heap.
Least(t) == /\ \A u \in queue : Prio[t] <= Prio[u]
            /\ pills > 0 => Prio[t] = 0

\* Mutant of GetTask: the task is looked at and left in the queue.
GetTaskPeeks(w) ==
  /\ Goto(w, "get", "popped")
  /\ \E t \in queue : Least(t) /\ hold' = [hold EXCEPT ![w] = t]
  /\ UNCHANGED <<qvars, tvars, cvars, lvars, threads>>

GetTask(w) ==
  /\ Goto(w, "get", "popped")
  /\ \E t \in queue :
       /\ heapOk => Least(t)
       /\ queue' = queue \ {t}
       /\ hold' = [hold EXCEPT ![w] = t]
  /\ UNCHANGED <<pills, heapOk, tvars, cvars, lvars, threads>>

\* heappop compares a pill with a CRITICAL task: the root is gone, the heap
\* is out of order, and the TypeError ends the thread.
GetRaises(w) ==
  /\ pills > 0 /\ Critical # {} /\ Cardinality(queue) + pills > 2
  /\ Goto(w, "get", "dead")
  /\ heapOk' = FALSE
  /\ \/ pills' = pills - 1 /\ UNCHANGED queue
     \/ \E t \in queue : /\ heapOk => t \in Critical
                        /\ queue' = queue \ {t} /\ UNCHANGED pills
  /\ UNCHANGED <<tvars, cvars, lvars, threads, hold>>

\* The status is read without the lock ...
SkipCancelled(w) ==
  /\ Goto(w, "popped", "check")
  /\ status[hold[w]] = "cancelled"
  /\ hold' = [hold EXCEPT ![w] = NoTask]
  /\ UNCHANGED <<qvars, tvars, cvars, lvars, threads>>

\* Mutant of SeesRunnable: no look at the status.
SeesAnything(w) ==
  /\ Goto(w, "popped", "claim")
  /\ UNCHANGED <<qvars, tvars, cvars, lvars, threads, hold>>

SeesRunnable(w) ==
  /\ Goto(w, "popped", "claim")
  /\ status[hold[w]] # "cancelled"
  /\ UNCHANGED <<qvars, tvars, cvars, lvars, threads, hold>>

\* ... and overwritten under it, whatever it has become meanwhile.
Claim(w) ==
  /\ Goto(w, "claim", "run")
  /\ status' = [status EXCEPT ![hold[w]] = "running"]
  /\ runs' = [runs EXCEPT ![hold[w]] = @ + 1]
  /\ active' = active + 1
  /\ UNCHANGED <<qvars, lvars, threads, hold, registry, sub, ack,
                 completed, failed, finished>>

FnReturns(w) ==
  /\ "return" \in Outcome
  /\ Goto(w, "run", "publish")
  /\ status' = [status EXCEPT ![hold[w]] = "completed"]
  /\ completed' = completed + 1
  /\ UNCHANGED <<qvars, lvars, threads, hold, registry, sub, runs, ack,
                 active, failed, finished>>

\* Mutant of FnRaises: the handler also gives up the worker's slot, which
\* finally does again.
FnRaisesReleases(w) ==
  /\ "raise" \in Outcome
  /\ Goto(w, "run", "publish")
  /\ status' = [status EXCEPT ![hold[w]] = "failed"]
  /\ failed' = failed + 1
  /\ active' = active - 1
  /\ UNCHANGED <<qvars, lvars, threads, hold, registry, sub, runs, ack,
                 completed, finished>>

FnRaises(w) ==
  /\ "raise" \in Outcome
  /\ Goto(w, "run", "publish")
  /\ status' = [status EXCEPT ![hold[w]] = "failed"]
  /\ failed' = failed + 1
  /\ UNCHANGED <<qvars, lvars, threads, hold, registry, sub, runs, ack,
                 active, completed, finished>>

\* A BaseException skips both handlers; finally still runs, then the thread
\* ends with the task RUNNING.
FnExits(w) ==
  /\ "exit" \in Outcome
  /\ Goto(w, "run", "unwind")
  /\ UNCHANGED <<qvars, tvars, cvars, lvars, threads, hold>>

\* EVENT_BUS.publish("cpu.task.completed" or "cpu.task.failed").
PublishFinished(w) ==
  /\ Goto(w, "publish", "finally")
  /\ UNCHANGED <<qvars, tvars, cvars, lvars, threads, hold>>

\* Mutant of Evicted: one id too few.
EvictedLate(f) == {f[i] : i \in 1..(Len(f) - MaxHistory - 1)}

\* _evict_old_tasks keeps the youngest MaxHistory ids of f.
Youngest(f) == IF Len(f) > MaxHistory
               THEN SubSeq(f, Len(f) - MaxHistory + 1, Len(f)) ELSE f
Evicted(f)  == {f[i] : i \in 1..(Len(f) - MaxHistory)}

Finally(w) ==
  /\ pc[w] \in {"finally", "unwind"}
  /\ pc' = [pc EXCEPT ![w] = IF pc[w] = "unwind" THEN "dead" ELSE "check"]
  /\ active' = active - 1
  /\ LET order == Append(finished, hold[w])
     IN  /\ finished' = Youngest(order)
         /\ registry' = registry \ Evicted(order)
  /\ hold' = [hold EXCEPT ![w] = NoTask]
  /\ UNCHANGED <<qvars, lvars, threads, status, sub, runs, ack,
                 completed, failed>>

-----------------------------------------------------------------------------
\* The steps are grouped by whether they publish an event.
WorkerQuiet(w) ==
  \/ Check(w) \/ GetEmpty(w) \/ GetPill(w) \/ GetTask(w) \/ GetRaises(w)
  \/ SkipCancelled(w) \/ SeesRunnable(w) \/ Claim(w)
  \/ FnReturns(w) \/ FnRaises(w) \/ FnExits(w) \/ Finally(w)
WorkerStep(w) == WorkerQuiet(w) \/ PublishFinished(w)

CallerQuiet(t) == SubmitRegister(t) \/ SubmitPut(t) \/ Cancel(t)
CallerStep(t)  == CallerQuiet(t) \/ SubmitPublish(t)

LifecycleStep == Start \/ StopFlag \/ StopPut \/ StopPutRaises

Next == \/ LifecycleStep
        \/ \E t \in Task : CallerStep(t)
        \/ \E w \in Worker : WorkerStep(w)

Spec == Init /\ [][Next]_vars

\* The operating system schedules every worker thread, a submitter that has
\* begun finishes its call, and every fn eventually ends.
Fairness == /\ \A w \in Worker : WF_vars(WorkerStep(w))
            /\ \A t \in Task : WF_vars(SubmitPut(t) \/ SubmitPublish(t))
            /\ WF_vars(StopPut)

FairSpec == Spec /\ Fairness

-----------------------------------------------------------------------------
(* Properties. *)

TypeOK ==
  /\ running \in BOOLEAN /\ heapOk \in BOOLEAN
  /\ queue \subseteq Task /\ registry \subseteq Task
  /\ pills \in Nat /\ due \in Nat /\ stops \in 0..MaxStops
  /\ status \in [Task -> Status]
  /\ sub \in [Task -> {"no", "registered", "put", "done", "raised"}]
  /\ threads \subseteq Worker
  /\ pc \in [Worker -> {"off", "check", "get", "popped", "claim", "run",
                        "publish", "finally", "unwind", "dead"}]
  /\ hold \in [Worker -> Task \cup {NoTask}]
  /\ active \in Int /\ completed \in Nat /\ failed \in Nat
  /\ finished \in Seq(Task)
  /\ runs \in [Task -> Nat]
  /\ ack \in [Task -> {"none", "early", "late"}]

\* No task's fn is called twice, whatever the interleaving of workers, of
\* stop(), of a restart and of cancellations (_worker_loop).
AtMostOnce == \A t \in Task : runs[t] <= 1

\* A cancel() that returned True before a worker had passed its unlocked
\* look at the status is honoured: the fn is never called (cancel and
\* _worker_loop, which share no lock across the look and the claim).
CancelHonoured == \A t \in Task : ack[t] = "early" => runs[t] = 0

Busy == {w \in Worker : pc[w] \in {"run", "publish", "finally", "unwind"}}
ActiveCount == active = Cardinality(Busy)
CountersAgree ==
  /\ completed = Cardinality({t \in Task : status[t] = "completed"})
  /\ failed = Cardinality({t \in Task : status[t] = "failed"})

\* metrics() is exact: "workers_active" is the number of threads between
\* claiming a task and leaving the finally block, "tasks_completed" and
\* "tasks_failed" agree with the tasks themselves, including those already
\* evicted, though each counter moves in a critical section of its own.
MetricsExact == ActiveCount /\ CountersAgree

\* Eviction never drops a task that is still queued or in a worker's hands:
\* such a task can be looked up and cancelled (_evict_old_tasks).
LiveTasksRegistered ==
  \A t \in Task : (t \in queue \/ \E w \in Worker : hold[w] = t)
                   => t \in registry

\* The registry keeps at most _MAX_TASK_HISTORY tasks that a worker is done
\* with (_evict_old_tasks).  Cancelled tasks are not among them: nothing ever
\* evicts those.
HistoryBounded ==
  Cardinality({t \in registry : runs[t] > 0 /\ \A w \in Worker : hold[w] # t})
    <= MaxHistory

\* While the CPU runs, a queued task is eventually taken off the queue or
\* stop() is called: no worker idles for ever beside a non-empty queue, and
\* no fn that raises takes its worker with it.
QueuedIsTaken ==
  \A t \in Task : (running /\ t \in queue) ~> (t \notin queue \/ stops > 0)

\* After stop() every worker thread ends, even when stop() itself is cut
\* short by a TypeError or a thread is in the middle of a task, unless
\* start() is called again.
WorkersExit == ~running ~> (running \/ \A w \in threads : pc[w] = "dead")

\* Start to stop: queued tasks are taken while the CPU runs, and all threads end.
WorkersServe == QueuedIsTaken /\ WorkersExit
=============================================================================
