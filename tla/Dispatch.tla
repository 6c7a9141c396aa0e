------------------------------ MODULE Dispatch ------------------------------
(***************************************************************************)
(* What hands work to the VirtualCPU  and to the model backend: the compute *)
(* dispatcher behind /dev/vgpu, the cloud AI router with its thread pool,  *)
(* and the volumes and models VirtualCloud keeps.                          *)
(***************************************************************************)
EXTENDS Integers, Sequences, FiniteSets, SequencesExt

CONSTANTS
  Gpu,        \* the jobs submitted to /dev/vgpu
  CpuWorkers, \* how many tasks the VirtualCPU runs at a time
  Query,      \* the calls of route()
  Pull,       \* the models pulled
  Own,        \* the model of the backend
  RouterMax,  \* _MAX_WORKERS of the router's pool
  Volume      \* the volumes created

ASSUME DispatchAssumption == /\ {CpuWorkers, RouterMax} \subseteq Nat \ {0}
                              /\ IsFiniteSet(Query) /\ IsFiniteSet(Pull)
                              /\ Query \cap Pull = {} /\ Own \notin Pull

VARIABLES
  gpu,        \* ComputeDispatcher._jobs: backend, status, finished_at, task_id
  task,       \* the task of each job on the VirtualCPU
  did,        \* history: what the function of each job has done
  count,      \* the router's counters, and how many no-op tasks it submitted
  query,      \* where route() is
  future,       \* the item of each query and pull in the pool
  poolQueue,  \* those that wait for a worker
  poolDown,   \* whether shutdown() was called
  models,     \* VirtualCloud._model_registry
  volumes,    \* VirtualCloud._volumes
  dirs        \* the directories there are for them

gpuVars == <<gpu, task, did>>
routerVars == <<count, query, future, poolQueue, poolDown, models>>
volumeVars == <<volumes, dirs>>

-----------------------------------------------------------------------------
(* Compute dispatcher. *)

NoJob == [backend |-> "none", status |-> "none", finished |-> FALSE, known |-> FALSE]
GpuInit == gpu = [j \in Gpu |-> NoJob] /\ task = [j \in Gpu |-> "none"] /\ did = [j \in Gpu |-> "nothing"]

\* The VirtualCPU reports no max_concurrent_tasks, so one busy worker is 100 %.
LocalCpuPct == IF \E j \in Gpu : task[j] \in {"taken", "running"} THEN 100 ELSE 0
Resolve(wanted) == IF wanted # "auto" THEN wanted ELSE IF LocalCpuPct >= 80 THEN "cloud" ELSE "local"

GpuSubmit(j, wanted) ==
  /\ gpu[j] = NoJob /\ UNCHANGED <<task, did>>
  /\ gpu' = [gpu EXCEPT ![j].backend = Resolve(wanted), ![j].status = "queued"]
\* Both backends hand the same wrapper to the VirtualCPU.
HandOver(j) == /\ gpu[j].status = "queued" /\ task[j] = "none"
               /\ task' = [task EXCEPT ![j] = "queued"] /\ UNCHANGED <<gpu, did>>
\* The id is noted when the task may long have run.
NoteTask(j) == /\ task[j] # "none" /\ ~gpu[j].known
               /\ gpu' = [gpu EXCEPT ![j].known = TRUE] /\ UNCHANGED <<task, did>>
\* The VirtualCPU: its worker takes the task, or somebody cancels it.
TaskTaken(j) == /\ task[j] = "queued" /\ task' = [task EXCEPT ![j] = "taken"] /\ UNCHANGED <<gpu, did>>
                /\ Cardinality({k \in Gpu : task[k] \in {"taken", "running", "ran"}}) < CpuWorkers
TaskCancelled(j) == /\ task[j] = "queued" /\ gpu[j].known
                    /\ task' = [task EXCEPT ![j] = "cancelled"] /\ UNCHANGED <<gpu, did>>
\* The wrapper: the status, the function, the outcome.
JobStarts(j) == /\ task[j] = "taken" /\ task' = [task EXCEPT ![j] = "running"]
                /\ gpu' = [gpu EXCEPT ![j].status = "running"] /\ UNCHANGED did
FnReturns(j, how) == /\ task[j] = "running" /\ did[j] = "nothing"
                     /\ did' = [did EXCEPT ![j] = how] /\ UNCHANGED <<gpu, task>>
\* Mutant of JobRecorded: whatever comes back counts as a result.
JobRecordedDone(j) ==
  /\ task[j] = "running" /\ did[j] # "nothing" /\ task' = [task EXCEPT ![j] = "over"] /\ UNCHANGED did
  /\ gpu' = [gpu EXCEPT ![j].finished = TRUE, ![j].status = "completed"]
\* What is no Exception (SystemExit) leaves the status as it is.
JobRecorded(j) ==
  /\ task[j] = "running" /\ did[j] # "nothing" /\ task' = [task EXCEPT ![j] = "over"] /\ UNCHANGED did
  /\ gpu' = [gpu EXCEPT ![j].finished = TRUE,
               ![j].status = CASE did[j] = "result" -> "completed" [] did[j] = "error" -> "failed"
                               [] did[j] = "exit" -> @]
GpuNext == \E j \in Gpu : \/ \E b \in {"auto", "local", "cloud"} : GpuSubmit(j, b)
                          \/ HandOver(j) \/ NoteTask(j) \/ TaskTaken(j) \/ TaskCancelled(j) \/ JobStarts(j)
                          \/ \E how \in {"result", "error", "exit"} : FnReturns(j, how)
                          \/ JobRecorded(j)

-----------------------------------------------------------------------------
(* Cloud AI router. *)

RouterInit == /\ count = [routed |-> 0, completed |-> 0, failed |-> 0, noops |-> 0]
              /\ query = [q \in Query |-> "new"]
              /\ future = [w \in Query \cup Pull |-> "none"] /\ poolQueue = <<>> /\ poolDown = FALSE
              /\ models = {Own}

Route(q, inline) ==
  /\ query[q] = "new" /\ query' = [query EXCEPT ![q] = IF inline THEN "inline" ELSE "routed"]
  /\ count' = [count EXCEPT !.routed = @ + 1] /\ UNCHANGED <<future, poolQueue, poolDown, models>>
\* executor.submit raises after shutdown(): the query is counted as routed only.
\* Otherwise the VirtualCPU gets a task that does nothing, for its metrics.
Enqueue(q) ==
  /\ query[q] = "routed" /\ UNCHANGED <<poolDown, models>>
  /\ IF poolDown THEN query' = [query EXCEPT ![q] = "refused"] /\ UNCHANGED <<count, future, poolQueue>>
     ELSE /\ query' = [query EXCEPT ![q] = "waiting"] /\ future' = [future EXCEPT ![q] = "queued"]
          /\ poolQueue' = Append(poolQueue, q) /\ count' = [count EXCEPT !.noops = @ + 1]
\* pull_model() enqueues likewise, or raises.
PullModel(m) ==
  /\ future[m] = "none" /\ ~poolDown /\ future' = [future EXCEPT ![m] = "queued"]
  /\ poolQueue' = Append(poolQueue, m) /\ count' = [count EXCEPT !.noops = @ + 1]
  /\ UNCHANGED <<query, poolDown, models>>
\* A worker of the pool passes over what was cancelled in the queue.
WorkerTakes ==
  /\ poolQueue # <<>> /\ Cardinality({w \in DOMAIN future : future[w] = "running"}) < RouterMax
  /\ poolQueue' = Tail(poolQueue)
  /\ future' = [future EXCEPT ![Head(poolQueue)] = IF @ = "queued" THEN "running" ELSE @]
  /\ UNCHANGED <<count, query, poolDown, models>>
\* Mutant of WorkDone: a pull that failed is listed.
WorkDoneListed(w, how) ==
  /\ future[w] = "running" /\ future' = [future EXCEPT ![w] = how]
  /\ models' = IF w \in Pull THEN models \cup {w} ELSE models
  /\ UNCHANGED <<count, query, poolQueue, poolDown>>
\* The backend answers a query (an Exception is made an answer), or what is no
\* Exception passes through; a pull that went well is listed.
WorkDone(w, how) ==
  /\ future[w] = "running" /\ future' = [future EXCEPT ![w] = how]
  /\ models' = IF w \in Pull /\ how = "answer" THEN models \cup {w} ELSE models
  /\ UNCHANGED <<count, query, poolQueue, poolDown>>
\* future.result(): an answer in time is counted, an exit is not; the timeout
\* comes when it comes, and the answer may come before it is dealt with.
Answered(q) ==
  /\ query[q] = "waiting" /\ future[q] \in {"answer", "exit"} /\ query' = [query EXCEPT ![q] = future[q]]
  /\ count' = [count EXCEPT !.completed = IF future[q] = "answer" THEN @ + 1 ELSE @]
  /\ UNCHANGED <<future, poolQueue, poolDown, models>>
TimesOut(q) == /\ query[q] = "waiting" /\ query' = [query EXCEPT ![q] = "late"]
               /\ UNCHANGED <<count, future, poolQueue, poolDown, models>>
\* Mutant of GiveUp: the item stays in the queue.
GiveUpOnly(q) ==
  /\ query[q] = "late" /\ query' = [query EXCEPT ![q] = "timeout"]
  /\ count' = [count EXCEPT !.failed = @ + 1] /\ UNCHANGED <<future, poolQueue, poolDown, models>>
\* future.cancel() takes hold of what has not begun.
GiveUp(q) ==
  /\ query[q] = "late" /\ query' = [query EXCEPT ![q] = "timeout"]
  /\ count' = [count EXCEPT !.failed = @ + 1]
  /\ future' = [future EXCEPT ![q] = IF @ = "queued" THEN "cancelled" ELSE @]
  /\ UNCHANGED <<poolQueue, poolDown, models>>
Shutdown == ~poolDown /\ poolDown' = TRUE /\ UNCHANGED <<count, query, future, poolQueue, models>>

RouterNext ==
  \/ \E q \in Query : (\E i \in BOOLEAN : Route(q, i)) \/ Enqueue(q) \/ Answered(q) \/ TimesOut(q) \/ GiveUp(q)
  \/ \E m \in Pull : PullModel(m) \/ WorkDone(m, "error")
  \/ WorkerTakes \/ Shutdown
  \/ \E w \in Query \cup Pull, how \in {"answer", "exit"} : WorkDone(w, how)

-----------------------------------------------------------------------------
(* Volumes of VirtualCloud. *)

VolumeInit == volumes = {} /\ dirs = {}
MakeDir(v)    == v \notin dirs /\ dirs' = dirs \cup {v} /\ UNCHANGED volumes
ListVolume(v) == v \in dirs /\ v \notin volumes /\ volumes' = volumes \cup {v} /\ UNCHANGED dirs
\* Mutant of DeleteVolume: the entry stays.
DeleteVolumeDir(v) == v \in volumes /\ UNCHANGED volumes /\ dirs' = dirs \ {v}
\* Under the lock; what cannot be removed stays (ignore_errors).
DeleteVolume(v) == v \in volumes /\ volumes' = volumes \ {v} /\ dirs' \in {dirs, dirs \ {v}}
VolumeNext == \E v \in Volume : MakeDir(v) \/ ListVolume(v) \/ DeleteVolume(v)

-----------------------------------------------------------------------------
(* Properties. *)

\* What /dev/vgpu shows of a job is what became of its function, also when the
\* id is noted late or the task is cancelled before it runs (_submit_local).
JobsTrue ==
  \A j \in Gpu :
    /\ gpu[j].finished => gpu[j].status = CASE did[j] = "result" -> "completed"
                                            [] did[j] = "error" -> "failed" [] OTHER -> "running"
    /\ gpu[j].status = "queued" => did[j] = "nothing"
    /\ task[j] = "cancelled" => gpu[j].status = "queued" /\ ~gpu[j].finished

\* Every routed query is counted once, as completed or as failed, unless it is
\* still under way, ran inline, was refused after shutdown() or exited; one
\* that timed out before a worker took it never reaches the backend (route);
\* and the models listed are those that were pulled (pull_model).
QueriesCounted ==
  LET at(s) == Cardinality({q \in Query : query[q] \in s})
  IN  /\ count.completed = at({"answer"}) /\ count.failed = at({"timeout"})
      /\ count.routed = count.completed + count.failed
                          + at({"inline", "refused", "exit", "routed", "waiting", "late"})
      /\ count.noops = Cardinality({w \in DOMAIN future : future[w] # "none"})
      /\ \A q \in Query : query[q] = "timeout" => future[q] # "queued"
      /\ \A w \in DOMAIN future : future[w] = "queued" => w \in ToSet(poolQueue)
      /\ models = {Own} \cup {m \in Pull : future[m] = "answer"}

\* A listed volume has its directory (create_volume, delete_volume).
VolumesBacked == volumes \subseteq dirs
=============================================================================
