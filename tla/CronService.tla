----------------------------- MODULE CronService -----------------------------
(***************************************************************************)
(* The cron service of aura/kernel/cron.py: jobs, the scheduler loop, and  *)
(* a start() and stop() without a lock that may leave more than one loop   *)
(* alive, because stop() waits for the loop for two ticks only and does    *)
(* not see the one that a start() is about to make.  One thread, that of   *)
(* AIOS, starts the service; any Caller may stop it.  Clock values are     *)
(* abstracted to the set of jobs whose next_run has passed.                *)
(***************************************************************************)
EXTENDS Integers, FiniteSets

CONSTANTS
  Job,        \* the jobs that may be added, each once (job ids are fresh)
  MaxLoops,   \* bound on the threads start() may create
  Caller,     \* the threads that may call stop()
  Exits,      \* the jobs whose fn may raise a BaseException
  MaxRuns     \* bound on the times a job becomes due

Loop == 1..MaxLoops     \* the threads, in the order of their creation
NoLoop == 0             \* self._thread is None

VARIABLES
  running,    \* self._running
  thread,     \* self._thread
  pc,         \* where each loop is in _loop
  due,        \* the rest of each loop's list of due jobs
  cur,        \* the jobs each loop is executing: none or one
  job,        \* "absent", "on" or "off" (enabled), "removed"
  ripe,       \* the jobs whose next_run is in the past
  count,      \* run_count of each job
  runs,       \* history: executions of each job's fn
  late,       \* history: executions begun after the job was removed
  starting,   \* where start() is: "no", "make", "load", "run"
  loaded,     \* the thread that start() has read to start it
  crossed,    \* history: a stop() has run during this start()
  leaving,    \* where each caller is in stop()
  joining,    \* the thread each caller waits for
  abandoned   \* history: loops given up while alive, or whose start() met a stop()

loopVars == <<pc, due, cur>>
jobVars  == <<job, ripe, count, runs, late>>
stopVars == <<leaving, joining, abandoned>>
startVars == <<starting, loaded, crossed>>
cronVars == <<running, thread, loopVars, jobVars, stopVars, startVars>>

Present(j) == job[j] \in {"on", "off"}
Alive(l)   == pc[l] \in {"check", "sweep", "fire", "busy"}
Unstarted(l) == pc[l] \in {"made", "lost"}

CronInit ==
  /\ running = FALSE /\ thread = NoLoop /\ abandoned = {}
  /\ pc = [l \in Loop |-> "off"]
  /\ due = [l \in Loop |-> {}] /\ cur = [l \in Loop |-> {}]
  /\ job = [j \in Job |-> "absent"] /\ ripe = {}
  /\ count = [j \in Job |-> 0] /\ runs = [j \in Job |-> 0]
  /\ late = [j \in Job |-> 0]
  /\ leaving = [c \in Caller |-> "no"] /\ joining = [c \in Caller |-> NoLoop]
  /\ starting = "no" /\ loaded = NoLoop /\ crossed = FALSE

-----------------------------------------------------------------------------
(* Registration.  Each operation is one critical section. *)

SetJob(j, from, to) ==
  /\ job[j] \in from
  /\ job' = [job EXCEPT ![j] = to]
  /\ UNCHANGED <<running, thread, loopVars, ripe, count, runs, late, stopVars, startVars>>

AddJob(j)     == SetJob(j, {"absent"}, "on")
RemoveJob(j)  == SetJob(j, {"on", "off"}, "removed")
EnableJob(j)  == SetJob(j, {"off"}, "on")
DisableJob(j) == SetJob(j, {"on"}, "off")

\* Time passes: next_run of j is reached.
Ripen(j) ==
  /\ Present(j) /\ j \notin ripe /\ runs[j] < MaxRuns
  /\ ripe' = ripe \cup {j}
  /\ UNCHANGED <<running, thread, loopVars, job, count, runs, late, stopVars, startVars>>

-----------------------------------------------------------------------------
(* Lifecycle. *)

Start(from, to) == starting = from /\ starting' = to

\* Is some call of stop() in progress?
Stopping == \E c \in Caller : leaving[c] # "no"

RaiseFlag ==
  /\ Start("no", "make")
  /\ \E l \in Loop : pc[l] = "off"
  /\ running' = TRUE
  /\ crossed' = Stopping
  /\ abandoned' = IF Stopping THEN abandoned \cup {l \in Loop : Alive(l)} ELSE abandoned
  /\ UNCHANGED <<thread, loopVars, jobVars, leaving, joining, loaded>>

\* Mutant of CronStart: a second start() is not refused.
CronStartTwice == RaiseFlag

\* start(), first the flag: it tells the loops of before to go on if a stop()
\* has cleared it but not waited for them yet ...
CronStart == ~running /\ RaiseFlag

\* ... then the thread, which is not running yet ...
StartMake ==
  /\ Start("make", "load")
  /\ \E l \in Loop : /\ pc[l] = "off" /\ \A k \in 1..(l-1) : pc[k] # "off"
                    /\ thread' = l
                    /\ pc' = [pc EXCEPT ![l] = "made"]
  /\ UNCHANGED <<running, due, cur, jobVars, stopVars, loaded, crossed>>

\* ... which is read back: a stop() may have made self._thread None again, and
\* None has no start; the thread that was made never runs ...
StartLoad ==
  /\ Start("load", IF thread = NoLoop THEN "no" ELSE "run")
  /\ loaded' = thread /\ crossed' = (crossed /\ thread # NoLoop)
  /\ pc' = IF thread = NoLoop
           THEN [l \in Loop |-> IF pc[l] = "made" THEN "lost" ELSE pc[l]] ELSE pc
  /\ UNCHANGED <<running, thread, due, cur, jobVars, stopVars>>

\* ... and started.  The next start() may find it alive if a stop() met this
\* one: that stop() has not waited for it.
StartRun ==
  /\ Start("run", "no")
  /\ pc' = [pc EXCEPT ![loaded] = "check"]
  /\ loaded' = NoLoop /\ crossed' = FALSE
  /\ abandoned' = IF crossed THEN abandoned \cup {loaded} ELSE abandoned
  /\ UNCHANGED <<running, thread, due, cur, jobVars, leaving, joining>>

StartStep == StartMake \/ StartLoad \/ StartRun

Leave(c, from, to) == leaving[c] = from /\ leaving' = [leaving EXCEPT ![c] = to]

StopFlag(c) ==
  /\ Leave(c, "no", "look")
  /\ running' = FALSE
  /\ crossed' = (crossed \/ starting # "no")
  /\ UNCHANGED <<thread, loopVars, jobVars, joining, abandoned, starting, loaded>>

\* Is there a thread to join?
StopLook(c) ==
  /\ Leave(c, "look", IF thread = NoLoop THEN "done" ELSE "load")
  /\ UNCHANGED <<running, thread, loopVars, jobVars, joining, abandoned, startVars>>

\* Mutant of StopLoad: the second read is trusted.
StopLoadTrusting(c) ==
  /\ Leave(c, "load", "join")
  /\ joining' = [joining EXCEPT ![c] = thread]
  /\ UNCHANGED <<running, thread, loopVars, jobVars, abandoned, startVars>>

\* self._thread is read again: another stop() may have made it None, which
\* has no join.
StopLoad(c) ==
  /\ Leave(c, "load", IF thread = NoLoop THEN "raised" ELSE "join")
  /\ joining' = [joining EXCEPT ![c] = thread]
  /\ UNCHANGED <<running, thread, loopVars, jobVars, abandoned, startVars>>

\* A thread that is not started cannot be joined: RuntimeError.
StopJoinRaises(c) ==
  /\ leaving[c] = "join" /\ Unstarted(joining[c])
  /\ Leave(c, "join", "raised")
  /\ joining' = [joining EXCEPT ![c] = NoLoop]
  /\ UNCHANGED <<running, thread, loopVars, jobVars, abandoned, startVars>>

\* join(timeout) returns when the thread has ended or the time is up, and
\* self._thread is cleared, whatever it is by now.
StopJoin(c) ==
  /\ leaving[c] = "join" /\ ~Unstarted(joining[c])
  /\ Leave(c, "join", "done")
  /\ thread' = NoLoop
  /\ joining' = [joining EXCEPT ![c] = NoLoop]
  /\ abandoned' = abandoned \cup {l \in Loop \cap {thread, joining[c]} : Alive(l)}
  /\ UNCHANGED <<running, loopVars, jobVars, startVars>>

\* stop() has returned or raised, and its caller goes on.
StopEnd(c, how) ==
  /\ Leave(c, how, "no")
  /\ UNCHANGED <<running, thread, loopVars, jobVars, joining, abandoned, startVars>>

-----------------------------------------------------------------------------
(* The scheduler loop. *)

Goto(l, from, to) == pc[l] = from /\ pc' = [pc EXCEPT ![l] = to]

\* Mutant of Check: the loop ends when no job is registered.
CheckJobs(l) ==
  /\ Goto(l, "check", IF running /\ \E j \in Job : Present(j) THEN "sweep" ELSE "ended")
  /\ abandoned' = IF pc'[l] = "sweep" THEN abandoned ELSE abandoned \ {l}
  /\ UNCHANGED <<running, thread, due, cur, jobVars, leaving, joining, startVars>>

Check(l) ==
  /\ Goto(l, "check", IF running THEN "sweep" ELSE "ended")
  /\ abandoned' = IF running THEN abandoned ELSE abandoned \ {l}
  /\ UNCHANGED <<running, thread, due, cur, jobVars, leaving, joining, startVars>>

\* Mutant of Sweep: it reads an old copy of the job table.
SweepAll(l) ==
  /\ Goto(l, "sweep", "fire")
  /\ due' = [due EXCEPT ![l] = ripe]
  /\ UNCHANGED <<running, thread, cur, jobVars, stopVars, startVars>>

\* The enabled jobs that are due, under the lock ...
Sweep(l) ==
  /\ Goto(l, "sweep", "fire")
  /\ due' = [due EXCEPT ![l] = {j \in ripe : job[j] = "on"}]
  /\ UNCHANGED <<running, thread, cur, jobVars, stopVars, startVars>>

\* ... are executed one after the other without it, whatever has become of
\* them.
FireBegin(l) ==
  /\ Goto(l, "fire", "busy")
  /\ \E j \in due[l] :
       /\ due' = [due EXCEPT ![l] = @ \ {j}]
       /\ cur' = [cur EXCEPT ![l] = {j}]
       /\ runs' = [runs EXCEPT ![j] = @ + 1]
       /\ late' = IF job[j] = "removed" THEN [late EXCEPT ![j] = @ + 1] ELSE late
  /\ UNCHANGED <<running, thread, job, ripe, count, stopVars, startVars>>

\* The finally block: next_run and run_count of a job that still exists.
Account(l) ==
  \E j \in cur[l] :
    IF Present(j) THEN /\ count' = [count EXCEPT ![j] = @ + 1]
                       /\ ripe' = ripe \ {j}
                  ELSE UNCHANGED <<count, ripe>>

FireEnd(l) ==
  /\ Goto(l, "busy", "fire")
  /\ Account(l)
  /\ cur' = [cur EXCEPT ![l] = {}]
  /\ UNCHANGED <<running, thread, due, job, runs, late, stopVars, startVars>>

\* Mutant of FireDies: the job is accounted for after the try statement.
FireDiesUncounted(l) ==
  /\ cur[l] \subseteq Exits
  /\ Goto(l, "busy", "dead")
  /\ cur' = [cur EXCEPT ![l] = {}]
  /\ abandoned' = abandoned \ {l}
  /\ UNCHANGED <<running, thread, due, jobVars, leaving, joining, startVars>>

\* A BaseException passes "except Exception": the loop's thread is gone, and
\* self._running stays True.
FireDies(l) ==
  /\ cur[l] \subseteq Exits
  /\ Goto(l, "busy", "dead")
  /\ Account(l)
  /\ cur' = [cur EXCEPT ![l] = {}]
  /\ abandoned' = abandoned \ {l}
  /\ UNCHANGED <<running, thread, due, job, runs, late, leaving, joining, startVars>>

SweepEnd(l) ==
  /\ due[l] = {}
  /\ Goto(l, "fire", "check")
  /\ UNCHANGED <<running, thread, due, cur, jobVars, stopVars, startVars>>

LoopStep(l) == \/ Check(l) \/ Sweep(l) \/ FireBegin(l) \/ FireEnd(l)
               \/ FireDies(l) \/ SweepEnd(l)

RegistryStep == \E j \in Job : \/ AddJob(j) \/ RemoveJob(j) \/ EnableJob(j)
                               \/ DisableJob(j) \/ Ripen(j)

StopStep(c) == StopLook(c) \/ StopLoad(c) \/ StopJoinRaises(c) \/ StopJoin(c)

-----------------------------------------------------------------------------
(* Properties. *)

CronTypeOK ==
  /\ running \in BOOLEAN /\ thread \in Loop \cup {NoLoop}
  /\ pc \in [Loop -> {"off", "made", "lost", "check", "sweep", "fire", "busy", "ended", "dead"}]
  /\ starting \in {"no", "make", "load", "run"} /\ loaded \in Loop \cup {NoLoop}
  /\ crossed \in BOOLEAN /\ (starting = "run" <=> loaded # NoLoop)
  /\ due \in [Loop -> SUBSET Job] /\ cur \in [Loop -> SUBSET Job]
  /\ job \in [Job -> {"absent", "on", "off", "removed"}] /\ ripe \subseteq Job
  /\ count \in [Job -> Nat] /\ runs \in [Job -> Nat] /\ late \in [Job -> Nat]
  /\ leaving \in [Caller -> {"no", "look", "load", "join", "done", "raised"}]
  /\ joining \in [Caller -> Loop \cup {NoLoop}]
  /\ \A c \in Caller : leaving[c] = "join" <=> joining[c] \in Loop
  /\ abandoned \subseteq Loop

\* "Periodic job scheduler backed by a single daemon thread": no loop outlives
\* its stop(), and a second one is alive, only when a join has timed out or a
\* start() and a stop() have met, and only the loops given up then: those alive
\* when the start() raised the flag, and the one it made, for which no stop()
\* has waited.  Calls of start() and stop() that do not meet leave one loop.
SingleLoop == {l \in Loop : Alive(l)} \subseteq abandoned \cup {thread}

\* run_count is exact for every job that is still registered: no execution is
\* lost or counted twice, even by two loops that fire the same job.
RunCountExact ==
  \A j \in Job : Present(j) =>
    count[j] = runs[j] - Cardinality({l \in Loop : j \in cur[l]})

\* A removed job is started at most once more by each loop: by the sweep that
\* had picked it before it was removed.
LateFiring ==
  \A j \in Job : late[j] <= Cardinality({l \in Loop : pc[l] # "off"})

\* The cron service counts its loops, its executions and its late ones exactly.
CronExact == SingleLoop /\ RunCountExact /\ LateFiring
=============================================================================
