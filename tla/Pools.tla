------------------------------- MODULE Pools -------------------------------
(***************************************************************************)
(* The two building blocks of aura/scheduler that the scheduler does not   *)
(* use yet: the lanes of queue.py and the thread pool of worker_pool.py.   *)
(***************************************************************************)
EXTENDS Lists

CONSTANTS
  Lanes,      \* _NUM_LANES
  Ask,        \* priorities that callers ask for
  MaxPushed,  \* bound on the records pushed
  Workers,    \* worker_count
  MaxWork,    \* bound on the items and pills put into the queue
  MaxThreads, \* bound on the worker threads there were when start() is called
  PoolCaller, \* threads that call start() and stop() of the pool
  Inside      \* those of them that are workers and call from on_done

ASSUME PoolsAssumption == /\ {Lanes, Workers} \subseteq Nat \ {0} /\ Ask \subseteq Int
                          /\ IsFiniteSet(Inside)

VARIABLES
  lane,       \* SchedulerQueue._lanes: records numbered as they were pushed
  pushed,     \* history: how many records were pushed
  popped,     \* history: per lane, the records pop() returned
  withdrawn,  \* history: records cancel() removed
  poolOn,     \* WorkerPool._running
  work,       \* WorkerPool._queue: items and poison pills
  idle, busy, \* the number of worker threads that wait, and that run on_done
  crew,     \* the length of WorkerPool._workers
  poolCall,   \* where each caller is in start() or stop(), and its loop's count
  poolDied,   \* history: workers ended by a BaseException
  puts,       \* history: what was put into the queue
  strayed     \* history: calls of start() and stop() overlapped, or one failed

laneVars == <<lane, pushed, popped, withdrawn>>
threadVars == <<work, idle, busy, poolDied, puts>>
poolVars == <<poolOn, crew, poolCall, strayed, threadVars>>

Lane == 0..Lanes - 1
LaneInit == /\ lane = [l \in Lane |-> <<>>] /\ pushed = 0
            /\ popped = [l \in Lane |-> <<>>] /\ withdrawn = {}

\* A priority out of range goes to the nearest lane.
LaneOf(p) == Max({0, Min({p, Lanes - 1})})
Push(p) == /\ pushed < MaxPushed /\ pushed' = pushed + 1
           /\ lane' = [lane EXCEPT ![LaneOf(p)] = Append(@, pushed + 1)]
           /\ UNCHANGED <<popped, withdrawn>>
\* The head of the first lane that is not empty.
Pop == \E l \in Lane :
         /\ lane[l] # <<>> /\ \A m \in Lane : m < l => lane[m] = <<>>
         /\ lane' = [lane EXCEPT ![l] = Tail(@)]
         /\ popped' = [popped EXCEPT ![l] = Append(@, Head(lane[l]))]
         /\ UNCHANGED <<pushed, withdrawn>>

\* Mutant of Withdraw: the record is marked and not removed.
WithdrawKeeps(r) == \E l \in Lane :
                /\ r \in ToSet(lane[l])
                /\ withdrawn' = withdrawn \cup {r} /\ UNCHANGED <<lane, pushed, popped>>
\* cancel(): what pop() already took is not found.
Withdraw(r) == \E l \in Lane :
                /\ r \in ToSet(lane[l]) /\ lane' = [lane EXCEPT ![l] = Kept(@, (1..pushed) \ {r})]
                /\ withdrawn' = withdrawn \cup {r} /\ UNCHANGED <<pushed, popped>>

LaneNext == Pop \/ (\E p \in Ask : Push(p)) \/ \E r \in 1..MaxPushed : Withdraw(r)

NoPoolCall == [at |-> "no", n |-> 0]
PoolInit == /\ poolOn = FALSE /\ work = <<>> /\ idle = 0 /\ busy = 0 /\ crew = 0
            /\ poolCall = [c \in PoolCaller |-> NoPoolCall] /\ strayed = FALSE
            /\ poolDied = 0 /\ puts = 0

InCall(c) == poolCall[c].at # "no"
\* A worker that runs on_done, and is not in a call, or leaves on_done.
Free == busy > Cardinality({c \in Inside : InCall(c)})
CallGoes(c, from, to, n) ==
  poolCall[c].at = from /\ poolCall' = [poolCall EXCEPT ![c] = [at |-> to, n |-> n]]
Enters(c, to) == /\ CallGoes(c, "no", to, 0) /\ (c \in Inside => Free)
                 /\ strayed' = (strayed \/ \E d \in PoolCaller \ {c} : InCall(d))

\* start() looks at the flag, raises it, and makes one worker after the other,
\* each started and then listed.  There is no lock.
StartLooks(c) == /\ ~poolOn /\ idle + busy + poolDied < MaxThreads /\ Enters(c, "raise")
                 /\ UNCHANGED <<poolOn, crew, threadVars>>
StartRaises(c) == /\ CallGoes(c, "raise", "make", Workers) /\ poolOn' = TRUE
                  /\ UNCHANGED <<crew, strayed, threadVars>>
StartWorker(c) == /\ CallGoes(c, "make", "list", poolCall[c].n) /\ idle' = idle + 1
                  /\ UNCHANGED <<poolOn, crew, strayed, work, busy, poolDied, puts>>
ListWorker(c) ==
  /\ LET left == poolCall[c].n - 1 IN CallGoes(c, "list", IF left > 0 THEN "make" ELSE "no", left)
  /\ crew' = crew + 1 /\ UNCHANGED <<poolOn, strayed, threadVars>>

\* stop() looks at the flag, lowers it, and puts a pill for each worker listed.
StopLooks(c) == /\ poolOn /\ Enters(c, "lower") /\ UNCHANGED <<poolOn, crew, threadVars>>
StopLowers(c) == /\ CallGoes(c, "lower", "put", 0) /\ poolOn' = FALSE
                 /\ UNCHANGED <<crew, strayed, threadVars>>
PutPill(c) == /\ puts < MaxWork /\ poolCall[c].n < crew
              /\ CallGoes(c, "put", "put", poolCall[c].n + 1)
              /\ work' = Append(work, "pill") /\ puts' = puts + 1
              /\ UNCHANGED <<poolOn, crew, strayed, idle, busy, poolDied>>
PillsPut(c) == /\ poolCall[c].n >= crew /\ CallGoes(c, "put", "join", 0)
               /\ UNCHANGED <<poolOn, crew, strayed, threadVars>>
\* The joins give up after 2 s each: a worker that is busy for longer takes its
\* pill when it is free.  The list is emptied, whoever was listed meanwhile.
StopEnds(c) == /\ CallGoes(c, "join", "no", 0) /\ crew' = 0
               /\ UNCHANGED <<poolOn, strayed, threadVars>>
\* A listed worker that joins itself gets a RuntimeError.
StopRaises(c) == /\ c \in Inside /\ crew > 0 /\ CallGoes(c, "join", "no", 0)
                 /\ strayed' = TRUE /\ UNCHANGED <<poolOn, crew, threadVars>>

CallStep(c) == \/ StartLooks(c) \/ StartRaises(c) \/ StartWorker(c) \/ ListWorker(c)
               \/ StopLooks(c) \/ StopLowers(c) \/ PutPill(c) \/ PillsPut(c)
               \/ StopEnds(c) \/ StopRaises(c)

callVars == <<poolOn, crew, poolCall, strayed>>
PoolSubmit == /\ puts < MaxWork /\ work' = Append(work, "item") /\ puts' = puts + 1
              /\ UNCHANGED <<callVars, idle, busy, poolDied>>

\* Mutant of TakePill: the loop goes on after the pill.
TakePillOn == /\ idle > 0 /\ work # <<>> /\ Head(work) = "pill" /\ work' = Tail(work)
              /\ UNCHANGED <<callVars, idle, busy, poolDied, puts>>
TakePill == /\ idle > 0 /\ work # <<>> /\ Head(work) = "pill"
            /\ work' = Tail(work) /\ idle' = idle - 1
            /\ UNCHANGED <<callVars, busy, poolDied, puts>>
TakeItem == /\ idle > 0 /\ work # <<>> /\ Head(work) = "item" /\ work' = Tail(work)
            /\ idle' = idle - 1 /\ busy' = busy + 1 /\ UNCHANGED <<callVars, poolDied, puts>>
\* on_done returns or raises an Exception; a BaseException ends the thread.
ItemDone == /\ Free /\ busy' = busy - 1 /\ idle' = idle + 1
            /\ UNCHANGED <<callVars, work, poolDied, puts>>
ItemDies == /\ Free /\ busy' = busy - 1 /\ poolDied' = poolDied + 1
            /\ UNCHANGED <<callVars, work, idle, puts>>

PoolNext == \/ \E c \in PoolCaller : CallStep(c)
            \/ PoolSubmit \/ TakePill \/ TakeItem \/ ItemDone \/ ItemDies

-----------------------------------------------------------------------------
(* Properties. *)

\* Every record pushed waits, was popped or was withdrawn, and only one of
\* these; within a lane the order is that of pushing (push, pop, cancel).
LanesFifo ==
  LET all(l)  == popped[l] \o lane[l]
      seen(l) == ToSet(all(l))
  IN  /\ \A l \in Lane : \A i, j \in DOMAIN all(l) : i < j => all(l)[i] < all(l)[j]
      /\ withdrawn \cup UNION {seen(l) : l \in Lane} = 1..pushed
      /\ \A l \in Lane : withdrawn \cap seen(l) = {}
      /\ \A l, m \in Lane : l # m => seen(l) \cap seen(m) = {}

\* Stopped and started again, whoever calls and in whatever order pills and
\* items are taken, the pool neither loses nor gains a worker: between calls the
\* threads less the pills that wait are the size of the pool, or none; but for
\* the workers that died, and as long as no start() or stop() overlapped another
\* and no worker stopped its own pool (start, stop, _worker_loop).
PoolSize ==
  ~strayed /\ (\A c \in PoolCaller : ~InCall(c)) =>
    idle + busy + poolDied - Len(Kept(work, {"pill"})) = IF poolOn THEN Workers ELSE 0
=============================================================================
