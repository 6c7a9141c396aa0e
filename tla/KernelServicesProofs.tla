------------------------ MODULE KernelServicesProofs ------------------------
(***************************************************************************)
(* Proofs about the cron service under AIOS and the service manager, for   *)
(* any jobs, any number of loops and of threads that stop the service.     *)
(***************************************************************************)
EXTENDS KernelServices, FiniteSetTheorems, TLAPS

-----------------------------------------------------------------------------
(* The inductive invariant. *)

\* The registered thread is no loop that a start() could lose.
GivenUp == thread # NoLoop /\ Alive(thread) => thread \in abandoned

\* While the flag is down and no start() is in progress, some stop() has still
\* to deal with the registered thread, or it has been given up.
JoinInv == ~running /\ starting = "no" =>
             \/ GivenUp
             \/ \E c \in Caller : leaving[c] \in {"look", "load", "join"}

\* A stop() that cannot join the thread it has read finds no other loop.
LostInv == \A c \in Caller :
  leaving[c] = "join" /\ pc[joining[c]] = "lost" => GivenUp

\* start() knows of every stop() that it has met, and replaces no loop that it
\* would have to give up.
CrossInv == /\ starting # "no" => crossed \/ (running /\ ~Stopping)
            /\ starting = "make" => GivenUp

\* The thread that is made and not started is the one that start() will read
\* or has read; nobody but a stop() that start() knows of takes it away.
MadeInv ==
  /\ starting = "load" => thread = NoLoop \/ pc[thread] = "made"
  /\ starting = "run" => /\ pc[loaded] = "made" /\ thread \in {NoLoop, loaded}
                         /\ crossed \/ thread = loaded
  /\ \A l \in Loop : pc[l] = "made" => \/ starting = "load" /\ thread \in {NoLoop, l}
                                       \/ starting = "run" /\ loaded = l

\* A loop executes one job exactly while it is busy, has a list only once it
\* has been created, and never one of a job that was not added.
LoopInv == \A l \in Loop :
  /\ pc[l] = "busy" => \E j \in Job : cur[l] = {j}
  /\ pc[l] # "busy" => cur[l] = {}
  /\ pc[l] \in {"off", "made", "lost"} => due[l] = {}
  /\ \A j \in due[l] \cup cur[l] : job[j] # "absent"

Busy(j)   == {l \in Loop : j \in cur[l]}
Listed(j) == {l \in Loop : j \in due[l]}
Created   == {l \in Loop : pc[l] # "off"}

CountInv == \A j \in Job : job[j] # "removed" => count[j] = runs[j] - Cardinality(Busy(j))

\* A loop that lists a removed job has one late execution left.
LateInv == \A j \in Job :
  /\ job[j] # "removed" => late[j] = 0
  /\ job[j] = "removed" => late[j] + Cardinality(Listed(j)) <= Cardinality(Created)

ThreadInv == JoinInv /\ LostInv /\ CrossInv /\ MadeInv
CronInv == CronTypeOK /\ ThreadInv /\ SingleLoop /\ LoopInv /\ CountInv /\ LateInv

\* An automatic restart is due only while attempts are left.
RetryInv == \A t \in Thread : call[t].at = "again" => call[t].retry < MaxAutoRestarts
SMInv == SMTypeOK /\ RetryInv

LEMMA LoopFinite ==
  /\ IsFiniteSet(Loop) /\ NoLoop \notin Loop
  /\ \A S \in SUBSET Loop : IsFiniteSet(S) /\ Cardinality(S) \in Nat
<1>1. IsFiniteSet(Loop)
  BY WiringAssumption, FS_Interval DEF Loop
<1>2. \A S \in SUBSET Loop : IsFiniteSet(S) /\ Cardinality(S) \in Nat
  BY <1>1, FS_Subset, FS_CardinalityType
<1> QED BY <1>1, <1>2 DEF Loop, NoLoop

LEMMA InitCronInv == CronInit => CronInv
<1> SUFFICES ASSUME CronInit PROVE CronInv
  OBVIOUS
<1> USE DEF CronInit
<1>1. CronTypeOK
  <2>1. running \in BOOLEAN
    BY Zenon
  <2>2. /\ leaving \in [Caller -> {"no", "look", "load", "join", "done", "raised"}]
        /\ joining \in [Caller -> Loop \cup {NoLoop}]
        /\ \A c \in Caller : leaving[c] = "join" <=> joining[c] \in Loop
    BY LoopFinite
  <2> QED BY <2>1, <2>2 DEF CronTypeOK
<1>2. ThreadInv /\ SingleLoop /\ LoopInv
  BY DEF ThreadInv, JoinInv, LostInv, CrossInv, MadeInv, GivenUp, SingleLoop, LoopInv, Alive
<1>3. ASSUME NEW j \in Job PROVE Busy(j) = {}
  BY DEF Busy
<1>4. CountInv /\ LateInv
  BY <1>3, FS_EmptySet DEF CountInv, LateInv
<1> QED BY <1>1, <1>2, <1>4 DEF CronInv

-----------------------------------------------------------------------------
(* Every step of the cron service preserves it. *)

CronStep ==
  \/ CronStart
  \/ StartStep
  \/ \E c \in Caller : \/ StopFlag(c) \/ StopStep(c)
                       \/ StopEnd(c, "done") \/ StopEnd(c, "raised")
  \/ RegistryStep
  \/ \E l \in Loop : LoopStep(l)

LEMMA StepsAreCronSteps == Next => CronStep \/ UNCHANGED cronVars
BY WiringAssumption DEF Next, MainStep, Commanded, ThreadStep, CronStopStep, CronStep

\* What the steps of start() leave alone keeps the counts.
LEMMA CountsKept ==
  ASSUME CronInv, CronTypeOK', UNCHANGED <<due, cur, job, ripe, count, runs, late>>,
         Created \subseteq Created'
  PROVE  CountInv' /\ LateInv'
<1> USE DEF CronInv
<1>1. CountInv'
  BY DEF CountInv, Busy
<1>2. \A j \in Job : Listed(j)' = Listed(j)
  BY DEF Listed
<1>3. Cardinality(Created) <= Cardinality(Created')
  <2>1. Created' \in SUBSET Loop
    BY DEF Created
  <2> QED BY <2>1, LoopFinite, FS_Subset
<1>4. Cardinality(Created) \in Nat /\ Cardinality(Created)' \in Nat
      /\ \A j \in Job : Cardinality(Listed(j)) \in Nat
  BY LoopFinite DEF Created, Listed
<1>5. LateInv'
  BY <1>2, <1>3, <1>4 DEF LateInv, CronTypeOK
<1> QED BY <1>1, <1>5

LEMMA FlagKeeps ==
  ASSUME CronInv, CronStart
  PROVE  CronInv'
<1> USE DEF CronInv, ThreadInv
<1>1. /\ ~running /\ running' = TRUE /\ starting = "no" /\ starting' = "make"
      /\ crossed' = Stopping
      /\ abandoned' = IF Stopping THEN abandoned \cup {l \in Loop : Alive(l)} ELSE abandoned
      /\ UNCHANGED <<thread, pc, due, cur, job, ripe, count, runs, late, leaving, joining, loaded>>
  BY DEF CronStart, RaiseFlag, Start, loopVars, jobVars
<1>2. CronTypeOK' /\ LoopInv' /\ MadeInv'
  BY <1>1 DEF CronTypeOK, LoopInv, MadeInv, Stopping
<1>3. SingleLoop' /\ JoinInv'
  BY <1>1 DEF SingleLoop, Alive, JoinInv
<1>4. GivenUp'
  <2>1. CASE Stopping
    BY <1>1, <2>1 DEF GivenUp, Alive, CronTypeOK
  <2>2. CASE ~Stopping
    BY <1>1, <2>2 DEF GivenUp, Alive, JoinInv, Stopping
  <2> QED BY <2>1, <2>2
<1>7. Stopping' = Stopping
  BY <1>1 DEF Stopping
<1>5. LostInv' /\ CrossInv'
  <2>1. CrossInv'
    BY <1>1, <1>4, <1>7 DEF CrossInv
  <2> QED BY <1>4, <2>1 DEF LostInv
<1>6. CountInv' /\ LateInv'
  BY <1>1, <1>2, CountsKept DEF Created
<1> QED BY <1>2, <1>3, <1>5, <1>6

LEMMA MakeKeeps ==
  ASSUME CronInv, StartMake
  PROVE  CronInv'
<1> USE DEF CronInv, ThreadInv
<1>1. PICK n \in Loop : /\ pc[n] = "off" /\ thread' = n
                        /\ pc' = [pc EXCEPT ![n] = "made"]
  BY DEF StartMake
<1>2. /\ starting = "make" /\ starting' = "load"
      /\ UNCHANGED <<running, due, cur, job, ripe, count, runs, late, leaving, joining, abandoned,
                     loaded, crossed>>
  BY DEF StartMake, Start, jobVars, stopVars
<1>3. CronTypeOK' /\ LoopInv'
  BY <1>1, <1>2 DEF CronTypeOK, LoopInv
<1>4. pc'[n] = "made" /\ \A l \in Loop \ {n} : pc'[l] = pc[l]
  BY <1>1 DEF CronTypeOK
<1>5. GivenUp' /\ \A l \in Loop : Alive(l)' <=> Alive(l)
  BY <1>1, <1>4 DEF GivenUp, Alive
<1>6. SingleLoop'
  BY <1>2, <1>5, LoopFinite DEF SingleLoop, CrossInv, GivenUp
<1>7. JoinInv' /\ LostInv' /\ CrossInv'
  BY <1>2, <1>5 DEF JoinInv, LostInv, CrossInv, Stopping
<1>8. MadeInv'
  BY <1>1, <1>2, <1>4 DEF MadeInv
<1>9. CountInv' /\ LateInv'
  BY <1>2, <1>3, <1>4, CountsKept DEF Created
<1> QED BY <1>3, <1>6, <1>7, <1>8, <1>9

LEMMA LoadKeeps ==
  ASSUME CronInv, StartLoad
  PROVE  CronInv'
<1> USE DEF CronInv, ThreadInv
<1>1. /\ starting = "load" /\ loaded' = thread /\ crossed' = (crossed /\ thread # NoLoop)
      /\ UNCHANGED <<running, thread, due, cur, job, ripe, count, runs, late, leaving, joining, abandoned>>
  BY DEF StartLoad, Start, jobVars, stopVars
<1>2. CASE thread = NoLoop
  <2>1. /\ starting' = "no"
        /\ pc' = [l \in Loop |-> IF pc[l] = "made" THEN "lost" ELSE pc[l]]
    BY <1>2 DEF StartLoad, Start
  <2>2. \A l \in Loop : Alive(l)' <=> Alive(l)
    BY <2>1 DEF Alive, CronTypeOK
  <2>3. CronTypeOK' /\ LoopInv'
    BY <1>1, <1>2, <2>1 DEF CronTypeOK, LoopInv
  <2>4. SingleLoop' /\ GivenUp'
    BY <1>1, <1>2, <2>2 DEF SingleLoop, GivenUp
  <2>5. JoinInv' /\ LostInv' /\ CrossInv' /\ MadeInv'
    BY <1>1, <1>2, <2>1, <2>4 DEF JoinInv, LostInv, CrossInv, MadeInv
  <2>6. CountInv' /\ LateInv'
    BY <1>1, <2>1, <2>3, CountsKept DEF Created
  <2> QED BY <2>3, <2>4, <2>5, <2>6
<1>3. CASE thread # NoLoop
  <2>1. starting' = "run" /\ pc' = pc
    BY <1>3 DEF StartLoad, Start
  <2>2. CronTypeOK' /\ LoopInv' /\ SingleLoop'
    BY <1>1, <1>3, <2>1 DEF CronTypeOK, LoopInv, SingleLoop, Alive
  <2>3. JoinInv' /\ LostInv' /\ CrossInv' /\ MadeInv'
    BY <1>1, <1>3, <2>1 DEF JoinInv, LostInv, CrossInv, MadeInv, GivenUp, Alive, Stopping
  <2>4. CountInv' /\ LateInv'
    BY <1>1, <2>1, <2>2, CountsKept DEF Created
  <2> QED BY <2>2, <2>3, <2>4
<1> QED BY <1>2, <1>3

LEMMA RunKeeps ==
  ASSUME CronInv, StartRun
  PROVE  CronInv'
<1> USE DEF CronInv, ThreadInv
<1>1. /\ starting = "run" /\ starting' = "no" /\ loaded' = NoLoop /\ crossed' = FALSE
      /\ pc' = [pc EXCEPT ![loaded] = "check"]
      /\ abandoned' = IF crossed THEN abandoned \cup {loaded} ELSE abandoned
      /\ UNCHANGED <<running, thread, due, cur, job, ripe, count, runs, late, leaving, joining>>
  BY DEF StartRun, Start, jobVars
<1>2. /\ loaded \in Loop /\ pc[loaded] = "made" /\ thread \in {NoLoop, loaded}
      /\ crossed \/ thread = loaded
  BY <1>1, LoopFinite DEF CronTypeOK, MadeInv
<1>3. pc'[loaded] = "check" /\ \A l \in Loop \ {loaded} : pc'[l] = pc[l]
  BY <1>1, <1>2 DEF CronTypeOK
<1>4. CronTypeOK' /\ LoopInv'
  BY <1>1, <1>2 DEF CronTypeOK, LoopInv
<1>5. SingleLoop'
  BY <1>1, <1>2, <1>3 DEF SingleLoop, Alive
<1>6. crossed => GivenUp'
  BY <1>1, <1>2 DEF GivenUp
<1>7. JoinInv' /\ LostInv' /\ CrossInv'
  <2>1. ~running => crossed
    BY <1>1 DEF CrossInv
  <2>2. JoinInv'
    BY <1>1, <1>6, <2>1 DEF JoinInv
  <2>3. \A c \in Caller : leaving[c] = "join" => crossed
    BY <1>1 DEF CrossInv, Stopping
  <2> QED BY <1>1, <1>6, <2>2, <2>3 DEF LostInv, CrossInv
<1>8. MadeInv'
  BY <1>1, <1>2, <1>3 DEF MadeInv
<1>9. CountInv' /\ LateInv'
  BY <1>1, <1>2, <1>3, <1>4, CountsKept DEF Created
<1> QED BY <1>4, <1>5, <1>7, <1>8, <1>9

LEMMA StopKeeps ==
  ASSUME NEW c \in Caller, CronInv,
         StopFlag(c) \/ StopStep(c) \/ StopEnd(c, "done") \/ StopEnd(c, "raised")
  PROVE  CronInv'
<1> USE DEF CronInv, ThreadInv
<1>1. UNCHANGED <<pc, due, cur, job, ripe, count, runs, late, starting, loaded>>
  BY DEF StopFlag, StopStep, StopLook, StopLoad, StopJoin, StopJoinRaises, StopEnd, loopVars,
     jobVars, startVars
<1>2. LoopInv' /\ CountInv' /\ LateInv'
  BY <1>1 DEF LoopInv, CountInv, LateInv, Busy, Listed, Created
<1>3. CASE StopFlag(c)
  <2>1. /\ UNCHANGED <<thread, joining, abandoned>> /\ running' = FALSE
        /\ leaving' = [leaving EXCEPT ![c] = "look"] /\ leaving[c] = "no"
        /\ crossed' = (crossed \/ starting # "no")
    BY <1>3 DEF StopFlag, Leave
  <2>2. CronTypeOK' /\ SingleLoop'
    BY <1>1, <2>1 DEF CronTypeOK, SingleLoop, Alive
  <2>3. GivenUp' <=> GivenUp
    BY <1>1, <2>1 DEF GivenUp, Alive
  <2>4. JoinInv' /\ LostInv' /\ CrossInv' /\ MadeInv'
    <3>1. leaving' \in [Caller -> {"no", "look", "load", "join", "done", "raised"}]
          /\ leaving'[c] = "look" /\ \A d \in Caller \ {c} : leaving'[d] = leaving[d]
      BY <2>1, <2>2 DEF CronTypeOK
    <3>2. JoinInv' /\ LostInv'
      BY <1>1, <2>1, <2>3, <3>1 DEF JoinInv, LostInv
    <3>3. CrossInv'
      BY <1>1, <2>1, <2>3 DEF CrossInv
    <3>4. MadeInv'
      BY <1>1, <2>1 DEF MadeInv
    <3> QED BY <3>2, <3>3, <3>4
  <2> QED BY <1>2, <2>2, <2>4
<1>4. ASSUME UNCHANGED <<running, thread, abandoned, crossed>>, leaving[c] # "no",
             NEW to \in {"no", "load", "done", "join", "raised"},
             leaving' = [leaving EXCEPT ![c] = to],
             \/ joining' = joining /\ to # "join" /\ leaving[c] # "join"
             \/ joining' = [joining EXCEPT ![c] = thread] /\ (to = "join" <=> thread # NoLoop)
             \/ joining' = [joining EXCEPT ![c] = NoLoop] /\ to = "raised",
             to \in {"load", "join"} \/ GivenUp \/ leaving[c] \in {"done", "raised"} \/ starting # "no"
      PROVE  CronInv'
  <2>1. CronTypeOK' /\ SingleLoop'
    <3>1. /\ leaving' \in [Caller -> {"no", "look", "load", "join", "done", "raised"}]
          /\ joining' \in [Caller -> Loop \cup {NoLoop}]
      BY <1>4 DEF CronTypeOK
    <3>2. leaving'[c] = "join" <=> joining'[c] \in Loop
      BY <1>4, LoopFinite DEF CronTypeOK
    <3>3. ASSUME NEW d \in Caller \ {c} PROVE leaving'[d] = "join" <=> joining'[d] \in Loop
      <4>1. leaving'[d] = leaving[d] /\ joining'[d] = joining[d]
        BY <1>4 DEF CronTypeOK
      <4> QED BY <4>1 DEF CronTypeOK
    <3>4. \A d \in Caller : leaving'[d] = "join" <=> joining'[d] \in Loop
      BY <3>2, <3>3
    <3>5. CronTypeOK'
      BY <1>1, <1>4, <3>1, <3>4 DEF CronTypeOK
    <3> QED BY <1>1, <1>4, <3>5 DEF SingleLoop, Alive
  <2>2. GivenUp' <=> GivenUp
    BY <1>1, <1>4 DEF GivenUp, Alive
  <2>3. JoinInv'
    BY <1>1, <1>4, <2>2 DEF CronTypeOK, JoinInv
  <2>4. LostInv'
    <3> SUFFICES ASSUME NEW d \in Caller, leaving'[d] = "join", pc[joining'[d]] = "lost"
                 PROVE  GivenUp
      BY <1>1, <2>2 DEF LostInv
    <3>1. CASE d # c
      BY <1>4, <3>1 DEF LostInv, CronTypeOK
    <3>2. CASE d = c
      BY <1>4, <3>2 DEF GivenUp, Alive, CronTypeOK
    <3> QED BY <3>1, <3>2
  <2>5. Stopping' => Stopping
    BY <1>4 DEF Stopping, CronTypeOK
  <2>6. CrossInv' /\ MadeInv'
    BY <1>1, <1>4, <2>2, <2>5 DEF CrossInv, MadeInv
  <2> QED BY <1>2, <2>1, <2>3, <2>4, <2>6
<1>5. CASE StopLook(c)
  BY <1>4, <1>5 DEF StopLook, Leave, startVars, GivenUp
<1>6. CASE StopLoad(c)
  BY <1>4, <1>6 DEF StopLoad, Leave, startVars, GivenUp
<1>7. CASE StopEnd(c, "done") \/ StopEnd(c, "raised")
  BY <1>4, <1>7 DEF StopEnd, Leave, startVars
<1>8. CASE StopJoinRaises(c)
  <2>1. /\ leaving[c] = "join" /\ Unstarted(joining[c])
        /\ UNCHANGED <<running, thread, abandoned, crossed>>
        /\ leaving' = [leaving EXCEPT ![c] = "raised"]
        /\ joining' = [joining EXCEPT ![c] = NoLoop]
    BY <1>8 DEF StopJoinRaises, Leave, startVars
  <2>2. GivenUp \/ starting # "no"
    BY <2>1 DEF Unstarted, LostInv, MadeInv, CronTypeOK
  <2> QED BY <1>4, <2>1, <2>2
<1>9. CASE StopJoin(c)
  <2>1. /\ thread' = NoLoop /\ joining' = [joining EXCEPT ![c] = NoLoop] /\ leaving[c] = "join"
        /\ leaving' = [leaving EXCEPT ![c] = "done"] /\ UNCHANGED <<running, crossed>>
        /\ abandoned' = abandoned \cup {l \in Loop \cap {thread, joining[c]} : Alive(l)}
    BY <1>9 DEF StopJoin, Leave, startVars
  <2>2. CronTypeOK'
    BY <1>1, <2>1, LoopFinite DEF CronTypeOK
  <2>3. SingleLoop' /\ GivenUp'
    BY <1>1, <2>1 DEF SingleLoop, Alive, GivenUp
  <2>4. crossed \/ starting = "no"
    BY <2>1 DEF CrossInv, Stopping
  <2>5. JoinInv' /\ LostInv' /\ CrossInv' /\ MadeInv'
    <3>1. JoinInv' /\ LostInv'
      BY <2>3 DEF JoinInv, LostInv
    <3>2. CrossInv'
      BY <1>1, <2>1, <2>3, <2>4 DEF CrossInv
    <3>3. MadeInv'
      BY <1>1, <2>1, <2>4 DEF MadeInv
    <3> QED BY <3>1, <3>2, <3>3
  <2> QED BY <1>2, <2>2, <2>3, <2>5
<1> QED BY <1>3, <1>5, <1>6, <1>7, <1>8, <1>9 DEF StopStep

\* A step of a loop that leaves the flag and the calls of start() and stop()
\* alone, and gives no loop its thread.
LEMMA LoopStepKeeps ==
  ASSUME CronInv, NEW l \in Loop, NEW to \in {"check", "sweep", "fire", "busy", "ended", "dead"},
         Alive(l), pc' = [pc EXCEPT ![l] = to],
         UNCHANGED <<running, thread, leaving, joining, starting, loaded, crossed>>,
         \/ to \notin {"ended", "dead"} /\ abandoned' = abandoned
         \/ to \in {"ended", "dead"} /\ abandoned' = abandoned \ {l}
  PROVE  ThreadInv' /\ SingleLoop'
<1> USE DEF CronInv, ThreadInv
<1>1. pc'[l] = to /\ \A k \in Loop \ {l} : pc'[k] = pc[k]
  BY DEF CronTypeOK
<1>2. SingleLoop'
  BY <1>1 DEF SingleLoop, Alive
<1>3. GivenUp => GivenUp'
  BY <1>1 DEF GivenUp, Alive, CronTypeOK
<1>4. JoinInv'
  BY <1>3 DEF JoinInv
<1>5. \A k \in Loop : (pc'[k] = "lost" <=> pc[k] = "lost") /\ (pc'[k] = "made" <=> pc[k] = "made")
  BY <1>1 DEF Alive
<1>6. LostInv'
  BY <1>3, <1>5 DEF LostInv, CronTypeOK
<1>7. CrossInv'
  BY <1>3 DEF CrossInv, Stopping
<1>8. MadeInv'
  BY <1>5, LoopFinite DEF MadeInv, CronTypeOK
<1> QED BY <1>2, <1>4, <1>6, <1>7, <1>8

LEMMA RegistryKeeps ==
  ASSUME CronInv, RegistryStep
  PROVE  CronInv'
<1> USE DEF CronInv
<1>1. UNCHANGED <<running, thread, pc, due, cur, count, runs, late, leaving, joining, abandoned,
                  starting, loaded, crossed>>
  BY DEF RegistryStep, AddJob, RemoveJob, EnableJob, DisableJob, SetJob, Ripen, loopVars, stopVars,
     startVars
<1>2. ThreadInv' /\ SingleLoop'
  BY <1>1 DEF ThreadInv, JoinInv, LostInv, CrossInv, MadeInv, GivenUp, Stopping, SingleLoop, Alive
<1>3. /\ \A j \in Job : Busy(j)' = Busy(j) /\ Listed(j)' = Listed(j)
      /\ Created' = Created
  BY <1>1 DEF Busy, Listed, Created
<1>4. CASE \E j \in Job : Ripen(j)
  BY <1>1, <1>2, <1>3, <1>4 DEF Ripen, CronTypeOK, LoopInv, CountInv, LateInv
<1>5. ASSUME NEW j \in Job, AddJob(j) \/ RemoveJob(j) \/ EnableJob(j) \/ DisableJob(j)
      PROVE  CronInv'
  <2>1. PICK st \in {"on", "off", "removed"} : job' = [job EXCEPT ![j] = st]
    BY <1>5 DEF AddJob, RemoveJob, EnableJob, DisableJob, SetJob
  <2>2. job[j] # "removed" /\ ripe' = ripe
    BY <1>5 DEF AddJob, RemoveJob, EnableJob, DisableJob, SetJob
  <2>3. CronTypeOK' /\ LoopInv'
    BY <1>1, <2>1, <2>2 DEF CronTypeOK, LoopInv
  <2>4. CountInv'
    BY <1>1, <1>3, <2>1, <2>2 DEF CountInv, CronTypeOK
  <2>5. Listed(j) \subseteq Created /\ Created \in SUBSET Loop
    BY DEF Listed, Created, LoopInv
  <2>6. /\ Cardinality(Listed(j)) <= Cardinality(Created)
        /\ Cardinality(Listed(j)) \in Nat
    BY <2>5, LoopFinite, FS_Subset
  <2>7. LateInv'
    BY <1>1, <1>3, <2>1, <2>2, <2>6 DEF LateInv, CronTypeOK
  <2> QED BY <1>2, <2>3, <2>4, <2>7
<1> QED BY <1>4, <1>5 DEF RegistryStep

\* Checking the flag and leaving an empty list change no job and no list.
LEMMA CheckKeeps ==
  ASSUME NEW l \in Loop, CronInv, Check(l) \/ SweepEnd(l)
  PROVE  CronInv'
<1> USE DEF CronInv
<1>1. /\ UNCHANGED <<running, thread, due, cur, job, ripe, count, runs, late, leaving, joining,
                     starting, loaded, crossed>>
      /\ pc[l] \in {"check", "fire"}
  BY DEF Check, SweepEnd, Goto, jobVars, stopVars, startVars
<1>0. PICK to \in {"sweep", "ended", "check"} :
        /\ pc' = [pc EXCEPT ![l] = to]
        /\ abandoned' = IF to = "ended" THEN abandoned \ {l} ELSE abandoned
  BY DEF Check, SweepEnd, Goto, stopVars
<1>2. CronTypeOK' /\ LoopInv'
  BY <1>0, <1>1 DEF CronTypeOK, LoopInv
<1>3. ThreadInv' /\ SingleLoop'
  BY <1>0, <1>1, LoopStepKeeps DEF Alive
<1>4. Created' = Created
  BY <1>0, <1>1 DEF Created, CronTypeOK
<1>5. CountInv' /\ LateInv'
  BY <1>1, <1>4 DEF CountInv, LateInv, Busy, Listed
<1> QED BY <1>2, <1>3, <1>5

LEMMA SweepKeeps ==
  ASSUME NEW l \in Loop, CronInv, Sweep(l)
  PROVE  CronInv'
<1> USE DEF CronInv
<1>1. /\ UNCHANGED <<running, thread, cur, job, ripe, count, runs, late, leaving, joining, abandoned,
                     starting, loaded, crossed>>
      /\ pc[l] = "sweep" /\ pc' = [pc EXCEPT ![l] = "fire"]
      /\ due' = [due EXCEPT ![l] = {j \in ripe : job[j] = "on"}]
  BY DEF Sweep, Goto, jobVars, stopVars, startVars
<1>0. ThreadInv' /\ SingleLoop'
  BY <1>1, LoopStepKeeps DEF Alive
<1>2. CronTypeOK' /\ LoopInv'
  BY <1>1 DEF CronTypeOK, LoopInv
<1>3. Created' = Created /\ CountInv'
  BY <1>1 DEF Created, CronTypeOK, CountInv, Busy
<1>4. ASSUME NEW j \in Job, job[j] = "removed"
      PROVE  Cardinality(Listed(j)') <= Cardinality(Listed(j))
  <2>1. Listed(j)' \subseteq Listed(j)
    BY <1>1, <1>4 DEF Listed, CronTypeOK
  <2>2. Listed(j) \in SUBSET Loop
    BY DEF Listed
  <2> QED BY <2>1, <2>2, LoopFinite, FS_Subset
<1>5. \A j \in Job : Cardinality(Listed(j)) \in Nat /\ Cardinality(Listed(j)') \in Nat
  BY LoopFinite DEF Listed
<1>6. Cardinality(Created) \in Nat
  BY LoopFinite DEF Created
<1>7. LateInv'
  BY <1>1, <1>3, <1>4, <1>5, <1>6 DEF LateInv, CronTypeOK
<1> QED BY <1>0, <1>2, <1>3, <1>7

LEMMA FireKeeps ==
  ASSUME NEW l \in Loop, CronInv, FireBegin(l)
  PROVE  CronInv'
<1> USE DEF CronInv
<1>1. PICK j \in due[l] : /\ due' = [due EXCEPT ![l] = @ \ {j}]
                          /\ cur' = [cur EXCEPT ![l] = {j}]
                          /\ runs' = [runs EXCEPT ![j] = @ + 1]
                          /\ late' = IF job[j] = "removed" THEN [late EXCEPT ![j] = @ + 1] ELSE late
  BY DEF FireBegin
<1>2. /\ UNCHANGED <<running, thread, job, ripe, count, leaving, joining, abandoned,
                     starting, loaded, crossed>>
      /\ pc[l] = "fire" /\ pc' = [pc EXCEPT ![l] = "busy"] /\ j \in Job
  BY DEF FireBegin, Goto, stopVars, startVars, CronTypeOK
<1>0. ThreadInv' /\ SingleLoop'
  BY <1>2, LoopStepKeeps DEF Alive
<1>3. CronTypeOK' /\ LoopInv'
  BY <1>1, <1>2 DEF CronTypeOK, LoopInv
<1>4. Created' = Created
  BY <1>2 DEF Created, CronTypeOK
<1>5. /\ l \notin Busy(j) /\ Busy(j)' = Busy(j) \cup {l}
      /\ l \in Listed(j) /\ Listed(j)' = Listed(j) \ {l}
      /\ \A k \in Job \ {j} : Busy(k)' = Busy(k) /\ Listed(k)' = Listed(k)
  BY <1>1, <1>2 DEF Busy, Listed, CronTypeOK, LoopInv
<1>6. \A k \in Job : /\ IsFiniteSet(Busy(k)) /\ Cardinality(Busy(k)) \in Nat
                     /\ IsFiniteSet(Listed(k)) /\ Cardinality(Listed(k)) \in Nat
  BY LoopFinite DEF Busy, Listed
<1>7. /\ Cardinality(Busy(j)') = Cardinality(Busy(j)) + 1
      /\ Cardinality(Listed(j)') = Cardinality(Listed(j)) - 1
  <2>1. IsFiniteSet(Busy(j)) /\ IsFiniteSet(Listed(j))
    BY <1>2, <1>6
  <2>2. Cardinality(Busy(j) \cup {l}) = Cardinality(Busy(j)) + 1
    BY <1>5, <2>1, FS_AddElement
  <2>3. Cardinality(Listed(j) \ {l}) = Cardinality(Listed(j)) - 1
    BY <1>5, <2>1, FS_RemoveElement
  <2> QED BY <1>5, <2>2, <2>3
<1>8. CountInv'
  <2> SUFFICES ASSUME NEW k \in Job, job[k] # "removed"
               PROVE  count[k] = runs'[k] - Cardinality(Busy(k)')
    BY <1>2 DEF CountInv
  <2>1. /\ count[k] = runs[k] - Cardinality(Busy(k))
        /\ runs[k] \in Nat /\ Cardinality(Busy(k)) \in Nat /\ runs \in [Job -> Nat]
    BY <1>6 DEF CountInv, CronTypeOK
  <2>2. CASE k = j
    BY <1>1, <1>7, <2>1, <2>2
  <2>3. CASE k # j
    BY <1>1, <1>5, <2>1, <2>3
  <2> QED BY <2>2, <2>3
<1>9. Cardinality(Created) \in Nat
  BY LoopFinite DEF Created
<1>10. LateInv'
  <2> SUFFICES ASSUME NEW k \in Job
               PROVE  /\ job[k] # "removed" => late'[k] = 0
                      /\ job[k] = "removed" =>
                           late'[k] + Cardinality(Listed(k)') <= Cardinality(Created)
    BY <1>2, <1>4 DEF LateInv
  <2>1. /\ job[k] # "removed" => late[k] = 0
        /\ job[k] = "removed" => late[k] + Cardinality(Listed(k)) <= Cardinality(Created)
        /\ late[k] \in Nat /\ Cardinality(Listed(k)) \in Nat /\ late \in [Job -> Nat]
    BY <1>6 DEF LateInv, CronTypeOK
  <2>2. CASE k = j
    BY <1>1, <1>7, <1>9, <2>1, <2>2
  <2>3. CASE k # j
    BY <1>1, <1>5, <2>1, <2>3
  <2> QED BY <2>2, <2>3
<1> QED BY <1>0, <1>3, <1>8, <1>10

\* The end of a job, with or without the end of its loop.
LEMMA EndKeeps ==
  ASSUME NEW l \in Loop, CronInv, FireEnd(l) \/ FireDies(l)
  PROVE  CronInv'
<1> USE DEF CronInv
<1>1. /\ UNCHANGED <<running, thread, due, job, runs, late, leaving, joining,
                     starting, loaded, crossed>>
      /\ pc[l] = "busy" /\ cur' = [cur EXCEPT ![l] = {}]
      /\ \/ pc' = [pc EXCEPT ![l] = "fire"] /\ abandoned' = abandoned
         \/ pc' = [pc EXCEPT ![l] = "dead"] /\ abandoned' = abandoned \ {l}
  BY DEF FireEnd, FireDies, Goto, stopVars, startVars
<1>2. PICK j \in Job : cur[l] = {j}
  BY <1>1 DEF LoopInv
<1>3. IF Present(j) THEN /\ count' = [count EXCEPT ![j] = @ + 1]
                        /\ ripe' = ripe \ {j}
                   ELSE UNCHANGED <<count, ripe>>
  BY <1>2 DEF FireEnd, FireDies, Account
<1>4. job[j] # "absent"
  BY <1>2 DEF LoopInv
<1>5. CronTypeOK' /\ LoopInv'
  BY <1>1, <1>3 DEF CronTypeOK, LoopInv
<1>6. ThreadInv' /\ SingleLoop'
  BY <1>1, LoopStepKeeps DEF Alive
<1>7. Created' = Created /\ \A k \in Job : Listed(k)' = Listed(k)
  BY <1>1 DEF Created, Listed, CronTypeOK
<1>8. LateInv'
  BY <1>1, <1>7 DEF LateInv
<1>9. /\ l \in Busy(j) /\ Busy(j)' = Busy(j) \ {l}
      /\ \A k \in Job \ {j} : Busy(k)' = Busy(k)
  BY <1>1, <1>2 DEF Busy, CronTypeOK
<1>10. \A k \in Job : IsFiniteSet(Busy(k)) /\ Cardinality(Busy(k)) \in Nat
  BY LoopFinite DEF Busy
<1>11. Cardinality(Busy(j)') = Cardinality(Busy(j)) - 1
  BY <1>9, <1>10, FS_RemoveElement
<1>12. CountInv'
  <2> SUFFICES ASSUME NEW k \in Job, job[k] # "removed"
               PROVE  count'[k] = runs[k] - Cardinality(Busy(k)')
    BY <1>1 DEF CountInv
  <2>1. /\ count[k] = runs[k] - Cardinality(Busy(k)) /\ count \in [Job -> Nat]
        /\ runs[k] \in Nat /\ Cardinality(Busy(k)) \in Nat
        /\ job[k] \in {"absent", "on", "off", "removed"}
    BY <1>10 DEF CountInv, CronTypeOK
  <2>2. CASE k = j
    BY <1>3, <1>4, <1>11, <2>1, <2>2 DEF Present
  <2>3. CASE k # j
    BY <1>3, <1>9, <2>1, <2>3
  <2> QED BY <2>2, <2>3
<1> QED BY <1>5, <1>6, <1>8, <1>12

LEMMA CronInvStep == CronInv /\ [Next]_vars => CronInv'
<1> SUFFICES ASSUME CronInv, [Next]_vars PROVE CronInv'
  OBVIOUS
<1>1. CASE UNCHANGED cronVars
  <2> USE <1>1 DEF cronVars, loopVars, jobVars, stopVars, startVars
  <2>1. CronTypeOK'
    BY DEF CronInv, CronTypeOK
  <2>2. ThreadInv' /\ SingleLoop' /\ LoopInv'
    BY DEF CronInv, ThreadInv, JoinInv, LostInv, CrossInv, MadeInv, GivenUp, Stopping, SingleLoop,
       Alive, LoopInv
  <2>3. CountInv' /\ LateInv'
    BY DEF CronInv, CountInv, LateInv, Busy, Listed, Created
  <2> QED BY <2>1, <2>2, <2>3 DEF CronInv
<1>2. ASSUME NEW l \in Loop, LoopStep(l) PROVE CronInv'
  BY <1>2, CheckKeeps, SweepKeeps, FireKeeps, EndKeeps DEF LoopStep
<1>3. CASE CronStep
  BY <1>2, <1>3, FlagKeeps, MakeKeeps, LoadKeeps, RunKeeps, StopKeeps, RegistryKeeps
     DEF CronStep, StartStep
<1> QED BY <1>1, <1>3, StepsAreCronSteps DEF vars

-----------------------------------------------------------------------------
(* The service manager keeps its types. *)

LEMMA InitSMInv == SMInit => SMInv
BY ManagerAssumption DEF SMInit, SMInv, SMTypeOK, RetryInv, Call, NoCall

LEMMA SMInvStep == SMInv /\ [Next]_vars => SMInv'
<1> SUFFICES ASSUME SMInv, [Next]_vars PROVE SMInv'
  OBVIOUS
<1> USE ManagerAssumption DEF SMInv, SMTypeOK, RetryInv
<1>1. CASE UNCHANGED smVars
  BY <1>1 DEF smVars
<1>2. CASE Command
  <2>1. ASSUME NEW s \in Service, Register(s) PROVE SMInv'
    BY <2>1 DEF Register
  <2>2. ASSUME NEW t \in Thread, NEW s \in Service, NEW where \in Place, NEW again \in BOOLEAN,
               Enter(t, s, where, again), where # "again"
        PROVE  SMInv'
    <3>1. [at |-> where, on |-> s, restart |-> again, retry |-> 0] \in Call
      BY DEF Call
    <3>2. call' \in [Thread -> Call \cup {NoCall}]
      BY <2>2, <3>1 DEF Enter
    <3> QED BY <2>2, <3>2 DEF Enter, NoCall
  <2> QED BY <1>2, <2>1, <2>2 DEF Command, StartService, StopService, RestartService, StopEntry, Place
<1>3. ASSUME NEW t \in Thread, call[t] # NoCall,
             InnerStep(t) \/ StopReturns(t) \/ StopRaises(t)
      PROVE  SMInv'
  <2>1. call[t] \in Call
    BY <1>3
  <2>2. /\ state' \in [Service -> {"none", "inactive", "active", "failed"}]
        /\ up' \in [Service -> BOOLEAN] /\ overlapped' = overlapped
    BY <1>3, <2>1 DEF Call, InnerStep, StopRecorded, StartReturns, StartRaises, StartRecorded,
       StartFailed, StartAgain, StopReturns, StopRaises, Record
  <2>3. \E c \in Call \cup {NoCall} :
          /\ call' = [call EXCEPT ![t] = c]
          /\ c.at = "again" => c.retry < MaxAutoRestarts
    BY <1>3, <2>1 DEF Call, NoCall, Place, InnerStep, StopRecorded, StartReturns, StartRaises,
       StartRecorded, StartFailed, StartAgain, StopReturns, StopRaises, Move, Return, At
  <2> QED BY <2>2, <2>3
<1>4. ASSUME NEW t \in Thread, ThreadStep(t) PROVE SMInv'
  <2>1. CASE UNCHANGED smVars
    BY <1>1, <2>1
  <2>2. CASE ~UNCHANGED smVars
    <3>1. InnerStep(t) \/ StopReturns(t) \/ StopRaises(t)
      BY <1>4, <2>2 DEF ThreadStep, CronStopStep
    <3>2. call[t] # NoCall
      BY <3>1 DEF NoCall, InnerStep, StopRecorded, StartReturns, StartRaises, StartRecorded,
         StartFailed, StartAgain, StopReturns, StopRaises, At
    <3> QED BY <1>3, <3>1, <3>2
  <2> QED BY <2>1, <2>2
<1> QED BY <1>1, <1>2, <1>4 DEF Next, MainStep, Commanded, vars

-----------------------------------------------------------------------------
(* The theorems. *)

LEMMA KernelInvariance == Spec => [](CronInv /\ SMInv)
<1>1. Init => CronInv /\ SMInv
  BY InitCronInv, InitSMInv DEF Init
<1> QED BY <1>1, CronInvStep, SMInvStep, PTL DEF Spec

\* The state of the cron service, of every stop() in progress and of the
\* service manager is well typed, for any number of loops and threads.
THEOREM TypeCorrect == Spec => []TypeOK
<1>1. CronInv /\ SMInv => TypeOK
  BY DEF CronInv, SMInv, TypeOK
<1> QED BY <1>1, KernelInvariance, PTL

\* However start() and stop() interleave, line by line, no loop is lost that
\* was not given up when a join timed out or a start() met a stop(), run_count
\* counts every execution once, and each loop fires a removed job at most once.
THEOREM CronIsExact == Spec => []CronExact
<1>1. ASSUME CronInv, NEW j \in Job PROVE late[j] <= Cardinality(Created)
  <2>1. /\ Cardinality(Listed(j)) \in Nat /\ Cardinality(Created) \in Nat
        /\ late[j] \in Nat
    BY <1>1, LoopFinite DEF Listed, Created, CronInv, CronTypeOK
  <2> QED BY <1>1, <2>1 DEF CronInv, LateInv
<1>2. CronInv => CronExact
  BY <1>1 DEF CronInv, CronExact, RunCountExact, LateFiring, CountInv, Created, Busy, Present
<1> QED BY <1>2, KernelInvariance, PTL
=============================================================================
