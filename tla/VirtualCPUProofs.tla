-------------------------- MODULE VirtualCPUProofs --------------------------
(***************************************************************************)
(* Proofs about VirtualCPU, for any finite set of tasks and threads, any   *)
(* priorities and any bound on the history and on the stops, that it       *)
(* implements TaskExecutor, and about it coupled to the virtual cloud, for *)
(* any set of nodes and any node sizes.                                    *)
(***************************************************************************)
EXTENDS CpuCloud, MCVirtualCPU, FiniteSetTheorems, TLAPS

-----------------------------------------------------------------------------
(* The inductive invariant.  A task is a token that passes from its         *)
(* submitter to the queue, to one worker, and to the finished list.         *)

Holding == {"popped", "claim", "run", "publish", "finally", "unwind"}
Queueable == {"put", "done", "raised"}

\* A worker holds a task exactly between dequeueing it and finally.
HoldInv == \A w \in Worker : pc[w] \in Holding <=> hold[w] \in Task

\* A thread that start() has not created is nowhere in the loop.
OffInv == \A w \in Worker \ threads : pc[w] = "off"

\* The token is in one place, and its fn has not run before a worker claims it.
QueueInv  == \A t \in queue : sub[t] \in Queueable /\ runs[t] = 0
WorkerInv == \A w \in Worker : hold[w] \in Task =>
               /\ hold[w] \notin queue /\ sub[hold[w]] \in Queueable
               /\ pc[w] \in {"popped", "claim"} => runs[hold[w]] = 0
UniqueInv == \A v, w \in Worker : v # w /\ hold[v] \in Task => hold[v] # hold[w]
CallerInv == \A t \in Task : sub[t] \in {"no", "registered"} => runs[t] = 0

\* A fn that has been called leaves the status past the reach of cancel(), and
\* an early cancel leaves it past the reach of the workers.
StatusInv == \A t \in Task :
  /\ runs[t] # 0 => status[t] \in {"running", "completed", "failed"}
  /\ sub[t] = "no" => status[t] = "new"
EarlyInv  == \A t \in Task : ack[t] = "early" =>
               status[t] = "cancelled" /\ ~Claimed(t) /\ runs[t] = 0

TokenInv == /\ HoldInv /\ OffInv /\ QueueInv /\ WorkerInv /\ UniqueInv /\ CallerInv
            /\ AtMostOnce
\* A worker past the claim has run its task.
RunInv == \A w \in Worker : w \in Busy => runs[hold[w]] = 1
CancelInv == StatusInv /\ EarlyInv /\ RunInv

-----------------------------------------------------------------------------
(* Type correctness. *)

LEMMA InitTypeOK == Init => TypeOK
<1> SUFFICES ASSUME Init PROVE TypeOK
  OBVIOUS
<1>1. finished \in Seq(Task)
  BY DEF Init
<1>2. stops \in 0..MaxStops
  BY BoundAssumption DEF Init
<1>3. running \in BOOLEAN /\ heapOk \in BOOLEAN
  BY Zenon DEF Init
<1>4. /\ queue \subseteq Task /\ registry \subseteq Task /\ threads \subseteq Worker
      /\ pills \in Nat /\ due \in Nat
      /\ active \in Int /\ completed \in Nat /\ failed \in Nat
  BY DEF Init
<1>5. /\ status \in [Task -> Status]
      /\ sub \in [Task -> {"no", "registered", "put", "done", "raised"}]
      /\ runs \in [Task -> Nat]
      /\ ack \in [Task -> {"none", "early", "late"}]
  BY DEF Init, Status
<1> QED BY <1>1, <1>2, <1>3, <1>4, <1>5 DEF Init, TypeOK

\* _evict_old_tasks keeps a sequence of task ids.
LEMMA YoungestType ==
  ASSUME NEW f \in Seq(Task)
  PROVE  Youngest(f) \in Seq(Task)
BY BoundAssumption DEF Youngest

LEMMA LifecycleTypeOK ==
  TypeOK /\ (Start \/ StopFlag \/ StopPut \/ StopPutRaises) => TypeOK'
<1> SUFFICES ASSUME TypeOK, Start \/ StopFlag \/ StopPut \/ StopPutRaises
             PROVE  TypeOK'
  OBVIOUS
<1> USE DEF TypeOK, qvars, tvars, wvars, cvars, lvars
<1>1. CASE Start
  BY <1>1 DEF Start
<1>2. CASE StopFlag
  <2>1. Cardinality(threads) \in Nat
    BY WorkerAssumption, FS_CardinalityType, FS_Subset
  <2>2. stops' \in 0..MaxStops
    BY <1>2, BoundAssumption DEF StopFlag
  <2>3. running' \in BOOLEAN
    BY <1>2, Zenon DEF StopFlag
  <2> QED BY <1>2, <2>1, <2>2, <2>3 DEF StopFlag
<1>3. CASE StopPut
  BY <1>3 DEF StopPut
<1>4. CASE StopPutRaises
  BY <1>4 DEF StopPutRaises
<1> QED BY <1>1, <1>2, <1>3, <1>4

LEMMA CallerTypeOK ==
  ASSUME NEW t \in Task, TypeOK, CallerStep(t)
  PROVE  TypeOK'
<1> USE DEF TypeOK, qvars, tvars, wvars, cvars, lvars, Status
<1>1. CASE SubmitRegister(t)
  BY <1>1 DEF SubmitRegister
<1>2. CASE SubmitPut(t)
  BY <1>2 DEF SubmitPut
<1>3. CASE SubmitPublish(t)
  BY <1>3 DEF SubmitPublish
<1>4. CASE Cancel(t)
  BY <1>4 DEF Cancel
<1> QED BY <1>1, <1>2, <1>3, <1>4 DEF CallerStep, CallerQuiet

LEMMA WorkerTypeOK ==
  ASSUME NEW w \in Worker, TypeOK, HoldInv, WorkerStep(w)
  PROVE  TypeOK'
<1> USE DEF TypeOK, qvars, tvars, wvars, cvars, lvars, Status, Goto
<1>1. CASE Check(w)
  BY <1>1 DEF Check
<1>2. CASE GetEmpty(w)
  BY <1>2 DEF GetEmpty
<1>3. CASE GetPill(w)
  BY <1>3 DEF GetPill
<1>4. CASE GetTask(w)
  BY <1>4 DEF GetTask
<1>5. CASE GetRaises(w)
  <2>1. heapOk' \in BOOLEAN
    BY <1>5 DEF GetRaises
  <2>2. pills' \in Nat /\ queue' \subseteq Task
    BY <1>5 DEF GetRaises
  <2> QED BY <1>5, <2>1, <2>2 DEF GetRaises
<1>6. CASE SkipCancelled(w)
  BY <1>6 DEF SkipCancelled
<1>7. CASE SeesRunnable(w)
  BY <1>7 DEF SeesRunnable
<1>8. CASE Claim(w)
  <2>1. hold[w] \in Task
    BY <1>8 DEF Claim, HoldInv, Holding
  <2> QED BY <1>8, <2>1 DEF Claim
<1>9. CASE FnReturns(w)
  <2>1. hold[w] \in Task
    BY <1>9 DEF FnReturns, HoldInv, Holding
  <2> QED BY <1>9, <2>1 DEF FnReturns
<1>10. CASE FnRaises(w)
  <2>1. hold[w] \in Task
    BY <1>10 DEF FnRaises, HoldInv, Holding
  <2> QED BY <1>10, <2>1 DEF FnRaises
<1>11. CASE FnExits(w)
  BY <1>11 DEF FnExits
<1>12. CASE PublishFinished(w)
  BY <1>12 DEF PublishFinished
<1>13. CASE Finally(w)
  <2>1. hold[w] \in Task
    BY <1>13 DEF Finally, HoldInv, Holding
  <2>2. Append(finished, hold[w]) \in Seq(Task)
    BY <2>1
  <2>3. finished' \in Seq(Task)
    BY <1>13, <2>2, YoungestType DEF Finally
  <2>4. registry' \subseteq Task
    BY <1>13 DEF Finally
  <2> QED BY <1>13, <2>1, <2>3, <2>4 DEF Finally
<1> QED BY <1>1, <1>2, <1>3, <1>4, <1>5, <1>6, <1>7, <1>8, <1>9, <1>10,
           <1>11, <1>12, <1>13 DEF WorkerStep, WorkerQuiet

-----------------------------------------------------------------------------
(* At most once: the task is a token. *)

LEMMA InitTokenInv == Init => TokenInv
BY TaskAssumption DEF Init, TokenInv, HoldInv, OffInv, QueueInv, WorkerInv, UniqueInv,
   CallerInv, AtMostOnce, Holding

LEMMA LifecycleTokenInv ==
  ASSUME TypeOK, TokenInv, Start \/ StopFlag \/ StopPut \/ StopPutRaises
  PROVE  TokenInv'
<1> USE DEF TypeOK, qvars, tvars, wvars, cvars, TokenInv, HoldInv, OffInv, QueueInv,
            WorkerInv, UniqueInv, CallerInv, AtMostOnce, Holding
<1>1. CASE Start
  <2>1. PICK new \in SUBSET (Worker \ threads) :
          pc' = [w \in Worker |-> IF w \in new THEN "check" ELSE pc[w]]
    BY <1>1 DEF Start
  <2>2. \A w \in new : hold[w] \notin Task
    BY <2>1
  <2> QED BY <1>1, <2>1, <2>2 DEF Start
<1>2. CASE StopFlag \/ StopPut \/ StopPutRaises
  BY <1>2 DEF StopFlag, StopPut, StopPutRaises
<1> QED BY <1>1, <1>2

LEMMA CallerTokenInv ==
  ASSUME NEW t \in Task, TypeOK, TokenInv, CallerStep(t)
  PROVE  TokenInv'
<1> USE DEF TypeOK, qvars, tvars, wvars, cvars, TokenInv, HoldInv, OffInv, QueueInv,
            WorkerInv, UniqueInv, CallerInv, AtMostOnce, Holding, Queueable
<1>1. CASE SubmitRegister(t)
  BY <1>1 DEF SubmitRegister
<1>2. CASE SubmitPut(t)
  BY <1>2 DEF SubmitPut
<1>3. CASE SubmitPublish(t)
  BY <1>3 DEF SubmitPublish
<1>4. CASE Cancel(t)
  BY <1>4 DEF Cancel
<1> QED BY <1>1, <1>2, <1>3, <1>4 DEF CallerStep, CallerQuiet

LEMMA WorkerTokenInv ==
  ASSUME NEW w \in Worker, TypeOK, TokenInv, WorkerStep(w)
  PROVE  TokenInv'
<1> USE DEF TypeOK, qvars, tvars, cvars, Goto, TokenInv, HoldInv, OffInv, QueueInv,
            WorkerInv, UniqueInv, CallerInv, AtMostOnce, Holding, Queueable
<1>1. CASE Check(w)
  BY <1>1 DEF Check
<1>2. CASE GetEmpty(w)
  BY <1>2 DEF GetEmpty
<1>3. CASE GetPill(w)
  BY <1>3 DEF GetPill
<1>4. CASE GetTask(w)
  BY <1>4 DEF GetTask
<1>5. CASE GetRaises(w)
  BY <1>5 DEF GetRaises
<1>6. CASE SkipCancelled(w)
  BY <1>6, TaskAssumption DEF SkipCancelled
<1>7. CASE SeesRunnable(w)
  BY <1>7 DEF SeesRunnable
<1>8. CASE Claim(w)
  <2> DEFINE t == hold[w]
  <2>1. t \in Task /\ runs[t] = 0 /\ t \notin queue /\ sub[t] \in Queueable
    BY <1>8 DEF Claim
  <2>2. /\ runs' = [runs EXCEPT ![t] = 1]
        /\ pc' = [pc EXCEPT ![w] = "run"]
        /\ UNCHANGED <<queue, sub, hold, threads>>
    BY <1>8, <2>1 DEF Claim
  <2>3. \A v \in Worker : v # w => hold[v] # t
    BY <2>1
  <2> HIDE DEF t
  <2>4. HoldInv' /\ OffInv' /\ UniqueInv'
    BY <1>8, <2>2 DEF Claim
  <2>5. QueueInv' /\ CallerInv' /\ AtMostOnce'
    BY <2>1, <2>2
  <2>6. WorkerInv'
    <3> SUFFICES ASSUME NEW v \in Worker, hold[v] \in Task
                 PROVE  /\ hold[v] \notin queue /\ sub[hold[v]] \in Queueable
                        /\ pc'[v] \in {"popped", "claim"} => runs'[hold[v]] = 0
      BY <2>2
    <3>1. CASE v = w
      BY <3>1, <2>1, <2>2
    <3>2. CASE v # w
      BY <3>2, <2>1, <2>2, <2>3
    <3> QED BY <3>1, <3>2
  <2> QED BY <2>4, <2>5, <2>6
<1>9. CASE FnReturns(w)
  BY <1>9 DEF FnReturns
<1>10. CASE FnRaises(w)
  BY <1>10 DEF FnRaises
<1>11. CASE FnExits(w)
  BY <1>11 DEF FnExits
<1>12. CASE PublishFinished(w)
  BY <1>12 DEF PublishFinished
<1>13. CASE Finally(w)
  BY <1>13, TaskAssumption DEF Finally
<1> QED BY <1>1, <1>2, <1>3, <1>4, <1>5, <1>6, <1>7, <1>8, <1>9, <1>10,
           <1>11, <1>12, <1>13 DEF WorkerStep, WorkerQuiet

-----------------------------------------------------------------------------
(* A cancellation acknowledged in time is honoured. *)

LEMMA InitCancelInv == Init => CancelInv
BY DEF Init, CancelInv, StatusInv, EarlyInv, RunInv, Busy

LEMMA LifecycleCancelInv ==
  ASSUME TypeOK, TokenInv, CancelInv,
         Start \/ StopFlag \/ StopPut \/ StopPutRaises
  PROVE  CancelInv'
<1> USE DEF TypeOK, qvars, tvars, wvars, cvars, CancelInv, StatusInv, EarlyInv,
            RunInv, Busy, Claimed
<1>1. CASE Start
  BY <1>1 DEF Start, TokenInv, HoldInv, OffInv, Holding
<1>2. CASE StopFlag \/ StopPut \/ StopPutRaises
  BY <1>2 DEF StopFlag, StopPut, StopPutRaises
<1> QED BY <1>1, <1>2

LEMMA CallerCancelInv ==
  ASSUME NEW t \in Task, TypeOK, TokenInv, CancelInv, CallerStep(t)
  PROVE  CancelInv'
<1> USE DEF TypeOK, qvars, tvars, wvars, cvars, CancelInv, StatusInv, EarlyInv,
            RunInv, Busy, Claimed, Status
<1>1. CASE SubmitRegister(t)
  BY <1>1 DEF SubmitRegister, TokenInv, CallerInv
<1>2. CASE SubmitPut(t)
  BY <1>2 DEF SubmitPut
<1>3. CASE SubmitPublish(t)
  BY <1>3 DEF SubmitPublish
<1>4. CASE Cancel(t)
  BY <1>4 DEF Cancel
<1> QED BY <1>1, <1>2, <1>3, <1>4 DEF CallerStep, CallerQuiet

LEMMA WorkerCancelInv ==
  ASSUME NEW w \in Worker, TypeOK, TokenInv, CancelInv, WorkerStep(w)
  PROVE  CancelInv'
<1> USE DEF TypeOK, qvars, tvars, cvars, Goto, CancelInv, StatusInv, EarlyInv,
            RunInv, Busy, Claimed, Status
<1>0. /\ pc[w] \in Holding => hold[w] \in Task
      /\ pc[w] \in {"popped", "claim"} => runs[hold[w]] = 0
      /\ \A v \in Worker : v # w /\ hold[w] \in Task => hold[v] # hold[w]
      /\ \A v \in Worker : pc[v] \in Holding <=> hold[v] \in Task
      /\ hold[w] \in Task => sub[hold[w]] # "no"
  BY DEF Queueable, TokenInv, HoldInv, WorkerInv, UniqueInv, Holding
<1>1. CASE Check(w)
  BY <1>1 DEF Check
<1>2. CASE GetEmpty(w)
  BY <1>2 DEF GetEmpty
<1>3. CASE GetPill(w)
  BY <1>3 DEF GetPill
<1>4. CASE GetTask(w)
  BY <1>4 DEF GetTask
<1>5. CASE GetRaises(w)
  BY <1>5 DEF GetRaises
<1>6. CASE SkipCancelled(w)
  BY <1>6 DEF SkipCancelled
<1>7. CASE SeesRunnable(w)
  BY <1>7 DEF SeesRunnable
<1>8. CASE Claim(w)
  BY <1>0, <1>8 DEF Claim, Holding
<1>9. CASE FnReturns(w)
  BY <1>0, <1>9 DEF FnReturns, Holding
<1>10. CASE FnRaises(w)
  BY <1>0, <1>10 DEF FnRaises, Holding
<1>11. CASE FnExits(w)
  BY <1>11 DEF FnExits
<1>12. CASE PublishFinished(w)
  BY <1>12 DEF PublishFinished
<1>13. CASE Finally(w)
  BY <1>13 DEF Finally
<1> QED BY <1>1, <1>2, <1>3, <1>4, <1>5, <1>6, <1>7, <1>8, <1>9, <1>10,
           <1>11, <1>12, <1>13 DEF WorkerStep, WorkerQuiet

-----------------------------------------------------------------------------
(* The counters of metrics(). *)

\* Only a fn that was called completes or fails, and while it executes its
\* task is RUNNING: cancel() acts on QUEUED tasks only.
OutcomeInv ==
  /\ \A t \in Task : status[t] \in {"completed", "failed"} => runs[t] # 0
  /\ \A w \in Worker : pc[w] = "run" => status[hold[w]] = "running"

LEMMA InitOutcomeInv == Init => OutcomeInv
BY DEF Init, OutcomeInv

LEMMA StepOutcomeInv ==
  ASSUME TypeOK, TokenInv, CancelInv, OutcomeInv, Next
  PROVE  OutcomeInv'
<1> USE DEF TypeOK, qvars, tvars, wvars, cvars, OutcomeInv
<1>1. CASE Start \/ StopFlag \/ StopPut \/ StopPutRaises
  BY <1>1 DEF Start, StopFlag, StopPut, StopPutRaises
<1>2. ASSUME NEW t \in Task, CallerStep(t)
      PROVE  OutcomeInv'
  <2>1. \A w \in Worker : pc[w] = "run" => hold[w] \in Task /\ sub[hold[w]] # "no"
    BY DEF TokenInv, HoldInv, WorkerInv, Holding, Queueable
  <2>2. CASE SubmitRegister(t)
    BY <2>1, <2>2 DEF SubmitRegister
  <2>3. CASE SubmitPut(t) \/ SubmitPublish(t)
    BY <2>3 DEF SubmitPut, SubmitPublish
  <2>4. CASE Cancel(t)
    BY <2>1, <2>4 DEF Cancel
  <2> QED BY <1>2, <2>2, <2>3, <2>4 DEF CallerStep, CallerQuiet
<1>3. ASSUME NEW w \in Worker, WorkerStep(w)
      PROVE  OutcomeInv'
  <2>1. /\ pc[w] \in Holding => hold[w] \in Task
        /\ \A v \in Worker : v # w /\ hold[w] \in Task => hold[v] # hold[w]
        /\ pc[w] = "run" => runs[hold[w]] = 1
    BY DEF TokenInv, HoldInv, UniqueInv, CancelInv, RunInv, Busy
  <2>0. \A v \in Worker : pc[v] = "run" => hold[v] \in Task
    BY DEF TokenInv, HoldInv, Holding
  <2>2. CASE Claim(w) \/ FnReturns(w) \/ FnRaises(w)
    <3>1. CASE Claim(w)
      <4>1. /\ status' = [status EXCEPT ![hold[w]] = "running"]
            /\ runs' = [runs EXCEPT ![hold[w]] = @ + 1]
            /\ hold' = hold /\ pc' = [pc EXCEPT ![w] = "run"]
            /\ hold[w] \in Task
        BY <2>1, <3>1 DEF Claim, Goto, Holding
      <4>2. \A t \in Task : runs[t] # 0 => runs'[t] # 0
        BY <4>1
      <4>3. \A t \in Task : status'[t] \in {"completed", "failed"} => runs'[t] # 0
        BY <4>1, <4>2
      <4> QED BY <2>0, <2>1, <4>1, <4>3
    <3>2. CASE FnReturns(w)
      BY <2>0, <2>1, <3>2 DEF FnReturns, Goto, Holding
    <3>3. CASE FnRaises(w)
      BY <2>0, <2>1, <3>3 DEF FnRaises, Goto, Holding
    <3> QED BY <2>2, <3>1, <3>2, <3>3
  <2>3. CASE ~(Claim(w) \/ FnReturns(w) \/ FnRaises(w))
    <3>1. UNCHANGED <<status, runs>>
      BY <1>3, <2>3 DEF WorkerStep, WorkerQuiet, Check, GetEmpty, GetPill, GetTask,
         GetRaises, SkipCancelled, SeesRunnable, FnExits, PublishFinished,
         Finally
    <3>2. pc'[w] # "run" /\ \A v \in Worker : v # w => pc'[v] = pc[v]
      BY <1>3, <2>3 DEF WorkerStep, WorkerQuiet, Check, GetEmpty, GetPill, GetTask, Goto,
         GetRaises, SkipCancelled, SeesRunnable, FnExits, PublishFinished,
         Finally
    <3>3. \A v \in Worker : v # w => hold'[v] = hold[v]
      BY <1>3, <2>3 DEF WorkerStep, WorkerQuiet, Check, GetEmpty, GetPill, GetTask,
         GetRaises, SkipCancelled, SeesRunnable, FnExits, PublishFinished,
         Finally
    <3> QED BY <3>1, <3>2, <3>3
  <2> QED BY <2>2, <2>3
<1> QED BY <1>1, <1>2, <1>3 DEF Next, LifecycleStep

LEMMA InitActiveCount == Init => ActiveCount
<1> SUFFICES ASSUME Init PROVE ActiveCount
  OBVIOUS
<1>1. Busy = {}
  BY DEF Init, Busy
<1> QED BY <1>1, FS_EmptySet DEF Init, ActiveCount

LEMMA StepActiveCount ==
  ASSUME TypeOK, TokenInv, ActiveCount, Next
  PROVE  ActiveCount'
<1>0. IsFiniteSet(Busy) /\ Busy \subseteq Worker
  BY WorkerAssumption, FS_Subset DEF Busy
<1> USE DEF TypeOK, qvars, tvars, wvars, cvars
<1>1. CASE UNCHANGED active /\ Busy' = Busy
  BY <1>1 DEF ActiveCount
<1>2. CASE Start \/ StopFlag \/ StopPut \/ StopPutRaises
  <2>1. UNCHANGED active
    BY <1>2 DEF Start, StopFlag, StopPut, StopPutRaises
  <2>2. Busy' = Busy
    BY <1>2 DEF Start, StopFlag, StopPut, StopPutRaises, Busy, TokenInv, OffInv
  <2> QED BY <1>1, <2>1, <2>2
<1>3. ASSUME NEW t \in Task, CallerStep(t)
      PROVE  ActiveCount'
  <2>1. UNCHANGED <<active, pc>>
    BY <1>3 DEF CallerStep, CallerQuiet, SubmitRegister, SubmitPut, SubmitPublish, Cancel
  <2> QED BY <1>1, <2>1 DEF Busy
<1>4. ASSUME NEW w \in Worker, WorkerStep(w)
      PROVE  ActiveCount'
  <2>1. CASE Claim(w)
    <3>1. w \notin Busy /\ Busy' = Busy \cup {w} /\ active' = active + 1
      BY <2>1 DEF Claim, Goto, Busy
    <3>2. Cardinality(Busy \cup {w}) = Cardinality(Busy) + 1
      BY <1>0, <3>1, FS_AddElement
    <3> QED BY <3>1, <3>2 DEF ActiveCount
  <2>2. CASE Finally(w)
    <3>1. w \in Busy /\ Busy' = Busy \ {w} /\ active' = active - 1
      BY <2>2 DEF Finally, Busy
    <3>2. Cardinality(Busy \ {w}) = Cardinality(Busy) - 1
      BY <1>0, <3>1, FS_RemoveElement
    <3> QED BY <3>1, <3>2 DEF ActiveCount
  <2>3. CASE ~(Claim(w) \/ Finally(w))
    <3>1. UNCHANGED active
      BY <1>4, <2>3 DEF WorkerStep, WorkerQuiet, Check, GetEmpty, GetPill, GetTask,
         GetRaises, SkipCancelled, SeesRunnable, FnReturns, FnRaises, FnExits,
         PublishFinished
    <3>2. Busy' = Busy
      BY <1>4, <2>3 DEF WorkerStep, WorkerQuiet, Check, GetEmpty, GetPill, GetTask, Goto,
         GetRaises, SkipCancelled, SeesRunnable, FnReturns, FnRaises, FnExits,
         PublishFinished, Busy
    <3> QED BY <1>1, <3>1, <3>2
  <2> QED BY <2>1, <2>2, <2>3
<1> QED BY <1>2, <1>3, <1>4 DEF Next, LifecycleStep

WithStatus(s) == {t \in Task : status[t] = s}

LEMMA InitCountersAgree == Init => CountersAgree
<1> SUFFICES ASSUME Init PROVE CountersAgree
  OBVIOUS
<1>1. WithStatus("completed") = {} /\ WithStatus("failed") = {}
  BY DEF Init, WithStatus
<1> QED BY <1>1, FS_EmptySet DEF Init, CountersAgree, WithStatus

LEMMA StepCountersAgree ==
  ASSUME TypeOK, TokenInv, CancelInv, OutcomeInv, CountersAgree, Next
  PROVE  CountersAgree'
<1>0. /\ IsFiniteSet(WithStatus("completed"))
      /\ IsFiniteSet(WithStatus("failed"))
  BY TaskAssumption, FS_Subset DEF WithStatus
<1> USE DEF TypeOK, qvars, tvars, wvars, cvars
<1>1. CASE /\ UNCHANGED <<completed, failed>>
           /\ WithStatus("completed")' = WithStatus("completed")
           /\ WithStatus("failed")' = WithStatus("failed")
  BY <1>1 DEF CountersAgree, WithStatus
<1>2. CASE Start \/ StopFlag \/ StopPut \/ StopPutRaises
  <2>1. UNCHANGED <<completed, failed, status>>
    BY <1>2 DEF Start, StopFlag, StopPut, StopPutRaises
  <2> QED BY <1>1, <2>1 DEF WithStatus
<1>3. ASSUME NEW t \in Task, CallerStep(t)
      PROVE  CountersAgree'
  <2>1. UNCHANGED <<completed, failed>>
    BY <1>3 DEF CallerStep, CallerQuiet, SubmitRegister, SubmitPut, SubmitPublish, Cancel
  <2>2. status' = status \/ \E s \in {"queued", "cancelled"} :
          status' = [status EXCEPT ![t] = s] /\ status[t] \in {"new", "queued"}
    BY <1>3 DEF CallerStep, CallerQuiet, SubmitRegister, SubmitPut, SubmitPublish, Cancel,
                CancelInv, StatusInv
  <2>3. /\ WithStatus("completed")' = WithStatus("completed")
        /\ WithStatus("failed")' = WithStatus("failed")
    BY <2>2 DEF WithStatus
  <2> QED BY <1>1, <2>1, <2>3
<1>4. ASSUME NEW w \in Worker, WorkerStep(w)
      PROVE  CountersAgree'
  <2>0. /\ pc[w] \in Holding => hold[w] \in Task
        /\ pc[w] \in {"popped", "claim"} => runs[hold[w]] = 0
        /\ pc[w] = "run" => status[hold[w]] = "running"
    BY DEF TokenInv, HoldInv, WorkerInv, OutcomeInv, Holding
  <2>1. CASE Claim(w)
    <3>1. hold[w] \in Task /\ status[hold[w]] \notin {"completed", "failed"}
      BY <2>0, <2>1 DEF Claim, Goto, Holding, OutcomeInv
    <3>2. /\ status' = [status EXCEPT ![hold[w]] = "running"]
          /\ UNCHANGED <<completed, failed>>
      BY <2>1 DEF Claim
    <3> QED BY <1>1, <3>1, <3>2 DEF WithStatus
  <2>2. CASE FnReturns(w)
    <3>1. hold[w] \in Task /\ status[hold[w]] = "running"
      BY <2>0, <2>2 DEF FnReturns, Goto, Holding
    <3>2. /\ WithStatus("completed")' = WithStatus("completed") \cup {hold[w]}
          /\ WithStatus("failed")' = WithStatus("failed")
          /\ hold[w] \notin WithStatus("completed")
      BY <2>2, <3>1 DEF FnReturns, WithStatus
    <3>3. Cardinality(WithStatus("completed") \cup {hold[w]})
            = Cardinality(WithStatus("completed")) + 1
      BY <1>0, <3>2, FS_AddElement
    <3>4. completed' = completed + 1 /\ failed' = failed
      BY <2>2 DEF FnReturns
    <3> QED BY <3>2, <3>3, <3>4 DEF CountersAgree, WithStatus
  <2>3. CASE FnRaises(w)
    <3>1. hold[w] \in Task /\ status[hold[w]] = "running"
      BY <2>0, <2>3 DEF FnRaises, Goto, Holding
    <3>2. /\ WithStatus("failed")' = WithStatus("failed") \cup {hold[w]}
          /\ WithStatus("completed")' = WithStatus("completed")
          /\ hold[w] \notin WithStatus("failed")
      BY <2>3, <3>1 DEF FnRaises, WithStatus
    <3>3. Cardinality(WithStatus("failed") \cup {hold[w]})
            = Cardinality(WithStatus("failed")) + 1
      BY <1>0, <3>2, FS_AddElement
    <3>4. failed' = failed + 1 /\ completed' = completed
      BY <2>3 DEF FnRaises
    <3> QED BY <3>2, <3>3, <3>4 DEF CountersAgree, WithStatus
  <2>4. CASE ~(Claim(w) \/ FnReturns(w) \/ FnRaises(w))
    <3>1. UNCHANGED <<completed, failed, status>>
      BY <1>4, <2>4 DEF WorkerStep, WorkerQuiet, Check, GetEmpty, GetPill, GetTask,
         GetRaises, SkipCancelled, SeesRunnable, FnExits, PublishFinished,
         Finally
    <3> QED BY <1>1, <3>1 DEF WithStatus
  <2> QED BY <2>1, <2>2, <2>3, <2>4
<1> QED BY <1>2, <1>3, <1>4 DEF Next, LifecycleStep

-----------------------------------------------------------------------------
(* Eviction drops finished tasks only. *)

Finished == {finished[i] : i \in 1..Len(finished)}

FinishedInv == \A t \in Finished : /\ t \notin queue /\ sub[t] \in Queueable
                                   /\ \A w \in Worker : hold[w] # t
RegistryInv == \A t \in Task : sub[t] = "registered" => t \in registry
EvictionInv == FinishedInv /\ RegistryInv /\ LiveTasksRegistered

LEMMA InitEvictionInv == Init => EvictionInv
BY TaskAssumption DEF Init, EvictionInv, FinishedInv, RegistryInv,
   LiveTasksRegistered, Finished

LEMMA EvictedElements ==
  ASSUME NEW f \in Seq(Task), NEW t \in Task
  PROVE  LET order == Append(f, t)
         IN  /\ Evicted(order) \subseteq {f[i] : i \in 1..Len(f)} \cup {t}
             /\ {Youngest(order)[i] : i \in 1..Len(Youngest(order))}
                  \subseteq {f[i] : i \in 1..Len(f)} \cup {t}
<1> DEFINE order == Append(f, t)
<1>1. /\ order \in Seq(Task) /\ Len(order) = Len(f) + 1
      /\ \A i \in 1..Len(f) : order[i] = f[i]
      /\ order[Len(f) + 1] = t
  OBVIOUS
<1>2. Evicted(order) \subseteq {f[i] : i \in 1..Len(f)} \cup {t}
  BY <1>1, BoundAssumption DEF Evicted
<1>3. {Youngest(order)[i] : i \in 1..Len(Youngest(order))}
        \subseteq {order[i] : i \in 1..Len(order)}
  <2>1. CASE Len(order) > MaxHistory
    <3>1. /\ Len(Youngest(order)) = MaxHistory
          /\ \A i \in 1..MaxHistory :
               Youngest(order)[i] = order[Len(order) - MaxHistory + i]
      BY <1>1, <2>1, BoundAssumption DEF Youngest
    <3>2. \A i \in 1..MaxHistory : Len(order) - MaxHistory + i \in 1..Len(order)
      BY <1>1, <2>1, BoundAssumption
    <3> QED BY <3>1, <3>2
  <2>2. CASE ~(Len(order) > MaxHistory)
    BY <2>2 DEF Youngest
  <2> QED BY <2>1, <2>2
<1>4. {order[i] : i \in 1..Len(order)} \subseteq {f[i] : i \in 1..Len(f)} \cup {t}
  BY <1>1
<1> QED BY <1>2, <1>3, <1>4

LEMMA StepEvictionInv ==
  ASSUME TypeOK, TokenInv, EvictionInv, Next
  PROVE  EvictionInv'
<1> USE DEF TypeOK, qvars, tvars, wvars, cvars
<1>0. /\ \A w \in Worker : hold[w] \in Task => /\ hold[w] \notin queue
                                             /\ sub[hold[w]] \in Queueable
      /\ \A v, w \in Worker : v # w /\ hold[v] \in Task => hold[v] # hold[w]
      /\ \A w \in Worker : pc[w] \in Holding <=> hold[w] \in Task
      /\ \A t \in queue : sub[t] \in Queueable
      /\ Finished \subseteq Task
  BY DEF TokenInv, HoldInv, QueueInv, WorkerInv, UniqueInv, Finished
<1>1. CASE Start \/ StopFlag \/ StopPut \/ StopPutRaises
  <2>1. UNCHANGED <<finished, queue, sub, hold, registry>>
    BY <1>1 DEF Start, StopFlag, StopPut, StopPutRaises
  <2> QED BY <2>1 DEF EvictionInv, FinishedInv, RegistryInv,
                      LiveTasksRegistered, Finished
<1>2. ASSUME NEW t \in Task, CallerStep(t)
      PROVE  EvictionInv'
  <2>1. UNCHANGED <<finished, hold>>
    BY <1>2 DEF CallerStep, CallerQuiet, SubmitRegister, SubmitPut, SubmitPublish, Cancel
  <2>2. CASE SubmitRegister(t)
    <3>1. t \notin Finished
      BY <2>2 DEF SubmitRegister, EvictionInv, FinishedInv, Queueable
    <3> QED BY <2>1, <2>2, <3>1 DEF SubmitRegister, EvictionInv, FinishedInv,
                              RegistryInv, LiveTasksRegistered, Finished
  <2>3. CASE SubmitPut(t)
    <3>1. t \notin Finished
      BY <2>3 DEF SubmitPut, EvictionInv, FinishedInv, Queueable
    <3>2. /\ queue' = queue \cup {t} /\ registry' = registry
          /\ sub[t] = "registered" /\ sub'[t] \in Queueable
          /\ \A u \in Task : u # t => sub'[u] = sub[u]
      BY <2>3 DEF SubmitPut, Queueable
    <3>3. Finished' = Finished
      BY <2>1 DEF Finished
    <3>4. FinishedInv'
      BY <1>0, <2>1, <3>1, <3>2, <3>3 DEF EvictionInv, FinishedInv
    <3>5. RegistryInv' /\ LiveTasksRegistered'
      BY <2>1, <3>2 DEF EvictionInv, RegistryInv, LiveTasksRegistered, Queueable
    <3> QED BY <3>4, <3>5 DEF EvictionInv
  <2>4. CASE SubmitPublish(t)
    BY <1>0, <2>1, <2>4 DEF SubmitPublish, EvictionInv, FinishedInv,
       RegistryInv, LiveTasksRegistered, Finished, Queueable
  <2>5. CASE Cancel(t)
    BY <2>1, <2>5 DEF Cancel, EvictionInv, FinishedInv, RegistryInv,
       LiveTasksRegistered, Finished
  <2> QED BY <1>2, <2>2, <2>3, <2>4, <2>5 DEF CallerStep, CallerQuiet
<1>3. ASSUME NEW w \in Worker, WorkerStep(w)
      PROVE  EvictionInv'
  <2>1. UNCHANGED sub
    BY <1>3 DEF WorkerStep, WorkerQuiet, Check, GetEmpty, GetPill, GetTask,
         GetRaises, SkipCancelled, SeesRunnable, Claim, FnReturns, FnRaises,
         FnExits, PublishFinished, Finally
  <2>2. CASE Finally(w)
    <3> DEFINE order == Append(finished, hold[w])
    <3>1. hold[w] \in Task /\ hold[w] \notin queue /\ sub[hold[w]] \in Queueable
      BY <1>0, <2>2 DEF Finally, Holding
    <3>2. /\ finished' = Youngest(order) /\ registry' = registry \ Evicted(order)
          /\ hold' = [hold EXCEPT ![w] = NoTask] /\ UNCHANGED queue
      BY <2>2 DEF Finally
    <3>3. /\ Evicted(order) \subseteq Finished \cup {hold[w]}
          /\ Finished' \subseteq Finished \cup {hold[w]}
      <4>1. /\ Evicted(order) \subseteq Finished \cup {hold[w]}
            /\ {Youngest(order)[i] : i \in 1..Len(Youngest(order))}
                 \subseteq Finished \cup {hold[w]}
        BY <3>1, EvictedElements DEF Finished
      <4> HIDE DEF order
      <4>2. Finished' = {Youngest(order)[i] : i \in 1..Len(Youngest(order))}
        BY <3>2 DEF Finished
      <4> QED BY <4>1, <4>2
    <3>4. \A t \in Finished \cup {hold[w]} :
             t \notin queue' /\ sub'[t] \in Queueable /\ \A v \in Worker : hold'[v] # t
      BY <1>0, <2>1, <3>1, <3>2, TaskAssumption DEF EvictionInv, FinishedInv
    <3>5. FinishedInv'
      BY <3>3, <3>4 DEF FinishedInv
    <3>6. RegistryInv' /\ LiveTasksRegistered'
      BY <2>1, <3>2, <3>3, <3>4, TaskAssumption
         DEF EvictionInv, RegistryInv, LiveTasksRegistered, Queueable
    <3> QED BY <3>5, <3>6 DEF EvictionInv
  <2>3. CASE GetTask(w)
    <3>1. PICK t \in queue : queue' = queue \ {t} /\ hold' = [hold EXCEPT ![w] = t]
      BY <2>3 DEF GetTask
    <3>2. UNCHANGED <<finished, registry>>
      BY <2>3 DEF GetTask
    <3>3. t \notin Finished /\ t \in registry
      BY <3>1 DEF EvictionInv, FinishedInv, LiveTasksRegistered
    <3>4. Finished' = Finished
      BY <3>2 DEF Finished
    <3>5. FinishedInv'
      BY <2>1, <3>1, <3>3, <3>4 DEF EvictionInv, FinishedInv
    <3> QED BY <2>1, <3>1, <3>2, <3>3, <3>5
            DEF EvictionInv, RegistryInv, LiveTasksRegistered
  <2>4. CASE ~(Finally(w) \/ GetTask(w))
    <3>1. /\ UNCHANGED <<finished, registry>> /\ queue' \subseteq queue
          /\ \A v \in Worker : hold'[v] = hold[v] \/ hold'[v] = NoTask
      BY <1>3, <2>4 DEF WorkerStep, WorkerQuiet, Check, GetEmpty, GetPill, GetRaises,
         SkipCancelled, SeesRunnable, Claim, FnReturns, FnRaises, FnExits,
         PublishFinished
    <3>2. Finished' = Finished
      BY <3>1 DEF Finished
    <3> QED BY <1>0, <2>1, <3>1, <3>2, TaskAssumption
            DEF EvictionInv, FinishedInv, RegistryInv, LiveTasksRegistered
  <2> QED BY <2>2, <2>3, <2>4
<1> QED BY <1>1, <1>2, <1>3 DEF Next, LifecycleStep

-----------------------------------------------------------------------------
(* The history is bounded: whatever has been executed, is held by no worker *)
(* and is still registered is in the list of at most MaxHistory ids.        *)

Kept == {t \in registry : runs[t] > 0 /\ \A w \in Worker : hold[w] # t}
HistoryInv == Len(finished) <= MaxHistory /\ Kept \subseteq Finished

LEMMA InitHistoryInv == Init => HistoryInv
BY BoundAssumption DEF Init, HistoryInv, Kept, Finished

\* What is not evicted stays in the list, and the list within its bound.
LEMMA YoungestKeeps ==
  ASSUME NEW f \in Seq(Task), Len(f) <= MaxHistory, NEW t \in Task
  PROVE  LET order == Append(f, t)
         IN  /\ Len(Youngest(order)) <= MaxHistory
             /\ ({f[i] : i \in 1..Len(f)} \cup {t}) \ Evicted(order)
                  \subseteq {Youngest(order)[i] : i \in 1..Len(Youngest(order))}
<1> DEFINE order == Append(f, t)
<1>1. /\ order \in Seq(Task) /\ Len(order) = Len(f) + 1 /\ Len(f) \in Nat
      /\ \A i \in 1..Len(f) : order[i] = f[i]
      /\ order[Len(f) + 1] = t
  OBVIOUS
<1>2. {f[i] : i \in 1..Len(f)} \cup {t} \subseteq {order[i] : i \in 1..Len(order)}
  BY <1>1
<1> HIDE DEF order
<1>3. CASE Len(order) > MaxHistory
  <2>1. /\ Youngest(order) = SubSeq(order, Len(order) - MaxHistory + 1, Len(order))
        /\ Len(Youngest(order)) = MaxHistory
        /\ \A i \in 1..MaxHistory :
             Youngest(order)[i] = order[Len(order) - MaxHistory + i]
    BY <1>1, <1>3, BoundAssumption DEF Youngest
  <2>2. ASSUME NEW i \in 1..Len(order), i \notin 1..(Len(order) - MaxHistory)
        PROVE  \E k \in 1..MaxHistory : Youngest(order)[k] = order[i]
    <3>1. i - (Len(order) - MaxHistory) \in 1..MaxHistory
      BY <1>1, <1>3, <2>2, BoundAssumption
    <3>2. Len(order) - MaxHistory + (i - (Len(order) - MaxHistory)) = i
      BY <1>1, <2>2, BoundAssumption
    <3> QED BY <2>1, <3>1, <3>2
  <2>3. ASSUME NEW x \in {order[i] : i \in 1..Len(order)}, x \notin Evicted(order)
        PROVE  x \in {Youngest(order)[i] : i \in 1..Len(Youngest(order))}
    <3>1. PICK i \in 1..Len(order) : x = order[i]
      BY <2>3
    <3>2. i \notin 1..(Len(order) - MaxHistory)
      BY <2>3, <3>1 DEF Evicted
    <3> QED BY <2>1, <2>2, <3>1, <3>2
  <2>4. Len(Youngest(order)) <= MaxHistory
    BY <2>1, BoundAssumption
  <2> QED BY <1>2, <2>3, <2>4 DEF order
<1>4. CASE ~(Len(order) > MaxHistory)
  BY <1>1, <1>2, <1>4, BoundAssumption DEF order, Youngest
<1> QED BY <1>1, <1>3, <1>4, BoundAssumption DEF order

LEMMA StepHistoryInv ==
  ASSUME TypeOK, TokenInv, RegistryInv, HistoryInv, Next
  PROVE  HistoryInv'
<1> USE DEF TypeOK, qvars, tvars, wvars, cvars
<1>1. CASE Start \/ StopFlag \/ StopPut \/ StopPutRaises
  <2>1. UNCHANGED <<finished, runs, hold, registry>>
    BY <1>1 DEF Start, StopFlag, StopPut, StopPutRaises
  <2> QED BY <2>1 DEF HistoryInv, Kept, Finished
<1>2. ASSUME NEW t \in Task, CallerStep(t)
      PROVE  HistoryInv'
  <2>1. UNCHANGED <<finished, hold, runs>>
    BY <1>2 DEF CallerStep, CallerQuiet, SubmitRegister, SubmitPut, SubmitPublish, Cancel
  <2>2. registry' \subseteq registry \cup {u \in Task : runs[u] = 0}
    BY <1>2 DEF CallerStep, CallerQuiet, SubmitRegister, SubmitPut, SubmitPublish, Cancel,
       TokenInv, CallerInv
  <2>3. Kept' \subseteq Kept /\ Finished' = Finished
    BY <2>1, <2>2 DEF Kept, Finished
  <2> QED BY <2>1, <2>3 DEF HistoryInv
<1>3. ASSUME NEW w \in Worker, WorkerStep(w)
      PROVE  HistoryInv'
  <2>1. CASE Finally(w)
    <3> DEFINE order == Append(finished, hold[w])
    <3>1. hold[w] \in Task
      BY <2>1 DEF Finally, TokenInv, HoldInv, Holding
    <3>2. /\ finished' = Youngest(order) /\ registry' = registry \ Evicted(order)
          /\ hold' = [hold EXCEPT ![w] = NoTask] /\ runs' = runs
      BY <2>1 DEF Finally
    <3>3. /\ Len(Youngest(order)) <= MaxHistory
          /\ (Finished \cup {hold[w]}) \ Evicted(order)
               \subseteq {Youngest(order)[i] : i \in 1..Len(Youngest(order))}
      BY <3>1, YoungestKeeps DEF HistoryInv, Finished
    <3> HIDE DEF order
    <3>4. Kept' \subseteq (Kept \cup {hold[w]}) \ Evicted(order)
      BY <3>1, <3>2 DEF Kept
    <3>5. Finished' = {Youngest(order)[i] : i \in 1..Len(Youngest(order))}
      BY <3>2 DEF Finished
    <3> QED BY <3>2, <3>3, <3>4, <3>5 DEF HistoryInv
  <2>2. CASE SkipCancelled(w)
    <3>1. /\ pc[w] = "popped" /\ hold' = [hold EXCEPT ![w] = NoTask]
          /\ UNCHANGED <<finished, runs, registry>>
      BY <2>2 DEF SkipCancelled, Goto
    <3>2. hold[w] \in Task /\ runs[hold[w]] = 0
      BY <3>1 DEF TokenInv, HoldInv, WorkerInv, Holding
    <3>3. Kept' \subseteq Kept
      BY <3>1, <3>2 DEF Kept
    <3> QED BY <3>1, <3>3 DEF HistoryInv, Finished
  <2>3. CASE Claim(w)
    <3>1. hold[w] \in Task
      BY <2>3 DEF Claim, Goto, TokenInv, HoldInv, Holding
    <3>2. /\ runs' = [runs EXCEPT ![hold[w]] = @ + 1]
          /\ UNCHANGED <<finished, hold, registry>>
      BY <2>3 DEF Claim
    <3>3. Kept' \subseteq Kept
      BY <3>1, <3>2 DEF Kept
    <3> QED BY <3>2, <3>3 DEF HistoryInv, Finished
  <2>4. CASE GetTask(w)
    <3>1. /\ UNCHANGED <<finished, runs, registry>> /\ hold[w] \notin Task
          /\ \E t \in queue : hold' = [hold EXCEPT ![w] = t]
      BY <2>4 DEF GetTask, Goto, TokenInv, HoldInv, Holding
    <3>2. Kept' \subseteq Kept
      BY <3>1 DEF Kept
    <3> QED BY <3>1, <3>2 DEF HistoryInv, Finished
  <2>5. CASE ~(Finally(w) \/ SkipCancelled(w) \/ Claim(w) \/ GetTask(w))
    <3>1. UNCHANGED <<finished, runs, hold, registry>>
      BY <1>3, <2>5 DEF WorkerStep, WorkerQuiet, Check, GetEmpty, GetPill, GetRaises,
         SeesRunnable, FnReturns, FnRaises, FnExits, PublishFinished
    <3> QED BY <3>1 DEF HistoryInv, Kept, Finished
  <2> QED BY <2>1, <2>2, <2>3, <2>4, <2>5
<1> QED BY <1>1, <1>2, <1>3 DEF Next, LifecycleStep

\* A list of n places names at most n tasks.
LEMMA KeptIsBounded == TypeOK /\ HistoryInv => HistoryBounded
<1> SUFFICES ASSUME TypeOK, HistoryInv PROVE HistoryBounded
  OBVIOUS
<1>1. Len(finished) \in Nat /\ IsFiniteSet(1..Len(finished))
  BY FS_Interval DEF TypeOK
<1>2. Cardinality(1..Len(finished)) = Len(finished)
  BY <1>1, FS_Interval
<1> DEFINE place == [i \in 1..Len(finished) |-> finished[i]]
<1>3. place \in Surjection(1..Len(finished), Finished)
  BY DEF Surjection, Finished
<1>4. IsFiniteSet(Finished) /\ Cardinality(Finished) <= Len(finished)
  BY <1>1, <1>2, <1>3, FS_Surjection
<1>5. Cardinality(Kept) <= Cardinality(Finished) /\ IsFiniteSet(Kept)
  BY <1>4, FS_Subset DEF HistoryInv
<1>6. Cardinality(Kept) \in Nat /\ Cardinality(Finished) \in Nat
  BY <1>4, <1>5, FS_CardinalityType
<1> QED BY <1>1, <1>4, <1>5, <1>6, BoundAssumption DEF HistoryBounded, Kept, HistoryInv

-----------------------------------------------------------------------------
(* The theorems. *)

IndInv == TypeOK /\ TokenInv /\ CancelInv /\ OutcomeInv /\ EvictionInv
IInv   == IndInv /\ ActiveCount /\ CountersAgree /\ HistoryInv

LEMMA Inductive == IInv /\ [Next]_vars => IInv'
<1> SUFFICES ASSUME IInv, [Next]_vars PROVE IInv'
  OBVIOUS
<1> USE DEF IInv, IndInv
<1>1. CASE Next
  <2>1. TypeOK' /\ TokenInv' /\ CancelInv'
    <3>1. CASE Start \/ StopFlag \/ StopPut \/ StopPutRaises
      BY <3>1, LifecycleTypeOK, LifecycleTokenInv, LifecycleCancelInv
    <3>2. ASSUME NEW t \in Task, CallerStep(t)
          PROVE  TypeOK' /\ TokenInv' /\ CancelInv'
      BY <3>2, CallerTypeOK, CallerTokenInv, CallerCancelInv
    <3>3. ASSUME NEW w \in Worker, WorkerStep(w)
          PROVE  TypeOK' /\ TokenInv' /\ CancelInv'
      BY <3>3, WorkerTypeOK, WorkerTokenInv, WorkerCancelInv DEF TokenInv
    <3> QED BY <1>1, <3>1, <3>2, <3>3 DEF Next, LifecycleStep
  <2>2. OutcomeInv' /\ EvictionInv' /\ ActiveCount' /\ CountersAgree'
    BY <1>1, StepOutcomeInv, StepEvictionInv, StepActiveCount, StepCountersAgree
  <2>3. HistoryInv'
    BY <1>1, StepHistoryInv DEF EvictionInv
  <2> QED BY <2>1, <2>2, <2>3
<1>2. CASE UNCHANGED vars
  <2> USE <1>2 DEF vars, qvars, tvars, wvars, cvars, lvars
  <2>1. TypeOK'
    BY DEF TypeOK
  <2>2. TokenInv'
    BY DEF TokenInv, HoldInv, OffInv, QueueInv, WorkerInv, UniqueInv,
           CallerInv, AtMostOnce
  <2>3. CancelInv' /\ OutcomeInv'
    BY DEF CancelInv, StatusInv, EarlyInv, RunInv, Busy, Claimed, OutcomeInv
  <2>4. EvictionInv'
    BY DEF EvictionInv, FinishedInv, RegistryInv, LiveTasksRegistered, Finished
  <2>5. ActiveCount' /\ CountersAgree'
    BY DEF ActiveCount, Busy, CountersAgree
  <2>6. HistoryInv'
    BY DEF HistoryInv, Kept, Finished
  <2> QED BY <2>1, <2>2, <2>3, <2>4, <2>5, <2>6
<1> QED BY <1>1, <1>2

LEMMA Initial == Init => IInv
BY InitTypeOK, InitTokenInv, InitCancelInv, InitOutcomeInv, InitEvictionInv,
   InitActiveCount, InitCountersAgree, InitHistoryInv DEF IInv, IndInv

LEMMA Invariance == Spec => []IInv
BY Initial, Inductive, PTL DEF Spec

\* The state of the virtual CPU is well typed.
THEOREM TypeCorrect == Spec => []TypeOK
<1>1. IInv => TypeOK
  BY DEF IInv, IndInv
<1> QED BY <1>1, Invariance, PTL

\* No task is executed twice, for any number of tasks, threads, starts and
\* stops: a task is a token that one place holds at a time.
THEOREM TaskRunsAtMostOnce == Spec => []AtMostOnce
<1>1. IInv => AtMostOnce
  BY DEF IInv, IndInv, TokenInv
<1> QED BY <1>1, Invariance, PTL

\* A cancel() that succeeds before a worker has looked at the status keeps
\* the task from ever being executed.
THEOREM EarlyCancelIsHonoured == Spec => []CancelHonoured
<1>1. IInv => CancelHonoured
  BY DEF IInv, IndInv, CancelInv, EarlyInv, CancelHonoured
<1> QED BY <1>1, Invariance, PTL

\* metrics() never misreports the active, completed or failed tasks.
THEOREM MetricsAreExact == Spec => []MetricsExact
<1>1. IInv => MetricsExact
  BY DEF IInv, MetricsExact
<1> QED BY <1>1, Invariance, PTL

\* The bounded history never evicts a task that is queued or being executed.
THEOREM EvictionSparesLiveTasks == Spec => []LiveTasksRegistered
<1>1. IInv => LiveTasksRegistered
  BY DEF IInv, IndInv, EvictionInv
<1> QED BY <1>1, Invariance, PTL

\* The registry keeps at most MaxHistory tasks that a worker is done with.
THEOREM HistoryIsBounded == Spec => []HistoryBounded
<1>1. IInv => HistoryBounded
  BY KeptIsBounded DEF IInv, IndInv
<1> QED BY <1>1, Invariance, PTL
-----------------------------------------------------------------------------
(* The virtual CPU implements TaskExecutor.  Two more invariants. *)

\* Pills come from stop() only.
PillInv == /\ pills > 0 \/ due > 0 => stops > 0
\* A task cancelled too late is in the hands of the worker that will run it.
LateInv == \A t \in Task : status[t] = "cancelled" /\ ack[t] # "early" => Claimed(t)

ExecInv == IInv /\ PillInv /\ LateInv

LEMMA InitExecInv == Init => PillInv /\ LateInv
BY DEF Init, PillInv, LateInv

LEMMA StepPillInv ==
  ASSUME TypeOK, PillInv, Next
  PROVE  PillInv'
<1> USE DEF TypeOK, PillInv, qvars, lvars
<1>1. CASE LifecycleStep
  <2>1. Cardinality(threads) \in Nat
    BY WorkerAssumption, FS_Subset, FS_CardinalityType
  <2> QED BY <1>1, <2>1 DEF LifecycleStep, Start, StopFlag, StopPut, StopPutRaises
<1>2. ASSUME NEW t \in Task, CallerStep(t) PROVE PillInv'
  BY <1>2 DEF CallerStep, CallerQuiet, SubmitRegister, SubmitPut, SubmitPublish, Cancel
<1>3. ASSUME NEW w \in Worker, WorkerStep(w) PROVE PillInv'
  BY <1>3 DEF WorkerStep, WorkerQuiet, Check, GetEmpty, GetPill, GetTask, GetRaises, SkipCancelled,
     SeesRunnable, Claim, FnReturns, FnRaises, FnExits, PublishFinished, Finally
<1> QED BY <1>1, <1>2, <1>3 DEF Next

LEMMA StepLateInv ==
  ASSUME IInv, LateInv, Next
  PROVE  LateInv'
<1> USE DEF IInv, IndInv, TypeOK, TokenInv, CancelInv, LateInv, Claimed
<1>1. CASE LifecycleStep
  <2>1. UNCHANGED <<status, ack, hold>> /\ \A w \in Worker : pc[w] = "claim" => pc'[w] = "claim"
    BY <1>1 DEF LifecycleStep, Start, StopFlag, StopPut, StopPutRaises, tvars, wvars, OffInv
  <2> QED BY <2>1
<1>2. ASSUME NEW t \in Task, CallerStep(t) PROVE LateInv'
  BY <1>2 DEF CallerStep, CallerQuiet, SubmitRegister, SubmitPut, SubmitPublish, Cancel, wvars
<1>3. ASSUME NEW w \in Worker, WorkerStep(w) PROVE LateInv'
  <2>1. /\ pc[w] \in Holding => hold[w] \in Task
        /\ \A v \in Worker \ {w} : hold[v] \in Task => hold[v] # hold[w]
    BY DEF HoldInv, UniqueInv
  <2>2. /\ ack' = ack
        /\ \A v \in Worker \ {w} : pc'[v] = pc[v] /\ hold'[v] = hold[v]
    BY <1>3 DEF WorkerStep, WorkerQuiet, Check, GetEmpty, GetPill, GetTask, GetRaises, SkipCancelled,
     SeesRunnable, Claim, FnReturns, FnRaises, FnExits, PublishFinished, Finally, Goto, tvars
  <2>3. CASE Claim(w) \/ FnReturns(w) \/ FnRaises(w)
    BY <2>1, <2>2, <2>3 DEF Claim, FnReturns, FnRaises, Goto, Holding
  <2>4. CASE ~(Claim(w) \/ FnReturns(w) \/ FnRaises(w))
    <3>1. status' = status /\ pc[w] # "claim"
      BY <1>3, <2>4 DEF WorkerStep, WorkerQuiet, Check, GetEmpty, GetPill, GetTask, GetRaises,
         SkipCancelled, SeesRunnable, FnExits, PublishFinished, Finally, Goto, tvars
    <3> QED BY <2>2, <3>1
  <2> QED BY <2>3, <2>4
<1> QED BY <1>1, <1>2, <1>3 DEF Next

LEMMA ExecInvariance == Spec => []ExecInv
<1>1. Init => ExecInv
  BY Initial, InitExecInv DEF ExecInv
<1>2. ExecInv /\ [Next]_vars => ExecInv'
  <2>1. CASE ExecInv /\ Next
    <3>1. TypeOK
      BY <2>1 DEF ExecInv, IInv, IndInv
    <3> QED BY <2>1, <3>1, Inductive, StepPillInv, StepLateInv DEF ExecInv
  <2>2. CASE ExecInv /\ UNCHANGED vars
    <3>1. IInv'
      BY <2>2, Inductive DEF ExecInv
    <3> QED BY <2>2, <3>1 DEF ExecInv, PillInv, LateInv, Claimed, vars, qvars, tvars, wvars, lvars
  <2> QED BY <2>1, <2>2
<1> QED BY <1>1, <1>2, PTL DEF Spec

-----------------------------------------------------------------------------
(* The phase of a task, case by case. *)

LEMMA PhaseOf ==
  ASSUME NEW t \in Task
  PROVE  /\ sub[t] = "no" /\ runs[t] = 0 => Phase(t) = "new"
         /\ sub[t] # "no" /\ runs[t] > 0 /\ Executing(t) => Phase(t) = "executing"
         /\ sub[t] # "no" /\ runs[t] > 0 /\ ~Executing(t) => Phase(t) = "ended"
         /\ sub[t] # "no" /\ runs[t] = 0 /\ ack[t] = "early" => Phase(t) = "withdrawn"
         /\ sub[t] # "no" /\ runs[t] = 0 /\ ack[t] # "early" /\ Waiting(t) => Phase(t) = "pending"
         /\ sub[t] # "no" /\ runs[t] = 0 /\ ack[t] # "early" /\ ~Waiting(t) => Phase(t) = "dropped"
BY DEF Phase

\* A task nobody touches stays where the executor has it.
LEMMA Untouched ==
  ASSUME NEW t \in Task, ExecInv,
         sub'[t] = sub[t], runs'[t] = runs[t], ack'[t] = ack[t], status'[t] = status[t],
         runs[t] = 0 => (Waiting(t)' <=> Waiting(t)),
         runs[t] > 0 => (Executing(t)' <=> Executing(t))
  PROVE  Phase(t)' = Phase(t) /\ Result(t)' = Result(t)
<1>1. runs[t] \in Nat /\ (sub[t] = "no" => runs[t] = 0)
  BY DEF ExecInv, IInv, IndInv, TypeOK, TokenInv, CallerInv
<1>2. Phase(t)' = Phase(t)
  BY <1>1 DEF Phase
<1> QED BY <1>2 DEF Result

Ph == [t \in Task |-> Phase(t)]
Rs == [t \in Task |-> Result(t)]

Still(S) == \A t \in S : Phase(t)' = Phase(t) /\ Result(t)' = Result(t)

LEMMA AllStill ==
  ASSUME Still(Task)
  PROVE  UNCHANGED <<Ph, Rs>>
BY DEF Still, Ph, Rs

LEMMA OneMoves ==
  ASSUME NEW t \in Task, Still(Task \ {t}), NEW from, NEW to,
         Phase(t) = from, Phase(t)' = to
  PROVE  /\ Executor!Move(t, from, to)
         /\ Rs' = [Rs EXCEPT ![t] = Result(t)']
<1>1. Ph[t] = from /\ Ph' = [Ph EXCEPT ![t] = to]
  BY DEF Still, Ph
<1>2. Rs' = [Rs EXCEPT ![t] = Result(t)']
  BY DEF Still, Rs
<1> QED BY <1>1, <1>2 DEF Executor!Move, Ph

\* Results are told of ended tasks only.
LEMMA NoResult ==
  ASSUME NEW t \in Task, Phase(t) # "ended", Phase(t)' # "ended"
  PROVE  Result(t)' = Result(t)
BY DEF Result

LEMMA SameResult ==
  ASSUME NEW t \in Task, Rs' = [Rs EXCEPT ![t] = Result(t)'], Result(t)' = Result(t)
  PROVE  Rs' = Rs
BY DEF Rs

-----------------------------------------------------------------------------
(* Every step of the virtual CPU is one of the executor, or none. *)

LEMMA LifecycleMaps ==
  ASSUME ExecInv, LifecycleStep
  PROVE  Executor!Close \/ UNCHANGED Executor!vars
<1> USE DEF ExecInv, IInv, IndInv, TypeOK, TokenInv
<1>1. UNCHANGED <<queue, tvars, hold>>
  BY DEF LifecycleStep, Start, StopFlag, StopPut, StopPutRaises, qvars, wvars
<1>2. \A w \in Worker : pc'[w] = "run" <=> pc[w] = "run"
  BY DEF LifecycleStep, Start, StopFlag, StopPut, StopPutRaises, wvars, OffInv
<1>3. Still(Task)
  BY <1>1, <1>2, Untouched DEF Still, Waiting, Held, Executing, tvars
<1>4. UNCHANGED <<Ph, Rs>>
  BY <1>3, AllStill
<1>5. CASE StopFlag
  <2>1. (stops > 0)' = TRUE
    BY <1>5 DEF StopFlag
  <2> QED BY <1>4, <2>1 DEF Executor!Close, Ph, Rs
<1>6. CASE Start \/ StopPut \/ StopPutRaises
  <2>1. stops' = stops
    BY <1>6 DEF Start, StopPut, StopPutRaises
  <2> QED BY <1>4, <2>1 DEF Executor!vars, Ph, Rs
<1> QED BY <1>5, <1>6 DEF LifecycleStep

LEMMA CallerMaps ==
  ASSUME ExecInv, NEW t \in Task, CallerStep(t)
  PROVE  Executor!Next \/ UNCHANGED Executor!vars
<1> USE DEF ExecInv, IInv, IndInv, TypeOK, TokenInv
<1>1. /\ UNCHANGED <<stops, runs, hold, pc>>
      /\ \A u \in Task \ {t} : /\ sub'[u] = sub[u] /\ status'[u] = status[u] /\ ack'[u] = ack[u]
      /\ \A u \in Task \ {t} : u \in queue' <=> u \in queue
  BY DEF CallerStep, CallerQuiet, SubmitRegister, SubmitPut, SubmitPublish, Cancel, qvars, wvars, lvars
<1>2. \A u \in Task : Executing(u)' <=> Executing(u)
  BY <1>1 DEF Executing
<1>3. Still(Task \ {t})
  <2> SUFFICES ASSUME NEW u \in Task \ {t}
               PROVE  Phase(u)' = Phase(u) /\ Result(u)' = Result(u)
    BY DEF Still
  <2> HIDE DEF IInv, IndInv, TypeOK, TokenInv
  <2>1. /\ sub'[u] = sub[u] /\ status'[u] = status[u] /\ ack'[u] = ack[u] /\ runs'[u] = runs[u]
    BY <1>1
  <2>0. u \in queue' <=> u \in queue
    BY <1>1
  <2>2. Held(u)' <=> Held(u)
    BY <1>1 DEF Held
  <2>3. Waiting(u)' <=> Waiting(u)
    BY <2>0, <2>1, <2>2 DEF Waiting
  <2> QED BY <1>2, <2>1, <2>3, Untouched
<1>4. CASE SubmitRegister(t)
  <2>1. /\ sub[t] = "no" /\ sub'[t] = "registered" /\ runs[t] = 0 /\ ack[t] # "early"
        /\ UNCHANGED <<runs, ack>>
    BY <1>4 DEF SubmitRegister, CallerInv, CancelInv, StatusInv, EarlyInv
  <2>2. Phase(t) = "new" /\ Phase(t)' = "pending"
    BY <2>1 DEF Phase, Waiting
  <2>3. Executor!Move(t, "new", "pending") /\ Rs' = Rs
    BY <1>3, <2>2, OneMoves, NoResult, SameResult
  <2> QED BY <1>1, <2>3 DEF Executor!Next, Executor!Accept, Rs
<1>5. CASE SubmitPut(t) \/ SubmitPublish(t)
  <2>1. /\ sub[t] # "no" /\ sub'[t] # "no" /\ UNCHANGED <<runs, ack, status>>
        /\ runs[t] = 0 => (Waiting(t)' <=> Waiting(t))
    BY <1>1, <1>5 DEF SubmitPut, SubmitPublish, Waiting, Held, qvars
  <2>2. Phase(t)' = Phase(t)
    BY <1>2, <2>1 DEF Phase
  <2>3. Result(t)' = Result(t)
    BY <2>1, <2>2 DEF Result
  <2>4. UNCHANGED <<Ph, Rs>>
    BY <1>3, <2>2, <2>3, AllStill DEF Still
  <2> QED BY <1>1, <2>4 DEF Executor!vars, Ph, Rs
<1>6. CASE Cancel(t)
  <2>1. /\ sub[t] # "no" /\ runs[t] = 0 /\ ack[t] # "early" /\ UNCHANGED <<sub, queue>>
        /\ ack'[t] = IF Claimed(t) THEN "late" ELSE "early"
    BY <1>6 DEF Cancel, CancelInv, StatusInv, EarlyInv, qvars
  <2>2. Waiting(t)' <=> Waiting(t)
    BY <1>1, <2>1 DEF Waiting, Held
  <2>3. CASE Claimed(t)
    <3>1. Waiting(t) /\ ack'[t] = "late"
      BY <2>1, <2>3 DEF Claimed, Waiting, Held
    <3>2. Phase(t)' = "pending" /\ Phase(t) = "pending"
      BY <1>1, <2>1, <2>2, <3>1 DEF Phase
    <3>3. UNCHANGED <<Ph, Rs>>
      BY <1>3, <3>2, NoResult, AllStill DEF Still
    <3> QED BY <1>1, <3>3 DEF Executor!vars, Ph, Rs
  <2>4. CASE ~Claimed(t)
    <3>1. Phase(t)' = "withdrawn" /\ Phase(t) \in {"pending", "dropped"}
      BY <1>1, <2>1, <2>4 DEF Phase
    <3>2. \/ Executor!Move(t, "pending", "withdrawn")
          \/ Executor!Move(t, "dropped", "withdrawn")
      BY <1>3, <3>1, OneMoves
    <3>3. Rs' = Rs
      BY <1>3, <3>1, OneMoves, NoResult, SameResult
    <3> QED BY <1>1, <3>2, <3>3 DEF Executor!Next, Executor!Withdraw, Rs
  <2> QED BY <2>3, <2>4
<1> QED BY <1>4, <1>5, <1>6 DEF CallerStep, CallerQuiet

\* What a worker step leaves to the other workers and to tasks it does not hold.
LEMMA OthersStill ==
  ASSUME ExecInv, NEW w \in Worker, WorkerStep(w), NEW S \in SUBSET Task,
         \A u \in S : u # hold[w] /\ u # hold'[w],
         \A u \in S : u \in queue' <=> u \in queue
  PROVE  Still(S)
<1> USE DEF ExecInv, IInv, IndInv, TypeOK, TokenInv
<1> SUFFICES ASSUME NEW u \in S PROVE Phase(u)' = Phase(u) /\ Result(u)' = Result(u)
  BY DEF Still
<1>1. /\ \A v \in Worker \ {w} : pc'[v] = pc[v] /\ hold'[v] = hold[v]
      /\ sub' = sub /\ ack' = ack
  BY DEF WorkerStep, WorkerQuiet, Check, GetEmpty, GetPill, GetTask, GetRaises, SkipCancelled,
     SeesRunnable, Claim, FnReturns, FnRaises, FnExits, PublishFinished, Finally, Goto, tvars
<1>2. status'[u] = status[u] /\ runs'[u] = runs[u]
  BY DEF WorkerStep, WorkerQuiet, Check, GetEmpty, GetPill, GetTask, GetRaises, SkipCancelled,
     SeesRunnable, Claim, FnReturns, FnRaises, FnExits, PublishFinished, Finally, tvars
<1> HIDE DEF IInv, IndInv, TypeOK, TokenInv
<1>3. (Held(u)' <=> Held(u)) /\ (Executing(u)' <=> Executing(u))
  BY <1>1 DEF Held, Executing
<1>4. Waiting(u)' <=> Waiting(u)
  BY <1>1, <1>3 DEF Waiting
<1> QED BY <1>1, <1>2, <1>3, <1>4, Untouched

\* Steps of a worker that has no task, or gets one.
LEMMA IdleMaps ==
  ASSUME ExecInv, NEW w \in Worker,
         Check(w) \/ GetEmpty(w) \/ GetPill(w) \/ GetTask(w) \/ GetRaises(w)
  PROVE  Executor!Next \/ UNCHANGED Executor!vars
<1> USE DEF ExecInv, IInv, IndInv, TypeOK, TokenInv
<1>1. WorkerStep(w) /\ stops' = stops
  BY DEF WorkerStep, WorkerQuiet, Check, GetEmpty, GetPill, GetTask, GetRaises, lvars
<1>2. hold[w] = NoTask /\ UNCHANGED <<sub, runs, ack, status>>
  BY DEF Check, GetEmpty, GetPill, GetTask, GetRaises, Goto, tvars, HoldInv, Holding
<1>3. CASE UNCHANGED <<queue, hold>>
  <2>1. Still(Task)
    BY <1>1, <1>2, <1>3, TaskAssumption, OthersStill
  <2> QED BY <1>1, <2>1, AllStill DEF Executor!vars, Ph, Rs
<1>4. ASSUME NEW t \in queue, GetTask(w), queue' = queue \ {t}, hold' = [hold EXCEPT ![w] = t]
      PROVE  UNCHANGED Executor!vars
  <2>1. Still(Task \ {t})
    BY <1>1, <1>2, <1>4, TaskAssumption, OthersStill
  <2>2. /\ Waiting(t) /\ Waiting(t)' /\ runs[t] = 0
    BY <1>2, <1>4 DEF Waiting, Held, QueueInv
  <2>3. Phase(t)' = Phase(t) /\ Result(t)' = Result(t)
    BY <1>2, <2>2, Untouched
  <2>4. Still(Task)
    BY <2>1, <2>3 DEF Still
  <2> QED BY <1>1, <2>4, AllStill DEF Executor!vars, Ph, Rs
<1>5. ASSUME NEW t \in queue, GetRaises(w), queue' = queue \ {t}
      PROVE  Executor!Next \/ UNCHANGED Executor!vars
  <2>1. Still(Task \ {t})
    <3>1. hold' = hold
      BY <1>5 DEF GetRaises
    <3> QED BY <1>1, <1>2, <1>5, <3>1, TaskAssumption, OthersStill
  <2>2. sub[t] \in Queueable /\ runs[t] = 0 /\ ~Held(t) /\ t \in Task
    BY <1>5 DEF QueueInv, WorkerInv, Held
  <2>3. Waiting(t) /\ ~Waiting(t)'
    BY <1>2, <1>5, <2>2 DEF Waiting, Held, GetRaises, Queueable
  <2>4. CASE ack[t] = "early"
    <3>1. Phase(t) = "withdrawn" /\ Phase(t)' = "withdrawn"
      BY <1>2, <2>2, <2>4 DEF Phase, Queueable
    <3>2. Still(Task)
      BY <2>1, <3>1, NoResult DEF Still
    <3> QED BY <1>1, <3>2, AllStill DEF Executor!vars, Ph, Rs
  <2>5. CASE ack[t] # "early"
    <3>1. Phase(t) = "pending" /\ Phase(t)' = "dropped"
      BY <1>2, <2>2, <2>3, <2>5 DEF Phase, Queueable
    <3>2. Executor!Move(t, "pending", "dropped") /\ Rs' = Rs
      BY <2>1, <2>2, <3>1, OneMoves, NoResult, SameResult
    <3>3. stops > 0
      BY <1>5 DEF GetRaises, PillInv
    <3> QED BY <1>1, <2>2, <3>2, <3>3 DEF Executor!Next, Executor!Drop, Rs
  <2> QED BY <2>4, <2>5
<1> QED BY <1>3, <1>4, <1>5 DEF Check, GetEmpty, GetPill, GetTask, GetRaises, qvars

\* Steps of a worker with a task that leave the task where it is.
LEMMA LookMaps ==
  ASSUME ExecInv, NEW w \in Worker,
         SkipCancelled(w) \/ SeesRunnable(w) \/ PublishFinished(w) \/ Finally(w)
  PROVE  UNCHANGED Executor!vars
<1> USE DEF ExecInv, IInv, IndInv, TypeOK, TokenInv
<1>1. WorkerStep(w) /\ stops' = stops /\ queue' = queue /\ pc[w] \in Holding
  BY DEF WorkerStep, WorkerQuiet, SkipCancelled, SeesRunnable, PublishFinished, Finally, Goto,
     lvars, qvars, Holding
<1>2. PICK t \in Task : t = hold[w] /\ sub[t] # "no"
  BY <1>1 DEF HoldInv, WorkerInv, Queueable
<1>3. /\ UNCHANGED <<sub, runs, ack, status>>
      /\ hold'[w] \in {t, NoTask} /\ hold' = [hold EXCEPT ![w] = hold'[w]]
      /\ pc[w] # "run" /\ pc'[w] # "run" /\ pc' = [pc EXCEPT ![w] = pc'[w]]
  BY <1>1, <1>2 DEF SkipCancelled, SeesRunnable, PublishFinished, Finally, Goto, tvars
<1>4. Still(Task \ {t})
  <2>1. \A u \in Task \ {t} : u # hold[w] /\ u # hold'[w]
    BY <1>2, <1>3, TaskAssumption
  <2> QED BY <1>1, <2>1, OthersStill
<1>5. ~Executing(t) /\ ~Executing(t)'
  BY <1>2, <1>3 DEF Executing, UniqueInv
<1>6. CASE hold' = hold
  <2>1. Waiting(t)' <=> Waiting(t)
    BY <1>1, <1>3, <1>6 DEF Waiting, Held
  <2> QED BY <1>1, <1>2, <1>3, <1>4, <1>5, <2>1, Untouched, AllStill DEF Still, Executor!vars, Ph, Rs
<1>7. CASE SkipCancelled(w)
  <2>1. ack[t] = "early" /\ runs[t] = 0
    <3>1. ~Claimed(t) /\ status[t] = "cancelled"
      BY <1>2, <1>7 DEF SkipCancelled, Goto, Claimed, UniqueInv
    <3> QED BY <1>2, <3>1 DEF LateInv, CancelInv, EarlyInv
  <2>2. Phase(t)' = "withdrawn" /\ Phase(t) = "withdrawn"
    BY <1>2, <1>3, <2>1 DEF Phase
  <2>3. Still(Task)
    BY <1>2, <1>4, <2>2, NoResult DEF Still
  <2> QED BY <1>1, <2>3, AllStill DEF Executor!vars, Ph, Rs
<1>8. CASE Finally(w)
  <2>1. runs[t] > 0
    BY <1>2, <1>8 DEF Finally, CancelInv, RunInv, Busy
  <2>2. Phase(t)' = Phase(t) /\ Result(t)' = Result(t)
    <3>1. sub'[t] = sub[t] /\ runs'[t] = runs[t] /\ ack'[t] = ack[t] /\ status'[t] = status[t]
      BY <1>3
    <3> HIDE DEF IInv, IndInv, TypeOK, TokenInv
    <3> QED BY <1>5, <2>1, <3>1, Untouched
  <2>3. Still(Task)
    BY <1>4, <2>2 DEF Still
  <2> QED BY <1>1, <2>3, AllStill DEF Executor!vars, Ph, Rs
<1> QED BY <1>6, <1>7, <1>8 DEF SeesRunnable, PublishFinished

\* A worker that claims its task begins it, in the slot of its own.
LEMMA ClaimMaps ==
  ASSUME ExecInv, NEW w \in Worker, Claim(w)
  PROVE  Executor!Next
<1> USE DEF ExecInv, IInv, IndInv, TypeOK, TokenInv
<1>1. PICK t \in Task : /\ t = hold[w] /\ sub[t] # "no" /\ runs[t] = 0 /\ Claimed(t)
                       /\ ack[t] # "early" /\ Waiting(t)
  BY DEF Claim, Goto, HoldInv, Holding, WorkerInv, Queueable, Claimed, CancelInv, EarlyInv,
     Waiting, Held
<1>2. /\ UNCHANGED <<sub, ack, queue, hold, stops>> /\ pc' = [pc EXCEPT ![w] = "run"]
      /\ runs' = [runs EXCEPT ![t] = @ + 1] /\ WorkerStep(w)
  BY <1>1 DEF Claim, Goto, qvars, lvars, WorkerStep, WorkerQuiet
<1>3. Still(Task \ {t})
  BY <1>1, <1>2, OthersStill
<1>4. sub'[t] # "no" /\ runs'[t] > 0 /\ Executing(t)'
  BY <1>1, <1>2 DEF Executing
<1>5. Phase(t) = "pending" /\ Phase(t)' = "executing"
  BY <1>1, <1>4 DEF Phase
<1>6. Executor!Move(t, "pending", "executing") /\ Rs' = Rs
  BY <1>3, <1>5, OneMoves, NoResult, SameResult
<1> DEFINE S == {u \in Task : Ph[u] = "executing"} \cup {t}
<1>7. \A u \in S : \E v \in Worker : hold[v] = u
  <2> SUFFICES ASSUME NEW u \in Task, Phase(u) = "executing"
               PROVE  \E v \in Worker : hold[v] = u
    BY <1>1 DEF Ph
  <2> QED BY DEF Phase, Executing
<1>8. Executor!Fit(S)
  <2> DEFINE slot == [u \in S |-> CHOOSE v \in Worker : hold[v] = u]
  <2>1. \A u \in S : slot[u] \in Worker /\ hold[slot[u]] = u
    BY <1>7
  <2>2. slot \in [S -> Worker]
    BY <2>1
  <2>3. \A u, v \in S : slot[u] = slot[v] => u = v
    BY <2>1
  <2> HIDE DEF slot, S
  <2> QED BY <2>2, <2>3 DEF Executor!Fit
<1> QED BY <1>2, <1>6, <1>8 DEF Executor!Next, Executor!Begin, Ph, Rs

\* The fn ends, and with it the task.
LEMMA EndMaps ==
  ASSUME ExecInv, NEW w \in Worker, FnReturns(w) \/ FnRaises(w) \/ FnExits(w)
  PROVE  Executor!Next
<1> USE DEF ExecInv, IInv, IndInv, TypeOK, TokenInv
<1>1. PICK t \in Task : /\ t = hold[w] /\ sub[t] # "no" /\ runs[t] = 1
                       /\ status[t] = "running" /\ pc[w] = "run"
  BY DEF FnReturns, FnRaises, FnExits, Goto, HoldInv, Holding, WorkerInv, Queueable, CancelInv,
     RunInv, Busy, OutcomeInv
<1>2. /\ UNCHANGED <<sub, runs, ack, queue, hold, stops>> /\ WorkerStep(w)
      /\ \E to \in {"publish", "unwind"} : pc' = [pc EXCEPT ![w] = to]
      /\ status'[t] \in {"running", "completed", "failed"}
  BY <1>1 DEF FnReturns, FnRaises, FnExits, Goto, qvars, tvars, lvars, WorkerStep, WorkerQuiet
<1>3. Still(Task \ {t})
  BY <1>1, <1>2, OthersStill
<1>4. Executing(t) /\ ~Executing(t)'
  BY <1>1, <1>2 DEF Executing, UniqueInv
<1>5. Phase(t) = "executing" /\ Phase(t)' = "ended"
  BY <1>1, <1>2, <1>4 DEF Phase
<1>6. Result(t)' \in {"completed", "failed", "lost"}
  BY <1>2, <1>5 DEF Result
<1>7. Executor!Move(t, "executing", "ended") /\ Rs' = [Rs EXCEPT ![t] = Result(t)']
  BY <1>3, <1>5, OneMoves
<1>8. PICK r \in {"completed", "failed", "lost"} : Rs' = [Rs EXCEPT ![t] = r]
  BY <1>6, <1>7
<1>9. Executor!End(t)
  BY <1>2, <1>7, <1>8 DEF Executor!End, Rs
<1> QED BY <1>9 DEF Executor!Next

LEMMA StepMaps == ExecInv /\ [Next]_vars => [Executor!Next]_(Executor!vars)
<1> SUFFICES ASSUME ExecInv, [Next]_vars PROVE Executor!Next \/ UNCHANGED Executor!vars
  OBVIOUS
<1>1. CASE LifecycleStep
  BY <1>1, LifecycleMaps DEF Executor!Next
<1>2. ASSUME NEW t \in Task, CallerStep(t) PROVE Executor!Next \/ UNCHANGED Executor!vars
  BY <1>2, CallerMaps
<1>3. ASSUME NEW w \in Worker, WorkerStep(w) PROVE Executor!Next \/ UNCHANGED Executor!vars
  BY <1>3, IdleMaps, LookMaps, ClaimMaps, EndMaps DEF WorkerStep, WorkerQuiet
<1>4. CASE UNCHANGED vars
  <2> USE <1>4 DEF vars, qvars, tvars, wvars, lvars
  <2>1. Still(Task)
    BY Untouched DEF Still, Waiting, Held, Executing
  <2> QED BY <2>1, AllStill DEF Executor!vars, Ph, Rs
<1> QED BY <1>1, <1>2, <1>3, <1>4 DEF Next

LEMMA InitMaps == Init => Executor!Init
<1> SUFFICES ASSUME Init PROVE Executor!Init
  OBVIOUS
<1>1. \A t \in Task : Phase(t) = "new" /\ Result(t) = "none"
  BY DEF Init, Phase, Result
<1>2. (stops > 0) = FALSE
  BY DEF Init
<1> QED BY <1>1, <1>2 DEF Executor!Init

\* With any number of threads, starts, stops and cancels, the virtual CPU keeps
\* the promises of the task executor: a task runs at most once and in a slot of
\* its own, ends once, and is lost only by stop().
THEOREM CpuImplementsExecutor == Spec => ImplementsExecutor
BY InitMaps, StepMaps, ExecInvariance, PTL DEF Spec, ImplementsExecutor, Executor!Spec

-----------------------------------------------------------------------------
(* Coupling adds events to the virtual CPU and changes none of its steps. *)

LEMMA CoupledStep == [CoupledNext]_allVars => [Next]_vars
BY DEF CoupledNext, allVars, Quiet, Announce, AnnounceEnd, Next,
       CallerStep, WorkerStep

LEMMA CoupledRefinesCPU == CoupledSpec => Spec
<1>1. CoupledInit => Init
  BY DEF CoupledInit
<1> QED BY <1>1, CoupledStep, PTL DEF CoupledSpec, Spec

-----------------------------------------------------------------------------
(* The inductive invariant of the coupling. *)

\* Only a task whose submission was announced is booked.
BookInv == \A t \in Task : nodeOf[t] # NoNode => sub[t] = "done"
\* A node that does not exist yet has nothing in use.
FreshInv == \A n \in Node \ (nodes \cup gone) : used[n] = 0

CloudInv == Cloud!CloudTypeOK /\ BookInv /\ FreshInv /\ UsageExplained

LEMMA BookedOnFinite ==
  \A n : IsFiniteSet(BookedOn(n)) /\ Cardinality(BookedOn(n)) \in Nat
BY TaskAssumption, FS_Subset, FS_CardinalityType DEF BookedOn

LEMMA InitCloudInv == CoupledInit => CloudInv
<1> SUFFICES ASSUME CoupledInit PROVE CloudInv
  OBVIOUS
<1>1. /\ nodes = FirstNodes /\ gone = {} /\ used = [n \in Node |-> 0]
      /\ nodeOf = [t \in Task |-> NoNode]
  BY DEF CoupledInit, Cloud!CloudInit
<1>2. Cloud!CloudTypeOK /\ BookInv /\ FreshInv
  BY <1>1, NodeAssumption DEF Cloud!CloudTypeOK, BookInv, FreshInv
<1>3. UsageExplained
  BY <1>1, BookedOnFinite, NodeAssumption DEF UsageExplained
<1> QED BY <1>2, <1>3 DEF CloudInv

\* A step of the CPU alone keeps every announced submission announced.
LEMMA QuietKeepsAnnounced ==
  ASSUME TypeOK, Quiet
  PROVE  \A t \in Task : sub[t] = "done" => sub'[t] = "done"
<1> USE DEF TypeOK
<1>1. CASE LifecycleStep
  BY <1>1 DEF LifecycleStep, Start, StopFlag, StopPut, StopPutRaises, tvars
<1>2. ASSUME NEW t \in Task, CallerQuiet(t)
      PROVE  \A u \in Task : sub[u] = "done" => sub'[u] = "done"
  BY <1>2 DEF CallerQuiet, SubmitRegister, SubmitPut, Cancel
<1>3. ASSUME NEW w \in Worker, WorkerQuiet(w)
      PROVE  UNCHANGED sub
  BY <1>3 DEF WorkerQuiet, Check, GetEmpty, GetPill, GetTask, GetRaises,
     SkipCancelled, SeesRunnable, Claim, FnReturns, FnRaises, FnExits,
     Finally, tvars
<1> QED BY <1>1, <1>2, <1>3 DEF Quiet

LEMMA AnnounceCloudInv ==
  ASSUME NEW t \in Task, TypeOK, CloudInv, Announce(t)
  PROVE  CloudInv'
<1> USE DEF TypeOK, CloudInv, Cloud!CloudTypeOK
<1>1. sub[t] = "put" /\ sub' = [sub EXCEPT ![t] = "done"]
  BY DEF Announce, SubmitPublish
<1>2. nodeOf[t] = NoNode
  BY <1>1 DEF BookInv
<1>3. CASE UNCHANGED cloudVars
  BY <1>1, <1>3 DEF cloudVars, BookInv, FreshInv, UsageExplained, BookedOn
<1>4. CASE ~ UNCHANGED cloudVars
  <2>1. PICK n \in nodes :
          /\ used' = [used EXCEPT ![n] = Cloud!Lower(@ + 1, VCpus[n])]
          /\ nodeOf' = [nodeOf EXCEPT ![t] = n]
          /\ UNCHANGED <<nodes, gone>>
    BY <1>4 DEF Announce, Cloud!OnTaskSubmitted, Cloud!cloudVars, cloudVars
  <2>2. /\ n \in Node /\ n # NoNode /\ VCpus[n] \in Nat /\ used[n] \in Nat
        /\ used'[n] \in Nat /\ used'[n] <= used[n] + 1 /\ used'[n] <= VCpus[n]
    <3>1. /\ n \in Node /\ n # NoNode /\ VCpus[n] \in Nat /\ used[n] \in Nat
          /\ used[n] <= VCpus[n]
      BY <2>1, NodeAssumption DEF UsageExplained
    <3>2. used'[n] = IF used[n] + 1 < VCpus[n] THEN used[n] + 1 ELSE VCpus[n]
      BY <2>1, <3>1 DEF Cloud!Lower
    <3> QED BY <3>1, <3>2
  <2>3. Cloud!CloudTypeOK' /\ BookInv' /\ FreshInv'
    BY <1>1, <2>1, <2>2 DEF BookInv, FreshInv
  <2>4. /\ BookedOn(n)' = BookedOn(n) \cup {t} /\ t \notin BookedOn(n)
        /\ \A m \in nodes : m # n => BookedOn(m)' = BookedOn(m) /\ used'[m] = used[m]
    BY <1>2, <2>1, <2>2, NodeAssumption DEF BookedOn
  <2>5. Cardinality(BookedOn(n) \cup {t}) = Cardinality(BookedOn(n)) + 1
    BY <2>4, BookedOnFinite, FS_AddElement
  <2>6. \A m \in nodes : used'[m] <= Cardinality(BookedOn(m)') /\ used'[m] <= VCpus[m]
    <3> TAKE m \in nodes
    <3>1. CASE m = n
      <4>1. used[n] <= Cardinality(BookedOn(n)) /\ Cardinality(BookedOn(n)) \in Nat
        BY BookedOnFinite DEF UsageExplained
      <4> QED BY <3>1, <2>2, <2>4, <2>5, <4>1
    <3>2. CASE m # n
      BY <3>2, <2>4 DEF UsageExplained
    <3> QED BY <3>1, <3>2
  <2>7. UsageExplained'
    BY <2>1, <2>6 DEF UsageExplained
  <2> QED BY <2>3, <2>7
<1> QED BY <1>3, <1>4

LEMMA AnnounceEndCloudInv ==
  ASSUME NEW w \in Worker, TypeOK, hold[w] \in Task, CloudInv, AnnounceEnd(w)
  PROVE  CloudInv'
<1> DEFINE t == hold[w]
           n == nodeOf[t]
<1> USE DEF TypeOK, CloudInv, Cloud!CloudTypeOK
<1>1. /\ nodeOf' = [nodeOf EXCEPT ![t] = NoNode]
      /\ used' = IF n \in nodes /\ used[n] > 0
                 THEN [used EXCEPT ![n] = @ - 1] ELSE used
      /\ UNCHANGED <<nodes, gone, sub>>
  BY DEF AnnounceEnd, Cloud!OnTaskFinished, PublishFinished, tvars
<1>2. /\ nodes \subseteq Node /\ nodeOf[t] \in Node \cup {NoNode}
      /\ \A m \in Node : used[m] \in Nat
  OBVIOUS
<1>3. Cloud!CloudTypeOK' /\ BookInv' /\ FreshInv'
  BY <1>1, <1>2 DEF BookInv, FreshInv
<1>4. \A m \in nodes : used'[m] <= Cardinality(BookedOn(m)') /\ used'[m] <= VCpus[m]
  <2> TAKE m \in nodes
  <2>1. /\ used[m] <= Cardinality(BookedOn(m)) /\ used[m] <= VCpus[m]
        /\ Cardinality(BookedOn(m)) \in Nat /\ used[m] \in Nat /\ VCpus[m] \in Nat
        /\ IsFiniteSet(BookedOn(m)) /\ m # NoNode
    BY <1>2, BookedOnFinite, NodeAssumption DEF UsageExplained
  <2>2. CASE m = n
    <3>1. BookedOn(m)' = BookedOn(m) \ {t} /\ t \in BookedOn(m)
      BY <1>1, <2>1, <2>2 DEF BookedOn
    <3>2. Cardinality(BookedOn(m) \ {t}) = Cardinality(BookedOn(m)) - 1
      BY <2>1, <3>1, FS_RemoveElement
    <3>3. used'[m] = IF used[m] > 0 THEN used[m] - 1 ELSE used[m]
      BY <1>1, <1>2, <2>2
    <3>4. Cardinality(BookedOn(m)) > 0
      <4>1. Cardinality(BookedOn(m) \ {t}) \in Nat
        BY <2>1, FS_Subset, FS_CardinalityType
      <4> QED BY <2>1, <3>2, <4>1
    <3> HIDE DEF n, t
    <3>5. used'[m] <= Cardinality(BookedOn(m)) - 1 /\ used'[m] <= VCpus[m]
      BY <2>1, <3>3, <3>4
    <3> QED BY <3>1, <3>2, <3>5
  <2>3. CASE m # n
    <3>1. BookedOn(m)' = BookedOn(m) /\ used'[m] = used[m]
      BY <1>1, <1>2, <2>1, <2>3 DEF BookedOn
    <3> QED BY <2>1, <3>1
  <2> QED BY <2>2, <2>3
<1>5. UsageExplained'
  BY <1>1, <1>4 DEF UsageExplained
<1> QED BY <1>3, <1>5

LEMMA OperationCloudInv ==
  ASSUME CloudInv, Cloud!CloudOperation, UNCHANGED vars
  PROVE  CloudInv'
<1> USE DEF CloudInv, Cloud!CloudTypeOK
<1>1. UNCHANGED <<sub, used, nodeOf>>
  BY DEF vars, tvars, Cloud!CloudOperation, Cloud!AddNode, Cloud!RemoveNode
<1>2. \A m : BookedOn(m)' = BookedOn(m)
  BY <1>1 DEF BookedOn
<1>3. CASE Cloud!AddNode
  <2>1. PICK n \in Node \ (nodes \cup gone) :
          nodes' = nodes \cup {n} /\ UNCHANGED gone
    BY <1>3 DEF Cloud!AddNode
  <2>2. used[n] = 0 /\ VCpus[n] \in Nat /\ Cardinality(BookedOn(n)) \in Nat
    BY <2>1, BookedOnFinite, NodeAssumption DEF FreshInv
  <2>3. used[n] <= Cardinality(BookedOn(n)) /\ used[n] <= VCpus[n]
    BY <2>2
  <2>4. UsageExplained'
    BY <1>1, <1>2, <2>1, <2>3 DEF UsageExplained
  <2> QED BY <1>1, <2>1, <2>4 DEF BookInv, FreshInv
<1>4. ASSUME NEW n \in Node, Cloud!RemoveNode(n)
      PROVE  CloudInv'
  BY <1>1, <1>2, <1>4 DEF Cloud!RemoveNode, BookInv, FreshInv, UsageExplained
<1> QED BY <1>3, <1>4 DEF Cloud!CloudOperation

LEMMA CloudInvariance == CoupledSpec => []CloudInv
<1>1. IInv /\ CloudInv /\ [CoupledNext]_allVars => CloudInv'
  <2> SUFFICES ASSUME IInv, CloudInv, [CoupledNext]_allVars
               PROVE  CloudInv'
    OBVIOUS
  <2>0. TypeOK /\ HoldInv
    BY DEF IInv, IndInv, TokenInv
  <2>1. CASE Quiet /\ UNCHANGED <<cloudVars, overtaken>>
    BY <2>0, <2>1, QuietKeepsAnnounced DEF cloudVars, CloudInv,
       Cloud!CloudTypeOK, BookInv, FreshInv, UsageExplained, BookedOn
  <2>2. ASSUME NEW t \in Task, Announce(t) PROVE CloudInv'
    BY <2>0, <2>2, AnnounceCloudInv
  <2>3. ASSUME NEW w \in Worker, AnnounceEnd(w) PROVE CloudInv'
    <3>1. hold[w] \in Task
      BY <2>0, <2>3 DEF AnnounceEnd, PublishFinished, Goto, HoldInv, Holding
    <3> QED BY <2>0, <2>3, <3>1, AnnounceEndCloudInv
  <2>4. CASE Cloud!CloudOperation /\ UNCHANGED <<vars, overtaken>>
    BY <2>4, OperationCloudInv
  <2>5. CASE UNCHANGED allVars
    BY <2>5 DEF allVars, vars, tvars, cloudVars, CloudInv, Cloud!CloudTypeOK,
       BookInv, FreshInv, UsageExplained, BookedOn
  <2> QED BY <2>1, <2>2, <2>3, <2>4, <2>5 DEF CoupledNext
<1> QED BY <1>1, InitCloudInv, CoupledRefinesCPU, Invariance, PTL DEF CoupledSpec

\* Whatever nodes come and go and in whatever order events arrive, a node is
\* never shown busier than the tasks booked on it.
THEOREM UsageIsExplained == CoupledSpec => []UsageExplained
<1>1. CloudInv => UsageExplained
  BY DEF CloudInv
<1> QED BY <1>1, CloudInvariance, PTL

-----------------------------------------------------------------------------
(* A booking outlives its task only if the task's end overtook its          *)
(* submission.                                                              *)

Publishing(t) == \E w \in Worker : pc[w] = "publish" /\ hold[w] = t
Ended(t) == status[t] \in {"completed", "failed"} /\ ~Publishing(t)

\* What has ended and is yet to be announced, or is still booked, was overtaken.
ReleaseInv == /\ overtaken \subseteq Task
              /\ \A t \in Task : /\ Ended(t)
                                 /\ sub[t] \in {"put", "raised"} \/ nodeOf[t] # NoNode
                                 => t \in overtaken

LEMMA InitReleaseInv == CoupledInit => ReleaseInv
BY DEF CoupledInit, Init, Cloud!CloudInit, ReleaseInv, Ended

\* Without a publication no task ends.
LEMMA QuietEndsNothing ==
  ASSUME TypeOK, TokenInv, Quiet
  PROVE  \A t \in Task : Ended(t)' => Ended(t)
<1> USE DEF TypeOK
<1>1. CASE LifecycleStep
  <2>1. /\ status' = status
        /\ \A v \in Worker : pc[v] = "publish" => pc'[v] = "publish" /\ hold'[v] = hold[v]
    <3>1. ASSUME NEW v \in Worker, pc[v] = "publish" PROVE v \in threads
      BY <3>1 DEF TokenInv, OffInv
    <3> QED BY <1>1, <3>1 DEF LifecycleStep, Start, StopFlag, StopPut, StopPutRaises, tvars, wvars
  <2> QED BY <2>1 DEF Ended, Publishing
<1>2. ASSUME NEW t \in Task, CallerQuiet(t)
      PROVE  \A u \in Task : Ended(u)' => Ended(u)
  <2>1. /\ UNCHANGED <<pc, hold>>
        /\ \A u \in Task : status'[u] = status[u] \/ status'[u] \in {"queued", "cancelled"}
    BY <1>2 DEF CallerQuiet, SubmitRegister, SubmitPut, Cancel, wvars, tvars
  <2> QED BY <2>1 DEF Ended, Publishing
<1>3. ASSUME NEW w \in Worker, WorkerQuiet(w)
      PROVE  \A t \in Task : Ended(t)' => Ended(t)
  <2>1. \A v \in Worker : pc[v] = "publish" => pc'[v] = "publish" /\ hold'[v] = hold[v]
    BY <1>3 DEF WorkerQuiet, Check, GetEmpty, GetPill, GetTask, GetRaises, Goto,
       SkipCancelled, SeesRunnable, Claim, FnReturns, FnRaises, FnExits, Finally
  <2>2. CASE FnReturns(w) \/ FnRaises(w)
    <3>1. hold[w] \in Task /\ pc'[w] = "publish" /\ hold' = hold
      BY <2>2 DEF FnReturns, FnRaises, Goto, TokenInv, HoldInv, Holding
    <3>2. \A t \in Task : t # hold[w] => status'[t] = status[t]
      BY <2>2 DEF FnReturns, FnRaises
    <3>3. Publishing(hold[w])'
      BY <3>1 DEF Publishing
    <3> QED BY <2>1, <3>1, <3>2, <3>3 DEF Ended, Publishing
  <2>3. CASE ~(FnReturns(w) \/ FnRaises(w))
    <3>1. \A t \in Task : status'[t] = status[t] \/ status'[t] = "running"
      BY <1>3, <2>3 DEF WorkerQuiet, Check, GetEmpty, GetPill, GetTask, GetRaises, tvars,
         SkipCancelled, SeesRunnable, Claim, FnExits, Finally
    <3> QED BY <2>1, <3>1 DEF Ended, Publishing
  <2> QED BY <2>2, <2>3
<1> QED BY <1>1, <1>2, <1>3 DEF Quiet

LEMMA StepReleaseInv ==
  ASSUME IInv, Cloud!CloudTypeOK, ReleaseInv, [CoupledNext]_allVars
  PROVE  ReleaseInv'
<1> USE DEF Cloud!CloudTypeOK
<1>0. TypeOK /\ TokenInv /\ OutcomeInv
  BY DEF IInv, IndInv
<1> USE DEF TypeOK
<1>1. CASE Quiet /\ UNCHANGED <<cloudVars, overtaken>>
  <2>1. ASSUME NEW t \in Task, Ended(t)', sub'[t] \in {"put", "raised"}
        PROVE  Ended(t) /\ sub[t] \in {"put", "raised"}
    <3>1. Ended(t)
      BY <1>0, <1>1, <2>1, QuietEndsNothing
    <3>2. sub[t] # "registered"
      BY <1>0, <3>1 DEF Ended, OutcomeInv, TokenInv, CallerInv
    <3>3. sub'[t] = sub[t] \/ sub'[t] = "registered" \/ sub[t] = "registered"
      BY <1>0, <1>1 DEF Quiet, LifecycleStep, Start, StopFlag, StopPut, StopPutRaises,
         CallerQuiet, SubmitRegister, SubmitPut, Cancel, WorkerQuiet, Check, GetEmpty,
         GetPill, GetTask, GetRaises, SkipCancelled, SeesRunnable, Claim, FnReturns,
         FnRaises, FnExits, Finally, tvars
    <3> QED BY <2>1, <3>1, <3>2, <3>3
  <2>2. \A t \in Task : Ended(t)' => Ended(t)
    BY <1>0, <1>1, QuietEndsNothing
  <2> QED BY <1>1, <2>1, <2>2 DEF ReleaseInv, cloudVars
<1>2. ASSUME NEW t \in Task, Announce(t) PROVE ReleaseInv'
  <2>1. /\ sub[t] = "put" /\ sub' = [sub EXCEPT ![t] = "done"]
        /\ UNCHANGED <<pc, hold, status, overtaken>>
    BY <1>2 DEF Announce, SubmitPublish, wvars
  <2>2. \A u \in Task : u # t => nodeOf'[u] = nodeOf[u]
    BY <1>2 DEF Announce, Cloud!OnTaskSubmitted, Cloud!cloudVars
  <2>3. \A u \in Task : Ended(u)' = Ended(u)
    BY <2>1 DEF Ended, Publishing
  <2> QED BY <1>0, <2>1, <2>2, <2>3 DEF ReleaseInv
<1>3. ASSUME NEW w \in Worker, AnnounceEnd(w) PROVE ReleaseInv'
  <2>1. /\ pc[w] = "publish" /\ hold[w] \in Task
        /\ pc' = [pc EXCEPT ![w] = "finally"] /\ UNCHANGED <<sub, hold, status>>
    BY <1>0, <1>3 DEF AnnounceEnd, PublishFinished, Goto, tvars, TokenInv, HoldInv, Holding
  <2>2. /\ nodeOf' = [nodeOf EXCEPT ![hold[w]] = NoNode]
        /\ overtaken' = IF sub[hold[w]] \in {"put", "raised"}
                        THEN overtaken \cup {hold[w]} ELSE overtaken
    BY <1>3 DEF AnnounceEnd, Cloud!OnTaskFinished
  <2>3. \A t \in Task : t # hold[w] => Ended(t)' = Ended(t)
    BY <1>0, <2>1 DEF Ended, Publishing
  <2> QED BY <1>0, <2>1, <2>2, <2>3 DEF ReleaseInv
<1>4. CASE Cloud!CloudOperation /\ UNCHANGED <<vars, overtaken>>
  <2>1. UNCHANGED <<sub, pc, hold, status, overtaken, nodeOf>>
    BY <1>4 DEF vars, tvars, wvars, Cloud!CloudOperation, Cloud!AddNode, Cloud!RemoveNode
  <2> QED BY <2>1 DEF ReleaseInv, Ended, Publishing
<1>5. CASE UNCHANGED allVars
  BY <1>5 DEF allVars, vars, tvars, wvars, cloudVars, ReleaseInv, Ended, Publishing
<1> QED BY <1>1, <1>2, <1>3, <1>4, <1>5 DEF CoupledNext

\* What the cloud books is well-formed, and is released when its task ends,
\* unless the task's end was published before its submission.
THEOREM BookingsAreReleased == CoupledSpec => []BookingsSettle
<1>1. IInv /\ CloudInv /\ ReleaseInv => BookingsSettle
  BY DEF IInv, IndInv, CloudInv, ReleaseInv, BookingsSettle, CoupledTypeOK,
     ReleasedUnlessOvertaken, Settled, Ended, Publishing
<1>2. IInv /\ CloudInv /\ ReleaseInv /\ [CoupledNext]_allVars => ReleaseInv'
  BY StepReleaseInv DEF CloudInv
<1> QED BY <1>1, <1>2, InitReleaseInv, CoupledRefinesCPU, Invariance, CloudInvariance,
           PTL DEF CoupledSpec
=============================================================================
