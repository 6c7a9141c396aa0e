----------------------------- MODULE Scheduling -----------------------------
(***************************************************************************)
(* The task scheduler of aura/scheduler with the memory pool, the quotas   *)
(* and the ledger of aura/resources.  Each table has a lock of its own, so *)
(* submit() and cancel() are chains of steps.  VirtualCPU.submit reads     *)
(* priority.value of the integer it is given here: submit() always raises, *)
(* with everything booked and the wrapper that would release it never run. *)
(***************************************************************************)
EXTENDS Integers, Sequences, FiniteSets, FiniteSetsExt, SequencesExt

CONSTANTS
  Job,        \* the tasks submitted
  JobMb,      \* ram_mb of each of them
  PoolMb,     \* the size of the memory pool
  QuotaJob,   \* those whose user has a quota
  MaxTasks,   \* max_tasks of that quota, 0 if unlimited
  MaxMb,      \* its max_ram_mb
  Canceller,  \* threads that cancel
  LedgerMax   \* _MAX_ENTRIES of the ledger

ASSUME SchedulingAssumption ==
  /\ IsFiniteSet(Job) /\ IsFiniteSet(Canceller)
  /\ JobMb \in [Job -> Nat] /\ PoolMb \in Nat /\ LedgerMax \in Nat \ {0}
  /\ MaxTasks \in Nat /\ MaxMb \in Nat /\ QuotaJob \subseteq Job

VARIABLES
  submit,     \* where the submit() of each task is
  record,     \* the state in TaskScheduler._records
  ramOf,      \* VirtualRAM._allocations
  slot,       \* ResourceSlot._allocated
  slotStuck,  \* whether snapshot() holds the slot's lock and waits for it
  active,     \* QuotaEnforcer._active_tasks of the user with a quota
  ledger,     \* the tasks of ResourceLedger._order
  closed,     \* those of its entries that are finished
  cancel,     \* the cancel() each thread is in
  uncounted   \* history: how often a cancel() took each task off its user's count

schedVars == <<submit, record, ramOf, slot, slotStuck, active, ledger, closed, cancel, uncounted>>

NoCancel == [at |-> "idle", job |-> CHOOSE j \in Job : TRUE, mb |-> 0]

SchedInit ==
  /\ submit = [j \in Job |-> "new"] /\ record = [j \in Job |-> "none"]
  /\ ramOf = << >> /\ slot = 0 /\ slotStuck = FALSE /\ active = 0
  /\ ledger = <<>> /\ closed = {}
  /\ cancel = [c \in Canceller |-> NoCancel] /\ uncounted = [j \in Job |-> 0]

Goes(j, from, to) == submit[j] = from /\ submit' = [submit EXCEPT ![j] = to]

\* The two questions a quota asks first.
OverQuota(j) == \/ MaxTasks > 0 /\ active >= MaxTasks
                \/ MaxMb > 0 /\ JobMb[j] > MaxMb

\* The quota is soft: both verdicts go on.  If the first two questions pass,
\* usage() asks snapshot(), which takes the slot's lock twice and never returns.
QuotaCheck(j) ==
  /\ IF j \in QuotaJob /\ ~OverQuota(j)
     THEN Goes(j, "new", "stuck") /\ ~slotStuck /\ slotStuck' = TRUE
     ELSE Goes(j, "new", "checked") /\ UNCHANGED slotStuck
  /\ UNCHANGED <<record, ramOf, slot, active, ledger, closed, cancel, uncounted>>

\* Mutant of RamAllocate: what is there already is not counted.
RamAllocateAny(j) ==
  /\ Goes(j, "checked", "allocated") /\ ~slotStuck
  /\ IF JobMb[j] > 0 /\ JobMb[j] <= PoolMb
     THEN ramOf' = [k \in DOMAIN ramOf \cup {j} |-> JobMb[k]] /\ slot' = slot + JobMb[j]
     ELSE UNCHANGED <<ramOf, slot>>
  /\ UNCHANGED <<record, slotStuck, active, ledger, closed, cancel, uncounted>>

\* A task that gets no memory proceeds anyway.
RamAllocate(j) ==
  /\ Goes(j, "checked", "allocated") /\ ~slotStuck
  /\ IF JobMb[j] > 0 /\ slot + JobMb[j] <= PoolMb
     THEN ramOf' = [k \in DOMAIN ramOf \cup {j} |-> JobMb[k]] /\ slot' = slot + JobMb[j]
     ELSE UNCHANGED <<ramOf, slot>>
  /\ UNCHANGED <<record, slotStuck, active, ledger, closed, cancel, uncounted>>

Counted(j) ==
  /\ Goes(j, "allocated", "counted") /\ active' = IF j \in QuotaJob THEN active + 1 ELSE active
  /\ UNCHANGED <<record, ramOf, slot, slotStuck, ledger, closed, cancel, uncounted>>

\* Mutant of LedgerStart: evicted entries stay.
LedgerStartKeeps(j) ==
  /\ Goes(j, "counted", "ledgered") /\ ledger' = Append(ledger, j)
  /\ UNCHANGED <<record, ramOf, slot, slotStuck, active, closed, cancel, uncounted>>

LedgerStart(j) ==
  /\ Goes(j, "counted", "ledgered")
  /\ LET es == Append(ledger, j)
     IN  ledger' = IF Len(es) > LedgerMax THEN Tail(es) ELSE es
  /\ UNCHANGED <<record, ramOf, slot, slotStuck, active, closed, cancel, uncounted>>

\* The record is stored as pending; then, without the lock, it is marked
\* queued, whatever has become of it; then VirtualCPU.submit raises.
StoreRecord(j) ==
  /\ Goes(j, "ledgered", "stored") /\ record' = [record EXCEPT ![j] = "pending"]
  /\ UNCHANGED <<ramOf, slot, slotStuck, active, ledger, closed, cancel, uncounted>>
MarkQueued(j) ==
  /\ Goes(j, "stored", "raised") /\ record' = [record EXCEPT ![j] = "queued"]
  /\ UNCHANGED <<ramOf, slot, slotStuck, active, ledger, closed, cancel, uncounted>>

-----------------------------------------------------------------------------
(* cancel(): the look at the state and what follows are not one step. *)

Step(c, from, to) == cancel[c].at = from /\ cancel' = [cancel EXCEPT ![c].at = to]

\* It returns False for a task it does not find or that is over.
CancelLook(c, j) ==
  /\ cancel[c] = NoCancel /\ record[j] \notin {"none", "cancelled"}
  /\ cancel' = [cancel EXCEPT ![c] = [NoCancel EXCEPT !.at = "looked", !.job = j]]
  /\ UNCHANGED <<submit, record, ramOf, slot, slotStuck, active, ledger, closed, uncounted>>
CancelMark(c) ==
  /\ Step(c, "looked", "marked") /\ record' = [record EXCEPT ![cancel[c].job] = "cancelled"]
  /\ UNCHANGED <<submit, ramOf, slot, slotStuck, active, ledger, closed, uncounted>>
\* Mutant of RamTake: the amount is read and the entry stays.
RamTakeKeeps(c) ==
  /\ cancel[c].at = "marked"
  /\ LET j == cancel[c].job
     IN  cancel' = [cancel EXCEPT ![c].at = "taken",
                                  ![c].mb = IF j \in DOMAIN ramOf THEN ramOf[j] ELSE 0]
  /\ UNCHANGED <<submit, record, ramOf, slot, slotStuck, active, ledger, closed, uncounted>>

\* VirtualRAM.release() takes the task out of its table under one lock ...
RamTake(c) ==
  /\ cancel[c].at = "marked"
  /\ LET j == cancel[c].job
     IN  /\ cancel' = [cancel EXCEPT ![c].at = "taken",
                                     ![c].mb = IF j \in DOMAIN ramOf THEN ramOf[j] ELSE 0]
         /\ ramOf' = [k \in DOMAIN ramOf \ {j} |-> ramOf[k]]
  /\ UNCHANGED <<submit, record, slot, slotStuck, active, ledger, closed, uncounted>>
\* ... and gives the amount back under another.
SlotRelease(c) ==
  /\ Step(c, "taken", "released") /\ ~slotStuck /\ slot' = Max({0, slot - cancel[c].mb})
  /\ UNCHANGED <<submit, record, ramOf, slotStuck, active, ledger, closed, uncounted>>
CountDown(c) ==
  /\ Step(c, "released", "discounted")
  /\ active' = IF cancel[c].job \in QuotaJob THEN Max({0, active - 1}) ELSE active
  /\ uncounted' = [uncounted EXCEPT ![cancel[c].job] = @ + 1]
  /\ UNCHANGED <<submit, record, ramOf, slot, slotStuck, ledger, closed>>
LedgerFinish(c) ==
  /\ cancel[c].at = "discounted" /\ cancel' = [cancel EXCEPT ![c] = NoCancel]
  /\ closed' = IF cancel[c].job \in ToSet(ledger) THEN closed \cup {cancel[c].job} ELSE closed
  /\ UNCHANGED <<submit, record, ramOf, slot, slotStuck, active, ledger, uncounted>>

SchedNext ==
  \/ \E j \in Job : \/ QuotaCheck(j) \/ RamAllocate(j) \/ Counted(j) \/ LedgerStart(j)
                    \/ StoreRecord(j) \/ MarkQueued(j)
                    \/ \E c \in Canceller : CancelLook(c, j)
  \/ \E c \in Canceller : CancelMark(c) \/ RamTake(c) \/ SlotRelease(c) \/ CountDown(c) \/ LedgerFinish(c)

-----------------------------------------------------------------------------
(* Properties. *)

SchedTypeOK ==
  /\ record \in [Job -> {"none", "pending", "queued", "cancelled"}]
  /\ DOMAIN ramOf \subseteq Job /\ active \in 0..Cardinality(Job)

\* Memory is handed out once, within the pool, and what a cancel() took out of
\* the table is given back exactly once, however many cancel the same task.
RamBalanced ==
  LET way == {c \in Canceller : cancel[c].at = "taken"}
  IN  /\ slot <= PoolMb
      /\ slot = SumFunctionOnSet(ramOf, DOMAIN ramOf)
                + SumFunctionOnSet([c \in way |-> cancel[c].mb], way)

\* A task shown as cancelled keeps no memory when its cancel() is over; and
\* the count of its user is exact unless one task was cancelled twice, by two
\* threads, or again after submit() had marked it queued.
CancelIsComplete ==
  LET over(j) == \A c \in Canceller : cancel[c] = NoCancel \/ cancel[c].job # j
      booked  == {j \in QuotaJob : submit[j] \in {"counted", "ledgered", "stored", "raised"}}
  IN  /\ \A j \in Job : record[j] = "cancelled" /\ over(j) => j \notin DOMAIN ramOf
      /\ (\A j \in Job : uncounted[j] <= 1) =>
           active = Cardinality({j \in booked : uncounted[j] = 0})

\* The ledger keeps the latest tasks, each once, and closes no entry that was
\* not cancelled (record_start, record_finish).
LedgerBounded ==
  /\ Len(ledger) <= LedgerMax /\ Cardinality(ToSet(ledger)) = Len(ledger)
  /\ closed \subseteq {j \in Job : uncounted[j] > 0}
=============================================================================
