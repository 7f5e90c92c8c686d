------------------------ MODULE TaskLifecycleProofs ------------------------
(***************************************************************************)
(* Theorems about TaskLifecycle, for all its constants: any number of      *)
(* workers and rounds, runs, progress steps and ages.                      *)
(***************************************************************************)
EXTENDS TaskLifecycle, TLAPS

USE DEF Charges

----------------------------------------------------------------------------
\* A saved copy is a row.
LEMMA SaveType ==
    ASSUME NEW copy \in Rows, Save(copy)
    PROVE  row' \in Rows /\ row'.status = copy.status /\ row'.charge = copy.charge
           /\ row'.refunded = copy.refunded /\ rowLock = None
BY TaskLifecycleAssumptions DEF Save, Rows

LEMMA BlankRowType == BlankRow \in Rows /\ Idle \in Activity
BY TaskLifecycleAssumptions DEF BlankRow, Rows, Statuses, Idle, Activity, Ops

\* The ways an actor's activity changes.
LEMMA ActTypes ==
    ASSUME TypeOK, NEW a \in Actors, NEW copy \in Rows, NEW op \in Ops
    PROVE  /\ Become(a, op, copy) => act' \in [Actors -> Activity]
           /\ Go(a, op) => act' \in [Actors -> Activity]
           /\ Leave(a) => /\ act' \in [Actors -> Activity]
                          /\ globalLock' \in Syncers \cup {None}
                          /\ retryLock' \in Resubmitters \cup {None}
<1>1. act[a] \in Activity
  BY DEF TypeOK
<1>2. [act[a] EXCEPT !.op = op, !.copy = copy] \in Activity /\ [act[a] EXCEPT !.op = op] \in Activity
  BY <1>1 DEF Activity
<1>3. Become(a, op, copy) => act' = [act EXCEPT ![a] = [act[a] EXCEPT !.op = op, !.copy = copy]]
  BY DEF Become, TypeOK, Activity
<1>4. Become(a, op, copy) => act' \in [Actors -> Activity]
  BY <1>2, <1>3 DEF TypeOK
<1>5. Go(a, op) => act' \in [Actors -> Activity]
  BY <1>2 DEF TypeOK, Go
<1>6. Leave(a) => /\ act' \in [Actors -> Activity]
                  /\ globalLock' \in Syncers \cup {None}
                  /\ retryLock' \in Resubmitters \cup {None}
  BY BlankRowType DEF TypeOK, Leave
<1>. QED
  BY <1>4, <1>5, <1>6

\* What a retry round sets aside, and defers to save, is a row.
LEMMA KeptType ==
    ASSUME TypeOK, NEW a \in Actors
    PROVE  Kept(a) \in Rows /\ (DeferFailed(a) => act' \in [Actors -> Activity])
<1>1. Kept(a) \in Rows
  BY DEF Kept, TypeOK, Activity
<1>2. [Kept(a) EXCEPT !.status = "FAILED"] \in Rows /\ "deferred" \in Ops
  BY <1>1 DEF Rows, Statuses, Terminal, Ops
<1>. QED
  BY <1>1, <1>2, ActTypes DEF DeferFailed

\* The end of FailTask keeps the types.
LEMMA AfterFailTaskType ==
    ASSUME TypeOK, NEW a \in Actors, NEW copy \in Rows, AfterFailTask(a, copy)
    PROVE  /\ act' \in [Actors -> Activity]
           /\ globalLock' \in Syncers \cup {None}
           /\ retryLock' \in Resubmitters \cup {None}
<1>1. {"failing", "resaving"} \subseteq Ops
  BY DEF Ops
<1>2. CASE Leave(a)
  BY <1>1, <1>2, ActTypes
<1>3. CASE (Become(a, "failing", copy) \/ Become(a, "resaving", copy))
           /\ UNCHANGED <<globalLock, retryLock>>
  BY <1>1, <1>3, ActTypes DEF TypeOK
<1>4. CASE DeferFailed(a) /\ UNCHANGED <<globalLock, retryLock>>
  BY <1>4, KeptType DEF TypeOK
<1>. QED
  BY <1>2, <1>3, <1>4 DEF AfterFailTask

----------------------------------------------------------------------------
\* Each group of actions keeps the types.
LEMMA CopyType ==
    ASSUME TypeOK, NEW a \in Actors
    PROVE  /\ act[a].copy \in Rows /\ act[a].op \in Ops /\ act[a].run \in 0..MaxCharges
           /\ row \in Rows /\ row.charge \in 0..MaxCharges
BY DEF TypeOK, Activity, Rows

LEMMA FailTaskTypes ==
    ASSUME TypeOK, NEW a \in Actors, FailTask(a), UNCHANGED scenario
    PROVE  TypeOK'
<1>. USE CopyType
<1>1. CASE FailTaskSkip(a)
  BY <1>1, AfterFailTaskType DEF FailTaskSkip, TypeOK, money
<1>2. CASE FailTaskError(a)
  BY <1>2, AfterFailTaskType DEF FailTaskError, TypeOK, money
<1>3. CASE FailTaskRefund(a)
  <2>. DEFINE op == IF At(a, "refused") THEN "refusing" ELSE "refunding"
  <2>1. op \in Ops
    BY DEF Ops, Holding
  <2>2. [row EXCEPT !.refunded = TRUE] \in Rows
    BY DEF Rows
  <2>3. act' \in [Actors -> Activity]
    BY <1>3, <2>1, <2>2, ActTypes DEF FailTaskRefund
  <2>4. refunds' \in [Charges -> 0..MaxRefunds]
    <3>1. CASE UNCHANGED refunds
      BY <3>1 DEF TypeOK
    <3>2. CASE /\ row.charge # 0 /\ refunds[row.charge] < MaxRefunds
               /\ refunds' = [refunds EXCEPT ![row.charge] = @ + 1]
      <4>1. row.charge \in Charges
        BY <3>2, TaskLifecycleAssumptions
      <4>2. refunds[row.charge] \in 0..MaxRefunds
        BY <4>1 DEF TypeOK
      <4>3. refunds[row.charge] + 1 \in 0..MaxRefunds
        BY <4>2, <3>2, TaskLifecycleAssumptions
      <4>. QED
        BY <4>3, <3>2 DEF TypeOK
    <3>. QED
      BY <1>3, <3>1, <3>2 DEF FailTaskRefund
  <2>. QED
    BY <1>3, <2>3, <2>4 DEF FailTaskRefund, TypeOK, locks
<1>4. CASE FailTaskCommit(a)
  <2>0. "FAILED" \in Statuses /\ 0 \in 0..MaxAge
    BY TaskLifecycleAssumptions DEF Statuses, Terminal
  <2>1. row' \in Rows
    <3>1. act[a].copy \in Rows
      OBVIOUS
    <3>2. [act[a].copy EXCEPT !.status = "FAILED", !.age = 0] \in Rows
      BY <2>0, <3>1 DEF Rows
    <3>. QED
      BY <1>4, <3>2 DEF FailTaskCommit
  <2>. QED
    BY <1>4, <2>1, AfterFailTaskType DEF FailTaskCommit, TypeOK, money
<1>5. CASE FailTaskRollback(a)
  BY <1>5, AfterFailTaskType DEF FailTaskRollback, TypeOK, money
<1>. QED
  BY <1>1, <1>2, <1>3, <1>4, <1>5 DEF FailTask

LEMMA DeliveringType ==
    ASSUME TypeOK, NEW copy \in Rows, SaveDelivering(copy)
    PROVE  row' \in Rows /\ delivered' \subseteq Charges
BY SaveType DEF SaveDelivering, TypeOK

\* ComfyUI's late save keeps the types.
LEMMA ResaveTypes ==
    ASSUME TypeOK, NEW a \in Actors, Resave(a), UNCHANGED scenario
    PROVE  TypeOK'
<1>1. row' \in Rows
  BY CopyType, SaveType DEF Resave
<1>2. act' \in [Actors -> Activity]
  <2>1. "failing" \in Ops /\ BlankRow \in Rows
    BY BlankRowType DEF Ops
  <2>2. Go(a, "failing") => act' \in [Actors -> Activity]
    BY <2>1, ActTypes
  <2>. QED
    BY <2>2, KeptType DEF Resave
<1>. QED
  BY <1>1, <1>2 DEF Resave, TypeOK, locks, money

\* So does a save of the struct the worker shares with its progress goroutine.
LEMMA SharedType ==
    ASSUME TypeOK, NEW w \in Actors, NEW copy \in Rows, SaveShared(w, copy)
    PROVE  row' \in Rows /\ delivered' \subseteq Charges
           /\ other' \in [Actors -> Rows \cup {None}]
<1>1. \E saved \in Rows : SaveDelivering(saved)
  BY DEF SaveShared, TypeOK
<1>2. row' \in Rows /\ delivered' \subseteq Charges
  BY <1>1, DeliveringType DEF SaveShared
<1>3. other' \in [Actors -> Rows \cup {None}]
  BY DEF SaveShared, TypeOK
<1>. QED
  BY <1>2, <1>3

LEMMA WorkerTypes ==
    ASSUME TypeOK, NEW w \in Workers, Worker(w), UNCHANGED scenario
    PROVE  TypeOK'
<1>0. /\ w \in Actors
      /\ {"idle", "started", "loaded", "submitting", "uploading", "failing", "refused"} \subseteq Ops
      /\ {"PROCESSING", "AWAITING", "COMPLETED", "RETRY"} \subseteq Statuses
      /\ 0 \in 0..MaxProgress
  BY TaskLifecycleAssumptions DEF Actors, Ops, Statuses, Terminal
<1>. USE <1>0, CopyType
<1>1. CASE Dispatch(w)
  <2>0. [row EXCEPT !.status = "PROCESSING"] \in Rows
    BY DEF Rows
  <2>1. row' \in Rows
    BY <1>1, <2>0, SaveType DEF Dispatch
  <2>. QED
    BY <1>1, <2>1 DEF Dispatch, TypeOK, Activity, locks, money
<1>2. CASE WorkerLoad(w)
  <2>1. act' \in [Actors -> Activity]
    <3>1. CASE row.status \in Terminal
      BY <1>2, <3>1, BlankRowType DEF WorkerLoad, TypeOK
    <3>2. CASE row.status \notin Terminal
      BY <1>2, <3>2, ActTypes DEF WorkerLoad
    <3>. QED
      BY <3>1, <3>2
  <2>. QED
    BY <1>2, <2>1 DEF WorkerLoad, TypeOK, locks, money
<1>3. CASE WorkerMark(w)
  <2>1. row' \in Rows
    BY <1>3, SaveType DEF WorkerMark, Rows
  <2>2. act' \in [Actors -> Activity]
    BY <1>3, <2>1, ActTypes DEF WorkerMark
  <2>. QED
    BY <1>3, <2>1, <2>2 DEF WorkerMark, TypeOK, locks, money
<1>4. CASE WorkerAccepted(w)
  <2>1. [act[w].copy EXCEPT !.status = "AWAITING", !.progress = 0] \in Rows
    BY DEF Rows
  <2>2. row' \in Rows
    BY <1>4, <2>1, SaveType DEF WorkerAccepted
  <2>. QED
    BY <1>4, <2>2, BlankRowType DEF WorkerAccepted, TypeOK, locks, money
<1>5. CASE WorkerFails(w)
  BY <1>5, ActTypes DEF WorkerFails, TypeOK, locks, money
<1>6. CASE WorkerRefused(w)
  BY <1>6, ActTypes DEF WorkerRefused, TypeOK, locks, money
<1>7. CASE WorkerRetryable(w)
  <2>1. row' \in Rows
    BY <1>7, SaveType DEF WorkerRetryable, Rows
  <2>. QED
    BY <1>7, <2>1, ActTypes DEF WorkerRetryable, TypeOK, locks, money
<1>8. CASE Resave(w)
  BY <1>8, ResaveTypes
<1>9. CASE WorkerGenerated(w)
  <2>1. [act[w].copy EXCEPT !.status = "PROCESSING"] \in Rows
    BY DEF Rows
  <2>2. /\ row' \in Rows /\ delivered' \subseteq Charges
        /\ other' \in [Actors -> Rows \cup {None}]
    BY <1>9, <2>1, SharedType DEF WorkerGenerated
  <2>. QED
    BY <1>9, <2>2, ActTypes DEF WorkerGenerated, TypeOK, locks
<1>10. CASE WorkerDelivers(w)
  <2>1. [act[w].copy EXCEPT !.status = "COMPLETED"] \in Rows
    BY DEF Rows
  <2>2. /\ row' \in Rows /\ delivered' \subseteq Charges
        /\ other' \in [Actors -> Rows \cup {None}]
    BY <1>10, <2>1, SharedType DEF WorkerDelivers
  <2>. QED
    BY <1>10, <2>2, BlankRowType DEF WorkerDelivers, TypeOK, locks
<1>. QED
  BY <1>1, <1>2, <1>3, <1>4, <1>5, <1>6, <1>7, <1>8, <1>9, <1>10 DEF Worker

LEMMA ProgressTypes ==
    ASSUME TypeOK, NEW w \in Workers, Progress(w), UNCHANGED scenario
    PROVE  TypeOK'
<1>0. w \in Actors /\ "AWAITING" \in Statuses
  BY DEF Actors, Statuses
<1>1. CASE ProgressBegin(w)
  <2>1. [act[w].copy EXCEPT !.status = "AWAITING"] \in Rows
    BY <1>0, CopyType DEF Rows
  <2>. QED
    BY <1>0, <1>1, <2>1 DEF ProgressBegin, TypeOK, locks, money
<1>2. CASE ProgressSave(w)
  <2>1. other[w] \in Rows
    BY <1>0, <1>2 DEF ProgressSave, TypeOK
  <2>2. row' \in Rows /\ delivered' \subseteq Charges
    BY <1>2, <2>1, DeliveringType DEF ProgressSave, TypeOK
  <2>. QED
    BY <1>0, <1>2, <2>2 DEF ProgressSave, TypeOK, locks
<1>. QED
  BY <1>1, <1>2 DEF Progress

LEMMA SyncTypes ==
    ASSUME TypeOK, NEW y \in Syncers, Sync(y), UNCHANGED scenario
    PROVE  TypeOK'
<1>0. /\ y \in Actors
      /\ {"read", "polling", "processing", "failing", "refused"} \subseteq Ops
      /\ "COMPLETED" \in Statuses
  BY DEF Actors, Ops, Statuses, Terminal
<1>. USE <1>0, CopyType
<1>1. CASE SyncRead(y)
  BY <1>1 DEF SyncRead, TypeOK, Activity, money
<1>2. CASE SyncLock(y)
  BY <1>2, ActTypes DEF SyncLock, TypeOK, money
<1>3. CASE SyncFails(y)
  BY <1>3, ActTypes DEF SyncFails, TypeOK, locks, money
<1>4. CASE SyncRefused(y)
  BY <1>4, ActTypes DEF SyncRefused, TypeOK, locks, money
<1>5. CASE SyncOngoing(y)
  <2>1. row' \in Rows
    <3>1. CASE /\ act[y].copy.progress < MaxProgress
               /\ Save([act[y].copy EXCEPT !.progress = @ + 1])
      <4>1. [act[y].copy EXCEPT !.progress = @ + 1] \in Rows
        BY <3>1, TaskLifecycleAssumptions DEF Rows
      <4>. QED
        BY <3>1, <4>1, SaveType
    <3>2. CASE Save(act[y].copy)
      BY <3>2, SaveType
    <3>3. CASE row' = IF row.age < MaxAge THEN [row EXCEPT !.age = @ + 1] ELSE row
      BY <3>3, TaskLifecycleAssumptions DEF Rows
    <3>. QED
      BY <1>5, <3>1, <3>2, <3>3 DEF SyncOngoing
  <2>. QED
    BY <1>5, <2>1, ActTypes DEF SyncOngoing, TypeOK, money
<1>6. CASE SyncDone(y)
  <2>1. row' \in Rows
    BY <1>6, SaveType DEF SyncDone
  <2>. QED
    BY <1>6, <2>1, ActTypes DEF SyncDone, TypeOK, locks, money
<1>7. CASE SyncDelivers(y)
  <2>1. [act[y].copy EXCEPT !.status = "COMPLETED"] \in Rows
    BY DEF Rows
  <2>2. row' \in Rows /\ delivered' \subseteq Charges
    BY <1>7, <2>1, DeliveringType DEF SyncDelivers
  <2>. QED
    BY <1>7, <2>2, ActTypes DEF SyncDelivers, TypeOK
<1>8. CASE SyncResultFails(y)
  BY <1>8, ActTypes DEF SyncResultFails, TypeOK, locks, money
<1>9. CASE SyncEnded(y)
  BY <1>9, ActTypes DEF SyncEnded, TypeOK, money
<1>. QED
  BY <1>1, <1>2, <1>3, <1>4, <1>5, <1>6, <1>7, <1>8, <1>9 DEF Sync

LEMMA ResubmitTypes ==
    ASSUME TypeOK, NEW r \in Resubmitters, Resubmit(r), UNCHANGED scenario
    PROVE  TypeOK'
<1>0. /\ r \in Actors
      /\ {"read", "blanked", "reloaded", "resubmitting", "deferred", "refused"} \subseteq Ops
      /\ {"PROCESSING", "AWAITING", "RETRY"} \subseteq Statuses
      /\ 0 \in 0..MaxProgress
  BY TaskLifecycleAssumptions DEF Actors, Ops, Statuses, Terminal
<1>. USE <1>0, CopyType
<1>1. CASE ResubmitRead(r)
  BY <1>1 DEF ResubmitRead, TypeOK, Activity, money
<1>2. CASE ResubmitBlank(r)
  <2>1. row' \in Rows
    BY <1>2, SaveType, BlankRowType DEF ResubmitBlank
  <2>. QED
    BY <1>2, <2>1, ActTypes DEF ResubmitBlank, TypeOK, locks, money
<1>3. CASE ResubmitAccepted(r)
  <2>1. [act[r].copy EXCEPT !.status = "AWAITING", !.progress = 0] \in Rows
    BY DEF Rows
  <2>2. row' \in Rows
    BY <1>3, <2>1, SaveType DEF ResubmitAccepted
  <2>. QED
    BY <1>3, <2>2, ActTypes DEF ResubmitAccepted, TypeOK, locks, money
<1>4. CASE ResubmitFails(r)
  BY <1>4, KeptType DEF ResubmitFails, TypeOK, locks, money
<1>5. CASE ResubmitRefused(r)
  BY <1>5, ActTypes DEF ResubmitRefused, TypeOK, locks, money
<1>6. CASE ResubmitSave(r)
  <2>1. row' \in Rows
    BY <1>6, SaveType DEF ResubmitSave
  <2>. QED
    BY <1>6, <2>1, ActTypes DEF ResubmitSave, TypeOK, money
<1>7. CASE ResubmitLoad(r)
  <2>1. act' \in [Actors -> Activity] /\ other' \in [Actors -> Rows \cup {None}]
    <3>1. CASE row.status \in Terminal
      BY <1>7, <3>1, ActTypes DEF ResubmitLoad, TypeOK
    <3>2. CASE row.status \notin Terminal
      BY <1>7, <3>2, ActTypes DEF ResubmitLoad, TypeOK
    <3>. QED
      BY <3>1, <3>2
  <2>. QED
    BY <1>7, <2>1 DEF ResubmitLoad, TypeOK, locks, money
<1>8. CASE ResubmitMark(r)
  <2>1. [act[r].copy EXCEPT !.status = "PROCESSING"] \in Rows
    BY DEF Rows
  <2>2. row' \in Rows
    BY <1>8, <2>1, SaveType DEF ResubmitMark
  <2>. QED
    BY <1>8, <2>2, ActTypes DEF ResubmitMark, TypeOK, locks, money
<1>9. CASE ResubmitProcessed(r)
  <2>1. [act[r].copy EXCEPT !.status = "AWAITING", !.progress = 0] \in Rows
    BY DEF Rows
  <2>2. row' \in Rows
    BY <1>9, <2>1, SaveType DEF ResubmitProcessed
  <2>. QED
    BY <1>9, <2>2, KeptType, ActTypes DEF ResubmitProcessed, TypeOK, locks, money
<1>10. CASE ResubmitRetryable(r)
  <2>1. [act[r].copy EXCEPT !.status = "RETRY"] \in Rows
    BY DEF Rows
  <2>2. row' \in Rows
    BY <1>10, <2>1, SaveType DEF ResubmitRetryable
  <2>. QED
    BY <1>10, <2>2, KeptType DEF ResubmitRetryable, TypeOK, locks, money
<1>11. CASE Resave(r)
  BY <1>11, ResaveTypes
<1>. QED
  BY <1>1, <1>2, <1>3, <1>4, <1>5, <1>6, <1>7, <1>8, <1>9, <1>10, <1>11 DEF Resubmit

LEMMA EnvironmentTypes ==
    ASSUME TypeOK, Environment \/ \E a \in Actors : Crash(a), UNCHANGED scenario
    PROVE  TypeOK'
<1>1. CASE RetryFailedTask
  <2>1. charges + 1 \in Charges
    <3>1. scenario.runs \in Charges /\ charges \in Charges
      BY TaskLifecycleAssumptions DEF TypeOK, ScenarioType
    <3>. QED
      BY <1>1, <3>1, TaskLifecycleAssumptions DEF RetryFailedTask
  <2>2. row' \in Rows
    BY <1>1, <2>1, BlankRowType DEF RetryFailedTask, Rows
  <2>. QED
    BY <1>1, <2>1, <2>2 DEF RetryFailedTask, TypeOK, locks
<1>2. CASE TaskLockExpires
  BY <1>2 DEF TaskLockExpires, TypeOK, money
<1>3. CASE GlobalLockExpires
  BY <1>3 DEF GlobalLockExpires, TypeOK, money
<1>4. CASE RetryLockExpires
  BY <1>4 DEF RetryLockExpires, TypeOK, money
<1>5. CASE \E a \in Actors : Crash(a)
  BY <1>5, BlankRowType DEF Crash, TypeOK, locks, money
<1>. QED
  BY <1>1, <1>2, <1>3, <1>4, <1>5 DEF Environment

LEMMA InitTypes == Init => TypeOK
<1>. SUFFICES ASSUME Init PROVE TypeOK
  OBVIOUS
<1>1. 1 \in 1..MaxCharges /\ 0 \in 0..MaxRefunds
  BY TaskLifecycleAssumptions
<1>2. row \in Rows
  BY <1>1, BlankRowType DEF Init, Rows
<1>. QED
  BY <1>1, <1>2, BlankRowType DEF Init, TypeOK

LEMMA StepTypes == TypeOK /\ [Next]_vars => TypeOK'
<1>. SUFFICES ASSUME TypeOK, [Next]_vars PROVE TypeOK'
  OBVIOUS
<1>1. CASE UNCHANGED vars
  BY <1>1 DEF vars, TypeOK
<1>. QED
  BY <1>1, FailTaskTypes, WorkerTypes, ProgressTypes, SyncTypes, ResubmitTypes, EnvironmentTypes DEF Next

\* Whatever happens to a task, its row, the copies of it and the locks keep
\* their types: progress never passes its ceiling, nobody else's charge is named.
THEOREM LifecycleTypes == Spec => []TypeOK
<1>. QED
  BY InitTypes, StepTypes, PTL DEF Spec

----------------------------------------------------------------------------
(***************************************************************************)
(* FailTask's row lock.  RefundHoldsRow is inductive once the holder of    *)
(* the row lock is known: who is inside FailTask's transaction is it.      *)
(***************************************************************************)
HolderLocks == \A a \in Actors : act[a].op \in Holding => rowLock = a

LockInv == TypeOK /\ HolderLocks /\ RefundHoldsRow

\* Of all actors only a changes what it does.
Only(a) == \A b \in Actors : b # a => act'[b] = act[b]

\* A step of one actor that takes no row lock, saves only a free row and does
\* not enter FailTask's transaction.
LEMMA PlainStep ==
    ASSUME LockInv, NEW a \in Actors, act[a].op \notin Holding,
           Only(a),
           act'[a].op \notin Holding, UNCHANGED rowLock,
           \/ rowLock = None
           \/ row'.status = row.status /\ row'.charge = row.charge
    PROVE  HolderLocks' /\ RefundHoldsRow'
<1>1. HolderLocks'
  BY DEF LockInv, HolderLocks, Only
<1>2. CASE rowLock = None
  <2>1. \A b \in Actors : act[b].op \notin Holding
    BY <1>2, TaskLifecycleAssumptions DEF LockInv, HolderLocks, Actors
  <2>. QED
    BY <1>1, <2>1 DEF RefundHoldsRow, Only
<1>3. CASE row'.status = row.status /\ row'.charge = row.charge
  <2>1. \A b \in Actors : act'[b].op \in Holding => act'[b] = act[b]
    BY DEF Only
  <2>. QED
    BY <1>1, <1>3, <2>1 DEF LockInv, RefundHoldsRow
<1>. QED
  BY <1>2, <1>3

LEMMA OnlyBecomes ==
    ASSUME TypeOK, NEW a \in Actors, NEW op, NEW copy, Become(a, op, copy)
    PROVE  /\ act'[a].op = op /\ act'[a].copy = copy /\ act'[a].run = act[a].run
           /\ Only(a)
BY DEF TypeOK, Activity, Become, Only

LEMMA OnlyGoes ==
    ASSUME TypeOK, NEW a \in Actors, NEW op, Go(a, op)
    PROVE  /\ act'[a].op = op /\ act'[a].copy = act[a].copy /\ act'[a].run = act[a].run
           /\ Only(a)
BY DEF TypeOK, Activity, Go, Only

LEMMA OnlyLeaves ==
    ASSUME TypeOK, NEW a \in Actors, Leave(a)
    PROVE  act'[a].op = "idle" /\ Only(a)
BY DEF TypeOK, Leave, Idle, Only

LEMMA AfterFailTaskOp ==
    ASSUME TypeOK, NEW a \in Actors, NEW copy, AfterFailTask(a, copy)
    PROVE  /\ act'[a].op \in {"idle", "failing", "resaving", "deferred"}
           /\ Only(a)
BY OnlyBecomes, OnlyLeaves DEF AfterFailTask, DeferFailed

LEMMA FailTaskHolds ==
    ASSUME LockInv, NEW a \in Actors, FailTask(a)
    PROVE  HolderLocks' /\ RefundHoldsRow'
<1>0. /\ TypeOK /\ None \notin Actors
      /\ {"refused", "failing", "idle", "resaving", "deferred"} \cap Holding = {}
  BY TaskLifecycleAssumptions DEF LockInv, Holding, Actors
<1>1. ASSUME FailTaskSkip(a) \/ FailTaskError(a)
      PROVE  HolderLocks' /\ RefundHoldsRow'
  <2>1. UNCHANGED <<row, rowLock>> /\ act[a].op \notin Holding
    BY <1>0, <1>1 DEF FailTaskSkip, FailTaskError
  <2>2. \E copy : AfterFailTask(a, copy)
    BY <1>1 DEF FailTaskSkip, FailTaskError
  <2>3. /\ act'[a].op \notin Holding
        /\ Only(a)
    BY <1>0, <2>2, AfterFailTaskOp
  <2>. QED
    BY <2>1, <2>3, PlainStep
<1>2. CASE FailTaskRefund(a)
  <2>1. /\ rowLock = None /\ rowLock' = a /\ row' = row /\ row.status \notin Terminal
        /\ Only(a)
        /\ act'[a].copy.charge = row.charge
    <3>1. row \in Rows
      BY <1>0 DEF TypeOK
    <3>2. [row EXCEPT !.refunded = TRUE].charge = row.charge
      BY <3>1 DEF Rows
    <3>3. \E op, copy : Become(a, op, copy) /\ copy.charge = row.charge
      <4>. DEFINE o == IF At(a, "refused") THEN "refusing" ELSE "refunding"
      <4>1. Become(a, o, [row EXCEPT !.refunded = TRUE]) \/ Become(a, o, row)
        BY <1>2 DEF FailTaskRefund
      <4>. HIDE DEF o
      <4>. QED
        BY <3>2, <4>1
    <3>4. Only(a) /\ act'[a].copy.charge = row.charge
      BY <1>0, <3>3, OnlyBecomes
    <3>. QED
      BY <1>2, <3>4 DEF FailTaskRefund
  <2>2. \A b \in Actors : act[b].op \notin Holding
    BY <1>0, <2>1 DEF LockInv, HolderLocks
  <2>. QED
    BY <2>1, <2>2 DEF HolderLocks, RefundHoldsRow, Only
<1>3. ASSUME FailTaskCommit(a) \/ FailTaskRollback(a)
      PROVE  HolderLocks' /\ RefundHoldsRow'
  <2>1. rowLock' = None /\ act[a].op \in Holding
    BY <1>3 DEF FailTaskCommit, FailTaskRollback
  <2>2. \E copy : AfterFailTask(a, copy)
    BY <1>3 DEF FailTaskCommit, FailTaskRollback
  <2>3. /\ act'[a].op \notin Holding
        /\ Only(a)
    BY <1>0, <2>2, AfterFailTaskOp
  <2>4. \A b \in Actors : b # a => act[b].op \notin Holding
    BY <2>1 DEF LockInv, HolderLocks
  <2>5. \A b \in Actors : act'[b].op \notin Holding
    BY <2>3, <2>4 DEF Only
  <2>. QED
    BY <2>5 DEF HolderLocks, RefundHoldsRow
<1>. QED
  BY <1>1, <1>2, <1>3 DEF FailTask

\* The ways an actor outside FailTask's transaction goes on.
LEMMA OnlyMoves ==
    ASSUME TypeOK, NEW a \in Actors, NEW op \in Ops \ Holding, NEW copy,
           Become(a, op, copy) \/ Go(a, op) \/ Leave(a) \/ DeferFailed(a)
           \/ act' = [act EXCEPT ![a] = Idle]
    PROVE  act'[a].op \notin Holding /\ Only(a)
<1>1. CASE Become(a, op, copy) \/ Go(a, op) \/ Leave(a)
  BY <1>1, OnlyBecomes, OnlyGoes, OnlyLeaves DEF Holding
<1>2. CASE DeferFailed(a)
  BY <1>2, OnlyBecomes DEF DeferFailed, Holding
<1>3. CASE act' = [act EXCEPT ![a] = Idle]
  BY <1>3 DEF TypeOK, Idle, Only, Holding
<1>. QED
  BY <1>1, <1>2, <1>3

LEMMA WorkerHolds ==
    ASSUME LockInv, NEW w \in Workers, Worker(w)
    PROVE  HolderLocks' /\ RefundHoldsRow'
<1>0. /\ TypeOK /\ w \in Actors
      /\ Holding = {"refusing", "refunding"}
      /\ {"loaded", "submitting", "uploading", "failing", "refused"} \subseteq Ops \ Holding
  BY DEF LockInv, Actors, Holding, Ops
<1>1. act[w].op \notin Holding /\ UNCHANGED rowLock
  BY <1>0 DEF Worker, Dispatch, WorkerLoad, WorkerMark, WorkerAccepted, WorkerGenerated,
              WorkerDelivers, WorkerFails, WorkerRefused, WorkerRetryable, Resave, At
<1>2. rowLock = None \/ row' = row
  BY DEF Worker, Dispatch, WorkerLoad, WorkerMark, WorkerAccepted, WorkerGenerated,
         WorkerDelivers, WorkerFails, WorkerRefused, WorkerRetryable, Resave, Save,
         SaveDelivering, SaveShared
<1>3. /\ act'[w].op \notin Holding
      /\ Only(w)
  <2>1. CASE Dispatch(w)
    BY <1>0, <2>1 DEF Dispatch, TypeOK, Only
  <2>2. CASE ~Dispatch(w)
    <3>1. \/ Become(w, "loaded", row) \/ Become(w, "submitting", row')
          \/ Go(w, "uploading") \/ Go(w, "failing") \/ Go(w, "refused")
          \/ act' = [act EXCEPT ![w] = Idle]
      BY <2>2 DEF Worker, WorkerLoad, WorkerMark, WorkerAccepted, WorkerGenerated,
                  WorkerDelivers, WorkerFails, WorkerRefused, WorkerRetryable, Resave
    <3>. QED
      BY <1>0, <3>1, OnlyMoves
  <2>. QED
    BY <2>1, <2>2
<1>. QED
  BY <1>0, <1>1, <1>2, <1>3, PlainStep

LEMMA ProgressHolds ==
    ASSUME LockInv, NEW w \in Workers, Progress(w)
    PROVE  HolderLocks' /\ RefundHoldsRow'
<1>1. UNCHANGED <<rowLock, act>> /\ (rowLock = None \/ row' = row)
  BY DEF Progress, ProgressBegin, ProgressSave, SaveDelivering, Save
<1>2. CASE row' = row
  BY <1>1, <1>2 DEF LockInv, HolderLocks, RefundHoldsRow
<1>3. CASE rowLock = None
  <2>1. \A b \in Actors : act[b].op \notin Holding
    BY <1>3, TaskLifecycleAssumptions DEF LockInv, HolderLocks, Actors
  <2>. QED
    BY <1>1, <2>1 DEF HolderLocks, RefundHoldsRow
<1>. QED
  BY <1>1, <1>2, <1>3

LEMMA SyncHolds ==
    ASSUME LockInv, NEW y \in Syncers, Sync(y)
    PROVE  HolderLocks' /\ RefundHoldsRow'
<1>0. /\ TypeOK /\ y \in Actors
      /\ Holding = {"refusing", "refunding"}
  BY DEF LockInv, Actors, Holding
<1>1. act[y].op \notin Holding /\ UNCHANGED rowLock
  BY <1>0 DEF Sync, SyncRead, SyncLock, SyncFails, SyncRefused, SyncOngoing, SyncDone,
              SyncEnded, SyncDelivers, SyncResultFails, At
<1>2. rowLock = None \/ (row'.status = row.status /\ row'.charge = row.charge)
  <2>1. CASE SyncOngoing(y)
    <3>1. [row EXCEPT !.age = @ + 1].status = row.status
          /\ [row EXCEPT !.age = @ + 1].charge = row.charge
      BY <1>0 DEF TypeOK, Rows
    <3>. QED
      BY <2>1, <3>1 DEF SyncOngoing, Save
  <2>2. CASE SyncRead(y) \/ SyncLock(y) \/ SyncFails(y) \/ SyncRefused(y) \/ SyncDone(y)
             \/ SyncEnded(y) \/ SyncDelivers(y) \/ SyncResultFails(y)
    BY <2>2 DEF SyncRead, SyncEnded, SyncLock, SyncFails, SyncRefused, SyncDone, SyncDelivers,
                SyncResultFails, Save, SaveDelivering
  <2>. QED
    BY <2>1, <2>2 DEF Sync
<1>3. /\ act'[y].op \notin Holding
      /\ Only(y)
  <2>1. CASE SyncRead(y)
    BY <1>0, <2>1 DEF SyncRead, TypeOK, Only
  <2>2. CASE SyncLock(y) \/ SyncFails(y) \/ SyncRefused(y) \/ SyncOngoing(y) \/ SyncDone(y)
             \/ SyncEnded(y) \/ SyncDelivers(y) \/ SyncResultFails(y)
    <3>1. Go(y, "polling") \/ Go(y, "failing") \/ Go(y, "refused") \/ Go(y, "processing")
          \/ Leave(y)
      BY <2>2 DEF SyncLock, SyncFails, SyncRefused, SyncOngoing, SyncDone, SyncDelivers,
                  SyncEnded, SyncResultFails
    <3>. QED
      BY <1>0, <3>1, OnlyBecomes, OnlyGoes, OnlyLeaves
  <2>. QED
    BY <2>1, <2>2 DEF Sync
<1>. QED
  BY <1>0, <1>1, <1>2, <1>3, PlainStep

LEMMA ResubmitHolds ==
    ASSUME LockInv, NEW r \in Resubmitters, Resubmit(r)
    PROVE  HolderLocks' /\ RefundHoldsRow'
<1>0. /\ TypeOK /\ r \in Actors
      /\ Holding = {"refusing", "refunding"}
      /\ {"blanked", "reloaded", "resubmitting", "refused", "failing", "deferred"} \subseteq Ops \ Holding
  BY DEF LockInv, Actors, Holding, Ops
<1>1. act[r].op \notin Holding /\ UNCHANGED rowLock
  BY <1>0 DEF Resubmit, ResubmitRead, ResubmitBlank, ResubmitAccepted, ResubmitFails,
              ResubmitLoad, ResubmitMark, ResubmitProcessed, ResubmitRetryable,
              ResubmitRefused, Resave, ResubmitSave, At
<1>2. rowLock = None \/ row' = row
  BY DEF Resubmit, ResubmitRead, ResubmitBlank, ResubmitAccepted, ResubmitFails,
         ResubmitLoad, ResubmitMark, ResubmitProcessed, ResubmitRetryable,
         ResubmitRefused, Resave, ResubmitSave, Save
<1>3. /\ act'[r].op \notin Holding
      /\ Only(r)
  <2>1. CASE ResubmitRead(r)
    BY <1>0, <2>1 DEF ResubmitRead, TypeOK, Only
  <2>2. CASE ~ResubmitRead(r)
    <3>1. \/ Go(r, "blanked") \/ Go(r, "refused") \/ Go(r, "deferred") \/ Go(r, "failing")
          \/ Become(r, "reloaded", row) \/ Become(r, "resubmitting", row')
          \/ Become(r, "deferred", row') \/ Become(r, "deferred", Kept(r))
          \/ DeferFailed(r) \/ Leave(r)
      BY <2>2 DEF Resubmit, ResubmitBlank, ResubmitAccepted, ResubmitFails,
                  ResubmitLoad, ResubmitMark, ResubmitProcessed, ResubmitRetryable,
                  ResubmitRefused, Resave, ResubmitSave
    <3>. QED
      BY <1>0, <3>1, OnlyMoves
  <2>. QED
    BY <2>1, <2>2
<1>. QED
  BY <1>0, <1>1, <1>2, <1>3, PlainStep

LEMMA EnvironmentHolds ==
    ASSUME LockInv, Environment \/ \E a \in Actors : Crash(a)
    PROVE  HolderLocks' /\ RefundHoldsRow'
<1>0. TypeOK /\ None \notin Actors
  BY TaskLifecycleAssumptions DEF LockInv, Actors
<1>1. CASE RetryFailedTask
  <2>1. \A b \in Actors : act[b].op \notin Holding
    BY <1>0, <1>1 DEF RetryFailedTask, LockInv, HolderLocks
  <2>. QED
    BY <1>1, <2>1 DEF RetryFailedTask, HolderLocks, RefundHoldsRow
<1>2. CASE TaskLockExpires \/ GlobalLockExpires \/ RetryLockExpires
  BY <1>2 DEF TaskLockExpires, GlobalLockExpires, RetryLockExpires, LockInv, HolderLocks,
              RefundHoldsRow
<1>3. CASE \E a \in Actors : Crash(a)
  <2>1. PICK a \in Actors : Crash(a)
    BY <1>3
  <2>2. /\ row' = row
        /\ Only(a)
        /\ act'[a].op \notin Holding
        /\ rowLock # a => rowLock' = rowLock
    BY <1>0, <2>1 DEF Crash, TypeOK, Idle, Holding, Only
  <2>3. \A b \in Actors : act'[b].op \in Holding => b # a /\ act'[b] = act[b]
    BY <2>2 DEF Only
  <2>. QED
    BY <2>2, <2>3 DEF LockInv, HolderLocks, RefundHoldsRow
<1>. QED
  BY <1>1, <1>2, <1>3 DEF Environment

LEMMA StepHolds == LockInv /\ [Next]_vars => LockInv'
<1>. SUFFICES ASSUME LockInv, [Next]_vars PROVE LockInv'
  OBVIOUS
<1>1. TypeOK'
  BY StepTypes DEF LockInv
<1>2. CASE UNCHANGED vars
  BY <1>1, <1>2 DEF vars, LockInv, HolderLocks, RefundHoldsRow
<1>3. CASE Next
  <2>1. HolderLocks' /\ RefundHoldsRow'
    BY <1>3, FailTaskHolds, WorkerHolds, ProgressHolds, SyncHolds, ResubmitHolds, EnvironmentHolds DEF Next
  <2>. QED
    BY <1>1, <2>1 DEF LockInv
<1>. QED
  BY <1>2, <1>3

\* Between FailTask's refund and its commit nobody ends or replaces the run it
\* refunded, whatever fails: SELECT ... FOR UPDATE holds everyone else off.
THEOREM FailTaskHoldsRow == Spec => []RefundHoldsRow
<1>1. Init => LockInv
  BY InitTypes DEF Init, LockInv, HolderLocks, RefundHoldsRow, Holding, Idle
<1>2. LockInv => RefundHoldsRow
  BY DEF LockInv
<1>. QED
  BY <1>1, <1>2, StepHolds, PTL DEF Spec
=============================================================================
