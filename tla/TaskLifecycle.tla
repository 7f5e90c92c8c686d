--------------------------- MODULE TaskLifecycle ---------------------------
(***************************************************************************)
(* One picture task from its first charge to its result or its refund: the *)
(* worker goroutine that submits it to a provider, the status sync rounds  *)
(* that poll the provider, the submission retry rounds, FailTask, and the  *)
(* user who restarts a failed task.                                        *)
(*                                                                         *)
(* Everyone works on a copy of the row read earlier and saves all of its   *)
(* columns (UpdateTask).  Only FailTask, RetryFailedTask and the dispatch  *)
(* read the row under its lock.  A server is one actor here: killing       *)
(* several actors at once is killing them one after the other.             *)
(*                                                                         *)
(* One executor, gpt4o_v2, generates inside the worker and lets a second   *)
(* goroutine save the row as AWAITING meanwhile, so that sync rounds and   *)
(* the worker own the task at once; the field "early" says it is the one.  *)
(***************************************************************************)
EXTENDS Naturals, FiniteSets

CONSTANTS Workers,       \* goroutines of executeTaskWorker
          Syncers,       \* servers' provider status sync rounds
          Resubmitters,  \* servers' submission retry rounds
          None,          \* no holder of a lock, no second copy of the row
          MaxCharges,    \* bound: runs of the task the user pays for
          MaxRefunds,    \* bound: refunds of one deduction
          MaxProgress,   \* bound: steps of the progress a poll may report
          MaxAge,        \* polls without a save after which the task times out
          Scenarios      \* what may differ between deployments and days (below)

AllFaults == {"crash", "dberror", "refunderror", "commiterror", "slow", "refuse", "resubmit"}

Actors == Workers \cup Syncers \cup Resubmitters
Charges == 1..MaxCharges

\* crew starts work; faults can happen; everyPoll: the executor saves the row on
\* every poll (kling, minimax); early: it marks the row AWAITING while it still
\* generates (gpt4o_v2); runs bounds the runs of the task.
ScenarioType == [crew : SUBSET Actors, faults : SUBSET AllFaults, everyPoll : BOOLEAN,
                 early : BOOLEAN, runs : Charges]

ASSUME TaskLifecycleAssumptions ==
    /\ Workers \cap Syncers = {} /\ Workers \cap Resubmitters = {}
    /\ Syncers \cap Resubmitters = {}
    /\ None \notin Workers \cup Syncers \cup Resubmitters
    /\ MaxCharges \in Nat \ {0} /\ MaxRefunds \in Nat \ {0} /\ MaxProgress \in Nat /\ MaxAge \in Nat \ {0}
    /\ Scenarios \subseteq ScenarioType

VARIABLES scenario,    \* one of Scenarios, for good
          row,         \* the task's row
          rowLock,     \* who holds the row lock of SELECT ... FOR UPDATE
          act,         \* what each actor is doing, for which run, on which copy
          other,       \* a second copy: of a worker, the progress save its executor
                       \* has begun; of a retry round, its own while Process has one
          globalLock,  \* visionai:provider_sync:provider_status_sync_lock
          taskLock,    \* ...:task_status_sync:<task>
          retryLock,   \* the submission retry lock
          charges,     \* deductions made for the task so far
          refunds,     \* refunds made of each deduction
          delivered    \* history: deductions whose result was saved

Faults == scenario.faults

vars == <<scenario, row, rowLock, act, other, globalLock, taskLock, retryLock, charges, refunds, delivered>>
locks == <<globalLock, taskLock, retryLock>>
money == <<charges, refunds, delivered>>

Terminal == {"FAILED", "COMPLETED"}
Statuses == {"PENDING", "PROCESSING", "RETRY", "AWAITING"} \cup Terminal

\* charge is the deduction CreditDeductionInfo names, 0 when the row is blank;
\* age counts the polls since UpdatedAt.
Rows == [status : Statuses, charge : 0..MaxCharges, refunded : BOOLEAN,
         progress : 0..MaxProgress, age : 0..MaxAge]
BlankRow == [status |-> "PENDING", charge |-> 0, refunded |-> FALSE,
             progress |-> 0, age |-> 0]

Holding == {"refusing", "refunding"}    \* inside FailTask's transaction
Ops == {"idle", "started", "loaded", "submitting", "uploading", "refused", "resaving", "failing",
        "read", "polling", "processing",
        "blanked", "reloaded", "resubmitting", "deferred"} \cup Holding
Activity == [op : Ops, run : 0..MaxCharges, copy : Rows]
Idle == [op |-> "idle", run |-> 0, copy |-> BlankRow]

TypeOK ==
    /\ scenario \in Scenarios
    /\ row \in Rows
    /\ rowLock \in Actors \cup {None}
    /\ act \in [Actors -> Activity]
    /\ other \in [Actors -> Rows \cup {None}]
    /\ globalLock \in Syncers \cup {None}
    /\ taskLock \in Syncers \cup {None}
    /\ retryLock \in Resubmitters \cup {None}
    /\ charges \in Charges
    /\ refunds \in [Charges -> 0..MaxRefunds]
    /\ delivered \subseteq Charges

\* The state SubmitTask leaves behind: charged for, and queued.
Init ==
    /\ scenario \in Scenarios
    /\ row = [BlankRow EXCEPT !.charge = 1]
    /\ rowLock = None
    /\ act = [a \in Actors |-> Idle]
    /\ other = [a \in Actors |-> None]
    /\ globalLock = None /\ taskLock = None /\ retryLock = None
    /\ charges = 1
    /\ refunds = [c \in Charges |-> 0]
    /\ delivered = {}

----------------------------------------------------------------------------
At(a, op) == act[a].op = op
Become(a, op, copy) == act' = [act EXCEPT ![a].op = op, ![a].copy = copy]
Go(a, op) == act' = [act EXCEPT ![a].op = op]

\* Mutant of Save: an UPDATE that does not wait for the row lock.
SaveUnlocked(copy) == row' = [copy EXCEPT !.age = 0]

\* UpdateTask: every column of the copy, with a new UpdatedAt.  MySQL makes it
\* wait for a FailTask that holds the row.
Save(copy) == rowLock = None /\ row' = [copy EXCEPT !.age = 0]

\* The row is saved, and a COMPLETED row shows the user a result.
SaveDelivering(copy) ==
    /\ Save(copy)
    /\ delivered' = delivered \cup {c \in Charges : copy.status = "COMPLETED" /\ c = copy.charge}

\* A sync round ends and releases the global lock if it still owns it; a retry
\* round deletes its lock whoever owns it.
Leave(a) ==
    /\ act' = [act EXCEPT ![a] = Idle]
    /\ globalLock' = IF globalLock = a THEN None ELSE globalLock
    /\ retryLock' = IF a \in Resubmitters THEN None ELSE retryLock

----------------------------------------------------------------------------
\* The copy of the retry round, set aside while Process works on its own.
Kept(r) == IF other[r] = None THEN act[r].copy ELSE other[r]

\* The deferred function of a retry round will save FAILED over the task.
DeferFailed(r) == Become(r, "deferred", [Kept(r) EXCEPT !.status = "FAILED"])

\* FailTask ends.  An executor's failure handler returns to the executor, which
\* returns the error to executeTaskWorker or to the retry round (ComfyUI saves
\* its copy before), or to the sync round (Kling returns no error); otherwise
\* the caller is done.
AfterFailTask(a, copy) ==
    \/ /\ act[a].op \in {"failing", "refunding"}
       /\ Leave(a)
    \/ /\ act[a].op \in {"refused", "refusing"} /\ a \in Syncers
       /\ Leave(a)
    \/ /\ act[a].op \in {"refused", "refusing"}
       /\ \/ a \in Workers \cup Syncers /\ Become(a, "failing", copy)
          \/ a \in Workers \cup Resubmitters /\ Become(a, "resaving", copy)
          \/ a \in Resubmitters /\ DeferFailed(a)
       /\ UNCHANGED <<globalLock, retryLock>>

\* FailTask locks the row, and is done when it is terminal.
FailTaskSkip(a) ==
    /\ act[a].op \in {"refused", "failing"}
    /\ rowLock = None /\ row.status \in Terminal
    /\ AfterFailTask(a, row)
    /\ UNCHANGED <<row, rowLock, taskLock, other, money>>

\* FailTask cannot begin its transaction or read the row.
FailTaskError(a) ==
    /\ "dberror" \in Faults
    /\ act[a].op \in {"refused", "failing"}
    /\ AfterFailTask(a, act[a].copy)
    /\ UNCHANGED <<row, rowLock, taskLock, other, money>>

\* FailTask locks the row and refunds the deduction it names, unless the row is
\* free of charge or refunded; the refund commits in a transaction of its own.
\* A refund that fails does not stop FailTask.
FailTaskRefund(a) ==
    /\ act[a].op \in {"refused", "failing"}
    /\ rowLock = None /\ row.status \notin Terminal
    /\ rowLock' = a
    /\ LET op == IF At(a, "refused") THEN "refusing" ELSE "refunding" IN
         \/ /\ row.charge # 0 /\ ~row.refunded
            /\ refunds[row.charge] < MaxRefunds
            /\ refunds' = [refunds EXCEPT ![row.charge] = @ + 1]
            /\ Become(a, op, [row EXCEPT !.refunded = TRUE])
         \/ /\ row.charge = 0 \/ row.refunded \/ "refunderror" \in Faults
            /\ Become(a, op, row)
            /\ UNCHANGED refunds
    /\ UNCHANGED <<row, other, locks, charges, delivered>>

\* FailTask commits FAILED.
FailTaskCommit(a) ==
    /\ act[a].op \in Holding
    /\ row' = [act[a].copy EXCEPT !.status = "FAILED", !.age = 0]
    /\ rowLock' = None
    /\ AfterFailTask(a, row')
    /\ UNCHANGED <<taskLock, other, money>>

\* The save or the commit of FAILED fails, after the refund committed.
FailTaskRollback(a) ==
    /\ "commiterror" \in Faults
    /\ act[a].op \in Holding
    /\ rowLock' = None
    /\ AfterFailTask(a, row)
    /\ UNCHANGED <<row, taskLock, other, money>>

FailTask(a) == \/ FailTaskSkip(a) \/ FailTaskError(a) \/ FailTaskRefund(a)
               \/ FailTaskCommit(a) \/ FailTaskRollback(a)

----------------------------------------------------------------------------
\* Mutant of Dispatch: the claim does not check that the task is still PENDING.
DispatchAgain(w) ==
    /\ At(w, "idle") /\ w \in scenario.crew /\ row.status \in {"PENDING", "PROCESSING"} /\ row.charge # 0
    /\ Save([row EXCEPT !.status = "PROCESSING"])
    /\ act' = [act EXCEPT ![w] = [op |-> "started", run |-> row.charge, copy |-> row']]
    /\ UNCHANGED <<rowLock, locks, other, money>>

\* TransitionToProcessing and go executeTaskWorker; SlotQuota has its slots.  A
\* w whose progress save still has to arrive stands for that goroutine.
Dispatch(w) ==
    /\ At(w, "idle") /\ w \in scenario.crew /\ other[w] = None /\ row.status = "PENDING"
    /\ Save([row EXCEPT !.status = "PROCESSING"])
    /\ act' = [act EXCEPT ![w] = [op |-> "started", run |-> row.charge, copy |-> row']]
    /\ UNCHANGED <<rowLock, locks, other, money>>

\* Process reads the task and leaves it alone when it is terminal.
WorkerLoad(w) ==
    /\ At(w, "started") /\ act[w].copy.charge # 0
    /\ IF row.status \in Terminal
       THEN act' = [act EXCEPT ![w] = Idle] ELSE Become(w, "loaded", row)
    /\ UNCHANGED <<row, rowLock, locks, other, money>>

\* Process saves PROCESSING and calls the provider.
WorkerMark(w) ==
    /\ At(w, "loaded")
    /\ Save([act[w].copy EXCEPT !.status = "PROCESSING"])
    /\ Become(w, "submitting", row')
    /\ UNCHANGED <<rowLock, locks, other, money>>

\* The provider took the job.
WorkerAccepted(w) ==
    /\ At(w, "submitting") /\ ~scenario.early
    /\ Save([act[w].copy EXCEPT !.status = "AWAITING", !.progress = 0])
    /\ act' = [act EXCEPT ![w] = Idle]
    /\ UNCHANGED <<rowLock, locks, other, money>>

\* gpt4o_v2 generates in the worker, and updateProgress begins to save the row
\* as AWAITING from a goroutine of its own.
ProgressBegin(w) ==
    /\ At(w, "submitting") /\ scenario.early /\ other[w] = None
    /\ other' = [other EXCEPT ![w] = [act[w].copy EXCEPT !.status = "AWAITING"]]
    /\ UNCHANGED <<row, rowLock, act, locks, money>>

\* That save arrives, whatever happened since: cancelling does not wait for it.
ProgressSave(w) ==
    /\ scenario.early /\ other[w] # None
    /\ \/ SaveDelivering(other[w])
       \/ "dberror" \in Faults /\ UNCHANGED <<row, delivered>>
    /\ other' = [other EXCEPT ![w] = None]
    /\ UNCHANGED <<rowLock, act, locks, charges, refunds>>

\* Both goroutines write one struct, unsynchronised: the progress goroutine's
\* AWAITING may still come between what the worker sets and saves, or have come
\* before, and then the progress save carries what the worker has set.
SaveShared(w, copy) ==
    \/ /\ SaveDelivering(copy)
       /\ \/ UNCHANGED other
          \/ other[w] # None /\ other' = [other EXCEPT ![w] = copy]
    \/ /\ other[w] # None /\ other[w].status = "AWAITING"
       /\ SaveDelivering(other[w])
       /\ UNCHANGED other

\* The image is there: the progress goroutine is cancelled, PROCESSING saved.
WorkerGenerated(w) ==
    /\ At(w, "submitting") /\ scenario.early
    /\ SaveShared(w, [act[w].copy EXCEPT !.status = "PROCESSING"])
    /\ Go(w, "uploading")
    /\ UNCHANGED <<rowLock, locks, charges, refunds>>

\* The upload is over: completeTask saves COMPLETED.
WorkerDelivers(w) ==
    /\ At(w, "uploading")
    /\ SaveShared(w, [act[w].copy EXCEPT !.status = "COMPLETED"])
    /\ act' = [act EXCEPT ![w] = Idle]
    /\ UNCHANGED <<rowLock, locks, charges, refunds>>

\* Mutants of WorkerFails: the worker saves FAILED itself, or returns and leaves
\* the task as it is.
WorkerFailsByHand(w) ==
    /\ act[w].op \in {"started", "loaded", "submitting"}
    /\ Save([act[w].copy EXCEPT !.status = "FAILED"])
    /\ act' = [act EXCEPT ![w] = Idle]
    /\ UNCHANGED <<rowLock, locks, other, money>>

WorkerFailsSilently(w) ==
    /\ act[w].op \in {"started", "loaded", "submitting"}
    /\ act' = [act EXCEPT ![w] = Idle]
    /\ UNCHANGED <<row, rowLock, locks, other, money>>

\* A step of executeTaskWorker or of Process returns an error.
WorkerFails(w) ==
    /\ act[w].op \in {"started", "loaded", "submitting", "uploading"}
    /\ Go(w, "failing")
    /\ UNCHANGED <<row, rowLock, locks, other, money>>

\* handleSubmissionError, not retryable: the executor's own FailTask comes first.
WorkerRefused(w) ==
    /\ "refuse" \in Faults
    /\ act[w].op \in {"submitting", "uploading"}
    /\ Go(w, "refused")
    /\ UNCHANGED <<row, rowLock, locks, other, money>>

\* handleSubmissionError, retryable: the retry status is saved and the error
\* is returned all the same, so executeTaskWorker fails the task.
WorkerRetryable(w) ==
    /\ "resubmit" \in Faults
    /\ At(w, "submitting") /\ ~scenario.early
    /\ Save([act[w].copy EXCEPT !.status = "RETRY"])
    /\ Go(w, "failing")
    /\ UNCHANGED <<rowLock, locks, other, money>>

\* ComfyUI saves its copy of the task after its failure handler returned.
Resave(a) ==
    /\ At(a, "resaving")
    /\ Save(act[a].copy) \/ ("dberror" \in Faults /\ UNCHANGED row)
    /\ IF a \in Workers THEN Go(a, "failing") ELSE DeferFailed(a)
    /\ UNCHANGED <<rowLock, locks, other, money>>

Worker(w) == \/ Dispatch(w) \/ WorkerLoad(w) \/ WorkerMark(w) \/ WorkerAccepted(w)
             \/ WorkerGenerated(w) \/ WorkerDelivers(w)
             \/ WorkerFails(w) \/ WorkerRefused(w) \/ WorkerRetryable(w) \/ Resave(w)

Progress(w) == ProgressBegin(w) \/ ProgressSave(w)

----------------------------------------------------------------------------
\* Mutant of SyncRead: every server runs its round, global lock or not.
SyncReadUnlocked(y) ==
    /\ At(y, "idle") /\ y \in scenario.crew /\ row.status = "AWAITING"
    /\ act' = [act EXCEPT ![y] = [op |-> "read", run |-> row.charge, copy |-> row]]
    /\ UNCHANGED <<row, rowLock, locks, other, money>>

\* processTasks takes the global lock and reads the tasks that await a provider.
SyncRead(y) ==
    /\ At(y, "idle") /\ y \in scenario.crew /\ globalLock = None /\ row.status = "AWAITING"
    /\ globalLock' = y
    /\ act' = [act EXCEPT ![y] = [op |-> "read", run |-> row.charge, copy |-> row]]
    /\ UNCHANGED <<row, rowLock, taskLock, retryLock, other, money>>

\* handleSingleTask takes the task's lock, or leaves the task to its holder.
SyncLock(y) ==
    /\ At(y, "read")
    /\ \/ taskLock = None /\ taskLock' = y /\ Go(y, "polling")
          /\ UNCHANGED <<globalLock, retryLock>>
       \/ taskLock # None /\ Leave(y) /\ UNCHANGED taskLock
    /\ UNCHANGED <<row, rowLock, other, money>>

\* The copy waited too long, or the provider reports failure (gpt4o_v2: the row
\* cannot be read again): FailTask is next.
TimedOut(y) == act[y].copy.age = MaxAge
SyncFails(y) ==
    /\ At(y, "polling")
    /\ ~scenario.early \/ TimedOut(y) \/ "dberror" \in Faults
    /\ Go(y, "failing")
    /\ UNCHANGED <<row, rowLock, locks, other, money>>

\* SyncProviderStatus calls the executor's failure handler itself (Kling, MiniMax).
SyncRefused(y) ==
    /\ "refuse" \in Faults
    /\ At(y, "polling") /\ ~TimedOut(y) /\ ~scenario.early
    /\ Go(y, "refused")
    /\ UNCHANGED <<row, rowLock, locks, other, money>>

\* Mutant of SyncOngoing: the progress shown has no ceiling.
SyncOngoingUncapped(y) ==
    /\ At(y, "polling") /\ ~TimedOut(y)
    /\ Save([act[y].copy EXCEPT !.progress = @ + 1])
    /\ taskLock' = IF taskLock = y THEN None ELSE taskLock
    /\ Leave(y)
    /\ UNCHANGED <<rowLock, other, money>>

\* The provider is not done, or its answer is an error to be tried again: the
\* copy is saved with its new progress, as it is, or not at all (gpt4o_v2 reads
\* the row again and saves nothing).  The task's lock is released.
SyncOngoing(y) ==
    /\ At(y, "polling") /\ ~TimedOut(y)
    /\ LET copy == act[y].copy IN
         \/ ~scenario.early /\ copy.progress < MaxProgress /\ Save([copy EXCEPT !.progress = @ + 1])
         \/ ~scenario.early /\ scenario.everyPoll /\ Save(copy)
         \/ /\ \/ ~scenario.early /\ (~scenario.everyPoll \/ "dberror" \in Faults)
               \/ scenario.early /\ row.status \notin Terminal
            /\ row' = IF row.age < MaxAge THEN [row EXCEPT !.age = @ + 1] ELSE row
    /\ taskLock' = IF taskLock = y THEN None ELSE taskLock
    /\ Leave(y)
    /\ UNCHANGED <<rowLock, other, money>>

\* gpt4o_v2 finds the task ended: there is nothing to save, and the task's lock
\* is left to expire.
SyncEnded(y) ==
    /\ At(y, "polling") /\ ~TimedOut(y) /\ scenario.early /\ row.status \in Terminal
    /\ Leave(y)
    /\ UNCHANGED <<row, rowLock, taskLock, other, money>>

\* The provider is done: ProcessSuccessfulResult saves the copy (ProgressDownloading).
SyncDone(y) ==
    /\ At(y, "polling") /\ ~TimedOut(y) /\ ~scenario.early
    /\ Save(act[y].copy) \/ ("dberror" \in Faults /\ UNCHANGED row)
    /\ Go(y, "processing")
    /\ UNCHANGED <<rowLock, locks, other, money>>

\* ProcessSuccessfulResult saves COMPLETED; the task's lock is left to expire.
SyncDelivers(y) ==
    /\ At(y, "processing")
    /\ SaveDelivering([act[y].copy EXCEPT !.status = "COMPLETED"])
    /\ Leave(y)
    /\ UNCHANGED <<rowLock, other, taskLock, charges, refunds>>

\* Download, upload or the last save fails.
SyncResultFails(y) ==
    /\ At(y, "processing")
    /\ Go(y, "failing")
    /\ UNCHANGED <<row, rowLock, locks, other, money>>

Sync(y) == \/ SyncRead(y) \/ SyncLock(y) \/ SyncFails(y) \/ SyncRefused(y)
           \/ SyncOngoing(y) \/ SyncEnded(y) \/ SyncDone(y) \/ SyncDelivers(y)
           \/ SyncResultFails(y)

----------------------------------------------------------------------------
\* The retry round takes its lock and reads the tasks to submit again.
ResubmitRead(r) ==
    /\ At(r, "idle") /\ r \in scenario.crew /\ retryLock = None /\ row.status = "RETRY"
    /\ retryLock' = r
    /\ act' = [act EXCEPT ![r] = [op |-> "read", run |-> row.charge, copy |-> row]]
    /\ UNCHANGED <<row, rowLock, globalLock, taskLock, other, money>>

\* The retry count is "incremented" by saving a task with no other column set;
\* an error of that save is only logged.
ResubmitBlank(r) ==
    /\ At(r, "read")
    /\ Save(BlankRow) \/ ("dberror" \in Faults /\ UNCHANGED row)
    /\ Go(r, "blanked")
    /\ UNCHANGED <<rowLock, locks, other, money>>

\* RetrySubmission of Kling and MiniMax submits and saves the round's copy, as
\* the deferred function will once more.
ResubmitAccepted(r) ==
    /\ At(r, "blanked")
    /\ Save([act[r].copy EXCEPT !.status = "AWAITING", !.progress = 0])
    /\ Become(r, "deferred", row')
    /\ UNCHANGED <<rowLock, locks, other, money>>

\* It returns an error: the deferred function makes the task FAILED.
ResubmitFails(r) ==
    /\ act[r].op \in {"blanked", "reloaded", "resubmitting"}
    /\ DeferFailed(r)
    /\ UNCHANGED <<row, rowLock, locks, other, money>>

\* RetrySubmission of every other executor runs Process again, on a copy of its
\* own of whatever the row now is; an ended task is no error.
ResubmitLoad(r) ==
    /\ At(r, "blanked")
    /\ IF row.status \in Terminal
       THEN Go(r, "deferred") /\ UNCHANGED other
       ELSE Become(r, "reloaded", row) /\ other' = [other EXCEPT ![r] = act[r].copy]
    /\ UNCHANGED <<row, rowLock, locks, money>>

\* Process saves PROCESSING and calls the provider.
ResubmitMark(r) ==
    /\ At(r, "reloaded")
    /\ Save([act[r].copy EXCEPT !.status = "PROCESSING"])
    /\ Become(r, "resubmitting", row')
    /\ UNCHANGED <<rowLock, locks, other, money>>

\* Process saves AWAITING; the deferred function will save the round's copy,
\* which still says RETRY, over it.
ResubmitProcessed(r) ==
    /\ At(r, "resubmitting")
    /\ Save([act[r].copy EXCEPT !.status = "AWAITING", !.progress = 0])
    /\ Become(r, "deferred", Kept(r))
    /\ UNCHANGED <<rowLock, locks, other, money>>

\* Process fails: a retryable error saves RETRY once more, any other calls the
\* failure handler.
ResubmitRetryable(r) ==
    /\ At(r, "resubmitting")
    /\ Save([act[r].copy EXCEPT !.status = "RETRY"])
    /\ DeferFailed(r)
    /\ UNCHANGED <<rowLock, locks, other, money>>

ResubmitRefused(r) ==
    /\ "refuse" \in Faults
    /\ At(r, "resubmitting")
    /\ Go(r, "refused")
    /\ UNCHANGED <<row, rowLock, locks, other, money>>

\* The deferred function saves the task, unless the round's context is over or
\* the save fails.
ResubmitSave(r) ==
    /\ At(r, "deferred")
    /\ Save(act[r].copy) \/ (Faults \cap {"slow", "dberror"} # {} /\ UNCHANGED row)
    /\ Leave(r)
    /\ other' = [other EXCEPT ![r] = None]
    /\ UNCHANGED <<rowLock, taskLock, money>>

Resubmit(r) == \/ ResubmitRead(r) \/ ResubmitBlank(r) \/ ResubmitAccepted(r) \/ ResubmitFails(r)
               \/ ResubmitLoad(r) \/ ResubmitMark(r) \/ ResubmitProcessed(r)
               \/ ResubmitRetryable(r) \/ ResubmitRefused(r) \/ Resave(r) \/ ResubmitSave(r)

----------------------------------------------------------------------------
\* Mutant of RetryFailedTask: any task can be restarted, not only a failed one.
RetryAnyTask ==
    /\ rowLock = None /\ row.charge # 0
    /\ charges < scenario.runs
    /\ charges' = charges + 1
    /\ row' = [BlankRow EXCEPT !.charge = charges + 1]
    /\ UNCHANGED <<rowLock, act, other, locks, refunds, delivered>>

\* Mutant of RetryFailedTask: the receipt of the first run stays in the row.
RetryKeepsReceipt ==
    /\ rowLock = None /\ row.status = "FAILED" /\ row.charge # 0
    /\ charges < scenario.runs
    /\ charges' = charges + 1
    /\ row' = [BlankRow EXCEPT !.charge = row.charge]
    /\ UNCHANGED <<rowLock, act, other, locks, refunds, delivered>>

\* The user restarts a failed task and pays again.  A blank row has can_retry
\* false.
RetryFailedTask ==
    /\ rowLock = None /\ row.status = "FAILED" /\ row.charge # 0
    /\ charges < scenario.runs
    /\ charges' = charges + 1
    /\ row' = [BlankRow EXCEPT !.charge = charges + 1]
    /\ UNCHANGED <<rowLock, act, other, locks, refunds, delivered>>

\* TTLs.  The task's lock outlives nothing; the lock of a round is renewed until
\* the round's context ends, which a slow handler outlasts.
TaskLockExpires ==
    /\ taskLock # None
    /\ taskLock' = None
    /\ UNCHANGED <<row, rowLock, act, globalLock, retryLock, other, money>>

GlobalLockExpires ==
    /\ globalLock # None
    /\ "slow" \in Faults \/ At(globalLock, "idle")
    /\ globalLock' = None
    /\ UNCHANGED <<row, rowLock, act, taskLock, retryLock, other, money>>

RetryLockExpires ==
    /\ retryLock # None
    /\ "slow" \in Faults \/ At(retryLock, "idle")
    /\ retryLock' = None
    /\ UNCHANGED <<row, rowLock, act, globalLock, taskLock, other, money>>

\* A server stops in the middle of what it does; MySQL drops its row lock.
Crash(a) ==
    /\ "crash" \in Faults
    /\ ~At(a, "idle") \/ other[a] # None
    /\ act' = [act EXCEPT ![a] = Idle]
    /\ other' = [other EXCEPT ![a] = None]
    /\ rowLock' = IF rowLock = a THEN None ELSE rowLock
    /\ UNCHANGED <<row, locks, money>>

Environment == RetryFailedTask \/ TaskLockExpires \/ GlobalLockExpires \/ RetryLockExpires

Next ==
    /\ \/ \E a \in Actors : FailTask(a) \/ Crash(a)
       \/ \E w \in Workers : Worker(w) \/ Progress(w)
       \/ \E y \in Syncers : Sync(y)
       \/ \E r \in Resubmitters : Resubmit(r)
       \/ Environment
    /\ UNCHANGED scenario

Spec == Init /\ [][Next]_vars

\* Schedulers and tickers keep running, a goroutine that can go on does, and a
\* TTL runs out.  What a provider answers, and when, is its own choice.
Fairness ==
    /\ WF_vars(UNCHANGED scenario /\ \E w \in Workers : Dispatch(w))
    /\ WF_vars(UNCHANGED scenario /\ \E y \in Syncers : SyncRead(y))
    /\ \A w \in Workers :
         WF_vars(UNCHANGED scenario /\ (FailTask(w) \/ (Worker(w) /\ ~At(w, "idle"))))
    /\ \A y \in Syncers :
         WF_vars(UNCHANGED scenario /\ (FailTask(y) \/ (Sync(y) /\ ~At(y, "idle"))))
    /\ WF_vars(UNCHANGED scenario /\ TaskLockExpires)

FairSpec == Spec /\ Fairness

----------------------------------------------------------------------------
\* Nothing but the database and the refunds can fail: no server stops, no round
\* outlives its locks, no executor calls FailTask or is retried on its own.
Steady == Faults \subseteq {"dberror", "refunderror"}

\* Moreover the executor is not gpt4o_v2, whose worker still owns the row when a
\* sync round does.
Calm == Steady /\ ~scenario.early

\* Nothing fails, and a poll without news does not save the row.
Quiet == Faults = {} /\ ~scenario.everyPoll /\ ~scenario.early

\* The row names the user's latest deduction, the receipt any refund of the task
\* is made by (CreditDeductionInfo).
ReceiptKept == row.charge = charges

\* Safety: while calm no save loses that receipt or brings back an earlier one,
\* though each save writes all columns of an earlier copy.
CalmKeepsReceipt == Calm => ReceiptKept

\* What the user pays for: TaskPayment, read off the same variables in a calm
\* scenario (and nothing in the others).
Payment == INSTANCE TaskPayment WITH
    charges   <- IF Calm THEN charges ELSE 1,
    refunds   <- IF Calm THEN refunds ELSE [c \in Charges |-> 0],
    delivered <- IF Calm THEN delivered ELSE {}
\* Safety: each deduction is refunded at most once, never for a run that was
\* delivered, delivered at most once, and no deduction follows a delivery.
PaysOnce == Payment!Spec

\* Safety: while calm, unless a refund itself can fail, a FAILED task has every
\* deduction it ever made refunded (FailTask refunds before it commits FAILED,
\* and nothing else may make a task FAILED).
FailedIsRefunded ==
    Calm /\ "refunderror" \notin Faults /\ row.status = "FAILED" =>
        \A c \in 1..charges : refunds[c] > 0

\* Safety, whatever fails: between FailTask's refund and its FAILED nobody ends
\* or replaces the run whose deduction it refunded.
RefundHoldsRow ==
    \A a \in Actors : act[a].op \in Holding =>
        row.status \notin Terminal /\ row.charge = act[a].copy.charge

\* Safety: while calm a worker or a sync round only fails the run it was started
\* for, not the one the user started after it.
FailsOwnRun ==
    Calm => \A a \in Workers \cup Syncers : act[a].op \in Holding => act[a].run = row.charge

\* Safety: while steady, for every executor, at most one sync round at a time
\* handles the task's end (download, upload, refund), as the locks of the
\* processor are there to ensure.
NoReentry ==
    Steady => Cardinality({y \in Syncers :
                act[y].op \in {"processing", "refused", "failing"} \cup Holding}) <= 1

\* Action property: while calm a task that ended is only brought back by the
\* user, who pays for it; no save of an old copy revives it or changes how it
\* ended.
EndIsFinal ==
    [][Calm /\ row.status \in Terminal /\ row'.status # row.status => charges' = charges + 1]_vars

\* Liveness: on a quiet day a task that was paid for ends.
TaskEnds == Quiet /\ row.status \notin Terminal ~> row.status \in Terminal
=============================================================================
