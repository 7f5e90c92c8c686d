----------------------------- MODULE SlotQuota -----------------------------
(***************************************************************************)
(* Flow control of one user's tasks: the Redis slots that bound how many   *)
(* tasks are queued and how many run (TaskQuotaChecker, TaskStateManager,  *)
(* SubmitTaskWithTx, the terminated hook), the degrade mode entered when   *)
(* Redis fails, and the reconcilers that release slots left behind.  The   *)
(* two tasks of a chain enter beside the queue (SubmitPictureTaskChain).   *)
(*                                                                         *)
(* Every Redis key belongs to one user, so one user is modelled.  A Lua    *)
(* script is atomic; everything between two calls to Redis or MySQL is a   *)
(* point where another goroutine or another server may act.  `calls' is    *)
(* the set of handlers that stand between two such points.                 *)
(***************************************************************************)
EXTENDS Integers, FiniteSets

CONSTANTS Tasks,             \* task ids the user's submissions generate
          Servers,           \* server processes sharing Redis and MySQL
          QueueLimits,       \* max_queue_size of the memberships a user may have
          ConcurrentLimits,  \* max_concurrent of those memberships
          MaxRetry,          \* bound: RetryFailedTask calls per task
          Faults             \* which of AllFaults can happen in this instance

\* What an instance may contain besides submissions, dispatch and execution.
\* "straggler": a handler of a run, or a hook of a chain, acts on the row after
\* that run has ended and thereby changes it (below, Stragglers).
AllFaults == {"outage", "longoutage", "crash", "expiry", "reconcile",
              "dbtimeout", "delete", "straggler"}

Quotas == {"queue", "concurrent"}
Limits(q) == IF q = "queue" THEN QueueLimits ELSE ConcurrentLimits

ASSUME SlotQuotaAssumptions ==
    /\ IsFiniteSet(Tasks)
    /\ QueueLimits \subseteq Nat \ {0} /\ QueueLimits # {}
    /\ ConcurrentLimits \subseteq Nat \ {0} /\ ConcurrentLimits # {}
    /\ MaxRetry \in Nat
    /\ Faults \subseteq AllFaults

VARIABLES status,    \* committed status of the task's row; "none": no row
          used,      \* task ids already generated by GenerateTaskID
          chained,   \* those among them that are tasks of a chain
          retries,   \* how often RetryFailedTask restarted the task
          count,     \* Redis counter of each quota (0: key absent)
          members,   \* Redis set <key>:tasks of each quota
          redisUp,   \* whether Redis answers
          degrade,   \* degradeMode of each server
          health,    \* the health-check goroutine of each server
          calls      \* handlers in flight

vars == <<status, used, chained, retries, count, members, redisUp, degrade, health, calls>>
redis == <<count, members>>
mode == <<degrade, health>>

Running == {"PROCESSING", "AWAITING"}
QueueActive == {"PENDING", "PROCESSING", "RETRY", "AWAITING"}
Terminal == {"COMPLETED", "FAILED"}
\* PENDING_CHAIN is "CHAIN": no quota counts it.
Statuses == {"none", "CHAIN"} \cup QueueActive \cup Terminal

Ops == {"verified", "overfull", "locked", "commit", "hookConcurrent", "hookQueue",
        "reconQueue", "reconConcurrent", "straggler"}
Calls == [op: Ops, task: Tasks, srv: Servers, run: 0..MaxRetry]

Call(o, t, s) == [op |-> o, task |-> t, srv |-> s, run |-> retries[t]]
ReconOp(q) == IF q = "queue" THEN "reconQueue" ELSE "reconConcurrent"

TypeOK ==
    /\ status \in [Tasks -> Statuses]
    /\ used \subseteq Tasks
    /\ chained \subseteq Tasks
    /\ retries \in [Tasks -> 0..MaxRetry]
    /\ count \in [Quotas -> Nat]
    /\ members \in [Quotas -> SUBSET Tasks]
    /\ redisUp \in BOOLEAN
    /\ degrade \in [Servers -> BOOLEAN]
    /\ health \in [Servers -> {"idle", "running", "leaving"}]
    /\ calls \subseteq Calls

Init ==
    /\ status = [t \in Tasks |-> "none"]
    /\ used = {}
    /\ chained = {}
    /\ retries = [t \in Tasks |-> 0]
    /\ count = [q \in Quotas |-> 0]
    /\ members = [q \in Quotas |-> {}]
    /\ redisUp = TRUE
    /\ degrade = [s \in Servers |-> FALSE]
    /\ health = [s \in Servers |-> "idle"]
    /\ calls = {}

----------------------------------------------------------------------------
(* The two Lua scripts.                                                    *)

\* LuaCheckAndReserveScript on success: INCR always, SADD of a set element.
LuaReserve(q, t) ==
    /\ count' = [count EXCEPT ![q] = @ + 1]
    /\ members' = [members EXCEPT ![q] = @ \cup {t}]

\* Mutant: the DECR is not guarded, neither by SISMEMBER nor by `current > 0'.
LuaReleaseUnguarded(q, t) ==
    /\ members' = [members EXCEPT ![q] = @ \ {t}]
    /\ count' = [count EXCEPT ![q] = @ - 1]

\* LuaReleaseSlotScript: only a member is released, the counter never below 0.
LuaRelease(q, t) ==
    IF t \in members[q]
    THEN /\ members' = [members EXCEPT ![q] = @ \ {t}]
         /\ count' = [count EXCEPT ![q] = IF @ > 0 THEN @ - 1 ELSE @]
    ELSE UNCHANGED redis

\* ReleaseSlot: skipped in degrade mode, and an error of Redis is only logged.
ReleaseSlot(s, q, t) ==
    IF degrade[s] \/ ~redisUp THEN UNCHANGED redis ELSE LuaRelease(q, t)

\* checkWithDB counts rows of the user: active ones, or those in PROCESSING.
CountTasks(S) == Cardinality({t \in Tasks : status[t] \in S})
DBCount(q) == CountTasks(IF q = "queue" THEN QueueActive ELSE {"PROCESSING"})

\* handleRedisError: enter degrade mode; start the health check unless its
\* flag is still set.
HandleRedisError(s) ==
    /\ degrade' = [degrade EXCEPT ![s] = TRUE]
    /\ health' = [health EXCEPT ![s] = IF @ = "idle" THEN "running" ELSE @]

\* Mutant: the script compares with > instead of >=.
CheckAndReserveOneMore(s, q, t, max, granted, refused, failed) ==
    \/ /\ ~degrade[s] /\ redisUp /\ count[q] <= max
       /\ LuaReserve(q, t)
       /\ calls' = granted
       /\ UNCHANGED mode
    \/ /\ ~degrade[s] /\ redisUp /\ count[q] > max
       /\ calls' = refused
       /\ UNCHANGED <<redis, mode>>

\* CheckAndReserveSlot.  The caller's calls become `granted', `refused' or,
\* when Redis fails with an error isRedisError does not know, `failed'.
CheckAndReserveSlot(s, q, t, max, granted, refused, failed) ==
    \/ /\ ~degrade[s] /\ redisUp /\ count[q] < max
       /\ LuaReserve(q, t)
       /\ calls' = granted
       /\ UNCHANGED mode
    \/ /\ ~degrade[s] /\ redisUp /\ count[q] >= max
       /\ calls' = refused
       /\ UNCHANGED <<redis, mode>>
    \/ /\ ~degrade[s] /\ ~redisUp
       /\ HandleRedisError(s)
       /\ calls' = IF DBCount(q) >= max THEN refused ELSE granted
       /\ UNCHANGED redis
    \/ /\ ~degrade[s] /\ ~redisUp
       /\ calls' = failed
       /\ UNCHANGED <<redis, mode>>
    \/ /\ degrade[s]
       /\ calls' = IF DBCount(q) >= max THEN refused ELSE granted
       /\ UNCHANGED <<redis, mode>>

----------------------------------------------------------------------------
(* Submission: checkActiveTasks, then the row, in the caller's transaction. *)

\* checkActiveTasks.  reserveQueueSlot rejects only on "queue full": any other
\* error is swallowed.  verifyQueueSizeWithDB then counts the rows in the
\* caller's transaction, whose snapshot the preceding deduction took, so the
\* verdict is that of the state before the reservation.
SubmitReserve(s, t, max) ==
    /\ t \notin used
    /\ used' = used \cup {t}
    /\ LET verdict == IF DBCount("queue") < max THEN "verified" ELSE "overfull"
           next == calls \cup {Call(verdict, t, s)}
       IN  CheckAndReserveSlot(s, "queue", t, max, next, calls, next)
    /\ UNCHANGED <<status, chained, retries, redisUp>>

\* verifyQueueSizeWithDB: over the limit, or the count failed: give it back.
SubmitReject(s, t) ==
    /\ \E op \in {"overfull"} \cup (IF "dbtimeout" \in Faults THEN {"verified"} ELSE {}) :
         /\ Call(op, t, s) \in calls
         /\ calls' = calls \ {Call(op, t, s)}
    /\ ReleaseSlot(s, "queue", t)
    /\ UNCHANGED <<status, used, chained, retries, redisUp, mode>>

\* The row is inserted as PENDING and the caller's transaction commits.
SubmitPersist(s, t) ==
    /\ Call("verified", t, s) \in calls
    /\ status' = [status EXCEPT ![t] = "PENDING"]
    /\ calls' = calls \ {Call("verified", t, s)}
    /\ UNCHANGED <<used, chained, retries, redis, redisUp, mode>>

\* A later step of SubmitTaskWithTx fails.  The deferred release looks at the
\* outer err, which stays nil where a nested err shadows it or errors.New is
\* returned, and when the caller's transaction fails to commit.
SubmitAbort(s, t) ==
    /\ Call("verified", t, s) \in calls
    /\ calls' = calls \ {Call("verified", t, s)}
    /\ \/ ReleaseSlot(s, "queue", t)
       \/ UNCHANGED redis
    /\ UNCHANGED <<status, used, chained, retries, redisUp, mode>>

----------------------------------------------------------------------------
(* Dispatch: TransitionToProcessing.  Its Redis lock needs Redis; the row  *)
(* lock (FOR UPDATE) is held from "locked" to the end of the transaction.  *)

RowFree(t) == \A c \in calls : c.task = t => c.op \notin {"locked", "commit"}

DispatchLock(s, t) ==
    /\ redisUp
    /\ status[t] = "PENDING"
    /\ RowFree(t)
    /\ calls' = calls \cup {Call("locked", t, s)}
    /\ UNCHANGED <<status, used, chained, retries, redis, redisUp, mode>>

DispatchReserve(s, t, max) ==
    /\ Call("locked", t, s) \in calls
    /\ LET idle == calls \ {Call("locked", t, s)} IN
         CheckAndReserveSlot(s, "concurrent", t, max,
                             idle \cup {Call("commit", t, s)}, idle, idle)
    /\ UNCHANGED <<status, used, chained, retries, redisUp>>

\* Mutant: a dispatched task gives its queue slot back.
DispatchCommitLeavesQueue(s, t) ==
    /\ Call("commit", t, s) \in calls
    /\ status' = [status EXCEPT ![t] = "PROCESSING"]
    /\ calls' = calls \ {Call("commit", t, s)}
    /\ ReleaseSlot(s, "queue", t)
    /\ UNCHANGED <<used, chained, retries, redisUp, mode>>

DispatchCommit(s, t) ==
    /\ Call("commit", t, s) \in calls
    /\ status' = [status EXCEPT ![t] = "PROCESSING"]
    /\ calls' = calls \ {Call("commit", t, s)}
    /\ UNCHANGED <<used, chained, retries, redis, redisUp, mode>>

\* Save or Commit failed: roll back and give the slot back.
DispatchAbort(s, t) ==
    /\ Call("commit", t, s) \in calls
    /\ calls' = calls \ {Call("commit", t, s)}
    /\ ReleaseSlot(s, "concurrent", t)
    /\ UNCHANGED <<status, used, chained, retries, redisUp, mode>>

----------------------------------------------------------------------------
(* The task's life after dispatch, as far as slots depend on it.           *)

\* Process: submitted to the provider, or parked for a submission retry.
Advance(t, to) ==
    /\ \/ status[t] = "PROCESSING" /\ to \in {"AWAITING", "RETRY"}
       \/ status[t] = "RETRY" /\ to = "AWAITING"
    /\ status' = [status EXCEPT ![t] = to]
    /\ UNCHANGED <<used, chained, retries, redis, redisUp, mode, calls>>

\* Whoever still handles a run when it ends: an executor whose failure handler
\* calls FailTask before executeTaskWorker calls it again, or a goroutine that has
\* yet to save an old copy of the row.  Without the fault it acts before the user
\* restarts the task and changes nothing: FailTask leaves an ended row alone.
\* Bound: one straggler of a task at a time.
Stragglers(s, t) ==
    IF "straggler" \in Faults /\ \A c \in calls : c.op = "straggler" => c.task # t
    THEN {Call("straggler", t, s)} ELSE {}

\* A terminal status is committed first; the hook releases the slots after it.
Terminate(s, t, to) ==
    /\ \/ status[t] \in Running /\ to \in Terminal
       \/ status[t] = "RETRY" /\ to = "FAILED"
    /\ status' = [status EXCEPT ![t] = to]
    /\ calls' = calls \cup {Call("hookConcurrent", t, s)} \cup Stragglers(s, t)
    /\ UNCHANGED <<used, chained, retries, redis, redisUp, mode>>

\* FailTask fails the row in whatever open state, PENDING too, it finds it.
StragglerFails(c) ==
    /\ c.op = "straggler" /\ RowFree(c.task)
    /\ status[c.task] \notin {"none"} \cup Terminal
    /\ status' = [status EXCEPT ![c.task] = "FAILED"]
    /\ calls' = (calls \ {c}) \cup {Call("hookConcurrent", c.task, c.srv)}
    /\ UNCHANGED <<used, chained, retries, redis, redisUp, mode>>

\* UpdateTask saves every column of an old copy over the row.
StragglerSaves(c, to) ==
    /\ c.op = "straggler" /\ RowFree(c.task)
    /\ status[c.task] # "none"
    /\ status' = [status EXCEPT ![c.task] = to]
    /\ calls' = (calls \ {c}) \cup
                  IF to = "COMPLETED" THEN {Call("hookConcurrent", c.task, c.srv)} ELSE {}
    /\ UNCHANGED <<used, chained, retries, redis, redisUp, mode>>

HookReleaseConcurrent(c) ==
    /\ c.op = "hookConcurrent"
    /\ ReleaseSlot(c.srv, "concurrent", c.task)
    /\ calls' = (calls \ {c}) \cup {[c EXCEPT !.op = "hookQueue"]}
    /\ UNCHANGED <<status, used, chained, retries, redisUp, mode>>

HookReleaseQueue(c) ==
    /\ c.op = "hookQueue"
    /\ ReleaseSlot(c.srv, "queue", c.task)
    /\ calls' = calls \ {c}
    /\ UNCHANGED <<status, used, chained, retries, redisUp, mode>>

\* Mutant: a restarted task reserves a queue slot although it may still hold one.
RetryReservesAgain(t) ==
    /\ status[t] = "FAILED"
    /\ retries[t] < MaxRetry
    /\ \E max \in QueueLimits : count["queue"] < max
    /\ LuaReserve("queue", t)
    /\ status' = [status EXCEPT ![t] = "PENDING"]
    /\ retries' = [retries EXCEPT ![t] = @ + 1]
    /\ UNCHANGED <<used, chained, redisUp, mode, calls>>

\* RetryFailedTask puts the row back to PENDING; it reserves no queue slot.
RetryFailedTask(t) ==
    /\ status[t] = "FAILED"
    /\ retries[t] < MaxRetry
    /\ status' = [status EXCEPT ![t] = "PENDING"]
    /\ retries' = [retries EXCEPT ![t] = @ + 1]
    /\ UNCHANGED <<used, chained, redis, redisUp, mode, calls>>

\* DeletePicture soft-deletes a row in whatever state it is (it waits for a row
\* lock); later updates of the task find no row, so no hook runs for it.
DeletePicture(t) ==
    /\ "delete" \in Faults
    /\ status[t] # "none"
    /\ RowFree(t)
    /\ status' = [status EXCEPT ![t] = "none"]
    /\ UNCHANGED <<used, chained, retries, redis, redisUp, mode, calls>>

----------------------------------------------------------------------------
(* Task chains (TaskChain), as far as they move rows.                      *)

\* SubmitPictureTaskChain inserts both rows with no queue check and no slot.
SubmitChain(image, video) ==
    /\ image # video /\ {image, video} \cap used = {}
    /\ used' = used \cup {image, video}
    /\ chained' = chained \cup {image, video}
    /\ status' = [status EXCEPT ![image] = "PENDING", ![video] = "CHAIN"]
    /\ UNCHANGED <<retries, redis, redisUp, mode, calls>>

\* ActivateNextTask queues the video task; late, it saves an old copy of it.
ActivateNextTask(t) ==
    /\ t \in chained /\ RowFree(t)
    /\ status[t] = "CHAIN" \/ ("straggler" \in Faults /\ status[t] # "none")
    /\ status' = [status EXCEPT ![t] = "PENDING"]
    /\ UNCHANGED <<used, chained, retries, redis, redisUp, mode, calls>>

\* The handler of a chain's failure saves FAILED over its tasks, and no hook runs
\* (notifyChainFailure); the task may be running.
ChainFails(s, t) ==
    /\ t \in chained /\ RowFree(t)
    /\ status[t] \notin {"none", "FAILED"}
    /\ status' = [status EXCEPT ![t] = "FAILED"]
    /\ calls' = IF status[t] \in {"RETRY"} \cup Running THEN calls \cup Stragglers(s, t) ELSE calls
    /\ UNCHANGED <<used, chained, retries, redis, redisUp, mode>>

----------------------------------------------------------------------------
(* Reconcilers: processOne reads the row, then releases the slot.          *)

IsActive(q, st) == st \in (IF q = "queue" THEN QueueActive ELSE Running)

\* Mutant: a row that is missing does not condemn the slot.
ReconcileReadKeepsMissing(s, q, t) ==
    /\ "reconcile" \in Faults
    /\ ~degrade[s] /\ redisUp
    /\ t \in members[q]
    /\ \A c \in calls : c.op = ReconOp(q) => c.srv = s
    /\ status[t] # "none" /\ (~IsActive(q, status[t]) \/ status[t] = "AWAITING")
    /\ calls' = calls \cup {Call(ReconOp(q), t, s)}
    /\ UNCHANGED <<status, used, chained, retries, redis, redisUp, mode>>

\* A row that is missing (or whose read failed), inactive, or AWAITING for too
\* long condemns the slot.  One server at a time reconciles a quota.
ReconcileRead(s, q, t) ==
    /\ "reconcile" \in Faults
    /\ ~degrade[s] /\ redisUp
    /\ t \in members[q]
    /\ \A c \in calls : c.op = ReconOp(q) => c.srv = s
    /\ \/ ~IsActive(q, status[t])
       \/ status[t] = "AWAITING"
       \/ "dbtimeout" \in Faults
    /\ calls' = calls \cup {Call(ReconOp(q), t, s)}
    /\ UNCHANGED <<status, used, chained, retries, redis, redisUp, mode>>

ReconcileRelease(c, q) ==
    /\ c.op = ReconOp(q)
    /\ ReleaseSlot(c.srv, q, c.task)
    /\ calls' = calls \ {c}
    /\ UNCHANGED <<status, used, chained, retries, redisUp, mode>>

----------------------------------------------------------------------------
(* Redis, the health check and the server processes.                       *)

\* EXPIRE: no successful reservation refreshed the two keys for a whole TTL.
KeysExpire(q) ==
    /\ "expiry" \in Faults
    /\ count[q] > 0
    /\ count' = [count EXCEPT ![q] = 0]
    /\ members' = [members EXCEPT ![q] = {}]
    /\ UNCHANGED <<status, used, chained, retries, redisUp, mode, calls>>

RedisFails ==
    /\ "outage" \in Faults
    /\ redisUp
    /\ redisUp' = FALSE
    /\ UNCHANGED <<status, used, chained, retries, redis, mode, calls>>

RedisReturns ==
    /\ ~redisUp
    /\ redisUp' = TRUE
    /\ UNCHANGED <<status, used, chained, retries, redis, mode, calls>>

\* A ping succeeds: onRecovered clears degradeMode and the loop returns ...
HealthRecovered(s) ==
    /\ health[s] = "running" /\ redisUp
    /\ degrade' = [degrade EXCEPT ![s] = FALSE]
    /\ health' = [health EXCEPT ![s] = "leaving"]
    /\ UNCHANGED <<status, used, chained, retries, redis, redisUp, calls>>

\* ... and the deferred Store(false) clears healthCheckRunning only later.
HealthLeaves(s) ==
    /\ health[s] = "leaving"
    /\ health' = [health EXCEPT ![s] = "idle"]
    /\ UNCHANGED <<status, used, chained, retries, redis, redisUp, degrade, calls>>

\* No ping succeeded within redisHealthCheckMaxDuration.
HealthTimesOut(s) ==
    /\ "longoutage" \in Faults
    /\ health[s] = "running" /\ ~redisUp
    /\ health' = [health EXCEPT ![s] = "leaving"]
    /\ UNCHANGED <<status, used, chained, retries, redis, redisUp, degrade, calls>>

\* The process dies and is restarted: its handlers and its flags are gone,
\* uncommitted transactions are rolled back.
Crash(s) ==
    /\ "crash" \in Faults
    /\ calls' = {c \in calls : c.srv # s}
    /\ degrade' = [degrade EXCEPT ![s] = FALSE]
    /\ health' = [health EXCEPT ![s] = "idle"]
    /\ UNCHANGED <<status, used, chained, retries, redis, redisUp>>

----------------------------------------------------------------------------
Submission(s, t) ==
    \/ \E max \in QueueLimits : SubmitReserve(s, t, max)
    \/ SubmitReject(s, t)
    \/ SubmitPersist(s, t)
    \/ SubmitAbort(s, t)

Dispatch(s, t) ==
    \/ DispatchLock(s, t)
    \/ \E max \in ConcurrentLimits : DispatchReserve(s, t, max)
    \/ DispatchCommit(s, t)
    \/ DispatchAbort(s, t)

Execution(t) ==
    \/ \E to \in {"AWAITING", "RETRY"} : Advance(t, to)
    \/ \E s \in Servers, to \in Terminal : Terminate(s, t, to)
    \/ RetryFailedTask(t)
    \/ DeletePicture(t)

Chain ==
    \/ \E image, video \in Tasks : SubmitChain(image, video)
    \/ \E t \in Tasks : ActivateNextTask(t) \/ \E s \in Servers : ChainFails(s, t)

Hook == \E c \in calls : HookReleaseConcurrent(c) \/ HookReleaseQueue(c)

LateSaves == {"PROCESSING", "AWAITING", "RETRY", "COMPLETED"}
Straggle == \E c \in calls : StragglerFails(c) \/ \E to \in LateSaves : StragglerSaves(c, to)

Reconcile(q) ==
    \/ \E s \in Servers, t \in Tasks : ReconcileRead(s, q, t)
    \/ \E c \in calls : ReconcileRelease(c, q)

HealthCheck(s) == HealthRecovered(s) \/ HealthLeaves(s) \/ HealthTimesOut(s)

Next ==
    \/ \E s \in Servers, t \in Tasks : Submission(s, t) \/ Dispatch(s, t)
    \/ \E t \in Tasks : Execution(t)
    \/ Chain \/ Hook \/ Straggle
    \/ \E q \in Quotas : Reconcile(q) \/ KeysExpire(q)
    \/ \E s \in Servers : HealthCheck(s) \/ Crash(s)
    \/ RedisFails \/ RedisReturns

Spec == Init /\ [][Next]_vars

----------------------------------------------------------------------------
(* Safety.                                                                 *)

Under(n, q) == \E lim \in Limits(q) : n <= lim

\* Whatever fails and however the handlers interleave, the two Lua scripts keep
\* the counter of a quota at least as large as its set of task ids, so that a
\* release always finds something to decrement, and never above a limit.
SlotAccounting ==
    \A q \in Quotas : Cardinality(members[q]) <= count[q] /\ Under(count[q], q)

\* The queue counter is exactly the number of ids in the queue set: a task id
\* reserves a queue slot once, in SubmitTaskWithTx, and a restarted task does not.
QueueExact == count["queue"] = Cardinality(members["queue"])

Rows(S) == {t \in Tasks : status[t] \in S}

\* MaxConcurrent: no more tasks of the user are PROCESSING than the largest
\* max_concurrent allows, across all servers, late hooks, restarts and crashes,
\* tasks of chains included.  (Not where a straggler acts, keys expire, a
\* reconciler takes a live slot or Redis fails: Faults is what may happen.)
ConcurrencyBound == Under(Cardinality(Rows({"PROCESSING"})), "concurrent")

\* MaxQueueSize: no more rows that went through the queue check are non-terminal
\* than the largest max_queue_size allows.  That leaves aside the tasks the user
\* restarted (a restart puts a row back without reserving a slot) and the tasks
\* of chains, whose rows SubmitPictureTaskChain inserts unchecked: with either,
\* the user has more rows than max_queue_size.  (Faults as in ConcurrencyBound.)
QueueBound ==
    Under(Cardinality({t \in Rows(QueueActive) \ chained : retries[t] = 0}), "queue")

\* The concurrent counter and the set it counts agree once no handler is between
\* its reservation and its commit, and no hook is due.
ConcurrentExact ==
    (\A c \in calls : c.op \notin {"commit", "hookConcurrent"})
        => count["concurrent"] = Cardinality(members["concurrent"])

----------------------------------------------------------------------------
(* Liveness.  The reconciler's ticker visits every member in each round; a  *)
(* round is cut short by a crash, but not every round is.                   *)

ReconcilerFairness ==
    \A q \in Quotas, t \in Tasks :
        /\ WF_vars(\E s \in Servers : ReconcileRead(s, q, t))
        /\ SF_vars(\E c \in calls : c.task = t /\ ReconcileRelease(c, q))

ReconciledSpec == Spec /\ ReconcilerFairness

\* Once Redis stays up and no server is in degrade mode any more, a slot whose
\* task is over, or never came to be, is given back even when the handler that
\* held it died: COMPLETED is final unless a straggler saves the row as running
\* again, and so is an id without a row that no handler carries.
Settled == redisUp /\ \A s \in Servers : ~degrade[s]
Leaked(q, t) ==
    /\ t \in members[q]
    /\ \/ status[t] = "COMPLETED"
       \/ status[t] = "none" /\ \A c \in calls : c.task = t => c.op \notin {"verified", "overfull"}
LeakedSlotReleased ==
    <>[]Settled => \A q \in Quotas, t \in Tasks :
                       Leaked(q, t) ~> t \notin members[q] \/ status[t] \in QueueActive
=============================================================================
