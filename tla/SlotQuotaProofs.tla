-------------------------- MODULE SlotQuotaProofs --------------------------
(***************************************************************************)
(* Proofs about SlotQuota, for any set of tasks and servers and any limits. *)
(***************************************************************************)
EXTENDS SlotQuota, FiniteSetTheorems, TLAPS

(***************************************************************************)
(* Typing.  The two helpers that several actions share come first.         *)
(***************************************************************************)

\* A handler of some server for some task, in the task's present run, is a call.
LEMMA CallTyped ==
    ASSUME TypeOK, NEW o \in Ops, NEW t \in Tasks, NEW s \in Servers
    PROVE  Call(o, t, s) \in Calls
BY DEF TypeOK, Call, Calls

\* So are those that a run leaves behind.
LEMMA StragglersTyped ==
    ASSUME TypeOK, NEW t \in Tasks, NEW s \in Servers
    PROVE  Stragglers(s, t) \subseteq Calls
BY CallTyped DEF Stragglers, Ops

\* The slots keep their type through both scripts and a release that is skipped.
LEMMA RedisTyped ==
    ASSUME TypeOK, NEW q \in Quotas, NEW t \in Tasks, NEW s \in Servers,
           \/ UNCHANGED redis
           \/ LuaReserve(q, t)
           \/ LuaRelease(q, t)
           \/ ReleaseSlot(s, q, t)
    PROVE  count' \in [Quotas -> Nat] /\ members' \in [Quotas -> SUBSET Tasks]
<1>1. CASE UNCHANGED redis
  BY <1>1 DEF TypeOK, redis
<1>2. CASE LuaReserve(q, t)
  BY <1>2 DEF TypeOK, LuaReserve
<1>3. CASE LuaRelease(q, t)
  <2>1. CASE t \in members[q]
    <3>1. members' \in [Quotas -> SUBSET Tasks]
      BY <1>3, <2>1 DEF TypeOK, LuaRelease
    <3>2. (IF count[q] > 0 THEN count[q] - 1 ELSE count[q]) \in Nat
      BY DEF TypeOK
    <3>3. count' = [count EXCEPT ![q] = IF count[q] > 0 THEN count[q] - 1 ELSE count[q]]
      BY <1>3, <2>1 DEF TypeOK, LuaRelease
    <3>. QED  BY <3>1, <3>2, <3>3 DEF TypeOK
  <2>2. CASE t \notin members[q]
    BY <1>3, <2>2 DEF TypeOK, LuaRelease, redis
  <2>. QED  BY <2>1, <2>2
<1>4. CASE ReleaseSlot(s, q, t)
  BY <1>1, <1>3, <1>4 DEF ReleaseSlot
<1>. QED  BY <1>1, <1>2, <1>3, <1>4

\* CheckAndReserveSlot keeps the type of all it touches.
LEMMA CheckAndReserveTyped ==
    ASSUME TypeOK, NEW s \in Servers, NEW q \in Quotas, NEW t \in Tasks, NEW max,
           NEW granted \in SUBSET Calls, NEW refused \in SUBSET Calls,
           NEW failed \in SUBSET Calls,
           CheckAndReserveSlot(s, q, t, max, granted, refused, failed)
    PROVE  /\ count' \in [Quotas -> Nat]
           /\ members' \in [Quotas -> SUBSET Tasks]
           /\ degrade' \in [Servers -> BOOLEAN]
           /\ health' \in [Servers -> {"idle", "running", "leaving"}]
           /\ calls' \subseteq Calls
<1>1. UNCHANGED redis \/ LuaReserve(q, t)
  BY DEF CheckAndReserveSlot, redis
<1>2. count' \in [Quotas -> Nat] /\ members' \in [Quotas -> SUBSET Tasks]
  BY <1>1, RedisTyped
<1>3. calls' \in {granted, refused, failed}
  BY DEF CheckAndReserveSlot
<1>4. UNCHANGED mode \/ HandleRedisError(s)
  BY DEF CheckAndReserveSlot, mode
<1>5. /\ degrade' \in [Servers -> BOOLEAN]
      /\ health' \in [Servers -> {"idle", "running", "leaving"}]
  <2>1. CASE UNCHANGED mode
    BY <2>1 DEF TypeOK, mode
  <2>2. CASE HandleRedisError(s)
    BY <2>2 DEF TypeOK, HandleRedisError
  <2>. QED  BY <1>4, <2>1, <2>2
<1>. QED  BY <1>2, <1>3, <1>5

\* Type correctness, one step per action of Next.
LEMMA TypeStep ==
    ASSUME TypeOK, [Next]_vars
    PROVE  TypeOK'
<1>. USE SlotQuotaAssumptions
<1>1. ASSUME NEW s \in Servers, NEW t \in Tasks, Submission(s, t)
      PROVE  TypeOK'
  <2>1. ASSUME NEW max \in QueueLimits, SubmitReserve(s, t, max)
        PROVE  TypeOK'
    <3>. DEFINE verdict == IF DBCount("queue") < max THEN "verified" ELSE "overfull"
                next == calls \cup {Call(verdict, t, s)}
    <3>1. verdict \in Ops
      BY DEF Ops
    <3>2. next \in SUBSET Calls
      BY <3>1, CallTyped DEF TypeOK
    <3>3. CheckAndReserveSlot(s, "queue", t, max, next, calls, next)
      BY <2>1 DEF SubmitReserve
    <3>4. "queue" \in Quotas /\ calls \in SUBSET Calls
      BY DEF Quotas, TypeOK
    <3>5. /\ count' \in [Quotas -> Nat]
          /\ members' \in [Quotas -> SUBSET Tasks]
          /\ degrade' \in [Servers -> BOOLEAN]
          /\ health' \in [Servers -> {"idle", "running", "leaving"}]
          /\ calls' \subseteq Calls
      <4>. HIDE DEF next, verdict
      <4>. QED  BY <3>2, <3>3, <3>4, CheckAndReserveTyped
    <3>. QED  BY <2>1, <3>5 DEF SubmitReserve, TypeOK
  <2>2. CASE SubmitReject(s, t)
    <3>1. count' \in [Quotas -> Nat] /\ members' \in [Quotas -> SUBSET Tasks]
      BY <2>2, RedisTyped DEF SubmitReject, Quotas
    <3>. QED  BY <2>2, <3>1 DEF SubmitReject, TypeOK, mode
  <2>3. CASE SubmitPersist(s, t)
    BY <2>3 DEF SubmitPersist, TypeOK, redis, mode, Statuses, QueueActive
  <2>4. CASE SubmitAbort(s, t)
    <3>1. count' \in [Quotas -> Nat] /\ members' \in [Quotas -> SUBSET Tasks]
      BY <2>4, RedisTyped DEF SubmitAbort, Quotas
    <3>. QED  BY <2>4, <3>1 DEF SubmitAbort, TypeOK, mode
  <2>. QED  BY <1>1, <2>1, <2>2, <2>3, <2>4 DEF Submission
<1>2. ASSUME NEW s \in Servers, NEW t \in Tasks, Dispatch(s, t)
      PROVE  TypeOK'
  <2>1. CASE DispatchLock(s, t)
    <3>1. Call("locked", t, s) \in Calls
      BY CallTyped DEF Ops
    <3>. QED  BY <2>1, <3>1 DEF DispatchLock, TypeOK, redis, mode
  <2>2. ASSUME NEW max \in ConcurrentLimits, DispatchReserve(s, t, max)
        PROVE  TypeOK'
    <3>. DEFINE idle == calls \ {Call("locked", t, s)}
                next == idle \cup {Call("commit", t, s)}
    <3>1. next \in SUBSET Calls /\ idle \in SUBSET Calls
      <4>1. Call("commit", t, s) \in Calls
        BY CallTyped DEF Ops
      <4>. QED  BY <4>1 DEF TypeOK
    <3>2. CheckAndReserveSlot(s, "concurrent", t, max, next, idle, idle)
      BY <2>2 DEF DispatchReserve
    <3>3. "concurrent" \in Quotas
      BY DEF Quotas
    <3>4. /\ count' \in [Quotas -> Nat]
          /\ members' \in [Quotas -> SUBSET Tasks]
          /\ degrade' \in [Servers -> BOOLEAN]
          /\ health' \in [Servers -> {"idle", "running", "leaving"}]
          /\ calls' \subseteq Calls
      <4>. HIDE DEF next, idle
      <4>. QED  BY <3>1, <3>2, <3>3, CheckAndReserveTyped
    <3>. QED  BY <2>2, <3>4 DEF DispatchReserve, TypeOK
  <2>3. CASE DispatchCommit(s, t)
    BY <2>3 DEF DispatchCommit, TypeOK, redis, mode, Statuses, QueueActive
  <2>4. CASE DispatchAbort(s, t)
    <3>1. count' \in [Quotas -> Nat] /\ members' \in [Quotas -> SUBSET Tasks]
      BY <2>4, RedisTyped DEF DispatchAbort, Quotas
    <3>. QED  BY <2>4, <3>1 DEF DispatchAbort, TypeOK, mode
  <2>. QED  BY <1>2, <2>1, <2>2, <2>3, <2>4 DEF Dispatch
<1>3. ASSUME NEW t \in Tasks, Execution(t)
      PROVE  TypeOK'
  <2>1. ASSUME NEW to \in {"AWAITING", "RETRY"}, Advance(t, to)
        PROVE  TypeOK'
    BY <2>1 DEF Advance, TypeOK, redis, mode, Statuses, QueueActive
  <2>2. ASSUME NEW s \in Servers, NEW to \in Terminal, Terminate(s, t, to)
        PROVE  TypeOK'
    <3>1. Call("hookConcurrent", t, s) \in Calls
      BY CallTyped DEF Ops
    <3>2. calls' \subseteq Calls
      BY <2>2, <3>1, StragglersTyped DEF Terminate, TypeOK
    <3>. QED  BY <2>2, <3>2 DEF Terminate, TypeOK, redis, mode, Statuses
  <2>3. CASE RetryFailedTask(t)
    BY <2>3 DEF RetryFailedTask, TypeOK, redis, mode, Statuses, QueueActive
  <2>4. CASE DeletePicture(t)
    BY <2>4 DEF DeletePicture, TypeOK, redis, mode, Statuses
  <2>. QED  BY <1>3, <2>1, <2>2, <2>3, <2>4 DEF Execution
<1>4. ASSUME NEW c \in calls, HookReleaseConcurrent(c) \/ HookReleaseQueue(c)
      PROVE  TypeOK'
  <2>1. c \in Calls /\ c.srv \in Servers /\ c.task \in Tasks
    BY DEF TypeOK, Calls
  <2>2. count' \in [Quotas -> Nat] /\ members' \in [Quotas -> SUBSET Tasks]
    BY <1>4, <2>1, RedisTyped DEF HookReleaseConcurrent, HookReleaseQueue, Quotas
  <2>3. [c EXCEPT !.op = "hookQueue"] \in Calls
    BY <2>1 DEF Calls, Ops
  <2>. QED
    BY <1>4, <2>2, <2>3 DEF HookReleaseConcurrent, HookReleaseQueue, TypeOK, mode
<1>5. ASSUME NEW q \in Quotas, Reconcile(q)
      PROVE  TypeOK'
  <2>1. ASSUME NEW s \in Servers, NEW t \in Tasks, ReconcileRead(s, q, t)
        PROVE  TypeOK'
    <3>1. ReconOp(q) \in Ops
      BY DEF ReconOp, Ops
    <3>2. Call(ReconOp(q), t, s) \in Calls
      BY <3>1, CallTyped
    <3>. QED  BY <2>1, <3>2 DEF ReconcileRead, TypeOK, redis, mode
  <2>2. ASSUME NEW c \in calls, ReconcileRelease(c, q)
        PROVE  TypeOK'
    <3>1. c.srv \in Servers /\ c.task \in Tasks
      BY DEF TypeOK, Calls
    <3>2. count' \in [Quotas -> Nat] /\ members' \in [Quotas -> SUBSET Tasks]
      BY <2>2, <3>1, RedisTyped DEF ReconcileRelease
    <3>. QED  BY <2>2, <3>2 DEF ReconcileRelease, TypeOK, mode
  <2>. QED  BY <1>5, <2>1, <2>2 DEF Reconcile
<1>6. ASSUME NEW q \in Quotas, KeysExpire(q)
      PROVE  TypeOK'
  BY <1>6 DEF KeysExpire, TypeOK, mode
<1>7. ASSUME NEW s \in Servers, HealthCheck(s) \/ Crash(s)
      PROVE  TypeOK'
  <2>1. CASE HealthRecovered(s)
    BY <2>1 DEF HealthRecovered, TypeOK, redis
  <2>2. CASE HealthLeaves(s)
    BY <2>2 DEF HealthLeaves, TypeOK, redis
  <2>3. CASE HealthTimesOut(s)
    BY <2>3 DEF HealthTimesOut, TypeOK, redis
  <2>4. CASE Crash(s)
    BY <2>4 DEF Crash, TypeOK, redis
  <2>. QED  BY <1>7, <2>1, <2>2, <2>3, <2>4 DEF HealthCheck
<1>8. CASE RedisFails \/ RedisReturns
  BY <1>8 DEF RedisFails, RedisReturns, TypeOK, redis, mode
<1>9. CASE Chain
  <2>1. ASSUME NEW image \in Tasks, NEW video \in Tasks, SubmitChain(image, video)
        PROVE  TypeOK'
    BY <2>1 DEF SubmitChain, TypeOK, redis, mode, Statuses, QueueActive
  <2>2. ASSUME NEW t \in Tasks, ActivateNextTask(t)
        PROVE  TypeOK'
    BY <2>2 DEF ActivateNextTask, TypeOK, redis, mode, Statuses, QueueActive
  <2>3. ASSUME NEW s \in Servers, NEW t \in Tasks, ChainFails(s, t)
        PROVE  TypeOK'
    <3>1. calls' \subseteq Calls
      BY <2>3, StragglersTyped DEF ChainFails, TypeOK
    <3>. QED  BY <2>3, <3>1 DEF ChainFails, TypeOK, redis, mode, Statuses, Terminal
  <2>. QED  BY <1>9, <2>1, <2>2, <2>3 DEF Chain
<1>10. CASE Straggle
  <2>1. PICK c \in calls : StragglerFails(c) \/ \E to \in LateSaves : StragglerSaves(c, to)
    BY <1>10 DEF Straggle
  <2>2. c.srv \in Servers /\ c.task \in Tasks
    BY DEF TypeOK, Calls
  <2>3. Call("hookConcurrent", c.task, c.srv) \in Calls
    BY <2>2, CallTyped DEF Ops
  <2>4. CASE StragglerFails(c)
    BY <2>2, <2>3, <2>4 DEF StragglerFails, TypeOK, redis, mode, Statuses, Terminal
  <2>5. ASSUME NEW to \in LateSaves, StragglerSaves(c, to)
        PROVE  TypeOK'
    <3>1. calls' \subseteq Calls
      BY <2>3, <2>5 DEF StragglerSaves, TypeOK
    <3>2. to \in Statuses
      BY DEF LateSaves, Statuses, QueueActive, Terminal
    <3>. QED  BY <2>2, <2>5, <3>1, <3>2 DEF StragglerSaves, TypeOK, redis, mode
  <2>. QED  BY <2>1, <2>4, <2>5
<1>11. CASE UNCHANGED vars
  BY <1>11 DEF vars, TypeOK, redis, mode
<1>. QED
  BY <1>1, <1>2, <1>3, <1>4, <1>5, <1>6, <1>7, <1>8, <1>9, <1>10, <1>11 DEF Next, Hook

\* Every variable keeps its type: counters of the Redis keys never go negative.
THEOREM TypeCorrect == Spec => []TypeOK
<1>1. Init => TypeOK
  BY SlotQuotaAssumptions DEF Init, TypeOK, Statuses, Quotas
<1>. QED  BY <1>1, TypeStep, PTL DEF Spec

(***************************************************************************)
(* What a step can do to Redis.                                            *)
(***************************************************************************)

Expire(q) ==
    /\ count' = [count EXCEPT ![q] = 0]
    /\ members' = [members EXCEPT ![q] = {}]

\* A queue slot is reserved only under a fresh id, a concurrent one under any.
RedisStep ==
    \/ UNCHANGED redis
    \/ \E q \in Quotas, t \in Tasks : LuaRelease(q, t)
    \/ \E t \in Tasks \ used : \E max \in QueueLimits :
          /\ count["queue"] < max
          /\ LuaReserve("queue", t)
          /\ used' = used \cup {t}
    \/ \E t \in Tasks : \E max \in ConcurrentLimits :
          /\ count["concurrent"] < max
          /\ LuaReserve("concurrent", t)
    \/ \E q \in Quotas : Expire(q)

\* The slots change only through a reservation or a release of one quota, its
\* members being a script's or those of an expired key.
LEMMA RedisChange ==
    ASSUME TypeOK, [Next]_vars
    PROVE  RedisStep /\ used \subseteq used'
<1>1. ASSUME NEW q \in Quotas, NEW t \in Tasks, NEW s \in Servers, ReleaseSlot(s, q, t)
      PROVE  RedisStep
  BY <1>1 DEF ReleaseSlot, RedisStep
<1>2. ASSUME NEW s \in Servers, NEW t \in Tasks, Submission(s, t)
      PROVE  RedisStep /\ used \subseteq used'
  <2>1. ASSUME NEW max \in QueueLimits, SubmitReserve(s, t, max)
        PROVE  RedisStep /\ used \subseteq used'
    <3>1. UNCHANGED redis \/ (count["queue"] < max /\ LuaReserve("queue", t))
      BY <2>1 DEF SubmitReserve, CheckAndReserveSlot, redis
    <3>2. t \in Tasks \ used /\ used' = used \cup {t}
      BY <2>1 DEF SubmitReserve
    <3>. QED  BY <3>1, <3>2 DEF RedisStep
  <2>2. CASE SubmitReject(s, t)
    BY <2>2, <1>1 DEF SubmitReject, Quotas
  <2>3. CASE SubmitPersist(s, t)
    BY <2>3 DEF SubmitPersist, RedisStep
  <2>4. CASE SubmitAbort(s, t)
    BY <2>4, <1>1 DEF SubmitAbort, Quotas, RedisStep
  <2>. QED  BY <1>2, <2>1, <2>2, <2>3, <2>4 DEF Submission
<1>3. ASSUME NEW s \in Servers, NEW t \in Tasks, Dispatch(s, t)
      PROVE  RedisStep /\ used \subseteq used'
  <2>1. CASE DispatchLock(s, t)
    BY <2>1 DEF DispatchLock, RedisStep
  <2>2. ASSUME NEW max \in ConcurrentLimits, DispatchReserve(s, t, max)
        PROVE  RedisStep /\ used \subseteq used'
    <3>1. UNCHANGED redis \/ (count["concurrent"] < max /\ LuaReserve("concurrent", t))
      BY <2>2 DEF DispatchReserve, CheckAndReserveSlot, redis
    <3>. QED  BY <2>2, <3>1 DEF RedisStep, DispatchReserve
  <2>3. CASE DispatchCommit(s, t)
    BY <2>3 DEF DispatchCommit, RedisStep
  <2>4. CASE DispatchAbort(s, t)
    BY <2>4, <1>1 DEF DispatchAbort, Quotas
  <2>. QED  BY <1>3, <2>1, <2>2, <2>3, <2>4 DEF Dispatch
<1>4. ASSUME NEW t \in Tasks, Execution(t)
      PROVE  RedisStep /\ used \subseteq used'
  BY <1>4 DEF Execution, Advance, Terminate, RetryFailedTask, DeletePicture, RedisStep
<1>5. ASSUME NEW c \in calls, \/ HookReleaseConcurrent(c)
                              \/ HookReleaseQueue(c)
                              \/ \E q \in Quotas : ReconcileRelease(c, q)
      PROVE  RedisStep /\ used \subseteq used'
  <2>1. c.srv \in Servers /\ c.task \in Tasks
    BY DEF TypeOK, Calls
  <2>. QED
    BY <1>1, <1>5, <2>1 DEF HookReleaseConcurrent, HookReleaseQueue,
                            ReconcileRelease, Quotas
<1>6. ASSUME NEW q \in Quotas, Reconcile(q) \/ KeysExpire(q)
      PROVE  RedisStep /\ used \subseteq used'
  <2>1. CASE \E s \in Servers, t \in Tasks : ReconcileRead(s, q, t)
    BY <2>1 DEF ReconcileRead, RedisStep
  <2>2. CASE KeysExpire(q)
    BY <2>2 DEF KeysExpire, RedisStep, Expire
  <2>. QED  BY <1>5, <1>6, <2>1, <2>2 DEF Reconcile
<1>7. CASE \/ \E s \in Servers : HealthCheck(s) \/ Crash(s)
           \/ RedisFails \/ RedisReturns
  BY <1>7 DEF HealthCheck, HealthRecovered, HealthLeaves, HealthTimesOut, Crash,
              RedisFails, RedisReturns, RedisStep
<1>8. CASE Chain \/ Straggle
  BY <1>8 DEF Chain, SubmitChain, ActivateNextTask, ChainFails, Straggle, StragglerFails,
              StragglerSaves, RedisStep
<1>9. CASE UNCHANGED vars
  BY <1>9 DEF vars, redis, RedisStep
<1>. QED  BY <1>2, <1>3, <1>4, <1>5, <1>6, <1>7, <1>8, <1>9 DEF Next, Hook

(***************************************************************************)
(* The counter of a quota against its set.                                 *)
(***************************************************************************)

\* What the two scripts do to the size of a set of ids.
LEMMA MembersSize ==
    ASSUME TypeOK, NEW q \in Quotas, NEW t \in Tasks
    PROVE  /\ IsFiniteSet(members[q])
           /\ Cardinality(members[q]) \in Nat
           /\ Cardinality(members[q] \cup {t}) \in Nat
           /\ Cardinality(members[q] \cup {t}) <= Cardinality(members[q]) + 1
           /\ t \notin members[q] =>
                Cardinality(members[q] \cup {t}) = Cardinality(members[q]) + 1
           /\ t \in members[q] =>
                Cardinality(members[q] \ {t}) = Cardinality(members[q]) - 1
<1>1. IsFiniteSet(members[q])
  <2>1. members[q] \subseteq Tasks
    BY DEF TypeOK
  <2>. QED  BY <2>1, FS_Subset, SlotQuotaAssumptions
<1>2. Cardinality(members[q]) \in Nat
  BY <1>1, FS_CardinalityType
<1>3. CASE t \in members[q]
  <2>1. Cardinality(members[q] \cup {t}) = Cardinality(members[q])
    <3>1. members[q] \cup {t} = members[q]
      BY <1>3
    <3>. QED  BY <3>1, Zenon
  <2>2. Cardinality(members[q] \ {t}) = Cardinality(members[q]) - 1
    BY <1>1, <1>3, FS_RemoveElement
  <2>. QED  BY <1>1, <1>2, <1>3, <2>1, <2>2
<1>4. CASE t \notin members[q]
  <2>1. Cardinality(members[q] \cup {t}) = Cardinality(members[q]) + 1
    BY <1>1, <1>4, FS_AddElement
  <2>. QED  BY <1>1, <1>2, <1>4, <2>1
<1>. QED  BY <1>3, <1>4

\* Every step keeps each counter at least as large as its set of ids and within
\* the largest limit: a reservation is checked in the script that makes it.
LEMMA AccountingStep ==
    ASSUME TypeOK, SlotAccounting, [Next]_vars
    PROVE  SlotAccounting'
<1>. SUFFICES ASSUME NEW p \in Quotas
              PROVE  /\ Cardinality(members'[p]) <= count'[p]
                     /\ \E lim \in Limits(p) : count'[p] <= lim
  BY DEF SlotAccounting, Under
<1>1. /\ Cardinality(members[p]) <= count[p]
      /\ count[p] \in Nat
  BY DEF SlotAccounting, TypeOK
<1>2. PICK lim \in Limits(p) : count[p] <= lim
  BY DEF SlotAccounting, Under
<1>3. lim \in Nat /\ \A l \in Limits(p) : l \in Nat
  BY SlotQuotaAssumptions DEF Limits
<1>4. CASE UNCHANGED redis
  BY <1>1, <1>2, <1>4 DEF redis
<1>5. ASSUME NEW q \in Quotas, NEW t \in Tasks, LuaRelease(q, t)
      PROVE  Cardinality(members'[p]) <= count'[p] /\ count'[p] <= lim
  <2>1. CASE p # q \/ t \notin members[q]
    BY <1>1, <1>2, <1>5, <2>1 DEF LuaRelease, redis, TypeOK
  <2>2. CASE p = q /\ t \in members[q]
    <3>1. /\ members'[p] = members[p] \ {t}
          /\ count'[p] = IF count[p] > 0 THEN count[p] - 1 ELSE count[p]
      BY <1>5, <2>2 DEF LuaRelease, TypeOK
    <3>2. Cardinality(members[p] \ {t}) = Cardinality(members[p]) - 1
      BY <2>2, MembersSize
    <3>3. Cardinality(members[p]) \in Nat
      BY MembersSize
    <3>. QED  BY <1>1, <1>2, <1>3, <3>1, <3>2, <3>3
  <2>. QED  BY <2>1, <2>2
<1>6. ASSUME NEW q \in Quotas, NEW t \in Tasks, NEW max \in Limits(q),
             count[q] < max, LuaReserve(q, t)
      PROVE  /\ Cardinality(members'[p]) <= count'[p]
             /\ \E l \in Limits(p) : count'[p] <= l
  <2>1. CASE p # q
    BY <1>1, <1>2, <1>6, <2>1 DEF LuaReserve, TypeOK
  <2>2. CASE p = q
    <3>1. members'[p] = members[p] \cup {t} /\ count'[p] = count[p] + 1
      BY <1>6, <2>2 DEF LuaReserve, TypeOK
    <3>2. /\ Cardinality(members[p]) \in Nat
          /\ Cardinality(members[p] \cup {t}) \in Nat
          /\ Cardinality(members[p] \cup {t}) <= Cardinality(members[p]) + 1
      BY MembersSize
    <3>4. Cardinality(members'[p]) <= count'[p]
      BY <1>1, <3>1, <3>2
    <3>5. max \in Limits(p) /\ max \in Nat
      BY <1>3, <1>6, <2>2
    <3>6. count'[p] <= max
      BY <1>1, <1>6, <2>2, <3>1, <3>5
    <3>. QED  BY <3>4, <3>5, <3>6
  <2>. QED  BY <2>1, <2>2
<1>7. ASSUME NEW q \in Quotas, Expire(q)
      PROVE  Cardinality(members'[p]) <= count'[p] /\ count'[p] <= lim
  <2>1. CASE p # q
    BY <1>1, <1>2, <1>7, <2>1 DEF Expire, TypeOK
  <2>2. CASE p = q
    BY <1>3, <1>7, <2>2, FS_EmptySet DEF Expire, TypeOK
  <2>. QED  BY <2>1, <2>2
<1>. QED
  BY <1>4, <1>5, <1>6, <1>7, RedisChange DEF RedisStep, Limits, Quotas

\* Both quotas, in every run: a release that finds its id finds a positive
\* counter, and no interleaving of checks and reservations passes a limit.
THEOREM Accounting == Spec => []SlotAccounting
<1>1. Init => SlotAccounting
  <2>. SUFFICES ASSUME Init, NEW q \in Quotas
                PROVE  Cardinality({}) <= 0 /\ \E lim \in Limits(q) : 0 <= lim
    BY DEF SlotAccounting, Under, Init
  <2>1. Cardinality({}) = 0
    BY FS_EmptySet
  <2>2. PICK lim \in Limits(q) : lim \in Nat
    BY SlotQuotaAssumptions DEF Limits
  <2>. QED  BY <2>1, <2>2
<1>. QED  BY <1>1, TypeCorrect, AccountingStep, PTL DEF Spec

\* QueueExact is inductive with one more fact: only used ids are in the set.
QueueInv == members["queue"] \subseteq used /\ QueueExact

\* An id enters the queue set at most once, when it is new: INCR and SADD agree.
LEMMA QueueStep ==
    ASSUME TypeOK, SlotAccounting, QueueInv, [Next]_vars
    PROVE  QueueInv'
<1>. DEFINE Q == "queue"
<1>1. /\ Q \in Quotas
      /\ members[Q] \subseteq used
      /\ count[Q] = Cardinality(members[Q])
      /\ count[Q] \in Nat
      /\ used \subseteq used'
  BY RedisChange DEF QueueInv, QueueExact, Quotas, TypeOK
<1>. SUFFICES members'[Q] \subseteq used' /\ count'[Q] = Cardinality(members'[Q])
  BY DEF QueueInv, QueueExact
<1>2. CASE UNCHANGED redis
  BY <1>1, <1>2 DEF redis
<1>3. ASSUME NEW q \in Quotas, NEW t \in Tasks, LuaRelease(q, t)
      PROVE  members'[Q] \subseteq used' /\ count'[Q] = Cardinality(members'[Q])
  <2>1. CASE Q # q \/ t \notin members[q]
    BY <1>1, <1>3, <2>1 DEF LuaRelease, redis, TypeOK
  <2>2. CASE Q = q /\ t \in members[q]
    <3>1. /\ members'[Q] = members[Q] \ {t}
          /\ count'[Q] = IF count[Q] > 0 THEN count[Q] - 1 ELSE count[Q]
      BY <1>1, <1>3, <2>2 DEF LuaRelease, TypeOK
    <3>2. Cardinality(members[Q] \ {t}) = Cardinality(members[Q]) - 1
      BY <1>1, <2>2, MembersSize
    <3>3. Cardinality(members[Q] \ {t}) \in Nat
      <4>1. IsFiniteSet(members[Q])
        BY <1>1, <2>2, MembersSize
      <4>. QED  BY <4>1, FS_RemoveElement, FS_CardinalityType
    <3>. QED  BY <1>1, <3>1, <3>2, <3>3
  <2>. QED  BY <2>1, <2>2
<1>4. ASSUME NEW t \in Tasks \ used, LuaReserve(Q, t), used' = used \cup {t}
      PROVE  members'[Q] \subseteq used' /\ count'[Q] = Cardinality(members'[Q])
  <2>1. members'[Q] = members[Q] \cup {t} /\ count'[Q] = count[Q] + 1
    BY <1>1, <1>4 DEF LuaReserve, TypeOK
  <2>2. t \notin members[Q]
    BY <1>1
  <2>3. Cardinality(members[Q] \cup {t}) = Cardinality(members[Q]) + 1
    BY <1>1, <2>2, MembersSize
  <2>. QED  BY <1>1, <1>4, <2>1, <2>3
<1>5. ASSUME NEW t \in Tasks, LuaReserve("concurrent", t)
      PROVE  members'[Q] \subseteq used' /\ count'[Q] = Cardinality(members'[Q])
  BY <1>1, <1>5 DEF LuaReserve, TypeOK
<1>6. ASSUME NEW q \in Quotas, Expire(q)
      PROVE  members'[Q] \subseteq used' /\ count'[Q] = Cardinality(members'[Q])
  <2>1. CASE Q # q
    BY <1>1, <1>6, <2>1 DEF Expire, TypeOK
  <2>2. CASE Q = q
    BY <1>1, <1>6, <2>2, FS_EmptySet DEF Expire, TypeOK
  <2>. QED  BY <2>1, <2>2
<1>. QED
  BY <1>2, <1>3, <1>4, <1>5, <1>6, RedisChange DEF RedisStep

\* No fault, restart or interleaving makes the queue counter drift from its set.
THEOREM QueueCounterExact == Spec => []QueueExact
<1>1. Init => QueueInv
  BY FS_EmptySet DEF Init, QueueInv, QueueExact, Quotas
<1>2. QueueInv => QueueExact
  BY DEF QueueInv
<1>. QED  BY <1>1, <1>2, TypeCorrect, Accounting, QueueStep, PTL DEF Spec

(***************************************************************************)
(* The bound on running tasks.  It holds while nothing but a handler's own  *)
(* release takes a slot away: no reconciler, no expiry and no outage, and   *)
(* while whoever handles an ended run leaves the row alone: no straggler.   *)
(*                                                                         *)
(* A reservation belongs to a run of a task, the pair of its id and its     *)
(* number of restarts, until the hook of that run has released it.  The     *)
(* counter stays at least the number of such pairs: a late hook of an       *)
(* earlier run may take the id out of the set while the next run uses it,   *)
(* but it accounts for its own run only.                                    *)
(***************************************************************************)

Quiet == Faults \subseteq {"crash", "dbtimeout", "delete"}

Dispatched == {"PROCESSING", "AWAITING", "RETRY"}
Runs == Tasks \X (0..MaxRetry)
Holds(p) ==
    \/ status[p[1]] \in Dispatched /\ retries[p[1]] = p[2]
    \/ \E c \in calls : /\ c.op \in {"commit", "hookConcurrent"}
                        /\ c.task = p[1] /\ c.run = p[2]
Holders == {p \in Runs : Holds(p)}

HealthyInv == redisUp /\ \A s \in Servers : ~degrade[s]

\* A submission in flight is alone with its id, which has no row yet.
FreshInv ==
    /\ \A t \in Tasks : t \notin used => status[t] = "none"
    /\ \A c \in calls : c.task \in used /\ c.op \notin {"reconQueue", "reconConcurrent", "straggler"}
    /\ \A c \in calls : c.op \in {"verified", "overfull"} =>
          /\ status[c.task] = "none"
          /\ \A d \in calls : d.task = c.task => d = c

\* The row lock: one transaction moves a PENDING row to PROCESSING.
DispatchInv ==
    \A c \in calls : c.op \in {"locked", "commit"} =>
        /\ status[c.task] = "PENDING"
        /\ c.run = retries[c.task]
        /\ \A d \in calls : d.task = c.task /\ d.op \in {"locked", "commit"} => d = c

\* The hook is due once for a run, and that run is over.
HookInv ==
    \A c \in calls : c.op = "hookConcurrent" =>
        /\ \/ c.run < retries[c.task]
           \/ c.run = retries[c.task] /\ status[c.task] \in {"none"} \cup Terminal
        /\ \A d \in calls :
              d.op = c.op /\ d.task = c.task /\ d.run = c.run => d = c

ControlInv == HealthyInv /\ FreshInv /\ DispatchInv /\ HookInv

\* While no server degrades, CheckAndReserveSlot is its script or a refusal.
LEMMA HealthyReserve ==
    ASSUME HealthyInv, NEW s \in Servers, NEW q, NEW t, NEW max,
           NEW granted, NEW refused, NEW failed,
           CheckAndReserveSlot(s, q, t, max, granted, refused, failed)
    PROVE  /\ UNCHANGED mode
           /\ \/ LuaReserve(q, t) /\ calls' = granted
              \/ UNCHANGED redis /\ calls' = refused
BY DEF HealthyInv, CheckAndReserveSlot

\* While no server degrades, ReleaseSlot is its script.
LEMMA HealthyRelease ==
    ASSUME HealthyInv, NEW s \in Servers, NEW q, NEW t, ReleaseSlot(s, q, t)
    PROVE  LuaRelease(q, t)
BY DEF HealthyInv, ReleaseSlot

\* Every step keeps the lock order of the dispatch: who stands where, with
\* which task in which state.
LEMMA ControlStep ==
    ASSUME Quiet, TypeOK, ControlInv, [Next]_vars
    PROVE  ControlInv'
<1>. USE DEF ControlInv
<1>1. ASSUME NEW s \in Servers, NEW t \in Tasks, NEW max \in QueueLimits,
             SubmitReserve(s, t, max)
      PROVE  ControlInv'
  <2>1. PICK o \in {"verified", "overfull"} :
          calls' = calls \cup {Call(o, t, s)} \/ calls' = calls
    BY <1>1, HealthyReserve DEF SubmitReserve
  <2>2. UNCHANGED <<status, retries, redisUp, degrade>>
    BY <1>1, HealthyReserve DEF SubmitReserve, mode
  <2>3. t \notin used /\ used' = used \cup {t}
    BY <1>1 DEF SubmitReserve
  <2>4. Call(o, t, s) = [op |-> o, task |-> t, srv |-> s, run |-> retries[t]]
    BY DEF Call
  <2>5. HealthyInv'
    BY <2>2 DEF HealthyInv
  <2>6. FreshInv'
    BY <2>1, <2>2, <2>3, <2>4 DEF FreshInv
  <2>7. DispatchInv'
    BY <2>1, <2>2, <2>4 DEF DispatchInv
  <2>8. HookInv'
    BY <2>1, <2>2, <2>4 DEF HookInv
  <2>. QED  BY <2>5, <2>6, <2>7, <2>8
<1>2. ASSUME NEW s \in Servers, NEW t \in Tasks,
             SubmitReject(s, t) \/ SubmitPersist(s, t) \/ SubmitAbort(s, t)
      PROVE  ControlInv'
  <2>1. PICK o \in {"verified", "overfull"} :
          Call(o, t, s) \in calls /\ calls' = calls \ {Call(o, t, s)}
    BY <1>2 DEF SubmitReject, SubmitPersist, SubmitAbort
  <2>2. UNCHANGED <<used, retries, redisUp, degrade>>
    BY <1>2 DEF SubmitReject, SubmitPersist, SubmitAbort, mode
  <2>3. status' = status \/ status' = [status EXCEPT ![t] = "PENDING"]
    BY <1>2 DEF SubmitReject, SubmitPersist, SubmitAbort
  <2>4. Call(o, t, s) = [op |-> o, task |-> t, srv |-> s, run |-> retries[t]]
    BY DEF Call
  <2>5. t \in used /\ \A c \in calls' : c.task # t
    BY <2>1, <2>4 DEF FreshInv
  <2>6. HealthyInv'
    BY <2>2 DEF HealthyInv
  <2>7. FreshInv'
    BY <2>1, <2>2, <2>3, <2>5 DEF FreshInv, TypeOK
  <2>8. DispatchInv'
    BY <2>1, <2>2, <2>3, <2>5 DEF DispatchInv, TypeOK, Calls
  <2>9. HookInv'
    BY <2>1, <2>2, <2>3, <2>5 DEF HookInv, TypeOK, Calls
  <2>. QED  BY <2>6, <2>7, <2>8, <2>9
<1>3. ASSUME NEW s \in Servers, NEW t \in Tasks, DispatchLock(s, t)
      PROVE  ControlInv'
  <2>1. Call("locked", t, s) =
          [op |-> "locked", task |-> t, srv |-> s, run |-> retries[t]]
    BY DEF Call
  <2>2. t \in used
    BY <1>3 DEF DispatchLock, FreshInv
  <2>3. HealthyInv'
    BY <1>3 DEF DispatchLock, HealthyInv, mode
  <2>4. FreshInv'
    BY <1>3, <2>1, <2>2 DEF DispatchLock, FreshInv
  <2>5. DispatchInv'
    BY <1>3, <2>1 DEF DispatchLock, RowFree, DispatchInv
  <2>6. HookInv'
    BY <1>3, <2>1 DEF DispatchLock, HookInv
  <2>. QED  BY <2>3, <2>4, <2>5, <2>6
<1>4. ASSUME NEW s \in Servers, NEW t \in Tasks, NEW max \in ConcurrentLimits,
             DispatchReserve(s, t, max)
      PROVE  ControlInv'
  <2>. DEFINE l == Call("locked", t, s)
              m == Call("commit", t, s)
  <2>1. /\ l \in calls
        /\ calls' = (calls \ {l}) \cup {m} \/ calls' = calls \ {l}
    BY <1>4, HealthyReserve DEF DispatchReserve
  <2>2. UNCHANGED <<status, used, retries, redisUp, degrade>>
    BY <1>4, HealthyReserve DEF DispatchReserve, mode
  <2>3. /\ l = [op |-> "locked", task |-> t, srv |-> s, run |-> retries[t]]
        /\ m = [op |-> "commit", task |-> t, srv |-> s, run |-> retries[t]]
    BY DEF Call
  <2>. HIDE DEF l, m
  <2>4. HealthyInv'
    BY <2>2 DEF HealthyInv
  <2>5. FreshInv'
    BY <2>1, <2>2, <2>3 DEF FreshInv
  <2>6. DispatchInv'
    BY <2>1, <2>2, <2>3 DEF DispatchInv
  <2>7. HookInv'
    BY <2>1, <2>2, <2>3 DEF HookInv
  <2>. QED  BY <2>4, <2>5, <2>6, <2>7
<1>5. ASSUME NEW s \in Servers, NEW t \in Tasks,
             DispatchCommit(s, t) \/ DispatchAbort(s, t)
      PROVE  ControlInv'
  <2>. DEFINE m == Call("commit", t, s)
  <2>1. m \in calls /\ calls' = calls \ {m}
    BY <1>5 DEF DispatchCommit, DispatchAbort
  <2>2. UNCHANGED <<used, retries, redisUp, degrade>>
    BY <1>5 DEF DispatchCommit, DispatchAbort, mode
  <2>3. status' = status \/ status' = [status EXCEPT ![t] = "PROCESSING"]
    BY <1>5 DEF DispatchCommit, DispatchAbort
  <2>4. m = [op |-> "commit", task |-> t, srv |-> s, run |-> retries[t]]
    BY DEF Call
  <2>. HIDE DEF m
  <2>5. /\ status[t] = "PENDING"
        /\ \A c \in calls' : c.task = t => c.op \notin {"locked", "commit"}
    BY <2>1, <2>4 DEF DispatchInv
  <2>6. HealthyInv'
    BY <2>2 DEF HealthyInv
  <2>7. FreshInv'
    BY <2>1, <2>2, <2>3, <2>4, <2>5 DEF FreshInv, TypeOK
  <2>8. DispatchInv'
    BY <2>1, <2>2, <2>3, <2>5 DEF DispatchInv, TypeOK, Calls
  <2>9. HookInv'
    BY <2>1, <2>2, <2>3, <2>5 DEF HookInv, TypeOK, Calls, Terminal
  <2>. QED  BY <2>6, <2>7, <2>8, <2>9
<1>6. ASSUME NEW t \in Tasks, NEW to, Advance(t, to) \/ DeletePicture(t),
             to \in {"AWAITING", "RETRY"}
      PROVE  ControlInv'
  <2>1. UNCHANGED <<used, retries, redisUp, degrade, calls>>
    BY <1>6 DEF Advance, DeletePicture, mode
  <2>2. \/ status[t] \in Dispatched /\ status' = [status EXCEPT ![t] = to]
        \/ /\ status[t] # "none" /\ status' = [status EXCEPT ![t] = "none"]
           /\ \A c \in calls : c.task = t => c.op \notin {"locked", "commit"}
    BY <1>6 DEF Advance, DeletePicture, RowFree, Dispatched
  <2>3. HealthyInv'
    BY <2>1 DEF HealthyInv
  <2>4. FreshInv'
    BY <1>6, <2>1, <2>2 DEF FreshInv, TypeOK, Dispatched
  <2>5. DispatchInv'
    BY <1>6, <2>1, <2>2 DEF DispatchInv, TypeOK, Calls, Dispatched
  <2>6. HookInv'
    BY <1>6, <2>1, <2>2 DEF HookInv, TypeOK, Calls, Dispatched, Terminal
  <2>. QED  BY <2>3, <2>4, <2>5, <2>6
<1>7. ASSUME NEW s \in Servers, NEW t \in Tasks, NEW to \in Terminal,
             Terminate(s, t, to)
      PROVE  ControlInv'
  <2>. DEFINE h == Call("hookConcurrent", t, s)
  <2>1. /\ status[t] \in Dispatched
        /\ status' = [status EXCEPT ![t] = to]
        /\ calls' = calls \cup {h}
        /\ UNCHANGED <<used, retries, redisUp, degrade>>
    BY <1>7 DEF Terminate, Stragglers, Quiet, Dispatched, Running, mode
  <2>2. h = [op |-> "hookConcurrent", task |-> t, srv |-> s, run |-> retries[t]]
    BY DEF Call
  <2>. HIDE DEF h
  <2>3. t \in used
    BY <2>1 DEF FreshInv, Dispatched
  <2>4. /\ \A c \in calls : c.task = t =>
              c.op \notin {"verified", "overfull", "locked", "commit"}
        /\ \A c \in calls : c.task = t /\ c.op = "hookConcurrent" =>
              c.run # retries[t]
    BY <2>1 DEF FreshInv, DispatchInv, HookInv, Dispatched, Terminal, TypeOK, Calls
  <2>5. HealthyInv'
    BY <2>1 DEF HealthyInv
  <2>6. FreshInv'
    BY <1>7, <2>1, <2>2, <2>3, <2>4 DEF FreshInv, TypeOK
  <2>7. DispatchInv'
    BY <1>7, <2>1, <2>2, <2>4 DEF DispatchInv, TypeOK, Calls
  <2>8. HookInv'
    BY <1>7, <2>1, <2>2, <2>4 DEF HookInv, TypeOK, Calls
  <2>. QED  BY <2>5, <2>6, <2>7, <2>8
<1>8. ASSUME NEW t \in Tasks, RetryFailedTask(t)
      PROVE  ControlInv'
  <2>1. /\ status[t] = "FAILED"
        /\ status' = [status EXCEPT ![t] = "PENDING"]
        /\ retries' = [retries EXCEPT ![t] = retries[t] + 1]
        /\ UNCHANGED <<used, redisUp, degrade, calls>>
    BY <1>8 DEF RetryFailedTask, mode
  <2>2. HealthyInv'
    BY <2>1 DEF HealthyInv
  <2>3. FreshInv'
    BY <2>1 DEF FreshInv, TypeOK
  <2>4. DispatchInv'
    BY <2>1 DEF DispatchInv, TypeOK, Calls
  <2>5. HookInv'
    <3>1. ASSUME NEW c \in calls, c.op = "hookConcurrent", c.task = t
          PROVE  c.run < retries[t] + 1
      BY <3>1 DEF HookInv, TypeOK, Calls
    <3>. QED  BY <2>1, <3>1 DEF HookInv, TypeOK, Calls
  <2>. QED  BY <2>2, <2>3, <2>4, <2>5
<1>9. ASSUME NEW c \in calls, HookReleaseConcurrent(c) \/ HookReleaseQueue(c)
      PROVE  ControlInv'
  <2>. DEFINE n == [c EXCEPT !.op = "hookQueue"]
  <2>1. /\ c \in Calls
        /\ c.op \in {"hookConcurrent", "hookQueue"}
        /\ calls' = (calls \ {c}) \cup {n} \/ calls' = calls \ {c}
        /\ UNCHANGED <<status, used, retries, redisUp, degrade>>
    BY <1>9 DEF HookReleaseConcurrent, HookReleaseQueue, mode, TypeOK
  <2>2. n.op = "hookQueue" /\ n.task = c.task /\ n \in Calls
    BY <2>1 DEF Calls, Ops
  <2>. HIDE DEF n
  <2>3. HealthyInv'
    BY <2>1 DEF HealthyInv
  <2>4. FreshInv'
    BY <2>1, <2>2 DEF FreshInv
  <2>5. DispatchInv'
    BY <2>1, <2>2 DEF DispatchInv
  <2>6. HookInv'
    BY <2>1, <2>2 DEF HookInv
  <2>. QED  BY <2>3, <2>4, <2>5, <2>6
<1>10. ASSUME NEW s \in Servers, Crash(s)
       PROVE  ControlInv'
  <2>1. /\ calls' \subseteq calls
        /\ degrade' = [degrade EXCEPT ![s] = FALSE]
        /\ UNCHANGED <<status, used, retries, redisUp>>
    BY <1>10 DEF Crash
  <2>. QED
    BY <2>1 DEF HealthyInv, FreshInv, DispatchInv, HookInv, TypeOK
<1>11. ASSUME NEW s \in Servers, HealthCheck(s)
       PROVE  ControlInv'
  <2>1. /\ degrade' = degrade \/ degrade' = [degrade EXCEPT ![s] = FALSE]
        /\ UNCHANGED <<status, used, retries, redisUp, calls>>
    BY <1>11 DEF HealthCheck, HealthRecovered, HealthLeaves, HealthTimesOut
  <2>. QED
    BY <2>1 DEF HealthyInv, FreshInv, DispatchInv, HookInv, TypeOK
<1>12. ASSUME NEW q \in Quotas
       PROVE  ~Reconcile(q) /\ ~KeysExpire(q)
  BY DEF Quiet, Reconcile, ReconcileRead, ReconcileRelease, ReconOp, KeysExpire, FreshInv
<1>13. ~RedisFails /\ ~RedisReturns
  BY DEF Quiet, RedisFails, RedisReturns, HealthyInv
<1>14. CASE UNCHANGED vars
  BY <1>14 DEF vars, mode, redis, HealthyInv, FreshInv, DispatchInv, HookInv
<1>16. CASE Chain
  <2>1. ASSUME NEW image \in Tasks, NEW video \in Tasks, SubmitChain(image, video)
        PROVE  ControlInv'
    <3>1. /\ image \notin used /\ video \notin used
          /\ used' = used \cup {image, video}
          /\ \A t \in Tasks : t \notin {image, video} => status'[t] = status[t]
          /\ UNCHANGED <<retries, redisUp, degrade, calls>>
      BY <2>1 DEF SubmitChain, mode, TypeOK
    <3>2. \A c \in calls : c.task \in Tasks /\ c.task \notin {image, video}
      BY <3>1 DEF FreshInv, TypeOK, Calls
    <3>3. HealthyInv'
      BY <3>1 DEF HealthyInv
    <3>4. FreshInv'
      BY <3>1, <3>2 DEF FreshInv
    <3>5. DispatchInv' /\ HookInv'
      BY <3>1, <3>2 DEF DispatchInv, HookInv
    <3>. QED  BY <3>3, <3>4, <3>5
  <2>2. ASSUME NEW t \in Tasks, ActivateNextTask(t) \/ \E s \in Servers : ChainFails(s, t)
        PROVE  ControlInv'
    <3>1. /\ UNCHANGED <<used, retries, redisUp, degrade, calls>>
          /\ RowFree(t) /\ status[t] # "none"
          /\ \/ status[t] = "CHAIN" /\ status' = [status EXCEPT ![t] = "PENDING"]
             \/ status' = [status EXCEPT ![t] = "FAILED"]
      BY <2>2 DEF ActivateNextTask, ChainFails, Stragglers, Quiet, mode
    <3>2. HealthyInv'
      BY <3>1 DEF HealthyInv
    <3>3. FreshInv'
      BY <3>1 DEF FreshInv, TypeOK
    <3>4. DispatchInv'
      BY <3>1 DEF DispatchInv, RowFree, TypeOK, Calls
    <3>5. HookInv'
      BY <3>1 DEF HookInv, TypeOK, Calls, Terminal
    <3>. QED  BY <3>2, <3>3, <3>4, <3>5
  <2>. QED  BY <1>16, <2>1, <2>2 DEF Chain
<1>17. ~Straggle
  BY DEF Straggle, StragglerFails, StragglerSaves, FreshInv
<1>15. ASSUME NEW t \in Tasks, Execution(t)
       PROVE  ControlInv'
  BY <1>6, <1>7, <1>8, <1>15 DEF Execution
<1>. QED
  BY <1>1, <1>2, <1>3, <1>4, <1>5, <1>9, <1>10, <1>11, <1>12, <1>13, <1>14, <1>15, <1>16, <1>17
     DEF Next, Submission, Dispatch, Hook

\* A pair that has no hold before a step and has one after it was added by
\* DispatchReserve; the steps that release take the hold of their own run away.
LEMMA HoldersStep ==
    ASSUME Quiet, TypeOK, ControlInv, [Next]_vars
    PROVE  \/ /\ Holders' \subseteq Holders
              /\ count'["concurrent"] = count["concurrent"]
           \/ \E p \in Runs : /\ Holders' \subseteq Holders \cup {p}
                              /\ count'["concurrent"] = count["concurrent"] + 1
           \/ \E p \in Holders : /\ Holders' \subseteq Holders \ {p}
                                 /\ count'["concurrent"] >= count["concurrent"] - 1
<1>. DEFINE n == count["concurrent"]
            Same == Holders' \subseteq Holders /\ n' = n
            Goal == \/ Same
                    \/ \E p \in Runs : Holders' \subseteq Holders \cup {p} /\ n' = n + 1
                    \/ \E p \in Holders : Holders' \subseteq Holders \ {p} /\ n' >= n - 1
<1>. SUFFICES Goal
  OBVIOUS
<1>1. n \in Nat /\ "concurrent" \in Quotas /\ "queue" \in Quotas
  BY DEF TypeOK, Quotas
<1>2. ASSUME NEW s \in Servers, NEW t \in Tasks, Submission(s, t)
      PROVE  Same
  <2>1. ASSUME NEW max \in QueueLimits, SubmitReserve(s, t, max)
        PROVE  Same
    <3>1. PICK o \in {"verified", "overfull"} :
            calls' = calls \cup {Call(o, t, s)} \/ calls' = calls
      BY <2>1, HealthyReserve DEF SubmitReserve, ControlInv
    <3>2. UNCHANGED <<status, retries>>
      BY <2>1 DEF SubmitReserve
    <3>3. n' = n
      <4>1. LuaReserve("queue", t) \/ UNCHANGED redis
        BY <2>1, HealthyReserve DEF SubmitReserve, ControlInv
      <4>. QED  BY <1>1, <4>1 DEF LuaReserve, redis, TypeOK
    <3>. QED  BY <3>1, <3>2, <3>3 DEF Holders, Holds, Call
  <2>2. CASE SubmitReject(s, t) \/ SubmitPersist(s, t) \/ SubmitAbort(s, t)
    <3>1. calls' \subseteq calls /\ retries' = retries
      BY <2>2 DEF SubmitReject, SubmitPersist, SubmitAbort
    <3>2. status' = status \/ status' = [status EXCEPT ![t] = "PENDING"]
      BY <2>2 DEF SubmitReject, SubmitPersist, SubmitAbort
    <3>3. n' = n
      <4>1. LuaRelease("queue", t) \/ UNCHANGED redis
        BY <2>2, HealthyRelease DEF SubmitReject, SubmitPersist, SubmitAbort, ControlInv
      <4>. QED  BY <1>1, <4>1 DEF LuaRelease, redis, TypeOK
    <3>. QED  BY <3>1, <3>2, <3>3 DEF Holders, Holds, Runs, Dispatched, TypeOK
  <2>. QED  BY <1>2, <2>1, <2>2 DEF Submission
<1>3. ASSUME NEW s \in Servers, NEW t \in Tasks, Dispatch(s, t)
      PROVE  Goal
  <2>. DEFINE p == <<t, retries[t]>>
  <2>1. p \in Runs
    BY DEF Runs, TypeOK
  <2>2. CASE DispatchLock(s, t)
    <3>1. /\ calls' = calls \cup {Call("locked", t, s)}
          /\ UNCHANGED <<status, retries, redis>>
      BY <2>2 DEF DispatchLock
    <3>. QED  BY <3>1 DEF Holders, Holds, Call, redis
  <2>3. ASSUME NEW max \in ConcurrentLimits, DispatchReserve(s, t, max)
        PROVE  Goal
    <3>. DEFINE idle == calls \ {Call("locked", t, s)}
                m == Call("commit", t, s)
    <3>1. UNCHANGED <<status, retries>>
      BY <2>3 DEF DispatchReserve
    <3>2. \/ LuaReserve("concurrent", t) /\ calls' = idle \cup {m}
          \/ UNCHANGED redis /\ calls' = idle
      BY <2>3, HealthyReserve DEF DispatchReserve, ControlInv
    <3>3. CASE LuaReserve("concurrent", t) /\ calls' = idle \cup {m}
      <4>1. n' = n + 1
        BY <1>1, <3>3 DEF LuaReserve, TypeOK
      <4>2. m.task = t /\ m.run = retries[t]
        BY DEF Call
      <4>3. ASSUME NEW r \in Holders', r # p
            PROVE  r \in Holders
        <5>1. r \in Runs /\ (r[1] # t \/ r[2] # retries[t])
          BY <4>3 DEF Holders, Runs
        <5>. HIDE DEF m
        <5>. QED  BY <3>1, <3>3, <4>2, <4>3, <5>1 DEF Holders, Holds
      <4>. QED  BY <2>1, <4>1, <4>3
    <3>4. CASE UNCHANGED redis /\ calls' = idle
      BY <3>1, <3>4 DEF Holders, Holds, redis
    <3>. QED  BY <3>2, <3>3, <3>4
  <2>4. CASE DispatchCommit(s, t)
    <3>. DEFINE m == Call("commit", t, s)
    <3>1. /\ m \in calls /\ calls' = calls \ {m}
          /\ status' = [status EXCEPT ![t] = "PROCESSING"]
          /\ UNCHANGED <<retries, redis>>
      BY <2>4 DEF DispatchCommit
    <3>2. m.op = "commit" /\ m.task = t /\ m.run = retries[t]
      BY DEF Call
    <3>. HIDE DEF m
    <3>. QED  BY <3>1, <3>2 DEF Holders, Holds, Runs, redis, TypeOK
  <2>5. CASE DispatchAbort(s, t)
    <3>. DEFINE m == Call("commit", t, s)
    <3>1. /\ m \in calls /\ calls' = calls \ {m}
          /\ UNCHANGED <<status, retries>>
          /\ ReleaseSlot(s, "concurrent", t)
      BY <2>5 DEF DispatchAbort
    <3>2. m.op = "commit" /\ m.task = t /\ m.run = retries[t]
      BY DEF Call
    <3>. HIDE DEF m
    <3>3. n' >= n - 1
      <4>1. LuaRelease("concurrent", t)
        BY <3>1, HealthyRelease DEF ControlInv
      <4>. QED  BY <1>1, <4>1 DEF LuaRelease, redis, TypeOK
    <3>4. p \in Holders
      BY <2>1, <3>1, <3>2 DEF Holders, Holds
    <3>5. Holders' \subseteq Holders
      BY <3>1 DEF Holders, Holds
    <3>6. p \notin Holders'
      <4>1. status[t] = "PENDING"
        BY <3>1, <3>2 DEF ControlInv, DispatchInv
      <4>2. \A c \in calls' : c.task = t => c.op # "commit"
        BY <3>1, <3>2 DEF ControlInv, DispatchInv
      <4>3. \A c \in calls' : c.task = t /\ c.op = "hookConcurrent" => c.run # retries[t]
        BY <3>1, <4>1 DEF ControlInv, HookInv, Terminal, TypeOK, Calls
      <4>. QED  BY <3>1, <4>1, <4>2, <4>3 DEF Holders, Holds, Dispatched
    <3>. QED  BY <3>3, <3>4, <3>5, <3>6
  <2>. QED  BY <1>3, <2>2, <2>3, <2>4, <2>5 DEF Dispatch
<1>4. ASSUME NEW t \in Tasks, Execution(t)
      PROVE  Same
  <2>1. UNCHANGED redis
    BY <1>4 DEF Execution, Advance, Terminate, RetryFailedTask, DeletePicture
  <2>2. ASSUME NEW to \in {"AWAITING", "RETRY"}, Advance(t, to)
        PROVE  Holders' \subseteq Holders
    <3>1. /\ status[t] \in Dispatched /\ status' = [status EXCEPT ![t] = to]
          /\ UNCHANGED <<retries, calls>>
      BY <2>2 DEF Advance, Dispatched
    <3>. QED  BY <3>1 DEF Holders, Holds, Runs, TypeOK
  <2>3. ASSUME NEW s \in Servers, NEW to \in Terminal, Terminate(s, t, to)
        PROVE  Holders' \subseteq Holders
    <3>. DEFINE h == Call("hookConcurrent", t, s)
    <3>1. /\ status[t] \in Dispatched
          /\ status' = [status EXCEPT ![t] = to]
          /\ calls' = calls \cup {h} /\ retries' = retries
      BY <2>3 DEF Terminate, Stragglers, Quiet, Dispatched, Running
    <3>2. h.task = t /\ h.run = retries[t] /\ to \notin Dispatched
      BY DEF Call, Terminal, Dispatched
    <3>. HIDE DEF h
    <3>. QED  BY <3>1, <3>2 DEF Holders, Holds, Runs, TypeOK
  <2>4. CASE RetryFailedTask(t) \/ DeletePicture(t)
    <3>1. /\ calls' = calls
          /\ \E st \in {"PENDING", "none"} : status' = [status EXCEPT ![t] = st]
          /\ \A u \in Tasks : u # t => retries'[u] = retries[u]
      BY <2>4 DEF RetryFailedTask, DeletePicture, TypeOK
    <3>2. status'[t] \notin Dispatched /\ \A u \in Tasks : u # t => status'[u] = status[u]
      BY <3>1 DEF TypeOK, Dispatched
    <3>3. ASSUME NEW r \in Holders'
          PROVE  r \in Holders
      <4>1. r \in Runs /\ r[1] \in Tasks
        BY DEF Holders, Runs
      <4>2. CASE r[1] = t
        BY <3>1, <3>2, <3>3, <4>1, <4>2 DEF Holders, Holds
      <4>3. CASE r[1] # t
        BY <3>1, <3>2, <3>3, <4>1, <4>3 DEF Holders, Holds
      <4>. QED  BY <4>2, <4>3
    <3>. QED  BY <2>1, <3>3 DEF redis
  <2>. QED  BY <1>4, <2>1, <2>2, <2>3, <2>4 DEF Execution, redis
<1>5. ASSUME NEW c \in calls, HookReleaseConcurrent(c)
      PROVE  Goal
  <2>. DEFINE p == <<c.task, c.run>>
              k == [c EXCEPT !.op = "hookQueue"]
  <2>1. /\ c \in Calls /\ c.op = "hookConcurrent"
        /\ calls' = (calls \ {c}) \cup {k}
        /\ UNCHANGED <<status, retries>>
        /\ ReleaseSlot(c.srv, "concurrent", c.task)
    BY <1>5 DEF HookReleaseConcurrent, TypeOK
  <2>2. k.op = "hookQueue"
    BY <2>1 DEF Calls
  <2>. HIDE DEF k
  <2>3. n' >= n - 1
    <3>1. LuaRelease("concurrent", c.task)
      BY <2>1, HealthyRelease DEF ControlInv, Calls
    <3>. QED  BY <1>1, <3>1 DEF LuaRelease, redis, TypeOK
  <2>4. p \in Holders
    BY <2>1 DEF Holders, Holds, Runs, Calls
  <2>5. Holders' \subseteq Holders
    BY <2>1, <2>2 DEF Holders, Holds
  <2>6. p \notin Holders'
    <3>1. /\ c.run # retries[c.task] \/ status[c.task] \notin Dispatched
          /\ \A d \in calls' : ~(/\ d.op = "hookConcurrent"
                                 /\ d.task = c.task /\ d.run = c.run)
      BY <2>1, <2>2 DEF ControlInv, HookInv, Terminal, Dispatched, TypeOK, Calls
    <3>2. \A d \in calls' : ~(/\ d.op = "commit"
                              /\ d.task = c.task /\ d.run = c.run)
      <4>1. SUFFICES ASSUME NEW d \in calls, d.op = "commit",
                            d.task = c.task, d.run = c.run
                     PROVE  FALSE
        BY <2>1, <2>2
      <4>2. status[c.task] = "PENDING" /\ c.run = retries[c.task]
        BY <4>1 DEF ControlInv, DispatchInv
      <4>. QED  BY <2>1, <4>2 DEF ControlInv, HookInv, Terminal, TypeOK, Calls
    <3>. QED  BY <2>1, <3>1, <3>2 DEF Holders, Holds
  <2>. QED  BY <2>3, <2>4, <2>5, <2>6
<1>6. ASSUME NEW c \in calls, HookReleaseQueue(c)
      PROVE  Same
  <2>1. /\ calls' \subseteq calls
        /\ UNCHANGED <<status, retries>>
        /\ c \in Calls /\ ReleaseSlot(c.srv, "queue", c.task)
    BY <1>6 DEF HookReleaseQueue, TypeOK
  <2>2. n' = n
    <3>1. LuaRelease("queue", c.task)
      BY <2>1, HealthyRelease DEF ControlInv, Calls
    <3>. QED  BY <1>1, <3>1 DEF LuaRelease, redis, TypeOK
  <2>. QED  BY <2>1, <2>2 DEF Holders, Holds
<1>7. ASSUME NEW s \in Servers, HealthCheck(s) \/ Crash(s)
      PROVE  Same
  <2>1. calls' \subseteq calls /\ UNCHANGED <<status, retries, redis>>
    BY <1>7 DEF HealthCheck, HealthRecovered, HealthLeaves, HealthTimesOut, Crash
  <2>. QED  BY <2>1 DEF Holders, Holds, redis
<1>8. ASSUME NEW q \in Quotas
      PROVE  ~Reconcile(q) /\ ~KeysExpire(q)
  BY DEF Quiet, Reconcile, ReconcileRead, ReconcileRelease, ReconOp, KeysExpire,
         ControlInv, FreshInv
<1>9. ~RedisFails /\ ~RedisReturns
  BY DEF Quiet, RedisFails, RedisReturns, ControlInv, HealthyInv
<1>10. CASE UNCHANGED vars
  BY <1>10 DEF vars, redis, Holders, Holds
<1>11. ASSUME Chain
       PROVE  Same
  <2>1. UNCHANGED <<retries, redis, calls>>
    BY <1>11 DEF Chain, SubmitChain, ActivateNextTask, ChainFails, Stragglers, Quiet
  <2>2. \A t \in Tasks : status'[t] \in Dispatched => status'[t] = status[t]
    BY <1>11 DEF Chain, SubmitChain, ActivateNextTask, ChainFails, Dispatched, TypeOK
  <2>. QED  BY <2>1, <2>2 DEF Holders, Holds, Runs, redis
<1>12. ~Straggle
  BY DEF Straggle, StragglerFails, StragglerSaves, ControlInv, FreshInv
<1>. QED
  BY <1>2, <1>3, <1>4, <1>5, <1>6, <1>7, <1>8, <1>9, <1>10, <1>11, <1>12 DEF Next, Hook

HoldersInv == IsFiniteSet(Holders) /\ Cardinality(Holders) <= count["concurrent"]

\* There are finitely many runs of tasks, so sets of them can be counted.
LEMMA RunsFinite == IsFiniteSet(Runs)
<1>1. IsFiniteSet(0..MaxRetry)
  BY FS_Interval, SlotQuotaAssumptions
<1>. QED  BY <1>1, FS_Product, SlotQuotaAssumptions DEF Runs

\* Every step keeps the number of holders at or below the counter.
LEMMA HoldersBound ==
    ASSUME Quiet, TypeOK, TypeOK', ControlInv, HoldersInv, [Next]_vars
    PROVE  HoldersInv'
<1>. DEFINE n == count["concurrent"]
<1>1. n \in Nat /\ n' \in Nat
  BY DEF TypeOK, Quotas
<1>2. IsFiniteSet(Holders) /\ Cardinality(Holders) \in Nat /\ Cardinality(Holders) <= n
  BY FS_CardinalityType DEF HoldersInv
<1>3. IsFiniteSet(Holders') /\ Cardinality(Holders') \in Nat
  <2>1. Holders' \in SUBSET Runs
    BY DEF Holders
  <2>. QED  BY <2>1, RunsFinite, FS_Subset, FS_CardinalityType
<1>4. CASE Holders' \subseteq Holders /\ n' = n
  <2>1. Cardinality(Holders') <= Cardinality(Holders)
    BY <1>2, <1>4, FS_Subset
  <2>. QED  BY <1>1, <1>2, <1>3, <1>4, <2>1 DEF HoldersInv
<1>5. ASSUME NEW p \in Runs, Holders' \subseteq Holders \cup {p}, n' = n + 1
      PROVE  HoldersInv'
  <2>. DEFINE H == Holders \cup {p}
  <2>1. IsFiniteSet(H) /\ Cardinality(H) \in Nat
    BY <1>2, FS_AddElement, FS_CardinalityType
  <2>2. Cardinality(H) <= Cardinality(Holders) + 1
    <3>1. Cardinality(H) = IF p \in Holders THEN Cardinality(Holders)
                                            ELSE Cardinality(Holders) + 1
      BY <1>2, FS_AddElement
    <3>. HIDE DEF H
    <3>. QED  BY <1>2, <3>1
  <2>3. Cardinality(Holders') <= Cardinality(H)
    BY <1>5, <2>1, FS_Subset
  <2>. HIDE DEF H
  <2>. QED  BY <1>1, <1>2, <1>3, <1>5, <2>1, <2>2, <2>3 DEF HoldersInv
<1>6. ASSUME NEW p \in Holders, Holders' \subseteq Holders \ {p}, n' >= n - 1
      PROVE  HoldersInv'
  <2>. DEFINE H == Holders \ {p}
  <2>1. IsFiniteSet(H) /\ Cardinality(H) = Cardinality(Holders) - 1
    BY <1>2, <1>6, FS_RemoveElement
  <2>2. Cardinality(Holders') <= Cardinality(H)
    BY <1>6, <2>1, FS_Subset
  <2>. HIDE DEF H
  <2>. QED  BY <1>1, <1>2, <1>3, <1>6, <2>1, <2>2 DEF HoldersInv
<1>. QED  BY <1>4, <1>5, <1>6, HoldersStep

\* Nobody holds a slot at first.
LEMMA HoldersInit ==
    ASSUME Init
    PROVE  ControlInv /\ HoldersInv
<1>1. ControlInv
  BY DEF Init, ControlInv, HealthyInv, FreshInv, DispatchInv, HookInv
<1>2. Holders = {}
  BY DEF Init, Holders, Holds, Runs, Dispatched
<1>3. count["concurrent"] = 0
  BY DEF Init, Quotas
<1>. QED  BY <1>1, <1>2, <1>3, FS_EmptySet DEF HoldersInv

\* Each PROCESSING task holds its present run, and different tasks hold
\* different runs.
LEMMA HoldersImplyBound ==
    ASSUME TypeOK, SlotAccounting, HoldersInv
    PROVE  ConcurrencyBound
<1>. DEFINE R == Rows({"PROCESSING"})
            f == [t \in R |-> <<t, retries[t]>>]
<1>1. ASSUME NEW t \in R
      PROVE  <<t, retries[t]>> \in Holders
  BY DEF Rows, Holders, Holds, Runs, Dispatched, TypeOK
<1>2. f \in Injection(R, Holders)
  <2>1. f \in [R -> Holders]
    BY <1>1
  <2>2. \A a, b \in R : f[a] = f[b] => a = b
    OBVIOUS
  <2>. QED  BY <2>1, <2>2 DEF Injection, IsInjective
<1>3. IsFiniteSet(R) /\ Cardinality(R) <= Cardinality(Holders)
  <2>. HIDE DEF f, R
  <2>. QED  BY <1>2, FS_Injection DEF HoldersInv
<1>4. Cardinality(R) \in Nat /\ Cardinality(Holders) \in Nat
  BY <1>3, FS_CardinalityType DEF HoldersInv
<1>5. PICK lim \in Limits("concurrent") : count["concurrent"] <= lim
  BY DEF SlotAccounting, Under, Quotas
<1>6. lim \in Nat /\ count["concurrent"] \in Nat
  BY SlotQuotaAssumptions DEF Limits, TypeOK, Quotas
<1>7. Cardinality(R) <= lim
  <2>. HIDE DEF R
  <2>. QED  BY <1>3, <1>4, <1>5, <1>6 DEF HoldersInv
<1>. QED  BY <1>7 DEF ConcurrencyBound, Under

\* max_concurrent holds for every number of tasks, servers and restarts, with
\* servers crashing between any two steps, tasks of chains included, as long as
\* no reconciler, expiry or outage of Redis takes part and no straggler changes a
\* row whose run has ended.
THEOREM ConcurrencyLimit ==
    ASSUME Quiet
    PROVE  Spec => []ConcurrencyBound
<1>1. TypeOK /\ ControlInv /\ HoldersInv /\ [Next]_vars
        => TypeOK' /\ ControlInv' /\ HoldersInv'
  BY TypeStep, ControlStep, HoldersBound
<1>2. TypeOK /\ SlotAccounting /\ HoldersInv => ConcurrencyBound
  BY HoldersImplyBound
<1>. QED
  BY <1>1, <1>2, HoldersInit, TypeCorrect, Accounting, PTL DEF Spec

(***************************************************************************)
(* The bound on queued rows.  A row that is not terminal keeps the id of    *)
(* its submission in the queue set: the submission had reserved it before   *)
(* it wrote the row, and the one release that is due for it waits for the   *)
(* row to be terminal.  A restart breaks the tie, because the hook of the   *)
(* run before may release the id of a row that is active again; the rows of *)
(* a chain never had a slot.                                                *)
(***************************************************************************)

Hooks == {"hookConcurrent", "hookQueue"}
KeepsSlot(t) == status[t] \in QueueActive /\ retries[t] = 0 /\ t \notin chained

SlotKept ==
    /\ \A t \in Tasks : KeepsSlot(t) => t \in members["queue"]
    /\ \A c \in calls : c.op = "verified" => c.task \in members["queue"]
    /\ \A c \in calls : c.op \in Hooks => ~KeepsSlot(c.task)

\* The scripts on the one quota leave the other's set alone.
LEMMA OtherQuota ==
    ASSUME TypeOK, NEW q \in Quotas, NEW t \in Tasks
    PROVE  /\ LuaReserve(q, t) => members'[q] = members[q] \cup {t}
           /\ LuaRelease(q, t) => members'[q] = members[q] \ {t}
           /\ q # "queue" /\ (LuaReserve(q, t) \/ LuaRelease(q, t)) =>
                members'["queue"] = members["queue"]
BY DEF TypeOK, Quotas, LuaReserve, LuaRelease, redis

\* A submission takes its slot before it writes its row, and gives it back
\* only while nobody else knows its id.
LEMMA SubmissionKeepsSlots ==
    ASSUME TypeOK, ControlInv, SlotKept, NEW s \in Servers, NEW t \in Tasks,
           Submission(s, t)
    PROVE  SlotKept'
<1>. DEFINE M == members["queue"]
<1>0. "queue" \in Quotas /\ \A c \in calls : c.task \in Tasks
  BY DEF Quotas, TypeOK, Calls
<1>1. ASSUME NEW max \in QueueLimits, SubmitReserve(s, t, max)
      PROVE  SlotKept'
  <2>1. PICK o \in {"verified", "overfull"} :
          \/ calls' = calls \cup {Call(o, t, s)} /\ LuaReserve("queue", t)
          \/ calls' = calls /\ UNCHANGED redis
    BY <1>1, HealthyReserve DEF SubmitReserve, ControlInv
  <2>2. UNCHANGED <<status, chained, retries>>
    BY <1>1 DEF SubmitReserve
  <2>3. Call(o, t, s).op = o /\ Call(o, t, s).task = t
    BY DEF Call
  <2>4. CASE calls' = calls \cup {Call(o, t, s)} /\ LuaReserve("queue", t)
    <3>1. M' = M \cup {t}
      BY <1>0, <2>4, OtherQuota
    <3>. QED  BY <2>2, <2>3, <2>4, <3>1 DEF SlotKept, KeepsSlot, Hooks
  <2>5. CASE calls' = calls /\ UNCHANGED redis
    BY <2>2, <2>5 DEF SlotKept, KeepsSlot, redis
  <2>. QED  BY <2>1, <2>4, <2>5
<1>2. CASE SubmitReject(s, t) \/ SubmitPersist(s, t) \/ SubmitAbort(s, t)
  <2>1. PICK o \in {"verified", "overfull"} :
          /\ Call(o, t, s) \in calls /\ calls' = calls \ {Call(o, t, s)}
          /\ SubmitPersist(s, t) => o = "verified"
    BY <1>2 DEF SubmitReject, SubmitPersist, SubmitAbort
  <2>2. Call(o, t, s).op = o /\ Call(o, t, s).task = t
    BY DEF Call
  <2>3. status[t] = "none" /\ \A c \in calls' : c.task # t
    BY <2>1, <2>2 DEF ControlInv, FreshInv
  <2>4. CASE SubmitPersist(s, t)
    <3>1. /\ status' = [status EXCEPT ![t] = "PENDING"]
          /\ UNCHANGED <<chained, retries, members>>
      BY <2>4 DEF SubmitPersist, redis
    <3>2. t \in M
      BY <2>1, <2>2, <2>4 DEF SlotKept
    <3>. QED  BY <1>0, <2>1, <2>3, <3>1, <3>2 DEF SlotKept, KeepsSlot, TypeOK
  <2>5. CASE SubmitReject(s, t) \/ SubmitAbort(s, t)
    <3>1. UNCHANGED <<status, chained, retries>> /\ (UNCHANGED redis \/ LuaRelease("queue", t))
      BY <2>5, HealthyRelease DEF SubmitReject, SubmitAbort, ControlInv
    <3>2. M' = M \/ M' = M \ {t}
      BY <1>0, <3>1, OtherQuota DEF redis
    <3>3. ~KeepsSlot(t)
      BY <2>3 DEF KeepsSlot, QueueActive
    <3>. QED  BY <2>1, <2>3, <3>1, <3>2, <3>3 DEF SlotKept, KeepsSlot
  <2>. QED  BY <1>2, <2>4, <2>5
<1>. QED  BY <1>1, <1>2 DEF Submission

\* Dispatching and executing a task move its row, but no queue slot.
LEMMA ExecutionKeepsSlots ==
    ASSUME Quiet, TypeOK, ControlInv, SlotKept, NEW t \in Tasks,
           (\E s \in Servers : Dispatch(s, t)) \/ Execution(t)
    PROVE  SlotKept'
<1>. DEFINE M == members["queue"]
<1>0. "concurrent" \in Quotas /\ \A c \in calls : c.task \in Tasks
  BY DEF Quotas, TypeOK, Calls
<1>1. ASSUME NEW s \in Servers, Dispatch(s, t)
      PROVE  SlotKept'
  <2>1. M' = M
    <3>1. \/ UNCHANGED redis \/ LuaReserve("concurrent", t) \/ LuaRelease("concurrent", t)
      BY <1>1, HealthyReserve, HealthyRelease
         DEF Dispatch, DispatchLock, DispatchReserve, DispatchCommit, DispatchAbort, ControlInv
    <3>. QED  BY <1>0, <3>1, OtherQuota DEF redis
  <2>2. \A c \in calls' \ calls : c.op \notin Hooks \cup {"verified"}
    <3>1. calls' \subseteq calls \cup {Call("locked", t, s), Call("commit", t, s)}
      BY <1>1, HealthyReserve
         DEF Dispatch, DispatchLock, DispatchReserve, DispatchCommit, DispatchAbort, ControlInv
    <3>. QED  BY <3>1 DEF Call, Hooks
  <2>3. retries' = retries /\ chained' = chained
    BY <1>1 DEF Dispatch, DispatchLock, DispatchReserve, DispatchCommit, DispatchAbort
  <2>4. \/ status' = status
        \/ status[t] = "PENDING" /\ status' = [status EXCEPT ![t] = "PROCESSING"]
    <3>1. Call("commit", t, s) \in calls => status[t] = "PENDING"
      BY DEF ControlInv, DispatchInv, Call
    <3>. QED
      BY <1>1, <3>1
         DEF Dispatch, DispatchLock, DispatchReserve, DispatchCommit, DispatchAbort
  <2>5. \A u \in Tasks : KeepsSlot(u)' <=> KeepsSlot(u)
    BY <2>3, <2>4 DEF KeepsSlot, QueueActive, TypeOK
  <2>. QED  BY <1>0, <2>1, <2>2, <2>5 DEF SlotKept
<1>2. CASE Execution(t)
  <2>1. M' = M /\ chained' = chained
    BY <1>2 DEF Execution, Advance, Terminate, RetryFailedTask, DeletePicture, redis
  <2>2. \A u \in Tasks : KeepsSlot(u)' => KeepsSlot(u)
    <3>1. ASSUME NEW to \in {"AWAITING", "RETRY"}, Advance(t, to)
          PROVE  \A u \in Tasks : KeepsSlot(u)' => KeepsSlot(u)
      BY <2>1, <3>1 DEF Advance, KeepsSlot, QueueActive, TypeOK
    <3>2. ASSUME NEW s \in Servers, NEW to \in Terminal, Terminate(s, t, to)
          PROVE  \A u \in Tasks : KeepsSlot(u)' => KeepsSlot(u)
      BY <2>1, <3>2 DEF Terminate, KeepsSlot, QueueActive, Terminal, TypeOK
    <3>3. CASE RetryFailedTask(t)
      <4>1. retries'[t] # 0 /\ \A u \in Tasks : u # t =>
                status'[u] = status[u] /\ retries'[u] = retries[u]
        BY <3>3 DEF RetryFailedTask, TypeOK
      <4>. QED  BY <2>1, <4>1 DEF KeepsSlot
    <3>4. CASE DeletePicture(t)
      BY <2>1, <3>4 DEF DeletePicture, KeepsSlot, QueueActive, TypeOK
    <3>. QED  BY <1>2, <3>1, <3>2, <3>3, <3>4 DEF Execution
  <2>3. \A c \in calls' \ calls : c.task = t /\ c.op \in Hooks /\ ~KeepsSlot(t)'
    <3>1. ASSUME NEW s \in Servers, NEW to \in Terminal, Terminate(s, t, to)
          PROVE  \A c \in calls' \ calls : c.task = t /\ c.op \in Hooks /\ ~KeepsSlot(t)'
      BY <3>1 DEF Terminate, Stragglers, Quiet, KeepsSlot, QueueActive, Terminal, TypeOK, Call, Hooks
    <3>. QED  BY <1>2, <3>1 DEF Execution, Advance, RetryFailedTask, DeletePicture
  <2>. QED  BY <1>0, <2>1, <2>2, <2>3 DEF SlotKept, Hooks
<1>. QED  BY <1>1, <1>2

\* Every other step: a hook releases the slot of a row that no longer needs it.
LEMMA SlotKeptStep ==
    ASSUME Quiet, TypeOK, ControlInv, SlotKept, [Next]_vars
    PROVE  SlotKept'
<1>. DEFINE M == members["queue"]
<1>0. "queue" \in Quotas /\ "concurrent" \in Quotas /\ calls \subseteq Calls
  BY DEF Quotas, TypeOK
<1>1. ASSUME NEW c \in calls, HookReleaseConcurrent(c)
      PROVE  SlotKept'
  <2>. DEFINE k == [c EXCEPT !.op = "hookQueue"]
  <2>1. /\ c.op \in Hooks /\ c.srv \in Servers /\ c.task \in Tasks
        /\ calls' = (calls \ {c}) \cup {k}
        /\ UNCHANGED <<status, chained, retries>>
        /\ ReleaseSlot(c.srv, "concurrent", c.task)
    BY <1>0, <1>1 DEF HookReleaseConcurrent, Hooks, Calls
  <2>2. k.op = "hookQueue" /\ k.task = c.task
    BY <1>0 DEF Calls
  <2>. HIDE DEF k
  <2>3. M' = M
    BY <1>0, <2>1, HealthyRelease, OtherQuota DEF ControlInv
  <2>. QED  BY <2>1, <2>2, <2>3 DEF SlotKept, KeepsSlot
<1>2. ASSUME NEW c \in calls, HookReleaseQueue(c)
      PROVE  SlotKept'
  <2>1. /\ c.op \in Hooks /\ c.srv \in Servers /\ c.task \in Tasks
        /\ calls' = calls \ {c}
        /\ UNCHANGED <<status, chained, retries>>
        /\ ReleaseSlot(c.srv, "queue", c.task)
    BY <1>0, <1>2 DEF HookReleaseQueue, Hooks, Calls
  <2>2. M' = M \ {c.task}
    BY <1>0, <2>1, HealthyRelease, OtherQuota DEF ControlInv
  <2>3. ~KeepsSlot(c.task)
    BY <2>1 DEF SlotKept
  <2>4. \A d \in calls : d.op = "verified" => d.task # c.task
    BY <2>1 DEF ControlInv, FreshInv, Hooks
  <2>. QED  BY <2>1, <2>2, <2>3, <2>4 DEF SlotKept, KeepsSlot
<1>3. ASSUME NEW s \in Servers, HealthCheck(s) \/ Crash(s)
      PROVE  SlotKept'
  <2>1. calls' \subseteq calls /\ UNCHANGED <<status, chained, retries, redis>>
    BY <1>3 DEF HealthCheck, HealthRecovered, HealthLeaves, HealthTimesOut, Crash
  <2>. QED  BY <2>1 DEF SlotKept, KeepsSlot, redis
<1>4. ASSUME NEW q \in Quotas
      PROVE  ~Reconcile(q) /\ ~KeysExpire(q)
  BY DEF Quiet, Reconcile, ReconcileRead, ReconcileRelease, ReconOp, KeysExpire,
         ControlInv, FreshInv
<1>5. ~RedisFails /\ ~RedisReturns
  BY DEF Quiet, RedisFails, RedisReturns, ControlInv, HealthyInv
<1>6. CASE UNCHANGED vars
  BY <1>6 DEF vars, SlotKept, KeepsSlot
<1>7. CASE Chain
  <2>1. UNCHANGED <<retries, members, calls>>
    BY <1>7 DEF Chain, SubmitChain, ActivateNextTask, ChainFails, Stragglers, Quiet, redis
  <2>2. \A t \in Tasks : KeepsSlot(t)' => KeepsSlot(t)
    BY <1>7, <2>1
       DEF Chain, SubmitChain, ActivateNextTask, ChainFails, KeepsSlot, QueueActive, TypeOK
  <2>3. \A c \in calls : c.task \in Tasks
    BY <1>0 DEF Calls
  <2>. QED  BY <2>1, <2>2, <2>3 DEF SlotKept
<1>8. ~Straggle
  BY DEF Straggle, StragglerFails, StragglerSaves, ControlInv, FreshInv
<1>. QED
  BY <1>1, <1>2, <1>3, <1>4, <1>5, <1>6, <1>7, <1>8, SubmissionKeepsSlots, ExecutionKeepsSlots
     DEF Next, Hook

\* The rows that keep a slot are members of the set the counter bounds.
LEMMA SlotsBoundRows ==
    ASSUME TypeOK, SlotAccounting, SlotKept
    PROVE  QueueBound
<1>. DEFINE R == {t \in Rows(QueueActive) \ chained : retries[t] = 0}
            M == members["queue"]
<1>1. R \subseteq M
  BY DEF SlotKept, KeepsSlot, Rows
<1>2. IsFiniteSet(M) /\ Cardinality(M) \in Nat
  <2>1. M \subseteq Tasks
    BY DEF TypeOK, Quotas
  <2>. QED  BY <2>1, FS_Subset, FS_CardinalityType, SlotQuotaAssumptions
<1>3. Cardinality(R) \in Nat /\ Cardinality(R) <= Cardinality(M)
  <2>. HIDE DEF R, M
  <2>. QED  BY <1>1, <1>2, FS_Subset, FS_CardinalityType
<1>4. PICK lim \in Limits("queue") : count["queue"] <= lim
  BY DEF SlotAccounting, Under, Quotas
<1>5. lim \in Nat /\ count["queue"] \in Nat /\ Cardinality(M) <= count["queue"]
  BY SlotQuotaAssumptions DEF Limits, TypeOK, Quotas, SlotAccounting
<1>6. Cardinality(R) <= lim
  <2>. HIDE DEF R, M
  <2>. QED  BY <1>2, <1>3, <1>4, <1>5
<1>. QED  BY <1>6 DEF QueueBound, Under

\* max_queue_size bounds the rows that went through the queue check and are not
\* terminal (restarted tasks and tasks of chains left aside), for every number of
\* tasks, servers and crashes, as long as no reconciler, expiry or outage of
\* Redis takes part and no straggler changes a row whose run has ended.
THEOREM QueueLimit ==
    ASSUME Quiet
    PROVE  Spec => []QueueBound
<1>1. Init => ControlInv /\ SlotKept
  BY HoldersInit DEF Init, SlotKept, KeepsSlot, QueueActive
<1>2. TypeOK /\ ControlInv /\ SlotKept /\ [Next]_vars => ControlInv' /\ SlotKept'
  BY ControlStep, SlotKeptStep
<1>3. TypeOK /\ SlotAccounting /\ SlotKept => QueueBound
  BY SlotsBoundRows
<1>. QED
  BY <1>1, <1>2, <1>3, TypeCorrect, Accounting, PTL DEF Spec
=============================================================================
