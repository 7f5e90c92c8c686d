# Verification of the picture-task server

This directory holds TLA+ models of the parts of the server where money, slots and task states are shared
between goroutines, servers and restarts; TLC configurations that check them on small instances; and proofs,
checked by TLAPS, of what matters most for instances of any size. Everything is translated from the code under
`src/`; `PROJECT.json` maps each definition to its lines.

## 1. The system

The server offers picture and video generation to mobile clients. Several identical processes share MySQL,
Redis and MongoDB. A user pays for a task with credits; the task is queued, dispatched to a worker goroutine,
submitted to an external provider, polled until the provider is done, and ends `COMPLETED` or `FAILED`, in the
latter case with a refund. Credits come from purchases and subscriptions, announced by an external payment
service through a Redis stream.

| Component | State it keeps | Operations | Talks to |
|---|---|---|---|
| Task slot quota (`internal/service/quota`) | per user: two Redis counters with a set of task ids each; per server: `degradeMode`, a health-check flag | `CheckAndReserveSlot`, `ReleaseSlot`, `TransitionToProcessing`, health check | called by the task service, the executor, the terminated hooks, the reconcilers |
| Slot reconcilers (`internal/task/slot`, `internal/task/reconciler`) | a Redis lock per quota | a round: read the row of each member, release what is not active | quota, task rows |
| Picture task service (`internal/service/picture_task.go`) | `PictureTask` rows | submit, restart, fail, delete, publish, query | quota, credits, chain service |
| Execution service (`internal/task/picture_workflow`, `internal/service/picture_generate`) | goroutines, one per `PROCESSING` task | dispatch, process, sync provider status, retry submission | providers, task service, hooks |
| Distributed lock (`internal/common/distributed_lock.go`) | Redis keys with owner and TTL | acquire, renew, release | sync rounds |
| Credit ledger (`internal/service/credit`) | `va_user_amount` rows, transaction records | add, deduct, refund, upgrade, clear | task service, payment handler, daily credits, invites, administration |
| Payment events (`internal/service/event`) | Redis stream and group, in-memory channel per server | read, acknowledge, enqueue, handle, report | credit ledger |
| Task chains (`task_chain_service.go`) | `TaskChain` rows, Redis locks | on completed, on failed, partial refund | task service, credits |
| Invite rewards (`internal/service/invite`) | codes, invite records, granted credits | create a code, use a code | credit ledger |
| Event reporter (`event_reporter`) | in-memory queue and batch of a server | track, flush, shutdown | analytics service |
| Event watcher (`event_watcher.go`) | a server's subscriptions, one channel per stream | watch, dispatch | Redis pub/sub, task service |
| Daily credits, verification codes | MySQL rows, Redis keys with TTL | grant, verify | credit ledger |
| Authentication, catalogue, chat, LLM clients, speech, uploads, push, configuration, administration, API layer | CRUD rows, caches, sockets | request handlers | no shared protocol beyond the above |

How the parts meet in one task:

1. `SubmitPictureForgeTask` opens a transaction, deducts credits (`DeductCreditsWithTx`), reserves a queue slot in
   Redis, inserts the row as `PENDING` and commits.
2. The dispatcher takes a Redis lock and the row lock, reserves a concurrent slot, commits `PROCESSING` and starts
   `executeTaskWorker`.
3. The worker submits to a provider (`AWAITING`), or finishes, or fails the task.
4. Sync rounds, one server at a time, poll the provider and finish, fail or time out the task. (One executor, `gpt4o_v2`, generates
   inside its worker and shows the row as `AWAITING` meanwhile, so that rounds and worker have it together.)
5. `FailTask` locks the row, refunds by the receipt in the row, commits `FAILED`; the terminated hook then releases
   the two slots.
6. The user may restart a `FAILED` task, which deducts again and makes the row `PENDING`.
7. A chain of an image and a video task enters beside step 1: one deduction, two rows, no queue slot; the completed hook of the
   image activates the video.

What is hard here, and what the properties are for:

- nearly every write is `UpdateTask` or `UpdateUserAmount`: *all columns of a copy read earlier*;
- Redis and MySQL are changed one after the other, never together, so a stop or an error in between, or another
  server, sees one without the other;
- locks have TTLs, and what they guard has longer timeouts;
- the same handler is called twice for one failure (the executor's own failure path, then its caller's), and the same hook for
  one completion on the sync path;
- rows become active without the queue check: restarted tasks and the tasks of chains;
- refunds commit in a transaction of their own;
- messages are acknowledged when an in-memory channel has them;
- locks of the chain service have neither an owner nor a renewal: whoever returns deletes them;
- checks are made outside the transaction that relies on them (invite codes, chain state).

Correctness, component by component: slots never exceed limits, counters and sets agree, leaked slots return
(quota); each deduction is refunded or delivered once, nobody ends or revives a run that is not theirs, every run ends
(lifecycle); balances are what the records say, nothing is overdrawn (ledger); every announced purchase is credited, once
(payments); a chain's charge is refunded exactly for the steps that failed (chains); one use of a code per user and a cap per
inviter (invites). `PROJECT.json` lists every hazard at its line with the properties aimed at it, or with the reason
that none is.

## 2. Plan

| Order | Module | State |
|---|---|---|
| 1 | `SlotQuota`, `SlotQuotaProofs` | done |
| 2 | `CreditGrants` (abstract), `PaymentEvents`, `PaymentEventsProofs` | done |
| 3 | `CreditLedger`, `CreditLedgerProofs` | done |
| 4 | `TaskPayment` (abstract), `TaskLifecycle`, `TaskLifecycleProofs`, `TaskPaymentProofs` | done |
| 5 | `TaskChain`, `TaskChainProofs`: two steps, one charge, activation and failure locks, partial refunds | done |
| 6 | `InviteRewards`: uniqueness and the cap under concurrent uses | done |
| 7 | `DistributedLock`: TTL, renewal and late holders; with `InviteRewards` proved about in `ServiceProofs` | done |
| 8 | `EventReporter`, `EventReporterProofs`; `EventWatcher`, and the five of steps 5 to 8 side by side, proved about in `ServiceProofs` | done |
| 9 | chains and stragglers in `SlotQuota`; `gpt4o_v2`'s second goroutine and both forms of resubmission in `TaskLifecycle`; both completed hooks and the loss per wallet row in `TaskChain` | done |
| 10 | `TaskLifecycle` extended: deletion while a task runs, saves of reading marks and evaluations, free tasks | open |
| 11 | composition of `TaskLifecycle`'s charges with `CreditLedger`'s receipts | open |

Verification codes were planned and dropped: a code is one Redis key with a TTL, and what the code promises of it is
about time only. Every safety property and every action property that a passing run checks is also a theorem; for the open
steps 10 and 11 the theorems worth proving are those of section 6 over the larger step relation, and that `TaskLifecycle`'s charges are
`CreditLedger`'s receipts. The project keeps the number of runs small, one per question: scenarios of one component
and components that share no state are initial states of one run.

## 3. Modules

### SlotQuota

One user's slots, as every Redis key belongs to one user. `count` and `members` are the two counters and sets,
`status` the committed rows, `degrade` and `health` each server's mode, and `calls` the handlers that stand between
two calls to Redis or MySQL: that set is what makes the interleavings. Each Lua script is one step
(`LuaReserve`, `LuaRelease`); `CheckAndReserveSlot` has the five outcomes of the code (granted, refused, Redis error
turning into degrade mode, unknown error, degrade mode); the caller's continuation is a parameter. `SubmitReserve`
to `SubmitAbort` are `SubmitTaskWithTx`, with the verdict of `verifyQueueSizeWithDB` taken in the snapshot before the
reservation and the deferred release that a shadowed `err` skips. `Dispatch*` are `TransitionToProcessing`, `Hook*` the
terminated hook, `Reconcile*` a reconciler's read and release. `Faults` chooses what an instance may contain.

`SubmitChain`, `ActivateNextTask` and `ChainFails` are what a task chain does to rows and slots: both rows are inserted with no queue check and
no slot, the video waits in a status no quota counts (`"CHAIN"`), and the handler of a chain's failure saves `FAILED` over a task in whatever state.
`chained` remembers these ids.

A handler may still have something to do for a run that has ended: the second `FailTask` of one failure, or a save of an old copy.
`Stragglers` leaves such a call behind (with the fault `"straggler"`; at most one of a task at a time): `StragglerFails` fails the row in any open state, `PENDING`
included, with a hook of its own, and `StragglerSaves` puts any of the `LateSaves` over it. Without the fault, the second `FailTask` comes before
the user's restart and finds a terminal row.

A row's path through `AWAITING` and `RETRY` is reduced to what slots depend on; `TaskLifecycle` has the rest. A row that the retry round
has blanked is `PENDING` without a user (`lifecycle_blank`): what it does to slots is of the stragglers' kind and not modelled apart. Limits are
chosen anew at each reservation from the memberships a user may have, which stands for cached and changing limits.

### PaymentEvents and CreditGrants

`CreditGrants` promises: an event is credited once, after it was announced. `PaymentEvents` is the stream, the group
(cursor and pending list), each server's consumer loop (`Read`, `ProcessMessage`, `Ack`), its channel, its handler
goroutine (`Take`, `HandleEvent`) and the insert guarded by the unique `source_id` (`AddCredits`). Client reports share the
channel. The instance `Grants` with `announced` as the events in the stream is the refinement mapping.

### CreditLedger

The rows of one user (`amounts`), the sums of their transaction records (`ledger`), and each task's deduction and refund
as two steps, the read and the commit. `Receipts` is the algorithm of `performDeduction` stated by what it yields: rows in
order, each emptied before the next, the cost exactly. `Pool` and `Precedes` are the two deduction orders. The history
variable `alone` tells whether transactions of the user ever overlapped: some properties hold only until then, and are
stated so.

### TaskLifecycle and TaskPayment

One task. `row` is the `PictureTask`, reduced to status, the deduction its receipt names, `is_refunded`, progress, and
the polls since `updated_at`. `act` holds what each actor (worker goroutine, sync round, retry round) does and the *copy*
it will save. `Save` is `UpdateTask`: all columns. `FailTask` is five actions (terminal row, error, refund, commit,
rollback), with the row lock held between the last three. `AfterFailTask` is where control goes afterwards: an
executor's failure handler returns to a caller that calls `FailTask` again, or, in a retry round, to the deferred save.
`WorkerAccepted` is for executors that hand the job to a provider and return. `gpt4o_v2` (`scenario.early`) does not: `ProgressBegin` and
`ProgressSave` are its second goroutine, which saves the worker's struct as `AWAITING`, possibly after the worker went on (`other` is that save under way);
`WorkerGenerated` and `WorkerDelivers` are the worker's own saves; as the two goroutines share one struct, each save may carry the status the other
goroutine has set in it (`SaveShared`). A sync round then reads the row again and decides nothing (`SyncOngoing`, `SyncEnded`), unless the task timed out or that read fails.
`ResubmitAccepted` is `RetrySubmission` of Kling and MiniMax; the other executors run `Process` once more, on a copy of their own (`ResubmitLoad`
to `ResubmitRefused`), and the round saves the copy it kept in `other` afterwards (`ResubmitSave`).
`TaskPayment` promises that a deduction is refunded or delivered at most once and never both, and that the user pays again only
for a run that did not deliver; `PaysOnce` is that specification, read off the same variables. `Scenarios` says which crew
is at work, which faults there are, whether polls are saved and how many deductions there may be; an instance starts in one of them.

### TaskChain

The chain's row, the rows of its image and video task, and what each goroutine does that has ended a task: `Hook*` and
`Activate*` are `OnTaskCompleted` with `ActivateNextTask`, `Handler*` is `OnTaskFailed`: refund (`HandlerRefund`), save of the chain
(`HandlerClose`), and the loop that makes each task FAILED (`HandlerTell`, `HandlerMark`), each with the copy it read. How one task gets to
its end is TaskLifecycle's; here it is one step (`Complete`, `Fail`), with FailTask's refund of the row's receipt. The two locks
remember their holder only so that their TTL can be tied to it. `Complete` runs the hook in up to two goroutines: on the sync path
`ProcessSuccessfulResult` starts it (`picture_generate/service.go:349`), and so does the sync round (`provider_status_sync_processor.go:314`). `paid` and `back` are
the credits deducted and refunded. A share of a deduction is truncated for each wallet row it draws on, so `Refunds` lets it be up to `Wallets`
credits short, and not at all when the ratio is one or more.

### DistributedLock

The key, with its holder and the time it has left, and each round's acquire, renewal goroutine and release. Time passes in ticks, and
a *timely* round does what is due before the next; `Delay` makes a round late for good, so that it renews, works on and releases at any
time, and `LockCrash` ends it without a release. Nothing ends the work of a round when its context does. `KeepsLock` states what such
a lock gives: not mutual exclusion, but that a timely round has the key until one TTL after its last renewal (`Protected`), which the
renewal makes at least the context's timeout. TaskLifecycle's rounds use the same lock with a single step for its loss (`"slow"`).

### InviteRewards

Codes, records and rewards in MySQL, and each call of `UseInviteCode` as two reads and a commit: the checks before the
transaction (`UseCheck`), the count inside it (`UseCount`), and the record with the rewards (`UseCommit`) or a rollback (`UseFails`),
which is what the unique index on project and invitee gives. `apart` tells whether two calls ever overlapped.

### EventReporter

`Track` in two steps (the shutdown flag, the send), the worker's loop (`Worker*`), `Flush` and `Shutdown`, which may give up
waiting. `WorkerFlush` is a request of `Flush`; `WorkerDrain` empties the queue once the shutdown is seen; `late` remembers the events that were sent to
the queue after the shutdown began.

### EventWatcher

The watch streams of one client: the registry's one entry, each stream's Redis subscription with what is under way in it, and
its bounded message channel. `Register` replaces the client's entry, `Unregister` closes what the entry names, whoever registered it.

### MCServices

These five share no state. `MCServices` puts them in one run: `part` chooses the component that moves.

## 4. Runs

| Run | Instance | Distinct states | Shows |
|---|---|---|---|
| `slots_core` | 3 tasks, single or in chains, 2 servers, queue limits {1, 2}, concurrent limit {1}, 1 restart, crash, delete, dbtimeout | 316,915 | `TypeOK`, `QueueExact`, `ConcurrencyBound`, `QueueBound` |
| `slots_faults` | 1 task, 1 server, queue limit 1, concurrent limits {1, 2}, 1 restart, outage, longoutage, crash, expiry, reconcile, delete, straggler, reconcilers fair | 187,274 | `SlotAccounting`, `LeakedSlotReleased` |
| `slots_counter` | 1 task, 1 server, 1 restart, no fault | violation | `ConcurrentExact` fails |
| `payments_grants` | 3 messages, 4 event ids, 2 servers, channel of 1, all faults | 931,160 | `TypeOK`, `GrantsCredits` (refinement), `OnlyStopLoses` |
| `payments_live` | the same events, channel of 3, no fault, fair | 101,672 | `PurchaseCredited` |
| `payments_crash` | 1 message, 1 server, crash | violation | `Accounted` fails |
| `ledger_core` | 3 rows of three kinds, 2 tasks, cost up to 2, clock up to 2 | 839,839 | `TypeOK`, `RecordsMatchReceipts`, `LedgerMatches`, `DailyApart`, `ExpiryKept` |
| `ledger_lost` | the same | violation | `BalanceMatches` fails |
| `lifecycle` | nine scenarios: 2 workers and 2 sync rounds, 3 charges, no fault, database errors, refund errors; 1 of each actor, also retry rounds, with up to six faults at once; `gpt4o_v2` with 2 workers and a round, and with five faults | 183,718 | `TypeOK`, `FailsOwnRun`, `CalmKeepsReceipt`, `NoReentry`, `FailedIsRefunded`, `RefundHoldsRow`, `PaysOnce` (refinement), `EndIsFinal`, `TaskEnds` |
| `lifecycle_blank` | with a retry round and retryable errors | violation | `ReceiptKept` fails |
| `services` | chain: 2 goroutines, prices 1 and 3, 2 wallet rows, 1 restart, six sets of faults; reporter: 2 producers of 2 events, queue and batch of 2; watcher: 3 streams of a client, 2 events, a channel of 1; invites: 2 inviters, 3 invitees, 2 projects, 2 calls, cap 3 for rewards of 2; lock: 2 rounds, TTL 3, period 1, timeout 3 | 463,355 | `ServicesTypeOK` (the five type invariants); `StartsOnce`, `OneHandler`, `FailedChainIsRefunded`, `ChainEnds`; `InOrder`, `NoneVanishes`, `ShutdownDrains`, `QueueMoves`; `EventsInOrder`, `SingleIsSubscribed`; `RewardsMatchRecords`, `SerialCapKept`, `SerialInvitedOnce`; `KeepsLock`, `LockFrees` |
| `chain_twice` | the chain without faults | violation | `RefundsWithinPaid` fails |

Why these bounds are enough to be interesting. Slots: three tasks against limits of one and two make both limits
bind, with a third request refused, and are a chain beside a single task; two servers are needed for a reconciler, a dispatch and a hook to interleave; one restart
makes a late hook of the first run meet the second; all actors are symmetric. `slots_faults` has one task and one server, because seven
faults multiply: a restart, a straggler and an outage meet in it, and a concurrent limit of two lets the counter run ahead of its set. (With
two servers and no restart TLC finds 328,650 states and the same result.) What several tasks and servers add to the
accounting is in the proofs of `SlotAccounting` and `QueueExact`, which hold for any number and every fault; that a leaked slot is released
is checked for one. Payments: an event may be written twice among three messages and both copies handled by different servers
at once; a channel of one is full with a single report in it. Ledger: one row per type (event grants are deducted like purchases, and
differ in nothing but their rank), one of two credits, so that a cost of two can span rows; the clock lets each row
expire before, between or after a deduction and its refund. Lifecycle: two of each actor are what a race needs, three
charges let a late step of the first run meet the third. In `gpt4o_v2`'s scenarios two workers are the worker of a run and a goroutine left over from the run before. The other scenarios with two of each actor are small, because while only the database
fails, the locks leave a single actor at work: that is what its proof's invariant `OwnerInv` says.
Chain: two goroutines let a hook meet a handler, or two handlers of one chain meet; one restart is what brings a
task back while the handler of its chain works; two wallet rows and a video dearer than the image by just that many credits are where truncation could still lose
the difference. Its safety was also checked with three goroutines, and with two restarts.
Reporter: two events of two producers overflow a queue of two, and fill a batch. Watcher: three streams are one that is
replaced, one that replaces it and one that comes later. Invites: rewards of two under a cap of three make the second
reward pass it and the third be refused; a second project is what the global check is for. Lock: the scale of the
sync processor (30 s TTL, renewal every 10 s, 30 s context); `KeepsLock` was also checked with 6/2/5, 6/2/6, 6/2/7, 3/2/5 and 4/1/1, and
its bound is tight: with `<=` for `<` it is violated.

Bounds in guards: `MaxRetry` (restarts), `MaxSend` (messages), `MaxCost`, `MaxTime`, `MaxCharges`, `MaxRefunds` (refunds of one
deduction, above one so that a second refund is visible), `Wallets` (wallet rows of one deduction), one straggler of a task at a time, `MaxProgress`, `MaxAge` of TaskLifecycle (polls before the 15 min timeout) and of
DistributedLock (the age of a round stops counting past all that matters), `MaxRestarts`, `MaxEvents`, `MaxPublished`. `CHECK_DEADLOCK FALSE`
everywhere, as each bounded instance comes to an end, and so does a task or a stream.

### Fairness

- `ReconciledSpec`: a reconciler's ticker visits every member in each round (weak fairness of the read) and a
  round that is again and again cut short is not cut short for ever (strong fairness of the release; a crash is an accident,
  not a schedule). `LeakedSlotReleased` is conditional on Redis staying up and no server staying in degrade mode, since the code skips
  rounds in degrade mode.
- `payments_live`: a server starts, and its two goroutines are scheduled by the Go runtime; both are loops
  without blocking conditions other than those in their guards.
- `lifecycle`: the dispatcher and the sync processor are tickers (weak fairness of some worker, some round
  starting), a goroutine that can go on does, and a lock's TTL runs out. Nothing is assumed about the provider: it may
  answer at any poll, or never; then the 15 minutes of the code end the task. A poll without a save ages the task by one. `TaskEnds` speaks of the
  behaviours without faults, with polls that are not saved and an executor that is not `gpt4o_v2` (`Quiet`).
- `services`: a hook or handler that runs goes on, and a task that runs ends, which is what `TaskEnds` shows of it
  (`ChainEnds`, without faults); the reporter's worker is scheduled and its ticker ticks (`QueueMoves`); time passes, a timely
  round does what is due, and a goroutine whose context is over sees it (`LockFrees`, whatever rounds hang, die or never finish their
  work). Invites and the watcher promise nothing that needs fairness.

## 5. Disagreements found

- `slots_counter`: `LuaCheckAndReserveScript` increments even when the id is a member. A restarted task that is
  dispatched before its first run's hook ran is counted twice; the counter stays too high and the user loses
  a slot until the keys expire.
- `payments_crash`: a message is acknowledged once the channel has it; a stop loses it, though the design document says the stream keeps it.
- `ledger_lost`: rows are read without a lock and saved whole; of two overlapping transactions of a user the balance
  shows one.
- `lifecycle_blank`: the retry round's increment saves a struct with only three columns set, so the row loses its receipt,
  status and owner.
- `chain_twice`: both task rows of a chain carry the deduction of the whole chain. `FailTask` refunds it, and the chain's handler then
  refunds its share again, by list prices, even of an image that was free, under a source id that is new each time. The comments
  (`task_chain_service.go:521`, `:530`) and `doc/picture_task_chain_design.md:98` speak of one refund, of the second step's cost if that step failed.

Met while modelling, visible in the models, without a run of their own:

- A chain whose activation fails is FAILED with its video task still waiting: nobody ends that task or refunds its part
  (`task_chain_service.go:139`). `FailedChainIsRefunded` and `ChainEnds` exclude database errors for this.
- The second hook of a completed image (section 3) that read the chain before the first advanced it, and locks it afterwards, finds a
  video that no longer waits: `ActivateNextTask` returns an error and the chain is saved as FAILED, in step 1, although its video runs
  (`ActivateRead`, `HookSave`). The comments `task_chain_service.go:106` (prevent a repeated activation) and `service_provider.go:368` (the callback is
  idempotent by itself) hold of the video, not of the chain.
- The failure handler of the video makes the delivered image task FAILED too (`task_chain_service.go:635`), where
  `doc/picture_task_chain_design.md:99` says that finished products are not rolled back.
- If the user has restarted the image, the same loop ends the new run, which was paid for again, and the handler refunds the video's price; that
  covers it only if the image costs less, by as much as truncation may take away. A restart in haste, before an earlier handler is done, is ended without any refund (`"haste"`).
- A client's second watch stream replaces the first in the registry; when the first ends, it closes the second's
  subscription, and the second stays open without events (`event_watcher.go:70`). `StreamsAreSubscribed` states what fails;
  `SingleIsSubscribed` is what is left of it.
- `Dispatch` publishes JSON to a channel whose readers expect protobuf, so its events reach nobody (`event_watcher.go:140`).
- `Flush` sends the worker's batch, not the events still in the queue (`event_reporter/reporter.go:175`).
- The cap and the once rule of invites hold only for calls that do not overlap: the comment at `invite/service.go:168` says that
  counting inside the transaction avoids the race, but the count is a plain read; a user of two projects can use a code in each at once.

## 6. Proofs

Constants are assumed only what the `ASSUME` of each module says (disjoint sets, finite where they are counted, positive bounds); the
theorems hold for every instance and, unless noted, every set of faults.

**SlotQuotaProofs.** `TypeCorrect`, `Accounting` and `QueueCounterExact` follow from one idea: every step changes the Redis state
by a reservation, a release, an expiry or not at all (`RedisStep`), and each of these keeps `AccountingStep`: the
counter covers the set and stays under a limit. For the queue a task id reserves once, because it leaves `used` behind.
`ConcurrencyLimit` needs more. A reservation belongs to a
*run* of a task, the pair of its id and its number of restarts, from the reservation until the hook of that run has released
it. `ConcurrencyBound` alone is not inductive, nor is "every running task is a member of the set", as a late hook of the first run may
take the id out while the second run uses it. What is kept is `HoldersInv`: the counter is at least the number of runs that hold a
reservation. It rests on `ControlInv`: a submission is alone with its fresh id, one transaction at a time moves a
`PENDING` row, and a hook is due once for a run, which is over. It is assumed that no outage, expiry, reconciler or straggler is among the faults (`Quiet`). A chain's
handler that ends a running task leaves a member without a hook behind, which only makes the counter too high.

`QueueLimit` bounds *rows* that went through the queue check, where `Accounting` bounds a counter. What joins them is `SlotKept`: until its first restart, a task
of no chain whose row is active is a member of the queue's set; so is one whose submission may still commit; and no hook is due for it. The last part makes it inductive, together
with `ControlInv`, for a hook is what releases the id. Then the rows are a subset of the set, the set is no larger
than the counter, and the counter is under a limit. Section 7 shows that each of the faults `Quiet` excludes breaks a bound.

**PaymentEventsProofs.** `PaymentTypes` is the type invariant; `HeldInv` (what a consumer or handler holds has been
delivered) joins it to prove `CreditedAtMostOnce`, the refinement of `CreditGrants`: initial states map to initial states, `AddCredits` maps to
`Grant` or a stutter, `Publish` to an announcement. `NothingElseLoses` uses `AckInv`: a message about to be acknowledged is finished, or queued
in the very server that acknowledges it.

**CreditLedgerProofs.** `NoOverdraft` and `NoMixing` from `LedgerInv` (types; credits and receipts only of rows that exist; a receipt
takes no more than the copy it was taken from has).
`BalanceIsLedger` and `ExtensionStays` from `SerialInv`: while `alone`, at most one task is inside a transaction and its
copy of the rows its receipt names is what they still are.

`RecordsExplained` holds whatever overlaps. Its invariant `SpentInv` adds to the property that finitely many receipts stand (`Charged`): no
assumption makes `Tasks` finite, but each commit adds or removes one. A commit changes the sum by its own receipt (`SpentMoves`), any other step leaves it alone
(`SpentStays`), and a new row starts at nothing because no receipt names a row that does not exist (`ReceiptInv`). The facts about sums come from the definition of
`SumFunctionOnSet`, a `CHOOSE` of a recursive function: that the function exists, that it is the same for a set and its subsets (`SumsExist`,
`SumsUnique`), that any term may be split off (`SumSplit`). Where an induction over sets would be used, they take a smallest counterexample
(`SmallestSubset`), from the well-foundedness of the subset relation on a finite set; this needs no theorem with an operator as parameter.

**TaskLifecycleProofs, TaskPaymentProofs.** `LifecycleTypes` and `FailTaskHoldsRow` hold for all faults, from `LockInv`: who is inside
`FailTask` has the row lock and its copy is the row. The others assume `Calm`: faults among database and refund errors,
and an executor other than `gpt4o_v2`; `OneRoundEndsTask` needs only the first half (`Steady`), as it rests on the locks alone.
`PayInv` is the strengthening: `OwnerInv` (one actor at work, owning the status the row is in, on the charge paid last), `RowInv`
(the row names that charge and is not refunded while alive), `MoneyInv` (delivered iff completed; refunded only by who is inside `FailTask` or at
the end). From it `PaidOnce` (the refinement of `TaskPayment`), `FailsOnlyOwnRun`, `ReceiptStays`, `OneRoundEndsTask` and
`OnlyUserRevives`. `FailedTaskIsRefunded` adds `RefundInv`, for instances whose refunds work: every deduction before the latest is refunded, and so
is the latest once `FailTask` has passed its refund.

**TaskChainProofs.** `ChainTypeCorrect` and `OneHandlerHolds` (who is inside the handler holds the lock, unless it is slow) are invariants nearly as they
stand. `StartsOnceHolds` needs `OnceInv`: unless it is slow, who is between the hook's lock and its deletion holds the lock (`HooksHold`), so hooks of
one completion follow each other; and once the video has been activated its row no longer waits and nobody has a waiting copy of it in hand (`Activated`), so
the next hook finds nothing to activate, whatever it read of the chain. It does not rest on the chain's step, which a hook with an old copy sets back.
`FailedChainIsRefundedHolds` needs a ledger: the prices and receipts in rows and copies (`Prices`, `CopyPrices`), and that what was
refunded and what the rows' own failures will still refund cover what was paid (`Balance`), at each stage of a failure, with a handler's share short by
up to `Wallets` credits. The case it excludes, a video not dearer than the image by that much, is a real one (sections 5 and 7).

**EventReporterProofs.** `ReporterTypeCorrect` and `ShutdownDrainsHolds` from `ReporterInv`; `NoneVanishesHolds` and `InOrderHolds` from the
pipeline `sent \o batch \o queue`, which steps move along, extend at its end or cut by a batch that fails: each producer's events in it increase and are
at most those it tracked.

**ServiceProofs.** Invites: `InviteInv` adds to the properties that a call alone sees the records as they are when it commits
(`Alone`); that one record adds at most one reward (`GrantedGrows`) gives the cap. Lock: `LockInv` says what a timely round
*knows* of its key (`Knows`): while it renews, the key is its own and has exactly the time left since the last renewal; afterwards the key lasts at
least to the end of the protected time. Both for all constants that the `ASSUME`s admit.

Watcher: `WatcherTypeCorrect` and `EventsInOrderHolds` from `WatcherInv`. What a client has seen of a stream says nothing about what comes next; so it speaks of the
stream's whole `Line`, what was seen, what is in its channel and what is under way to it: it rises, and no further than the event published last (`LinesRise`). A
publication extends it at the end, a message moves along it or drops out. `SingleIsSubscribedHolds` needs `RegistryKnows`: while there has
been one stream at a time, the registry names the open one.

Side by side: a step of one component leaves the variables of the others alone (`StepOfEach`), so a behaviour of `MCServices` is one of each
component's own specification (`BehavesAsEach`). With the theorems about each, `ServicesTypeCorrect` and `ServicesSafe` are the run's safety, for all constants.

**Only model-checked:** liveness (`LeakedSlotReleased`, `PurchaseCredited`, `TaskEnds`, `ChainEnds`, `QueueMoves`, `LockFrees`), which needs
ENABLED and fairness; and that the code's violations of section 5 happen, which a run shows and no theorem could.

## 7. What the assumptions exclude

Several properties hold only under conditions that the code does not always meet. Each line below can be
reproduced by the change of one configuration; the models contain the steps.

| Property | Fails when | Code |
|---|---|---|
| `ConcurrencyBound` | `"reconcile"` is added to `slots_core`: a reconciler reads `PENDING` between the reservation and the commit of a dispatch and releases the slot of the task that then runs | `internal/task/reconciler/adapter.go:268` |
| `QueueBound` | `"reconcile"` is added to `slots_core`: a reconciler finds no row between the reservation of a submission and its commit, and releases the slot of the row that then appears | `internal/task/reconciler/adapter.go:268` |
| `QueueBound` | `"expiry"` or `"outage"`: the keys expire under a submission or a row; or Redis is away and a submission counts the committed rows instead, which does not see another's reservation | `task_quota_scripts.go:27`, `task_quota_checker.go:88` |
| `QueueBound` without `retries[t] = 0` | a task is restarted while the queue is full | `picture_task.go:1714` |
| `QueueBound` without `chained` | a chain is submitted: its image row is inserted as `PENDING` (and its video row activated later) with no queue check and no slot | `api/picture_forge.go:1366`, `task_chain_service.go:273` |
| `ConcurrencyBound` | `"straggler"` (with two tasks, two restarts): the second `FailTask` of a failure, delayed until the user has restarted the task, fails the `PENDING` row, and its terminated hook releases the slot of the run after that while it runs | `kling_image2video_executor.go:240`, `picture_task.go:1814`, `service_provider.go:374` |
| `ConcurrencyBound` | `"straggler"`: a save of an old copy (`gpt4o_v2`'s progress, ComfyUI's after `FailTask`) makes a row run again whose slot was released | `gpt4o_image2image_executor_v2.go:397`, `comfyui_executor.go:785` |
| the premise of `LeakedSlotReleased` | a Redis error between `onRecovered` and the reset of `healthCheckRunning`, or an outage longer than the health check: degrade mode stays | `task_quota_checker.go:131` |
| `PurchaseCredited` | `"dberror"`: the handler's error is only logged, after the acknowledgement | `event_service.go:139` |
| `PurchaseCredited` | `"report"` with a channel of 1: a message that met a full channel is never read again | `redis_stream.go:70` |
| the premise `group` of `PurchaseCredited` | the server starts before the stream's first message | `redis_stream.go:50` |
| `BalanceMatches`, `ExpiryKept` without `alone` | two transactions of one user overlap | `dao/credit.go:43`, `:57` |
| the order by expiry that `credit/service.go:100` states | a user who is not a member holds purchased and gift credits: the purchased go first | `credit/service.go:202` |
| `PaysOnce` | `"crash"` or `"commiterror"` in `Calm`: the refund is committed, `FAILED` is not, and the next `FailTask` refunds again | `picture_task.go:1825` |
| `NoReentry` | `"slow"`: a round outlives its 30 s context and loses both locks | `provider_status_sync_processor.go:160` |
| `FailsOwnRun`, `ReceiptKept`, `FailedIsRefunded`, `PaysOnce`, `EndIsFinal` | `early` in `Calm` (`gpt4o_v2`), with `"dberror"`: its progress save shows the row as `AWAITING` while it generates; a sync round that cannot read the row fails and refunds the task; the worker then saves `COMPLETED`, or the progress goroutine `AWAITING`, over it, or fails or overwrites the run the user started meanwhile | `gpt4o_image2image_executor_v2.go:397`, `:282`, `:479` |
| `TaskEnds` | `early` in `Quiet`: a progress save that carries the worker's `PROCESSING` arrives after the task ended: the row is `PROCESSING` again, which nobody reads | `gpt4o_image2image_executor_v2.go:397` |
| `FailsOwnRun` | `"refuse"`: the second `FailTask` of one failure meets the run the user restarted in between | `kling_image2video_executor.go:240` |
| `EndIsFinal`, `ReceiptKept` | `"refuse"` with ComfyUI's save of its copy after `FailTask` | `comfyui_executor.go:785` |
| `FailsOwnRun`, `ReceiptKept` | `"resubmit"` with a retry round | `submission_retry_processor.go:209`, `picture_task_executor.go:364` |
| `FailedIsRefunded` | `"refunderror"`: a refund that fails does not stop `FailTask` | `picture_task.go:1827` |
| `TaskEnds` | polls that are saved (`everyPoll`): each poll renews `updated_at`, from which the timeout counts | `minimax_video_executor.go:376` |
| `TaskEnds` | `"crash"`: nobody reads `PROCESSING` rows whose goroutine is gone | `picture_task_executor.go:185` |
| `OneHandler` | `"slow"`: a handler outlives its five minutes, and its late `Del` frees the lock of the next | `task_chain_service.go:422` |
| `StartsOnce` without its premise | `"slow"`: two hooks of one completion have read step 1, the first outlives its two-minute lock, which nobody renews, and the second activates the video as well | `task_chain_service.go:96`, `:107` |
| `FailedChainIsRefunded` without `ImagePrice + Wallets <= VideoPrice` | a share of a deduction over several wallet rows is truncated for each: with prices 2 and 3 and rows of 1, 1 and 3 credits, the video's share of 3/5 refunds 0 + 0 + 1 of its 3 credits; TLC then ends a chain of three rows, with the premise dropped and two restarts, with both tasks `FAILED` and 9 of 10 paid credits back | `task_chain_service.go:597` |
| `ShutdownDrains` without `late` | an event whose `Track` passed the flag is queued after the drain | `event_reporter/reporter.go:120` |
| `KeepsLock` without `timely` | a process hangs past the TTL and works on | `common/distributed_lock.go:131` |
| `SerialCapKept`, `SerialInvitedOnce` without `apart` | two calls overlap | `invite/service.go:140`, `:171` |

## 8. Not modelled, and why

- Free tasks, deletion of a running task as far as its refund goes, saves of reading marks and of evaluations (step 10 of the plan). Progress that is
  simulated in Redis only changes no row. Progress that is saved while a task runs is modelled: of the pollers by `SyncOngoing`, of `gpt4o_v2`'s second goroutine
  by `ProgressSave`. `gpt4o_v2`'s saves of PROCESSING at 2% and 5%, one after the other in one goroutine, are one step (`WorkerMark`), and its
  progress goroutine has one save under way at a time, as its loop does.
- In `SlotQuota`: more than one straggler of a task at a time, and a retry round's blanked row (section 3).
- The retry limit of the submission retry processor: a failed retry ends the task at once.
- The requests to providers, uploads and downloads: outcomes are nondeterministic.
- `ClearExpiredCredits`: the query it uses leaves out expired rows, so it changes nothing; its caller is a stub.
- The chain's submission in parts (a row whose creation fails is rolled back with its transaction) and a chain of
  more than two steps, which the code does not build.
- The reporter's calls that bypass its queue, and the building of events. A batch whose reply is lost counts as lost (`lost`), as in
  `sendBatch`, although the analytics service may have it.
- Verification codes (section 2).
- Authentication, chat, speech, catalogue, configuration, administration and notification: request handlers
  over rows or sockets without a protocol that several actors share; listed in `PROJECT.json` with the reason.
- Time: the ledger has a clock, the lifecycle counts polls, the lock has ticks; other timeouts are steps that may happen.
