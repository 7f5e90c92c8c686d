----------------------------- MODULE TaskChain -----------------------------
(***************************************************************************)
(* A task chain: an image task whose result starts a video task, both paid *)
(* for by one deduction.  The hook of the image task's completion          *)
(* (OnTaskCompleted) activates the video task; FailTask of either task     *)
(* ends in OnTaskFailed, which refunds a share, marks the chain and makes  *)
(* every task of it FAILED.                                                *)
(*                                                                         *)
(* How one task runs and fails is TaskLifecycle's: here its end is one     *)
(* step.  Hooks and handlers read the chain and the tasks without a lock   *)
(* and save all their columns, and the Redis locks have a TTL and no owner.*)
(***************************************************************************)
EXTENDS Naturals, FiniteSets

CONSTANTS Goroutines,     \* whoever ends a task and then runs its hook
          NoOne,          \* no holder of a lock
          ImagePrice,     \* CreditPoints of the two workflows
          VideoPrice,
          Wallets,        \* bound: the wallet rows that one deduction draws on
          MaxRestarts,    \* bound: restarts of a failed task by the user
          ChainFaultSets  \* the faults that may happen together

Steps == 1..2
Price == [i \in Steps |-> IF i = 1 THEN ImagePrice ELSE VideoPrice]
AllChainFaults == {"crash", "dberror", "refunderror", "slow", "haste"}

ASSUME TaskChainAssumptions ==
    /\ NoOne \notin Goroutines
    /\ ImagePrice \in Nat /\ VideoPrice \in Nat \ {0}
    /\ Wallets \in Nat \ {0} /\ MaxRestarts \in Nat
    /\ ChainFaultSets \subseteq SUBSET AllChainFaults

VARIABLES chainFaults,   \* one of ChainFaultSets, for good
          chain,         \* the row of va_task_chain
          task,          \* the rows of the two tasks
          act,           \* what each goroutine does, on which copies
          activateLock,  \* visionai:task_chain:activate:<chain>
          failureLock,   \* visionai:task_chain:failure:<chain>
          restarts,      \* restarts so far
          paid, back,    \* credits deducted and refunded so far
          starts         \* history: times the video task was activated

chainVars == <<chainFaults, chain, task, act, activateLock, failureLock, restarts, paid, back, starts>>
chainLocks == <<activateLock, failureLock>>
chainMoney == <<restarts, paid, back>>

\* PENDING_CHAIN is "waiting"; "open" is every status between PENDING and the end.
\* receipt is the sum of CreditDeductionInfo, cost is CreditPoints.
Ended == {"COMPLETED", "FAILED"}
TaskRows == [status : {"waiting", "open"} \cup Ended, cost : Nat, receipt : Nat,
             refunded : BOOLEAN, canRetry : BOOLEAN]
ChainRows == [status : {"PENDING", "RUNNING", "FAILED"}, step : Steps, total : Nat]

\* OnTaskCompleted, and OnTaskFailed once it holds the failure lock.
HookOps == {"hook", "activating", "activated", "advancing", "breaking", "unlocking"}
HandlerOps == {"refunding", "closing", "telling", "marking", "releasing"}
ChainOps == {"idle", "completed", "failed", "handling"} \cup HookOps \cup HandlerOps
Activities == [op : ChainOps, step : Steps, told : Steps, chain : ChainRows, copy : TaskRows]

ChainTypeOK ==
    /\ chainFaults \in ChainFaultSets
    /\ chain \in ChainRows
    /\ task \in [Steps -> TaskRows]
    /\ act \in [Goroutines -> Activities]
    /\ activateLock \in Goroutines \cup {NoOne} /\ failureLock \in Goroutines \cup {NoOne}
    /\ restarts \in 0..MaxRestarts
    /\ paid \in Nat /\ back \in Nat /\ starts \in Nat

\* SubmitPictureTaskChain: both rows carry the receipt of the one deduction.  The
\* image is free for a member.
NewTask(i, cost, total) ==
    [status |-> IF i = 1 THEN "open" ELSE "waiting", cost |-> cost, receipt |-> total,
     refunded |-> FALSE, canRetry |-> i = 1]

ChainInit ==
    /\ chainFaults \in ChainFaultSets
    /\ \E imageCost \in {0, ImagePrice} : LET total == imageCost + VideoPrice IN
         /\ chain = [status |-> "PENDING", step |-> 1, total |-> total]
         /\ task = [i \in Steps |-> NewTask(i, IF i = 1 THEN imageCost ELSE VideoPrice, total)]
         /\ paid = total
    /\ act = [g \in Goroutines |-> [op |-> "idle", step |-> 1, told |-> 1,
                                    chain |-> chain, copy |-> task[1]]]
    /\ activateLock = NoOne /\ failureLock = NoOne
    /\ restarts = 0 /\ back = 0 /\ starts = 0

----------------------------------------------------------------------------
Does(g, op) == act[g].op = op
Turn(g, op) == act' = [act EXCEPT ![g].op = op]

\* A task is done.  Its hook runs in a goroutine g of its own, and after a sync round
\* in a second one, h: the processed result calls the hook, and so does the round.
\* Only the image task is found as the root of a chain.
Complete(g, h, i) ==
    /\ Does(g, "idle") /\ Does(h, "idle") /\ task[i].status = "open"
    /\ task' = [task EXCEPT ![i].status = "COMPLETED"]
    /\ IF i = 1 THEN act' = [act EXCEPT ![g].op = "completed", ![h].op = "completed"] ELSE UNCHANGED act
    /\ UNCHANGED <<chainFaults, chain, chainLocks, chainMoney, starts>>

\* Mutant of Fail: the receipt is not refunded.
FailUnrefunded(g, i) ==
    /\ Does(g, "idle") /\ task[i].status = "open"
    /\ task' = [task EXCEPT ![i].status = "FAILED"]
    /\ act' = [act EXCEPT ![g].op = "failed", ![g].step = i]
    /\ UNCHANGED <<chainFaults, chain, chainLocks, chainMoney, starts>>

\* FailTask: the row's receipt is refunded, unless the row was free or refunded;
\* the row is FAILED; the chain's handler is next.
Fail(g, i) ==
    /\ Does(g, "idle") /\ task[i].status = "open"
    /\ \E refunds \in BOOLEAN :
         /\ refunds => task[i].cost > 0 /\ ~task[i].refunded
         /\ refunds \/ task[i].cost = 0 \/ task[i].refunded \/ "refunderror" \in chainFaults
         /\ back' = IF refunds THEN back + task[i].receipt ELSE back
         /\ task' = [task EXCEPT ![i].status = "FAILED", ![i].refunded = @ \/ refunds]
    /\ act' = [act EXCEPT ![g].op = "failed", ![g].step = i]
    /\ UNCHANGED <<chainFaults, chain, chainLocks, restarts, paid, starts>>

----------------------------------------------------------------------------
\* OnTaskCompleted reads the chain, and is done when it failed or has advanced.
HookRead(g) ==
    /\ Does(g, "completed")
    /\ IF chain.status = "FAILED" \/ chain.step # 1 THEN Turn(g, "idle")
       ELSE act' = [act EXCEPT ![g].op = "hook", ![g].chain = chain]
    /\ UNCHANGED <<chainFaults, chain, task, chainLocks, chainMoney, starts>>

\* Mutant of HookLock: the lock's answer is ignored.
HookLockAlways(g) ==
    /\ Does(g, "hook")
    /\ activateLock' = g
    /\ Turn(g, "activating")
    /\ UNCHANGED <<chainFaults, chain, task, failureLock, chainMoney, starts>>

HookLock(g) ==
    /\ Does(g, "hook")
    /\ IF activateLock = NoOne THEN activateLock' = g /\ Turn(g, "activating")
                               ELSE Turn(g, "idle") /\ UNCHANGED activateLock
    /\ UNCHANGED <<chainFaults, chain, task, failureLock, chainMoney, starts>>

\* ActivateNextTask reads the video task, FOR UPDATE but in no transaction.  An
\* error, here or in what the result contains, breaks the chain.
ActivateRead(g) ==
    /\ Does(g, "activating")
    /\ \/ /\ task[2].status = "waiting"
          /\ act' = [act EXCEPT ![g].op = "activated", ![g].copy = task[2]]
       \/ /\ task[2].status # "waiting" \/ "dberror" \in chainFaults
          /\ Turn(g, "breaking")
    /\ UNCHANGED <<chainFaults, chain, task, chainLocks, chainMoney, starts>>

ActivateSave(g) ==
    /\ Does(g, "activated")
    /\ \/ /\ task' = [task EXCEPT ![2] = [act[g].copy EXCEPT !.status = "open", !.canRetry = TRUE]]
          /\ starts' = starts + 1
          /\ Turn(g, "advancing")
       \/ /\ "dberror" \in chainFaults
          /\ Turn(g, "breaking")
          /\ UNCHANGED <<task, starts>>
    /\ UNCHANGED <<chainFaults, chain, chainLocks, chainMoney>>

\* All columns of the chain as it was read, RUNNING in step 2 or FAILED; an error
\* of the save is ignored.
HookSave(g) ==
    /\ act[g].op \in {"advancing", "breaking"}
    /\ \/ chain' = IF Does(g, "advancing") THEN [act[g].chain EXCEPT !.status = "RUNNING", !.step = 2]
                                           ELSE [act[g].chain EXCEPT !.status = "FAILED"]
       \/ "dberror" \in chainFaults /\ UNCHANGED chain
    /\ Turn(g, "unlocking")
    /\ UNCHANGED <<chainFaults, task, chainLocks, chainMoney, starts>>

\* The lock is deleted, whoever holds it by now.
HookUnlock(g) ==
    /\ Does(g, "unlocking")
    /\ activateLock' = NoOne
    /\ Turn(g, "idle")
    /\ UNCHANGED <<chainFaults, chain, task, failureLock, chainMoney, starts>>

Hook(g) == \/ HookRead(g) \/ HookLock(g) \/ ActivateRead(g) \/ ActivateSave(g)
           \/ HookSave(g) \/ HookUnlock(g)

----------------------------------------------------------------------------
\* OnTaskFailed reads the chain, whatever its status.
HandlerRead(g) ==
    /\ Does(g, "failed")
    /\ \/ act' = [act EXCEPT ![g].op = "handling", ![g].chain = chain]
       \/ "dberror" \in chainFaults /\ Turn(g, "idle")
    /\ UNCHANGED <<chainFaults, chain, task, chainLocks, chainMoney, starts>>

\* Mutant of HandlerLock: the lock's answer is ignored.
HandlerLockAlways(g) ==
    /\ Does(g, "handling")
    /\ failureLock' = g
    /\ Turn(g, "refunding")
    /\ UNCHANGED <<chainFaults, chain, task, activateLock, chainMoney, starts>>

HandlerLock(g) ==
    /\ Does(g, "handling")
    /\ IF failureLock = NoOne THEN failureLock' = g /\ Turn(g, "refunding")
                              ELSE Turn(g, "idle") /\ UNCHANGED failureLock
    /\ UNCHANGED <<chainFaults, chain, task, activateLock, chainMoney, starts>>

\* The workflows' prices, as they are now, of the steps that failed with this one.
Share(i) == IF i = 1 THEN ImagePrice + VideoPrice ELSE VideoPrice

\* What a share of a deduction of total comes to: each wallet row's part is multiplied
\* by a ratio of floats and truncated, so each may be one short; a ratio of one or
\* more leaves no row with less than it gave.
Refunds(share, total) ==
    {amount \in 0..share : share <= amount + Wallets /\ (share >= total => amount >= total)}

\* The source id of the refund is new every time.
HandlerRefund(g) ==
    /\ Does(g, "refunding")
    /\ \/ \E amount \in Refunds(Share(act[g].step), act[g].chain.total) :
            /\ back' = back + amount
            /\ Turn(g, "closing")
       \/ "refunderror" \in chainFaults /\ Turn(g, "closing") /\ UNCHANGED back
       \/ "dberror" \in chainFaults /\ Turn(g, "releasing") /\ UNCHANGED back
    /\ UNCHANGED <<chainFaults, chain, task, chainLocks, restarts, paid, starts>>

\* All columns of the chain as it was read, FAILED; an error is logged.
HandlerClose(g) ==
    /\ Does(g, "closing")
    /\ \/ chain' = [act[g].chain EXCEPT !.status = "FAILED"]
       \/ "dberror" \in chainFaults /\ UNCHANGED chain
    /\ act' = [act EXCEPT ![g].op = "telling", ![g].told = 1]
    /\ UNCHANGED <<chainFaults, task, chainLocks, chainMoney, starts>>

\* notifyChainFailure goes on with the next task, if there is one.
TellNext(g) == act' = IF act[g].told = 1 THEN [act EXCEPT ![g].op = "telling", ![g].told = 2]
                                         ELSE [act EXCEPT ![g].op = "releasing"]

HandlerTell(g) ==
    /\ Does(g, "telling")
    /\ LET i == act[g].told IN
         \/ task[i].status # "FAILED" /\ act' = [act EXCEPT ![g].op = "marking", ![g].copy = task[i]]
         \/ (task[i].status = "FAILED" \/ "dberror" \in chainFaults) /\ TellNext(g)
    /\ UNCHANGED <<chainFaults, chain, task, chainLocks, chainMoney, starts>>

\* Mutant of HandlerMark: the other task is only told, not marked.
HandlerMarkNothing(g) ==
    /\ Does(g, "marking")
    /\ TellNext(g)
    /\ UNCHANGED <<chainFaults, chain, task, chainLocks, chainMoney, starts>>

HandlerMark(g) ==
    /\ Does(g, "marking")
    /\ \/ task' = [task EXCEPT ![act[g].told] = [act[g].copy EXCEPT !.status = "FAILED"]]
       \/ "dberror" \in chainFaults /\ UNCHANGED task
    /\ TellNext(g)
    /\ UNCHANGED <<chainFaults, chain, chainLocks, chainMoney, starts>>

HandlerUnlock(g) ==
    /\ Does(g, "releasing")
    /\ failureLock' = NoOne
    /\ Turn(g, "idle")
    /\ UNCHANGED <<chainFaults, chain, task, activateLock, chainMoney, starts>>

Handler(g) == \/ HandlerRead(g) \/ HandlerLock(g) \/ HandlerRefund(g) \/ HandlerClose(g)
              \/ HandlerTell(g) \/ HandlerMark(g) \/ HandlerUnlock(g)

----------------------------------------------------------------------------
\* RetryFailedTask: the user pays the task's own cost again and gets a receipt of
\* it; in haste, before the handler of the failure is done.
Restart(i) ==
    /\ task[i].status = "FAILED" /\ task[i].canRetry /\ restarts < MaxRestarts
    /\ "haste" \in chainFaults \/ \A g \in Goroutines : act[g].op \notin {"failed", "handling"} \cup HandlerOps
    /\ restarts' = restarts + 1
    /\ paid' = paid + task[i].cost
    /\ task' = [task EXCEPT ![i].status = "open", ![i].receipt = task[i].cost, ![i].refunded = FALSE]
    /\ UNCHANGED <<chainFaults, chain, act, chainLocks, back, starts>>

\* The TTLs: two and five minutes, with no renewal.
ActivateLockExpires ==
    /\ activateLock # NoOne
    /\ "slow" \in chainFaults \/ act[activateLock].op \notin HookOps
    /\ activateLock' = NoOne
    /\ UNCHANGED <<chainFaults, chain, task, act, failureLock, chainMoney, starts>>

FailureLockExpires ==
    /\ failureLock # NoOne
    /\ "slow" \in chainFaults \/ act[failureLock].op \notin HandlerOps
    /\ failureLock' = NoOne
    /\ UNCHANGED <<chainFaults, chain, task, act, activateLock, chainMoney, starts>>

\* A server stops; its hook or handler is lost.
ChainCrash(g) ==
    /\ "crash" \in chainFaults /\ ~Does(g, "idle")
    /\ Turn(g, "idle")
    /\ UNCHANGED <<chainFaults, chain, task, chainLocks, chainMoney, starts>>

ChainNext ==
    \/ \E g \in Goroutines : Hook(g) \/ Handler(g) \/ ChainCrash(g)
    \/ \E g, h \in Goroutines, i \in Steps : Complete(g, h, i)
    \/ \E g \in Goroutines, i \in Steps : Fail(g, i)
    \/ \E i \in Steps : Restart(i)
    \/ ActivateLockExpires \/ FailureLockExpires

ChainSpec == ChainInit /\ [][ChainNext]_chainVars

\* A running goroutine goes on, and a task that runs ends (TaskLifecycle).
ChainRuns(g) == Hook(g) \/ Handler(g)
ATaskEnds == \E g, h \in Goroutines, i \in Steps : Complete(g, h, i) \/ Fail(g, i)
ChainFairness == (\A g \in Goroutines : WF_chainVars(ChainRuns(g))) /\ WF_chainVars(ATaskEnds)

----------------------------------------------------------------------------
\* Safety: unless a hook outlives its lock, the video task is activated at most once,
\* though each completion of the image may run the hook twice, both may have read
\* the chain in step 1, and the save that advances the chain may be lost.
StartsOnce == "slow" \notin chainFaults => starts <= 1

\* Safety: unless a handler outlives its lock, one failure of the chain is
\* handled at a time, as the lock of OnTaskFailed is there to ensure.
OneHandler ==
    "slow" \notin chainFaults =>
        Cardinality({g \in Goroutines : act[g].op \in HandlerOps}) <= 1

\* Safety: a chain of which nothing is left has cost nothing, unless a refund or
\* the database failed or the user restarted a task under the handler's hands.
\* It takes a video so much dearer than the image as truncation may take away: the
\* handler of a video's failure also ends an image the user has paid for again, and
\* refunds the share of the video only.
FailedChainIsRefunded ==
    /\ ImagePrice + Wallets <= VideoPrice
    /\ chainFaults \cap {"refunderror", "dberror", "haste"} = {}
    /\ \A i \in Steps : task[i].status = "FAILED"
    => back >= paid

\* Safety, as the handler's comments state its refunds: nobody gets back more
\* than was paid.
RefundsWithinPaid == back <= paid

\* Liveness: without faults both tasks of the chain end.
ChainEnds == chainFaults \subseteq {"haste"} => <>[](\A i \in Steps : task[i].status \in Ended)
=============================================================================
