-------------------------- MODULE TaskChainProofs --------------------------
(***************************************************************************)
(* Theorems about TaskChain, for all its constants: any number of          *)
(* goroutines and restarts, any prices, all combinations of the faults.    *)
(***************************************************************************)
EXTENDS TaskChain, TLAPS, FiniteSetTheorems

----------------------------------------------------------------------------
\* Why the video task is activated once: who is past the lock holds it, unless it
\* outlived it, and once the task is activated it never waits again.
Inside == {"activating", "activated", "advancing", "breaking", "unlocking"}
HooksHold == \A g \in Goroutines : act[g].op \in Inside => activateLock = g
Activated == starts > 0 => task[2].status # "waiting" /\ \A g \in Goroutines : act[g].op # "activated"
OnceInv == "slow" \notin chainFaults => HooksHold /\ Activated /\ starts <= 1

----------------------------------------------------------------------------
\* Why a failed chain is refunded.
Handling == {"failed", "handling"} \cup HandlerOps
Refunded == {"closing", "telling", "marking"}
Other(i) == IF i = 1 THEN 2 ELSE 1

\* The rows, and the copies of them that are saved.
Prices ==
    /\ task[1].cost \in {0, ImagePrice} /\ task[2].cost = VideoPrice
    /\ chain.total = task[1].cost + VideoPrice
    /\ task[1].receipt \in {chain.total, task[1].cost}
    /\ task[2].receipt \in {chain.total, VideoPrice}
    /\ task[2].status = "waiting" => task[2].receipt = chain.total
    /\ \A i \in Steps : task[i].refunded => task[i].status = "FAILED"
CopyPrices ==
    \A g \in Goroutines : LET copy == act[g].copy IN
        /\ act[g].chain.total = chain.total
        /\ act[g].op = "activated" => /\ copy.cost = VideoPrice /\ copy.receipt = chain.total
                                      /\ ~copy.refunded
        /\ act[g].op = "marking" => LET i == act[g].told IN
             /\ copy.cost = task[i].cost
             /\ copy.receipt \in {chain.total, IF i = 1 THEN task[1].cost ELSE VideoPrice}

\* The image stays failed while its failure is handled.  (The video may be opened
\* again under its handler, by a hook that outlived its lock.)
HandledFailed == \A g \in Goroutines : act[g].op \in Handling /\ act[g].step = 1 => task[1].status = "FAILED"

\* A task owes what its failure would have to give back: nothing when it failed, or
\* when a handler that will fail it has refunded a share, or while the video's own
\* failure, refunded, is handled.  The receipt that both tasks carry is owed once,
\* for the video task.
Covers(g, i) ==
    \/ act[g].op \in Refunded /\ act[g].step = Other(i)
    \/ i = 2 /\ act[g].op \in Handling /\ act[g].step = 2
Covered(i) == task[i].status = "FAILED" \/ \E g \in Goroutines : Covers(g, i)
Owed1 == IF Covered(1) \/ task[1].receipt # task[1].cost THEN 0 ELSE task[1].cost
Owed2 == IF Covered(2) THEN 0 ELSE task[2].receipt
Balance == back + Owed1 + Owed2 >= paid

Calm == chainFaults \cap {"refunderror", "dberror", "haste"} = {}

RefundInv ==
    Calm => /\ Prices /\ CopyPrices /\ HandledFailed
            /\ ImagePrice + Wallets <= VideoPrice => Balance

\* A step after which g covers no task that it did not cover before.
CoversNoMore(g) ==
    /\ act'[g].op \in Refunded => act[g].op \in Refunded
    /\ act'[g].op \in Handling => act[g].op \in Handling /\ act'[g].step = act[g].step

----------------------------------------------------------------------------
\* Rows and activities with a changed field.
LEMMA RowTypes ==
    ASSUME NEW row \in TaskRows, NEW s \in {"waiting", "open"} \cup Ended, NEW n \in Nat,
           NEW b \in BOOLEAN, NEW c \in BOOLEAN
    PROVE  /\ [row EXCEPT !.status = s] \in TaskRows
           /\ [row EXCEPT !.status = s, !.refunded = b] \in TaskRows
           /\ [row EXCEPT !.status = s, !.canRetry = b] \in TaskRows
           /\ [row EXCEPT !.status = s, !.receipt = n, !.refunded = b] \in TaskRows
BY DEF TaskRows

LEMMA TurnType ==
    ASSUME ChainTypeOK, NEW g \in Goroutines, NEW op \in ChainOps, Turn(g, op)
    PROVE  act' \in [Goroutines -> Activities]
BY DEF ChainTypeOK, Activities, Turn

LEMMA StepType ==
    ASSUME ChainTypeOK, NEW g \in Goroutines, NEW op \in ChainOps, NEW i \in Steps
    PROVE  /\ [act EXCEPT ![g].op = op, ![g].step = i] \in [Goroutines -> Activities]
           /\ [act EXCEPT ![g].op = op, ![g].told = i] \in [Goroutines -> Activities]
BY DEF ChainTypeOK, Activities

LEMMA ChainCopyType ==
    ASSUME ChainTypeOK, NEW g \in Goroutines, NEW op \in ChainOps
    PROVE  [act EXCEPT ![g].op = op, ![g].chain = chain] \in [Goroutines -> Activities]
BY DEF ChainTypeOK, Activities

LEMMA CopyType ==
    ASSUME ChainTypeOK, NEW g \in Goroutines, NEW op \in ChainOps, NEW i \in Steps
    PROVE  [act EXCEPT ![g].op = op, ![g].copy = task[i]] \in [Goroutines -> Activities]
BY DEF ChainTypeOK, Activities

LEMMA TellNextType ==
    ASSUME ChainTypeOK, NEW g \in Goroutines, TellNext(g)
    PROVE  act' \in [Goroutines -> Activities]
<1>1. {"telling", "releasing"} \subseteq ChainOps /\ 2 \in Steps
  BY DEF ChainOps, HandlerOps, Steps
<1>. QED
  BY <1>1 DEF TellNext, ChainTypeOK, Activities

LEMMA ActType ==
    ASSUME ChainTypeOK, NEW g \in Goroutines
    PROVE  /\ act[g].op \in ChainOps /\ act[g].step \in Steps /\ act[g].told \in Steps
           /\ act[g].chain \in ChainRows /\ act[g].copy \in TaskRows
           /\ \A i \in Steps : task[i] \in TaskRows /\ task[i].cost \in Nat /\ task[i].receipt \in Nat
BY DEF ChainTypeOK, Activities, TaskRows

LEMMA PriceTypes ==
    /\ ImagePrice \in Nat /\ VideoPrice \in Nat /\ VideoPrice > 0 /\ Steps = {1, 2}
    /\ \A i \in Steps : Share(i) \in Nat /\ Share(i) > 0
BY TaskChainAssumptions DEF Steps, Share

----------------------------------------------------------------------------
\* Type correctness.
LEMMA ChainInitType == ChainInit => ChainTypeOK
<1>. SUFFICES ASSUME ChainInit PROVE ChainTypeOK
  OBVIOUS
<1>1. chain \in ChainRows /\ task \in [Steps -> TaskRows] /\ paid \in Nat
  BY PriceTypes DEF ChainInit, NewTask, TaskRows, ChainRows
<1>2. act \in [Goroutines -> Activities]
  BY <1>1, PriceTypes DEF ChainInit, Activities, ChainOps
<1>. QED
  BY <1>1, <1>2, TaskChainAssumptions DEF ChainInit, ChainTypeOK

LEMMA TaskEndTypes ==
    ASSUME ChainTypeOK, NEW g \in Goroutines, NEW h \in Goroutines, NEW i \in Steps, Complete(g, h, i) \/ Fail(g, i)
    PROVE  ChainTypeOK'
<1>. USE ActType
<1>1. {"completed", "failed"} \subseteq ChainOps /\ {"COMPLETED", "FAILED"} \subseteq Ended
  BY DEF ChainOps, Ended
<1>2. CASE Complete(g, h, i)
  <2>1. task' \in [Steps -> TaskRows]
    BY <1>1, <1>2, RowTypes DEF Complete, ChainTypeOK
  <2>2. act' \in [Goroutines -> Activities]
    BY <1>1, <1>2 DEF Complete, ChainTypeOK, Activities
  <2>. QED
    BY <1>2, <2>1, <2>2 DEF Complete, ChainTypeOK, chainLocks, chainMoney
<1>3. CASE Fail(g, i)
  <2>1. PICK refunds \in BOOLEAN :
          /\ back' = IF refunds THEN back + task[i].receipt ELSE back
          /\ task' = [task EXCEPT ![i].status = "FAILED", ![i].refunded = @ \/ refunds]
    BY <1>3 DEF Fail
  <2>2. (task[i].refunded \/ refunds) \in BOOLEAN
    OBVIOUS
  <2>3. [task[i] EXCEPT !.status = "FAILED", !.refunded = task[i].refunded \/ refunds] \in TaskRows
    BY <1>1, <2>2, RowTypes
  <2>4. task' \in [Steps -> TaskRows]
    BY <2>1, <2>3 DEF ChainTypeOK
  <2>5. back' \in Nat
    BY <2>1 DEF ChainTypeOK
  <2>6. act' \in [Goroutines -> Activities]
    BY <1>1, <1>3, StepType DEF Fail
  <2>. QED
    BY <1>3, <2>4, <2>5, <2>6 DEF Fail, ChainTypeOK, chainLocks
<1>. QED
  BY <1>2, <1>3

LEMMA HookTypes ==
    ASSUME ChainTypeOK, NEW g \in Goroutines, Hook(g)
    PROVE  ChainTypeOK'
<1>. USE DEF chainLocks, chainMoney
<1>1. HookOps \cup {"idle"} \subseteq ChainOps /\ {"hook", "activating", "activated", "advancing", "breaking", "unlocking"} = HookOps
  BY DEF ChainOps, HookOps
<1>2. CASE HookRead(g)
  <2>1. act' \in [Goroutines -> Activities]
    BY <1>1, <1>2 DEF HookRead, Turn, ChainTypeOK, Activities
  <2>. QED
    BY <1>2, <2>1 DEF HookRead, ChainTypeOK
<1>3. CASE HookLock(g)
  <2>1. act' \in [Goroutines -> Activities]
    BY <1>1, <1>3, TurnType DEF HookLock
  <2>. QED
    BY <1>3, <2>1 DEF HookLock, ChainTypeOK
<1>4. CASE ActivateRead(g)
  <2>1. act' \in [Goroutines -> Activities]
    BY <1>1, <1>4, PriceTypes DEF ActivateRead, Turn, ChainTypeOK, Activities
  <2>. QED
    BY <1>4, <2>1 DEF ActivateRead, ChainTypeOK
<1>5. CASE ActivateSave(g)
  <2>1. [act[g].copy EXCEPT !.status = "open", !.canRetry = TRUE] \in TaskRows
    BY RowTypes, ActType
  <2>2. act' \in [Goroutines -> Activities]
    BY <1>1, <1>5, TurnType DEF ActivateSave
  <2>3. task' \in [Steps -> TaskRows] /\ starts' \in Nat
    BY <1>5, <2>1, PriceTypes DEF ActivateSave, ChainTypeOK
  <2>. QED
    BY <1>5, <2>2, <2>3 DEF ActivateSave, ChainTypeOK
<1>6. CASE HookSave(g)
  <2>1. chain' \in ChainRows
    BY <1>6, ActType, PriceTypes DEF HookSave, ChainRows, ChainTypeOK
  <2>2. act' \in [Goroutines -> Activities]
    BY <1>1, <1>6, TurnType DEF HookSave
  <2>. QED
    BY <1>6, <2>1, <2>2 DEF HookSave, ChainTypeOK
<1>7. CASE HookUnlock(g)
  <2>1. act' \in [Goroutines -> Activities]
    BY <1>1, <1>7, TurnType DEF HookUnlock
  <2>. QED
    BY <1>7, <2>1 DEF HookUnlock, ChainTypeOK
<1>. QED
  BY <1>2, <1>3, <1>4, <1>5, <1>6, <1>7 DEF Hook

LEMMA HandlerTypes ==
    ASSUME ChainTypeOK, NEW g \in Goroutines, Handler(g)
    PROVE  ChainTypeOK'
<1>. USE DEF chainLocks, chainMoney
<1>1. HandlerOps \cup {"idle", "handling"} \subseteq ChainOps
      /\ {"refunding", "closing", "telling", "marking", "releasing"} = HandlerOps
  BY DEF ChainOps, HandlerOps
<1>2. CASE HandlerRead(g)
  <2>1. act' \in [Goroutines -> Activities]
    BY <1>1, <1>2 DEF HandlerRead, Turn, ChainTypeOK, Activities
  <2>. QED
    BY <1>2, <2>1 DEF HandlerRead, ChainTypeOK
<1>3. CASE HandlerLock(g)
  <2>1. act' \in [Goroutines -> Activities]
    BY <1>1, <1>3, TurnType DEF HandlerLock
  <2>. QED
    BY <1>3, <2>1 DEF HandlerLock, ChainTypeOK
<1>4. CASE HandlerRefund(g)
  <2>1. back' \in Nat
    BY <1>4, ActType, PriceTypes DEF HandlerRefund, Refunds, ChainTypeOK
  <2>2. act' \in [Goroutines -> Activities]
    BY <1>1, <1>4, TurnType DEF HandlerRefund
  <2>. QED
    BY <1>4, <2>1, <2>2 DEF HandlerRefund, ChainTypeOK
<1>5. CASE HandlerClose(g)
  <2>1. chain' \in ChainRows
    BY <1>5, ActType DEF HandlerClose, ChainRows, ChainTypeOK
  <2>2. act' \in [Goroutines -> Activities]
    BY <1>1, <1>5, StepType, PriceTypes DEF HandlerClose
  <2>. QED
    BY <1>5, <2>1, <2>2 DEF HandlerClose, ChainTypeOK
<1>6. CASE HandlerTell(g)
  <2>1. act' \in [Goroutines -> Activities]
    <3>1. CASE act' = [act EXCEPT ![g].op = "marking", ![g].copy = task[act[g].told]]
      BY <1>1, <3>1, ActType DEF ChainTypeOK, Activities
    <3>. QED
      BY <1>6, <3>1, TellNextType DEF HandlerTell
  <2>. QED
    BY <1>6, <2>1 DEF HandlerTell, ChainTypeOK
<1>7. CASE HandlerMark(g)
  <2>1. [act[g].copy EXCEPT !.status = "FAILED"] \in TaskRows
    BY RowTypes, ActType DEF Ended
  <2>2. task' \in [Steps -> TaskRows]
    BY <1>7, <2>1, ActType DEF HandlerMark, ChainTypeOK
  <2>3. act' \in [Goroutines -> Activities]
    BY <1>7, TellNextType DEF HandlerMark
  <2>. QED
    BY <1>7, <2>2, <2>3 DEF HandlerMark, ChainTypeOK
<1>8. CASE HandlerUnlock(g)
  <2>1. act' \in [Goroutines -> Activities]
    BY <1>1, <1>8, TurnType DEF HandlerUnlock
  <2>. QED
    BY <1>8, <2>1 DEF HandlerUnlock, ChainTypeOK
<1>. QED
  BY <1>2, <1>3, <1>4, <1>5, <1>6, <1>7, <1>8 DEF Handler

LEMMA OtherTypes ==
    ASSUME ChainTypeOK,
           \/ \E i \in Steps : Restart(i)
           \/ ActivateLockExpires \/ FailureLockExpires
           \/ \E g \in Goroutines : ChainCrash(g)
           \/ UNCHANGED chainVars
    PROVE  ChainTypeOK'
<1>1. ASSUME NEW i \in Steps, Restart(i) PROVE ChainTypeOK'
  <2>1. task[i] \in TaskRows /\ task[i].cost \in Nat
    BY DEF ChainTypeOK, TaskRows
  <2>2. task' \in [Steps -> TaskRows]
    BY <1>1, <2>1, RowTypes DEF Restart, ChainTypeOK
  <2>3. /\ restarts' = restarts + 1 /\ restarts < MaxRestarts /\ paid' = paid + task[i].cost
    BY <1>1 DEF Restart
  <2>4. MaxRestarts \in Nat /\ restarts \in 0..MaxRestarts /\ paid \in Nat
    BY TaskChainAssumptions DEF ChainTypeOK
  <2>5. restarts' \in 0..MaxRestarts
    BY <2>3, <2>4
  <2>6. paid' \in Nat
    BY <2>1, <2>3, <2>4
  <2>. QED
    BY <1>1, <2>2, <2>5, <2>6 DEF Restart, ChainTypeOK, chainLocks
<1>2. CASE ActivateLockExpires
  BY <1>2 DEF ActivateLockExpires, ChainTypeOK, chainMoney
<1>3. CASE FailureLockExpires
  BY <1>3 DEF FailureLockExpires, ChainTypeOK, chainMoney
<1>4. ASSUME NEW g \in Goroutines, ChainCrash(g) PROVE ChainTypeOK'
  <2>1. "idle" \in ChainOps
    BY DEF ChainOps
  <2>. QED
    BY <1>4, <2>1, TurnType, ActType DEF ChainCrash, ChainTypeOK, chainLocks, chainMoney
<1>5. CASE UNCHANGED chainVars
  BY <1>5 DEF chainVars, ChainTypeOK, chainLocks, chainMoney
<1>. QED
  BY <1>1, <1>2, <1>3, <1>4, <1>5

\* One case per action of ChainNext.
LEMMA ChainStepTypes == ChainTypeOK /\ [ChainNext]_chainVars => ChainTypeOK'
BY TaskEndTypes, HookTypes, HandlerTypes, OtherTypes DEF ChainNext

\* The chain, its tasks, the goroutines' copies and the locks keep their types.
THEOREM ChainTypeCorrect == ChainSpec => []ChainTypeOK
<1>1. ChainInit => ChainTypeOK
  BY ChainInitType
<1>2. ChainTypeOK /\ [ChainNext]_chainVars => ChainTypeOK'
  BY ChainStepTypes
<1>. QED
  BY <1>1, <1>2, PTL DEF ChainSpec

----------------------------------------------------------------------------
\* What the actions with more than one outcome leave alone.
LEMMA FailFrame ==
    ASSUME ChainTypeOK, NEW g \in Goroutines, NEW i \in Steps, Fail(g, i)
    PROVE  /\ act[g].op = "idle" /\ act'[g].op = "failed" /\ act'[g].step = i
           /\ act'[g].told = act[g].told /\ act'[g].chain = act[g].chain /\ act'[g].copy = act[g].copy
           /\ \A h \in Goroutines \ {g} : act'[h] = act[h]
           /\ task[i].status = "open" /\ task'[i].status = "FAILED" /\ task'[i].cost = task[i].cost
           /\ task'[i].receipt = task[i].receipt /\ task'[i].canRetry = task[i].canRetry
           /\ \A j \in Steps \ {i} : task'[j] = task[j]
           /\ UNCHANGED <<chainFaults, chain, activateLock, failureLock, restarts, paid, starts>>
<1>1. PICK refunds \in BOOLEAN :
        task' = [task EXCEPT ![i].status = "FAILED", ![i].refunded = @ \/ refunds]
  BY DEF Fail
<1>2. /\ task[i].status = "open" /\ task'[i].status = "FAILED" /\ task'[i].cost = task[i].cost
      /\ task'[i].receipt = task[i].receipt /\ task'[i].canRetry = task[i].canRetry
      /\ \A j \in Steps \ {i} : task'[j] = task[j]
  BY <1>1 DEF Fail, ChainTypeOK, TaskRows
<1>3. act' = [act EXCEPT ![g].op = "failed", ![g].step = i]
  BY DEF Fail
<1>4. /\ act'[g].op = "failed" /\ act'[g].step = i
      /\ act'[g].told = act[g].told /\ act'[g].chain = act[g].chain /\ act'[g].copy = act[g].copy
      /\ \A h \in Goroutines \ {g} : act'[h] = act[h]
  BY <1>3 DEF ChainTypeOK, Activities
<1>. QED
  BY <1>2, <1>4 DEF Fail, Does, chainLocks

LEMMA TurnFrame ==
    ASSUME ChainTypeOK, NEW g \in Goroutines, NEW op, Turn(g, op)
    PROVE  /\ act'[g].op = op /\ act'[g].step = act[g].step /\ act'[g].told = act[g].told
           /\ act'[g].chain = act[g].chain /\ act'[g].copy = act[g].copy
           /\ \A h \in Goroutines \ {g} : act'[h] = act[h]
BY DEF ChainTypeOK, Activities, Turn

LEMMA CompleteFrame ==
    ASSUME ChainTypeOK, NEW g \in Goroutines, NEW h \in Goroutines, NEW i \in Steps, Complete(g, h, i)
    PROVE  /\ task[i].status = "open" /\ task'[i].status = "COMPLETED"
           /\ task'[i].cost = task[i].cost /\ task'[i].receipt = task[i].receipt
           /\ task'[i].refunded = task[i].refunded /\ task'[i].canRetry = task[i].canRetry
           /\ \A j \in Steps \ {i} : task'[j] = task[j]
           /\ \A k \in Goroutines :
                \/ act'[k] = act[k]
                \/ /\ act[k].op = "idle" /\ act'[k].op = "completed"
                   /\ act'[k].step = act[k].step /\ act'[k].chain = act[k].chain
           /\ UNCHANGED <<chainFaults, chain, activateLock, failureLock, restarts, paid, back, starts>>
<1>1. task' = [task EXCEPT ![i].status = "COMPLETED"]
  BY DEF Complete
<1>2. /\ task'[i].status = "COMPLETED"
      /\ task'[i].cost = task[i].cost /\ task'[i].receipt = task[i].receipt
      /\ task'[i].refunded = task[i].refunded /\ task'[i].canRetry = task[i].canRetry
      /\ \A j \in Steps \ {i} : task'[j] = task[j]
  BY <1>1 DEF ChainTypeOK, TaskRows
<1>3. CASE i = 1
  <2>1. act' = [act EXCEPT ![g].op = "completed", ![h].op = "completed"]
    BY <1>3 DEF Complete
  <2>. QED
    BY <1>2, <2>1 DEF Complete, Does, chainLocks, chainMoney, ChainTypeOK, Activities
<1>4. CASE i # 1
  BY <1>2, <1>4 DEF Complete, chainLocks, chainMoney
<1>. QED
  BY <1>3, <1>4

\* ActivateSave and HandlerMark when the database answers.
LEMMA ActivateFrame ==
    ASSUME ChainTypeOK, NEW g \in Goroutines, ActivateSave(g), "dberror" \notin chainFaults
    PROVE  /\ act[g].op = "activated" /\ Turn(g, "advancing")
           /\ task'[1] = task[1]
           /\ task'[2].status = "open" /\ task'[2].canRetry
           /\ task'[2].cost = act[g].copy.cost /\ task'[2].receipt = act[g].copy.receipt
           /\ task'[2].refunded = act[g].copy.refunded
           /\ starts' = starts + 1
           /\ UNCHANGED <<chainFaults, chain, activateLock, failureLock, restarts, paid, back>>
<1>1. task' = [task EXCEPT ![2] = [act[g].copy EXCEPT !.status = "open", !.canRetry = TRUE]]
  BY DEF ActivateSave
<1>2. act[g].copy \in TaskRows
  BY ActType
<1>. QED
  BY <1>1, <1>2, PriceTypes DEF ActivateSave, ChainTypeOK, TaskRows, Does, chainLocks, chainMoney

LEMMA TellFrame ==
    ASSUME ChainTypeOK, NEW g \in Goroutines, TellNext(g)
    PROVE  /\ \/ act[g].told = 1 /\ act'[g].op = "telling" /\ act'[g].told = 2
              \/ act[g].told = 2 /\ act'[g].op = "releasing" /\ act'[g].told = 2
           /\ act'[g].step = act[g].step /\ act'[g].chain = act[g].chain /\ act'[g].copy = act[g].copy
           /\ \A h \in Goroutines \ {g} : act'[h] = act[h]
<1>1. CASE act[g].told = 1
  BY <1>1 DEF TellNext, ChainTypeOK, Activities
<1>2. CASE act[g].told # 1
  BY <1>2, ActType, PriceTypes DEF TellNext, ChainTypeOK, Activities
<1>. QED
  BY <1>1, <1>2

LEMMA MarkFrame ==
    ASSUME ChainTypeOK, NEW g \in Goroutines, HandlerMark(g), "dberror" \notin chainFaults, NEW i, i = act[g].told
    PROVE  /\ act[g].op = "marking" /\ TellNext(g)
           /\ task'[i].status = "FAILED" /\ task'[i].canRetry = act[g].copy.canRetry
           /\ task'[i].cost = act[g].copy.cost /\ task'[i].receipt = act[g].copy.receipt
           /\ \A j \in Steps \ {i} : task'[j] = task[j]
           /\ UNCHANGED <<chainFaults, chain, activateLock, failureLock, restarts, paid, back, starts>>
<1>1. task' = [task EXCEPT ![act[g].told] = [act[g].copy EXCEPT !.status = "FAILED"]]
  BY DEF HandlerMark
<1>2. act[g].copy \in TaskRows /\ act[g].told \in Steps
  BY ActType
<1>. QED
  BY <1>1, <1>2 DEF HandlerMark, ChainTypeOK, TaskRows, Does, chainLocks, chainMoney

LEMMA SaveFrame ==
    ASSUME ChainTypeOK, NEW g \in Goroutines, HookSave(g) \/ HandlerClose(g), "dberror" \notin chainFaults
    PROVE  /\ chain'.total = act[g].chain.total
           /\ act'[g].step = act[g].step /\ act'[g].chain = act[g].chain /\ act'[g].copy = act[g].copy
           /\ \A h \in Goroutines \ {g} : act'[h] = act[h]
           /\ UNCHANGED <<chainFaults, task, activateLock, failureLock, restarts, paid, back, starts>>
<1>1. act[g].chain \in ChainRows
  BY ActType
<1>2. CASE HookSave(g)
  BY <1>1, <1>2, TurnFrame DEF HookSave, ChainRows, chainLocks, chainMoney
<1>3. CASE HandlerClose(g)
  BY <1>1, <1>3 DEF HandlerClose, ChainRows, chainLocks, chainMoney, ChainTypeOK, Activities
<1>. QED
  BY <1>2, <1>3

LEMMA RestartFrame ==
    ASSUME ChainTypeOK, NEW i \in Steps, Restart(i)
    PROVE  /\ task[i].status = "FAILED"
           /\ task'[i].status = "open" /\ task'[i].receipt = task[i].cost /\ ~task'[i].refunded
           /\ task'[i].cost = task[i].cost /\ task'[i].canRetry /\ task[i].canRetry
           /\ \A j \in Steps \ {i} : task'[j] = task[j]
           /\ UNCHANGED <<chainFaults, chain, act, activateLock, failureLock, back, starts>>
BY DEF Restart, ChainTypeOK, TaskRows, chainLocks

\* The locks: a handler holds the failure lock unless it outlived it.
HandlersHold ==
    "slow" \notin chainFaults => \A g \in Goroutines : act[g].op \in HandlerOps => failureLock = g

LEMMA HandlersHoldStep ==
    ASSUME ChainTypeOK, HandlersHold, [ChainNext]_chainVars
    PROVE  HandlersHold'
<1>. USE DEF chainLocks, chainMoney, HandlersHold
<1>1. ASSUME NEW g \in Goroutines, NEW h \in Goroutines, NEW i \in Steps, Complete(g, h, i) \/ Fail(g, i)
      PROVE  HandlersHold'
  <2>1. CASE Complete(g, h, i)
    BY <2>1, CompleteFrame DEF HandlerOps
  <2>2. CASE Fail(g, i)
    BY <2>2, FailFrame, PriceTypes DEF HandlerOps
  <2>. QED
    BY <1>1, <2>1, <2>2
<1>2. ASSUME NEW g \in Goroutines, Hook(g) PROVE HandlersHold'
  <2>. USE <1>2 DEF Does, Turn, HandlerOps, ChainTypeOK, Activities
  <2>1. CASE HookRead(g)
    BY <2>1 DEF HookRead
  <2>2. CASE HookLock(g)
    BY <2>2 DEF HookLock
  <2>3. CASE ActivateRead(g)
    BY <2>3 DEF ActivateRead
  <2>4. CASE ActivateSave(g)
    BY <2>4 DEF ActivateSave
  <2>5. CASE HookSave(g)
    BY <2>5 DEF HookSave
  <2>6. CASE HookUnlock(g)
    BY <2>6 DEF HookUnlock
  <2>. QED
    BY <2>1, <2>2, <2>3, <2>4, <2>5, <2>6 DEF Hook
<1>3. ASSUME NEW g \in Goroutines, Handler(g) PROVE HandlersHold'
  <2>. USE <1>3 DEF Does, Turn, HandlerOps, ChainTypeOK, Activities
  <2>1. CASE HandlerRead(g)
    BY <2>1 DEF HandlerRead
  <2>2. CASE HandlerLock(g)
    BY <2>2, TaskChainAssumptions DEF HandlerLock
  <2>3. CASE HandlerRefund(g)
    BY <2>3 DEF HandlerRefund
  <2>4. CASE HandlerClose(g)
    BY <2>4 DEF HandlerClose
  <2>5. CASE HandlerTell(g)
    BY <2>5 DEF HandlerTell, TellNext
  <2>6. CASE HandlerMark(g)
    BY <2>6 DEF HandlerMark, TellNext
  <2>7. CASE HandlerUnlock(g)
    BY <2>7 DEF HandlerUnlock
  <2>. QED
    BY <2>1, <2>2, <2>3, <2>4, <2>5, <2>6, <2>7 DEF Handler
<1>4. ASSUME NEW i \in Steps, Restart(i) PROVE HandlersHold'
  BY <1>4 DEF Restart
<1>5. CASE ActivateLockExpires
  BY <1>5 DEF ActivateLockExpires
<1>6. CASE FailureLockExpires
  BY <1>6 DEF FailureLockExpires
<1>7. ASSUME NEW g \in Goroutines, ChainCrash(g) PROVE HandlersHold'
  BY <1>7 DEF ChainCrash, Turn, HandlerOps, ChainTypeOK, Activities
<1>8. CASE UNCHANGED chainVars
  BY <1>8 DEF chainVars
<1>. QED
  BY <1>1, <1>2, <1>3, <1>4, <1>5, <1>6, <1>7, <1>8 DEF ChainNext

\* OneHandler: unless a handler outlives its lock, one failure is handled at a time,
\* for a handler holds the lock to its end.
THEOREM OneHandlerHolds == ChainSpec => []OneHandler
<1>1. ChainInit => HandlersHold
  BY DEF ChainInit, HandlersHold, HandlerOps
<1>2. ChainTypeOK /\ HandlersHold /\ [ChainNext]_chainVars => HandlersHold'
  BY HandlersHoldStep
<1>3. HandlersHold => OneHandler
  <2>. SUFFICES ASSUME HandlersHold, "slow" \notin chainFaults
                PROVE  Cardinality({g \in Goroutines : act[g].op \in HandlerOps}) <= 1
    BY DEF OneHandler
  <2>1. {g \in Goroutines : act[g].op \in HandlerOps} \subseteq {failureLock}
    BY DEF HandlersHold
  <2>2. IsFiniteSet({failureLock}) /\ Cardinality({failureLock}) = 1
    BY FS_Singleton
  <2>. QED
    BY <2>1, <2>2, FS_Subset, FS_CardinalityType
<1>. QED
  BY <1>1, <1>2, <1>3, ChainTypeCorrect, PTL DEF ChainSpec

----------------------------------------------------------------------------
\* StartsOnce.
LEMMA HooksHoldStep ==
    ASSUME ChainTypeOK, HooksHold, "slow" \notin chainFaults, [ChainNext]_chainVars
    PROVE  HooksHold'
<1>. USE DEF chainLocks, chainMoney, HooksHold
<1>1. ASSUME NEW g \in Goroutines, NEW h \in Goroutines, NEW i \in Steps, Complete(g, h, i) \/ Fail(g, i)
      PROVE  HooksHold'
  <2>1. CASE Complete(g, h, i)
    BY <2>1, CompleteFrame DEF Inside
  <2>2. CASE Fail(g, i)
    BY <2>2, FailFrame, PriceTypes DEF Inside
  <2>. QED
    BY <1>1, <2>1, <2>2
<1>2. ASSUME NEW g \in Goroutines, Hook(g) PROVE HooksHold'
  <2>. USE <1>2 DEF Does, Turn, Inside, ChainTypeOK, Activities
  <2>1. CASE HookRead(g)
    BY <2>1 DEF HookRead
  <2>2. CASE HookLock(g)
    BY <2>2, TaskChainAssumptions DEF HookLock
  <2>3. CASE ActivateRead(g)
    BY <2>3 DEF ActivateRead
  <2>4. CASE ActivateSave(g)
    BY <2>4 DEF ActivateSave
  <2>5. CASE HookSave(g)
    BY <2>5 DEF HookSave
  <2>6. CASE HookUnlock(g)
    BY <2>6 DEF HookUnlock
  <2>. QED
    BY <2>1, <2>2, <2>3, <2>4, <2>5, <2>6 DEF Hook
<1>3. ASSUME NEW g \in Goroutines, Handler(g) PROVE HooksHold'
  <2>. USE <1>3 DEF Does, Turn, Inside, ChainTypeOK, Activities
  <2>1. CASE HandlerRead(g)
    BY <2>1 DEF HandlerRead
  <2>2. CASE HandlerLock(g)
    <3>1. UNCHANGED activateLock /\ act[g].op = "handling" /\ act'[g].op \in {"refunding", "idle"}
      BY <2>2 DEF HandlerLock
    <3>2. \A h \in Goroutines \ {g} : act'[h] = act[h]
      BY <2>2 DEF HandlerLock
    <3>. QED
      BY <3>1, <3>2
  <2>3. CASE HandlerRefund(g)
    BY <2>3 DEF HandlerRefund
  <2>4. CASE HandlerClose(g)
    BY <2>4 DEF HandlerClose
  <2>5. CASE HandlerTell(g)
    BY <2>5 DEF HandlerTell, TellNext
  <2>6. CASE HandlerMark(g)
    BY <2>6 DEF HandlerMark, TellNext
  <2>7. CASE HandlerUnlock(g)
    BY <2>7 DEF HandlerUnlock
  <2>. QED
    BY <2>1, <2>2, <2>3, <2>4, <2>5, <2>6, <2>7 DEF Handler
<1>4. ASSUME NEW i \in Steps, Restart(i) PROVE HooksHold'
  BY <1>4 DEF Restart
<1>5. CASE ActivateLockExpires
  BY <1>5 DEF ActivateLockExpires, HookOps, Inside
<1>6. CASE FailureLockExpires
  BY <1>6 DEF FailureLockExpires
<1>7. ASSUME NEW g \in Goroutines, ChainCrash(g) PROVE HooksHold'
  BY <1>7 DEF ChainCrash, Turn, Inside, ChainTypeOK, Activities
<1>8. CASE UNCHANGED chainVars
  BY <1>8 DEF chainVars
<1>. QED
  BY <1>1, <1>2, <1>3, <1>4, <1>5, <1>6, <1>7, <1>8 DEF ChainNext

\* No step makes the video task wait, and only a hook's read of a waiting task leads
\* to an activation.
LEMMA ActivatedStep ==
    ASSUME ChainTypeOK, HooksHold, Activated, starts <= 1, [ChainNext]_chainVars
    PROVE  Activated' /\ starts' <= 1
<1>. USE DEF chainLocks, chainMoney, Activated
<1>1. ASSUME NEW g \in Goroutines, NEW h \in Goroutines, NEW i \in Steps, Complete(g, h, i) \/ Fail(g, i)
      PROVE  Activated' /\ starts' <= 1
  <2>1. CASE Complete(g, h, i)
    BY <2>1, CompleteFrame, PriceTypes
  <2>2. CASE Fail(g, i)
    BY <2>2, FailFrame, PriceTypes
  <2>. QED
    BY <1>1, <2>1, <2>2
<1>2. ASSUME NEW g \in Goroutines, Hook(g) PROVE Activated' /\ starts' <= 1
  <2>. USE <1>2 DEF Does, Turn, ChainTypeOK, Activities
  <2>1. CASE HookRead(g)
    BY <2>1 DEF HookRead
  <2>2. CASE HookLock(g)
    BY <2>2 DEF HookLock
  <2>3. CASE ActivateRead(g)
    BY <2>3 DEF ActivateRead
  <2>4. CASE ActivateSave(g)
    <3>1. act[g].op = "activated" /\ starts = 0
      BY <2>4 DEF ActivateSave
    <3>2. \A h \in Goroutines \ {g} : act[h].op # "activated" /\ act'[h] = act[h]
      BY <2>4, <3>1 DEF ActivateSave, HooksHold, Inside
    <3>3. act'[g].op # "activated"
      BY <2>4, <3>1 DEF ActivateSave
    <3>4. starts' = 0 \/ (starts' = 1 /\ task'[2].status = "open")
      <4>1. [act[g].copy EXCEPT !.status = "open", !.canRetry = TRUE].status = "open"
        BY ActType DEF TaskRows
      <4>2. CASE "dberror" \in chainFaults /\ UNCHANGED starts
        BY <3>1, <4>2
      <4>3. CASE starts' = starts + 1 /\ task' = [task EXCEPT ![2] = [act[g].copy EXCEPT !.status = "open", !.canRetry = TRUE]]
        BY <3>1, <4>1, <4>3, PriceTypes
      <4>. QED
        BY <2>4, <4>2, <4>3 DEF ActivateSave
    <3>. QED
      BY <3>2, <3>3, <3>4
  <2>5. CASE HookSave(g)
    BY <2>5 DEF HookSave
  <2>6. CASE HookUnlock(g)
    BY <2>6 DEF HookUnlock
  <2>. QED
    BY <2>1, <2>2, <2>3, <2>4, <2>5, <2>6 DEF Hook
<1>3. ASSUME NEW g \in Goroutines, Handler(g) PROVE Activated' /\ starts' <= 1
  <2>. USE <1>3 DEF Does, Turn, ChainTypeOK, Activities
  <2>1. CASE HandlerRead(g)
    BY <2>1 DEF HandlerRead
  <2>2. CASE HandlerLock(g)
    BY <2>2 DEF HandlerLock
  <2>3. CASE HandlerRefund(g)
    BY <2>3 DEF HandlerRefund
  <2>4. CASE HandlerClose(g)
    BY <2>4 DEF HandlerClose
  <2>5. CASE HandlerTell(g)
    BY <2>5 DEF HandlerTell, TellNext
  <2>6. CASE HandlerMark(g)
    <3>1. [act[g].copy EXCEPT !.status = "FAILED"].status = "FAILED"
      BY ActType DEF TaskRows
    <3>2. task'[2] = task[2] \/ task'[2].status = "FAILED"
      BY <2>6, <3>1, PriceTypes DEF HandlerMark
    <3>3. UNCHANGED starts /\ \A h \in Goroutines : act'[h].op = "activated" => act[h].op = "activated"
      BY <2>6 DEF HandlerMark, TellNext
    <3>. QED
      BY <3>2, <3>3
  <2>7. CASE HandlerUnlock(g)
    BY <2>7 DEF HandlerUnlock
  <2>. QED
    BY <2>1, <2>2, <2>3, <2>4, <2>5, <2>6, <2>7 DEF Handler
<1>4. ASSUME NEW i \in Steps, Restart(i) PROVE Activated' /\ starts' <= 1
  BY <1>4, RestartFrame, PriceTypes
<1>5. CASE ActivateLockExpires \/ FailureLockExpires
  BY <1>5 DEF ActivateLockExpires, FailureLockExpires
<1>6. ASSUME NEW g \in Goroutines, ChainCrash(g) PROVE Activated' /\ starts' <= 1
  BY <1>6 DEF ChainCrash, Turn, ChainTypeOK, Activities
<1>7. CASE UNCHANGED chainVars
  BY <1>7 DEF chainVars
<1>. QED
  BY <1>1, <1>2, <1>3, <1>4, <1>5, <1>6, <1>7 DEF ChainNext

LEMMA FaultsStay == [ChainNext]_chainVars => UNCHANGED chainFaults
BY DEF ChainNext, Hook, Handler, HookRead, HookLock, ActivateRead, ActivateSave, HookSave, HookUnlock,
       HandlerRead, HandlerLock, HandlerRefund, HandlerClose, HandlerTell, HandlerMark, HandlerUnlock,
       Complete, Fail, Restart, ActivateLockExpires, FailureLockExpires, ChainCrash, chainVars

\* StartsOnce: unless a hook outlives its lock the video task is activated once, for
\* as many hooks as the completions of the image run, and whatever else fails.
THEOREM StartsOnceHolds == ChainSpec => []StartsOnce
<1>1. ChainInit => OnceInv
  BY DEF ChainInit, OnceInv, HooksHold, Activated, Inside
<1>2. ChainTypeOK /\ OnceInv /\ [ChainNext]_chainVars => OnceInv'
  BY HooksHoldStep, ActivatedStep, FaultsStay DEF OnceInv
<1>3. OnceInv => StartsOnce
  BY DEF OnceInv, StartsOnce
<1>. QED
  BY <1>1, <1>2, <1>3, ChainTypeCorrect, PTL DEF ChainSpec

----------------------------------------------------------------------------
\* FailedChainIsRefunded.  The facts about rows, copies and handlers that the
\* balance rests on.
Facts == Prices /\ CopyPrices /\ HandledFailed

LEMMA CalmFaults ==
    Calm => "refunderror" \notin chainFaults /\ "dberror" \notin chainFaults /\ "haste" \notin chainFaults
BY DEF Calm

LEMMA FactsStep ==
    ASSUME ChainTypeOK, Facts, Calm, [ChainNext]_chainVars
    PROVE  Facts'
<1>0. /\ \A g \in Goroutines : act[g].op \in ChainOps /\ act[g].told \in Steps /\ act[g].step \in Steps
      /\ \A i \in Steps : task[i].status \in {"waiting", "open", "COMPLETED", "FAILED"}
      /\ "dberror" \notin chainFaults /\ "haste" \notin chainFaults
  BY ActType, CalmFaults DEF ChainTypeOK, TaskRows, Ended
<1>. USE <1>0, PriceTypes DEF chainLocks, chainMoney, Facts, Prices, CopyPrices, HandledFailed, Handling, HandlerOps
<1>1. ASSUME NEW g \in Goroutines, NEW h \in Goroutines, NEW i \in Steps, Complete(g, h, i) PROVE Facts'
  <2>1. Prices'
    BY <1>1, CompleteFrame
  <2>2. CopyPrices'
    BY <1>1, CompleteFrame
  <2>3. HandledFailed'
    BY <1>1, CompleteFrame
  <2>. QED
    BY <2>1, <2>2, <2>3
<1>2. ASSUME NEW g \in Goroutines, NEW i \in Steps, Fail(g, i) PROVE Facts'
  <2>1. Prices'
    BY <1>2, FailFrame
  <2>2. CopyPrices'
    BY <1>2, FailFrame
  <2>3. HandledFailed'
    BY <1>2, FailFrame
  <2>. QED
    BY <2>1, <2>2, <2>3
<1>3. ASSUME NEW g \in Goroutines, Hook(g) PROVE Facts'
  <2>. USE <1>3 DEF Does
  <2>1. CASE HookRead(g)
    BY <2>1 DEF HookRead, Turn, ChainTypeOK, Activities
  <2>2. CASE HookLock(g)
    <3>1. Turn(g, "activating") \/ Turn(g, "idle")
      BY <2>2 DEF HookLock
    <3>. QED
      BY <2>2, <3>1, TurnFrame DEF HookLock
  <2>3. CASE ActivateRead(g)
    <3>1. CASE Turn(g, "breaking")
      BY <2>3, <3>1, TurnFrame DEF ActivateRead
    <3>2. CASE task[2].status = "waiting" /\ act' = [act EXCEPT ![g].op = "activated", ![g].copy = task[2]]
      <4>1. /\ act'[g].op = "activated" /\ act'[g].copy = task[2]
            /\ act'[g].chain = act[g].chain /\ act'[g].step = act[g].step
            /\ \A h \in Goroutines \ {g} : act'[h] = act[h]
        BY <3>2 DEF ChainTypeOK, Activities
      <4>2. UNCHANGED <<chain, task>>
        BY <2>3 DEF ActivateRead
      <4>3. Prices'
        BY <4>2
      <4>4. task[2].cost = VideoPrice /\ task[2].receipt = chain.total /\ ~task[2].refunded
        BY <3>2
      <4>5. CopyPrices'
        BY <4>1, <4>2, <4>4
      <4>6. HandledFailed'
        BY <4>1, <4>2
      <4>. QED
        BY <4>3, <4>5, <4>6
    <3>. QED
      BY <2>3, <3>1, <3>2 DEF ActivateRead
  <2>4. CASE ActivateSave(g)
    <3>1. /\ act'[g].op = "advancing" /\ act'[g].chain = act[g].chain
          /\ \A h \in Goroutines \ {g} : act'[h] = act[h]
      BY <2>4, ActivateFrame, TurnFrame
    <3>2. Prices'
      BY <2>4, ActivateFrame
    <3>3. CopyPrices'
      BY <2>4, <3>1, ActivateFrame
    <3>4. HandledFailed'
      BY <2>4, <3>1, ActivateFrame
    <3>. QED
      BY <3>2, <3>3, <3>4
  <2>5. CASE HookSave(g)
    <3>1. Turn(g, "unlocking")
      BY <2>5 DEF HookSave
    <3>2. act'[g].op = "unlocking"
      BY <3>1, TurnFrame
    <3>3. chain'.total = chain.total
      BY <2>5, SaveFrame
    <3>. QED
      BY <2>5, <3>2, <3>3, SaveFrame
  <2>6. CASE HookUnlock(g)
    BY <2>6, TurnFrame DEF HookUnlock
  <2>. QED
    BY <2>1, <2>2, <2>3, <2>4, <2>5, <2>6 DEF Hook
<1>4. ASSUME NEW g \in Goroutines, Handler(g) PROVE Facts'
  <2>. USE <1>4 DEF Does
  <2>1. CASE HandlerRead(g)
    BY <2>1 DEF HandlerRead, ChainTypeOK, Activities
  <2>2. CASE HandlerLock(g)
    BY <2>2 DEF HandlerLock, Turn, ChainTypeOK, Activities
  <2>3. CASE HandlerRefund(g)
    BY <2>3 DEF HandlerRefund, Turn, ChainTypeOK, Activities
  <2>4. CASE HandlerClose(g)
    <3>1. act[g].op = "closing" /\ act'[g].op = "telling" /\ act'[g].told = 1
      BY <2>4 DEF HandlerClose, ChainTypeOK, Activities
    <3>2. chain'.total = chain.total
      BY <2>4, SaveFrame
    <3>3. Prices'
      BY <2>4, <3>2, SaveFrame
    <3>4. CopyPrices'
      BY <2>4, <3>1, <3>2, SaveFrame
    <3>5. HandledFailed'
      BY <2>4, <3>1, SaveFrame
    <3>. QED
      BY <3>3, <3>4, <3>5
  <2>5. CASE HandlerTell(g)
    BY <2>5 DEF HandlerTell, TellNext, ChainTypeOK, Activities
  <2>6. CASE HandlerMark(g)
    <3>. DEFINE i == act[g].told
    <3>1. i \in Steps
      BY ActType
    <3>2. Prices'
      BY <2>6, <3>1, MarkFrame
    <3>3. CopyPrices'
      BY <2>6, <3>1, MarkFrame, TellFrame
    <3>4. HandledFailed'
      BY <2>6, <3>1, MarkFrame, TellFrame
    <3>. QED
      BY <3>2, <3>3, <3>4
  <2>7. CASE HandlerUnlock(g)
    BY <2>7 DEF HandlerUnlock, Turn, ChainTypeOK, Activities
  <2>. QED
    BY <2>1, <2>2, <2>3, <2>4, <2>5, <2>6, <2>7 DEF Handler
<1>5. ASSUME NEW i \in Steps, Restart(i) PROVE Facts'
  <2>1. \A g \in Goroutines : act[g].op \notin Handling
    BY <1>5 DEF Restart
  <2>2. act' = act /\ chain' = chain /\ starts' = starts
    BY <1>5, RestartFrame
  <2>3. Prices'
    BY <1>5, <2>2, RestartFrame
  <2>4. CopyPrices'
    BY <1>5, <2>1, <2>2, RestartFrame
  <2>5. HandledFailed'
    BY <2>1, <2>2
  <2>. QED
    BY <2>3, <2>4, <2>5
<1>6. CASE ActivateLockExpires
  BY <1>6 DEF ActivateLockExpires
<1>7. CASE FailureLockExpires
  BY <1>7 DEF FailureLockExpires
<1>8. ASSUME NEW g \in Goroutines, ChainCrash(g) PROVE Facts'
  BY <1>8 DEF ChainCrash, Turn, ChainTypeOK, Activities
<1>9. CASE UNCHANGED chainVars
  BY <1>9 DEF chainVars
<1>. QED
  BY <1>1, <1>2, <1>3, <1>4, <1>5, <1>6, <1>7, <1>8, <1>9 DEF ChainNext

----------------------------------------------------------------------------
\* The balance.  A step that refunds and deducts nothing may only make more owed:
\* it fails no task but one a handler has covered.
LEMMA OwedTypes ==
    ASSUME ChainTypeOK
    PROVE  /\ Owed1 \in Nat /\ Owed2 \in Nat /\ back \in Nat /\ paid \in Nat
           /\ task[1].cost \in Nat /\ task[2].cost \in Nat /\ task[2].receipt \in Nat
           /\ Owed1 <= task[1].cost /\ Owed2 <= task[2].receipt
<1>1. task[1] \in TaskRows /\ task[2] \in TaskRows /\ back \in Nat /\ paid \in Nat
  BY PriceTypes DEF ChainTypeOK
<1>2. task[1].cost \in Nat /\ task[2].cost \in Nat /\ task[2].receipt \in Nat
  BY <1>1 DEF TaskRows
<1>. QED
  BY <1>1, <1>2 DEF Owed1, Owed2

LEMMA OwedNextTypes ==
    ASSUME ChainTypeOK'
    PROVE  /\ Owed1' \in Nat /\ Owed2' \in Nat /\ back' \in Nat /\ paid' \in Nat
           /\ task'[1].cost \in Nat /\ task'[2].cost \in Nat /\ task'[2].receipt \in Nat
           /\ Owed1' <= task'[1].cost /\ Owed2' <= task'[2].receipt
<1>1. task'[1] \in TaskRows /\ task'[2] \in TaskRows /\ back' \in Nat /\ paid' \in Nat
  BY PriceTypes DEF ChainTypeOK
<1>2. task'[1].cost \in Nat /\ task'[2].cost \in Nat /\ task'[2].receipt \in Nat
  BY <1>1 DEF TaskRows
<1>. QED
  BY <1>1, <1>2 DEF Owed1, Owed2

LEMMA OwedStays ==
    ASSUME ChainTypeOK, ChainTypeOK', Balance, UNCHANGED <<back, paid>>,
           \A i \in Steps : /\ Covered(i)' => Covered(i)
                            /\ ~Covered(i) => task'[i].cost = task[i].cost /\ task'[i].receipt = task[i].receipt
    PROVE  Balance'
<1>1. Owed1' >= Owed1
  BY OwedTypes, OwedNextTypes, PriceTypes DEF Owed1
<1>2. Owed2' >= Owed2
  BY OwedTypes, OwedNextTypes, PriceTypes DEF Owed2
<1>. QED
  BY <1>1, <1>2, OwedTypes, OwedNextTypes DEF Balance

\* Only HandlerRefund makes a handler one that covers.
LEMMA CoverStays ==
    ASSUME \A g \in Goroutines : CoversNoMore(g),
           NEW i \in Steps, task'[i].status = "FAILED" => Covered(i)
    PROVE  Covered(i)' => Covered(i)
BY DEF Covered, Covers, CoversNoMore, Refunded, Handling, HandlerOps

LEMMA FailBalance ==
    ASSUME ChainTypeOK, ChainTypeOK', Prices, Prices', Calm, Balance,
           NEW g \in Goroutines, NEW i \in Steps, Fail(g, i)
    PROVE  Balance'
<1>1. PICK refunds \in BOOLEAN :
        /\ refunds \/ task[i].cost = 0 \/ task[i].refunded \/ "refunderror" \in chainFaults
        /\ back' = IF refunds THEN back + task[i].receipt ELSE back
  BY DEF Fail
<1>2. refunds \/ task[i].cost = 0
  BY <1>1, FailFrame, CalmFaults DEF Prices
<1>3. \A h \in Goroutines, j \in Steps \ {i} : Covers(h, j)' => Covers(h, j)
  BY FailFrame DEF Covers, Refunded, Handling
<1>4. \A j \in Steps \ {i} : (Covered(j)' => Covered(j)) /\ task'[j] = task[j]
  BY <1>3, FailFrame DEF Covered
<1>5. paid' = paid
  BY FailFrame
<1>6. CASE i = 1
  <2>1. Owed2' >= Owed2
    BY <1>4, <1>6, OwedTypes, OwedNextTypes, PriceTypes DEF Owed2
  <2>2. back' >= back + Owed1
    BY <1>1, <1>2, <1>6, OwedTypes, ActType, PriceTypes DEF Owed1
  <2>. QED
    BY <1>5, <2>1, <2>2, OwedTypes, OwedNextTypes DEF Balance
<1>7. CASE i = 2
  <2>1. Owed1' >= Owed1
    BY <1>4, <1>7, OwedTypes, OwedNextTypes, PriceTypes DEF Owed1
  <2>2. back' >= back + Owed2
    BY <1>1, <1>2, <1>7, OwedTypes, ActType, PriceTypes DEF Owed2, Prices
  <2>. QED
    BY <1>5, <2>1, <2>2, OwedTypes, OwedNextTypes DEF Balance
<1>. QED
  BY <1>6, <1>7, PriceTypes

\* What a handler refunds is no less than what the task it will fail is owed.
LEMMA RefundBalance ==
    ASSUME ChainTypeOK, ChainTypeOK', Prices, Prices', CopyPrices, HandledFailed, Calm, Balance,
           ImagePrice + Wallets <= VideoPrice, NEW g \in Goroutines, HandlerRefund(g)
    PROVE  Balance'
<1>. DEFINE s == act[g].step
<1>1. s \in Steps /\ act[g].op = "refunding" /\ act[g].chain.total = chain.total
  BY ActType DEF CopyPrices, HandlerRefund, Does
<1>2. PICK amount \in Refunds(Share(s), chain.total) : back' = back + amount
  BY <1>1, CalmFaults DEF HandlerRefund
<1>3. /\ amount \in Nat /\ Share(s) <= amount + Wallets /\ Wallets \in Nat
      /\ Share(s) >= chain.total => amount >= chain.total
  BY <1>1, <1>2, PriceTypes, TaskChainAssumptions DEF Refunds
<1>4. UNCHANGED <<task, chain, paid>>
  BY DEF HandlerRefund
<1>5. CASE s = 1
  <2>1. Owed1 = 0
    BY <1>1, <1>5 DEF Owed1, Covered, HandledFailed, Handling, HandlerOps
  <2>2. Owed2 <= amount
    <3>1. Share(s) = ImagePrice + VideoPrice
      BY <1>5 DEF Share
    <3>2. task[2].receipt <= chain.total /\ chain.total <= ImagePrice + VideoPrice /\ chain.total \in Nat
      BY PriceTypes DEF Prices
    <3>. QED
      BY <1>3, <3>1, <3>2, OwedTypes, PriceTypes
  <2>. QED
    BY <1>2, <1>3, <1>4, <2>1, <2>2, OwedTypes, OwedNextTypes DEF Balance
<1>6. CASE s = 2
  <2>1. Owed2 = 0
    BY <1>1, <1>6 DEF Owed2, Covered, Covers, Handling, HandlerOps
  <2>2. Owed1 <= amount
    <3>1. Share(s) = VideoPrice /\ task[1].cost <= ImagePrice
      BY <1>6, PriceTypes DEF Share, Prices
    <3>. QED
      BY <1>3, <3>1, OwedTypes, PriceTypes
  <2>. QED
    BY <1>2, <1>3, <1>4, <2>1, <2>2, OwedTypes, OwedNextTypes DEF Balance
<1>. QED
  BY <1>1, <1>5, <1>6, PriceTypes

LEMMA RestartBalance ==
    ASSUME ChainTypeOK, ChainTypeOK', Prices, Prices', Calm, Balance, NEW i \in Steps, Restart(i)
    PROVE  Balance'
<1>1. paid' = paid + task[i].cost /\ \A g \in Goroutines : act[g].op \notin Handling /\ act[g].op \notin Refunded
  BY CalmFaults DEF Restart, HandlerOps, Handling, Refunded
<1>2. \A j \in Steps : Covered(j) <=> task[j].status = "FAILED"
  BY <1>1 DEF Covered, Covers
<1>3. \A j \in Steps : Covered(j)' <=> task'[j].status = "FAILED"
  BY <1>1, RestartFrame DEF Covered, Covers
<1>4. CASE i = 1
  <2>1. Owed1' >= task[1].cost /\ Owed1 = 0
    BY <1>2, <1>3, <1>4, RestartFrame, OwedTypes, OwedNextTypes, PriceTypes DEF Owed1
  <2>2. Owed2' = Owed2
    BY <1>2, <1>3, <1>4, RestartFrame, PriceTypes DEF Owed2
  <2>. QED
    BY <1>1, <1>4, <2>1, <2>2, RestartFrame, OwedTypes, OwedNextTypes DEF Balance
<1>5. CASE i = 2
  <2>1. Owed2' >= task[2].cost /\ Owed2 = 0
    BY <1>2, <1>3, <1>5, RestartFrame, OwedTypes, OwedNextTypes, PriceTypes DEF Owed2
  <2>2. Owed1' = Owed1
    BY <1>2, <1>3, <1>5, RestartFrame, PriceTypes DEF Owed1
  <2>. QED
    BY <1>1, <1>5, <2>1, <2>2, RestartFrame, OwedTypes, OwedNextTypes, ActType, PriceTypes DEF Balance
<1>. QED
  BY <1>4, <1>5, PriceTypes

\* A task that is marked was covered by the handler that marks it.
LEMMA MarkBalance ==
    ASSUME ChainTypeOK, ChainTypeOK', HandledFailed, Calm, Balance, NEW g \in Goroutines, HandlerMark(g)
    PROVE  Balance'
<1>. DEFINE i == act[g].told
<1>1. i \in Steps /\ act[g].step \in Steps
  BY ActType
<1>2. act[g].op = "marking" /\ act[g].op \in Handling /\ act[g].op \in Refunded
  BY CalmFaults, MarkFrame DEF Handling, HandlerOps, Refunded
<1>3. Covered(i)
  <2>1. CASE act[g].step = Other(i)
    BY <1>2, <2>1 DEF Covered, Covers
  <2>2. CASE i = 1 /\ act[g].step = 1
    BY <1>2, <2>2 DEF Covered, HandledFailed
  <2>3. CASE i = 2 /\ act[g].step = 2
    BY <1>2, <2>3 DEF Covered, Covers
  <2>. QED
    BY <1>1, <2>1, <2>2, <2>3, PriceTypes DEF Other
<1>4. \A h \in Goroutines : CoversNoMore(h)
  BY <1>2, CalmFaults, MarkFrame, TellFrame DEF CoversNoMore, Refunded, Handling, HandlerOps
<1>5. \A j \in Steps : j = i \/ task'[j] = task[j]
  BY <1>1, CalmFaults, MarkFrame
<1>6. \A j \in Steps : task'[j].status = "FAILED" => Covered(j)
  BY <1>3, <1>5 DEF Covered
<1>7. \A j \in Steps : Covered(j)' => Covered(j)
  BY <1>4, <1>6, CoverStays
<1>. QED
  BY <1>3, <1>5, <1>7, CalmFaults, MarkFrame, OwedStays

\* Activated, the video task is owed no less than before.
LEMMA ActivateBalance ==
    ASSUME ChainTypeOK, ChainTypeOK', Prices, CopyPrices, Calm, Balance, NEW g \in Goroutines, ActivateSave(g)
    PROVE  Balance'
<1>1. /\ act[g].op = "activated" /\ Turn(g, "advancing") /\ task'[1] = task[1] /\ task'[2].status = "open"
      /\ task'[2].receipt = act[g].copy.receipt /\ UNCHANGED <<paid, back>>
  BY CalmFaults, ActivateFrame
<1>2. task'[2].receipt >= task[2].receipt
  BY <1>1, OwedTypes, OwedNextTypes, PriceTypes DEF CopyPrices, Prices
<1>3. \A h \in Goroutines : CoversNoMore(h)
  BY <1>1, TurnFrame DEF CoversNoMore, Refunded, Handling, HandlerOps
<1>4. \A j \in Steps : Covered(j)' => Covered(j)
  <2>1. \A j \in Steps : task'[j].status = "FAILED" => Covered(j)
    BY <1>1, PriceTypes DEF Covered
  <2>. QED
    BY <1>3, <2>1, CoverStays
<1>5. Owed1' >= Owed1
  BY <1>1, <1>4, OwedTypes, OwedNextTypes, PriceTypes DEF Owed1
<1>6. Owed2' >= Owed2
  BY <1>2, <1>4, OwedTypes, OwedNextTypes, PriceTypes DEF Owed2
<1>. QED
  BY <1>1, <1>5, <1>6, OwedTypes, OwedNextTypes DEF Balance

LEMMA CompleteBalance ==
    ASSUME ChainTypeOK, ChainTypeOK', Balance, NEW g \in Goroutines, NEW h \in Goroutines, NEW i \in Steps,
           Complete(g, h, i)
    PROVE  Balance'
<1>1. \A k \in Goroutines : CoversNoMore(k)
  BY CompleteFrame DEF CoversNoMore, Refunded, Handling, HandlerOps
<1>2. \A j \in Steps : task'[j].status = "FAILED" => Covered(j)
  BY CompleteFrame DEF Covered, Covers
<1>3. \A j \in Steps : task'[j].cost = task[j].cost /\ task'[j].receipt = task[j].receipt
  BY CompleteFrame
<1>4. \A j \in Steps : Covered(j)' => Covered(j)
  BY <1>1, <1>2, CoverStays
<1>. QED
  BY <1>3, <1>4, CompleteFrame, OwedStays

\* The other steps leave the tasks and the money alone.
LEMMA QuietBalance ==
    ASSUME ChainTypeOK, ChainTypeOK', Balance, UNCHANGED <<task, back, paid>>,
           \A g \in Goroutines : CoversNoMore(g)
    PROVE  Balance'
<1>1. \A j \in Steps : Covered(j)' => Covered(j)
  BY CoverStays DEF Covered, Covers
<1>. QED
  BY <1>1, OwedStays

LEMMA BalanceStep ==
    ASSUME ChainTypeOK, ChainTypeOK', Facts, Facts', Calm, ImagePrice + Wallets <= VideoPrice, Balance,
           [ChainNext]_chainVars
    PROVE  Balance'
<1>0. "dberror" \notin chainFaults /\ Prices /\ CopyPrices /\ HandledFailed /\ Prices'
  BY CalmFaults DEF Facts
<1>. USE <1>0
<1>1. ASSUME NEW g \in Goroutines, NEW h \in Goroutines, NEW i \in Steps, Complete(g, h, i) \/ Fail(g, i)
      PROVE  Balance'
  BY <1>1, CompleteBalance, FailBalance
<1>2. ASSUME NEW g \in Goroutines, Hook(g) PROVE Balance'
  <2>1. CASE ActivateSave(g)
    BY <2>1, ActivateBalance
  <2>2. CASE HookRead(g)
    <3>1. \A h \in Goroutines : CoversNoMore(h)
      BY <2>2 DEF HookRead, CoversNoMore, Refunded, Handling, HandlerOps, Turn, ChainTypeOK, Activities
    <3>. QED
      BY <2>2, <3>1, QuietBalance DEF HookRead, chainMoney
  <2>3. CASE HookLock(g)
    <3>1. Turn(g, "activating") \/ Turn(g, "idle")
      BY <2>3 DEF HookLock
    <3>2. \A h \in Goroutines : CoversNoMore(h)
      BY <3>1, TurnFrame DEF CoversNoMore, Refunded, Handling, HandlerOps
    <3>. QED
      BY <2>3, <3>2, QuietBalance DEF HookLock, chainMoney
  <2>4. CASE ActivateRead(g)
    <3>1. \A h \in Goroutines : CoversNoMore(h)
      BY <2>4 DEF ActivateRead, CoversNoMore, Refunded, Handling, HandlerOps, Turn, ChainTypeOK, Activities
    <3>. QED
      BY <2>4, <3>1, QuietBalance DEF ActivateRead, chainMoney
  <2>5. CASE HookSave(g)
    <3>1. Turn(g, "unlocking")
      BY <2>5 DEF HookSave
    <3>2. \A h \in Goroutines : CoversNoMore(h)
      BY <3>1, TurnFrame DEF CoversNoMore, Refunded, Handling, HandlerOps
    <3>. QED
      BY <2>5, <3>2, SaveFrame, QuietBalance
  <2>6. CASE HookUnlock(g)
    <3>1. \A h \in Goroutines : CoversNoMore(h)
      BY <2>6, TurnFrame DEF HookUnlock, CoversNoMore, Refunded, Handling, HandlerOps
    <3>. QED
      BY <2>6, <3>1, QuietBalance DEF HookUnlock, chainMoney
  <2>. QED
    BY <1>2, <2>1, <2>2, <2>3, <2>4, <2>5, <2>6 DEF Hook
<1>3. ASSUME NEW g \in Goroutines, Handler(g) PROVE Balance'
  <2>1. CASE HandlerRefund(g)
    BY <2>1, RefundBalance
  <2>2. CASE HandlerMark(g)
    BY <2>2, MarkBalance
  <2>3. CASE HandlerRead(g)
    <3>1. \A h \in Goroutines : CoversNoMore(h)
      <4>1. act' = [act EXCEPT ![g].op = "handling", ![g].chain = chain] /\ act[g].op = "failed"
        BY <2>3 DEF HandlerRead, Does
      <4>2. /\ act'[g].op = "handling" /\ act'[g].step = act[g].step
            /\ \A h \in Goroutines \ {g} : act'[h] = act[h]
        BY <4>1 DEF ChainTypeOK, Activities
      <4>. QED
        BY <4>1, <4>2 DEF CoversNoMore, Refunded, Handling, HandlerOps
    <3>. QED
      BY <2>3, <3>1, QuietBalance DEF HandlerRead, chainMoney
  <2>4. CASE HandlerLock(g)
    <3>1. (Turn(g, "refunding") \/ Turn(g, "idle")) /\ act[g].op = "handling"
      BY <2>4 DEF HandlerLock, Does
    <3>2. \A h \in Goroutines : CoversNoMore(h)
      BY <3>1, TurnFrame DEF CoversNoMore, Refunded, Handling, HandlerOps
    <3>. QED
      BY <2>4, <3>2, QuietBalance DEF HandlerLock, chainMoney
  <2>5. CASE HandlerClose(g)
    <3>1. \A h \in Goroutines : CoversNoMore(h)
      BY <2>5, SaveFrame DEF HandlerClose, Does, CoversNoMore, Refunded, Handling, HandlerOps
    <3>. QED
      BY <2>5, <3>1, SaveFrame, QuietBalance
  <2>6. CASE HandlerTell(g)
    <3>1. \A h \in Goroutines : CoversNoMore(h)
      <4>1. CASE TellNext(g)
        BY <2>6, <4>1, TellFrame DEF HandlerTell, Does, CoversNoMore, Refunded, Handling, HandlerOps
      <4>2. CASE act' = [act EXCEPT ![g].op = "marking", ![g].copy = task[act[g].told]]
        <5>1. /\ act[g].op = "telling" /\ act'[g].op = "marking" /\ act'[g].step = act[g].step
              /\ \A h \in Goroutines \ {g} : act'[h] = act[h]
          BY <2>6, <4>2 DEF HandlerTell, Does, ChainTypeOK, Activities
        <5>. QED
          BY <5>1 DEF CoversNoMore, Refunded, Handling, HandlerOps
      <4>. QED
        BY <2>6, <4>1, <4>2 DEF HandlerTell
    <3>. QED
      BY <2>6, <3>1, QuietBalance DEF HandlerTell, chainMoney
  <2>7. CASE HandlerUnlock(g)
    <3>1. \A h \in Goroutines : CoversNoMore(h)
      BY <2>7, TurnFrame DEF HandlerUnlock, CoversNoMore, Refunded, Handling, HandlerOps
    <3>. QED
      BY <2>7, <3>1, QuietBalance DEF HandlerUnlock, chainMoney
  <2>. QED
    BY <1>3, <2>1, <2>2, <2>3, <2>4, <2>5, <2>6, <2>7 DEF Handler
<1>4. ASSUME NEW i \in Steps, Restart(i) PROVE Balance'
  BY <1>4, RestartBalance
<1>5. CASE ActivateLockExpires \/ FailureLockExpires \/ UNCHANGED chainVars
  <2>1. UNCHANGED <<act, task, back, paid>>
    BY <1>5 DEF ActivateLockExpires, FailureLockExpires, chainVars, chainMoney
  <2>2. \A h \in Goroutines : CoversNoMore(h)
    BY <2>1 DEF CoversNoMore
  <2>. QED
    BY <2>1, <2>2, QuietBalance
<1>6. ASSUME NEW g \in Goroutines, ChainCrash(g) PROVE Balance'
  <2>1. \A h \in Goroutines : CoversNoMore(h)
    BY <1>6, TurnFrame DEF ChainCrash, CoversNoMore, Refunded, Handling, HandlerOps
  <2>. QED
    BY <1>6, <2>1, QuietBalance DEF ChainCrash, chainMoney
<1>. QED
  BY <1>1, <1>2, <1>3, <1>4, <1>5, <1>6 DEF ChainNext

LEMMA RefundInit == ChainInit => RefundInv
<1>. SUFFICES ASSUME ChainInit PROVE RefundInv
  OBVIOUS
<1>1. PICK imageCost \in {0, ImagePrice} : LET total == imageCost + VideoPrice IN
        /\ chain = [status |-> "PENDING", step |-> 1, total |-> total]
        /\ task = [i \in Steps |-> NewTask(i, IF i = 1 THEN imageCost ELSE VideoPrice, total)]
        /\ paid = total
  BY DEF ChainInit
<1>2. \A g \in Goroutines : act[g] = [op |-> "idle", step |-> 1, told |-> 1, chain |-> chain, copy |-> task[1]]
  BY DEF ChainInit
<1>3. Prices
  BY <1>1, PriceTypes DEF Prices, NewTask
<1>4. CopyPrices /\ HandledFailed
  BY <1>2 DEF CopyPrices, HandledFailed, Handling, HandlerOps
<1>5. Owed2 = paid
  BY <1>1, <1>2, PriceTypes DEF Owed2, Covered, Covers, Refunded, Handling, HandlerOps, NewTask
<1>6. Balance
  BY <1>5, ChainInitType, OwedTypes DEF Balance, ChainInit
<1>. QED
  BY <1>3, <1>4, <1>6 DEF RefundInv

\* FailedChainIsRefunded: nobody pays for a chain of which nothing is left, for as
\* many restarts, hooks and handlers as there are.
THEOREM FailedChainIsRefundedHolds == ChainSpec => []FailedChainIsRefunded
<1>1. ChainInit => RefundInv
  BY RefundInit
<1>2. ChainTypeOK /\ ChainTypeOK' /\ RefundInv /\ [ChainNext]_chainVars => RefundInv'
  <2>. SUFFICES ASSUME ChainTypeOK, ChainTypeOK', RefundInv, [ChainNext]_chainVars PROVE RefundInv'
    OBVIOUS
  <2>1. chainFaults' = chainFaults
    BY FaultsStay
  <2>2. ASSUME Calm PROVE Facts' /\ (ImagePrice + Wallets <= VideoPrice => Balance')
    BY <2>2, FactsStep, BalanceStep DEF RefundInv, Facts
  <2>. QED
    BY <2>1, <2>2 DEF RefundInv, Facts, Calm
<1>3. ChainTypeOK /\ RefundInv => FailedChainIsRefunded
  <2>. SUFFICES ASSUME ChainTypeOK, RefundInv, ImagePrice + Wallets <= VideoPrice, Calm,
                       \A i \in Steps : task[i].status = "FAILED"
                PROVE  back >= paid
    BY DEF FailedChainIsRefunded, Calm
  <2>1. Owed1 = 0 /\ Owed2 = 0
    BY PriceTypes DEF Owed1, Owed2, Covered
  <2>. QED
    BY <2>1, OwedTypes DEF RefundInv, Balance
<1>. QED
  BY <1>1, <1>2, <1>3, ChainTypeCorrect, PTL DEF ChainSpec
=============================================================================
