------------------------ MODULE CreditLedgerProofs ------------------------
(***************************************************************************)
(* Theorems about CreditLedger, for any rows, grants, tasks, costs and     *)
(* length of time.                                                         *)
(***************************************************************************)
EXTENDS CreditLedger, TLAPS, FiniteSetTheorems

\* A receipt names rows that exist; a deduction leaves none of them overdrawn.
ReceiptInv ==
    /\ \A id \in Ids : amounts[id].left > 0 => id \in issued
    /\ \A t \in Tasks, id \in Ids :
         /\ task[t].take[id] > 0 => id \in issued
         /\ task[t].op = "deducting" => task[t].take[id] <= task[t].copy[id].left

LedgerInv == TypeOK /\ ReceiptInv

\* As long as transactions did not overlap, the copy a transaction works on is what the rows still are.
CopyInv ==
    /\ \A t, u \in Tasks : task[t].op \in Working /\ task[u].op \in Working => t = u
    /\ \A t \in Tasks, id \in Ids :
         task[t].op \in Working /\ task[t].take[id] > 0 => task[t].copy[id] = amounts[id]

----------------------------------------------------------------------------
LEMMA NoTaskType == NoTask \in TaskStates /\ NoRow \in Rows
BY CreditLedgerAssumptions DEF NoTask, NoRow, TaskStates, Rows, Working

LEMMA ReceiptFacts ==
    ASSUME TypeOK, NEW member \in BOOLEAN, NEW cost \in 1..MaxCost,
           NEW take \in Receipts(member, cost)
    PROVE  /\ take \in [Ids -> Nat]
           /\ \A id \in Ids : take[id] <= amounts[id].left
           /\ \A id \in Ids : take[id] > 0 => id \in Pool(member, cost)
<1>. DEFINE pool == Pool(member, cost)
<1>1. /\ take \in [Ids -> 0..cost]
      /\ \A id \in Ids : take[id] <= IF id \in pool THEN amounts[id].left ELSE 0
  BY DEF Receipts
<1>2. \A id \in Ids : take[id] \in Nat /\ amounts[id].left \in Nat
  BY <1>1 DEF TypeOK, Rows
<1>3. \A id \in Ids : take[id] <= amounts[id].left /\ (take[id] > 0 => id \in pool)
  <2>. HIDE DEF pool
  <2>. QED
    BY <1>1, <1>2
<1>. QED
  BY <1>1, <1>2, <1>3

LEMMA TaskType ==
    ASSUME TypeOK, NEW t \in Tasks
    PROVE  /\ task[t].op \in {"idle", "paid", "refunded", "kept"} \cup Working
           /\ task[t].member \in BOOLEAN
           /\ task[t].take \in [Ids -> Nat]
           /\ task[t].copy \in [Ids -> Rows]
           /\ \A id \in Ids : /\ task[t].take[id] \in Nat
                              /\ task[t].copy[id] \in Rows /\ task[t].copy[id].left \in Nat
BY DEF TypeOK, TaskStates, Rows

----------------------------------------------------------------------------
\* Another row is issued.
LEMMA GrantKeeps ==
    ASSUME LedgerInv, NEW id \in Ids, Grant(id) \/ Upgrade(id)
    PROVE  LedgerInv'
<1>1. /\ issued' = issued \cup {id} /\ UNCHANGED <<task, now>>
      /\ ledger' = [ledger EXCEPT ![id] = Granted[id]]
      /\ Granted[id] \in Nat /\ alone' \in BOOLEAN
  BY CreditLedgerAssumptions DEF Grant, Upgrade, Begin, LedgerInv, TypeOK
<1>2. /\ amounts' \in [Ids -> Rows]
      /\ \A i \in Ids : i # id => amounts'[i].left = amounts[i].left
  <2>1. \A e \in (now + 1)..MaxTime : e \in 0..MaxTime
    BY DEF LedgerInv, TypeOK
  <2>2. CASE Grant(id)
    BY <1>1, <2>1, <2>2 DEF Grant, LedgerInv, TypeOK, Rows
  <2>3. CASE Upgrade(id)
    <3>1. PICK e \in (now + 1)..MaxTime, until \in (now + 1)..MaxTime :
            amounts' = [i \in Ids |->
             IF i = id THEN [left |-> Granted[id], expires |-> e]
             ELSE IF i \in Live /\ KindOf[i] = "membership_grant" /\ amounts[i].expires < until
             THEN [amounts[i] EXCEPT !.expires = until]
             ELSE amounts[i]]
      BY <2>3 DEF Upgrade
    <3>2. \A i \in Ids : amounts[i] \in Rows
      BY DEF LedgerInv, TypeOK
    <3>3. \A i \in Ids : /\ [amounts[i] EXCEPT !.expires = until] \in Rows
                         /\ [amounts[i] EXCEPT !.expires = until].left = amounts[i].left
      BY <2>1, <3>2 DEF Rows
    <3>4. [left |-> Granted[id], expires |-> e] \in Rows
      BY <1>1, <2>1 DEF Rows
    <3>. QED
      BY <3>1, <3>2, <3>3, <3>4
  <2>. QED
    BY <2>2, <2>3
<1>3. TypeOK'
  <2>1. ledger' \in [Ids -> Int] /\ issued' \subseteq Ids
    BY <1>1 DEF LedgerInv, TypeOK
  <2>. QED
    BY <1>1, <1>2, <2>1 DEF LedgerInv, TypeOK
<1>4. ReceiptInv'
  BY <1>1, <1>2 DEF LedgerInv, ReceiptInv
<1>. QED
  BY <1>3, <1>4 DEF LedgerInv

LEMMA DeductReadKeeps ==
    ASSUME LedgerInv, NEW t \in Tasks, DeductRead(t)
    PROVE  LedgerInv'
<1>1. PICK member \in BOOLEAN, cost \in 1..MaxCost : \E take \in Receipts(member, cost) :
         task' = [task EXCEPT ![t] = [op |-> "deducting", member |-> member,
                                      take |-> take, copy |-> amounts]]
  BY DEF DeductRead
<1>2. PICK take \in Receipts(member, cost) :
         task' = [task EXCEPT ![t] = [op |-> "deducting", member |-> member,
                                      take |-> take, copy |-> amounts]]
  BY <1>1
<1>3. /\ take \in [Ids -> Nat] /\ \A id \in Ids : take[id] <= amounts[id].left
      /\ \A id \in Ids : take[id] \in Nat /\ amounts[id].left \in Nat
      /\ TypeOK /\ UNCHANGED <<issued, amounts, ledger, now>> /\ alone' \in BOOLEAN
  BY ReceiptFacts DEF LedgerInv, TypeOK, Rows, DeductRead, Begin
<1>4. TypeOK'
  BY <1>2, <1>3 DEF TypeOK, TaskStates, Working
<1>5. ASSUME NEW u \in Tasks, NEW id \in Ids
      PROVE  /\ task'[u].take[id] > 0 => id \in issued
             /\ task'[u].op = "deducting" => task'[u].take[id] <= task'[u].copy[id].left
  <2>1. CASE u = t
    <3>1. task'[t].take[id] = take[id] /\ task'[t].copy[id].left = amounts[id].left
      BY <1>2, <1>3 DEF TypeOK
    <3>. QED
      BY <1>3, <2>1, <3>1 DEF LedgerInv, ReceiptInv
  <2>2. CASE u # t
    BY <1>2, <1>3, <2>2 DEF LedgerInv, ReceiptInv, TypeOK
  <2>. QED
    BY <2>1, <2>2
<1>6. ReceiptInv'
  BY <1>3, <1>5 DEF LedgerInv, ReceiptInv
<1>. QED
  BY <1>4, <1>6 DEF LedgerInv

\* A task moves on with the receipt it has.
Moves(t, op) ==
    /\ task' \in [Tasks -> TaskStates]
    /\ \A u \in Tasks : u # t => task'[u] = task[u]
    /\ task'[t].op = op /\ task'[t].take = task[t].take /\ task'[t].member = task[t].member

LEMMA MovesOn ==
    ASSUME TypeOK, NEW t \in Tasks, NEW op \in {"paid", "refunding", "refunded", "kept"}
    PROVE  /\ task' = [task EXCEPT ![t].op = op] => Moves(t, op)
           /\ task' = [task EXCEPT ![t].op = op, ![t].copy = amounts] =>
                Moves(t, op) /\ task'[t].copy = amounts
<1>1. task[t] \in TaskStates /\ amounts \in [Ids -> Rows]
  BY DEF TypeOK
<1>. DEFINE s1 == [task[t] EXCEPT !.op = op] s2 == [task[t] EXCEPT !.op = op, !.copy = amounts]
<1>2. /\ s1 \in TaskStates /\ s1.op = op /\ s1.take = task[t].take /\ s1.member = task[t].member
      /\ s2 \in TaskStates /\ s2.op = op /\ s2.take = task[t].take /\ s2.member = task[t].member
      /\ s2.copy = amounts
  BY <1>1 DEF TaskStates, Working
<1>3. /\ task' = [task EXCEPT ![t].op = op] => task' = [task EXCEPT ![t] = s1]
      /\ task' = [task EXCEPT ![t].op = op, ![t].copy = amounts] => task' = [task EXCEPT ![t] = s2]
  BY DEF TypeOK
<1>. HIDE DEF s1, s2
<1>4. /\ task' = [task EXCEPT ![t] = s1] => Moves(t, op)
      /\ task' = [task EXCEPT ![t] = s2] => Moves(t, op) /\ task'[t].copy = amounts
  BY <1>2 DEF TypeOK, Moves
<1>. QED
  BY <1>3, <1>4

LEMMA CommitKeeps ==
    ASSUME LedgerInv, NEW t \in Tasks, DeductCommit(t) \/ RefundCommit(t)
    PROVE  LedgerInv'
<1>. DEFINE take == task[t].take copy == task[t].copy
<1>0. TypeOK /\ UNCHANGED <<issued, now, alone>>
  BY DEF LedgerInv, DeductCommit, RefundCommit
<1>1. \A id \in Ids : /\ take[id] \in Nat /\ copy[id] \in Rows /\ copy[id].left \in Nat
                      /\ amounts[id] \in Rows /\ ledger[id] \in Int
  BY <1>0, TaskType DEF TypeOK
<1>2. CASE DeductCommit(t)
  <2>1. \A id \in Ids : take[id] <= copy[id].left
    BY <1>2 DEF LedgerInv, ReceiptInv, DeductCommit
  <2>2. \A id \in Ids : [copy[id] EXCEPT !.left = @ - take[id]] \in Rows
    BY <1>1, <2>1 DEF Rows
  <2>3. /\ amounts' = [id \in Ids |-> IF take[id] > 0 THEN [copy[id] EXCEPT !.left = @ - take[id]]
                                       ELSE amounts[id]]
        /\ ledger' = [id \in Ids |-> ledger[id] - take[id]]
        /\ task' = [task EXCEPT ![t].op = "paid"]
    BY <1>2 DEF DeductCommit
  <2>4. amounts' \in [Ids -> Rows] /\ ledger' \in [Ids -> Int]
    BY <1>1, <2>2, <2>3
  <2>5. Moves(t, "paid")
    BY <1>0, <2>3, MovesOn
  <2>6. TypeOK'
    BY <1>0, <2>4, <2>5 DEF TypeOK, Moves
  <2>7. \A id \in Ids : amounts'[id].left > 0 => id \in issued
    BY <2>3 DEF LedgerInv, ReceiptInv
  <2>. QED
    BY <1>0, <2>5, <2>6, <2>7 DEF LedgerInv, ReceiptInv, Moves
<1>3. CASE RefundCommit(t)
  <2>2. \A id \in Ids : [copy[id] EXCEPT !.left = @ + take[id]] \in Rows
    BY <1>1 DEF Rows
  <2>3. /\ amounts' = [id \in Ids |-> IF take[id] > 0 THEN [copy[id] EXCEPT !.left = @ + take[id]]
                                       ELSE amounts[id]]
        /\ ledger' = [id \in Ids |-> ledger[id] + take[id]]
        /\ task' = [task EXCEPT ![t].op = "refunded"]
    BY <1>3 DEF RefundCommit
  <2>4. amounts' \in [Ids -> Rows] /\ ledger' \in [Ids -> Int]
    BY <1>1, <2>2, <2>3
  <2>5. Moves(t, "refunded")
    BY <1>0, <2>3, MovesOn
  <2>6. TypeOK'
    BY <1>0, <2>4, <2>5 DEF TypeOK, Moves
  <2>7. \A id \in Ids : amounts'[id].left > 0 => id \in issued
    BY <2>3 DEF LedgerInv, ReceiptInv
  <2>. QED
    BY <1>0, <2>5, <2>6, <2>7 DEF LedgerInv, ReceiptInv, Moves
<1>. QED
  BY <1>2, <1>3

LEMMA OtherKeeps ==
    ASSUME LedgerInv, NEW t \in Tasks,
           DeductRollback(t) \/ RefundRead(t) \/ RefundRollback(t)
    PROVE  LedgerInv'
<1>0. TypeOK /\ UNCHANGED <<issued, amounts, ledger, now>> /\ alone' \in BOOLEAN
  BY DEF LedgerInv, TypeOK, DeductRollback, RefundRead, RefundRollback, Begin
<1>1. CASE DeductRollback(t)
  <2>1. task' = [task EXCEPT ![t] = NoTask]
    BY <1>1 DEF DeductRollback
  <2>2. TypeOK'
    BY <1>0, <2>1, NoTaskType DEF TypeOK
  <2>3. /\ task'[t] = NoTask /\ \A u \in Tasks : u # t => task'[u] = task[u]
        /\ \A id \in Ids : NoTask.take[id] = 0 /\ NoTask.op = "idle"
    BY <1>0, <2>1 DEF TypeOK, NoTask
  <2>. QED
    BY <1>0, <2>2, <2>3 DEF LedgerInv, ReceiptInv
<1>2. CASE RefundRead(t) \/ RefundRollback(t)
  <2>1. Moves(t, "refunding") \/ Moves(t, "kept")
    BY <1>0, <1>2, MovesOn DEF RefundRead, RefundRollback
  <2>2. TypeOK'
    BY <1>0, <2>1 DEF TypeOK, Moves
  <2>. QED
    BY <1>0, <2>1, <2>2 DEF LedgerInv, ReceiptInv, Moves
<1>. QED
  BY <1>1, <1>2

LEMMA InitLedger == Init => LedgerInv
<1>. SUFFICES ASSUME Init PROVE LedgerInv
  OBVIOUS
<1>1. TypeOK
  BY NoTaskType, CreditLedgerAssumptions DEF Init, TypeOK
<1>2. ReceiptInv
  BY DEF Init, ReceiptInv, NoTask, NoRow
<1>. QED
  BY <1>1, <1>2 DEF LedgerInv

LEMMA StepLedger == LedgerInv /\ [Next]_vars => LedgerInv'
<1>. SUFFICES ASSUME LedgerInv, [Next]_vars PROVE LedgerInv'
  OBVIOUS
<1>1. CASE UNCHANGED vars
  BY <1>1 DEF vars, LedgerInv, TypeOK, ReceiptInv
<1>2. CASE Tick
  <2>1. now' \in 0..MaxTime
    BY <1>2, CreditLedgerAssumptions DEF Tick, LedgerInv, TypeOK
  <2>. QED
    BY <1>2, <2>1 DEF Tick, LedgerInv, TypeOK, ReceiptInv
<1>. QED
  BY <1>1, <1>2, GrantKeeps, DeductReadKeeps, CommitKeeps, OtherKeeps DEF Next

\* No row is ever overdrawn, whatever overlaps: RemainingAmount is a natural
\* number, and every variable keeps its type.
THEOREM NoOverdraft == Spec => []TypeOK
<1>1. Init => LedgerInv
  BY InitLedger
<1>2. LedgerInv /\ [Next]_vars => LedgerInv'
  BY StepLedger
<1>3. LedgerInv => TypeOK
  BY DEF LedgerInv
<1>. QED
  BY <1>1, <1>2, <1>3, PTL DEF Spec

LEMMA LedgerInvariant == Spec => []LedgerInv
<1>1. Init => LedgerInv
  BY InitLedger
<1>2. LedgerInv /\ [Next]_vars => LedgerInv'
  BY StepLedger
<1>. QED
  BY <1>1, <1>2, PTL DEF Spec

----------------------------------------------------------------------------
\* What a task took it goes on having, until it is rolled back.
LEMMA TakeKept ==
    ASSUME TypeOK, NEW t \in Tasks,
           \/ DeductCommit(t) \/ RefundRead(t) \/ RefundCommit(t) \/ RefundRollback(t)
    PROVE  \A u \in Tasks : task'[u].take = task[u].take /\ task'[u].member = task[u].member
<1>1. \/ Moves(t, "paid") \/ Moves(t, "refunding") \/ Moves(t, "refunded") \/ Moves(t, "kept")
  BY MovesOn DEF DeductCommit, RefundRead, RefundCommit, RefundRollback
<1>. QED
  BY <1>1 DEF Moves

LEMMA PoolApart ==
    ASSUME NEW member \in BOOLEAN, NEW cost
    PROVE  \/ Pool(member, cost) \subseteq Daily /\ ~member
           \/ Pool(member, cost) \cap Daily = {}
BY DEF Pool

LEMMA StepApart == TypeOK /\ DailyApart /\ [Next]_vars => DailyApart'
<1>. SUFFICES ASSUME TypeOK, DailyApart, [Next]_vars PROVE DailyApart'
  OBVIOUS
<1>0. Daily' = Daily
  BY DEF Daily
<1>1. ASSUME NEW t \in Tasks, DeductRead(t) PROVE DailyApart'
  <2>1. PICK member \in BOOLEAN, cost \in 1..MaxCost : \E take \in Receipts(member, cost) :
          task' = [task EXCEPT ![t] = [op |-> "deducting", member |-> member,
                                       take |-> take, copy |-> amounts]]
    BY <1>1 DEF DeductRead
  <2>2. PICK take \in Receipts(member, cost) :
          task' = [task EXCEPT ![t] = [op |-> "deducting", member |-> member,
                                       take |-> take, copy |-> amounts]]
    BY <2>1
  <2>3. \A id \in Ids : take[id] > 0 => id \in Pool(member, cost)
    BY ReceiptFacts
  <2>4. /\ task'[t].take = take /\ task'[t].member = member
        /\ \A u \in Tasks : u # t => task'[u] = task[u]
    BY <2>2 DEF TypeOK
  <2>. QED
    BY <1>0, <2>3, <2>4, PoolApart DEF DailyApart
<1>2. ASSUME NEW t \in Tasks, DeductRollback(t) PROVE DailyApart'
  <2>1. /\ \A id \in Ids : task'[t].take[id] = 0
        /\ \A u \in Tasks : u # t => task'[u] = task[u]
    BY <1>2 DEF DeductRollback, TypeOK, NoTask
  <2>. QED
    BY <1>0, <2>1 DEF DailyApart
<1>3. ASSUME NEW t \in Tasks,
             \/ DeductCommit(t) \/ RefundRead(t) \/ RefundCommit(t) \/ RefundRollback(t)
      PROVE  DailyApart'
  BY <1>0, <1>3, TakeKept DEF DailyApart
<1>4. CASE UNCHANGED task
  BY <1>0, <1>4 DEF DailyApart
<1>. QED
  BY <1>1, <1>2, <1>3, <1>4 DEF Next, vars, Grant, Upgrade, Tick

\* A task is never paid for with daily credits and others together, and a
\* member's never with daily credits, for any rows and costs.
THEOREM NoMixing == Spec => []DailyApart
<1>1. Init => DailyApart
  BY DEF Init, DailyApart, NoTask
<1>2. TypeOK /\ DailyApart /\ [Next]_vars => DailyApart'
  BY StepApart
<1>. QED
  BY <1>1, <1>2, NoOverdraft, PTL DEF Spec

----------------------------------------------------------------------------
Serial == LedgerInv /\ CopyInv /\ BalanceMatches
SerialInv == LedgerInv /\ (alone => Serial)

\* Nothing is at work when a transaction begins.
LEMMA Begins ==
    ASSUME alone', CopyInv, NEW t \in Tasks, Begin,
           \A u \in Tasks : u # t => task'[u] = task[u], UNCHANGED amounts,
           \A id \in Ids : task'[t].take[id] > 0 => task'[t].copy[id] = amounts[id]
    PROVE  CopyInv'
BY DEF CopyInv, Begin

\* Nothing is at work when a transaction has ended.
LEMMA Ends ==
    ASSUME CopyInv, NEW t \in Tasks, task[t].op \in Working, task'[t].op \notin Working,
           \A u \in Tasks : u # t => task'[u] = task[u]
    PROVE  CopyInv'
BY DEF CopyInv

LEMMA GrantMatches ==
    ASSUME alone', Serial, NEW id \in Ids, Grant(id) \/ Upgrade(id)
    PROVE  /\ CopyInv' /\ BalanceMatches'
           /\ \A i \in issued : amounts'[i].expires >= amounts[i].expires
<1>0. /\ TypeOK /\ ReceiptInv /\ CopyInv /\ BalanceMatches /\ id \notin issued /\ task' = task
      /\ issued \subseteq Ids
      /\ \A i \in Ids : amounts[i] \in Rows /\ amounts[i].expires \in 0..MaxTime
  BY DEF Serial, LedgerInv, TypeOK, Rows, Grant, Upgrade
<1>1. /\ ledger' = [ledger EXCEPT ![id] = Granted[id]]
      /\ amounts'[id].left = Granted[id]
      /\ \A i \in Ids : i # id => amounts'[i].left = amounts[i].left
      /\ \A i \in issued : amounts'[i].expires >= amounts[i].expires
  <2>1. CASE Grant(id)
    BY <1>0, <2>1 DEF Grant, TypeOK
  <2>2. CASE Upgrade(id)
    <3>1. PICK e \in (now + 1)..MaxTime, until \in (now + 1)..MaxTime :
            amounts' = [i \in Ids |->
             IF i = id THEN [left |-> Granted[id], expires |-> e]
             ELSE IF i \in Live /\ KindOf[i] = "membership_grant" /\ amounts[i].expires < until
             THEN [amounts[i] EXCEPT !.expires = until]
             ELSE amounts[i]]
      BY <2>2 DEF Upgrade
    <3>2. \A i \in Ids : /\ [amounts[i] EXCEPT !.expires = until].left = amounts[i].left
                         /\ [amounts[i] EXCEPT !.expires = until].expires = until
      BY <1>0 DEF Rows
    <3>3. until \in Int
      BY DEF TypeOK
    <3>4. \A i \in Ids : i # id =>
            amounts'[i].left = amounts[i].left /\ amounts'[i].expires >= amounts[i].expires
      BY <1>0, <3>1, <3>2, <3>3
    <3>. QED
      BY <1>0, <2>2, <3>1, <3>4 DEF Upgrade
  <2>. QED
    BY <2>1, <2>2
<1>2. BalanceMatches'
  BY <1>0, <1>1 DEF BalanceMatches, TypeOK
<1>3. CopyInv'
  <2>1. CASE Grant(id)
    <3>1. \A i \in Ids : i # id => amounts'[i] = amounts[i]
      BY <1>0, <2>1 DEF Grant, TypeOK
    <3>. QED
      BY <1>0, <3>1 DEF CopyInv, ReceiptInv
  <2>2. CASE Upgrade(id)
    BY <1>0, <2>2 DEF Upgrade, Begin, CopyInv
  <2>. QED
    BY <2>1, <2>2
<1>. QED
  BY <1>1, <1>2, <1>3

LEMMA CommitMatches ==
    ASSUME Serial, NEW t \in Tasks, DeductCommit(t) \/ RefundCommit(t)
    PROVE  /\ CopyInv' /\ BalanceMatches'
           /\ \A i \in issued : amounts'[i].expires >= amounts[i].expires
<1>. DEFINE take == task[t].take copy == task[t].copy
<1>0. /\ TypeOK /\ CopyInv /\ BalanceMatches /\ task[t].op \in Working /\ issued \subseteq Ids
  BY DEF Serial, LedgerInv, DeductCommit, RefundCommit, Working, TypeOK
<1>1. \A id \in Ids : /\ take[id] \in Nat /\ copy[id] \in Rows
                      /\ amounts[id] \in Rows /\ amounts[id].expires \in 0..MaxTime
                      /\ ledger[id] = amounts[id].left /\ amounts[id].left \in Nat
                      /\ take[id] > 0 => copy[id] = amounts[id]
  BY <1>0, TaskType DEF TypeOK, CopyInv, BalanceMatches, Rows
<1>2. \A id \in Ids : \A n \in Int :
        [copy[id] EXCEPT !.left = n].left = n /\ [copy[id] EXCEPT !.left = n].expires = copy[id].expires
  BY <1>1 DEF Rows
<1>3. \A id \in Ids : /\ amounts'[id].left = ledger'[id]
                      /\ amounts'[id].expires >= amounts[id].expires
  <2>1. CASE DeductCommit(t)
    <3>1. \A id \in Ids : /\ amounts'[id] = IF take[id] > 0
                                             THEN [copy[id] EXCEPT !.left = copy[id].left - take[id]]
                                             ELSE amounts[id]
                          /\ ledger'[id] = ledger[id] - take[id]
      BY <2>1 DEF DeductCommit
    <3>2. ASSUME NEW id \in Ids
          PROVE  /\ amounts'[id].left = ledger'[id]
                 /\ amounts'[id].expires >= amounts[id].expires
      <4>1. CASE take[id] > 0
        <5>. DEFINE n == copy[id].left - take[id]
        <5>1. n \in Int /\ n = ledger[id] - take[id]
          BY <1>1, <4>1
        <5>2. amounts'[id] = [copy[id] EXCEPT !.left = n] /\ ledger'[id] = n
          BY <3>1, <4>1, <5>1
        <5>. HIDE DEF n
        <5>3. amounts'[id].left = n /\ amounts'[id].expires = copy[id].expires
          BY <1>2, <5>1, <5>2
        <5>. QED
          BY <1>1, <4>1, <5>2, <5>3
      <4>2. CASE ~(take[id] > 0)
        <5>1. take[id] = 0 /\ ledger[id] \in Int /\ amounts[id].expires \in Int
          BY <1>1, <4>2
        <5>2. amounts'[id] = amounts[id]
          BY <3>1, <4>2
        <5>3. ledger'[id] = ledger[id]
          <6>1. ledger'[id] = ledger[id] - 0
            BY <3>1, <5>1, Zenon
          <6>2. \A x \in Int : x - 0 = x
            OBVIOUS
          <6>. QED
            BY <5>1, <6>1, <6>2
        <5>. QED
          BY <1>1, <5>1, <5>2, <5>3
      <4>. QED
        BY <4>1, <4>2
    <3>. QED
      BY <3>2
  <2>2. CASE RefundCommit(t)
    <3>1. \A id \in Ids : /\ amounts'[id] = IF take[id] > 0
                                             THEN [copy[id] EXCEPT !.left = copy[id].left + take[id]]
                                             ELSE amounts[id]
                          /\ ledger'[id] = ledger[id] + take[id]
      BY <2>2 DEF RefundCommit
    <3>2. ASSUME NEW id \in Ids
          PROVE  /\ amounts'[id].left = ledger'[id]
                 /\ amounts'[id].expires >= amounts[id].expires
      <4>1. CASE take[id] > 0
        <5>. DEFINE n == copy[id].left + take[id]
        <5>1. n \in Int /\ n = ledger[id] + take[id]
          BY <1>1, <4>1
        <5>2. amounts'[id] = [copy[id] EXCEPT !.left = n] /\ ledger'[id] = n
          BY <3>1, <4>1, <5>1
        <5>. HIDE DEF n
        <5>3. amounts'[id].left = n /\ amounts'[id].expires = copy[id].expires
          BY <1>2, <5>1, <5>2
        <5>. QED
          BY <1>1, <4>1, <5>2, <5>3
      <4>2. CASE ~(take[id] > 0)
        <5>1. take[id] = 0 /\ ledger[id] \in Int /\ amounts[id].expires \in Int
          BY <1>1, <4>2
        <5>2. amounts'[id] = amounts[id]
          BY <3>1, <4>2
        <5>3. ledger'[id] = ledger[id]
          <6>1. ledger'[id] = ledger[id] + 0
            BY <3>1, <5>1, Zenon
          <6>2. \A x \in Int : x + 0 = x
            OBVIOUS
          <6>. QED
            BY <5>1, <6>1, <6>2
        <5>. QED
          BY <1>1, <5>1, <5>2, <5>3
      <4>. QED
        BY <4>1, <4>2
    <3>. QED
      BY <3>2
  <2>. QED
    BY <2>1, <2>2
<1>4. Moves(t, "paid") \/ Moves(t, "refunded")
  BY <1>0, MovesOn DEF DeductCommit, RefundCommit
<1>5. CopyInv'
  BY <1>0, <1>4, Ends DEF Moves, Working
<1>. QED
  BY <1>0, <1>3, <1>5 DEF BalanceMatches

LEMMA OtherMatches ==
    ASSUME alone', Serial, NEW t \in Tasks,
           \/ DeductRead(t) \/ DeductRollback(t) \/ RefundRead(t) \/ RefundRollback(t)
    PROVE  CopyInv' /\ UNCHANGED <<issued, amounts, ledger>>
<1>0. TypeOK /\ CopyInv /\ UNCHANGED <<issued, amounts, ledger>>
  BY DEF Serial, LedgerInv, DeductRead, DeductRollback, RefundRead, RefundRollback
<1>1. CASE DeductRead(t)
  <2>1. Begin /\ (\A u \in Tasks : u # t => task'[u] = task[u]) /\ task'[t].copy = amounts
    BY <1>0, <1>1 DEF DeductRead, TypeOK
  <2>. QED
    BY <1>0, <2>1, Begins
<1>2. CASE RefundRead(t)
  <2>1. Begin /\ Moves(t, "refunding") /\ task'[t].copy = amounts
    BY <1>0, <1>2, MovesOn DEF RefundRead
  <2>. QED
    BY <1>0, <2>1, Begins DEF Moves
<1>3. CASE DeductRollback(t)
  <2>1. /\ task[t].op \in Working /\ task'[t].op = "idle"
        /\ \A u \in Tasks : u # t => task'[u] = task[u]
    BY <1>0, <1>3 DEF DeductRollback, TypeOK, NoTask, Working
  <2>. QED
    BY <1>0, <2>1, Ends DEF Working
<1>4. CASE RefundRollback(t)
  <2>1. task[t].op \in Working /\ Moves(t, "kept")
    BY <1>0, <1>4, MovesOn DEF RefundRollback, Working
  <2>. QED
    BY <1>0, <2>1, Ends DEF Moves, Working
<1>. QED
  BY <1>0, <1>1, <1>2, <1>3, <1>4

\* Transactions that have not overlapped up to a step had not before it.
LEMMA AloneBefore == TypeOK /\ [Next]_vars /\ alone' => alone
BY DEF TypeOK, Next, vars, Begin, Grant, Upgrade, DeductRead, DeductCommit, DeductRollback,
       RefundRead, RefundCommit, RefundRollback, Tick

LEMMA StepSerial ==
    ASSUME alone', SerialInv, [Next]_vars
    PROVE  /\ Serial'
           /\ \A id \in issued : amounts'[id].expires >= amounts[id].expires
<1>0. /\ Serial /\ LedgerInv' /\ CopyInv /\ BalanceMatches /\ issued \subseteq Ids
      /\ \A id \in Ids : amounts[id].expires \in 0..MaxTime
  BY StepLedger, AloneBefore DEF SerialInv, Serial, LedgerInv, TypeOK, Rows
<1>1. CASE UNCHANGED <<issued, amounts, ledger, task>>
  BY <1>0, <1>1 DEF Serial, CopyInv, BalanceMatches
<1>2. ASSUME NEW id \in Ids, Grant(id) \/ Upgrade(id)
      PROVE  Serial' /\ \A i \in issued : amounts'[i].expires >= amounts[i].expires
  BY <1>0, <1>2, GrantMatches DEF Serial
<1>3. ASSUME NEW t \in Tasks, DeductCommit(t) \/ RefundCommit(t)
      PROVE  Serial' /\ \A i \in issued : amounts'[i].expires >= amounts[i].expires
  BY <1>0, <1>3, CommitMatches DEF Serial
<1>4. ASSUME NEW t \in Tasks,
             \/ DeductRead(t) \/ DeductRollback(t) \/ RefundRead(t) \/ RefundRollback(t)
      PROVE  Serial' /\ \A i \in issued : amounts'[i].expires >= amounts[i].expires
  <2>1. CopyInv' /\ UNCHANGED <<issued, amounts, ledger>>
    BY <1>0, <1>4, OtherMatches
  <2>. QED
    BY <1>0, <2>1 DEF Serial, BalanceMatches
<1>. QED
  BY <1>1, <1>2, <1>3, <1>4 DEF Next, Tick, vars

LEMMA SerialInvariant == Spec => []SerialInv
<1>1. Init => SerialInv
  BY InitLedger DEF SerialInv, Serial, Init, CopyInv, BalanceMatches, NoTask, NoRow, Working
<1>2. SerialInv /\ [Next]_vars => SerialInv'
  BY StepSerial, StepLedger DEF SerialInv
<1>. QED
  BY <1>1, <1>2, PTL DEF Spec

\* As long as the user's deductions, refunds and upgrades have not overlapped, each
\* balance is what its transaction records add up to, however many rows and tasks.
THEOREM BalanceIsLedger == Spec => []LedgerMatches
<1>1. SerialInv => LedgerMatches
  BY DEF SerialInv, Serial, LedgerMatches
<1>. QED
  BY <1>1, SerialInvariant, PTL

\* As long as they have not overlapped, no save of a row takes back the expiry date
\* that a membership upgrade gave to it.
THEOREM ExtensionStays == Spec => ExpiryKept
<1>1. SerialInv /\ [Next]_vars =>
        [alone' => \A id \in issued :
            amounts'[id].left > 0 => amounts'[id].expires >= amounts[id].expires]_vars
  BY StepSerial
<1>. QED
  BY <1>1, SerialInvariant, PTL DEF Spec, ExpiryKept

----------------------------------------------------------------------------
(***************************************************************************)
(* Sums over finite sets.                                                  *)
(***************************************************************************)
\* A set of subsets of a finite set has a smallest one: what holds of every
\* subset that holds of the smaller ones holds of all of them.
LEMMA SmallestSubset ==
    ASSUME NEW S, IsFiniteSet(S), NEW Q \in SUBSET (SUBSET S), Q # {}
    PROVE  \E T \in Q : \A U \in Q : U \subseteq T => U = T
<1>. DEFINE R == StrictSubsetOrdering(S)
<1>1. IsWellFoundedOn(R, SUBSET S)
  BY FS_StrictSubsetOrderingWellFounded, FS_FiniteSubsetsOfFinite
<1>2. PICK T \in Q : \A U \in Q : ~(<<U, T>> \in R)
  <2>. HIDE DEF R
  <2>. QED
    BY <1>1, WFMin
<1>3. \A U \in Q : U \subseteq T /\ U # T => <<U, T>> \in R
  BY DEF StrictSubsetOrdering
<1>. HIDE DEF R
<1>4. \A U \in Q : U \subseteq T => U = T
  <2>1. ASSUME NEW U \in Q, U \subseteq T, U # T PROVE FALSE
    <3>1. <<U, T>> \in R
      BY <1>3, <2>1
    <3>. QED
      BY <1>2, <3>1
  <2>. QED
    BY <2>1
<1>. QED
  BY <1>4

\* A sum takes the elements of a set in an order of its own, by a function that
\* gives the sum over each subset.
First(s) == CHOOSE x \in s : TRUE
Sums(g, f, S) ==
    g = [s \in SUBSET S |-> IF s = {} THEN 0 ELSE f[First(s)] + g[s \ {First(s)}]]

LEMMA SumIsChosen ==
    ASSUME NEW f, NEW S
    PROVE  SumFunctionOnSet(f, S) = (CHOOSE g : Sums(g, f, S))[S]
BY DEF SumFunctionOnSet, FoldFunctionOnSet, MapThenFoldSet, Sums, First

LEMMA PickIn == ASSUME NEW s, s # {} PROVE First(s) \in s
BY DEF First

LEMMA SumsAt ==
    ASSUME NEW f, NEW S, NEW g, Sums(g, f, S), NEW s \in SUBSET S
    PROVE  g[s] = IF s = {} THEN 0 ELSE f[First(s)] + g[s \ {First(s)}]
BY DEF Sums

\* There is one such function, the same for a set and for its subsets.
LEMMA SumsUnique ==
    ASSUME NEW f, NEW S, IsFiniteSet(S), NEW U \in SUBSET S,
           NEW g, Sums(g, f, S), NEW h, Sums(h, f, U)
    PROVE  \A s \in SUBSET U : g[s] = h[s]
<1>. DEFINE Q == {s \in SUBSET U : g[s] # h[s]}
<1>. SUFFICES ASSUME Q # {} PROVE FALSE
  OBVIOUS
<1>1. PICK T \in Q : \A s \in Q : s \subseteq T => s = T
  <2>1. Q \in SUBSET (SUBSET S)
    OBVIOUS
  <2>. HIDE DEF Q
  <2>. QED
    BY <2>1, SmallestSubset
<1>2. /\ g[T] = IF T = {} THEN 0 ELSE f[First(T)] + g[T \ {First(T)}]
      /\ h[T] = IF T = {} THEN 0 ELSE f[First(T)] + h[T \ {First(T)}]
  <2>1. T \in SUBSET S /\ T \in SUBSET U
    OBVIOUS
  <2>. HIDE DEF Q
  <2>. QED
    BY <2>1, SumsAt
<1>3. T # {} => g[T \ {First(T)}] = h[T \ {First(T)}]
  BY <1>1, PickIn
<1>. QED
  BY <1>2, <1>3

LEMMA SumsExist ==
    ASSUME NEW f, NEW S, IsFiniteSet(S)
    PROVE  \E g : Sums(g, f, S)
<1>. DEFINE Q == {s \in SUBSET S : ~ \E g : Sums(g, f, s)}
<1>. SUFFICES ASSUME Q # {} PROVE FALSE
  OBVIOUS
<1>1. PICK T \in Q : \A s \in Q : s \subseteq T => s = T
  <2>1. Q \in SUBSET (SUBSET S)
    OBVIOUS
  <2>. HIDE DEF Q
  <2>. QED
    BY <2>1, SmallestSubset
<1>. DEFINE G(s) == CHOOSE g : Sums(g, f, s)
            Less(s) == s \ {First(s)}
            h == [s \in SUBSET T |-> IF s = {} THEN 0 ELSE f[First(s)] + G(Less(s))[Less(s)]]
<1>2. ASSUME NEW s \in SUBSET T, s # T PROVE Sums(G(s), f, s)
  <2>1. \E g : Sums(g, f, s)
    BY <1>1, <1>2
  <2>. QED
    BY <2>1
<1>3. ASSUME NEW s \in SUBSET T, s # {} PROVE h[Less(s)] = G(Less(s))[Less(s)]
  <2>. DEFINE W == Less(s)
              V == Less(W)
  <2>1. W \in SUBSET T /\ W # T /\ V \in SUBSET W /\ V \in SUBSET T /\ V # T /\ W \in SUBSET W
    BY <1>3, PickIn
  <2>2. Sums(G(W), f, W) /\ Sums(G(V), f, V) /\ IsFiniteSet(W)
    <3>1. IsFiniteSet(W)
      BY <2>1, FS_Subset
    <3>. HIDE DEF W, V, G
    <3>. QED
      BY <1>2, <2>1, <3>1
  <2>3. G(W)[W] = IF W = {} THEN 0 ELSE f[First(W)] + G(W)[V]
    <3>. HIDE DEF W, G
    <3>. QED
      BY <2>1, <2>2, SumsAt
  <2>4. G(W)[V] = G(V)[V]
    <3>. HIDE DEF W, V, G
    <3>. QED
      BY <2>1, <2>2, SumsUnique
  <2>5. h[W] = IF W = {} THEN 0 ELSE f[First(W)] + G(V)[V]
    <3>. HIDE DEF W, G
    <3>. QED
      BY <2>1
  <2>. HIDE DEF G, h, W, V
  <2>. QED
    BY <2>3, <2>4, <2>5 DEF W
<1>4. h = [s \in SUBSET T |-> IF s = {} THEN 0 ELSE f[First(s)] + h[Less(s)]]
  <2>1. \A s \in SUBSET T : (IF s = {} THEN 0 ELSE f[First(s)] + G(Less(s))[Less(s)])
                          = (IF s = {} THEN 0 ELSE f[First(s)] + h[Less(s)])
    <3>. HIDE DEF G, h, Less
    <3>. QED
      BY <1>3
  <2>. HIDE DEF G, Less
  <2>. QED
    BY <2>1
<1>5. Sums(h, f, T)
  <2>. HIDE DEF h
  <2>. QED
    BY <1>4 DEF Sums
<1>. QED
  BY <1>5

\* So a sum over a set is its first term and the sum over the others.
LEMMA SumStep ==
    ASSUME NEW f, NEW S, IsFiniteSet(S), S # {}
    PROVE  SumFunctionOnSet(f, S) = f[First(S)] + SumFunctionOnSet(f, S \ {First(S)})
<1>. DEFINE W == S \ {First(S)} g == CHOOSE x : Sums(x, f, S) h == CHOOSE x : Sums(x, f, W)
<1>1. IsFiniteSet(W) /\ W \in SUBSET S /\ W \in SUBSET W /\ S \in SUBSET S
  BY FS_Subset
<1>2. Sums(g, f, S) /\ Sums(h, f, W)
  BY <1>1, SumsExist
<1>3. SumFunctionOnSet(f, S) = g[S] /\ SumFunctionOnSet(f, W) = h[W]
  BY SumIsChosen
<1>. HIDE DEF g, h
<1>4. g[S] = f[First(S)] + g[W]
  BY <1>1, <1>2, SumsAt
<1>5. g[W] = h[W]
  <2>. HIDE DEF W
  <2>. QED
    BY <1>1, <1>2, SumsUnique
<1>. QED
  BY <1>3, <1>4, <1>5

LEMMA SumEmpty == ASSUME NEW f PROVE SumFunctionOnSet(f, {}) = 0
<1>. DEFINE S == {} g == CHOOSE x : Sums(x, f, S)
<1>1. IsFiniteSet(S) /\ S \in SUBSET S
  BY FS_EmptySet
<1>2. Sums(g, f, S)
  <2>. HIDE DEF S
  <2>. QED
    BY <1>1, SumsExist
<1>3. SumFunctionOnSet(f, S) = g[S]
  BY SumIsChosen
<1>. HIDE DEF g
<1>4. g[S] = IF S = {} THEN 0 ELSE f[First(S)] + g[S \ {First(S)}]
  <2>. HIDE DEF S
  <2>. QED
    BY <1>1, <1>2, SumsAt
<1>. QED
  BY <1>3, <1>4

\* A sum of integers is one.
LEMMA SumType ==
    ASSUME NEW f, NEW S, IsFiniteSet(S), \A x \in S : f[x] \in Int
    PROVE  SumFunctionOnSet(f, S) \in Int
<1>. DEFINE Q == {s \in SUBSET S : SumFunctionOnSet(f, s) \notin Int}
<1>. SUFFICES ASSUME Q # {} PROVE FALSE
  OBVIOUS
<1>1. PICK T \in Q : \A s \in Q : s \subseteq T => s = T
  <2>1. Q \in SUBSET (SUBSET S)
    OBVIOUS
  <2>. HIDE DEF Q
  <2>. QED
    BY <2>1, SmallestSubset
<1>2. T # {}
  BY SumEmpty
<1>. DEFINE W == T \ {First(T)}
<1>3. First(T) \in T /\ T \in SUBSET S /\ W \in SUBSET S /\ W # T /\ W \subseteq T
  BY <1>2, PickIn
<1>4. SumFunctionOnSet(f, W) \in Int /\ f[First(T)] \in Int
  BY <1>1, <1>3
<1>5. IsFiniteSet(T)
  BY <1>3, FS_Subset
<1>6. SumFunctionOnSet(f, T) = f[First(T)] + SumFunctionOnSet(f, W)
  BY <1>2, <1>5, SumStep
<1>7. SumFunctionOnSet(f, T) \notin Int
  OBVIOUS
<1>. HIDE DEF W, Q
<1>. QED
  BY <1>4, <1>6, <1>7

\* Whichever term is split off.
LEMMA SumSplit ==
    ASSUME NEW f, NEW S, IsFiniteSet(S), \A x \in S : f[x] \in Int
    PROVE  \A x \in S : SumFunctionOnSet(f, S) = f[x] + SumFunctionOnSet(f, S \ {x})
<1>. DEFINE F(s) == SumFunctionOnSet(f, s)
            Q == {s \in SUBSET S : ~ \A x \in s : F(s) = f[x] + F(s \ {x})}
<1>. SUFFICES ASSUME Q # {} PROVE FALSE
  OBVIOUS
<1>1. PICK T \in Q : \A s \in Q : s \subseteq T => s = T
  <2>1. Q \in SUBSET (SUBSET S)
    OBVIOUS
  <2>. HIDE DEF Q
  <2>. QED
    BY <2>1, SmallestSubset
<1>2. PICK x \in T : F(T) # f[x] + F(T \ {x})
  OBVIOUS
<1>. DEFINE p == First(T) W == T \ {p} V == W \ {x} X == T \ {x}
<1>3. /\ p \in T /\ T \in SUBSET S /\ W \in SUBSET S /\ V \in SUBSET S /\ X \in SUBSET S
      /\ W # T /\ W \subseteq T /\ X # T /\ X \subseteq T /\ V = X \ {p}
  BY PickIn
<1>4. F(T) = f[p] + F(W)
  <2>1. IsFiniteSet(T) /\ T # {}
    BY <1>3, FS_Subset
  <2>. QED
    BY <2>1, SumStep
<1>5. p # x
  BY <1>2, <1>4
<1>6. x \in W /\ p \in X
  BY <1>3, <1>5
<1>7. F(W) = f[x] + F(V)
  BY <1>1, <1>3, <1>6
<1>8. F(X) = f[p] + F(V)
  BY <1>1, <1>3, <1>6
<1>9. f[x] \in Int /\ f[p] \in Int /\ F(V) \in Int
  <2>1. IsFiniteSet(V) /\ \A y \in V : f[y] \in Int
    BY <1>3, FS_Subset
  <2>. QED
    BY <1>3, <2>1, SumType
<1>. HIDE DEF F, Q, p, W, V, X
<1>10. F(T) # f[x] + F(X)
  BY <1>2 DEF X
<1>. QED
  BY <1>4, <1>7, <1>8, <1>9, <1>10

\* Only the values on the set count.
LEMMA SumSame ==
    ASSUME NEW f, NEW g, NEW S, IsFiniteSet(S), \A x \in S : f[x] = g[x]
    PROVE  SumFunctionOnSet(f, S) = SumFunctionOnSet(g, S)
<1>. DEFINE Q == {s \in SUBSET S : SumFunctionOnSet(f, s) # SumFunctionOnSet(g, s)}
<1>. SUFFICES ASSUME Q # {} PROVE FALSE
  OBVIOUS
<1>1. PICK T \in Q : \A s \in Q : s \subseteq T => s = T
  <2>1. Q \in SUBSET (SUBSET S)
    OBVIOUS
  <2>. HIDE DEF Q
  <2>. QED
    BY <2>1, SmallestSubset
<1>2. T # {}
  BY SumEmpty
<1>. DEFINE W == T \ {First(T)}
<1>3. First(T) \in T /\ T \in SUBSET S /\ W \in SUBSET S /\ W # T /\ W \subseteq T
  BY <1>2, PickIn
<1>4. SumFunctionOnSet(f, W) = SumFunctionOnSet(g, W) /\ f[First(T)] = g[First(T)]
  BY <1>1, <1>3
<1>5. IsFiniteSet(T)
  BY <1>3, FS_Subset
<1>6. /\ SumFunctionOnSet(f, T) = f[First(T)] + SumFunctionOnSet(f, W)
      /\ SumFunctionOnSet(g, T) = g[First(T)] + SumFunctionOnSet(g, W)
  BY <1>2, <1>5, SumStep
<1>. QED
  BY <1>4, <1>6

\* Nothing adds up to nothing.
LEMMA SumZero ==
    ASSUME NEW f, NEW S, IsFiniteSet(S), \A x \in S : f[x] = 0
    PROVE  SumFunctionOnSet(f, S) = 0
<1>. DEFINE Q == {s \in SUBSET S : SumFunctionOnSet(f, s) # 0}
<1>. SUFFICES ASSUME Q # {} PROVE FALSE
  OBVIOUS
<1>1. PICK T \in Q : \A s \in Q : s \subseteq T => s = T
  <2>1. Q \in SUBSET (SUBSET S)
    OBVIOUS
  <2>. HIDE DEF Q
  <2>. QED
    BY <2>1, SmallestSubset
<1>2. T # {}
  BY SumEmpty
<1>. DEFINE W == T \ {First(T)}
<1>3. First(T) \in T /\ T \in SUBSET S /\ W \in SUBSET S /\ W # T /\ W \subseteq T
  BY <1>2, PickIn
<1>4. SumFunctionOnSet(f, W) = 0 /\ f[First(T)] = 0
  BY <1>1, <1>3
<1>5. IsFiniteSet(T)
  BY <1>3, FS_Subset
<1>6. SumFunctionOnSet(f, T) = f[First(T)] + SumFunctionOnSet(f, W)
  BY <1>2, <1>5, SumStep
<1>7. SumFunctionOnSet(f, T) # 0
  OBVIOUS
<1>. HIDE DEF W, Q
<1>. QED
  BY <1>4, <1>6, <1>7

----------------------------------------------------------------------------
\* What the records add up to, and the finitely many receipts that explain it.
SpentInv == IsFiniteSet(Charged) /\ RecordsMatchReceipts

\* What the tasks took from a row.
Takes(id) == [t \in Tasks |-> task[t].take[id]]

LEMMA TakesType ==
    ASSUME TypeOK, NEW id \in Ids
    PROVE  \A t \in Tasks : Takes(id)[t] = task[t].take[id] /\ Takes(id)[t] \in Int
BY TaskType DEF Takes

LEMMA SpentType ==
    ASSUME TypeOK, IsFiniteSet(Charged), NEW id \in Ids
    PROVE  Spent(id) \in Int
<1>1. Spent(id) = SumFunctionOnSet(Takes(id), Charged)
  BY DEF Spent, Takes
<1>2. \A t \in Charged : Takes(id)[t] \in Int
  BY TakesType DEF Charged
<1>. QED
  BY <1>1, <1>2, SumType

\* The receipts that stand and what they took stay, when the tasks do.
LEMMA SpentStays ==
    ASSUME TypeOK, TypeOK', IsFiniteSet(Charged), Charged' = Charged,
           \A t \in Charged : task'[t].take = task[t].take
    PROVE  \A id \in Ids : Spent(id)' = Spent(id)
<1>1. SUFFICES ASSUME NEW id \in Ids PROVE Spent(id)' = Spent(id)
  OBVIOUS
<1>2. /\ Spent(id) = SumFunctionOnSet(Takes(id), Charged)
      /\ Spent(id)' = SumFunctionOnSet(Takes(id)', Charged)
  BY DEF Spent, Takes
<1>3. \A t \in Charged : Takes(id)'[t] = Takes(id)[t]
  BY DEF Takes, Charged
<1>. QED
  BY <1>2, <1>3, SumSame

\* A receipt more or less is what its task took more or less.
LEMMA SpentMoves ==
    ASSUME TypeOK, NEW t \in Tasks, NEW S \in SUBSET Tasks, IsFiniteSet(S), t \in S,
           NEW id \in Ids
    PROVE  SumFunctionOnSet(Takes(id), S) =
             task[t].take[id] + SumFunctionOnSet(Takes(id), S \ {t})
<1>1. \A u \in S : Takes(id)[u] \in Int
  BY TakesType
<1>2. Takes(id)[t] = task[t].take[id]
  BY TakesType
<1>. QED
  BY <1>1, <1>2, SumSplit

LEMMA GrantExplained ==
    ASSUME LedgerInv, SpentInv, NEW id \in Ids, Grant(id) \/ Upgrade(id)
    PROVE  SpentInv'
<1>1. /\ id \notin issued /\ issued' = issued \cup {id} /\ task' = task
      /\ ledger' = [ledger EXCEPT ![id] = Granted[id]]
      /\ TypeOK /\ ReceiptInv /\ Granted[id] \in Nat /\ ledger \in [Ids -> Int]
  BY CreditLedgerAssumptions DEF Grant, Upgrade, LedgerInv, TypeOK
<1>2. Charged' = Charged /\ \A i \in Ids : Spent(i)' = Spent(i)
  BY <1>1 DEF Charged, Spent
<1>3. Spent(id) = 0
  <2>1. \A t \in Charged : Takes(id)[t] = 0
    <3>1. \A t \in Tasks : task[t].take[id] \in Nat /\ ~(task[t].take[id] > 0)
      BY <1>1, TaskType DEF ReceiptInv
    <3>2. \A t \in Tasks : task[t].take[id] = 0
      BY <3>1
    <3>. QED
      BY <3>2 DEF Takes, Charged
  <2>. QED
    BY <2>1, SumZero DEF SpentInv, Spent, Takes
<1>4. RecordsMatchReceipts'
  <2>1. SUFFICES ASSUME NEW i \in Ids
                 PROVE  ledger'[i] = (IF i \in issued' THEN Granted[i] ELSE 0) - Spent(i)'
    BY DEF RecordsMatchReceipts
  <2>2. CASE i = id
    <3>1. ledger'[i] = Granted[i] /\ i \in issued' /\ Spent(i)' = 0 /\ Granted[i] \in Nat
      BY <1>1, <1>2, <1>3, <2>2
    <3>. QED
      BY <3>1
  <2>3. CASE i # id
    <3>1. ledger'[i] = ledger[i] /\ (i \in issued' <=> i \in issued) /\ Spent(i)' = Spent(i)
      BY <1>1, <1>2, <2>3
    <3>. QED
      BY <3>1 DEF SpentInv, RecordsMatchReceipts
  <2>. QED
    BY <2>2, <2>3
<1>. QED
  BY <1>2, <1>4 DEF SpentInv

LEMMA CommitExplained ==
    ASSUME LedgerInv, SpentInv, NEW t \in Tasks, DeductCommit(t) \/ RefundCommit(t)
    PROVE  SpentInv'
<1>. DEFINE take == task[t].take
<1>0. TypeOK /\ TypeOK' /\ issued' = issued /\ IsFiniteSet(Charged)
  BY CommitKeeps DEF LedgerInv, SpentInv, DeductCommit, RefundCommit
<1>1. \A u \in Tasks : task'[u].take = task[u].take
  BY <1>0, TakeKept
<1>2. ASSUME NEW id \in Ids
      PROVE  /\ take[id] \in Int /\ Spent(id) \in Int
             /\ Granted[id] \in Int
             /\ ledger[id] = (IF id \in issued THEN Granted[id] ELSE 0) - Spent(id)
             /\ Takes(id)' = Takes(id)
             /\ Spent(id) = SumFunctionOnSet(Takes(id), Charged)
             /\ Spent(id)' = SumFunctionOnSet(Takes(id), Charged')
  <2>1. take[id] \in Int /\ Spent(id) \in Int /\ Granted[id] \in Int
    BY <1>0, TaskType, SpentType, CreditLedgerAssumptions
  <2>2. ledger[id] = (IF id \in issued THEN Granted[id] ELSE 0) - Spent(id)
    BY DEF SpentInv, RecordsMatchReceipts
  <2>3. Takes(id)' = Takes(id)
    BY <1>1 DEF Takes
  <2>. QED
    BY <2>1, <2>2, <2>3 DEF Spent, Takes
<1>3. CASE DeductCommit(t)
  <2>1. /\ ledger' = [id \in Ids |-> ledger[id] - take[id]]
        /\ task[t].op = "deducting" /\ Moves(t, "paid")
    BY <1>0, <1>3, MovesOn DEF DeductCommit
  <2>2. Charged' = Charged \cup {t} /\ t \notin Charged /\ Charged' \ {t} = Charged
    BY <2>1 DEF Charged, Moves
  <2>3. IsFiniteSet(Charged') /\ Charged' \in SUBSET Tasks
    BY <1>0, <2>2, FS_AddElement DEF Charged
  <2>4. ASSUME NEW id \in Ids PROVE Spent(id)' = take[id] + Spent(id)
    <3>1. SumFunctionOnSet(Takes(id), Charged') = take[id] + SumFunctionOnSet(Takes(id), Charged' \ {t})
      BY <1>0, <2>2, <2>3, SpentMoves
    <3>. QED
      BY <1>2, <2>2, <3>1
  <2>5. ASSUME NEW id \in Ids
        PROVE  ledger'[id] = (IF id \in issued' THEN Granted[id] ELSE 0) - Spent(id)'
    <3>. DEFINE old == Spent(id) new == Spent(id)' given == IF id \in issued THEN Granted[id] ELSE 0
                was == ledger[id] took == take[id]
    <3>1. /\ was = given - old /\ new = took + old
          /\ given \in Int /\ old \in Int /\ took \in Int
      BY <1>2, <2>4
    <3>2. ledger'[id] = was - took
      BY <2>1
    <3>. HIDE DEF old, new, given, was, took
    <3>3. was - took = given - new
      BY <3>1
    <3>. QED
      BY <1>0, <3>2, <3>3 DEF given, new
  <2>. QED
    BY <2>3, <2>5 DEF SpentInv, RecordsMatchReceipts
<1>4. CASE RefundCommit(t)
  <2>1. /\ ledger' = [id \in Ids |-> ledger[id] + take[id]]
        /\ task[t].op = "refunding" /\ Moves(t, "refunded")
    BY <1>0, <1>4, MovesOn DEF RefundCommit
  <2>2. Charged' = Charged \ {t} /\ t \in Charged /\ Charged \in SUBSET Tasks
    BY <2>1 DEF Charged, Moves
  <2>3. IsFiniteSet(Charged')
    BY <1>0, <2>2, FS_Subset
  <2>4. ASSUME NEW id \in Ids PROVE Spent(id) = take[id] + Spent(id)' /\ Spent(id)' \in Int
    <3>1. SumFunctionOnSet(Takes(id), Charged) = take[id] + SumFunctionOnSet(Takes(id), Charged \ {t})
      BY <1>0, <2>2, SpentMoves
    <3>2. SumFunctionOnSet(Takes(id), Charged') \in Int
      <4>1. \A u \in Charged' : Takes(id)[u] \in Int
        BY <1>0, <2>2, TakesType
      <4>. QED
        BY <2>3, <4>1, SumType
    <3>. QED
      BY <1>2, <2>2, <3>1, <3>2
  <2>5. ASSUME NEW id \in Ids
        PROVE  ledger'[id] = (IF id \in issued' THEN Granted[id] ELSE 0) - Spent(id)'
    <3>. DEFINE old == Spent(id) new == Spent(id)' given == IF id \in issued THEN Granted[id] ELSE 0
                was == ledger[id] took == take[id]
    <3>1. /\ was = given - old /\ old = took + new
          /\ given \in Int /\ new \in Int /\ took \in Int
      BY <1>2, <2>4
    <3>2. ledger'[id] = was + took
      BY <2>1
    <3>. HIDE DEF old, new, given, was, took
    <3>3. was + took = given - new
      BY <3>1
    <3>. QED
      BY <1>0, <3>2, <3>3 DEF given, new
  <2>. QED
    BY <2>3, <2>5 DEF SpentInv, RecordsMatchReceipts
<1>. QED
  BY <1>3, <1>4

LEMMA OtherExplained ==
    ASSUME LedgerInv, LedgerInv', SpentInv, NEW t \in Tasks,
           \/ DeductRead(t) \/ DeductRollback(t) \/ RefundRead(t) \/ RefundRollback(t)
    PROVE  SpentInv'
<1>0. TypeOK /\ TypeOK' /\ issued' = issued /\ ledger' = ledger /\ IsFiniteSet(Charged)
  BY DEF LedgerInv, SpentInv, DeductRead, DeductRollback, RefundRead, RefundRollback
<1>1. Charged' = Charged /\ \A u \in Charged : task'[u].take = task[u].take
  <2>1. CASE DeductRead(t) \/ DeductRollback(t)
    <3>1. /\ \A u \in Tasks : u # t => task'[u] = task[u]
          /\ task[t].op \in {"idle", "deducting"} /\ task'[t].op \in {"idle", "deducting"}
      BY <1>0, <2>1 DEF DeductRead, DeductRollback, NoTask, TypeOK
    <3>. QED
      BY <3>1 DEF Charged
  <2>2. CASE RefundRead(t) \/ RefundRollback(t)
    <3>1. /\ Moves(t, "refunding") \/ Moves(t, "kept")
          /\ task[t].op \in {"paid", "refunding"}
      BY <1>0, <2>2, MovesOn DEF RefundRead, RefundRollback
    <3>. QED
      BY <3>1 DEF Charged, Moves
  <2>. QED
    BY <2>1, <2>2
<1>2. \A id \in Ids : Spent(id)' = Spent(id)
  BY <1>0, <1>1, SpentStays
<1>. QED
  BY <1>0, <1>1, <1>2 DEF SpentInv, RecordsMatchReceipts

LEMMA StepExplained == LedgerInv /\ LedgerInv' /\ SpentInv /\ [Next]_vars => SpentInv'
<1>. SUFFICES ASSUME LedgerInv, LedgerInv', SpentInv, [Next]_vars PROVE SpentInv'
  OBVIOUS
<1>1. CASE UNCHANGED <<issued, ledger, task>>
  BY <1>1 DEF SpentInv, RecordsMatchReceipts, Charged, Spent
<1>. QED
  BY <1>1, GrantExplained, CommitExplained, OtherExplained DEF Next, Tick, vars

LEMMA InitExplained == Init => SpentInv
<1>. SUFFICES ASSUME Init PROVE SpentInv
  OBVIOUS
<1>1. Charged = {} /\ issued = {} /\ ledger = [id \in Ids |-> 0]
  BY DEF Init, Charged, NoTask
<1>2. \A id \in Ids : Spent(id) = 0
  BY <1>1, SumEmpty DEF Spent
<1>. QED
  BY <1>1, <1>2, FS_EmptySet DEF SpentInv, RecordsMatchReceipts

\* Whatever overlaps, the transaction records of a row are its grant less the
\* receipts that stand: no deduction is recorded twice and none is missing, for
\* any rows, costs and number of tasks.
THEOREM RecordsExplained == Spec => []RecordsMatchReceipts
<1>1. Init => SpentInv
  BY InitExplained
<1>2. LedgerInv /\ LedgerInv' /\ SpentInv /\ [Next]_vars => SpentInv'
  BY StepExplained
<1>3. SpentInv => RecordsMatchReceipts
  BY DEF SpentInv
<1>. QED
  BY <1>1, <1>2, <1>3, LedgerInvariant, PTL DEF Spec
=============================================================================
