---------------------------- MODULE CreditLedger ----------------------------
(***************************************************************************)
(* The credits of one user: the rows of va_user_amount, one for each grant,*)
(* and the transaction records that explain them.  A task deducts its cost *)
(* from several rows and keeps a receipt, by which a refund gives it back. *)
(*                                                                         *)
(* A deduction or a refund reads the rows without a lock and saves all     *)
(* their columns.  What a database transaction wrote is seen when it       *)
(* commits, and the row locks it holds until then make it wait for the     *)
(* others, so the writes and the commit are one step here.                 *)
(***************************************************************************)
EXTENDS Integers, FiniteSetsExt

CONSTANTS Ids,        \* ids of the rows, numbers
          KindOf,     \* the credit type of each row
          Granted,    \* the credits each row is created with
          Tasks,      \* tasks that are paid for and perhaps refunded
          MaxCost,    \* bound: the cost of a task
          MaxTime     \* bound: the clock

Kinds == {"daily_free", "credits_purchase", "membership_grant", "event_grant"}

ASSUME CreditLedgerAssumptions ==
    /\ Ids \subseteq Nat /\ IsFiniteSet(Ids)
    /\ KindOf \in [Ids -> Kinds]
    /\ Granted \in [Ids -> Nat \ {0}]
    /\ MaxCost \in Nat \ {0} /\ MaxTime \in Nat \ {0}

VARIABLES issued,   \* rows that exist
          amounts,  \* RemainingAmount and ExpiredAt of each row
          ledger,   \* the sum of the AmountChange recorded for each row
          task,     \* what each task is doing, on which copy of the rows
          now,      \* the clock
          alone     \* history: no two transactions of the user ever overlapped

vars == <<issued, amounts, ledger, task, now, alone>>

Rows == [left : Nat, expires : 0..MaxTime]
NoRow == [left |-> 0, expires |-> 0]

\* take is the receipt (CreditDeductionInfo), copy what the transaction read.
Working == {"deducting", "refunding"}    \* inside a database transaction
TaskStates == [op : {"idle", "paid", "refunded", "kept"} \cup Working,
               member : BOOLEAN, take : [Ids -> Nat], copy : [Ids -> Rows]]
NoTask == [op |-> "idle", member |-> FALSE,
           take |-> [id \in Ids |-> 0], copy |-> [id \in Ids |-> NoRow]]

TypeOK ==
    /\ issued \subseteq Ids
    /\ amounts \in [Ids -> Rows]
    /\ ledger \in [Ids -> Int]
    /\ task \in [Tasks -> TaskStates]
    /\ now \in 0..MaxTime
    /\ alone \in BOOLEAN

Init ==
    /\ issued = {}
    /\ amounts = [id \in Ids |-> NoRow]
    /\ ledger = [id \in Ids |-> 0]
    /\ task = [t \in Tasks |-> NoTask]
    /\ now = 0
    /\ alone = TRUE

----------------------------------------------------------------------------
\* GetUserAmounts: the rows with credits that have not expired.
Live == {id \in Ids : amounts[id].left > 0 /\ amounts[id].expires > now}

Daily == {id \in Ids : KindOf[id] = "daily_free"}
Total(ids) == MapThenSumSet(LAMBDA id : amounts[id].left, ids)

\* Mutant of Pool: daily credits are not kept apart.
MixedPool(member, cost) == Live

\* The rows a deduction may use: a member's daily credits are skipped, anybody
\* else pays with daily credits only or with none.
Pool(member, cost) ==
    IF ~member /\ cost <= Total(Live \cap Daily) THEN Live \cap Daily ELSE Live \ Daily

\* deductCreditsForNonMember appends the rows of one type to those of another.
Rank(id) == CASE KindOf[id] = "daily_free" -> 0
              [] KindOf[id] = "credits_purchase" -> 1
              [] KindOf[id] = "membership_grant" -> 2
              [] KindOf[id] = "event_grant" -> 3

\* The order of a deduction: by ExpiredAt, within a type for who is not a member.
Precedes(member, i, j) ==
    \/ ~member /\ Rank(i) < Rank(j)
    \/ /\ member \/ Rank(i) = Rank(j)
       /\ \/ amounts[i].expires < amounts[j].expires
          \/ amounts[i].expires = amounts[j].expires /\ i < j

\* Mutant of Receipts: a row may be overdrawn.
OverdrawingReceipts(member, cost) ==
    LET pool == Pool(member, cost) IN
    {take \in [Ids -> 0..cost] :
        /\ \A id \in Ids : take[id] > 0 => id \in pool
        /\ MapThenSumSet(LAMBDA id : take[id], Ids) = cost}

\* performDeduction: each row is emptied before the next is touched.  There is
\* no receipt when the credits do not suffice, and at most one when they do.
Receipts(member, cost) ==
    LET pool == Pool(member, cost) IN
    {take \in [Ids -> 0..cost] :
        /\ \A id \in Ids : take[id] <= IF id \in pool THEN amounts[id].left ELSE 0
        /\ \A i, j \in pool : Precedes(member, i, j) /\ take[j] > 0 => take[i] = amounts[i].left
        /\ MapThenSumSet(LAMBDA id : take[id], Ids) = cost}

----------------------------------------------------------------------------
\* A transaction begins, perhaps while others of the user are at work.
Begin == alone' = (alone /\ \A t \in Tasks : task[t].op \notin Working)

\* addCreditsWithTx: a new row; its unique source_id keeps a second one out.
Grant(id) ==
    /\ id \notin issued
    /\ issued' = issued \cup {id}
    /\ \E e \in (now + 1)..MaxTime :
         amounts' = [amounts EXCEPT ![id] = [left |-> Granted[id], expires |-> e]]
    /\ ledger' = [ledger EXCEPT ![id] = Granted[id]]
    /\ UNCHANGED <<task, now, alone>>

\* Mutant of Upgrade: the gift credits' expiry is set, sooner or later.
UpgradeResets(id) ==
    /\ id \notin issued /\ Begin
    /\ issued' = issued \cup {id}
    /\ \E e, until \in (now + 1)..MaxTime :
         amounts' = [i \in Ids |->
             IF i = id THEN [left |-> Granted[id], expires |-> e]
             ELSE IF i \in Live /\ KindOf[i] = "membership_grant"
             THEN [amounts[i] EXCEPT !.expires = until]
             ELSE amounts[i]]
    /\ ledger' = [ledger EXCEPT ![id] = Granted[id]]
    /\ UNCHANGED <<task, now>>

\* HandleMembershipUpgrade extends the gift credits that are left, and grants.
Upgrade(id) ==
    /\ id \notin issued /\ Begin
    /\ issued' = issued \cup {id}
    /\ \E e, until \in (now + 1)..MaxTime :
         amounts' = [i \in Ids |->
             IF i = id THEN [left |-> Granted[id], expires |-> e]
             ELSE IF i \in Live /\ KindOf[i] = "membership_grant" /\ amounts[i].expires < until
             THEN [amounts[i] EXCEPT !.expires = until]
             ELSE amounts[i]]
    /\ ledger' = [ledger EXCEPT ![id] = Granted[id]]
    /\ UNCHANGED <<task, now>>

\* DeductCreditsWithTx reads the rows and chooses what to take from each.
DeductRead(t) ==
    /\ task[t].op = "idle" /\ Begin
    /\ \E member \in BOOLEAN, cost \in 1..MaxCost : \E take \in Receipts(member, cost) :
         task' = [task EXCEPT ![t] = [op |-> "deducting", member |-> member,
                                      take |-> take, copy |-> amounts]]
    /\ UNCHANGED <<issued, amounts, ledger, now>>

\* Its rows and records are saved, the task is created, and all of it commits.
DeductCommit(t) ==
    /\ task[t].op = "deducting"
    /\ LET take == task[t].take copy == task[t].copy IN
         /\ amounts' = [id \in Ids |->
                          IF take[id] > 0 THEN [copy[id] EXCEPT !.left = @ - take[id]]
                          ELSE amounts[id]]
         /\ ledger' = [id \in Ids |-> ledger[id] - take[id]]
    /\ task' = [task EXCEPT ![t].op = "paid"]
    /\ UNCHANGED <<issued, now, alone>>

\* The task is refused, the server stops, or MySQL ends a deadlock.
DeductRollback(t) ==
    /\ task[t].op = "deducting"
    /\ task' = [task EXCEPT ![t] = NoTask]
    /\ UNCHANGED <<issued, amounts, ledger, now, alone>>

\* Mutant of RefundRead: the rows as the deduction had read them are used again.
RefundReadNothing(t) ==
    /\ task[t].op = "paid" /\ Begin
    /\ task' = [task EXCEPT ![t].op = "refunding"]
    /\ UNCHANGED <<issued, amounts, ledger, now>>

\* RefundCredits reads the rows the receipt names, expired or not.
RefundRead(t) ==
    /\ task[t].op = "paid" /\ Begin
    /\ task' = [task EXCEPT ![t].op = "refunding", ![t].copy = amounts]
    /\ UNCHANGED <<issued, amounts, ledger, now>>

\* Mutant of RefundCommit: the task is not marked as refunded.
RefundCommitUnmarked(t) ==
    /\ task[t].op = "refunding"
    /\ LET take == task[t].take copy == task[t].copy IN
         /\ amounts' = [id \in Ids |->
                          IF take[id] > 0 THEN [copy[id] EXCEPT !.left = @ + take[id]]
                          ELSE amounts[id]]
         /\ ledger' = [id \in Ids |-> ledger[id] + take[id]]
    /\ task' = [task EXCEPT ![t].op = "kept"]
    /\ UNCHANGED <<issued, now, alone>>

\* It gives back what the receipt says and commits.
RefundCommit(t) ==
    /\ task[t].op = "refunding"
    /\ LET take == task[t].take copy == task[t].copy IN
         /\ amounts' = [id \in Ids |->
                          IF take[id] > 0 THEN [copy[id] EXCEPT !.left = @ + take[id]]
                          ELSE amounts[id]]
         /\ ledger' = [id \in Ids |-> ledger[id] + take[id]]
    /\ task' = [task EXCEPT ![t].op = "refunded"]
    /\ UNCHANGED <<issued, now, alone>>

\* An error, or a deadlock: FailTask goes on without the refund.
RefundRollback(t) ==
    /\ task[t].op = "refunding"
    /\ task' = [task EXCEPT ![t].op = "kept"]
    /\ UNCHANGED <<issued, amounts, ledger, now, alone>>

Tick ==
    /\ now < MaxTime
    /\ now' = now + 1
    /\ UNCHANGED <<issued, amounts, ledger, task, alone>>

Next ==
    \/ \E id \in Ids : Grant(id) \/ Upgrade(id)
    \/ \E t \in Tasks : \/ DeductRead(t) \/ DeductCommit(t) \/ DeductRollback(t)
                        \/ RefundRead(t) \/ RefundCommit(t) \/ RefundRollback(t)
    \/ Tick

Spec == Init /\ [][Next]_vars

----------------------------------------------------------------------------
\* Safety, as the design of the tables means it: RemainingAmount is what the
\* transaction records of the row add up to.
BalanceMatches == \A id \in Ids : amounts[id].left = ledger[id]

\* Safety: it is, as long as the user's transactions have not overlapped.
LedgerMatches == alone => BalanceMatches

\* The tasks whose receipt stands, and what those receipts took from a row.
Charged == {t \in Tasks : task[t].op \in {"paid", "refunding", "kept"}}
Spent(id) == SumFunctionOnSet([t \in Tasks |-> task[t].take[id]], Charged)

\* Safety: the records explain the grants and the receipts still in use: what
\* was deducted and not refunded is what the row has lost, whatever overlaps.
RecordsMatchReceipts ==
    \A id \in Ids : ledger[id] = (IF id \in issued THEN Granted[id] ELSE 0) - Spent(id)

\* Action property: unless transactions overlapped, the later expiry a membership
\* upgrade gave to gift credits is not taken back from those that are left by a
\* save of an older copy.
ExpiryKept ==
    [][alone' => \A id \in issued :
          amounts'[id].left > 0 => amounts'[id].expires >= amounts[id].expires]_vars

\* Safety: nobody pays for one task with daily credits and others together, and
\* a member not with daily credits at all.
DailyApart ==
    \A t \in Tasks : LET used == {id \in Ids : task[t].take[id] > 0} IN
        used \cap Daily # {} => used \subseteq Daily /\ ~task[t].member
=============================================================================
