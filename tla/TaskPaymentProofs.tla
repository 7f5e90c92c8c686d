------------------------- MODULE TaskPaymentProofs -------------------------
(***************************************************************************)
(* TaskLifecycle implements TaskPayment while nothing but the database and *)
(* the refunds can fail (Calm): no server stops, no round outlives its     *)
(* locks, no executor calls FailTask or the retry round on its own, and    *)
(* the executor is not gpt4o_v2, whose progress goroutine hands the task   *)
(* to the sync rounds while its worker still owns it.                      *)
(* None of these can be dropped: TLC finds a counterexample as soon as     *)
(* Calm admits the fault, or that executor.                                *)
(***************************************************************************)
EXTENDS TaskLifecycleProofs, FiniteSetTheorems

\* a is at work on the task.
Busy(a) == act[a].op # "idle"

\* A worker owns the task while it is PROCESSING, a sync round that holds the
\* global lock while it awaits its provider.
Owns(a) ==
    \/ /\ a \in Workers /\ row.status = "PROCESSING"
       /\ act[a].op \in {"started", "loaded", "submitting", "failing", "refunding"}
    \/ /\ a \in Syncers /\ row.status = "AWAITING" /\ globalLock = a
       /\ act[a].op \in {"read", "polling", "processing", "failing", "refunding"}

\* Its copy is the run paid for last.
WorksOnCharge(a) ==
    /\ act[a].run = charges
    /\ act[a].copy.charge = charges
    /\ act[a].copy.status = row.status
    /\ act[a].op # "refunding" => ~act[a].copy.refunded

OwnerInv == \A a \in Actors : Busy(a) =>
                Owns(a) /\ WorksOnCharge(a) /\ \A b \in Actors : Busy(b) => b = a

RowInv ==
    /\ row.charge = charges
    /\ row.status # "RETRY"
    /\ row.status \notin Terminal => ~row.refunded

\* The latest charge is open until the run ends or the actor inside FailTask
\* has refunded it; nothing is refunded or delivered ahead of its charge.
MoneyInv ==
    /\ row.status = "COMPLETED" <=> charges \in delivered
    /\ row.status = "COMPLETED" => refunds[charges] = 0
    /\ row.status \notin Terminal =>
         \/ refunds[charges] = 0
         \/ \E a \in Actors : act[a].op = "refunding" /\ act[a].copy.refunded
    /\ \A c \in Charges : c > charges => refunds[c] = 0 /\ c \notin delivered

PayInv == TypeOK /\ OwnerInv /\ RowInv /\ MoneyInv

\* TaskPayment on the variables themselves, which is Payment while calm.
Money == INSTANCE TaskPayment

\* What a step does to the user's money is a step of TaskPayment or none.
Pays == [Money!Next]_(Money!payment)

----------------------------------------------------------------------------
LEMMA NoPayment == UNCHANGED money => Pays
BY DEF money, Pays, Money!payment

LEMMA Disjoint ==
    /\ \A w \in Workers : w \in Actors /\ w \notin Syncers /\ w \notin Resubmitters
    /\ \A y \in Syncers : y \in Actors /\ y \notin Workers /\ y \notin Resubmitters
    /\ \A r \in Resubmitters : r \in Actors /\ r \notin Workers /\ r \notin Syncers
    /\ None \notin Actors
BY TaskLifecycleAssumptions DEF Actors

\* Whoever is at work is alone, on a run that has not ended.
LEMMA Alone ==
    ASSUME PayInv, NEW a \in Actors, Busy(a)
    PROVE  /\ Owns(a) /\ WorksOnCharge(a)
           /\ row.status \notin Terminal /\ row.status \in {"PROCESSING", "AWAITING"}
           /\ \A b \in Actors : b # a => act[b].op = "idle"
           /\ act[a].op # "refunding" => refunds[charges] = 0
           /\ charges \notin delivered
<1>1. Owns(a) /\ WorksOnCharge(a)
  BY DEF PayInv, OwnerInv
<1>2. row.status \in {"PROCESSING", "AWAITING"} /\ row.status \notin Terminal
  BY <1>1 DEF Owns, Terminal
<1>3. \A b \in Actors : b # a => act[b].op = "idle"
  BY DEF PayInv, OwnerInv, Busy
<1>4. act[a].op # "refunding" => refunds[charges] = 0
  BY <1>2, <1>3 DEF PayInv, MoneyInv
<1>5. charges \notin delivered
  BY <1>2 DEF PayInv, MoneyInv, Terminal
<1>. QED
  BY <1>1, <1>2, <1>3, <1>4, <1>5

\* A step of the actor at work that leaves it at work or done.
LEMMA OwnerStep ==
    ASSUME PayInv, NEW a \in Actors, Busy(a), Only(a),
           act'[a].op = "idle" \/ (Owns(a)' /\ WorksOnCharge(a)')
    PROVE  OwnerInv'
<1>1. \A b \in Actors : b # a => act'[b].op = "idle"
  BY Alone DEF Only
<1>. QED
  BY <1>1 DEF OwnerInv, Busy

\* A step of the actor at work that moves no money and does not end the run.
LEMMA QuietStep ==
    ASSUME PayInv, NEW a \in Actors, Busy(a), act[a].op # "refunding",
           UNCHANGED money, row'.status \notin Terminal
    PROVE  MoneyInv'
<1>1. refunds[charges] = 0 /\ charges \notin delivered
  BY Alone
<1>. QED
  BY <1>1 DEF PayInv, MoneyInv, money, Terminal

----------------------------------------------------------------------------
\* What SaveDelivering does when the copy is the latest run's.
LEMMA Delivers ==
    ASSUME TypeOK, NEW copy \in Rows, SaveDelivering(copy), copy.charge = charges
    PROVE  /\ row' \in Rows /\ row'.status = copy.status /\ row'.charge = charges
           /\ row'.refunded = copy.refunded
           /\ copy.status = "COMPLETED" => delivered' = delivered \cup {charges}
           /\ copy.status # "COMPLETED" => delivered' = delivered
BY SaveType DEF SaveDelivering, TypeOK

\* The open charge is delivered: TaskPayment's Deliver.
LEMMA DeliveryPays ==
    ASSUME PayInv, NEW a \in Actors, Busy(a), act[a].op # "refunding",
           delivered' = delivered \cup {charges}, UNCHANGED <<charges, refunds>>,
           row'.status = "COMPLETED"
    PROVE  MoneyInv' /\ Pays
<1>0. charges \in 1..MaxCharges
  BY DEF PayInv, TypeOK, Charges
<1>1. refunds[charges] = 0 /\ charges \notin delivered
  BY Alone
<1>2. Money!Deliver(charges)
  BY <1>1 DEF Money!Deliver, Money!Open, money
<1>3. MoneyInv'
  BY <1>0, <1>1, TaskLifecycleAssumptions DEF PayInv, MoneyInv, TypeOK, Terminal
<1>. QED
  BY <1>0, <1>2, <1>3 DEF Pays, Money!Next

\* The run is delivered, and its actor is done.
LEMMA DeliversRun ==
    ASSUME PayInv, NEW a \in Actors, Busy(a), act[a].op # "refunding",
           NEW copy \in Rows, SaveDelivering(copy),
           copy.charge = charges, ~copy.refunded, copy.status = "COMPLETED",
           Only(a), act'[a].op = "idle", UNCHANGED <<charges, refunds>>
    PROVE  OwnerInv' /\ RowInv' /\ MoneyInv' /\ Pays
<1>0. TypeOK
  BY DEF PayInv
<1>1. OwnerInv'
  BY OwnerStep
<1>2. RowInv'
  BY <1>0, Delivers DEF RowInv
<1>. QED
  BY <1>0, <1>1, <1>2, Delivers, DeliveryPays

LEMMA WorkerPays ==
    ASSUME Calm, PayInv, NEW w \in Workers, Worker(w)
    PROVE  OwnerInv' /\ RowInv' /\ MoneyInv' /\ Pays
<1>0. /\ TypeOK /\ w \in Actors /\ w \notin Syncers
      /\ row \in Rows /\ act[w].copy \in Rows
      /\ row.charge = charges
  BY Disjoint, CopyType DEF PayInv, RowInv
<1>1. CASE Dispatch(w)
  <2>1. \A b \in Actors : ~Busy(b)
    BY <1>1, Alone DEF Dispatch
  <2>2. /\ row' = [[row EXCEPT !.status = "PROCESSING"] EXCEPT !.age = 0]
        /\ act'[w] = [op |-> "started", run |-> row.charge, copy |-> row']
        /\ Only(w)
    BY <1>0, <1>1 DEF Dispatch, Save, TypeOK, Only
  <2>3. /\ row'.status = "PROCESSING" /\ row'.charge = charges /\ ~row'.refunded
        /\ charges' = charges
    BY <1>0, <1>1, <2>2 DEF Dispatch, Rows, PayInv, RowInv, Terminal, money
  <2>4. OwnerInv'
    <3>1. \A b \in Actors : b # w => act'[b].op = "idle"
      BY <2>1, <2>2 DEF Busy, Only
    <3>2. Owns(w)' /\ WorksOnCharge(w)'
      <4>1. act'[w].op = "started" /\ act'[w].run = charges /\ act'[w].copy = row'
        BY <1>0, <2>2
      <4>2. Owns(w)'
        BY <2>3, <4>1 DEF Owns
      <4>3. WorksOnCharge(w)'
        BY <2>3, <4>1 DEF WorksOnCharge
      <4>. QED
        BY <4>2, <4>3
    <3>. QED
      BY <3>1, <3>2 DEF OwnerInv, Busy
  <2>5. MoneyInv'
    BY <1>1, <2>1, <2>3 DEF Dispatch, PayInv, MoneyInv, money, Terminal, Busy
  <2>. QED
    BY <1>1, <2>3, <2>4, <2>5, NoPayment DEF Dispatch, RowInv, Terminal
<1>2. CASE WorkerLoad(w)
  <2>1. Busy(w) /\ act[w].op = "started"
    BY <1>2 DEF WorkerLoad, At, Busy
  <2>2. Become(w, "loaded", row) /\ Owns(w) /\ WorksOnCharge(w) /\ ~row.refunded
    BY <1>0, <1>2, <2>1, Alone DEF WorkerLoad, PayInv, RowInv
  <2>3. /\ act'[w].op = "loaded" /\ act'[w].copy = row /\ act'[w].run = act[w].run
        /\ Only(w)
    BY <1>0, <2>2, OnlyBecomes
  <2>4. Owns(w)' /\ WorksOnCharge(w)'
    BY <1>0, <1>2, <2>1, <2>2, <2>3
       DEF Owns, WorksOnCharge, WorkerLoad, money, locks, TypeOK, Activity
  <2>5. OwnerInv' /\ UNCHANGED <<row, money>>
    BY <1>0, <1>2, <2>1, <2>3, <2>4, OwnerStep DEF WorkerLoad
  <2>6. MoneyInv'
    BY <1>0, <2>1, <2>5, QuietStep, Alone
  <2>. QED
    BY <2>5, <2>6, NoPayment DEF PayInv, RowInv, money
<1>3. CASE WorkerMark(w)
  <2>1. Busy(w) /\ act[w].op = "loaded"
    BY <1>3 DEF WorkerMark, At, Busy
  <2>2. Owns(w) /\ WorksOnCharge(w)
    BY <1>0, <2>1, Alone
  <2>3. /\ row' = [act[w].copy EXCEPT !.status = "PROCESSING", !.age = 0]
        /\ Become(w, "submitting", row') /\ UNCHANGED money
    BY <1>3 DEF WorkerMark, Save
  <2>4. /\ row'.status = "PROCESSING" /\ row'.charge = charges /\ ~row'.refunded
        /\ charges' = charges
    BY <1>0, <2>1, <2>2, <2>3 DEF Rows, WorksOnCharge, money
  <2>5. /\ act'[w].op = "submitting" /\ act'[w].copy = row' /\ act'[w].run = act[w].run
        /\ Only(w)
    BY <1>0, <2>3, OnlyBecomes
  <2>6. Owns(w)' /\ WorksOnCharge(w)'
    BY <1>0, <2>2, <2>4, <2>5 DEF Owns, WorksOnCharge, TypeOK, Activity
  <2>7. OwnerInv'
    BY <1>0, <2>1, <2>5, <2>6, OwnerStep
  <2>8. MoneyInv'
    BY <1>0, <2>1, <2>3, <2>4, QuietStep DEF Terminal
  <2>. QED
    BY <2>3, <2>4, <2>7, <2>8, NoPayment DEF RowInv
<1>4. CASE WorkerAccepted(w)
  <2>1. Busy(w) /\ act[w].op = "submitting"
    BY <1>4 DEF WorkerAccepted, At, Busy
  <2>2. WorksOnCharge(w)
    BY <1>0, <2>1, Alone
  <2>. DEFINE c == [act[w].copy EXCEPT !.status = "AWAITING", !.progress = 0]
  <2>3. c \in Rows /\ c.charge = charges /\ ~c.refunded /\ c.status = "AWAITING"
    <3>1. "AWAITING" \in Statuses /\ 0 \in 0..MaxProgress
      BY TaskLifecycleAssumptions DEF Statuses
    <3>. QED
      BY <1>0, <2>1, <2>2, <3>1 DEF Rows, WorksOnCharge
  <2>4. Save(c) /\ act'[w].op = "idle" /\ Only(w) /\ UNCHANGED money
    BY <1>0, <1>4 DEF WorkerAccepted, TypeOK, Idle, Only
  <2>. HIDE DEF c
  <2>5. row'.status = "AWAITING" /\ row'.charge = charges /\ ~row'.refunded
    BY <2>3, <2>4, SaveType
  <2>6. OwnerInv' /\ MoneyInv'
    BY <1>0, <2>1, <2>4, <2>5, OwnerStep, QuietStep DEF Terminal
  <2>. QED
    BY <2>4, <2>5, <2>6, NoPayment DEF RowInv, money
<1>5. CASE WorkerFails(w)
  <2>1. Busy(w) /\ act[w].op \in {"started", "loaded", "submitting"}
    BY <1>0, <1>5, Alone DEF WorkerFails, Busy, Owns
  <2>2. Owns(w) /\ WorksOnCharge(w) /\ row.status \notin Terminal
    BY <1>0, <2>1, Alone
  <2>3. /\ act'[w].op = "failing" /\ act'[w].copy = act[w].copy /\ act'[w].run = act[w].run
        /\ Only(w) /\ UNCHANGED <<row, money>>
    BY <1>0, <1>5, OnlyGoes DEF WorkerFails
  <2>4. Owns(w)' /\ WorksOnCharge(w)'
    BY <1>0, <2>1, <2>2, <2>3 DEF Owns, WorksOnCharge, TypeOK, Activity, money
  <2>5. OwnerInv' /\ MoneyInv'
    BY <1>0, <2>1, <2>2, <2>3, <2>4, OwnerStep, QuietStep
  <2>. QED
    BY <2>3, <2>5, NoPayment DEF PayInv, RowInv, money
<1>6. CASE WorkerRefused(w) \/ WorkerRetryable(w)
  BY <1>6 DEF WorkerRefused, WorkerRetryable, Calm, Steady, Faults
<1>7. CASE Resave(w)
  BY <1>0, <1>7, Alone DEF Resave, At, Busy, Owns
<1>8. CASE WorkerGenerated(w) \/ WorkerDelivers(w)
  BY <1>0, <1>8, Alone DEF WorkerGenerated, WorkerDelivers, At, Busy, Owns, Calm
<1>. QED
  BY <1>1, <1>2, <1>3, <1>4, <1>5, <1>6, <1>7, <1>8 DEF Worker

LEMMA SyncPays ==
    ASSUME Calm, PayInv, NEW y \in Syncers, Sync(y)
    PROVE  OwnerInv' /\ RowInv' /\ MoneyInv' /\ Pays
<1>0. /\ TypeOK /\ y \in Actors /\ y \notin Workers /\ y # None
      /\ row \in Rows /\ act[y].copy \in Rows
      /\ row.charge = charges
  BY Disjoint, CopyType DEF PayInv, RowInv
<1>1. CASE SyncRead(y)
  <2>1. \A b \in Actors : ~Busy(b)
    BY <1>0, <1>1, Alone, Disjoint DEF SyncRead, Owns
  <2>2. /\ act'[y] = [op |-> "read", run |-> row.charge, copy |-> row]
        /\ Only(y) /\ UNCHANGED <<row, money>> /\ globalLock' = y
        /\ row.status = "AWAITING" /\ ~row.refunded
    BY <1>0, <1>1 DEF SyncRead, TypeOK, Only, PayInv, RowInv, Terminal
  <2>3. OwnerInv'
    <3>1. \A b \in Actors : b # y => act'[b].op = "idle"
      BY <2>1, <2>2 DEF Busy, Only
    <3>2. /\ act'[y].op = "read" /\ act'[y].run = charges /\ act'[y].copy = row
          /\ charges' = charges
      BY <1>0, <2>2 DEF money
    <3>3. Owns(y)'
      BY <1>0, <2>2, <3>2 DEF Owns
    <3>4. WorksOnCharge(y)'
      BY <1>0, <2>2, <3>2 DEF WorksOnCharge
    <3>. QED
      BY <3>1, <3>3, <3>4 DEF OwnerInv, Busy
  <2>4. MoneyInv'
    BY <2>1, <2>2 DEF PayInv, MoneyInv, money, Terminal, Busy
  <2>. QED
    BY <2>2, <2>3, <2>4, NoPayment DEF PayInv, RowInv, money
<1>2. CASE SyncLock(y)
  <2>1. Busy(y) /\ act[y].op = "read" /\ UNCHANGED <<row, money>>
    BY <1>2 DEF SyncLock, At, Busy
  <2>2. Owns(y) /\ WorksOnCharge(y) /\ row.status \notin Terminal
    BY <1>0, <2>1, Alone
  <2>3. CASE Go(y, "polling") /\ globalLock' = globalLock
    <3>1. /\ act'[y].op = "polling" /\ act'[y].copy = act[y].copy
          /\ act'[y].run = act[y].run /\ Only(y)
      BY <1>0, <2>3, OnlyGoes
    <3>2. Owns(y)' /\ WorksOnCharge(y)'
      BY <1>0, <2>1, <2>2, <2>3, <3>1 DEF Owns, WorksOnCharge, money
    <3>. QED
      BY <1>0, <2>1, <2>2, <3>1, <3>2, OwnerStep, QuietStep, NoPayment DEF PayInv, RowInv, money
  <2>4. CASE Leave(y)
    <3>1. act'[y].op = "idle" /\ Only(y)
      BY <1>0, <2>4, OnlyLeaves
    <3>. QED
      BY <1>0, <2>1, <2>2, <3>1, OwnerStep, QuietStep, NoPayment DEF PayInv, RowInv, money
  <2>. QED
    BY <1>2, <2>3, <2>4 DEF SyncLock
<1>3. CASE SyncFails(y) \/ SyncResultFails(y)
  <2>1. /\ Busy(y) /\ act[y].op \in {"polling", "processing"} /\ UNCHANGED <<row, locks, money>>
        /\ Go(y, "failing")
    BY <1>3 DEF SyncFails, SyncResultFails, At, Busy
  <2>2. Owns(y) /\ WorksOnCharge(y) /\ row.status \notin Terminal
    BY <1>0, <2>1, Alone
  <2>3. /\ act'[y].op = "failing" /\ act'[y].copy = act[y].copy /\ act'[y].run = act[y].run
        /\ Only(y)
    BY <1>0, <2>1, OnlyGoes
  <2>4. Owns(y)' /\ WorksOnCharge(y)'
    BY <1>0, <2>1, <2>2, <2>3 DEF Owns, WorksOnCharge, locks, money
  <2>. QED
    BY <1>0, <2>1, <2>2, <2>3, <2>4, OwnerStep, QuietStep, NoPayment DEF PayInv, RowInv, money
<1>4. CASE SyncRefused(y)
  BY <1>4 DEF SyncRefused, Calm, Steady, Faults
<1>5. CASE SyncOngoing(y)
  <2>1. Busy(y) /\ act[y].op = "polling" /\ UNCHANGED money /\ Leave(y)
    BY <1>5 DEF SyncOngoing, At, Busy
  <2>2. WorksOnCharge(y) /\ row.status \notin Terminal
    BY <1>0, <2>1, Alone
  <2>3. act'[y].op = "idle" /\ Only(y)
    BY <1>0, <2>1, OnlyLeaves
  <2>4. row'.status = row.status /\ row'.charge = charges /\ row'.refunded = row.refunded
    <3>. DEFINE c == act[y].copy
    <3>1. /\ c.status = row.status /\ c.charge = charges /\ ~c.refunded /\ ~row.refunded
          /\ row.charge = charges
      BY <1>0, <2>1, <2>2 DEF WorksOnCharge, PayInv, RowInv
    <3>2. CASE row' = [[c EXCEPT !.progress = @ + 1] EXCEPT !.age = 0] \/ row' = [c EXCEPT !.age = 0]
      BY <1>0, <3>1, <3>2 DEF Rows
    <3>3. CASE row' = [row EXCEPT !.age = @ + 1] \/ row' = row
      BY <1>0, <3>1, <3>3 DEF Rows
    <3>. QED
      BY <1>5, <3>2, <3>3 DEF SyncOngoing, Save
  <2>5. RowInv'
    BY <2>1, <2>4 DEF PayInv, RowInv, money
  <2>. QED
    BY <1>0, <2>1, <2>2, <2>3, <2>4, <2>5, OwnerStep, QuietStep, NoPayment
<1>6. CASE SyncDone(y)
  <2>1. /\ Busy(y) /\ act[y].op = "polling" /\ UNCHANGED money /\ globalLock' = globalLock
        /\ Go(y, "processing")
    BY <1>6 DEF SyncDone, At, Busy, locks
  <2>2. Owns(y) /\ WorksOnCharge(y) /\ row.status \notin Terminal /\ ~row.refunded
    BY <1>0, <2>1, Alone DEF PayInv, RowInv
  <2>3. /\ act'[y].op = "processing" /\ act'[y].copy = act[y].copy
        /\ act'[y].run = act[y].run /\ Only(y)
    BY <1>0, <2>1, OnlyGoes
  <2>4. row'.status = row.status /\ row'.charge = charges /\ ~row'.refunded
    BY <1>0, <1>6, <2>1, <2>2 DEF SyncDone, Save, WorksOnCharge, Rows
  <2>5. Owns(y)' /\ WorksOnCharge(y)'
    BY <1>0, <2>1, <2>2, <2>3, <2>4 DEF Owns, WorksOnCharge, money
  <2>6. RowInv'
    BY <2>1, <2>4 DEF PayInv, RowInv, money
  <2>. QED
    BY <1>0, <2>1, <2>2, <2>3, <2>4, <2>5, <2>6, OwnerStep, QuietStep, NoPayment
<1>7. CASE SyncDelivers(y)
  <2>1. Busy(y) /\ act[y].op = "processing" /\ UNCHANGED <<charges, refunds>>
    BY <1>7 DEF SyncDelivers, At, Busy
  <2>2. WorksOnCharge(y)
    BY <1>0, <2>1, Alone
  <2>. DEFINE c == [act[y].copy EXCEPT !.status = "COMPLETED"]
  <2>3. c \in Rows /\ c.charge = charges /\ ~c.refunded /\ c.status = "COMPLETED"
    BY <1>0, <2>1, <2>2 DEF Rows, Statuses, Terminal, WorksOnCharge
  <2>4. SaveDelivering(c) /\ act'[y].op = "idle" /\ Only(y)
    BY <1>0, <1>7, OnlyLeaves DEF SyncDelivers
  <2>. HIDE DEF c
  <2>. QED
    BY <1>0, <2>1, <2>3, <2>4, DeliversRun
<1>8. CASE SyncEnded(y)
  BY <1>8 DEF SyncEnded, Calm
<1>. QED
  BY <1>1, <1>2, <1>3, <1>4, <1>5, <1>6, <1>7, <1>8 DEF Sync

\* No submission is ever to be retried, so no retry round starts.
LEMMA ResubmitPays ==
    ASSUME PayInv, NEW r \in Resubmitters, Resubmit(r)
    PROVE  FALSE
<1>0. r \in Actors /\ r \notin Workers /\ r \notin Syncers
  BY Disjoint
<1>1. ~Busy(r)
  BY <1>0, Alone DEF Owns
<1>2. ~ResubmitRead(r)
  BY DEF ResubmitRead, PayInv, RowInv
<1>. QED
  BY <1>1, <1>2 DEF Resubmit, Busy, At, ResubmitBlank, ResubmitAccepted, ResubmitFails,
                    ResubmitLoad, ResubmitMark, ResubmitProcessed, ResubmitRetryable,
                    ResubmitRefused, Resave, ResubmitSave

\* No executor but gpt4o_v2 saves its progress beside the worker.
LEMMA NoProgress == Calm => \A w \in Workers : ~Progress(w)
BY DEF Calm, Progress, ProgressBegin, ProgressSave

LEMMA FailTaskPays ==
    ASSUME Calm, PayInv, NEW a \in Actors, FailTask(a)
    PROVE  OwnerInv' /\ RowInv' /\ MoneyInv' /\ Pays
<1>0. /\ TypeOK /\ row \in Rows /\ act[a].copy \in Rows /\ row.charge = charges
      /\ charges \in 1..MaxCharges
  BY CopyType DEF PayInv, RowInv, TypeOK, Charges
<1>1. act[a].op \in {"refused", "failing", "refusing", "refunding"} /\ Busy(a)
  BY DEF FailTask, FailTaskSkip, FailTaskError, FailTaskRefund, FailTaskCommit,
         FailTaskRollback, Holding, Busy
<1>2. /\ Owns(a) /\ WorksOnCharge(a) /\ row.status \notin Terminal /\ ~row.refunded
      /\ act[a].op \in {"failing", "refunding"}
  BY <1>1, Alone DEF Owns, PayInv, RowInv
<1>3. \A copy : AfterFailTask(a, copy) => act'[a].op = "idle" /\ Only(a)
  BY <1>0, <1>2, OnlyLeaves DEF AfterFailTask
<1>4. CASE FailTaskError(a)
  <2>1. UNCHANGED <<row, money>> /\ act[a].op = "failing" /\ act'[a].op = "idle" /\ Only(a)
    BY <1>2, <1>3, <1>4 DEF FailTaskError
  <2>. QED
    BY <1>1, <1>2, <2>1, OwnerStep, QuietStep, NoPayment DEF PayInv, RowInv, money
<1>5. CASE FailTaskRefund(a)
  <2>1. /\ act[a].op = "failing" /\ UNCHANGED <<row, locks, charges, delivered>>
        /\ refunds[charges] = 0
    BY <1>1, <1>2, <1>5, Alone DEF FailTaskRefund, Holding
  <2>2. \/ /\ refunds' = [refunds EXCEPT ![charges] = 1]
           /\ Become(a, "refunding", [row EXCEPT !.refunded = TRUE])
        \/ /\ refunds' = refunds
           /\ Become(a, "refunding", row)
    BY <1>0, <1>5, <2>1 DEF FailTaskRefund, At, TypeOK
  <2>3. /\ act'[a].op = "refunding" /\ act'[a].run = charges /\ act'[a].copy.charge = charges
        /\ act'[a].copy.status = row.status /\ Only(a)
        /\ act'[a].copy.refunded \/ refunds' = refunds
    <3>1. CASE Become(a, "refunding", [row EXCEPT !.refunded = TRUE])
      <4>. DEFINE c == [row EXCEPT !.refunded = TRUE]
      <4>1. c.charge = charges /\ c.status = row.status /\ c.refunded
        BY <1>0 DEF Rows
      <4>. HIDE DEF c
      <4>2. Become(a, "refunding", c)
        BY <3>1 DEF c
      <4>. QED
        BY <1>0, <1>2, <4>1, <4>2, OnlyBecomes DEF WorksOnCharge
    <3>2. CASE Become(a, "refunding", row) /\ refunds' = refunds
      BY <1>0, <1>2, <3>2, OnlyBecomes DEF WorksOnCharge
    <3>. QED
      BY <2>2, <3>1, <3>2
  <2>4. Owns(a)' /\ WorksOnCharge(a)'
    BY <1>2, <2>1, <2>3 DEF Owns, WorksOnCharge, locks
  <2>5. OwnerInv'
    BY <1>1, <2>3, <2>4, OwnerStep
  <2>6. CASE refunds' = refunds
    BY <1>1, <1>2, <2>1, <2>5, <2>6, QuietStep, NoPayment DEF PayInv, RowInv, money
  <2>7. CASE refunds' = [refunds EXCEPT ![charges] = 1] /\ act'[a].copy.refunded
    <3>1. charges \notin delivered
      BY <1>1, Alone
    <3>2. Money!Refund(charges)
      BY <2>1, <2>7, <3>1 DEF Money!Refund, Money!Open
    <3>3. Pays
      BY <1>0, <3>2 DEF Pays, Money!Next
    <3>4. \A c \in Charges : c > charges => refunds'[c] = 0 /\ c \notin delivered
      BY <1>0, <2>7 DEF PayInv, MoneyInv, TypeOK
    <3>5. MoneyInv'
      BY <1>2, <2>1, <2>3, <2>7, <3>1, <3>4 DEF MoneyInv, Terminal
    <3>. QED
      BY <2>1, <2>5, <3>3, <3>5 DEF PayInv, RowInv
  <2>. QED
    BY <2>2, <2>3, <2>6, <2>7
<1>6. CASE FailTaskCommit(a)
  <2>1. /\ row' = [act[a].copy EXCEPT !.status = "FAILED", !.age = 0] /\ UNCHANGED money
        /\ act'[a].op = "idle" /\ Only(a)
    BY <1>3, <1>6 DEF FailTaskCommit
  <2>2. row'.status = "FAILED" /\ row'.charge = charges
    BY <1>0, <1>2, <2>1 DEF Rows, WorksOnCharge
  <2>3. charges \notin delivered
    BY <1>1, Alone
  <2>4. OwnerInv' /\ RowInv'
    BY <1>1, <2>1, <2>2, OwnerStep DEF RowInv, money, Terminal
  <2>5. MoneyInv'
    BY <2>1, <2>2, <2>3 DEF PayInv, MoneyInv, money, Terminal
  <2>. QED
    BY <2>1, <2>4, <2>5, NoPayment
<1>7. CASE FailTaskSkip(a) \/ FailTaskRollback(a)
  BY <1>2, <1>7 DEF FailTaskSkip, FailTaskRollback, Calm, Steady, Faults
<1>. QED
  BY <1>4, <1>5, <1>6, <1>7 DEF FailTask

LEMMA EnvironmentPays ==
    ASSUME Calm, PayInv, Environment
    PROVE  OwnerInv' /\ RowInv' /\ MoneyInv' /\ Pays
<1>1. CASE RetryFailedTask
  <2>1. \A a \in Actors : ~Busy(a)
    BY <1>1, Alone DEF RetryFailedTask, Terminal
  <2>2. /\ charges < scenario.runs /\ charges' = charges + 1 /\ UNCHANGED <<act, refunds, delivered>>
        /\ row'.charge = charges' /\ row'.status = "PENDING" /\ ~row'.refunded
        /\ row.status = "FAILED"
    BY <1>1 DEF RetryFailedTask, BlankRow
  <2>3. charges \in Nat /\ charges' \in Charges /\ MaxCharges \in Nat /\ charges < MaxCharges
    <3>1. scenario.runs \in Charges /\ charges \in Charges
      BY TaskLifecycleAssumptions DEF PayInv, TypeOK, ScenarioType
    <3>. QED
      BY <2>2, <3>1, TaskLifecycleAssumptions DEF Charges
  <2>4. charges \notin delivered /\ \A c \in Charges : c > charges => refunds[c] = 0 /\ c \notin delivered
    BY <2>2 DEF PayInv, MoneyInv
  <2>5. Money!Charge
    BY <2>2, <2>3, <2>4 DEF Money!Charge
  <2>6. OwnerInv' /\ RowInv'
    BY <2>1, <2>2 DEF OwnerInv, Busy, RowInv
  <2>7. MoneyInv'
    BY <2>2, <2>3, <2>4 DEF MoneyInv, Terminal
  <2>. QED
    BY <2>5, <2>6, <2>7 DEF Pays, Money!Next
<1>2. CASE TaskLockExpires \/ RetryLockExpires
  <2>1. UNCHANGED <<row, act, globalLock, money>>
    BY <1>2 DEF TaskLockExpires, RetryLockExpires
  <2>2. OwnerInv' /\ RowInv' /\ MoneyInv'
    BY <2>1 DEF PayInv, OwnerInv, Owns, WorksOnCharge, Busy, RowInv, MoneyInv, money
  <2>. QED
    BY <2>1, <2>2, NoPayment
<1>3. CASE GlobalLockExpires
  <2>1. UNCHANGED <<row, act, money>> /\ act[globalLock].op = "idle"
    BY <1>3 DEF GlobalLockExpires, Calm, Steady, Faults, At
  <2>2. \A a \in Actors : Owns(a) => globalLock # a
    BY <2>1 DEF Owns
  <2>3. \A a \in Actors : Owns(a) => Owns(a)'
    BY <2>1, <2>2 DEF Owns
  <2>4. OwnerInv' /\ RowInv' /\ MoneyInv'
    BY <2>1, <2>3 DEF PayInv, OwnerInv, WorksOnCharge, Busy, RowInv, MoneyInv, money
  <2>. QED
    BY <2>1, <2>4, NoPayment
<1>. QED
  BY <1>1, <1>2, <1>3 DEF Environment

----------------------------------------------------------------------------
LEMMA InitPays == Init => PayInv /\ Money!Init
<1>. SUFFICES ASSUME Init
     PROVE  PayInv /\ Money!Init
  OBVIOUS
<1>1. TypeOK
  BY InitTypes
<1>2. /\ row.charge = 1 /\ row.status = "PENDING" /\ ~row.refunded
      /\ \A a \in Actors : act[a].op = "idle"
  BY DEF Init, BlankRow, Idle
<1>3. 1 \in Charges
  BY TaskLifecycleAssumptions DEF Charges
<1>4. OwnerInv /\ RowInv /\ MoneyInv
  BY <1>2, <1>3 DEF OwnerInv, RowInv, MoneyInv, Busy, Init, Terminal
<1>. QED
  BY <1>1, <1>4 DEF PayInv, Money!Init, Init, Charges

LEMMA StepPays ==
    ASSUME Calm, PayInv, [Next]_vars
    PROVE  PayInv' /\ Pays
<1>1. TypeOK'
  BY StepTypes DEF PayInv
<1>2. CASE Next
  <2>1. \A a \in Actors : ~Crash(a)
    BY DEF Crash, Calm, Steady, Faults
  <2>2. OwnerInv' /\ RowInv' /\ MoneyInv' /\ Pays
    BY <1>2, <2>1, NoProgress, FailTaskPays, WorkerPays, SyncPays, ResubmitPays, EnvironmentPays DEF Next
  <2>. QED
    BY <1>1, <2>2 DEF PayInv
<1>3. CASE UNCHANGED vars
  BY <1>1, <1>3, NoPayment DEF vars, locks, money, PayInv, OwnerInv, Owns, WorksOnCharge, Busy,
                              RowInv, MoneyInv
<1>. QED
  BY <1>2, <1>3

LEMMA PayInvariant == Spec => [](Calm => PayInv)
<1>1. Init => PayInv
  BY InitPays
<1>2. (Calm => PayInv) /\ [Next]_vars => (Calm => PayInv)'
  <2>. SUFFICES ASSUME Calm => PayInv, [Next]_vars, Calm' PROVE PayInv'
    OBVIOUS
  <2>1. Calm
    BY DEF Next, vars, Calm, Steady, Faults
  <2>. QED
    BY <2>1, StepPays
<1>. QED
  BY <1>1, <1>2, PTL DEF Spec

\* While nothing but the database and the refunds can fail, the workers, sync
\* rounds, FailTask and the user's restarts refund each deduction at most once,
\* deliver it at most once, and never do both.
THEOREM PaidOnce == Spec => PaysOnce
<1>1. Init => Payment!Init
  BY InitPays DEF Payment!Init, Money!Init, Init, Charges
<1>2. (Calm => PayInv) /\ [Next]_vars => [Payment!Next]_(Payment!payment)
  <2>. SUFFICES ASSUME Calm => PayInv, [Next]_vars
       PROVE  [Payment!Next]_(Payment!payment)
    OBVIOUS
  <2>1. Calm' <=> Calm
    BY DEF Next, vars, Calm, Steady, Faults
  <2>2. CASE ~Calm
    BY <2>1, <2>2 DEF Payment!payment
  <2>3. CASE Calm
    <3>1. Pays
      BY <2>3, StepPays
    <3>2. CASE UNCHANGED Money!payment
      BY <2>1, <2>3, <3>2 DEF Money!payment, Payment!payment
    <3>3. CASE Money!Next
      BY <2>1, <2>3, <3>3 DEF Money!Next, Money!Charge, Money!Refund, Money!Deliver, Money!Open,
           Payment!Next, Payment!Charge, Payment!Refund, Payment!Deliver, Payment!Open
    <3>. QED
      BY <3>1, <3>2, <3>3 DEF Pays
  <2>. QED
    BY <2>2, <2>3
<1>. QED
  BY <1>1, <1>2, PayInvariant, PTL DEF Spec, PaysOnce, Payment!Spec

\* Under the same conditions the row always names the latest deduction, though
\* every save of the row writes all columns of a copy read earlier.
THEOREM ReceiptStays == Spec => []CalmKeepsReceipt
<1>1. (Calm => PayInv) => CalmKeepsReceipt
  BY DEF PayInv, RowInv, CalmKeepsReceipt, ReceiptKept
<1>. QED
  BY <1>1, PayInvariant, PTL

\* Under the same conditions whoever is inside FailTask fails the run it was
\* started for.
THEOREM FailsOnlyOwnRun == Spec => []FailsOwnRun
<1>1. ASSUME PayInv, NEW a \in Workers \cup Syncers, act[a].op \in Holding
      PROVE  act[a].run = row.charge
  <2>1. a \in Actors /\ Busy(a)
    BY <1>1 DEF Actors, Holding, Busy
  <2>. QED
    BY <1>1, <2>1 DEF PayInv, OwnerInv, WorksOnCharge, RowInv
<1>2. (Calm => PayInv) => FailsOwnRun
  BY <1>1 DEF FailsOwnRun
<1>. QED
  BY <1>2, PayInvariant, PTL

\* While steady a round that is at work holds the global lock.
RoundsLock == \A y \in Syncers : Busy(y) => globalLock = y

LEMMA RoundsLockStep ==
    ASSUME Steady, TypeOK, RoundsLock, [Next]_vars
    PROVE  RoundsLock'
<1>1. CASE UNCHANGED vars
  BY <1>1 DEF vars, RoundsLock, Busy
<1>2. ASSUME NEW a \in Actors, Leave(a) PROVE RoundsLock'
  <2>1. act'[a].op = "idle" /\ Only(a)
    BY <1>2, OnlyLeaves
  <2>2. \A y \in Syncers : y # a /\ globalLock = y => globalLock' = y
    BY <1>2 DEF Leave
  <2>. QED
    BY <2>1, <2>2, Disjoint DEF RoundsLock, Busy, Only
<1>3. ASSUME NEW a \in Actors, Only(a), UNCHANGED globalLock, Busy(a) \/ a \notin Syncers
      PROVE  RoundsLock'
  BY <1>3, Disjoint DEF RoundsLock, Busy, Only
<1>4. ASSUME NEW a \in Actors, FailTask(a) PROVE RoundsLock'
  <2>1. Busy(a)
    BY <1>4 DEF FailTask, FailTaskSkip, FailTaskError, FailTaskRefund, FailTaskCommit,
                FailTaskRollback, Holding, Busy
  <2>2. CASE FailTaskRefund(a)
    <3>1. Only(a)
      BY <2>2, OnlyBecomes DEF FailTaskRefund
    <3>. QED
      BY <1>3, <2>1, <2>2, <3>1 DEF FailTaskRefund, locks
  <2>3. ASSUME NEW copy, AfterFailTask(a, copy) PROVE RoundsLock'
    <3>1. Only(a)
      BY <2>3, AfterFailTaskOp
    <3>. QED
      BY <1>2, <1>3, <2>1, <2>3, <3>1 DEF AfterFailTask
  <2>. QED
    BY <1>4, <2>2, <2>3 DEF FailTask, FailTaskSkip, FailTaskError, FailTaskCommit, FailTaskRollback
<1>5. ASSUME NEW w \in Workers, Worker(w) PROVE RoundsLock'
  <2>1. w \in Actors /\ w \notin Syncers
    BY Disjoint
  <2>2. UNCHANGED globalLock /\ \A b \in Actors : b # w => act'[b] = act[b]
    BY <1>5, <2>1
       DEF Worker, Dispatch, WorkerLoad, WorkerMark, WorkerAccepted, WorkerGenerated,
           WorkerDelivers, WorkerFails, WorkerRefused, WorkerRetryable, Resave, Become, Go,
           TypeOK, locks
  <2>. QED
    BY <1>3, <2>1, <2>2 DEF Only
<1>6. ASSUME NEW y \in Syncers, Sync(y) PROVE RoundsLock'
  <2>0. y \in Actors /\ y # None
    BY Disjoint
  <2>1. CASE SyncRead(y)
    <3>1. globalLock = None /\ globalLock' = y /\ \A b \in Actors : b # y => act'[b] = act[b]
      BY <2>0, <2>1 DEF SyncRead, TypeOK
    <3>2. \A b \in Syncers : ~Busy(b)
      BY <3>1, Disjoint DEF RoundsLock
    <3>. QED
      BY <3>1, <3>2, Disjoint DEF RoundsLock, Busy
  <2>2. CASE ~SyncRead(y)
    <3>1. \/ Leave(y)
          \/ UNCHANGED globalLock /\ Busy(y) /\ \E op : Go(y, op)
      BY <1>6, <2>2
         DEF Sync, SyncLock, SyncFails, SyncRefused, SyncOngoing, SyncEnded, SyncDone,
             SyncDelivers, SyncResultFails, At, Busy, locks
    <3>2. \A op : Go(y, op) => Only(y)
      BY <2>0, OnlyGoes
    <3>. QED
      BY <1>2, <1>3, <2>0, <3>1, <3>2
  <2>. QED
    BY <2>1, <2>2
<1>7. ASSUME NEW r \in Resubmitters, Resubmit(r) PROVE RoundsLock'
  <2>1. r \in Actors /\ r \notin Syncers
    BY Disjoint
  <2>2. CASE Leave(r)
    BY <1>2, <2>1, <2>2
  <2>3. CASE ~Leave(r)
    <3>1. UNCHANGED globalLock /\ \A b \in Actors : b # r => act'[b] = act[b]
      BY <1>7, <2>1, <2>3
         DEF Resubmit, ResubmitRead, ResubmitBlank, ResubmitAccepted, ResubmitFails,
             ResubmitLoad, ResubmitMark, ResubmitProcessed, ResubmitRetryable,
             ResubmitRefused, Resave, ResubmitSave, DeferFailed, Become, Go, TypeOK, locks
    <3>. QED
      BY <1>3, <2>1, <3>1 DEF Only
  <2>. QED
    BY <2>2, <2>3
<1>8. CASE Environment \/ \E w \in Workers : Progress(w)
  <2>1. CASE GlobalLockExpires
    <3>1. UNCHANGED act /\ act[globalLock].op = "idle"
      BY <2>1 DEF GlobalLockExpires, Steady, Faults, At
    <3>. QED
      BY <3>1 DEF RoundsLock, Busy
  <2>2. CASE ~GlobalLockExpires
    <3>1. UNCHANGED <<act, globalLock>>
      BY <1>8, <2>2
         DEF Environment, RetryFailedTask, TaskLockExpires, RetryLockExpires, Progress,
             ProgressBegin, ProgressSave, locks
    <3>. QED
      BY <3>1 DEF RoundsLock, Busy
  <2>. QED
    BY <2>1, <2>2
<1>9. ASSUME NEW a \in Actors, Crash(a) PROVE FALSE
  BY <1>9 DEF Crash, Steady, Faults
<1>. QED
  BY <1>1, <1>4, <1>5, <1>6, <1>7, <1>8, <1>9 DEF Next

\* While no server stops and no round outlives its lock, and for every executor,
\* two sync rounds never handle the task's end at the same time.
THEOREM OneRoundEndsTask == Spec => []NoReentry
<1>. DEFINE S == {y \in Syncers :
                    act[y].op \in {"processing", "refused", "failing"} \cup Holding}
<1>1. ASSUME RoundsLock PROVE Cardinality(S) <= 1
  <2>1. \A x, y \in S : x = y
    BY <1>1 DEF RoundsLock, Busy, Holding
  <2>2. S = {} \/ \E y \in S : S = {y}
    BY <2>1
  <2>. HIDE DEF S
  <2>3. CASE S = {}
    BY <2>3, FS_EmptySet
  <2>4. ASSUME NEW y \in S, S = {y} PROVE Cardinality(S) <= 1
    <3>1. Cardinality({y}) = 1
      BY FS_Singleton
    <3>. QED
      BY <2>4, <3>1
  <2>. QED
    BY <2>2, <2>3, <2>4
<1>2. (Steady => RoundsLock) => NoReentry
  BY <1>1 DEF NoReentry
<1>3. Init => RoundsLock
  BY Disjoint DEF Init, RoundsLock, Busy, Idle
<1>4. TypeOK /\ (Steady => RoundsLock) /\ [Next]_vars => (Steady => RoundsLock)'
  <2>. SUFFICES ASSUME TypeOK, Steady => RoundsLock, [Next]_vars, Steady' PROVE RoundsLock'
    OBVIOUS
  <2>1. Steady
    BY DEF Next, vars, Steady, Faults
  <2>. QED
    BY <2>1, RoundsLockStep
<1>. QED
  BY <1>2, <1>3, <1>4, LifecycleTypes, PTL DEF Spec

\* Under the same conditions nothing but the user's restart, which is charged
\* for, changes how a task ended.
THEOREM OnlyUserRevives == Spec => EndIsFinal
<1>. DEFINE A == Calm /\ row.status \in Terminal /\ row'.status # row.status => charges' = charges + 1
<1>1. ASSUME Calm, PayInv, Next, row.status \in Terminal PROVE row' = row \/ charges' = charges + 1
  <2>1. \A a \in Actors : ~Busy(a)
    BY <1>1, Alone
  <2>2. ASSUME NEW a \in Actors, FailTask(a) \/ Crash(a) PROVE FALSE
    BY <1>1, <2>1, <2>2
       DEF FailTask, FailTaskSkip, FailTaskError, FailTaskRefund, FailTaskCommit,
           FailTaskRollback, Holding, Busy, Crash, Calm, Steady, Faults
  <2>3. ASSUME NEW w \in Workers, Worker(w) PROVE FALSE
    BY <1>1, <2>1, <2>3, Disjoint
       DEF Worker, Dispatch, WorkerLoad, WorkerMark, WorkerAccepted, WorkerGenerated,
           WorkerDelivers, WorkerFails, WorkerRefused, WorkerRetryable, Resave, At, Busy, Terminal
  <2>4. ASSUME NEW y \in Syncers, Sync(y) PROVE FALSE
    BY <1>1, <2>1, <2>4, Disjoint
       DEF Sync, SyncRead, SyncLock, SyncFails, SyncRefused, SyncOngoing, SyncEnded, SyncDone,
           SyncDelivers, SyncResultFails, At, Busy, Terminal
  <2>5. ASSUME Environment PROVE row' = row \/ charges' = charges + 1
    BY <2>5 DEF Environment, RetryFailedTask, TaskLockExpires, GlobalLockExpires, RetryLockExpires
  <2>. QED
    BY <1>1, <2>2, <2>3, <2>4, <2>5, ResubmitPays, NoProgress DEF Next
<1>2. (Calm => PayInv) /\ [Next]_vars => [A]_vars
  BY <1>1
<1>. QED
  BY <1>2, PayInvariant, PTL DEF Spec, EndIsFinal

----------------------------------------------------------------------------
(***************************************************************************)
(* FailedIsRefunded: if refunds do not fail, the deduction of every run    *)
(* before the latest is refunded, and so is that of the latest once an     *)
(* actor is inside FailTask.                                               *)
(***************************************************************************)
RefundsWork == Calm /\ "refunderror" \notin Faults

RefundInv ==
    /\ \A c \in Charges : c < charges => refunds[c] > 0
    /\ row.status = "FAILED" => refunds[charges] > 0
    /\ \A a \in Actors : act[a].op = "refunding" => refunds[charges] > 0

\* A step that moves no refund, makes nothing FAILED and enters no FailTask.
LEMMA RefundKept ==
    ASSUME RefundInv, UNCHANGED <<charges, refunds>>,
           row'.status = "FAILED" => row.status = "FAILED",
           \A a \in Actors : act'[a].op = "refunding" => act[a].op = "refunding"
    PROVE  RefundInv'
BY DEF RefundInv

LEMMA FailTaskRefunds ==
    ASSUME RefundsWork, PayInv, RefundInv, NEW a \in Actors, FailTask(a)
    PROVE  RefundInv'
<1>0. /\ TypeOK /\ row \in Rows /\ act[a].copy \in Rows /\ row.charge = charges
      /\ charges \in 1..MaxCharges /\ RefundsWork /\ Calm
  BY CopyType DEF PayInv, RowInv, TypeOK, Charges, RefundsWork
<1>1. act[a].op \in {"refused", "failing", "refusing", "refunding"} /\ Busy(a)
  BY DEF FailTask, FailTaskSkip, FailTaskError, FailTaskRefund, FailTaskCommit,
         FailTaskRollback, Holding, Busy
<1>2. /\ row.status \notin Terminal /\ ~row.refunded
      /\ act[a].op \in {"failing", "refunding"}
  BY <1>1, Alone DEF Owns, PayInv, RowInv
<1>3. \A copy : AfterFailTask(a, copy) => act'[a].op = "idle" /\ Only(a)
  BY <1>0, <1>2, OnlyLeaves DEF AfterFailTask
<1>4. CASE FailTaskError(a)
  BY <1>3, <1>4, RefundKept DEF FailTaskError, money, Only
<1>5. CASE FailTaskRefund(a)
  <2>1. refunds' = [refunds EXCEPT ![charges] = @ + 1] /\ UNCHANGED <<row, charges>>
    BY <1>0, <1>2, <1>5, TaskLifecycleAssumptions DEF FailTaskRefund, RefundsWork
  <2>2. refunds'[charges] > 0
    BY <1>0, <2>1 DEF TypeOK
  <2>3. \A c \in Charges : c < charges => refunds'[c] = refunds[c]
    BY <1>0, <2>1 DEF TypeOK
  <2>. QED
    BY <2>1, <2>2, <2>3 DEF RefundInv
<1>6. CASE FailTaskCommit(a)
  <2>1. act[a].op = "refunding" /\ refunds[charges] > 0 /\ UNCHANGED money
    BY <1>2, <1>6 DEF FailTaskCommit, Holding, RefundInv
  <2>. QED
    BY <2>1 DEF RefundInv, money
<1>7. CASE FailTaskSkip(a) \/ FailTaskRollback(a)
  BY <1>0, <1>2, <1>7 DEF FailTaskSkip, FailTaskRollback, Calm, Steady
<1>. QED
  BY <1>4, <1>5, <1>6, <1>7 DEF FailTask

LEMMA WorkerRefunds ==
    ASSUME RefundsWork, PayInv, RefundInv, NEW w \in Workers, Worker(w)
    PROVE  RefundInv'
<1>0. /\ TypeOK /\ w \in Actors /\ row \in Rows /\ act[w].copy \in Rows
      /\ ~Resave(w) /\ ~WorkerRefused(w) /\ ~WorkerRetryable(w)
      /\ ~WorkerGenerated(w) /\ ~WorkerDelivers(w)
  <2>1. Steady /\ ~scenario.early
    BY DEF RefundsWork, Calm
  <2>2. ~Resave(w) /\ ~WorkerDelivers(w)
    BY Disjoint, Alone DEF Resave, WorkerDelivers, At, Busy, Owns
  <2>. QED
    BY <2>1, <2>2, Disjoint, CopyType
       DEF PayInv, WorkerRefused, WorkerRetryable, WorkerGenerated, Steady
<1>1. UNCHANGED <<charges, refunds>>
  BY <1>0 DEF Worker, Dispatch, WorkerLoad, WorkerMark, WorkerAccepted, WorkerFails, money
<1>2. row'.status = "FAILED" => row.status = "FAILED"
  <2>1. CASE Dispatch(w) \/ WorkerMark(w)
    BY <1>0, <2>1 DEF Dispatch, WorkerMark, Save, Rows
  <2>2. CASE WorkerAccepted(w)
    <3>1. row' = [[act[w].copy EXCEPT !.status = "AWAITING", !.progress = 0] EXCEPT !.age = 0]
      BY <2>2 DEF WorkerAccepted, Save
    <3>. QED
      BY <1>0, <3>1 DEF Rows
  <2>3. CASE WorkerLoad(w) \/ WorkerFails(w)
    BY <2>3 DEF WorkerLoad, WorkerFails
  <2>. QED
    BY <1>0, <2>1, <2>2, <2>3 DEF Worker
<1>3. \A a \in Actors : act'[a].op = "refunding" => act[a].op = "refunding"
  <2>1. Only(w) /\ act'[w].op # "refunding"
    <3>1. CASE Dispatch(w)
      BY <1>0, <3>1 DEF Dispatch, TypeOK, Only
    <3>2. CASE WorkerLoad(w)
      BY <1>0, <3>2, OnlyBecomes DEF WorkerLoad, TypeOK, Idle, Only
    <3>3. CASE WorkerAccepted(w)
      BY <1>0, <3>3 DEF WorkerAccepted, TypeOK, Idle, Only
    <3>4. CASE WorkerMark(w) \/ WorkerFails(w)
      BY <1>0, <3>4, OnlyBecomes, OnlyGoes DEF WorkerMark, WorkerFails
    <3>. QED
      BY <1>0, <3>1, <3>2, <3>3, <3>4 DEF Worker
  <2>. QED
    BY <2>1 DEF Only
<1>. QED
  BY <1>1, <1>2, <1>3, RefundKept

LEMMA SyncRefunds ==
    ASSUME RefundsWork, PayInv, RefundInv, NEW y \in Syncers, Sync(y)
    PROVE  RefundInv'
<1>0. /\ TypeOK /\ y \in Actors /\ row \in Rows /\ act[y].copy \in Rows
      /\ ~SyncRefused(y) /\ ~SyncEnded(y)
  BY Disjoint, CopyType DEF PayInv, SyncRefused, SyncEnded, RefundsWork, Calm, Steady
<1>1. UNCHANGED <<charges, refunds>>
  BY <1>0 DEF Sync, SyncRead, SyncLock, SyncFails, SyncOngoing, SyncDone, SyncDelivers,
              SyncResultFails, money
<1>2. row'.status = "FAILED" => row.status = "FAILED"
  <2>1. CASE SyncOngoing(y) \/ SyncDone(y)
    <3>1. act[y].copy.status = row.status
      BY <1>0, <2>1, Alone DEF SyncOngoing, SyncDone, At, Busy, WorksOnCharge
    <3>2. CASE row' = [act[y].copy EXCEPT !.age = 0] \/ row' = row
               \/ row' = [[act[y].copy EXCEPT !.progress = @ + 1] EXCEPT !.age = 0]
               \/ row' = [row EXCEPT !.age = @ + 1]
      BY <1>0, <3>1, <3>2 DEF Rows
    <3>. QED
      BY <2>1, <3>2 DEF SyncOngoing, SyncDone, Save
  <2>2. CASE SyncDelivers(y)
    BY <1>0, <2>2 DEF SyncDelivers, SaveDelivering, Save, Rows
  <2>3. CASE SyncRead(y) \/ SyncLock(y) \/ SyncFails(y) \/ SyncResultFails(y)
    BY <2>3 DEF SyncRead, SyncLock, SyncFails, SyncResultFails
  <2>. QED
    BY <1>0, <2>1, <2>2, <2>3 DEF Sync
<1>3. \A a \in Actors : act'[a].op = "refunding" => act[a].op = "refunding"
  <2>1. CASE SyncRead(y)
    BY <1>0, <2>1 DEF SyncRead, TypeOK
  <2>2. CASE ~SyncRead(y)
    <3>1. Go(y, "polling") \/ Go(y, "failing") \/ Go(y, "processing") \/ Leave(y)
      BY <1>0, <2>2 DEF Sync, SyncLock, SyncFails, SyncOngoing, SyncDone, SyncDelivers,
                        SyncResultFails
    <3>. QED
      BY <1>0, <3>1, OnlyGoes, OnlyLeaves DEF Only
  <2>. QED
    BY <2>1, <2>2
<1>. QED
  BY <1>1, <1>2, <1>3, RefundKept

LEMMA StepRefunds ==
    ASSUME RefundsWork, PayInv, RefundInv, [Next]_vars
    PROVE  RefundInv'
<1>1. CASE UNCHANGED vars
  BY <1>1 DEF vars, RefundInv
<1>2. ASSUME NEW a \in Actors, Crash(a) PROVE FALSE
  BY <1>2 DEF Crash, RefundsWork, Calm, Steady
<1>3. CASE RetryFailedTask
  <2>1. /\ charges' = charges + 1 /\ UNCHANGED <<act, refunds>>
        /\ row'.status = "PENDING" /\ row.status = "FAILED"
    BY <1>3 DEF RetryFailedTask, BlankRow
  <2>2. refunds[charges] > 0 /\ charges \in Charges
    BY <2>1 DEF RefundInv, PayInv, TypeOK
  <2>3. \A c \in Charges : c < charges' => refunds'[c] > 0
    <3>1. SUFFICES ASSUME NEW c \in Charges, c < charges + 1 PROVE refunds[c] > 0
      BY <2>1
    <3>2. c \in Nat /\ charges \in Nat /\ (c < charges \/ c = charges)
      BY <2>2, <3>1, TaskLifecycleAssumptions DEF Charges
    <3>. QED
      BY <2>2, <3>2 DEF RefundInv
  <2>4. \A a \in Actors : act'[a].op # "refunding"
    BY <2>1, Alone DEF Busy, Terminal
  <2>. QED
    BY <2>1, <2>3, <2>4 DEF RefundInv
<1>4. CASE TaskLockExpires \/ GlobalLockExpires \/ RetryLockExpires
  BY <1>4 DEF TaskLockExpires, GlobalLockExpires, RetryLockExpires, RefundInv, money
<1>5. \A w \in Workers : ~Progress(w)
  BY NoProgress DEF RefundsWork
<1>. QED
  BY <1>1, <1>2, <1>3, <1>4, <1>5, FailTaskRefunds, WorkerRefunds, SyncRefunds, ResubmitPays
     DEF Next, Environment

\* If the refunds themselves do not fail, a FAILED task has every deduction it
\* ever made refunded, through any number of restarts.
THEOREM FailedTaskIsRefunded == Spec => []FailedIsRefunded
<1>1. Init => RefundInv
  <2>. SUFFICES ASSUME Init PROVE RefundInv
    OBVIOUS
  <2>1. charges = 1 /\ row.status = "PENDING" /\ \A a \in Actors : act[a].op = "idle"
    BY DEF Init, BlankRow, Idle
  <2>2. \A c \in Charges : ~(c < 1)
    BY TaskLifecycleAssumptions DEF Charges
  <2>. QED
    BY <2>1, <2>2 DEF RefundInv
<1>2. (Calm => PayInv) /\ (RefundsWork => RefundInv) /\ [Next]_vars => (RefundsWork => RefundInv)'
  <2>. SUFFICES ASSUME Calm => PayInv, RefundsWork => RefundInv, [Next]_vars, RefundsWork'
       PROVE  RefundInv'
    OBVIOUS
  <2>1. RefundsWork /\ Calm
    BY DEF Next, vars, Calm, Steady, Faults, RefundsWork
  <2>. QED
    BY <2>1, StepRefunds
<1>3. (Calm => PayInv) /\ (RefundsWork => RefundInv) => FailedIsRefunded
  <2>. SUFFICES ASSUME PayInv, RefundInv, row.status = "FAILED", NEW c \in 1..charges
       PROVE  refunds[c] > 0
    BY DEF RefundsWork, FailedIsRefunded
  <2>1. charges \in Charges
    BY DEF PayInv, TypeOK
  <2>2. c \in Charges /\ (c < charges \/ c = charges)
    BY <2>1, TaskLifecycleAssumptions DEF Charges
  <2>. QED
    BY <2>2 DEF RefundInv
<1>. QED
  BY <1>1, <1>2, <1>3, PayInvariant, PTL DEF Spec
=============================================================================
