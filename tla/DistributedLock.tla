-------------------------- MODULE DistributedLock --------------------------
(***************************************************************************)
(* The Redis lock of the sync processor and of the two slot reconcilers: a *)
(* round takes it for a TTL, a goroutine renews it while the round's       *)
(* context lives, and the round releases it if it still holds it.          *)
(*                                                                         *)
(* Time passes in ticks; a tick is what a renewal's period is measured in. *)
(* A round that is timely does what is due before the next tick.  Nothing  *)
(* makes the work of a round end with its context.                         *)
(***************************************************************************)
EXTENDS Naturals, FiniteSets

CONSTANTS Rounds,   \* rounds on any server; each has a value of its own for the key
          Nobody,   \* the key does not exist
          Ttl,      \* time to live of the key, also when renewed
          Period,   \* between two renewals (a third of Ttl)
          Timeout   \* of the round's context

ASSUME DistributedLockAssumptions ==
    /\ Nobody \notin Rounds
    /\ Ttl \in Nat /\ Timeout \in Nat
    /\ Period \in 1..(Ttl - 1)

VARIABLES key,    \* whose value the key has, and the time it has left
          round   \* what each round does

lockVars == <<key, round>>

\* How long a round's lock is its own: without renewal for one TTL; with it, for a
\* TTL from the last renewal, which is at most Period before the context ends.
Protected(renewed) == IF renewed /\ Timeout > Period THEN Timeout + Ttl - Period ELSE Ttl
MaxAge == Timeout + Ttl + 1

RoundStates == [op : {"idle", "acquired", "working"}, renewing : BOOLEAN, renewed : BOOLEAN,
                timely : BOOLEAN, age : 0..MaxAge, since : 0..Period]
NoRound == [op |-> "idle", renewing |-> FALSE, renewed |-> FALSE, timely |-> TRUE, age |-> 0, since |-> 0]

LockTypeOK ==
    /\ key \in [holder : Rounds \cup {Nobody}, left : 0..Ttl]
    /\ round \in [Rounds -> RoundStates]
    /\ \A r \in Rounds : round[r].renewing => round[r].op = "working"

NoKey == [holder |-> Nobody, left |-> 0]
LockInit == key = NoKey /\ round = [r \in Rounds |-> NoRound]

----------------------------------------------------------------------------
\* Mutant of AcquireLock: a key without a TTL.
AcquireForever(r) ==
    /\ round[r].op = "idle" /\ key.holder = Nobody
    /\ key' = [holder |-> r, left |-> 0]
    /\ round' = [round EXCEPT ![r] = [NoRound EXCEPT !.op = "acquired"]]

\* SET NX, with a new value; the context is as old as the key, or older.
AcquireLock(r) ==
    /\ round[r].op = "idle" /\ key.holder = Nobody
    /\ key' = [holder |-> r, left |-> Ttl]
    /\ round' = [round EXCEPT ![r] = [NoRound EXCEPT !.op = "acquired"]]

\* The goroutine starts if the key is the round's; the round works in any case,
\* also when Redis does not answer.
StartRenewal(r) ==
    /\ round[r].op = "acquired"
    /\ \E starts \in BOOLEAN :
         /\ starts => key.holder = r
         /\ round' = [round EXCEPT ![r].op = "working", ![r].renewing = starts, ![r].renewed = starts]
    /\ UNCHANGED key

Due(r) == round[r].renewing /\ round[r].since = Period

\* A tick of the ticker: the time is set again if the key is the round's, else the
\* goroutine ends.  An error is logged.  Late, the tick may come after the context's end.
Renew(r) ==
    /\ Due(r)
    /\ round[r].timely => round[r].age <= Timeout
    /\ \/ /\ key.holder = r
          /\ key' = [key EXCEPT !.left = Ttl]
          /\ round' = [round EXCEPT ![r].since = 0]
       \/ /\ key.holder # r
          /\ round' = [round EXCEPT ![r].renewing = FALSE]
          /\ UNCHANGED key
       \/ /\ round' = [round EXCEPT ![r].since = 0, ![r].timely = FALSE]
          /\ UNCHANGED key

\* The context is over.
StopRenewal(r) ==
    /\ round[r].renewing /\ round[r].age >= Timeout
    /\ round' = [round EXCEPT ![r].renewing = FALSE]
    /\ UNCHANGED key

\* Mutant of ReleaseLock: whoever holds the key, it is deleted.
ReleaseAny(r) ==
    /\ round[r].op = "working"
    /\ round' = [round EXCEPT ![r] = NoRound]
    /\ key' \in {key, NoKey}

\* The round ends and deletes the key if it is its own; the call may fail.
ReleaseLock(r) ==
    /\ round[r].op = "working"
    /\ round' = [round EXCEPT ![r] = NoRound]
    /\ \/ key.holder = r /\ key' = NoKey
       \/ UNCHANGED key

\* The process of a round hangs for a while, or stops.
Delay(r) ==
    /\ round[r].op # "idle" /\ round[r].timely
    /\ round' = [round EXCEPT ![r].timely = FALSE]
    /\ UNCHANGED key

LockCrash(r) ==
    /\ round[r].op # "idle"
    /\ round' = [round EXCEPT ![r] = NoRound]
    /\ UNCHANGED key

\* A timely round has started its renewal, has renewed when it was due, and has
\* stopped when the context was over.
NothingDue(r) ==
    round[r].timely =>
        round[r].op # "acquired" /\ ~Due(r) /\ ~(round[r].renewing /\ round[r].age >= Timeout)

AtMost(x, bound) == IF x < bound THEN x ELSE bound

Tick ==
    /\ \A r \in Rounds : NothingDue(r)
    /\ key' = IF key.left = 1 THEN NoKey ELSE [key EXCEPT !.left = IF @ = 0 THEN 0 ELSE @ - 1]
    /\ round' = [r \in Rounds |->
                   IF round[r].op = "idle" THEN round[r]
                   ELSE [round[r] EXCEPT !.age = AtMost(@ + 1, MaxAge),
                                         !.since = IF round[r].renewing THEN AtMost(@ + 1, Period) ELSE @]]

LockNext ==
    \/ \E r \in Rounds : \/ AcquireLock(r) \/ StartRenewal(r) \/ Renew(r) \/ StopRenewal(r)
                         \/ ReleaseLock(r) \/ Delay(r) \/ LockCrash(r)
    \/ Tick

LockSpec == LockInit /\ [][LockNext]_lockVars

\* Time passes, what is due in a timely round is done, and a goroutine whose
\* context is over sees it in the end.
LockRuns(r) == StartRenewal(r) \/ (round[r].timely /\ Renew(r)) \/ StopRenewal(r)
LockFairness == WF_lockVars(Tick) /\ \A r \in Rounds : WF_lockVars(LockRuns(r))

----------------------------------------------------------------------------
\* Safety: a timely round has the key to itself, beyond the end of its context by
\* what the last renewal left, whatever late, hung or dead rounds of others still
\* do.  So two timely rounds never work at once within that time.
KeepsLock ==
    \A r \in Rounds :
        round[r].op # "idle" /\ round[r].timely /\ round[r].age < Protected(round[r].renewed) =>
            key.holder = r

\* Liveness: the lock of a round that crashed, hangs or never ends its work is
\* given up in the end.
LockFrees == \A r \in Rounds : key.holder = r ~> key.holder # r
=============================================================================
