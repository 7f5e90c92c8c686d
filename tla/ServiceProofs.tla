--------------------------- MODULE ServiceProofs ---------------------------
(***************************************************************************)
(* Theorems about InviteRewards, for any users, projects and calls, any    *)
(* amount and any cap; about DistributedLock, for any rounds and any TTL,  *)
(* period and timeout; about EventWatcher, for any streams, events and     *)
(* capacity; and about the five components side by side.                   *)
(***************************************************************************)
EXTENDS MCServices, TaskChainProofs, EventReporterProofs

(***************************************************************************)
(* Invite rewards.                                                         *)
(***************************************************************************)

\* What holds as long as no two calls overlap: the one that runs has looked at the
\* records as they still are.
Alone ==
    apart => \A k \in Calls : call[k].op # "idle" =>
        /\ \A l \in Calls : call[l].op # "idle" => l = k
        /\ ~ \E r \in records : r.invitee = call[k].invitee
        /\ call[k].op = "counted" /\ call[k].grant /\ Cap > 0 => GrantedTo(call[k].code[2]) < Cap

InviteInv ==
    /\ InviteTypeOK /\ IsFiniteSet(records) /\ RewardsMatchRecords
    /\ Alone /\ SerialCapKept /\ SerialInvitedOnce

----------------------------------------------------------------------------
\* What a reward owes to the record of its invitation.
RewardsOf(r) ==
    {[for |-> "invitee", invitee |-> r.invitee, code |-> <<r.project, r.inviter>>]}
        \cup (IF r.granted THEN {[for |-> "inviter", invitee |-> r.invitee, code |-> <<r.project, r.inviter>>]}
                           ELSE {})

\* A record more is at most one reward more for its inviter, and none for another.
LEMMA GrantedGrows ==
    ASSUME IsFiniteSet(records), NEW r, records' = records \cup {r}, NEW i
    PROVE  /\ GrantedTo(i) \in Nat /\ GrantedTo(i)' \in Nat
           /\ GrantedTo(i)' <= GrantedTo(i) + Amount
           /\ ~(r.inviter = i /\ r.granted) => GrantedTo(i)' = GrantedTo(i)
<1>. DEFINE G == {q \in records : q.inviter = i /\ q.granted}
            H == {q \in records' : q.inviter = i /\ q.granted}
<1>1. IsFiniteSet(G) /\ Cardinality(G) \in Nat
  BY FS_Subset, FS_CardinalityType
<1>2. CASE r.inviter = i /\ r.granted
  <2>1. H = G \cup {r}
    BY <1>2
  <2>. HIDE DEF G, H
  <2>2. Cardinality(H) \in Nat /\ Cardinality(H) <= Cardinality(G) + 1
    <3>1. Cardinality(H) = IF r \in G THEN Cardinality(G) ELSE Cardinality(G) + 1
      BY <1>1, <2>1, FS_AddElement
    <3>. QED
      BY <1>1, <3>1
  <2>3. Amount * Cardinality(H) <= Amount * (Cardinality(G) + 1)
    BY <1>1, <2>2, InviteRewardsAssumptions
  <2>. QED
    BY <1>1, <1>2, <2>2, <2>3, InviteRewardsAssumptions DEF GrantedTo, G, H
<1>3. CASE ~(r.inviter = i /\ r.granted)
  <2>1. H = G
    BY <1>3
  <2>2. GrantedTo(i)' = GrantedTo(i)
    BY <2>1 DEF GrantedTo
  <2>3. GrantedTo(i) \in Nat
    BY <1>1, InviteRewardsAssumptions DEF GrantedTo
  <2>. QED
    BY <2>2, <2>3, InviteRewardsAssumptions
<1>. QED
  BY <1>2, <1>3

LEMMA CallTypes ==
    ASSUME InviteTypeOK, NEW k \in Calls
    PROVE  /\ call[k].op \in {"idle", "checked", "counted"} /\ call[k].invitee \in Invitees
           /\ call[k].code \in Codes /\ call[k].grant \in BOOLEAN
           /\ call[k].code = <<call[k].code[1], call[k].code[2]>>
           /\ call[k].code[1] \in Projects /\ call[k].code[2] \in Inviters
           /\ RecordOf(k) \in InviteRecord
BY DEF InviteTypeOK, CallStates, Codes, RecordOf, InviteRecord

LEMMA NoCallType == NoCall \in CallStates /\ NoCall.op = "idle"
<1>1. PICK p \in Projects, i \in Inviters, u \in Invitees : TRUE
  BY InviteRewardsAssumptions
<1>2. <<p, i>> \in Codes
  BY DEF Codes
<1>. QED
  BY <1>1, <1>2 DEF NoCall, CallStates

----------------------------------------------------------------------------
\* The steps that write nothing keep the records' properties.
LEMMA CodeKeeps ==
    ASSUME InviteInv, NEW c \in Codes, GetOrCreateInviteCode(c)
    PROVE  InviteInv'
BY DEF GetOrCreateInviteCode, InviteInv, InviteTypeOK, RewardsMatchRecords, Alone, SerialCapKept, SerialInvitedOnce,
       CapKept, InvitedOnce, GrantedTo

LEMMA SameRecords ==
    ASSUME InviteInv, UNCHANGED <<records, rewards>>, apart' => apart
    PROVE  IsFiniteSet(records)' /\ RewardsMatchRecords' /\ SerialCapKept' /\ SerialInvitedOnce'
BY DEF InviteInv, RewardsMatchRecords, SerialCapKept, SerialInvitedOnce, CapKept, InvitedOnce, GrantedTo

LEMMA CheckKeeps ==
    ASSUME InviteInv, NEW k \in Calls, UseCheck(k)
    PROVE  InviteInv'
<1>1. PICK u \in Invitees, c \in codes :
        /\ ~ \E r \in records : r.invitee = u
        /\ call' = [call EXCEPT ![k] = [op |-> "checked", invitee |-> u, code |-> c, grant |-> FALSE]]
  BY DEF UseCheck
<1>2. apart' = (apart /\ Busy = {}) /\ UNCHANGED <<codes, records, rewards>>
  BY DEF UseCheck
<1>3. InviteTypeOK'
  BY <1>1, <1>2 DEF InviteInv, InviteTypeOK, CallStates
<1>4. Alone'
  <2>1. call'[k].op = "checked" /\ call'[k].invitee = u /\ \A l \in Calls \ {k} : call'[l] = call[l]
    BY <1>1 DEF InviteInv, InviteTypeOK
  <2>2. apart' => \A l \in Calls \ {k} : call'[l].op = "idle"
    BY <1>2, <2>1 DEF Busy
  <2>. QED
    BY <1>1, <1>2, <2>1, <2>2 DEF Alone
<1>5. apart' => apart
  BY <1>2
<1>. QED
  BY <1>2, <1>3, <1>4, <1>5, SameRecords DEF InviteInv

LEMMA CountKeeps ==
    ASSUME InviteInv, NEW k \in Calls, UseCount(k)
    PROVE  InviteInv'
<1>. DEFINE g == Cap = 0 \/ GrantedTo(call[k].code[2]) < Cap
<1>1. call' = [call EXCEPT ![k].op = "counted", ![k].grant = g] /\ call[k].op = "checked"
  BY DEF UseCount
<1>2. UNCHANGED <<codes, records, rewards, apart>>
  BY DEF UseCount
<1>3. g \in BOOLEAN
  OBVIOUS
<1>4. /\ call'[k].op = "counted" /\ call'[k].invitee = call[k].invitee /\ call'[k].code = call[k].code
      /\ call'[k].grant = g
      /\ \A l \in Calls \ {k} : call'[l] = call[l]
  BY <1>1 DEF InviteInv, InviteTypeOK, CallStates
<1>5. InviteTypeOK'
  <2>. HIDE DEF g
  <2>. QED
    BY <1>1, <1>2, <1>3 DEF InviteInv, InviteTypeOK, CallStates
<1>6. Alone'
  <2>1. \A i : GrantedTo(i)' = GrantedTo(i)
    BY <1>2 DEF GrantedTo
  <2>2. call'[k].grant /\ Cap > 0 => GrantedTo(call[k].code[2]) < Cap
    <3>1. call'[k].grant => g
      BY <1>4, Zenon
    <3>. QED
      BY <3>1, InviteRewardsAssumptions
  <2>. HIDE DEF g
  <2>. QED
    BY <1>1, <1>2, <1>4, <2>1, <2>2 DEF InviteInv, InviteTypeOK, Alone
<1>. QED
  BY <1>2, <1>5, <1>6, SameRecords DEF InviteInv

LEMMA FailsKeeps ==
    ASSUME InviteInv, NEW k \in Calls, UseFails(k)
    PROVE  InviteInv'
<1>1. call' = [call EXCEPT ![k] = NoCall] /\ UNCHANGED <<codes, records, rewards, apart>>
  BY DEF UseFails, Return
<1>2. InviteTypeOK'
  BY <1>1, NoCallType DEF InviteInv, InviteTypeOK
<1>3. Alone'
  <2>1. call'[k].op = "idle" /\ \A l \in Calls \ {k} : call'[l] = call[l]
    BY <1>1, NoCallType DEF InviteInv, InviteTypeOK
  <2>2. \A i : GrantedTo(i)' = GrantedTo(i)
    BY <1>1 DEF GrantedTo
  <2>. QED
    BY <1>1, <2>1, <2>2 DEF InviteInv, Alone
<1>. QED
  BY <1>1, <1>2, <1>3, SameRecords DEF InviteInv

----------------------------------------------------------------------------
\* The record and the rewards of a commit.
LEMMA CommitKeeps ==
    ASSUME InviteInv, NEW k \in Calls, UseCommit(k)
    PROVE  InviteInv'
<1>. DEFINE r == RecordOf(k)
<1>1. /\ call' = [call EXCEPT ![k] = NoCall] /\ records' = records \cup {r} /\ UNCHANGED <<codes, apart>>
      /\ rewards' = rewards \cup {RewardOf(k, "invitee")} \cup (IF call[k].grant THEN {RewardOf(k, "inviter")} ELSE {})
      /\ call[k].op = "counted"
  BY DEF UseCommit, Return
<1>2. r \in InviteRecord /\ r.invitee = call[k].invitee /\ r.inviter = call[k].code[2] /\ r.granted = call[k].grant
  BY CallTypes DEF InviteInv, RecordOf
<1>3. call'[k].op = "idle" /\ \A l \in Calls \ {k} : call'[l] = call[l]
  BY <1>1, NoCallType DEF InviteInv, InviteTypeOK
<1>4. InviteTypeOK'
  <2>1. call' \in [Calls -> CallStates]
    BY <1>1, NoCallType DEF InviteInv, InviteTypeOK
  <2>2. RewardOf(k, "invitee") \in Reward /\ RewardOf(k, "inviter") \in Reward
    BY CallTypes DEF InviteInv, RewardOf, Reward
  <2>. QED
    BY <1>1, <1>2, <2>1, <2>2 DEF InviteInv, InviteTypeOK
<1>5. IsFiniteSet(records)'
  BY <1>1, FS_AddElement DEF InviteInv
<1>6. RewardsMatchRecords'
  <2>1. /\ RewardOf(k, "invitee") = [for |-> "invitee", invitee |-> r.invitee, code |-> <<r.project, r.inviter>>]
        /\ RewardOf(k, "inviter") = [for |-> "inviter", invitee |-> r.invitee, code |-> <<r.project, r.inviter>>]
    BY CallTypes DEF InviteInv, RewardOf, RecordOf
  <2>2. rewards' = rewards \cup RewardsOf(r)
    BY <1>1, <1>2, <2>1 DEF RewardsOf
  <2>. HIDE DEF r
  <2>. QED
    BY <1>1, <2>2 DEF InviteInv, RewardsMatchRecords, RewardsOf
<1>7. Alone'
  <2>1. apart' => \A l \in Calls : call'[l].op = "idle"
    BY <1>1, <1>3 DEF InviteInv, Alone
  <2>. QED
    BY <2>1 DEF Alone
<1>8. SerialInvitedOnce'
  <2>1. apart => ~ \E q \in records : q.invitee = r.invitee
    BY <1>1, <1>2 DEF InviteInv, Alone
  <2>. HIDE DEF r
  <2>. QED
    BY <1>1, <2>1 DEF InviteInv, SerialInvitedOnce, InvitedOnce
<1>9. SerialCapKept'
  <2>. SUFFICES ASSUME apart, NEW i \in Inviters, Cap > 0
                PROVE  GrantedTo(i)' < Cap + Amount
    BY <1>1 DEF SerialCapKept, CapKept
  <2>1. /\ GrantedTo(i) \in Nat /\ GrantedTo(i)' \in Nat
        /\ GrantedTo(i)' <= GrantedTo(i) + Amount
        /\ ~(r.inviter = i /\ r.granted) => GrantedTo(i)' = GrantedTo(i)
    BY <1>1, GrantedGrows DEF InviteInv
  <2>2. r.inviter = i /\ r.granted => GrantedTo(i) < Cap
    BY <1>1, <1>2 DEF InviteInv, Alone
  <2>3. GrantedTo(i) < Cap + Amount
    BY DEF InviteInv, SerialCapKept, CapKept
  <2>. QED
    BY <2>1, <2>2, <2>3, InviteRewardsAssumptions
<1>. QED
  BY <1>4, <1>5, <1>6, <1>7, <1>8, <1>9 DEF InviteInv

----------------------------------------------------------------------------
\* One case per action of InviteNext.
THEOREM InviteInvariant == InviteSpec => []InviteInv
<1>1. InviteInit => InviteInv
  <2>. SUFFICES ASSUME InviteInit PROVE InviteInv
    OBVIOUS
  <2>1. InviteTypeOK
    BY NoCallType DEF InviteInit, InviteTypeOK
  <2>2. IsFiniteSet(records) /\ RewardsMatchRecords /\ SerialInvitedOnce
    BY FS_EmptySet DEF InviteInit, RewardsMatchRecords, SerialInvitedOnce, InvitedOnce
  <2>3. Alone
    BY NoCallType DEF InviteInit, Alone
  <2>4. SerialCapKept
    <3>1. \A i : {r \in records : r.inviter = i /\ r.granted} = {}
      BY DEF InviteInit
    <3>2. \A i : GrantedTo(i) = 0
      BY <3>1, FS_EmptySet, InviteRewardsAssumptions DEF GrantedTo
    <3>. QED
      BY <3>2, InviteRewardsAssumptions DEF SerialCapKept, CapKept
  <2>. QED
    BY <2>1, <2>2, <2>3, <2>4 DEF InviteInv
<1>2. InviteInv /\ [InviteNext]_inviteVars => InviteInv'
  <2>1. InviteInv /\ UNCHANGED inviteVars => InviteInv'
    <3>. SUFFICES ASSUME InviteInv, UNCHANGED inviteVars PROVE InviteInv'
      OBVIOUS
    <3>1. UNCHANGED <<codes, records, rewards, call, apart>>
      BY DEF inviteVars
    <3>2. InviteTypeOK'
      BY <3>1 DEF InviteInv, InviteTypeOK
    <3>3. Alone'
      BY <3>1 DEF InviteInv, Alone, GrantedTo
    <3>. QED
      BY <3>1, <3>2, <3>3, SameRecords DEF InviteInv
  <2>. QED
    BY <2>1, CodeKeeps, CheckKeeps, CountKeeps, CommitKeeps, FailsKeeps DEF InviteNext
<1>. QED
  BY <1>1, <1>2, PTL DEF InviteSpec

\* Codes, records, rewards and calls keep their types.
THEOREM InviteTypeCorrect == InviteSpec => []InviteTypeOK
<1>1. InviteInv => InviteTypeOK
  BY DEF InviteInv
<1>. QED
  BY <1>1, InviteInvariant, PTL

\* RewardsMatchRecords: rewards and the records the cap is counted by never part.
THEOREM RewardsMatch == InviteSpec => []RewardsMatchRecords
<1>1. InviteInv => RewardsMatchRecords
  BY DEF InviteInv
<1>. QED
  BY <1>1, InviteInvariant, PTL

\* SerialCapKept: without overlapping calls the cap is passed by less than a reward.
THEOREM CapKeptApart == InviteSpec => []SerialCapKept
<1>1. InviteInv => SerialCapKept
  BY DEF InviteInv
<1>. QED
  BY <1>1, InviteInvariant, PTL

\* SerialInvitedOnce: without overlapping calls nobody is invited twice.
THEOREM InvitedOnceApart == InviteSpec => []SerialInvitedOnce
<1>1. InviteInv => SerialInvitedOnce
  BY DEF InviteInv
<1>. QED
  BY <1>1, InviteInvariant, PTL

(***************************************************************************)
(* The lock.                                                               *)
(***************************************************************************)
\* What a timely round knows of its key: fresh while renewal is not started, as old
\* as the last renewal while it is renewed, and good for the protected time after.
Knows(r) ==
    round[r].op # "idle" /\ round[r].timely =>
        /\ round[r].op = "acquired" =>
             /\ key = [holder |-> r, left |-> Ttl]
             /\ round[r].age = 0 /\ round[r].since = 0 /\ ~round[r].renewed
        /\ round[r].renewing =>
             /\ key = [holder |-> r, left |-> Ttl - round[r].since]
             /\ round[r].renewed
             /\ round[r].since <= round[r].age /\ round[r].age <= Timeout + Period
        /\ ~round[r].renewing /\ round[r].age < Protected(round[r].renewed) =>
             key.holder = r /\ Protected(round[r].renewed) <= round[r].age + key.left

LockInv ==
    /\ LockTypeOK
    /\ key.holder = Nobody <=> key.left = 0
    /\ \A r \in Rounds : Knows(r)

----------------------------------------------------------------------------
\* The two protected times.
LEMMA ProtectedTimes ==
    /\ Protected(TRUE) \in Nat /\ Protected(FALSE) \in Nat /\ Protected(FALSE) = Ttl
    /\ \/ Protected(TRUE) = Timeout + Ttl - Period
       \/ Protected(TRUE) = Ttl /\ Timeout <= Period
    /\ Protected(TRUE) < MaxAge /\ Protected(FALSE) < MaxAge
    /\ Ttl \in Nat \ {0} /\ Period \in Nat \ {0} /\ Period < Ttl /\ Timeout \in Nat /\ MaxAge \in Nat
    /\ Timeout < MaxAge
BY DistributedLockAssumptions DEF Protected, MaxAge

\* A round's record with another operation, other flags or a new count is one.
LEMMA Updates ==
    ASSUME NEW x \in RoundStates, NEW a \in BOOLEAN
    PROVE  /\ [x EXCEPT !.op = "acquired"] \in RoundStates
           /\ [x EXCEPT !.op = "working", !.renewing = a, !.renewed = a] \in RoundStates
           /\ [x EXCEPT !.renewing = a] \in RoundStates
           /\ [x EXCEPT !.timely = a] \in RoundStates
           /\ [x EXCEPT !.since = 0] \in RoundStates
           /\ [x EXCEPT !.since = 0, !.timely = a] \in RoundStates
<1>1. [x EXCEPT !.op = "acquired"] \in RoundStates
  BY DEF RoundStates
<1>2. [x EXCEPT !.op = "working", !.renewing = a, !.renewed = a] \in RoundStates
  BY DEF RoundStates
<1>3. [x EXCEPT !.renewing = a] \in RoundStates /\ [x EXCEPT !.timely = a] \in RoundStates
  BY DEF RoundStates
<1>4. 0 \in 0..Period
  BY ProtectedTimes
<1>5. [x EXCEPT !.since = 0] \in RoundStates
  BY <1>4 DEF RoundStates
<1>6. [x EXCEPT !.since = 0, !.timely = a] \in RoundStates
  BY <1>4 DEF RoundStates
<1>. QED
  BY <1>1, <1>2, <1>3, <1>5, <1>6

LEMMA NoRoundType == NoRound \in RoundStates /\ NoRound.op = "idle" /\ ~NoRound.renewing
<1>1. 0 \in 0..MaxAge /\ 0 \in 0..Period
  BY ProtectedTimes
<1>. QED
  BY <1>1 DEF NoRound, RoundStates

\* One round's step keeps the types if its record stays one.
LEMMA OneRound ==
    ASSUME LockTypeOK, NEW r \in Rounds, NEW x \in RoundStates, round' = [round EXCEPT ![r] = x],
           x.renewing => x.op = "working",
           key' \in [holder : Rounds \cup {Nobody}, left : 0..Ttl]
    PROVE  LockTypeOK' /\ round'[r] = x /\ \A s \in Rounds \ {r} : round'[s] = round[s]
BY DEF LockTypeOK

LEMMA FieldTypes ==
    ASSUME LockTypeOK, NEW r \in Rounds
    PROVE  /\ round[r] \in RoundStates
           /\ round[r].op \in {"idle", "acquired", "working"}
           /\ round[r].renewing \in BOOLEAN /\ round[r].renewed \in BOOLEAN /\ round[r].timely \in BOOLEAN
           /\ round[r].age \in Nat /\ round[r].age <= MaxAge
           /\ round[r].since \in Nat /\ round[r].since <= Period
           /\ key.left \in Nat /\ key.left <= Ttl /\ key.holder \in Rounds \cup {Nobody}
           /\ key = [holder |-> key.holder, left |-> key.left]
BY ProtectedTimes DEF LockTypeOK, RoundStates

\* A round that is as it was knows what it knew, if its key is as it was or it held none.
LEMMA OthersKnow ==
    ASSUME LockInv, NEW s \in Rounds, round'[s] = round[s],
           \/ key' = key
           \/ key.holder # s /\ (key'.holder = s => FALSE)
    PROVE  Knows(s)'
<1>1. CASE key' = key
  BY <1>1 DEF LockInv, Knows, Protected
<1>2. CASE key.holder # s /\ (key'.holder = s => FALSE)
  <2>. SUFFICES ASSUME round[s].op # "idle", round[s].timely PROVE Knows(s)'
    BY DEF Knows
  <2>1. round[s].op # "acquired" /\ ~round[s].renewing
    BY <1>2 DEF LockInv, Knows
  <2>2. ~(round[s].age < Protected(round[s].renewed))
    BY <1>2, <2>1 DEF LockInv, Knows
  <2>. QED
    BY <2>1, <2>2 DEF Knows, Protected
<1>. QED
  BY <1>1, <1>2

\* A round that has ended or is late claims nothing.
LEMMA NothingToKnow ==
    ASSUME NEW r \in Rounds, round'[r].op = "idle" \/ ~round'[r].timely
    PROVE  Knows(r)'
BY DEF Knows

----------------------------------------------------------------------------
LEMMA AcquireKeeps ==
    ASSUME LockInv, NEW r \in Rounds, AcquireLock(r)
    PROVE  LockInv'
<1>1. /\ round' = [round EXCEPT ![r] = [NoRound EXCEPT !.op = "acquired"]]
      /\ key' = [holder |-> r, left |-> Ttl] /\ key.holder = Nobody
  BY DEF AcquireLock
<1>. DEFINE x == [NoRound EXCEPT !.op = "acquired"]
<1>2. x \in RoundStates
  BY NoRoundType, Updates
<1>3. /\ x.op = "acquired" /\ ~x.renewing /\ x.renewed = FALSE /\ x.age = 0 /\ x.since = 0
  BY DEF NoRound
<1>. HIDE DEF x
<1>4. LockTypeOK' /\ round'[r] = x /\ \A s \in Rounds \ {r} : round'[s] = round[s]
  <2>1. key' \in [holder : Rounds \cup {Nobody}, left : 0..Ttl]
    BY <1>1, ProtectedTimes
  <2>2. round' = [round EXCEPT ![r] = x]
    BY <1>1 DEF x
  <2>. QED
    BY <1>2, <1>3, <2>1, <2>2, OneRound DEF LockInv
<1>5. (key.holder = Nobody <=> key.left = 0)'
  BY <1>1, ProtectedTimes, DistributedLockAssumptions
<1>6. Knows(r)'
  <2>1. key'.holder = r /\ key'.left = Ttl
    BY <1>1
  <2>2. Protected(FALSE)' <= 0 + Ttl
    BY ProtectedTimes DEF Protected
  <2>. QED
    BY <1>1, <1>3, <1>4, <2>1, <2>2 DEF Knows, Protected
<1>7. \A s \in Rounds \ {r} : Knows(s)'
  BY <1>1, <1>4, OthersKnow, DistributedLockAssumptions
<1>. QED
  BY <1>4, <1>5, <1>6, <1>7 DEF LockInv

LEMMA StartKeeps ==
    ASSUME LockInv, NEW r \in Rounds, StartRenewal(r)
    PROVE  LockInv'
<1>1. PICK renews \in BOOLEAN :
        /\ renews => key.holder = r
        /\ round' = [round EXCEPT ![r].op = "working", ![r].renewing = renews, ![r].renewed = renews]
  BY DEF StartRenewal
<1>2. key' = key /\ round[r].op = "acquired"
  BY DEF StartRenewal
<1>. DEFINE x == [round[r] EXCEPT !.op = "working", !.renewing = renews, !.renewed = renews]
<1>3. round' = [round EXCEPT ![r] = x] /\ x \in RoundStates /\ x.op = "working"
  <2>1. round' = [round EXCEPT ![r] = x]
    BY <1>1 DEF LockInv, LockTypeOK
  <2>2. round[r] \in RoundStates
    BY FieldTypes DEF LockInv
  <2>3. x.op = "working"
    BY <2>2 DEF RoundStates
  <2>. QED
    BY <2>1, <2>2, <2>3, Updates
<1>4. LockTypeOK' /\ round'[r] = x /\ \A s \in Rounds \ {r} : round'[s] = round[s]
  <2>. HIDE DEF x
  <2>. QED
    BY <1>2, <1>3, OneRound DEF LockInv, LockTypeOK
<1>5. Knows(r)'
  <2>. SUFFICES ASSUME round[r].timely PROVE Knows(r)'
    BY <1>4, FieldTypes DEF Knows, LockInv, RoundStates
  <2>1. key = [holder |-> r, left |-> Ttl] /\ round[r].age = 0 /\ round[r].since = 0
    BY <1>2 DEF LockInv, Knows
  <2>2. /\ round'[r].op = "working" /\ round'[r].renewing = renews /\ round'[r].renewed = renews
        /\ round'[r].age = 0 /\ round'[r].since = 0
    BY <1>4, <2>1, FieldTypes DEF LockInv, RoundStates
  <2>3. CASE renews = TRUE
    BY <1>2, <2>1, <2>2, <2>3, ProtectedTimes DEF Knows
  <2>4. CASE renews = FALSE
    BY <1>2, <2>1, <2>2, <2>4, ProtectedTimes DEF Knows, Protected
  <2>. QED
    BY <2>3, <2>4
<1>6. \A s \in Rounds \ {r} : Knows(s)'
  BY <1>2, <1>4, OthersKnow
<1>. QED
  BY <1>2, <1>4, <1>5, <1>6 DEF LockInv

LEMMA RenewKeeps ==
    ASSUME LockInv, NEW r \in Rounds, Renew(r)
    PROVE  LockInv'
<1>1. round[r].renewing /\ round[r].op = "working" /\ round[r].since = Period
      /\ (round[r].timely => round[r].age <= Timeout)
  BY DEF Renew, Due, LockInv, LockTypeOK
<1>2. CASE key.holder = r /\ key' = [key EXCEPT !.left = Ttl] /\ round' = [round EXCEPT ![r].since = 0]
  <2>. DEFINE x == [round[r] EXCEPT !.since = 0]
  <2>1. round' = [round EXCEPT ![r] = x] /\ x \in RoundStates /\ x.op = "working"
    <3>1. round' = [round EXCEPT ![r] = x]
      BY <1>1, <1>2 DEF LockInv, LockTypeOK
    <3>2. round[r] \in RoundStates
      BY FieldTypes DEF LockInv
    <3>3. x.op = "working"
      BY <1>1, <1>2, <3>2 DEF LockInv, LockTypeOK, RoundStates
    <3>. QED
      BY <3>1, <3>2, <3>3, Updates
  <2>2. key' = [holder |-> r, left |-> Ttl] /\ key' \in [holder : Rounds \cup {Nobody}, left : 0..Ttl]
    BY <1>2, FieldTypes, ProtectedTimes DEF LockInv
  <2>3. LockTypeOK' /\ round'[r] = x /\ \A s \in Rounds \ {r} : round'[s] = round[s]
    <3>. HIDE DEF x
    <3>. QED
      BY <2>1, <2>2, OneRound DEF LockInv
  <2>4. Knows(r)'
    <3>1. round'[r].op = "working" /\ round'[r].renewing /\ round'[r].since = 0
          /\ round'[r].renewed = round[r].renewed /\ round'[r].age = round[r].age
          /\ round'[r].timely = round[r].timely
      BY <1>1, <2>3, FieldTypes DEF LockInv, RoundStates
    <3>2. round[r].timely => round[r].renewed /\ round[r].age <= Timeout + Period /\ round[r].age \in Nat
      BY <1>1, FieldTypes DEF LockInv, Knows
    <3>. QED
      BY <2>2, <3>1, <3>2, ProtectedTimes DEF Knows
  <2>5. \A s \in Rounds \ {r} : Knows(s)'
    BY <1>2, <2>2, <2>3, OthersKnow
  <2>6. (key.holder = Nobody <=> key.left = 0)'
    BY <2>2, ProtectedTimes, DistributedLockAssumptions
  <2>. QED
    BY <2>3, <2>4, <2>5, <2>6 DEF LockInv
<1>3. CASE key.holder # r /\ round' = [round EXCEPT ![r].renewing = FALSE] /\ UNCHANGED key
  <2>. DEFINE x == [round[r] EXCEPT !.renewing = FALSE]
  <2>1. round' = [round EXCEPT ![r] = x] /\ x \in RoundStates /\ ~x.renewing
    <3>1. round' = [round EXCEPT ![r] = x]
      BY <1>3 DEF LockInv, LockTypeOK
    <3>2. round[r] \in RoundStates
      BY FieldTypes DEF LockInv
    <3>3. ~x.renewing
      BY <1>3, <3>2 DEF LockInv, LockTypeOK, RoundStates
    <3>. QED
      BY <3>1, <3>2, <3>3, Updates
  <2>2. LockTypeOK' /\ round'[r] = x /\ \A s \in Rounds \ {r} : round'[s] = round[s]
    <3>. HIDE DEF x
    <3>. QED
      BY <1>3, <2>1, OneRound DEF LockInv, LockTypeOK
  <2>3. ~round[r].timely /\ round'[r].timely = round[r].timely
    BY <1>1, <1>3, <2>2, FieldTypes DEF LockInv, Knows, RoundStates
  <2>4. Knows(r)'
    BY <2>3, NothingToKnow
  <2>5. \A s \in Rounds \ {r} : Knows(s)'
    BY <1>3, <2>2, OthersKnow
  <2>. QED
    BY <1>3, <2>2, <2>4, <2>5 DEF LockInv
<1>4. CASE round' = [round EXCEPT ![r].since = 0, ![r].timely = FALSE] /\ UNCHANGED key
  <2>. DEFINE x == [round[r] EXCEPT !.since = 0, !.timely = FALSE]
  <2>1. round' = [round EXCEPT ![r] = x] /\ x \in RoundStates /\ x.op = "working" /\ ~x.timely
    <3>1. round' = [round EXCEPT ![r] = x]
      BY <1>1, <1>4 DEF LockInv, LockTypeOK
    <3>2. round[r] \in RoundStates
      BY FieldTypes DEF LockInv
    <3>3. x.op = "working" /\ ~x.timely
      BY <1>1, <1>4, <3>2 DEF LockInv, LockTypeOK, RoundStates
    <3>. QED
      BY <3>1, <3>2, <3>3, Updates
  <2>2. LockTypeOK' /\ round'[r] = x /\ \A s \in Rounds \ {r} : round'[s] = round[s]
    <3>. HIDE DEF x
    <3>. QED
      BY <1>4, <2>1, OneRound DEF LockInv, LockTypeOK
  <2>3. ~round'[r].timely
    BY <2>1, <2>2
  <2>4. Knows(r)'
    BY <2>3, NothingToKnow
  <2>5. \A s \in Rounds \ {r} : Knows(s)'
    BY <1>4, <2>2, OthersKnow
  <2>. QED
    BY <1>4, <2>2, <2>4, <2>5 DEF LockInv
<1>. QED
  BY <1>2, <1>3, <1>4 DEF Renew

LEMMA StopKeeps ==
    ASSUME LockInv, NEW r \in Rounds, StopRenewal(r)
    PROVE  LockInv'
<1>1. /\ round[r].renewing /\ round[r].age >= Timeout
      /\ round' = [round EXCEPT ![r].renewing = FALSE] /\ key' = key
  BY DEF StopRenewal
<1>. DEFINE x == [round[r] EXCEPT !.renewing = FALSE]
<1>2. round' = [round EXCEPT ![r] = x] /\ x \in RoundStates /\ ~x.renewing
  <2>1. round' = [round EXCEPT ![r] = x]
    BY <1>1 DEF LockInv, LockTypeOK
  <2>2. round[r] \in RoundStates
    BY FieldTypes DEF LockInv
  <2>3. ~x.renewing
    BY <1>1, <2>2 DEF LockInv, LockTypeOK, RoundStates
  <2>. QED
    BY <2>1, <2>2, <2>3, Updates
<1>3. LockTypeOK' /\ round'[r] = x /\ \A s \in Rounds \ {r} : round'[s] = round[s]
  <2>. HIDE DEF x
  <2>. QED
    BY <1>1, <1>2, OneRound DEF LockInv, LockTypeOK
<1>4. Knows(r)'
  <2>. SUFFICES ASSUME round[r].timely PROVE Knows(r)'
    BY <1>3, FieldTypes DEF Knows, LockInv, RoundStates
  <2>1. /\ key = [holder |-> r, left |-> Ttl - round[r].since] /\ round[r].renewed
        /\ round[r].since <= round[r].age /\ round[r].op = "working"
    BY <1>1 DEF LockInv, Knows, LockTypeOK
  <2>2. /\ round'[r].op = "working" /\ ~round'[r].renewing /\ round'[r].renewed = round[r].renewed
        /\ round'[r].age = round[r].age
    BY <1>3, <2>1, FieldTypes DEF LockInv, RoundStates
  <2>3. round[r].renewed = TRUE /\ round[r].since \in Nat /\ round[r].since <= Period /\ round[r].age \in Nat
    BY <2>1, FieldTypes DEF LockInv
  <2>4. Protected(TRUE) <= round[r].age + (Ttl - round[r].since)
    <3>1. ASSUME NEW n \in Nat, NEW k \in Nat, n >= Timeout, k <= n, k <= Period
          PROVE  Protected(TRUE) <= n + (Ttl - k)
      <4>1. CASE Timeout > Period
        BY <3>1, <4>1, DistributedLockAssumptions DEF Protected
      <4>2. CASE ~(Timeout > Period)
        BY <3>1, <4>2, DistributedLockAssumptions DEF Protected
      <4>. QED
        BY <4>1, <4>2
    <3>. QED
      BY <1>1, <2>1, <2>3, <3>1
  <2>. QED
    BY <1>1, <2>1, <2>2, <2>3, <2>4 DEF Knows, Protected
<1>5. \A s \in Rounds \ {r} : Knows(s)'
  BY <1>1, <1>3, OthersKnow
<1>. QED
  BY <1>1, <1>3, <1>4, <1>5 DEF LockInv

LEMMA EndKeeps ==
    ASSUME LockInv, NEW r \in Rounds, ReleaseLock(r) \/ Delay(r) \/ LockCrash(r)
    PROVE  LockInv'
<1>1. CASE Delay(r)
  <2>1. round' = [round EXCEPT ![r].timely = FALSE] /\ key' = key
    BY <1>1 DEF Delay
  <2>. DEFINE x == [round[r] EXCEPT !.timely = FALSE]
  <2>2. round' = [round EXCEPT ![r] = x] /\ x \in RoundStates /\ (x.renewing => x.op = "working") /\ ~x.timely
    <3>1. round' = [round EXCEPT ![r] = x]
      BY <2>1 DEF LockInv, LockTypeOK
    <3>2. round[r] \in RoundStates
      BY FieldTypes DEF LockInv
    <3>3. (x.renewing => x.op = "working") /\ ~x.timely
      BY <2>1, <3>2 DEF LockInv, LockTypeOK, RoundStates
    <3>. QED
      BY <3>1, <3>2, <3>3, Updates
  <2>3. LockTypeOK' /\ round'[r] = x /\ \A s \in Rounds \ {r} : round'[s] = round[s]
    <3>. HIDE DEF x
    <3>. QED
      BY <2>1, <2>2, OneRound DEF LockInv, LockTypeOK
  <2>4. ~round'[r].timely
    BY <2>2, <2>3
  <2>5. Knows(r)' /\ \A s \in Rounds \ {r} : Knows(s)'
    BY <2>1, <2>3, <2>4, NothingToKnow, OthersKnow
  <2>. QED
    BY <2>1, <2>3, <2>5 DEF LockInv
<1>2. CASE ReleaseLock(r) \/ LockCrash(r)
  <2>1. round' = [round EXCEPT ![r] = NoRound] /\ (key' = key \/ (key.holder = r /\ key' = NoKey))
    <3>1. CASE ReleaseLock(r)
      BY <3>1 DEF ReleaseLock
    <3>2. CASE LockCrash(r)
      BY <3>2 DEF LockCrash
    <3>. QED
      BY <1>2, <3>1, <3>2
  <2>2. round'[r] = NoRound /\ \A s \in Rounds \ {r} : round'[s] = round[s]
    BY <2>1, NoRoundType DEF LockInv, LockTypeOK
  <2>3. LockTypeOK'
    BY <2>1, <2>2, NoRoundType, ProtectedTimes DEF LockInv, LockTypeOK, NoRound, NoKey
  <2>4. Knows(r)'
    BY <2>2, NoRoundType, NothingToKnow
  <2>5. \A s \in Rounds \ {r} : Knows(s)'
    BY <2>1, <2>2, OthersKnow, DistributedLockAssumptions DEF NoKey
  <2>6. (key.holder = Nobody <=> key.left = 0)'
    BY <2>1 DEF LockInv, NoKey
  <2>. QED
    BY <2>3, <2>4, <2>5, <2>6 DEF LockInv
<1>. QED
  BY <1>1, <1>2

LEMMA TickKeeps ==
    ASSUME LockInv, Tick
    PROVE  LockInv'
<1>. DEFINE older(s) == [round[s] EXCEPT !.age = AtMost(@ + 1, MaxAge),
                            !.since = IF round[s].renewing THEN AtMost(@ + 1, Period) ELSE @]
<1>1. key' = IF key.left = 1 THEN NoKey ELSE [key EXCEPT !.left = IF @ = 0 THEN 0 ELSE @ - 1]
  BY DEF Tick
<1>2. \A s \in Rounds : round'[s] = IF round[s].op = "idle" THEN round[s] ELSE older(s)
  BY DEF Tick
<1>3. /\ key.left \in Nat /\ key.left <= Ttl /\ key.holder \in Rounds \cup {Nobody}
      /\ key = [holder |-> key.holder, left |-> key.left] /\ (key.holder = Nobody <=> key.left = 0)
  BY ProtectedTimes DEF LockInv, LockTypeOK
<1>4. /\ key' \in [holder : Rounds \cup {Nobody}, left : 0..Ttl]
      /\ (key.holder = Nobody <=> key.left = 0)'
      /\ key.left > 1 => key' = [holder |-> key.holder, left |-> key.left - 1]
  BY <1>1, <1>3, ProtectedTimes DEF NoKey
<1>5. ASSUME NEW s \in Rounds
      PROVE  older(s) \in RoundStates /\ older(s).renewing = round[s].renewing /\ older(s).op = round[s].op
  <2>. DEFINE a == AtMost(round[s].age + 1, MaxAge)
              b == IF round[s].renewing THEN AtMost(round[s].since + 1, Period) ELSE round[s].since
  <2>1. a \in 0..MaxAge
    BY FieldTypes, ProtectedTimes DEF LockInv, AtMost
  <2>2. b \in 0..Period
    BY FieldTypes, ProtectedTimes DEF LockInv, AtMost
  <2>3. older(s) = [round[s] EXCEPT !.age = a, !.since = b]
    OBVIOUS
  <2>. HIDE DEF a, b, older
  <2>4. round[s] \in RoundStates
    BY FieldTypes DEF LockInv
  <2>. QED
    BY <2>1, <2>2, <2>3, <2>4 DEF RoundStates
<1>6. LockTypeOK'
  <2>1. \A s \in Rounds : round'[s] \in RoundStates
    BY <1>2, <1>5 DEF LockInv, LockTypeOK
  <2>2. round' \in [Rounds -> RoundStates]
    BY <2>1 DEF Tick
  <2>3. \A s \in Rounds : round'[s].renewing => round'[s].op = "working"
    BY <1>2, <1>5 DEF LockInv, LockTypeOK
  <2>. QED
    BY <1>4, <2>2, <2>3 DEF LockTypeOK
<1>7. ASSUME NEW s \in Rounds PROVE Knows(s)'
  <2>. SUFFICES ASSUME round[s].op # "idle", round[s].timely PROVE Knows(s)'
    BY <1>2, FieldTypes DEF LockInv, Knows, RoundStates
  <2>1. /\ round'[s].op = round[s].op /\ round'[s].timely = round[s].timely
        /\ round'[s].renewing = round[s].renewing /\ round'[s].renewed = round[s].renewed
        /\ round'[s].age = AtMost(round[s].age + 1, MaxAge)
        /\ round'[s].since = IF round[s].renewing THEN AtMost(round[s].since + 1, Period) ELSE round[s].since
    BY <1>2, FieldTypes DEF LockInv, RoundStates
  <2>2. round[s].op # "acquired" /\ (round[s].renewing => round[s].since # Period /\ round[s].age < Timeout)
    <3>1. NothingDue(s) /\ round[s].age \in Nat
      BY FieldTypes DEF Tick, LockInv
    <3>. QED
      BY <3>1, ProtectedTimes DEF NothingDue, Due
  <2>3. /\ round[s].since \in Nat /\ round[s].since <= Period /\ round[s].age \in Nat /\ round[s].age <= MaxAge
        /\ round[s].renewed \in BOOLEAN
    BY FieldTypes DEF LockInv
  <2>4. CASE round[s].renewing
    <3>1. /\ key = [holder |-> s, left |-> Ttl - round[s].since] /\ round[s].renewed
          /\ round[s].since <= round[s].age
      BY <2>4 DEF LockInv, Knows
    <3>2. key'.holder = s /\ key' = [holder |-> s, left |-> Ttl - (round[s].since + 1)]
      BY <1>4, <2>2, <2>3, <2>4, <3>1, ProtectedTimes
    <3>3. round'[s].since = round[s].since + 1 /\ round'[s].age = round[s].age + 1
          /\ round[s].age + 1 <= Timeout + Period
      BY <2>1, <2>2, <2>3, <2>4, ProtectedTimes DEF AtMost
    <3>4. round'[s].since <= round'[s].age
      BY <2>3, <3>1, <3>3
    <3>. QED
      BY <2>1, <2>2, <2>4, <3>1, <3>2, <3>3, <3>4 DEF Knows
  <2>5. CASE ~round[s].renewing
    <3>. SUFFICES ASSUME round'[s].age < Protected(round[s].renewed)
                  PROVE  key'.holder = s /\ Protected(round[s].renewed) <= round'[s].age + key'.left
      BY <2>1, <2>2, <2>5 DEF Knows, Protected
    <3>1. Protected(round[s].renewed) \in Nat /\ Protected(round[s].renewed) < MaxAge
      BY <2>3, ProtectedTimes
    <3>2. round'[s].age = round[s].age + 1 /\ round[s].age + 1 < Protected(round[s].renewed)
      BY <2>1, <2>3, <3>1, ProtectedTimes DEF AtMost
    <3>3. key.holder = s /\ Protected(round[s].renewed) <= round[s].age + key.left
      BY <2>3, <2>5, <3>1, <3>2 DEF LockInv, Knows
    <3>4. key.left > 1
      BY <1>3, <2>3, <3>1, <3>2, <3>3
    <3>. QED
      BY <1>3, <1>4, <2>3, <3>1, <3>2, <3>3, <3>4
  <2>. QED
    BY <2>4, <2>5
<1>. QED
  BY <1>4, <1>6, <1>7 DEF LockInv

\* KeepsLock with what it needs: what a timely round knows of its key, for any rounds.
THEOREM LockInvariant == LockSpec => []LockInv
<1>1. LockInit => LockInv
  <2>. SUFFICES ASSUME LockInit PROVE LockInv
    OBVIOUS
  <2>1. key = [holder |-> Nobody, left |-> 0] /\ \A r \in Rounds : round[r] = NoRound
    BY DEF LockInit, NoKey
  <2>2. LockTypeOK
    BY <2>1, NoRoundType, ProtectedTimes DEF LockInit, LockTypeOK, NoRound
  <2>. QED
    BY <2>1, <2>2, NoRoundType DEF LockInv, Knows
<1>2. LockInv /\ [LockNext]_lockVars => LockInv'
  <2>. SUFFICES ASSUME LockInv, [LockNext]_lockVars PROVE LockInv'
    OBVIOUS
  <2>1. CASE UNCHANGED lockVars
    BY <2>1 DEF lockVars, LockInv, LockTypeOK, Knows, Protected
  <2>2. ASSUME NEW r \in Rounds,
               \/ AcquireLock(r) \/ StartRenewal(r) \/ Renew(r) \/ StopRenewal(r)
               \/ ReleaseLock(r) \/ Delay(r) \/ LockCrash(r)
        PROVE  LockInv'
    BY <2>2, AcquireKeeps, StartKeeps, RenewKeeps, StopKeeps, EndKeeps
  <2>3. CASE Tick
    BY <2>3, TickKeeps
  <2>. QED
    BY <2>1, <2>2, <2>3 DEF LockNext
<1>. QED
  BY <1>1, <1>2, PTL DEF LockSpec

\* LockTypeOK: the time the key has left never passes the TTL, and only a working
\* round renews.
THEOREM LockTypeCorrect == LockSpec => []LockTypeOK
<1>1. LockInv => LockTypeOK
  BY DEF LockInv
<1>. QED
  BY <1>1, LockInvariant, PTL

\* KeepsLock: a timely round has the key to itself for the protected time.
THEOREM KeepsLockHolds == LockSpec => []KeepsLock
<1>1. LockInv => KeepsLock
  <2>. SUFFICES ASSUME LockInv, NEW r \in Rounds, round[r].op # "idle", round[r].timely,
                       round[r].age < Protected(round[r].renewed)
                PROVE  key.holder = r
    BY DEF KeepsLock
  <2>. QED
    BY FieldTypes DEF LockInv, Knows
<1>. QED
  BY <1>1, LockInvariant, PTL

(***************************************************************************)
(* The watch streams.                                                      *)
(***************************************************************************)
\* What a stream has shown, will show, and has not looked at yet.
Line(w) == received[w] \o messages[w] \o pending[w]

\* Numbers that grow along the sequence and do not pass a limit.
RisesTo(s, n) ==
    /\ \A i, j \in DOMAIN s : i < j => s[i] < s[j]
    /\ \A i \in DOMAIN s : s[i] <= n

LinesRise == \A w \in Watches : RisesTo(Line(w), published)

WatcherInv == WatcherTypeOK /\ LinesRise

----------------------------------------------------------------------------
\* One sequence after the other rises if each does and the second starts above.
LEMMA JoinRises ==
    ASSUME NEW x \in Seq(Nat), NEW y \in Seq(Nat), NEW n
    PROVE  RisesTo(x \o y, n) <=> /\ RisesTo(x, n) /\ RisesTo(y, n)
                                  /\ \A i \in DOMAIN x, j \in DOMAIN y : x[i] < y[j]
<1>. DEFINE z == x \o y
<1>1. PICK k \in Nat, m \in Nat : k = Len(x) /\ m = Len(y)
  BY LenProperties
<1>2. /\ DOMAIN x = 1..k /\ DOMAIN y = 1..m /\ DOMAIN z = 1..(k + m)
      /\ \A i \in 1..(k + m) : z[i] = IF i <= k THEN x[i] ELSE y[i - k]
  BY <1>1, ConcatProperties, LenProperties
<1>. HIDE DEF z
<1>3. /\ \A i \in 1..k : i \in 1..(k + m) /\ z[i] = x[i]
      /\ \A j \in 1..m : k + j \in 1..(k + m) /\ z[k + j] = y[j]
  <2>1. ASSUME NEW j \in 1..m PROVE k + j \in 1..(k + m) /\ z[k + j] = y[j]
    <3>1. k + j \in 1..(k + m) /\ ~(k + j <= k) /\ (k + j) - k = j
      OBVIOUS
    <3>. QED
      BY <1>2, <3>1
  <2>. QED
    BY <1>2, <2>1
<1>4. ASSUME RisesTo(z, n)
      PROVE  RisesTo(x, n) /\ RisesTo(y, n) /\ \A i \in 1..k, j \in 1..m : x[i] < y[j]
  <2>1. /\ \A i, j \in 1..(k + m) : i < j => z[i] < z[j]
        /\ \A i \in 1..(k + m) : z[i] <= n
    BY <1>2, <1>4 DEF RisesTo
  <2>2. RisesTo(x, n)
    BY <1>2, <1>3, <2>1 DEF RisesTo
  <2>3. RisesTo(y, n)
    <3>1. \A i, j \in 1..m : i < j => k + i < k + j
      OBVIOUS
    <3>. QED
      BY <1>2, <1>3, <2>1, <3>1 DEF RisesTo
  <2>4. \A i \in 1..k, j \in 1..m : i < k + j
    OBVIOUS
  <2>. QED
    BY <1>3, <2>1, <2>2, <2>3, <2>4
<1>5. ASSUME RisesTo(x, n), RisesTo(y, n), \A i \in 1..k, j \in 1..m : x[i] < y[j]
      PROVE  RisesTo(z, n)
  <2>1. \A i \in 1..(k + m) : \/ i \in 1..k /\ z[i] = x[i]
                              \/ i > k /\ i - k \in 1..m /\ z[i] = y[i - k]
    <3>. SUFFICES ASSUME NEW i \in 1..(k + m)
                  PROVE  \/ i \in 1..k /\ z[i] = x[i]
                         \/ i > k /\ i - k \in 1..m /\ z[i] = y[i - k]
      OBVIOUS
    <3>1. CASE i <= k
      BY <1>2, <3>1
    <3>2. CASE ~(i <= k)
      <4>1. i > k /\ i - k \in 1..m
        BY <3>2
      <4>. QED
        BY <1>2, <3>2, <4>1
    <3>. QED
      BY <3>1, <3>2
  <2>2. /\ \A i, j \in 1..k : i < j => x[i] < x[j]
        /\ \A i, j \in 1..m : i < j => y[i] < y[j]
        /\ \A i \in 1..k : x[i] <= n
        /\ \A i \in 1..m : y[i] <= n
    BY <1>2, <1>5 DEF RisesTo
  <2>3. ASSUME NEW i \in 1..(k + m), NEW j \in 1..(k + m), i < j
        PROVE  z[i] < z[j]
    <3>1. CASE i > k
      <4>1. j > k /\ i - k < j - k
        BY <2>3, <3>1
      <4>. QED
        BY <2>1, <2>2, <3>1, <4>1
    <3>2. CASE ~(i > k)
      BY <1>5, <2>1, <2>2, <2>3, <3>2
    <3>. QED
      BY <3>1, <3>2
  <2>. QED
    BY <1>2, <2>1, <2>2, <2>3 DEF RisesTo
<1>. QED
  BY <1>2, <1>4, <1>5 DEF z

\* The head of the last sequence is dropped: what is left still rises.
LEMMA DropsOut ==
    ASSUME NEW x \in Seq(Nat), NEW c \in Seq(Nat), c # <<>>, NEW n, RisesTo(x \o c, n)
    PROVE  RisesTo(x \o Tail(c), n)
<1>1. PICK m \in Nat : m = Len(c)
  BY LenProperties
<1>2. /\ Tail(c) \in Seq(Nat) /\ DOMAIN c = 1..m /\ DOMAIN Tail(c) = 1..(m - 1)
      /\ \A i \in 1..(m - 1) : i + 1 \in 1..m /\ Tail(c)[i] = c[i + 1]
  BY <1>1, HeadTailProperties, LenProperties
<1>3. RisesTo(x, n) /\ RisesTo(c, n) /\ \A i \in DOMAIN x, j \in DOMAIN c : x[i] < c[j]
  BY JoinRises
<1>4. \A i \in DOMAIN x, j \in DOMAIN Tail(c) : x[i] < Tail(c)[j]
  BY <1>2, <1>3
<1>5. RisesTo(Tail(c), n)
  <2>1. \A i, j \in 1..(m - 1) : i < j => i + 1 < j + 1
    OBVIOUS
  <2>. QED
    BY <1>2, <1>3, <2>1 DEF RisesTo
<1>. QED
  BY <1>2, <1>3, <1>4, <1>5, JoinRises

\* A larger number comes to the end of the last sequence.
LEMMA Arrives ==
    ASSUME NEW x \in Seq(Nat), NEW c \in Seq(Nat), NEW n \in Nat, RisesTo(x \o c, n)
    PROVE  RisesTo(x \o Append(c, n + 1), n + 1) /\ RisesTo(x \o c, n + 1)
<1>. DEFINE z == x \o c
            e == <<n + 1>>
<1>1. e \in Seq(Nat) /\ DOMAIN e = {1} /\ e[1] = n + 1
  OBVIOUS
<1>2. z \in Seq(Nat) /\ x \o Append(c, n + 1) = z \o e
  <2>1. z \in Seq(Nat) /\ n + 1 \in Nat
    BY ConcatProperties
  <2>2. x \o Append(c, n + 1) = Append(z, n + 1)
    BY <2>1, AppendsBehind
  <2>. HIDE DEF z
  <2>3. Append(z, n + 1) = z \o e
    BY <2>1, AppendIsConcat
  <2>. QED
    BY <2>1, <2>2, <2>3
<1>. HIDE DEF z, e
<1>0. RisesTo(z, n)
  BY DEF z
<1>3. \A i \in DOMAIN z : z[i] \in Nat /\ z[i] <= n /\ z[i] <= n + 1
  <2>1. \A i \in DOMAIN z : z[i] \in Nat
    BY <1>2, ElementOfSeq, LenProperties
  <2>2. \A k \in Nat : k <= n => k <= n + 1
    OBVIOUS
  <2>. QED
    BY <1>0, <2>1, <2>2 DEF RisesTo
<1>4. RisesTo(z, n + 1)
  BY <1>0, <1>3 DEF RisesTo
<1>5. RisesTo(e, n + 1) /\ \A i \in DOMAIN z, j \in DOMAIN e : z[i] < e[j]
  BY <1>1, <1>3 DEF RisesTo
<1>. QED
  BY <1>1, <1>2, <1>4, <1>5, JoinRises DEF z

----------------------------------------------------------------------------
LEMMA WatcherTypes ==
    ASSUME WatcherTypeOK, NEW w \in Watches
    PROVE  /\ pending[w] \in Seq(Event) /\ pending[w] \in Seq(Nat)
           /\ messages[w] \in Seq(Event) /\ messages[w] \in Seq(Nat)
           /\ received[w] \in Seq(Event) /\ received[w] \in Seq(Nat)
           /\ received[w] \o messages[w] \in Seq(Nat)
<1>1. Event \subseteq Nat /\ \A s : s \in Seq(Event) => s \in Seq(Nat)
  <2>1. Event \subseteq Nat
    BY DEF Event
  <2>2. \A s : s \in Seq(Event) => s \in Seq(Nat)
    BY <2>1, SeqMonotonic
  <2>. QED
    BY <2>1, <2>2
<1>2. pending[w] \in Seq(Event) /\ messages[w] \in Seq(Event) /\ received[w] \in Seq(Event)
  BY DEF WatcherTypeOK
<1>. QED
  BY <1>1, <1>2, ConcatProperties

\* The streams and the registry change; what is on its way does not.
LEMMA RegistryKeeps ==
    ASSUME WatcherInv, NEW w \in Watches, Register(w) \/ Unregister(w)
    PROVE  WatcherInv'
<1>1. UNCHANGED <<published, pending, messages, received>>
  BY DEF Register, Unregister
<1>2. WatcherTypeOK'
  BY DEF Register, Unregister, WatcherInv, WatcherTypeOK
<1>. QED
  BY <1>1, <1>2 DEF WatcherInv, LinesRise, Line, RisesTo

\* An event is published: it has the largest number so far.
LEMMA PublishKeeps ==
    ASSUME WatcherInv, DispatchToUser \/ Dispatch
    PROVE  WatcherInv'
<1>. DEFINE n == published
<1>1. /\ n \in Nat /\ n' = n + 1 /\ n + 1 \in Event /\ n + 1 \in 0..MaxPublished
      /\ UNCHANGED <<watch, registered, subscribed, messages, received, single>>
      /\ WatcherTypeOK
  BY EventWatcherAssumptions DEF DispatchToUser, Dispatch, WatcherInv, WatcherTypeOK, Event
<1>2. /\ DOMAIN pending' = Watches
      /\ \A w \in Watches : pending'[w] = pending[w] \/ pending'[w] = Append(pending[w], n + 1)
      /\ pending' = [w \in Watches |-> pending'[w]]
  BY <1>1 DEF DispatchToUser, Dispatch, WatcherTypeOK
<1>3. \A w \in Watches : pending'[w] \in Seq(Event)
  <2>1. \A w \in Watches : pending[w] \in Seq(Event) /\ Append(pending[w], n + 1) \in Seq(Event)
    BY <1>1, WatcherTypes, AppendProperties
  <2>. QED
    BY <1>2, <2>1
<1>4. WatcherTypeOK'
  BY <1>1, <1>2, <1>3 DEF WatcherTypeOK
<1>5. ASSUME NEW w \in Watches PROVE RisesTo(Line(w)', n + 1)
  <2>1. RisesTo((received[w] \o messages[w]) \o pending[w], n)
    BY DEF WatcherInv, LinesRise, Line
  <2>. QED
    BY <1>1, <1>2, <2>1, WatcherTypes, Arrives DEF Line
<1>. QED
  BY <1>1, <1>4, <1>5 DEF WatcherInv, LinesRise

\* An event moves to the stream, or is dropped before it.
LEMMA HandleKeeps ==
    ASSUME WatcherInv, NEW w \in Watches, HandleMessage(w)
    PROVE  WatcherInv'
<1>. DEFINE c == pending[w]
            b == messages[w]
            front == received[w] \o b
<1>1. /\ c # <<>> /\ WatcherTypeOK
      /\ c \in Seq(Event) /\ c \in Seq(Nat) /\ b \in Seq(Event) /\ b \in Seq(Nat)
      /\ front \in Seq(Nat) /\ received[w] \in Seq(Nat)
      /\ UNCHANGED <<watch, registered, subscribed, published, received, single>>
  BY WatcherTypes DEF HandleMessage, WatcherInv
<1>2. /\ Head(c) \in Event /\ Tail(c) \in Seq(Event)
      /\ Append(b, Head(c)) \in Seq(Event) /\ Len(Append(b, Head(c))) = Len(b) + 1
      /\ Len(b) \in Nat /\ Len(b) <= StreamCap
  BY <1>1, HeadTailProperties, AppendProperties, LenProperties DEF WatcherTypeOK
<1>3. pending' = [pending EXCEPT ![w] = Tail(c)]
  BY DEF HandleMessage
<1>4. PICK b2 : messages' = [messages EXCEPT ![w] = b2] /\ b2 = IF Len(b) < StreamCap THEN Append(b, Head(c)) ELSE b
  BY DEF HandleMessage
<1>5. b2 \in Seq(Event) /\ Len(b2) <= StreamCap
  BY <1>1, <1>2, <1>4, EventWatcherAssumptions
<1>6. WatcherTypeOK'
  BY <1>1, <1>2, <1>3, <1>4, <1>5 DEF WatcherTypeOK
<1>7. /\ pending'[w] = Tail(c) /\ messages'[w] = b2
      /\ \A v \in Watches : v # w => pending'[v] = pending[v] /\ messages'[v] = messages[v]
  BY <1>1, <1>3, <1>4 DEF WatcherTypeOK
<1>8. RisesTo(front \o c, published)
  BY DEF WatcherInv, LinesRise, Line
<1>9. RisesTo((received[w] \o b2) \o Tail(c), published)
  <2>1. CASE b2 = Append(b, Head(c))
    <3>1. b2 \o Tail(c) = b \o c
      BY <1>1, <2>1, HeadMoves
    <3>2. b2 \in Seq(Nat) /\ Tail(c) \in Seq(Nat)
      BY <1>1, <2>1, HeadTailProperties, AppendProperties
    <3>3. (received[w] \o b2) \o Tail(c) = received[w] \o (b2 \o Tail(c))
      <4>. DEFINE a == received[w] e == Tail(c)
      <4>1. a \in Seq(Nat) /\ b2 \in Seq(Nat) /\ e \in Seq(Nat)
        BY <1>1, <3>2
      <4>. HIDE DEF a, e
      <4>2. (a \o b2) \o e = a \o (b2 \o e)
        BY <4>1, ConcatAssociative
      <4>. QED
        BY <4>2 DEF a, e
    <3>4. front \o c = received[w] \o (b \o c)
      <4>. DEFINE a == received[w]
      <4>1. a \in Seq(Nat) /\ b \in Seq(Nat) /\ c \in Seq(Nat)
        BY <1>1
      <4>. HIDE DEF a, b, c
      <4>2. (a \o b) \o c = a \o (b \o c)
        BY <4>1, ConcatAssociative
      <4>. QED
        BY <4>2 DEF a, b, c
    <3>. QED
      BY <1>8, <3>1, <3>3, <3>4
  <2>2. CASE b2 = b
    BY <1>1, <1>8, <2>2, DropsOut
  <2>. QED
    BY <1>4, <2>1, <2>2
<1>10. LinesRise'
  <2>. SUFFICES ASSUME NEW v \in Watches PROVE RisesTo(Line(v)', published')
    BY DEF LinesRise
  <2>1. CASE v = w
    BY <1>1, <1>7, <1>9, <2>1 DEF Line
  <2>2. CASE v # w
    BY <1>1, <1>7, <2>2 DEF Line, WatcherInv, LinesRise
  <2>. QED
    BY <2>1, <2>2
<1>. QED
  BY <1>6, <1>10 DEF WatcherInv

\* The stream sends its next event.
LEMMA SendKeeps ==
    ASSUME WatcherInv, NEW w \in Watches, StreamSend(w)
    PROVE  WatcherInv'
<1>. DEFINE a == received[w]
            b == messages[w]
<1>1. /\ b # <<>> /\ WatcherTypeOK
      /\ a \in Seq(Event) /\ a \in Seq(Nat) /\ b \in Seq(Event) /\ b \in Seq(Nat)
      /\ UNCHANGED <<watch, registered, subscribed, published, pending, single>>
      /\ received' = [received EXCEPT ![w] = Append(a, Head(b))]
      /\ messages' = [messages EXCEPT ![w] = Tail(b)]
  BY WatcherTypes DEF StreamSend, WatcherInv
<1>2. /\ Head(b) \in Event /\ Tail(b) \in Seq(Event) /\ Append(a, Head(b)) \in Seq(Event)
      /\ Len(Tail(b)) <= StreamCap
  <2>1. Len(Tail(b)) = Len(b) - 1 /\ Len(b) \in Nat /\ Len(b) <= StreamCap
    BY <1>1, HeadTailProperties, LenProperties DEF WatcherTypeOK
  <2>. QED
    BY <1>1, <2>1, EventWatcherAssumptions, HeadTailProperties, AppendProperties
<1>3. WatcherTypeOK'
  BY <1>1, <1>2 DEF WatcherTypeOK
<1>4. /\ received'[w] = Append(a, Head(b)) /\ messages'[w] = Tail(b)
      /\ \A v \in Watches : v # w => received'[v] = received[v] /\ messages'[v] = messages[v]
  BY <1>1 DEF WatcherTypeOK
<1>5. received'[w] \o messages'[w] = received[w] \o messages[w]
  BY <1>1, <1>4, HeadMoves
<1>6. \A v \in Watches : Line(v)' = Line(v)
  BY <1>1, <1>4, <1>5 DEF Line
<1>. QED
  BY <1>1, <1>3, <1>6 DEF WatcherInv, LinesRise, RisesTo

LEMMA WatcherInvariant == WatcherSpec => []WatcherInv
<1>1. WatcherInit => WatcherInv
  <2>. SUFFICES ASSUME WatcherInit PROVE WatcherInv
    OBVIOUS
  <2>1. WatcherTypeOK
    BY EventWatcherAssumptions DEF WatcherInit, WatcherTypeOK
  <2>2. \A w \in Watches : Line(w) = <<>>
    BY DEF WatcherInit, Line
  <2>. QED
    BY <2>1, <2>2 DEF WatcherInv, LinesRise, RisesTo
<1>2. WatcherInv /\ [WatcherNext]_watcherVars => WatcherInv'
  <2>. SUFFICES ASSUME WatcherInv, [WatcherNext]_watcherVars PROVE WatcherInv'
    OBVIOUS
  <2>1. CASE UNCHANGED watcherVars
    BY <2>1 DEF watcherVars, WatcherInv, WatcherTypeOK, LinesRise, Line, RisesTo
  <2>. QED
    BY <2>1, RegistryKeeps, PublishKeeps, HandleKeeps, SendKeeps DEF WatcherNext
<1>. QED
  BY <1>1, <1>2, PTL DEF WatcherSpec

\* WatcherTypeOK: a stream's channel never holds more than its capacity.
THEOREM WatcherTypeCorrect == WatcherSpec => []WatcherTypeOK
<1>1. WatcherInv => WatcherTypeOK
  BY DEF WatcherInv
<1>. QED
  BY <1>1, WatcherInvariant, PTL

\* EventsInOrder: every stream of the client shows the events in the order of their
\* publication, none twice, however streams come and go and whatever is dropped.
THEOREM EventsInOrderHolds == WatcherSpec => []EventsInOrder
<1>1. WatcherInv => EventsInOrder
  BY DEF WatcherInv, LinesRise, Line, RisesTo, EventsInOrder
<1>. QED
  BY <1>1, WatcherInvariant, PTL

----------------------------------------------------------------------------
\* One stream at a time: it is the one the registry knows, and it is subscribed.
RegistryKnows == single => subscribed = Open /\ Open = {registered} \ {NoWatch}

\* SingleIsSubscribed: a client that never has two streams open at a time is
\* subscribed exactly while its stream is open.
THEOREM SingleIsSubscribedHolds == WatcherSpec => []SingleIsSubscribed
<1>1. WatcherInit => RegistryKnows
  BY DEF WatcherInit, RegistryKnows, Open
<1>2. WatcherTypeOK /\ RegistryKnows /\ [WatcherNext]_watcherVars => RegistryKnows'
  <2>. SUFFICES ASSUME WatcherTypeOK, RegistryKnows, [WatcherNext]_watcherVars PROVE RegistryKnows'
    OBVIOUS
  <2>1. ASSUME NEW w \in Watches, Register(w) PROVE RegistryKnows'
    <3>1. Open' = Open \cup {w} /\ w # NoWatch
      BY <2>1, EventWatcherAssumptions DEF Register, Open, WatcherTypeOK
    <3>. QED
      BY <2>1, <3>1 DEF Register, RegistryKnows
  <2>2. ASSUME NEW w \in Watches, Unregister(w) PROVE RegistryKnows'
    <3>1. Open' = Open \ {w} /\ w \in Open
      BY <2>2 DEF Unregister, Open, WatcherTypeOK
    <3>. QED
      BY <2>2, <3>1 DEF Unregister, RegistryKnows
  <2>3. CASE UNCHANGED <<watch, registered, subscribed, single>>
    BY <2>3 DEF RegistryKnows, Open
  <2>. QED
    BY <2>1, <2>2, <2>3
       DEF WatcherNext, HandleMessage, StreamSend, DispatchToUser, Dispatch, watcherVars
<1>3. RegistryKnows => SingleIsSubscribed
  BY DEF RegistryKnows, SingleIsSubscribed, StreamsAreSubscribed
<1>. QED
  BY <1>1, <1>2, <1>3, WatcherTypeCorrect, PTL DEF WatcherSpec

(***************************************************************************)
(* The five components side by side.  A step of one of them leaves the      *)
(* variables of the others alone, so a behaviour of all is one of each.     *)
(***************************************************************************)
LEMMA StepOfEach ==
    ASSUME [Next]_vars
    PROVE  /\ UNCHANGED part
           /\ [ChainNext]_chainVars /\ [ReporterNext]_reporterVars /\ [WatcherNext]_watcherVars
           /\ [InviteNext]_inviteVars /\ [LockNext]_lockVars
<1>1. CASE UNCHANGED vars
  <2>1. UNCHANGED <<part, chainVars, reporterVars, watcherVars, inviteVars, lockVars>>
    BY <1>1 DEF vars
  <2>. QED
    BY <2>1
<1>2. CASE Next
  BY <1>2 DEF Next
<1>. QED
  BY <1>1, <1>2

LEMMA BehavesAsEach ==
    FairSpec => ChainSpec /\ ReporterSpec /\ WatcherSpec /\ InviteSpec /\ LockSpec /\ [](part \in Parts)
<1>1. Init => /\ part \in Parts
              /\ ChainInit /\ ReporterInit /\ WatcherInit /\ InviteInit /\ LockInit
  BY DEF Init
<1>2. [Next]_vars => /\ part \in Parts => (part \in Parts)'
                     /\ [ChainNext]_chainVars /\ [ReporterNext]_reporterVars
                     /\ [WatcherNext]_watcherVars /\ [InviteNext]_inviteVars /\ [LockNext]_lockVars
  BY StepOfEach
<1>3. FairSpec => Init /\ [][Next]_vars
  BY PTL DEF FairSpec
<1>. QED
  BY <1>1, <1>2, <1>3, PTL
     DEF ChainSpec, ReporterSpec, WatcherSpec, InviteSpec, LockSpec

\* ServicesTypeOK: in every behaviour of the services each component's variables
\* keep their types and their bounds, whatever the constants of the others are.
THEOREM ServicesTypeCorrect == FairSpec => []ServicesTypeOK
<1>1. part \in Parts /\ ChainTypeOK /\ ReporterTypeOK /\ WatcherTypeOK /\ InviteTypeOK /\ LockTypeOK
        => ServicesTypeOK
  BY DEF ServicesTypeOK
<1>. QED
  BY <1>1, BehavesAsEach, ChainTypeCorrect, ReporterTypeCorrect, WatcherTypeCorrect,
     InviteTypeCorrect, LockTypeCorrect, PTL

\* What the run with all five checks of their safety, for any constants: side by
\* side each of them is as safe as it is alone.
THEOREM ServicesSafe ==
    FairSpec => []( /\ StartsOnce /\ OneHandler /\ FailedChainIsRefunded
                    /\ ShutdownDrains /\ InOrder /\ NoneVanishes
                    /\ EventsInOrder /\ SingleIsSubscribed
                    /\ RewardsMatchRecords /\ SerialCapKept /\ SerialInvitedOnce
                    /\ KeepsLock )
BY BehavesAsEach, StartsOnceHolds, OneHandlerHolds, FailedChainIsRefundedHolds,
   ShutdownDrainsHolds, InOrderHolds, NoneVanishesHolds, EventsInOrderHolds,
   SingleIsSubscribedHolds, RewardsMatch, CapKeptApart, InvitedOnceApart,
   KeepsLockHolds, PTL
=============================================================================
