--------------------------- MODULE InviteRewards ---------------------------
(***************************************************************************)
(* Invite codes: a user who enters another user's code is recorded as      *)
(* invited and both get credits, the inviter up to a cap over all his      *)
(* invitations.                                                            *)
(*                                                                         *)
(* A call first looks, outside any transaction, whether the user was       *)
(* invited before; its transaction counts what the inviter was granted and *)
(* writes the record and the credits.  The count is a plain read of the    *)
(* transaction's snapshot.                                                 *)
(***************************************************************************)
EXTENDS Naturals, FiniteSets

CONSTANTS Inviters, Invitees,  \* users, perhaps the same
          Projects,            \* the apps a user may have a code in
          Calls,               \* calls of UseInviteCode that may run at once
          Amount,              \* invite_credit_amount
          Cap                  \* invite_max_credits, 0 for none

ASSUME InviteRewardsAssumptions ==
    /\ Inviters # {} /\ Invitees # {} /\ Projects # {}
    /\ Amount \in Nat \ {0} /\ Cap \in Nat

VARIABLES codes,    \* the codes that exist, one per project and user
          records,  \* va_invite_record
          rewards,  \* source ids of the credits granted
          call,     \* what each call of UseInviteCode does
          apart     \* history: no two calls ever overlapped

inviteVars == <<codes, records, rewards, call, apart>>

Codes == Projects \X Inviters
InviteRecord == [project : Projects, inviter : Inviters, invitee : Invitees, granted : BOOLEAN]
\* The source id of a reward names whom it is for and the code it is for.
Reward == [for : {"invitee", "inviter"}, invitee : Invitees, code : Codes]
CallStates == [op : {"idle", "checked", "counted"}, invitee : Invitees, code : Codes, grant : BOOLEAN]

InviteTypeOK ==
    /\ codes \subseteq Codes
    /\ records \subseteq InviteRecord
    /\ rewards \subseteq Reward
    /\ call \in [Calls -> CallStates]
    /\ apart \in BOOLEAN

NoCall == [op |-> "idle", invitee |-> CHOOSE u \in Invitees : TRUE,
           code |-> CHOOSE c \in Codes : TRUE, grant |-> FALSE]

InviteInit ==
    /\ codes = {} /\ records = {} /\ rewards = {}
    /\ call = [k \in Calls |-> NoCall]
    /\ apart = TRUE

----------------------------------------------------------------------------
\* GetOrCreateInviteCode: of two that create a user's code in a project one is
\* refused, and reads the other's.
GetOrCreateInviteCode(c) ==
    /\ c \notin codes
    /\ codes' = codes \cup {c}
    /\ UNCHANGED <<records, rewards, call, apart>>

Busy == {k \in Calls : call[k].op # "idle"}

\* Mutant of UseCheck: the user's earlier records are looked for in the code's
\* project only.
UseCheckInProject(k) ==
    /\ call[k].op = "idle"
    /\ \E u \in Invitees, c \in codes :
         /\ ~ \E r \in records : r.invitee = u /\ r.project = c[1]
         /\ u # c[2]
         /\ call' = [call EXCEPT ![k] = [op |-> "checked", invitee |-> u, code |-> c, grant |-> FALSE]]
    /\ apart' = (apart /\ Busy = {})
    /\ UNCHANGED <<codes, records, rewards>>

\* UseInviteCode: the user must not have been invited in any project, the code
\* must exist and be somebody else's.
UseCheck(k) ==
    /\ call[k].op = "idle"
    /\ \E u \in Invitees, c \in codes :
         /\ ~ \E r \in records : r.invitee = u
         /\ u # c[2]
         /\ call' = [call EXCEPT ![k] = [op |-> "checked", invitee |-> u, code |-> c, grant |-> FALSE]]
    /\ apart' = (apart /\ Busy = {})
    /\ UNCHANGED <<codes, records, rewards>>

GrantedTo(inviter) == Amount * Cardinality({r \in records : r.inviter = inviter /\ r.granted})

\* Mutant of UseCount: the cap is one for each project.
UseCountInProject(k) ==
    /\ call[k].op = "checked"
    /\ LET granted == {r \in records : r.inviter = call[k].code[2] /\ r.granted /\ r.project = call[k].code[1]}
       IN call' = [call EXCEPT ![k].op = "counted",
                               ![k].grant = Cap = 0 \/ Amount * Cardinality(granted) < Cap]
    /\ UNCHANGED <<codes, records, rewards, apart>>

\* The transaction begins: is the inviter below the cap, over all projects?
UseCount(k) ==
    /\ call[k].op = "checked"
    /\ call' = [call EXCEPT ![k].op = "counted",
                            ![k].grant = Cap = 0 \/ GrantedTo(call[k].code[2]) < Cap]
    /\ UNCHANGED <<codes, records, rewards, apart>>

RewardOf(k, for) == [for |-> for, invitee |-> call[k].invitee, code |-> call[k].code]
RecordOf(k) == [project |-> call[k].code[1], inviter |-> call[k].code[2],
                invitee |-> call[k].invitee, granted |-> call[k].grant]

Return(k) == call' = [call EXCEPT ![k] = NoCall]

\* Mutant of UseCommit: the record always says that the inviter was granted.
UseCommitUnmarked(k) ==
    /\ call[k].op = "counted"
    /\ ~ \E r \in records : r.project = call[k].code[1] /\ r.invitee = call[k].invitee
    /\ records' = records \cup {[RecordOf(k) EXCEPT !.granted = TRUE]}
    /\ rewards' = rewards \cup {RewardOf(k, "invitee")}
                          \cup (IF call[k].grant THEN {RewardOf(k, "inviter")} ELSE {})
    /\ Return(k)
    /\ UNCHANGED <<codes, apart>>

\* The record, unique per project and invited user, and the rewards, unique by
\* source id, are written and commit together.
UseCommit(k) ==
    /\ call[k].op = "counted"
    /\ ~ \E r \in records : r.project = call[k].code[1] /\ r.invitee = call[k].invitee
    /\ RewardOf(k, "invitee") \notin rewards /\ RewardOf(k, "inviter") \notin rewards
    /\ records' = records \cup {RecordOf(k)}
    /\ rewards' = rewards \cup {RewardOf(k, "invitee")}
                          \cup (IF call[k].grant THEN {RewardOf(k, "inviter")} ELSE {})
    /\ Return(k)
    /\ UNCHANGED <<codes, apart>>

\* A duplicate, an error, or the end of the server: nothing is written.
UseFails(k) ==
    /\ call[k].op # "idle"
    /\ Return(k)
    /\ UNCHANGED <<codes, records, rewards, apart>>

InviteNext ==
    \/ \E c \in Codes : GetOrCreateInviteCode(c)
    \/ \E k \in Calls : UseCheck(k) \/ UseCount(k) \/ UseCommit(k) \/ UseFails(k)

InviteSpec == InviteInit /\ [][InviteNext]_inviteVars

----------------------------------------------------------------------------
\* Safety: who was invited got a reward for that code, and the inviter did if and
\* only if the record the cap is counted by says so; there are no other rewards.
RewardsMatchRecords ==
    rewards = {[for |-> "invitee", invitee |-> r.invitee, code |-> <<r.project, r.inviter>>] : r \in records}
        \cup {[for |-> "inviter", invitee |-> r.invitee, code |-> <<r.project, r.inviter>>] :
                r \in {q \in records : q.granted}}

\* Safety, as the comments on the transaction mean it: the cap is passed by less
\* than one reward.
CapKept == \A i \in Inviters : Cap > 0 => GrantedTo(i) < Cap + Amount

\* Safety, as the comment on the check means it: nobody is invited twice, in
\* whatever projects.
InvitedOnce == \A r, s \in records : r.invitee = s.invitee => r = s

\* Safety: both hold as long as no two calls overlap.
SerialCapKept == apart => CapKept
SerialInvitedOnce == apart => InvitedOnce
=============================================================================
