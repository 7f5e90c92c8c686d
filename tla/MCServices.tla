----------------------------- MODULE MCServices -----------------------------
(***************************************************************************)
(* Five components that share no state, for TLC in one run: in a behaviour *)
(* one of them moves, from its initial state, and the others stay in       *)
(* theirs.  So each is checked as if it were alone.                        *)
(***************************************************************************)
EXTENDS TaskChain, EventReporter, EventWatcher, InviteRewards, DistributedLock

VARIABLE part

Parts == {"chain", "reporter", "watcher", "invites", "lock"}

\* Restarts and faults of the chain that can happen together.
MCChainFaultSets == {{}, {"haste"}, {"refunderror"}, {"slow"}, {"crash"}, {"dberror"}}

vars == <<part, chainVars, reporterVars, watcherVars, inviteVars, lockVars>>

Init ==
    /\ part \in Parts
    /\ ChainInit /\ ReporterInit /\ WatcherInit /\ InviteInit /\ LockInit
    /\ part # "chain" => chainFaults = {"slow"} /\ chain.total = ImagePrice + VideoPrice

Next ==
    /\ \/ part = "chain" /\ ChainNext /\ UNCHANGED <<reporterVars, watcherVars, inviteVars, lockVars>>
       \/ part = "reporter" /\ ReporterNext /\ UNCHANGED <<chainVars, watcherVars, inviteVars, lockVars>>
       \/ part = "watcher" /\ WatcherNext /\ UNCHANGED <<chainVars, reporterVars, inviteVars, lockVars>>
       \/ part = "invites" /\ InviteNext /\ UNCHANGED <<chainVars, reporterVars, watcherVars, lockVars>>
       \/ part = "lock" /\ LockNext /\ UNCHANGED <<chainVars, reporterVars, watcherVars, inviteVars>>
    /\ UNCHANGED part

FairSpec ==
    /\ Init /\ [][Next]_vars
    /\ \A g \in Goroutines : WF_chainVars(part = "chain" /\ ChainRuns(g))
    /\ WF_chainVars(part = "chain" /\ ATaskEnds)
    /\ WF_reporterVars(part = "reporter" /\ WorkerRuns)
    /\ WF_reporterVars(part = "reporter" /\ WorkerTick)
    /\ WF_lockVars(part = "lock" /\ Tick)
    /\ \A r \in Rounds : WF_lockVars(part = "lock" /\ LockRuns(r))
----------------------------------------------------------------------------
\* Every component's variables keep their types, bounds included: the queue and the
\* batch of the reporter, the channel of a stream, the time to live of the key.
ServicesTypeOK ==
    part \in Parts /\ ChainTypeOK /\ ReporterTypeOK /\ WatcherTypeOK /\ InviteTypeOK /\ LockTypeOK
=============================================================================
