-------------------------- MODULE MCTaskLifecycle --------------------------
(***************************************************************************)
(* TaskLifecycle for TLC: races of two workers and two sync rounds while   *)
(* at most the database fails, every fault with one actor of a kind, and   *)
(* an executor that marks the row AWAITING while it generates.             *)
(***************************************************************************)
EXTENDS TaskLifecycle

CONSTANTS w1, w2, y1, y2, r1

Pair == {w1, w2, y1, y2}
One == {w1, y1, r1}
Scenario(crew, faults, everyPoll, runs) ==
    [crew |-> crew, faults |-> faults, everyPoll |-> everyPoll, early |-> FALSE, runs |-> runs]
Early(crew, faults, runs) == [Scenario(crew, faults, FALSE, runs) EXCEPT !.early = TRUE]

MCScenarios ==
    {Scenario(Pair, {}, FALSE, 3),
     Scenario(Pair, {"dberror"}, FALSE, 3),
     Scenario(Pair, {"dberror", "refunderror"}, TRUE, 3),
     Scenario(One, {"crash", "dberror", "refunderror", "commiterror", "slow", "refuse"}, TRUE, 3),
     Scenario(One, {"refuse", "resubmit"}, FALSE, 1),
     Scenario(One, {"crash", "refunderror", "resubmit"}, TRUE, 1),
     Scenario({w1, r1}, {"crash", "refunderror", "refuse", "resubmit"}, TRUE, 2),
     Early({w1, w2, y1}, {"dberror"}, 1),
     Early({w1, y1}, {"crash", "dberror", "commiterror", "refunderror", "refuse"}, 2)}

\* The retry round at work, with two of every other actor.
BlankScenarios == {Scenario(Pair \cup {r1}, {"resubmit"}, FALSE, 2)}
=============================================================================
