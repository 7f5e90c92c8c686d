---------------------------- MODULE MCSlotQuota ----------------------------
(***************************************************************************)
(* SlotQuota for TLC: task ids are interchangeable, and so are servers.    *)
(***************************************************************************)
EXTENDS SlotQuota, TLC

Symmetry == Permutations(Tasks) \cup Permutations(Servers)
=============================================================================
