------------------------------ MODULE MCRepair ------------------------------
(***************************************************************************)
(* Small instances of Repair for TLC.                                      *)
(***************************************************************************)
EXTENDS Repair, TLC

CONSTANTS n1, n2, n3, n4, n5

\* Nodes are interchangeable as long as they hold the chunk, or do not.
NodeSymmetry ==
  Permutations(InitialReplicas) \cup Permutations(Nodes \ InitialReplicas)
=============================================================================
