-------------------------- MODULE MCLeaderClient --------------------------
(***************************************************************************)
(* LeaderClient for TLC.                                                   *)
(***************************************************************************)
EXTENDS LeaderClient

CONSTANTS m1, m2

MCSeeds == <<m1, m2>>

MCNumbers == 1..(Cardinality(Callers) + 1)

=============================================================================
