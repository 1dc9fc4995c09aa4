--------------------------- MODULE MCNodeLiveness ---------------------------
(***************************************************************************)
(* NodeLiveness for TLC.                                                   *)
(***************************************************************************)
EXTENDS NodeLiveness

=============================================================================
