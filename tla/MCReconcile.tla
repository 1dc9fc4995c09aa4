---------------------------- MODULE MCReconcile ----------------------------
(***************************************************************************)
(* A small instance of Reconcile for TLC.                                  *)
(***************************************************************************)
EXTENDS Reconcile, TLC

CONSTANTS n1, n2, n3

\* The nodes of a new cluster register in many orders: there are two, those of the
\* upload, and one mishap happens.  A settled cluster has no such limit.
Focused == settled \/ (up \subseteq Uploaded /\ budget["total"] >= MaxMishaps - 1)

MCNext ==
  \/ \E n \in Nodes : NodeStep(n) /\ Focused'
  \/ \E n \in Nodes : LeaderStep(n) /\ Focused'
  \/ CommitChunk
  \/ \E t \in Timers : Fire(t)
  \/ \E t \in DOMAIN callbacks : CallbackStep(t) /\ Focused'

MCSpec == Init /\ [][MCNext]_vars
=============================================================================
