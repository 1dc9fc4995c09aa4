--------------------------- MODULE ChunkReplicas ---------------------------
(***************************************************************************)
(* What the repair of a chunk promises: a node is listed as a replica only *)
(* while it holds the chunk, and the chunk is only copied from a holder.   *)
(* No copy is ever removed.                                                *)
(***************************************************************************)
CONSTANTS Nodes, InitialReplicas
VARIABLES listed, holding

Init == listed = InitialReplicas /\ holding = InitialReplicas

Copy(n) ==
  /\ holding # {}
  /\ holding' = holding \cup {n}
  /\ UNCHANGED listed

List(n) ==
  /\ n \in holding
  /\ listed' = listed \cup {n}
  /\ UNCHANGED holding

Unlist(n) ==
  /\ listed' = listed \ {n}
  /\ UNCHANGED holding

Next == \E n \in Nodes : Copy(n) \/ List(n) \/ Unlist(n)

Spec == Init /\ [][Next]_<<listed, holding>>
=============================================================================
