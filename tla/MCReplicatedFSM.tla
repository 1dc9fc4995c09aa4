-------------------------- MODULE MCReplicatedFSM --------------------------
(***************************************************************************)
(* Small instances of ReplicatedFSM for TLC.                               *)
(***************************************************************************)
EXTENDS ReplicatedFSM, TLC

CONSTANTS s1, s2, n1, n2, n3, a2

Register(n, a) == [op |-> "RegisterNode", node |-> n, addr |-> a]
Commit(raw) == [op |-> "CommitChunk", raw |-> raw]
Evict(n) == [op |-> "EvictChunkFromNode", node |-> n]
Add(n) == [op |-> "AddChunkReplica", node |-> n]

\* Nodes have addresses of their own; replicas come and go.
Commands4 == {Register(n2, a2), Commit(<<n1, a2>>), Evict(n1), Add(n3)}

\* Lists of three, so that an eviction moves two entries.
Commands3 == {Register(n2, a2), Commit(<<n1, a2, n3>>), Evict(n1), Add(n1)}

ServerSymmetry == Permutations({s1, s2})
=============================================================================
