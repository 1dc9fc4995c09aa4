--------------------------- MODULE MCMetadataFSM ---------------------------
(***************************************************************************)
(* A small instance of MetadataFSM for TLC.                                *)
(***************************************************************************)
EXTENDS MetadataFSM, FiniteSets, TLC

CONSTANTS f1, f2, c1, c2, c3, n1, n2, a1, a2, s1, s2

\* Two files compete for chunk IDs; one list is empty (a zero-byte file).
FileLists == {<<>>, <<c1>>, <<c2, c1>>, <<c2, c3>>}

\* The primary by node ID, the others by address; a list may repeat a node.
MixedCommits == {<<n1>>, <<n1, a2>>, <<n1, a1>>, <<a1, a2, n1>>}

-----------------------------------------------------------------------------
(* Three kinds of behaviours.  No command of one kind reads what makes the *)
(* others large.                                                           *)

SeveralChunks == Cardinality(DOMAIN fileIndex) > 1 \/ Cardinality(DOMAIN chunkRegistry) > 1

Listed == UNION {Range(chunkRegistry[c].replicas) : c \in DOMAIN chunkRegistry}

SeveralNodes ==
  \/ ~(DOMAIN nodeRegistry \cup Listed \subseteq {n1})
  \/ \E n \in DOMAIN nodeRegistry : nodeRegistry[n].address # a1

SomeJobs == repairJobRegistry # EmptyRegistry \/ mdNodeRegistry # EmptyRegistry

Focused ==
  /\ ~(SeveralChunks /\ SeveralNodes)
  /\ ~(SeveralChunks /\ SomeJobs)
  /\ ~(SeveralNodes /\ SomeJobs)

MCNext ==
  \/ NodeCommand /\ Focused'
  \/ FileCommand /\ Focused'
  \/ ChunkCommand /\ Focused'
  \/ RepairJobCommand /\ Focused'
  \/ MetadataNodeCommand /\ Focused'

MCSpec == Init /\ [][MCNext]_vars

\* No list mentions a file or a checksum.
FileSymmetry == Permutations({f1, f2}) \cup Permutations({s1, s2})
=============================================================================
