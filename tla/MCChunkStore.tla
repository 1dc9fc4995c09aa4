---------------------------- MODULE MCChunkStore ----------------------------
(***************************************************************************)
(* Small instances of ChunkStore for TLC.                                  *)
(***************************************************************************)
EXTENDS ChunkStore, TLC

CONSTANTS c1, c2

\* A chunk of one frame and one of two.
OneAndTwo == [c \in {c1, c2} |-> IF c = c1 THEN 1 ELSE 2]

TwoFrames == [c \in {c1} |-> 2]
=============================================================================
