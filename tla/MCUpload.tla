------------------------------ MODULE MCUpload ------------------------------
(***************************************************************************)
(* A small instance of Download for TLC: file f1 of the chunks c1 and c2,  *)
(* nodes n1, n2 and n3, of which the third is full or only the first is not.*)
(***************************************************************************)
EXTENDS Download, TLC

CONSTANTS f1, c1, c2, n1, n2, n3, a1, a2, a3, s1, s2

TwoChunks == <<c1, c2>>
TwoChunkLists == {TwoChunks}
NoLists == {}

Roomy == [freeSpace |-> 9, chunkCount |-> 0]
Full == [freeSpace |-> 0, chunkCount |-> 9]
SomeReports == {Roomy, Full}
ReportCases ==
  {(n1 :> Roomy) @@ (n2 :> Roomy) @@ (n3 :> Full), (n1 :> Roomy) @@ (n2 :> Full) @@ (n3 :> Full)}

Addresses == (n1 :> a1) @@ (n2 :> a2) @@ (n3 :> a3)
Contents == (c1 :> s1) @@ (c2 :> s2)
=============================================================================
