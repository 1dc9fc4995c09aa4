----------------------------- MODULE Placement ------------------------------
(***************************************************************************)
(* The placement strategy for new copies (src/metadata/placement): which   *)
(* nodes get a chunk, given the capacity report of each node.              *)
(*                                                                         *)
(* The candidates come from a Go map in any order, and sort.Sort is not    *)
(* stable, so nodes with equal keys may end up in any order: an operator   *)
(* gives the set of the lists that the code may return.  The empty set     *)
(* stands for the error.                                                   *)
(***************************************************************************)
EXTENDS Naturals, Sequences, FiniteSets, Functions

\* A capacity report.
IsReport(r) == r.freeSpace \in Nat /\ r.chunkCount \in Nat

filterNodes(nodes, exclude) == nodes \ exclude

filterByMinSpace(nodes, report, minSpace) == {n \in nodes : report[n].freeSpace >= minSpace}

\* SortByMostFreeSpace.Less
MoreFree(report, m, n) ==
  \/ report[m].freeSpace > report[n].freeSpace
  \/ /\ report[m].freeSpace = report[n].freeSpace
     /\ report[m].chunkCount < report[n].chunkCount

\* The nodes of S sorted by MoreFree.
SortByMostFreeSpace(S, report) ==
  {s \in Bijection(1..Cardinality(S), S) :
     \A i, j \in 1..Cardinality(S) : i < j => ~MoreFree(report, s[j], s[i])}

\* MostFreeSpaceStrategy.SelectNodes
SelectNodes(nodes, report, minSpace, count, exclude) ==
  LET candidates == filterByMinSpace(filterNodes(nodes, exclude), report, minSpace)
  IN  IF Cardinality(candidates) < count
        THEN {}
        ELSE {SubSeq(s, 1, count) : s \in SortByMostFreeSpace(candidates, report)}

=============================================================================
