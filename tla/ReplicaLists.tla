---------------------------- MODULE ReplicaLists ----------------------------
(***************************************************************************)
(* Operators shared by the modules that model the metadata state machine   *)
(* (src/metadata/fsm): Go maps as functions over the keys they hold, and   *)
(* the operations on a chunk's ordered replica list.                       *)
(***************************************************************************)
EXTENDS Naturals, Sequences, Functions

-----------------------------------------------------------------------------
(* Go maps *)

\* m maps some of the keys K to values in V.
IsRegistry(m, K, V) == DOMAIN m \subseteq K /\ m \in [DOMAIN m -> V]

EmptyRegistry == [k \in {} |-> k]

\* m[k] = v
Put(m, k, v) == [x \in DOMAIN m \cup {k} |-> IF x = k THEN v ELSE m[x]]

\* The entries of m, and those of d for the keys m does not hold.
Merge(m, d) == [x \in DOMAIN m \cup DOMAIN d |-> IF x \in DOMAIN m THEN m[x] ELSE d[x]]

\* delete(m, k)
Delete(m, k) == [x \in DOMAIN m \ {k} |-> m[x]]

-----------------------------------------------------------------------------
(* Replica lists *)

\* The position of the first occurrence of e in s.
FirstIndex(s, e) ==
  CHOOSE i \in 1..Len(s) : s[i] = e /\ \A j \in 1..(i - 1) : s[j] # e

\* append(s[:idx], s[idx+1:]...) for the first idx that holds e.
EvictReplica(s, e) ==
  LET idx == FirstIndex(s, e)
  IN  SubSeq(s, 1, idx - 1) \o SubSeq(s, idx + 1, Len(s))

\* An append that leaves a list alone that already holds e.
AddReplica(s, e) == IF e \in Range(s) THEN s ELSE Append(s, e)

\* s holds every element of r once, in the order r first mentions it.
IsDedup(s, r) ==
  /\ IsInjective(s)
  /\ Range(s) = Range(r)
  /\ \A i, j \in 1..Len(s) : i < j => FirstIndex(r, s[i]) < FirstIndex(r, s[j])

\* The list that appends each element of r the first time it is seen.
Dedup(r) ==
  CHOOSE s \in UNION {[1..n -> Range(r)] : n \in 0..Len(r)} : IsDedup(s, r)

-----------------------------------------------------------------------------
(* normalizeReplicaNodeIDs, over the addresses addrOf of the known nodes *)

\* What one confirmed entry may stand for.  A known node ID is kept.  Any
\* other entry is looked up as an address by ranging over the node map, which
\* Go does in an arbitrary order: when two nodes have the address, either may
\* be found.  An entry that matches nothing is kept as it is.
ResolvedIDs(addrOf, entry) ==
  LET atAddr == {n \in DOMAIN addrOf : addrOf[n] = entry}
  IN  IF entry \in DOMAIN addrOf \/ atAddr = {} THEN {entry} ELSE atAddr

Resolutions(addrOf, raw) ==
  {ids \in [1..Len(raw) -> DOMAIN addrOf \cup Range(raw)] :
     \A i \in 1..Len(raw) : ids[i] \in ResolvedIDs(addrOf, raw[i])}

\* Broken variant: the entries seen so far are not remembered.
NormalizedWithRepeats(addrOf, raw) == Resolutions(addrOf, raw)

\* Every list the function may return.
NormalizedReplicas(addrOf, raw) == {Dedup(ids) : ids \in Resolutions(addrOf, raw)}

=============================================================================
