------------------------ MODULE ReplicaLists_proofs ------------------------
(***************************************************************************)
(* What the operators of ReplicaLists return and preserve, for every list  *)
(* and every map.                                                          *)
(***************************************************************************)
EXTENDS ReplicaLists, WellFoundedInduction, TLAPS

-----------------------------------------------------------------------------
(* Registries *)

\* Storing a value of the right type under a key of the right type keeps a
\* registry a registry (upsert).
LEMMA PutRegistry ==
  ASSUME NEW K, NEW V, NEW m, IsRegistry(m, K, V), NEW k \in K, NEW v \in V
  PROVE  IsRegistry(Put(m, k, v), K, V)
BY Zenon DEF IsRegistry, Put

\* Deleting a key keeps a registry a registry.
LEMMA DeleteRegistry ==
  ASSUME NEW K, NEW V, NEW m, IsRegistry(m, K, V), NEW k
  PROVE  IsRegistry(Delete(m, k), K, V)
BY Zenon DEF IsRegistry, Delete

\* The union of two registries is a registry (the chunk stubs of a new file
\* with the chunks already there).
LEMMA MergeRegistry ==
  ASSUME NEW K, NEW V, NEW m, IsRegistry(m, K, V), NEW d, IsRegistry(d, K, V)
  PROVE  IsRegistry(Merge(m, d), K, V)
BY Zenon DEF IsRegistry, Merge

\* Replacing the record of a key that is there keeps a registry a registry.
LEMMA UpdateRegistry ==
  ASSUME NEW K, NEW V, NEW m, IsRegistry(m, K, V), NEW k \in DOMAIN m, NEW v \in V
  PROVE  IsRegistry([m EXCEPT ![k] = v], K, V)
BY Zenon DEF IsRegistry

-----------------------------------------------------------------------------
(* The least number principle, for definitions that say "the first" *)

LessRel == {p \in Nat \X Nat : p[1] < p[2]}

\* The order of the natural numbers is well-founded.
LEMMA LessRelWF == IsWellFoundedOn(LessRel, Nat)
BY NatLessThanWellFounded, Zenon DEF OpToRel, LessRel

\* Every non-empty set of natural numbers has a least element.
LEMMA LeastNumber ==
  ASSUME NEW T, T \subseteq Nat, T # {}
  PROVE  \E x \in T : \A y \in T : x <= y
<1>1. PICK x \in T : \A y \in T : ~(<<y, x>> \in LessRel)
  BY LessRelWF, WFMin, Zenon
<1>2. \A y \in T : ~(y < x)
  BY <1>1, x \in Nat, T \subseteq Nat, Zenon DEF LessRel
<1>3. QED
  BY <1>2

-----------------------------------------------------------------------------
(* Replica lists *)

\* FirstIndex of an element that is there is a position of it, and no earlier
\* position holds it.
LEMMA FirstIndexIs ==
  ASSUME NEW S, NEW s \in Seq(S), NEW e \in Range(s)
  PROVE  /\ FirstIndex(s, e) \in 1..Len(s)
         /\ s[FirstIndex(s, e)] = e
         /\ \A j \in 1..(FirstIndex(s, e) - 1) : s[j] # e
<1> DEFINE T == {i \in 1..Len(s) : s[i] = e}
<1>1. T \subseteq Nat /\ T # {}
  BY DEF Range
<1>2. PICK i \in T : \A y \in T : i <= y
  BY <1>1, LeastNumber, Zenon
<1>3. \E x \in 1..Len(s) : s[x] = e /\ \A j \in 1..(x - 1) : s[j] # e
  BY <1>2
<1>4. QED
  BY <1>3, Zenon DEF FirstIndex

\* Cutting an entry out of a list gives a list of the same type.
LEMMA EvictReplicaType ==
  ASSUME NEW S, NEW s \in Seq(S), NEW e \in Range(s)
  PROVE  EvictReplica(s, e) \in Seq(S)
BY FirstIndexIs DEF EvictReplica

\* Appending an entry that is not there gives a list of the same type.
LEMMA AddReplicaType ==
  ASSUME NEW S, NEW s \in Seq(S), NEW e \in S
  PROVE  AddReplica(s, e) \in Seq(S)
BY DEF AddReplica

\* Cutting an entry out of a list adds none.
LEMMA EvictReplicaRange ==
  ASSUME NEW S, NEW s \in Seq(S), NEW e \in Range(s)
  PROVE  Range(EvictReplica(s, e)) \subseteq Range(s)
<1>1. s \in Seq(Range(s))
  BY DEF Range
<1>2. EvictReplica(s, e) \in Seq(Range(s))
  BY <1>1, EvictReplicaType, Zenon
<1>3. QED
  BY <1>2 DEF Range

\* Appending an entry adds no other.
LEMMA AddReplicaRange ==
  ASSUME NEW S, NEW s \in Seq(S), NEW e \in S
  PROVE  Range(AddReplica(s, e)) \subseteq Range(s) \cup {e}
<1>1. s \in Seq(Range(s) \cup {e})
  BY DEF Range
<1>2. AddReplica(s, e) \in Seq(Range(s) \cup {e})
  BY <1>1, AddReplicaType, Zenon
<1>3. QED
  BY <1>2 DEF Range

\* What EvictReplica holds at each position.
LEMMA EvictReplicaAt ==
  ASSUME NEW S, NEW s \in Seq(S), NEW e \in Range(s)
  PROVE  LET k == FirstIndex(s, e)
         IN  /\ Len(EvictReplica(s, e)) = Len(s) - 1
             /\ \A i \in 1..(Len(s) - 1) :
                  EvictReplica(s, e)[i] = IF i < k THEN s[i] ELSE s[i + 1]
<1> DEFINE k == FirstIndex(s, e)
           left == SubSeq(s, 1, k - 1)
           right == SubSeq(s, k + 1, Len(s))
<1>1. k \in 1..Len(s)
  BY FirstIndexIs, Zenon
<1>2. left \in Seq(S) /\ Len(left) = k - 1 /\ \A i \in 1..(k - 1) : left[i] = s[i]
  BY <1>1
<1>3. right \in Seq(S) /\ Len(right) = Len(s) - k /\ \A i \in 1..(Len(s) - k) : right[i] = s[k + i]
  BY <1>1
<1> HIDE DEF k, left, right
<1>4. Len(left \o right) = Len(s) - 1
  BY <1>1, <1>2, <1>3
<1>5. ASSUME NEW i \in 1..(Len(s) - 1)
      PROVE  (left \o right)[i] = IF i < k THEN s[i] ELSE s[i + 1]
  <2>1. CASE i < k
    BY <1>1, <1>2, <1>3, <2>1
  <2>2. CASE ~(i < k)
    <3>1. (left \o right)[i] = right[i - (k - 1)]
      BY <1>1, <1>2, <1>3, <2>2
    <3>2. right[i - (k - 1)] = s[i + 1]
      BY <1>1, <1>3, <2>2
    <3>3. QED
      BY <2>2, <3>1, <3>2, Zenon
  <2>3. QED
    BY <2>1, <2>2, Zenon
<1>6. QED
  BY <1>4, <1>5, Zenon DEF EvictReplica, k, left, right

\* A list without repeats stays one when an entry is cut out.
LEMMA EvictReplicaInjective ==
  ASSUME NEW S, NEW s \in Seq(S), IsInjective(s), NEW e \in Range(s)
  PROVE  IsInjective(EvictReplica(s, e))
<1> DEFINE t == EvictReplica(s, e)
           k == FirstIndex(s, e)
<1>1. k \in 1..Len(s) /\ DOMAIN s = 1..Len(s)
  BY FirstIndexIs
<1>2. DOMAIN t = 1..(Len(s) - 1)
  BY EvictReplicaType, EvictReplicaAt
<1>3. \A i \in 1..(Len(s) - 1) : t[i] = IF i < k THEN s[i] ELSE s[i + 1]
  BY EvictReplicaAt, Zenon
<1> HIDE DEF t, k
<1>4. ASSUME NEW i \in 1..(Len(s) - 1), NEW j \in 1..(Len(s) - 1), t[i] = t[j]
      PROVE  i = j
  BY <1>1, <1>3, <1>4 DEF IsInjective
<1>5. IsInjective(t)
  BY <1>2, <1>4, Zenon DEF IsInjective
<1>6. QED
  BY <1>5, Zenon DEF t

\* A list without repeats stays one when a missing entry is appended.
LEMMA AddReplicaInjective ==
  ASSUME NEW S, NEW s \in Seq(S), IsInjective(s), NEW e \in S
  PROVE  IsInjective(AddReplica(s, e))
<1>1. CASE e \in Range(s)
  BY <1>1, Zenon DEF AddReplica
<1>2. CASE e \notin Range(s)
  <2>1. AddReplica(s, e) = Append(s, e)
    BY <1>2, Zenon DEF AddReplica
  <2>2. DOMAIN Append(s, e) = 1..(Len(s) + 1) /\ DOMAIN s = 1..Len(s)
    OBVIOUS
  <2>3. \A i \in 1..(Len(s) + 1) : Append(s, e)[i] = IF i = Len(s) + 1 THEN e ELSE s[i]
    OBVIOUS
  <2>4. \A i \in 1..Len(s) : s[i] # e
    BY <1>2, <2>2, Zenon DEF Range
  <2>5. QED
    BY <2>1, <2>2, <2>3, <2>4 DEF IsInjective
<1>3. QED
  BY <1>1, <1>2, Zenon

-----------------------------------------------------------------------------
(* Dedup: a list without repeats exists for every list.  By induction on    *)
(* the length, as a search for a least counterexample.                      *)

HasDedup(r) ==
  \E s \in UNION {[1..n -> Range(r)] : n \in 0..Len(r)} : IsDedup(s, r)

\* The first occurrence of an element does not move when the list grows.
LEMMA FirstIndexPrefix ==
  ASSUME NEW S, NEW n \in Nat, NEW r \in [1..(n + 1) -> S],
         NEW e \in Range([i \in 1..n |-> r[i]])
  PROVE  FirstIndex(r, e) = FirstIndex([i \in 1..n |-> r[i]], e)
<1> DEFINE q == [i \in 1..n |-> r[i]]
<1>1. q \in Seq(S) /\ Len(q) = n /\ r \in Seq(S) /\ Len(r) = n + 1
  OBVIOUS
<1>2. e \in Range(r)
  BY DEF Range
<1>3. /\ FirstIndex(q, e) \in 1..n
      /\ q[FirstIndex(q, e)] = e
      /\ \A j \in 1..(FirstIndex(q, e) - 1) : q[j] # e
  BY <1>1, FirstIndexIs, Zenon
<1>4. /\ FirstIndex(r, e) \in 1..(n + 1)
      /\ r[FirstIndex(r, e)] = e
      /\ \A j \in 1..(FirstIndex(r, e) - 1) : r[j] # e
  BY <1>1, <1>2, FirstIndexIs, Zenon
<1>5. \A i \in 1..n : q[i] = r[i]
  BY Zenon
<1> HIDE DEF q
<1>6. FirstIndex(r, e) = FirstIndex(q, e)
  <2> DEFINE x == FirstIndex(q, e)
             y == FirstIndex(r, e)
  <2>1. x \in 1..n /\ r[x] = e /\ \A j \in 1..(x - 1) : r[j] # e
    BY <1>3, <1>5
  <2>2. y \in 1..(n + 1) /\ r[y] = e /\ \A j \in 1..(y - 1) : r[j] # e
    BY <1>4, Zenon
  <2> HIDE DEF x, y
  <2>3. ~(x < y) /\ ~(y < x)
    BY <2>1, <2>2
  <2>4. x = y
    BY <2>1, <2>2, <2>3
  <2>5. QED
    BY <2>4, Zenon DEF x, y
<1>7. QED
  BY <1>6, Zenon DEF q

\* A list one longer has a list without repeats if every shorter one has.
LEMMA DedupStep ==
  ASSUME NEW S, NEW n \in Nat, \A q \in [1..n -> S] : HasDedup(q),
         NEW r \in [1..(n + 1) -> S]
  PROVE  HasDedup(r)
<1> DEFINE q == [i \in 1..n |-> r[i]]
<1>1. q \in [1..n -> S] /\ q \in Seq(S) /\ Len(q) = n
  OBVIOUS
<1>2. r \in Seq(S) /\ Len(r) = n + 1
  OBVIOUS
<1>3. Range(r) = Range(q) \cup {r[n + 1]}
  BY <1>1 DEF Range
<1>4. \A e \in Range(q) : FirstIndex(r, e) = FirstIndex(q, e)
  BY FirstIndexPrefix, ZenonT(30)
<1>5. \A e \in Range(q) : FirstIndex(q, e) \in 1..n
  BY <1>1, FirstIndexIs, Zenon
<1>6. HasDedup(q)
  BY <1>1, Zenon
<1> HIDE DEF q
<1> PICK m \in 0..n : \E s \in [1..m -> Range(q)] : IsDedup(s, q)
  BY <1>1, <1>6, Zenon DEF HasDedup
<1>7. PICK s \in [1..m -> Range(q)] : IsDedup(s, q)
  BY Zenon
<1>8. s \in Seq(Range(q)) /\ Len(s) = m /\ DOMAIN s = 1..m
  OBVIOUS
<1>9. CASE r[n + 1] \in Range(q)
  <2>1. Range(r) = Range(q)
    BY <1>3, <1>9, Zenon
  <2>2. IsDedup(s, r)
    BY <1>4, <1>7, <1>8, <2>1 DEF IsDedup
  <2>3. QED
    BY <1>2, <2>1, <2>2 DEF HasDedup
<1>10. CASE r[n + 1] \notin Range(q)
  <2> DEFINE e == r[n + 1]
             t == [i \in 1..(m + 1) |-> IF i = m + 1 THEN e ELSE s[i]]
  <2>1. t \in [1..(m + 1) -> Range(r)] /\ t \in Seq(Range(r)) /\ Len(t) = m + 1 /\ DOMAIN t = 1..(m + 1)
    BY <1>3
  <2>2. \A i \in 1..m : t[i] = s[i] /\ s[i] \in Range(q)
    BY <1>8
  <2>3. t[m + 1] = e
    OBVIOUS
  <2>4. \A i \in 1..m : s[i] # e
    BY <1>10, <2>2, Zenon
  <2> HIDE DEF t, e
  <2>5. IsInjective(t)
    BY <1>7, <1>8, <2>1, <2>2, <2>3, <2>4 DEF IsDedup, IsInjective
  <2>6. Range(t) = Range(r)
    <3>1. Range(s) = Range(q)
      BY <1>7, Zenon DEF IsDedup
    <3>2. Range(t) = Range(s) \cup {e}
      <4>1. \A i \in 1..(m + 1) : i \in 1..m \/ i = m + 1
        OBVIOUS
      <4>2. m + 1 \in 1..(m + 1) /\ 1..m \subseteq 1..(m + 1)
        OBVIOUS
      <4>3. Range(t) \subseteq Range(s) \cup {e}
        BY <1>8, <2>1, <2>2, <2>3, <4>1, Zenon DEF Range
      <4>4. Range(s) \cup {e} \subseteq Range(t)
        BY <1>8, <2>1, <2>2, <2>3, <4>2, Zenon DEF Range
      <4>5. QED
        BY <4>3, <4>4, Zenon
    <3>3. QED
      BY <1>3, <3>1, <3>2, Zenon DEF e
  <2>7. FirstIndex(r, e) = n + 1
    <3>1. e \in Range(r)
      BY <1>3, Zenon DEF e
    <3>2. FirstIndex(r, e) \in 1..(n + 1) /\ r[FirstIndex(r, e)] = e
      BY <1>2, <3>1, FirstIndexIs, Zenon
    <3>3. \A i \in 1..n : r[i] # e
      BY <1>10, Zenon DEF Range, e, q
    <3>4. QED
      BY <3>2, <3>3
  <2>8. ASSUME NEW i \in 1..Len(t), NEW j \in 1..Len(t), i < j
        PROVE  FirstIndex(r, t[i]) < FirstIndex(r, t[j])
    <3>1. i \in 1..m /\ t[i] = s[i] /\ s[i] \in Range(q)
      BY <2>1, <2>2, <2>8
    <3>2. CASE j = m + 1
      BY <1>4, <1>5, <2>3, <2>7, <3>1, <3>2
    <3>3. CASE j # m + 1
      <4>1. j \in 1..m /\ t[j] = s[j] /\ s[j] \in Range(q)
        BY <2>1, <2>2, <3>3
      <4>2. FirstIndex(q, s[i]) < FirstIndex(q, s[j])
        BY <1>7, <1>8, <2>8, <3>1, <4>1, Zenon DEF IsDedup
      <4>3. QED
        BY <1>4, <3>1, <4>1, <4>2, Zenon
    <3>4. QED
      BY <3>2, <3>3, Zenon
  <2>9. IsDedup(t, r)
    BY <2>5, <2>6, <2>8, Zenon DEF IsDedup
  <2>10. QED
    BY <1>2, <2>1, <2>9 DEF HasDedup
<1>11. QED
  BY <1>9, <1>10, Zenon

\* Every list has a list without repeats.
LEMMA DedupExists ==
  ASSUME NEW S, NEW r \in Seq(S)
  PROVE  HasDedup(r)
<1> DEFINE T == {n \in Nat : ~(\A q \in [1..n -> S] : HasDedup(q))}
<1>1. \A q \in [1..0 -> S] : HasDedup(q)
  <2> SUFFICES ASSUME NEW q \in [1..0 -> S]
               PROVE  HasDedup(q)
    BY Zenon
  <2>1. q \in Seq(S) /\ Len(q) = 0 /\ DOMAIN q = 1..0 /\ 1..0 = {}
    OBVIOUS
  <2>2. Range(q) = {}
    BY <2>1, Zenon DEF Range
  <2>3. q \in [1..0 -> Range(q)]
    BY <2>1, Zenon
  <2>4. IsDedup(q, q)
    BY <2>1, Zenon DEF IsDedup, IsInjective
  <2>5. 0 \in 0..Len(q)
    BY <2>1
  <2>6. q \in UNION {[1..n -> Range(q)] : n \in 0..Len(q)}
    BY <2>3, <2>5, Zenon
  <2>7. QED
    BY <2>4, <2>6, Zenon DEF HasDedup
<1>2. T = {}
  <2> SUFFICES ASSUME T # {} PROVE FALSE
    BY Zenon
  <2>1. PICK n \in T : \A y \in T : n <= y
    BY LeastNumber, Zenon
  <2>2. n \in Nat /\ n # 0 /\ n - 1 \in Nat /\ (n - 1) + 1 = n
    BY <1>1
  <2>3. n - 1 \notin T
    BY <2>1, <2>2
  <2>4. \A q \in [1..(n - 1) -> S] : HasDedup(q)
    BY <2>2, <2>3, Zenon
  <2>5. \A q \in [1..n -> S] : HasDedup(q)
    BY <2>2, <2>4, DedupStep, Zenon
  <2>6. QED
    BY <2>1, <2>5, Zenon
<1>3. r \in [1..Len(r) -> S] /\ Len(r) \in Nat
  OBVIOUS
<1>4. QED
  BY <1>2, <1>3, Zenon

\* Dedup(r) is a list without repeats over the elements of r.
LEMMA DedupIs ==
  ASSUME NEW S, NEW r \in Seq(S)
  PROVE  /\ Dedup(r) \in Seq(S)
         /\ IsDedup(Dedup(r), r)
<1>1. HasDedup(r)
  BY DedupExists, Zenon
<1>2. /\ Dedup(r) \in UNION {[1..n -> Range(r)] : n \in 0..Len(r)}
      /\ IsDedup(Dedup(r), r)
  BY <1>1, Zenon DEF HasDedup, Dedup
<1>3. Range(r) \subseteq S
  BY DEF Range
<1>4. PICK n \in 0..Len(r) : Dedup(r) \in [1..n -> Range(r)]
  BY <1>2, Zenon
<1>5. Dedup(r) \in [1..n -> S] /\ n \in Nat
  BY <1>3, <1>4
<1>6. QED
  BY <1>2, <1>5

=============================================================================
