------------------------ MODULE ReplicatedFSM_proofs ------------------------
(***************************************************************************)
(* Servers that have applied as much of one log agree, for any servers,    *)
(* commands and array capacities.                                          *)
(***************************************************************************)
EXTENDS ReplicatedFSM, ReplicaLists_proofs

-----------------------------------------------------------------------------
(* The servers of one log *)

\* Every address belongs to one node.  Two nodes with one address would leave
\* the choice between them to the order in which Go ranges over a map.
UniqueAddresses ==
  \A c, d \in Commands :
    c.op = "RegisterNode" /\ d.op = "RegisterNode" /\ c.addr = d.addr => c.node = d.node

\* The list of the chunk after a command, without slices.
ListAfter(st, cmd) ==
  CASE cmd.op = "CommitChunk" /\ ~st.committed ->
         CHOOSE ids \in NormalizedReplicas(st.nodes, cmd.raw) : TRUE
    [] cmd.op = "EvictChunkFromNode" /\ cmd.node \in Range(st.list) ->
         EvictReplica(st.list, cmd.node)
    [] cmd.op = "AddChunkReplica" ->
         AddReplica(st.list, cmd.node)
    [] OTHER -> st.list

NodesAfter(st, cmd) ==
  IF cmd.op = "RegisterNode" THEN Put(st.nodes, cmd.node, cmd.addr) ELSE st.nodes

After(st, cmd) ==
  [nodes |-> NodesAfter(st, cmd),
   committed |-> st.committed \/ cmd.op = "CommitChunk",
   list |-> ListAfter(st, cmd)]

Empty == [nodes |-> EmptyRegistry, committed |-> FALSE, list |-> <<>>]

\* The addresses come from commands.
Registered(m) ==
  \A n \in DOMAIN m : \E c \in Commands : c.op = "RegisterNode" /\ c.node = n /\ c.addr = m[n]

\* What a state of the metadata is.
IsState(st) == Registered(st.nodes) /\ st.committed \in BOOLEAN /\ st.list \in Seq(Machines)

\* h gives the state after each prefix of the log.
History(h) ==
  /\ DOMAIN h = 0..Len(log)
  /\ h[0] = Empty
  /\ \A k \in 1..Len(log) : h[k] = After(h[k - 1], log[k])
  /\ \A k \in 0..Len(log) : IsState(h[k])

\* The arrays a server has allocated.
Heaps == Seq(Seq(Machines \cup {NoHost}))

\* A slice over an array of the heap m, or nil.
IsSlice(m, slice) ==
  /\ slice \in [ptr : Nat, len : Nat]
  /\ slice.ptr \in 0..Len(m)
  /\ slice.ptr = 0 => slice.len = 0
  /\ slice.ptr # 0 => slice.len <= Len(m[slice.ptr])

\* What a server holds is the state after the commands it has applied.
ServerFits(h, s) ==
  /\ applied[s] \in 0..Len(log)
  /\ heap[s] \in Heaps
  /\ IsSlice(heap[s], replicas[s])
  /\ nodes[s] = h[applied[s]].nodes
  /\ committed[s] = h[applied[s]].committed
  /\ List(s) = h[applied[s]].list

\* So is what a snapshot will have been written as: its array still holds the
\* list, and the server's own slice is no shorter if it is in the same array,
\* so that an append writes behind the snapshot's part.
SnapFits(h, s, sn) ==
  /\ DOMAIN sn = {"index", "nodes", "committed", "slice", "out"}
  /\ sn.index \in 0..Len(log)
  /\ sn.nodes = h[sn.index].nodes
  /\ sn.committed = h[sn.index].committed
  /\ IsSlice(heap[s], sn.slice)
  /\ Elems(heap[s], sn.slice) = h[sn.index].list
  /\ sn.slice.ptr = replicas[s].ptr => sn.slice.len <= replicas[s].len
  /\ sn.out \in Seq(Machines) /\ Len(sn.out) <= sn.slice.len
  /\ sn.out = SubSeq(h[sn.index].list, 1, Len(sn.out))

\* A snapshot on disk.
DiskFits(h, sn) ==
  /\ sn.index \in 0..Len(log)
  /\ sn.nodes = h[sn.index].nodes
  /\ sn.committed = h[sn.index].committed
  /\ sn.slice.ptr = 0 => sn.out = <<>>
  /\ sn.out = h[sn.index].list

Fits(h) ==
  /\ History(h)
  /\ \A s \in Peers : /\ ServerFits(h, s)
                      /\ \A sn \in snap[s] : SnapFits(h, s, sn)
                      /\ \A sn \in disk[s] : DiskFits(h, sn)

Shapes ==
  /\ log \in Seq(Commands)
  /\ applied \in [Peers -> Nat]
  /\ DOMAIN nodes = Peers /\ DOMAIN committed = Peers
  /\ DOMAIN heap = Peers /\ DOMAIN replicas = Peers
  /\ DOMAIN snap = Peers /\ DOMAIN disk = Peers

LogInv == Shapes /\ \E h : Fits(h)

-----------------------------------------------------------------------------
(* Lists and slices *)

\* The elements an array begins with.
LEMMA PrefixIs ==
  ASSUME NEW S, NEW a \in Seq(S), NEW n \in 0..Len(a)
  PROVE  /\ SubSeq(a, 1, n) \in Seq(S) /\ Len(SubSeq(a, 1, n)) = n
         /\ \A i \in 1..n : SubSeq(a, 1, n)[i] = a[i]
OBVIOUS

\* Two lists with the same entries are equal.
LEMMA SameList ==
  ASSUME NEW S, NEW a \in Seq(S), NEW b \in Seq(S), Len(a) = Len(b),
         \A i \in 1..Len(a) : a[i] = b[i]
  PROVE  a = b
OBVIOUS

\* A list is what its concatenation with another one begins with.
LEMMA PrefixCat ==
  ASSUME NEW S, NEW a \in Seq(S), NEW b \in Seq(S)
  PROVE  /\ a \o b \in Seq(S) /\ Len(a) <= Len(a \o b) /\ Len(a) \in Nat
         /\ SubSeq(a \o b, 1, Len(a)) = a
<1>1. /\ a \o b \in Seq(S) /\ Len(a \o b) = Len(a) + Len(b) /\ Len(a) \in Nat /\ Len(b) \in Nat
      /\ \A i \in 1..Len(a) : (a \o b)[i] = a[i]
  OBVIOUS
<1>2. Len(a) \in 0..Len(a \o b)
  BY <1>1
<1> DEFINE c == a \o b
<1> HIDE DEF c
<1>3. /\ SubSeq(c, 1, Len(a)) \in Seq(S) /\ Len(SubSeq(c, 1, Len(a))) = Len(a)
      /\ \A i \in 1..Len(a) : SubSeq(c, 1, Len(a))[i] = c[i]
  BY <1>1, <1>2, PrefixIs, Zenon DEF c
<1>4. SubSeq(c, 1, Len(a)) = a
  BY <1>1, <1>3, SameList, Zenon DEF c
<1> QED BY <1>1, <1>4 DEF c

\* Writing the first spare cell appends to the slice before it.
LEMMA PrefixPlus ==
  ASSUME NEW S, NEW a \in Seq(S), NEW n \in Nat, n < Len(a), NEW e \in S,
         NEW b, b = [a EXCEPT ![n + 1] = e]
  PROVE  /\ b \in Seq(S) /\ Len(b) = Len(a)
         /\ SubSeq(b, 1, n + 1) = Append(SubSeq(a, 1, n), e)
<1> DEFINE l == SubSeq(a, 1, n)
<1>1. b \in Seq(S) /\ Len(b) = Len(a) /\ b[n + 1] = e /\ \A i \in 1..n : b[i] = a[i]
  OBVIOUS
<1>2. l \in Seq(S) /\ Len(l) = n /\ \A i \in 1..n : l[i] = a[i]
  BY PrefixIs
<1> HIDE DEF l
<1>3. n + 1 \in 0..Len(b)
  BY <1>1
<1>4. /\ SubSeq(b, 1, n + 1) \in Seq(S) /\ Len(SubSeq(b, 1, n + 1)) = n + 1
      /\ \A i \in 1..(n + 1) : SubSeq(b, 1, n + 1)[i] = b[i]
  BY <1>1, <1>3, PrefixIs
<1>5. /\ Append(l, e) \in Seq(S) /\ Len(Append(l, e)) = n + 1 /\ Append(l, e)[n + 1] = e
      /\ \A i \in 1..n : Append(l, e)[i] = l[i]
  BY <1>2
<1>6. \A i \in 1..(n + 1) : SubSeq(b, 1, n + 1)[i] = Append(l, e)[i]
  BY <1>1, <1>2, <1>4, <1>5
<1>7. SubSeq(b, 1, n + 1) = Append(l, e)
  BY <1>4, <1>5, <1>6, SameList, Zenon
<1> QED BY <1>1, <1>7, Zenon DEF l

\* A cell behind a slice does not matter to it.
LEMMA PrefixSame ==
  ASSUME NEW S, NEW a \in Seq(S), NEW n \in Nat, n < Len(a), NEW e \in S,
         NEW b, b = [a EXCEPT ![n + 1] = e], NEW k \in 0..n
  PROVE  SubSeq(b, 1, k) = SubSeq(a, 1, k)
<1>1. b \in Seq(S) /\ Len(b) = Len(a) /\ \A i \in 1..n : b[i] = a[i]
  OBVIOUS
<1>2. k \in 0..Len(a) /\ k \in 0..Len(b)
  BY <1>1
<1>3. /\ SubSeq(a, 1, k) \in Seq(S) /\ Len(SubSeq(a, 1, k)) = k
      /\ \A i \in 1..k : SubSeq(a, 1, k)[i] = a[i]
  BY <1>2, PrefixIs, Zenon
<1>4. /\ SubSeq(b, 1, k) \in Seq(S) /\ Len(SubSeq(b, 1, k)) = k
      /\ \A i \in 1..k : SubSeq(b, 1, k)[i] = b[i]
  BY <1>1, <1>2, PrefixIs
<1> QED BY <1>1, <1>3, <1>4, SameList

\* A new array begins with the list it is made for.
LEMMA NewArrayIs ==
  ASSUME NEW l \in Seq(Machines), NEW a \in NewArrays(l)
  PROVE  /\ a \in Seq(Machines \cup {NoHost}) /\ Len(l) <= Len(a) /\ Len(l) \in Nat
         /\ SubSeq(a, 1, Len(l)) = l
<1>1. PICK k \in Slack : a = l \o [i \in 1..k |-> NoHost]
  BY Zenon DEF NewArrays
<1>2. l \in Seq(Machines \cup {NoHost}) /\ [i \in 1..k |-> NoHost] \in Seq(Machines \cup {NoHost})
  BY BoundsAssumption
<1> QED BY <1>1, <1>2, PrefixCat, Zenon

-----------------------------------------------------------------------------
(* The state after a command *)

\* With unique addresses an entry stands for one node only, and so a confirmed
\* list is normalised in one way.
LEMMA NormalizedOne ==
  ASSUME UniqueAddresses, NEW m, Registered(m), NEW raw \in Seq(Machines)
  PROVE  \E ids \in Seq(Machines) : NormalizedReplicas(m, raw) = {ids}
<1> DEFINE At(e) == {n \in DOMAIN m : m[n] = e}
           One(e) == IF e \in DOMAIN m \/ At(e) = {} THEN e ELSE CHOOSE n \in At(e) : TRUE
           all == [i \in 1..Len(raw) |-> One(raw[i])]
<1>1. DOMAIN m \subseteq Machines
  BY CommandsAssumption DEF Registered
<1>2. \A a, b \in DOMAIN m : m[a] = m[b] => a = b
  BY DEF Registered, UniqueAddresses
<1>3. \A e : ResolvedIDs(m, e) = {One(e)}
  <2> TAKE e
  <2>1. CASE e \in DOMAIN m \/ At(e) = {}
    BY <2>1, Zenon DEF ResolvedIDs
  <2>2. CASE ~(e \in DOMAIN m \/ At(e) = {})
    <3>1. ResolvedIDs(m, e) = At(e) /\ One(e) = CHOOSE n \in At(e) : TRUE
      BY <2>2, Zenon DEF ResolvedIDs
    <3>2. One(e) \in At(e)
      BY <2>2, <3>1, Zenon
    <3>3. \A n \in At(e) : n = One(e)
      BY <1>2, <3>2, Zenon
    <3> QED BY <3>1, <3>2, <3>3, Zenon
  <2> QED BY <2>1, <2>2, Zenon
<1>4. \A e \in Machines : One(e) \in DOMAIN m \cup {e}
  BY Zenon
<1> HIDE DEF One
<1>5. /\ Len(raw) \in Nat /\ raw \in [1..Len(raw) -> Machines] /\ DOMAIN raw = 1..Len(raw)
      /\ \A i \in 1..Len(raw) : raw[i] \in Range(raw)
  BY DEF Range
<1>6. all \in [1..Len(raw) -> DOMAIN m \cup Range(raw)] /\ all \in Seq(Machines)
  <2>1. \A i \in 1..Len(raw) : One(raw[i]) \in DOMAIN m \cup {raw[i]}
    BY <1>4, <1>5, Zenon
  <2>2. \A i \in 1..Len(raw) : One(raw[i]) \in DOMAIN m \cup Range(raw) /\ One(raw[i]) \in Machines
    BY <1>1, <1>5, <2>1, Zenon
  <2>3. all \in [1..Len(raw) -> DOMAIN m \cup Range(raw)] /\ all \in [1..Len(raw) -> Machines]
    BY <2>2, Zenon
  <2> QED BY <1>5, <2>3
<1>7. Resolutions(m, raw) = {all}
  <2>1. all \in Resolutions(m, raw)
    BY <1>3, <1>6, Zenon DEF Resolutions
  <2>2. ASSUME NEW ids \in Resolutions(m, raw) PROVE ids = all
    <3>1. ids \in [1..Len(raw) -> DOMAIN m \cup Range(raw)]
      BY Zenon DEF Resolutions
    <3>2. \A i \in 1..Len(raw) : ids[i] = One(raw[i])
      BY <1>3, Zenon DEF Resolutions
    <3> QED BY <3>1, <3>2, Zenon
  <2> QED BY <2>1, <2>2, Zenon
<1> HIDE DEF all
<1>8. NormalizedReplicas(m, raw) = {Dedup(all)}
  BY <1>7, Zenon DEF NormalizedReplicas
<1> QED BY <1>6, <1>8, DedupIs, Zenon

\* Nothing is registered at first.
LEMMA EmptyFits == IsState(Empty)
BY DEF IsState, Empty, Registered, EmptyRegistry

\* A command leads from a state to a state.
LEMMA AfterFits ==
  ASSUME UniqueAddresses, NEW st, IsState(st), NEW cmd \in Commands
  PROVE  IsState(After(st, cmd))
<1>1. /\ After(st, cmd).nodes = NodesAfter(st, cmd)
      /\ After(st, cmd).committed = (st.committed \/ cmd.op = "CommitChunk")
      /\ After(st, cmd).list = ListAfter(st, cmd)
  BY Zenon DEF After
<1>2. Registered(NodesAfter(st, cmd))
  <2>1. CASE cmd.op = "RegisterNode"
    <3>1. NodesAfter(st, cmd) = Put(st.nodes, cmd.node, cmd.addr)
      BY <2>1, Zenon DEF NodesAfter
    <3> QED BY <2>1, <3>1 DEF Registered, Put, IsState
  <2>2. CASE cmd.op # "RegisterNode"
    BY <2>2, Zenon DEF NodesAfter, IsState
  <2> QED BY <2>1, <2>2, Zenon
<1>3. ListAfter(st, cmd) \in Seq(Machines)
  <2>1. CASE cmd.op = "CommitChunk" /\ ~st.committed
    <3>1. cmd.raw \in Seq(Machines)
      BY <2>1, CommandsAssumption, Zenon
    <3>2. PICK ids \in Seq(Machines) : NormalizedReplicas(st.nodes, cmd.raw) = {ids}
      BY <3>1, NormalizedOne, Zenon DEF IsState
    <3> QED BY <2>1, <3>2, Zenon DEF ListAfter
  <2>2. CASE cmd.op = "EvictChunkFromNode" /\ cmd.node \in Range(st.list)
    <3>1. EvictReplica(st.list, cmd.node) \in Seq(Machines)
      BY <2>2, EvictReplicaType, Zenon DEF IsState
    <3> QED BY <2>2, <3>1, Zenon DEF ListAfter
  <2>3. CASE cmd.op = "AddChunkReplica"
    <3>1. cmd.node \in Machines
      BY <2>3, CommandsAssumption, Zenon
    <3>2. AddReplica(st.list, cmd.node) \in Seq(Machines)
      BY <3>1, AddReplicaType, Zenon DEF IsState
    <3> QED BY <2>3, <3>2, Zenon DEF ListAfter
  <2>4. CASE /\ ~(cmd.op = "CommitChunk" /\ ~st.committed)
             /\ ~(cmd.op = "EvictChunkFromNode" /\ cmd.node \in Range(st.list))
             /\ cmd.op # "AddChunkReplica"
    BY <2>4, Zenon DEF ListAfter, IsState
  <2> QED BY <2>1, <2>2, <2>3, <2>4, Zenon
<1> QED BY <1>1, <1>2, <1>3, Zenon DEF IsState

-----------------------------------------------------------------------------
(* The invariant holds at first and after every step *)

\* At first the log is empty, and so is every server.
LEMMA LogInvInit == ReplicatedInit => LogInv
<1> SUFFICES ASSUME ReplicatedInit PROVE LogInv
  BY Zenon
<1> USE DEF ReplicatedInit
<1> DEFINE h == [k \in 0..0 |-> Empty]
<1>1. Shapes
  BY DEF Shapes
<1>2. Len(log) = 0 /\ DOMAIN h = 0..0 /\ h[0] = Empty /\ 0..0 = {0} /\ 1..0 = {}
  OBVIOUS
<1>3. History(h)
  BY <1>2, EmptyFits, Zenon DEF History
<1> HIDE DEF h
<1>4. ASSUME NEW s \in Peers PROVE ServerFits(h, s)
  <2>1. heap[s] = <<>> /\ replicas[s] = NilSlice /\ List(s) = <<>>
    BY Zenon DEF List, Elems, NilSlice
  <2>2. IsSlice(heap[s], replicas[s])
    BY <2>1 DEF IsSlice, NilSlice
  <2>3. heap[s] \in Heaps /\ applied[s] = 0 /\ 0 \in 0..Len(log)
    BY <1>2, <2>1 DEF Heaps
  <2>4. nodes[s] = h[0].nodes /\ committed[s] = h[0].committed /\ List(s) = h[0].list
    BY <1>2, <2>1 DEF Empty
  <2> QED BY <2>2, <2>3, <2>4, Zenon DEF ServerFits
<1>5. Fits(h)
  BY <1>3, <1>4, Zenon DEF Fits
<1> QED BY <1>1, <1>5, Zenon DEF LogInv

\* A longer log has the same states at its beginning, and one more.
LEMMA ProposeFits ==
  ASSUME UniqueAddresses, Shapes, NEW h, Fits(h), NEW cmd \in Commands, Propose(cmd)
  PROVE  \E g : Fits(g)'
<1>0. PICK n : n = Len(log)
  BY Zenon
<1>1. /\ n \in Nat /\ Len(log') = n + 1 /\ log'[n + 1] = cmd
      /\ \A k \in 1..n : log'[k] = log[k]
      /\ UNCHANGED <<applied, nodes, heap, committed, replicas, snap, disk>>
  BY <1>0 DEF Propose, Shapes
<1>2. History(h)
  BY Zenon DEF Fits
<1>3. n + 1 \notin 0..n /\ n + 1 \in 0..(n + 1) /\ n \in 0..n /\ 0 \in 0..n
      /\ \A k \in 0..n : k \in 0..(n + 1)
      /\ \A i \in 0..(n + 1) : i \in 0..n \/ i = n + 1
  BY <1>1
<1>4. PICK g : /\ DOMAIN g = 0..(n + 1) /\ g[n + 1] = After(h[n], cmd)
               /\ \A k \in 0..n : g[k] = h[k]
  <2> DEFINE f == [k \in 0..(n + 1) |-> IF k \in 0..n THEN h[k] ELSE After(h[n], cmd)]
  <2>1. DOMAIN f = 0..(n + 1) /\ f[n + 1] = After(h[n], cmd) /\ \A k \in 0..n : f[k] = h[k]
    BY <1>3, Zenon
  <2> HIDE DEF f
  <2> QED BY <2>1, Zenon
<1>5. History(g)'
  <2>1. \A k \in 0..n : IsState(h[k])
    BY <1>0, <1>2, Zenon DEF History
  <2>2. IsState(After(h[n], cmd))
    BY <1>3, <2>1, AfterFits, Zenon
  <2>3. \A k \in 0..(n + 1) : IsState(g[k])
    BY <1>3, <1>4, <2>1, <2>2, Zenon
  <2>4. ASSUME NEW k \in 1..(n + 1) PROVE g[k] = After(g[k - 1], log'[k])
    <3>1. CASE k = n + 1
      BY <1>1, <1>3, <1>4, <3>1
    <3>2. CASE k # n + 1
      <4>1. k \in 1..n /\ k \in 0..n /\ k - 1 \in 0..n
        BY <1>1, <3>2
      <4>2. h[k] = After(h[k - 1], log[k])
        BY <1>0, <1>2, <4>1, Zenon DEF History
      <4> QED BY <1>1, <1>4, <4>1, <4>2, Zenon
    <3> QED BY <3>1, <3>2, Zenon
  <2>5. g[0] = Empty
    BY <1>2, <1>3, <1>4, Zenon DEF History
  <2>6. DOMAIN g = 0..Len(log') /\ 1..(n + 1) = 1..Len(log')
    BY <1>1, <1>4, Zenon
  <2> QED BY <1>4, <2>3, <2>4, <2>5, <2>6, Zenon DEF History
<1>6. \A k \in 0..Len(log) : g[k] = h[k] /\ k \in 0..Len(log')
  BY <1>0, <1>1, <1>3, <1>4, Zenon
<1>7. ASSUME NEW s \in Peers
      PROVE  /\ ServerFits(g, s)'
             /\ \A sn \in snap'[s] : SnapFits(g, s, sn)'
             /\ \A sn \in disk'[s] : DiskFits(g, sn)'
  <2>1. ServerFits(g, s)'
    <3>1. ServerFits(h, s)
      BY Zenon DEF Fits
    <3>2. List(s)' = List(s)
      BY <1>1, Zenon DEF List
    <3>3. applied[s] \in 0..Len(log') /\ g[applied[s]] = h[applied[s]]
      BY <1>6, <3>1, Zenon DEF ServerFits
    <3> QED BY <1>1, <3>1, <3>2, <3>3, Zenon DEF ServerFits
  <2>2. ASSUME NEW sn \in snap'[s] PROVE SnapFits(g, s, sn)'
    <3>1. SnapFits(h, s, sn)
      BY <1>1, Zenon DEF Fits
    <3>2. sn.index \in 0..Len(log') /\ g[sn.index] = h[sn.index]
      BY <1>6, <3>1, Zenon DEF SnapFits
    <3> QED BY <1>1, <3>1, <3>2, Zenon DEF SnapFits
  <2>3. ASSUME NEW sn \in disk'[s] PROVE DiskFits(g, sn)'
    <3>1. DiskFits(h, sn)
      BY <1>1, Zenon DEF Fits
    <3>2. sn.index \in 0..Len(log') /\ g[sn.index] = h[sn.index]
      BY <1>6, <3>1, Zenon DEF DiskFits
    <3> QED BY <3>1, <3>2, Zenon DEF DiskFits
  <2> QED BY <2>1, <2>2, <2>3, Zenon
<1>8. Fits(g)'
  BY <1>5, <1>7, Zenon DEF Fits
<1> QED BY <1>8, Zenon

\* A step of one server.
LEMMA OneServer ==
  ASSUME NEW h, Fits(h), log' = log, NEW s \in Peers,
         \A t \in Peers \ {s} :
           /\ applied'[t] = applied[t] /\ nodes'[t] = nodes[t] /\ committed'[t] = committed[t]
           /\ heap'[t] = heap[t] /\ replicas'[t] = replicas[t]
           /\ snap'[t] = snap[t] /\ disk'[t] = disk[t],
         ServerFits(h, s)',
         \A sn \in snap'[s] : SnapFits(h, s, sn)',
         \A sn \in disk'[s] : DiskFits(h, sn)'
  PROVE  Fits(h)'
<1>1. History(h)'
  BY Zenon DEF Fits, History
<1>2. ASSUME NEW t \in Peers \ {s} PROVE ServerFits(h, t)'
  <2>1. ServerFits(h, t)
    BY Zenon DEF Fits
  <2>2. List(t)' = List(t)
    BY Zenon DEF List
  <2> QED BY <2>1, <2>2, Zenon DEF ServerFits
<1>3. ASSUME NEW t \in Peers \ {s}, NEW sn \in snap'[t] PROVE SnapFits(h, t, sn)'
  <2>1. SnapFits(h, t, sn)
    BY Zenon DEF Fits
  <2>2. heap'[t] = heap[t] /\ replicas'[t] = replicas[t]
    BY Zenon
  <2> QED BY <2>1, <2>2, SMT DEF SnapFits
<1>4. ASSUME NEW t \in Peers, NEW sn \in disk[t] PROVE DiskFits(h, sn)'
  <2>1. DiskFits(h, sn)
    BY Zenon DEF Fits
  <2> QED BY <2>1, Zenon DEF DiskFits
<1> QED BY <1>1, <1>2, <1>3, <1>4, Zenon DEF Fits

-----------------------------------------------------------------------------
(* What the handlers do to the arrays *)

\* The slices that lie within the first len cells of a server's array, or in
\* another one, stand for what they stood for.
Keeps(m, r, m2, r2) ==
  \A sl : IsSlice(m, sl) /\ (sl.ptr = r.ptr => sl.len <= r.len) =>
    /\ IsSlice(m2, sl) /\ Elems(m2, sl) = Elems(m, sl)
    /\ sl.ptr = r2.ptr => sl.len <= r2.len

\* An array of a heap is replaced.
LEMMA ReplaceArray ==
  ASSUME NEW D, NEW m \in Seq(D), NEW i \in 1..Len(m), NEW b \in D,
         NEW m2, m2 = [m EXCEPT ![i] = b]
  PROVE  /\ m2 \in Seq(D) /\ Len(m2) = Len(m) /\ m2[i] = b
         /\ \A j \in 1..Len(m) : j # i => m2[j] = m[j]
OBVIOUS

\* A slice whose array is the same.
LEMMA SameSlice ==
  ASSUME NEW m, NEW m2, NEW sl, IsSlice(m, sl), sl.ptr \in 0..Len(m2),
         sl.ptr # 0 => m2[sl.ptr] = m[sl.ptr]
  PROVE  IsSlice(m2, sl) /\ Elems(m2, sl) = Elems(m, sl)
<1>1. CASE sl.ptr = 0
  BY <1>1, Zenon DEF IsSlice, Elems
<1>2. CASE sl.ptr # 0
  BY <1>2, Zenon DEF IsSlice, Elems
<1> QED BY <1>1, <1>2, Zenon

\* A list goes to a new array.
LEMMA AllocateFits ==
  ASSUME NEW m \in Heaps, NEW r, NEW l \in Seq(Machines), NEW a \in NewArrays(l),
         NEW r2, r2 = [ptr |-> Len(m) + 1, len |-> Len(l)]
  PROVE  /\ Append(m, a) \in Heaps /\ IsSlice(Append(m, a), r2) /\ Elems(Append(m, a), r2) = l
         /\ Keeps(m, r, Append(m, a), r2)
<1> DEFINE m2 == Append(m, a)
<1>1. a \in Seq(Machines \cup {NoHost}) /\ Len(l) <= Len(a) /\ Len(l) \in Nat /\ SubSeq(a, 1, Len(l)) = l
  BY NewArrayIs, Zenon
<1>2. /\ m2 \in Heaps /\ Len(m) \in Nat /\ Len(m2) = Len(m) + 1 /\ m2[Len(m) + 1] = a
      /\ \A i \in 1..Len(m) : m2[i] = m[i]
  BY <1>1 DEF Heaps
<1> HIDE DEF m2
<1>3. r2.ptr = Len(m) + 1 /\ r2.len = Len(l) /\ r2 \in [ptr : Nat, len : Nat]
  BY <1>1, <1>2
<1>4. r2.ptr # 0 /\ r2.ptr \in 0..Len(m2) /\ m2[r2.ptr] = a
  BY <1>2, <1>3
<1>5. IsSlice(m2, r2) /\ Elems(m2, r2) = l
  BY <1>1, <1>3, <1>4, Zenon DEF IsSlice, Elems
<1>6. ASSUME NEW sl, IsSlice(m, sl)
      PROVE  IsSlice(m2, sl) /\ Elems(m2, sl) = Elems(m, sl) /\ sl.ptr # r2.ptr
  <2>1. sl.ptr \in 0..Len(m)
    BY <1>6, Zenon DEF IsSlice
  <2>2. sl.ptr \in 0..Len(m2) /\ (sl.ptr # 0 => m2[sl.ptr] = m[sl.ptr])
    BY <1>2, <2>1
  <2>3. sl.ptr # r2.ptr
    BY <1>2, <1>3, <2>1
  <2>4. IsSlice(m2, sl) /\ Elems(m2, sl) = Elems(m, sl)
    BY <1>6, <2>2, SameSlice, SMT
  <2> QED BY <2>3, <2>4, Zenon
<1>7. Keeps(m, r, m2, r2)
  BY <1>6, Zenon DEF Keeps
<1> QED BY <1>2, <1>5, <1>7, Zenon DEF m2

\* An entry goes to a spare cell.
LEMMA SpareFits ==
  ASSUME NEW m \in Heaps, NEW r, IsSlice(m, r), r.ptr # 0, r.len < Len(m[r.ptr]), NEW e \in Machines,
         NEW m2 \in Heaps, Len(m2) = Len(m), m2[r.ptr] = [m[r.ptr] EXCEPT ![r.len + 1] = e],
         \A i \in 1..Len(m) : i # r.ptr => m2[i] = m[i],
         NEW r2, r2 = [r EXCEPT !.len = r.len + 1]
  PROVE  /\ IsSlice(m2, r2) /\ Elems(m2, r2) = Append(Elems(m, r), e)
         /\ Keeps(m, r, m2, r2)
<1> DEFINE C == Machines \cup {NoHost}
           a == m[r.ptr]
           b == m2[r.ptr]
<1>1. r.ptr \in 1..Len(m) /\ r.len \in Nat /\ r.ptr \in Nat
  BY DEF IsSlice, Heaps
<1>2. a \in Seq(C) /\ e \in C /\ r.len < Len(a) /\ b = [a EXCEPT ![r.len + 1] = e]
  BY <1>1 DEF Heaps
<1> HIDE DEF C, a, b
<1>3. b \in Seq(C) /\ Len(b) = Len(a) /\ SubSeq(b, 1, r.len + 1) = Append(SubSeq(a, 1, r.len), e)
  <2> DEFINE k == r.len
  <2>1. k \in Nat /\ k < Len(a) /\ b = [a EXCEPT ![k + 1] = e]
    BY <1>1, <1>2, Zenon
  <2> HIDE DEF k
  <2>2. \A d : d = [a EXCEPT ![k + 1] = e] =>
               /\ d \in Seq(C) /\ Len(d) = Len(a)
               /\ SubSeq(d, 1, k + 1) = Append(SubSeq(a, 1, k), e)
    <3>1. a \in Seq(C) /\ e \in C
      BY <1>2, Zenon
    <3> HIDE DEF C, a, b
    <3> QED BY <2>1, <3>1, PrefixPlus, SMT
  <2> QED BY <2>1, <2>2, Zenon DEF k
<1>4. \A k \in 0..r.len : SubSeq(b, 1, k) = SubSeq(a, 1, k)
  BY <1>1, <1>2, PrefixSame
<1>5. r2.ptr = r.ptr /\ r2.len = r.len + 1 /\ r2 \in [ptr : Nat, len : Nat]
  BY <1>1 DEF IsSlice
<1>7. Len(a) \in Nat /\ Len(m) \in Nat
  BY <1>2 DEF Heaps
<1>8. r2.len <= Len(b) /\ r2.ptr \in 0..Len(m2)
  BY <1>1, <1>2, <1>3, <1>5, <1>7
<1>9. IsSlice(m2, r2)
  BY <1>5, <1>8, Zenon DEF IsSlice, b
<1>10. Elems(m2, r2) = Append(Elems(m, r), e)
  BY <1>3, <1>5, Zenon DEF Elems, a, b
<1>11. ASSUME NEW sl, IsSlice(m, sl), sl.ptr = r.ptr => sl.len <= r.len
       PROVE  /\ IsSlice(m2, sl) /\ Elems(m2, sl) = Elems(m, sl)
              /\ sl.ptr = r2.ptr => sl.len <= r2.len
  <2>1. sl.ptr \in 0..Len(m) /\ sl.len \in Nat /\ sl \in [ptr : Nat, len : Nat]
    BY <1>11, Zenon DEF IsSlice
  <2>2. CASE sl.ptr = r.ptr
    <3>1. sl.len \in 0..r.len /\ sl.len <= r2.len
      BY <1>1, <1>5, <1>11, <2>1, <2>2
    <3>2. IsSlice(m2, sl)
      BY <1>3, <1>11, <2>2, Zenon DEF IsSlice, a, b
    <3>3. Elems(m2, sl) = Elems(m, sl)
      BY <1>4, <2>2, <3>1, Zenon DEF Elems, a, b
    <3> QED BY <3>1, <3>2, <3>3, Zenon
  <2>3. CASE sl.ptr # r.ptr
    <3>1. sl.ptr # 0 => m2[sl.ptr] = m[sl.ptr]
      BY <1>7, <2>1, <2>3
    <3>2. sl.ptr \in 0..Len(m2) /\ sl.ptr # r2.ptr
      BY <1>5, <2>1, <2>3, Zenon
    <3>3. IsSlice(m2, sl) /\ Elems(m2, sl) = Elems(m, sl)
      BY <1>11, <3>1, <3>2, SameSlice, SMT
    <3> QED BY <3>2, <3>3, Zenon
  <2> QED BY <2>2, <2>3, Zenon
<1>12. Keeps(m, r, m2, r2)
  BY <1>11, Zenon DEF Keeps
<1> QED BY <1>9, <1>10, <1>12, Zenon

\* What replaces an array when an entry is cut out.
LEMMA EvictArray ==
  ASSUME NEW m \in Heaps, NEW r, IsSlice(m, r), Elems(m, r) \in Seq(Machines),
         NEW e \in Range(Elems(m, r)),
         NEW b, b = EvictReplica(Elems(m, r), e) \o SubSeq(m[r.ptr], r.len, Len(m[r.ptr]))
  PROVE  /\ r.ptr \in 1..Len(m) /\ r.len \in Nat \ {0} /\ b \in Seq(Machines \cup {NoHost})
         /\ r.len - 1 <= Len(b) /\ SubSeq(b, 1, r.len - 1) = EvictReplica(Elems(m, r), e)
<1> DEFINE C == Machines \cup {NoHost}
           l == Elems(m, r)
           q == EvictReplica(l, e)
           a == m[r.ptr]
           u == SubSeq(a, r.len, Len(a))
<1>1. r.ptr # 0
  BY DEF Elems, Range
<1>2. r.ptr \in 1..Len(m) /\ r.len \in Nat /\ r.len <= Len(a)
  BY <1>1 DEF IsSlice, Heaps
<1>3. a \in Seq(C)
  BY <1>2 DEF Heaps
<1>4. l = SubSeq(a, 1, r.len)
  BY <1>1, Zenon DEF Elems
<1>5. Len(l) = r.len
  BY <1>2, <1>3, <1>4, PrefixIs
<1>6. q \in Seq(Machines) /\ Len(q) = r.len - 1 /\ r.len # 0
  <2>1. q \in Seq(Machines) /\ Len(q) = Len(l) - 1
    BY EvictReplicaType, EvictReplicaAt, Zenon
  <2>2. Len(q) \in Nat
    BY <2>1
  <2> QED BY <1>2, <1>5, <2>1, <2>2
<1>7. q \in Seq(C)
  BY <1>6
<1>8. u \in Seq(C)
  <2>1. Len(a) \in Nat /\ r.len \in 1..Len(a)
    BY <1>2, <1>3, <1>6
  <2> HIDE DEF a, q, l, C
  <2> QED BY <1>3, <2>1
<1>9. b = q \o u
  BY Zenon
<1> HIDE DEF l, q, u, C
<1>10. /\ q \o u \in Seq(C) /\ Len(q) <= Len(q \o u) /\ Len(q) \in Nat
       /\ SubSeq(q \o u, 1, Len(q)) = q
  BY <1>7, <1>8, PrefixCat
<1> QED BY <1>2, <1>6, <1>9, <1>10, Zenon DEF C, q, l

\* An entry is cut out, and the array holds the shorter list.
LEMMA EvictFits ==
  ASSUME NEW r, r \in [ptr : Nat, len : Nat], NEW m2 \in Heaps, r.ptr \in 1..Len(m2),
         r.len # 0, r.len - 1 <= Len(m2[r.ptr]),
         NEW r2, r2 = [r EXCEPT !.len = r.len - 1]
  PROVE  IsSlice(m2, r2) /\ Elems(m2, r2) = SubSeq(m2[r.ptr], 1, r.len - 1)
<1>1. r2.ptr = r.ptr /\ r2.len = r.len - 1 /\ r2 \in [ptr : Nat, len : Nat] /\ r2.ptr # 0
  OBVIOUS
<1>2. r2.ptr \in 0..Len(m2)
  BY <1>1
<1> QED BY <1>1, <1>2, Zenon DEF IsSlice, Elems

-----------------------------------------------------------------------------
(* Apply *)

\* Where the other servers are not touched.
Elsewhere(s) ==
  \A t \in Peers \ {s} :
    /\ applied'[t] = applied[t] /\ nodes'[t] = nodes[t] /\ committed'[t] = committed[t]
    /\ heap'[t] = heap[t] /\ replicas'[t] = replicas[t]
    /\ snap'[t] = snap[t] /\ disk'[t] = disk[t]

\* A handler that changes the state as the command says, and the arrays as the
\* snapshots in progress can bear, keeps the invariant.
LEMMA ApplyEnds ==
  ASSUME NEW h, Fits(h), log' = log, NEW s \in Peers, Elsewhere(s),
         applied[s] < Len(log), Len(log) \in Nat, applied'[s] = applied[s] + 1,
         snap'[s] = snap[s], disk'[s] = disk[s],
         heap'[s] \in Heaps, IsSlice(heap'[s], replicas'[s]),
         nodes'[s] = NodesAfter(h[applied[s]], log[applied[s] + 1]),
         committed'[s] = (committed[s] \/ log[applied[s] + 1].op = "CommitChunk"),
         List(s)' = ListAfter(h[applied[s]], log[applied[s] + 1]),
         snap[s] = {} \/ Keeps(heap[s], replicas[s], heap'[s], replicas'[s])
  PROVE  Fits(h)'
<1>1. History(h) /\ ServerFits(h, s)
  BY Zenon DEF Fits
<1>2. applied'[s] \in 0..Len(log') /\ applied'[s] \in 1..Len(log) /\ applied'[s] - 1 = applied[s]
  BY <1>1 DEF ServerFits
<1>3. h[applied'[s]] = After(h[applied[s]], log[applied[s] + 1])
  BY <1>1, <1>2, Zenon DEF History
<1>4. ServerFits(h, s)'
  <2>1. /\ nodes'[s] = h[applied'[s]].nodes /\ committed'[s] = h[applied'[s]].committed
        /\ List(s)' = h[applied'[s]].list
    BY <1>1, <1>3, SMTT(30) DEF After, ServerFits
  <2> QED BY <1>2, <2>1, Zenon DEF ServerFits
<1>5. ASSUME NEW sn \in snap'[s] PROVE SnapFits(h, s, sn)'
  <2>1. SnapFits(h, s, sn)
    BY Zenon DEF Fits
  <2>2. /\ IsSlice(heap'[s], sn.slice)
        /\ Elems(heap'[s], sn.slice) = Elems(heap[s], sn.slice)
        /\ sn.slice.ptr = replicas'[s].ptr => sn.slice.len <= replicas'[s].len
    BY <2>1, Zenon DEF Keeps, SnapFits
  <2> QED BY <2>1, <2>2, Zenon DEF SnapFits
<1>6. ASSUME NEW sn \in disk'[s] PROVE DiskFits(h, sn)'
  <2>1. DiskFits(h, sn)
    BY Zenon DEF Fits
  <2> QED BY <2>1, Zenon DEF DiskFits
<1> QED BY <1>4, <1>5, <1>6, OneServer, SMTT(30) DEF Elsewhere

\* What a handler finds: the server holds the state st.
Finds(st, s) ==
  /\ IsState(st) /\ nodes[s] = st.nodes /\ committed[s] = st.committed /\ List(s) = st.list
  /\ heap[s] \in Heaps /\ IsSlice(heap[s], replicas[s])
  /\ DOMAIN nodes = Peers /\ DOMAIN committed = Peers
  /\ DOMAIN heap = Peers /\ DOMAIN replicas = Peers

\* What a handler leaves: the state after the command, in arrays that still
\* hold what a snapshot in progress has to write.
Leaves(st, cmd, s) ==
  /\ nodes'[s] = NodesAfter(st, cmd) /\ List(s)' = ListAfter(st, cmd)
  /\ committed'[s] = (st.committed \/ cmd.op = "CommitChunk")
  /\ heap'[s] \in Heaps /\ IsSlice(heap'[s], replicas'[s])
  /\ snap[s] = {} \/ Keeps(heap[s], replicas[s], heap'[s], replicas'[s])
  /\ DOMAIN nodes' = Peers /\ DOMAIN committed' = Peers
  /\ DOMAIN heap' = Peers /\ DOMAIN replicas' = Peers
  /\ \A t \in Peers \ {s} : /\ nodes'[t] = nodes[t] /\ committed'[t] = committed[t]
                            /\ heap'[t] = heap[t] /\ replicas'[t] = replicas[t]

\* The invariant gives a handler what it needs.
LEMMA Found ==
  ASSUME Shapes, NEW h, Fits(h), NEW s \in Peers, applied[s] < Len(log)
  PROVE  /\ Len(log) \in Nat /\ log[applied[s] + 1] \in Commands
         /\ Finds(h[applied[s]], s)
<1>1. History(h) /\ ServerFits(h, s)
  BY Zenon DEF Fits
<1>2. applied[s] \in 0..Len(log) /\ Len(log) \in Nat /\ applied[s] + 1 \in 1..Len(log)
  BY <1>1 DEF ServerFits, Shapes
<1>3. log[applied[s] + 1] \in Commands
  BY <1>2 DEF Shapes
<1>4. IsState(h[applied[s]])
  BY <1>1, <1>2, Zenon DEF History
<1> QED BY <1>1, <1>2, <1>3, <1>4, Zenon DEF ServerFits, Shapes, Finds

\* A step of one entry.
LEMMA OneEntry ==
  ASSUME NEW f, NEW s \in DOMAIN f, NEW v
  PROVE  /\ [f EXCEPT ![s] = v][s] = v /\ DOMAIN [f EXCEPT ![s] = v] = DOMAIN f
         /\ \A t \in DOMAIN f \ {s} : [f EXCEPT ![s] = v][t] = f[t]
BY Zenon

\* The same arrays and slices.
LEMMA SameArrays ==
  ASSUME NEW m, NEW r
  PROVE  Keeps(m, r, m, r)
BY Zenon DEF Keeps

\* RegisterNode
LEMMA RegisterFits ==
  ASSUME NEW s \in Peers, NEW st, Finds(st, s), NEW cmd, cmd.op = "RegisterNode",
         HandleRegisterNode(s, cmd)
  PROVE  Leaves(st, cmd, s)
<1>1. heap' = heap /\ replicas' = replicas /\ committed' = committed
  BY Zenon DEF HandleRegisterNode
<1>2. /\ nodes'[s] = NodesAfter(st, cmd) /\ DOMAIN nodes' = Peers
      /\ \A t \in Peers \ {s} : nodes'[t] = nodes[t]
  BY Zenon DEF HandleRegisterNode, Finds, NodesAfter
<1>3. List(s)' = ListAfter(st, cmd)
  BY <1>1, Zenon DEF List, Finds, ListAfter
<1>4. committed'[s] = (st.committed \/ cmd.op = "CommitChunk")
  BY <1>1 DEF Finds, IsState
<1> QED BY <1>1, <1>2, <1>3, <1>4, SameArrays, Zenon DEF Leaves, Finds

\* A handler that leaves the nodes and the arrays alone.
LEMMA SameFits ==
  ASSUME NEW s \in Peers, NEW st, Finds(st, s), NEW cmd,
         heap' = heap, replicas' = replicas
  PROVE  /\ List(s)' = st.list /\ heap'[s] \in Heaps /\ IsSlice(heap'[s], replicas'[s])
         /\ Keeps(heap[s], replicas[s], heap'[s], replicas'[s])
         /\ DOMAIN heap' = Peers /\ DOMAIN replicas' = Peers
         /\ \A t \in Peers \ {s} : heap'[t] = heap[t] /\ replicas'[t] = replicas[t]
<1>1. List(s)' = List(s)
  BY Zenon DEF List
<1> QED BY <1>1, SameArrays, Zenon DEF Finds

\* A handler that puts a list in a new array.
LEMMA AllocatedFits ==
  ASSUME NEW s \in Peers, NEW st, Finds(st, s), NEW l \in Seq(Machines), Allocate(s, l)
  PROVE  /\ List(s)' = l /\ heap'[s] \in Heaps /\ IsSlice(heap'[s], replicas'[s])
         /\ Keeps(heap[s], replicas[s], heap'[s], replicas'[s])
         /\ DOMAIN heap' = Peers /\ DOMAIN replicas' = Peers
         /\ \A t \in Peers \ {s} : heap'[t] = heap[t] /\ replicas'[t] = replicas[t]
<1>1. PICK a \in NewArrays(l) :
        /\ heap' = [heap EXCEPT ![s] = Append(@, a)]
        /\ replicas' = [replicas EXCEPT ![s] = [ptr |-> Len(heap[s]) + 1, len |-> Len(l)]]
  BY Zenon DEF Allocate
<1>2. /\ heap'[s] = Append(heap[s], a)
      /\ replicas'[s] = [ptr |-> Len(heap[s]) + 1, len |-> Len(l)]
      /\ DOMAIN heap' = Peers /\ DOMAIN replicas' = Peers
      /\ \A t \in Peers \ {s} : heap'[t] = heap[t] /\ replicas'[t] = replicas[t]
  BY <1>1 DEF Finds
<1>3. heap[s] \in Heaps
  BY Zenon DEF Finds
<1>4. /\ heap'[s] \in Heaps /\ IsSlice(heap'[s], replicas'[s]) /\ Elems(heap'[s], replicas'[s]) = l
      /\ Keeps(heap[s], replicas[s], heap'[s], replicas'[s])
  <2> DEFINE r2 == [ptr |-> Len(heap[s]) + 1, len |-> Len(l)]
             m2 == Append(heap[s], a)
  <2>1. /\ m2 \in Heaps /\ IsSlice(m2, r2) /\ Elems(m2, r2) = l
        /\ Keeps(heap[s], replicas[s], m2, r2)
    BY <1>3, AllocateFits
  <2>2. heap'[s] = m2 /\ replicas'[s] = r2
    BY <1>2, Zenon
  <2> QED BY <2>1, <2>2, Zenon
<1> QED BY <1>2, <1>4, Zenon DEF List

\* CommitChunk
LEMMA CommitFits ==
  ASSUME UniqueAddresses, NEW s \in Peers, NEW st, Finds(st, s),
         NEW cmd \in Commands, cmd.op = "CommitChunk", HandleCommitChunk(s, cmd)
  PROVE  Leaves(st, cmd, s)
<1>1. /\ nodes' = nodes /\ committed'[s] = TRUE /\ DOMAIN committed' = Peers
      /\ \A t \in Peers \ {s} : committed'[t] = committed[t]
  BY Zenon DEF HandleCommitChunk, Finds
<1>2. nodes'[s] = NodesAfter(st, cmd) /\ DOMAIN nodes' = Peers
  BY <1>1, Zenon DEF Finds, NodesAfter
<1>3. committed'[s] = (st.committed \/ cmd.op = "CommitChunk")
  BY <1>1, Zenon
<1>4. CASE committed[s]
  <2>1. heap' = heap /\ replicas' = replicas
    BY <1>4, Zenon DEF HandleCommitChunk
  <2>2. ListAfter(st, cmd) = st.list
    BY <1>4, Zenon DEF ListAfter, Finds
  <2> QED BY <1>1, <1>2, <1>3, <2>1, <2>2, SameFits, Zenon DEF Leaves
<1>5. CASE ~committed[s]
  <2>1. PICK ids \in NormalizedReplicas(nodes[s], cmd.raw) : Allocate(s, ids)
    BY <1>5 DEF HandleCommitChunk
  <2>2. ids \in Seq(Machines) /\ ids = ListAfter(st, cmd)
    <3>1. cmd.raw \in Seq(Machines) /\ Registered(nodes[s]) /\ nodes[s] = st.nodes
      BY CommandsAssumption, Zenon DEF Finds, IsState
    <3>2. PICK one \in Seq(Machines) : NormalizedReplicas(nodes[s], cmd.raw) = {one}
      BY <3>1, NormalizedOne
    <3>3. cmd.op = "CommitChunk" /\ ~st.committed
      BY <1>5, Zenon DEF Finds
    <3>4. ListAfter(st, cmd) = one
      BY <3>1, <3>2, <3>3 DEF ListAfter
    <3> QED BY <2>1, <3>2, <3>4
  <2> QED BY <1>1, <1>2, <1>3, <2>1, <2>2, AllocatedFits, Zenon DEF Leaves
<1> QED BY <1>4, <1>5

\* EvictChunkFromNode, with no snapshot in progress
LEMMA EvictedFits ==
  ASSUME NEW s \in Peers, NEW st, Finds(st, s), snap[s] = {},
         NEW cmd \in Commands, cmd.op = "EvictChunkFromNode", HandleEvictChunk(s, cmd)
  PROVE  Leaves(st, cmd, s)
<1>1. nodes' = nodes /\ committed' = committed
  BY Zenon DEF HandleEvictChunk
<1>2. /\ nodes'[s] = NodesAfter(st, cmd) /\ DOMAIN nodes' = Peers /\ DOMAIN committed' = Peers
      /\ committed'[s] = (st.committed \/ cmd.op = "CommitChunk")
  BY <1>1, Zenon DEF Finds, NodesAfter, IsState
<1>3. CASE cmd.node \notin Range(List(s))
  <2>1. heap' = heap /\ replicas' = replicas
    BY <1>3 DEF HandleEvictChunk
  <2>2. ListAfter(st, cmd) = st.list
    BY <1>3, Zenon DEF ListAfter, Finds
  <2> QED BY <1>1, <1>2, <2>1, <2>2, SameFits, Zenon DEF Leaves
<1>4. CASE cmd.node \in Range(List(s))
  <2> DEFINE m == heap[s]
             r == replicas[s]
             q == EvictReplica(List(s), cmd.node)
             b == q \o SubSeq(m[r.ptr], r.len, Len(m[r.ptr]))
             C == Machines \cup {NoHost}
  <2>1. /\ heap' = [heap EXCEPT ![s][r.ptr] = b]
        /\ replicas' = [replicas EXCEPT ![s].len = r.len - 1]
    BY <1>4, Zenon DEF HandleEvictChunk
  <2> HIDE DEF b
  <2>2. /\ heap'[s] = [m EXCEPT ![r.ptr] = b] /\ replicas'[s] = [r EXCEPT !.len = r.len - 1]
        /\ DOMAIN heap' = Peers /\ DOMAIN replicas' = Peers
        /\ \A t \in Peers \ {s} : heap'[t] = heap[t] /\ replicas'[t] = replicas[t]
    BY <2>1 DEF Finds
  <2>3. m \in Heaps /\ IsSlice(m, r) /\ r \in [ptr : Nat, len : Nat] /\ List(s) \in Seq(Machines)
        /\ List(s) = Elems(m, r)
    BY Zenon DEF Finds, IsState, IsSlice, List
  <2>4. ListAfter(st, cmd) = q
    BY <1>4, Zenon DEF ListAfter, Finds
  <2> HIDE DEF m, r
  <2>5. /\ r.ptr \in 1..Len(m) /\ r.len \in Nat \ {0} /\ b \in Seq(C)
        /\ r.len - 1 <= Len(b) /\ SubSeq(b, 1, r.len - 1) = q
    <3> DEFINE e == cmd.node
    <3>1. e \in Range(Elems(m, r)) /\ Elems(m, r) \in Seq(Machines)
      BY <1>4, <2>3, Zenon
    <3>2. \A d : d = EvictReplica(Elems(m, r), e) \o SubSeq(m[r.ptr], r.len, Len(m[r.ptr])) =>
            /\ r.ptr \in 1..Len(m) /\ r.len \in Nat \ {0} /\ d \in Seq(C)
            /\ r.len - 1 <= Len(d) /\ SubSeq(d, 1, r.len - 1) = EvictReplica(Elems(m, r), e)
      <4> HIDE DEF e
      <4> QED BY <2>3, <3>1, EvictArray, Zenon
    <3>3. q = EvictReplica(Elems(m, r), e)
      BY <2>3, Zenon
    <3>4. b = EvictReplica(Elems(m, r), e) \o SubSeq(m[r.ptr], r.len, Len(m[r.ptr]))
      BY <3>3, Zenon DEF b
    <3> HIDE DEF q, C, e
    <3> QED BY <3>2, <3>3, <3>4, Zenon
  <2> HIDE DEF q, C
  <2>6. PICK m2 : m2 = [m EXCEPT ![r.ptr] = b]
    BY Zenon
  <2>7. m2 \in Heaps /\ Len(m2) = Len(m) /\ m2[r.ptr] = b
    <3>1. m \in Seq(Seq(C))
      BY <2>3, Zenon DEF Heaps, C
    <3>2. m2 \in Seq(Seq(C)) /\ Len(m2) = Len(m) /\ m2[r.ptr] = b
      BY <2>5, <2>6, <3>1, ReplaceArray
    <3> QED BY <3>2 DEF Heaps, C
  <2>8. \A r2 : r2 = [r EXCEPT !.len = r.len - 1] => IsSlice(m2, r2) /\ Elems(m2, r2) = q
    <3>1. r.ptr \in 1..Len(m2) /\ r.len # 0 /\ r.len - 1 <= Len(m2[r.ptr]) /\ SubSeq(m2[r.ptr], 1, r.len - 1) = q
      BY <2>5, <2>7, Zenon
    <3> QED BY <2>3, <2>7, <3>1, EvictFits, Zenon
  <2>9. heap'[s] \in Heaps /\ IsSlice(heap'[s], replicas'[s]) /\ Elems(heap'[s], replicas'[s]) = q
    BY <2>2, <2>6, <2>7, <2>8, Zenon
  <2>10. List(s)' = ListAfter(st, cmd)
    BY <2>4, <2>9, Zenon DEF List
  <2> QED BY <1>1, <1>2, <2>2, <2>9, <2>10, Zenon DEF Leaves
<1> QED BY <1>3, <1>4, Zenon

\* AddChunkReplica
LEMMA AddedFits ==
  ASSUME NEW s \in Peers, NEW st, Finds(st, s),
         NEW cmd \in Commands, cmd.op = "AddChunkReplica", HandleAddReplica(s, cmd)
  PROVE  Leaves(st, cmd, s)
<1>1. nodes' = nodes /\ committed' = committed
  BY Zenon DEF HandleAddReplica
<1>2. /\ nodes'[s] = NodesAfter(st, cmd) /\ DOMAIN nodes' = Peers /\ DOMAIN committed' = Peers
      /\ committed'[s] = (st.committed \/ cmd.op = "CommitChunk")
  BY <1>1, Zenon DEF Finds, NodesAfter, IsState
<1>3. ListAfter(st, cmd) = AddReplica(List(s), cmd.node) /\ cmd.node \in Machines /\ List(s) \in Seq(Machines)
  BY CommandsAssumption, Zenon DEF ListAfter, Finds, IsState
<1>4. CASE cmd.node \in Range(List(s))
  <2>1. heap' = heap /\ replicas' = replicas
    BY <1>4, Zenon DEF HandleAddReplica
  <2>2. ListAfter(st, cmd) = st.list
    BY <1>3, <1>4 DEF AddReplica, Finds
  <2> QED BY <1>1, <1>2, <2>1, <2>2, SameFits, Zenon DEF Leaves
<1>5. CASE /\ cmd.node \notin Range(List(s))
           /\ ~(replicas[s].ptr # 0 /\ replicas[s].len < Len(heap[s][replicas[s].ptr]))
  <2>1. Allocate(s, Append(List(s), cmd.node))
    BY <1>5, Zenon DEF HandleAddReplica
  <2>2. ListAfter(st, cmd) = Append(List(s), cmd.node) /\ Append(List(s), cmd.node) \in Seq(Machines)
    BY <1>3, <1>5 DEF AddReplica
  <2> QED BY <1>1, <1>2, <2>1, <2>2, AllocatedFits, Zenon DEF Leaves
<1>6. CASE /\ cmd.node \notin Range(List(s))
           /\ replicas[s].ptr # 0 /\ replicas[s].len < Len(heap[s][replicas[s].ptr])
  <2> DEFINE m == heap[s]
             r == replicas[s]
             e == cmd.node
             b == [m[r.ptr] EXCEPT ![r.len + 1] = e]
             C == Machines \cup {NoHost}
  <2>1. /\ heap' = [heap EXCEPT ![s][r.ptr][r.len + 1] = e]
        /\ replicas' = [replicas EXCEPT ![s].len = r.len + 1]
    BY <1>6, Zenon DEF HandleAddReplica
  <2>2. /\ heap'[s] = [m EXCEPT ![r.ptr] = b] /\ replicas'[s] = [r EXCEPT !.len = r.len + 1]
        /\ DOMAIN heap' = Peers /\ DOMAIN replicas' = Peers
        /\ \A t \in Peers \ {s} : heap'[t] = heap[t] /\ replicas'[t] = replicas[t]
    BY <2>1, Zenon DEF Finds
  <2>3. m \in Heaps /\ IsSlice(m, r) /\ r \in [ptr : Nat, len : Nat] /\ List(s) = Elems(m, r)
    BY Zenon DEF Finds, IsSlice, List
  <2>4. ListAfter(st, cmd) = Append(List(s), e)
    BY <1>3, <1>6 DEF AddReplica
  <2>5. r.ptr # 0 /\ r.len < Len(m[r.ptr]) /\ e \in Machines
    BY <1>3, <1>6
  <2> HIDE DEF m, r, e, C
  <2>6. r.ptr \in 1..Len(m) /\ m \in Seq(Seq(C)) /\ e \in C
    BY <2>3, <2>5 DEF IsSlice, Heaps, C
  <2>7. b \in Seq(C)
    <3> DEFINE a == m[r.ptr]
               k == r.len
    <3>1. a \in Seq(C) /\ k \in Nat /\ k < Len(a)
      BY <2>3, <2>5, <2>6
    <3> HIDE DEF a, k
    <3>2. [a EXCEPT ![k + 1] = e] \in Seq(C)
      BY <2>6, <3>1
    <3> QED BY <3>2, Zenon DEF a, k
  <2> HIDE DEF b
  <2>8. PICK m2 : m2 = [m EXCEPT ![r.ptr] = b]
    BY Zenon
  <2>9. /\ m2 \in Heaps /\ Len(m2) = Len(m) /\ m2[r.ptr] = b
        /\ \A i \in 1..Len(m) : i # r.ptr => m2[i] = m[i]
    <3>1. /\ m2 \in Seq(Seq(C)) /\ Len(m2) = Len(m) /\ m2[r.ptr] = b
          /\ \A i \in 1..Len(m) : i # r.ptr => m2[i] = m[i]
      BY <2>6, <2>7, <2>8, ReplaceArray
    <3> QED BY <3>1 DEF Heaps, C
  <2>10. \A r2 : r2 = [r EXCEPT !.len = r.len + 1] =>
           IsSlice(m2, r2) /\ Elems(m2, r2) = Append(Elems(m, r), e) /\ Keeps(m, r, m2, r2)
    <3>1. m2[r.ptr] = [m[r.ptr] EXCEPT ![r.len + 1] = e]
      BY <2>9, Zenon DEF b
    <3> QED BY <2>3, <2>5, <2>9, <3>1, SpareFits, Zenon
  <2>11. /\ heap'[s] \in Heaps /\ IsSlice(heap'[s], replicas'[s])
         /\ Elems(heap'[s], replicas'[s]) = Append(Elems(m, r), e)
         /\ Keeps(heap[s], replicas[s], heap'[s], replicas'[s])
    BY <2>2, <2>8, <2>9, <2>10, Zenon DEF m, r
  <2>12. List(s)' = ListAfter(st, cmd)
    BY <2>3, <2>4, <2>11, Zenon DEF List
  <2> QED BY <1>1, <1>2, <2>2, <2>11, <2>12, Zenon DEF Leaves
<1> QED BY <1>4, <1>5, <1>6

\* A server applies its next command.
LEMMA ApplyFits ==
  ASSUME UniqueAddresses, ~EvictWhilePersisting, Shapes, NEW h, Fits(h),
         NEW s \in Peers, Apply(s)
  PROVE  Shapes' /\ Fits(h)'
<1> DEFINE cmd == log[applied[s] + 1]
           st == h[applied[s]]
<1>1. /\ applied[s] < Len(log) /\ applied' = [applied EXCEPT ![s] = @ + 1]
      /\ log' = log /\ snap' = snap /\ disk' = disk
      /\ snap[s] = {} \/ cmd.op # "EvictChunkFromNode"
      /\ \/ cmd.op = "RegisterNode" /\ HandleRegisterNode(s, cmd)
         \/ cmd.op = "CommitChunk" /\ HandleCommitChunk(s, cmd)
         \/ cmd.op = "EvictChunkFromNode" /\ HandleEvictChunk(s, cmd)
         \/ cmd.op = "AddChunkReplica" /\ HandleAddReplica(s, cmd)
  BY Zenon DEF Apply
<1>2. Len(log) \in Nat /\ cmd \in Commands /\ Finds(st, s)
  BY <1>1, Found
<1>3. /\ applied'[s] = applied[s] + 1 /\ applied' \in [Peers -> Nat]
      /\ \A t \in Peers \ {s} : applied'[t] = applied[t]
  BY <1>1 DEF Shapes
<1>4. Leaves(st, cmd, s)
  <2> HIDE DEF cmd, st
  <2> QED BY <1>1, <1>2, RegisterFits, CommitFits, EvictedFits, AddedFits, Zenon
<1>5. Shapes'
  BY <1>1, <1>3, <1>4, Zenon DEF Shapes, Leaves
<1>6. Elsewhere(s)
  BY <1>1, <1>3, <1>4, Zenon DEF Elsewhere, Leaves
<1>7. committed'[s] = (committed[s] \/ cmd.op = "CommitChunk")
  BY <1>2, <1>4, Zenon DEF Leaves, Finds
<1>8. Fits(h)'
  BY <1>1, <1>2, <1>3, <1>4, <1>6, <1>7, ApplyEnds, Zenon DEF Leaves
<1> QED BY <1>5, <1>8, Zenon

-----------------------------------------------------------------------------
(* Snapshots *)

\* A snapshot starts as what the server holds.
LEMMA SnapshotFits ==
  ASSUME Shapes, NEW h, Fits(h), NEW s \in Peers, Snapshot(s)
  PROVE  Shapes' /\ Fits(h)'
<1>0. PICK new : new = [index |-> applied[s], nodes |-> nodes[s], committed |-> committed[s],
                        slice |-> replicas[s], out |-> <<>>]
  BY Zenon
<1>1. /\ snap' = [snap EXCEPT ![s] = {new}] /\ log' = log /\ applied' = applied /\ nodes' = nodes
      /\ heap' = heap /\ committed' = committed /\ replicas' = replicas /\ disk' = disk
  BY <1>0, Zenon DEF Snapshot
<1>2. snap'[s] = {new} /\ DOMAIN snap' = Peers /\ \A t \in Peers \ {s} : snap'[t] = snap[t]
  BY <1>1, Zenon DEF Shapes
<1>3. Shapes'
  BY <1>1, <1>2 DEF Shapes
<1>4. ServerFits(h, s) /\ History(h)
  BY Zenon DEF Fits
<1>5. ServerFits(h, s)'
  BY <1>1, <1>4 DEF ServerFits, List
<1>6. SnapFits(h, s, new)'
  <2>1. /\ new.index = applied[s] /\ new.nodes = nodes[s] /\ new.committed = committed[s]
        /\ new.slice = replicas[s] /\ new.out = <<>>
        /\ DOMAIN new = {"index", "nodes", "committed", "slice", "out"}
    BY <1>0, Zenon
  <2>2. new.out \in Seq(Machines) /\ Len(new.out) = 0 /\ new.slice.len \in Nat
    BY <1>4, <2>1 DEF ServerFits, IsSlice
  <2>3. new.out = SubSeq(h[new.index].list, 1, Len(new.out))
    <3>1. h[new.index].list \in Seq(Machines)
      BY <1>4, <2>1, Zenon DEF History, IsState, ServerFits
    <3> QED BY <2>1, <2>2, <3>1
  <2>4. Elems(heap[s], new.slice) = h[new.index].list
    BY <1>4, <2>1, Zenon DEF ServerFits, List
  <2>5. Len(new.out) <= new.slice.len /\ new.slice.len <= replicas[s].len
    BY <2>1, <2>2
  <2> QED BY <1>1, <1>4, <2>1, <2>2, <2>3, <2>4, <2>5, Zenon DEF SnapFits, ServerFits
<1>7. \A sn \in disk'[s] : DiskFits(h, sn)'
  BY <1>1, Zenon DEF Fits, DiskFits
<1>8. \A sn \in snap'[s] : SnapFits(h, s, sn)'
  BY <1>2, <1>6, Zenon
<1>9. Elsewhere(s)
  BY <1>1, <1>2, Zenon DEF Elsewhere
<1>10. Fits(h)'
  BY <1>1, <1>5, <1>7, <1>8, <1>9, OneServer, Zenon DEF Elsewhere
<1> QED BY <1>3, <1>10, Zenon

\* The list one entry longer.
LEMMA PrefixNext ==
  ASSUME NEW S, NEW l \in Seq(S), NEW o \in Seq(S), o = SubSeq(l, 1, Len(o)), Len(o) < Len(l)
  PROVE  LET p == Append(o, l[Len(o) + 1])
         IN  p \in Seq(S) /\ Len(p) = Len(o) + 1 /\ p = SubSeq(l, 1, Len(p))
<1> DEFINE n == Len(o)
           p == Append(o, l[n + 1])
<1>1. n \in Nat /\ n < Len(l) /\ Len(l) \in Nat /\ n + 1 \in 1..Len(l) /\ n + 1 \in 0..Len(l) /\ n \in 0..Len(l)
  OBVIOUS
<1>2. p \in Seq(S) /\ Len(p) = n + 1 /\ p[n + 1] = l[n + 1] /\ \A i \in 1..n : p[i] = o[i]
  BY <1>1
<1>3. \A i \in 1..n : o[i] = l[i]
  BY <1>1, PrefixIs, Zenon
<1> HIDE DEF p, n
<1>4. /\ SubSeq(l, 1, n + 1) \in Seq(S) /\ Len(SubSeq(l, 1, n + 1)) = n + 1
      /\ \A i \in 1..(n + 1) : SubSeq(l, 1, n + 1)[i] = l[i]
  BY <1>1, PrefixIs
<1>5. \A i \in 1..Len(p) : p[i] = SubSeq(l, 1, n + 1)[i]
  BY <1>1, <1>2, <1>3, <1>4
<1>6. p = SubSeq(l, 1, n + 1)
  BY <1>2, <1>4, <1>5, SameList, Zenon
<1> QED BY <1>2, <1>6 DEF p, n

\* A slice has as many elements as it is long.
LEMMA SliceLen ==
  ASSUME NEW m \in Heaps, NEW sl, IsSlice(m, sl)
  PROVE  /\ Len(Elems(m, sl)) = sl.len /\ sl.len \in Nat
         /\ \A i \in 1..sl.len : sl.ptr # 0 /\ Elems(m, sl)[i] = m[sl.ptr][i]
<1>1. CASE sl.ptr = 0
  BY <1>1 DEF IsSlice, Elems
<1>2. CASE sl.ptr # 0
  <2> DEFINE a == m[sl.ptr]
             k == sl.len
  <2>1. Elems(m, sl) = SubSeq(a, 1, k)
    BY <1>2, Zenon DEF Elems
  <2>2. a \in Seq(Machines \cup {NoHost}) /\ k \in Nat /\ k <= Len(a)
    BY <1>2 DEF IsSlice, Heaps
  <2> HIDE DEF a, k
  <2>3. k \in 0..Len(a)
    BY <2>2
  <2>4. Len(SubSeq(a, 1, k)) = k /\ \A i \in 1..k : SubSeq(a, 1, k)[i] = a[i]
    BY <2>2, <2>3, PrefixIs, Zenon
  <2> QED BY <1>2, <2>1, <2>2, <2>4, Zenon DEF a, k
<1> QED BY <1>1, <1>2, Zenon

\* The part of a snapshot that is written is part of the list.
LEMMA PersistElementFits ==
  ASSUME Shapes, NEW h, Fits(h), NEW s \in Peers, PersistElement(s)
  PROVE  Shapes' /\ Fits(h)'
<1>1. PICK sn \in snap[s] :
        /\ Len(sn.out) < sn.slice.len
        /\ snap' = [snap EXCEPT ![s] =
             {[sn EXCEPT !.out = Append(sn.out, heap[s][sn.slice.ptr][Len(sn.out) + 1])]}]
  BY Zenon DEF PersistElement
<1>2. /\ log' = log /\ applied' = applied /\ nodes' = nodes
      /\ heap' = heap /\ committed' = committed /\ replicas' = replicas /\ disk' = disk
  BY Zenon DEF PersistElement
<1>3. PICK new : new = [sn EXCEPT !.out = Append(sn.out, heap[s][sn.slice.ptr][Len(sn.out) + 1])]
  BY Zenon
<1>4. snap'[s] = {new} /\ DOMAIN snap' = Peers /\ \A t \in Peers \ {s} : snap'[t] = snap[t]
  BY <1>1, <1>3 DEF Shapes
<1>5. Shapes'
  BY <1>2, <1>4 DEF Shapes
<1>6. ServerFits(h, s) /\ History(h) /\ SnapFits(h, s, sn)
  BY Zenon DEF Fits
<1>7. ServerFits(h, s)'
  BY <1>2, <1>6 DEF ServerFits, List
<1>8. SnapFits(h, s, new)'
  <2> DEFINE l == h[sn.index].list
             o == sn.out
             p == Append(o, l[Len(o) + 1])
  <2>1. l \in Seq(Machines) /\ o \in Seq(Machines) /\ o = SubSeq(l, 1, Len(o))
    BY <1>6, Zenon DEF History, IsState, SnapFits
  <2>2. Elems(heap[s], sn.slice) = l /\ IsSlice(heap[s], sn.slice) /\ heap[s] \in Heaps
    BY <1>6, Zenon DEF SnapFits, ServerFits
  <2>3. /\ Len(l) = sn.slice.len /\ sn.slice.len \in Nat
        /\ \A i \in 1..sn.slice.len : l[i] = heap[s][sn.slice.ptr][i]
    <3>1. /\ Len(Elems(heap[s], sn.slice)) = sn.slice.len /\ sn.slice.len \in Nat
          /\ \A i \in 1..sn.slice.len : Elems(heap[s], sn.slice)[i] = heap[s][sn.slice.ptr][i]
      <4> HIDE DEF l
      <4> QED BY <2>2, SliceLen
    <3> HIDE DEF l
    <3> QED BY <2>2, <3>1, Zenon
  <2> HIDE DEF l
  <2>4. Len(o) < Len(l) /\ Len(o) + 1 \in 1..sn.slice.len
    BY <1>1, <2>1, <2>3
  <2>5. heap[s][sn.slice.ptr][Len(o) + 1] = l[Len(o) + 1]
    BY <2>3, <2>4, Zenon
  <2>6. p \in Seq(Machines) /\ Len(p) = Len(o) + 1 /\ p = SubSeq(l, 1, Len(p))
    BY <2>1, <2>4, PrefixNext
  <2>7. new = [sn EXCEPT !.out = p]
    BY <1>3, <2>5, Zenon
  <2> HIDE DEF p
  <2>8. /\ new.index = sn.index /\ new.nodes = sn.nodes /\ new.committed = sn.committed
        /\ new.slice = sn.slice /\ DOMAIN new = DOMAIN sn
    BY <2>7
  <2>9. new.out = p
    BY <1>6, <2>7 DEF SnapFits
  <2>10. Len(new.out) <= new.slice.len
    BY <2>1, <2>3, <2>4, <2>6, <2>8, <2>9
  <2> QED BY <1>2, <1>6, <2>6, <2>8, <2>9, <2>10, Zenon DEF SnapFits, l
<1>9. \A d \in disk'[s] : DiskFits(h, d)'
  BY <1>2 DEF Fits, DiskFits
<1>10. \A d \in snap'[s] : SnapFits(h, s, d)'
  BY <1>4, <1>8, Zenon
<1>11. Elsewhere(s)
  BY <1>2, <1>4, Zenon DEF Elsewhere
<1>12. Fits(h)'
  BY <1>2, <1>7, <1>9, <1>10, <1>11, OneServer, Zenon DEF Elsewhere
<1> QED BY <1>5, <1>12, Zenon

\* A snapshot that is written whole is the state it was taken of.
LEMMA PersistDoneFits ==
  ASSUME Shapes, NEW h, Fits(h), NEW s \in Peers, PersistDone(s)
  PROVE  Shapes' /\ Fits(h)'
<1>1. PICK sn \in snap[s] : Len(sn.out) = sn.slice.len /\ disk' = [disk EXCEPT ![s] = {sn}]
  BY Zenon DEF PersistDone
<1>2. /\ log' = log /\ applied' = applied /\ nodes' = nodes /\ heap' = heap
      /\ committed' = committed /\ replicas' = replicas /\ snap' = [snap EXCEPT ![s] = {}]
  BY Zenon DEF PersistDone
<1>3. /\ snap'[s] = {} /\ DOMAIN snap' = Peers /\ disk'[s] = {sn} /\ DOMAIN disk' = Peers
      /\ \A t \in Peers \ {s} : snap'[t] = snap[t] /\ disk'[t] = disk[t]
  BY <1>1, <1>2 DEF Shapes
<1>4. Shapes'
  BY <1>2, <1>3, SMTT(30) DEF Shapes
<1>5. ServerFits(h, s) /\ History(h) /\ SnapFits(h, s, sn)
  BY Zenon DEF Fits
<1>6. ServerFits(h, s)'
  BY <1>2, <1>5 DEF ServerFits, List
<1>7. DiskFits(h, sn)'
  <2> DEFINE l == h[sn.index].list
  <2>1. l \in Seq(Machines) /\ sn.out \in Seq(Machines) /\ sn.out = SubSeq(l, 1, Len(sn.out))
    BY <1>5, Zenon DEF History, IsState, SnapFits
  <2>2. Elems(heap[s], sn.slice) = l /\ IsSlice(heap[s], sn.slice) /\ heap[s] \in Heaps
    BY <1>5, Zenon DEF SnapFits, ServerFits
  <2>3. Len(l) = sn.slice.len
    <3>1. Len(Elems(heap[s], sn.slice)) = sn.slice.len
      BY <2>2, SliceLen
    <3> HIDE DEF l
    <3> QED BY <2>2, <3>1, Zenon
  <2>4. sn.out = l
    <3> HIDE DEF l
    <3>1. Len(sn.out) = Len(l)
      BY <1>1, <2>3
    <3>2. SubSeq(l, 1, Len(l)) = l
      BY <2>1
    <3> QED BY <2>1, <3>1, <3>2, Zenon
  <2>5. sn.slice.ptr = 0 => sn.out = <<>>
    <3>1. sn.slice.ptr = 0 => Len(sn.out) = 0
      BY <1>1, <2>2 DEF IsSlice
    <3> QED BY <2>1, <3>1
  <2> QED BY <1>2, <1>5, <2>4, <2>5, Zenon DEF DiskFits, SnapFits
<1>8. (\A d \in disk'[s] : DiskFits(h, d)') /\ (\A d \in snap'[s] : SnapFits(h, s, d)')
  BY <1>3, <1>7, Zenon
<1>9. Elsewhere(s)
  BY <1>2, <1>3, Zenon DEF Elsewhere
<1>10. Fits(h)'
  BY <1>2, <1>6, <1>8, <1>9, OneServer, Zenon DEF Elsewhere
<1> QED BY <1>4, <1>10, Zenon

\* A snapshot that is given up.
LEMMA PersistFailFits ==
  ASSUME Shapes, NEW h, Fits(h), NEW s \in Peers, PersistFail(s)
  PROVE  Shapes' /\ Fits(h)'
<1>1. /\ log' = log /\ applied' = applied /\ nodes' = nodes /\ heap' = heap /\ disk' = disk
      /\ committed' = committed /\ replicas' = replicas /\ snap' = [snap EXCEPT ![s] = {}]
  BY Zenon DEF PersistFail
<1>2. snap'[s] = {} /\ DOMAIN snap' = Peers /\ \A t \in Peers \ {s} : snap'[t] = snap[t]
  BY <1>1 DEF Shapes
<1>3. Shapes'
  BY <1>1, <1>2, SMTT(30) DEF Shapes
<1>4. ServerFits(h, s)'
  BY <1>1, SMTT(30) DEF Fits, ServerFits, List
<1>5. (\A d \in disk'[s] : DiskFits(h, d)') /\ (\A d \in snap'[s] : SnapFits(h, s, d)')
  BY <1>1, <1>2 DEF Fits, DiskFits
<1>6. Elsewhere(s)
  BY <1>1, <1>2, Zenon DEF Elsewhere
<1>7. Fits(h)'
  BY <1>1, <1>4, <1>5, <1>6, OneServer, Zenon DEF Elsewhere
<1> QED BY <1>3, <1>7, Zenon

\* A server restored from a snapshot holds the state the snapshot was taken of.
LEMMA RestoreFits ==
  ASSUME Shapes, NEW h, History(h), log' = log, NEW s \in Peers, NEW sn, DiskFits(h, sn),
         NEW base \in Heaps, RestoreFrom(s, sn, base)
  PROVE  /\ ServerFits(h, s)' /\ Keeps(base, replicas[s], heap'[s], replicas'[s])
         /\ applied' \in [Peers -> Nat]
         /\ DOMAIN nodes' = Peers /\ DOMAIN committed' = Peers
         /\ DOMAIN heap' = Peers /\ DOMAIN replicas' = Peers
         /\ \A t \in Peers \ {s} :
              /\ applied'[t] = applied[t] /\ nodes'[t] = nodes[t] /\ committed'[t] = committed[t]
              /\ heap'[t] = heap[t] /\ replicas'[t] = replicas[t]
<1>1. /\ applied' = [applied EXCEPT ![s] = sn.index] /\ nodes' = [nodes EXCEPT ![s] = sn.nodes]
      /\ committed' = [committed EXCEPT ![s] = sn.committed]
  BY Zenon DEF RestoreFrom
<1>2. sn.index \in 0..Len(log) /\ Len(log) \in Nat /\ sn.index \in Nat
  BY DEF DiskFits, Shapes
<1>3. /\ applied'[s] = sn.index /\ nodes'[s] = sn.nodes /\ committed'[s] = sn.committed
      /\ applied' \in [Peers -> Nat] /\ DOMAIN nodes' = Peers /\ DOMAIN committed' = Peers
      /\ \A t \in Peers \ {s} :
           applied'[t] = applied[t] /\ nodes'[t] = nodes[t] /\ committed'[t] = committed[t]
  BY <1>1, <1>2 DEF Shapes
<1>4. sn.out = h[sn.index].list /\ sn.out \in Seq(Machines)
  BY <1>2, Zenon DEF DiskFits, History, IsState
<1>5. /\ heap'[s] \in Heaps /\ IsSlice(heap'[s], replicas'[s])
      /\ Elems(heap'[s], replicas'[s]) = sn.out
      /\ Keeps(base, replicas[s], heap'[s], replicas'[s])
      /\ DOMAIN heap' = Peers /\ DOMAIN replicas' = Peers
      /\ \A t \in Peers \ {s} : heap'[t] = heap[t] /\ replicas'[t] = replicas[t]
  <2>1. CASE sn.slice.ptr = 0
    <3>1. /\ heap' = [heap EXCEPT ![s] = base] /\ replicas' = [replicas EXCEPT ![s] = NilSlice]
      BY <2>1 DEF RestoreFrom
    <3>2. /\ heap'[s] = base /\ replicas'[s] = NilSlice
          /\ DOMAIN heap' = Peers /\ DOMAIN replicas' = Peers
          /\ \A t \in Peers \ {s} : heap'[t] = heap[t] /\ replicas'[t] = replicas[t]
      BY <3>1, Zenon DEF Shapes
    <3>3. IsSlice(base, NilSlice) /\ Elems(base, NilSlice) = sn.out
      BY <2>1 DEF IsSlice, NilSlice, Elems, Heaps, DiskFits
    <3>4. Keeps(base, replicas[s], base, NilSlice)
      BY DEF Keeps, IsSlice, NilSlice
    <3> QED BY <3>2, <3>3, <3>4, Zenon
  <2>2. CASE sn.slice.ptr # 0
    <3>1. PICK a \in NewArrays(sn.out) :
            /\ heap' = [heap EXCEPT ![s] = Append(base, a)]
            /\ replicas' = [replicas EXCEPT ![s] = [ptr |-> Len(base) + 1, len |-> Len(sn.out)]]
      BY <2>2, Zenon DEF RestoreFrom
    <3> DEFINE r2 == [ptr |-> Len(base) + 1, len |-> Len(sn.out)]
               m2 == Append(base, a)
    <3>2. /\ heap'[s] = m2 /\ replicas'[s] = r2
          /\ DOMAIN heap' = Peers /\ DOMAIN replicas' = Peers
          /\ \A t \in Peers \ {s} : heap'[t] = heap[t] /\ replicas'[t] = replicas[t]
      BY <3>1, Zenon DEF Shapes
    <3>3. /\ m2 \in Heaps /\ IsSlice(m2, r2) /\ Elems(m2, r2) = sn.out
          /\ Keeps(base, replicas[s], m2, r2)
      BY <1>4, AllocateFits, ZenonT(30)
    <3> HIDE DEF m2, r2
    <3> QED BY <3>2, <3>3, Zenon
  <2> QED BY <2>1, <2>2, Zenon
<1>6. ServerFits(h, s)'
  <2>1. List(s)' = h[sn.index].list
    BY <1>4, <1>5, Zenon DEF List
  <2>2. applied'[s] \in 0..Len(log')
    BY <1>2, <1>3, Zenon
  <2> QED BY <1>3, <1>5, <2>1, <2>2, Zenon DEF ServerFits, DiskFits
<1> QED BY <1>3, <1>5, <1>6, Zenon

\* A server restarts.
LEMMA RestartFits ==
  ASSUME Shapes, NEW h, Fits(h), NEW s \in Peers, Restart(s)
  PROVE  Shapes' /\ Fits(h)'
<1>1. PICK sn \in (IF disk[s] = {} THEN {EmptySnapshot} ELSE disk[s]) : RestoreFrom(s, sn, <<>>)
  BY Zenon DEF Restart
<1>2. log' = log /\ disk' = disk /\ snap' = [snap EXCEPT ![s] = {}]
  BY Zenon DEF Restart
<1>3. snap'[s] = {} /\ DOMAIN snap' = Peers /\ \A t \in Peers \ {s} : snap'[t] = snap[t]
  BY <1>2, Zenon DEF Shapes
<1>4. History(h) /\ \A d \in disk[s] : DiskFits(h, d)
  BY Zenon DEF Fits
<1>5. DiskFits(h, sn)
  <2>1. CASE disk[s] # {}
    BY <1>1, <1>4, <2>1, Zenon
  <2>2. CASE disk[s] = {}
    <3>1. sn = EmptySnapshot
      BY <1>1, <2>2, Zenon
    <3>2. /\ sn.index = 0 /\ sn.nodes = EmptyRegistry /\ sn.committed = FALSE
          /\ sn.out = <<>>
      BY <3>1, Zenon DEF EmptySnapshot
    <3>3. h[0].nodes = EmptyRegistry /\ h[0].committed = FALSE /\ h[0].list = <<>>
      BY <1>4 DEF History, Empty
    <3>4. 0 \in 0..Len(log)
      BY DEF Shapes
    <3> QED BY <3>2, <3>3, <3>4, Zenon DEF DiskFits
  <2> QED BY <2>1, <2>2, Zenon
<1>6. <<>> \in Heaps
  BY DEF Heaps
<1>7. /\ ServerFits(h, s)' /\ applied' \in [Peers -> Nat]
      /\ DOMAIN nodes' = Peers /\ DOMAIN committed' = Peers
      /\ DOMAIN heap' = Peers /\ DOMAIN replicas' = Peers
      /\ \A t \in Peers \ {s} :
           /\ applied'[t] = applied[t] /\ nodes'[t] = nodes[t] /\ committed'[t] = committed[t]
           /\ heap'[t] = heap[t] /\ replicas'[t] = replicas[t]
  BY <1>1, <1>2, <1>4, <1>5, <1>6, RestoreFits, Zenon
<1>8. Shapes'
  BY <1>2, <1>3, <1>7, Zenon DEF Shapes
<1>9. (\A d \in disk'[s] : DiskFits(h, d)') /\ (\A d \in snap'[s] : SnapFits(h, s, d)')
  BY <1>2, <1>3, <1>4 DEF DiskFits
<1>10. Elsewhere(s)
  BY <1>2, <1>3, <1>7, Zenon DEF Elsewhere
<1>11. Fits(h)'
  BY <1>2, <1>7, <1>9, <1>10, OneServer, Zenon DEF Elsewhere
<1> QED BY <1>8, <1>11, Zenon

\* A server takes the snapshot of another one; one it is writing itself stays.
LEMMA InstallSnapshotFits ==
  ASSUME Shapes, NEW h, Fits(h), NEW s \in Peers, NEW u \in Peers, InstallSnapshot(s, u)
  PROVE  Shapes' /\ Fits(h)'
<1>1. PICK sn \in disk[u] : RestoreFrom(s, sn, heap[s]) /\ disk' = [disk EXCEPT ![s] = {sn}]
  BY Zenon DEF InstallSnapshot
<1>2. log' = log /\ snap' = snap
  BY Zenon DEF InstallSnapshot
<1>3. disk'[s] = {sn} /\ DOMAIN disk' = Peers /\ \A t \in Peers \ {s} : disk'[t] = disk[t]
  BY <1>1, Zenon DEF Shapes
<1>4. History(h) /\ DiskFits(h, sn) /\ heap[s] \in Heaps /\ \A d \in snap[s] : SnapFits(h, s, d)
  BY <1>1, Zenon DEF Fits, ServerFits
<1>5. /\ ServerFits(h, s)' /\ applied' \in [Peers -> Nat]
      /\ Keeps(heap[s], replicas[s], heap'[s], replicas'[s])
      /\ DOMAIN nodes' = Peers /\ DOMAIN committed' = Peers
      /\ DOMAIN heap' = Peers /\ DOMAIN replicas' = Peers
      /\ \A t \in Peers \ {s} :
           /\ applied'[t] = applied[t] /\ nodes'[t] = nodes[t] /\ committed'[t] = committed[t]
           /\ heap'[t] = heap[t] /\ replicas'[t] = replicas[t]
  BY <1>1, <1>2, <1>4, RestoreFits, Zenon
<1>6. Shapes'
  BY <1>2, <1>3, <1>5, Zenon DEF Shapes
<1>7. \A d \in disk'[s] : DiskFits(h, d)'
  BY <1>2, <1>3, <1>4 DEF DiskFits
<1>8. ASSUME NEW d \in snap'[s] PROVE SnapFits(h, s, d)'
  <2>1. SnapFits(h, s, d)
    BY <1>2, <1>4, Zenon
  <2>2. /\ IsSlice(heap'[s], d.slice)
        /\ Elems(heap'[s], d.slice) = Elems(heap[s], d.slice)
        /\ d.slice.ptr = replicas'[s].ptr => d.slice.len <= replicas'[s].len
    BY <1>5, <2>1, Zenon DEF Keeps, SnapFits
  <2> QED BY <1>2, <2>1, <2>2, Zenon DEF SnapFits
<1>9. Elsewhere(s)
  BY <1>2, <1>3, <1>5, Zenon DEF Elsewhere
<1>10. Fits(h)'
  BY <1>2, <1>5, <1>7, <1>8, <1>9, OneServer, Zenon DEF Elsewhere
<1> QED BY <1>6, <1>10

-----------------------------------------------------------------------------
(* The contract of Apply *)

\* Every step keeps the invariant.
LEMMA LogInvNext ==
  ASSUME UniqueAddresses, ~EvictWhilePersisting, LogInv, [ReplicatedNext]_replicatedVars
  PROVE  LogInv'
<1>1. PICK h : Fits(h)
  BY Zenon DEF LogInv
<1>2. Shapes
  BY Zenon DEF LogInv
<1>3. CASE UNCHANGED replicatedVars
  <2>1. /\ log' = log /\ applied' = applied /\ nodes' = nodes /\ heap' = heap /\ disk' = disk
        /\ committed' = committed /\ replicas' = replicas /\ snap' = snap
    BY <1>3, Zenon DEF replicatedVars
  <2>2. Shapes'
    BY <1>2, <2>1, Zenon DEF Shapes
  <2>3. History(h)'
    BY <1>1, <2>1 DEF Fits, History
  <2>4. ASSUME NEW s \in Peers PROVE ServerFits(h, s)'
    BY <1>1, <2>1, Zenon DEF Fits, ServerFits, List
  <2>5. ASSUME NEW s \in Peers, NEW sn \in snap'[s] PROVE SnapFits(h, s, sn)'
    BY <1>1, <2>1, Zenon DEF Fits, SnapFits
  <2>6. ASSUME NEW s \in Peers, NEW sn \in disk'[s] PROVE DiskFits(h, sn)'
    BY <1>1, <2>1, Zenon DEF Fits, DiskFits
  <2>7. Fits(h)'
    BY <2>3, <2>4, <2>5, <2>6, Zenon DEF Fits
  <2> QED BY <2>2, <2>7, Zenon DEF LogInv
<1>4. ASSUME NEW cmd \in Commands, Propose(cmd) PROVE LogInv'
  <2>1. \E g : Fits(g)'
    BY <1>1, <1>2, <1>4, ProposeFits
  <2>2. Shapes'
    BY <1>2, <1>4 DEF Shapes, Propose
  <2> QED BY <2>1, <2>2, Zenon DEF LogInv
<1>5. ASSUME NEW s \in Peers,
             \/ Apply(s) \/ Snapshot(s) \/ PersistElement(s) \/ PersistDone(s) \/ PersistFail(s)
             \/ Restart(s) \/ \E t \in Peers : InstallSnapshot(s, t)
      PROVE  LogInv'
  <2>1. Shapes' /\ Fits(h)'
    BY <1>1, <1>2, <1>5, ApplyFits, SnapshotFits, PersistElementFits, PersistDoneFits,
       PersistFailFits, RestartFits, InstallSnapshotFits, Zenon
  <2> QED BY <2>1, Zenon DEF LogInv
<1> QED BY <1>3, <1>4, <1>5 DEF ReplicatedNext

\* Servers that have applied as much of the log hold the same nodes, the same
\* status and the same replica list, whichever of them restarted, restored a
\* snapshot of its own or was sent one, and however append used its arrays:
\* the contract of FSM.Apply, provided that no eviction runs next to Persist
\* and that no two nodes register one address.
THEOREM ServersConverge ==
  ASSUME UniqueAddresses, ~EvictWhilePersisting
  PROVE  ReplicatedSpec => []Converged
<1>1. LogInv => Converged
  <2> SUFFICES ASSUME LogInv PROVE Converged
    BY Zenon
  <2>1. PICK h : Fits(h)
    BY Zenon DEF LogInv
  <2>2. \A s \in Peers : ServerFits(h, s)
    BY <2>1, Zenon DEF Fits
  <2> QED BY <2>2 DEF Converged, ServerFits
<1> QED BY <1>1, LogInvInit, LogInvNext, PTL DEF ReplicatedSpec

=============================================================================
