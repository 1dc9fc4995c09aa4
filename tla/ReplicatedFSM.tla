--------------------------- MODULE ReplicatedFSM ---------------------------
(***************************************************************************)
(* Metadata servers that apply one committed log: Apply, Snapshot, Persist *)
(* and Restore of src/metadata/fsm/fsm.go.  Raft is external: it gives     *)
(* every server the same log, calls Apply and Snapshot from one goroutine, *)
(* Persist from another, and Restore after a restart or when a server lags *)
(* behind a snapshot.                                                      *)
(*                                                                         *)
(* The state is cut down to what the servers can disagree on: the node     *)
(* addresses, and the replica list of one chunk as the Go slice it is, a   *)
(* length over a backing array in the server's heap.  Snapshot copies the  *)
(* chunk record by value (utils.DeepCopy), so the copy shares the array.   *)
(***************************************************************************)
EXTENDS ReplicaLists

CONSTANTS
  Peers,          \* the metadata servers
  Machines,       \* the node IDs and the addresses
  Commands,       \* the commands that may be proposed
  NoHost,         \* an unused cell of a backing array
  Slack,          \* spare capacities Go may give a new array
  EvictWhilePersisting,  \* may an eviction come while a snapshot is written?
  MaxLog,         \* bound on the commands proposed
  MaxSnapshots,   \* bound on the snapshots started
  MaxRestarts     \* bound on the restarts

ASSUME BoundsAssumption ==
  /\ Slack \subseteq Nat /\ EvictWhilePersisting \in BOOLEAN
  /\ MaxLog \in Nat /\ MaxSnapshots \in Nat /\ MaxRestarts \in Nat

\* What the commands carry.
ASSUME CommandsAssumption ==
  \A cmd \in Commands :
    \/ cmd.op = "RegisterNode" /\ cmd.node \in Machines /\ cmd.addr \in Machines
    \/ cmd.op = "CommitChunk" /\ cmd.raw \in Seq(Machines)
    \/ cmd.op \in {"EvictChunkFromNode", "AddChunkReplica"} /\ cmd.node \in Machines

VARIABLES
  log,       \* the committed commands
  applied,   \* how many of them a server has applied
  nodes,     \* node ID -> address
  heap,      \* the backing arrays a server has allocated
  committed, \* the chunk has a checksum
  replicas,  \* the chunk's slice: [ptr, len], with ptr 0 for nil
  snap,      \* the snapshots being written: at most one per server
  disk,      \* the last snapshot written: at most one per server
  snapshots, restarts   \* how many so far

replicatedVars == <<log, applied, nodes, heap, committed, replicas, snap, disk, snapshots, restarts>>

-----------------------------------------------------------------------------
(* Slices *)

NilSlice == [ptr |-> 0, len |-> 0]

\* A new backing array with the given elements and some spare cells.
NewArrays(elems) == {elems \o [i \in 1..k |-> NoHost] : k \in Slack}

\* The elements a slice stands for.
Elems(h, slice) == IF slice.ptr = 0 THEN <<>> ELSE SubSeq(h[slice.ptr], 1, slice.len)

List(s) == Elems(heap[s], replicas[s])

Allocate(s, elems) ==
  \E array \in NewArrays(elems) :
    /\ heap' = [heap EXCEPT ![s] = Append(@, array)]
    /\ replicas' = [replicas EXCEPT ![s] = [ptr |-> Len(heap[s]) + 1, len |-> Len(elems)]]

ReplicatedInit ==
  /\ log = <<>>
  /\ applied = [s \in Peers |-> 0]
  /\ nodes = [s \in Peers |-> EmptyRegistry]
  /\ heap = [s \in Peers |-> <<>>]
  /\ committed = [s \in Peers |-> FALSE]
  /\ replicas = [s \in Peers |-> NilSlice]
  /\ snap = [s \in Peers |-> {}]
  /\ disk = [s \in Peers |-> {}]
  /\ snapshots = 0
  /\ restarts = 0

\* Propose: Raft commits a command.
Propose(cmd) ==
  /\ Len(log) < MaxLog
  /\ log' = Append(log, cmd)
  /\ UNCHANGED <<applied, nodes, heap, committed, replicas, snap, disk, snapshots, restarts>>

-----------------------------------------------------------------------------
(* The handlers.  One that fails its checks changes nothing. *)

HandleRegisterNode(s, cmd) ==
  /\ nodes' = [nodes EXCEPT ![s] = Put(@, cmd.node, cmd.addr)]
  /\ UNCHANGED <<heap, committed, replicas>>

HandleCommitChunk(s, cmd) ==
  /\ IF committed[s]
       THEN UNCHANGED <<heap, replicas>>
       ELSE \E ids \in NormalizedReplicas(nodes[s], cmd.raw) : Allocate(s, ids)
  /\ committed' = [committed EXCEPT ![s] = TRUE]
  /\ UNCHANGED nodes

\* append(s[:idx], s[idx+1:]...) moves the tail down inside the array.
HandleEvictChunk(s, cmd) ==
  /\ IF cmd.node \in Range(List(s))
       THEN LET slice == replicas[s]
                rest == EvictReplica(List(s), cmd.node)
                array == heap[s][slice.ptr]
            IN  /\ heap' = [heap EXCEPT ![s][slice.ptr] =
                     rest \o SubSeq(array, slice.len, Len(array))]
                /\ replicas' = [replicas EXCEPT ![s].len = slice.len - 1]
       ELSE UNCHANGED <<heap, replicas>>
  /\ UNCHANGED <<nodes, committed>>

\* append writes a spare cell if there is one, else it copies to a new array.
HandleAddReplica(s, cmd) ==
  LET slice == replicas[s]
  IN  /\ CASE cmd.node \in Range(List(s)) ->
                UNCHANGED <<heap, replicas>>
           [] cmd.node \notin Range(List(s)) /\ slice.ptr # 0 /\ slice.len < Len(heap[s][slice.ptr]) ->
                /\ heap' = [heap EXCEPT ![s][slice.ptr][slice.len + 1] = cmd.node]
                /\ replicas' = [replicas EXCEPT ![s].len = slice.len + 1]
           [] OTHER ->
                Allocate(s, Append(List(s), cmd.node))
      /\ UNCHANGED <<nodes, committed>>

\* Nothing keeps Apply from running next to Persist; without
\* EvictWhilePersisting, evictions happen to come before or after it.
Apply(s) ==
  /\ applied[s] < Len(log)
  /\ EvictWhilePersisting \/ snap[s] = {} \/ log[applied[s] + 1].op # "EvictChunkFromNode"
  /\ LET cmd == log[applied[s] + 1]
     IN  \/ cmd.op = "RegisterNode" /\ HandleRegisterNode(s, cmd)
         \/ cmd.op = "CommitChunk" /\ HandleCommitChunk(s, cmd)
         \/ cmd.op = "EvictChunkFromNode" /\ HandleEvictChunk(s, cmd)
         \/ cmd.op = "AddChunkReplica" /\ HandleAddReplica(s, cmd)
  /\ applied' = [applied EXCEPT ![s] = @ + 1]
  /\ UNCHANGED <<log, snap, disk, snapshots, restarts>>

-----------------------------------------------------------------------------
(* Snapshots *)

\* Snapshot copies the records: the addresses, but only the slice header.
Snapshot(s) ==
  /\ snap[s] = {}
  /\ snapshots < MaxSnapshots
  /\ snap' = [snap EXCEPT ![s] =
       {[index |-> applied[s], nodes |-> nodes[s], committed |-> committed[s],
         slice |-> replicas[s], out |-> <<>>]}]
  /\ snapshots' = snapshots + 1
  /\ UNCHANGED <<log, applied, nodes, heap, committed, replicas, disk, restarts>>

\* Persist marshals the next element of the list, while Apply goes on.
PersistElement(s) ==
  /\ \E sn \in snap[s] :
       /\ Len(sn.out) < sn.slice.len
       /\ snap' = [snap EXCEPT ![s] =
            {[sn EXCEPT !.out = Append(sn.out, heap[s][sn.slice.ptr][Len(sn.out) + 1])]}]
  /\ UNCHANGED <<log, applied, nodes, heap, committed, replicas, disk, snapshots, restarts>>

\* sink.Close
PersistDone(s) ==
  /\ \E sn \in snap[s] :
       /\ Len(sn.out) = sn.slice.len
       /\ disk' = [disk EXCEPT ![s] = {sn}]
  /\ snap' = [snap EXCEPT ![s] = {}]
  /\ UNCHANGED <<log, applied, nodes, heap, committed, replicas, snapshots, restarts>>

\* A write error: sink.Cancel, the snapshot is discarded.
PersistFail(s) ==
  /\ snap[s] # {}
  /\ snap' = [snap EXCEPT ![s] = {}]
  /\ UNCHANGED <<log, applied, nodes, heap, committed, replicas, disk, snapshots, restarts>>

\* Broken variant: the node registry is left out.
RestoreWithoutNodes(s, sn, base) ==
  /\ applied' = [applied EXCEPT ![s] = sn.index]
  /\ committed' = [committed EXCEPT ![s] = sn.committed]
  /\ \E array \in NewArrays(sn.out) :
       /\ heap' = [heap EXCEPT ![s] = Append(base, array)]
       /\ replicas' = [replicas EXCEPT ![s] = [ptr |-> Len(base) + 1, len |-> Len(sn.out)]]
  /\ UNCHANGED nodes

\* Restore replaces every registry; the list is read into a new array.
RestoreFrom(s, sn, base) ==
  /\ applied' = [applied EXCEPT ![s] = sn.index]
  /\ nodes' = [nodes EXCEPT ![s] = sn.nodes]
  /\ committed' = [committed EXCEPT ![s] = sn.committed]
  /\ IF sn.slice.ptr = 0
       THEN /\ heap' = [heap EXCEPT ![s] = base]
            /\ replicas' = [replicas EXCEPT ![s] = NilSlice]
       ELSE \E array \in NewArrays(sn.out) :
            /\ heap' = [heap EXCEPT ![s] = Append(base, array)]
            /\ replicas' = [replicas EXCEPT ![s] =
                              [ptr |-> Len(base) + 1, len |-> Len(sn.out)]]

EmptySnapshot ==
  [index |-> 0, nodes |-> EmptyRegistry, committed |-> FALSE, slice |-> NilSlice, out |-> <<>>]

\* A crash and a start from the last snapshot, or from nothing; Raft then
\* replays the log from there.
Restart(s) ==
  /\ restarts < MaxRestarts
  /\ \E sn \in (IF disk[s] = {} THEN {EmptySnapshot} ELSE disk[s]) : RestoreFrom(s, sn, <<>>)
  /\ snap' = [snap EXCEPT ![s] = {}]
  /\ restarts' = restarts + 1
  /\ UNCHANGED <<log, disk, snapshots>>

\* Raft sends the snapshot of t to a server that lags behind it.
InstallSnapshot(s, t) ==
  /\ \E sn \in disk[t] :
       /\ applied[s] < sn.index
       /\ RestoreFrom(s, sn, heap[s])
       /\ disk' = [disk EXCEPT ![s] = {sn}]
  /\ UNCHANGED <<log, snap, snapshots, restarts>>

ReplicatedNext ==
  \/ \E cmd \in Commands : Propose(cmd)
  \/ \E s \in Peers :
       \/ Apply(s)
       \/ Snapshot(s)
       \/ PersistElement(s)
       \/ PersistDone(s)
       \/ PersistFail(s)
       \/ Restart(s)
       \/ \E t \in Peers : InstallSnapshot(s, t)

ReplicatedSpec == ReplicatedInit /\ [][ReplicatedNext]_replicatedVars

-----------------------------------------------------------------------------
(* Properties *)

\* The contract of Apply: "given the same sequence of commands every FSM
\* replica must produce identical state", whether a server applied them all,
\* or restarted, or started from a snapshot of its own or of another server.
Converged ==
  \A s, t \in Peers :
    applied[s] = applied[t] =>
      nodes[s] = nodes[t] /\ committed[s] = committed[t] /\ List(s) = List(t)

=============================================================================
