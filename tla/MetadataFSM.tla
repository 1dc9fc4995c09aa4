---------------------------- MODULE MetadataFSM ----------------------------
(***************************************************************************)
(* The metadata state machine of src/metadata/fsm: the five registries and *)
(* one action per command handler.  Raft hands committed commands to       *)
(* Apply one at a time, so a handler is one atomic step; nothing orders    *)
(* the commands of concurrent proposers, so any command may come next.     *)
(*                                                                         *)
(* A handler that returns an error changes nothing: it is a stuttering     *)
(* step, and the guard of an action is the condition for no error.         *)
(* Timestamps and file names are left out: no handler's guard reads them.  *)
(* The free space and chunk count a node reports always travel together    *)
(* and are one value, the report.                                          *)
(***************************************************************************)
EXTENDS ReplicaLists

CONSTANTS
  FileIDs, ChunkIDs, NodeIDs, JobIDs,
  Addrs,          \* gRPC addresses of storage nodes
  Reports,        \* capacity reports (free space with chunk count)
  Sizes,          \* file sizes
  Checksums,
  NoChecksum,     \* the nil checksum of a record not yet committed
  NoNode,         \* the empty node ID of a request
  RaftAddrs, GrpcAddrs,  \* addresses of metadata nodes
  ChunkLists,     \* ordered chunk ID lists a CreateFile may carry
  CommitLists     \* confirmed replica lists a CommitChunk may carry

\* What CommitChunk names a replica by: PutChunk confirms the primary by its
\* node ID and the other replicas by their address.
Hosts == NodeIDs \cup Addrs

ASSUME ChunkListsAssumption ==
  /\ ChunkLists \subseteq Seq(ChunkIDs)
  /\ \A cids \in ChunkLists : IsInjective(cids)

ASSUME CommitListsAssumption == CommitLists \subseteq Seq(Hosts)

\* An address (host:port) is no node ID.
ASSUME HostsAssumption == NodeIDs \cap Addrs = {}

ASSUME NoChecksumAssumption == NoChecksum \notin Checksums

ASSUME NoNodeAssumption == NoNode \notin NodeIDs

VARIABLES
  fileIndex,          \* file ID -> FileRecord
  chunkRegistry,      \* chunk ID -> ChunkRecord
  nodeRegistry,       \* node ID -> NodeEntry
  repairJobRegistry,  \* job ID -> RepairJob
  mdNodeRegistry      \* raft address -> gRPC address

vars ==
  <<fileIndex, chunkRegistry, nodeRegistry, repairJobRegistry, mdNodeRegistry>>

-----------------------------------------------------------------------------
(* Records *)

FileStatus == {"creating", "complete", "deleted"}
ChunkStatus == {"allocated", "complete", "lost"}
NodeStatus == {"alive", "suspect", "dead", "draining"}
RepairStatus == {"pending", "in-progress", "done", "failed"}

FileRecord ==
  [chunkIDs : ChunkLists, fileSize : Sizes, status : FileStatus,
   checkSum : Checksums \cup {NoChecksum}]

ChunkRecord ==
  [fileID : FileIDs, chunkIndex : Nat, status : ChunkStatus,
   checksum : Checksums \cup {NoChecksum},
   replicas : Seq(Hosts)]

NodeEntry ==
  [address : Addrs, status : NodeStatus, report : Reports]

RepairJob ==
  [chunkID : ChunkIDs, sourceNodeID : NodeIDs,
   targetNodeID : NodeIDs \cup {NoNode}, deleteSource : BOOLEAN,
   status : RepairStatus]

TypeOK ==
  /\ IsRegistry(fileIndex, FileIDs, FileRecord)
  /\ IsRegistry(chunkRegistry, ChunkIDs, ChunkRecord)
  /\ IsRegistry(nodeRegistry, NodeIDs, NodeEntry)
  /\ IsRegistry(repairJobRegistry, JobIDs, RepairJob)
  /\ IsRegistry(mdNodeRegistry, RaftAddrs, GrpcAddrs)

\* NewEmptyMetadataFsm
Init ==
  /\ fileIndex = EmptyRegistry
  /\ chunkRegistry = EmptyRegistry
  /\ nodeRegistry = EmptyRegistry
  /\ repairJobRegistry = EmptyRegistry
  /\ mdNodeRegistry = EmptyRegistry

-----------------------------------------------------------------------------
(* Node commands *)

\* A node already known is updated in place, which leaves it with the same
\* fields as a fresh entry.
RegisterNode(n, addr, rep) ==
  /\ nodeRegistry' =
       Put(nodeRegistry, n, [address |-> addr, status |-> "alive", report |-> rep])
  /\ UNCHANGED <<fileIndex, chunkRegistry, repairJobRegistry, mdNodeRegistry>>

SetNodeStatus(n, st) ==
  /\ n \in DOMAIN nodeRegistry
  /\ nodeRegistry' = [nodeRegistry EXCEPT ![n].status = st]
  /\ UNCHANGED <<fileIndex, chunkRegistry, repairJobRegistry, mdNodeRegistry>>

DeregisterNode(n) == SetNodeStatus(n, "draining")
MarkNodeDead(n)   == SetNodeStatus(n, "dead")
MarkNodeAlive(n)  == SetNodeStatus(n, "alive")

UpdateNodeSpace(n, rep) ==
  /\ n \in DOMAIN nodeRegistry
  /\ nodeRegistry' = [nodeRegistry EXCEPT ![n].report = rep]
  /\ UNCHANGED <<fileIndex, chunkRegistry, repairJobRegistry, mdNodeRegistry>>

-----------------------------------------------------------------------------
(* File commands *)

\* The stub records of a file's chunks; ChunkIndex counts from 0.
ChunkStubs(f, cids) ==
  [c \in Range(cids) |->
     [fileID |-> f, chunkIndex |-> FirstIndex(cids, c) - 1,
      status |-> "allocated", checksum |-> NoChecksum, replicas |-> <<>>]]

\* Broken variant: pass 1 is missing.
CreateFileOverChunks(f, cids, size) ==
  /\ f \notin DOMAIN fileIndex
  /\ chunkRegistry' = Merge(ChunkStubs(f, cids), chunkRegistry)
  /\ fileIndex' =
       Put(fileIndex, f, [chunkIDs |-> cids, fileSize |-> size,
                          status |-> "creating", checkSum |-> NoChecksum])
  /\ UNCHANGED <<nodeRegistry, repairJobRegistry, mdNodeRegistry>>

\* Broken variant: an existing file is overwritten.
CreateFileOverFile(f, cids, size) ==
  /\ Range(cids) \cap DOMAIN chunkRegistry = {}
  /\ chunkRegistry' = Merge(ChunkStubs(f, cids), chunkRegistry)
  /\ fileIndex' =
       Put(fileIndex, f, [chunkIDs |-> cids, fileSize |-> size,
                          status |-> "creating", checkSum |-> NoChecksum])
  /\ UNCHANGED <<nodeRegistry, repairJobRegistry, mdNodeRegistry>>

\* Pass 1 rejects the file if any chunk ID is taken, pass 2 inserts them all.
CreateFile(f, cids, size) ==
  /\ f \notin DOMAIN fileIndex
  /\ Range(cids) \cap DOMAIN chunkRegistry = {}
  /\ chunkRegistry' = Merge(ChunkStubs(f, cids), chunkRegistry)
  /\ fileIndex' =
       Put(fileIndex, f, [chunkIDs |-> cids, fileSize |-> size,
                          status |-> "creating", checkSum |-> NoChecksum])
  /\ UNCHANGED <<nodeRegistry, repairJobRegistry, mdNodeRegistry>>

\* Broken variant: a chunk that is not complete yet is accepted.
CommitFileEarly(f, size, sum) ==
  /\ f \in DOMAIN fileIndex
  /\ fileIndex[f].fileSize = size
  /\ Range(fileIndex[f].chunkIDs) \subseteq DOMAIN chunkRegistry
  /\ fileIndex' = [fileIndex EXCEPT ![f] = [@ EXCEPT !.status = "complete", !.checkSum = sum]]
  /\ UNCHANGED <<chunkRegistry, nodeRegistry, repairJobRegistry, mdNodeRegistry>>

\* The handler does not look at the file's status.
CommitFile(f, size, sum) ==
  /\ f \in DOMAIN fileIndex
  /\ fileIndex[f].fileSize = size
  /\ \A c \in Range(fileIndex[f].chunkIDs) :
       /\ c \in DOMAIN chunkRegistry
       /\ chunkRegistry[c].status = "complete"
  /\ fileIndex' = [fileIndex EXCEPT ![f] = [@ EXCEPT !.status = "complete", !.checkSum = sum]]
  /\ UNCHANGED <<chunkRegistry, nodeRegistry, repairJobRegistry, mdNodeRegistry>>

DeleteFile(f) ==
  /\ f \in DOMAIN fileIndex
  /\ fileIndex' = [fileIndex EXCEPT ![f].status = "deleted"]
  /\ UNCHANGED <<chunkRegistry, nodeRegistry, repairJobRegistry, mdNodeRegistry>>

-----------------------------------------------------------------------------
(* Chunk commands *)

AddressOf == [n \in DOMAIN nodeRegistry |-> nodeRegistry[n].address]

\* Broken variant: only the status guards against a second commit.
CommitChunkByStatus(c, raw, sum) ==
  /\ c \in DOMAIN chunkRegistry
  /\ chunkRegistry[c].status # "complete"
  /\ \E ids \in NormalizedReplicas(AddressOf, raw) :
       chunkRegistry' = [chunkRegistry EXCEPT
         ![c] = [@ EXCEPT !.status = "complete", !.checksum = sum, !.replicas = ids]]
  /\ UNCHANGED <<fileIndex, nodeRegistry, repairJobRegistry, mdNodeRegistry>>

CommitChunk(c, raw, sum) ==
  /\ c \in DOMAIN chunkRegistry
  /\ chunkRegistry[c].checksum = NoChecksum
  /\ chunkRegistry[c].status # "complete"
  /\ \E ids \in NormalizedReplicas(AddressOf, raw) :
       chunkRegistry' = [chunkRegistry EXCEPT
         ![c] = [@ EXCEPT !.status = "complete", !.checksum = sum, !.replicas = ids]]
  /\ UNCHANGED <<fileIndex, nodeRegistry, repairJobRegistry, mdNodeRegistry>>

EvictChunkFromNode(c, n) ==
  /\ c \in DOMAIN chunkRegistry
  /\ n \in Range(chunkRegistry[c].replicas)
  /\ chunkRegistry' = [chunkRegistry EXCEPT ![c].replicas = EvictReplica(@, n)]
  /\ UNCHANGED <<fileIndex, nodeRegistry, repairJobRegistry, mdNodeRegistry>>

\* No component of the repository proposes this command.
MarkChunkLost(c) ==
  /\ c \in DOMAIN chunkRegistry
  /\ chunkRegistry' = [chunkRegistry EXCEPT ![c].status = "lost"]
  /\ UNCHANGED <<fileIndex, nodeRegistry, repairJobRegistry, mdNodeRegistry>>

\* Neither the node nor its status is looked up.
AddChunkReplica(c, n) ==
  /\ c \in DOMAIN chunkRegistry
  /\ chunkRegistry' = [chunkRegistry EXCEPT ![c].replicas = AddReplica(@, n)]
  /\ UNCHANGED <<fileIndex, nodeRegistry, repairJobRegistry, mdNodeRegistry>>

-----------------------------------------------------------------------------
(* Repair-job commands *)

\* Broken variant: an existing job is replaced.
CreateRepairJobAgain(j, c, src, tgt, del) ==
  /\ repairJobRegistry' =
       Put(repairJobRegistry, j,
           [chunkID |-> c, sourceNodeID |-> src, targetNodeID |-> tgt,
            deleteSource |-> del, status |-> "pending"])
  /\ UNCHANGED <<fileIndex, chunkRegistry, nodeRegistry, mdNodeRegistry>>

CreateRepairJob(j, c, src, tgt, del) ==
  /\ j \notin DOMAIN repairJobRegistry
  /\ repairJobRegistry' =
       Put(repairJobRegistry, j,
           [chunkID |-> c, sourceNodeID |-> src, targetNodeID |-> tgt,
            deleteSource |-> del, status |-> "pending"])
  /\ UNCHANGED <<fileIndex, chunkRegistry, nodeRegistry, mdNodeRegistry>>

\* Broken variant: an empty source overwrites the one recorded.
UpdateRepairJobSource(j, st, src) ==
  /\ j \in DOMAIN repairJobRegistry
  /\ repairJobRegistry' =
       [repairJobRegistry EXCEPT ![j].status = st, ![j].sourceNodeID = src]
  /\ UNCHANGED <<fileIndex, chunkRegistry, nodeRegistry, mdNodeRegistry>>

\* Any status may follow any other; the source changes only if one is given.
UpdateRepairJob(j, st, src) ==
  /\ j \in DOMAIN repairJobRegistry
  /\ LET from == IF src = NoNode THEN repairJobRegistry[j].sourceNodeID ELSE src
     IN  repairJobRegistry' =
           [repairJobRegistry EXCEPT ![j] = [@ EXCEPT !.status = st, !.sourceNodeID = from]]
  /\ UNCHANGED <<fileIndex, chunkRegistry, nodeRegistry, mdNodeRegistry>>

-----------------------------------------------------------------------------
(* Metadata-node commands *)

RegisterMetadataNode(raft, grpc) ==
  /\ mdNodeRegistry' = Put(mdNodeRegistry, raft, grpc)
  /\ UNCHANGED <<fileIndex, chunkRegistry, nodeRegistry, repairJobRegistry>>

DeregisterMetadataNode(raft) ==
  /\ mdNodeRegistry' = Delete(mdNodeRegistry, raft)
  /\ UNCHANGED <<fileIndex, chunkRegistry, nodeRegistry, repairJobRegistry>>

-----------------------------------------------------------------------------
(* Apply: the next committed command, whatever it is *)

NodeCommand ==
  \E n \in NodeIDs :
    \/ \E addr \in Addrs, rep \in Reports : RegisterNode(n, addr, rep)
    \/ DeregisterNode(n)
    \/ MarkNodeDead(n)
    \/ MarkNodeAlive(n)
    \/ \E rep \in Reports : UpdateNodeSpace(n, rep)

FileCommand ==
  \E f \in FileIDs :
    \/ \E cids \in ChunkLists, size \in Sizes : CreateFile(f, cids, size)
    \/ \E size \in Sizes, sum \in Checksums \cup {NoChecksum} : CommitFile(f, size, sum)
    \/ DeleteFile(f)

ChunkCommand ==
  \E c \in ChunkIDs :
    \/ \E raw \in CommitLists, sum \in Checksums : CommitChunk(c, raw, sum)
    \/ \E n \in NodeIDs : EvictChunkFromNode(c, n)
    \/ MarkChunkLost(c)
    \/ \E n \in NodeIDs : AddChunkReplica(c, n)

RepairJobCommand ==
  \E j \in JobIDs :
    \/ \E c \in ChunkIDs, src \in NodeIDs, tgt \in NodeIDs \cup {NoNode}, del \in BOOLEAN :
         CreateRepairJob(j, c, src, tgt, del)
    \/ \E st \in RepairStatus, src \in NodeIDs \cup {NoNode} : UpdateRepairJob(j, st, src)

MetadataNodeCommand ==
  \E raft \in RaftAddrs :
    \/ \E grpc \in GrpcAddrs : RegisterMetadataNode(raft, grpc)
    \/ DeregisterMetadataNode(raft)

Next ==
  \/ NodeCommand
  \/ FileCommand
  \/ ChunkCommand
  \/ RepairJobCommand
  \/ MetadataNodeCommand

Spec == Init /\ [][Next]_vars

-----------------------------------------------------------------------------
(* Properties *)

\* The file index and the chunk registry describe the same files: chunk i of
\* a file is registered with that file and that index, and every registered
\* chunk is listed by the file it names.  CreateFile inserts into the two maps
\* under two different locks, and no command may leave them apart.
ChunkOwnership ==
  /\ \A f \in DOMAIN fileIndex : \A i \in 1..Len(fileIndex[f].chunkIDs) :
       LET c == fileIndex[f].chunkIDs[i]
       IN  /\ c \in DOMAIN chunkRegistry
           /\ chunkRegistry[c].fileID = f
           /\ chunkRegistry[c].chunkIndex = i - 1
  /\ \A c \in DOMAIN chunkRegistry :
       LET f == chunkRegistry[c].fileID
       IN  /\ f \in DOMAIN fileIndex
           /\ chunkRegistry[c].chunkIndex + 1 \in 1..Len(fileIndex[f].chunkIDs)
           /\ fileIndex[f].chunkIDs[chunkRegistry[c].chunkIndex + 1] = c

\* Every chunk of a file that readers are served has a committed checksum,
\* whatever happened to the chunk since CommitFile checked it.
CompleteFileFilled ==
  \A f \in DOMAIN fileIndex :
    fileIndex[f].status = "complete" =>
      \A c \in Range(fileIndex[f].chunkIDs) :
        c \in DOMAIN chunkRegistry /\ chunkRegistry[c].checksum # NoChecksum

\* A node is counted once among the replicas of a chunk: repair compares the
\* length of the list with the replication factor, and an eviction removes
\* one occurrence only.  No command lets an entry occur twice, and none lists
\* a registered node by its address, however the confirmed list mixes the two.
\* An address that no node has registered is kept, not dropped: it and the ID
\* of a node that registers with it afterwards may stand side by side.
NodesCountedOnce ==
  [][\A c \in DOMAIN chunkRegistry :
       LET old == chunkRegistry[c].replicas
           new == chunkRegistry'[c].replicas
       IN  /\ IsInjective(new)
           /\ (Range(new) \ Range(old)) \cap Range(AddressOf) = {}]_vars

\* The content of a chunk is written once: no command changes a committed
\* checksum, gives a chunk to another file or index, or forgets a chunk.
WriteOnce ==
  [][\A c \in DOMAIN chunkRegistry :
       /\ c \in DOMAIN chunkRegistry'
       /\ chunkRegistry'[c].fileID = chunkRegistry[c].fileID
       /\ chunkRegistry'[c].chunkIndex = chunkRegistry[c].chunkIndex
       /\ chunkRegistry[c].checksum # NoChecksum =>
            chunkRegistry'[c].checksum = chunkRegistry[c].checksum]_vars

\* A repair job stays the job it was created as: OnJobComplete reads its
\* chunk, target and kind from the registry long after CreateRepairJob, to
\* decide which replica to add or to evict.
JobIdentity ==
  [][\A j \in DOMAIN repairJobRegistry :
       /\ j \in DOMAIN repairJobRegistry'
       /\ \A field \in {"chunkID", "targetNodeID", "deleteSource"} :
            repairJobRegistry'[j][field] = repairJobRegistry[j][field]]_vars

\* The files as their readers see them.
StatusOf == [f \in DOMAIN fileIndex |-> fileIndex[f].status]

FileContent ==
  [f \in DOMAIN fileIndex |->
     [i \in 1..Len(fileIndex[f].chunkIDs) |->
        chunkRegistry[fileIndex[f].chunkIDs[i]].checksum]]

FS == INSTANCE WriteOnceFS
        WITH status <- StatusOf, content <- FileContent, Empty <- NoChecksum,
             SlotCounts <- {Len(cids) : cids \in ChunkLists}

\* The commands implement a write-once file store: a slot is filled once, a
\* file is published only when all of its slots are filled, and no command
\* changes the content of two files, however proposers interleave.
ImplementsWriteOnceFS == FS!Spec

=============================================================================
