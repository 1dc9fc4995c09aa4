------------------------- MODULE MetadataFSM_proofs -------------------------
(***************************************************************************)
(* The safety properties of MetadataFSM, for any sets of files, chunks,    *)
(* nodes, jobs and addresses.                                              *)
(***************************************************************************)
EXTENDS MetadataFSM, ReplicaLists_proofs

USE DEF FileStatus, ChunkStatus, NodeStatus

-----------------------------------------------------------------------------
(* Type correctness *)

\* The empty maps are registries of every type.
LEMMA TypeOKInit == Init => TypeOK
BY Zenon DEF Init, TypeOK, IsRegistry, EmptyRegistry

\* The stubs of a new file's chunks are chunk records.
LEMMA ChunkStubsType ==
  ASSUME NEW f \in FileIDs, NEW cids \in ChunkLists
  PROVE  IsRegistry(ChunkStubs(f, cids), ChunkIDs, ChunkRecord)
<1>1. cids \in Seq(ChunkIDs)
  BY ChunkListsAssumption, Zenon
<1>2. Range(cids) \subseteq ChunkIDs
  BY <1>1 DEF Range
<1>3. ASSUME NEW c \in Range(cids)
      PROVE  FirstIndex(cids, c) - 1 \in Nat
  BY <1>1, FirstIndexIs
<1>4. <<>> \in Seq(Hosts)
  OBVIOUS
<1>5. ChunkStubs(f, cids) \in [Range(cids) -> ChunkRecord]
  BY <1>3, <1>4, Zenon DEF ChunkStubs, ChunkRecord
<1>6. QED
  BY <1>2, <1>5, Zenon DEF IsRegistry

\* normalizeReplicaNodeIDs returns a list of hosts without repeats, and no
\* address of a registered node.
LEMMA NormalizedReplicasAre ==
  ASSUME TypeOK, NEW raw \in CommitLists, NEW ids \in NormalizedReplicas(AddressOf, raw)
  PROVE  /\ ids \in Seq(Hosts) /\ IsInjective(ids)
         /\ Range(ids) \cap Range(AddressOf) = {}
<1>1. raw \in Seq(Hosts) /\ Len(raw) \in Nat
  BY CommitListsAssumption
<1>2. DOMAIN AddressOf \cup Range(raw) \subseteq Hosts
  BY <1>1 DEF AddressOf, TypeOK, IsRegistry, Hosts, Range
<1>3. PICK res \in Resolutions(AddressOf, raw) : ids = Dedup(res)
  BY Zenon DEF NormalizedReplicas
<1>4. res \in [1..Len(raw) -> Hosts]
  BY <1>2, <1>3, Zenon DEF Resolutions
<1>5. res \in Seq(Hosts)
  BY <1>1, <1>4
<1>6. Range(ids) = Range(res)
  BY <1>3, <1>5, DedupIs, Zenon DEF IsDedup
<1>7. \A e \in Range(AddressOf) : e \notin DOMAIN AddressOf
  BY HostsAssumption, Zenon DEF AddressOf, TypeOK, IsRegistry, NodeEntry, Range
<1>8. ASSUME NEW i \in 1..Len(raw) PROVE res[i] \notin Range(AddressOf)
  <2>1. res[i] \in ResolvedIDs(AddressOf, raw[i])
    BY <1>3, Zenon DEF Resolutions
  <2> QED BY <1>7, <2>1, Zenon DEF ResolvedIDs, Range
<1>9. Range(res) \cap Range(AddressOf) = {}
  <2>1. \A e \in Range(res) : \E i \in 1..Len(raw) : e = res[i]
    BY <1>4, Zenon DEF Range
  <2> QED BY <1>8, <2>1, Zenon
<1>10. QED
  BY <1>3, <1>5, <1>6, <1>9, DedupIs, Zenon DEF IsDedup

\* Every command keeps the node registry well typed.
LEMMA TypeOKNode ==
  ASSUME TypeOK, NodeCommand
  PROVE  TypeOK'
<1> USE DEF TypeOK
<1>1. PICK n \in NodeIDs :
        \/ \E addr \in Addrs, rep \in Reports : RegisterNode(n, addr, rep)
        \/ DeregisterNode(n)
        \/ MarkNodeDead(n)
        \/ MarkNodeAlive(n)
        \/ \E rep \in Reports : UpdateNodeSpace(n, rep)
  BY Zenon DEF NodeCommand
<1>2. ASSUME NEW addr \in Addrs, NEW rep \in Reports, RegisterNode(n, addr, rep)
      PROVE  TypeOK'
  <2>1. [address |-> addr, status |-> "alive", report |-> rep] \in NodeEntry
    BY Zenon DEF NodeEntry
  <2>2. QED
    BY <1>2, <2>1, PutRegistry, Zenon DEF RegisterNode
<1>3. ASSUME NEW st \in {"alive", "draining", "dead"}, SetNodeStatus(n, st)
      PROVE  TypeOK'
  <2>1. n \in DOMAIN nodeRegistry /\ nodeRegistry[n] \in NodeEntry
    BY <1>3, Zenon DEF SetNodeStatus, IsRegistry
  <2>2. [nodeRegistry[n] EXCEPT !.status = st] \in NodeEntry
    BY <2>1, Zenon DEF NodeEntry
  <2>3. QED
    BY <1>3, <2>1, <2>2, UpdateRegistry, Zenon DEF SetNodeStatus
<1>4. ASSUME NEW rep \in Reports, UpdateNodeSpace(n, rep)
      PROVE  TypeOK'
  <2>1. n \in DOMAIN nodeRegistry /\ nodeRegistry[n] \in NodeEntry
    BY <1>4, Zenon DEF UpdateNodeSpace, IsRegistry
  <2>2. [nodeRegistry[n] EXCEPT !.report = rep] \in NodeEntry
    BY <2>1, Zenon DEF NodeEntry
  <2>3. QED
    BY <1>4, <2>1, <2>2, UpdateRegistry, Zenon DEF UpdateNodeSpace
<1>5. QED
  BY <1>1, <1>2, <1>3, <1>4, Zenon DEF DeregisterNode, MarkNodeDead, MarkNodeAlive

\* Every file command keeps the files and the chunks well typed.
LEMMA TypeOKFile ==
  ASSUME TypeOK, FileCommand
  PROVE  TypeOK'
<1> USE DEF TypeOK
<1>1. PICK f \in FileIDs :
        \/ \E cids \in ChunkLists, size \in Sizes : CreateFile(f, cids, size)
        \/ \E size \in Sizes, sum \in Checksums \cup {NoChecksum} : CommitFile(f, size, sum)
        \/ DeleteFile(f)
  BY Zenon DEF FileCommand
<1>2. ASSUME NEW cids \in ChunkLists, NEW size \in Sizes, CreateFile(f, cids, size)
      PROVE  TypeOK'
  <2>1. IsRegistry(chunkRegistry', ChunkIDs, ChunkRecord)
    BY <1>2, ChunkStubsType, MergeRegistry, Zenon DEF CreateFile
  <2>2. [chunkIDs |-> cids, fileSize |-> size, status |-> "creating",
         checkSum |-> NoChecksum] \in FileRecord
    BY Zenon DEF FileRecord
  <2>3. IsRegistry(fileIndex', FileIDs, FileRecord)
    BY <1>2, <2>2, PutRegistry, Zenon DEF CreateFile
  <2>4. QED
    BY <1>2, <2>1, <2>3, Zenon DEF CreateFile
<1>3. ASSUME NEW size \in Sizes, NEW sum \in Checksums \cup {NoChecksum}, CommitFile(f, size, sum)
      PROVE  TypeOK'
  <2>1. f \in DOMAIN fileIndex /\ fileIndex[f] \in FileRecord
    BY <1>3, Zenon DEF CommitFile, IsRegistry
  <2>2. [fileIndex[f] EXCEPT !.status = "complete", !.checkSum = sum] \in FileRecord
    BY <2>1, Zenon DEF FileRecord
  <2>3. fileIndex' =
          [fileIndex EXCEPT ![f] = [fileIndex[f] EXCEPT !.status = "complete", !.checkSum = sum]]
    BY <1>3, <2>1, Zenon DEF CommitFile, FileRecord
  <2>4. IsRegistry(fileIndex', FileIDs, FileRecord)
    BY <2>1, <2>2, <2>3, UpdateRegistry, Zenon
  <2>5. QED
    BY <1>3, <2>4, Zenon DEF CommitFile
<1>4. ASSUME DeleteFile(f)
      PROVE  TypeOK'
  <2>1. f \in DOMAIN fileIndex /\ fileIndex[f] \in FileRecord
    BY <1>4, Zenon DEF DeleteFile, IsRegistry
  <2>2. [fileIndex[f] EXCEPT !.status = "deleted"] \in FileRecord
    BY <2>1, Zenon DEF FileRecord
  <2>3. QED
    BY <1>4, <2>1, <2>2, UpdateRegistry, ZenonT(30) DEF DeleteFile
<1>5. QED
  BY <1>1, <1>2, <1>3, <1>4, Zenon

\* What a chunk command may do to the record old of one chunk: it keeps the
\* chunk where it is, fills an empty checksum or none, completes only a chunk
\* that has a checksum, lets no replica occur twice and lists no registered
\* node by its address.
ChunkUpdate(old, new) ==
  /\ new \in ChunkRecord
  /\ new.fileID = old.fileID
  /\ new.chunkIndex = old.chunkIndex
  /\ \/ new.checksum = old.checksum
     \/ old.checksum = NoChecksum /\ new.checksum \in Checksums
  /\ new.status = "complete" => old.status = "complete" \/ new.checksum \in Checksums
  /\ IsInjective(old.replicas) => IsInjective(new.replicas)
  /\ (Range(new.replicas) \ Range(old.replicas)) \cap Range(AddressOf) = {}

\* A chunk command updates the record of one registered chunk.
LEMMA ChunkCommandUpdates ==
  ASSUME TypeOK, ChunkCommand
  PROVE  /\ \E c \in DOMAIN chunkRegistry : \E new \in ChunkRecord :
              /\ ChunkUpdate(chunkRegistry[c], new)
              /\ chunkRegistry' = [chunkRegistry EXCEPT ![c] = new]
         /\ UNCHANGED <<fileIndex, nodeRegistry, repairJobRegistry, mdNodeRegistry>>
<1>1. PICK c \in ChunkIDs :
        \/ \E raw \in CommitLists, sum \in Checksums : CommitChunk(c, raw, sum)
        \/ \E n \in NodeIDs : EvictChunkFromNode(c, n)
        \/ MarkChunkLost(c)
        \/ \E n \in NodeIDs : AddChunkReplica(c, n)
  BY Zenon DEF ChunkCommand
<1>2. c \in DOMAIN chunkRegistry
  BY <1>1, Zenon DEF CommitChunk, EvictChunkFromNode, MarkChunkLost, AddChunkReplica
<1>3. UNCHANGED <<fileIndex, nodeRegistry, repairJobRegistry, mdNodeRegistry>>
  BY <1>1, Zenon DEF CommitChunk, EvictChunkFromNode, MarkChunkLost, AddChunkReplica
<1> DEFINE old == chunkRegistry[c]
<1>4. old \in ChunkRecord
  BY <1>2, Zenon DEF TypeOK, IsRegistry
<1>5. ASSUME NEW raw \in CommitLists, NEW sum \in Checksums, CommitChunk(c, raw, sum)
      PROVE  \E new \in ChunkRecord :
               ChunkUpdate(old, new) /\ chunkRegistry' = [chunkRegistry EXCEPT ![c] = new]
  <2>1. PICK ids \in NormalizedReplicas(AddressOf, raw) :
          chunkRegistry' = [chunkRegistry EXCEPT
            ![c] = [old EXCEPT !.status = "complete", !.checksum = sum, !.replicas = ids]]
    BY <1>5, Zenon DEF CommitChunk
  <2>2. ids \in Seq(Hosts) /\ IsInjective(ids) /\ Range(ids) \cap Range(AddressOf) = {}
    BY NormalizedReplicasAre, Zenon
  <2>3. old.checksum = NoChecksum
    BY <1>5, Zenon DEF CommitChunk
  <2> DEFINE new == [old EXCEPT !.status = "complete", !.checksum = sum, !.replicas = ids]
  <2>4. new \in ChunkRecord
    BY <1>4, <2>2, Zenon DEF ChunkRecord
  <2>5. /\ new.fileID = old.fileID
        /\ new.chunkIndex = old.chunkIndex
        /\ new.checksum = sum
        /\ new.replicas = ids
    BY <1>4, Zenon DEF ChunkRecord
  <2> HIDE DEF new
  <2>6. ChunkUpdate(old, new)
    BY <2>2, <2>3, <2>4, <2>5, Zenon DEF ChunkUpdate
  <2>7. QED
    BY <2>1, <2>4, <2>6, Zenon DEF new
<1>6. ASSUME NEW ids \in Seq(Hosts), IsInjective(old.replicas) => IsInjective(ids),
             NEW n \in NodeIDs, Range(ids) \subseteq Range(old.replicas) \cup {n},
             chunkRegistry' = [chunkRegistry EXCEPT ![c].replicas = ids]
      PROVE  \E new \in ChunkRecord :
               ChunkUpdate(old, new) /\ chunkRegistry' = [chunkRegistry EXCEPT ![c] = new]
  <2> DEFINE new == [old EXCEPT !.replicas = ids]
  <2>1. new \in ChunkRecord
    BY <1>4, Zenon DEF ChunkRecord
  <2>2. /\ new.fileID = old.fileID
        /\ new.chunkIndex = old.chunkIndex
        /\ new.status = old.status
        /\ new.checksum = old.checksum
        /\ new.replicas = ids
    BY <1>4, Zenon DEF ChunkRecord
  <2>3. chunkRegistry' = [chunkRegistry EXCEPT ![c] = new]
    BY <1>6, Zenon
  <2> HIDE DEF new
  <2>6. (Range(new.replicas) \ Range(old.replicas)) \cap Range(AddressOf) = {}
    <3>1. n \notin Range(AddressOf)
      BY HostsAssumption, Zenon DEF AddressOf, TypeOK, IsRegistry, NodeEntry, Range
    <3> QED BY <1>6, <2>2, <3>1, Zenon
  <2>4. ChunkUpdate(old, new)
    BY <1>6, <2>1, <2>2, <2>6, Zenon DEF ChunkUpdate
  <2>5. QED
    BY <2>1, <2>3, <2>4, Zenon
<1>7. old.replicas \in Seq(Hosts)
  BY <1>4, Zenon DEF ChunkRecord
<1>8. ASSUME NEW n \in NodeIDs, EvictChunkFromNode(c, n)
      PROVE  \E new \in ChunkRecord :
               ChunkUpdate(old, new) /\ chunkRegistry' = [chunkRegistry EXCEPT ![c] = new]
  <2>1. n \in Range(old.replicas)
    BY <1>8, Zenon DEF EvictChunkFromNode
  <2>2. chunkRegistry' = [chunkRegistry EXCEPT ![c].replicas = EvictReplica(old.replicas, n)]
    BY <1>8, Zenon DEF EvictChunkFromNode
  <2>3. EvictReplica(old.replicas, n) \in Seq(Hosts)
    BY <1>7, <2>1, EvictReplicaType, Zenon
  <2>4. IsInjective(old.replicas) => IsInjective(EvictReplica(old.replicas, n))
    BY <1>7, <2>1, EvictReplicaInjective, Zenon
  <2>5. Range(EvictReplica(old.replicas, n)) \subseteq Range(old.replicas)
    BY <1>7, <2>1, EvictReplicaRange, Zenon
  <2>6. QED
    BY <1>6, <2>2, <2>3, <2>4, <2>5, Zenon
<1>9. ASSUME NEW n \in NodeIDs, AddChunkReplica(c, n)
      PROVE  \E new \in ChunkRecord :
               ChunkUpdate(old, new) /\ chunkRegistry' = [chunkRegistry EXCEPT ![c] = new]
  <2>1. n \in Hosts
    BY Zenon DEF Hosts
  <2>2. chunkRegistry' = [chunkRegistry EXCEPT ![c].replicas = AddReplica(old.replicas, n)]
    BY <1>9, Zenon DEF AddChunkReplica
  <2>3. AddReplica(old.replicas, n) \in Seq(Hosts)
    BY <1>7, <2>1, AddReplicaType, Zenon
  <2>4. IsInjective(old.replicas) => IsInjective(AddReplica(old.replicas, n))
    BY <1>7, <2>1, AddReplicaInjective, Zenon
  <2>5. Range(AddReplica(old.replicas, n)) \subseteq Range(old.replicas) \cup {n}
    BY <1>7, <2>1, AddReplicaRange, Zenon
  <2>6. QED
    BY <1>6, <2>2, <2>3, <2>4, <2>5, Zenon
<1>10. ASSUME MarkChunkLost(c)
       PROVE  \E new \in ChunkRecord :
                ChunkUpdate(old, new) /\ chunkRegistry' = [chunkRegistry EXCEPT ![c] = new]
  <2> DEFINE new == [old EXCEPT !.status = "lost"]
  <2>1. new \in ChunkRecord
    BY <1>4, Zenon DEF ChunkRecord
  <2>2. /\ new.fileID = old.fileID
        /\ new.chunkIndex = old.chunkIndex
        /\ new.status = "lost"
        /\ new.checksum = old.checksum
        /\ new.replicas = old.replicas
    BY <1>4, Zenon DEF ChunkRecord
  <2>3. chunkRegistry' = [chunkRegistry EXCEPT ![c] = new]
    BY <1>10, Zenon DEF MarkChunkLost
  <2> HIDE DEF new
  <2>4. ChunkUpdate(old, new)
    BY <2>1, <2>2, Zenon DEF ChunkUpdate
  <2>5. QED
    BY <2>1, <2>3, <2>4, Zenon
<1>11. QED
  BY <1>1, <1>2, <1>3, <1>5, <1>8, <1>9, <1>10, Zenon

\* Every chunk command keeps the chunks well typed.
LEMMA TypeOKChunk ==
  ASSUME TypeOK, ChunkCommand
  PROVE  TypeOK'
BY ChunkCommandUpdates, UpdateRegistry DEF TypeOK

\* Every repair-job command keeps the jobs well typed.
LEMMA TypeOKJob ==
  ASSUME TypeOK, RepairJobCommand
  PROVE  TypeOK'
<1> USE DEF TypeOK
<1>1. PICK j \in JobIDs :
        \/ \E c \in ChunkIDs, src \in NodeIDs, tgt \in NodeIDs \cup {NoNode}, del \in BOOLEAN :
             CreateRepairJob(j, c, src, tgt, del)
        \/ \E st \in RepairStatus, src \in NodeIDs \cup {NoNode} : UpdateRepairJob(j, st, src)
  BY Zenon DEF RepairJobCommand
<1>2. ASSUME NEW c \in ChunkIDs, NEW src \in NodeIDs, NEW tgt \in NodeIDs \cup {NoNode},
             NEW del \in BOOLEAN, CreateRepairJob(j, c, src, tgt, del)
      PROVE  TypeOK'
  <2>1. [chunkID |-> c, sourceNodeID |-> src, targetNodeID |-> tgt,
         deleteSource |-> del, status |-> "pending"] \in RepairJob
    BY Zenon DEF RepairJob, RepairStatus
  <2>2. QED
    BY <1>2, <2>1, PutRegistry, Zenon DEF CreateRepairJob
<1>3. ASSUME NEW st \in RepairStatus, NEW src \in NodeIDs \cup {NoNode},
             UpdateRepairJob(j, st, src)
      PROVE  TypeOK'
  <2> DEFINE old == repairJobRegistry[j]
             from == IF src = NoNode THEN old.sourceNodeID ELSE src
             new == [old EXCEPT !.status = st, !.sourceNodeID = from]
  <2>1. j \in DOMAIN repairJobRegistry /\ old \in RepairJob
    BY <1>3, Zenon DEF UpdateRepairJob, IsRegistry
  <2>2. from \in NodeIDs
    BY <2>1, Zenon DEF RepairJob
  <2>3. new \in RepairJob
    <3> HIDE DEF from
    <3>1. QED
      BY <2>1, <2>2, Zenon DEF RepairJob
  <2>4. repairJobRegistry' = [repairJobRegistry EXCEPT ![j] = new]
    BY <1>3, <2>1, Zenon DEF UpdateRepairJob
  <2>5. IsRegistry(repairJobRegistry', JobIDs, RepairJob)
    BY <2>1, <2>3, <2>4, UpdateRegistry, Zenon
  <2>6. QED
    BY <1>3, <2>5, Zenon DEF UpdateRepairJob
<1>4. QED
  BY <1>1, <1>2, <1>3, Zenon

\* Every metadata-node command keeps the metadata nodes well typed.
LEMMA TypeOKMetadataNode ==
  ASSUME TypeOK, MetadataNodeCommand
  PROVE  TypeOK'
BY PutRegistry, DeleteRegistry, Zenon
DEF MetadataNodeCommand, RegisterMetadataNode, DeregisterMetadataNode, TypeOK

\* The registries always hold records of their type.
THEOREM TypeCorrect == Spec => []TypeOK
<1>1. TypeOK /\ UNCHANGED vars => TypeOK'
  BY Zenon DEF TypeOK, vars, IsRegistry
<1>2. TypeOK /\ [Next]_vars => TypeOK'
  BY <1>1, TypeOKNode, TypeOKFile, TypeOKChunk, TypeOKJob, TypeOKMetadataNode, Zenon DEF Next
<1>3. QED
  BY TypeOKInit, <1>2, PTL DEF Spec

-----------------------------------------------------------------------------
(* The inductive invariant *)

\* A chunk is complete only with a checksum.  CommitFile looks at the status
\* of the chunks, readers use the checksum: CompleteFileFilled is inductive
\* only together with this.
CompleteChunkSummed ==
  \A c \in DOMAIN chunkRegistry :
    chunkRegistry[c].status = "complete" => chunkRegistry[c].checksum # NoChecksum

\* No entry occurs twice in a replica list.
NoDuplicateReplicas ==
  \A c \in DOMAIN chunkRegistry : IsInjective(chunkRegistry[c].replicas)

FSMInv ==
  /\ TypeOK
  /\ ChunkOwnership
  /\ CompleteChunkSummed
  /\ CompleteFileFilled
  /\ NoDuplicateReplicas

\* The commands about nodes, jobs and metadata nodes leave files and chunks
\* alone.
LEMMA OtherCommands ==
  ASSUME NodeCommand \/ RepairJobCommand \/ MetadataNodeCommand \/ UNCHANGED vars
  PROVE  UNCHANGED <<fileIndex, chunkRegistry>>
BY ZenonT(30) DEF NodeCommand, RegisterNode, DeregisterNode, MarkNodeDead, MarkNodeAlive,
       SetNodeStatus, UpdateNodeSpace, RepairJobCommand, CreateRepairJob,
       UpdateRepairJob, MetadataNodeCommand, RegisterMetadataNode,
       DeregisterMetadataNode, vars

\* The two registries after CreateFile, key by key.
Created(f, cids) ==
  /\ f \notin DOMAIN fileIndex
  /\ DOMAIN fileIndex' = DOMAIN fileIndex \cup {f}
  /\ fileIndex'[f].chunkIDs = cids
  /\ fileIndex'[f].status = "creating"
  /\ \A g \in DOMAIN fileIndex : fileIndex'[g] = fileIndex[g]
  /\ Range(cids) \cap DOMAIN chunkRegistry = {}
  /\ DOMAIN chunkRegistry' = DOMAIN chunkRegistry \cup Range(cids)
  /\ \A c \in DOMAIN chunkRegistry : chunkRegistry'[c] = chunkRegistry[c]
  /\ \A c \in Range(cids) :
       chunkRegistry'[c] =
         [fileID |-> f, chunkIndex |-> FirstIndex(cids, c) - 1,
          status |-> "allocated", checksum |-> NoChecksum, replicas |-> <<>>]

\* CreateFile does that.
LEMMA CreateFileAt ==
  ASSUME NEW f \in FileIDs, NEW cids \in ChunkLists, NEW size \in Sizes,
         CreateFile(f, cids, size)
  PROVE  Created(f, cids)
<1>1. /\ f \notin DOMAIN fileIndex
      /\ Range(cids) \cap DOMAIN chunkRegistry = {}
      /\ chunkRegistry' = Merge(ChunkStubs(f, cids), chunkRegistry)
      /\ fileIndex' =
           Put(fileIndex, f, [chunkIDs |-> cids, fileSize |-> size,
                              status |-> "creating", checkSum |-> NoChecksum])
  BY Zenon DEF CreateFile
<1>2. /\ DOMAIN fileIndex' = DOMAIN fileIndex \cup {f}
      /\ fileIndex'[f] = [chunkIDs |-> cids, fileSize |-> size,
                          status |-> "creating", checkSum |-> NoChecksum]
      /\ \A g \in DOMAIN fileIndex : fileIndex'[g] = fileIndex[g]
  BY <1>1, Zenon DEF Put
<1>3. /\ DOMAIN ChunkStubs(f, cids) = Range(cids)
      /\ \A c \in Range(cids) :
           ChunkStubs(f, cids)[c] =
             [fileID |-> f, chunkIndex |-> FirstIndex(cids, c) - 1,
              status |-> "allocated", checksum |-> NoChecksum, replicas |-> <<>>]
  BY Zenon DEF ChunkStubs
<1>4. /\ DOMAIN chunkRegistry' = DOMAIN chunkRegistry \cup Range(cids)
      /\ \A c \in Range(cids) : chunkRegistry'[c] = ChunkStubs(f, cids)[c]
      /\ \A c \in DOMAIN chunkRegistry : chunkRegistry'[c] = chunkRegistry[c]
  BY <1>1, <1>3, Zenon DEF Merge
<1>5. QED
  BY <1>1, <1>2, <1>3, <1>4 DEF Created

\* In a list without repeats the first occurrence is the only one.
LEMMA FirstIndexInjective ==
  ASSUME NEW S, NEW s \in Seq(S), IsInjective(s), NEW i \in 1..Len(s)
  PROVE  FirstIndex(s, s[i]) = i
<1>1. s[i] \in Range(s) /\ DOMAIN s = 1..Len(s)
  BY DEF Range
<1>2. FirstIndex(s, s[i]) \in 1..Len(s) /\ s[FirstIndex(s, s[i])] = s[i]
  BY <1>1, FirstIndexIs, Zenon
<1>3. QED
  BY <1>1, <1>2, Zenon DEF IsInjective

\* CreateFile keeps the two registries in step.
LEMMA OwnershipCreate ==
  ASSUME TypeOK, ChunkOwnership, NEW f \in FileIDs, NEW cids \in ChunkLists,
         NEW size \in Sizes, CreateFile(f, cids, size)
  PROVE  ChunkOwnership'
<1>1. cids \in Seq(ChunkIDs) /\ IsInjective(cids) /\ Len(cids) \in Nat
  BY ChunkListsAssumption
<1>2. \A i \in 1..Len(cids) : cids[i] \in Range(cids) /\ FirstIndex(cids, cids[i]) = i
  BY <1>1, FirstIndexInjective DEF Range
<1>3. \A c \in Range(cids) : FirstIndex(cids, c) \in 1..Len(cids) /\ cids[FirstIndex(cids, c)] = c
  BY <1>1, FirstIndexIs, Zenon
<1> DEFINE Listed(g, i, c) == /\ c \in DOMAIN chunkRegistry'
                              /\ chunkRegistry'[c].fileID = g
                              /\ chunkRegistry'[c].chunkIndex = i - 1
<1>3a. Created(f, cids)
  BY CreateFileAt, Zenon
<1>4. ASSUME NEW g \in DOMAIN fileIndex', NEW i \in 1..Len(fileIndex'[g].chunkIDs)
      PROVE  Listed(g, i, fileIndex'[g].chunkIDs[i])
  <2>1. CASE g = f
    <3>1. fileIndex'[g].chunkIDs = cids /\ i \in 1..Len(cids)
      BY <1>3a, <2>1, Zenon DEF Created
    <3>2. cids[i] \in Range(cids) /\ FirstIndex(cids, cids[i]) = i
      BY <1>2, <3>1, Zenon
    <3>3. QED
      BY <1>3a, <2>1, <3>1, <3>2 DEF Created
  <2>2. CASE g # f
    <3>1. g \in DOMAIN fileIndex /\ fileIndex'[g] = fileIndex[g]
      BY <1>3a, <2>2, Zenon DEF Created
    <3>2. LET c == fileIndex[g].chunkIDs[i]
          IN  /\ c \in DOMAIN chunkRegistry
              /\ chunkRegistry[c].fileID = g
              /\ chunkRegistry[c].chunkIndex = i - 1
      BY <3>1, ZenonT(30) DEF ChunkOwnership
    <3>3. QED
      BY <1>3a, <3>1, <3>2, ZenonT(30) DEF Created
  <2>3. QED
    BY <2>1, <2>2, Zenon
<1>5. ASSUME NEW c \in DOMAIN chunkRegistry'
      PROVE  LET g == chunkRegistry'[c].fileID
             IN  /\ g \in DOMAIN fileIndex'
                 /\ chunkRegistry'[c].chunkIndex + 1 \in 1..Len(fileIndex'[g].chunkIDs)
                 /\ fileIndex'[g].chunkIDs[chunkRegistry'[c].chunkIndex + 1] = c
  <2>1. CASE c \in Range(cids)
    <3>1. chunkRegistry'[c].fileID = f /\ chunkRegistry'[c].chunkIndex = FirstIndex(cids, c) - 1
      BY <1>3a, <2>1 DEF Created
    <3>2. chunkRegistry'[c].chunkIndex + 1 = FirstIndex(cids, c)
      BY <1>3, <2>1, <3>1
    <3>3. QED
      BY <1>3, <1>3a, <2>1, <3>1, <3>2 DEF Created
  <2>2. CASE c \notin Range(cids)
    <3>1. c \in DOMAIN chunkRegistry /\ chunkRegistry'[c] = chunkRegistry[c]
      BY <1>3a, <2>2, Zenon DEF Created
    <3>2. QED
      BY <1>3a, <3>1 DEF ChunkOwnership, Created
  <2>3. QED
    BY <2>1, <2>2, Zenon
<1>6. QED
  BY <1>4, <1>5, Zenon DEF ChunkOwnership

\* CreateFile adds a file that is not complete and chunks without replicas.
LEMMA FSMInvCreate ==
  ASSUME FSMInv, NEW f \in FileIDs, NEW cids \in ChunkLists,
         NEW size \in Sizes, CreateFile(f, cids, size)
  PROVE  FSMInv'
<1> USE DEF FSMInv
<1>1. Created(f, cids)
  BY CreateFileAt, Zenon
<1>2. TypeOK'
  BY TypeOKFile, Zenon DEF FileCommand
<1>3. ChunkOwnership'
  BY OwnershipCreate, Zenon
<1>4. CompleteChunkSummed'
  BY <1>1 DEF Created, CompleteChunkSummed
<1>5. CompleteFileFilled'
  <2>1. ASSUME NEW g \in DOMAIN fileIndex', fileIndex'[g].status = "complete",
               NEW c \in Range(fileIndex'[g].chunkIDs)
        PROVE  c \in DOMAIN chunkRegistry' /\ chunkRegistry'[c].checksum # NoChecksum
    <3>1. g \in DOMAIN fileIndex /\ fileIndex'[g] = fileIndex[g]
      BY <1>1, <2>1, ZenonT(30) DEF Created
    <3>2. c \in DOMAIN chunkRegistry /\ chunkRegistry[c].checksum # NoChecksum
      BY <2>1, <3>1, Zenon DEF CompleteFileFilled
    <3>3. QED
      BY <1>1, <3>2, Zenon DEF Created
  <2>2. QED
    BY <2>1, Zenon DEF CompleteFileFilled
<1>6. NoDuplicateReplicas'
  <2>1. IsInjective(<<>>)
    BY DEF IsInjective
  <2>2. ASSUME NEW c \in DOMAIN chunkRegistry'
        PROVE  IsInjective(chunkRegistry'[c].replicas)
    <3>1. CASE c \in Range(cids)
      BY <1>1, <2>1, <3>1 DEF Created
    <3>2. CASE c \in DOMAIN chunkRegistry
      BY <1>1, <3>2, Zenon DEF Created, NoDuplicateReplicas
    <3>3. QED
      BY <1>1, <3>1, <3>2, ZenonT(30) DEF Created
  <2>3. QED
    BY <2>2, Zenon DEF NoDuplicateReplicas
<1>7. QED
  BY <1>2, <1>3, <1>4, <1>5, <1>6, Zenon

\* A step that keeps the chunk lists, and the file and index of every chunk,
\* keeps the registries in step.
LEMMA OwnershipFrame ==
  ASSUME ChunkOwnership,
         DOMAIN fileIndex' = DOMAIN fileIndex,
         \A g \in DOMAIN fileIndex : fileIndex'[g].chunkIDs = fileIndex[g].chunkIDs,
         DOMAIN chunkRegistry' = DOMAIN chunkRegistry,
         \A c \in DOMAIN chunkRegistry :
           /\ chunkRegistry'[c].fileID = chunkRegistry[c].fileID
           /\ chunkRegistry'[c].chunkIndex = chunkRegistry[c].chunkIndex
  PROVE  ChunkOwnership'
<1>1. ASSUME NEW g \in DOMAIN fileIndex', NEW i \in 1..Len(fileIndex'[g].chunkIDs)
      PROVE  LET c == fileIndex'[g].chunkIDs[i]
             IN  /\ c \in DOMAIN chunkRegistry'
                 /\ chunkRegistry'[c].fileID = g
                 /\ chunkRegistry'[c].chunkIndex = i - 1
  <2>1. g \in DOMAIN fileIndex /\ fileIndex'[g].chunkIDs = fileIndex[g].chunkIDs
    BY Zenon
  <2> DEFINE c == fileIndex[g].chunkIDs[i]
  <2>2. /\ c \in DOMAIN chunkRegistry
        /\ chunkRegistry[c].fileID = g
        /\ chunkRegistry[c].chunkIndex = i - 1
    BY <2>1 DEF ChunkOwnership
  <2>3. QED
    BY <2>1, <2>2, ZenonT(30)
<1>2. ASSUME NEW c \in DOMAIN chunkRegistry'
      PROVE  LET g == chunkRegistry'[c].fileID
             IN  /\ g \in DOMAIN fileIndex'
                 /\ chunkRegistry'[c].chunkIndex + 1 \in 1..Len(fileIndex'[g].chunkIDs)
                 /\ fileIndex'[g].chunkIDs[chunkRegistry'[c].chunkIndex + 1] = c
  BY DEF ChunkOwnership
<1>3. QED
  BY <1>1, <1>2, ZenonT(30) DEF ChunkOwnership

\* The file index after the status of one file is set to st.
StatusSet(f, st) ==
  /\ f \in DOMAIN fileIndex
  /\ DOMAIN fileIndex' = DOMAIN fileIndex
  /\ fileIndex'[f].status = st
  /\ \A g \in DOMAIN fileIndex : fileIndex'[g].chunkIDs = fileIndex[g].chunkIDs
  /\ \A g \in DOMAIN fileIndex : g # f => fileIndex'[g] = fileIndex[g]
  /\ UNCHANGED chunkRegistry

\* DeleteFile does that.
LEMMA DeleteFileAt ==
  ASSUME TypeOK, NEW f \in FileIDs, DeleteFile(f)
  PROVE  StatusSet(f, "deleted")
BY Zenon DEF TypeOK, IsRegistry, DeleteFile, FileRecord, StatusSet

\* So does CommitFile, when all the chunks of the file are complete.
LEMMA CommitFileAt ==
  ASSUME TypeOK, NEW f \in FileIDs, NEW size \in Sizes, NEW sum \in Checksums \cup {NoChecksum},
         CommitFile(f, size, sum)
  PROVE  /\ StatusSet(f, "complete")
         /\ \A c \in Range(fileIndex[f].chunkIDs) :
              c \in DOMAIN chunkRegistry /\ chunkRegistry[c].status = "complete"
<1> DEFINE new == [fileIndex[f] EXCEPT !.status = "complete", !.checkSum = sum]
<1>1. f \in DOMAIN fileIndex /\ fileIndex' = [fileIndex EXCEPT ![f] = new]
  BY Zenon DEF CommitFile
<1>2. fileIndex \in [DOMAIN fileIndex -> FileRecord]
  BY Zenon DEF TypeOK, IsRegistry
<1>3. new.chunkIDs = fileIndex[f].chunkIDs /\ new.status = "complete"
  BY <1>1, <1>2, Zenon DEF FileRecord
<1> HIDE DEF new
<1>4. QED
  BY <1>1, <1>2, <1>3, Zenon DEF CommitFile, StatusSet

\* Setting the status of a file keeps the invariant if all the chunks of a
\* file made complete are complete.
LEMMA FSMInvStatus ==
  ASSUME FSMInv, TypeOK', NEW f \in FileIDs, NEW st, StatusSet(f, st),
         st = "complete" =>
           \A c \in Range(fileIndex[f].chunkIDs) :
             c \in DOMAIN chunkRegistry /\ chunkRegistry[c].status = "complete"
  PROVE  FSMInv'
<1> USE DEF FSMInv
<1>1. ChunkOwnership'
  BY OwnershipFrame, Zenon DEF StatusSet
<1>2. CompleteChunkSummed' /\ NoDuplicateReplicas'
  BY Zenon DEF StatusSet, CompleteChunkSummed, NoDuplicateReplicas
<1>3. CompleteFileFilled'
  BY DEF StatusSet, CompleteFileFilled, CompleteChunkSummed
<1>4. QED
  BY <1>1, <1>2, <1>3

\* A chunk command updates one chunk as ChunkUpdate allows.
LEMMA FSMInvChunk ==
  ASSUME FSMInv, ChunkCommand
  PROVE  FSMInv'
<1> USE DEF FSMInv
<1>1. TypeOK'
  BY TypeOKChunk, Zenon
<1>2. UNCHANGED fileIndex
  BY ChunkCommandUpdates, Zenon
<1>3. PICK c \in DOMAIN chunkRegistry, new \in ChunkRecord :
        /\ ChunkUpdate(chunkRegistry[c], new)
        /\ chunkRegistry' = [chunkRegistry EXCEPT ![c] = new]
  BY ChunkCommandUpdates, Zenon
<1>4. /\ DOMAIN chunkRegistry' = DOMAIN chunkRegistry
      /\ chunkRegistry'[c] = new
      /\ \A d \in DOMAIN chunkRegistry : d # c => chunkRegistry'[d] = chunkRegistry[d]
  BY <1>3, Zenon DEF TypeOK, IsRegistry
<1>5. \A d \in DOMAIN chunkRegistry :
        /\ chunkRegistry'[d].fileID = chunkRegistry[d].fileID
        /\ chunkRegistry'[d].chunkIndex = chunkRegistry[d].chunkIndex
        /\ chunkRegistry[d].checksum # NoChecksum =>
             chunkRegistry'[d].checksum = chunkRegistry[d].checksum
        /\ IsInjective(chunkRegistry[d].replicas) => IsInjective(chunkRegistry'[d].replicas)
  BY <1>3, <1>4, Zenon DEF ChunkUpdate
<1>6. ChunkOwnership'
  BY <1>2, <1>4, <1>5, OwnershipFrame
<1>7. CompleteChunkSummed'
  BY <1>3, <1>4, <1>5, NoChecksumAssumption DEF CompleteChunkSummed, ChunkUpdate
<1>8. CompleteFileFilled'
  BY <1>2, <1>4, <1>5 DEF CompleteFileFilled
<1>9. NoDuplicateReplicas'
  BY <1>4, <1>5, Zenon DEF NoDuplicateReplicas
<1>10. QED
  BY <1>1, <1>6, <1>7, <1>8, <1>9, Zenon

\* The invariant holds initially and every step preserves it.
LEMMA FSMInvInvariant == Spec => []FSMInv
<1>1. Init => FSMInv
  BY TypeOKInit, Zenon DEF Init, FSMInv, ChunkOwnership, CompleteChunkSummed,
     CompleteFileFilled, NoDuplicateReplicas, EmptyRegistry
<1>2. FSMInv /\ [Next]_vars => FSMInv'
  <2> SUFFICES ASSUME FSMInv, [Next]_vars PROVE FSMInv'
    BY Zenon
  <2>1. CASE FileCommand
    <3>1. TypeOK /\ TypeOK'
      BY <2>1, TypeOKFile, Zenon DEF FSMInv
    <3>2. QED
      BY <2>1, <3>1, FSMInvCreate, FSMInvStatus, DeleteFileAt, CommitFileAt DEF FileCommand
  <2>2. CASE ChunkCommand
    BY <2>2, FSMInvChunk, Zenon
  <2>3. CASE NodeCommand \/ RepairJobCommand \/ MetadataNodeCommand \/ UNCHANGED vars
    <3>1. UNCHANGED <<fileIndex, chunkRegistry>>
      BY <2>3, OtherCommands, Zenon
    <3>2. TypeOK'
      BY <2>3, TypeOKNode, TypeOKJob, TypeOKMetadataNode, Zenon DEF FSMInv, TypeOK, vars
    <3>3. QED
      BY <3>1, <3>2 DEF FSMInv, ChunkOwnership, CompleteChunkSummed,
         CompleteFileFilled, NoDuplicateReplicas
  <2>4. QED
    BY <2>1, <2>2, <2>3, Zenon DEF Next
<1>3. QED
  BY <1>1, <1>2, PTL DEF Spec

\* The file index and the chunk registry always agree.
THEOREM OwnershipHolds == Spec => []ChunkOwnership
BY FSMInvInvariant, PTL DEF FSMInv

\* A complete file never has a chunk without a checksum.
THEOREM CompleteFileFilledHolds == Spec => []CompleteFileFilled
BY FSMInvInvariant, PTL DEF FSMInv

\* No command lists a replica twice, or a registered node by its address,
\* whatever IDs and addresses the confirmed lists mix and whatever nodes share
\* an address.
THEOREM NodesCountedOnceHolds == Spec => NodesCountedOnce
<1> DEFINE Once ==
      \A c \in DOMAIN chunkRegistry :
        /\ IsInjective(chunkRegistry'[c].replicas)
        /\ (Range(chunkRegistry'[c].replicas) \ Range(chunkRegistry[c].replicas))
             \cap Range(AddressOf) = {}
<1>1. ASSUME FSMInv, [Next]_vars PROVE Once
  <2>1. TypeOK /\ NoDuplicateReplicas
    BY <1>1, Zenon DEF FSMInv
  <2>2. CASE \A c \in DOMAIN chunkRegistry : chunkRegistry'[c] = chunkRegistry[c]
    BY <2>1, <2>2, Zenon DEF NoDuplicateReplicas
  <2>3. CASE FileCommand
    <3>1. PICK f \in FileIDs :
            \/ \E cids \in ChunkLists, size \in Sizes : CreateFile(f, cids, size)
            \/ \E size \in Sizes, sum \in Checksums \cup {NoChecksum} : CommitFile(f, size, sum)
            \/ DeleteFile(f)
      BY <2>3, Zenon DEF FileCommand
    <3>2. ASSUME NEW cids \in ChunkLists, NEW size \in Sizes, CreateFile(f, cids, size)
          PROVE  Once
      BY <2>2, <3>2, CreateFileAt, Zenon DEF Created
    <3>3. CASE UNCHANGED chunkRegistry
      BY <2>2, <3>3, Zenon
    <3>4. QED
      BY <3>1, <3>2, <3>3, Zenon DEF CommitFile, DeleteFile
  <2>4. CASE ChunkCommand
    <3>1. PICK c \in DOMAIN chunkRegistry, new \in ChunkRecord :
            /\ ChunkUpdate(chunkRegistry[c], new)
            /\ chunkRegistry' = [chunkRegistry EXCEPT ![c] = new]
      BY <2>1, <2>4, ChunkCommandUpdates, Zenon
    <3>2. /\ chunkRegistry'[c] = new
          /\ \A d \in DOMAIN chunkRegistry : d # c => chunkRegistry'[d] = chunkRegistry[d]
      BY <2>1, <3>1, Zenon DEF TypeOK, IsRegistry
    <3>3. IsInjective(chunkRegistry'[c].replicas)
      BY <2>1, <3>1, <3>2, Zenon DEF ChunkUpdate, NoDuplicateReplicas
    <3>4. (Range(chunkRegistry'[c].replicas) \ Range(chunkRegistry[c].replicas))
             \cap Range(AddressOf) = {}
      BY <3>1, <3>2, Zenon DEF ChunkUpdate
    <3> QED BY <2>1, <3>2, <3>3, <3>4, Zenon DEF NoDuplicateReplicas
  <2>5. CASE NodeCommand \/ RepairJobCommand \/ MetadataNodeCommand \/ UNCHANGED vars
    BY <2>2, <2>5, OtherCommands, Zenon
  <2>6. QED
    BY <1>1, <2>3, <2>4, <2>5, Zenon DEF Next
<1>2. FSMInv /\ [Next]_vars => [Once]_vars
  BY <1>1, Zenon
<1>3. Spec => [][Once]_vars
  BY <1>2, FSMInvInvariant, PTL DEF Spec
<1>4. QED
  BY <1>3, Zenon DEF NodesCountedOnce

-----------------------------------------------------------------------------
(* Content is written once *)

\* No command changes what a chunk is or a checksum once committed.
THEOREM WriteOnceHolds == Spec => WriteOnce
<1> DEFINE Kept ==
      \A c \in DOMAIN chunkRegistry :
        /\ c \in DOMAIN chunkRegistry'
        /\ chunkRegistry'[c].fileID = chunkRegistry[c].fileID
        /\ chunkRegistry'[c].chunkIndex = chunkRegistry[c].chunkIndex
        /\ chunkRegistry[c].checksum # NoChecksum =>
             chunkRegistry'[c].checksum = chunkRegistry[c].checksum
<1>1. ASSUME TypeOK, [Next]_vars PROVE Kept
  <2>1. CASE FileCommand
    <3>1. PICK f \in FileIDs :
            \/ \E cids \in ChunkLists, size \in Sizes : CreateFile(f, cids, size)
            \/ \E size \in Sizes, sum \in Checksums \cup {NoChecksum} : CommitFile(f, size, sum)
            \/ DeleteFile(f)
      BY <2>1, Zenon DEF FileCommand
    <3>2. ASSUME NEW cids \in ChunkLists, NEW size \in Sizes, CreateFile(f, cids, size)
          PROVE  Kept
      BY <3>2, CreateFileAt, Zenon DEF Created
    <3>3. CASE UNCHANGED chunkRegistry
      BY <3>3, Zenon
    <3>4. QED
      BY <3>1, <3>2, <3>3, Zenon DEF CommitFile, DeleteFile
  <2>2. CASE ChunkCommand
    <3>1. PICK c \in DOMAIN chunkRegistry, new \in ChunkRecord :
            /\ ChunkUpdate(chunkRegistry[c], new)
            /\ chunkRegistry' = [chunkRegistry EXCEPT ![c] = new]
      BY <1>1, <2>2, ChunkCommandUpdates
    <3>2. chunkRegistry \in [DOMAIN chunkRegistry -> ChunkRecord]
      BY <1>1 DEF TypeOK, IsRegistry
    <3>3. QED
      BY <3>1, <3>2, Zenon DEF ChunkUpdate
  <2>3. CASE NodeCommand \/ RepairJobCommand \/ MetadataNodeCommand \/ UNCHANGED vars
    BY <2>3, OtherCommands, Zenon
  <2>4. QED
    BY <1>1, <2>1, <2>2, <2>3, Zenon DEF Next
<1>2. TypeOK /\ [Next]_vars => [Kept]_vars
  BY <1>1, Zenon
<1>3. Spec => [][Kept]_vars
  BY <1>2, TypeCorrect, PTL DEF Spec
<1>4. QED
  BY <1>3, Zenon DEF WriteOnce

-----------------------------------------------------------------------------
(* Jobs keep their identity *)

\* No command changes the chunk, the target or the kind of a repair job:
\* CreateRepairJob refuses a known ID, UpdateRepairJob sets status and source.
THEOREM JobIdentityHolds == Spec => JobIdentity
<1> DEFINE Fields == {"chunkID", "targetNodeID", "deleteSource"}
           Kept ==
             \A j \in DOMAIN repairJobRegistry :
               /\ j \in DOMAIN repairJobRegistry'
               /\ \A field \in Fields :
                    repairJobRegistry'[j][field] = repairJobRegistry[j][field]
<1>1. ASSUME TypeOK, [Next]_vars PROVE Kept
  <2>1. CASE RepairJobCommand
    <3>1. PICK j \in JobIDs :
            \/ \E c \in ChunkIDs, src \in NodeIDs, tgt \in NodeIDs \cup {NoNode}, del \in BOOLEAN :
                 CreateRepairJob(j, c, src, tgt, del)
            \/ \E st \in RepairStatus, src \in NodeIDs \cup {NoNode} : UpdateRepairJob(j, st, src)
      BY <2>1, Zenon DEF RepairJobCommand
    <3>2. ASSUME NEW c \in ChunkIDs, NEW src \in NodeIDs, NEW tgt \in NodeIDs \cup {NoNode},
                 NEW del \in BOOLEAN, CreateRepairJob(j, c, src, tgt, del)
          PROVE  Kept
      BY <3>2, Zenon DEF CreateRepairJob, Put
    <3>3. ASSUME NEW st \in RepairStatus, NEW src \in NodeIDs \cup {NoNode},
                 UpdateRepairJob(j, st, src)
          PROVE  Kept
      <4> DEFINE old == repairJobRegistry[j]
                 from == IF src = NoNode THEN old.sourceNodeID ELSE src
                 new == [old EXCEPT !.status = st, !.sourceNodeID = from]
      <4>1. j \in DOMAIN repairJobRegistry /\ old \in RepairJob
        BY <1>1, <3>3 DEF UpdateRepairJob, TypeOK, IsRegistry
      <4>2. \A field \in Fields : new[field] = old[field]
        <5> HIDE DEF from
        <5>1. QED
          BY <4>1, Zenon DEF RepairJob
      <4>3. repairJobRegistry' = [repairJobRegistry EXCEPT ![j] = new]
        BY <3>3, Zenon DEF UpdateRepairJob
      <4>4. QED
        <5> HIDE DEF new, Fields
        <5>1. QED
          BY <4>1, <4>2, <4>3, Zenon
    <3>4. QED
      BY <3>1, <3>2, <3>3, Zenon
  <2>2. CASE UNCHANGED repairJobRegistry
    BY <2>2, Zenon
  <2>3. QED
    BY <1>1, <2>1, <2>2, Zenon DEF Next, vars, NodeCommand, FileCommand, ChunkCommand,
       MetadataNodeCommand, RegisterNode, SetNodeStatus, DeregisterNode, MarkNodeDead,
       MarkNodeAlive, UpdateNodeSpace, CreateFile, CommitFile, DeleteFile, CommitChunk,
       EvictChunkFromNode, MarkChunkLost, AddChunkReplica, RegisterMetadataNode,
       DeregisterMetadataNode
<1>2. TypeOK /\ [Next]_vars => [Kept]_vars
  BY <1>1, Zenon
<1>3. Spec => [][Kept]_vars
  BY <1>2, TypeCorrect, PTL DEF Spec
<1>4. QED
  BY <1>3, Zenon DEF JobIdentity

-----------------------------------------------------------------------------
(* The commands implement WriteOnceFS *)

\* Two views of the files with the same lists and checksums are the same.
LEMMA FilesUnchanged ==
  ASSUME FSMInv, DOMAIN fileIndex' = DOMAIN fileIndex,
         \A g \in DOMAIN fileIndex : fileIndex'[g].chunkIDs = fileIndex[g].chunkIDs,
         \A c \in DOMAIN chunkRegistry : chunkRegistry'[c].checksum = chunkRegistry[c].checksum
  PROVE  FileContent' = FileContent
<1>1. \A g \in DOMAIN fileIndex : \A i \in 1..Len(fileIndex[g].chunkIDs) :
        fileIndex[g].chunkIDs[i] \in DOMAIN chunkRegistry
  BY Zenon DEF FSMInv, ChunkOwnership
<1>2. QED
  BY <1>1 DEF FileContent

\* CreateFile creates a file of empty slots.
LEMMA CreateImplements ==
  ASSUME FSMInv, NEW f \in FileIDs, NEW cids \in ChunkLists, NEW size \in Sizes,
         CreateFile(f, cids, size)
  PROVE  FS!Create(f)
<1>1. Created(f, cids)
  BY CreateFileAt, Zenon
<1>2. cids \in Seq(ChunkIDs)
  BY ChunkListsAssumption, Zenon
<1>3. f \notin DOMAIN StatusOf
  BY <1>1, Zenon DEF Created, StatusOf
<1>4. StatusOf' = Put(StatusOf, f, "creating")
  BY <1>1, Zenon DEF Created, StatusOf, Put
<1>5. FileContent' = Put(FileContent, f, [i \in 1..Len(cids) |-> NoChecksum])
  <2>1. DOMAIN FileContent' = DOMAIN FileContent \cup {f}
    BY <1>1, Zenon DEF Created, FileContent
  <2>2. FileContent'[f] = [i \in 1..Len(cids) |-> NoChecksum]
    <3>1. \A i \in 1..Len(cids) : cids[i] \in Range(cids)
      BY <1>2 DEF Range
    <3>2. \A i \in 1..Len(cids) : chunkRegistry'[cids[i]].checksum = NoChecksum
      BY <1>1, <3>1 DEF Created
    <3>3. FileContent'[f] = [i \in 1..Len(cids) |-> chunkRegistry'[cids[i]].checksum]
      BY <1>1, Zenon DEF Created, FileContent
    <3>4. QED
      BY <3>2, <3>3, Zenon
  <2>3. ASSUME NEW g \in DOMAIN fileIndex
        PROVE  FileContent'[g] = FileContent[g]
    <3>1. g \in DOMAIN fileIndex' /\ fileIndex'[g] = fileIndex[g]
      BY <1>1, Zenon DEF Created
    <3>2. \A i \in 1..Len(fileIndex[g].chunkIDs) :
            chunkRegistry'[fileIndex[g].chunkIDs[i]] = chunkRegistry[fileIndex[g].chunkIDs[i]]
      BY <1>1, Zenon DEF Created, FSMInv, ChunkOwnership
    <3>3. QED
      BY <3>1, <3>2 DEF FileContent
  <2>4. QED
    BY <1>1, <2>1, <2>2, <2>3, Zenon DEF Created, FileContent, Put
<1>6. Len(cids) \in {Len(l) : l \in ChunkLists}
  BY Zenon
<1>7. QED
  BY <1>3, <1>4, <1>5, <1>6, Zenon DEF FS!Create, FS!Put, Put

\* CommitFile publishes a file.
LEMMA CommitImplements ==
  ASSUME FSMInv, NEW f \in FileIDs, NEW size \in Sizes, NEW sum \in Checksums \cup {NoChecksum},
         CommitFile(f, size, sum)
  PROVE  FS!Publish(f)
<1>1. /\ StatusSet(f, "complete")
      /\ \A c \in Range(fileIndex[f].chunkIDs) :
           c \in DOMAIN chunkRegistry /\ chunkRegistry[c].status = "complete"
  BY CommitFileAt, Zenon DEF FSMInv
<1>2. FileContent' = FileContent
  BY <1>1, FilesUnchanged, Zenon DEF StatusSet
<1>3. StatusOf' = [StatusOf EXCEPT ![f] = "complete"]
  BY <1>1, Zenon DEF StatusSet, StatusOf
<1>4. ASSUME NEW i \in 1..Len(FileContent[f])
      PROVE  FileContent[f][i] # NoChecksum
  <2>1. fileIndex[f].chunkIDs \in Seq(ChunkIDs)
    BY <1>1, ChunkListsAssumption, Zenon DEF StatusSet, FSMInv, TypeOK, IsRegistry, FileRecord
  <2>2. FileContent[f] = [k \in 1..Len(fileIndex[f].chunkIDs) |->
                            chunkRegistry[fileIndex[f].chunkIDs[k]].checksum]
    BY <1>1, Zenon DEF StatusSet, FileContent
  <2>3. i \in 1..Len(fileIndex[f].chunkIDs)
    BY <2>1, <2>2
  <2>4. fileIndex[f].chunkIDs[i] \in Range(fileIndex[f].chunkIDs)
    BY <2>1, <2>3 DEF Range
  <2>5. QED
    BY <1>1, <2>2, <2>3, <2>4 DEF FSMInv, CompleteChunkSummed
<1>5. f \in DOMAIN StatusOf
  BY <1>1, Zenon DEF StatusSet, StatusOf
<1>6. QED
  BY <1>2, <1>3, <1>4, <1>5, Zenon DEF FS!Publish

\* DeleteFile removes a file.
LEMMA DeleteImplements ==
  ASSUME FSMInv, NEW f \in FileIDs, DeleteFile(f)
  PROVE  FS!Remove(f)
<1>1. StatusSet(f, "deleted")
  BY DeleteFileAt, Zenon DEF FSMInv
<1>2. FileContent' = FileContent
  BY <1>1, FilesUnchanged, Zenon DEF StatusSet
<1>3. f \in DOMAIN StatusOf /\ StatusOf' = [StatusOf EXCEPT ![f] = "deleted"]
  BY <1>1, Zenon DEF StatusSet, StatusOf
<1>4. QED
  BY <1>2, <1>3, Zenon DEF FS!Remove

\* A chunk command fills one slot of one file, or changes no file.
LEMMA ChunkImplements ==
  ASSUME FSMInv, ChunkCommand
  PROVE  \/ \E f \in FileIDs : \E sum \in Checksums : FS!Fill(f, sum)
         \/ UNCHANGED <<StatusOf, FileContent>>
<1>1. UNCHANGED fileIndex
  BY ChunkCommandUpdates, Zenon DEF FSMInv
<1>2. PICK c \in DOMAIN chunkRegistry, new \in ChunkRecord :
        /\ ChunkUpdate(chunkRegistry[c], new)
        /\ chunkRegistry' = [chunkRegistry EXCEPT ![c] = new]
  BY ChunkCommandUpdates, Zenon DEF FSMInv
<1>3. /\ chunkRegistry'[c] = new
      /\ \A d \in DOMAIN chunkRegistry : d # c => chunkRegistry'[d] = chunkRegistry[d]
  BY <1>2, Zenon DEF FSMInv, TypeOK, IsRegistry
<1>4. StatusOf' = StatusOf
  BY <1>1, Zenon DEF StatusOf
<1>5. CASE new.checksum = chunkRegistry[c].checksum
  <2>1. FileContent' = FileContent
    BY <1>1, <1>3, <1>5, FilesUnchanged
  <2>2. QED
    BY <1>4, <2>1
<1>6. CASE chunkRegistry[c].checksum = NoChecksum /\ new.checksum \in Checksums
  <2> DEFINE f == chunkRegistry[c].fileID
             i == chunkRegistry[c].chunkIndex + 1
             sum == new.checksum
             row == [k \in 1..Len(fileIndex[f].chunkIDs) |->
                       chunkRegistry[fileIndex[f].chunkIDs[k]].checksum]
  <2>1. /\ f \in DOMAIN fileIndex
        /\ i \in 1..Len(fileIndex[f].chunkIDs)
        /\ fileIndex[f].chunkIDs[i] = c
    BY Zenon DEF FSMInv, ChunkOwnership
  <2>2. f \in FileIDs /\ fileIndex[f].chunkIDs \in Seq(ChunkIDs)
    BY <2>1, ChunkListsAssumption DEF FSMInv, TypeOK, IsRegistry, FileRecord
  <2>3. ASSUME NEW g \in DOMAIN fileIndex, NEW k \in 1..Len(fileIndex[g].chunkIDs)
        PROVE  /\ fileIndex[g].chunkIDs[k] \in DOMAIN chunkRegistry
               /\ fileIndex[g].chunkIDs[k] = c => g = f /\ k = i
    <3>1. LET d == fileIndex[g].chunkIDs[k]
          IN  /\ d \in DOMAIN chunkRegistry
              /\ chunkRegistry[d].fileID = g
              /\ chunkRegistry[d].chunkIndex = k - 1
      BY Zenon DEF FSMInv, ChunkOwnership
    <3>2. QED
      BY <3>1, SMTT(30)
  <2>4. FileContent[f] = row
    BY <2>1, Zenon DEF FileContent
  <2>5. i \in 1..Len(FileContent[f]) /\ FileContent[f][i] = NoChecksum
    BY <1>6, <2>1, <2>2, <2>4, SMTT(30)
  <2>6. FileContent'[f] = [row EXCEPT ![i] = sum]
    <3>1. FileContent'[f] = [k \in 1..Len(fileIndex[f].chunkIDs) |->
                               chunkRegistry'[fileIndex[f].chunkIDs[k]].checksum]
      BY <1>1, <2>1, Zenon DEF FileContent
    <3> HIDE DEF f, i
    <3>2. \A k \in 1..Len(fileIndex[f].chunkIDs) :
            chunkRegistry'[fileIndex[f].chunkIDs[k]].checksum =
              IF k = i THEN sum ELSE chunkRegistry[fileIndex[f].chunkIDs[k]].checksum
      BY <1>3, <2>1, <2>3, Zenon
    <3>3. QED
      BY <2>1, <3>1, <3>2, Zenon
  <2>7. \A g \in DOMAIN fileIndex : g # f => FileContent'[g] = FileContent[g]
    <3> HIDE DEF f, i
    <3> TAKE g \in DOMAIN fileIndex
    <3> HAVE g # f
    <3>1. \A k \in 1..Len(fileIndex[g].chunkIDs) :
            chunkRegistry'[fileIndex[g].chunkIDs[k]] = chunkRegistry[fileIndex[g].chunkIDs[k]]
      BY <1>3, <2>3
    <3>2. QED
      BY <1>1, <3>1 DEF FileContent
  <2>8. DOMAIN FileContent' = DOMAIN fileIndex /\ DOMAIN FileContent = DOMAIN fileIndex
    BY <1>1, Zenon DEF FileContent
  <2>9. FileContent' = [FileContent EXCEPT ![f] = [row EXCEPT ![i] = sum]]
    <3> HIDE DEF f, i, row, sum
    <3>1. FileContent' = [g \in DOMAIN fileIndex |-> FileContent'[g]]
      BY <1>1 DEF FileContent
    <3>2. FileContent = [g \in DOMAIN fileIndex |-> FileContent[g]]
      BY Zenon DEF FileContent
    <3>3. QED
      BY <2>1, <2>6, <2>7, <3>1, <3>2
  <2>10. FileContent' = [FileContent EXCEPT ![f][i] = sum]
    BY <2>4, <2>9, Zenon
  <2>11. f \in DOMAIN StatusOf
    BY <2>1 DEF StatusOf
  <2>12. FS!Fill(f, sum)
    <3> HIDE DEF f, i, row, sum
    <3>1. QED
      BY <1>4, <2>5, <2>10, <2>11, Zenon DEF FS!Fill
  <2>13. QED
    BY <1>6, <2>2, <2>12, SMTT(30)
<1>7. QED
  BY <1>2, <1>5, <1>6, Zenon DEF ChunkUpdate

\* The metadata state machine implements the write-once file store.
THEOREM WriteOnceFSImplemented == Spec => ImplementsWriteOnceFS
<1>1. Init => FS!Init
  BY Zenon DEF Init, FS!Init, FS!EmptyRegistry, EmptyRegistry, StatusOf, FileContent
<1>2. FSMInv /\ [Next]_vars => [FS!Next]_FS!fsVars
  <2> SUFFICES ASSUME FSMInv, [Next]_vars PROVE [FS!Next]_FS!fsVars
    BY Zenon
  <2>1. CASE FileCommand
    BY <2>1, CreateImplements, CommitImplements, DeleteImplements DEF FileCommand, FS!Next
  <2>2. CASE ChunkCommand
    BY <2>2, ChunkImplements DEF FS!Next, FS!fsVars
  <2>3. CASE NodeCommand \/ RepairJobCommand \/ MetadataNodeCommand \/ UNCHANGED vars
    BY <2>3, OtherCommands, Zenon DEF FS!fsVars, StatusOf, FileContent
  <2>4. QED
    BY <2>1, <2>2, <2>3 DEF Next
<1>3. QED
  BY <1>1, <1>2, FSMInvInvariant, PTL DEF Spec, ImplementsWriteOnceFS, FS!Spec

=============================================================================
