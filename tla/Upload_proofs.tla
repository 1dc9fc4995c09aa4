---------------------------- MODULE Upload_proofs ---------------------------
(***************************************************************************)
(* The safety of uploading, downloading and deleting a file, for any       *)
(* number of chunks, nodes, attempts, failures and lost messages: the      *)
(* inductive invariants UInv and DInv, action by action.                   *)
(*                                                                         *)
(* What they need of the operators on lists and of the placement is stated *)
(* by OperatorsFit, and proved at the end.                                 *)
(***************************************************************************)
EXTENDS Download, TLAPS

\* What the state machine holds on behalf of the one file.
StoredFile ==
  [chunkIDs : {FileChunks}, fileSize : {Size}, status : FileStatus, checkSum : {NoChecksum}]

StoredChunk ==
  [fileID : {FileID}, chunkIndex : Nat, status : {"allocated", "complete"},
   checksum : Checksums \cup {NoChecksum}, replicas : Seq(NodeIDs)]

Registered == FileID \in DOMAIN fileIndex

\* The file and its chunks are registered together, and every node is alive at
\* its address.
MetadataFits ==
  /\ IsRegistry(fileIndex, {FileID}, StoredFile)
  /\ chunkRegistry \in [IF Registered THEN Uploaded ELSE {} -> StoredChunk]
  /\ nodeRegistry \in [NodeIDs -> NodeEntry]
  /\ \A n \in NodeIDs : nodeRegistry[n].address = AddrOf[n] /\ nodeRegistry[n].status = "alive"

Committed(c) == Registered /\ chunkRegistry[c].checksum = ChecksumOf[c]

\* A chunk is a stub, or committed with a list of nodes that have it.
ChunkFits(c) ==
  /\ \A i \in 1..Len(chunkRegistry[c].replicas) : c \in copies[chunkRegistry[c].replicas[i]]
  /\ \/ chunkRegistry[c].checksum = NoChecksum /\ chunkRegistry[c].status = "allocated"
     \/ /\ chunkRegistry[c].checksum = ChecksumOf[c] /\ chunkRegistry[c].status = "complete"
        /\ Len(chunkRegistry[c].replicas) > 0

ChunksFit == \A c \in DOMAIN chunkRegistry : ChunkFits(c)

\* The entry e of a confirmed list names a node that has the chunk.
Confirms(e, c) == \E n \in NodeIDs : (e = n \/ e = AddrOf[n]) /\ c \in copies[n]

\* A handler that still has its client is the one of the current attempt, and
\* whoever it has confirmed has the chunk.
HandlerFits(h) ==
  /\ handlers[h].orphan => handlers[h].pc = "sent"
  /\ ~handlers[h].orphan => progress[h[1]].st = "waiting" /\ progress[h[1]].attempts = h[2]
  /\ handlers[h].pc # "recv" => Len(handlers[h].confirmed) > 0
  /\ \A i \in 1..Len(handlers[h].confirmed) : Confirms(handlers[h].confirmed[i], h[1])
  /\ handlers[h].pc = "reply" => Committed(h[1])

HandlersFit == \A h \in DOMAIN handlers : HandlerFits(h)

\* A chunk whose upload has succeeded is committed.
ProgressFits ==
  \A c \in Uploaded :
    /\ progress[c].st \in {"retry", "waiting", "mark"} => phase = "upload"
    /\ progress[c].st \in {"mark", "ok"} => Committed(c)

\* What each phase of Upload may rely on.
PhaseFits ==
  /\ phase \in {"start", "create", "upload"} => invokes = 0
  /\ phase = "commit" => invokes < MaxInvokes
  /\ phase \in {"start", "create"} => ~Registered
  /\ phase = "create" => manifest.st # "none"
  /\ phase = "upload" => \A c \in Uploaded : c \in DOMAIN placement /\ Len(placement[c]) > 0
  /\ phase \in {"commit", "cleanup", "done"} => \A c \in Uploaded : progress[c].st = "ok"
  /\ phase \in {"cleanup", "done"} => Registered /\ fileIndex[FileID].status # "creating"

\* While nothing is lost, nobody else finds the file before it is published.
Unpublished ==
  /\ lost \in Nat
  /\ late => lost > 0 \/ phase = "crashed"
  /\ phase \in {"upload", "commit"} /\ lost = 0 =>
       Registered /\ fileIndex[FileID].status = "creating"

\* The manifest is there while the file waits for its chunks, and marks only
\* chunks that are committed.
ManifestFits ==
  /\ Registered /\ fileIndex[FileID].status = "creating" => manifest.st # "none"
  /\ \A c \in manifest.done : Committed(c)

\* The inductive invariant of the upload.
UInv ==
  /\ UploadTypeOK /\ MetadataFits /\ ChunksFit /\ HandlersFit
  /\ ProgressFits /\ PhaseFits /\ Unpublished /\ ManifestFits

\* What is needed of the operators: normalised lists have the entries of the
\* lists they come from, a chunk of the file has a first index, a placement
\* picks as many nodes as asked for, and 1..n has n elements.
OperatorsFit ==
  /\ \A r \in Seq(NodeIDs) : Dedup(r) \in Seq(NodeIDs) /\ IsDedup(Dedup(r), r)
  /\ \A c \in Uploaded : FirstIndex(FileChunks, c) - 1 \in Nat
  /\ \A live \in SUBSET NodeIDs : \A report :
       \A nodes \in SelectNodes(live, report, ChunkSize, ReplicationFactor, {}) :
         nodes \in [1..ReplicationFactor -> live]
  /\ \A n \in Nat : Cardinality(1..n) = n

-----------------------------------------------------------------------------
(* Lists and numbers *)

\* The head of a list that is not empty.
LEMMA FirstOf ==
  ASSUME NEW S, NEW s \in Seq(S), Len(s) > 0
  PROVE  /\ 1 \in 1..Len(s) /\ Head(s) = s[1] /\ s[1] \in S /\ s[1] \in Range(s)
BY DEF Range

\* A list that is not <<>> has a head.
LEMMA SomeLeft ==
  ASSUME NEW S, NEW s \in Seq(S), s # <<>>
  PROVE  Len(s) > 0 /\ Len(s) \in Nat
OBVIOUS

\* What is left of a list without its first entry.
LEMMA TailOf ==
  ASSUME NEW S, NEW s \in Seq(S), s # <<>>
  PROVE  /\ Tail(s) \in Seq(S) /\ Len(Tail(s)) + 1 = Len(s)
         /\ \A i \in 1..Len(Tail(s)) : i + 1 \in 1..Len(s) /\ Tail(s)[i] = s[i + 1]
OBVIOUS

\* One list entry less, one failed read more.
LEMMA OneMore ==
  ASSUME NEW f \in Nat, NEW x \in Nat, NEW y \in Nat, NEW z \in Nat, x + 1 = y, f + y >= z
  PROVE  (f + 1) + x >= z
OBVIOUS

\* No list entry left.
LEMMA NoneLeft ==
  ASSUME NEW f \in Nat, NEW x, x = 0, NEW z, f + x >= z
  PROVE  f >= z
OBVIOUS

\* The nodes that a chunk may go to.
Candidates(nodes, report, minSpace, exclude) ==
  filterByMinSpace(filterNodes(nodes, exclude), report, minSpace)

\* Different nodes that a chunk may go to, as many as were asked for.
Fitting(nodes, report, minSpace, count, exclude, picked) ==
  /\ picked \in [1..count -> nodes \ exclude]
  /\ \A i, j \in 1..count : picked[i] = picked[j] => i = j
  /\ \A i \in 1..count : report[picked[i]].freeSpace >= minSpace

\* None better is left out.
NoneBetter(nodes, report, minSpace, count, exclude, picked) ==
  \A n \in nodes \ exclude, i \in 1..count :
    report[n].freeSpace >= minSpace /\ (\A k \in 1..count : picked[k] # n)
      => ~MoreFree(report, n, picked[i])

\* A selection is the beginning of a sorted list of the candidates.
LEMMA SelectedPrefix ==
  ASSUME NEW nodes, NEW report, NEW minSpace, NEW count \in Nat, NEW exclude,
         Cardinality(Candidates(nodes, report, minSpace, exclude)) \in Nat,
         NEW picked \in SelectNodes(nodes, report, minSpace, count, exclude)
  PROVE  /\ Fitting(nodes, report, minSpace, count, exclude, picked)
         /\ NoneBetter(nodes, report, minSpace, count, exclude, picked)
<1> DEFINE C == Candidates(nodes, report, minSpace, exclude)
           N == Cardinality(C)
<1>1. C = {n \in nodes \ exclude : report[n].freeSpace >= minSpace}
  BY Zenon DEF Candidates, filterByMinSpace, filterNodes
<1>2. PICK s \in SortByMostFreeSpace(C, report) : picked = SubSeq(s, 1, count) /\ ~(N < count)
  BY Zenon DEF SelectNodes, Candidates
<1>3. N \in Nat /\ count <= N
  BY <1>2
<1>4. /\ s \in [1..N -> C]
      /\ \A i, j \in 1..N : s[i] = s[j] => i = j
      /\ \A m \in C : \E j \in 1..N : s[j] = m
      /\ \A k, j \in 1..N : k < j => ~MoreFree(report, s[j], s[k])
  BY <1>2, Zenon DEF SortByMostFreeSpace, Bijection, Injection, Surjection, IsInjective
<1> HIDE DEF C, N
<1>5. \A i \in 1..count : i \in 1..N
  BY <1>3
<1>6. picked = [i \in 1..count |-> s[i]]
  <2>1. picked = [i \in 1..(count - 1 + 1) |-> s[1 + i - 1]]
    BY <1>2
  <2> QED BY <2>1
<1>7. \A i \in 1..count : picked[i] = s[i] /\ picked[i] \in C
  BY <1>4, <1>5, <1>6, Zenon
<1>8. picked \in [1..count -> nodes \ exclude]
  BY <1>1, <1>6, <1>7, Zenon
<1>9. ASSUME NEW n \in C, NEW i \in 1..count, \A k \in 1..count : picked[k] # n
      PROVE  ~MoreFree(report, n, picked[i])
  <2>1. PICK j \in 1..N : s[j] = n
    BY <1>4, Zenon
  <2>2. j \notin 1..count
    BY <1>7, <1>9, <2>1, Zenon
  <2>3. i < j
    BY <1>3, <2>2
  <2> QED BY <1>4, <1>5, <1>7, <2>1, <2>3, Zenon
<1>10. \A i, j \in 1..count : picked[i] = picked[j] => i = j
  BY <1>4, <1>5, <1>7, Zenon
<1>11. \A i \in 1..count : report[picked[i]].freeSpace >= minSpace
  BY <1>1, <1>7, Zenon
<1> QED BY <1>1, <1>8, <1>9, <1>10, <1>11, Zenon DEF Fitting, NoneBetter

\* A manifest that is not there marks nothing.
LEMMA NoManifestFits == NoManifest \in UploadManifest /\ NoManifest.done = {}
BY Zenon DEF NoManifest, UploadManifest

-----------------------------------------------------------------------------
(* What a step does to the metadata and to the copies *)

CommitsChunk(h) ==
  handlers[h].pc = "sent" /\ CommitChunk(h[1], handlers[h].confirmed, ChecksumOf[h[1]])

CopiesGrow ==
  /\ copies' \in [NodeIDs -> SUBSET Uploaded]
  /\ \A n \in NodeIDs : copies[n] \subseteq copies'[n]

\* Storing a chunk on some nodes only adds copies.
LEMMA StoredGrows ==
  ASSUME UploadTypeOK, NEW nodes, NEW c \in Uploaded, copies' = Stored(nodes, c)
  PROVE  CopiesGrow /\ \A n \in nodes \cap NodeIDs : c \in copies'[n]
BY Zenon DEF UploadTypeOK, Stored, CopiesGrow

\* A handler belongs to a chunk of the file and one of its attempts.
LEMMA HandlerKey ==
  ASSUME UploadTypeOK, NEW h \in DOMAIN handlers
  PROVE  /\ h \in Uploaded \X (1..MaxAttempts)
         /\ h[1] \in Uploaded /\ h[2] \in 1..MaxAttempts
         /\ handlers[h] \in Handler
         /\ h = <<h[1], h[2]>>
BY DEF UploadTypeOK, IsRegistry

\* No step of an upload removes a copy.
LEMMA StepCopies ==
  ASSUME UploadTypeOK, UploadNext
  PROVE  CopiesGrow
<1> USE DEF uploadVars, client
<1>1. UNCHANGED copies => CopiesGrow
  BY Zenon DEF CopiesGrow, UploadTypeOK
<1>2. CASE ClientStep
  BY <1>1, <1>2, Zenon DEF ClientStep, CreateManifest, UploadCreate, UploadRefused, StartChunk, PutChunk,
       GiveUp, MarkChunkDone, WaitChunks, UploadCommit, DeleteManifest
<1>3. CASE ClientFailure
  <2>1. CASE ClientCrash
    <3>1. PICK arrived \in SUBSET {a \in NodeIDs \X DOMAIN handlers : a[1] \in handlers[a[2]].pending} :
            copies' = [n \in NodeIDs |-> copies[n] \cup {a[2][1] : a \in {a \in arrived : a[1] = n}}]
      BY <2>1, Zenon DEF ClientCrash
    <3>2. \A a \in arrived : a[2][1] \in Uploaded
      BY HandlerKey, Zenon
    <3> QED BY <3>1, <3>2 DEF CopiesGrow, UploadTypeOK
  <2> QED BY <1>1, <1>3, <2>1, Zenon DEF ClientFailure, CreateManifestFails, UploadCreateLost,
         MarkChunkDoneFails, UploadCommitLost, CommitFileLate, DeleteManifestFails
<1>4. ASSUME NEW h \in DOMAIN handlers, HandlerStep(h) PROVE CopiesGrow
  <2>1. CASE StoreChunk(h) BY <2>1, HandlerKey, StoredGrows, Zenon DEF StoreChunk
  <2>2. CASE \E n \in NodeIDs : Replicated(h, n) BY <2>2, HandlerKey, StoredGrows, Zenon DEF Replicated
  <2> QED BY <1>1, <1>4, <2>1, <2>2, Zenon DEF HandlerStep, SendCommit, CommitChunkApplied,
         CommitChunkRejected, Reply
<1>5. ASSUME NEW h \in DOMAIN handlers, Failure(h) PROVE CopiesGrow
  <2>1. CASE \E n \in NodeIDs : ReplicationFails(h, n)
    BY <2>1, HandlerKey, StoredGrows, Zenon DEF ReplicationFails
  <2>2. CASE FanoutTimeout(h) BY <2>2, HandlerKey, StoredGrows, Zenon DEF FanoutTimeout
  <2>3. CASE BreakStream(h) BY <2>3, HandlerKey, StoredGrows, Zenon DEF BreakStream
  <2> QED BY <1>1, <1>5, <2>1, <2>2, <2>3, Zenon DEF Failure, StoreChunkFails, CommitChunkLost, OrphanDropped
<1> QED BY <1>2, <1>3, <1>4, <1>5, Zenon DEF UploadNext

\* The metadata changes by the commands of the upload only.
Commands ==
  \/ UNCHANGED vars
  \/ phase = "create" /\ Placements # {} /\ CreateFile(FileID, FileChunks, Size)
  \/ (phase = "commit" \/ late) /\ CommitFile(FileID, Size, NoChecksum)
  \/ \E h \in DOMAIN handlers : CommitsChunk(h)

\* Every step of the upload applies one of those commands, or none.
LEMMA StepCommands ==
  ASSUME UploadNext
  PROVE  Commands
<1> USE DEF Commands
<1>1. CASE ClientStep
  BY <1>1, Zenon DEF ClientStep, CreateManifest, UploadCreate, UploadRefused, StartChunk, PutChunk,
       GiveUp, MarkChunkDone, WaitChunks, UploadCommit, DeleteManifest
<1>2. CASE ClientFailure
  BY <1>2, Zenon DEF ClientFailure, CreateManifestFails, UploadCreateLost, ClientCrash,
         MarkChunkDoneFails, UploadCommitLost, CommitFileLate, DeleteManifestFails
<1>3. ASSUME NEW h \in DOMAIN handlers, HandlerStep(h) PROVE Commands
  BY <1>3, Zenon DEF HandlerStep, SendCommit, CommitChunkApplied, StoreChunk, Replicated,
         CommitChunkRejected, Reply, CommitsChunk
<1>4. ASSUME NEW h \in DOMAIN handlers, Failure(h) PROVE Commands
  BY <1>4, Zenon DEF Failure, StoreChunkFails, CommitChunkLost, OrphanDropped, ReplicationFails,
         FanoutTimeout, BreakStream, CommitsChunk
<1> QED BY <1>1, <1>2, <1>3, <1>4, Zenon DEF UploadNext

-----------------------------------------------------------------------------
(* The metadata and the chunks it lists *)

\* The retry limits are numbers.
LEMMA Limits == MaxAttempts \in Nat /\ MaxInvokes \in Nat
BY UploadAssumption, Zenon

\* Put, Delete and an update of one entry keep a map of handlers one.
LEMMA Registries ==
  ASSUME NEW m, NEW K, NEW V, IsRegistry(m, K, V)
  PROVE  /\ \A k \in K, v \in V : IsRegistry(Put(m, k, v), K, V)
         /\ \A k : IsRegistry(Delete(m, k), K, V)
         /\ \A k \in DOMAIN m, v \in V : IsRegistry([m EXCEPT ![k] = v], K, V)
BY Zenon DEF IsRegistry, Put, Delete

\* The chunks of the file are chunks, each with a checksum.
LEMMA UploadedChunks == Uploaded \subseteq ChunkIDs /\ ChecksumOf \in [ChunkIDs -> Checksums]
BY UploadAssumption DEF Uploaded, Range

\* The nodes are known under the addresses AddrOf.
LEMMA AddressOfIs ==
  ASSUME MetadataFits
  PROVE  AddressOf = AddrOf
BY UploadAssumption, Zenon DEF MetadataFits, AddressOf

\* normalizeReplicaNodeIDs turns entries that stand for nodes with the chunk
\* into the IDs of nodes with the chunk.
LEMMA ResolvedHold ==
  ASSUME UploadTypeOK, NEW e, NEW c, Confirms(e, c), NEW id \in ResolvedIDs(AddrOf, e)
  PROVE  id \in NodeIDs /\ c \in copies[id]
<1> DOMAIN AddrOf = NodeIDs /\ \A n \in NodeIDs : AddrOf[n] \in Addrs
  BY UploadAssumption, Zenon
<1>1. PICK n \in NodeIDs : (e = n \/ e = AddrOf[n]) /\ c \in copies[n]
  BY Zenon DEF Confirms
<1>2. CASE e = n
  BY <1>1, <1>2, Zenon DEF ResolvedIDs
<1>3. CASE e = AddrOf[n]
  <2>1. e \notin NodeIDs
    BY <1>3, AddressAssumption, Zenon
  <2>2. {m \in NodeIDs : AddrOf[m] = e} = {n}
    BY <1>3, AddressAssumption, Zenon DEF IsInjective
  <2> QED BY <1>1, <2>1, <2>2, Zenon DEF ResolvedIDs
<1> QED BY <1>1, <1>2, <1>3, Zenon

\* A confirmed list without strangers is normalised to a list of nodes that
\* have the chunk, and not to an empty one.
LEMMA NormalizedHold ==
  ASSUME OperatorsFit, UploadTypeOK, NEW raw \in Seq(Hosts), Len(raw) > 0, NEW c,
         \A i \in 1..Len(raw) : Confirms(raw[i], c),
         NEW ids \in NormalizedReplicas(AddrOf, raw)
  PROVE  /\ ids \in Seq(NodeIDs) /\ Len(ids) > 0
         /\ \A i \in 1..Len(ids) : c \in copies[ids[i]]
<1>1. PICK all \in Resolutions(AddrOf, raw) : ids = Dedup(all)
  BY Zenon DEF NormalizedReplicas
<1>2. /\ all \in [1..Len(raw) -> DOMAIN AddrOf \cup Range(raw)]
      /\ \A i \in 1..Len(raw) : all[i] \in ResolvedIDs(AddrOf, raw[i])
  BY <1>1, Zenon DEF Resolutions
<1>3. \A i \in 1..Len(raw) : all[i] \in NodeIDs /\ c \in copies[all[i]]
  BY <1>2, ResolvedHold, Zenon
<1>4. Len(raw) \in Nat
  OBVIOUS
<1>5. all \in Seq(NodeIDs) /\ Len(all) = Len(raw)
  BY <1>2, <1>3, <1>4
<1>6. ids \in Seq(NodeIDs) /\ IsDedup(ids, all)
  BY <1>1, <1>5, Zenon DEF OperatorsFit
<1>7. Range(ids) = Range(all)
  BY <1>6, Zenon DEF IsDedup
<1>8. \A i \in 1..Len(ids) : \E j \in 1..Len(raw) : ids[i] = all[j]
  <2>1. \A i \in 1..Len(ids) : ids[i] \in Range(ids)
    BY <1>6 DEF Range
  <2>2. \A x \in Range(all) : \E j \in 1..Len(raw) : x = all[j]
    BY <1>5 DEF Range
  <2> QED BY <1>7, <2>1, <2>2, Zenon
<1>9. all[1] \in Range(ids)
  <2>1. all[1] \in Range(all)
    BY <1>4, <1>5 DEF Range
  <2> QED BY <1>7, <2>1, Zenon
<1>10. Len(ids) > 0
  BY <1>6, <1>9 DEF Range
<1> QED BY <1>3, <1>6, <1>8, <1>10, Zenon

\* The stubs of a new file.
LEMMA StubsFit ==
  ASSUME OperatorsFit
  PROVE  /\ ChunkStubs(FileID, FileChunks) \in [Uploaded -> StoredChunk]
         /\ \A c \in Uploaded : /\ ChunkStubs(FileID, FileChunks)[c].checksum = NoChecksum
                                /\ ChunkStubs(FileID, FileChunks)[c].status = "allocated"
                                /\ ChunkStubs(FileID, FileChunks)[c].replicas = <<>>
<1>1. \A c \in Uploaded : FirstIndex(FileChunks, c) - 1 \in Nat
  BY Zenon DEF OperatorsFit
<1>2. <<>> \in Seq(NodeIDs)
  OBVIOUS
<1> QED BY <1>1, <1>2, Zenon DEF ChunkStubs, StoredChunk, Uploaded

\* CreateFile registers the file with a stub for every chunk.
LEMMA CreateFileFits ==
  ASSUME OperatorsFit, UploadTypeOK, MetadataFits, ~Registered, CreateFile(FileID, FileChunks, Size)
  PROVE  /\ MetadataFits' /\ ChunksFit'
         /\ Registered' /\ fileIndex'[FileID].status = "creating"
<1>1. chunkRegistry' = ChunkStubs(FileID, FileChunks)
  <2>1. DOMAIN chunkRegistry = {} /\ DOMAIN ChunkStubs(FileID, FileChunks) = Uploaded
    BY Zenon DEF MetadataFits, ChunkStubs, Uploaded
  <2> QED BY <2>1, StubsFit, Zenon DEF CreateFile, Merge
<1>2. fileIndex' \in [{FileID} -> StoredFile] /\ fileIndex'[FileID].status = "creating"
  <2> DEFINE r == [chunkIDs |-> FileChunks, fileSize |-> Size, status |-> "creating", checkSum |-> NoChecksum]
  <2>1. r \in StoredFile /\ r.status = "creating"
    BY Zenon DEF StoredFile, FileStatus
  <2>2. fileIndex' = Put(fileIndex, FileID, r)
    BY Zenon DEF CreateFile
  <2> HIDE DEF r
  <2> QED BY <2>1, <2>2, Zenon DEF MetadataFits, IsRegistry, Put, Registered
<1>3. UNCHANGED nodeRegistry
  BY Zenon DEF CreateFile
<1>4. Registered'
  BY <1>2, Zenon DEF Registered
<1>5. MetadataFits'
  BY <1>1, <1>2, <1>3, <1>4, StubsFit, Zenon DEF MetadataFits, IsRegistry
<1>6. ChunksFit'
  <2> SUFFICES ASSUME NEW c \in DOMAIN chunkRegistry' PROVE ChunkFits(c)'
    BY Zenon DEF ChunksFit
  <2> QED BY <1>1, StubsFit DEF ChunkFits
<1> QED BY <1>2, <1>4, <1>5, <1>6, Zenon

\* CommitFile changes the status of the file and no chunk.
LEMMA CommitFileFits ==
  ASSUME MetadataFits, CommitFile(FileID, Size, NoChecksum)
  PROVE  /\ MetadataFits' /\ UNCHANGED <<chunkRegistry, nodeRegistry>>
         /\ Registered /\ Registered' /\ fileIndex'[FileID].status = "complete"
<1> DEFINE r == [fileIndex[FileID] EXCEPT !.status = "complete", !.checkSum = NoChecksum]
<1>1. Registered /\ fileIndex[FileID] \in StoredFile
  BY Zenon DEF CommitFile, MetadataFits, IsRegistry, Registered
<1>2. r \in StoredFile /\ r.status = "complete"
  BY <1>1, Zenon DEF StoredFile, FileStatus
<1>3. fileIndex' = [fileIndex EXCEPT ![FileID] = r] /\ UNCHANGED <<chunkRegistry, nodeRegistry>>
  BY Zenon DEF CommitFile
<1> HIDE DEF r
<1>4. fileIndex' \in [DOMAIN fileIndex -> StoredFile] /\ fileIndex'[FileID] = r
  BY <1>1, <1>2, <1>3, Zenon DEF MetadataFits, IsRegistry, Registered
<1> QED BY <1>1, <1>2, <1>3, <1>4, Zenon DEF MetadataFits, IsRegistry, Registered

\* CommitChunk fills the stub of the handler's chunk and changes no other.
LEMMA CommitChunkFits ==
  ASSUME OperatorsFit, UploadTypeOK, MetadataFits, ChunksFit, CopiesGrow,
         NEW h \in DOMAIN handlers, HandlerFits(h), CommitsChunk(h)
  PROVE  /\ MetadataFits' /\ ChunksFit' /\ UNCHANGED <<fileIndex, nodeRegistry>>
         /\ Committed(h[1])'
         /\ chunkRegistry[h[1]].checksum = NoChecksum
         /\ \A c \in Uploaded : c # h[1] => chunkRegistry'[c] = chunkRegistry[c]
<1> DEFINE c == h[1]
<1>1. c \in Uploaded /\ handlers[h].confirmed \in Seq(Hosts)
  BY HandlerKey, Zenon DEF Handler
<1>2. c \in DOMAIN chunkRegistry /\ chunkRegistry[c].checksum = NoChecksum
      /\ UNCHANGED <<fileIndex, nodeRegistry>>
  BY Zenon DEF CommitsChunk, CommitChunk
<1>3. PICK ids \in NormalizedReplicas(AddrOf, handlers[h].confirmed) :
        chunkRegistry' = [chunkRegistry EXCEPT
          ![c] = [@ EXCEPT !.status = "complete", !.checksum = ChecksumOf[c], !.replicas = ids]]
  BY AddressOfIs, Zenon DEF CommitsChunk, CommitChunk
<1>4. /\ ids \in Seq(NodeIDs) /\ Len(ids) > 0
      /\ \A i \in 1..Len(ids) : c \in copies[ids[i]]
  <2>1. Len(handlers[h].confirmed) > 0
    BY Zenon DEF CommitsChunk, HandlerFits
  <2>2. \A i \in 1..Len(handlers[h].confirmed) : Confirms(handlers[h].confirmed[i], c)
    BY Zenon DEF HandlerFits
  <2> HIDE DEF c
  <2> QED BY <1>1, <2>1, <2>2, NormalizedHold, Zenon
<1>5. Registered /\ chunkRegistry \in [Uploaded -> StoredChunk]
  BY <1>2, Zenon DEF MetadataFits
<1> DEFINE r == [chunkRegistry[c] EXCEPT !.status = "complete", !.checksum = ChecksumOf[c], !.replicas = ids]
<1>6. /\ r \in StoredChunk /\ r.status = "complete" /\ r.checksum = ChecksumOf[c] /\ r.replicas = ids
  BY <1>1, <1>4, <1>5, UploadedChunks, Zenon DEF StoredChunk
<1>7. chunkRegistry' = [chunkRegistry EXCEPT ![c] = r]
  BY <1>3, Zenon
<1> HIDE DEF c, r
<1>8. /\ chunkRegistry' \in [Uploaded -> StoredChunk] /\ chunkRegistry'[c] = r
      /\ \A x \in Uploaded : x # c => chunkRegistry'[x] = chunkRegistry[x]
  BY <1>1, <1>5, <1>6, <1>7, Zenon
<1>9. Registered'
  BY <1>2, <1>5, Zenon DEF Registered
<1>10. MetadataFits'
  BY <1>2, <1>5, <1>8, <1>9, Zenon DEF MetadataFits, IsRegistry
<1>11. ASSUME NEW x \in Uploaded PROVE ChunkFits(x)'
  <2>1. CASE x = c
    BY <1>4, <1>6, <1>8, <2>1, SMTT(30) DEF ChunkFits, CopiesGrow
  <2>2. CASE x # c
    <3>1. ChunkFits(x)
      BY <1>5, Zenon DEF ChunksFit
    <3>2. chunkRegistry'[x] = chunkRegistry[x] /\ chunkRegistry[x].replicas \in Seq(NodeIDs)
      BY <1>5, <1>8, <2>2, Zenon DEF StoredChunk
    <3> QED BY <3>1, <3>2 DEF ChunkFits, CopiesGrow
  <2> QED BY <2>1, <2>2, Zenon
<1>12. ChunksFit'
  BY <1>8, <1>11, Zenon DEF ChunksFit
<1>13. Committed(c)'
  BY <1>6, <1>8, <1>9, Zenon DEF Committed
<1> QED BY <1>2, <1>8, <1>10, <1>12, <1>13, Zenon DEF c

-----------------------------------------------------------------------------
(* What a step keeps *)

\* A file that is registered stays so, and the record of a committed chunk is
\* not changed any more.
Kept ==
  /\ Registered => Registered'
  /\ \A c \in Uploaded : Committed(c) => Committed(c)' /\ chunkRegistry'[c] = chunkRegistry[c]

\* The commands keep the metadata in step with the copies.
LEMMA CommandsKeep ==
  ASSUME OperatorsFit, UInv, Commands, CopiesGrow
  PROVE  MetadataFits' /\ ChunksFit' /\ Kept
<1> USE DEF UInv
<1>1. CASE UNCHANGED <<chunkRegistry, nodeRegistry>> /\ (Registered <=> Registered') /\ MetadataFits'
  <2>1. ASSUME NEW c \in DOMAIN chunkRegistry' PROVE ChunkFits(c)'
    <3>1. ChunkFits(c) /\ chunkRegistry[c].replicas \in Seq(NodeIDs) /\ chunkRegistry' = chunkRegistry
      BY <1>1, Zenon DEF ChunksFit, MetadataFits, StoredChunk
    <3> QED BY <3>1 DEF ChunkFits, CopiesGrow
  <2>2. ChunksFit'
    BY <2>1, Zenon DEF ChunksFit
  <2> QED BY <1>1, <2>2, Zenon DEF Kept, Committed
<1>2. CASE UNCHANGED vars
  BY <1>1, <1>2, Zenon DEF vars, MetadataFits, Registered
<1>3. CASE phase = "create" /\ CreateFile(FileID, FileChunks, Size)
  <2>1. ~Registered
    BY <1>3, Zenon DEF PhaseFits
  <2> QED BY <1>3, <2>1, CreateFileFits, Zenon DEF Kept, Committed
<1>4. CASE CommitFile(FileID, Size, NoChecksum)
  BY <1>1, <1>4, CommitFileFits, Zenon
<1>5. ASSUME NEW h \in DOMAIN handlers, CommitsChunk(h)
      PROVE  MetadataFits' /\ ChunksFit' /\ Kept
  <2>1. HandlerFits(h)
    BY Zenon DEF HandlersFit
  <2>2. /\ MetadataFits' /\ ChunksFit' /\ UNCHANGED <<fileIndex, nodeRegistry>>
        /\ chunkRegistry[h[1]].checksum = NoChecksum
        /\ \A c \in Uploaded : c # h[1] => chunkRegistry'[c] = chunkRegistry[c]
    BY <1>5, <2>1, CommitChunkFits, ZenonT(30)
  <2>3. ASSUME NEW c \in Uploaded, Committed(c) PROVE c # h[1]
    BY <2>2, <2>3, UploadedChunks, NoChecksumAssumption, ZenonT(30) DEF Committed
  <2> QED BY <2>2, <2>3, Zenon DEF Kept, Committed, Registered
<1> QED BY <1>2, <1>3, <1>4, <1>5, ZenonT(30) DEF Commands

\* Confirms(e, c) after the step, for the e and the c before it.
ConfirmsNext(e, c) == \E n \in NodeIDs : (e = n \/ e = AddrOf[n]) /\ c \in copies'[n]

\* What a confirmed entry stands for keeps its copy.
LEMMA ConfirmsKept ==
  ASSUME CopiesGrow, NEW e, NEW c, Confirms(e, c)
  PROVE  ConfirmsNext(e, c)
BY ZenonT(30) DEF CopiesGrow, Confirms, ConfirmsNext

\* The handlers that a step does not touch still fit.
LEMMA HandlersKept ==
  ASSUME UploadTypeOK, HandlersFit, CopiesGrow, Kept,
         \A g \in DOMAIN handlers' :
           \/ HandlerFits(g)'
           \/ /\ g \in DOMAIN handlers /\ handlers'[g] = handlers[g]
              /\ handlers[g].orphan \/ progress'[g[1]] = progress[g[1]]
  PROVE  HandlersFit'
<1> SUFFICES ASSUME NEW g \in DOMAIN handlers', g \in DOMAIN handlers, handlers'[g] = handlers[g],
                    handlers[g].orphan \/ progress'[g[1]] = progress[g[1]]
             PROVE  HandlerFits(g)'
  BY Zenon DEF HandlersFit
<1>1. HandlerFits(g)
  BY Zenon DEF HandlersFit
<1>2. \A i \in 1..Len(handlers[g].confirmed) : ConfirmsNext(handlers[g].confirmed[i], g[1])
  BY <1>1, ConfirmsKept, Zenon DEF HandlerFits
<1>3. Committed(g[1]) => Committed(g[1])'
  BY HandlerKey, Zenon DEF Kept
<1>4. \A i \in 1..Len(handlers'[g].confirmed) : ConfirmsNext(handlers'[g].confirmed[i], g[1])
  BY <1>2, Zenon
<1>5. ~handlers[g].orphan =>
        progress'[g[1]].st = "waiting" /\ progress'[g[1]].attempts = g[2]
  BY <1>1, Zenon DEF HandlerFits
<1> QED BY <1>1, <1>3, <1>4, <1>5, Zenon DEF HandlerFits, Confirms, ConfirmsNext

\* A step that leaves the handlers and the goroutines alone.
LEMMA HandlersFrame ==
  ASSUME UInv, CopiesGrow, Kept, UNCHANGED <<handlers, progress>>
  PROVE  HandlersFit'
BY HandlersKept, Zenon DEF UInv

\* Only one handler of a chunk still has its client.
LEMMA SoleHandler ==
  ASSUME UploadTypeOK, HandlersFit, NEW g \in DOMAIN handlers, NEW h \in DOMAIN handlers,
         ~handlers[g].orphan, ~handlers[h].orphan, g[1] = h[1]
  PROVE  g = h
BY HandlerKey, ZenonT(30) DEF HandlersFit, HandlerFits

\* A step of a goroutine or of a handler: the client's own state stays, and a
\* goroutine whose state changes belongs to a running upload.
LEMMA ClientFrame ==
  ASSUME UInv, Kept, UNCHANGED <<client, fileIndex>>, lost' \in {lost, lost + 1},
         \A c \in Uploaded :
           \/ progress'[c].st = progress[c].st
           \/ /\ phase = "upload"
              /\ progress'[c].st \in {"mark", "ok"} => Committed(c)'
  PROVE  ProgressFits' /\ PhaseFits' /\ Unpublished' /\ ManifestFits'
<1> USE DEF UInv, client
<1>1. UNCHANGED <<phase, invokes, placement, manifest, late, fileIndex>>
  BY Zenon
<1>2. Registered' <=> Registered
  BY Zenon DEF Registered
<1>3. ProgressFits'
  BY <1>1, Zenon DEF ProgressFits, Kept
<1>4. PhaseFits'
  BY <1>1, <1>2, Zenon DEF PhaseFits
<1>5. Unpublished'
  BY <1>1, <1>2, SMTT(30) DEF Unpublished
<1>6. ManifestFits'
  <2>1. manifest.done \subseteq Uploaded
    BY Zenon DEF UploadTypeOK, UploadManifest
  <2> QED BY <1>1, <1>2, <2>1, ZenonT(30) DEF ManifestFits, Kept
<1> QED BY <1>3, <1>4, <1>5, <1>6, Zenon

-----------------------------------------------------------------------------
(* The PutChunk handlers *)

\* The part of the invariant that is not about the metadata.
Rest ==
  /\ UploadTypeOK /\ HandlersFit
  /\ ProgressFits /\ PhaseFits /\ Unpublished /\ ManifestFits

\* A handler goes on: its record becomes r, and the client waits.
LEMMA ReplaceHandler ==
  ASSUME UInv, CopiesGrow, Kept, UNCHANGED <<client, progress, fileIndex>>,
         lost' \in {lost, lost + 1},
         NEW h \in DOMAIN handlers, NEW r \in Handler,
         handlers' = [handlers EXCEPT ![h] = r], r.orphan = handlers[h].orphan,
         r.orphan => r.pc = "sent",
         r.pc # "recv" => Len(r.confirmed) > 0,
         \A i \in 1..Len(r.confirmed) : ConfirmsNext(r.confirmed[i], h[1]),
         r.pc = "reply" => Committed(h[1])'
  PROVE  Rest'
<1> USE DEF UInv
<1>1. IsRegistry(handlers', Uploaded \X (1..MaxAttempts), Handler) /\ handlers'[h] = r
      /\ DOMAIN handlers' = DOMAIN handlers
  BY Registries, Zenon DEF UploadTypeOK
<1>2. UploadTypeOK'
  BY <1>1, Zenon DEF UploadTypeOK, client, CopiesGrow
<1>3. HandlerFits(h)
  BY Zenon DEF HandlersFit
<1>4. HandlerFits(h)'
  BY <1>1, <1>3, Zenon DEF HandlerFits, Confirms, ConfirmsNext
<1>5. HandlersFit'
  BY <1>1, <1>4, HandlersKept, ZenonT(30)
<1>6. ProgressFits' /\ PhaseFits' /\ Unpublished' /\ ManifestFits'
  BY ClientFrame, Zenon
<1> QED BY <1>2, <1>5, <1>6, ZenonT(30) DEF Rest

\* A handler ends: a client that still waits for it gets the result st.
LEMMA EndHandler ==
  ASSUME UInv, CopiesGrow, Kept, UNCHANGED <<client, fileIndex>>,
         lost' \in {lost, lost + 1},
         NEW h \in DOMAIN handlers, NEW st \in {"retry", "mark"}, End(h, st),
         st = "mark" => Committed(h[1])'
  PROVE  Rest'
<1> USE DEF UInv
<1>1. h[1] \in Uploaded /\ handlers[h] \in Handler /\ HandlerFits(h)
  BY HandlerKey, Zenon DEF HandlersFit
<1>2. /\ IsRegistry(handlers', Uploaded \X (1..MaxAttempts), Handler)
      /\ DOMAIN handlers' = DOMAIN handlers \ {h}
      /\ \A g \in DOMAIN handlers' : handlers'[g] = handlers[g]
  BY Registries, Zenon DEF UploadTypeOK, End, Delete
<1>3. /\ progress' \in [Uploaded -> Goroutine]
      /\ \A c \in Uploaded : c # h[1] \/ handlers[h].orphan => progress'[c] = progress[c]
      /\ ~handlers[h].orphan => progress'[h[1]].st = st
  <2>1. CASE handlers[h].orphan
    BY <2>1, Zenon DEF End, UploadTypeOK
  <2>2. CASE ~handlers[h].orphan
    <3> DEFINE c == h[1]
           p == [progress[c] EXCEPT !.st = st]
    <3>1. progress' = [progress EXCEPT ![c] = p]
      BY <2>2, Zenon DEF End
    <3>2. p \in Goroutine /\ p.st = st
      BY <1>1, Zenon DEF UploadTypeOK, Goroutine
    <3> HIDE DEF c, p
    <3>3. c \in Uploaded
      BY <1>1, Zenon DEF c
    <3>4. progress' \in [Uploaded -> Goroutine] /\ progress'[c].st = st
          /\ \A x \in Uploaded : x # c => progress'[x] = progress[x]
      BY <3>1, <3>2, <3>3, Zenon DEF UploadTypeOK
    <3> QED BY <2>2, <3>4, Zenon DEF c
  <2> QED BY <2>1, <2>2, Zenon
<1>4. UploadTypeOK'
  BY <1>2, <1>3, Zenon DEF UploadTypeOK, client, CopiesGrow
<1>5. HandlersFit'
  <2> SUFFICES ASSUME NEW g \in DOMAIN handlers'
               PROVE  handlers[g].orphan \/ progress'[g[1]] = progress[g[1]]
    BY <1>2, HandlersKept, Zenon
  <2>1. g \in DOMAIN handlers /\ g # h /\ g[1] \in Uploaded
    BY <1>2, HandlerKey, Zenon
  <2>2. ~handlers[g].orphan /\ ~handlers[h].orphan => g[1] # h[1]
    BY <2>1, SoleHandler, Zenon
  <2> QED BY <1>3, <2>1, <2>2, Zenon
<1>6. \A c \in Uploaded :
        \/ progress'[c].st = progress[c].st
        \/ /\ phase = "upload"
           /\ progress'[c].st \in {"mark", "ok"} => Committed(c)'
  BY <1>1, <1>3, Zenon DEF HandlerFits, ProgressFits
<1>7. ProgressFits' /\ PhaseFits' /\ Unpublished' /\ ManifestFits'
  BY <1>6, ClientFrame, Zenon
<1> QED BY <1>4, <1>5, <1>7, ZenonT(30) DEF Rest

\* The primary of a chunk whose handler has not stored it yet.
LEMMA PrimaryKnown ==
  ASSUME UInv, NEW h \in DOMAIN handlers, handlers[h].pc = "recv"
  PROVE  /\ placement[h[1]] \in Seq(NodeIDs) /\ Len(placement[h[1]]) > 0
         /\ Head(placement[h[1]]) \in NodeIDs
         /\ Range(Tail(placement[h[1]])) \subseteq NodeIDs
         /\ ~handlers[h].orphan
<1> USE DEF UInv
<1>1. HandlerFits(h) /\ h[1] \in Uploaded
  BY HandlerKey, Zenon DEF HandlersFit
<1>2. phase = "upload" /\ ~handlers[h].orphan
  BY <1>1, Zenon DEF HandlerFits, ProgressFits
<1>3. placement[h[1]] \in Seq(NodeIDs) /\ Len(placement[h[1]]) > 0
  BY <1>1, <1>2, Zenon DEF PhaseFits, UploadTypeOK, IsRegistry
<1>4. Head(placement[h[1]]) \in NodeIDs /\ Tail(placement[h[1]]) \in Seq(NodeIDs)
  BY <1>3
<1> QED BY <1>2, <1>3, <1>4 DEF Range

\* StoreChunk, Replicated and the failures of the fan-out.
LEMMA FanoutSteps ==
  ASSUME UInv, CopiesGrow, Kept, NEW h \in DOMAIN handlers,
         \/ StoreChunk(h)
         \/ \E n \in NodeIDs : Replicated(h, n) \/ ReplicationFails(h, n)
         \/ FanoutTimeout(h)
         \/ SendCommit(h)
  PROVE  Rest'
<1> USE DEF UInv
<1> DEFINE c == h[1]
       old == handlers[h]
<1>1. c \in Uploaded /\ old \in Handler /\ HandlerFits(h)
  BY HandlerKey, Zenon DEF HandlersFit
<1>2. /\ old.confirmed \in Seq(Hosts)
      /\ \A i \in 1..Len(old.confirmed) : ConfirmsNext(old.confirmed[i], c)
  BY <1>1, ConfirmsKept, Zenon DEF HandlerFits, Handler
<1>3. lost \in {lost, lost + 1}
  BY Zenon
<1>4. CASE StoreChunk(h)
  <2> DEFINE nodes == placement[c]
         r == [old EXCEPT !.pc = "fanout", !.confirmed = <<Head(nodes)>>,
                          !.pending = Range(Tail(nodes))]
  <2>1. Head(nodes) \in NodeIDs /\ Range(Tail(nodes)) \subseteq NodeIDs /\ ~old.orphan
    BY <1>4, PrimaryKnown, ZenonT(30) DEF StoreChunk
  <2>2. <<Head(nodes)>> \in Seq(Hosts) /\ Len(<<Head(nodes)>>) = 1 /\ <<Head(nodes)>>[1] = Head(nodes)
    BY <2>1 DEF Hosts
  <2>3. /\ r \in Handler /\ r.pc = "fanout" /\ r.confirmed = <<Head(nodes)>>
        /\ r.orphan = old.orphan
    BY <1>1, <2>1, <2>2, Zenon DEF Handler
  <2>4. c \in copies'[Head(nodes)]
    <3>1. copies' = Stored({Head(nodes)}, c)
      BY <1>4, Zenon DEF StoreChunk
    <3> HIDE DEF c, nodes
    <3> QED BY <1>1, <2>1, <3>1, StoredGrows, ZenonT(30)
  <2>5. ConfirmsNext(Head(nodes), c)
    BY <2>1, <2>4, ZenonT(30) DEF ConfirmsNext
  <2>6. handlers' = [handlers EXCEPT ![h] = r] /\ UNCHANGED <<client, progress, fileIndex, lost>>
    BY <1>4, Zenon DEF StoreChunk, vars
  <2> HIDE DEF r, nodes, c, old
  <2>7. \A i \in 1..Len(r.confirmed) : ConfirmsNext(r.confirmed[i], c)
    BY <2>2, <2>3, <2>5
  <2>8. Len(r.confirmed) > 0
    BY <2>2, <2>3
  <2> QED BY <2>1, <2>3, <2>6, <2>7, <2>8, ReplaceHandler, Zenon DEF c, old
<1>5. ASSUME NEW n \in NodeIDs, Replicated(h, n) PROVE Rest'
  <2> DEFINE r == [old EXCEPT !.confirmed = Append(@, AddrOf[n]), !.pending = @ \ {n}]
  <2>1. AddrOf[n] \in Hosts /\ ~old.orphan /\ old.pc = "fanout"
    BY <1>1, <1>5, UploadAssumption, Zenon DEF Hosts, Replicated, HandlerFits
  <2>2. /\ Append(old.confirmed, AddrOf[n]) \in Seq(Hosts)
        /\ Len(Append(old.confirmed, AddrOf[n])) > 0
        /\ \A i \in 1..Len(Append(old.confirmed, AddrOf[n])) :
             \/ i \in 1..Len(old.confirmed) /\ Append(old.confirmed, AddrOf[n])[i] = old.confirmed[i]
             \/ Append(old.confirmed, AddrOf[n])[i] = AddrOf[n]
    BY <1>2, <2>1
  <2>3. /\ r \in Handler /\ r.pc = "fanout" /\ r.orphan = old.orphan
        /\ r.confirmed = Append(old.confirmed, AddrOf[n])
    BY <1>1, <2>1, <2>2, Zenon DEF Handler
  <2>4. c \in copies'[n]
    BY <1>1, <1>5, StoredGrows, Zenon DEF Replicated
  <2>5. ConfirmsNext(AddrOf[n], c)
    BY <2>4, Zenon DEF ConfirmsNext
  <2>6. handlers' = [handlers EXCEPT ![h] = r] /\ UNCHANGED <<client, progress, fileIndex, lost>>
    <3>1. handlers' = [handlers EXCEPT ![h] = r]
      BY <1>5, Zenon DEF Replicated
    <3> QED BY <1>5, <3>1, Zenon DEF Replicated, vars
  <2> HIDE DEF r, c, old
  <2>7. \A i \in 1..Len(r.confirmed) : ConfirmsNext(r.confirmed[i], c)
    BY <1>2, <2>2, <2>3, <2>5
  <2> QED BY <2>1, <2>2, <2>3, <2>6, <2>7, ReplaceHandler, Zenon DEF c, old
<1>6. ASSUME NEW r \in Handler, handlers' = [handlers EXCEPT ![h] = r], r.orphan = old.orphan,
             r.confirmed = old.confirmed, old.pc = "fanout", r.pc \in {"fanout", "sent"},
             UNCHANGED <<client, progress, fileIndex, lost>>
      PROVE  Rest'
  <2>1. ~old.orphan /\ Len(old.confirmed) > 0
    BY <1>1, <1>6, ZenonT(30) DEF HandlerFits
  <2> HIDE DEF c, old
  <2> QED BY <1>2, <1>6, <2>1, ReplaceHandler, Zenon DEF c, old
<1>7. ASSUME NEW n \in NodeIDs, ReplicationFails(h, n) PROVE Rest'
  <2> DEFINE r == [old EXCEPT !.pending = @ \ {n}]
  <2>1. r \in Handler /\ r.orphan = old.orphan /\ r.confirmed = old.confirmed /\ r.pc = old.pc
    BY <1>1, Zenon DEF Handler
  <2>2. handlers' = [handlers EXCEPT ![h] = r] /\ old.pc = "fanout"
        /\ UNCHANGED <<client, progress, fileIndex, lost>>
    BY <1>7, Zenon DEF ReplicationFails, vars
  <2> HIDE DEF r, c, old
  <2> QED BY <1>6, <2>1, <2>2, Zenon
<1>8. CASE FanoutTimeout(h)
  <2> DEFINE r == [old EXCEPT !.pending = {}]
  <2>1. r \in Handler /\ r.orphan = old.orphan /\ r.confirmed = old.confirmed /\ r.pc = old.pc
    BY <1>1, ZenonT(30) DEF Handler
  <2>2. handlers' = [handlers EXCEPT ![h] = r] /\ old.pc = "fanout"
        /\ UNCHANGED <<client, progress, fileIndex, lost>>
    BY <1>8, ZenonT(30) DEF FanoutTimeout, vars
  <2> HIDE DEF r, c, old
  <2> QED BY <1>6, <2>1, <2>2, Zenon
<1>9. CASE SendCommit(h)
  <2> DEFINE r == [old EXCEPT !.pc = "sent", !.invokes = 1]
  <2> 1 \in 0..MaxInvokes
    BY UploadAssumption
  <2>1. r \in Handler /\ r.orphan = old.orphan /\ r.confirmed = old.confirmed /\ r.pc = "sent"
    BY <1>1, Zenon DEF Handler
  <2>2. handlers' = [handlers EXCEPT ![h] = r] /\ old.pc = "fanout"
        /\ UNCHANGED <<client, progress, fileIndex, lost>>
    BY <1>9, Zenon DEF SendCommit, vars
  <2> HIDE DEF r, c, old
  <2> QED BY <1>6, <2>1, <2>2, Zenon
<1> QED BY <1>4, <1>5, <1>7, <1>8, <1>9, ZenonT(30)

\* The answers: CommitChunk is applied, refused or lost, and the client learns
\* of it or not.
LEMMA AnswerSteps ==
  ASSUME OperatorsFit, UInv, CopiesGrow, Kept, NEW h \in DOMAIN handlers,
         \/ StoreChunkFails(h)
         \/ CommitChunkApplied(h)
         \/ CommitChunkRejected(h)
         \/ CommitChunkLost(h)
         \/ Reply(h)
         \/ OrphanDropped(h)
  PROVE  Rest'
<1> USE DEF UInv
<1> DEFINE c == h[1]
       old == handlers[h]
<1>1. c \in Uploaded /\ old \in Handler /\ HandlerFits(h)
  BY HandlerKey, Zenon DEF HandlersFit
<1>2. /\ old.confirmed \in Seq(Hosts)
      /\ \A i \in 1..Len(old.confirmed) : ConfirmsNext(old.confirmed[i], c)
  BY <1>1, ConfirmsKept, Zenon DEF HandlerFits, Handler
<1>3. CASE StoreChunkFails(h)
  BY <1>3, EndHandler, ZenonT(30) DEF StoreChunkFails, Fail, vars
<1>4. CASE CommitChunkApplied(h)
  <2>1. Committed(c)' /\ UNCHANGED fileIndex /\ old.pc = "sent"
    BY <1>1, <1>4, CommitChunkFits, ZenonT(30) DEF CommitChunkApplied, CommitsChunk
  <2>2. CASE old.orphan
    <3>1. End(h, "retry") /\ UNCHANGED <<client, fileIndex, lost>>
      BY <1>4, <2>1, <2>2, ZenonT(30) DEF CommitChunkApplied, End
    <3> QED BY <3>1, EndHandler, ZenonT(30)
  <2>3. CASE ~old.orphan
    <3> DEFINE r == [old EXCEPT !.pc = "reply"]
    <3>1. r \in Handler /\ r.orphan = old.orphan /\ r.confirmed = old.confirmed /\ r.pc = "reply"
      BY <1>1, Zenon DEF Handler
    <3>2. handlers' = [handlers EXCEPT ![h] = r] /\ UNCHANGED <<client, progress, fileIndex, lost>>
      BY <1>4, <2>1, <2>3, ZenonT(30) DEF CommitChunkApplied
    <3>3. Len(old.confirmed) > 0
      BY <1>1, <2>1, Zenon DEF HandlerFits
    <3> HIDE DEF r, old, c
    <3> QED BY <1>2, <2>1, <2>3, <3>1, <3>2, <3>3, ReplaceHandler, Zenon DEF old, c
  <2> QED BY <2>2, <2>3, ZenonT(30)
<1>5. CASE CommitChunkRejected(h)
  BY <1>5, EndHandler, Zenon DEF CommitChunkRejected, Fail, vars
<1>6. CASE CommitChunkLost(h)
  <2>1. lost' = lost + 1 /\ UNCHANGED client /\ old.pc = "sent" /\ ~old.orphan
    BY <1>6, Zenon DEF CommitChunkLost, Lose
  <2>2. UNCHANGED fileIndex
    BY <1>6, Zenon DEF CommitChunkLost, CommitChunk, vars
  <2>3. CASE old.invokes < MaxInvokes
    <3> DEFINE r == [old EXCEPT !.invokes = @ + 1]
    <3> old.invokes + 1 \in 0..MaxInvokes
      <4>1. old.invokes \in 0..MaxInvokes
        BY <1>1, Zenon DEF Handler
      <4> HIDE DEF old
      <4> QED BY <2>3, <4>1, Limits
    <3>1. r \in Handler /\ r.orphan = old.orphan /\ r.confirmed = old.confirmed /\ r.pc = "sent"
      BY <1>1, <2>1, ZenonT(30) DEF Handler
    <3>2. handlers' = [handlers EXCEPT ![h] = r] /\ UNCHANGED progress
      BY <1>6, <2>3, Zenon DEF CommitChunkLost
    <3>3. Len(old.confirmed) > 0
      BY <1>1, <2>1, Zenon DEF HandlerFits
    <3> HIDE DEF r, old, c
    <3> QED BY <1>2, <2>1, <2>2, <3>1, <3>2, <3>3, ReplaceHandler, Zenon DEF old, c
  <2>4. CASE ~(old.invokes < MaxInvokes)
    <3>1. End(h, "retry")
      BY <1>6, <2>4, Zenon DEF CommitChunkLost, Fail
    <3> QED BY <2>1, <2>2, <3>1, EndHandler
  <2> QED BY <2>3, <2>4, ZenonT(30)
<1>7. CASE Reply(h)
  <2>1. End(h, "mark") /\ UNCHANGED <<client, fileIndex, lost>> /\ old.pc = "reply"
    BY <1>7, ZenonT(30) DEF Reply, vars
  <2>2. Committed(c)'
    BY <1>1, <2>1, Zenon DEF HandlerFits, Kept
  <2> QED BY <2>1, <2>2, EndHandler, Zenon
<1>8. CASE OrphanDropped(h)
  <2>1. End(h, "retry") /\ UNCHANGED <<client, fileIndex, lost>>
    BY <1>8, Zenon DEF OrphanDropped, End, vars
  <2> QED BY <2>1, EndHandler, Zenon
<1> QED BY <1>3, <1>4, <1>5, <1>6, <1>7, <1>8, Zenon

\* The stream of a handler breaks.
LEMMA BreakStreamStep ==
  ASSUME UInv, CopiesGrow, Kept, NEW h \in DOMAIN handlers, BreakStream(h)
  PROVE  Rest'
<1> USE DEF UInv
<1>1. /\ lost' = lost + 1 /\ UNCHANGED <<client, fileIndex>> /\ ~handlers[h].orphan
      /\ progress' = [progress EXCEPT ![h[1]].st = "retry"]
  BY Zenon DEF BreakStream, Lose, vars
<1>2. CASE handlers[h].pc # "sent"
  <2>1. End(h, "retry")
    BY <1>1, <1>2, ZenonT(30) DEF BreakStream, End
  <2> QED BY <1>1, <2>1, EndHandler, ZenonT(30)
<1>3. CASE handlers[h].pc = "sent"
  <2> DEFINE c == h[1]
         p == [progress[c] EXCEPT !.st = "retry"]
         r == [handlers[h] EXCEPT !.orphan = TRUE]
  <2>1. c \in Uploaded /\ handlers[h] \in Handler /\ HandlerFits(h)
    BY HandlerKey, Zenon DEF HandlersFit
  <2>2. /\ r \in Handler /\ r.orphan /\ r.pc = "sent" /\ r.confirmed = handlers[h].confirmed
    BY <1>3, <2>1, Zenon DEF Handler
  <2>3. p \in Goroutine /\ p.st = "retry"
    BY <2>1, ZenonT(30) DEF UploadTypeOK, Goroutine
  <2>4. handlers' = [handlers EXCEPT ![h] = r] /\ progress' = [progress EXCEPT ![c] = p]
    BY <1>1, <1>3, Zenon DEF BreakStream
  <2>5. \A i \in 1..Len(handlers[h].confirmed) : ConfirmsNext(handlers[h].confirmed[i], h[1])
    BY <2>1, ConfirmsKept, ZenonT(30) DEF HandlerFits
  <2>6. Len(handlers[h].confirmed) > 0 /\ phase = "upload"
    BY <1>1, <1>3, <2>1, ZenonT(30) DEF HandlerFits, ProgressFits
  <2> HIDE DEF r, p
  <2>7. /\ IsRegistry(handlers', Uploaded \X (1..MaxAttempts), Handler) /\ handlers'[h] = r
        /\ DOMAIN handlers' = DOMAIN handlers
        /\ \A g \in DOMAIN handlers : g # h => handlers'[g] = handlers[g]
    BY <2>2, <2>4, Registries, Zenon DEF UploadTypeOK
  <2>8. /\ progress' \in [Uploaded -> Goroutine] /\ progress'[c].st = "retry"
        /\ \A x \in Uploaded : x # c => progress'[x] = progress[x]
    <3> HIDE DEF c
    <3> QED BY <2>1, <2>3, <2>4, ZenonT(30) DEF UploadTypeOK
  <2>9. UploadTypeOK'
    BY <1>1, <2>7, <2>8, ZenonT(30) DEF UploadTypeOK, client, CopiesGrow
  <2>10. HandlerFits(h)'
    BY <2>2, <2>5, <2>6, <2>7, Zenon DEF HandlerFits, Confirms, ConfirmsNext
  <2>11. HandlersFit'
    <3> SUFFICES ASSUME NEW g \in DOMAIN handlers, g # h
                 PROVE  handlers[g].orphan \/ progress'[g[1]] = progress[g[1]]
      BY <2>7, <2>10, HandlersKept, ZenonT(30)
    <3>1. ~handlers[g].orphan => g[1] # h[1]
      BY <1>1, SoleHandler, ZenonT(30)
    <3> QED BY <2>8, <3>1, HandlerKey, Zenon
  <2>12. ProgressFits' /\ PhaseFits' /\ Unpublished' /\ ManifestFits'
    BY <1>1, <2>6, <2>8, ClientFrame, ZenonT(30)
  <2> QED BY <2>9, <2>11, <2>12, ZenonT(30) DEF Rest
<1> QED BY <1>2, <1>3, ZenonT(30)

\* The goroutines that upload the chunks.
LEMMA GoroutineSteps ==
  ASSUME UInv, CopiesGrow, Kept, NEW c \in Uploaded, StartChunk(c) \/ PutChunk(c) \/ GiveUp(c)
  PROVE  Rest'
<1> USE DEF UInv
<1>1. UNCHANGED <<client, fileIndex, lost>>
  BY Zenon DEF StartChunk, PutChunk, GiveUp, vars
<1>2. progress[c] \in Goroutine
  BY Zenon DEF UploadTypeOK
<1>3. ASSUME NEW p \in Goroutine, progress' = [progress EXCEPT ![c] = p], UNCHANGED handlers,
             progress[c].st # "waiting", p.st \in {"retry", "failed"}, phase = "upload"
      PROVE  Rest'
  <2>1. progress' \in [Uploaded -> Goroutine] /\ progress'[c].st = p.st
        /\ \A x \in Uploaded : x # c => progress'[x] = progress[x]
    BY <1>3, ZenonT(30) DEF UploadTypeOK
  <2>2. UploadTypeOK'
    BY <1>1, <1>3, <2>1, Zenon DEF UploadTypeOK, client, CopiesGrow
  <2>3. HandlersFit'
    <3> SUFFICES ASSUME NEW g \in DOMAIN handlers
                 PROVE  handlers[g].orphan \/ progress'[g[1]] = progress[g[1]]
      BY <1>3, HandlersKept, ZenonT(30)
    <3>1. HandlerFits(g) /\ g[1] \in Uploaded
      BY HandlerKey, Zenon DEF HandlersFit
    <3> QED BY <1>3, <2>1, <3>1, Zenon DEF HandlerFits
  <2>4. ProgressFits' /\ PhaseFits' /\ Unpublished' /\ ManifestFits'
    BY <1>1, <1>3, <2>1, ClientFrame, ZenonT(30)
  <2> QED BY <2>2, <2>3, <2>4, ZenonT(30) DEF Rest
<1>4. CASE StartChunk(c)
  <2> DEFINE p == [progress[c] EXCEPT !.st = "retry"]
  <2>1. p \in Goroutine /\ p.st = "retry"
    BY <1>2, Zenon DEF Goroutine
  <2>2. progress' = [progress EXCEPT ![c] = p] /\ UNCHANGED handlers
        /\ phase = "upload" /\ progress[c].st # "waiting"
    BY <1>4, Zenon DEF StartChunk
  <2> HIDE DEF p
  <2> QED BY <1>3, <2>1, <2>2, Zenon
<1>5. CASE GiveUp(c)
  <2> DEFINE p == [progress[c] EXCEPT !.st = "failed"]
  <2>1. p \in Goroutine /\ p.st = "failed"
    BY <1>2, Zenon DEF Goroutine
  <2>2. progress' = [progress EXCEPT ![c] = p] /\ UNCHANGED handlers /\ progress[c].st = "retry"
    BY <1>5, Zenon DEF GiveUp
  <2>3. phase = "upload"
    BY <2>2, Zenon DEF ProgressFits
  <2> HIDE DEF p
  <2> QED BY <1>3, <2>1, <2>2, <2>3, Zenon
<1>6. CASE PutChunk(c)
  <2> DEFINE k == progress[c].attempts + 1
         p == [st |-> "waiting", attempts |-> k]
         h == <<c, k>>
         r == [pc |-> "recv", confirmed |-> <<>>, pending |-> {}, invokes |-> 0, orphan |-> FALSE]
  <2>1. k \in 1..MaxAttempts /\ progress[c].st = "retry"
    <3>1. progress[c].st = "retry" /\ k <= MaxAttempts
      BY <1>6, Zenon DEF PutChunk
    <3>2. progress[c].attempts \in 0..MaxAttempts
      BY <1>2, Zenon DEF Goroutine
    <3> QED BY <3>1, <3>2, Limits
  <2>2. p \in Goroutine /\ p.st = "waiting" /\ p.attempts = k
    BY <2>1 DEF Goroutine
  <2>3. <<>> \in Seq(Hosts) /\ 0 \in 0..MaxInvokes
    BY UploadAssumption
  <2>4. r \in Handler /\ r.pc = "recv" /\ ~r.orphan /\ Len(r.confirmed) = 0
    BY <2>3, Zenon DEF Handler
  <2>5. progress' = [progress EXCEPT ![c] = p] /\ handlers' = Put(handlers, h, r)
    BY <1>6, Zenon DEF PutChunk
  <2> HIDE DEF p, r, k
  <2>6. h \in Uploaded \X (1..MaxAttempts) /\ h[1] = c /\ h[2] = k
    BY <2>1, Zenon
  <2> HIDE DEF h
  <2>7. /\ IsRegistry(handlers', Uploaded \X (1..MaxAttempts), Handler)
        /\ DOMAIN handlers' = DOMAIN handlers \cup {h} /\ handlers'[h] = r
        /\ \A g \in DOMAIN handlers : g # h => handlers'[g] = handlers[g]
    <3>1. IsRegistry(Put(handlers, h, r), Uploaded \X (1..MaxAttempts), Handler)
      BY <2>4, <2>6, Registries, Zenon DEF UploadTypeOK
    <3> QED BY <2>5, <3>1, Zenon DEF Put
  <2>8. progress' \in [Uploaded -> Goroutine] /\ progress'[c] = p
        /\ \A x \in Uploaded : x # c => progress'[x] = progress[x]
    BY <2>2, <2>5, Zenon DEF UploadTypeOK
  <2>9. UploadTypeOK'
    BY <1>1, <2>7, <2>8, Zenon DEF UploadTypeOK, client, CopiesGrow
  <2>10. ASSUME NEW g \in DOMAIN handlers, g # h
         PROVE  handlers[g].orphan \/ progress'[g[1]] = progress[g[1]]
    <3>1. HandlerFits(g) /\ g[1] \in Uploaded
      BY HandlerKey, Zenon DEF HandlersFit
    <3> QED BY <2>1, <2>8, <3>1, Zenon DEF HandlerFits
  <2>11. ASSUME NEW g \in DOMAIN handlers', g = h PROVE HandlerFits(g)'
    <3>1. handlers'[g] = r /\ progress'[g[1]] = p /\ g[2] = k
      BY <2>6, <2>7, <2>8, <2>11, Zenon
    <3> QED BY <2>2, <2>4, <3>1 DEF HandlerFits
  <2>12. HandlersFit'
    BY <2>7, <2>10, <2>11, HandlersKept, Zenon
  <2>13. phase = "upload"
    BY <2>1, Zenon DEF ProgressFits
  <2>14. ProgressFits' /\ PhaseFits' /\ Unpublished' /\ ManifestFits'
    BY <1>1, <2>2, <2>8, <2>13, ClientFrame, Zenon
  <2> QED BY <2>9, <2>12, <2>14, Zenon DEF Rest
<1> QED BY <1>4, <1>5, <1>6, ZenonT(30)

-----------------------------------------------------------------------------
(* The client *)

\* A placement gives every chunk a primary.
LEMMA PlacementFits ==
  ASSUME OperatorsFit, MetadataFits, NEW p \in Placements
  PROVE  /\ p \in [Uploaded -> Seq(NodeIDs)]
         /\ \A c \in Uploaded : Len(p[c]) > 0
<1> DEFINE live == {n \in DOMAIN nodeRegistry : nodeRegistry[n].status = "alive"}
       report == [n \in live |-> nodeRegistry[n].report]
<1>1. PICK nodes \in SelectNodes(live, report, ChunkSize, ReplicationFactor, {}) :
        p = [c \in Uploaded |-> nodes]
  BY Zenon DEF Placements
<1>2. live \in SUBSET NodeIDs
  BY Zenon DEF MetadataFits
<1> HIDE DEF live, report
<1>3. nodes \in [1..ReplicationFactor -> live]
  BY <1>1, <1>2, Zenon DEF OperatorsFit
<1>4. nodes \in [1..ReplicationFactor -> NodeIDs]
  BY <1>2, <1>3, Zenon
<1>5. nodes \in Seq(NodeIDs) /\ Len(nodes) = ReplicationFactor
  BY <1>4, UploadAssumption
<1> QED BY <1>1, <1>5, UploadAssumption

\* The steps before the chunks are uploaded.
LEMMA StartSteps ==
  ASSUME OperatorsFit, UInv, CopiesGrow, Kept,
         \/ CreateManifest \/ CreateManifestFails
         \/ UploadCreate \/ UploadRefused \/ UploadCreateLost
  PROVE  Rest'
<1> USE DEF UInv
<1>1. phase \in {"start", "create"} /\ UNCHANGED <<handlers, progress, invokes, late>>
      /\ lost' \in {lost, lost + 1}
  BY Zenon DEF CreateManifest, CreateManifestFails, UploadCreate, UploadRefused, UploadCreateLost, Lose
<1>2. HandlersFit'
  BY <1>1, HandlersFrame, Zenon
<1>3. ProgressFits'
  BY <1>1, Zenon DEF ProgressFits, Kept
<1>4. manifest.done \subseteq Uploaded
  BY Zenon DEF UploadTypeOK, UploadManifest
<1>5. invokes = 0 /\ ~Registered
  BY <1>1, Zenon DEF PhaseFits
<1>6. ASSUME UNCHANGED vars, phase' \in {"create", "failed"}, UNCHANGED <<placement, lost>>,
             manifest' \in UploadManifest, manifest'.done \subseteq manifest.done,
             phase' = "create" => manifest'.st # "none"
      PROVE  Rest'
  <2>1. ~Registered' /\ UNCHANGED fileIndex
    BY <1>5, <1>6, Zenon DEF vars, Registered
  <2>2. UploadTypeOK'
    BY <1>1, <1>6, Zenon DEF UploadTypeOK, CopiesGrow
  <2>3. PhaseFits'
    BY <1>1, <1>5, <1>6, <2>1, Zenon DEF PhaseFits
  <2>4. Unpublished'
    BY <1>1, <1>6, Zenon DEF Unpublished
  <2>5. ManifestFits'
    BY <1>4, <1>6, <2>1, Zenon DEF ManifestFits, Kept
  <2> QED BY <1>2, <1>3, <2>2, <2>3, <2>4, <2>5, Zenon DEF Rest
<1>7. CASE CreateManifest
  BY <1>6, <1>7, Zenon DEF CreateManifest, UploadManifest
<1>8. CASE CreateManifestFails
  BY <1>6, <1>8 DEF CreateManifestFails, UploadManifest, NoManifest, TornManifest
<1>9. CASE UploadRefused
  <2>1. manifest \in UploadManifest
    BY Zenon DEF UploadTypeOK
  <2> QED BY <1>6, <1>9, <2>1, Zenon DEF UploadRefused
<1>10. ASSUME phase = "create", CreateFile(FileID, FileChunks, Size), UNCHANGED manifest,
              \/ phase' = "upload" /\ placement' \in Placements
              \/ phase' = "failed" /\ UNCHANGED placement
       PROVE  Rest'
  <2>1. Registered' /\ fileIndex'[FileID].status = "creating"
    BY <1>5, <1>10, CreateFileFits, Zenon
  <2>2. /\ IsRegistry(placement', Uploaded, Seq(NodeIDs))
        /\ phase' = "upload" => \A c \in Uploaded : c \in DOMAIN placement' /\ Len(placement'[c]) > 0
    <3>1. CASE phase' = "upload" /\ placement' \in Placements
      <4>1. \A p \in Placements : p \in [Uploaded -> Seq(NodeIDs)] /\ \A c \in Uploaded : Len(p[c]) > 0
        BY PlacementFits, Zenon
      <4> HIDE DEF Placements
      <4> QED BY <3>1, <4>1, Zenon DEF IsRegistry
    <3>2. CASE phase' = "failed" /\ UNCHANGED placement
      BY <3>2, Zenon DEF UploadTypeOK
    <3> QED BY <1>10, <3>1, <3>2, Zenon
  <2>3. UploadTypeOK'
    BY <1>1, <1>10, <2>2, Zenon DEF UploadTypeOK, CopiesGrow
  <2>4. PhaseFits'
    BY <1>1, <1>5, <1>10, <2>1, <2>2, Zenon DEF PhaseFits
  <2>5. Unpublished'
    BY <1>1, <1>10, <2>1, SMTT(30) DEF Unpublished
  <2>6. ManifestFits'
    BY <1>4, <1>10, <2>1, Zenon DEF ManifestFits, PhaseFits, Kept
  <2> QED BY <1>2, <1>3, <2>3, <2>4, <2>5, <2>6, Zenon DEF Rest
<1>11. CASE UploadCreate
  BY <1>10, <1>11, Zenon DEF UploadCreate
<1>12. CASE UploadCreateLost
  BY <1>10, <1>12, Zenon DEF UploadCreateLost
<1> QED BY <1>7, <1>8, <1>9, <1>11, <1>12, Zenon

\* The manifest records a committed chunk, or is damaged.
LEMMA MarkSteps ==
  ASSUME UInv, CopiesGrow, Kept, NEW c \in Uploaded, MarkChunkDone(c) \/ MarkChunkDoneFails(c)
  PROVE  Rest'
<1> USE DEF UInv
<1>1. /\ progress[c].st = "mark" /\ progress' = [progress EXCEPT ![c].st = "ok"]
      /\ UNCHANGED <<phase, invokes, placement, late, handlers, fileIndex, lost>>
  BY Zenon DEF MarkChunkDone, MarkChunkDoneFails, vars
<1>2. phase = "upload" /\ Committed(c) /\ Committed(c)'
  BY <1>1, Zenon DEF ProgressFits, Kept
<1>3. /\ progress' \in [Uploaded -> Goroutine] /\ progress'[c].st = "ok"
      /\ \A x \in Uploaded : x # c => progress'[x] = progress[x]
  <2> DEFINE p == [progress[c] EXCEPT !.st = "ok"]
  <2>1. p \in Goroutine /\ p.st = "ok"
    BY Zenon DEF UploadTypeOK, Goroutine
  <2>2. progress' = [progress EXCEPT ![c] = p]
    BY <1>1, Zenon
  <2> HIDE DEF p
  <2> QED BY <2>1, <2>2, Zenon DEF UploadTypeOK
<1>4. /\ manifest' \in UploadManifest
      /\ manifest'.done \subseteq manifest.done \cup {c}
      /\ manifest.st # "none" => manifest'.st # "none"
  <2>1. manifest \in UploadManifest
    BY Zenon DEF UploadTypeOK
  <2>2. CASE MarkChunkDone(c)
    BY <2>1, <2>2, Zenon DEF MarkChunkDone, UploadManifest
  <2>3. CASE MarkChunkDoneFails(c)
    BY <2>1, <2>3 DEF MarkChunkDoneFails, UploadManifest, TornManifest
  <2> QED BY <2>2, <2>3, Zenon
<1>5. UploadTypeOK'
  BY <1>1, <1>3, <1>4, Zenon DEF UploadTypeOK, CopiesGrow
<1>6. HandlersFit'
  <2> SUFFICES ASSUME NEW g \in DOMAIN handlers
               PROVE  handlers[g].orphan \/ progress'[g[1]] = progress[g[1]]
    BY <1>1, HandlersKept, Zenon
  <2>1. HandlerFits(g) /\ g[1] \in Uploaded
    BY HandlerKey, Zenon DEF HandlersFit
  <2> QED BY <1>1, <1>3, <2>1, Zenon DEF HandlerFits
<1>7. ProgressFits'
  BY <1>1, <1>2, <1>3, Zenon DEF ProgressFits, Kept
<1>8. Registered' <=> Registered
  BY <1>1, Zenon DEF Registered
<1>9. PhaseFits'
  BY <1>1, <1>2, <1>8, Zenon DEF PhaseFits
<1>10. Unpublished'
  BY <1>1, <1>8, Zenon DEF Unpublished
<1>11. ManifestFits'
  <2>1. manifest.done \subseteq Uploaded
    BY Zenon DEF UploadTypeOK, UploadManifest
  <2> QED BY <1>1, <1>2, <1>4, <1>8, <2>1, Zenon DEF ManifestFits, Kept
<1> QED BY <1>5, <1>6, <1>7, <1>9, <1>10, <1>11, Zenon DEF Rest

\* The steps after the chunks are uploaded.
LEMMA EndSteps ==
  ASSUME UInv, CopiesGrow, Kept,
         \/ WaitChunks \/ UploadCommit \/ UploadCommitLost \/ CommitFileLate
         \/ DeleteManifest \/ DeleteManifestFails
  PROVE  Rest'
<1> USE DEF UInv
<1>1. UNCHANGED <<handlers, progress, placement>>
  BY Zenon DEF WaitChunks, UploadCommit, UploadCommitLost, CommitFileLate, DeleteManifest,
         DeleteManifestFails
<1>2. HandlersFit'
  BY <1>1, HandlersFrame, Zenon
<1>3. manifest \in UploadManifest /\ manifest.done \subseteq Uploaded
  BY Zenon DEF UploadTypeOK, UploadManifest
<1>4. CASE WaitChunks
  <2>1. /\ UNCHANGED <<invokes, manifest, late, lost, fileIndex>> /\ phase = "upload"
        /\ phase' \in {"failed", "commit"}
        /\ \A c \in Uploaded : progress[c].st \in {"ok", "failed"}
        /\ phase' = "commit" => \A c \in Uploaded : progress[c].st = "ok"
    BY <1>4, Zenon DEF WaitChunks, vars
  <2>2. Registered' <=> Registered
    BY <2>1, Zenon DEF Registered
  <2>3. UploadTypeOK'
    BY <1>1, <2>1, Zenon DEF UploadTypeOK, CopiesGrow
  <2>4. ProgressFits'
    BY <1>1, <2>1, Zenon DEF ProgressFits, Kept
  <2>5. PhaseFits'
    <3>1. invokes' = 0
      BY <2>1, Zenon DEF PhaseFits
    <3>2. invokes' < MaxInvokes
      BY <3>1, UploadAssumption
    <3>3. phase' = "failed" \/ (phase' = "commit" /\ \A c \in Uploaded : progress'[c].st = "ok")
      BY <1>1, <2>1, Zenon
    <3> QED BY <3>2, <3>3, Zenon DEF PhaseFits
  <2>6. Unpublished'
    BY <2>1, <2>2, Zenon DEF Unpublished
  <2>7. ManifestFits'
    BY <1>3, <2>1, <2>2, Zenon DEF ManifestFits, Kept
  <2> QED BY <1>2, <2>3, <2>4, <2>5, <2>6, <2>7, ZenonT(30) DEF Rest
<1>5. ASSUME CommitFile(FileID, Size, NoChecksum), UNCHANGED manifest, UploadTypeOK',
             \/ /\ phase = "commit" /\ phase' \in {"cleanup", "failed", "commit"}
                /\ lost' = lost + 1 \/ (lost' = lost /\ phase' = "cleanup")
                /\ UNCHANGED late
                /\ phase' = "commit" => invokes' < MaxInvokes
             \/ late /\ ~late' /\ UNCHANGED <<phase, lost, invokes>>
      PROVE  Rest'
  <2>1. Registered' /\ fileIndex'[FileID].status = "complete" /\ Registered
    BY <1>5, CommitFileFits, Zenon
  <2>2. ProgressFits'
    BY <1>1, <1>5, Zenon DEF ProgressFits, PhaseFits, Kept
  <2>3. PhaseFits'
    BY <1>1, <1>5, <2>1, Zenon DEF PhaseFits
  <2>4. Unpublished'
    BY <1>5, <2>1 DEF Unpublished
  <2>5. ManifestFits'
    BY <1>3, <1>5, <2>1, ZenonT(30) DEF ManifestFits, Kept
  <2> QED BY <1>2, <1>5, <2>2, <2>3, <2>4, <2>5, Zenon DEF Rest
<1>6. CASE UploadCommit
  <2>1. UploadTypeOK'
    BY <1>1, <1>6, ZenonT(30) DEF UploadCommit, UploadTypeOK, CopiesGrow
  <2> QED BY <1>5, <1>6, <2>1, Zenon DEF UploadCommit
<1>7. CASE CommitFileLate
  <2>1. UploadTypeOK'
    BY <1>1, <1>7, Zenon DEF CommitFileLate, UploadTypeOK, CopiesGrow
  <2> QED BY <1>5, <1>7, <2>1, ZenonT(30) DEF CommitFileLate
<1>8. CASE UploadCommitLost
  <2>1. /\ phase = "commit" /\ invokes' = invokes + 1 /\ lost' = lost + 1 /\ UNCHANGED manifest
        /\ phase' = IF invokes' < MaxInvokes THEN "commit" ELSE "failed"
    BY <1>8, ZenonT(30) DEF UploadCommitLost, Lose
  <2>2. late' \in BOOLEAN
    BY <1>8, Zenon DEF UploadCommitLost, UploadTypeOK
  <2>3. invokes' \in 0..MaxInvokes
    <3>1. invokes \in 0..MaxInvokes /\ invokes < MaxInvokes
      BY <2>1, Zenon DEF PhaseFits, UploadTypeOK
    <3>2. MaxInvokes \in Nat
      BY UploadAssumption, Zenon
    <3> QED BY <2>1, <3>1, <3>2
  <2>4. UploadTypeOK'
    BY <1>1, <2>1, <2>2, <2>3, Zenon DEF UploadTypeOK, CopiesGrow
  <2>5. CASE CommitFile(FileID, Size, NoChecksum) /\ UNCHANGED late
    BY <1>5, <2>1, <2>4, <2>5, ZenonT(30)
  <2>6. CASE UNCHANGED vars
    <3>1. UNCHANGED fileIndex /\ (Registered' <=> Registered)
      BY <2>6, Zenon DEF vars, Registered
    <3>2. ProgressFits'
      BY <1>1, <2>1, Zenon DEF ProgressFits, PhaseFits, Kept
    <3>3. PhaseFits'
      BY <1>1, <2>1, <3>1, ZenonT(30) DEF PhaseFits
    <3>4. Unpublished'
      BY <2>1, <3>1 DEF Unpublished
    <3>5. ManifestFits'
      BY <1>3, <2>1, <3>1, Zenon DEF ManifestFits, Kept
    <3> QED BY <1>2, <2>4, <3>2, <3>3, <3>4, <3>5, Zenon DEF Rest
  <2> QED BY <1>8, <2>5, <2>6, ZenonT(30) DEF UploadCommitLost
<1>9. CASE DeleteManifest \/ DeleteManifestFails
  <2>1. /\ phase = "cleanup" /\ phase' = "done" /\ UNCHANGED <<fileIndex, invokes, late, lost>>
        /\ manifest' \in {manifest, NoManifest}
    BY <1>9, Zenon DEF DeleteManifest, DeleteManifestFails, vars
  <2>2. Registered' <=> Registered
    BY <2>1, Zenon DEF Registered
  <2>3. manifest' \in UploadManifest /\ manifest'.done \subseteq manifest.done
    BY <1>3, <2>1, NoManifestFits, Zenon
  <2>4. UploadTypeOK'
    BY <1>1, <2>1, <2>3, ZenonT(30) DEF UploadTypeOK, CopiesGrow
  <2>5. ProgressFits'
    BY <1>1, <2>1, ZenonT(30) DEF ProgressFits, PhaseFits, Kept
  <2>6. PhaseFits'
    BY <1>1, <2>1, <2>2, Zenon DEF PhaseFits
  <2>7. Unpublished'
    BY <2>1, Zenon DEF Unpublished
  <2>8. ManifestFits'
    BY <1>3, <2>1, <2>2, <2>3, ZenonT(30) DEF ManifestFits, PhaseFits, Kept
  <2> QED BY <1>2, <2>4, <2>5, <2>6, <2>7, <2>8, Zenon DEF Rest
<1> QED BY <1>4, <1>6, <1>7, <1>8, <1>9, ZenonT(30)

\* The client process ends.
LEMMA CrashStep ==
  ASSUME UInv, CopiesGrow, Kept, ClientCrash
  PROVE  Rest'
<1> USE DEF UInv
<1>1. /\ phase \notin Ended /\ phase' = "crashed" /\ UNCHANGED <<invokes, placement, lost>>
      /\ late' = (late \/ phase = "commit")
      /\ progress' = [c \in Uploaded |->
                        [progress[c] EXCEPT !.st = IF @ = "mark" THEN "cut" ELSE "failed"]]
      /\ handlers' = [h \in {h \in DOMAIN handlers : handlers[h].pc = "sent"} |->
                        [handlers[h] EXCEPT !.orphan = TRUE]]
      /\ manifest' \in {manifest, TornManifest}
      /\ UNCHANGED vars \/ (phase = "create" /\ CreateFile(FileID, FileChunks, Size))
  BY Zenon DEF ClientCrash
<1>2. manifest' \in UploadManifest /\ manifest'.done \subseteq manifest.done
      /\ manifest.done \subseteq Uploaded
      /\ (manifest.st # "none" => manifest'.st # "none")
  BY <1>1 DEF UploadTypeOK, UploadManifest, TornManifest
<1>3. progress' \in [Uploaded -> Goroutine] /\ \A c \in Uploaded : progress'[c].st \in {"cut", "failed"}
  <2> DEFINE st(c) == IF progress[c].st = "mark" THEN "cut" ELSE "failed"
  <2>1. progress' = [c \in Uploaded |-> [progress[c] EXCEPT !.st = st(c)]]
    BY <1>1, Zenon
  <2>2. \A c \in Uploaded : st(c) \in {"cut", "failed"}
    BY Zenon
  <2> HIDE DEF st
  <2>3. \A c \in Uploaded : /\ [progress[c] EXCEPT !.st = st(c)] \in Goroutine
                            /\ [progress[c] EXCEPT !.st = st(c)].st \in {"cut", "failed"}
    BY <2>2, Zenon DEF UploadTypeOK, Goroutine
  <2> QED BY <2>1, <2>3, Zenon
<1>4. /\ IsRegistry(handlers', Uploaded \X (1..MaxAttempts), Handler)
      /\ \A h \in DOMAIN handlers' :
           /\ h \in DOMAIN handlers /\ handlers[h].pc = "sent"
           /\ handlers'[h].orphan /\ handlers'[h].pc = "sent"
           /\ handlers'[h].confirmed = handlers[h].confirmed
  <2> DEFINE r(h) == [handlers[h] EXCEPT !.orphan = TRUE]
  <2>1. ASSUME NEW h \in DOMAIN handlers
        PROVE  /\ h \in Uploaded \X (1..MaxAttempts) /\ r(h) \in Handler /\ r(h).orphan
               /\ r(h).pc = handlers[h].pc /\ r(h).confirmed = handlers[h].confirmed
    BY HandlerKey, Zenon DEF Handler
  <2>2. handlers' = [h \in {h \in DOMAIN handlers : handlers[h].pc = "sent"} |-> r(h)]
    BY <1>1, ZenonT(30)
  <2> HIDE DEF r
  <2> QED BY <2>1, <2>2, Zenon DEF IsRegistry
<1>5. UploadTypeOK'
  BY <1>1, <1>2, <1>3, <1>4, ZenonT(30) DEF UploadTypeOK, CopiesGrow
<1>6. ASSUME NEW h \in DOMAIN handlers' PROVE HandlerFits(h)'
  <2>1. HandlerFits(h)
    BY <1>4, Zenon DEF HandlersFit
  <2>2. \A i \in 1..Len(handlers[h].confirmed) : ConfirmsNext(handlers[h].confirmed[i], h[1])
    BY <2>1, ConfirmsKept, Zenon DEF HandlerFits
  <2>3. \A i \in 1..Len(handlers'[h].confirmed) : Confirms(handlers[h].confirmed[i], h[1])'
    BY <1>4, <2>2, Zenon DEF Confirms, ConfirmsNext
  <2>4. Len(handlers'[h].confirmed) > 0
    BY <1>4, <2>1, Zenon DEF HandlerFits
  <2> QED BY <1>4, <2>3, <2>4, Zenon DEF HandlerFits
<1>7. HandlersFit'
  BY <1>6, ZenonT(30) DEF HandlersFit
<1>8. ProgressFits' /\ PhaseFits'
  BY <1>1, <1>3, Zenon DEF ProgressFits, PhaseFits
<1>9. Unpublished'
  BY <1>1, Zenon DEF Unpublished
<1>10. ManifestFits'
  <2>1. \A c \in manifest'.done : Committed(c)'
    BY <1>2, ZenonT(30) DEF ManifestFits, Kept
  <2>2. CASE UNCHANGED vars
    BY <1>2, <2>1, <2>2, Zenon DEF ManifestFits, vars, Registered
  <2>3. CASE phase = "create"
    BY <1>2, <2>1, <2>3, Zenon DEF ManifestFits, PhaseFits
  <2> QED BY <1>1, <2>2, <2>3, ZenonT(30)
<1> QED BY <1>5, <1>7, <1>8, <1>9, <1>10, ZenonT(30) DEF Rest

-----------------------------------------------------------------------------
(* The invariant of the upload *)

\* An upload that has not begun satisfies the invariant.
LEMMA UploadInitInv ==
  ASSUME UploadInit
  PROVE  UInv
<1> USE DEF UploadInit
<1>1. UploadTypeOK
  <2>1. 0 \in 0..MaxInvokes /\ 0 \in 0..MaxAttempts
    BY UploadAssumption
  <2>2. progress \in [Uploaded -> Goroutine]
    BY <2>1, Zenon DEF Goroutine
  <2>3. IsRegistry(placement, Uploaded, Seq(NodeIDs))
        /\ IsRegistry(handlers, Uploaded \X (1..MaxAttempts), Handler)
    BY Zenon DEF EmptyRegistry, IsRegistry
  <2>4. manifest \in UploadManifest
    BY Zenon DEF UploadManifest, NoManifest
  <2>5. copies \in [NodeIDs -> SUBSET Uploaded]
    BY Zenon
  <2>6. phase = "start" /\ invokes = 0 /\ late \in BOOLEAN
    <3>1. phase = "start" /\ invokes = 0
      BY Zenon
    <3>2. late \in BOOLEAN
      BY Zenon
    <3> QED BY <3>1, <3>2, Zenon
  <2> HIDE DEF UploadInit
  <2> QED BY <2>1, <2>2, <2>3, <2>4, <2>5, <2>6, Zenon DEF UploadTypeOK
<1>2. ~Registered
  BY Zenon DEF Registered, EmptyRegistry
<1>3. MetadataFits
  <2>1. PICK report \in InitialReports :
          nodeRegistry = [n \in NodeIDs |->
            [address |-> AddrOf[n], status |-> "alive", report |-> report[n]]]
    BY Zenon
  <2>2. \A n \in NodeIDs : AddrOf[n] \in Addrs /\ report[n] \in Reports
    BY UploadAssumption, ZenonT(30)
  <2>3. nodeRegistry \in [NodeIDs -> NodeEntry]
        /\ \A n \in NodeIDs : nodeRegistry[n].address = AddrOf[n] /\ nodeRegistry[n].status = "alive"
    BY <2>1, <2>2, Zenon DEF NodeEntry, NodeStatus
  <2> QED BY <1>2, <2>3, Zenon DEF MetadataFits, EmptyRegistry, IsRegistry
<1>4. ChunksFit /\ HandlersFit
  BY Zenon DEF ChunksFit, HandlersFit, EmptyRegistry
<1>5. ProgressFits /\ PhaseFits /\ Unpublished /\ ManifestFits
  BY <1>2, Zenon DEF ProgressFits, PhaseFits, Unpublished, ManifestFits, NoManifest
<1> QED BY <1>1, <1>3, <1>4, <1>5, ZenonT(30) DEF UInv

\* Every step of the client, of a storage handler and of a failure keeps the
\* invariant, the copies and the committed chunks.
LEMMA UploadNextInv ==
  ASSUME OperatorsFit, UInv, UploadNext
  PROVE  UInv' /\ CopiesGrow /\ Kept
<1>1. CopiesGrow
  BY StepCopies, Zenon DEF UInv
<1>2. MetadataFits' /\ ChunksFit' /\ Kept
  BY <1>1, StepCommands, CommandsKeep, Zenon
<1>5. ASSUME NEW h \in DOMAIN handlers, HandlerStep(h) PROVE Rest'
  BY <1>1, <1>2, <1>5, FanoutSteps, AnswerSteps, Zenon DEF HandlerStep
<1>6. ASSUME NEW h \in DOMAIN handlers, Failure(h) PROVE Rest'
  BY <1>1, <1>2, <1>6, FanoutSteps, AnswerSteps, BreakStreamStep, Zenon DEF Failure
<1>7. Rest'
  <2>1. CASE ClientStep
    BY <1>1, <1>2, <2>1, StartSteps, GoroutineSteps, MarkSteps, EndSteps, ZenonT(30) DEF ClientStep
  <2>2. CASE ClientFailure
    BY <1>1, <1>2, <2>2, StartSteps, MarkSteps, EndSteps, CrashStep, Zenon DEF ClientFailure
  <2> QED BY <1>5, <1>6, <2>1, <2>2, Zenon DEF UploadNext
<1> QED BY <1>1, <1>2, <1>7, ZenonT(30) DEF UInv, Rest

\* A file that readers are served has all of its chunks.
PublishedFits ==
  Registered /\ fileIndex[FileID].status = "complete" => \A c \in Uploaded : Committed(c)

FetchState ==
  [pc : {"fetch", "done", "failed"}, left : [Uploaded -> Seq(Addrs)],
   want : [Uploaded -> Checksums], out : [Uploaded -> Checksums \cup {Damaged, NoData}]]

DownloadType ==
  /\ readFaults \in Nat
  /\ download \in {[pc |-> "idle"], [pc |-> "listed"], [pc |-> "notfound"]} \cup FetchState

\* The fetch of a chunk compares with the uploaded checksum, the replicas left
\* to try have the chunk, and every replica tried in vain was a fault.
FetchFits(c) ==
  /\ Committed(c) /\ download.want[c] = ChecksumOf[c]
  /\ download.out[c] \in {NoData, ChecksumOf[c]}
  /\ \A i \in 1..Len(download.left[c]) :
       \E n \in NodeIDs : download.left[c][i] = AddrOf[n] /\ c \in copies[n]
  /\ download.out[c] = NoData =>
       readFaults + Len(download.left[c]) >= Len(chunkRegistry[c].replicas)

DownloadFits ==
  /\ download \in FetchState => \A c \in Uploaded : FetchFits(c)
  /\ download.pc = "done" => \A c \in Uploaded : download.out[c] # NoData
  /\ download.pc = "failed" =>
       \E c \in Uploaded : download.out[c] = NoData /\ Len(download.left[c]) = 0

\* The inductive invariant of uploads, downloads and deletions.
DInv == UInv /\ PublishedFits /\ DownloadType /\ DownloadFits

\* Deleting a file changes its status only.
LEMMA DeleteFileFits ==
  ASSUME UInv, ClientDelete
  PROVE  /\ UInv' /\ CopiesGrow /\ Kept
         /\ Registered /\ Registered' /\ fileIndex'[FileID].status = "deleted"
<1> USE DEF UInv
<1> DEFINE r == [fileIndex[FileID] EXCEPT !.status = "deleted"]
<1>1. Registered /\ fileIndex[FileID] \in StoredFile
  BY Zenon DEF ClientDelete, DeleteFile, MetadataFits, IsRegistry, Registered
<1>2. r \in StoredFile /\ r.status = "deleted"
  BY <1>1, Zenon DEF StoredFile, FileStatus
<1>3. /\ fileIndex' = [fileIndex EXCEPT ![FileID] = r]
      /\ UNCHANGED <<chunkRegistry, nodeRegistry, phase, invokes, placement, manifest, late,
                     progress, handlers, copies, faults, lost>>
  BY Zenon DEF ClientDelete, DeleteFile, client
<1> HIDE DEF r
<1>4. fileIndex' \in [DOMAIN fileIndex -> StoredFile] /\ fileIndex'[FileID] = r
  BY <1>1, <1>2, <1>3, Zenon DEF MetadataFits, IsRegistry, Registered
<1>5. Registered'
  BY <1>1, <1>4, Zenon DEF Registered
<1>6. MetadataFits'
  BY <1>1, <1>3, <1>4, <1>5, Zenon DEF MetadataFits, IsRegistry
<1>7. CopiesGrow /\ Kept
  BY <1>1, <1>3, <1>5, Zenon DEF CopiesGrow, Kept, Committed, UploadTypeOK
<1>8. ChunksFit'
  BY <1>3, Zenon DEF ChunksFit, ChunkFits
<1>9. UploadTypeOK' /\ HandlersFit'
  BY <1>3, <1>7, HandlersFrame, Zenon DEF UploadTypeOK
<1>10. ProgressFits' /\ PhaseFits'
  <2>1. ProgressFits'
    BY <1>3, <1>7, Zenon DEF ProgressFits, Kept
  <2>2. ~(phase \in {"start", "create"}) /\ fileIndex'[FileID].status # "creating"
    BY <1>1, <1>2, <1>4, ZenonT(30) DEF PhaseFits
  <2>3. PhaseFits'
    BY <1>3, <1>5, <2>2, ZenonT(30) DEF PhaseFits
  <2> QED BY <2>1, <2>3, Zenon
<1>11. Unpublished'
  <2>1. ~(phase \in {"upload", "commit"} /\ lost = 0)
    BY Zenon DEF ClientDelete, Found, ListFiles, Available, Ended, Unpublished, Registered
  <2> QED BY <1>3, <2>1, ZenonT(30) DEF Unpublished
<1>12. ManifestFits'
  <2>1. manifest.done \subseteq Uploaded
    BY Zenon DEF UploadTypeOK, UploadManifest
  <2> QED BY <1>2, <1>3, <1>4, <1>7, <2>1, Zenon DEF ManifestFits, Kept
<1> QED BY <1>1, <1>2, <1>4, <1>5, <1>6, <1>7, <1>8, <1>9, <1>10, <1>11, <1>12, ZenonT(30)

\* The file is published with all of its chunks only.
LEMMA PublishedKept ==
  ASSUME OperatorsFit, UInv, PublishedFits, UploadNext \/ ClientDelete, Kept
  PROVE  PublishedFits'
<1> USE DEF UInv
<1>1. CASE ClientDelete
  BY <1>1, DeleteFileFits, ZenonT(30) DEF PublishedFits
<1>2. CASE UNCHANGED fileIndex
  BY <1>2, Zenon DEF PublishedFits, Kept, Registered
<1>3. CASE phase = "create" /\ CreateFile(FileID, FileChunks, Size)
  <2>1. ~Registered
    BY <1>3, ZenonT(30) DEF PhaseFits
  <2> QED BY <1>3, <2>1, CreateFileFits, ZenonT(30) DEF PublishedFits
<1>4. CASE CommitFile(FileID, Size, NoChecksum)
  <2>1. Registered /\ fileIndex[FileID] \in StoredFile
    BY <1>4, ZenonT(30) DEF CommitFile, MetadataFits, IsRegistry, Registered
  <2>2. fileIndex[FileID].chunkIDs = FileChunks
    BY <2>1, ZenonT(30) DEF StoredFile
  <2>3. \A c \in Uploaded : c \in DOMAIN chunkRegistry /\ chunkRegistry[c].status = "complete"
    BY <1>4, <2>2, ZenonT(30) DEF CommitFile, Uploaded
  <2>4. \A c \in Uploaded : Committed(c)
    BY <2>1, <2>3 DEF Committed, ChunksFit, ChunkFits
  <2> QED BY <2>4, Zenon DEF PublishedFits, Kept
<1>5. ASSUME NEW h \in DOMAIN handlers, CommitsChunk(h) PROVE UNCHANGED fileIndex
  BY <1>5, ZenonT(30) DEF CommitsChunk, CommitChunk
<1> QED BY <1>1, <1>2, <1>3, <1>4, <1>5, StepCommands, Zenon DEF Commands, vars

\* What a download relies on outlasts every step of the upload.
LEMMA DownloadKept ==
  ASSUME UInv, UInv', DownloadType, DownloadFits, CopiesGrow, Kept, UNCHANGED downloadVars
  PROVE  DownloadType' /\ DownloadFits'
<1>1. UNCHANGED <<download, readFaults>>
  BY Zenon DEF downloadVars
<1>2. ASSUME NEW c \in Uploaded, FetchFits(c) PROVE FetchFits(c)'
  BY <1>1, <1>2 DEF FetchFits, CopiesGrow, Kept
<1> QED BY <1>1, <1>2, ZenonT(30) DEF DownloadType, DownloadFits

\* GetFile returns the address of every listed node, as all of them are alive.
LEMMA LocationsAre ==
  ASSUME OperatorsFit, MetadataFits, NEW list \in Seq(NodeIDs)
  PROVE  /\ Locations(list) \in Seq(Addrs) /\ Len(Locations(list)) = Len(list)
         /\ \A k \in 1..Len(list) : Locations(list)[k] = AddrOf[list[k]]
<1> DEFINE serving == {i \in 1..Len(list) :
                         /\ list[i] \in DOMAIN nodeRegistry
                         /\ nodeRegistry[list[i]].status \notin {"dead", "draining"}}
       nth(k) == CHOOSE i \in serving : Cardinality({j \in serving : j <= i}) = k
<1>1. \A i \in 1..Len(list) : list[i] \in NodeIDs /\ Len(list) \in Nat
  OBVIOUS
<1>2. serving = 1..Len(list)
  BY <1>1, Zenon DEF MetadataFits
<1>3. Locations(list) = [k \in 1..Cardinality(serving) |-> nodeRegistry[list[nth(k)]].address]
  BY Zenon DEF Locations
<1> HIDE DEF serving
<1>4. \A i \in 1..Len(list) : Cardinality({j \in serving : j <= i}) = i
  <2> SUFFICES ASSUME NEW i \in 1..Len(list) PROVE Cardinality({j \in serving : j <= i}) = i
    BY Zenon
  <2>1. {j \in serving : j <= i} = 1..i
    BY <1>1, <1>2
  <2>2. i \in Nat
    BY <1>1
  <2>3. Cardinality(1..i) = i
    BY <2>2, Zenon DEF OperatorsFit
  <2> QED BY <2>1, <2>3, Zenon
<1>5. Cardinality(serving) = Len(list)
  <2>1. Len(list) \in Nat
    OBVIOUS
  <2> QED BY <1>2, <2>1, Zenon DEF OperatorsFit
<1>6. \A k \in 1..Len(list) : nth(k) = k
  BY <1>2, <1>4, ZenonT(30)
<1> HIDE DEF nth
<1>7. Locations(list) = [k \in 1..Len(list) |-> nodeRegistry[list[nth(k)]].address]
  BY <1>3, <1>5, Zenon
<1>8. \A k \in 1..Len(list) : nodeRegistry[list[nth(k)]].address = AddrOf[list[k]]
  BY <1>1, <1>6 DEF MetadataFits
<1>9. \A k \in 1..Len(list) : AddrOf[list[k]] \in Addrs
  BY <1>1, UploadAssumption
<1>10. Locations(list) = [k \in 1..Len(list) |-> AddrOf[list[k]]]
  BY <1>7, <1>8
<1>11. Len(list) \in Nat
  OBVIOUS
<1> QED BY <1>9, <1>10, <1>11

\* GetFile.
LEMMA DownloadGetStep ==
  ASSUME OperatorsFit, DInv, DownloadGet, UNCHANGED uploadVars
  PROVE  DownloadType' /\ DownloadFits'
<1> USE DEF DInv, UInv
<1>1. UNCHANGED <<readFaults, chunkRegistry, fileIndex, copies>>
  BY Zenon DEF DownloadGet, uploadVars, vars
<1>2. CASE ~Available(FileID)
  <2>1. download' = [pc |-> "notfound"]
    BY <1>2, Zenon DEF DownloadGet
  <2>2. download' \notin FetchState /\ download'.pc = "notfound"
    BY <2>1 DEF FetchState
  <2> QED BY <1>1, <2>1, <2>2 DEF DownloadType, DownloadFits
<1>3. CASE Available(FileID)
  <2>1. \A c \in Uploaded : Committed(c)
    BY <1>3 DEF Available, PublishedFits, Registered
  <2>2. Registered /\ fileIndex[FileID].chunkIDs = FileChunks
    BY <1>3, Zenon DEF Available, Registered, MetadataFits, IsRegistry, StoredFile
  <2>3. chunkRegistry \in [Uploaded -> StoredChunk]
    BY <2>2 DEF MetadataFits
  <2>4. GetFileChunks(FileID) = chunkRegistry
    BY <2>2, <2>3, ZenonT(30) DEF GetFileChunks, Uploaded
  <2> DEFINE left == [c \in Uploaded |-> Locations(chunkRegistry[c].replicas)]
         want == [c \in Uploaded |-> chunkRegistry[c].checksum]
         out == [c \in Uploaded |-> NoData]
  <2>5. download' = [pc |-> "fetch", left |-> left, want |-> want, out |-> out]
    BY <1>3, <2>3, <2>4, Zenon DEF DownloadGet
  <2>6. ASSUME NEW c \in Uploaded
        PROVE  /\ left[c] \in Seq(Addrs) /\ Len(left[c]) = Len(chunkRegistry[c].replicas)
               /\ \A i \in 1..Len(left[c]) :
                    \E n \in NodeIDs : left[c][i] = AddrOf[n] /\ c \in copies[n]
               /\ want[c] = ChecksumOf[c] /\ want[c] \in Checksums /\ out[c] = NoData
    <3>1. chunkRegistry[c].replicas \in Seq(NodeIDs)
      BY <2>3, Zenon DEF StoredChunk
    <3>2. ChunkFits(c)
      BY <2>3, Zenon DEF ChunksFit
    <3>3. \A i \in 1..Len(chunkRegistry[c].replicas) : chunkRegistry[c].replicas[i] \in NodeIDs
      BY <3>1
    <3>4. want[c] = ChecksumOf[c] /\ want[c] \in Checksums
      BY <2>1, UploadedChunks, Zenon DEF Committed
    <3> QED BY <3>1, <3>2, <3>3, <3>4, LocationsAre, Zenon DEF ChunkFits
  <2> HIDE DEF left, want, out
  <2>7. left \in [Uploaded -> Seq(Addrs)] /\ want \in [Uploaded -> Checksums]
        /\ out \in [Uploaded -> Checksums \cup {Damaged, NoData}]
    BY <2>6, Zenon DEF left, want, out
  <2>8. /\ download' \in FetchState /\ download'.pc = "fetch"
        /\ download'.left = left /\ download'.want = want /\ download'.out = out
    BY <2>5, <2>7, Zenon DEF FetchState
  <2>9. ASSUME NEW c \in Uploaded PROVE FetchFits(c)'
    <3>1. Committed(c)'
      BY <1>1, <2>1, Zenon DEF Committed, Registered
    <3>2. readFaults + Len(left[c]) >= Len(chunkRegistry[c].replicas)
      <4>1. Len(left[c]) \in Nat
        BY <2>6
      <4> QED BY <2>6, <4>1 DEF DownloadType
    <3> QED BY <1>1, <2>6, <2>8, <3>1, <3>2, Zenon DEF FetchFits
  <2> QED BY <1>1, <2>8, <2>9 DEF DownloadType, DownloadFits
<1> QED BY <1>2, <1>3

\* Updating one field of a fetch leaves the others as they are.
LEMMA FetchUpdate ==
  ASSUME NEW A, NEW B, NEW C, NEW D, NEW r \in [pc : A, left : B, want : C, out : D],
         NEW b \in B, NEW d \in D
  PROVE  /\ [r EXCEPT !.left = b] \in [pc : A, left : B, want : C, out : D]
         /\ [r EXCEPT !.left = b].pc = r.pc /\ [r EXCEPT !.left = b].left = b
         /\ [r EXCEPT !.left = b].want = r.want /\ [r EXCEPT !.left = b].out = r.out
         /\ [r EXCEPT !.out = d] \in [pc : A, left : B, want : C, out : D]
         /\ [r EXCEPT !.out = d].pc = r.pc /\ [r EXCEPT !.out = d].left = r.left
         /\ [r EXCEPT !.out = d].want = r.want /\ [r EXCEPT !.out = d].out = d
BY Zenon

\* More faults excuse at least as many failures.
LEMMA MoreFaults ==
  ASSUME NEW f \in Nat, NEW g \in Nat, f <= g, NEW y \in Nat, NEW z \in Nat, f + y >= z
  PROVE  g + y >= z
OBVIOUS

\* One replica is tried, or the download ends.
LEMMA FetchSteps ==
  ASSUME DInv, UNCHANGED uploadVars, DownloadEnd \/ \E c \in Uploaded : DownloadChunk(c)
  PROVE  DownloadType' /\ DownloadFits'
<1> USE DEF DInv, UInv
<1>1. UNCHANGED <<chunkRegistry, fileIndex, copies>>
  BY Zenon DEF uploadVars, vars
<1>2. \A c : Committed(c) => Committed(c)'
  BY <1>1, Zenon DEF Committed, Registered
<1>3. download \in FetchState /\ download.pc = "fetch" /\ \A c \in Uploaded : FetchFits(c)
  <2>1. download.pc = "fetch"
    BY Zenon DEF DownloadEnd, DownloadChunk
  <2>2. download \in FetchState
    BY <2>1 DEF DownloadType
  <2> QED BY <2>1, <2>2, Zenon DEF DownloadFits
<1>4. /\ download.left \in [Uploaded -> Seq(Addrs)] /\ download.want \in [Uploaded -> Checksums]
      /\ download.out \in [Uploaded -> Checksums \cup {Damaged, NoData}]
  BY <1>3, Zenon DEF FetchState
<1>5. CASE DownloadEnd
  <2> DEFINE pc == IF \E c \in Uploaded : download.out[c] = NoData THEN "failed" ELSE "done"
  <2>1. download' = [download EXCEPT !.pc = pc] /\ UNCHANGED readFaults
        /\ \A c \in Uploaded : ~Fetching(c)
    BY <1>5, Zenon DEF DownloadEnd
  <2>2. pc \in {"failed", "done"}
    BY Zenon
  <2>3. /\ download' \in FetchState /\ download'.pc = pc /\ download'.left = download.left
        /\ download'.want = download.want /\ download'.out = download.out
    <3> HIDE DEF pc
    <3> QED BY <1>3, <2>1, <2>2, Zenon DEF FetchState
  <2>4. ASSUME NEW c \in Uploaded PROVE FetchFits(c)'
    <3>1. FetchFits(c)
      BY <1>3, Zenon
    <3> QED BY <1>1, <1>2, <2>1, <2>3, <3>1 DEF FetchFits
  <2>5. \A c \in Uploaded : download.out[c] = NoData => Len(download.left[c]) = 0
    <3> SUFFICES ASSUME NEW c \in Uploaded, download.out[c] = NoData PROVE Len(download.left[c]) = 0
      BY Zenon
    <3>1. download.left[c] = <<>>
      BY <2>1, Zenon DEF Fetching
    <3> QED BY <3>1
  <2> QED BY <2>1, <2>3, <2>4, <2>5 DEF DownloadType, DownloadFits
<1>6. ASSUME NEW c \in Uploaded, DownloadChunk(c) PROVE DownloadType' /\ DownloadFits'
  <2>1. PICK n \in NodeIDs, data \in {ChecksumOf[c], Damaged, NoData} :
          /\ AddrOf[n] = Head(download.left[c])
          /\ GetChunk(c, n, data)
          /\ download' = IF Accepted(c, data) THEN [download EXCEPT !.out[c] = data]
                                              ELSE [download EXCEPT !.left[c] = Tail(@)]
    BY <1>6, Zenon DEF DownloadChunk
  <2>2. FetchFits(c) /\ download.left[c] \in Seq(Addrs) /\ download.left[c] # <<>>
        /\ download.out[c] = NoData
    BY <1>3, <1>4, <1>6, Zenon DEF DownloadChunk, Fetching
  <2>3. ChecksumOf[c] \in Checksums /\ ChecksumOf[c] # NoChecksum /\ ChecksumOf[c] # NoData
    BY UploadedChunks, NoChecksumAssumption, DownloadAssumption, Zenon
  <2>4. readFaults \in Nat /\ readFaults' \in Nat /\ readFaults <= readFaults'
    BY <2>1 DEF GetChunk, DownloadType
  <2>5. ASSUME NEW x \in Uploaded, download'.want = download.want, download'.left[x] = download.left[x],
               download'.out[x] = download.out[x]
        PROVE  FetchFits(x)'
    <3>1. FetchFits(x) /\ Len(download.left[x]) \in Nat
      <4>1. FetchFits(x) /\ download.left[x] \in Seq(Addrs)
        BY <1>3, <1>4, Zenon
      <4> QED BY <4>1
    <3>2. Committed(x) /\ chunkRegistry[x].replicas \in Seq(NodeIDs)
      BY <3>1, Zenon DEF FetchFits, Committed, MetadataFits, StoredChunk
    <3>3. readFaults + Len(download.left[x]) >= Len(chunkRegistry[x].replicas)
            => readFaults' + Len(download.left[x]) >= Len(chunkRegistry[x].replicas)
      <4> DEFINE y == Len(download.left[x])
             z == Len(chunkRegistry[x].replicas)
      <4>1. y \in Nat /\ z \in Nat
        BY <3>1, <3>2
      <4> HIDE DEF y, z
      <4>2. readFaults + y >= z => readFaults' + y >= z
        BY <2>4, <4>1, MoreFaults, Zenon
      <4> QED BY <4>2, Zenon DEF y, z
    <3>4. Committed(x)' /\ download'.want[x] = ChecksumOf[x]
          /\ download'.out[x] \in {NoData, ChecksumOf[x]}
      BY <1>2, <2>5, <3>1, <3>2, Zenon DEF FetchFits
    <3>5. \A i \in 1..Len(download'.left[x]) :
            \E m \in NodeIDs : download'.left[x][i] = AddrOf[m] /\ x \in copies'[m]
      <4>1. \A i \in 1..Len(download.left[x]) :
              \E m \in NodeIDs : download.left[x][i] = AddrOf[m] /\ x \in copies[m]
        BY <3>1, Zenon DEF FetchFits
      <4> QED BY <1>1, <2>5, <4>1
    <3>6. download'.out[x] = NoData
            => readFaults' + Len(download'.left[x]) >= Len(chunkRegistry'[x].replicas)
      <4>1. download.out[x] = NoData
              => readFaults + Len(download.left[x]) >= Len(chunkRegistry[x].replicas)
        BY <3>1, Zenon DEF FetchFits
      <4> QED BY <1>1, <2>5, <3>3, <4>1, Zenon
    <3> QED BY <3>4, <3>5, <3>6, Zenon DEF FetchFits
  <2>6. CASE Accepted(c, data)
    <3>1. data = ChecksumOf[c]
      BY <2>2, <2>3, <2>6, Zenon DEF Accepted, FetchFits
    <3> DEFINE o == [download.out EXCEPT ![c] = data]
    <3>2. download' = [download EXCEPT !.out = o]
      BY <2>1, <2>6, ZenonT(30)
    <3>3. o \in [Uploaded -> Checksums \cup {Damaged, NoData}] /\ o[c] = ChecksumOf[c]
          /\ \A x \in Uploaded : x # c => o[x] = download.out[x]
      BY <1>4, <2>3, <3>1, Zenon
    <3> HIDE DEF o
    <3>4. /\ download' \in FetchState /\ download'.pc = "fetch" /\ download'.left = download.left
          /\ download'.want = download.want /\ download'.out = o
      <4>1. o \in [Uploaded -> Checksums \cup {Damaged, NoData}]
        BY <3>3, Zenon
      <4> QED BY <1>3, <1>4, <3>2, <4>1, FetchUpdate, Zenon DEF FetchState
    <3>5. FetchFits(c)'
      <4>1. Committed(c)' /\ download'.want[c] = ChecksumOf[c] /\ download'.out[c] = ChecksumOf[c]
        BY <1>2, <2>2, <3>3, <3>4, Zenon DEF FetchFits
      <4>2. \A i \in 1..Len(download'.left[c]) :
              \E m \in NodeIDs : download'.left[c][i] = AddrOf[m] /\ c \in copies'[m]
        <5>1. \A i \in 1..Len(download.left[c]) :
                \E m \in NodeIDs : download.left[c][i] = AddrOf[m] /\ c \in copies[m]
          BY <2>2, Zenon DEF FetchFits
        <5> QED BY <1>1, <3>4, <5>1
      <4> QED BY <2>3, <4>1, <4>2, Zenon DEF FetchFits
    <3>6. \A x \in Uploaded : FetchFits(x)'
      BY <2>5, <3>3, <3>4, <3>5, Zenon
    <3>7. readFaults' \in Nat
      BY <2>4, Zenon
    <3> QED BY <3>4, <3>6, <3>7, Zenon DEF DownloadType, DownloadFits
  <2>7. CASE ~Accepted(c, data)
    <3>1. data # ChecksumOf[c]
      BY <2>2, <2>3, <2>7, Zenon DEF Accepted, FetchFits
    <3>2. c \in copies[n]
      <4>1. 1 \in 1..Len(download.left[c]) /\ Head(download.left[c]) = download.left[c][1]
        BY <2>2, SomeLeft, FirstOf, Zenon
      <4>2. \E m \in NodeIDs : download.left[c][1] = AddrOf[m] /\ c \in copies[m]
        BY <2>2, <4>1, Zenon DEF FetchFits
      <4>3. DOMAIN AddrOf = NodeIDs
        BY UploadAssumption, Zenon
      <4> QED BY <2>1, <4>1, <4>2, <4>3, AddressAssumption, Zenon DEF IsInjective
    <3>3. readFaults' = readFaults + 1
      BY <2>1, <3>1, <3>2, Zenon DEF GetChunk
    <3> DEFINE l == [download.left EXCEPT ![c] = Tail(download.left[c])]
    <3>4. download' = [download EXCEPT !.left = l]
      BY <2>1, <2>7, Zenon
    <3>5. /\ Tail(download.left[c]) \in Seq(Addrs)
          /\ Len(Tail(download.left[c])) + 1 = Len(download.left[c])
          /\ \A i \in 1..Len(Tail(download.left[c])) :
               i + 1 \in 1..Len(download.left[c]) /\ Tail(download.left[c])[i] = download.left[c][i + 1]
      BY <2>2, TailOf, ZenonT(30)
    <3>6. l \in [Uploaded -> Seq(Addrs)] /\ l[c] = Tail(download.left[c])
          /\ \A x \in Uploaded : x # c => l[x] = download.left[x]
      BY <1>4, <3>5, Zenon
    <3> HIDE DEF l
    <3>7. /\ download' \in FetchState /\ download'.pc = "fetch" /\ download'.left = l
          /\ download'.want = download.want /\ download'.out = download.out
      <4>1. l \in [Uploaded -> Seq(Addrs)]
        BY <3>6, Zenon
      <4> QED BY <1>3, <1>4, <3>4, <4>1, FetchUpdate, Zenon DEF FetchState
    <3>8. FetchFits(c)'
      <4>1. Committed(c) /\ chunkRegistry[c].replicas \in Seq(NodeIDs)
        BY <2>2, Zenon DEF FetchFits, Committed, MetadataFits, StoredChunk
      <4>2. readFaults + Len(download.left[c]) >= Len(chunkRegistry[c].replicas)
        BY <2>2, Zenon DEF FetchFits
      <4>3. Len(l[c]) \in Nat /\ Len(chunkRegistry[c].replicas) \in Nat
        BY <3>5, <3>6, <4>1
      <4>4. readFaults' + Len(l[c]) >= Len(chunkRegistry[c].replicas)
        <5> DEFINE x == Len(l[c])
               y == Len(download.left[c])
               z == Len(chunkRegistry[c].replicas)
        <5>1. x \in Nat /\ y \in Nat /\ z \in Nat /\ x + 1 = y /\ readFaults + y >= z
          <6>1. Len(download.left[c]) \in Nat
            BY <2>2
          <6> QED BY <3>5, <3>6, <4>2, <4>3, <6>1, Zenon
        <5> HIDE DEF x, y, z
        <5>2. readFaults' + x >= z
          BY <2>4, <3>3, <5>1, OneMore, Zenon
        <5> QED BY <5>2, Zenon DEF x, z
      <4>5. \A i \in 1..Len(l[c]) : \E m \in NodeIDs : l[c][i] = AddrOf[m] /\ c \in copies[m]
        <5>1. \A i \in 1..Len(download.left[c]) :
                \E m \in NodeIDs : download.left[c][i] = AddrOf[m] /\ c \in copies[m]
          BY <2>2, Zenon DEF FetchFits
        <5>2. ASSUME NEW i \in 1..Len(l[c])
              PROVE  \E m \in NodeIDs : l[c][i] = AddrOf[m] /\ c \in copies[m]
          <6>1. i + 1 \in 1..Len(download.left[c]) /\ l[c][i] = download.left[c][i + 1]
            BY <3>5, <3>6, <5>2, Zenon
          <6> QED BY <5>1, <6>1, Zenon
        <5> QED BY <5>2, Zenon
      <4> QED BY <1>1, <1>2, <2>2, <3>7, <4>1, <4>4, <4>5, Zenon DEF FetchFits
    <3>9. \A x \in Uploaded : FetchFits(x)'
      BY <2>5, <3>6, <3>7, <3>8, Zenon
    <3>10. readFaults' \in Nat
      BY <2>4, Zenon
    <3> QED BY <3>7, <3>9, <3>10, Zenon DEF DownloadType, DownloadFits
  <2> QED BY <2>6, <2>7, Zenon
<1> QED BY <1>5, <1>6, Zenon

\* A step that touches neither the upload nor the metadata.
LEMMA UploadFrame ==
  ASSUME UInv, PublishedFits, UNCHANGED uploadVars
  PROVE  UInv' /\ PublishedFits' /\ CopiesGrow /\ Kept
<1>1. UNCHANGED <<fileIndex, chunkRegistry, nodeRegistry, phase, invokes, placement, manifest, late,
                  progress, handlers, copies, faults, lost>>
  BY Zenon DEF uploadVars, vars, client
<1>2. /\ UploadTypeOK' /\ MetadataFits' /\ PhaseFits' /\ Unpublished' /\ PublishedFits'
      /\ ManifestFits' /\ ProgressFits'
  BY <1>1, Zenon DEF UInv, UploadTypeOK, MetadataFits, PhaseFits, Unpublished, PublishedFits, ManifestFits,
              ProgressFits, Registered, Committed
<1>3. ChunksFit'
  BY <1>1, Zenon DEF UInv, ChunksFit, ChunkFits, Registered
<1>5. HandlersFit'
  BY <1>1, Zenon DEF UInv, HandlersFit, HandlerFits, Confirms, Committed, Registered
<1>4. CopiesGrow /\ Kept
  BY <1>1, Zenon DEF UInv, UploadTypeOK, CopiesGrow, Kept, Committed, Registered
<1> QED BY <1>2, <1>3, <1>4, <1>5, Zenon DEF UInv

\* Before the first upload and download the invariant holds.
LEMMA DownloadInitInv ==
  ASSUME DownloadInit
  PROVE  DInv
<1>1. UInv /\ ~Registered
  <2>1. UInv
    BY UploadInitInv, ZenonT(30) DEF DownloadInit
  <2>2. ~Registered
    BY Zenon DEF DownloadInit, UploadInit, Registered, EmptyRegistry
  <2> QED BY <2>1, <2>2, Zenon
<1>2. download = [pc |-> "idle"] /\ readFaults = 0
  BY Zenon DEF DownloadInit, Idle
<1>3. download \notin FetchState /\ download.pc = "idle"
  BY <1>2, Zenon DEF FetchState
<1> QED BY <1>1, <1>2, <1>3, Zenon DEF DInv, PublishedFits, DownloadType, DownloadFits

\* Every step of an upload, a deletion or a download keeps it.
LEMMA DownloadNextInv ==
  ASSUME OperatorsFit, DInv, [DownloadNext]_<<uploadVars, downloadVars>>
  PROVE  DInv'
<1> USE DEF DInv
<1>1. CASE UploadNext /\ UNCHANGED downloadVars
  BY <1>1, UploadNextInv, PublishedKept, DownloadKept, ZenonT(30)
<1>2. CASE ClientDelete /\ UNCHANGED downloadVars
  BY <1>2, DeleteFileFits, PublishedKept, DownloadKept, Zenon
<1>3. CASE UNCHANGED <<uploadVars, downloadVars>>
  BY <1>3, UploadFrame, DownloadKept, Zenon
<1>4. CASE DownloadList /\ UNCHANGED uploadVars
  <2>1. download' = [pc |-> "listed"] /\ UNCHANGED readFaults
    BY <1>4, Zenon DEF DownloadList
  <2>2. download' \notin FetchState /\ download'.pc = "listed"
    BY <2>1, Zenon DEF FetchState
  <2> QED BY <1>4, <2>1, <2>2, UploadFrame, Zenon DEF DownloadType, DownloadFits
<1>5. CASE DownloadGet /\ UNCHANGED uploadVars
  BY <1>5, UploadFrame, DownloadGetStep, Zenon
<1>6. CASE (DownloadEnd \/ \E c \in Uploaded : DownloadChunk(c)) /\ UNCHANGED uploadVars
  BY <1>6, UploadFrame, FetchSteps, Zenon
<1> QED BY <1>1, <1>2, <1>3, <1>4, <1>5, <1>6, Zenon DEF DownloadNext

\* A committed chunk is listed at a node that serves it.
LEMMA CommittedDownloadable ==
  ASSUME UInv, NEW c \in Uploaded, Committed(c)
  PROVE  Downloadable(c)
<1> USE DEF UInv
<1>1. c \in DOMAIN chunkRegistry /\ chunkRegistry[c] \in StoredChunk
  BY Zenon DEF Committed, MetadataFits
<1>2. chunkRegistry[c].replicas \in Seq(NodeIDs) /\ ChunkFits(c)
  BY <1>1, Zenon DEF StoredChunk, ChunksFit
<1>3. Len(chunkRegistry[c].replicas) > 0
  BY <1>2, UploadedChunks, NoChecksumAssumption, Zenon DEF ChunkFits, Committed
<1> DEFINE n == chunkRegistry[c].replicas[1]
<1>4. n \in NodeIDs /\ n \in Range(chunkRegistry[c].replicas) /\ c \in copies[n]
  BY <1>2, <1>3, FirstOf, ZenonT(30) DEF ChunkFits
<1>5. n \in DOMAIN nodeRegistry /\ nodeRegistry[n].status \notin {"dead", "draining"}
  BY <1>4, Zenon DEF MetadataFits
<1> HIDE DEF n
<1> QED BY <1>4, <1>5, ZenonT(30) DEF Downloadable

-----------------------------------------------------------------------------
(* The manifest file *)

WasCut == \E c \in Uploaded : progress[c].st = "cut"

\* Who may have torn the manifest: a failed write, a crash within MarkChunkDone,
\* or a crash within the first write, before the file was created.
TornFits ==
  /\ faults \in Nat
  /\ WasCut => phase = "crashed"
  /\ manifest.st = "torn" => faults > 0 \/ WasCut \/ (phase = "crashed" /\ ~Registered)

\* After a crash the client does nothing more, and its handlers have no client.
LEMMA CrashedRests ==
  ASSUME UInv, UploadNext, phase = "crashed"
  PROVE  UNCHANGED <<phase, manifest, progress>>
<1> USE DEF UInv
<1>1. \A c \in Uploaded : progress[c].st \notin {"retry", "waiting", "mark"}
  BY Zenon DEF ProgressFits
<1>2. ~ClientStep
  <2>1. ASSUME NEW c \in Uploaded, StartChunk(c) \/ PutChunk(c) \/ GiveUp(c) \/ MarkChunkDone(c) PROVE FALSE
    BY <1>1, <2>1, Zenon DEF StartChunk, PutChunk, GiveUp, MarkChunkDone
  <2> QED BY <2>1, Zenon DEF ClientStep, CreateManifest, UploadCreate, UploadRefused, WaitChunks,
            UploadCommit, DeleteManifest
<1>3. CASE ClientFailure
  <2>1. ASSUME NEW c \in Uploaded, MarkChunkDoneFails(c) PROVE FALSE
    BY <1>1, <2>1, Zenon DEF MarkChunkDoneFails
  <2> QED BY <1>3, <2>1, Zenon DEF ClientFailure, CreateManifestFails, UploadCreateLost, UploadCommitLost,
            CommitFileLate, DeleteManifestFails, ClientCrash, Ended
<1>4. ASSUME NEW h \in DOMAIN handlers PROVE handlers[h].orphan
  <2>1. h[1] \in Uploaded
    BY HandlerKey, Zenon
  <2> QED BY <1>1, <2>1, Zenon DEF HandlersFit, HandlerFits
<1>5. ASSUME NEW h \in DOMAIN handlers, HandlerStep(h) PROVE UNCHANGED <<phase, manifest, progress>>
  BY <1>4, <1>5, Zenon DEF HandlerStep, StoreChunk, Replicated, SendCommit, CommitChunkApplied,
            CommitChunkRejected, Reply, Fail, End, client
<1>6. ASSUME NEW h \in DOMAIN handlers, Failure(h) PROVE UNCHANGED <<phase, manifest, progress>>
  BY <1>4, <1>6, Zenon DEF Failure, StoreChunkFails, ReplicationFails, FanoutTimeout, CommitChunkLost,
            BreakStream, OrphanDropped, Fail, End, client
<1> QED BY <1>2, <1>3, <1>5, <1>6, Zenon DEF UploadNext

\* Only a crash cuts a goroutine off.
LEMMA OnlyCrashCuts ==
  ASSUME UploadTypeOK, UploadNext, ~WasCut, ~ClientCrash
  PROVE  ~WasCut'
<1>1. \A c \in Uploaded : progress[c] \in Goroutine /\ progress[c].st # "cut"
  BY Zenon DEF UploadTypeOK, WasCut
<1>2. ASSUME UNCHANGED progress PROVE ~WasCut'
  BY <1>2, Zenon DEF WasCut
<1>3. ASSUME NEW c \in Uploaded, NEW st \in {"retry", "waiting", "mark", "ok", "failed"},
             NEW k, progress' = [progress EXCEPT ![c] = [st |-> st, attempts |-> k]]
      PROVE  ~WasCut'
  BY <1>1, <1>3, Zenon DEF WasCut, UploadTypeOK
<1>4. ASSUME NEW c \in Uploaded, NEW st \in {"retry", "waiting", "mark", "ok", "failed"},
             progress' = [progress EXCEPT ![c].st = st]
      PROVE  ~WasCut'
  <2>1. [progress[c] EXCEPT !.st = st] = [st |-> st, attempts |-> progress[c].attempts]
    BY <1>1 DEF Goroutine
  <2>2. progress' = [progress EXCEPT ![c] = [st |-> st, attempts |-> progress[c].attempts]]
    BY <1>4, <2>1, Zenon
  <2> QED BY <1>3, <2>2, Zenon
<1>5. ASSUME NEW c \in Uploaded,
             StartChunk(c) \/ PutChunk(c) \/ GiveUp(c) \/ MarkChunkDone(c) \/ MarkChunkDoneFails(c)
      PROVE  ~WasCut'
  <2>1. CASE PutChunk(c)
    BY <1>3, <2>1, Zenon DEF PutChunk
  <2>2. CASE StartChunk(c) \/ GiveUp(c) \/ MarkChunkDone(c) \/ MarkChunkDoneFails(c)
    BY <1>4, <2>2, Zenon DEF StartChunk, GiveUp, MarkChunkDone, MarkChunkDoneFails
  <2> QED BY <1>5, <2>1, <2>2, Zenon
<1>6. CASE ClientStep \/ ClientFailure
  BY <1>2, <1>5, <1>6, Zenon DEF ClientStep, ClientFailure, CreateManifest, UploadCreate, UploadRefused,
       WaitChunks, UploadCommit, DeleteManifest, CreateManifestFails, UploadCreateLost, UploadCommitLost,
       CommitFileLate, DeleteManifestFails
<1>7. ASSUME NEW h \in DOMAIN handlers, HandlerStep(h) \/ Failure(h) PROVE ~WasCut'
  <2>1. h[1] \in Uploaded
    BY HandlerKey, Zenon
  <2>2. \/ UNCHANGED progress
        \/ \E st \in {"retry", "mark"} : progress' = [progress EXCEPT ![h[1]].st = st]
    <3>1. CASE HandlerStep(h)
      BY <3>1, Zenon DEF HandlerStep, StoreChunk, Replicated, SendCommit, CommitChunkApplied,
            CommitChunkRejected, Reply, Fail, End
    <3>2. CASE Failure(h)
      BY <3>2, Zenon DEF Failure, StoreChunkFails, ReplicationFails, FanoutTimeout, CommitChunkLost,
            BreakStream, OrphanDropped, Fail, End
    <3> QED BY <1>7, <3>1, <3>2, Zenon
  <2> QED BY <1>2, <1>4, <2>1, <2>2, Zenon
<1> QED BY <1>6, <1>7, Zenon DEF UploadNext

\* Failures are counted, and the manifest is torn by a failure or a crash.
LEMMA WhoTears ==
  ASSUME UploadNext
  PROVE  /\ UNCHANGED faults \/ faults' = faults + 1
         /\ ~ClientCrash /\ manifest'.st = "torn" => manifest.st = "torn" \/ faults' = faults + 1
<1> USE DEF Fault
<1>1. NoManifest.st = "none"
  BY Zenon DEF NoManifest
<1>2. CASE ClientStep
  <2>1. UNCHANGED faults
    BY <1>2, Zenon DEF ClientStep, CreateManifest, UploadCreate, UploadRefused, StartChunk, PutChunk,
       GiveUp, MarkChunkDone, WaitChunks, UploadCommit, DeleteManifest
  <2>2. CASE CreateManifest
    BY <2>1, <2>2, Zenon DEF CreateManifest
  <2>3. ASSUME NEW c \in Uploaded, MarkChunkDone(c) PROVE manifest'.st = "torn" => manifest.st = "torn"
    BY <2>3 DEF MarkChunkDone
  <2>4. CASE DeleteManifest
    BY <1>1, <2>1, <2>4, Zenon DEF DeleteManifest
  <2>5. CASE UNCHANGED manifest
    BY <2>1, <2>5, Zenon
  <2> QED BY <1>2, <2>1, <2>2, <2>3, <2>4, <2>5, Zenon DEF ClientStep, UploadCreate, UploadRefused,
       StartChunk, PutChunk, GiveUp, WaitChunks, UploadCommit, client
<1>3. CASE ClientFailure
  BY <1>3, Zenon DEF ClientFailure, CreateManifestFails, UploadCreateLost, ClientCrash,
       MarkChunkDoneFails, UploadCommitLost, CommitFileLate, DeleteManifestFails
<1>4. ASSUME NEW h \in DOMAIN handlers, HandlerStep(h) \/ Failure(h)
      PROVE  UNCHANGED manifest /\ (UNCHANGED faults \/ faults' = faults + 1)
  <2>1. CASE HandlerStep(h)
    BY <2>1, Zenon DEF HandlerStep, StoreChunk, Replicated, SendCommit, CommitChunkApplied,
            CommitChunkRejected, Reply, client
  <2>2. CASE Failure(h)
    BY <2>2, Zenon DEF Failure, StoreChunkFails, ReplicationFails, FanoutTimeout, CommitChunkLost,
            BreakStream, OrphanDropped, client
  <2> QED BY <1>4, <2>1, <2>2, Zenon
<1> QED BY <1>2, <1>3, <1>4, Zenon DEF UploadNext

\* Every step of the upload keeps TornFits.
LEMMA TornNext ==
  ASSUME UInv, TornFits, UploadNext
  PROVE  TornFits'
<1>1. faults' \in Nat /\ (faults > 0 => faults' > 0) /\ (faults' = faults + 1 => faults' > 0)
  BY WhoTears DEF TornFits
<1>2. CASE phase = "crashed"
  <2>1. UNCHANGED <<phase, manifest, progress>>
    BY <1>2, CrashedRests, Zenon
  <2>2. WasCut' <=> WasCut
    BY <2>1, Zenon DEF WasCut
  <2>3. ~Registered => ~Registered'
    BY <1>2, StepCommands, Zenon DEF Commands, CommitFile, CommitsChunk, CommitChunk, vars, Registered
  <2> QED BY <1>1, <1>2, <2>1, <2>2, <2>3, Zenon DEF TornFits
<1>3. CASE phase # "crashed" /\ ~ClientCrash
  <2>1. ~WasCut'
    BY <1>3, OnlyCrashCuts, Zenon DEF TornFits, UInv
  <2>2. manifest'.st = "torn" => faults' > 0
    BY <1>1, <1>3, WhoTears, Zenon DEF TornFits
  <2> QED BY <1>1, <2>1, <2>2, Zenon DEF TornFits
<1>4. CASE ClientCrash
  <2>1. /\ phase' = "crashed" /\ phase \notin Ended
        /\ progress' = [c \in Uploaded |->
                          [progress[c] EXCEPT !.st = IF @ = "mark" THEN "cut" ELSE "failed"]]
        /\ \/ UNCHANGED manifest
           \/ phase = "start" /\ UNCHANGED vars
           \/ \E c \in Uploaded : progress[c].st = "mark"
    BY <1>4, Zenon DEF ClientCrash
  <2>2. ASSUME NEW c \in Uploaded, progress[c].st = "mark" PROVE WasCut'
    <3>1. progress[c] \in Goroutine /\ progress'[c] = [progress[c] EXCEPT !.st = "cut"]
      BY <2>1, <2>2, Zenon DEF UInv, UploadTypeOK
    <3>2. progress'[c].st = "cut"
      BY <3>1, Zenon DEF Goroutine
    <3> QED BY <3>2, Zenon DEF WasCut
  <2>3. CASE UNCHANGED manifest
    <3>1. manifest.st = "torn" => faults > 0
      BY <2>1, Zenon DEF TornFits, Ended
    <3> QED BY <1>1, <2>1, <2>3, <3>1, Zenon DEF TornFits
  <2>4. CASE phase = "start" /\ UNCHANGED vars
    <3>1. ~Registered'
      BY <2>4, Zenon DEF UInv, PhaseFits, Registered, vars
    <3> QED BY <1>1, <2>1, <3>1, Zenon DEF TornFits
  <2> QED BY <1>1, <2>1, <2>2, <2>3, <2>4, Zenon DEF TornFits
<1> QED BY <1>2, <1>3, <1>4, Zenon

-----------------------------------------------------------------------------
(* What the invariant gives *)

\* The invariant gives ListedReplicasHold.
LEMMA StoredListed == DInv => ListedReplicasHold
<1> SUFFICES ASSUME DInv, NEW c \in DOMAIN chunkRegistry, NEW n \in Range(chunkRegistry[c].replicas)
             PROVE  n \in NodeIDs /\ c \in copies[n]
  BY Zenon DEF ListedReplicasHold
<1>1. chunkRegistry[c].replicas \in Seq(NodeIDs) /\ ChunkFits(c)
  BY Zenon DEF DInv, UInv, MetadataFits, StoredChunk, ChunksFit
<1>2. PICK i \in 1..Len(chunkRegistry[c].replicas) : n = chunkRegistry[c].replicas[i]
  BY <1>1, SMTT(30) DEF Range
<1> QED BY <1>1, <1>2, SMTT(30) DEF ChunkFits

\* It gives UploadedIsDownloadable.
LEMMA DoneDownloadable == DInv => UploadedIsDownloadable
<1> SUFFICES ASSUME DInv, phase = "done"
             PROVE  /\ fileIndex[FileID].status \in {"complete", "deleted"}
                    /\ \A c \in Uploaded : chunkRegistry[c].checksum = ChecksumOf[c] /\ Downloadable(c)
  BY Zenon DEF UploadedIsDownloadable
<1> USE DEF DInv, UInv
<1>1. Registered /\ fileIndex[FileID].status # "creating"
  BY Zenon DEF PhaseFits
<1>2. fileIndex[FileID].status \in FileStatus
  BY <1>1, Zenon DEF MetadataFits, IsRegistry, StoredFile, Registered
<1>3. \A c \in Uploaded : Committed(c)
  BY Zenon DEF PhaseFits, ProgressFits
<1> QED BY <1>1, <1>2, <1>3, CommittedDownloadable, Zenon DEF FileStatus, Committed

\* Together they give ManifestResumes.
LEMMA DoneResumable == DInv /\ TornFits => ManifestResumes
<1> SUFFICES ASSUME DInv, TornFits PROVE ManifestResumes
  BY Zenon
<1> USE DEF DInv, UInv
<1>1. \A c \in manifest.done : c \in Uploaded /\ Committed(c)
  BY Zenon DEF ManifestFits, UploadTypeOK, UploadManifest
<1>2. Registered /\ manifest.st = "torn" => faults > 0 \/ WasCut
  BY Zenon DEF TornFits
<1> QED BY <1>1, <1>2, CommittedDownloadable, Zenon
        DEF ManifestResumes, ManifestFits, WasCut, Committed, Registered

\* It gives DownloadedIsUploaded.
LEMMA DoneIsUploaded == DInv => DownloadedIsUploaded
<1> SUFFICES ASSUME DInv, download.pc = "done", NEW c \in Uploaded
             PROVE  download.out[c] = ChecksumOf[c]
  BY Zenon DEF DownloadedIsUploaded
<1>1. download \in FetchState
  BY DEF DInv, DownloadType
<1> QED BY <1>1, Zenon DEF DInv, DownloadFits, FetchFits

\* It gives DownloadFailsOver.
LEMMA FailedTriedAll == DInv => DownloadFailsOver
<1> SUFFICES ASSUME DInv, download.pc = "failed"
             PROVE  \E c \in Uploaded : readFaults >= Len(chunkRegistry[c].replicas)
  BY Zenon DEF DownloadFailsOver
<1>1. download \in FetchState /\ readFaults \in Nat
  BY DEF DInv, DownloadType
<1>2. PICK c \in Uploaded : download.out[c] = NoData /\ Len(download.left[c]) = 0
  BY Zenon DEF DInv, DownloadFits
<1>3. FetchFits(c)
  BY <1>1, Zenon DEF DInv, DownloadFits
<1>4. readFaults + Len(download.left[c]) >= Len(chunkRegistry[c].replicas)
  BY <1>2, <1>3, Zenon DEF FetchFits
<1>5. readFaults >= Len(chunkRegistry[c].replicas)
  BY <1>1, <1>2, <1>4, NoneLeft, Zenon
<1> QED BY <1>5, Zenon

\* A step that brings a deleted file back.
LEMMA UndeletedLost ==
  DInv /\ [DownloadNext]_<<uploadVars, downloadVars>>
        => [Deleted /\ ~Deleted' => lost > 0 \/ phase = "crashed"]_<<uploadVars, downloadVars>>
<1> SUFFICES ASSUME DInv, [DownloadNext]_<<uploadVars, downloadVars>>, Deleted, ~Deleted'
             PROVE  lost > 0 \/ phase = "crashed"
  BY Zenon
<1> USE DEF DInv, UInv
<1>1. Registered /\ fileIndex[FileID].status = "deleted" /\ fileIndex' # fileIndex
  BY Zenon DEF Deleted, Registered
<1>2. UploadNext
  <2>1. ~UNCHANGED uploadVars
    BY <1>1, Zenon DEF uploadVars, vars
  <2>2. ~ClientDelete
    BY DeleteFileFits, Zenon DEF Deleted, Registered
  <2> QED BY <2>1, <2>2, Zenon DEF DownloadNext
<1>3. (phase = "commit" \/ late) /\ CommitFile(FileID, Size, NoChecksum)
  <2>1. Commands
    BY <1>2, StepCommands, Zenon
  <2>2. ~UNCHANGED vars /\ ~CreateFile(FileID, FileChunks, Size)
    BY <1>1, Zenon DEF vars, CreateFile, Registered
  <2>3. \A h \in DOMAIN handlers : ~CommitsChunk(h)
    <3>1. ASSUME NEW h \in DOMAIN handlers, CommitsChunk(h) PROVE UNCHANGED fileIndex
      BY <3>1, Zenon DEF CommitsChunk, CommitChunk
    <3> QED BY <1>1, <3>1, Zenon
  <2> QED BY <2>1, <2>2, <2>3, Zenon DEF Commands
<1> QED BY <1>1, <1>3 DEF Unpublished

-----------------------------------------------------------------------------
(* Placement: what MostFreeSpaceStrategy promises *)

INSTANCE ReplicaLists_proofs
INSTANCE FiniteSetTheorems

\* The candidates can be counted.
LEMMA CandidatesCount ==
  ASSUME NEW nodes, IsFiniteSet(nodes), NEW report, NEW minSpace, NEW exclude
  PROVE  Cardinality(Candidates(nodes, report, minSpace, exclude)) \in Nat
<1>1. Candidates(nodes, report, minSpace, exclude) \subseteq nodes
  BY Zenon DEF Candidates, filterByMinSpace, filterNodes
<1>2. IsFiniteSet(Candidates(nodes, report, minSpace, exclude))
  BY <1>1, FS_Subset, Zenon
<1> QED BY <1>2, FS_CardinalityType, Zenon

\* A chunk's nodes are as many as were asked for, pairwise distinct, none of
\* them excluded, each with room for the chunk (SelectNodes filters, sorts and
\* cuts the list).  This is also what Place of module Repair assumes.
THEOREM SelectNodesFits ==
  ASSUME NEW nodes, IsFiniteSet(nodes), NEW report, NEW minSpace, NEW exclude,
         NEW count \in Nat,
         NEW picked \in SelectNodes(nodes, report, minSpace, count, exclude)
  PROVE  /\ picked \in [1..count -> nodes \ exclude]
         /\ \A i, j \in 1..count : picked[i] = picked[j] => i = j
         /\ \A i \in 1..count : report[picked[i]].freeSpace >= minSpace
<1>1. Cardinality(Candidates(nodes, report, minSpace, exclude)) \in Nat
  BY CandidatesCount, Zenon
<1>2. Fitting(nodes, report, minSpace, count, exclude, picked)
  BY <1>1, SelectedPrefix, Zenon
<1> QED BY <1>2, Zenon DEF Fitting

\* No node that was left out is better: one that is neither excluded nor too
\* full, and not chosen, has no more free space than any chosen node, and no
\* fewer chunks than one with equal free space.
THEOREM SelectNodesBest ==
  ASSUME NEW nodes, IsFiniteSet(nodes), NEW report, NEW minSpace, NEW exclude,
         NEW count \in Nat,
         NEW picked \in SelectNodes(nodes, report, minSpace, count, exclude),
         NEW n \in nodes \ exclude, report[n].freeSpace >= minSpace,
         \A k \in 1..count : picked[k] # n,
         NEW i \in 1..count
  PROVE  ~MoreFree(report, n, picked[i])
<1>1. Cardinality(Candidates(nodes, report, minSpace, exclude)) \in Nat
  BY CandidatesCount, Zenon
<1>2. NoneBetter(nodes, report, minSpace, count, exclude, picked)
  BY <1>1, SelectedPrefix, Zenon
<1> QED BY <1>2, Zenon DEF NoneBetter

-----------------------------------------------------------------------------
(* The operators *)

\* The operators are as the invariants need them.
LEMMA OperatorsFitHold == OperatorsFit
<1>1. \A r \in Seq(NodeIDs) : Dedup(r) \in Seq(NodeIDs) /\ IsDedup(Dedup(r), r)
  BY DedupIs, Zenon
<1>2. \A c \in Uploaded : FirstIndex(FileChunks, c) - 1 \in Nat
  BY FirstIndexIs, UploadAssumption, SMTT(30) DEF Uploaded
<1>3. ASSUME NEW live \in SUBSET NodeIDs, NEW report,
             NEW nodes \in SelectNodes(live, report, ChunkSize, ReplicationFactor, {})
      PROVE  nodes \in [1..ReplicationFactor -> live]
  <2>1. IsFiniteSet(live)
    BY FS_Subset, UploadAssumption, Zenon
  <2>2. nodes \in [1..ReplicationFactor -> live \ {}]
    BY <2>1, SelectNodesFits, UploadAssumption, Zenon
  <2>3. live \ {} = live
    BY ZenonT(30)
  <2> QED BY <2>2, <2>3, Zenon
<1>4. ASSUME NEW n \in Nat PROVE Cardinality(1..n) = n
  <2>1. Cardinality(1..n) = IF 1 > n THEN 0 ELSE n - 1 + 1
    BY FS_Interval, SMTT(30)
  <2> QED BY <2>1, SMTT(30)
<1> QED BY <1>1, <1>2, <1>3, <1>4, Zenon DEF OperatorsFit

\* So it holds in every state of uploads, downloads and deletions.
LEMMA DownloadInv == DownloadSpec => []DInv
<1>1. DownloadInit => DInv
  BY DownloadInitInv, Zenon
<1>2. DInv /\ [DownloadNext]_<<uploadVars, downloadVars>> => DInv'
  BY OperatorsFitHold, DownloadNextInv, Zenon
<1> QED BY <1>1, <1>2, PTL DEF DownloadSpec

\* A torn manifest has its cause, in every state.
LEMMA TornHolds == DownloadSpec => []TornFits
<1>1. DownloadInit => TornFits
  <2> SUFFICES ASSUME DownloadInit PROVE TornFits
    BY Zenon
  <2>1. faults = 0 /\ manifest.st = "none" /\ \A c \in Uploaded : progress[c].st = "todo"
    BY Zenon DEF DownloadInit, UploadInit, NoManifest
  <2> QED BY <2>1, Zenon DEF TornFits, WasCut
<1>2. DInv /\ TornFits /\ [DownloadNext]_<<uploadVars, downloadVars>> => TornFits'
  <2> SUFFICES ASSUME DInv, TornFits, [DownloadNext]_<<uploadVars, downloadVars>> PROVE TornFits'
    BY Zenon
  <2>1. CASE UploadNext
    BY <2>1, TornNext, Zenon DEF DInv
  <2>2. CASE ClientDelete \/ UNCHANGED uploadVars
    <3>1. UNCHANGED <<phase, manifest, progress, faults>>
      BY <2>2, Zenon DEF ClientDelete, uploadVars, client
    <3>2. ~Registered => ~Registered'
      BY <2>2, Zenon DEF ClientDelete, DeleteFile, uploadVars, vars, Registered
    <3> QED BY <3>1, <3>2, Zenon DEF TornFits, WasCut
  <2> QED BY <2>1, <2>2, Zenon DEF DownloadNext
<1> QED BY <1>1, <1>2, DownloadInv, PTL DEF DownloadSpec

-----------------------------------------------------------------------------
(* The theorems *)

\* The variables of the upload keep their types: no call exceeds its attempts,
\* and nothing but chunks of the file is stored or marked.
THEOREM UploadTypeCorrect == DownloadSpec => []UploadTypeOK
<1>1. DInv => UploadTypeOK
  BY Zenon DEF DInv, UInv
<1> QED BY <1>1, DownloadInv, PTL

\* "Metadata only records confirmed durable state": every replica that
\* CommitChunk has put into the registry has stored the chunk, whatever was
\* lost, repeated, late or timed out.
THEOREM UploadListsStored == DownloadSpec => []ListedReplicasHold
BY StoredListed, DownloadInv, PTL

\* An Upload call that returns success has published the file with every chunk
\* committed under its checksum and listed at a node that serves it.
THEOREM UploadPublishes == DownloadSpec => []UploadedIsDownloadable
BY DoneDownloadable, DownloadInv, PTL

\* The manifest of an upload that failed or whose client crashed can be resumed
\* from: it is there while the file waits for its chunks, a chunk it marks as
\* done is committed and served, and it can be read unless a disk has failed or
\* the crash came within MarkChunkDone.
THEOREM ManifestIsResumable == DownloadSpec => []ManifestResumes
BY DoneResumable, DownloadInv, TornHolds, PTL

\* A Download call that returns success has written the uploaded content of
\* every chunk: damaged data is never accepted, as every chunk of a served file
\* has a checksum to compare with.
THEOREM DownloadReturnsUpload == DownloadSpec => []DownloadedIsUploaded
BY DoneIsUploaded, DownloadInv, PTL

\* downloadChunkWithFailover gives up on a chunk only after as many failed reads
\* as the chunk has replicas.
THEOREM DownloadTriesAll == DownloadSpec => []DownloadFailsOver
BY FailedTriedAll, DownloadInv, PTL

\* A deleted file comes back only by a CommitFile that was repeated after a
\* lost message or that a crashed client has left behind.
THEOREM DeletionIsFinal == DownloadSpec => DeletionStands
BY UndeletedLost, DownloadInv, PTL DEF DownloadSpec, DeletionStands

=============================================================================
