------------------------------- MODULE Upload -------------------------------
(***************************************************************************)
(* The upload of a file: the client (src/client/internal/service) with its *)
(* manifest on disk (src/client/internal/manifest), the PutChunk handlers  *)
(* of the storage nodes and their replication fan-out (src/storage), and   *)
(* the metadata state machine of module MetadataFSM, whose CreateFile,     *)
(* CommitChunk and CommitFile commands are the joint steps.                *)
(*                                                                         *)
(* An RPC is a step of the caller, one of the handler and one for the      *)
(* reply, and a lost reply leaves the handler's effect in place.  A copy   *)
(* of a chunk on a node is whole (module ChunkStore looks inside).         *)
(***************************************************************************)
EXTENDS MetadataFSM, Placement

CONSTANTS
  FileID, FileChunks,   \* the file, and its chunks in order
  AddrOf, ChecksumOf,   \* the address of a node, the checksum of a chunk
  ReplicationFactor,
  ChunkSize,
  InitialReports,       \* the capacity reports of the nodes that may come in
  MaxParallelUploads,
  MaxAttempts,          \* attempts of the client's retry policy, per chunk
  MaxInvokes,           \* attempts of LeaderAwareClient, per call
  MaxFaults,            \* bound on the disk and replication failures
  MaxLost               \* bound on the lost messages

ASSUME UploadAssumption ==
  /\ ReplicationFactor \in Nat \ {0} /\ MaxParallelUploads \in Nat \ {0}
  /\ MaxAttempts \in Nat \ {0} /\ MaxInvokes \in Nat \ {0}
  /\ ChunkSize \in Nat /\ \A r \in Reports : IsReport(r)
  /\ InitialReports \subseteq [NodeIDs -> Reports]
  /\ AddrOf \in [NodeIDs -> Addrs] /\ ChecksumOf \in [ChunkIDs -> Checksums]
  /\ IsFiniteSet(NodeIDs) /\ FileChunks \in Seq(ChunkIDs)

\* Every node has an address of its own, and no address is a node ID.
ASSUME AddressAssumption == IsInjective(AddrOf) /\ NodeIDs \cap Addrs = {}

VARIABLES
  phase,      \* where the client's Upload call is
  invokes,    \* the attempts of its current metadata call
  placement,  \* chunk -> nodes, the primary first
  manifest,   \* the manifest file of the upload, on the client's disk
  late,       \* an abandoned CommitFile call may still take effect
  progress,   \* chunk -> the state of its uploadChunkWithRetry goroutine
  handlers,   \* the PutChunk handlers that run: <<chunk, attempt>> -> handler
  copies,     \* node -> the chunks in its store
  faults, lost

client == <<phase, invokes, placement, manifest, late>>
uploadVars == <<vars, client, progress, handlers, copies, faults, lost>>

Size == CHOOSE size \in Sizes : TRUE
Uploaded == Range(FileChunks)

\* "cut" is a goroutine that a crash has stopped within MarkChunkDone.
Goroutine == [st : {"todo", "retry", "waiting", "mark", "ok", "failed", "cut"}, attempts : 0..MaxAttempts]

\* The file holds the chunks marked done, or what a failed write has left.
UploadManifest == [st : {"none", "whole", "torn"}, done : SUBSET Uploaded]

NoManifest == [st |-> "none", done |-> {}]
TornManifest == [st |-> "torn", done |-> {}]

Handler ==
  [pc : {"recv", "fanout", "sent", "reply"}, confirmed : Seq(Hosts),
   pending : SUBSET NodeIDs, invokes : 0..MaxInvokes, orphan : BOOLEAN]

UploadTypeOK ==
  /\ phase \in {"start", "create", "upload", "commit", "cleanup", "done", "failed", "crashed"}
  /\ invokes \in 0..MaxInvokes
  /\ IsRegistry(placement, Uploaded, Seq(NodeIDs))
  /\ progress \in [Uploaded -> Goroutine]
  /\ IsRegistry(handlers, Uploaded \X (1..MaxAttempts), Handler)
  /\ copies \in [NodeIDs -> SUBSET Uploaded]
  /\ manifest \in UploadManifest /\ late \in BOOLEAN

UploadInit ==
  /\ fileIndex = EmptyRegistry
  /\ chunkRegistry = EmptyRegistry
  /\ \E report \in InitialReports :
       nodeRegistry = [n \in NodeIDs |->
         [address |-> AddrOf[n], status |-> "alive", report |-> report[n]]]
  /\ repairJobRegistry = EmptyRegistry
  /\ mdNodeRegistry = EmptyRegistry
  /\ phase = "start" /\ invokes = 0
  /\ manifest = NoManifest /\ late = FALSE
  /\ placement = EmptyRegistry
  /\ progress = [c \in Uploaded |-> [st |-> "todo", attempts |-> 0]]
  /\ handlers = EmptyRegistry
  /\ copies = [n \in NodeIDs |-> {}]
  /\ faults = 0 /\ lost = 0

Ended == {"done", "failed", "crashed"}

Lose == lost < MaxLost /\ lost' = lost + 1
Fault == faults < MaxFaults /\ faults' = faults + 1

-----------------------------------------------------------------------------
(* The client: Upload *)

CreateManifest ==
  /\ phase = "start"
  /\ manifest' = [st |-> "whole", done |-> {}]
  /\ phase' = "create"
  /\ UNCHANGED <<vars, invokes, placement, late, progress, handlers, copies, faults, lost>>

\* The write fails, and Upload returns the error.
CreateManifestFails ==
  /\ Fault
  /\ phase = "start"
  /\ manifest' \in {NoManifest, TornManifest}
  /\ phase' = "failed"
  /\ UNCHANGED <<vars, invokes, placement, late, progress, handlers, copies, lost>>

\* One list of live nodes is sorted for every chunk of the file, with the same
\* result, so all chunks are placed on the same nodes.
Placements ==
  LET live == {n \in DOMAIN nodeRegistry : nodeRegistry[n].status = "alive"}
      report == [n \in live |-> nodeRegistry[n].report]
  IN  {[c \in Uploaded |-> nodes] :
         nodes \in SelectNodes(live, report, ChunkSize, ReplicationFactor, {})}

\* CreateFile returns the placement of every chunk, the primary first.
UploadCreate ==
  /\ phase = "create"
  /\ CreateFile(FileID, FileChunks, Size)
  /\ placement' \in Placements
  /\ phase' = "upload"
  /\ UNCHANGED <<invokes, manifest, late, progress, handlers, copies, faults, lost>>

\* Too few nodes have room: CreateFile fails before anything is proposed.
UploadRefused ==
  /\ phase = "create"
  /\ Placements = {}
  /\ phase' = "failed"
  /\ UNCHANGED <<vars, invokes, placement, manifest, late, progress, handlers, copies, faults, lost>>

\* The reply is lost: the retry finds that the file exists, which is an error.
UploadCreateLost ==
  /\ Lose
  /\ phase = "create" /\ Placements # {}
  /\ CreateFile(FileID, FileChunks, Size)
  /\ phase' = "failed"
  /\ UNCHANGED <<invokes, placement, manifest, late, progress, handlers, copies, faults>>

Running == {c \in Uploaded : progress[c].st \in {"retry", "waiting", "mark"}}

\* The next chunk gets a slot of the semaphore.
StartChunk(c) ==
  /\ phase = "upload"
  /\ progress[c].st = "todo"
  /\ \A i \in 1..(FirstIndex(FileChunks, c) - 1) : progress[FileChunks[i]].st # "todo"
  /\ Cardinality(Running) < MaxParallelUploads
  /\ progress' = [progress EXCEPT ![c].st = "retry"]
  /\ UNCHANGED <<vars, client, handlers, copies, faults, lost>>

\* Broken variant: the attempts are not counted.
PutChunkUnbounded(c) ==
  LET k == progress[c].attempts + 1
  IN  /\ progress[c].st = "retry"
      /\ progress' = [progress EXCEPT ![c] = [st |-> "waiting", attempts |-> k]]
      /\ handlers' = Put(handlers, <<c, k>>,
           [pc |-> "recv", confirmed |-> <<>>, pending |-> {}, invokes |-> 0, orphan |-> FALSE])
      /\ UNCHANGED <<vars, client, copies, faults, lost>>

\* One attempt: a PutChunk stream to the primary.
PutChunk(c) ==
  LET k == progress[c].attempts + 1
  IN  /\ progress[c].st = "retry" /\ k <= MaxAttempts
      /\ progress' = [progress EXCEPT ![c] = [st |-> "waiting", attempts |-> k]]
      /\ handlers' = Put(handlers, <<c, k>>,
           [pc |-> "recv", confirmed |-> <<>>, pending |-> {}, invokes |-> 0, orphan |-> FALSE])
      /\ UNCHANGED <<vars, client, copies, faults, lost>>

\* Broken variant: one attempt too late.
GiveUpLate(c) ==
  /\ progress[c].st = "retry" /\ progress[c].attempts > MaxAttempts
  /\ progress' = [progress EXCEPT ![c].st = "failed"]
  /\ UNCHANGED <<vars, client, handlers, copies, faults, lost>>

\* Broken variant: one attempt too soon.
GiveUpEarly(c) ==
  /\ progress[c].st = "retry" /\ progress[c].attempts > 0
  /\ progress' = [progress EXCEPT ![c].st = "failed"]
  /\ UNCHANGED <<vars, client, handlers, copies, faults, lost>>

\* The retry policy is exhausted.
GiveUp(c) ==
  /\ progress[c].st = "retry" /\ progress[c].attempts = MaxAttempts
  /\ progress' = [progress EXCEPT ![c].st = "failed"]
  /\ UNCHANGED <<vars, client, handlers, copies, faults, lost>>

\* The goroutine of a stored chunk records it.  Manager's mutex makes reading
\* and writing the file one step; a file that cannot be parsed is left alone.
MarkChunkDone(c) ==
  /\ progress[c].st = "mark"
  /\ progress' = [progress EXCEPT ![c].st = "ok"]
  /\ manifest' = IF manifest.st = "whole" THEN [manifest EXCEPT !.done = @ \cup {c}] ELSE manifest
  /\ UNCHANGED <<vars, phase, invokes, placement, late, handlers, copies, faults, lost>>

\* An error that is only logged; os.WriteFile may have truncated the file.
MarkChunkDoneFails(c) ==
  /\ Fault
  /\ progress[c].st = "mark"
  /\ progress' = [progress EXCEPT ![c].st = "ok"]
  /\ manifest' \in {manifest, TornManifest}
  /\ UNCHANGED <<vars, phase, invokes, placement, late, handlers, copies, lost>>

\* Broken variant: the first chunks decide.
WaitChunksSome ==
  /\ phase = "upload"
  /\ \E c \in Uploaded : progress[c].st \in {"ok", "failed"}
  /\ phase' = IF \E c \in Uploaded : progress[c].st = "failed" THEN "failed" ELSE "done"
  /\ UNCHANGED <<vars, invokes, placement, manifest, late, progress, handlers, copies, faults, lost>>

\* Broken variant: the manifest is deleted before CommitFile.
WaitChunksTidy ==
  /\ phase = "upload"
  /\ \A c \in Uploaded : progress[c].st \in {"ok", "failed"}
  /\ phase' = IF \E c \in Uploaded : progress[c].st = "failed" THEN "failed" ELSE "commit"
  /\ manifest' = NoManifest
  /\ UNCHANGED <<vars, invokes, placement, late, progress, handlers, copies, faults, lost>>

\* wg.Wait: all goroutines have ended, and a failed chunk fails the upload.
WaitChunks ==
  /\ phase = "upload"
  /\ \A c \in Uploaded : progress[c].st \in {"ok", "failed"}
  /\ phase' = IF \E c \in Uploaded : progress[c].st = "failed" THEN "failed" ELSE "commit"
  /\ UNCHANGED <<vars, invokes, placement, manifest, late, progress, handlers, copies, faults, lost>>

\* Broken variant: CommitFile is repeated after a success.
UploadCommitTwice ==
  /\ phase \in {"commit", "cleanup"}
  /\ CommitFile(FileID, Size, NoChecksum)
  /\ phase' = "cleanup"
  /\ UNCHANGED <<invokes, placement, manifest, late, progress, handlers, copies, faults, lost>>

UploadCommit ==
  /\ phase = "commit"
  /\ CommitFile(FileID, Size, NoChecksum)
  /\ phase' = "cleanup"
  /\ UNCHANGED <<invokes, placement, manifest, late, progress, handlers, copies, faults, lost>>

\* The call or its reply is lost.  CommitFile may be repeated, and the handler
\* of the abandoned call may propose it later.
UploadCommitLost ==
  /\ Lose
  /\ phase = "commit"
  /\ \/ CommitFile(FileID, Size, NoChecksum) /\ UNCHANGED late
     \/ late' = TRUE /\ UNCHANGED vars
  /\ invokes' = invokes + 1
  /\ phase' = IF invokes' < MaxInvokes THEN "commit" ELSE "failed"
  /\ UNCHANGED <<placement, manifest, progress, handlers, copies, faults>>

CommitFileLate ==
  /\ late
  /\ CommitFile(FileID, Size, NoChecksum)
  /\ late' = FALSE
  /\ UNCHANGED <<phase, invokes, placement, manifest, progress, handlers, copies, faults, lost>>

DeleteManifest ==
  /\ phase = "cleanup"
  /\ manifest' = NoManifest
  /\ phase' = "done"
  /\ UNCHANGED <<vars, invokes, placement, late, progress, handlers, copies, faults, lost>>

\* An error that is only logged.
DeleteManifestFails ==
  /\ Fault
  /\ phase = "cleanup"
  /\ phase' = "done"
  /\ UNCHANGED <<vars, invokes, placement, manifest, late, progress, handlers, copies, lost>>

-----------------------------------------------------------------------------
(* The storage nodes: PutChunk on the primary *)

\* The handler h ends with the result st for the client that waits for it.
End(h, st) ==
  /\ handlers' = Delete(handlers, h)
  /\ progress' = IF handlers[h].orphan THEN progress ELSE [progress EXCEPT ![h[1]].st = st]

Fail(h) == End(h, "retry")

\* A node stores a copy of a chunk.
Stored(nodes, c) == [n \in NodeIDs |-> IF n \in nodes THEN copies[n] \cup {c} ELSE copies[n]]

\* Finalize on the primary, which then confirms itself by its node ID.
StoreChunk(h) ==
  LET nodes == placement[h[1]]
  IN  /\ handlers[h].pc = "recv"
      /\ copies' = Stored({Head(nodes)}, h[1])
      /\ handlers' = [handlers EXCEPT ![h] =
           [@ EXCEPT !.pc = "fanout", !.confirmed = <<Head(nodes)>>,
                     !.pending = Range(Tail(nodes))]]
      /\ UNCHANGED <<vars, client, progress, faults, lost>>

StoreChunkFails(h) ==
  /\ Fault
  /\ handlers[h].pc = "recv"
  /\ Fail(h)
  /\ UNCHANGED <<vars, client, copies, lost>>

\* A replica has stored the chunk and is confirmed by its address.
Replicated(h, n) ==
  /\ handlers[h].pc = "fanout" /\ n \in handlers[h].pending
  /\ copies' = Stored({n}, h[1])
  /\ handlers' = [handlers EXCEPT ![h].confirmed = Append(@, AddrOf[n]), ![h].pending = @ \ {n}]
  /\ UNCHANGED <<vars, client, progress, faults, lost>>

\* Broken variant: a failed replica is confirmed as well.
ReplicationFailsConfirmed(h, n) ==
  /\ Fault
  /\ handlers[h].pc = "fanout" /\ n \in handlers[h].pending
  /\ \E nodes \in SUBSET {n} : copies' = Stored(nodes, h[1])
  /\ handlers' = [handlers EXCEPT ![h].confirmed = Append(@, AddrOf[n]), ![h].pending = @ \ {n}]
  /\ UNCHANGED <<vars, client, progress, lost>>

\* A replica fails for good, before or after it has stored the chunk.
ReplicationFails(h, n) ==
  /\ Fault
  /\ handlers[h].pc = "fanout" /\ n \in handlers[h].pending
  /\ \E nodes \in SUBSET {n} : copies' = Stored(nodes, h[1])
  /\ handlers' = [handlers EXCEPT ![h].pending = @ \ {n}]
  /\ UNCHANGED <<vars, client, progress, lost>>

\* fanoutTimeout: the replicas still missing are not confirmed.
FanoutTimeout(h) ==
  /\ Fault
  /\ handlers[h].pc = "fanout" /\ handlers[h].pending # {}
  /\ \E nodes \in SUBSET handlers[h].pending : copies' = Stored(nodes, h[1])
  /\ handlers' = [handlers EXCEPT ![h].pending = {}]
  /\ UNCHANGED <<vars, client, progress, lost>>

\* The fan-out is over.  An error of it, a missed quorum included, is only
\* logged: CommitChunk is called with the nodes that confirmed.
SendCommit(h) ==
  /\ handlers[h].pc = "fanout" /\ handlers[h].pending = {}
  /\ handlers' = [handlers EXCEPT ![h] = [@ EXCEPT !.pc = "sent", !.invokes = 1]]
  /\ UNCHANGED <<vars, client, progress, copies, faults, lost>>

CommitChunkApplied(h) ==
  /\ handlers[h].pc = "sent"
  /\ CommitChunk(h[1], handlers[h].confirmed, ChecksumOf[h[1]])
  /\ handlers' = IF handlers[h].orphan THEN Delete(handlers, h)
                                       ELSE [handlers EXCEPT ![h].pc = "reply"]
  /\ UNCHANGED <<client, progress, copies, faults, lost>>

\* The chunk is committed already: an error that is not retried.
CommitChunkRejected(h) ==
  /\ handlers[h].pc = "sent"
  /\ chunkRegistry[h[1]].checksum # NoChecksum
  /\ Fail(h)
  /\ UNCHANGED <<vars, client, copies, faults, lost>>

\* The call or its reply is lost, and LeaderAwareClient tries again.
CommitChunkLost(h) ==
  /\ Lose
  /\ handlers[h].pc = "sent" /\ ~handlers[h].orphan
  /\ CommitChunk(h[1], handlers[h].confirmed, ChecksumOf[h[1]]) \/ UNCHANGED vars
  /\ IF handlers[h].invokes < MaxInvokes
       THEN /\ handlers' = [handlers EXCEPT ![h].invokes = @ + 1]
            /\ UNCHANGED progress
       ELSE Fail(h)
  /\ UNCHANGED <<client, copies, faults>>

Reply(h) ==
  /\ handlers[h].pc = "reply"
  /\ End(h, "mark")
  /\ UNCHANGED <<vars, client, copies, faults, lost>>

\* The stream breaks: the client sees an error, and the handler's context is
\* cancelled.  Of what is on its way, a copy may still be stored and a
\* CommitChunk may still take effect.
BreakStream(h) ==
  /\ Lose
  /\ ~handlers[h].orphan
  /\ progress' = [progress EXCEPT ![h[1]].st = "retry"]
  /\ handlers' = IF handlers[h].pc = "sent" THEN [handlers EXCEPT ![h].orphan = TRUE]
                                            ELSE Delete(handlers, h)
  /\ \E nodes \in SUBSET handlers[h].pending : copies' = Stored(nodes, h[1])
  /\ UNCHANGED <<vars, client, faults>>

OrphanDropped(h) ==
  /\ handlers[h].orphan
  /\ handlers' = Delete(handlers, h)
  /\ UNCHANGED <<vars, client, progress, copies, faults, lost>>

\* The client process ends in the middle of Upload: its streams break as in
\* BreakStream, a CreateFile or CommitFile call that is on its way may still
\* take effect, and a manifest that is being written may be torn.
ClientCrash ==
  /\ phase \notin Ended
  /\ phase' = "crashed"
  /\ manifest' \in
       IF phase = "start" \/ \E c \in Uploaded : progress[c].st = "mark"
         THEN {manifest, TornManifest} ELSE {manifest}
  /\ \/ UNCHANGED vars
     \/ phase = "create" /\ Placements # {} /\ CreateFile(FileID, FileChunks, Size)
  /\ late' = (late \/ phase = "commit")
  /\ progress' = [c \in Uploaded |->
                    [progress[c] EXCEPT !.st = IF @ = "mark" THEN "cut" ELSE "failed"]]
  /\ handlers' = [h \in {h \in DOMAIN handlers : handlers[h].pc = "sent"} |->
                    [handlers[h] EXCEPT !.orphan = TRUE]]
  /\ \E arrived \in SUBSET {a \in NodeIDs \X DOMAIN handlers : a[1] \in handlers[a[2]].pending} :
       copies' = [n \in NodeIDs |-> copies[n] \cup {a[2][1] : a \in {a \in arrived : a[1] = n}}]
  /\ UNCHANGED <<invokes, placement, faults, lost>>

-----------------------------------------------------------------------------
ClientStep ==
  \/ CreateManifest
  \/ UploadCreate \/ UploadRefused
  \/ \E c \in Uploaded : StartChunk(c) \/ PutChunk(c) \/ GiveUp(c) \/ MarkChunkDone(c)
  \/ WaitChunks
  \/ UploadCommit
  \/ DeleteManifest

ClientFailure ==
  \/ CreateManifestFails
  \/ UploadCreateLost
  \/ \E c \in Uploaded : MarkChunkDoneFails(c)
  \/ UploadCommitLost
  \/ CommitFileLate
  \/ DeleteManifestFails
  \/ ClientCrash

HandlerStep(h) ==
  \/ StoreChunk(h)
  \/ \E n \in NodeIDs : Replicated(h, n)
  \/ SendCommit(h)
  \/ CommitChunkApplied(h)
  \/ CommitChunkRejected(h)
  \/ Reply(h)

Failure(h) ==
  \/ StoreChunkFails(h)
  \/ \E n \in NodeIDs : ReplicationFails(h, n)
  \/ FanoutTimeout(h)
  \/ CommitChunkLost(h)
  \/ BreakStream(h)
  \/ OrphanDropped(h)

UploadNext ==
  \/ ClientStep
  \/ ClientFailure
  \/ \E h \in DOMAIN handlers : HandlerStep(h) \/ Failure(h)

UploadSpec == UploadInit /\ [][UploadNext]_uploadVars

\* The goroutines of the client and of the nodes keep running, and a call that
\* is not lost is answered.
UploadFairness ==
  /\ WF_uploadVars(ClientStep)
  /\ WF_uploadVars(\E h \in DOMAIN handlers : HandlerStep(h))

FairUploadSpec == UploadSpec /\ UploadFairness

-----------------------------------------------------------------------------
(* Properties *)

\* downloadChunkWithFailover finds the chunk: GetFile returns the addresses of
\* the listed nodes that are neither dead nor draining, and one of them has it.
Downloadable(c) ==
  \E n \in Range(chunkRegistry[c].replicas) :
    /\ n \in DOMAIN nodeRegistry
    /\ nodeRegistry[n].status \notin {"dead", "draining"}
    /\ c \in copies[n]

\* "Metadata only records confirmed durable state": a node listed as a replica
\* has stored the chunk, however attempts, timeouts and late commits interleave.
ListedReplicasHold ==
  \A c \in DOMAIN chunkRegistry : \A n \in Range(chunkRegistry[c].replicas) :
    n \in NodeIDs /\ c \in copies[n]

\* An upload that reports success has published the file (another client may
\* have deleted it since), and every chunk of it can be downloaded with the
\* checksum of what was uploaded.
UploadedIsDownloadable ==
  phase = "done" =>
    /\ fileIndex[FileID].status \in {"complete", "deleted"}
    /\ \A c \in Uploaded : chunkRegistry[c].checksum = ChecksumOf[c] /\ Downloadable(c)

\* The manifest serves "resumable uploads", also after a crash of the client: a
\* file that is created and not published has one, a chunk it marks as done needs
\* no second upload (it is committed and can be downloaded), and it can be read
\* unless a disk has failed or the crash came within MarkChunkDone, which writes
\* the file in place.
ManifestResumes ==
  /\ FileID \in DOMAIN fileIndex /\ fileIndex[FileID].status = "creating" =>
       /\ manifest.st # "none"
       /\ manifest.st = "torn" => faults > 0 \/ \E c \in Uploaded : progress[c].st = "cut"
  /\ \A c \in manifest.done : chunkRegistry[c].checksum = ChecksumOf[c] /\ Downloadable(c)

\* Every Upload call returns.
UploadReturns == <>(phase \in Ended)

\* "Failed uploads/downloads retried up to `retry_attempts`": an upload that
\* finds enough nodes and has fewer failures than attempts succeeds, if the
\* failures are those of disks and replicas.  (A lost message may make it fail:
\* CreateFile and CommitChunk are errors when they are repeated.)
UploadSucceeds ==
  (phase = "create" /\ Placements # {}) ~>
    (phase \in {"done", "crashed"} \/ lost > 0 \/ faults >= MaxAttempts)

=============================================================================
