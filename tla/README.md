# A TLA+ verification of distributed-fs

distributed-fs keeps files as chunks on storage nodes. A Raft-replicated metadata
server holds the file index, the replica lists and the node registry; a client
uploads and downloads chunks directly to and from the storage nodes. This
directory has TLA+ modules for that program, the TLC runs that check them on small
instances, and TLAPS proofs. Paths below are relative to the repository (`src/`).
`PROJECT.json` maps every definition to the lines it models.

## The system

| part | state | operations |
|---|---|---|
| state machine (`metadata/fsm`) | file index, chunk, node, job and metadata-node registries | one handler per command, `Apply`, `Snapshot`, `Persist`, `Restore` |
| repair scheduler (`metadata/scheduler`) | job queue, pending jobs per node and by target | `TriggerRepair`, `ScheduleRepairForChunk`, the workers, `OnJobComplete`, `RecoverStuckJobs` |
| node watcher (`metadata/watcher`) | the list of one sweep; `LastSeen` in the node registry | `sweep`: mark dead, trigger a repair |
| reconciler (`metadata/reconcile`) | one timer per node | `Schedule`, `ReconcileNode` after a delay |
| placement (`metadata/placement`) | none | `SelectNodes` |
| service handlers (`metadata/server`) | none | RPCs that propose commands, read the state machine, call the scheduler and the reconciler |
| chunk store (`storage/store`, `storage/chunk`) | chunk files, temporary files, checksum index, `usedSpace` | writer, reader, `Rename`, `Delete`, `Verify`, `List` |
| storage handlers, replication manager (`storage/server`, `storage/replication`) | repair queue, in-flight set | `PutChunk`, `GetChunk`, `ReplicateChunk`, fan-out, repair workers |
| storage process (`storage/node.go`, `storage/service`) | up or down | start with an inventory, registration, heartbeats, deregistration |
| client (`client/internal`) | goroutine per chunk, attempts, manifest | `Upload`, `Download`, `DeleteFile` |
| leader-aware client (`internal/leaderclient`) | one cached connection, index into the seeds | `Invoke`, `Update`, `Close` |

How they meet:

- An upload is `CreateFile` (placement), one `PutChunk` per chunk to its primary,
  the primary's fan-out to the replicas, `CommitChunk` by the primary with the
  nodes that confirmed, and `CommitFile` by the client. The client marks each
  finished chunk in a manifest on its own disk.
- A node death is `MarkNodeDead` by the leader's watcher, the eviction of the node
  from its chunks, repair jobs through Raft, delivery on heartbeats of the source,
  the copy, the report and `AddChunkReplica`.
- A node start is a registration with an inventory, a delayed comparison with the
  replica lists, and `DeleteChunk` or an eviction for the differences.
- Every metadata call of a client or a storage node goes through a leader-aware
  client, which follows redirects and goes round the seeds.

What is hard here: the scheduler's goroutines interleave between Raft proposals;
job delivery repeats and reports get lost; inventories and lists are compared
after a delay; retries overlap with abandoned handlers; snapshots are written
while commands are applied; `LastSeen` lives in one server's memory; concurrent
calls share one connection; file, index and space counter of the chunk store
change in several steps. `PROJECT.json` lists each such hazard at its line, with
the properties that would catch it or the reason why none does.

## The modules

- **ReplicaLists** has the maps and the replica lists: `Put`, `Merge`, `Delete`,
  eviction, addition and `normalizeReplicaNodeIDs`. The lookup of an address by
  ranging over a Go map is a set of possible results.
- **MetadataFSM** is the core: the five registries, one action per command. An
  action is enabled if the handler accepts the command; a rejected command changes
  nothing. The Raft log serialises commands, so one command is one step.
- **WriteOnceFS** is what the metadata service promises about files. MetadataFSM
  implements it under the mapping from a file to its status and checksums.
- **ReplicatedFSM** runs several servers over one log, with snapshots taken,
  written element by element, restored and installed. The replica list is a Go
  slice over an array in a heap, since sharing is the question. Raft is external.
- **NodeLiveness** is the registry's view of which nodes live: registration,
  heartbeats and their re-registration after `NotFound`, deregistration, and on
  every server `LastSeen` as an age and the sweep with the list it read once. A
  restored snapshot and a new leader bring their own `LastSeen`. The history
  variables `quiet` and `trusted` record what a node did, for the properties.
- **LeaderClient** is `LeaderAwareClient` with its shared `leaderCache`: calls
  with their attempts, the two halves of `Update` around the dial, `Close`, and
  servers that crash, restart, change leader and register the leader's address.
- **Placement** is `MostFreeSpaceStrategy.SelectNodes`: its filters and the order
  by free space and chunk count. A tie leaves the choice open.
- **Repair** is the repair of one chunk. Each goroutine that schedules repairs is
  a task that takes one step per proposal or read. The metadata server may
  restart, or another one may take over with an empty scheduler.
- **ChunkReplicas** is what a repair promises: copies come from holders, and a
  node is listed while it has the chunk. Repair implements it.
- **Reconcile** composes registration, shutdown with its deregistration, watcher,
  upload, repair (as ChunkReplicas has it) and the timers of the reconciler, for one
  chunk. `TriggerRepair`'s eviction is a step of its own after the command that marks
  a node dead or draining; the history variable `overtaken` has the nodes that it
  evicts although they have registered again.
- **ChunkStore** is the disk of one node: files as inodes, the index, the space
  counter with its word size, the streams that write, the readers and verifiers,
  with the steps of `Rename` and `Delete` under the store's mutex. A verifier keeps a
  slice of a page of the index; `pages` says if an update has freed the page and if a
  later one may have written to it. From then on what is in the slice is undefined.
- **Upload** composes the client with its manifest, the `PutChunk` handlers,
  Placement, and MetadataFSM's own `CreateFile`, `CommitChunk` and `CommitFile`. A
  lost reply leaves the handler's effect in place. The client may crash, and the
  goroutine that was within `MarkChunkDone` then is recorded as `cut`.
- **Download** adds a client that downloads the file at any time and one that
  deletes it.
- **MC\*** instantiate these for TLC; **\*_proofs** hold the proofs. LeaderClient and
  NodeLiveness share **Leader_proofs**, and **Upload_proofs** is about Upload,
  Download and Placement.

A definition that is introduced by "Broken variant" is a plausible mistake in the
definition after it. It is used by no specification; replacing the original by it
violates the property it is listed with in `PROJECT.json`, which shows that the
property depends on the code it is about.

## The runs

Each run is `tlc -config <name>.cfg <module>`.

| run | module | what it shows | distinct states |
|---|---|---|---|
| MCMetadata | MCMetadataFSM | `ChunkOwnership`, `CompleteFileFilled`, `NodesCountedOnce`, `WriteOnce`, `JobIdentity`; refinement of WriteOnceFS | 170 thousand |
| MCSnapshot | MCReplicatedFSM | `Converged`: servers at the same log index agree | 700 thousand |
| MCRepairSafe | MCRepair | `ListedReplicasHold`, `SourcesHold`, `NoSelfCopy`; refinement of ChunkReplicas | 1.0 million |
| MCRepairLive | MCRepair | `EventuallyReplicated`: after a crash the chunk is replicated again | 5 thousand |
| MCReconcile | MCReconcile | `NodesConform`, `ListedReplicasHold`, `ChunkSurvives` | 1.9 million |
| MCChunkStore | MCChunkStore | `StoredIsWhole`, `ReadIsWhole`, `IndexedIsStored`, `SpaceAccounted` | 2.4 million |
| MCUpload | MCUpload | `UploadedIsDownloadable`, `ListedReplicasHold`, `ManifestResumes`, `DownloadedIsUploaded`, `DownloadFailsOver`, `DeletionStands`, `UploadReturns`, `UploadSucceeds` | 380 thousand |
| MCLeaderClient | MCLeaderClient | `ConnectionsOwned`, `UndisturbedSucceeds`, `CacheConverges` | 790 thousand |
| MCNodeLiveness | MCNodeLiveness | `TrustedAlive`, `DeathDetected`, `RegistrationRetried` | 580 thousand |

Three runs end in a counterexample: the code does not do what a document or a
comment of the repository says.

- **MCSnapshotAlias** (`Converged`). `Snapshot` shares the replica slices with the
  live state, against the comment that asks for a deep copy. An eviction during
  `Persist` changes the snapshot, and a server restored from it diverges.
- **MCTwoStreams** (`ReadIsWhole`). The temporary file is named after the chunk and
  not randomly, so two streams of one chunk write one file.
- **MCRestartDeath** (`TrustedNeverDead`). A node that was stopped for longer than
  the timeout registers again; its entry becomes alive and keeps the old `LastSeen`.
  The next sweep marks it dead before its first heartbeat, which is what the comment
  at the registration of a new node says `LastSeen` is set to prevent.

Six more differences between the code and its documents or comments are the
conditions of properties that hold. `PROJECT.json` quotes the lines.

- `normalizeReplicaNodeIDs` keeps the entries that its comment says are dropped
  (`metadata/fsm/fsm.go:633`; `NodesCountedOnce`).
- `TriggerRepair` may evict a node that has come back, which then does not conform
  to the list (`docs/Storage Node Implementation.md:424`; `NodesConform`).
- Graceful restarts, one after the other, can delete every copy of a chunk
  (`docs/project_details.md:111`; `ChunkSurvives`).
- `Verify` compares with a slice that is no longer valid and may take a whole chunk
  for damaged (`docs/Storage Node Implementation.md:305`; `ReadIsWhole`).
- `MarkChunkDone` is not atomic, as its comment says, and nothing resumes an upload
  (`client/internal/manifest/manifest.go:72`, `docs/client.md:152`;
  `ManifestResumes`).
- A redirect consumes an attempt (`client/internal/metadataclient/grpc.go:25`;
  `UndisturbedSucceeds`).

### Bounds

The bounds are constants named `Max...`, given in the `.cfg` files. They limit how
often things go wrong, never what a step does.

- MCMetadata: two files over three chunk IDs let the lists of two files collide, and
  contain one another; two checksums tell a second commit from the first; two nodes
  on two addresses let a confirmed list name one node twice, by ID and by address.
  The full product is too large, so a behaviour has several chunks, or several
  nodes, or jobs and metadata nodes (`Focused`); the proofs have no such limit.
- MCSnapshot: four commands suffice for a commit, a snapshot, a change and another
  change replayed after a restart. `EvictWhilePersisting` is FALSE; it is TRUE in
  MCSnapshotAlias, which shows that the restriction is the reason why it passes.
- MCRepairSafe: replication factor 2 on three nodes; three mishaps out of a crash, a
  departure or corruption, a false alarm, a failed transfer or lost report, a
  rejected proposal, a restart, a change of leader. The queue holds one job, so jobs
  are dropped. The nodes are symmetric apart from who holds the chunk at first.
- MCRepairLive: four nodes, so that a second target exists when the first fails.
- MCReconcile: three registrations let two timers of one node overlap next to one of
  another node, and three mishaps let a crash, a shutdown and a false alarm, a repair
  or a failed call meet. A new cluster has the two nodes of the upload and one mishap
  (`Focused`); the proofs have no such limit.
- MCChunkStore: a chunk of one frame and one of two, on a disk of two frames: a
  partial chunk exists, and the two do not fit together. The counter has 4 bits
  instead of 64, so a subtraction below zero would show as a large value.
- MCUpload: two chunks on three nodes, of which one is full (a placement exists) or
  two are (none does); two attempts, two failures, two lost messages and two bad
  reads: a chunk may exhaust its attempts, or end with one replica.
- MCLeaderClient: two servers and two calls; three attempts, one more than there are
  seeds, which is what `UndisturbedSucceeds` needs. Connections are numbered from a
  set one larger than the callers, since at most one is cached and one dialled by
  each.
- MCNodeLiveness: a timeout of two ticks, so that a node may miss a heartbeat and
  still be heard in time; two calls may be lost, one node restarts, and the leader
  changes once. Ages stop growing beyond the timeout.

### Fairness

- MCRepairLive: weak fairness of the scheduler's tasks and workers, of heartbeats,
  of the repair workers and their reports, and of the sweep for a node that has
  stopped: all are goroutines or tickers that run as long as their process does.
  Crashes, failed transfers and lost reports are never fair. The queue has room and
  no proposal is rejected: the code retries neither a dropped job nor a rejected
  command.
- MCUpload: weak fairness of the client's goroutines and of the handlers. A call
  that is not lost is answered; the losses are bounded.
- MCLeaderClient: weak fairness of the calls, of the servers learning the leader and
  of the loop that registers it. A caller calls again, as the heartbeat ticker of a
  storage node does. Elections, crashes and losses are not fair.
- MCNodeLiveness: time passes, a node that runs is served by its ticker, and every
  server sweeps again and again.

### What some properties leave open, and why

The condition in a property is where the code stops giving the guarantee.

- `EventuallyReplicated` is about one crash. If the target of a repair dies before it
  is listed, `OnJobComplete` lists it nevertheless, and nothing evicts it again; with
  `MaxCrashes = 2` TLC finds that behaviour.
- Pending jobs are lost when the leader changes or the queue is full.
  `RecoverStuckJobs` runs when a process starts, and not when it becomes leader, so
  only safety is claimed across these.
- `NoSelfCopy` holds until the metadata server restarts: `RecoverStuckJobs` may make
  a job's target its source.
- `ChunkSurvives` counts departures: it speaks while fewer nodes have crashed or shut
  down than confirmed the chunk. A node that leaves is evicted, by the watcher or at
  once by `DeregisterNode`, and its copy is deleted as stale when it is back, whether
  or not a repair has made another. If every holder leaves and comes back, the last
  copy may go too; two graceful restarts are enough with two replicas (TLC finds this
  with `MaxStops = 2` and no other mishap). And if only the primary confirmed, and it
  restarted during the upload, its callback can delete the only copy.
- `NodesConform` and `ListedReplicasHold` of Reconcile are about restarts of nodes
  with a committed chunk. While a repair or an upload is under way, a callback may
  delete a copy that is about to be listed. `NodesConform` leaves out the copies of
  `overtaken` nodes: a node that registers after it was marked dead or draining, and
  is compared before `TriggerRepair` evicts it, keeps a copy that is not listed.
- `NodesCountedOnce` is about the nodes that are registered when a command is applied.
  An address that no node has is kept, against `metadata/fsm/fsm.go:633`, and stands
  beside the ID of a node that registers with it later.
- `ReadIsWhole` leaves out a verification whose page of the index was reused.
  `ByteCodec` returns bbolt's own slice (`storage/store/checksum_index.go:52`), and
  `Verify` reads the chunk before it compares. Two updates of the index meanwhile, of
  any chunks, can overwrite the page; the chunk is then reported as damaged.
- `TrustedAlive` is about a node that started once and about the first leader. A
  restart is MCRestartDeath. A new leader has, for each node, the time at which the
  node registered, or none if it has restored a snapshot, which does not carry
  `LastSeen` (`metadata/fsm/types.go:79`): heartbeats are recorded in the memory of
  the server that receives them. Its first sweep may take every node for dead.
- `CacheConverges` needs the leader's address to be registered under the address
  that Raft reports. `registerInFSM` uses the bind address; with a different
  advertised address (`scripts/run-cluster.sh:116`) a redirect carries no address
  (`Advertise`). Without one, two callers in step may skip the leader for ever.
- `UndisturbedSucceeds` needs more attempts than seeds: a redirect takes an attempt,
  like a failure, although `client/internal/metadataclient/grpc.go:25` says that
  redirects are followed without consuming one.
- `UploadSucceeds` is about failures of disks and replicas. A lost reply of
  `CreateFile` or `CommitChunk` fails the upload, because the repeated command is
  an error. Downloads try each replica once: the retries that `docs/client.md:180`
  mentions for downloads do not exist in `downloadChunkWithFailover`.
- `DeletionStands` excludes lost messages and crashes of the client: a `CommitFile`
  that is repeated or arrives late publishes a deleted file again. `DeleteFile`
  marks the record only; the eviction of the chunks that `docs/metadata.md:213`
  describes is not in the code.
- `ManifestResumes` says that the manifest would be fit for resuming. No code resumes
  an upload, against `docs/client.md:152`: `Load` and `GetPendingChunks` have no
  callers, and a new upload makes a new file ID. The manifest can be read unless a
  write failed or the crash came within `MarkChunkDone`, which writes the file in
  place (`torn`), although `client/internal/manifest/manifest.go:72` calls it atomic.
- `IndexedIsStored` allows one chunk out of step per crash and per failed index
  update: `Delete` removes the file first, and only logs a failure of the second
  step.
- `SpaceAccounted` is exact until the process restarts. Then `usedSpace` starts at
  0 with the old chunks on disk, so the free space a node reports is too large, and
  `totalSpace` no longer bounds the files. It does not wrap. A chunk ID stands for
  one content, so an overwrite does not change the size of a file, and the branch of
  `Rename` for a smaller new file (`storage/store/disk.go:444`) is not taken.

## The proofs

`tlapm <module>` checks each of these for every value of the constants: any number of
nodes, servers, chunks, commands, attempts and mishaps.

| module | theorem | statement |
|---|---|---|
| MetadataFSM_proofs | TypeCorrect, OwnershipHolds, CompleteFileFilledHolds | `Spec => []TypeOK`, `[]ChunkOwnership`, `[]CompleteFileFilled` |
| | NodesCountedOnceHolds, WriteOnceHolds, JobIdentityHolds | `Spec => NodesCountedOnce`, `Spec => WriteOnce`, `Spec => JobIdentity` |
| | WriteOnceFSImplemented | `Spec => ImplementsWriteOnceFS` |
| ReplicatedFSM_proofs | ServersConverge | `ReplicatedSpec => []Converged`, if `UniqueAddresses` and `~EvictWhilePersisting` |
| Repair_proofs | TypeCorrect, ListedReplicasHoldHolds, SourcesHoldHolds, NoSelfCopyHolds | `Spec => []TypeOK`, `[]ListedReplicasHold`, `[]SourcesHold`, `[]NoSelfCopy` |
| | Implementation | `Spec => ImplementsChunkReplicas` |
| Reconcile_proofs | TypeCorrect, ListedReplicasHoldAlways, NodesConformAtRest, ChunkSurvivesDepartures | `Spec => []TypeOK`, `[]ListedReplicasHold`, `[]NodesConform`, `[]ChunkSurvives` |
| ChunkStore_proofs | TypeCorrect | `Spec => []TypeOK` |
| | StoredIsWholeHolds, ReadIsWholeHolds, IndexedIsStoredHolds, SpaceAccountedHolds | `Spec => []StoredIsWhole`, `[]ReadIsWhole`, `[]IndexedIsStored`, `[]SpaceAccounted`, if `~SharedChunk` |
| Upload_proofs | UploadTypeCorrect, UploadListsStored, UploadPublishes, ManifestIsResumable | `DownloadSpec => []UploadTypeOK`, `[]ListedReplicasHold`, `[]UploadedIsDownloadable`, `[]ManifestResumes` |
| | DownloadReturnsUpload, DownloadTriesAll | `DownloadSpec => []DownloadedIsUploaded`, `[]DownloadFailsOver` |
| | DeletionIsFinal | `DownloadSpec => DeletionStands` |
| | SelectNodesFits, SelectNodesBest | what a selection contains and that nothing better was left out |
| Leader_proofs | TypeCorrect, ConnectionsOwnedHolds | `Spec => []TypeOK`, `[]ConnectionsOwned` |
| | UndisturbedSucceedsHolds | `Spec => []UndisturbedSucceeds`, if `SeedsReach` |
| | LivenessTypeCorrect, TrustedAliveHolds | `LivenessSpec => []LivenessTypeOK`, `[]TrustedAlive` |

Every safety property of a passing run, invariant or action property, and both
refinements are thereby proved.

The assumptions are those the modules declare, and TLC evaluates them in the runs.
In MetadataFSM a file lists a chunk once, a confirmed list consists of node IDs and
addresses, no ID is an address (`HostsAssumption`), and the values for "no checksum" and "no node" are none themselves.
ReplicatedFSM says what a command carries (`CommandsAssumption`). In Upload every node
has an address of its own and no address is a node ID (`AddressAssumption`), as a
configured cluster has it; Download has two values for damaged and missing data that
are no checksum. Elsewhere they are that bounds are natural numbers, that nodes,
servers and chunks are finite in number where they are counted, that a chunk has at
least one frame, that the disk is smaller than what the counter can hold, and that
there is a seed. Six theorems have hypotheses of their own, listed in the table; each
is where the code stops giving the guarantee, as described below.

**MetadataFSM.** The inductive invariant `FSMInv` is `TypeOK`, `ChunkOwnership`,
`NoDuplicateReplicas` (no list has an entry twice), `CompleteFileFilled` and one fact
more, `CompleteChunkSummed`: a chunk whose status is complete has a checksum. It is needed
because `CommitFile` looks at the status of the chunks while readers depend on the
checksum, and `CompleteFileFilled` alone does not survive the step. Chunk commands
are reduced to `ChunkUpdate`, what any of them may do to one record; ownership,
write-once and refinement then follow from that one relation. `NodesCountedOnce`
needs in addition what each command adds to a list (`EvictReplicaRange`,
`AddReplicaRange`, `NormalizedReplicasAre`): a node ID, or an address that
`NormalizedReplicas` found with no node.

**ReplicatedFSM.** What a server holds after `n` commands is a recursion over the
log, which is out of the prover's reach. `LogInv` avoids it: there *is* a history `h`,
a state for every prefix of the log in which each state follows from the one before
(`After`), such that every server, every snapshot being written and every snapshot on
disk agrees with `h` at its own index. `Propose` extends the history by one state; no
other step changes it. `After` has lists where the servers have slices, so the proof
also shows that the shift of an eviction and an append, in place or to a new array,
implement `EvictReplica` and `AddReplica`. A snapshot that is being written reads the live
array; that it reads the list of its own index needs that only additions beyond its
length happen meanwhile, which is `~EvictWhilePersisting` (MCSnapshotAlias shows the
opposite case). `UniqueAddresses` makes `NormalizedReplicas` a function: with two nodes
on one address, the order in which Go ranges over a map decides.

**Repair.** `ListedReplicasHold` is not inductive: a task may be about to list a
node. `IInv` adds `TasksFit` (the live nodes a task has read hold the chunk, as does
the source it chose and the target it is about to list) and `JobsExist` (the IDs in
queues, pending lists, responses and nodes are of jobs, and a job a node finished
successfully has put the chunk on its target). A copy is never lost in this module,
since a crash, an eviction or a report of corruption deletes no file (the reconciler
does, in Reconcile), so what held when a task read it still does. `NoSelf` adds, until
the first restart, that no task recovers and that targets are chosen apart from the
source. The refinement follows from `IInv`: each step changes the copies or the list
the way ChunkReplicas does, or not at all.

**Reconcile.** `RInv` says that, while only restarts disturb the chunk, no
registration, timer or callback of a node that has the chunk carries an inventory
without it, that a callback about to delete found its node unlisted (`Found`), and that
a running, live node with an unlisted copy has a registration, timer or callback
outstanding (`Pending`) or was evicted after it had registered again (`overtaken`).
`SInv` counts: the nodes that are stopping, are down with the chunk, have reported it,
or have confirmed and lost it (`Exposed`) are no more than the crashes and shutdowns,
because a node gets among them by one of these only.

**ChunkStore.** All theorems but the type invariant assume that no two streams write
one chunk at a time (`~SharedChunk`); MCTwoStreams shows that they need to. `Inv` says
that what is at a final path or in the index is whole, that an inode at a temporary
path is at no other path and open to no reader (`Apart`), that a writer's file has
exactly what was written (`Writing`), what holds inside `Rename` and `Delete`
(`Locked`), and that a reader has a prefix of a whole file and, while its page is not
reused, the checksum of that file. `Counted` adds the bound of
`IndexedIsStored` for the steps inside the mutex. `TypeInv` bounds what a shared file
can contain, for the type invariant without that hypothesis. `SpaceInv` compares
`usedSpace`, or what it becomes when the mutex is released, with the frames of the
indexed chunks, so that every subtraction takes away what is there.

**Upload and Download.** `UInv` has a conjunct for each part: what the state machine
holds of the one file (`MetadataFits`), that a listed node has the chunk
(`ChunksFit`), what a handler has confirmed so far (`HandlersFit`), that a goroutine
which reports success has a committed chunk (`ProgressFits`), what each phase of the
client has reached (`PhaseFits`, `Unpublished`) and what the manifest marks
(`ManifestFits`). `TornFits` says who can have torn the manifest: a failed write, a
crash within `MarkChunkDone`, or one within the first write, after which the file is
never created. `DInv` adds what a download knows of each chunk: the checksum it
compares with, the replicas it has left, and how many reads have failed. Both use
MetadataFSM's own commands and `SelectNodes`; what they need of these operators is
`OperatorsFit`, proved at the end of the module from `ReplicaLists_proofs` and the
theorems on placement.

**LeaderClient.** `Owned` adds to `ConnectionsOwned` that an `Update` between its
halves holds an open connection of its own, neither the cached one nor that of
another `Update`; swapping then closes exactly one connection. `CalmInv` says where
an undisturbed call is on its way (`OnCourse`): either it talks to the leader, or the
index into the seeds reaches the leader's by attempt `Len(Seeds)`. `SeedsReach` is
that every server is a seed and that there are more attempts than seeds.

**NodeLiveness.** `IInv` says that the leader's age of a node that started once is
the true silence of the node (`AgeIsQuiet`), and that a trusted node is within the
timeout and on no list of a sweep (`Trust`): the sweep that would mark it dead found
it beyond the timeout, when it was not trusted any more.

`ReplicaLists_proofs` has the lemmas about maps and lists: what eviction and
addition return and that they keep a list free of duplicates, and that `Dedup`, a
`CHOOSE`, denotes a list for every input. The latter is an induction over the length
of the list, done with a least counterexample.

Only model-checked: the liveness properties `EventuallyReplicated`, `UploadReturns`,
`UploadSucceeds`, `CacheConverges`, `DeathDetected` and `RegistrationRetried`, because
fairness and `ENABLED` are out of the prover's reach. The three runs that end in a
counterexample have nothing to prove.

## What is not modelled

- Raft and its store, gRPC, configuration, the CLI, logging and the conversion of
  messages. `ReplicatedFSM` uses Raft as one log and a snapshot per server.
- The in-memory store, which serves tests, and the progress counter of
  `client/dfsclient`.
- Code without a caller: the scheduler's branch for over-replicated chunks, the
  reverse selections of the placement, `GetChunkLocations`, `NewStream`, the reading
  side of the manifest, `DiskStore.Write`; and `Cancel` of the reconciler, which
  only tests call.
- The pool of connections between storage nodes, the limit of transfers at a time
  and the pauses between retries.
- The boundaries of chunks, a failure to read the input or to write the output file,
  and cancelled contexts.
- The source that `LeastLoadedStrategy` prefers is any live replica in Repair, and
  the targets are any nodes of the right number.
- `GetFile` is one step, although the handler reads the records after it has given
  back the lock. `GetFileByName` with two files of one name is left out: the clients
  modelled have one file.

Repair and Reconcile follow one chunk: no operation of them relates two chunks,
except that all chunks share the scheduler's queue.
