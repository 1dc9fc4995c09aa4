------------------------------ MODULE Download ------------------------------
(***************************************************************************)
(* The download of the file that module Upload uploads, and its deletion,  *)
(* by other clients (src/client/internal/service), at any time: ListFiles, *)
(* GetFile and DeleteFile in the metadata server, and the replicas of      *)
(* every chunk tried in turn.                                              *)
(***************************************************************************)
EXTENDS Upload

CONSTANTS
  MaxParallelDownloads,
  Damaged,          \* the checksum of data that is not the chunk's
  NoData,           \* GetChunk returned an error
  MaxReadFaults     \* bound on the GetChunk calls that fail or return damaged data

ASSUME DownloadAssumption ==
  MaxParallelDownloads \in Nat \ {0} /\ {Damaged, NoData} \cap Checksums = {}

VARIABLES
  download,     \* where the Download call is
  readFaults

downloadVars == <<download, readFaults>>

Idle == [pc |-> "idle"]

DownloadInit == UploadInit /\ download = Idle /\ readFaults = 0

\* GetFile and ListFiles answer for complete files only.
Available(f) == f \in DOMAIN fileIndex /\ fileIndex[f].status = "complete"

ListFiles == {f \in DOMAIN fileIndex : Available(f)}

GetFileChunks(f) == [c \in Range(fileIndex[f].chunkIDs) |-> chunkRegistry[c]]

\* The addresses GetFile returns for the replicas of a chunk: those of the nodes
\* that are neither dead nor draining.
Locations(list) ==
  LET serving == {i \in 1..Len(list) :
                    /\ list[i] \in DOMAIN nodeRegistry
                    /\ nodeRegistry[list[i]].status \notin {"dead", "draining"}}
      nth(k) == CHOOSE i \in serving : Cardinality({j \in serving : j <= i}) = k
  IN  [k \in 1..Cardinality(serving) |-> nodeRegistry[list[nth(k)]].address]

Found == FileID \in ListFiles

\* GetFileByName: ListFiles gives the file's ID ...
DownloadList ==
  /\ download = Idle
  /\ Found
  /\ download' = [pc |-> "listed"]
  /\ UNCHANGED readFaults

\* ... and GetFile the chunks with their locations, if the file is still there.
DownloadGet ==
  /\ download.pc = "listed"
  /\ download' =
       IF Available(FileID)
         THEN LET chunks == GetFileChunks(FileID)
              IN  [pc |-> "fetch",
                   left |-> [c \in DOMAIN chunks |-> Locations(chunks[c].replicas)],
                   want |-> [c \in DOMAIN chunks |-> chunks[c].checksum],
                   out |-> [c \in DOMAIN chunks |-> NoData]]
         ELSE [pc |-> "notfound"]
  /\ UNCHANGED readFaults

\* Another client deletes the file.  It knows the ID from ListFiles, or from an
\* upload that has ended.
ClientDelete ==
  /\ Found \/ phase \in Ended
  /\ DeleteFile(FileID)
  /\ UNCHANGED <<client, progress, handlers, copies, faults, lost>>

\* The goroutine of a chunk that has neither written it nor run out of replicas.
Fetching(c) == download.out[c] = NoData /\ download.left[c] # <<>>

\* The chunk holds a slot of the semaphore: slots are given out in order.
HasSlot(c) ==
  LET before == {FileChunks[i] : i \in 1..(FirstIndex(FileChunks, c) - 1)}
  IN  Cardinality({b \in before : Fetching(b)}) < MaxParallelDownloads

\* What GetChunk may return from a node.
GetChunk(c, n, data) ==
  \/ data = ChecksumOf[c] /\ c \in copies[n] /\ UNCHANGED readFaults
  \/ data = NoData /\ c \notin copies[n] /\ UNCHANGED readFaults
  \/ data \in {Damaged, NoData} /\ readFaults < MaxReadFaults /\ readFaults' = readFaults + 1

\* Broken variant: the checksum of the data is not compared.
AcceptedUnchecked(c, data) == data # NoData

Accepted(c, data) ==
  data # NoData /\ (download.want[c] # NoChecksum => data = download.want[c])

\* Broken variant: the first replica decides.
DownloadChunkOnce(c) ==
  /\ download.pc = "fetch" /\ Fetching(c) /\ HasSlot(c)
  /\ \E n \in NodeIDs, data \in {ChecksumOf[c], Damaged, NoData} :
       /\ AddrOf[n] = Head(download.left[c])
       /\ GetChunk(c, n, data)
       /\ download' = IF Accepted(c, data) THEN [download EXCEPT !.out[c] = data]
                                           ELSE [download EXCEPT !.left[c] = <<>>]

\* One turn of downloadChunkWithFailover.
DownloadChunk(c) ==
  /\ download.pc = "fetch" /\ Fetching(c) /\ HasSlot(c)
  /\ \E n \in NodeIDs, data \in {ChecksumOf[c], Damaged, NoData} :
       /\ AddrOf[n] = Head(download.left[c])
       /\ GetChunk(c, n, data)
       /\ download' = IF Accepted(c, data) THEN [download EXCEPT !.out[c] = data]
                                           ELSE [download EXCEPT !.left[c] = Tail(@)]

\* wg.Wait: a failed chunk fails the download, and the output is removed.
DownloadEnd ==
  /\ download.pc = "fetch"
  /\ \A c \in Uploaded : ~Fetching(c)
  /\ download' = [download EXCEPT !.pc =
       IF \E c \in Uploaded : download.out[c] = NoData THEN "failed" ELSE "done"]
  /\ UNCHANGED readFaults

DownloadNext ==
  \/ UploadNext /\ UNCHANGED downloadVars
  \/ ClientDelete /\ UNCHANGED downloadVars
  \/ /\ DownloadList \/ DownloadGet \/ DownloadEnd \/ \E c \in Uploaded : DownloadChunk(c)
     /\ UNCHANGED uploadVars

DownloadSpec == DownloadInit /\ [][DownloadNext]_<<uploadVars, downloadVars>>

FairDownloadSpec == DownloadSpec /\ UploadFairness

-----------------------------------------------------------------------------
(* Properties *)

\* A download that reports success has written every chunk of the file as it was
\* uploaded, also while the upload's last messages are lost and repeated.
DownloadedIsUploaded ==
  download.pc = "done" => \A c \in Uploaded : download.out[c] = ChecksumOf[c]

\* "tries each replica in order until one succeeds": a download fails only if
\* every replica of some chunk failed.
DownloadFailsOver ==
  download.pc = "failed" =>
    \E c \in Uploaded : readFaults >= Len(chunkRegistry[c].replicas)

Deleted == FileID \in DOMAIN fileIndex /\ fileIndex[FileID].status = "deleted"

\* A deleted file stays deleted, whenever the deletion falls into the upload,
\* unless one of the uploader's messages was lost or its process has crashed:
\* the CommitFile that is repeated or arrives late publishes the file again.
DeletionStands ==
  [][Deleted /\ ~Deleted' => lost > 0 \/ phase = "crashed"]_<<uploadVars, downloadVars>>

=============================================================================
