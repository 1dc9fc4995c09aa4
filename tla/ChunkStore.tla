----------------------------- MODULE ChunkStore -----------------------------
(***************************************************************************)
(* The disk of a storage node: chunk files and their checksum index        *)
(* (src/storage/store), the writers and readers of chunks                  *)
(* (src/storage/chunk), and the streams that drive them (PutChunk,         *)
(* ReplicateChunk, GetChunk, VerifyChunk and DeleteChunk in                *)
(* src/storage/server).                                                    *)
(*                                                                         *)
(* Files are inodes, paths point to them, and an open file goes on using   *)
(* its inode when the path is renamed, removed or created again.  A chunk  *)
(* has the frames 1..Frames(c); 0 is a hole in a file, and a checksum is   *)
(* the content it was computed from.  Every stream of a chunk carries the  *)
(* right frames: what can go wrong is how they end up on disk.             *)
(***************************************************************************)
EXTENDS Naturals, Sequences, FiniteSets, ReplicaLists

CONSTANTS
  Chunks, Frames,   \* the chunks, and the number of frames of each
  Streams,          \* goroutines that write a chunk, one chunk at a time
  SharedChunk,      \* may two streams write the same chunk at a time?
  Readers,          \* goroutines that read a chunk
  TotalSpace,       \* DiskStore.totalSpace, in frames
  Word,             \* the modulus of the uint64 space arithmetic
  None,
  MaxInodes,        \* bound on the files created
  MaxCrashes,       \* bound on the crashes
  MaxFaults         \* bound on the failed updates of the index

ASSUME FramesAssumption ==
  /\ IsFiniteSet(Chunks) /\ Frames \in [Chunks -> Nat \ {0}]
  /\ Word \in Nat /\ TotalSpace \in 0..(Word - 1)
  /\ SharedChunk \in BOOLEAN /\ MaxInodes \in Nat

ASSUME NoneAssumption == None \notin Nat /\ None \notin Seq(Nat)

VARIABLES
  inodes,      \* the content of every file created
  tmp, file,   \* the inode at a chunk's temporary and final path, or None
  index,       \* the checksum index: chunk -> checksum, or None
  usedSpace,
  mutex,       \* DiskStore.mu: free, or held within Rename or Delete
  writers,     \* the open ChunkWriters: stream -> writer
  readers,     \* the open ChunkReaders: reader -> what it has read
  pages,       \* reader -> the page of the index with the checksum it compares with
  crashes, faults

disk == <<inodes, tmp, file>>
store == <<index, usedSpace, mutex>>
reading == <<readers, pages>>
counts == <<crashes, faults>>
vars == <<disk, store, writers, reading, counts>>

Whole(c) == [i \in 1..Frames[c] |-> i]

Inodes == 1..MaxInodes
Sizes == UNION {0..Frames[c] : c \in Chunks}
Contents == UNION {[1..k -> 0..k] : k \in Sizes}
Spaces == 0..(Word - 1)

\* mu, held within Rename or Delete until usedSpace becomes space.
Free == [op |-> "free"]
Mutex == [op : {"rename", "delete"}, chunk : Chunks, space : Spaces] \cup {Free}

Writer == [chunk : Chunks, inode : Inodes, written : Nat, pc : {"write", "commit", "index"}]

\* A GetChunk, or a VerifyChunk with the checksum it will compare with, while the
\* page it is on is not reused.
Reader == [chunk : Chunks, sum : Contents \cup {None}, inode : Inodes \cup {None},
           got : Seq(Nat), done : BOOLEAN]

TypeOK ==
  /\ inodes \in Seq(Contents)
  /\ tmp \in [Chunks -> Inodes \cup {None}]
  /\ file \in [Chunks -> Inodes \cup {None}]
  /\ index \in [Chunks -> Contents \cup {None}]
  /\ usedSpace \in Spaces
  /\ mutex \in Mutex
  /\ IsRegistry(writers, Streams, Writer)
  /\ IsRegistry(readers, Readers, Reader)
  /\ pages \in [Readers -> {"current", "freed", "reused"}]

Init ==
  /\ inodes = <<>>
  /\ tmp = [c \in Chunks |-> None]
  /\ file = [c \in Chunks |-> None]
  /\ index = [c \in Chunks |-> None]
  /\ usedSpace = 0
  /\ mutex = Free
  /\ writers = EmptyRegistry
  /\ readers = EmptyRegistry
  /\ pages = [r \in Readers |-> "current"]
  /\ crashes = 0 /\ faults = 0

\* Get of the checksum index.  What it returns is not a copy: ByteCodec hands out
\* the bytes in the database's page, beyond the transaction that protects them.
IndexGet(c) == index[c]

Exists(c) == IndexGet(c) # None

\* The keys of the index: what a node reports as its inventory.
List == {c \in Chunks : Exists(c)}

\* What a node reports as its free space.
FreeSpace == IF usedSpace > TotalSpace THEN 0 ELSE TotalSpace - usedSpace

-----------------------------------------------------------------------------
(* ChunkWriter *)

\* os.Create truncates the file at the temporary path, or makes a new one.
\* Nothing keeps a retry or a repair from writing a chunk that another stream
\* writes; without SharedChunk, that does not happen.
NewChunkWriter(s, c) ==
  /\ s \notin DOMAIN writers
  /\ SharedChunk \/ \A t \in DOMAIN writers : writers[t].chunk # c
  /\ IF tmp[c] = None
       THEN /\ Len(inodes) < MaxInodes
            /\ inodes' = Append(inodes, <<>>)
            /\ tmp' = [tmp EXCEPT ![c] = Len(inodes) + 1]
       ELSE /\ inodes' = [inodes EXCEPT ![tmp[c]] = <<>>]
            /\ UNCHANGED tmp
  /\ writers' = Put(writers, s, [chunk |-> c, inode |-> tmp'[c], written |-> 0, pc |-> "write"])
  /\ UNCHANGED <<file, store, reading, counts>>

\* Broken variant: the frame goes one frame too far.
WrittenAhead(content, k) ==
  [i \in 1..(k + 1) |-> IF i = k + 1 THEN k ELSE IF i <= Len(content) THEN content[i] ELSE 0]

\* The content after frame k is written at its offset.
Written(content, k) ==
  [i \in 1..(IF Len(content) < k THEN k ELSE Len(content)) |->
     IF i = k THEN k ELSE IF i <= Len(content) THEN content[i] ELSE 0]

\* A frame arrives, is written at the writer's offset and synced.
WriteFrame(s) ==
  LET w == writers[s]
      k == w.written + 1
  IN  /\ w.pc = "write" /\ k <= Frames[w.chunk]
      /\ inodes' = [inodes EXCEPT ![w.inode] = Written(@, k)]
      /\ writers' = [writers EXCEPT ![s].written = k]
      /\ UNCHANGED <<tmp, file, store, reading, counts>>

\* Abort removes whatever is at the temporary path.
Abort(s) ==
  /\ tmp' = [tmp EXCEPT ![writers[s].chunk] = None]
  /\ writers' = Delete(writers, s)

\* The stream breaks, or the writer's hash is not the sender's.
AbortStream(s) ==
  /\ writers[s].pc = "write"
  /\ Abort(s)
  /\ UNCHANGED <<inodes, file, store, reading, counts>>

\* The sender of a ReplicateChunk ends the stream before the last frame, and the
\* writer is dropped without Abort.
EndStream(s) ==
  /\ writers[s].pc = "write"
  /\ writers' = Delete(writers, s)
  /\ UNCHANGED <<disk, store, reading, counts>>

\* Broken variant: the chunk is committed before its last frame.
FinalizeEarly(s) ==
  LET w == writers[s]
  IN  /\ w.pc = "write" /\ w.written + 1 >= Frames[w.chunk]
      /\ writers' = [writers EXCEPT ![s].pc = "commit"]
      /\ UNCHANGED <<disk, store, reading, counts>>

\* Finalize: the hash of what this writer wrote is that of the whole chunk.
Finalize(s) ==
  LET w == writers[s]
  IN  /\ w.pc = "write" /\ w.written = Frames[w.chunk]
      /\ writers' = [writers EXCEPT ![s].pc = "commit"]
      /\ UNCHANGED <<disk, store, reading, counts>>

-----------------------------------------------------------------------------
(* DiskStore.Rename, which Finalize calls *)

FileSize(c) == IF file[c] = None THEN 0 ELSE Len(inodes[file[c]])

\* The size of what Rename replaces: a file without index entry counts as none.
ExistingSize(c) == IF Exists(c) THEN FileSize(c) ELSE 0

Minus(a, b) == (Word + a - b) % Word

SpaceFits(c) ==
  LET size == Len(inodes[tmp[c]])
  IN  size > ExistingSize(c) => size - ExistingSize(c) <= Minus(TotalSpace, usedSpace)

\* The temporary file is gone, or there is no space: Finalize aborts.
RenameFail(s) ==
  LET c == writers[s].chunk
  IN  /\ writers[s].pc = "commit"
      /\ tmp[c] # None => mutex = Free /\ ~SpaceFits(c)
      /\ Abort(s)
      /\ UNCHANGED <<inodes, file, store, reading, counts>>

\* Broken variant: an overwritten chunk is counted twice.
SpaceAfterTwice(c) == usedSpace + Len(inodes[tmp[c]])

SpaceAfter(c) == Minus(usedSpace + Len(inodes[tmp[c]]), ExistingSize(c))

\* Under the mutex: the space check and os.Rename.
RenameFile(s) ==
  LET c == writers[s].chunk
  IN  /\ writers[s].pc = "commit"
      /\ mutex = Free /\ tmp[c] # None /\ SpaceFits(c)
      /\ mutex' = [op |-> "rename", chunk |-> c, space |-> SpaceAfter(c)]
      /\ file' = [file EXCEPT ![c] = tmp[c]]
      /\ tmp' = [tmp EXCEPT ![c] = None]
      /\ writers' = [writers EXCEPT ![s].pc = "index"]
      /\ UNCHANGED <<inodes, index, usedSpace, reading, counts>>

\* An update of the index may write to the pages that earlier ones have freed,
\* and frees the page it replaces, if it is committed.
PagesAfter(committed) ==
  [r \in Readers |->
     IF r \notin DOMAIN readers \/ readers[r].sum = None THEN "current"
     ELSE IF pages[r] # "current" THEN "reused"
     ELSE IF committed THEN "freed" ELSE "current"]

IndexPut(c, sum) ==
  /\ index' = [index EXCEPT ![c] = sum]
  /\ pages' = PagesAfter(TRUE)

\* The file is read back, its checksum goes into the index, and mu is released.
RenameIndex(s) ==
  /\ writers[s].pc = "index"
  /\ IndexPut(mutex.chunk, inodes[file[mutex.chunk]])
  /\ usedSpace' = mutex.space
  /\ mutex' = Free
  /\ writers' = Delete(writers, s)
  /\ UNCHANGED <<disk, readers, counts>>

\* The index cannot be updated: Finalize aborts, and the file stays.
RenameIndexFail(s) ==
  /\ faults < MaxFaults
  /\ faults' = faults + 1
  /\ writers[s].pc = "index"
  /\ mutex' = Free
  /\ pages' = PagesAfter(FALSE)
  /\ Abort(s)
  /\ UNCHANGED <<inodes, file, index, usedSpace, readers, crashes>>

-----------------------------------------------------------------------------
(* DiskStore.Delete *)

\* Under the mutex: an indexed chunk whose file exists is removed.
DeleteFile(c) ==
  /\ mutex = Free
  /\ Exists(c) /\ file[c] # None
  /\ mutex' = [op |-> "delete", chunk |-> c,
                space |-> IF usedSpace >= FileSize(c) THEN usedSpace - FileSize(c) ELSE 0]
  /\ file' = [file EXCEPT ![c] = None]
  /\ UNCHANGED <<inodes, tmp, index, usedSpace, writers, reading, counts>>

\* Broken variant: the index entry is left behind.
DeleteIndexKept ==
  /\ mutex.op = "delete"
  /\ usedSpace' = mutex.space
  /\ mutex' = Free
  /\ UNCHANGED <<disk, index, writers, reading, counts>>

IndexDelete(c) ==
  /\ index' = [index EXCEPT ![c] = None]
  /\ pages' = PagesAfter(TRUE)

\* The index entry is deleted, and mu released; a failure of the index is only
\* logged.
DeleteIndex ==
  /\ mutex.op = "delete"
  /\ \/ /\ IndexDelete(mutex.chunk)
        /\ UNCHANGED faults
     \/ /\ faults < MaxFaults
        /\ faults' = faults + 1
        /\ pages' = PagesAfter(FALSE)
        /\ UNCHANGED index
  /\ usedSpace' = mutex.space
  /\ mutex' = Free
  /\ UNCHANGED <<disk, writers, readers, crashes>>

-----------------------------------------------------------------------------
(* ChunkReader and Verify, without the mutex *)

\* The index is looked up first, and the file opened afterwards.
Lookup(r, c, sum) ==
  /\ r \notin DOMAIN readers
  /\ Exists(c)
  /\ readers' = Put(readers, r, [chunk |-> c, sum |-> sum, inode |-> None,
                                got |-> <<>>, done |-> FALSE])
  /\ UNCHANGED <<disk, store, writers, pages, counts>>

NewChunkReader(r, c) == Lookup(r, c, None)

\* VerifyChunk remembers the indexed checksum and reads the file afterwards.
Verify(r, c) == Lookup(r, c, IndexGet(c))

EndReader(r) ==
  /\ readers' = Delete(readers, r)
  /\ pages' = [pages EXCEPT ![r] = "current"]

\* Read looks the chunk up once more, and it has been deleted.
ReadMissing(r) ==
  /\ readers[r].inode = None /\ readers[r].sum # None
  /\ ~Exists(readers[r].chunk)
  /\ EndReader(r)
  /\ UNCHANGED <<disk, store, writers, counts>>

OpenFile(r) ==
  LET f == file[readers[r].chunk]
  IN  /\ readers[r].inode = None
      /\ IF f = None
           THEN EndReader(r)
           ELSE readers' = [readers EXCEPT ![r].inode = f] /\ UNCHANGED pages
      /\ UNCHANGED <<disk, store, writers, counts>>

\* Broken variant: the last frame is announced one frame too soon.
NextFrameShort(r) ==
  LET rd == readers[r]
      content == inodes[rd.inode]
      k == Len(rd.got) + 1
  IN  /\ rd.inode # None /\ ~rd.done
      /\ readers' = [readers EXCEPT
           ![r].got = IF k <= Len(content) THEN Append(@, content[k]) ELSE @,
           ![r].done = k + 1 >= Len(content)]
      /\ UNCHANGED <<disk, store, writers, pages, counts>>

\* Next reads one frame and looks one byte ahead to see if it is the last.
NextFrame(r) ==
  LET rd == readers[r]
      content == inodes[rd.inode]
      k == Len(rd.got) + 1
  IN  /\ rd.inode # None /\ ~rd.done
      /\ readers' = [readers EXCEPT
           ![r].got = IF k <= Len(content) THEN Append(@, content[k]) ELSE @,
           ![r].done = k >= Len(content)]
      /\ UNCHANGED <<disk, store, writers, pages, counts>>

\* The whole chunk was sent, or compared with what the page has by now, or the
\* receiver of a GetChunk went away.
CloseReader(r) ==
  /\ readers[r].inode # None
  /\ readers[r].sum # None => readers[r].done
  /\ EndReader(r)
  /\ UNCHANGED <<disk, store, writers, counts>>

-----------------------------------------------------------------------------
(* The process stops anywhere and starts again with an empty usedSpace; the
   files and the index stay as they are. *)
Crash ==
  /\ crashes < MaxCrashes
  /\ crashes' = crashes + 1
  /\ writers' = EmptyRegistry
  /\ readers' = EmptyRegistry
  /\ pages' = [r \in Readers |-> "current"]
  /\ mutex' = Free
  /\ usedSpace' = 0
  /\ UNCHANGED <<disk, index, faults>>

Next ==
  \/ \E s \in Streams, c \in Chunks : NewChunkWriter(s, c)
  \/ \E s \in DOMAIN writers :
       \/ WriteFrame(s) \/ AbortStream(s) \/ EndStream(s) \/ Finalize(s)
       \/ RenameFail(s) \/ RenameFile(s) \/ RenameIndex(s) \/ RenameIndexFail(s)
  \/ \E c \in Chunks : DeleteFile(c)
  \/ DeleteIndex
  \/ \E r \in Readers, c \in Chunks : NewChunkReader(r, c) \/ Verify(r, c)
  \/ \E r \in DOMAIN readers :
       ReadMissing(r) \/ OpenFile(r) \/ NextFrame(r) \/ CloseReader(r)
  \/ Crash

Spec == Init /\ [][Next]_vars

-----------------------------------------------------------------------------
(* Properties *)

\* "Atomic writes (no partial chunks)": what is at a chunk's final path is the
\* whole chunk, whatever crashes and aborts came before.
StoredIsWhole == \A c \in Chunks : file[c] # None => inodes[file[c]] = Whole(c)

\* "No reader ever sees a partial chunk": a read that ends without an error has
\* every frame, also when the chunk is deleted or overwritten meanwhile.  And a
\* VerifyChunk that reads the index and the file at different times never takes
\* a good chunk for a corrupted one, unless the page of its checksum is reused
\* meanwhile, which takes a second update of the index, of any chunk.
ReadIsWhole ==
  \A r \in DOMAIN readers :
    readers[r].done =>
      /\ readers[r].got = Whole(readers[r].chunk)
      /\ pages[r] # "reused" => readers[r].sum \in {None, readers[r].got}

\* The chunk is on disk with the content its checksum was computed from, or
\* neither on disk nor in the index.
InStep(c) == IF file[c] = None THEN ~Exists(c) ELSE index[c] = inodes[file[c]]

\* The inventory that a node reports (List) is what is on its disk, while the
\* process runs and the index can be written; every crash and every failure of
\* the index puts at most one chunk out of step.
IndexedIsStored ==
  mutex = Free => Cardinality({c \in Chunks : ~InStep(c)}) <= crashes + faults

\* Rename never exceeds totalSpace by its own count and refuses no chunk that
\* would fit: usedSpace is at most the size of the files, also after a restart
\* has set it to 0.  Until then and while the index can be written it is that
\* size, and FreeSpace, which a node reports for placement, is the true rest.
SpaceAccounted ==
  mutex = Free =>
    LET used == Cardinality(UNION {{c} \X (1..FileSize(c)) : c \in Chunks})
    IN  /\ usedSpace <= used /\ usedSpace <= TotalSpace
        /\ crashes = 0 /\ faults = 0 => FreeSpace = TotalSpace - used

=============================================================================
