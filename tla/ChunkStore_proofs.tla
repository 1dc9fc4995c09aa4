-------------------------- MODULE ChunkStore_proofs --------------------------
(***************************************************************************)
(* Chunks are stored and read whole, for any number of chunks, frames,     *)
(* streams, readers, crashes and failures of the index, as long as no two  *)
(* streams write the same chunk at a time.                                 *)
(***************************************************************************)
EXTENDS ChunkStore, SequenceTheorems, TLAPS

USE DEF IndexGet

\* The first n frames.
Upto(n) == [i \in 1..n |-> i]

\* They are a sequence of length n.
LEMMA UptoSeq ==
  ASSUME NEW n \in Nat
  PROVE  Upto(n) \in Seq(Nat) /\ Len(Upto(n)) = n
<1>1. Upto(n) \in [1..n -> Nat]
  BY DEF Upto
<1>2. Upto(n) \in Seq(Nat)
  BY <1>1, SeqDef, Zenon
<1>3. DOMAIN Upto(n) = 1..n /\ DOMAIN Upto(n) = 1..Len(Upto(n)) /\ Len(Upto(n)) \in Nat
  BY <1>2, LenProperties, Zenon DEF Upto
<1>4. QED
  BY <1>2, <1>3

\* A frame written at the end of a file.
LEMMA WrittenNext ==
  ASSUME NEW n \in Nat
  PROVE  Written(Upto(n), n + 1) = Upto(n + 1)
<1>1. Len(Upto(n)) = n
  BY UptoSeq, Zenon
<1>2. \A i \in 1..n : Upto(n)[i] = i
  BY Zenon DEF Upto
<1>3. QED
  BY <1>1, <1>2 DEF Written, Upto

\* A frame read at the end of what was read before.
LEMMA AppendNext ==
  ASSUME NEW n \in Nat
  PROVE  Append(Upto(n), n + 1) = Upto(n + 1)
<1>1. /\ Upto(n) \in Seq(Nat) /\ Len(Upto(n)) = n
      /\ Upto(n + 1) \in Seq(Nat) /\ Len(Upto(n + 1)) = n + 1
  BY UptoSeq
<1>2. \A i \in 1..n : Upto(n)[i] = i
  BY Zenon DEF Upto
<1>3. \A i \in 1..(n + 1) : Upto(n + 1)[i] = i
  BY Zenon DEF Upto
<1>4. /\ Append(Upto(n), n + 1) \in Seq(Nat)
      /\ Len(Append(Upto(n), n + 1)) = n + 1
      /\ \A i \in 1..n : Append(Upto(n), n + 1)[i] = i
      /\ Append(Upto(n), n + 1)[n + 1] = n + 1
  BY <1>1, <1>2, AppendProperties
<1>5. \A i \in 1..(n + 1) : Append(Upto(n), n + 1)[i] = Upto(n + 1)[i]
  BY <1>3, <1>4
<1>6. QED
  BY <1>1, <1>4, <1>5, SeqEqual, Zenon

\* A chunk has at least one frame.
LEMMA WholeIs ==
  ASSUME NEW c \in Chunks
  PROVE  /\ Frames[c] \in Nat \ {0} /\ Whole(c) = Upto(Frames[c])
         /\ Whole(c) \in Seq(Nat) /\ Len(Whole(c)) = Frames[c]
BY UptoSeq, FramesAssumption, Zenon DEF Whole, Upto

-----------------------------------------------------------------------------
(* The inductive invariant *)

\* The inodes that a path or an open file can point to.
Live == 1..Len(inodes)

Types ==
  /\ inodes \in Seq(Seq(Nat))
  /\ tmp \in [Chunks -> Live \cup {None}]
  /\ file \in [Chunks -> Live \cup {None}]
  /\ index \in [Chunks -> Seq(Nat) \cup {None}]
  /\ \A s \in DOMAIN writers :
       writers[s] \in [chunk : Chunks, inode : Nat, written : Nat, pc : {"write", "commit", "index"}]
  /\ \A r \in DOMAIN readers :
       readers[r] \in [chunk : Chunks, sum : Seq(Nat) \cup {None}, inode : Live \cup {None},
                       got : Seq(Nat), done : BOOLEAN]

\* What is at a final path, and what the index has the checksum of.
Files ==
  \A c \in Chunks :
    /\ file[c] # None => inodes[file[c]] = Whole(c)
    /\ index[c] # None => index[c] = Whole(c)

\* A file at a temporary path is at no other path, and no reader has opened it.
Apart ==
  \A c \in Chunks : tmp[c] # None =>
    /\ \A d \in Chunks : (tmp[d] = tmp[c] => d = c) /\ file[d] # tmp[c]
    /\ \A r \in DOMAIN readers : readers[r].inode # tmp[c]

\* Until a writer renames its file, the file is at the chunk's temporary path
\* and has what was written so far.
Writes(s) ==
  LET w == writers[s]
  IN  /\ w.pc \in {"write", "commit"} =>
           /\ tmp[w.chunk] # None /\ w.inode = tmp[w.chunk]
           /\ w.written <= Frames[w.chunk]
           /\ inodes[w.inode] = Upto(w.written)
      /\ w.pc = "commit" => w.written = Frames[w.chunk]
      /\ w.pc = "index" => mutex.op = "rename" /\ mutex.chunk = w.chunk

\* Every writer has a chunk of its own.
Writing ==
  /\ \A s, t \in DOMAIN writers : writers[s].chunk = writers[t].chunk => s = t
  /\ \A s \in DOMAIN writers : Writes(s)

\* Within Rename the new file is in place, within Delete the old one is gone.
Locked ==
  \/ mutex = Free
  \/ /\ mutex.op = "rename" /\ mutex.chunk \in Chunks
     /\ file[mutex.chunk] # None
  \/ /\ mutex.op = "delete" /\ mutex.chunk \in Chunks
     /\ file[mutex.chunk] = None

\* A reader has opened a whole file and has read a prefix of it.
Reading ==
  \A r \in DOMAIN readers :
    LET rd == readers[r]
    IN  /\ rd.sum # None => rd.sum = Whole(rd.chunk)
        /\ rd.inode # None => inodes[rd.inode] = Whole(rd.chunk)
        /\ rd.got = Upto(Len(rd.got)) /\ Len(rd.got) <= Frames[rd.chunk]
        /\ rd.done <=> Len(rd.got) = Frames[rd.chunk]

Inv == Types /\ Files /\ Apart /\ Writing /\ Locked /\ Reading

-----------------------------------------------------------------------------
(* The invariant holds at first and after every step *)

\* An empty disk satisfies the invariant.
LEMMA InvInit == Init => Inv
<1> SUFFICES ASSUME Init PROVE Inv
  BY Zenon
<1>1. Types
  BY DEF Init, Types, Live, EmptyRegistry
<1>2. QED
  BY <1>1, Zenon DEF Init, Inv, Files, Apart, Writing, Locked, Reading, EmptyRegistry

\* What is written to a temporary file is seen by no path and no reader.
LEMMA OtherInode ==
  ASSUME Types, Apart, NEW c \in Chunks, tmp[c] # None, NEW content \in Seq(Nat),
         inodes' = [inodes EXCEPT ![tmp[c]] = content]
  PROVE  /\ inodes' \in Seq(Seq(Nat)) /\ Len(inodes') = Len(inodes)
         /\ inodes'[tmp[c]] = content
         /\ \A i \in Live : i # tmp[c] => inodes'[i] = inodes[i]
<1>1. tmp[c] \in 1..Len(inodes)
  BY Zenon DEF Types, Live
<1>2. QED
  BY <1>1, ExceptSeq DEF Types, Live

\* A new temporary file is at the end.
LEMMA NewInode ==
  ASSUME Types, inodes' = Append(inodes, <<>>)
  PROVE  /\ inodes' \in Seq(Seq(Nat)) /\ Len(inodes') = Len(inodes) + 1
         /\ inodes'[Len(inodes) + 1] = <<>>
         /\ \A i \in Live : inodes'[i] = inodes[i]
BY AppendProperties DEF Types, Live

\* A new file is the prefix of length 0.
LEMMA EmptyIs == <<>> \in Seq(Nat) /\ <<>> = Upto(0)
<1>1. <<>> \in Seq(Nat) /\ Len(<<>>) = 0 /\ Upto(0) \in Seq(Nat) /\ Len(Upto(0)) = 0
  BY UptoSeq
<1>2. QED
  BY <1>1, SeqEqual

\* A new writer truncates the temporary file of a chunk that nobody else
\* writes.
LEMMA NewChunkWriterInv ==
  ASSUME Inv, ~SharedChunk, NEW s \in Streams, NEW c \in Chunks, NewChunkWriter(s, c)
  PROVE  Inv'
<1> DEFINE w == [chunk |-> c, inode |-> tmp'[c], written |-> 0, pc |-> "write"]
<1>1. /\ s \notin DOMAIN writers /\ \A t \in DOMAIN writers : writers[t].chunk # c
      /\ writers' = Put(writers, s, w)
      /\ UNCHANGED <<file, index, usedSpace, mutex, readers>>
  BY Zenon DEF NewChunkWriter, store, reading
<1>2. /\ DOMAIN writers' = DOMAIN writers \cup {s} /\ writers'[s] = w
      /\ \A t \in DOMAIN writers : writers'[t] = writers[t]
  BY <1>1, Zenon DEF Put
<1>3. /\ inodes' \in Seq(Seq(Nat)) /\ Len(inodes) <= Len(inodes')
      /\ tmp' \in [Chunks -> 1..Len(inodes') \cup {None}]
      /\ tmp'[c] \in 1..Len(inodes') /\ inodes'[tmp'[c]] = <<>>
      /\ \A i \in Live : i # tmp'[c] => inodes'[i] = inodes[i]
      /\ \A d \in Chunks \ {c} : tmp'[d] = tmp[d]
      /\ tmp[c] # None => tmp'[c] = tmp[c]
      /\ tmp[c] = None => tmp'[c] = Len(inodes) + 1
  <2>1. CASE tmp[c] = None
    <3>1. inodes' = Append(inodes, <<>>) /\ tmp' = [tmp EXCEPT ![c] = Len(inodes) + 1]
      BY <2>1, Zenon DEF NewChunkWriter
    <3>2. Len(inodes) \in Nat /\ tmp \in [Chunks -> 1..Len(inodes) \cup {None}]
      BY DEF Inv, Types, Live
    <3>3. /\ inodes' \in Seq(Seq(Nat)) /\ Len(inodes') = Len(inodes) + 1
          /\ inodes'[Len(inodes) + 1] = <<>>
          /\ \A i \in Live : inodes'[i] = inodes[i]
      BY <3>1, NewInode, Zenon DEF Inv
    <3>4. tmp'[c] = Len(inodes) + 1 /\ \A d \in Chunks \ {c} : tmp'[d] = tmp[d]
      BY <3>1, <3>2, Zenon
    <3>5. tmp' \in [Chunks -> 1..Len(inodes') \cup {None}]
      BY <3>1, <3>2, <3>3
    <3>6. QED
      BY <2>1, <3>2, <3>3, <3>4, <3>5
  <2>2. CASE tmp[c] # None
    <3>1. inodes' = [inodes EXCEPT ![tmp[c]] = <<>>] /\ tmp' = tmp
      BY <2>2, Zenon DEF NewChunkWriter
    <3>2. Len(inodes) \in Nat /\ tmp \in [Chunks -> 1..Len(inodes) \cup {None}]
      BY DEF Inv, Types, Live
    <3>3. /\ inodes' \in Seq(Seq(Nat)) /\ Len(inodes') = Len(inodes)
          /\ inodes'[tmp[c]] = <<>>
          /\ \A i \in Live : i # tmp[c] => inodes'[i] = inodes[i]
      BY <2>2, <3>1, OtherInode, EmptyIs, Zenon DEF Inv
    <3>4. QED
      BY <2>2, <3>1, <3>2, <3>3
  <2>3. QED
    BY <2>1, <2>2, Zenon
<1> HIDE DEF w
<1>4. w.chunk = c /\ w.inode = tmp'[c] /\ w.written = 0 /\ w.pc = "write"
      /\ w \in [chunk : Chunks, inode : Nat, written : Nat, pc : {"write", "commit", "index"}]
  BY <1>3 DEF w
<1>5. Types'
  <2>1. Live \subseteq 1..Len(inodes')
    BY <1>3 DEF Inv, Types, Live
  <2>2. file' \in [Chunks -> 1..Len(inodes') \cup {None}]
    BY <1>1, <2>1, Zenon DEF Inv, Types
  <2>3. \A r \in DOMAIN readers' :
          readers'[r] \in [chunk : Chunks, sum : Seq(Nat) \cup {None},
                          inode : 1..Len(inodes') \cup {None}, got : Seq(Nat), done : BOOLEAN]
    BY <1>1, <2>1, Zenon DEF Inv, Types
  <2>4. \A t \in DOMAIN writers' :
          writers'[t] \in [chunk : Chunks, inode : Nat, written : Nat,
                          pc : {"write", "commit", "index"}]
    BY <1>2, <1>4, Zenon DEF Inv, Types
  <2>5. QED
    BY <1>1, <1>3, <2>2, <2>3, <2>4, Zenon DEF Inv, Types, Live
<1>6. Apart'
  <2>1. \A i \in Live : i # Len(inodes) + 1
    BY DEF Inv, Types, Live
  <2>2. \A d \in Chunks : tmp[d] \in Live \cup {None} /\ file[d] \in Live \cup {None}
    BY Zenon DEF Inv, Types
  <2>3. \A r \in DOMAIN readers : readers[r].inode \in Live \cup {None}
    BY Zenon DEF Inv, Types
  <2>4. Len(inodes) + 1 # None
    BY NoneAssumption DEF Inv, Types
  <2>5. CASE tmp[c] = None
    <3>1. tmp'[c] = Len(inodes) + 1 /\ \A d \in Chunks \ {c} : tmp'[d] = tmp[d]
      BY <1>3, <2>5, Zenon
    <3>2. SUFFICES ASSUME NEW d \in Chunks, tmp'[d] # None
                   PROVE  /\ \A e \in Chunks : (tmp'[e] = tmp'[d] => e = d) /\ file[e] # tmp'[d]
                          /\ \A r \in DOMAIN readers : readers[r].inode # tmp'[d]
      BY <1>1, Zenon DEF Apart
    <3>3. CASE d = c
      BY <2>1, <2>2, <2>3, <2>4, <3>1, <3>3, Zenon
    <3>4. CASE d # c
      BY <2>1, <2>2, <3>1, <3>2, <3>4, ZenonT(30) DEF Inv, Apart
    <3>5. QED
      BY <3>3, <3>4, Zenon
  <2>6. CASE tmp[c] # None
    <3>1. \A d \in Chunks : tmp'[d] = tmp[d]
      BY <1>3, <2>6, Zenon
    <3>2. file' = file /\ readers' = readers
      BY <1>1, Zenon
    <3>3. QED
      BY <3>1, <3>2, ZenonT(30) DEF Inv, Apart
  <2>7. QED
    BY <2>5, <2>6, Zenon
<1>7. Files' /\ Reading'
  <2>1. \A d \in Chunks : file[d] # None => file[d] # tmp'[c] /\ file[d] \in Live
    BY <1>1, <1>6, <1>3, NoneAssumption DEF Inv, Types, Apart
  <2>2. \A r \in DOMAIN readers :
          readers[r].inode # None => readers[r].inode # tmp'[c] /\ readers[r].inode \in Live
    BY <1>1, <1>6, <1>3, NoneAssumption, Zenon DEF Inv, Types, Apart
  <2>3. Files'
    BY <1>1, <1>3, <2>1, Zenon DEF Inv, Files, Whole
  <2>4. Reading'
    <3>1. readers' = readers /\ \A r \in DOMAIN readers :
            readers[r].inode # None => inodes'[readers[r].inode] = inodes[readers[r].inode]
      BY <1>1, <1>3, <2>2, Zenon
    <3>2. QED
      BY <3>1, Zenon DEF Inv, Reading, Whole, Upto
  <2>5. QED
    BY <2>3, <2>4, Zenon
<1>8. Writing'
  <2>1. \A t, u \in DOMAIN writers' : writers'[t].chunk = writers'[u].chunk => t = u
    BY <1>1, <1>2, <1>4 DEF Inv, Writing, Writes
  <2>2. ASSUME NEW t \in DOMAIN writers, writers[t].pc \in {"write", "commit"}
        PROVE  inodes'[writers[t].inode] = inodes[writers[t].inode] /\ tmp'[writers[t].chunk] = tmp[writers[t].chunk]
    <3>1. writers[t].chunk \in Chunks /\ writers[t].chunk # c
      BY <1>1, Zenon DEF Inv, Types
    <3>2. writers[t].inode = tmp[writers[t].chunk] /\ tmp[writers[t].chunk] # None
      BY <2>2, Zenon DEF Inv, Writing, Writes
    <3>3. tmp'[writers[t].chunk] # tmp'[c]
      BY <1>3, <1>6, <3>1, NoneAssumption, SMTT(30) DEF Apart
    <3>4. QED
      BY <1>3, <3>1, <3>2, <3>3, Zenon DEF Inv, Types
  <2>3. Frames[c] \in Nat
    BY WholeIs, Zenon
  <2>4. /\ tmp'[c] # None /\ w.written <= Frames[c] /\ inodes'[w.inode] = Upto(w.written)
        /\ w.pc # "commit" /\ w.pc # "index"
    BY <1>3, <1>4, <2>3, EmptyIs, NoneAssumption
  <2>5. \A t \in DOMAIN writers' : t = s \/ (t \in DOMAIN writers /\ writers'[t] = writers[t])
    BY <1>2, Zenon
  <2>6. QED
    BY <1>1, <1>2, <1>4, <2>1, <2>2, <2>4, <2>5 DEF Inv, Writing, Writes, Upto
<1>9. Locked'
  BY <1>1, Zenon DEF Inv, Locked, Free
<1>10. QED
  BY <1>5, <1>6, <1>7, <1>8, <1>9, Zenon DEF Inv


\* The file of a writer goes from one prefix of the chunk to the next.
LEMMA WriteFrameInv ==
  ASSUME Inv, NEW s \in DOMAIN writers, WriteFrame(s)
  PROVE  Inv'
<1> DEFINE c == writers[s].chunk
           k == writers[s].written + 1
<1>1. /\ c \in Chunks /\ writers[s].written \in Nat
      /\ tmp[c] # None /\ writers[s].inode = tmp[c]
      /\ inodes[tmp[c]] = Upto(writers[s].written)
  BY Zenon DEF Inv, Types, Writing, Writes, WriteFrame
<1>2. /\ writers[s].pc = "write" /\ k <= Frames[c]
      /\ inodes' = [inodes EXCEPT ![tmp[c]] = Written(inodes[tmp[c]], k)]
      /\ writers' = [writers EXCEPT ![s].written = k]
      /\ UNCHANGED <<tmp, file, index, usedSpace, mutex, readers>>
  BY <1>1, Zenon DEF WriteFrame, store, reading
<1>3. Written(inodes[tmp[c]], k) = Upto(k) /\ Upto(k) \in Seq(Nat) /\ k \in Nat
  <2>1. Written(Upto(writers[s].written), k) = Upto(k)
    BY <1>1, WrittenNext, Zenon
  <2>2. k \in Nat
    BY <1>1
  <2>3. Upto(k) \in Seq(Nat)
    BY <2>2, UptoSeq, Zenon
  <2>4. QED
    BY <1>1, <2>1, <2>2, <2>3, Zenon
<1> HIDE DEF k
<1>4. /\ inodes' \in Seq(Seq(Nat)) /\ Len(inodes') = Len(inodes)
      /\ inodes'[tmp[c]] = Upto(k)
      /\ \A i \in Live : i # tmp[c] => inodes'[i] = inodes[i]
  BY <1>1, <1>2, <1>3, OtherInode, Zenon DEF Inv
<1>5. /\ DOMAIN writers' = DOMAIN writers
      /\ \A t \in DOMAIN writers \ {s} : writers'[t] = writers[t]
      /\ writers'[s] = [writers[s] EXCEPT !.written = k]
  BY <1>2, Zenon
<1>6. /\ writers'[s] \in [chunk : Chunks, inode : Nat, written : Nat, pc : {"write", "commit", "index"}]
      /\ writers'[s].chunk = c /\ writers'[s].inode = writers[s].inode
      /\ writers'[s].written = k /\ writers'[s].pc = "write"
  <2>1. writers[s] \in [chunk : Chunks, inode : Nat, written : Nat, pc : {"write", "commit", "index"}]
    BY Zenon DEF Inv, Types
  <2>2. QED
    BY <1>2, <1>3, <1>5, <2>1, Zenon
<1>7. Types'
  <2>1. \A t \in DOMAIN writers' :
          writers'[t] \in [chunk : Chunks, inode : Nat, written : Nat, pc : {"write", "commit", "index"}]
    BY <1>5, <1>6, Zenon DEF Inv, Types
  <2>2. QED
    BY <1>2, <1>4, <2>1, Zenon DEF Inv, Types, Live
<1>8. Apart'
  BY <1>2, Zenon DEF Inv, Apart
<1>9. Files'
  <2>1. \A d \in Chunks : file[d] # None => file[d] \in Live /\ file[d] # tmp[c]
    BY <1>1, Zenon DEF Inv, Types, Apart
  <2>2. QED
    BY <1>2, <1>4, <2>1, Zenon DEF Inv, Files, Whole
<1>10. Reading'
  <2>1. \A r \in DOMAIN readers :
          readers[r].inode # None => readers[r].inode \in Live /\ readers[r].inode # tmp[c]
    BY <1>1, Zenon DEF Inv, Types, Apart
  <2>2. readers' = readers /\ \A r \in DOMAIN readers :
          readers[r].inode # None => inodes'[readers[r].inode] = inodes[readers[r].inode]
    BY <1>2, <1>4, <2>1, Zenon
  <2>3. QED
    BY <2>2, Zenon DEF Inv, Reading, Whole, Upto
<1>11. Writing'
  <2>1. \A t, u \in DOMAIN writers' : writers'[t].chunk = writers'[u].chunk => t = u
    BY <1>5, <1>6 DEF Inv, Writing, Writes
  <2>2. \A t \in DOMAIN writers \ {s} : writers[t].pc \in {"write", "commit"} =>
          inodes'[writers[t].inode] = inodes[writers[t].inode]
    <3>1. ASSUME NEW t \in DOMAIN writers \ {s}, writers[t].pc \in {"write", "commit"}
          PROVE  inodes'[writers[t].inode] = inodes[writers[t].inode]
      <4>1. writers[t].chunk \in Chunks /\ writers[t].chunk # c
        BY Zenon DEF Inv, Types, Writing, Writes
      <4>2. writers[t].inode = tmp[writers[t].chunk] /\ tmp[writers[t].chunk] # None
        BY <3>1, Zenon DEF Inv, Writing, Writes
      <4>3. tmp[writers[t].chunk] # tmp[c]
        BY <1>1, <4>1, <4>2, Zenon DEF Inv, Apart
      <4>4. QED
        BY <1>4, <4>1, <4>2, <4>3, Zenon DEF Inv, Types
    <3>2. QED
      BY <3>1, Zenon
  <2>3. \A t \in DOMAIN writers' : t = s \/ (t \in DOMAIN writers \ {s} /\ writers'[t] = writers[t])
    BY <1>5, Zenon
  <2>4. QED
    <3>1. ASSUME NEW t \in DOMAIN writers \ {s}, writers'[t] = writers[t]
          PROVE  Writes(t)'
      BY <1>2, <2>2, <3>1, Zenon DEF Inv, Writing, Writes, Upto
    <3>2. Writes(s)'
      BY <1>1, <1>2, <1>4, <1>6, Zenon DEF Writes, Upto
    <3>3. QED
      BY <2>1, <2>3, <3>1, <3>2, Zenon DEF Writing
<1>12. Locked'
  BY <1>2, Zenon DEF Inv, Locked, Free
<1>13. QED
  BY <1>7, <1>8, <1>9, <1>10, <1>11, <1>12, Zenon DEF Inv

\* A writer that gives up removes its temporary file, and nobody else's.
LEMMA AbortInv ==
  ASSUME Inv, NEW s \in DOMAIN writers, Abort(s),
         UNCHANGED <<inodes, file, index, readers>>,
         \/ UNCHANGED mutex
         \/ mutex' = Free /\ writers[s].pc = "index"
  PROVE  Inv'
<1> DEFINE c == writers[s].chunk
<1>1. /\ DOMAIN writers' = DOMAIN writers \ {s}
      /\ \A t \in DOMAIN writers' : writers'[t] = writers[t]
  BY Zenon DEF Abort, Delete
<1>2. /\ c \in Chunks /\ tmp' \in [Chunks -> Live \cup {None}] /\ tmp'[c] = None
      /\ \A d \in Chunks \ {c} : tmp'[d] = tmp[d]
  BY Zenon DEF Abort, Inv, Types
<1>3. \A t \in DOMAIN writers' : writers[t].chunk \in Chunks \ {c}
  BY <1>1, Zenon DEF Inv, Types, Writing, Writes
<1>4. Types'
  BY <1>1, <1>2, Zenon DEF Inv, Types, Live
<1>5. Files' /\ Reading'
  BY Zenon DEF Inv, Files, Reading, Whole, Upto
<1>6. Apart'
  BY <1>2 DEF Inv, Apart
<1>7. mutex' # mutex => \A t \in DOMAIN writers' : writers[t].pc # "index"
  BY <1>1, <1>3 DEF Inv, Writing, Writes
<1>8. Writing'
  BY <1>1, <1>2, <1>3, <1>7, SMTT(30) DEF Inv, Writing, Writes, Upto
<1>9. Locked'
  BY Zenon DEF Inv, Locked, Free
<1>10. QED
  BY <1>4, <1>5, <1>6, <1>8, <1>9, Zenon DEF Inv

\* A writer that is dropped leaves its temporary file behind.
LEMMA EndStreamInv ==
  ASSUME Inv, NEW s \in DOMAIN writers, EndStream(s)
  PROVE  Inv'
<1>1. /\ writers' = Delete(writers, s) /\ writers[s].pc = "write"
      /\ UNCHANGED <<inodes, tmp, file, index, mutex, readers>>
  BY Zenon DEF EndStream, disk, store, reading
<1>2. /\ DOMAIN writers' = DOMAIN writers \ {s}
      /\ \A t \in DOMAIN writers' : writers'[t] = writers[t]
  BY <1>1, Zenon DEF Delete
<1>3. Types'
  BY <1>1, <1>2, Zenon DEF Inv, Types, Live
<1>4. Files' /\ Apart' /\ Locked' /\ Reading'
  BY <1>1, ZenonT(30) DEF Inv, Files, Apart, Locked, Reading, Whole, Upto, Free
<1>5. Writing'
  BY <1>1, <1>2 DEF Inv, Writing, Writes, Upto
<1> QED BY <1>3, <1>4, <1>5, Zenon DEF Inv

\* A writer whose hash is right has written the whole chunk.
LEMMA FinalizeInv ==
  ASSUME Inv, NEW s \in DOMAIN writers, Finalize(s)
  PROVE  Inv'
<1>1. /\ writers[s].pc = "write" /\ writers[s].written = Frames[writers[s].chunk]
      /\ writers' = [writers EXCEPT ![s].pc = "commit"]
      /\ UNCHANGED <<inodes, tmp, file, index, usedSpace, mutex, readers>>
  BY Zenon DEF Finalize, disk, store, reading
<1>2. writers[s] \in [chunk : Chunks, inode : Nat, written : Nat, pc : {"write", "commit", "index"}]
  BY Zenon DEF Inv, Types
<1>3. /\ DOMAIN writers' = DOMAIN writers
      /\ \A t \in DOMAIN writers \ {s} : writers'[t] = writers[t]
      /\ writers'[s] \in [chunk : Chunks, inode : Nat, written : Nat, pc : {"write", "commit", "index"}]
      /\ writers'[s].chunk = writers[s].chunk /\ writers'[s].inode = writers[s].inode
      /\ writers'[s].written = writers[s].written /\ writers'[s].pc = "commit"
  BY <1>1, <1>2, Zenon
<1>4. Types'
  BY <1>1, <1>3, Zenon DEF Inv, Types, Live
<1>5. Files' /\ Apart' /\ Locked' /\ Reading'
  BY <1>1, ZenonT(30) DEF Inv, Files, Apart, Locked, Reading, Whole, Upto, Free
<1>6. Writing'
  BY <1>1, <1>3 DEF Inv, Writing, Writes, Upto
<1>7. QED
  BY <1>4, <1>5, <1>6, Zenon DEF Inv


\* The file that Rename puts in place is whole.
LEMMA RenameFileInv ==
  ASSUME Inv, NEW s \in DOMAIN writers, RenameFile(s)
  PROVE  Inv'
<1> DEFINE c == writers[s].chunk
<1>1. /\ writers[s].pc = "commit" /\ mutex = Free /\ tmp[c] # None
      /\ mutex'.op = "rename" /\ mutex'.chunk = c
      /\ file' = [file EXCEPT ![c] = tmp[c]]
      /\ tmp' = [tmp EXCEPT ![c] = None]
      /\ writers' = [writers EXCEPT ![s].pc = "index"]
      /\ UNCHANGED <<inodes, index, readers>>
  BY Zenon DEF RenameFile, reading
<1>2. writers[s] \in [chunk : Chunks, inode : Nat, written : Nat, pc : {"write", "commit", "index"}]
  BY Zenon DEF Inv, Types
<1>3. /\ DOMAIN writers' = DOMAIN writers
      /\ \A t \in DOMAIN writers \ {s} : writers'[t] = writers[t]
      /\ writers'[s] \in [chunk : Chunks, inode : Nat, written : Nat, pc : {"write", "commit", "index"}]
      /\ writers'[s].chunk = c /\ writers'[s].pc = "index"
  BY <1>1, <1>2, Zenon
<1>4. c \in Chunks /\ inodes[tmp[c]] = Whole(c)
  BY <1>1, <1>2, WholeIs DEF Inv, Writing, Writes
<1>5. /\ tmp' \in [Chunks -> Live \cup {None}] /\ file' \in [Chunks -> Live \cup {None}]
      /\ tmp'[c] = None /\ file'[c] = tmp[c]
      /\ \A d \in Chunks \ {c} : tmp'[d] = tmp[d] /\ file'[d] = file[d]
  BY <1>1, <1>4, Zenon DEF Inv, Types
<1>6. Types'
  <2>1. \A t \in DOMAIN writers' :
          writers'[t] \in [chunk : Chunks, inode : Nat, written : Nat, pc : {"write", "commit", "index"}]
    BY <1>3, Zenon DEF Inv, Types
  <2>2. QED
    BY <1>1, <1>5, <2>1, Zenon DEF Inv, Types, Live
<1>7. Files'
  BY <1>1, <1>4, <1>5, Zenon DEF Inv, Files, Whole
<1>8. Apart'
  BY <1>1, <1>4, <1>5 DEF Inv, Apart
<1>9. Writing'
  <2>1. ASSUME NEW t \in DOMAIN writers \ {s} PROVE Writes(t)'
    <3>1. writers[t].chunk \in Chunks \ {c} /\ writers[t].pc # "index"
      BY <1>1, Zenon DEF Inv, Types, Writing, Writes, Free
    <3>2. QED
      BY <1>1, <1>3, <1>5, <3>1 DEF Inv, Writing, Writes, Upto
  <2>2. Writes(s)'
    BY <1>1, <1>3, Zenon DEF Writes
  <2>3. QED
    BY <1>3, <2>1, <2>2, Zenon DEF Inv, Writing
<1>10. Locked'
  BY <1>1, <1>4, <1>5, Zenon DEF Locked
<1>11. Reading'
  BY <1>1, Zenon DEF Inv, Reading, Whole, Upto
<1>12. QED
  BY <1>6, <1>7, <1>8, <1>9, <1>10, <1>11, Zenon DEF Inv

\* The checksum that Rename puts into the index is that of the whole chunk.
LEMMA RenameIndexInv ==
  ASSUME Inv, NEW s \in DOMAIN writers, RenameIndex(s)
  PROVE  Inv'
<1> DEFINE c == mutex.chunk
<1>1. /\ writers[s].pc = "index" /\ mutex' = Free
      /\ index' = [index EXCEPT ![c] = inodes[file[c]]]
      /\ writers' = Delete(writers, s)
      /\ UNCHANGED <<inodes, tmp, file, readers>>
  BY Zenon DEF RenameIndex, IndexPut, disk
<1>2. c \in Chunks /\ c = writers[s].chunk /\ file[c] # None
  BY <1>1 DEF Inv, Types, Writing, Writes, Locked, Free
<1>3. inodes[file[c]] = Whole(c) /\ Whole(c) \in Seq(Nat)
  BY <1>2, WholeIs, Zenon DEF Inv, Files
<1>4. /\ index' \in [Chunks -> Seq(Nat) \cup {None}] /\ index'[c] = Whole(c)
      /\ \A d \in Chunks \ {c} : index'[d] = index[d]
  BY <1>1, <1>2, <1>3, Zenon DEF Inv, Types
<1>5. /\ DOMAIN writers' = DOMAIN writers \ {s}
      /\ \A t \in DOMAIN writers' : writers'[t] = writers[t]
  BY <1>1, Zenon DEF Delete
<1>6. Types'
  BY <1>1, <1>4, <1>5, Zenon DEF Inv, Types, Live
<1>7. Files'
  BY <1>1, <1>4, Zenon DEF Inv, Files, Whole
<1>8. Apart' /\ Reading' /\ Locked'
  BY <1>1, Zenon DEF Inv, Apart, Reading, Locked, Whole, Upto
<1>9. Writing'
  BY <1>1, <1>2, <1>5 DEF Inv, Writing, Writes, Upto
<1>10. QED
  BY <1>6, <1>7, <1>8, <1>9, Zenon DEF Inv

\* A writer that updates the index holds the mutex.
LEMMA IndexLocked ==
  ASSUME Inv, NEW s \in DOMAIN writers, writers[s].pc = "index"
  PROVE  mutex # Free /\ mutex.op = "rename" /\ mutex.chunk \in Chunks /\ file[mutex.chunk] # None
<1>1. mutex.op = "rename"
  BY Zenon DEF Inv, Writing, Writes
<1>2. mutex # Free
  BY <1>1 DEF Free
<1>3. mutex.chunk \in Chunks /\ file[mutex.chunk] # None
  <2>1. Free.op # "rename" /\ "rename" # "delete"
    BY Zenon DEF Free
  <2> QED BY <1>1, <1>2, <2>1, Zenon DEF Inv, Locked
<1> QED BY <1>1, <1>2, <1>3, Zenon

\* Delete takes a file from its path, and readers keep it.
LEMMA DeleteFileInv ==
  ASSUME Inv, NEW c \in Chunks, DeleteFile(c)
  PROVE  Inv'
<1>1. /\ mutex = Free /\ mutex'.op = "delete" /\ mutex'.chunk = c
      /\ file' = [file EXCEPT ![c] = None]
      /\ UNCHANGED <<inodes, tmp, index, writers, readers>>
  BY Zenon DEF DeleteFile, reading
<1>2. /\ file' \in [Chunks -> Live \cup {None}] /\ file'[c] = None
      /\ \A d \in Chunks \ {c} : file'[d] = file[d]
  BY <1>1, Zenon DEF Inv, Types
<1>3. \A s \in DOMAIN writers : writers[s].pc # "index"
  BY <1>1, Zenon DEF Inv, Writing, Writes, Free
<1>4. Types' /\ Files' /\ Locked' /\ Reading'
  BY <1>1, <1>2, Zenon DEF Inv, Types, Live, Files, Locked, Reading, Whole, Upto
<1>5. Apart'
  BY <1>1, <1>2 DEF Inv, Apart
<1>6. Writing'
  BY <1>1, <1>3, Zenon DEF Inv, Writing, Writes, Upto
<1>7. QED
  BY <1>4, <1>5, <1>6, Zenon DEF Inv

\* Delete then takes the entry from the index, or fails to.
LEMMA DeleteIndexInv ==
  ASSUME Inv, DeleteIndex
  PROVE  Inv'
<1>1. /\ mutex.op = "delete" /\ mutex' = Free
      /\ index' = index \/ index' = [index EXCEPT ![mutex.chunk] = None]
      /\ UNCHANGED <<inodes, tmp, file, writers, readers>>
  BY Zenon DEF DeleteIndex, IndexDelete, disk
<1>2. /\ index' \in [Chunks -> Seq(Nat) \cup {None}]
      /\ \A d \in Chunks : index'[d] = None \/ index'[d] = index[d]
  BY <1>1, Zenon DEF Inv, Types
<1>3. \A s \in DOMAIN writers : writers[s].pc # "index"
  BY <1>1, Zenon DEF Inv, Writing, Writes
<1>4. Types' /\ Apart' /\ Reading' /\ Locked'
  BY <1>1, <1>2, Zenon DEF Inv, Types, Live, Apart, Reading, Locked, Whole, Upto
<1>5. Files'
  BY <1>1, <1>2, Zenon DEF Inv, Files, Whole
<1>6. Writing'
  BY <1>1, <1>3, Zenon DEF Inv, Writing, Writes, Upto
<1>7. QED
  BY <1>4, <1>5, <1>6, Zenon DEF Inv


\* What a reader has seen, taken alone.
ReaderOK(rd) ==
  /\ rd \in [chunk : Chunks, sum : Seq(Nat) \cup {None}, inode : Live \cup {None},
             got : Seq(Nat), done : BOOLEAN]
  /\ rd.sum # None => rd.sum = Whole(rd.chunk)
  /\ rd.inode # None => inodes[rd.inode] = Whole(rd.chunk)
  /\ rd.got = Upto(Len(rd.got)) /\ Len(rd.got) <= Frames[rd.chunk]
  /\ rd.done <=> Len(rd.got) = Frames[rd.chunk]
  /\ \A c \in Chunks : tmp[c] # None => rd.inode # tmp[c]

\* A step of one reader, which changes nothing else.
LEMMA ReaderInv ==
  ASSUME Inv, UNCHANGED <<disk, index, mutex, writers>>, NEW r,
         DOMAIN readers' \subseteq DOMAIN readers \cup {r},
         \A q \in DOMAIN readers' : q # r => readers'[q] = readers[q],
         r \in DOMAIN readers' => ReaderOK(readers'[r])
  PROVE  Inv'
<1>1. \A q \in DOMAIN readers : ReaderOK(readers[q])
  BY SMTT(30) DEF Inv, Types, Apart, Reading, ReaderOK
<1>2. \A q \in DOMAIN readers' : ReaderOK(readers'[q])
  BY <1>1, Zenon
<1>3. Types'
  BY <1>2, Zenon DEF Inv, Types, Live, ReaderOK, disk
<1>4. Apart'
  BY <1>2, Zenon DEF Inv, Apart, ReaderOK, disk
<1>5. Reading'
  BY <1>2, Zenon DEF Reading, ReaderOK, Whole, Upto, disk
<1>6. Files' /\ Writing' /\ Locked'
  BY Zenon DEF Inv, Files, Writing, Writes, Locked, Whole, Upto, Free, disk
<1>7. QED
  BY <1>3, <1>4, <1>5, <1>6, Zenon DEF Inv

\* A reader or verifier starts with the checksum that the index has.
LEMMA LookupInv ==
  ASSUME Inv, NEW r \in Readers, NEW c \in Chunks, NEW sum \in {None, index[c]}, Lookup(r, c, sum)
  PROVE  Inv'
<1> DEFINE rd == [chunk |-> c, sum |-> sum, inode |-> None, got |-> <<>>, done |-> FALSE]
<1>1. UNCHANGED <<disk, index, mutex, writers>> /\ readers' = Put(readers, r, rd)
  BY Zenon DEF Lookup, store
<1>2. /\ DOMAIN readers' = DOMAIN readers \cup {r} /\ readers'[r] = rd
      /\ \A q \in DOMAIN readers' : q # r => readers'[q] = readers[q]
  BY <1>1, Zenon DEF Put
<1>3. ReaderOK(rd)
  <2>1. sum \in Seq(Nat) \cup {None} /\ (sum # None => sum = Whole(c))
    BY Zenon DEF Inv, Types, Files
  <2>2. <<>> \in Seq(Nat) /\ Len(<<>>) = 0 /\ <<>> = Upto(0) /\ Frames[c] \in Nat \ {0}
    BY EmptyIs, WholeIs, Zenon
  <2>3. QED
    BY <2>1, <2>2 DEF ReaderOK
<1> HIDE DEF rd
<1>4. QED
  BY <1>1, <1>2, <1>3, ReaderInv, Zenon

\* A reader that ends.
LEMMA ReaderEndsInv ==
  ASSUME Inv, UNCHANGED <<disk, index, mutex, writers>>, NEW r, readers' = Delete(readers, r)
  PROVE  Inv'
<1>1. /\ DOMAIN readers' = DOMAIN readers \ {r}
      /\ \A q \in DOMAIN readers' : readers'[q] = readers[q]
  BY Zenon DEF Delete
<1>2. QED
  BY <1>1, ReaderInv, Zenon

\* A reader opens a file that is whole, or finds none.
LEMMA OpenFileInv ==
  ASSUME Inv, NEW r \in DOMAIN readers, OpenFile(r)
  PROVE  Inv'
<1> DEFINE f == file[readers[r].chunk]
<1>1. UNCHANGED <<disk, index, mutex, writers>>
  BY Zenon DEF OpenFile, store
<1>2. CASE f = None
  BY <1>1, <1>2, ReaderEndsInv, Zenon DEF OpenFile, EndReader
<1>3. CASE f # None
  <2>1. readers' = [readers EXCEPT ![r].inode = f]
    BY <1>3, Zenon DEF OpenFile
  <2>2. ReaderOK(readers[r]) /\ readers[r].chunk \in Chunks
    BY Zenon DEF Inv, Types, Apart, Reading, ReaderOK
  <2>3. f \in Live /\ inodes[f] = Whole(readers[r].chunk) /\ \A c \in Chunks : tmp[c] # None => f # tmp[c]
    BY <1>3, <2>2, Zenon DEF Inv, Types, Files, Apart
  <2>4. ReaderOK(readers'[r])
    <3>1. readers'[r] = [readers[r] EXCEPT !.inode = f]
      BY <2>1, Zenon
    <3>2. QED
      BY <2>2, <2>3, <3>1, Zenon DEF ReaderOK
  <2>5. DOMAIN readers' = DOMAIN readers /\ \A q \in DOMAIN readers' : q # r => readers'[q] = readers[q]
    BY <2>1, Zenon
  <2>6. QED
    BY <1>1, <2>4, <2>5, ReaderInv, Zenon
<1>4. QED
  BY <1>2, <1>3, Zenon

\* A reader goes from one prefix of the chunk to the next, and ends at its end.
LEMMA NextFrameInv ==
  ASSUME Inv, NEW r \in DOMAIN readers, NextFrame(r)
  PROVE  Inv'
<1> DEFINE rd == readers[r]
           F == Frames[rd.chunk]
           n == Len(rd.got)
           content == inodes[rd.inode]
<1>1. UNCHANGED <<disk, index, mutex, writers>> /\ rd.inode # None /\ ~rd.done
  BY Zenon DEF NextFrame, store
<1>2. ReaderOK(rd) /\ rd.chunk \in Chunks
  BY Zenon DEF Inv, Types, Apart, Reading, ReaderOK
<1>3. n \in Nat /\ F \in Nat /\ n < F /\ rd.got = Upto(n) /\ content = Upto(F)
      /\ Len(content) = F /\ content[n + 1] = n + 1
  <2>1. n \in Nat /\ F \in Nat /\ rd.got = Upto(n) /\ content = Upto(F) /\ n < F
    BY <1>1, <1>2, WholeIs DEF ReaderOK
  <2>2. Len(Upto(F)) = F
    BY <2>1, UptoSeq, Zenon
  <2>3. Upto(F)[n + 1] = n + 1
    BY <2>1 DEF Upto
  <2>4. QED
    BY <2>1, <2>2, <2>3, Zenon
<1>4. Append(rd.got, content[n + 1]) = Upto(n + 1) /\ n + 1 <= Len(content)
  <2> HIDE DEF n, F, content, rd
  <2>1. Append(Upto(n), n + 1) = Upto(n + 1)
    BY <1>3, AppendNext, Zenon
  <2>2. QED
    BY <1>3, <2>1
<1>5. readers' = [readers EXCEPT ![r].got = Upto(n + 1), ![r].done = (n + 1 >= F)]
  BY <1>3, <1>4, Zenon DEF NextFrame
<1>6. Upto(n + 1) \in Seq(Nat) /\ Len(Upto(n + 1)) = n + 1
  BY <1>3, UptoSeq
<1>7. ReaderOK(readers'[r])
  <2> HIDE DEF n, F, content
  <2>1. /\ readers'[r] \in [chunk : Chunks, sum : Seq(Nat) \cup {None}, inode : Live \cup {None},
                            got : Seq(Nat), done : BOOLEAN]
        /\ readers'[r].chunk = rd.chunk /\ readers'[r].sum = rd.sum /\ readers'[r].inode = rd.inode
        /\ readers'[r].got = Upto(n + 1) /\ readers'[r].done = (n + 1 >= F)
    <3>1. rd \in [chunk : Chunks, sum : Seq(Nat) \cup {None}, inode : Live \cup {None},
                 got : Seq(Nat), done : BOOLEAN]
      BY <1>2, Zenon DEF ReaderOK
    <3>2. (n + 1 >= F) \in BOOLEAN
      OBVIOUS
    <3>3. readers'[r] = [rd EXCEPT !.got = Upto(n + 1), !.done = (n + 1 >= F)]
      BY <1>5, Zenon
    <3> HIDE DEF rd
    <3>4. QED
      BY <1>6, <3>1, <3>2, <3>3, Zenon
  <2>2. n + 1 <= F /\ (n + 1 >= F <=> n + 1 = F)
    BY <1>3
  <2>3. Len(readers'[r].got) = n + 1 /\ readers'[r].got = Upto(Len(readers'[r].got))
    BY <1>6, <2>1, Zenon
  <2>4. /\ Len(readers'[r].got) <= Frames[readers'[r].chunk]
        /\ readers'[r].done <=> Len(readers'[r].got) = Frames[readers'[r].chunk]
    BY <2>1, <2>2, <2>3, Zenon DEF F
  <2>5. QED
    BY <1>2, <2>1, <2>3, <2>4, Zenon DEF ReaderOK
<1>8. DOMAIN readers' = DOMAIN readers /\ \A q \in DOMAIN readers' : q # r => readers'[q] = readers[q]
  BY <1>5, Zenon
<1>9. QED
  BY <1>1, <1>7, <1>8, ReaderInv, Zenon

\* A crash leaves the files and the index as they are.
LEMMA CrashInv ==
  ASSUME Inv, Crash
  PROVE  Inv'
<1>1. /\ DOMAIN writers' = {} /\ DOMAIN readers' = {} /\ mutex' = Free
      /\ UNCHANGED <<inodes, tmp, file, index>>
  BY Zenon DEF Crash, EmptyRegistry, disk
<1>2. QED
  BY <1>1, Zenon DEF Inv, Types, Live, Files, Apart, Writing, Locked, Reading, Whole


\* Every step keeps the invariant, if no two streams write one chunk.
LEMMA InvNext ==
  ASSUME ~SharedChunk, Inv, [Next]_vars
  PROVE  Inv'
<1>1. ASSUME NEW s \in Streams, NEW c \in Chunks, NewChunkWriter(s, c) PROVE Inv'
  BY <1>1, NewChunkWriterInv, Zenon
<1>2. ASSUME NEW s \in DOMAIN writers, WriteFrame(s) PROVE Inv'
  BY <1>2, WriteFrameInv, Zenon
<1>3. ASSUME NEW s \in DOMAIN writers, AbortStream(s) PROVE Inv'
  BY <1>3, AbortInv, Zenon DEF AbortStream, store, reading
<1>4. ASSUME NEW s \in DOMAIN writers, EndStream(s) \/ Finalize(s) PROVE Inv'
  BY <1>4, EndStreamInv, FinalizeInv, Zenon
<1>5. ASSUME NEW s \in DOMAIN writers, RenameFail(s) PROVE Inv'
  BY <1>5, AbortInv, Zenon DEF RenameFail, store, reading
<1>6. ASSUME NEW s \in DOMAIN writers, RenameFile(s) PROVE Inv'
  BY <1>6, RenameFileInv, Zenon
<1>7. ASSUME NEW s \in DOMAIN writers, RenameIndex(s) PROVE Inv'
  BY <1>7, RenameIndexInv, Zenon
<1>8. ASSUME NEW s \in DOMAIN writers, RenameIndexFail(s) PROVE Inv'
  BY <1>8, AbortInv, Zenon DEF RenameIndexFail
<1>9. ASSUME NEW c \in Chunks, DeleteFile(c) PROVE Inv'
  BY <1>9, DeleteFileInv, Zenon
<1>10. CASE DeleteIndex
  BY <1>10, DeleteIndexInv, Zenon
<1>11. ASSUME NEW r \in Readers, NEW c \in Chunks, NewChunkReader(r, c) PROVE Inv'
  BY <1>11, LookupInv, Zenon DEF NewChunkReader
<1>12. ASSUME NEW r \in Readers, NEW c \in Chunks, Verify(r, c) PROVE Inv'
  BY <1>12, LookupInv, Zenon DEF Verify
<1>13. ASSUME NEW r \in DOMAIN readers, ReadMissing(r) PROVE Inv'
  BY <1>13, ReaderEndsInv, Zenon DEF ReadMissing, EndReader, store
<1>14. ASSUME NEW r \in DOMAIN readers, OpenFile(r) PROVE Inv'
  BY <1>14, OpenFileInv, Zenon
<1>15. ASSUME NEW r \in DOMAIN readers, NextFrame(r) PROVE Inv'
  BY <1>15, NextFrameInv, Zenon
<1>16. ASSUME NEW r \in DOMAIN readers, CloseReader(r) PROVE Inv'
  BY <1>16, ReaderEndsInv, Zenon DEF CloseReader, EndReader, store
<1>17. CASE Crash
  BY <1>17, CrashInv, Zenon
<1>18. CASE UNCHANGED vars
  BY <1>18, Zenon DEF vars, disk, store, reading, Inv, Types, Live, Files, Apart, Writing, Writes, Locked,
               Reading, Whole, Upto, Free
<1>19. QED
  BY <1>1, <1>2, <1>3, <1>4, <1>5, <1>6, <1>7, <1>8, <1>9, <1>10, <1>11, <1>12, <1>13,
     <1>14, <1>15, <1>16, <1>17, <1>18, Zenon DEF Next

\* The invariant holds in every reachable state.
LEMMA InvHolds ==
  ASSUME ~SharedChunk
  PROVE  Spec => []Inv
BY InvInit, InvNext, PTL DEF Spec

\* StoredIsWhole (the atomic rename of DiskStore.Rename): while no two streams
\* write one chunk, what is at a final path is the whole chunk, after any number
\* of crashes, aborts and failures of the index.
THEOREM StoredIsWholeHolds ==
  ASSUME ~SharedChunk
  PROVE  Spec => []StoredIsWhole
<1>1. Inv => StoredIsWhole
  BY Zenon DEF Inv, Files, StoredIsWhole
<1>2. QED
  BY <1>1, InvHolds, PTL

\* ReadIsWhole (ChunkReader.Next, DiskStore.Verify): then every read that ends
\* has the whole chunk, and every VerifyChunk that ends finds it valid, as long as
\* the page its checksum is on has not been reused.
THEOREM ReadIsWholeHolds ==
  ASSUME ~SharedChunk
  PROVE  Spec => []ReadIsWhole
<1>1. Inv => ReadIsWhole
  <2> SUFFICES ASSUME Inv, NEW r \in DOMAIN readers, readers[r].done
               PROVE  /\ readers[r].got = Whole(readers[r].chunk)
                      /\ pages[r] # "reused" => readers[r].sum \in {None, readers[r].got}
    BY Zenon DEF ReadIsWhole
  <2>1. readers[r].chunk \in Chunks /\ readers[r].got = Upto(Frames[readers[r].chunk])
    BY Zenon DEF Inv, Types, Reading
  <2>2. readers[r].got = Whole(readers[r].chunk)
    BY <2>1, WholeIs, Zenon
  <2>3. QED
    BY <2>2, Zenon DEF Inv, Reading
<1>2. QED
  BY <1>1, InvHolds, PTL

-----------------------------------------------------------------------------
(* Types, for streams that may share a chunk as well *)

DiskTypes ==
  /\ inodes \in Seq(Contents) /\ Len(inodes) <= MaxInodes
  /\ tmp \in [Chunks -> Live \cup {None}]
  /\ file \in [Chunks -> Live \cup {None}]
  /\ index \in [Chunks -> Contents \cup {None}]
  /\ usedSpace \in Spaces /\ mutex \in Mutex

LiveWriter == [chunk : Chunks, inode : Live, written : Nat, pc : {"write", "commit", "index"}]

\* The writer that is about to update the index holds the mutex, and its file
\* is in place.
WriterTypes ==
  /\ IsRegistry(writers, Streams, LiveWriter)
  /\ \A s \in DOMAIN writers : writers[s].pc = "index" => mutex.op = "rename"
  /\ \A s, t \in DOMAIN writers : writers[s].pc = "index" /\ writers[t].pc = "index" => s = t
  /\ mutex.op = "rename" => file[mutex.chunk] # None

LiveReader ==
  [chunk : Chunks, sum : Contents \cup {None}, inode : Live \cup {None}, got : Seq(Nat),
   done : BOOLEAN]

ReaderTypes == IsRegistry(readers, Readers, LiveReader)

TypeInv == DiskTypes /\ WriterTypes /\ ReaderTypes

\* A new file is empty.
LEMMA EmptyContent ==
  ASSUME NEW c \in Chunks
  PROVE  <<>> \in Contents
<1>1. 0 \in Sizes
  BY FramesAssumption DEF Sizes
<1>2. <<>> \in [1..0 -> 0..0]
  OBVIOUS
<1> QED BY <1>1, <1>2, Zenon DEF Contents

\* What a file has is a sequence of frames.
LEMMA ContentSeq ==
  ASSUME NEW x \in Contents
  PROVE  x \in Seq(Nat) /\ Len(x) \in Sizes /\ x \in [1..Len(x) -> 0..Len(x)]
<1>1. PICK k \in Sizes : x \in [1..k -> 0..k]
  BY Zenon DEF Contents
<1>2. k \in Nat
  BY FramesAssumption DEF Sizes
<1> QED BY <1>1, <1>2

\* A frame of a chunk, written wherever, leaves no more than the frames of a
\* chunk.
LEMMA WrittenContent ==
  ASSUME NEW x \in Contents, NEW c \in Chunks, NEW k \in 1..Frames[c]
  PROVE  Written(x, k) \in Contents
<1> DEFINE n == Len(x)
       m == IF n < k THEN k ELSE n
<1>1. n \in Sizes /\ n \in Nat /\ x \in [1..n -> 0..n]
  BY ContentSeq
<1>2. k \in Sizes /\ k \in Nat
  BY FramesAssumption DEF Sizes
<1>3. m \in Sizes /\ m \in Nat /\ n <= m /\ k <= m
  BY <1>1, <1>2
<1>4. Written(x, k) = [i \in 1..m |-> IF i = k THEN k ELSE IF i <= n THEN x[i] ELSE 0]
  BY Zenon DEF Written
<1> HIDE DEF n, m
<1>5. Written(x, k) \in [1..m -> 0..m]
  BY <1>1, <1>2, <1>3, <1>4
<1> QED BY <1>3, <1>5, Zenon DEF Contents

\* The space arithmetic stays within a word.
LEMMA MinusSpace ==
  ASSUME NEW a \in Int, NEW b \in Int
  PROVE  Minus(a, b) \in Spaces
BY FramesAssumption DEF Minus, Spaces

\* Adding, changing and removing an entry, and entries of a wider type.
LEMMA Registries ==
  ASSUME NEW K, NEW V, NEW W, NEW m, IsRegistry(m, K, V), V \subseteq W
  PROVE  /\ IsRegistry(m, K, W)
         /\ \A k \in K, v \in W : IsRegistry(Put(m, k, v), K, W)
         /\ \A k \in DOMAIN m, v \in W : IsRegistry([m EXCEPT ![k] = v], K, W)
         /\ \A k : IsRegistry(Delete(m, k), K, W)
<1>1. IsRegistry(m, K, W)
  BY Zenon DEF IsRegistry
<1>2. ASSUME NEW k \in K, NEW v \in W PROVE IsRegistry(Put(m, k, v), K, W)
  BY <1>1, Zenon DEF IsRegistry, Put
<1>3. ASSUME NEW k \in DOMAIN m, NEW v \in W PROVE IsRegistry([m EXCEPT ![k] = v], K, W)
  BY <1>1, Zenon DEF IsRegistry
<1>4. ASSUME NEW k PROVE IsRegistry(Delete(m, k), K, W)
  BY <1>1, Zenon DEF IsRegistry, Delete
<1> QED BY <1>1, <1>2, <1>3, <1>4, Zenon

\* A step without the mutex, after which no other writer updates the index.
LEMMA WritersFrame ==
  ASSUME WriterTypes, UNCHANGED <<mutex, file>>, IsRegistry(writers', Streams, LiveWriter'),
         \A t \in DOMAIN writers' :
           writers'[t].pc = "index" => t \in DOMAIN writers /\ writers[t].pc = "index"
  PROVE  WriterTypes'
<1>1. \A t \in DOMAIN writers' : writers'[t].pc = "index" => mutex'.op = "rename"
  BY Zenon DEF WriterTypes
<1>2. \A t, u \in DOMAIN writers' : writers'[t].pc = "index" /\ writers'[u].pc = "index" => t = u
  BY Zenon DEF WriterTypes
<1>3. mutex'.op = "rename" => file'[mutex'.chunk] # None
  BY Zenon DEF WriterTypes
<1> QED BY <1>1, <1>2, <1>3, Zenon DEF WriterTypes

\* A new writer makes or truncates a temporary file.
LEMMA NewChunkWriterTypes ==
  ASSUME TypeInv, NEW s \in Streams, NEW c \in Chunks, NewChunkWriter(s, c)
  PROVE  TypeInv'
<1> USE DEF TypeInv
<1> DEFINE w == [chunk |-> c, inode |-> tmp'[c], written |-> 0, pc |-> "write"]
<1>1. /\ writers' = Put(writers, s, w) /\ s \notin DOMAIN writers
      /\ UNCHANGED <<file, index, usedSpace, mutex, readers>>
  BY Zenon DEF NewChunkWriter, store, reading
<1>2. /\ inodes \in Seq(Contents) /\ Len(inodes) \in Nat /\ Len(inodes) <= MaxInodes
      /\ tmp \in [Chunks -> 1..Len(inodes) \cup {None}] /\ <<>> \in Contents /\ MaxInodes \in Nat
  BY EmptyContent, FramesAssumption DEF DiskTypes, Live
<1>3. /\ inodes' \in Seq(Contents) /\ Len(inodes') <= MaxInodes /\ Len(inodes) <= Len(inodes')
      /\ Len(inodes') \in Nat
      /\ tmp' \in [Chunks -> 1..Len(inodes') \cup {None}] /\ tmp'[c] \in 1..Len(inodes')
  <2>1. CASE tmp[c] = None
    <3>1. Len(inodes) < MaxInodes /\ inodes' = Append(inodes, <<>>)
          /\ tmp' = [tmp EXCEPT ![c] = Len(inodes) + 1]
      BY <2>1, Zenon DEF NewChunkWriter
    <3>2. inodes' \in Seq(Contents) /\ Len(inodes') = Len(inodes) + 1
      BY <1>2, <3>1, AppendProperties, Zenon
    <3>3. tmp' \in [Chunks -> 1..(Len(inodes) + 1) \cup {None}] /\ tmp'[c] = Len(inodes) + 1
      BY <1>2, <3>1
    <3> QED BY <1>2, <3>1, <3>2, <3>3
  <2>2. CASE tmp[c] # None
    <3>1. inodes' = [inodes EXCEPT ![tmp[c]] = <<>>] /\ tmp' = tmp /\ tmp[c] \in 1..Len(inodes)
      BY <1>2, <2>2, Zenon DEF NewChunkWriter
    <3>2. inodes' \in Seq(Contents) /\ Len(inodes') = Len(inodes)
      BY <1>2, <3>1, ExceptSeq
    <3> QED BY <1>2, <3>1, <3>2
  <2> QED BY <2>1, <2>2, Zenon
<1>4. Live \subseteq Live' /\ Live' = 1..Len(inodes')
  BY <1>2, <1>3 DEF Live
<1>5. DiskTypes'
  <2>1. file' \in [Chunks -> Live' \cup {None}]
    BY <1>1, <1>4, Zenon DEF DiskTypes
  <2> QED BY <1>1, <1>3, <1>4, <2>1, Zenon DEF DiskTypes
<1>6. w \in LiveWriter' /\ w.pc = "write"
  BY <1>3, <1>4, Zenon DEF LiveWriter
<1>7. LiveWriter \subseteq LiveWriter' /\ LiveReader \subseteq LiveReader'
  BY <1>4, Zenon DEF LiveWriter, LiveReader
<1> HIDE DEF w
<1>8. IsRegistry(writers', Streams, LiveWriter')
  BY <1>1, <1>6, <1>7, Registries, Zenon DEF WriterTypes
<1>9. WriterTypes'
  <2>1. \A t \in DOMAIN writers' :
          writers'[t].pc = "index" => t \in DOMAIN writers /\ writers[t].pc = "index"
    BY <1>1, <1>6, Zenon DEF Put
  <2> QED BY <1>1, <1>8, <2>1, WritersFrame, Zenon
<1>10. ReaderTypes'
  BY <1>1, <1>7, Registries, Zenon DEF ReaderTypes
<1> QED BY <1>5, <1>9, <1>10, Zenon

\* While the files stay as they are, so do the inodes.
LEMMA TypesFrame ==
  ASSUME TypeInv, Len(inodes') = Len(inodes)
  PROVE  /\ Live' = Live /\ LiveWriter' = LiveWriter /\ LiveReader' = LiveReader
         /\ UNCHANGED readers => ReaderTypes'
BY Zenon DEF TypeInv, Live, LiveWriter, LiveReader, ReaderTypes

\* A frame is written.
LEMMA WriteFrameTypes ==
  ASSUME TypeInv, NEW s \in DOMAIN writers, WriteFrame(s)
  PROVE  TypeInv'
<1> USE DEF TypeInv
<1> DEFINE w == writers[s]
       k == w.written + 1
       v == [w EXCEPT !.written = k]
<1>1. /\ w.pc = "write" /\ k <= Frames[w.chunk]
      /\ inodes' = [inodes EXCEPT ![w.inode] = Written(inodes[w.inode], k)]
      /\ writers' = [writers EXCEPT ![s] = v]
      /\ UNCHANGED <<tmp, file, index, usedSpace, mutex, readers>>
  BY Zenon DEF WriteFrame, store, reading
<1>2. w \in LiveWriter
  BY Zenon DEF WriterTypes, IsRegistry
<1>3. w.chunk \in Chunks /\ w.inode \in 1..Len(inodes) /\ w.written \in Nat
  BY <1>2, Zenon DEF LiveWriter, Live
<1>4. inodes \in Seq(Contents)
  BY Zenon DEF DiskTypes
<1>5. Written(inodes[w.inode], k) \in Contents /\ k \in Nat
  <2>1. Frames[w.chunk] \in Nat
    BY <1>3, FramesAssumption, Zenon
  <2>2. k \in 1..Frames[w.chunk] /\ inodes[w.inode] \in Contents
    BY <1>1, <1>3, <1>4, <2>1
  <2> QED BY <1>3, <2>2, WrittenContent
<1>6. v \in LiveWriter /\ v.pc = w.pc
  BY <1>2, <1>5, Zenon DEF LiveWriter
<1> HIDE DEF v, k, w
<1>7. inodes' \in Seq(Contents) /\ Len(inodes') = Len(inodes)
  BY <1>1, <1>3, <1>4, <1>5, ExceptSeq
<1>8. DiskTypes'
  BY <1>1, <1>7, TypesFrame, Zenon DEF DiskTypes
<1>9. IsRegistry(writers', Streams, LiveWriter')
  <2>1. LiveWriter' = LiveWriter
    BY <1>7, TypesFrame, Zenon
  <2>2. IsRegistry([writers EXCEPT ![s] = v], Streams, LiveWriter)
    BY <1>6, Registries, Zenon DEF WriterTypes
  <2> QED BY <1>1, <2>1, <2>2, Zenon
<1>10. \A t \in DOMAIN writers' : t \in DOMAIN writers /\ writers'[t].pc = writers[t].pc
  BY <1>1, <1>6, Zenon DEF w
<1>11. WriterTypes'
  BY <1>1, <1>9, <1>10, WritersFrame, Zenon
<1> QED BY <1>1, <1>7, <1>8, <1>11, TypesFrame, Zenon

\* A writer is aborted, and drops the mutex if it had it.
LEMMA AbortTypes ==
  ASSUME TypeInv, NEW s \in DOMAIN writers,
         AbortStream(s) \/ RenameFail(s) \/ RenameIndexFail(s)
  PROVE  TypeInv'
<1> USE DEF TypeInv
<1>1. /\ tmp' = [tmp EXCEPT ![writers[s].chunk] = None] /\ writers' = Delete(writers, s)
      /\ UNCHANGED <<inodes, file, index, usedSpace, readers>>
      /\ \/ UNCHANGED mutex
         \/ mutex' = Free /\ writers[s].pc = "index"
  BY Zenon DEF AbortStream, RenameFail, RenameIndexFail, Abort, store, reading
<1>2. tmp' \in [Chunks -> Live \cup {None}]
  BY <1>1, Zenon DEF DiskTypes
<1>3. mutex' \in Mutex
  BY <1>1, Zenon DEF DiskTypes, Mutex
<1>4. DiskTypes'
  BY <1>1, <1>2, <1>3, TypesFrame, Zenon DEF DiskTypes
<1>5. IsRegistry(writers', Streams, LiveWriter')
  BY <1>1, TypesFrame, Registries, Zenon DEF WriterTypes
<1>6. DOMAIN writers' = DOMAIN writers \ {s}
      /\ \A t \in DOMAIN writers' : writers'[t] = writers[t]
  BY <1>1, Zenon DEF Delete
<1>7. WriterTypes'
  <2>1. CASE UNCHANGED mutex
    BY <1>1, <1>5, <1>6, <2>1, WritersFrame, Zenon
  <2>2. CASE mutex' = Free /\ writers[s].pc = "index"
    <3>1. \A t \in DOMAIN writers' : writers'[t].pc # "index"
      BY <1>6, <2>2, Zenon DEF WriterTypes
    <3> QED BY <1>5, <2>2, <3>1, Zenon DEF WriterTypes, Free
  <2> QED BY <1>1, <2>1, <2>2, Zenon
<1> QED BY <1>1, <1>4, <1>7, TypesFrame, Zenon

\* A writer is dropped.
LEMMA EndStreamTypes ==
  ASSUME TypeInv, NEW s \in DOMAIN writers, EndStream(s)
  PROVE  TypeInv'
<1> USE DEF TypeInv
<1>1. /\ writers' = Delete(writers, s)
      /\ UNCHANGED <<inodes, tmp, file, index, usedSpace, mutex, readers>>
  BY Zenon DEF EndStream, disk, store, reading
<1>2. DiskTypes'
  BY <1>1, TypesFrame, Zenon DEF DiskTypes
<1>3. IsRegistry(writers', Streams, LiveWriter')
  BY <1>1, TypesFrame, Registries, Zenon DEF WriterTypes
<1>4. \A t \in DOMAIN writers' : t \in DOMAIN writers /\ writers'[t] = writers[t]
  BY <1>1, Zenon DEF Delete
<1>5. WriterTypes'
  BY <1>1, <1>3, <1>4, WritersFrame, Zenon
<1> QED BY <1>1, <1>2, <1>5, TypesFrame, Zenon

\* The steps of a writer that commits: Finalize, and Rename up to the index.
LEMMA CommitTypes ==
  ASSUME TypeInv, NEW s \in DOMAIN writers, Finalize(s) \/ RenameFile(s)
  PROVE  TypeInv'
<1> USE DEF TypeInv
<1>1. writers[s] \in LiveWriter /\ writers[s].chunk \in Chunks
  BY Zenon DEF WriterTypes, IsRegistry, LiveWriter
<1>2. ASSUME NEW p \in {"commit", "index"}, writers' = [writers EXCEPT ![s].pc = p],
             UNCHANGED <<inodes, readers>>
      PROVE  /\ IsRegistry(writers', Streams, LiveWriter') /\ DOMAIN writers' = DOMAIN writers
             /\ writers'[s].pc = p /\ \A t \in DOMAIN writers : t # s => writers'[t] = writers[t]
             /\ Live' = Live /\ ReaderTypes'
  <2> DEFINE v == [writers[s] EXCEPT !.pc = p]
  <2>1. v \in LiveWriter /\ v.pc = p
    BY <1>1, Zenon DEF LiveWriter
  <2>2. writers' = [writers EXCEPT ![s] = v]
    BY <1>2, Zenon
  <2> HIDE DEF v
  <2>3. IsRegistry(writers', Streams, LiveWriter')
    <3>1. LiveWriter' = LiveWriter
      BY <1>2, TypesFrame, Zenon
    <3>2. IsRegistry([writers EXCEPT ![s] = v], Streams, LiveWriter)
      BY <2>1, Registries, Zenon DEF WriterTypes
    <3> QED BY <2>2, <3>1, <3>2, Zenon
  <2> QED BY <1>2, <2>1, <2>2, <2>3, TypesFrame, Zenon
<1>3. CASE Finalize(s)
  <2>1. /\ writers' = [writers EXCEPT ![s].pc = "commit"]
        /\ UNCHANGED <<inodes, tmp, file, index, usedSpace, mutex, readers>>
    BY <1>3, Zenon DEF Finalize, disk, store, reading
  <2>2. DiskTypes'
    BY <2>1, TypesFrame, Zenon DEF DiskTypes
  <2> QED BY <1>2, <2>1, <2>2, WritersFrame, Zenon
<1>4. CASE RenameFile(s)
  <2> DEFINE c == writers[s].chunk
         m == [op |-> "rename", chunk |-> c, space |-> SpaceAfter(c)]
  <2>1. /\ mutex = Free /\ tmp[c] # None /\ mutex' = m
        /\ file' = [file EXCEPT ![c] = tmp[c]] /\ tmp' = [tmp EXCEPT ![c] = None]
        /\ writers' = [writers EXCEPT ![s].pc = "index"]
        /\ UNCHANGED <<inodes, index, usedSpace, readers>>
    BY <1>4, Zenon DEF RenameFile, reading
  <2>2. c \in Chunks /\ tmp[c] \in Live
    BY <1>1, <2>1, Zenon DEF DiskTypes
  <2>3. SpaceAfter(c) \in Spaces
    <3>1. usedSpace \in Nat /\ Len(inodes[tmp[c]]) \in Nat
      <4>1. inodes[tmp[c]] \in Contents
        BY <2>2 DEF DiskTypes, Live
      <4> QED BY <4>1, ContentSeq, FramesAssumption DEF DiskTypes, Spaces
    <3>2. ExistingSize(c) \in Nat
      <4>1. file[c] # None => inodes[file[c]] \in Contents
        BY <2>2 DEF DiskTypes, Live
      <4>2. file[c] # None => Len(inodes[file[c]]) \in Nat
        BY <4>1, ContentSeq
      <4> QED BY <4>2, Zenon DEF ExistingSize, FileSize
    <3> QED BY <3>1, <3>2, MinusSpace DEF SpaceAfter
  <2>4. m \in Mutex /\ m.op = "rename" /\ m.chunk = c
    BY <2>2, <2>3, Zenon DEF Mutex
  <2> HIDE DEF m, c
  <2>5. file' \in [Chunks -> Live \cup {None}] /\ tmp' \in [Chunks -> Live \cup {None}]
    BY <2>1, <2>2, Zenon DEF DiskTypes
  <2>6. DiskTypes'
    BY <2>1, <2>4, <2>5, TypesFrame, Zenon DEF DiskTypes
  <2>7. file'[m.chunk] # None
    BY <2>1, <2>2, <2>4, Zenon DEF DiskTypes
  <2>8. \A t \in DOMAIN writers : writers[t].pc # "index"
    BY <2>1, Zenon DEF WriterTypes, Free
  <2>9. WriterTypes'
    <3>1. /\ IsRegistry(writers', Streams, LiveWriter') /\ DOMAIN writers' = DOMAIN writers
          /\ \A t \in DOMAIN writers : t # s => writers'[t] = writers[t]
      BY <1>2, <2>1, Zenon
    <3>2. \A t \in DOMAIN writers' : writers'[t].pc = "index" => t = s
      BY <2>8, <3>1, Zenon
    <3> QED BY <2>1, <2>4, <2>7, <3>1, <3>2, ZenonT(30) DEF WriterTypes
  <2> QED BY <1>2, <2>1, <2>6, <2>9, Zenon
<1> QED BY <1>3, <1>4, Zenon

\* The steps that update the index and release the mutex, and Delete.
LEMMA IndexTypes ==
  ASSUME TypeInv, \/ \E s \in DOMAIN writers : RenameIndex(s)
                  \/ \E c \in Chunks : DeleteFile(c)
                  \/ DeleteIndex
  PROVE  TypeInv'
<1> USE DEF TypeInv
<1>1. mutex # Free => mutex.chunk \in Chunks /\ mutex.space \in Spaces
  BY Zenon DEF DiskTypes, Mutex
<1>2. Free \in Mutex /\ Free.op = "free"
  BY Zenon DEF Free, Mutex
<1>3. CASE \E s \in DOMAIN writers : RenameIndex(s)
  <2>1. PICK s \in DOMAIN writers : RenameIndex(s)
    BY <1>3, Zenon
  <2> DEFINE c == mutex.chunk
  <2>2. /\ writers[s].pc = "index" /\ index' = [index EXCEPT ![c] = inodes[file[c]]]
        /\ usedSpace' = mutex.space /\ mutex' = Free /\ writers' = Delete(writers, s)
        /\ UNCHANGED <<inodes, tmp, file, readers>>
    BY <2>1, Zenon DEF RenameIndex, IndexPut, disk
  <2>3. mutex.op = "rename" /\ c \in Chunks /\ mutex.space \in Spaces /\ file[c] \in Live
    <3>1. mutex.op = "rename" /\ file[c] # None
      BY <2>2, Zenon DEF WriterTypes
    <3>2. c \in Chunks /\ mutex.space \in Spaces
      BY <1>1, <1>2, <3>1, Zenon
    <3> QED BY <3>1, <3>2, Zenon DEF DiskTypes
  <2>4. inodes[file[c]] \in Contents
    BY <2>3 DEF DiskTypes, Live
  <2>5. index' \in [Chunks -> Contents \cup {None}]
    BY <2>2, <2>4, Zenon DEF DiskTypes
  <2>6. DiskTypes'
    BY <1>2, <2>2, <2>3, <2>5, TypesFrame, Zenon DEF DiskTypes
  <2>7. IsRegistry(writers', Streams, LiveWriter')
    BY <2>2, TypesFrame, Registries, Zenon DEF WriterTypes
  <2>8. \A t \in DOMAIN writers' : writers'[t].pc # "index"
    BY <2>2, Zenon DEF Delete, WriterTypes
  <2>9. WriterTypes'
    BY <1>2, <2>2, <2>7, <2>8, Zenon DEF WriterTypes
  <2> QED BY <2>2, <2>6, <2>9, TypesFrame, Zenon
<1>4. CASE \E c \in Chunks : DeleteFile(c)
  <2>1. PICK c \in Chunks : DeleteFile(c)
    BY <1>4, Zenon
  <2> DEFINE p == IF usedSpace >= FileSize(c) THEN usedSpace - FileSize(c) ELSE 0
         m == [op |-> "delete", chunk |-> c, space |-> p]
  <2>2. /\ mutex = Free /\ file[c] # None /\ mutex' = m /\ file' = [file EXCEPT ![c] = None]
        /\ UNCHANGED <<inodes, tmp, index, usedSpace, writers, readers>>
    BY <2>1, Zenon DEF DeleteFile, reading
  <2>3. p \in Spaces
    <3>1. file[c] \in Live
      BY <2>2, Zenon DEF DiskTypes
    <3>2. inodes[file[c]] \in Contents
      BY <3>1 DEF DiskTypes, Live
    <3>3. FileSize(c) \in Nat
      BY <2>2, <3>2, ContentSeq DEF FileSize
    <3>4. usedSpace \in 0..(Word - 1) /\ Word \in Nat
      BY FramesAssumption, Zenon DEF DiskTypes, Spaces
    <3> QED BY <3>3, <3>4 DEF Spaces
  <2> HIDE DEF p
  <2>4. m \in Mutex /\ m.op = "delete"
    BY <2>3, Zenon DEF Mutex
  <2> HIDE DEF m
  <2>5. file' \in [Chunks -> Live \cup {None}]
    BY <2>2, Zenon DEF DiskTypes
  <2>6. DiskTypes'
    BY <2>2, <2>4, <2>5, TypesFrame, Zenon DEF DiskTypes
  <2>7. \A t \in DOMAIN writers : writers[t].pc # "index"
    BY <1>2, <2>2, Zenon DEF WriterTypes
  <2>8. WriterTypes'
    BY <2>2, <2>4, <2>7, TypesFrame, Zenon DEF WriterTypes
  <2> QED BY <2>2, <2>6, <2>8, TypesFrame, Zenon
<1>5. CASE DeleteIndex
  <2>1. /\ mutex.op = "delete" /\ usedSpace' = mutex.space /\ mutex' = Free
        /\ index' = [index EXCEPT ![mutex.chunk] = None] \/ UNCHANGED index
        /\ UNCHANGED <<inodes, tmp, file, writers, readers>>
    BY <1>5, Zenon DEF DeleteIndex, IndexDelete, disk
  <2>2. mutex.space \in Spaces
    BY <1>1, <1>2, <2>1, Zenon
  <2>3. index' \in [Chunks -> Contents \cup {None}]
    BY <2>1, Zenon DEF DiskTypes
  <2>4. DiskTypes'
    BY <1>2, <2>1, <2>2, <2>3, TypesFrame, Zenon DEF DiskTypes
  <2>5. \A t \in DOMAIN writers : writers[t].pc # "index"
    BY <2>1, Zenon DEF WriterTypes
  <2>6. WriterTypes'
    BY <1>2, <2>1, <2>5, TypesFrame, Zenon DEF WriterTypes
  <2> QED BY <2>1, <2>4, <2>6, TypesFrame, Zenon
<1> QED BY <1>3, <1>4, <1>5, Zenon

\* The steps of a reader touch nothing else.
LEMMA ReadersFrame ==
  ASSUME TypeInv, UNCHANGED <<disk, store, writers>>, IsRegistry(readers', Readers, LiveReader)
  PROVE  TypeInv'
<1>1. UNCHANGED <<inodes, tmp, file, index, usedSpace, mutex, writers>>
  BY Zenon DEF disk, store
<1>2. DiskTypes'
  BY <1>1, TypesFrame, Zenon DEF TypeInv, DiskTypes
<1>3. WriterTypes'
  <2>1. IsRegistry(writers, Streams, LiveWriter)'
    BY <1>1, TypesFrame, Zenon DEF TypeInv, WriterTypes
  <2>2. /\ \A s \in DOMAIN writers : writers[s].pc = "index" => mutex.op = "rename"
        /\ \A s, t \in DOMAIN writers : writers[s].pc = "index" /\ writers[t].pc = "index" => s = t
        /\ mutex.op = "rename" => file[mutex.chunk] # None
    BY Zenon DEF TypeInv, WriterTypes
  <2>3. /\ \A s \in DOMAIN writers' : writers'[s].pc = "index" => mutex'.op = "rename"
        /\ \A s, t \in DOMAIN writers' :
             writers'[s].pc = "index" /\ writers'[t].pc = "index" => s = t
        /\ mutex'.op = "rename" => file'[mutex'.chunk] # None
    BY <1>1, <2>2
  <2> QED BY <2>1, <2>3, ZenonT(30) DEF WriterTypes
<1>4. ReaderTypes'
  BY <1>1, TypesFrame, Zenon DEF ReaderTypes
<1> QED BY <1>2, <1>3, <1>4, Zenon DEF TypeInv

\* A chunk is looked up and read, or its reader goes.
LEMMA ReaderTypesNext ==
  ASSUME TypeInv,
         \/ \E r \in Readers, c \in Chunks : NewChunkReader(r, c) \/ Verify(r, c)
         \/ \E r \in DOMAIN readers :
              ReadMissing(r) \/ OpenFile(r) \/ NextFrame(r) \/ CloseReader(r)
  PROVE  TypeInv'
<1> USE DEF TypeInv
<1>1. UNCHANGED <<disk, store, writers>>
  BY Zenon DEF NewChunkReader, Verify, Lookup, ReadMissing, OpenFile, NextFrame, CloseReader
<1>2. ASSUME NEW r \in Readers, NEW c \in Chunks, NEW sum \in Contents \cup {None}, Lookup(r, c, sum)
      PROVE  IsRegistry(readers', Readers, LiveReader)
  <2> DEFINE v == [chunk |-> c, sum |-> sum, inode |-> None, got |-> <<>>, done |-> FALSE]
  <2>1. readers' = Put(readers, r, v)
    BY <1>2, Zenon DEF Lookup
  <2>2. <<>> \in Seq(Nat)
    OBVIOUS
  <2>3. v \in LiveReader
    BY <2>2, Zenon DEF LiveReader
  <2> HIDE DEF v
  <2> QED BY <2>1, <2>3, Registries, Zenon DEF ReaderTypes
<1>3. ASSUME NEW r \in DOMAIN readers, readers' = Delete(readers, r)
      PROVE  IsRegistry(readers', Readers, LiveReader)
  BY <1>3, Registries, Zenon DEF ReaderTypes
<1>4. ASSUME NEW r \in DOMAIN readers, NEW v \in LiveReader, readers' = [readers EXCEPT ![r] = v]
      PROVE  IsRegistry(readers', Readers, LiveReader)
  BY <1>4, Zenon DEF ReaderTypes, IsRegistry
<1>5. ASSUME NEW r \in DOMAIN readers PROVE readers[r] \in LiveReader
  BY Zenon DEF ReaderTypes, IsRegistry
<1>6. ASSUME NEW r \in DOMAIN readers, OpenFile(r), file[readers[r].chunk] # None
      PROVE  IsRegistry(readers', Readers, LiveReader)
  <2> DEFINE f == file[readers[r].chunk]
         v == [readers[r] EXCEPT !.inode = f]
  <2>1. readers' = [readers EXCEPT ![r] = v]
    BY <1>6, Zenon DEF OpenFile
  <2>2. readers[r].chunk \in Chunks
    BY <1>5, Zenon DEF LiveReader
  <2>3. f \in Live
    BY <1>6, <2>2, Zenon DEF DiskTypes
  <2>4. v \in LiveReader
    BY <1>5, <2>3, Zenon DEF LiveReader
  <2> HIDE DEF v
  <2> QED BY <1>4, <2>1, <2>4, Zenon
<1>7. ASSUME NEW r \in DOMAIN readers, NextFrame(r)
      PROVE  IsRegistry(readers', Readers, LiveReader)
  <2> DEFINE rd == readers[r]
         content == inodes[rd.inode]
         k == Len(rd.got) + 1
         g == IF k <= Len(content) THEN Append(rd.got, content[k]) ELSE rd.got
         d == k >= Len(content)
         v == [rd EXCEPT !.got = g, !.done = d]
  <2>1. rd.inode # None /\ readers' = [readers EXCEPT ![r] = v]
    BY <1>7, Zenon DEF NextFrame
  <2>2. rd.inode \in Live /\ rd.got \in Seq(Nat)
    BY <1>5, <2>1, Zenon DEF LiveReader
  <2>3. content \in Contents
    BY <2>2 DEF DiskTypes, Live
  <2>4. content \in Seq(Nat) /\ k \in Nat \ {0}
    BY <2>2, <2>3, ContentSeq
  <2> HIDE DEF content, k
  <2>5. g \in Seq(Nat)
    <3>1. CASE k <= Len(content)
      <4>1. content[k] \in Nat
        BY <2>4, <3>1
      <4>2. Append(rd.got, content[k]) \in Seq(Nat)
        BY <2>2, <4>1, AppendProperties, Zenon
      <4> QED BY <3>1, <4>2, Zenon
    <3> QED BY <2>2, <3>1, Zenon
  <2>6. d \in BOOLEAN
    <3>1. Len(content) \in Nat
      BY <2>4
    <3> QED BY <2>4, <3>1
  <2> HIDE DEF g, d
  <2>7. v \in LiveReader
    BY <1>5, <2>5, <2>6, Zenon DEF LiveReader
  <2> HIDE DEF v
  <2> QED BY <1>4, <2>1, <2>7, Zenon
<1>8. IsRegistry(readers', Readers, LiveReader)
  <2>1. ASSUME NEW r \in Readers, NEW c \in Chunks, NewChunkReader(r, c) \/ Verify(r, c)
        PROVE  IsRegistry(readers', Readers, LiveReader)
    <3>1. index[c] \in Contents \cup {None}
      BY Zenon DEF DiskTypes
    <3> QED BY <1>2, <2>1, <3>1, Zenon DEF NewChunkReader, Verify
  <2>2. ASSUME NEW r \in DOMAIN readers,
               ReadMissing(r) \/ OpenFile(r) \/ NextFrame(r) \/ CloseReader(r)
        PROVE  IsRegistry(readers', Readers, LiveReader)
    <3>1. CASE ReadMissing(r) \/ CloseReader(r)
      BY <1>3, <3>1, Zenon DEF ReadMissing, CloseReader, EndReader
    <3>2. CASE OpenFile(r)
      BY <1>3, <1>6, <3>2, Zenon DEF OpenFile, EndReader
    <3> QED BY <1>7, <2>2, <3>1, <3>2, Zenon
  <2> QED BY <2>1, <2>2, Zenon
<1> QED BY <1>1, <1>8, ReadersFrame, Zenon

\* Types hold at first, and every step keeps them.
LEMMA TypeInvHolds == Spec => []TypeInv
<1>1. Init => TypeInv
  <2> SUFFICES ASSUME Init PROVE TypeInv
    BY Zenon
  <2>1. inodes = <<>> /\ mutex = Free /\ usedSpace = 0 /\ writers = EmptyRegistry
        /\ readers = EmptyRegistry
    BY Zenon DEF Init
  <2>2. tmp = [c \in Chunks |-> None] /\ file = tmp /\ index = tmp
    BY Zenon DEF Init
  <2>3. inodes \in Seq(Contents) /\ Len(inodes) = 0 /\ MaxInodes \in Nat /\ usedSpace \in Spaces
    BY <2>1, FramesAssumption DEF Spaces
  <2>4. mutex \in Mutex /\ mutex.op = "free"
    BY <2>1, Zenon DEF Mutex, Free
  <2>5. DiskTypes
    BY <2>2, <2>3, <2>4 DEF DiskTypes
  <2>6. WriterTypes /\ ReaderTypes
    BY <2>1, <2>4, Zenon DEF WriterTypes, ReaderTypes, EmptyRegistry, IsRegistry
  <2> QED BY <2>5, <2>6, Zenon DEF TypeInv
<1>2. TypeInv /\ [Next]_vars => TypeInv'
  <2> SUFFICES ASSUME TypeInv, [Next]_vars PROVE TypeInv'
    BY Zenon
  <2>1. CASE UNCHANGED vars
    <3>1. UNCHANGED <<disk, store, writers, readers>>
      BY <2>1, Zenon DEF vars, reading
    <3> QED BY <3>1, ReadersFrame, Zenon DEF TypeInv, ReaderTypes
  <2>2. CASE Crash
    <3>1. /\ writers' = EmptyRegistry /\ readers' = EmptyRegistry /\ mutex' = Free
          /\ usedSpace' = 0 /\ UNCHANGED <<inodes, tmp, file, index>>
      BY <2>2, Zenon DEF Crash, disk
    <3>2. mutex' \in Mutex /\ mutex'.op = "free" /\ usedSpace' \in Spaces
      BY <3>1, FramesAssumption DEF Mutex, Free, Spaces
    <3>3. DiskTypes'
      BY <3>1, <3>2, TypesFrame, Zenon DEF TypeInv, DiskTypes
    <3>4. WriterTypes' /\ ReaderTypes'
      BY <3>1, <3>2, Zenon DEF WriterTypes, ReaderTypes, EmptyRegistry, IsRegistry
    <3> QED BY <3>3, <3>4, Zenon DEF TypeInv
  <2>3. ASSUME NEW s \in DOMAIN writers,
               \/ WriteFrame(s) \/ AbortStream(s) \/ EndStream(s) \/ Finalize(s)
               \/ RenameFail(s) \/ RenameFile(s) \/ RenameIndexFail(s)
        PROVE  TypeInv'
    BY <2>3, WriteFrameTypes, AbortTypes, EndStreamTypes, CommitTypes, Zenon
  <2> QED BY <2>1, <2>2, <2>3, NewChunkWriterTypes, IndexTypes, ReaderTypesNext, Zenon DEF Next
<1> QED BY <1>1, <1>2, PTL DEF Spec

PageTypes == pages \in [Readers -> {"current", "freed", "reused"}]

\* The pages of the index have their types.
LEMMA PageTypesHold == Spec => []PageTypes
<1>1. Init => PageTypes
  BY Zenon DEF Init, PageTypes
<1>2. PageTypes /\ [Next]_vars => PageTypes'
  <2> SUFFICES ASSUME PageTypes, [Next]_vars PROVE PageTypes'
    BY Zenon
  <2>1. ASSUME NEW committed \in BOOLEAN, pages' = PagesAfter(committed) PROVE PageTypes'
    BY <2>1, Zenon DEF PageTypes, PagesAfter
  <2>2. ASSUME NEW r, pages' = [pages EXCEPT ![r] = "current"] PROVE PageTypes'
    BY <2>2, Zenon DEF PageTypes
  <2>3. CASE UNCHANGED pages
    BY <2>3, Zenon DEF PageTypes
  <2>4. CASE UNCHANGED vars
    BY <2>3, <2>4, Zenon DEF vars, reading
  <2>5. CASE Crash
    BY <2>5, Zenon DEF Crash, PageTypes
  <2>6. CASE \E s \in Streams, c \in Chunks : NewChunkWriter(s, c)
    BY <2>3, <2>6, Zenon DEF NewChunkWriter, reading
  <2>7. ASSUME NEW s \in DOMAIN writers,
               WriteFrame(s) \/ AbortStream(s) \/ EndStream(s) \/ Finalize(s) \/ RenameFail(s) \/ RenameFile(s)
        PROVE  PageTypes'
    BY <2>3, <2>7, Zenon DEF WriteFrame, AbortStream, EndStream, Finalize, RenameFail, RenameFile, reading
  <2>8. ASSUME NEW s \in DOMAIN writers, RenameIndex(s) \/ RenameIndexFail(s) PROVE PageTypes'
    BY <2>1, <2>8, Zenon DEF RenameIndex, RenameIndexFail, IndexPut
  <2>9. CASE DeleteIndex \/ \E c \in Chunks : DeleteFile(c)
    BY <2>1, <2>3, <2>9, Zenon DEF DeleteIndex, DeleteFile, IndexDelete, reading
  <2>10. CASE \E r \in Readers, c \in Chunks : NewChunkReader(r, c) \/ Verify(r, c)
    BY <2>3, <2>10, Zenon DEF NewChunkReader, Verify, Lookup
  <2>11. ASSUME NEW r \in DOMAIN readers, ReadMissing(r) \/ OpenFile(r) \/ NextFrame(r) \/ CloseReader(r)
         PROVE  PageTypes'
    BY <2>2, <2>3, <2>11, Zenon DEF ReadMissing, OpenFile, NextFrame, CloseReader, EndReader
  <2> QED BY <2>4, <2>5, <2>6, <2>7, <2>8, <2>9, <2>10, <2>11, Zenon DEF Next
<1> QED BY <1>1, <1>2, PTL DEF Spec

\* The variables keep their types, with one stream per chunk or several: no
\* path points to a file that was never created, and usedSpace never leaves the
\* range of its word.
THEOREM TypeCorrect == Spec => []TypeOK
<1>1. TypeInv /\ PageTypes => TypeOK
  <2> SUFFICES ASSUME TypeInv, PageTypes PROVE TypeOK
    BY Zenon
  <2>1. Live \subseteq Inodes
    BY FramesAssumption DEF TypeInv, DiskTypes, Live, Inodes
  <2>2. tmp \in [Chunks -> Inodes \cup {None}] /\ file \in [Chunks -> Inodes \cup {None}]
    BY <2>1, Zenon DEF TypeInv, DiskTypes
  <2>3. LiveWriter \subseteq Writer /\ LiveReader \subseteq Reader
    BY <2>1, Zenon DEF LiveWriter, LiveReader, Writer, Reader
  <2>4. IsRegistry(writers, Streams, Writer) /\ IsRegistry(readers, Readers, Reader)
    BY <2>3, Registries, Zenon DEF TypeInv, WriterTypes, ReaderTypes
  <2> QED BY <2>2, <2>4, Zenon DEF TypeInv, DiskTypes, PageTypes, TypeOK
<1> QED BY <1>1, TypeInvHolds, PageTypesHold, PTL

-----------------------------------------------------------------------------
(* The inventory *)

INSTANCE FiniteSetTheorems

\* The chunks that are out of step, but for the one Rename or Delete is at.
Out == {c \in Chunks : (mutex = Free \/ mutex.chunk # c) /\ ~InStep(c)}

Counted ==
  /\ crashes \in Nat /\ faults \in Nat
  /\ IsFiniteSet(Out) /\ Cardinality(Out) <= crashes + faults

\* A chunk is in step if it has a file and an entry, or neither.
LEMMA InStepIs ==
  ASSUME Inv, NEW c \in Chunks
  PROVE  InStep(c) <=> (file[c] = None <=> index[c] = None)
BY WholeIs, NoneAssumption, Zenon DEF Inv, Files, InStep, Exists

\* What it means after a step that the file and the index agree.
LEMMA InStepNext ==
  ASSUME Inv', NEW c \in Chunks
  PROVE  InStep(c)' <=> (file'[c] = None <=> index'[c] = None)
BY WholeIs, NoneAssumption, Zenon DEF Inv, Files, InStep, Exists, Whole

\* A step that puts no further chunk out of step.
LEMMA NoneOut ==
  ASSUME Counted, Out' \subseteq Out, crashes' = crashes, faults' = faults
  PROVE  Counted'
<1>1. IsFiniteSet(Out') /\ Cardinality(Out') <= Cardinality(Out)
  BY FS_Subset, Zenon DEF Counted
<1>2. Cardinality(Out) \in Nat /\ Cardinality(Out') \in Nat
  BY <1>1, FS_CardinalityType, Zenon DEF Counted
<1>3. QED
  BY <1>1, <1>2 DEF Counted

\* A bound that may grow by one failure.
LEMMA OnePlus ==
  \A k, l, m, n, t \in Nat : k <= l /\ l <= m + 1 /\ m <= n /\ t = n + 1 => k <= t
OBVIOUS

\* A mishap that puts at most one chunk out of step.
LEMMA OneOut ==
  ASSUME Counted, NEW c, Out' \subseteq Out \cup {c},
         \/ crashes' = crashes + 1 /\ faults' = faults
         \/ crashes' = crashes /\ faults' = faults + 1
  PROVE  Counted'
<1>1. IsFiniteSet(Out \cup {c}) /\ Cardinality(Out \cup {c}) <= Cardinality(Out) + 1
  <2>1. IsFiniteSet(Out) /\ Cardinality(Out) \in Nat
    BY FS_CardinalityType, Zenon DEF Counted
  <2>2. IsFiniteSet(Out \cup {c}) /\ Cardinality(Out \cup {c}) \in {Cardinality(Out), Cardinality(Out) + 1}
    BY <2>1, FS_AddElement, Zenon
  <2>3. QED
    BY <2>1, <2>2
<1>2. IsFiniteSet(Out') /\ Cardinality(Out') <= Cardinality(Out \cup {c})
  BY <1>1, FS_Subset, Zenon
<1>3. Cardinality(Out) \in Nat /\ Cardinality(Out') \in Nat /\ Cardinality(Out \cup {c}) \in Nat
  BY <1>1, <1>2, FS_CardinalityType, Zenon DEF Counted
<1>4. /\ Cardinality(Out) <= crashes + faults /\ crashes \in Nat /\ faults \in Nat
  BY Zenon DEF Counted
<1>5. Cardinality(Out') <= crashes' + faults'
  <2>1. crashes + faults \in Nat /\ crashes' + faults' = crashes + faults + 1
    BY <1>4
  <2>2. QED
    BY <1>1, <1>2, <1>3, <1>4, <2>1, OnePlus
<1>6. crashes' \in Nat /\ faults' \in Nat
  BY <1>4
<1>7. QED
  BY <1>2, <1>5, <1>6, Zenon DEF Counted

\* Steps that change neither files at their paths nor the index.
LEMMA SameOut ==
  ASSUME Inv, Inv', Counted, UNCHANGED <<file, index, mutex, crashes, faults>>
  PROVE  Counted'
<1>1. \A c \in Chunks : InStep(c)' <=> InStep(c)
  <2>1. \A c \in Chunks : InStep(c) <=> (file[c] = None <=> index[c] = None)
    BY InStepIs, Zenon
  <2>2. \A c \in Chunks : InStep(c)' <=> (file'[c] = None <=> index'[c] = None)
    BY InStepNext, Zenon
  <2>3. QED
    BY <2>1, <2>2, Zenon
<1>2. QED
  BY <1>1, NoneOut, Zenon DEF Out, Free


\* Rename and Delete take a chunk out of the count while they hold the mutex.
LEMMA LockOut ==
  ASSUME Inv, Inv', Counted, NEW c \in Chunks, mutex = Free, mutex' # Free, mutex'.chunk = c,
         \A d \in Chunks \ {c} : file'[d] = file[d], UNCHANGED <<index, crashes, faults>>
  PROVE  Counted'
<1>1. \A d \in Chunks \ {c} : InStep(d)' <=> InStep(d)
  BY InStepIs, InStepNext, Zenon
<1>2. Out' \subseteq Out
  BY <1>1, Zenon DEF Out
<1>3. QED
  BY <1>2, NoneOut, Zenon

\* They leave it in step, unless the index fails.
LEMMA UnlockOut ==
  ASSUME Inv, Inv', Counted, NEW c \in Chunks, mutex # Free, mutex.chunk = c, mutex' = Free,
         \A d \in Chunks \ {c} : index'[d] = index[d], file' = file,
         \/ UNCHANGED <<crashes, faults>> /\ InStep(c)'
         \/ crashes' = crashes /\ faults' = faults + 1
         \/ crashes' = crashes + 1 /\ faults' = faults
  PROVE  Counted'
<1>1. \A d \in Chunks \ {c} : InStep(d)' <=> InStep(d)
  BY InStepIs, InStepNext, Zenon
<1>2. Out' \subseteq Out \cup {c}
  BY <1>1, Zenon DEF Out
<1>3. CASE UNCHANGED <<crashes, faults>> /\ InStep(c)'
  <2>1. Out' \subseteq Out
    BY <1>2, <1>3, Zenon DEF Out
  <2>2. QED
    BY <1>3, <2>1, NoneOut, Zenon
<1>4. CASE crashes' = crashes /\ faults' = faults + 1
  BY <1>2, <1>4, OneOut, Zenon
<1>5. CASE crashes' = crashes + 1 /\ faults' = faults
  BY <1>2, <1>5, OneOut, Zenon
<1>6. QED
  BY <1>3, <1>4, <1>5, Zenon

\* Who holds the mutex, and for which chunk.
LEMMA Holder ==
  ASSUME Inv, mutex # Free
  PROVE  /\ mutex.chunk \in Chunks
         /\ mutex.op = "rename" => file[mutex.chunk] # None
         /\ mutex.op = "delete" => file[mutex.chunk] = None
BY Zenon DEF Inv, Locked

\* At first no chunk is out of step.
LEMMA CountedInit == Init => Counted
<1> SUFFICES ASSUME Init PROVE Counted
  BY Zenon
<1>1. Out = {}
  BY Zenon DEF Init, Out, InStep, Exists
<1>2. QED
  BY <1>1, FS_EmptySet DEF Init, Counted

\* Every step keeps the bound: once the mutex is released, only a crash or a
\* failed update of the index has put a chunk out of step.
LEMMA CountedNext ==
  ASSUME Inv, Inv', Counted, [Next]_vars
  PROVE  Counted'
<1>1. CASE UNCHANGED <<file, index, mutex, crashes, faults>>
  BY <1>1, SameOut, Zenon
<1>2. ASSUME NEW s \in DOMAIN writers, RenameFile(s) PROVE Counted'
  <2>1. /\ mutex = Free /\ mutex' # Free /\ mutex'.chunk = writers[s].chunk
        /\ file' = [file EXCEPT ![writers[s].chunk] = tmp[writers[s].chunk]]
        /\ UNCHANGED <<index, crashes, faults>>
    BY <1>2, Zenon DEF RenameFile, Free, counts
  <2>2. writers[s].chunk \in Chunks /\ file \in [Chunks -> Live \cup {None}]
    BY Zenon DEF Inv, Types
  <2>3. QED
    BY <2>1, <2>2, LockOut, Zenon
<1>3. ASSUME NEW c \in Chunks, DeleteFile(c) PROVE Counted'
  <2>1. /\ mutex = Free /\ mutex' # Free /\ mutex'.chunk = c
        /\ file' = [file EXCEPT ![c] = None]
        /\ UNCHANGED <<index, crashes, faults>>
    BY <1>3, Zenon DEF DeleteFile, Free, counts
  <2>2. file \in [Chunks -> Live \cup {None}]
    BY Zenon DEF Inv, Types
  <2>3. QED
    BY <2>1, <2>2, LockOut, Zenon
<1>4. ASSUME NEW s \in DOMAIN writers, RenameIndex(s) PROVE Counted'
  <2>1. /\ mutex' = Free /\ index' = [index EXCEPT ![mutex.chunk] = inodes[file[mutex.chunk]]]
        /\ UNCHANGED <<file, inodes, crashes, faults>> /\ writers[s].pc = "index"
    BY <1>4, Zenon DEF RenameIndex, IndexPut, disk, counts
  <2>2. mutex # Free /\ mutex.op = "rename"
    BY <2>1, IndexLocked, ZenonT(30)
  <2>3. mutex.chunk \in Chunks /\ file[mutex.chunk] # None /\ index \in [Chunks -> Seq(Nat) \cup {None}]
    BY <2>2, Holder, Zenon DEF Inv, Types
  <2>4. PICK c \in Chunks : c = mutex.chunk
    BY <2>3, Zenon
  <2>5. /\ index'[c] = inodes'[file'[c]] /\ file'[c] # None
        /\ \A d \in Chunks \ {c} : index'[d] = index[d]
    BY <2>1, <2>3, <2>4, Zenon
  <2>6. InStep(c)'
    BY <2>5, Zenon DEF InStep
  <2>7. QED
    BY <2>1, <2>2, <2>4, <2>5, <2>6, UnlockOut, ZenonT(30)
<1>5. ASSUME NEW s \in DOMAIN writers, RenameIndexFail(s) PROVE Counted'
  <2>1. /\ mutex' = Free /\ writers[s].pc = "index" /\ faults' = faults + 1
        /\ UNCHANGED <<file, index, crashes>>
    BY <1>5, Zenon DEF RenameIndexFail
  <2>2. mutex # Free
    BY <2>1, IndexLocked, Zenon
  <2>3. QED
    BY <2>1, <2>2, Holder, UnlockOut, Zenon
<1>6. CASE DeleteIndex
  <2>1. mutex # Free /\ mutex.op = "delete" /\ mutex' = Free /\ UNCHANGED <<file, crashes>>
    BY <1>6 DEF DeleteIndex, Free, disk
  <2>2. mutex.chunk \in Chunks /\ file[mutex.chunk] = None /\ index \in [Chunks -> Seq(Nat) \cup {None}]
    BY <2>1, Holder, Zenon DEF Inv, Types
  <2>3. CASE index' = [index EXCEPT ![mutex.chunk] = None] /\ UNCHANGED faults
    <3>1. PICK c \in Chunks : c = mutex.chunk
      BY <2>2, Zenon
    <3>2. index'[c] = None /\ file'[c] = None /\ \A d \in Chunks \ {c} : index'[d] = index[d]
      BY <2>1, <2>2, <2>3, <3>1, Zenon
    <3>3. InStep(c)'
      BY <3>2, Zenon DEF InStep, Exists
    <3>4. QED
      BY <2>1, <2>3, <3>1, <3>2, <3>3, UnlockOut, Zenon
  <2>4. CASE faults' = faults + 1 /\ UNCHANGED index
    BY <2>1, <2>2, <2>4, UnlockOut, Zenon
  <2>5. QED
    BY <1>6, <2>3, <2>4, Zenon DEF DeleteIndex, IndexDelete
<1>7. CASE Crash
  <2>1. mutex' = Free /\ crashes' = crashes + 1 /\ UNCHANGED <<file, index, faults>>
    BY <1>7, Zenon DEF Crash, disk
  <2>2. CASE mutex # Free
    BY <2>1, <2>2, Holder, UnlockOut, Zenon
  <2>3. CASE mutex = Free
    <3>1. \A d \in Chunks : InStep(d)' <=> InStep(d)
      BY <2>1, InStepIs, InStepNext, Zenon
    <3>2. Out' \subseteq Out \cup {None}
      BY <2>1, <2>3, <3>1, Zenon DEF Out
    <3>3. QED
      BY <2>1, <3>2, OneOut, Zenon
  <2>4. QED
    BY <2>2, <2>3, Zenon
<1>8. QED
  BY <1>1, <1>2, <1>3, <1>4, <1>5, <1>6, <1>7, Zenon
  DEF Next, vars, disk, store, counts, NewChunkWriter, WriteFrame, AbortStream, EndStream, Finalize,
      RenameFail, NewChunkReader, Verify, Lookup, ReadMissing, OpenFile, NextFrame, CloseReader

\* IndexedIsStored (DiskStore.Rename, Delete and List): then the inventory a node
\* reports differs from its disk by at most one chunk for every crash and every
\* failure of the index, and not at all without them.
THEOREM IndexedIsStoredHolds ==
  ASSUME ~SharedChunk
  PROVE  Spec => []IndexedIsStored
<1>1. Counted => IndexedIsStored
  <2> SUFFICES ASSUME Counted, mutex = Free
               PROVE  Cardinality({c \in Chunks : ~InStep(c)}) <= crashes + faults
    BY Zenon DEF IndexedIsStored
  <2>1. Out = {c \in Chunks : ~InStep(c)}
    BY Zenon DEF Out
  <2>2. QED
    BY <2>1, Zenon DEF Counted
<1>2. Spec => []Counted
  BY InvHolds, CountedInit, CountedNext, PTL DEF Spec
<1>3. QED
  BY <1>1, <1>2, PTL


-----------------------------------------------------------------------------
(* Space *)

\* The chunks that usedSpace counts, with the one that Rename is about to add.
Counts ==
  {c \in Chunks : file[c] # None /\ (Exists(c) \/ (mutex.op = "rename" /\ mutex.chunk = c))}

\* What usedSpace is once the mutex is free.
Settled == IF mutex.op = "free" THEN usedSpace ELSE mutex.space

\* The frames of a set of chunks.
Blocks(K) == UNION {{c} \X (1..Frames[c]) : c \in K}

SpaceInv ==
  /\ Settled \in 0..TotalSpace /\ Settled <= Cardinality(Blocks(Counts))
  /\ crashes = 0 /\ faults = 0 => Settled = Cardinality(Blocks(Counts))
  /\ mutex.op = "rename" =>
       /\ usedSpace \in 0..TotalSpace
       /\ usedSpace <= Cardinality(Blocks(Counts \ {c \in Chunks : ~Exists(c)}))

\* The frames of a chunk.
LEMMA BlockSize ==
  ASSUME NEW c \in Chunks
  PROVE  /\ IsFiniteSet({c} \X (1..Frames[c])) /\ Frames[c] \in Nat \ {0}
         /\ Cardinality({c} \X (1..Frames[c])) = Frames[c]
<1> DEFINE n == Frames[c]
       S == {c}
       I == 1..n
<1>1. n \in Nat \ {0}
  BY FramesAssumption, Zenon
<1> HIDE DEF n
<1>2. IsFiniteSet(I) /\ Cardinality(I) = n
  BY <1>1, FS_Interval
<1>3. IsFiniteSet(S) /\ Cardinality(S) = 1
  BY FS_Singleton, Zenon
<1> HIDE DEF I, S
<1>4. IsFiniteSet(S \X I) /\ Cardinality(S \X I) = Cardinality(S) * Cardinality(I)
  BY <1>2, <1>3, FS_Product, Zenon
<1>5. IsFiniteSet(S \X I) /\ Cardinality(S \X I) = n
  BY <1>1, <1>2, <1>3, <1>4
<1> QED BY <1>1, <1>5, Zenon DEF S, I, n

\* The frames of several chunks are finitely many.
LEMMA BlocksFinite ==
  ASSUME NEW K \in SUBSET Chunks
  PROVE  IsFiniteSet(Blocks(K)) /\ Cardinality(Blocks(K)) \in Nat
<1> DEFINE T == {{c} \X (1..Frames[c]) : c \in K}
           f == [c \in K |-> {c} \X (1..Frames[c])]
<1>1. IsFiniteSet(K)
  BY FS_Subset, FramesAssumption, Zenon
<1>2. f \in Surjection(K, T)
  BY Zenon DEF Surjection
<1>3. IsFiniteSet(T)
  BY <1>1, <1>2, FS_Surjection, Zenon
<1>4. \A S \in T : IsFiniteSet(S)
  BY BlockSize, Zenon
<1>5. IsFiniteSet(UNION T)
  BY <1>3, <1>4, FS_UNION, Zenon
<1> QED BY <1>5, FS_CardinalityType, Zenon DEF Blocks

\* A chunk adds its frames.
LEMMA BlocksAdd ==
  ASSUME NEW K \in SUBSET Chunks, NEW c \in Chunks \ K
  PROVE  Cardinality(Blocks(K \cup {c})) = Cardinality(Blocks(K)) + Frames[c]
<1> DEFINE B == {c} \X (1..Frames[c])
<1>1. Blocks(K \cup {c}) = Blocks(K) \cup B
  BY Zenon DEF Blocks
<1>2. Blocks(K) \cap B = {}
  BY DEF Blocks
<1>3. IsFiniteSet(Blocks(K)) /\ Cardinality(Blocks(K)) \in Nat
  BY BlocksFinite, Zenon
<1>4. IsFiniteSet(B) /\ Cardinality(B) = Frames[c] /\ Frames[c] \in Nat
  BY BlockSize, Zenon
<1> HIDE DEF B
<1>5. Cardinality(Blocks(K) \cup B) = Cardinality(Blocks(K)) + Cardinality(B) - Cardinality({})
  BY <1>2, <1>3, <1>4, FS_Union, Zenon
<1>6. Cardinality({}) = 0
  BY FS_EmptySet, Zenon
<1> DEFINE x == Cardinality(Blocks(K))
       z == Cardinality(Blocks(K) \cup B)
<1>7. z = x + Frames[c] - 0
  BY <1>4, <1>5, <1>6, Zenon
<1>8. x \in Nat /\ Frames[c] \in Nat
  BY <1>3, <1>4, Zenon
<1> HIDE DEF x, z
<1>9. z = x + Frames[c]
  BY <1>7, <1>8
<1> QED BY <1>1, <1>9, Zenon DEF x, z

\* More chunks have no fewer frames.
LEMMA BlocksMore ==
  ASSUME NEW L \in SUBSET Chunks, NEW K \in SUBSET L
  PROVE  Cardinality(Blocks(K)) <= Cardinality(Blocks(L))
<1>1. Blocks(K) \in SUBSET Blocks(L)
  BY Zenon DEF Blocks
<1> QED BY <1>1, BlocksFinite, FS_Subset, Zenon

\* A difference that does not leave the word.
LEMMA MinusIs ==
  ASSUME NEW a \in Nat, NEW b \in Nat, b <= a, a - b < Word
  PROVE  Minus(a, b) = a - b
<1> DEFINE d == a - b
<1>1. d \in Nat /\ d < Word /\ Word \in Nat /\ Word + a - b = Word + d
  BY FramesAssumption
<1> HIDE DEF d
<1>2. (Word + d) % Word = d
  BY <1>1
<1> QED BY <1>1, <1>2, Zenon DEF Minus, d

\* A step outside of Rename, Delete and a crash.
LEMMA SpaceFrame ==
  ASSUME SpaceInv, UNCHANGED <<file, index, usedSpace, mutex, crashes, faults>>
  PROVE  SpaceInv'
<1>1. Counts' = Counts /\ Settled' = Settled
  BY Zenon DEF Counts, Settled, Exists
<1>2. {c \in Chunks : ~Exists(c)}' = {c \in Chunks : ~Exists(c)}
  BY Zenon DEF Exists
<1> QED BY <1>1, <1>2, Zenon DEF SpaceInv, Blocks

\* After a step, with what it takes to be counted.
LEMMA SpaceNext ==
  ASSUME NEW K \in SUBSET Chunks, NEW n \in 0..TotalSpace, Counts' = K, Settled' = n,
         n <= Cardinality(Blocks(K)),
         crashes' = 0 /\ faults' = 0 => n = Cardinality(Blocks(K)),
         mutex'.op # "rename"
  PROVE  SpaceInv'
BY Zenon DEF SpaceInv, Blocks

\* Rename adds a chunk that fits, or replaces one of the same size.
LEMMA RenameFileSpace ==
  ASSUME Inv, TypeInv, SpaceInv, NEW s \in DOMAIN writers, RenameFile(s)
  PROVE  SpaceInv'
<1> DEFINE c == writers[s].chunk
           n == Frames[c]
           e == ExistingSize(c)
           u == usedSpace
           K == Counts
<1>1. /\ writers[s].pc = "commit" /\ mutex = Free /\ tmp[c] # None /\ SpaceFits(c)
      /\ mutex' = [op |-> "rename", chunk |-> c, space |-> SpaceAfter(c)]
      /\ file' = [file EXCEPT ![c] = tmp[c]]
      /\ UNCHANGED <<index, usedSpace, crashes, faults>>
  BY Zenon DEF RenameFile, counts
<1>2. c \in Chunks /\ inodes[tmp[c]] = Upto(n) /\ n \in Nat \ {0}
  <2>1. c \in Chunks
    BY Zenon DEF Inv, Types
  <2>2. writers[s].inode = tmp[c] /\ inodes[writers[s].inode] = Upto(n)
    BY <1>1, Zenon DEF Inv, Writing, Writes
  <2> QED BY <2>1, <2>2, WholeIs, Zenon
<1>3. Len(inodes[tmp[c]]) = n
  BY <1>2, UptoSeq, Zenon
<1>4. K = {d \in Chunks : file[d] # None /\ Exists(d)} /\ Settled = u
  BY <1>1, Zenon DEF Counts, Settled, Free
<1>5. e = IF c \in K THEN n ELSE 0
  <2>1. file[c] # None => Len(inodes[file[c]]) = n
    BY <1>2, WholeIs, Zenon DEF Inv, Files
  <2> QED BY <1>2, <1>4, <2>1, Zenon DEF ExistingSize, FileSize
<1>6. u \in 0..TotalSpace /\ u <= Cardinality(Blocks(K))
      /\ (crashes = 0 /\ faults = 0 => u = Cardinality(Blocks(K)))
  BY <1>4, Zenon DEF SpaceInv
<1>7. TotalSpace \in Nat /\ TotalSpace < Word /\ Word \in Nat
  BY FramesAssumption
<1>8. file'[c] # None /\ \A d \in Chunks : d # c => file'[d] = file[d]
  BY <1>1, <1>2, Zenon DEF Inv, Types
<1>9. Counts' = K \cup {c} /\ Settled' = SpaceAfter(c) /\ mutex'.op = "rename"
  BY <1>1, <1>2, <1>4, <1>8, Zenon DEF Counts, Settled, Exists
<1>10. Cardinality(Blocks(K)) \in Nat /\ K \in SUBSET Chunks
  BY BlocksFinite, Zenon DEF Counts
<1>11. /\ SpaceAfter(c) \in 0..TotalSpace /\ SpaceAfter(c) <= Cardinality(Blocks(K \cup {c}))
       /\ crashes = 0 /\ faults = 0 => SpaceAfter(c) = Cardinality(Blocks(K \cup {c}))
  <2>1. SpaceAfter(c) = Minus(u + n, e)
    BY <1>3, Zenon DEF SpaceAfter
  <2>2. CASE c \in K
    <3>1. K \cup {c} = K
      BY <2>2, Zenon
    <3>2. Minus(u + n, n) = u
      <4>1. u + n \in Nat /\ n \in Nat /\ n <= u + n /\ (u + n) - n = u /\ u < Word
        BY <1>2, <1>6, <1>7
      <4> QED BY <4>1, MinusIs, Zenon
    <3> QED BY <1>5, <1>6, <2>1, <2>2, <3>1, <3>2, Zenon
  <2>3. CASE c \notin K
    <3>1. n <= Minus(TotalSpace, u)
      <4>1. n > e => n - e <= Minus(TotalSpace, u)
        BY <1>1, <1>3, Zenon DEF SpaceFits
      <4>2. e = 0
        BY <1>5, <2>3, Zenon
      <4> HIDE DEF e, n
      <4> QED BY <1>2, <4>1, <4>2
    <3>2. Minus(TotalSpace, u) = TotalSpace - u
      <4>1. TotalSpace - u < Word /\ u \in Nat /\ u <= TotalSpace
        BY <1>6, <1>7
      <4> QED BY <1>7, <4>1, MinusIs, ZenonT(30)
    <3>3. Minus(u + n, 0) = u + n
      <4>1. u + n \in Nat /\ u + n <= TotalSpace /\ u + n < Word /\ 0 <= u + n /\ (u + n) - 0 = u + n
        BY <1>2, <1>6, <1>7, <3>1, <3>2, SMTT(20)
      <4> QED BY <4>1, MinusIs, Zenon
    <3>4. Cardinality(Blocks(K \cup {c})) = Cardinality(Blocks(K)) + n
      BY <1>2, <1>10, <2>3, BlocksAdd, Zenon
    <3>5. SpaceAfter(c) = u + n
      BY <1>5, <2>1, <2>3, <3>3, Zenon
    <3> DEFINE x == Cardinality(Blocks(K))
               y == Cardinality(Blocks(K \cup {c}))
    <3>6. y = x + n /\ x \in Nat /\ u <= x /\ (crashes = 0 /\ faults = 0 => u = x)
      BY <1>6, <1>10, <3>4, Zenon
    <3>7. n <= TotalSpace - u
      BY <3>1, <3>2, Zenon
    <3> HIDE DEF u, n, K, x, y
    <3>8. u + n \in 0..TotalSpace /\ u + n <= y /\ (crashes = 0 /\ faults = 0 => u + n = y)
      BY <1>2, <1>6, <1>7, <3>6, <3>7, SMTT(30)
    <3> QED BY <3>5, <3>8, Zenon DEF y
  <2> QED BY <2>2, <2>3, Zenon
<1>12. u <= Cardinality(Blocks((K \cup {c}) \ {d \in Chunks : ~Exists(d)'}))
  <2> DEFINE L == (K \cup {c}) \ {d \in Chunks : ~Exists(d)'}
  <2>1. L \in SUBSET Chunks /\ K \in SUBSET L
    BY <1>1, <1>2, <1>4, Zenon DEF Exists
  <2>2. Cardinality(Blocks(K)) <= Cardinality(Blocks(L)) /\ Cardinality(Blocks(L)) \in Nat
    BY <2>1, BlocksMore, BlocksFinite, Zenon
  <2> HIDE DEF L
  <2> QED BY <1>6, <1>10, <2>2 DEF L
<1> QED BY <1>1, <1>6, <1>9, <1>11, <1>12, Zenon DEF SpaceInv, Blocks

\* Rename ends: the chunk is in the index, or it is not and usedSpace stays.
LEMMA RenameEndsSpace ==
  ASSUME Inv, SpaceInv, Counted, NEW s \in DOMAIN writers, RenameIndex(s) \/ RenameIndexFail(s)
  PROVE  SpaceInv'
<1> DEFINE c == mutex.chunk
<1>1. /\ writers[s].pc = "index" /\ mutex' = Free /\ UNCHANGED file
  BY Zenon DEF RenameIndex, RenameIndexFail, disk
<1>2. mutex.op = "rename" /\ c \in Chunks /\ file[c] # None
  BY <1>1, IndexLocked, Zenon
<1>3. mutex'.op = "free" /\ Settled = mutex.space /\ Settled' = usedSpace'
  BY <1>1, <1>2, Zenon DEF Settled, Free
<1>4. /\ Settled \in 0..TotalSpace /\ Settled <= Cardinality(Blocks(Counts))
      /\ crashes = 0 /\ faults = 0 => Settled = Cardinality(Blocks(Counts))
  BY Zenon DEF SpaceInv
<1>5. CASE RenameIndex(s)
  <2>1. /\ index' = [index EXCEPT ![c] = inodes[file[c]]] /\ usedSpace' = mutex.space
        /\ UNCHANGED <<crashes, faults>>
    BY <1>5, Zenon DEF RenameIndex, IndexPut, counts
  <2>2. inodes[file[c]] # None
    BY <1>2, WholeIs, NoneAssumption, Zenon DEF Inv, Files
  <2>3. Counts' = Counts
    <3>1. \A d \in Chunks : Exists(d)' <=> (Exists(d) \/ d = c)
      BY <1>2, <2>1, <2>2, Zenon DEF Exists, Inv, Types
    <3> QED BY <1>1, <1>2, <1>3, <3>1, Zenon DEF Counts
  <2>4. Counts \in SUBSET Chunks
    BY Zenon DEF Counts
  <2> QED BY <1>3, <1>4, <2>1, <2>3, <2>4, SpaceNext, ZenonT(30)
<1>6. CASE RenameIndexFail(s)
  <2>1. UNCHANGED <<index, usedSpace>> /\ faults' = faults + 1
    BY <1>6, Zenon DEF RenameIndexFail
  <2>2. faults' # 0
    BY <2>1 DEF Counted
  <2> DEFINE K == Counts \ {d \in Chunks : ~Exists(d)}
  <2>3. Counts' = K
    BY <1>1, <1>3, <2>1, Zenon DEF Counts, Exists
  <2>4. usedSpace \in 0..TotalSpace /\ usedSpace <= Cardinality(Blocks(K))
    BY <1>2, Zenon DEF SpaceInv
  <2>5. K \in SUBSET Chunks
    BY Zenon DEF Counts
  <2> HIDE DEF K
  <2> QED BY <1>3, <2>1, <2>2, <2>3, <2>4, <2>5, SpaceNext, Zenon
<1> QED BY <1>5, <1>6, Zenon

\* Delete takes the frames of its chunk away.
LEMMA DeleteFileSpace ==
  ASSUME Inv, SpaceInv, NEW c \in Chunks, DeleteFile(c)
  PROVE  SpaceInv'
<1> DEFINE n == Frames[c]
           u == usedSpace
           K == Counts \ {c}
           p == IF u >= FileSize(c) THEN u - FileSize(c) ELSE 0
<1>1. /\ mutex = Free /\ Exists(c) /\ file[c] # None
      /\ mutex' = [op |-> "delete", chunk |-> c, space |-> p]
      /\ file' = [file EXCEPT ![c] = None]
      /\ UNCHANGED <<index, usedSpace, crashes, faults>>
  BY Zenon DEF DeleteFile, counts
<1>2. n \in Nat /\ FileSize(c) = n
  BY <1>1, WholeIs, Zenon DEF FileSize, Inv, Files
<1>3. c \in Counts /\ Settled = u
  BY <1>1, Zenon DEF Counts, Settled, Free
<1>4. /\ u \in 0..TotalSpace /\ u <= Cardinality(Blocks(Counts))
      /\ crashes = 0 /\ faults = 0 => u = Cardinality(Blocks(Counts))
  BY <1>3, Zenon DEF SpaceInv
<1>5. Counts' = K /\ Settled' = p /\ mutex'.op = "delete" /\ K \in SUBSET Chunks
  <2>1. \A d \in Chunks : file'[d] = IF d = c THEN None ELSE file[d]
    BY <1>1, Zenon DEF Inv, Types
  <2>2. mutex'.op = "delete" /\ mutex.op = "free"
    BY <1>1, Zenon DEF Free
  <2>3. Counts' = K
    BY <1>1, <2>1, <2>2, Zenon DEF Counts, Exists
  <2>4. Settled' = p
    BY <1>1, Zenon DEF Settled
  <2> QED BY <2>2, <2>3, <2>4, Zenon DEF Counts
<1>6. /\ Cardinality(Blocks(Counts)) = Cardinality(Blocks(K)) + n
      /\ Cardinality(Blocks(K)) \in Nat
  <2>1. c \in Chunks \ K /\ K \cup {c} = Counts
    BY <1>3, Zenon
  <2>2. Cardinality(Blocks(K \cup {c})) = Cardinality(Blocks(K)) + n
    BY <1>5, <2>1, BlocksAdd, Zenon
  <2> QED BY <1>5, <2>1, <2>2, BlocksFinite, Zenon
<1>7. /\ p \in 0..TotalSpace /\ p <= Cardinality(Blocks(K))
      /\ crashes = 0 /\ faults = 0 => p = Cardinality(Blocks(K))
  <2> DEFINE x == Cardinality(Blocks(Counts))
             y == Cardinality(Blocks(K))
  <2>1. x = y + n /\ y \in Nat /\ u <= x /\ (crashes = 0 /\ faults = 0 => u = x)
    BY <1>4, <1>6, Zenon
  <2>2. TotalSpace \in Nat /\ p = IF u >= n THEN u - n ELSE 0
    BY <1>2, FramesAssumption
  <2> HIDE DEF x, y, n, u, p, K
  <2>3. p \in 0..TotalSpace /\ p <= y /\ (crashes = 0 /\ faults = 0 => p = y)
    BY <1>2, <1>4, <2>1, <2>2
  <2> QED BY <2>3, Zenon DEF y
<1> HIDE DEF p, K
<1> QED BY <1>1, <1>5, <1>7, SpaceNext, Zenon

\* Delete ends; the file is gone, whatever becomes of the index.
LEMMA DeleteIndexSpace ==
  ASSUME Inv, SpaceInv, Counted, DeleteIndex
  PROVE  SpaceInv'
<1>1. /\ mutex.op = "delete" /\ usedSpace' = mutex.space /\ mutex' = Free
      /\ index' = [index EXCEPT ![mutex.chunk] = None] \/ UNCHANGED index
      /\ UNCHANGED <<file, crashes>> /\ (faults' = faults \/ faults' = faults + 1)
  BY Zenon DEF DeleteIndex, IndexDelete, disk
<1>2. mutex.chunk \in Chunks /\ file[mutex.chunk] = None
  BY <1>1 DEF Inv, Locked, Free
<1>3. mutex'.op = "free" /\ Settled' = Settled
  BY <1>1, Zenon DEF Settled, Free
<1>4. Counts' = Counts
  <2>1. \A d \in Chunks : d # mutex.chunk => (Exists(d)' <=> Exists(d))
    BY <1>1, <1>2, Zenon DEF Exists, Inv, Types
  <2> QED BY <1>1, <1>2, <1>3, <2>1, Zenon DEF Counts
<1>5. crashes' = 0 /\ faults' = 0 => crashes = 0 /\ faults = 0
  BY <1>1 DEF Counted
<1>6. Counts \in SUBSET Chunks
  BY Zenon DEF Counts
<1> QED BY <1>3, <1>4, <1>5, <1>6, SpaceNext, Zenon DEF SpaceInv

\* The space counted is that of indexed files, after every step.
LEMMA SpaceNextInv ==
  ASSUME Inv, TypeInv, Counted, SpaceInv, [Next]_vars
  PROVE  SpaceInv'
<1>1. CASE \E s \in DOMAIN writers : RenameFile(s) \/ RenameIndex(s) \/ RenameIndexFail(s)
  BY <1>1, RenameFileSpace, RenameEndsSpace, Zenon
<1>2. CASE DeleteIndex \/ \E c \in Chunks : DeleteFile(c)
  BY <1>2, DeleteFileSpace, DeleteIndexSpace, Zenon
<1>3. CASE Crash
  <2>1. mutex' = Free /\ usedSpace' = 0 /\ crashes' = crashes + 1
    BY <1>3, Zenon DEF Crash
  <2>2. crashes' # 0 /\ Settled' = 0 /\ mutex'.op = "free"
    BY <2>1 DEF Counted, Settled, Free
  <2> DEFINE K == Counts'
  <2>3. K \in SUBSET Chunks
    BY Zenon DEF Counts
  <2>4. 0 <= Cardinality(Blocks(K)) /\ 0 \in 0..TotalSpace
    BY <2>3, BlocksFinite, FramesAssumption
  <2> QED BY <2>2, <2>3, <2>4, SpaceNext, Zenon
<1>4. CASE UNCHANGED <<file, index, usedSpace, mutex, crashes, faults>>
  BY <1>4, SpaceFrame, Zenon
<1>5. \/ \E s \in DOMAIN writers : RenameFile(s) \/ RenameIndex(s) \/ RenameIndexFail(s)
      \/ DeleteIndex \/ \E c \in Chunks : DeleteFile(c)
      \/ Crash
      \/ UNCHANGED <<file, index, usedSpace, mutex, crashes, faults>>
  BY Zenon DEF Next, vars, disk, store, counts, NewChunkWriter, WriteFrame, AbortStream, EndStream, Finalize,
       RenameFail, NewChunkReader, Verify, Lookup, ReadMissing, OpenFile, NextFrame, CloseReader
<1> QED BY <1>1, <1>2, <1>3, <1>4, <1>5, ZenonT(30)

\* An empty disk has no frames.
LEMMA SpaceInit == Init => SpaceInv
<1> SUFFICES ASSUME Init PROVE SpaceInv
  BY Zenon
<1>1. Counts = {} /\ Settled = 0 /\ mutex.op = "free"
  BY Zenon DEF Init, Counts, Settled, Free, Exists
<1>2. Blocks({}) = {}
  BY Zenon DEF Blocks
<1>3. Cardinality({}) = 0
  BY FS_EmptySet, Zenon
<1>4. 0 \in 0..TotalSpace
  BY FramesAssumption
<1> QED BY <1>1, <1>2, <1>3, <1>4 DEF SpaceInv

\* SpaceAccounted (the space check of DiskStore.Rename, the subtraction of
\* DiskStore.Delete, FreeSpace): then usedSpace never exceeds the disk or the
\* size of the files on it, the uint64 subtractions never wrap, and without
\* crashes and failures of the index a node reports its true free space.
THEOREM SpaceAccountedHolds ==
  ASSUME ~SharedChunk
  PROVE  Spec => []SpaceAccounted
<1>1. Inv /\ Counted /\ SpaceInv => SpaceAccounted
  <2> SUFFICES ASSUME Inv, Counted, SpaceInv, mutex = Free
               PROVE  LET used == Cardinality(UNION {{c} \X (1..FileSize(c)) : c \in Chunks})
                      IN  /\ usedSpace <= used /\ usedSpace <= TotalSpace
                          /\ crashes = 0 /\ faults = 0 => FreeSpace = TotalSpace - used
    BY Zenon DEF SpaceAccounted
  <2> DEFINE F == {c \in Chunks : file[c] # None}
             used == Cardinality(Blocks(F))
  <2>1. UNION {{c} \X (1..FileSize(c)) : c \in Chunks} = Blocks(F)
    <3>1. \A c \in Chunks : FileSize(c) = IF c \in F THEN Frames[c] ELSE 0
      BY WholeIs, Zenon DEF FileSize, Inv, Files
    <3> HIDE DEF F
    <3>2. F \subseteq Chunks
      BY Zenon DEF F
    <3> QED BY <3>1, <3>2, SMTT(30) DEF Blocks
  <2>2. Counts \in SUBSET F /\ F \in SUBSET Chunks
    BY Zenon DEF Counts
  <2>3. /\ usedSpace \in 0..TotalSpace /\ usedSpace <= Cardinality(Blocks(Counts))
        /\ crashes = 0 /\ faults = 0 => usedSpace = Cardinality(Blocks(Counts))
    BY Zenon DEF SpaceInv, Settled, Free
  <2>4. Cardinality(Blocks(Counts)) <= used /\ used \in Nat /\ Cardinality(Blocks(Counts)) \in Nat
    BY <2>2, BlocksMore, BlocksFinite, Zenon
  <2>5. crashes = 0 /\ faults = 0 => Counts = F
    <3> SUFFICES ASSUME crashes = 0, faults = 0 PROVE Counts = F
      BY Zenon
    <3>1. Cardinality(Out) = 0 /\ IsFiniteSet(Out)
      BY FS_CardinalityType DEF Counted
    <3>2. Out = {}
      BY <3>1, FS_EmptySet, Zenon
    <3>3. \A c \in Chunks : InStep(c)
      BY <3>2, Zenon DEF Out
    <3> QED BY <3>3, InStepIs, Zenon DEF Counts, Exists
  <2> HIDE DEF used, F
  <2>6. /\ usedSpace <= used /\ usedSpace <= TotalSpace
        /\ crashes = 0 /\ faults = 0 => FreeSpace = TotalSpace - used
    <3>1. TotalSpace \in Nat
      BY FramesAssumption
    <3>2. crashes = 0 /\ faults = 0 => usedSpace = used
      BY <2>3, <2>5, Zenon DEF used
    <3>3. usedSpace <= used /\ usedSpace <= TotalSpace
      BY <2>3, <2>4, <3>1, SMTT(30)
    <3> QED BY <2>3, <3>1, <3>2, <3>3 DEF FreeSpace
  <2> QED BY <2>1, <2>6, Zenon DEF used
<1>2. Spec => []Counted
  BY InvHolds, CountedInit, CountedNext, PTL DEF Spec
<1>3. Spec => []SpaceInv
  BY <1>2, InvHolds, TypeInvHolds, SpaceInit, SpaceNextInv, PTL DEF Spec
<1> QED BY <1>1, <1>2, <1>3, InvHolds, PTL

=============================================================================
