\* Behaviours with two files over three chunk IDs and one storage node, with
\* two storage nodes on two addresses and one chunk, and with a repair job and
\* a metadata node.
CONSTANTS
  f1 = f1  f2 = f2  c1 = c1  c2 = c2  c3 = c3
  n1 = n1  n2 = n2  a1 = a1  a2 = a2  s1 = s1  s2 = s2
  FileIDs = {f1, f2}
  ChunkIDs = {c1, c2, c3}
  NodeIDs = {n1, n2}
  JobIDs = {1}
  Addrs = {a1, a2}
  Reports = {0}
  Sizes = {0}
  Checksums = {s1, s2}
  NoChecksum = NoChecksum
  NoNode = NoNode
  RaftAddrs = {"r1"}
  GrpcAddrs = {"g1"}
  ChunkLists <- FileLists
  CommitLists <- MixedCommits
SPECIFICATION MCSpec
INVARIANTS TypeOK ChunkOwnership CompleteFileFilled
PROPERTIES NodesCountedOnce WriteOnce JobIdentity ImplementsWriteOnceFS
SYMMETRY FileSymmetry
