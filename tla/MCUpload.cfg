\* Two chunks in parallel on three nodes, of which one or two are full; failed
\* replicas, lost messages and bad reads.
CONSTANTS
  f1 = f1  c1 = c1  c2 = c2  s1 = s1  s2 = s2
  n1 = n1  n2 = n2  n3 = n3  a1 = a1  a2 = a2  a3 = a3
  FileIDs = {f1}
  ChunkIDs = {c1, c2}
  NodeIDs = {n1, n2, n3}
  JobIDs = {}
  Addrs = {a1, a2, a3}
  Reports <- SomeReports
  InitialReports <- ReportCases
  ChunkSize = 1
  Sizes = {0}
  Checksums = {s1, s2}
  NoChecksum = NoChecksum
  NoNode = NoNode
  RaftAddrs = {}
  GrpcAddrs = {}
  ChunkLists <- TwoChunkLists
  CommitLists <- NoLists
  FileID = f1
  FileChunks <- TwoChunks
  AddrOf <- Addresses
  ChecksumOf <- Contents
  ReplicationFactor = 2
  MaxParallelUploads = 2
  MaxAttempts = 2
  MaxInvokes = 2
  MaxFaults = 2
  MaxLost = 2
  MaxParallelDownloads = 1
  Damaged = Damaged
  NoData = NoData
  MaxReadFaults = 2
SPECIFICATION FairDownloadSpec
INVARIANTS UploadTypeOK UploadedIsDownloadable ListedReplicasHold ManifestResumes DownloadedIsUploaded DownloadFailsOver
PROPERTIES DeletionStands UploadReturns UploadSucceeds
CHECK_DEADLOCK FALSE
