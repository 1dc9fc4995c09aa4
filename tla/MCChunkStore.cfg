\* Two chunks that do not fit together, written by two streams, read, deleted
\* and overwritten meanwhile; a crash and a failed update of the index.
CONSTANTS
  c1 = c1  c2 = c2
  Chunks = {c1, c2}
  Frames <- OneAndTwo
  Streams = {"put", "repair"}
  SharedChunk = FALSE
  Readers = {"get"}
  TotalSpace = 2
  None = None
  MaxInodes = 4
  MaxCrashes = 1
  MaxFaults = 1
  Word = 16
SPECIFICATION Spec
INVARIANTS TypeOK StoredIsWhole ReadIsWhole IndexedIsStored SpaceAccounted
CHECK_DEADLOCK FALSE
