\* Two streams of the same chunk: a retry, or a repair during an upload.
CONSTANTS
  c1 = c1  c2 = c2
  Chunks = {c1}
  Frames <- TwoFrames
  Streams = {"put", "retry"}
  SharedChunk = TRUE
  Readers = {"get"}
  TotalSpace = 2
  None = None
  MaxInodes = 3
  MaxCrashes = 0
  MaxFaults = 0
  Word = 16
SPECIFICATION Spec
INVARIANT ReadIsWhole
CHECK_DEADLOCK FALSE
