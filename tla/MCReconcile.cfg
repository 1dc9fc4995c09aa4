\* A settled cluster: nodes crash or shut down and come back, the watcher takes a
\* running node for dead, a repair runs, and evictions and DeleteChunk calls may
\* fail.  Or a new cluster to which the chunk is uploaded.
CONSTANTS
  n1 = n1  n2 = n2  n3 = n3
  Nodes = {n1, n2, n3}
  Uploaded = {n1, n2}
  Primary = n1
  Starts = {TRUE, FALSE}
  ReplicationFactor = 2
  NoTimer = NoTimer
  MaxTimers = 3
  MaxCrashes = 2
  MaxStops = 1
  MaxFalseDeaths = 1
  MaxRepairs = 1
  MaxRpcFailures = 1
  MaxMishaps = 3
SPECIFICATION MCSpec
INVARIANTS TypeOK NodesConform ListedReplicasHold ChunkSurvives
CHECK_DEADLOCK FALSE
