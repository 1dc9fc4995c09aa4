\* Replication factor 2 on three nodes, and any three mishaps of different kinds:
\* a crash, a departure or a corrupt copy, a false alarm, a failed transfer or a
\* lost report, a rejected proposal, a restart of the metadata server, a change
\* of the leader.
CONSTANTS
  n1 = n1  n2 = n2  n3 = n3  n4 = n4  n5 = n5
  Nodes = {n1, n2, n3}
  InitialReplicas = {n1, n2}
  NoNode = NoNode
  ReplicationFactor = 2
  Workers = 2
  QueueCapacity = 1
  MaxJobs = 2
  MaxCrashes = 1
  MaxLeaves = 1
  MaxFalseDeaths = 1
  MaxFaults = 1
  MaxRejections = 1
  MaxRestarts = 1
  MaxHandovers = 1
  MaxMishaps = 3
SPECIFICATION Spec
INVARIANTS TypeOK ListedReplicasHold NoSelfCopy SourcesHold
PROPERTY ImplementsChunkReplicas
SYMMETRY NodeSymmetry
CHECK_DEADLOCK FALSE
