\* One node crashes and one transfer or report goes wrong; the chunk is
\* replicated again.
CONSTANTS
  n1 = n1  n2 = n2  n3 = n3  n4 = n4  n5 = n5
  Nodes = {n1, n2, n3, n4}
  InitialReplicas = {n1, n2}
  NoNode = NoNode
  ReplicationFactor = 2
  Workers = 2
  QueueCapacity = 4
  MaxJobs = 4
  MaxCrashes = 1
  MaxLeaves = 0
  MaxFalseDeaths = 0
  MaxFaults = 1
  MaxRejections = 0
  MaxRestarts = 0
  MaxHandovers = 0
  MaxMishaps = 2
SPECIFICATION FairSpec
PROPERTY EventuallyReplicated
CHECK_DEADLOCK FALSE
