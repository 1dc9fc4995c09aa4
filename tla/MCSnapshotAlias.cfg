\* A snapshot is written while replicas are evicted.
CONSTANTS
  s1 = s1  s2 = s2  n1 = n1  n2 = n2  n3 = n3  a2 = a2
  Peers = {s1, s2}
  Machines = {n1, n2, n3, a2}
  Commands <- Commands3
  NoHost = NoHost
  Slack = {0, 1}
  EvictWhilePersisting = TRUE
  MaxLog = 3
  MaxSnapshots = 1
  MaxRestarts = 1
SPECIFICATION ReplicatedSpec
INVARIANT Converged
SYMMETRY ServerSymmetry
CHECK_DEADLOCK FALSE
