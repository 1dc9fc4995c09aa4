\* Two nodes, one of which restarts, lost calls, and a change of the leader.
CONSTANTS
  Nodes = {n1, n2}
  Peers = {m1, m2}
  SuspectTimeout = 2
  Restarting = {n1}
  MaxStarts = 2
  MaxLost = 2
  MaxFailovers = 1
SPECIFICATION LivenessFairSpec
INVARIANTS LivenessTypeOK TrustedAlive
PROPERTIES DeathDetected RegistrationRetried
