\* One node that stops and starts again; nothing is lost and one server leads.
CONSTANTS
  Nodes = {n1}
  Peers = {m1}
  SuspectTimeout = 2
  Restarting = {n1}
  MaxStarts = 2
  MaxLost = 0
  MaxFailovers = 0
SPECIFICATION LivenessSpec
INVARIANT TrustedNeverDead
