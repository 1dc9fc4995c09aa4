\* Two calls at a time, more attempts than servers, and two crashes or losses.
CONSTANTS
  m1 = m1
  m2 = m2
  Servers = {m1, m2}
  Seeds <- MCSeeds
  Callers = {k1, k2}
  Numbers <- MCNumbers
  None = None
  MaxAttempts = 3
  Advertise = FALSE
  MaxMishaps = 2
SPECIFICATION FairSpec
INVARIANTS TypeOK ConnectionsOwned UndisturbedSucceeds
PROPERTY CacheConverges
CHECK_DEADLOCK FALSE
