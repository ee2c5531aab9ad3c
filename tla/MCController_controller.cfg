SPECIFICATION FairSpec
CONSTANTS
  MaxRuns = 2
  Followed = {1}
  Together = 2
  Workers = {w1, w2}
  Clients = {c1, c2}
  w1 = w1
  w2 = w2
  c1 = c1
  c2 = c2
INVARIANT TypeOK
INVARIANT RunningKeepsItsObjects
INVARIANT ExitLeavesOnlyPid
PROPERTY EverybodyLeaves
CHECK_DEADLOCK FALSE
