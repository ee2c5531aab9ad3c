SPECIFICATION FairSpec
CONSTANTS
  CLIENT_MAXIMUN = 2
  Padding = 1
  MaxTrains = 3
INVARIANT TypeOK
INVARIANT TakenForATrain
INVARIANT StraysOnlyWhenFull
PROPERTY NoZombieStays
PROPERTY CtrlCEnds
CHECK_DEADLOCK FALSE
