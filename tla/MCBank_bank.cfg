SPECIFICATION FairSpec
CONSTANTS
  Clients = {c1, c2}
  Requests <- SomeRequests
  SPAN = 3
  INT_MAX = 4
  USHRT_MAX = 2
  MaxDescriptors = 2
INVARIANT TypeOK
PROPERTY AccountSpec
PROPERTY EverybodyServed
PROPERTY CtrlCLeavesNothing
CHECK_DEADLOCK FALSE
