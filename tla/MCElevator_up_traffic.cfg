SPECIFICATION Spec
CONSTANTS
  NUM_OF_FLOOR = 3
  NUM_OF_ELEVATOR = 2
  algorithm = 3
  CAPACITY = 2
  Trips <- UpStairs
  MaxPassengers = 3
  MaxParkingCalls = 0
  MaxButtonEdges = 0
INVARIANT LoadIsRiders
INVARIANT QueueInOrder
PROPERTY ServiceSpec
CHECK_DEADLOCK FALSE
