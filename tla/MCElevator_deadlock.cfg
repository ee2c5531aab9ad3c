SPECIFICATION FairSpec
CONSTANTS
  NUM_OF_FLOOR = 3
  NUM_OF_ELEVATOR = 1
  algorithm = 3
  CAPACITY = 2
  Trips <- UpStairs
  MaxPassengers = 3
  MaxParkingCalls = 0
  MaxButtonEdges = 0
PROPERTY DoesScheduling
CHECK_DEADLOCK FALSE
