SPECIFICATION FairSpec
CONSTANTS
  NUM_OF_FLOOR = 4
  NUM_OF_ELEVATOR = 2
  algorithm = 4
  CAPACITY = 1
  Trips <- UpStairs
  MaxPassengers = 1
  MaxParkingCalls = 1
  MaxButtonEdges = 0
PROPERTY EveryoneServed
PROPERTY CarsGoHome
CHECK_DEADLOCK FALSE
