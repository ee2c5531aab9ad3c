SPECIFICATION Spec
CONSTANTS
  NUM_OF_FLOOR = 2
  NUM_OF_ELEVATOR = 2
  algorithm = 2
  CAPACITY = 1
  Trips <- AllTrips
  MaxPassengers = 2
  MaxParkingCalls = 1
  MaxButtonEdges = 1
INVARIANT TypeOK
INVARIANT ElevatorSemaphores
INVARIANT FloorPermits
INVARIANT RingOnlyHere
PROPERTY ButtonStopsCars
CHECK_DEADLOCK FALSE
