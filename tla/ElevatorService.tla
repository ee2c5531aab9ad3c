--------------------------- MODULE ElevatorService ---------------------------
(***************************************************************************)
(* The refinement mapping from the controller's shared structures to the    *)
(* service its passengers see (PassengerService).                           *)
(***************************************************************************)
EXTENDS Elevator

\* A passenger as its Passenger structure has it.
AsWaiting(p) == [id |-> p.ID, from |-> p.floor_call.floor, to |-> p.lift_call.floor]

\* ... and as the lists of the car it was given to have it.
FloorCallsOf(e) ==
  {c \in Range(elevator[e].floorCalls) \cup Range(elevator[e].callSequence)
           \cup Range(simulation[e].deletedFloorCallList) : c.isFloorCall}

LiftCallsIn(e) ==
  {c \in Range(elevator[e].callSequence) : ~c.isFloorCall /\ ~c.isSpecialCall}

Unchecked(f) == {floor[f].passengers_unchecked[i] : i \in 1..floor[f].length}

waitingBar ==
  {AsWaiting(p) : p \in (UNION {Unchecked(f) : f \in Floors}) \ {NULL_PASSENGER}}
    \cup {AsWaiting(p) : p \in {scheduler.new_passenger} \ {NULL_PASSENGER}}
    \cup UNION {{[id |-> c.ID, from |-> c.floor,
                  to |-> CallWithID(elevator[e].liftCalls, c.ID).floor]
                    : c \in FloorCallsOf(e)} : e \in Elevators}

ridingBar ==
  UNION {{[id |-> c.ID, to |-> c.floor, car |-> e] : c \in LiftCallsIn(e)} : e \in Elevators}

arrivedBar == (1..(generator.passenger_id - 1)) \ {generator.new_passenger.ID}

Service == INSTANCE PassengerService WITH
  Capacity <- CAPACITY, PassengerIDs <- 1..MaxPassengers,
  arrived <- arrivedBar, waiting <- waitingBar, riding <- ridingBar,
  at <- [e \in Elevators |-> elevator[e].current_floor]

\* The controller implements the service, for traffic that starts at the ground
\* floor and cars nobody sends home: nobody is lost, duplicated, boarded
\* somewhere else, carried past its floor or squeezed into a full car, at any
\* interleaving of the simulation, assign, scheduler and menu processes.
ServiceSpec == Service!Spec

(***************************************************************************)
(* Fairness.  Every process is an endless loop the kernel keeps scheduling, *)
(* and semop serves the processes asleep on a semaphore in the order they   *)
(* came, so one that finds its semaphore up again and again gets it.  The   *)
(* menu's user and the button owe nothing.                                  *)
(***************************************************************************)
Fairness ==
  /\ \A e \in Elevators :
       SF_vars(SimulationStep(e)) /\ SF_vars(Assign(e)) /\ SF_vars(ParkingStep(e))
  /\ SF_vars(SchedulerStep)
  /\ SF_vars(GeneratorGrow \/ GeneratorStore)
  /\ SF_vars(GpioWrite)

FairSpec == Spec /\ Fairness

-----------------------------------------------------------------------------
(* Properties of the cars between two stops. *)

\* At the head of the loop the load is the number of passengers whose lift
\* calls are in the queue: what the display shows and what the capacity is
\* compared with is who is really aboard (elevatorSimulationProcess adds and
\* takes off one at a time, 93 and 130, and moves the lift calls, 138).
LoadIsRiders ==
  \A e \in Elevators :
    simulation[e].pc = "loop" => elevator[e].load = Cardinality(LiftCallsIn(e))

\* The queue a car takes its next target from is in priority order, although
\* the passages are re-assigned and calls inserted at different positions and
\* directions of the car (insertPriorityCall, reassignPassagePriority).
QueueInOrder ==
  \A e \in Elevators :
    simulation[e].pc = "loop" => InPriorityOrder(elevator[e].callSequence)

NobodyLeft == waitingBar = {} /\ ridingBar = {}

\* Someone alone in the building is brought where it wants to go.
EveryoneServed == (~NobodyLeft) ~> NobodyLeft

\* In the end every car stands idle on its home floor: a car that has been
\* idle elsewhere is sent home, and stays there, unless the process that sends it
\* was ended by a division by zero (elevatorZoningProcess, 523;
\* elevatorUpPeakProcess).
CarsGoHome ==
  <>[](\A e \in Elevators :
         elevator[e].idle /\ (WayHome(e) = 0 \/ parking[e].pc = "faulted"))
=============================================================================
