------------------------------ MODULE Elevator ------------------------------
(***************************************************************************)
(* The elevator controller of project/: a family of processes that share    *)
(* one Elevator structure per car and one Floor structure per floor, each   *)
(* guarded (or meant to be guarded) by a System V semaphore.                *)
(*                                                                         *)
(*   simulation[e]  drives car e        elevatorSimulationProcess           *)
(*   assign         floorCalls -> callSequence                              *)
(*                                      elevatorAssignFloorCallProcess      *)
(*   scheduler      gives new passengers to cars, elevatorSchedulerProcess  *)
(*   generator      the menu process creating passengers                    *)
(*   parking[e]     sends an idle car home, elevatorUpPeakProcess           *)
(*                  (algorithm 2) or elevatorZoningProcess (algorithm 4)    *)
(*   gpio           the abnormal button, gpioProcess                        *)
(*                                                                         *)
(* A step runs from one semaphore operation a process can be held up at (or *)
(* one unguarded read) to the next.  A critical section in which the        *)
(* process waits for nothing else is one step, possible when the semaphore  *)
(* is up: it takes the semaphore and gives it back.                         *)
(***************************************************************************)
EXTENDS CallQueue, ElevatorPolicy

CONSTANTS algorithm,         \* 1 Round-Robin, 2 Up-peak, 3 Three-Passage, 4 Zoning
          CAPACITY,          \* elevator->capacity
          Trips,             \* the <<from, to>> pairs the menu creates passengers for
          MaxPassengers,     \* bound: passengers created
          MaxParkingCalls,   \* bound: special calls in one callSequence
          MaxButtonEdges     \* bound: edges of the abnormal button

ASSUME ModelAssumption ==
  /\ algorithm \in 1..4
  /\ CAPACITY \in Nat \ {0}
  /\ Trips \subseteq {t \in Floors \X Floors : t[1] /= t[2]}
  /\ MaxPassengers \in Nat /\ MaxParkingCalls \in Nat /\ MaxButtonEdges \in Nat

VARIABLES
  semaphoreElevator, \* [Elevators -> Nat], SysV counters, 1 after semaphoreInit
  semaphoreFloor,    \* [Floors -> Nat], entry f is C's semaphoreFloor[f - 1]
  elevator,          \* the shared Elevator structures
  floor,             \* the shared Floor structures, entry f is C's floor f - 1
  simulation,        \* control and locals of the simulation processes
  scheduler,         \* control and locals of the scheduler process
  generator,         \* control and locals of the menu process, and the ID counter
  parking,           \* control and locals of the up-peak / zoning processes
  gpio               \* control of the GPIO process

semaphores == <<semaphoreElevator, semaphoreFloor>>
vars == <<semaphores, elevator, floor, simulation, scheduler, generator, parking, gpio>>

-----------------------------------------------------------------------------
(* Passengers and floors. *)

initPassenger(ID, floor_call, lift_call) ==
  [ID |-> ID, floor_call |-> floor_call, lift_call |-> lift_call]

NULL_PASSENGER == initPassenger(0, NULL_CALL, NULL_CALL)

NewPassenger(ID, from, to) ==
  LET direction == Order(to, from)
  IN  initPassenger(ID, initCall(ID, TRUE, FALSE, 1, from, direction),
                        initCall(ID, FALSE, FALSE, 1, to, direction))

deleteIDLinkedPassenger(list, id) == RemoveFirstMatch(list, LAMBDA p : p.ID = id)

-----------------------------------------------------------------------------
(* semaphoreInit, sharedMemoryInit and the start of every process. *)

InitElevator ==
  [callSequence |-> <<>>, floorCalls |-> <<>>, liftCalls |-> <<>>, load |-> 0,
   current_floor |-> 1, direction |-> 0, idle |-> TRUE, abnormal |-> FALSE]

\* passengers_unchecked keeps its node array: the generator and the scheduler
\* may be inside it at the same time, each at its own index.
InitFloor ==
  [passengers |-> <<>>, length |-> 0,
   passengers_unchecked |-> [i \in 1..MaxPassengers |-> NULL_PASSENGER]]

InitSimulation ==
  [pc |-> "loop", target |-> NULL_CALL, lift_call_count |-> 0,
   floor_call_count |-> 0, deletedFloorCallList |-> <<>>]

InitScheduler ==
  [pc |-> "scan", start |-> 1, new_passenger |-> NULL_PASSENGER, locked |-> 0, count |-> 0]

InitGenerator ==
  [pc |-> "menu", new_passenger |-> NULL_PASSENGER, index |-> 0, passenger_id |-> 1]

Init ==
  /\ semaphoreElevator = [e \in Elevators |-> 1]
  /\ semaphoreFloor = [f \in Floors |-> 1]
  /\ elevator = [e \in Elevators |-> InitElevator]
  /\ floor = [f \in Floors |-> InitFloor]
  /\ simulation = [e \in Elevators |-> InitSimulation]
  /\ scheduler = InitScheduler
  /\ generator = InitGenerator
  /\ parking = [e \in Elevators |-> [pc |-> "watch", call |-> NULL_CALL]]
  /\ gpio = [next |-> NUM_OF_ELEVATOR, edges |-> 0]

-----------------------------------------------------------------------------
(* sem_acquire blocks until the counter is positive; sem_release adds one.  *)

Up(semaphore, i) == semaphore[i] > 0
Acquired(semaphore, i) == [semaphore EXCEPT ![i] = @ - 1]
Released(semaphore, i) == [semaphore EXCEPT ![i] = @ + 1]

-----------------------------------------------------------------------------
(* elevatorSimulationProcess: the part of the loop with an empty queue or    *)
(* with a target on another floor.  It waits for nothing but its semaphore.  *)

\* Mutant: the abnormal flag is not looked at.
AtLoopBlind(e) == simulation[e].pc = "loop" /\ Up(semaphoreElevator, e)

AtLoop(e) == simulation[e].pc = "loop" /\ Up(semaphoreElevator, e) /\ ~elevator[e].abnormal
Target(e) == Head(elevator[e].callSequence)
HasTarget(e) == elevator[e].callSequence /= <<>>

SimulationIdle(e) ==
  /\ AtLoop(e) /\ ~HasTarget(e)
  /\ elevator' = [elevator EXCEPT ![e].idle = TRUE, ![e].direction = 0]
  /\ UNCHANGED <<semaphores, floor, simulation, scheduler, generator, parking, gpio>>

\* The car has a target: it is not idle, and takes a direction if it has none.
Roused(e) ==
  [elevator[e] EXCEPT !.idle = FALSE,
                      !.direction = IF @ = 0 THEN Target(e).direction ELSE @]

\* The car heads for its target, and re-assigns the passages when it turns.
Headed(e) ==
  LET car == Roused(e)
      heading == Order(Target(e).floor, car.current_floor)
      turned == [car EXCEPT !.direction = heading]
  IN  IF car.direction = heading THEN {car}
      ELSE {[turned EXCEPT !.callSequence = s] :
              s \in reassignPassagePriority(car.callSequence, heading, car.current_floor)}

OnTransition(e) ==
  AtLoop(e) /\ HasTarget(e) /\ Target(e).floor /= elevator[e].current_floor

\* elapsed_time < transition_time
SimulationHead(e) ==
  /\ OnTransition(e)
  /\ \E car \in Headed(e) : elevator' = [elevator EXCEPT ![e] = car]
  /\ UNCHANGED <<semaphores, floor, simulation, scheduler, generator, parking, gpio>>

\* elapsed_time >= transition_time, and there is a floor on that side
SimulationMove(e) ==
  /\ OnTransition(e)
  /\ \E car \in Headed(e) :
       /\ car.current_floor + car.direction \in Floors
       /\ elevator' = [elevator EXCEPT ![e] = [car EXCEPT !.current_floor = @ + car.direction]]
  /\ UNCHANGED <<semaphores, floor, simulation, scheduler, generator, parking, gpio>>

\* ... and there is none: F_ERR_EXIT gives back the car's semaphore, and the
\* semaphore of the floor, which the process does not hold.
SimulationExit(e) ==
  /\ OnTransition(e)
  /\ \E car \in Headed(e) :
       /\ car.current_floor + car.direction \notin Floors
       /\ elevator' = [elevator EXCEPT ![e] = car]
  /\ semaphoreFloor' = Released(semaphoreFloor, elevator[e].current_floor)
  /\ simulation' = [simulation EXCEPT ![e].pc = "exited"]
  /\ UNCHANGED <<semaphoreElevator, floor, scheduler, generator, parking, gpio>>

-----------------------------------------------------------------------------
(* elevatorSimulationProcess at a stop.  elevatorOperationSleep gives the    *)
(* semaphore back for the time of the sleep: at "opening", "unloading",      *)
(* "loading" and "closing" the process is asleep without it; at "unload",    *)
(* "board" and "onfloor" it is awake with it.                                *)

SimulationStop(e) ==
  /\ AtLoop(e) /\ HasTarget(e)
  /\ Target(e).floor = elevator[e].current_floor
  /\ elevator' = [elevator EXCEPT ![e] = Roused(e)]
  /\ simulation' = [simulation EXCEPT ![e].pc = "opening", ![e].target = Target(e)]
  /\ UNCHANGED <<semaphores, floor, scheduler, generator, parking, gpio>>

\* Mutant: only passengers' calls are counted.
ServedPassengers(e, isFloorCall) ==
  LET queue == elevator[e].callSequence
  IN  Cardinality({i \in DOMAIN queue : /\ queue[i].floor = simulation[e].target.floor
                                        /\ queue[i].isFloorCall = isFloorCall
                                        /\ ~queue[i].isSpecialCall})

\* The calls the open door serves, among those queued after the sleep.
Served(e, isFloorCall) ==
  LET target == simulation[e].target
      queue == elevator[e].callSequence
  IN  Cardinality({i \in DOMAIN queue : /\ queue[i].direction = target.direction
                                        /\ queue[i].floor = target.floor
                                        /\ queue[i].isFloorCall = isFloorCall})

\* Mutant: as many as wait, whatever room is left.
FloorCallCountUnlimited(e) == Served(e, TRUE)

\* Mutant: one place too few.
FloorCallCountShort(e) ==
  LET free_space == CAPACITY - elevator[e].load - Served(e, FALSE) - 1
  IN  IF free_space >= 0 THEN Min({Served(e, TRUE), free_space}) ELSE Served(e, TRUE)

\* floor_call_count is unsigned: a negative free_space does not limit it.
FloorCallCount(e) ==
  LET free_space == CAPACITY - elevator[e].load - Served(e, FALSE)
  IN  IF free_space >= 0 THEN Min({Served(e, TRUE), free_space}) ELSE Served(e, TRUE)

SimulationCount(e) ==
  /\ simulation[e].pc = "opening" /\ Up(semaphoreElevator, e)
  /\ semaphoreElevator' = Acquired(semaphoreElevator, e)
  /\ simulation' = [simulation EXCEPT ![e].pc = "unload",
                                      ![e].lift_call_count = Served(e, FALSE),
                                      ![e].floor_call_count = FloorCallCount(e)]
  /\ UNCHANGED <<semaphoreFloor, elevator, floor, scheduler, generator, parking, gpio>>

\* Mutant: nobody is taken off the load.
LoadKept(load, head_call) == load

LoadAfter(load, head_call) ==
  IF ~head_call.isSpecialCall /\ load > 0 THEN load - 1 ELSE load

\* One round of "handle deleted lift calls": the head of the queue leaves.
\* A special call leaves at once, a passenger takes the unloading time.
SimulationUnload(e) ==
  LET head_call == FirstCall(elevator[e].callSequence)
  IN  /\ simulation[e].pc = "unload" /\ simulation[e].lift_call_count > 0
      /\ elevator' = [elevator EXCEPT
           ![e].callSequence = deleteBeginLinkedCall(@),
           ![e].load = LoadAfter(@, head_call)]
      /\ simulation' = [simulation EXCEPT
           ![e].lift_call_count = @ - 1,
           ![e].pc = IF head_call.isSpecialCall THEN @ ELSE "unloading"]
      /\ semaphoreElevator' = IF head_call.isSpecialCall THEN semaphoreElevator
                              ELSE Released(semaphoreElevator, e)
      /\ UNCHANGED <<semaphoreFloor, floor, scheduler, generator, parking, gpio>>

\* The first floor_call_count calls of the queue are set aside.
SimulationCollect(e) ==
  LET n == simulation[e].floor_call_count
      queue == elevator[e].callSequence
  IN  /\ simulation[e].pc = "unload" /\ simulation[e].lift_call_count = 0
      /\ elevator' = [elevator EXCEPT ![e].callSequence = SubSeq(queue, n + 1, Len(queue))]
      /\ simulation' = [simulation EXCEPT ![e].pc = "board",
                                          ![e].floor_call_count = 0,
                                          ![e].deletedFloorCallList = SubSeq(queue, 1, n)]
      /\ UNCHANGED <<semaphores, floor, scheduler, generator, parking, gpio>>

\* The semaphore of the car's floor, with the car's own semaphore in hand.
SimulationEnterFloor(e) ==
  /\ simulation[e].pc = "board" /\ simulation[e].deletedFloorCallList /= <<>>
  /\ Up(semaphoreFloor, elevator[e].current_floor)
  /\ semaphoreFloor' = Acquired(semaphoreFloor, elevator[e].current_floor)
  /\ simulation' = [simulation EXCEPT ![e].pc = "onfloor"]
  /\ UNCHANGED <<semaphoreElevator, elevator, floor, scheduler, generator, parking, gpio>>

\* One passenger leaves the floor for the car; its lift call joins the queue,
\* NULL_CALL if the car has no lift call of that ID.
SimulationAccept(e) ==
  LET id == Head(simulation[e].deletedFloorCallList).ID
      here == elevator[e].current_floor
      accepted == [CallWithID(elevator[e].liftCalls, id) EXCEPT !.passage = 1]
  IN  /\ simulation[e].pc = "onfloor"
      /\ floor' = [floor EXCEPT ![here].passengers = deleteIDLinkedPassenger(@, id)]
      /\ semaphoreFloor' = Released(semaphoreFloor, here)
      /\ \E queue \in insertPriorityCall(elevator[e].callSequence, accepted) :
           elevator' = [elevator EXCEPT
             ![e].load = IF @ < CAPACITY THEN @ + 1 ELSE @,
             ![e].liftCalls = deleteIDLinkedCall(@, id),
             ![e].callSequence = queue]
      /\ semaphoreElevator' = Released(semaphoreElevator, e)
      /\ simulation' = [simulation EXCEPT ![e].pc = "loading",
                                          ![e].deletedFloorCallList = Tail(@)]
      /\ UNCHANGED <<scheduler, generator, parking, gpio>>

\* Mutant: the sleep ends without taking the semaphore again.
SimulationAwakeWithout(e) ==
  /\ simulation[e].pc \in {"unloading", "loading"} /\ Up(semaphoreElevator, e)
  /\ simulation' = [simulation EXCEPT
       ![e].pc = IF @ = "unloading" THEN "unload" ELSE "board"]
  /\ UNCHANGED <<semaphores, elevator, floor, scheduler, generator, parking, gpio>>

\* elevatorOperationSleep takes the semaphore again after the (un)loading time.
SimulationAwake(e) ==
  /\ simulation[e].pc \in {"unloading", "loading"} /\ Up(semaphoreElevator, e)
  /\ semaphoreElevator' = Acquired(semaphoreElevator, e)
  /\ simulation' = [simulation EXCEPT
       ![e].pc = IF @ = "unloading" THEN "unload" ELSE "board"]
  /\ UNCHANGED <<semaphoreFloor, elevator, floor, scheduler, generator, parking, gpio>>

SimulationClose(e) ==
  /\ simulation[e].pc = "board" /\ simulation[e].deletedFloorCallList = <<>>
  /\ semaphoreElevator' = Released(semaphoreElevator, e)
  /\ simulation' = [simulation EXCEPT ![e].pc = "closing", ![e].target = NULL_CALL]
  /\ UNCHANGED <<semaphoreFloor, elevator, floor, scheduler, generator, parking, gpio>>

\* The end of the door-close sleep and of the loop's body.
SimulationLeave(e) ==
  /\ simulation[e].pc = "closing" /\ Up(semaphoreElevator, e)
  /\ simulation' = [simulation EXCEPT ![e].pc = "loop"]
  /\ UNCHANGED <<semaphores, elevator, floor, scheduler, generator, parking, gpio>>

SimulationStep(e) ==
  \/ SimulationIdle(e) \/ SimulationHead(e) \/ SimulationMove(e) \/ SimulationExit(e)
  \/ SimulationStop(e) \/ SimulationCount(e) \/ SimulationUnload(e)
  \/ SimulationCollect(e) \/ SimulationEnterFloor(e) \/ SimulationAccept(e)
  \/ SimulationAwake(e) \/ SimulationClose(e) \/ SimulationLeave(e)

-----------------------------------------------------------------------------
(* elevatorAssignFloorCallProcess *)

Assign(e) ==
  LET car == elevator[e]
      call == WithPassage(Head(car.floorCalls), car.direction, car.current_floor)
  IN  /\ Up(semaphoreElevator, e) /\ car.floorCalls /= <<>>
      /\ \E queue \in insertPriorityCall(car.callSequence, call) :
           elevator' = [elevator EXCEPT ![e].callSequence = queue,
                                        ![e].floorCalls = deleteBeginLinkedCall(@)]
      /\ UNCHANGED <<semaphores, floor, simulation, scheduler, generator, parking, gpio>>

-----------------------------------------------------------------------------
(* elevatorSchedulerProcess *)

Here == scheduler.start
\* Mutant: the modulo is forgotten.
NextFloorUnwrapped(f) == f + 1

NextFloor(f) == (f % NUM_OF_FLOOR) + 1

\* Nobody new on this floor: start_index moves on, and what is released is the
\* semaphore of the floor it moved to.
SchedulerSkip ==
  /\ scheduler.pc = "scan" /\ Up(semaphoreFloor, Here)
  /\ floor[Here].length = 0
  /\ semaphoreFloor' = Released(Acquired(semaphoreFloor, Here), NextFloor(Here))
  /\ scheduler' = [scheduler EXCEPT !.start = NextFloor(Here)]
  /\ UNCHANGED <<semaphoreElevator, elevator, floor, simulation, generator, parking, gpio>>

\* deleteBeginLinkedPassenger up to its shift: the nodes have moved, the
\* length has not.
SchedulerTake ==
  LET nodes == floor[Here].passengers_unchecked
      length == floor[Here].length
  IN  /\ scheduler.pc = "scan" /\ Up(semaphoreFloor, Here)
      /\ length > 0
      /\ semaphoreFloor' = Acquired(semaphoreFloor, Here)
      /\ scheduler' = [scheduler EXCEPT !.pc = "shrink", !.new_passenger = nodes[1]]
      /\ floor' = [floor EXCEPT ![Here].passengers_unchecked =
                     [i \in DOMAIN nodes |-> IF i < length THEN nodes[i + 1] ELSE nodes[i]]]
      /\ UNCHANGED <<semaphoreElevator, elevator, simulation, generator, parking, gpio>>

\* The rest of it, and insertEndLinkedPassenger on the checked list.
SchedulerShrink ==
  /\ scheduler.pc = "shrink"
  /\ floor' = [floor EXCEPT
       ![Here].passengers_unchecked[floor[Here].length] = NULL_PASSENGER,
       ![Here].length = @ - 1,
       ![Here].passengers = Append(@, scheduler.new_passenger)]
  /\ scheduler' = [scheduler EXCEPT !.pc = "lock"]
  /\ UNCHANGED <<semaphores, elevator, simulation, generator, parking, gpio>>

\* "Acquire the semaphores of all elevators", one after the other, with the
\* floor's semaphore in hand.
SchedulerLock ==
  /\ scheduler.pc = "lock" /\ scheduler.locked < NUM_OF_ELEVATOR
  /\ Up(semaphoreElevator, scheduler.locked)
  /\ semaphoreElevator' = Acquired(semaphoreElevator, scheduler.locked)
  /\ scheduler' = [scheduler EXCEPT !.locked = @ + 1]
  /\ UNCHANGED <<semaphoreFloor, elevator, floor, simulation, generator, parking, gpio>>

Load == [e \in Elevators |-> elevator[e].load]

\* The cars the policy may answer.  With none, policyRoundRobin spins for ever.
\* For a passenger of no floor (NULL_PASSENGER, floor 0) policyZoning answers
\* -1, and the scheduler follows whatever pointer lies before its array: here
\* it goes no further, with every semaphore it holds.
Selected ==
  CASE algorithm = 3 -> {policyThreePassage([e \in Elevators |-> Len(elevator[e].callSequence)])}
    [] algorithm = 4 -> {policyZoning(scheduler.new_passenger.floor_call.floor)}
    [] OTHER         -> policyRoundRobin(scheduler.count, Load, CAPACITY)

\* elevatorAppendPassengerCall
WithPassengerCalls(car, p) ==
  [car EXCEPT !.floorCalls = insertEndLinkedCall(@, p.floor_call),
              !.liftCalls = insertEndLinkedCall(@, p.lift_call)]

SchedulerDispatch ==
  /\ scheduler.pc = "lock" /\ scheduler.locked = NUM_OF_ELEVATOR
  /\ \E e \in Selected \cap Elevators :
       /\ elevator' = [elevator EXCEPT ![e] = WithPassengerCalls(@, scheduler.new_passenger)]
       /\ scheduler' = [scheduler EXCEPT
            !.pc = "scan", !.locked = 0, !.new_passenger = NULL_PASSENGER,
            !.count = IF algorithm \in {3, 4} THEN @ ELSE (e + 1) % NUM_OF_ELEVATOR]
  /\ semaphoreElevator' = [e \in Elevators |-> semaphoreElevator[e] + 1]
  /\ semaphoreFloor' = Released(semaphoreFloor, Here)
  /\ UNCHANGED <<floor, simulation, generator, parking, gpio>>

SchedulerStep ==
  SchedulerSkip \/ SchedulerTake \/ SchedulerShrink \/ SchedulerLock \/ SchedulerDispatch

-----------------------------------------------------------------------------
(* generateSingleFloorPassenger, called from the menu for any floor.        *)

\* A random target and the next ID.  Nobody else takes the ID's semaphore.
GeneratorNew ==
  /\ generator.pc = "menu" /\ generator.passenger_id <= MaxPassengers
  /\ \E trip \in Trips :
       generator' = [generator EXCEPT
         !.pc = "floor", !.passenger_id = @ + 1,
         !.new_passenger = NewPassenger(generator.passenger_id, trip[1], trip[2])]
  /\ UNCHANGED <<semaphores, elevator, floor, simulation, scheduler, parking, gpio>>

GeneratorFloor == generator.new_passenger.floor_call.floor

\* insertEndLinkedPassenger stores length + 1 first ...
GeneratorGrow ==
  /\ generator.pc = "floor" /\ Up(semaphoreFloor, GeneratorFloor)
  /\ semaphoreFloor' = Acquired(semaphoreFloor, GeneratorFloor)
  /\ floor' = [floor EXCEPT ![GeneratorFloor].length = @ + 1]
  /\ generator' = [generator EXCEPT !.pc = "store", !.index = floor[GeneratorFloor].length + 1]
  /\ UNCHANGED <<semaphoreElevator, elevator, simulation, scheduler, parking, gpio>>

\* Mutant: the floor's semaphore is not given back.
GeneratorStoreKeeping ==
  /\ generator.pc = "store"
  /\ floor' = [floor EXCEPT
       ![GeneratorFloor].passengers_unchecked[generator.index] = generator.new_passenger]
  /\ generator' = [generator EXCEPT !.pc = "menu", !.new_passenger = NULL_PASSENGER, !.index = 0]
  /\ UNCHANGED <<semaphores, elevator, simulation, scheduler, parking, gpio>>

\* Mutant: the floor given back is the one the passenger goes to.
GeneratorStoreElsewhere ==
  /\ generator.pc = "store"
  /\ floor' = [floor EXCEPT
       ![GeneratorFloor].passengers_unchecked[generator.index] = generator.new_passenger]
  /\ semaphoreFloor' = Released(semaphoreFloor, generator.new_passenger.lift_call.floor)
  /\ generator' = [generator EXCEPT !.pc = "menu", !.new_passenger = NULL_PASSENGER, !.index = 0]
  /\ UNCHANGED <<semaphoreElevator, elevator, simulation, scheduler, parking, gpio>>

\* ... and the node at the old length after it.
GeneratorStore ==
  /\ generator.pc = "store"
  /\ floor' = [floor EXCEPT
       ![GeneratorFloor].passengers_unchecked[generator.index] = generator.new_passenger]
  /\ semaphoreFloor' = Released(semaphoreFloor, GeneratorFloor)
  /\ generator' = [generator EXCEPT !.pc = "menu", !.new_passenger = NULL_PASSENGER, !.index = 0]
  /\ UNCHANGED <<semaphoreElevator, elevator, simulation, scheduler, parking, gpio>>

GeneratorStep == GeneratorNew \/ GeneratorGrow \/ GeneratorStore

-----------------------------------------------------------------------------
(* elevatorUpPeakProcess and elevatorZoningProcess: a car that has been idle *)
(* away from its home floor for 7 seconds is sent there by a special call.   *)
(* idle and current_floor are read without the car's semaphore.              *)

HomeFloor(e) == IF algorithm = 2 THEN 1 ELSE e * zone + 1

WayHome(e) == HomeFloor(e) - elevator[e].current_floor

\* n / abs(d) in C.
Quotient(n, d) ==
  LET length == IF d < 0 THEN -d ELSE d
  IN  IF n < 0 THEN -((-n) \div length) ELSE n \div length

\* Each of these reads finds the car where it is by then.  The first is the test in
\* the pass of the loop in which the 7 seconds are over.
ParkingWatch(e) ==
  /\ algorithm \in {2, 4} /\ parking[e].pc = "watch"
  /\ elevator[e].idle /\ WayHome(e) /= 0
  /\ parking' = [parking EXCEPT ![e] =
       [pc |-> "test", call |-> initCall(0, FALSE, TRUE, 1, HomeFloor(e), -1)]]
  /\ UNCHANGED <<semaphores, elevator, floor, simulation, scheduler, generator, gpio>>

ParkingTest(e) ==
  /\ parking[e].pc = "test"
  /\ parking' = [parking EXCEPT ![e].pc =
       IF WayHome(e) = 0 THEN "watch" ELSE IF algorithm = 2 THEN "insert" ELSE "subtract"]
  /\ UNCHANGED <<semaphores, elevator, floor, simulation, scheduler, generator, gpio>>

\* elevatorZoningProcess divides the way home by its length, which it reads anew ...
ParkingSubtract(e) ==
  /\ parking[e].pc = "subtract"
  /\ parking' = [parking EXCEPT ![e].pc = "divide", ![e].call.direction = WayHome(e)]
  /\ UNCHANGED <<semaphores, elevator, floor, simulation, scheduler, generator, gpio>>

\* ... and is ended by the division if the car has come home.
ParkingDivide(e) ==
  /\ parking[e].pc = "divide"
  /\ parking' = [parking EXCEPT
       ![e].pc = IF WayHome(e) = 0 THEN "faulted" ELSE "insert",
       ![e].call.direction = IF WayHome(e) = 0 THEN @ ELSE Quotient(@, WayHome(e))]
  /\ UNCHANGED <<semaphores, elevator, floor, simulation, scheduler, generator, gpio>>

SpecialCalls(e) ==
  Cardinality({i \in DOMAIN elevator[e].callSequence : elevator[e].callSequence[i].isSpecialCall})

ParkingInsert(e) ==
  /\ parking[e].pc = "insert" /\ Up(semaphoreElevator, e)
  /\ SpecialCalls(e) < MaxParkingCalls
  /\ \E queue \in insertPriorityCall(elevator[e].callSequence, parking[e].call) :
       elevator' = [elevator EXCEPT ![e].callSequence = queue]
  /\ parking' = [parking EXCEPT ![e] = [pc |-> "sleep", call |-> NULL_CALL]]
  /\ UNCHANGED <<semaphores, floor, simulation, scheduler, generator, gpio>>

\* The end of the 3 seconds' sleep.  A simulation process that is free to run
\* goes through its loop many times in that time: it has seen the call, unless
\* its car is abnormal.
ParkingWake(e) ==
  /\ parking[e].pc = "sleep"
  /\ elevator[e].idle /\ HasTarget(e) => elevator[e].abnormal
  /\ parking' = [parking EXCEPT ![e].pc = "watch"]
  /\ UNCHANGED <<semaphores, elevator, floor, simulation, scheduler, generator, gpio>>

ParkingStep(e) == \/ ParkingWatch(e) \/ ParkingTest(e) \/ ParkingSubtract(e) \/ ParkingDivide(e)
                  \/ ParkingInsert(e) \/ ParkingWake(e)

-----------------------------------------------------------------------------
(* gpioProcess: an edge of the button is read, then written into every car;  *)
(* odd edges press the button (abnormal), even ones let it go.               *)

GpioRead ==
  /\ gpio.next = NUM_OF_ELEVATOR /\ gpio.edges < MaxButtonEdges
  /\ gpio' = [next |-> 0, edges |-> gpio.edges + 1]
  /\ UNCHANGED <<semaphores, elevator, floor, simulation, scheduler, generator, parking>>

GpioWrite ==
  /\ gpio.next < NUM_OF_ELEVATOR /\ Up(semaphoreElevator, gpio.next)
  /\ elevator' = [elevator EXCEPT ![gpio.next].abnormal = (gpio.edges % 2 = 1)]
  /\ gpio' = [gpio EXCEPT !.next = @ + 1]
  /\ UNCHANGED <<semaphores, floor, simulation, scheduler, generator, parking>>

GpioStep == GpioRead \/ GpioWrite

-----------------------------------------------------------------------------

Next ==
  \/ \E e \in Elevators : SimulationStep(e) \/ Assign(e) \/ ParkingStep(e)
  \/ SchedulerStep \/ GeneratorStep \/ GpioStep

Spec == Init /\ [][Next]_vars

-----------------------------------------------------------------------------
(* Who holds what. *)

AsleepAtStop == {"opening", "unloading", "loading", "closing"}
AwakeAtStop == {"unload", "board", "onfloor"}

SimulationHolds(e) == simulation[e].pc \in AwakeAtStop
SchedulerHolds(e) == scheduler.pc = "lock" /\ e < scheduler.locked

CarsOn(f) == {e \in Elevators : simulation[e].pc = "onfloor" /\ elevator[e].current_floor = f}
CarsExited(f) == {e \in Elevators : simulation[e].pc = "exited" /\ elevator[e].current_floor = f}
SchedulerOn(f) == scheduler.pc /= "scan" /\ Here = f
GeneratorOn(f) == generator.pc = "store" /\ GeneratorFloor = f

-----------------------------------------------------------------------------
(* The types. *)

\* -1, 0 and 1 but for the quotients of elevatorZoningProcess.
Directions == -NUM_OF_FLOOR..NUM_OF_FLOOR

Call == [ID : 0..MaxPassengers, isFloorCall : BOOLEAN, isSpecialCall : BOOLEAN,
         passage : 0..3, floor : 0..NUM_OF_FLOOR, direction : Directions]

Passenger == [ID : 0..MaxPassengers, floor_call : Call, lift_call : Call]

Car == [callSequence : Seq(Call), floorCalls : Seq(Call), liftCalls : Seq(Call),
        load : 0..CAPACITY, current_floor : Floors, direction : Directions,
        idle : BOOLEAN, abnormal : BOOLEAN]

\* The types of the shared structures and of every process's control state:
\* the load stays between nothing and the capacity, the car in its shaft.  A call
\* may be for floor 0, which a NULL_CALL in a queue is.
TypeOK ==
  /\ semaphoreElevator \in [Elevators -> Nat]
  /\ semaphoreFloor \in [Floors -> Nat]
  /\ elevator \in [Elevators -> Car]
  /\ floor \in [Floors -> [passengers : Seq(Passenger), length : 0..MaxPassengers,
                           passengers_unchecked : [1..MaxPassengers -> Passenger]]]
  /\ simulation \in [Elevators ->
       [pc : {"loop", "exited"} \cup AsleepAtStop \cup AwakeAtStop, target : Call,
        lift_call_count : Nat, floor_call_count : Nat, deletedFloorCallList : Seq(Call)]]
  /\ scheduler \in [pc : {"scan", "shrink", "lock"}, start : Floors, new_passenger : Passenger,
                    locked : 0..NUM_OF_ELEVATOR, count : Elevators]
  /\ generator \in [pc : {"menu", "floor", "store"}, new_passenger : Passenger,
                    index : 0..MaxPassengers, passenger_id : 1..(MaxPassengers + 1)]
  /\ parking \in [Elevators ->
       [pc : {"watch", "test", "subtract", "divide", "insert", "sleep", "faulted"}, call : Call]]
  /\ gpio \in [next : 0..NUM_OF_ELEVATOR, edges : 0..MaxButtonEdges]

-----------------------------------------------------------------------------
(* Safety, for any traffic. *)

\* A car's semaphore is up exactly when neither its simulation process nor the
\* scheduler holds it: the two are never inside the same Elevator structure,
\* and every sleep at a stop, the exit on an error and the release of all the
\* cars after a dispatch give back what was taken, once.
ElevatorSemaphores ==
  \A e \in Elevators :
    semaphoreElevator[e] + AsInt(SimulationHolds(e)) + AsInt(SchedulerHolds(e)) = 1

\* Where a floor's semaphore is.  The scheduler releases the floor it goes to
\* instead of the one it leaves, so one permit travels with it: the ground
\* floor has none while the scheduler is elsewhere, every other floor has two
\* while it is there, and a simulation process that exits on an error adds one.
FloorPermits ==
  \A f \in Floors :
    semaphoreFloor[f] + Cardinality(CarsOn(f)) + AsInt(SchedulerOn(f)) + AsInt(GeneratorOn(f))
      = AsInt(f /= 1) + AsInt(Here = f) + Cardinality(CarsExited(f))

SchedulerWaitsFor(e) ==
  scheduler.pc = "lock" /\ scheduler.locked = e /\ semaphoreElevator[e] = 0
CarWaitsForFloor(e) ==
  /\ simulation[e].pc = "board" /\ simulation[e].deletedFloorCallList /= <<>>
  /\ semaphoreFloor[elevator[e].current_floor] = 0

\* The scheduler takes a floor and then the cars, a simulation process takes
\* its car and then its floor (elevatorSchedulerProcess, lines 323 and 345;
\* elevatorSimulationProcess, line 112).  When the two wait for each other and
\* nobody else is in the way, the car stands on the ground floor or on the very
\* floor the scheduler is serving: no other pair of floors closes the ring.
RingOnlyHere ==
  \A e \in Elevators :
    LET f == elevator[e].current_floor
    IN  SchedulerWaitsFor(e) /\ CarWaitsForFloor(e) /\ ~GeneratorOn(f) /\ CarsOn(f) = {}
          => f = 1 \/ f = Here

\* Once a press of the abnormal button has been written into every car, and
\* until its release is read, no car leaves its floor and no stop begins,
\* whatever calls arrive (gpioProcess and the test at the head of
\* elevatorSimulationProcess's loop); a stop under way is finished.
ButtonStopsCars ==
  [][gpio.next = NUM_OF_ELEVATOR /\ gpio.edges % 2 = 1 =>
       \A e \in Elevators :
         /\ elevator'[e].current_floor = elevator[e].current_floor
         /\ simulation[e].pc = "loop" => simulation'[e].pc = "loop"]_vars
=============================================================================
