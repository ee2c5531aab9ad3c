--------------------------- MODULE ElevatorProofs ---------------------------
(***************************************************************************)
(* Proofs about the elevator controller.  The semaphores, the permits, the  *)
(* button and the types: for every building, policy and traffic.  Then the  *)
(* queue, the load and the service to the passengers: for every building    *)
(* and every traffic from the ground floor (UpTraffic).                     *)
(***************************************************************************)
EXTENDS ElevatorService, InductionTheorems, SequenceTheorems, TLAPS

\* What a parking process does without the car's semaphore.
ParkingReads(e) ==
  ParkingWatch(e) \/ ParkingTest(e) \/ ParkingSubtract(e) \/ ParkingDivide(e)

\* The structures have the fields the proofs speak of.
Shape ==
  /\ DOMAIN elevator = Elevators
  /\ \A e \in Elevators : {"current_floor", "abnormal"} \subseteq DOMAIN elevator[e]
  /\ DOMAIN simulation = Elevators
  /\ \A e \in Elevators : "pc" \in DOMAIN simulation[e]
  /\ {"pc", "locked", "start"} \subseteq DOMAIN scheduler
  /\ {"pc", "new_passenger"} \subseteq DOMAIN generator
  /\ {"next", "edges"} \subseteq DOMAIN gpio

\* A car that heads for its target keeps everything but its direction, its
\* idle flag and the order of its queue.
LEMMA HeadedKeeps ==
  ASSUME Shape, NEW e \in Elevators, NEW car \in Headed(e)
  PROVE  /\ DOMAIN car = DOMAIN elevator[e]
         /\ car.current_floor = elevator[e].current_floor
         /\ car.abnormal = elevator[e].abnormal
<1> DEFINE heading == Order(Target(e).floor, Roused(e).current_floor)
           turned == [Roused(e) EXCEPT !.direction = heading]
<1>1. /\ DOMAIN Roused(e) = DOMAIN elevator[e]
      /\ Roused(e).current_floor = elevator[e].current_floor
      /\ Roused(e).abnormal = elevator[e].abnormal
  BY DEF Roused, Shape
<1>2. CASE car = Roused(e)
  BY <1>1, <1>2
<1>3. CASE \E s : car = [turned EXCEPT !.callSequence = s]
  <2>1. PICK s : car = [turned EXCEPT !.callSequence = s]
    BY <1>3
  <2>2. /\ DOMAIN turned = DOMAIN elevator[e]
        /\ turned.current_floor = elevator[e].current_floor
        /\ turned.abnormal = elevator[e].abnormal
    BY <1>1 DEF Shape
  <2>. QED  BY <2>1, <2>2 DEF Shape
<1>4. car = Roused(e) \/ \E s : car = [turned EXCEPT !.callSequence = s]
  BY Zenon DEF Headed
<1>. QED  BY <1>2, <1>3, <1>4

LEMMA ShapeInit == Init => Shape
BY DEF Init, Shape, InitElevator, InitSimulation, InitScheduler, InitGenerator

LEMMA ShapeNext == Shape /\ [Next]_vars => Shape'
<1> SUFFICES ASSUME Shape, [Next]_vars PROVE Shape'
  OBVIOUS
<1> USE DEF Shape
<1>1. CASE UNCHANGED vars
  BY <1>1 DEF vars
<1>2. ASSUME NEW e \in Elevators, SimulationStep(e) PROVE Shape'
  <2>1. CASE SimulationHead(e) \/ SimulationMove(e) \/ SimulationExit(e)
    <3>1. PICK car \in Headed(e) :
            \/ elevator' = [elevator EXCEPT ![e] = car]
            \/ elevator' = [elevator EXCEPT
                 ![e] = [car EXCEPT !.current_floor = @ + car.direction]]
      BY <2>1, Zenon DEF SimulationHead, SimulationMove, SimulationExit
    <3>2. \A d \in Elevators : {"current_floor", "abnormal"} \subseteq DOMAIN elevator'[d]
      BY <3>1, HeadedKeeps
    <3>3. DOMAIN elevator' = Elevators
      BY <3>1
    <3>. QED  BY <2>1, <3>2, <3>3 DEF SimulationHead, SimulationMove, SimulationExit
  <2>2. CASE SimulationIdle(e) \/ SimulationUnload(e) \/ SimulationCollect(e)
    BY <2>2 DEF SimulationIdle, SimulationUnload, SimulationCollect
  <2>3. CASE SimulationStop(e)
    BY <2>3 DEF SimulationStop, Roused
  <2>4. CASE SimulationCount(e) \/ SimulationEnterFloor(e) \/ SimulationAwake(e)
             \/ SimulationClose(e) \/ SimulationLeave(e)
    BY <2>4 DEF SimulationCount, SimulationEnterFloor, SimulationAwake, SimulationClose,
       SimulationLeave
  <2>5. CASE SimulationAccept(e)
    BY <2>5 DEF SimulationAccept
  <2>. QED  BY <1>2, <2>1, <2>2, <2>3, <2>4, <2>5 DEF SimulationStep
<1>3. ASSUME NEW e \in Elevators, Assign(e) PROVE Shape'
  BY <1>3 DEF Assign
<1>4. ASSUME NEW e \in Elevators, ParkingStep(e) PROVE Shape'
  BY <1>4 DEF ParkingStep, ParkingWatch, ParkingTest, ParkingSubtract, ParkingDivide, ParkingInsert, ParkingWake
<1>5. CASE SchedulerSkip \/ SchedulerTake \/ SchedulerShrink \/ SchedulerLock
  BY <1>5 DEF SchedulerSkip, SchedulerTake, SchedulerShrink, SchedulerLock
<1>6. CASE SchedulerDispatch
  BY <1>6 DEF SchedulerDispatch, WithPassengerCalls
<1>7. CASE GeneratorStep
  BY <1>7 DEF GeneratorStep, GeneratorNew, GeneratorGrow, GeneratorStore
<1>8. CASE GpioStep
  BY <1>8 DEF GpioStep, GpioRead, GpioWrite
<1>. QED  BY <1>1, <1>2, <1>3, <1>4, <1>5, <1>6, <1>7, <1>8 DEF Next, SchedulerStep

-----------------------------------------------------------------------------
(* The semaphores of the cars. *)

\* The scheduler has locked some of the cars only while it is locking, and no
\* more than there are.
LockTypes ==
  /\ semaphoreElevator \in [Elevators -> Int]
  /\ scheduler.locked \in 0..NUM_OF_ELEVATOR
  /\ scheduler.pc /= "lock" => scheduler.locked = 0

LockInv == Shape /\ LockTypes /\ ElevatorSemaphores

LEMMA LockInit == Init => LockInv
BY ShapeInit, BuildingAssumption DEF Init, LockInv, LockTypes, ElevatorSemaphores,
   SimulationHolds, SchedulerHolds, AsInt, InitSimulation, InitScheduler, Elevators, AwakeAtStop

\* A step that leaves the cars' semaphores alone, and the processes in the
\* critical sections or outside.
LEMMA LockFrame ==
  ASSUME LockInv, semaphoreElevator' = semaphoreElevator,
         \A e \in Elevators : SimulationHolds(e)' = SimulationHolds(e),
         scheduler'.locked = scheduler.locked,
         \/ scheduler'.pc = scheduler.pc
         \/ scheduler.pc /= "lock" /\ scheduler.locked = 0
  PROVE  LockTypes' /\ ElevatorSemaphores'
<1> USE DEF LockInv, LockTypes
<1>1. LockTypes'
  OBVIOUS
<1>2. \A e \in Elevators : AsInt(SchedulerHolds(e)') = AsInt(SchedulerHolds(e))
  BY BuildingAssumption DEF SchedulerHolds, Elevators
<1>. QED  BY <1>1, <1>2 DEF ElevatorSemaphores

\* A step in which the simulation process of car e comes out of its critical
\* section, and one in which it goes in.
LEMMA LockRelease ==
  ASSUME LockInv, NEW e \in Elevators,
         semaphoreElevator' = Released(semaphoreElevator, e),
         SimulationHolds(e), ~SimulationHolds(e)',
         \A d \in Elevators \ {e} : SimulationHolds(d)' = SimulationHolds(d),
         UNCHANGED scheduler
  PROVE  LockTypes' /\ ElevatorSemaphores'
BY DEF LockInv, LockTypes, ElevatorSemaphores, SchedulerHolds, Released, AsInt

LEMMA LockAcquire ==
  ASSUME LockInv, NEW e \in Elevators,
         semaphoreElevator' = Acquired(semaphoreElevator, e),
         ~SimulationHolds(e), SimulationHolds(e)',
         \A d \in Elevators \ {e} : SimulationHolds(d)' = SimulationHolds(d),
         UNCHANGED scheduler
  PROVE  LockTypes' /\ ElevatorSemaphores'
BY DEF LockInv, LockTypes, ElevatorSemaphores, SchedulerHolds, Acquired, AsInt

LEMMA LockNext == LockInv /\ [Next]_vars => LockInv'
<1> SUFFICES ASSUME LockInv, [Next]_vars PROVE LockTypes' /\ ElevatorSemaphores'
  BY ShapeNext DEF LockInv
<1> USE DEF SimulationHolds
<1>0. Shape /\ LockTypes
  BY DEF LockInv
<1>1. CASE UNCHANGED vars
  BY <1>1, LockFrame DEF vars, semaphores
<1>2. ASSUME NEW e \in Elevators, SimulationStep(e)
      PROVE  LockTypes' /\ ElevatorSemaphores'
  <2>1. CASE SimulationIdle(e) \/ SimulationHead(e) \/ SimulationMove(e)
    BY <2>1, LockFrame DEF SimulationIdle, SimulationHead, SimulationMove, semaphores
  <2>2. CASE SimulationExit(e) \/ SimulationStop(e) \/ SimulationLeave(e)
    BY <1>0, <2>2, LockFrame DEF Shape, SimulationExit, SimulationStop, SimulationLeave,
       OnTransition, AtLoop, AwakeAtStop, semaphores
  <2>3. CASE SimulationCollect(e) \/ SimulationEnterFloor(e)
    BY <1>0, <2>3, LockFrame DEF Shape, SimulationCollect, SimulationEnterFloor, AwakeAtStop,
       semaphores
  <2>4. CASE SimulationCount(e)
    BY <1>0, <2>4, LockAcquire DEF Shape, SimulationCount, AwakeAtStop
  <2>5. CASE SimulationAwake(e)
    BY <1>0, <2>5, LockAcquire DEF Shape, SimulationAwake, AwakeAtStop
  <2>6. CASE SimulationUnload(e)
    <3>. DEFINE special == FirstCall(elevator[e].callSequence).isSpecialCall
    <3>1. CASE special
      BY <1>0, <2>6, <3>1, LockFrame DEF Shape, SimulationUnload
    <3>2. CASE ~special
      BY <1>0, <2>6, <3>2, LockRelease DEF Shape, SimulationUnload, AwakeAtStop
    <3>. QED  BY <3>1, <3>2
  <2>7. CASE SimulationAccept(e)
    BY <1>0, <2>7, LockRelease DEF Shape, SimulationAccept, AwakeAtStop
  <2>8. CASE SimulationClose(e)
    BY <1>0, <2>8, LockRelease DEF Shape, SimulationClose, AwakeAtStop
  <2>. QED  BY <1>2, <2>1, <2>2, <2>3, <2>4, <2>5, <2>6, <2>7, <2>8 DEF SimulationStep
<1>3. ASSUME NEW e \in Elevators, Assign(e) \/ ParkingStep(e)
      PROVE  LockTypes' /\ ElevatorSemaphores'
  BY <1>3, LockFrame DEF Assign, ParkingStep, ParkingWatch, ParkingTest, ParkingSubtract, ParkingDivide, ParkingInsert, ParkingWake, semaphores
<1>4. CASE SchedulerSkip \/ SchedulerTake \/ SchedulerShrink
  BY <1>0, <1>4, LockFrame DEF Shape, LockTypes, SchedulerSkip, SchedulerTake, SchedulerShrink,
     semaphores
<1>5. CASE SchedulerLock
  BY <1>0, <1>5, BuildingAssumption DEF LockInv, ElevatorSemaphores, LockTypes, Shape,
     SchedulerLock, SchedulerHolds, Acquired, AsInt, Elevators
<1>6. CASE SchedulerDispatch
  BY <1>0, <1>6, BuildingAssumption DEF LockInv, ElevatorSemaphores, LockTypes, Shape,
     SchedulerDispatch, SchedulerHolds, AsInt, Elevators
<1>7. CASE GeneratorStep \/ GpioStep
  BY <1>7, LockFrame DEF GeneratorStep, GeneratorNew, GeneratorGrow, GeneratorStore,
     GpioStep, GpioRead, GpioWrite, semaphores
<1>. QED  BY <1>1, <1>2, <1>3, <1>4, <1>5, <1>6, <1>7 DEF Next, SchedulerStep

\* At every moment of every behaviour a car's semaphore is up, or its simulation
\* process has it, or the scheduler has it, and only one of the three.
THEOREM ElevatorSemaphoresHold == Spec => []ElevatorSemaphores
<1>1. LockInv => ElevatorSemaphores
  BY DEF LockInv
<1>. QED  BY LockInit, LockNext, <1>1, PTL DEF Spec

-----------------------------------------------------------------------------
(* The semaphores of the floors. *)

FloorTypes ==
  /\ semaphoreFloor \in [Floors -> Int]
  /\ \A e \in Elevators : elevator[e].current_floor \in Floors
  /\ scheduler.start \in Floors

PermitInv == Shape /\ FloorTypes /\ FloorPermits

LEMMA CarsFinite ==
  ASSUME NEW f
  PROVE  /\ IsFiniteSet(CarsOn(f)) /\ Cardinality(CarsOn(f)) \in Nat
         /\ IsFiniteSet(CarsExited(f)) /\ Cardinality(CarsExited(f)) \in Nat
<1>1. IsFiniteSet(Elevators)
  BY FS_Interval, BuildingAssumption DEF Elevators
<1>2. CarsOn(f) \in SUBSET Elevators /\ CarsExited(f) \in SUBSET Elevators
  BY DEF CarsOn, CarsExited
<1>3. IsFiniteSet(CarsOn(f)) /\ IsFiniteSet(CarsExited(f))
  BY <1>1, <1>2, FS_Subset
<1>. QED  BY <1>3, FS_CardinalityType

LEMMA PermitInit == Init => PermitInv
<1> SUFFICES ASSUME Init PROVE PermitInv
  OBVIOUS
<1>1. Shape /\ FloorTypes
  BY ShapeInit, BuildingAssumption DEF Init, FloorTypes, InitElevator, InitScheduler, Floors
<1>2. ASSUME NEW f \in Floors PROVE CarsOn(f) = {} /\ CarsExited(f) = {}
  BY DEF Init, CarsOn, CarsExited, InitSimulation
<1>3. ASSUME NEW f \in Floors
      PROVE  Cardinality(CarsOn(f)) = 0 /\ Cardinality(CarsExited(f)) = 0
  BY <1>2, FS_EmptySet
<1>4. ASSUME NEW f \in Floors
      PROVE  ~SchedulerOn(f) /\ ~GeneratorOn(f) /\ Here = 1 /\ semaphoreFloor[f] = 1
  BY DEF Init, SchedulerOn, GeneratorOn, Here, InitScheduler, InitGenerator
<1>5. FloorPermits
  BY <1>3, <1>4 DEF FloorPermits, AsInt
<1>. QED  BY <1>1, <1>5 DEF PermitInv

\* A step that changes nothing of what FloorPermits counts.
LEMMA PermitFrame ==
  ASSUME PermitInv, semaphoreFloor' = semaphoreFloor, scheduler'.start = scheduler.start,
         \A e \in Elevators : elevator'[e].current_floor \in Floors,
         \A f \in Floors : /\ CarsOn(f)' = CarsOn(f)
                           /\ CarsExited(f)' = CarsExited(f)
                           /\ SchedulerOn(f)' = SchedulerOn(f)
                           /\ GeneratorOn(f)' = GeneratorOn(f)
  PROVE  FloorTypes' /\ FloorPermits'
BY DEF PermitInv, FloorTypes, FloorPermits, Here

\* What an unchanged simulation process and car leave of the counts.
LEMMA CarsFrame ==
  ASSUME \A e \in Elevators :
           /\ elevator'[e].current_floor = elevator[e].current_floor
           /\ simulation'[e].pc = "onfloor" <=> simulation[e].pc = "onfloor"
           /\ simulation'[e].pc = "exited" <=> simulation[e].pc = "exited",
         NEW f
  PROVE  CarsOn(f)' = CarsOn(f) /\ CarsExited(f)' = CarsExited(f)
BY DEF CarsOn, CarsExited

LEMMA PermitNext == PermitInv /\ [Next]_vars => PermitInv'
<1> SUFFICES ASSUME PermitInv, [Next]_vars PROVE FloorTypes' /\ FloorPermits'
  BY ShapeNext DEF PermitInv
<1>0. Shape /\ FloorTypes /\ FloorPermits
  BY DEF PermitInv
<1>1. CASE UNCHANGED vars
  BY <1>0, <1>1, PermitFrame DEF vars, semaphores, FloorTypes, CarsOn, CarsExited, SchedulerOn, Here,
     GeneratorOn, GeneratorFloor
<1>2. ASSUME NEW e \in Elevators, SimulationStep(e)
      PROVE  FloorTypes' /\ FloorPermits'
  <2>. DEFINE here == elevator[e].current_floor
  <2>0. UNCHANGED <<scheduler, generator>>
    BY <1>2 DEF SimulationStep, SimulationIdle, SimulationHead, SimulationMove, SimulationExit,
       SimulationStop, SimulationCount, SimulationUnload, SimulationCollect, SimulationEnterFloor,
       SimulationAccept, SimulationAwake, SimulationClose, SimulationLeave
  <2>1. /\ UNCHANGED scheduler.start
        /\ \A f \in Floors : SchedulerOn(f)' = SchedulerOn(f) /\ GeneratorOn(f)' = GeneratorOn(f)
    BY <2>0 DEF SchedulerOn, GeneratorOn, GeneratorFloor, Here
  <2>2. CASE SimulationHead(e)
    <3>1. PICK car \in Headed(e) : elevator' = [elevator EXCEPT ![e] = car]
      BY <2>2 DEF SimulationHead
    <3>2. \A d \in Elevators : elevator'[d].current_floor = elevator[d].current_floor
      BY <1>0, <3>1, HeadedKeeps DEF Shape
    <3>. QED  BY <1>0, <2>1, <2>2, <3>2, CarsFrame, PermitFrame DEF SimulationHead, semaphores, FloorTypes
  <2>3. CASE SimulationMove(e)
    <3>1. PICK car \in Headed(e) :
            /\ car.current_floor + car.direction \in Floors
            /\ elevator' = [elevator EXCEPT ![e] = [car EXCEPT !.current_floor = @ + car.direction]]
      BY <2>3 DEF SimulationMove
    <3>2. \A d \in Elevators : /\ elevator'[d].current_floor \in Floors
                               /\ d /= e => elevator'[d] = elevator[d]
      BY <1>0, <3>1, HeadedKeeps DEF Shape, FloorTypes
    <3>3. simulation'  = simulation /\ simulation[e].pc = "loop" /\ semaphoreFloor' = semaphoreFloor
      BY <2>3 DEF SimulationMove, OnTransition, AtLoop, semaphores
    <3>4. ASSUME NEW f \in Floors, NEW d \in Elevators
          PROVE  /\ (d \in CarsOn(f))' <=> d \in CarsOn(f)
                 /\ (d \in CarsExited(f))' <=> d \in CarsExited(f)
      <4>1. CASE d = e
        BY <3>3, <4>1 DEF CarsOn, CarsExited
      <4>2. CASE d /= e
        <5>1. elevator'[d] = elevator[d] /\ simulation'[d] = simulation[d]
          BY <3>2, <3>3, <4>2
        <5>. QED  BY <5>1 DEF CarsOn, CarsExited
      <4>. QED  BY <4>1, <4>2
    <3>5. ASSUME NEW f \in Floors
          PROVE  CarsOn(f)' = CarsOn(f) /\ CarsExited(f)' = CarsExited(f)
      <4>1. /\ CarsOn(f) \subseteq Elevators /\ CarsOn(f)' \subseteq Elevators
            /\ CarsExited(f) \subseteq Elevators /\ CarsExited(f)' \subseteq Elevators
        BY DEF CarsOn, CarsExited
      <4>. QED  BY <3>4, <4>1
    <3>6. \A f \in Floors : /\ CarsOn(f)' = CarsOn(f) /\ CarsExited(f)' = CarsExited(f)
                            /\ SchedulerOn(f)' = SchedulerOn(f)
                            /\ GeneratorOn(f)' = GeneratorOn(f)
      BY <2>1, <3>5
    <3>7. \A d \in Elevators : elevator'[d].current_floor \in Floors
      BY <3>2
    <3>8. semaphoreFloor' = semaphoreFloor /\ scheduler'.start = scheduler.start
      BY <2>1, <3>3
    <3>. QED  BY <3>6, <3>7, <3>8, PermitFrame
  <2>4. CASE SimulationIdle(e) \/ SimulationUnload(e) \/ SimulationCollect(e)
    <3>1. /\ \A d \in Elevators :
               /\ elevator'[d].current_floor = elevator[d].current_floor
               /\ simulation'[d].pc = "onfloor" <=> simulation[d].pc = "onfloor"
               /\ simulation'[d].pc = "exited" <=> simulation[d].pc = "exited"
          /\ semaphoreFloor' = semaphoreFloor
      BY <1>0, <2>4 DEF SimulationIdle, SimulationUnload, SimulationCollect, semaphores, Shape
    <3>. QED  BY <1>0, <2>1, <3>1, CarsFrame, PermitFrame DEF FloorTypes
  <2>5. CASE SimulationStop(e)
    BY <1>0, <2>1, <2>5, CarsFrame, PermitFrame DEF SimulationStop, AtLoop, Roused, semaphores, FloorTypes, Shape
  <2>6. CASE \/ SimulationCount(e) \/ SimulationAwake(e) \/ SimulationClose(e)
             \/ SimulationLeave(e)
    <3>1. /\ elevator' = elevator /\ semaphoreFloor' = semaphoreFloor
          /\ \A d \in Elevators :
               /\ simulation'[d].pc = "onfloor" <=> simulation[d].pc = "onfloor"
               /\ simulation'[d].pc = "exited" <=> simulation[d].pc = "exited"
      <4>1. CASE SimulationCount(e)
        BY <1>0, <4>1 DEF SimulationCount, Shape
      <4>2. CASE SimulationAwake(e)
        BY <1>0, <4>2 DEF SimulationAwake, Shape
      <4>3. CASE SimulationClose(e)
        BY <1>0, <4>3 DEF SimulationClose, Shape
      <4>4. CASE SimulationLeave(e)
        BY <1>0, <4>4 DEF SimulationLeave, semaphores, Shape
      <4>. QED  BY <2>6, <4>1, <4>2, <4>3, <4>4
    <3>. QED  BY <1>0, <2>1, <3>1, CarsFrame, PermitFrame DEF FloorTypes
  <2>7. CASE SimulationExit(e)
    <3>1. PICK car \in Headed(e) : elevator' = [elevator EXCEPT ![e] = car]
      BY <2>7 DEF SimulationExit
    <3>2. \A d \in Elevators : elevator'[d].current_floor = elevator[d].current_floor
      BY <1>0, <3>1, HeadedKeeps DEF Shape
    <3>3. /\ simulation[e].pc = "loop" /\ simulation'[e].pc = "exited"
          /\ \A d \in Elevators \ {e} : simulation'[d] = simulation[d]
      BY <1>0, <2>7 DEF SimulationExit, OnTransition, AtLoop, Shape
    <3>4. ASSUME NEW f \in Floors
          PROVE  /\ CarsOn(f)' = CarsOn(f)
                 /\ CarsExited(f)' = IF f = here THEN CarsExited(f) \cup {e} ELSE CarsExited(f)
                 /\ e \notin CarsExited(f)
      BY <3>2, <3>3 DEF CarsOn, CarsExited
    <3>5. \A f \in Floors : Cardinality(CarsExited(f))' =
                               Cardinality(CarsExited(f)) + AsInt(f = here)
      BY <3>4, CarsFinite, FS_AddElement DEF AsInt
    <3>6. semaphoreFloor' = Released(semaphoreFloor, here)
      BY <2>7 DEF SimulationExit
    <3>. QED
      BY <1>0, <2>1, <3>2, <3>4, <3>5, <3>6, CarsFinite DEF FloorTypes, FloorPermits, Released, AsInt, Here
  <2>8. CASE SimulationEnterFloor(e)
    <3>1. /\ simulation[e].pc = "board" /\ simulation'[e].pc = "onfloor"
          /\ \A d \in Elevators \ {e} : simulation'[d] = simulation[d]
          /\ elevator' = elevator /\ semaphoreFloor' = Acquired(semaphoreFloor, here)
      BY <1>0, <2>8 DEF SimulationEnterFloor, Shape
    <3>2. ASSUME NEW f \in Floors
          PROVE  /\ CarsExited(f)' = CarsExited(f)
                 /\ CarsOn(f)' = IF f = here THEN CarsOn(f) \cup {e} ELSE CarsOn(f)
                 /\ e \notin CarsOn(f)
      BY <3>1 DEF CarsOn, CarsExited
    <3>3. \A f \in Floors : Cardinality(CarsOn(f))' = Cardinality(CarsOn(f)) + AsInt(f = here)
      BY <3>2, CarsFinite, FS_AddElement DEF AsInt
    <3>. QED
      BY <1>0, <2>1, <3>1, <3>2, <3>3, CarsFinite DEF FloorTypes, FloorPermits, Acquired, AsInt, Here
  <2>9. CASE SimulationAccept(e)
    <3>1. /\ simulation[e].pc = "onfloor" /\ simulation'[e].pc = "loading"
          /\ \A d \in Elevators \ {e} : simulation'[d] = simulation[d]
          /\ \A d \in Elevators : elevator'[d].current_floor = elevator[d].current_floor
          /\ semaphoreFloor' = Released(semaphoreFloor, here)
      BY <1>0, <2>9 DEF SimulationAccept, Shape
    <3>2. ASSUME NEW f \in Floors
          PROVE  /\ CarsExited(f)' = CarsExited(f)
                 /\ CarsOn(f)' = IF f = here THEN CarsOn(f) \ {e} ELSE CarsOn(f)
                 /\ f = here => e \in CarsOn(f)
      BY <3>1 DEF CarsOn, CarsExited
    <3>3. \A f \in Floors : Cardinality(CarsOn(f))' = Cardinality(CarsOn(f)) - AsInt(f = here)
      BY <3>2, CarsFinite, FS_RemoveElement DEF AsInt
    <3>. QED
      BY <1>0, <2>1, <3>1, <3>2, <3>3, CarsFinite DEF FloorTypes, FloorPermits, Released, AsInt, Here
  <2>. QED
    BY <1>2, <2>2, <2>3, <2>4, <2>5, <2>6, <2>7, <2>8, <2>9 DEF SimulationStep
<1>3. ASSUME NEW e \in Elevators, Assign(e) \/ ParkingStep(e)
      PROVE  FloorTypes' /\ FloorPermits'
  <2>1. \A d \in Elevators : /\ elevator'[d].current_floor = elevator[d].current_floor
                             /\ simulation'[d].pc = simulation[d].pc
    <3>1. CASE Assign(e)
      <4>1. PICK queue : elevator' = [elevator EXCEPT
                           ![e].callSequence = queue,
                           ![e].floorCalls = deleteBeginLinkedCall(@)]
        BY <3>1, Zenon DEF Assign
      <4>. QED  BY <1>0, <3>1, <4>1 DEF Assign, Shape
    <3>2. CASE ParkingInsert(e)
      <4>1. PICK queue : elevator' = [elevator EXCEPT ![e].callSequence = queue]
        BY <3>2, Zenon DEF ParkingInsert
      <4>. QED  BY <1>0, <3>2, <4>1 DEF ParkingInsert, Shape
    <3>3. CASE ParkingReads(e) \/ ParkingWake(e)
      BY <3>3 DEF ParkingReads, ParkingWatch, ParkingTest, ParkingSubtract, ParkingDivide, ParkingWake
    <3>. QED  BY <1>3, <3>1, <3>2, <3>3 DEF ParkingStep, ParkingReads
  <2>2. UNCHANGED <<semaphoreFloor, scheduler, generator>>
    BY <1>3 DEF Assign, ParkingStep, ParkingWatch, ParkingTest, ParkingSubtract, ParkingDivide, ParkingInsert, ParkingWake, semaphores
  <2>. QED
    BY <1>0, <2>1, <2>2, CarsFrame, PermitFrame DEF FloorTypes, SchedulerOn, Here, GeneratorOn, GeneratorFloor
<1>4. CASE SchedulerStep \/ GeneratorStep \/ GpioStep
  <2>1. \A d \in Elevators : /\ elevator'[d].current_floor = elevator[d].current_floor
                             /\ simulation'[d].pc = simulation[d].pc
    <3>1. simulation' = simulation
      BY <1>4 DEF SchedulerStep, SchedulerSkip, SchedulerTake, SchedulerShrink, SchedulerLock,
         SchedulerDispatch, GeneratorStep, GeneratorNew, GeneratorGrow, GeneratorStore, GpioStep,
         GpioRead, GpioWrite
    <3>2. CASE SchedulerDispatch
      BY <1>0, <3>1, <3>2 DEF SchedulerDispatch, WithPassengerCalls, Shape
    <3>3. CASE GpioWrite
      BY <1>0, <3>1, <3>3 DEF GpioWrite, Shape
    <3>4. CASE UNCHANGED elevator
      BY <3>1, <3>4
    <3>. QED
      BY <1>4, <3>2, <3>3, <3>4 DEF SchedulerStep, SchedulerSkip, SchedulerTake, SchedulerShrink,
         SchedulerLock, GeneratorStep, GeneratorNew, GeneratorGrow, GeneratorStore, GpioStep, GpioRead
  <2>2. \A f \in Floors : CarsOn(f)' = CarsOn(f) /\ CarsExited(f)' = CarsExited(f)
    BY <2>1, CarsFrame
  <2>. DEFINE Counts == /\ FloorTypes
                        /\ \A f \in Floors : Cardinality(CarsOn(f)) \in Nat
                                            /\ Cardinality(CarsExited(f)) \in Nat
                                            /\ CarsOn(f)' = CarsOn(f)
                                            /\ CarsExited(f)' = CarsExited(f)
                        /\ \A e \in Elevators : elevator'[e].current_floor \in Floors
  <2>3. Counts
    BY <1>0, <2>1, <2>2, CarsFinite DEF FloorTypes
  <2>4. CASE SchedulerSkip
    <3>1. NextFloor(Here) \in Floors
      BY <1>0, BuildingAssumption DEF FloorTypes, NextFloor, Floors, Here
    <3>2. /\ semaphoreFloor' = Released(Acquired(semaphoreFloor, Here), NextFloor(Here))
          /\ scheduler.pc = "scan" /\ scheduler'.pc = "scan" /\ Here' = NextFloor(Here)
          /\ UNCHANGED generator
      BY <1>0, <2>4 DEF SchedulerSkip, Shape, Here
    <3>3. /\ \A f \in Floors : semaphoreFloor'[f] =
                                semaphoreFloor[f] - AsInt(f = Here) + AsInt(f = Here')
          /\ semaphoreFloor' \in [Floors -> Int]
      BY <1>0, <3>1, <3>2 DEF FloorTypes, Acquired, Released, AsInt
    <3>4. \A f \in Floors : /\ ~SchedulerOn(f) /\ ~SchedulerOn(f)'
                            /\ GeneratorOn(f)' = GeneratorOn(f)
      BY <3>2 DEF SchedulerOn, GeneratorOn, GeneratorFloor
    <3>5. FloorTypes'
      BY <2>3, <3>1, <3>2, <3>3 DEF FloorTypes, Here
    <3>6. FloorPermits'
      BY <1>0, <2>3, <3>3, <3>4 DEF FloorPermits, FloorTypes, AsInt
    <3>. QED  BY <3>5, <3>6
  <2>5. CASE SchedulerTake
    BY <1>0, <2>3, <2>5 DEF SchedulerTake, FloorTypes, FloorPermits, Shape,
       SchedulerOn, GeneratorOn, GeneratorFloor, Here, Acquired, AsInt
  <2>6. CASE SchedulerShrink \/ SchedulerLock
    BY <1>0, <2>1, <2>2, <2>6, PermitFrame DEF SchedulerShrink, SchedulerLock, FloorTypes, Shape,
       SchedulerOn, GeneratorOn, GeneratorFloor, Here, semaphores
  <2>7. CASE SchedulerDispatch
    BY <1>0, <2>3, <2>7 DEF SchedulerDispatch, FloorTypes, FloorPermits, Shape,
       SchedulerOn, GeneratorOn, GeneratorFloor, Here, Released, AsInt
  <2>8. CASE GeneratorNew \/ GpioStep
    BY <1>0, <2>1, <2>2, <2>8, PermitFrame DEF GeneratorNew, GpioStep, GpioRead, GpioWrite, FloorTypes,
       Shape, SchedulerOn, GeneratorOn, GeneratorFloor, Here, semaphores
  <2>9. CASE GeneratorGrow
    <3>1. /\ semaphoreFloor' = Acquired(semaphoreFloor, GeneratorFloor)
          /\ UNCHANGED scheduler
      BY <2>9 DEF GeneratorGrow
    <3>2. /\ generator.pc = "floor" /\ generator'.pc = "store"
          /\ GeneratorFloor' = GeneratorFloor
      BY <1>0, <2>9 DEF GeneratorGrow, GeneratorFloor, Shape
    <3>3. \A f \in Floors : /\ ~GeneratorOn(f)
                            /\ GeneratorOn(f)' <=> f = GeneratorFloor
      BY <3>2 DEF GeneratorOn
    <3>4. /\ \A f \in Floors : semaphoreFloor'[f] = semaphoreFloor[f] - AsInt(f = GeneratorFloor)
          /\ semaphoreFloor' \in [Floors -> Int]
      <4>1. CASE GeneratorFloor \in Floors
        BY <1>0, <3>1, <4>1 DEF FloorTypes, Acquired, AsInt
      <4>2. CASE GeneratorFloor \notin Floors
        <5>1. semaphoreFloor' = semaphoreFloor
          BY <1>0, <3>1, <4>2 DEF FloorTypes, Acquired
        <5>. QED  BY <1>0, <4>2, <5>1 DEF FloorTypes, AsInt
      <4>. QED  BY <4>1, <4>2
    <3>5. \A f \in Floors : SchedulerOn(f)' = SchedulerOn(f) /\ Here' = Here
      BY <3>1 DEF SchedulerOn, Here
    <3>6. FloorTypes'
      BY <1>0, <2>3, <3>1, <3>4 DEF FloorTypes
    <3>7. FloorPermits'
      BY <1>0, <2>3, <3>3, <3>4, <3>5 DEF FloorPermits, FloorTypes, AsInt
    <3>. QED  BY <3>6, <3>7
  <2>10. CASE GeneratorStore
    <3>1. /\ semaphoreFloor' = Released(semaphoreFloor, GeneratorFloor)
          /\ UNCHANGED scheduler
      BY <2>10 DEF GeneratorStore
    <3>2. generator.pc = "store" /\ generator'.pc = "menu"
      BY <1>0, <2>10 DEF GeneratorStore, Shape
    <3>3. \A f \in Floors : /\ GeneratorOn(f) <=> f = GeneratorFloor
                            /\ ~GeneratorOn(f)'
      BY <3>2 DEF GeneratorOn
    <3>4. /\ \A f \in Floors : semaphoreFloor'[f] = semaphoreFloor[f] + AsInt(f = GeneratorFloor)
          /\ semaphoreFloor' \in [Floors -> Int]
      <4>1. CASE GeneratorFloor \in Floors
        BY <1>0, <3>1, <4>1 DEF FloorTypes, Released, AsInt
      <4>2. CASE GeneratorFloor \notin Floors
        <5>1. semaphoreFloor' = semaphoreFloor
          BY <1>0, <3>1, <4>2 DEF FloorTypes, Released
        <5>. QED  BY <1>0, <4>2, <5>1 DEF FloorTypes, AsInt
      <4>. QED  BY <4>1, <4>2
    <3>5. \A f \in Floors : SchedulerOn(f)' = SchedulerOn(f) /\ Here' = Here
      BY <3>1 DEF SchedulerOn, Here
    <3>6. FloorTypes'
      BY <1>0, <2>3, <3>1, <3>4 DEF FloorTypes
    <3>7. FloorPermits'
      BY <1>0, <2>3, <3>3, <3>4, <3>5 DEF FloorPermits, FloorTypes, AsInt
    <3>. QED  BY <3>6, <3>7
  <2>. QED
    BY <1>4, <2>4, <2>5, <2>6, <2>7, <2>8, <2>9, <2>10 DEF SchedulerStep, GeneratorStep
<1>. QED  BY <1>1, <1>2, <1>3, <1>4 DEF Next

\* The permits of every floor are accounted for in every behaviour, the one
\* that the scheduler carries to the wrong floor included.
THEOREM FloorPermitsHold == Spec => []FloorPermits
<1>1. PermitInv => FloorPermits
  BY DEF PermitInv
<1>. QED  BY PermitInit, PermitNext, <1>1, PTL DEF Spec

\* The scheduler and a car wait for each other on the ground floor or on the
\* floor the scheduler is serving, or somebody else is in the way.
THEOREM RingOnlyHereHolds == Spec => []RingOnlyHere
<1>1. PermitInv => RingOnlyHere
  <2>. SUFFICES ASSUME PermitInv, NEW e \in Elevators,
                       SchedulerWaitsFor(e), CarWaitsForFloor(e),
                       ~GeneratorOn(elevator[e].current_floor),
                       CarsOn(elevator[e].current_floor) = {}
                PROVE  elevator[e].current_floor = 1 \/ elevator[e].current_floor = Here
    BY DEF RingOnlyHere
  <2>. QED
    BY CarsFinite, FS_EmptySet DEF PermitInv, FloorTypes, FloorPermits, CarWaitsForFloor,
       SchedulerOn, AsInt
<1>. QED  BY PermitInit, PermitNext, <1>1, PTL DEF Spec

-----------------------------------------------------------------------------
(* The abnormal button. *)

\* The cars an edge has been written into have the flag the edge stands for.
ButtonInv ==
  /\ Shape
  /\ gpio.next \in 0..NUM_OF_ELEVATOR /\ gpio.edges \in Nat
  /\ gpio.edges % 2 = 1 =>
       \A e \in Elevators : e < gpio.next => elevator[e].abnormal

LEMMA ButtonInit == Init => ButtonInv
BY ShapeInit, BuildingAssumption DEF Init, ButtonInv

\* Only gpioProcess writes the abnormal flag of a car.
LEMMA AbnormalKept ==
  ASSUME Shape, NEW d \in Elevators,
         NEW e \in Elevators, SimulationStep(e) \/ Assign(e) \/ ParkingStep(e)
  PROVE  elevator'[d].abnormal = elevator[d].abnormal
<1>1. CASE SimulationHead(e) \/ SimulationMove(e) \/ SimulationExit(e)
  <2>1. PICK car \in Headed(e) :
          \/ elevator' = [elevator EXCEPT ![e] = car]
          \/ elevator' = [elevator EXCEPT ![e] = [car EXCEPT !.current_floor = @ + car.direction]]
    BY <1>1, Zenon DEF SimulationHead, SimulationMove, SimulationExit
  <2>. QED  BY <2>1, HeadedKeeps DEF Shape
<1>2. CASE SimulationIdle(e) \/ SimulationUnload(e) \/ SimulationCollect(e) \/ SimulationAccept(e)
  <2>1. CASE SimulationIdle(e)
    BY <2>1 DEF SimulationIdle, Shape
  <2>2. CASE SimulationUnload(e)
    BY <2>2 DEF SimulationUnload, Shape
  <2>3. CASE SimulationCollect(e)
    BY <2>3 DEF SimulationCollect, Shape
  <2>4. CASE SimulationAccept(e)
    BY <2>4 DEF SimulationAccept, Shape
  <2>. QED  BY <1>2, <2>1, <2>2, <2>3, <2>4
<1>3. CASE SimulationStop(e)
  BY <1>3 DEF SimulationStop, Roused, Shape
<1>4. CASE SimulationCount(e) \/ SimulationEnterFloor(e) \/ SimulationAwake(e)
           \/ SimulationClose(e) \/ SimulationLeave(e)
  BY <1>4 DEF SimulationCount, SimulationEnterFloor, SimulationAwake, SimulationClose,
     SimulationLeave
<1>5. CASE Assign(e) \/ ParkingStep(e)
  <2>1. CASE Assign(e)
    <3>1. PICK queue : elevator' = [elevator EXCEPT
                         ![e].callSequence = queue,
                         ![e].floorCalls = deleteBeginLinkedCall(@)]
      BY <2>1, Zenon DEF Assign
    <3>. QED  BY <3>1 DEF Shape
  <2>2. CASE ParkingInsert(e)
    <3>1. PICK queue : elevator' = [elevator EXCEPT ![e].callSequence = queue]
      BY <2>2, Zenon DEF ParkingInsert
    <3>. QED  BY <3>1 DEF Shape
  <2>3. CASE ParkingReads(e) \/ ParkingWake(e)
    BY <2>3 DEF ParkingReads, ParkingWatch, ParkingTest, ParkingSubtract, ParkingDivide, ParkingWake
  <2>. QED  BY <1>5, <2>1, <2>2, <2>3 DEF ParkingStep, ParkingReads
<1>. QED  BY <1>1, <1>2, <1>3, <1>4, <1>5 DEF SimulationStep

LEMMA ButtonNext == ButtonInv /\ [Next]_vars => ButtonInv'
<1> SUFFICES ASSUME ButtonInv, [Next]_vars PROVE ButtonInv'
  OBVIOUS
<1>0. Shape /\ Shape'
  BY ShapeNext DEF ButtonInv
<1>1. CASE UNCHANGED vars
  BY <1>0, <1>1 DEF ButtonInv, vars
<1>2. ASSUME NEW e \in Elevators, SimulationStep(e) \/ Assign(e) \/ ParkingStep(e)
      PROVE  ButtonInv'
  <2>1. UNCHANGED gpio
    BY <1>2 DEF SimulationStep, SimulationIdle, SimulationHead, SimulationMove, SimulationExit,
       SimulationStop, SimulationCount, SimulationUnload, SimulationCollect, SimulationEnterFloor,
       SimulationAccept, SimulationAwake, SimulationClose, SimulationLeave, Assign, ParkingStep,
       ParkingWatch, ParkingTest, ParkingSubtract, ParkingDivide, ParkingInsert, ParkingWake
  <2>. QED  BY <1>0, <1>2, <2>1, AbnormalKept DEF ButtonInv
<1>3. CASE SchedulerStep \/ GeneratorStep
  <2>1. UNCHANGED gpio
    BY <1>3 DEF SchedulerStep, SchedulerSkip, SchedulerTake, SchedulerShrink, SchedulerLock,
       SchedulerDispatch, GeneratorStep, GeneratorNew, GeneratorGrow, GeneratorStore
  <2>2. CASE SchedulerDispatch
    <3>1. \A d \in Elevators : elevator'[d].abnormal = elevator[d].abnormal
      BY <1>0, <2>2 DEF SchedulerDispatch, WithPassengerCalls, Shape
    <3>. QED  BY <1>0, <2>1, <3>1 DEF ButtonInv
  <2>3. CASE UNCHANGED elevator
    BY <1>0, <2>1, <2>3 DEF ButtonInv
  <2>. QED
    BY <1>3, <2>2, <2>3 DEF SchedulerStep, SchedulerSkip, SchedulerTake, SchedulerShrink,
       SchedulerLock, GeneratorStep, GeneratorNew, GeneratorGrow, GeneratorStore
<1>4. CASE GpioRead
  BY <1>0, <1>4, BuildingAssumption DEF GpioRead, ButtonInv, Elevators
<1>5. CASE GpioWrite
  <2>1. /\ gpio.next \in Elevators /\ gpio'.next = gpio.next + 1 /\ gpio'.edges = gpio.edges
        /\ elevator' = [elevator EXCEPT ![gpio.next].abnormal = (gpio.edges % 2 = 1)]
    BY <1>0, <1>5, BuildingAssumption DEF GpioWrite, ButtonInv, Elevators, Shape
  <2>2. /\ elevator'[gpio.next].abnormal = (gpio.edges % 2 = 1)
        /\ \A e \in Elevators \ {gpio.next} : elevator'[e].abnormal = elevator[e].abnormal
    BY <1>0, <2>1, Zenon DEF Shape
  <2>3. ASSUME gpio'.edges % 2 = 1, NEW e \in Elevators, e < gpio'.next
        PROVE  elevator'[e].abnormal
    <3>1. CASE e = gpio.next
      BY <2>1, <2>2, <2>3, <3>1
    <3>2. CASE e /= gpio.next
      <4>1. e < gpio.next
        BY <2>1, <2>3, <3>2, BuildingAssumption DEF Elevators
      <4>. QED  BY <2>1, <2>2, <2>3, <3>2, <4>1 DEF ButtonInv
    <3>. QED  BY <3>1, <3>2
  <2>4. gpio'.next \in 0..NUM_OF_ELEVATOR /\ gpio'.edges \in Nat
    BY <2>1, BuildingAssumption DEF ButtonInv, Elevators
  <2>. QED  BY <1>0, <2>3, <2>4 DEF ButtonInv
<1>. QED  BY <1>1, <1>2, <1>3, <1>4, <1>5 DEF Next, GpioStep

\* While the button is pressed, and written into every car, no car leaves its
\* floor and none begins a stop, whatever the other processes do.
THEOREM ButtonStopsCarsHolds == Spec => ButtonStopsCars
<1>. DEFINE Pressed == gpio.next = NUM_OF_ELEVATOR /\ gpio.edges % 2 = 1
            Stays(e) == /\ elevator'[e].current_floor = elevator[e].current_floor
                        /\ simulation[e].pc = "loop" => simulation'[e].pc = "loop"
<1>1. ASSUME ButtonInv, [Next]_vars, Pressed, NEW e \in Elevators
      PROVE  Stays(e)
  <2>0. Shape /\ \A d \in Elevators : elevator[d].abnormal
    BY <1>1, BuildingAssumption DEF ButtonInv, Elevators
  <2>1. CASE UNCHANGED vars
    BY <2>1 DEF vars
  <2>2. ASSUME NEW d \in Elevators, SimulationStep(d) PROVE Stays(e)
    <3>1. ~AtLoop(d)
      BY <2>0 DEF AtLoop
    <3>2. CASE SimulationUnload(d) \/ SimulationCollect(d)
      BY <2>0, <3>2 DEF SimulationUnload, SimulationCollect, Shape
    <3>3. CASE SimulationAccept(d)
      BY <2>0, <3>3 DEF SimulationAccept, Shape
    <3>4. CASE SimulationCount(d) \/ SimulationEnterFloor(d) \/ SimulationClose(d)
      BY <2>0, <3>4 DEF SimulationCount, SimulationEnterFloor, SimulationClose, Shape
    <3>5. CASE SimulationAwake(d) \/ SimulationLeave(d)
      BY <2>0, <3>5 DEF SimulationAwake, SimulationLeave, Shape
    <3>. QED
      BY <2>2, <3>1, <3>2, <3>3, <3>4, <3>5 DEF SimulationStep, SimulationIdle, SimulationHead,
         SimulationMove, SimulationExit, SimulationStop, OnTransition
  <2>3. ASSUME NEW d \in Elevators, Assign(d) PROVE Stays(e)
    <3>1. PICK queue : elevator' = [elevator EXCEPT
                         ![d].callSequence = queue,
                         ![d].floorCalls = deleteBeginLinkedCall(@)]
      BY <2>3, Zenon DEF Assign
    <3>. QED  BY <2>0, <2>3, <3>1 DEF Assign, Shape
  <2>4. ASSUME NEW d \in Elevators, ParkingStep(d) PROVE Stays(e)
    <3>1. CASE ParkingInsert(d)
      <4>1. PICK queue : elevator' = [elevator EXCEPT ![d].callSequence = queue]
        BY <3>1, Zenon DEF ParkingInsert
      <4>. QED  BY <2>0, <3>1, <4>1 DEF ParkingInsert, Shape
    <3>. QED  BY <2>4, <3>1 DEF ParkingStep, ParkingWatch, ParkingTest, ParkingSubtract, ParkingDivide, ParkingWake
  <2>5. CASE SchedulerStep \/ GeneratorStep \/ GpioStep
    <3>1. simulation' = simulation
      BY <2>5 DEF SchedulerStep, SchedulerSkip, SchedulerTake, SchedulerShrink, SchedulerLock,
         SchedulerDispatch, GeneratorStep, GeneratorNew, GeneratorGrow, GeneratorStore, GpioStep,
         GpioRead, GpioWrite
    <3>2. CASE SchedulerDispatch
      BY <2>0, <3>1, <3>2 DEF SchedulerDispatch, WithPassengerCalls, Shape
    <3>3. CASE GpioWrite
      BY <2>0, <3>1, <3>3 DEF GpioWrite, Shape
    <3>. QED
      BY <2>5, <3>1, <3>2, <3>3 DEF SchedulerStep, SchedulerSkip, SchedulerTake, SchedulerShrink,
         SchedulerLock, GeneratorStep, GeneratorNew, GeneratorGrow, GeneratorStore, GpioStep, GpioRead
  <2>. QED  BY <1>1, <2>1, <2>2, <2>3, <2>4, <2>5 DEF Next
<1>2. ButtonInv /\ [Next]_vars
        => [Pressed => \A e \in Elevators : Stays(e)]_vars
  BY <1>1
<1>. QED  BY ButtonInit, ButtonNext, <1>2, PTL DEF Spec, ButtonStopsCars

-----------------------------------------------------------------------------
(* The operators on call lists, for lists of any calls. *)

\* The node that the operations with an ID delete or answer has that ID.
LEMMA SelectsNode ==
  ASSUME NEW S, NEW list \in Seq(S), NEW id, \E i \in DOMAIN list : list[i].ID = id
  PROVE  \E k \in 1..Len(list) :
           /\ list[k].ID = id
           /\ \A i \in 1..Len(list) : list[i].ID = id => k <= i
           /\ CallWithID(list, id) = list[k]
           /\ deleteIDLinkedCall(list, id) = RemoveAt(list, k)
           /\ deleteIDLinkedPassenger(list, id) = RemoveAt(list, k)
<1>. DEFINE I == {i \in 1..Len(list) : list[i].ID = id}
<1>1. Len(list) \in Nat /\ DOMAIN list = 1..Len(list)
  BY LenProperties
<1>2. I \in SUBSET Nat /\ I /= {}
  BY <1>1
<1>3. PICK n \in I : \A m \in I : n <= m
  <2>. HIDE DEF I
  <2>. QED  BY <1>2, LeastNumber
<1>4. Min(I) \in I /\ \A m \in I : Min(I) <= m
  BY <1>3 DEF Min
<1>5. CallWithID(list, id) = list[Min(I)]
  BY <1>1, <1>2 DEF CallWithID, SelectInSeq
<1>6. deleteIDLinkedCall(list, id) = RemoveAt(list, Min(I))
  BY <1>1, <1>2 DEF deleteIDLinkedCall, RemoveFirstMatch, SelectInSeq
<1>7. deleteIDLinkedPassenger(list, id) = RemoveAt(list, Min(I))
  BY <1>1, <1>2 DEF deleteIDLinkedPassenger, RemoveFirstMatch, SelectInSeq
<1>. QED  BY <1>4, <1>5, <1>6, <1>7

\* What taking out and putting in a node does, node by node.
LEMMA RemovedAt ==
  ASSUME NEW S, NEW list \in Seq(S), NEW k \in 1..Len(list)
  PROVE  /\ RemoveAt(list, k) \in Seq(S) /\ Len(RemoveAt(list, k)) = Len(list) - 1
         /\ \A i \in 1..(Len(list) - 1) :
              RemoveAt(list, k)[i] = IF i < k THEN list[i] ELSE list[i + 1]
<1>. DEFINE a == SubSeq(list, 1, k - 1)
            b == SubSeq(list, k + 1, Len(list))
            shorter == RemoveAt(list, k)
<1>1. Len(list) \in Nat
  BY LenProperties
<1>2. a \in Seq(S) /\ Len(a) = k - 1 /\ \A i \in 1..(k - 1) : a[i] = list[i]
  <2>1. \A j \in 1..(k - 1) : list[j] \in S
    BY <1>1, ElementOfSeq
  <2>. QED  BY <1>1, <2>1, SubSeqProperties
<1>3. b \in Seq(S) /\ Len(b) = Len(list) - k /\ \A i \in 1..(Len(list) - k) : b[i] = list[k + i]
  <2>1. \A j \in (k + 1)..Len(list) : list[j] \in S
    BY <1>1, ElementOfSeq
  <2>2. b \in Seq(S) /\ Len(b) = Len(list) - k /\ \A i \in 1..(Len(list) - k) : b[i] = list[(k + 1) + i - 1]
    BY <1>1, <2>1, SubSeqProperties
  <2>3. \A i \in 1..(Len(list) - k) : (k + 1) + i - 1 = k + i
    OBVIOUS
  <2>. HIDE DEF b
  <2>. QED  BY <2>2, <2>3
<1>4. shorter = a \o b
  BY DEF RemoveAt
<1>. HIDE DEF a, b, shorter
<1>5. /\ shorter \in Seq(S) /\ Len(shorter) = Len(a) + Len(b)
      /\ \A i \in 1..(Len(a) + Len(b)) : shorter[i] = IF i <= Len(a) THEN a[i] ELSE b[i - Len(a)]
  BY <1>2, <1>3, <1>4, ConcatProperties
<1>6. Len(shorter) = Len(list) - 1 /\ Len(a) + Len(b) = Len(list) - 1
  BY <1>1, <1>2, <1>3, <1>5
<1>8. \A i \in 1..(Len(list) - 1) : shorter[i] = IF i <= k - 1 THEN a[i] ELSE b[i - (k - 1)]
  BY <1>2, <1>5, <1>6
<1>7. ASSUME NEW i \in 1..(Len(list) - 1)
      PROVE  shorter[i] = IF i < k THEN list[i] ELSE list[i + 1]
  <2>1. CASE i < k
    <3>1. i \in 1..(k - 1) /\ i <= k - 1
      BY <1>1, <2>1
    <3>. QED  BY <1>2, <1>8, <2>1, <3>1
  <2>2. CASE i >= k
    <3>1. PICK h \in 1..(Len(list) - k) : h = i - (k - 1)
      BY <1>1, <2>2
    <3>2. ~(i <= k - 1) /\ k + h = i + 1
      BY <1>1, <2>2, <3>1
    <3>. QED  BY <1>3, <1>8, <2>2, <3>1, <3>2
  <2>. QED  BY <2>1, <2>2
<1>. QED  BY <1>5, <1>6, <1>7 DEF shorter

LEMMA InsertedAt ==
  ASSUME NEW S, NEW list \in Seq(S), NEW p \in 1..(Len(list) + 1), NEW x \in S
  PROVE  /\ InsertAt(list, p, x) \in Seq(S) /\ Len(InsertAt(list, p, x)) = Len(list) + 1
         /\ \A i \in 1..(Len(list) + 1) :
              InsertAt(list, p, x)[i] = IF i < p THEN list[i] ELSE IF i = p THEN x ELSE list[i - 1]
<1>. DEFINE a == SubSeq(list, 1, p - 1)
            b == SubSeq(list, p, Len(list))
            c == <<x>>
            d == a \o c
            longer == InsertAt(list, p, x)
<1>1. Len(list) \in Nat
  BY LenProperties
<1>2. a \in Seq(S) /\ Len(a) = p - 1 /\ \A i \in 1..(p - 1) : a[i] = list[i]
  <2>1. \A j \in 1..(p - 1) : list[j] \in S
    BY <1>1, ElementOfSeq
  <2>. QED  BY <1>1, <2>1, SubSeqProperties
<1>3. b \in Seq(S) /\ Len(b) = Len(list) - p + 1 /\ \A i \in 1..(Len(list) - p + 1) : b[i] = list[p + i - 1]
  <2>1. \A j \in p..Len(list) : list[j] \in S
    BY <1>1, ElementOfSeq
  <2>. QED  BY <1>1, <2>1, SubSeqProperties
<1>4. c \in Seq(S) /\ Len(c) = 1 /\ c[1] = x
  OBVIOUS
<1>5. longer = d \o b
  BY DEF InsertAt
<1>. HIDE DEF a, b, c, longer
<1>6. d \in Seq(S) /\ Len(d) = p /\ \A i \in 1..p : d[i] = IF i < p THEN list[i] ELSE x
  <2>1. /\ d \in Seq(S) /\ Len(d) = Len(a) + Len(c)
        /\ \A i \in 1..(Len(a) + Len(c)) : d[i] = IF i <= Len(a) THEN a[i] ELSE c[i - Len(a)]
    BY <1>2, <1>4, ConcatProperties
  <2>. HIDE DEF d
  <2>. QED  BY <1>1, <1>2, <1>4, <2>1
<1>. HIDE DEF d
<1>7. /\ longer \in Seq(S) /\ Len(longer) = Len(d) + Len(b)
      /\ \A i \in 1..(Len(d) + Len(b)) : longer[i] = IF i <= Len(d) THEN d[i] ELSE b[i - Len(d)]
  BY <1>3, <1>5, <1>6, ConcatProperties
<1>8. Len(longer) = Len(list) + 1
  BY <1>1, <1>3, <1>6, <1>7
<1>9. ASSUME NEW i \in 1..Len(longer)
      PROVE  longer[i] = IF i < p THEN list[i] ELSE IF i = p THEN x ELSE list[i - 1]
  <2>1. CASE i <= p
    BY <1>1, <1>6, <1>7, <1>8, <2>1
  <2>2. CASE i > p
    <3>1. longer[i] = b[i - p] /\ i - p \in 1..(Len(list) - p + 1)
      BY <1>1, <1>3, <1>6, <1>7, <1>8, <2>2
    <3>2. p + (i - p) - 1 = i - 1
      OBVIOUS
    <3>. QED  BY <1>3, <2>2, <3>1, <3>2, SMTT(30)
  <2>. QED  BY <2>1, <2>2
<1>. QED  BY <1>7, <1>8, <1>9 DEF longer

\* Deleting by ID shortens the list by one node at most.
LEMMA DeletesNode ==
  ASSUME NEW S, NEW list \in Seq(S), NEW id
  PROVE  deleteIDLinkedCall(list, id) \in Seq(S) /\ deleteIDLinkedPassenger(list, id) \in Seq(S)
<1>1. DOMAIN list = 1..Len(list)
  BY LenProperties
<1>2. CASE \E i \in 1..Len(list) : list[i].ID = id
  <2>1. PICK k \in 1..Len(list) : /\ deleteIDLinkedCall(list, id) = RemoveAt(list, k)
                                  /\ deleteIDLinkedPassenger(list, id) = RemoveAt(list, k)
    BY <1>1, <1>2, SelectsNode
  <2>. QED  BY <2>1, RemovedAt
<1>3. CASE ~\E i \in 1..Len(list) : list[i].ID = id
  BY <1>3 DEF deleteIDLinkedCall, deleteIDLinkedPassenger, RemoveFirstMatch
<1>. QED  BY <1>2, <1>3

\* A direction is at most a building long.
LEMMA Ways ==
  /\ \A d \in -1..1 : d \in Directions
  /\ -1 \in Directions /\ 0 \in Directions /\ 1 \in Directions
  /\ \A d \in Directions : d \in Int
BY BuildingAssumption DEF Directions

\* What elevatorZoningProcess makes of a way home is no longer than the way.
LEMMA QuotientRange ==
  ASSUME NEW n \in Directions, NEW d \in Directions, d /= 0
  PROVE  Quotient(n, d) \in Directions
<1>1. PICK N \in Nat : N = NUM_OF_FLOOR
  BY BuildingAssumption
<1>2. n \in Int /\ d \in Int /\ -N <= n /\ n <= N
  BY <1>1 DEF Directions
<1>3. PICK length \in Nat \ {0} : length = (IF d < 0 THEN -d ELSE d)
  BY <1>2
<1>4. PICK m \in 0..N : m = (IF n < 0 THEN -n ELSE n)
  BY <1>2
<1>5. PICK q \in Int : q = m \div length
  BY <1>3, <1>4, QuotientRemainder
<1>6. q \in 0..N
  <2>1. PICK r \in 0..(length - 1) : m = length * q + r
    <3>1. m \in Int
      BY <1>4
    <3>2. m = length * (m \div length) + (m % length) /\ m % length \in 0..(length - 1)
      BY <3>1, QuotientRemainder
    <3>. QED  BY <1>5, <3>2
  <2>2. (q <= -1 => length * q <= -length) /\ (q >= 0 => length * q >= q)
    BY <1>3, <1>5
  <2>3. PICK k \in Int : k = length * q
    BY <1>3, <1>5
  <2>. QED  BY <1>1, <1>3, <1>4, <1>5, <2>1, <2>2, <2>3
<1>7. Quotient(n, d) = IF n < 0 THEN -q ELSE q
  BY <1>2, <1>3, <1>4, <1>5 DEF Quotient
<1>. QED  BY <1>1, <1>2, <1>6, <1>7 DEF Directions

LEMMA NullCallType == NULL_CALL \in Call /\ NULL_PASSENGER \in Passenger
BY Ways, ModelAssumption, BuildingAssumption DEF NULL_CALL, NULL_PASSENGER, initCall, initPassenger, Call, Passenger

\* A car that has no call of the ID answers NULL_CALL, a call all the same.
LEMMA CallWithIDType ==
  ASSUME NEW list \in Seq(Call), NEW id
  PROVE  CallWithID(list, id) \in Call
<1>1. CASE \E i \in DOMAIN list : list[i].ID = id
  BY <1>1, SelectsNode, ElementOfSeq
<1>2. CASE ~\E i \in DOMAIN list : list[i].ID = id
  BY <1>2, NullCallType DEF CallWithID
<1>. QED  BY <1>1, <1>2

\* The queue grows by one, wherever the call goes.
LEMMA InsertsCall ==
  ASSUME NEW list \in Seq(Call), NEW call \in Call, NEW queue \in insertPriorityCall(list, call)
  PROVE  queue \in Seq(Call) /\ Len(queue) = Len(list) + 1
<1>1. PICK p \in 1..(Len(list) + 1) : queue = InsertAt(list, p, call)
  BY DEF insertPriorityCall, InsertPositions
<1>. QED  BY <1>1, InsertedAt

LEMMA WithPassageType ==
  ASSUME NEW call \in Call, NEW direction, NEW current_floor
  PROVE  WithPassage(call, direction, current_floor) \in Call
<1>1. PassageFor(call, direction, current_floor) \in 0..3
  <2>. DEFINE p == PassageFor(call, direction, current_floor)
  <2>1. p = call.passage \/ p = 1 \/ p = 2 \/ p = 3
    BY DEF PassageFor
  <2>2. call.passage \in 0..3
    BY DEF Call
  <2>. QED  BY <2>1, <2>2
<1>. QED  BY <1>1 DEF WithPassage, Call

-----------------------------------------------------------------------------
(* The sorting of a queue leaves a queue of the same length. *)

\* The lists after the first rounds of the doubly nested loop.
Rounds(g, list, n, m) ==
  g = [k \in 0..m |-> IF k = 0 THEN {list}
                      ELSE SwapIfAfter(g[k - 1], ((k - 1) \div n) + 1, ((k - 1) % n) + 2)]

LEMMA RoundsExist ==
  ASSUME NEW list, NEW n \in Nat, NEW m \in Nat
  PROVE  \E g : Rounds(g, list, n, m)
<1>. DEFINE T == {k \in Nat : ~\E g : Rounds(g, list, n, k)}
<1>. SUFFICES ASSUME T /= {} PROVE FALSE
  OBVIOUS
<1>1. PICK k \in T : \A j \in T : k <= j
  BY LeastNumber
<1>2. CASE k = 0
  <2>. DEFINE g == [i \in 0..0 |-> {list}]
  <2>1. g = [i \in 0..0 |-> IF i = 0 THEN {list}
                  ELSE SwapIfAfter(g[i - 1], ((i - 1) \div n) + 1, ((i - 1) % n) + 2)]
    OBVIOUS
  <2>2. Rounds(g, list, n, 0)
    BY <2>1 DEF Rounds
  <2>. QED  BY <1>2, <2>2
<1>3. CASE k /= 0
  <2>1. k - 1 \in Nat /\ k - 1 \notin T
    BY <1>1, <1>3
  <2>2. PICK g : Rounds(g, list, n, k - 1)
    BY <2>1
  <2>. DEFINE Step(h, i) == SwapIfAfter(h[i - 1], ((i - 1) \div n) + 1, ((i - 1) % n) + 2)
              h == [i \in 0..k |-> IF i < k THEN g[i] ELSE Step(g, k)]
  <2>3. \A i \in 0..(k - 1) : g[i] = IF i = 0 THEN {list} ELSE Step(g, i)
    BY <2>2 DEF Rounds
  <2>4. \A i \in 0..k : i /= 0 => h[i - 1] = g[i - 1]
    BY <1>3
  <2>5. \A i \in 0..k : h[i] = IF i = 0 THEN {list} ELSE Step(h, i)
    <3>. TAKE i \in 0..k
    <3>1. CASE i = 0
      BY <1>3, <2>3, <3>1
    <3>2. CASE i /= 0
      <4>1. Step(h, i) = Step(g, i)
        BY <2>4, <3>2
      <4>2. CASE i < k
        <5>1. g[i] = Step(g, i)
          <6>. HIDE DEF Step
          <6>. QED  BY <2>3, <3>2, <4>2
        <5>. QED  BY <3>2, <4>1, <4>2, <5>1
      <4>3. CASE i = k
        BY <3>2, <4>1, <4>3
      <4>. QED  BY <4>2, <4>3
    <3>. QED  BY <3>1, <3>2
  <2>6. h = [i \in 0..k |-> IF i = 0 THEN {list} ELSE Step(h, i)]
    <3>1. h = [i \in 0..k |-> h[i]]
      OBVIOUS
    <3>. HIDE DEF h, Step
    <3>. QED  BY <2>5, <3>1
  <2>7. Rounds(h, list, n, k)
    BY <2>6, Zenon DEF Rounds
  <2>. HIDE DEF h
  <2>. QED  BY <2>7
<1>. QED  BY <1>2, <1>3

LEMMA RoundIndex ==
  ASSUME NEW n \in Nat, NEW k \in 1..(n * n)
  PROVE  ((k - 1) \div n) + 1 \in 1..n /\ ((k - 1) % n) + 2 \in 2..(n + 1)
<1>1. n > 0 /\ n * n \in Nat
  OBVIOUS
<1>. DEFINE q == (k - 1) \div n
            r == (k - 1) % n
<1>2. q \in Nat /\ r \in 0..(n - 1) /\ k - 1 = n * q + r
  BY <1>1
<1>. HIDE DEF q, r
<1>3. q < n
  <2>. SUFFICES ASSUME q >= n PROVE FALSE
    BY <1>2
  <2>1. n * q >= n * n
    BY <1>1, <1>2
  <2>2. n * q \in Nat
    BY <1>2
  <2>. QED  BY <1>1, <1>2, <2>1, <2>2
<1>. QED  BY <1>2, <1>3 DEF q, r

Lists(S, N) == {l \in Seq(S) : Len(l) = N}

LEMMA SwapKeepsLists ==
  ASSUME NEW S, NEW N \in Nat, NEW lists \in SUBSET Lists(S, N), NEW i \in 1..N, NEW j \in 1..N
  PROVE  SwapIfAfter(lists, i, j) \subseteq Lists(S, N)
<1>1. ASSUME NEW l \in lists PROVE SwapNodes(l, i, j) \in Lists(S, N)
  <2>1. l \in Seq(S) /\ Len(l) = N
    BY <1>1 DEF Lists
  <2>2. l[i] \in S /\ l[j] \in S
    BY <2>1, ElementOfSeq
  <2>. DEFINE a == [l EXCEPT ![i] = l[j]]
              x == l[i]
  <2>3. a \in Seq(S) /\ Len(a) = N
    BY <2>1, <2>2, ExceptSeq
  <2>4. SwapNodes(l, i, j) = [a EXCEPT ![j] = x]
    BY DEF SwapNodes
  <2>5. x \in S
    BY <2>2
  <2>. HIDE DEF a, x
  <2>6. [a EXCEPT ![j] = x] \in Seq(S) /\ Len([a EXCEPT ![j] = x]) = N
    BY <2>3, <2>5, ExceptSeq
  <2>. QED  BY <2>4, <2>6 DEF Lists
<1>2. ASSUME NEW s \in SwapIfAfter(lists, i, j) PROVE s \in lists \/ \E l \in lists : s = SwapNodes(l, i, j)
  BY <1>2 DEF SwapIfAfter
<1>. QED  BY <1>1, <1>2

LEMMA RoundsKeepLists ==
  ASSUME NEW S, NEW list \in Seq(S), NEW n \in Nat, Len(list) = n + 1,
         NEW g, Rounds(g, list, n, n * n)
  PROVE  \A k \in 0..(n * n) : g[k] \subseteq Lists(S, n + 1)
<1>. DEFINE L == Lists(S, n + 1)
            T == {k \in 0..(n * n) : ~(g[k] \subseteq L)}
<1>. SUFFICES ASSUME T /= {} PROVE FALSE
  OBVIOUS
<1>0. n * n \in Nat /\ T \in SUBSET Nat
  OBVIOUS
<1>1. PICK k \in T : \A j \in T : k <= j
  <2>. HIDE DEF T
  <2>. QED  BY <1>0, LeastNumber
<1>2. k \in 0..(n * n) /\ ~(g[k] \subseteq L)
  OBVIOUS
<1>3. g[k] = IF k = 0 THEN {list} ELSE SwapIfAfter(g[k - 1], ((k - 1) \div n) + 1, ((k - 1) % n) + 2)
  BY <1>2, Zenon DEF Rounds
<1>4. k /= 0
  <2>. SUFFICES ASSUME k = 0 PROVE FALSE
    OBVIOUS
  <2>1. g[k] = {list}
    BY <1>3
  <2>2. list \in L
    BY DEF Lists
  <2>. QED  BY <1>2, <2>1, <2>2
<1>5. k - 1 \in 0..(n * n) /\ k - 1 \notin T
  BY <1>0, <1>1, <1>2, <1>4
<1>6. g[k - 1] \in SUBSET L
  BY <1>5
<1>7. ((k - 1) \div n) + 1 \in 1..n /\ ((k - 1) % n) + 2 \in 2..(n + 1)
  <2>1. k \in 1..(n * n)
    BY <1>0, <1>2, <1>4
  <2>. QED  BY <2>1, RoundIndex
<1>8. PICK i \in 1..(n + 1), j \in 1..(n + 1) : g[k] = SwapIfAfter(g[k - 1], i, j)
  <2>1. ((k - 1) \div n) + 1 \in 1..(n + 1) /\ ((k - 1) % n) + 2 \in 1..(n + 1)
    BY <1>7
  <2>. QED  BY <1>3, <1>4, <2>1
<1>9. PICK lists \in SUBSET L : lists = g[k - 1]
  BY <1>6
<1>10. SwapIfAfter(lists, i, j) \subseteq L
  BY SwapKeepsLists
<1>. QED  BY <1>2, <1>8, <1>9, <1>10

\* The sorting leaves lists of the same calls in number.
LEMMA SortingType ==
  ASSUME NEW S, NEW list \in Seq(S), NEW sorted \in elevatorCallSequenceSorting(list)
  PROVE  sorted \in Seq(S) /\ Len(sorted) = Len(list)
<1>. DEFINE n == Len(list) - 1
            F == CHOOSE g : Rounds(g, list, n, n * n)
<1>1. CASE list = <<>>
  BY <1>1 DEF elevatorCallSequenceSorting
<1>2. CASE list /= <<>>
  <2>1. n \in Nat /\ Len(list) = n + 1 /\ n * n \in Nat
    BY <1>2, LenProperties, EmptySeq
  <2>2. Rounds(F, list, n, n * n)
    <3>. HIDE DEF n
    <3>. QED  BY <2>1, RoundsExist
  <2>3. elevatorCallSequenceSorting(list) = F[n * n]
    BY <1>2, Zenon DEF elevatorCallSequenceSorting, Rounds
  <2>. HIDE DEF F
  <2>4. n * n \in 0..(n * n) /\ \A k \in 0..(n * n) : F[k] \subseteq Lists(S, n + 1)
    <3>. HIDE DEF n
    <3>. QED  BY <2>1, <2>2, RoundsKeepLists
  <2>. QED  BY <2>1, <2>3, <2>4 DEF Lists
<1>. QED  BY <1>1, <1>2

LEMMA ReassignType ==
  ASSUME NEW list \in Seq(Call), NEW direction, NEW current_floor,
         NEW queue \in reassignPassagePriority(list, direction, current_floor)
  PROVE  queue \in Seq(Call) /\ Len(queue) = Len(list)
<1>. DEFINE again == [i \in DOMAIN list |-> IF list[i].isSpecialCall THEN list[i]
                                       ELSE WithPassage(list[i], direction, current_floor)]
<1>1. DOMAIN list = 1..Len(list) /\ Len(list) \in Nat /\ \A i \in DOMAIN list : list[i] \in Call
  BY LenProperties, ElementOfSeq
<1>2. \A i \in 1..Len(list) : again[i] \in Call
  BY <1>1, WithPassageType
<1>3. again \in Seq(Call) /\ Len(again) = Len(list)
  <2>1. again \in [1..Len(list) -> Call]
    BY <1>1, <1>2
  <2>. HIDE DEF again
  <2>. QED  BY <1>1, <2>1
<1>4. queue \in elevatorCallSequenceSorting(again)
  BY DEF reassignPassagePriority
<1>. HIDE DEF again
<1>. QED  BY <1>3, <1>4, SortingType

-----------------------------------------------------------------------------
(* The types of the controller. *)

\* Every car has a home.  elevatorZoningProcess rounds the number of floors of a
\* zone up: in a building of 4 floors and 3 cars the last one would be sent to
\* floor 5.
HomesExist == algorithm = 4 => \A e \in Elevators : HomeFloor(e) \in Floors

Floor == [passengers : Seq(Passenger), length : 0..MaxPassengers,
          passengers_unchecked : [1..MaxPassengers -> Passenger]]

Simulation == [pc : {"loop", "exited"} \cup AsleepAtStop \cup AwakeAtStop, target : Call,
               lift_call_count : Nat, floor_call_count : Nat, deletedFloorCallList : Seq(Call)]

SemaphoreTypes == semaphoreElevator \in [Elevators -> Nat] /\ semaphoreFloor \in [Floors -> Nat]

SchedulerTypes ==
  scheduler \in [pc : {"scan", "shrink", "lock"}, start : Floors, new_passenger : Passenger,
                 locked : 0..NUM_OF_ELEVATOR, count : Elevators]

GeneratorTypes ==
  generator \in [pc : {"menu", "floor", "store"}, new_passenger : Passenger,
                 index : 0..MaxPassengers, passenger_id : 1..(MaxPassengers + 1)]

ParkingPlaces == {"watch", "test", "subtract", "divide", "insert", "sleep", "faulted"}

\* Only two of the policies send cars home, and only one divides.
ParkingTypes ==
  /\ parking \in [Elevators -> [pc : ParkingPlaces, call : Call]]
  /\ \A e \in Elevators : parking[e].pc /= "watch" => algorithm \in {2, 4}
  /\ \A e \in Elevators : parking[e].pc \in {"subtract", "divide"} => algorithm = 4

GpioTypes == gpio \in [next : 0..NUM_OF_ELEVATOR, edges : 0..MaxButtonEdges]

\* At a stop the calls still to be taken off are in the queue; the process that
\* has taken its floor's semaphore has a call in hand.
Fits(sim, car) ==
  /\ sim.pc \in {"unload", "unloading"}
       => sim.lift_call_count + sim.floor_call_count <= Len(car.callSequence)
  /\ sim.pc = "onfloor" => sim.deletedFloorCallList /= <<>>

\* The scheduler that has shifted the nodes has one to take off the length.
Shrinks == scheduler.pc = "shrink" => floor[Here].length >= 1

\* No floor has more new passengers than were created.
Created ==
  /\ \A f \in Floors : floor[f].length <= generator.passenger_id - 1 - AsInt(generator.pc = "floor")
  /\ generator.pc /= "menu" => GeneratorFloor \in Floors

TypeInv ==
  /\ SemaphoreTypes
  /\ elevator \in [Elevators -> Car]
  /\ floor \in [Floors -> Floor]
  /\ simulation \in [Elevators -> Simulation]
  /\ SchedulerTypes /\ GeneratorTypes /\ ParkingTypes /\ GpioTypes
  /\ \A e \in Elevators : Fits(simulation[e], elevator[e])
  /\ Shrinks /\ Created

LEMMA TypeInit == Init => TypeInv
<1>. SUFFICES ASSUME Init PROVE TypeInv
  OBVIOUS
<1>. USE BuildingAssumption, ModelAssumption, NullCallType
<1>1. InitElevator \in Car
  BY Ways DEF InitElevator, Car, Floors
<1>2. InitFloor \in Floor
  BY DEF InitFloor, Floor
<1>3. InitSimulation \in Simulation
  BY DEF InitSimulation, Simulation
<1>4. SchedulerTypes /\ Shrinks
  BY DEF Init, InitScheduler, SchedulerTypes, Shrinks, Floors, Elevators
<1>5. GeneratorTypes /\ ParkingTypes /\ GpioTypes
  BY DEF Init, InitGenerator, GeneratorTypes, ParkingTypes, ParkingPlaces, GpioTypes
<1>6. Created
  BY DEF Init, InitGenerator, InitFloor, Created, AsInt
<1>7. \A e \in Elevators : Fits(simulation[e], elevator[e])
  BY DEF Init, InitSimulation, Fits
<1>8. SemaphoreTypes
  BY DEF Init, SemaphoreTypes
<1>. QED  BY <1>1, <1>2, <1>3, <1>4, <1>5, <1>6, <1>7, <1>8 DEF Init, TypeInv

\* What is left to show of a step of a car: of its structure, its process and
\* the semaphores.
LEMMA CarFrame ==
  ASSUME TypeInv, NEW e \in Elevators, NEW car \in Car, NEW sim \in Simulation, Fits(sim, car),
         elevator' = [elevator EXCEPT ![e] = car], simulation' = [simulation EXCEPT ![e] = sim],
         SemaphoreTypes', floor' \in [Floors -> Floor],
         \A f \in Floors : floor'[f].length = floor[f].length,
         ParkingTypes', UNCHANGED <<scheduler, generator, gpio>>
  PROVE  TypeInv'
<1>1. elevator' \in [Elevators -> Car] /\ simulation' \in [Elevators -> Simulation]
  BY DEF TypeInv
<1>2. SchedulerTypes' /\ GeneratorTypes' /\ GpioTypes'
  BY DEF TypeInv, SchedulerTypes, GeneratorTypes, GpioTypes
<1>3. ASSUME NEW d \in Elevators PROVE Fits(simulation'[d], elevator'[d])
  <2>1. CASE d = e
    <3>1. simulation'[d] = sim /\ elevator'[d] = car
      BY <2>1 DEF TypeInv
    <3>. QED  BY <3>1
  <2>2. CASE d /= e
    <3>1. simulation'[d] = simulation[d] /\ elevator'[d] = elevator[d]
      BY <2>2 DEF TypeInv
    <3>. QED  BY <3>1 DEF TypeInv
  <2>. QED  BY <2>1, <2>2
<1>4. Shrinks'
  <2>1. Here \in Floors
    BY DEF TypeInv, SchedulerTypes, Here
  <2>. QED  BY <2>1 DEF TypeInv, Shrinks, Here
<1>5. Created'
  BY DEF TypeInv, Created, GeneratorFloor
<1>. QED  BY <1>1, <1>2, <1>3, <1>4, <1>5 DEF TypeInv

LEMMA HeadedType ==
  ASSUME NEW e \in Elevators, elevator[e] \in Car, HasTarget(e), NEW car \in Headed(e)
  PROVE  car \in Car
<1>. DEFINE heading == Order(Target(e).floor, Roused(e).current_floor)
<1>1. PICK r \in Car : r = elevator[e]
  OBVIOUS
<1>2. Target(e) \in Call
  BY <1>1, HeadTailProperties DEF HasTarget, Target, Car
<1>3. Target(e).direction \in Directions /\ heading \in Directions
  BY <1>2, Ways DEF Call, Order
<1>4. Roused(e) \in Car
  <2>1. \A d \in Directions : [r EXCEPT !.idle = FALSE, !.direction = d] \in Car
    BY DEF Car
  <2>2. Roused(e) = [r EXCEPT !.idle = FALSE, !.direction = IF r.direction = 0 THEN Target(e).direction ELSE r.direction]
    BY <1>1 DEF Roused, Car
  <2>3. r.direction \in Directions
    BY DEF Car
  <2>. QED  BY <1>3, <2>1, <2>2, <2>3
<1>5. PICK a \in Car : a = Roused(e)
  BY <1>4
<1>6. PICK h \in Directions : h = heading
  BY <1>3
<1>7. car = a \/ \E s \in reassignPassagePriority(a.callSequence, h, a.current_floor) :
                    car = [[a EXCEPT !.direction = h] EXCEPT !.callSequence = s]
  BY <1>5, <1>6 DEF Headed
<1>8. ASSUME NEW s \in reassignPassagePriority(a.callSequence, h, a.current_floor)
      PROVE  [[a EXCEPT !.direction = h] EXCEPT !.callSequence = s] \in Car
  <2>1. s \in Seq(Call)
    BY ReassignType DEF Car
  <2>. QED  BY <2>1 DEF Car
<1>. QED  BY <1>7, <1>8

\* No more calls are counted at a stop than the queue holds.
LEMMA CountsServed ==
  ASSUME NEW e \in Elevators, elevator[e] \in Car
  PROVE  /\ Served(e, FALSE) \in Nat /\ FloorCallCount(e) \in Nat
         /\ Served(e, FALSE) + FloorCallCount(e) <= Len(elevator[e].callSequence)
<1>. DEFINE queue == elevator[e].callSequence
            At(kind) == {i \in DOMAIN queue : /\ queue[i].direction = simulation[e].target.direction
                                              /\ queue[i].floor = simulation[e].target.floor
                                              /\ queue[i].isFloorCall = kind}
            lifts == At(FALSE)
            floors == At(TRUE)
            both == lifts \cup floors
            all == 1..Len(queue)
<1>1. queue \in Seq(Call) /\ Len(queue) \in Nat /\ DOMAIN queue = all
  BY DEF Car
<1>2. IsFiniteSet(all) /\ Cardinality(all) = Len(queue)
  <2>. HIDE DEF queue
  <2>. QED  BY <1>1, FS_Interval
<1>3. lifts \in SUBSET all /\ floors \in SUBSET all /\ both \in SUBSET all /\ lifts \cap floors = {}
  BY <1>1
<1>4. Served(e, FALSE) = Cardinality(lifts) /\ Served(e, TRUE) = Cardinality(floors)
  BY DEF Served
<1>. HIDE DEF lifts, floors, all, queue
<1>5. /\ IsFiniteSet(lifts) /\ IsFiniteSet(floors) /\ Cardinality(both) <= Len(queue)
      /\ Cardinality(lifts) \in Nat /\ Cardinality(floors) \in Nat /\ Cardinality(both) \in Nat
  <2>1. IsFiniteSet(lifts) /\ IsFiniteSet(floors) /\ IsFiniteSet(both) /\ Cardinality(both) <= Len(queue)
    BY <1>2, <1>3, FS_Subset
  <2>. QED  BY <2>1, FS_CardinalityType
<1>6. Cardinality(both) = Cardinality(lifts) + Cardinality(floors)
  <2>1. Cardinality(lifts \cap floors) = 0
    BY <1>3, FS_EmptySet
  <2>2. Cardinality(both) = Cardinality(lifts) + Cardinality(floors) - Cardinality(lifts \cap floors)
    BY <1>5, FS_Union
  <2>. HIDE DEF both
  <2>. QED  BY <1>5, <2>1, <2>2
<1>7. FloorCallCount(e) \in Nat /\ FloorCallCount(e) <= Served(e, TRUE)
  <2>. DEFINE free == CAPACITY - elevator[e].load - Served(e, FALSE)
  <2>1. free \in Int /\ Served(e, TRUE) \in Nat
    <3>1. PICK load \in Nat : load = elevator[e].load
      BY ModelAssumption DEF Car
    <3>2. PICK a \in Nat, b \in Nat : a = Served(e, FALSE) /\ b = Served(e, TRUE)
      BY <1>4, <1>5
    <3>3. CAPACITY \in Nat
      BY ModelAssumption
    <3>4. CAPACITY - load - a \in Int
      BY <3>3
    <3>. QED  BY <3>1, <3>2, <3>4
  <2>2. FloorCallCount(e) = IF free >= 0 THEN Min({Served(e, TRUE), free}) ELSE Served(e, TRUE)
    BY DEF FloorCallCount
  <2>. HIDE DEF free
  <2>3. PICK s \in Nat, r \in Int : s = Served(e, TRUE) /\ r = free
    BY <2>1
  <2>4. r >= 0 => Min({s, r}) \in {s, r} /\ Min({s, r}) <= s
    <3>1. r >= 0 => \E x \in {s, r} : \A y \in {s, r} : x <= y
      OBVIOUS
    <3>. QED  BY <3>1 DEF Min
  <2>5. CASE r >= 0
    <3>1. FloorCallCount(e) = Min({s, r})
      BY <2>2, <2>3, <2>5
    <3>2. PICK m \in {s, r} : m = Min({s, r}) /\ m <= s
      BY <2>4, <2>5
    <3>3. m \in Nat
      BY <2>5
    <3>. QED  BY <2>3, <3>1, <3>2, <3>3
  <2>6. CASE ~(r >= 0)
    <3>1. ~(free >= 0)
      BY <2>3, <2>6
    <3>2. FloorCallCount(e) = Served(e, TRUE)
      BY <2>2, <3>1
    <3>3. s <= s
      OBVIOUS
    <3>. QED  BY <2>3, <3>2, <3>3
  <2>. QED  BY <2>5, <2>6
<1>8. PICK a \in Nat, b \in Nat, c \in Nat :
        a = Served(e, FALSE) /\ b = Served(e, TRUE) /\ c = FloorCallCount(e)
  BY <1>4, <1>5, <1>7
<1>9. a + b <= Len(queue) /\ c <= b /\ Len(queue) \in Nat
  BY <1>1, <1>4, <1>5, <1>6, <1>7, <1>8
<1>10. a + c <= Len(queue)
  BY <1>9
<1>. QED  BY <1>8, <1>10 DEF queue

LEMMA CarStepType ==
  ASSUME TypeInv, NEW e \in Elevators, SimulationStep(e)
  PROVE  TypeInv'
<1>. PICK car \in Car : car = elevator[e]
  BY DEF TypeInv
<1>. PICK sim \in Simulation : sim = simulation[e]
  BY DEF TypeInv
<1>0. /\ elevator \in [Elevators -> Car] /\ simulation \in [Elevators -> Simulation]
      /\ floor \in [Floors -> Floor] /\ car.current_floor \in Floors
      /\ Fits(sim, car)
      /\ SemaphoreTypes /\ ParkingTypes
  BY DEF TypeInv, Car
<1>1. elevator = [elevator EXCEPT ![e] = car] /\ simulation = [simulation EXCEPT ![e] = sim]
  BY <1>0
<1>2. \A d \in Elevators : /\ Acquired(semaphoreElevator, d) \in [Elevators -> Int]
                           /\ Up(semaphoreElevator, d) => Acquired(semaphoreElevator, d) \in [Elevators -> Nat]
                           /\ Released(semaphoreElevator, d) \in [Elevators -> Nat]
  BY <1>0 DEF SemaphoreTypes, Up, Acquired, Released
<1>3. \A f \in Floors : /\ Up(semaphoreFloor, f) => Acquired(semaphoreFloor, f) \in [Floors -> Nat]
                        /\ Released(semaphoreFloor, f) \in [Floors -> Nat]
  BY <1>0 DEF SemaphoreTypes, Up, Acquired, Released
<1>4. CASE SimulationIdle(e)
  <2>1. PICK c \in Car : c = [car EXCEPT !.idle = TRUE, !.direction = 0]
    <3>1. \A d \in Directions : [car EXCEPT !.idle = TRUE, !.direction = d] \in Car
      BY DEF Car
    <3>. QED  BY <3>1, Ways
  <2>2. elevator' = [elevator EXCEPT ![e] = c]
    BY <1>0, <1>4, <2>1 DEF SimulationIdle
  <2>3. Fits(sim, c)
    BY <1>4 DEF SimulationIdle, AtLoop, Fits
  <2>. QED
    BY <1>0, <1>1, <1>4, <2>2, <2>3, CarFrame DEF SimulationIdle, semaphores, SemaphoreTypes, ParkingTypes
<1>5. CASE SimulationHead(e) \/ SimulationMove(e) \/ SimulationExit(e)
  <2>1. OnTransition(e) /\ HasTarget(e) /\ sim.pc = "loop" /\ floor' = floor /\ parking' = parking
        /\ UNCHANGED <<scheduler, generator, gpio>>
    BY <1>5 DEF SimulationHead, SimulationMove, SimulationExit, OnTransition, AtLoop
  <2>2. PICK c \in Headed(e) :
          \/ elevator' = [elevator EXCEPT ![e] = c]
          \/ /\ c.current_floor + c.direction \in Floors
             /\ elevator' = [elevator EXCEPT ![e] = [c EXCEPT !.current_floor = @ + c.direction]]
    BY <1>5, Zenon DEF SimulationHead, SimulationMove, SimulationExit
  <2>3. c \in Car
    BY <1>0, <2>1, HeadedType
  <2>4. PICK k \in Car : elevator' = [elevator EXCEPT ![e] = k]
    <3>1. c.current_floor + c.direction \in Floors
            => [c EXCEPT !.current_floor = @ + c.direction] \in Car
      BY <2>3 DEF Car
    <3>. QED  BY <2>2, <2>3, <3>1
  <2>5. PICK q \in Simulation : /\ simulation' = [simulation EXCEPT ![e] = q]
                                /\ q.pc \in {"loop", "exited"}
    <3>1. CASE SimulationExit(e)
      <4>1. [sim EXCEPT !.pc = "exited"] \in Simulation /\ [sim EXCEPT !.pc = "exited"].pc = "exited"
        BY DEF Simulation
      <4>2. simulation' = [simulation EXCEPT ![e] = [sim EXCEPT !.pc = "exited"]]
        BY <1>0, <3>1 DEF SimulationExit
      <4>. QED  BY <4>1, <4>2
    <3>2. CASE SimulationHead(e) \/ SimulationMove(e)
      BY <1>1, <2>1, <3>2 DEF SimulationHead, SimulationMove
    <3>. QED  BY <1>5, <3>1, <3>2
  <2>6. Fits(q, k)
    BY <2>5 DEF Fits
  <2>7. SemaphoreTypes'
    BY <1>0, <1>3, <1>5 DEF SimulationHead, SimulationMove, SimulationExit, SemaphoreTypes, semaphores
  <2>. QED  BY <1>0, <2>1, <2>4, <2>5, <2>6, <2>7, CarFrame DEF ParkingTypes
<1>6. CASE SimulationStop(e)
  <2>1. Roused(e) \in Car
    <3>1. Target(e) \in Call /\ Target(e).direction \in Directions
      <4>1. Target(e) \in Call
        BY <1>6, HeadTailProperties DEF SimulationStop, HasTarget, Target, Car
      <4>. QED  BY <4>1 DEF Call
    <3>2. \A d \in Directions : [car EXCEPT !.idle = FALSE, !.direction = d] \in Car
      BY DEF Car
    <3>3. Roused(e) = [car EXCEPT !.idle = FALSE, !.direction = IF car.direction = 0 THEN Target(e).direction ELSE car.direction]
      BY DEF Roused, Car
    <3>4. car.direction \in Directions
      BY DEF Car
    <3>. QED  BY <3>1, <3>2, <3>3, <3>4
  <2>2. PICK c \in Car : elevator' = [elevator EXCEPT ![e] = c]
    BY <1>6, <2>1 DEF SimulationStop
  <2>3. Target(e) \in Call
    BY <1>6, HeadTailProperties DEF SimulationStop, HasTarget, Target, Car
  <2>4. PICK q \in Simulation : q = [sim EXCEPT !.pc = "opening", !.target = Target(e)]
    BY <2>3 DEF Simulation, AsleepAtStop
  <2>5. simulation' = [simulation EXCEPT ![e] = q]
    BY <1>0, <1>6, <2>4 DEF SimulationStop
  <2>6. Fits(q, c)
    BY <2>4 DEF Fits, Simulation
  <2>. QED
    BY <1>0, <1>6, <2>2, <2>5, <2>6, CarFrame DEF SimulationStop, semaphores, SemaphoreTypes, ParkingTypes
<1>7. CASE SimulationCount(e)
  <2>1. PICK l \in Nat, n \in Nat : l = Served(e, FALSE) /\ n = FloorCallCount(e)
    BY CountsServed
  <2>2. PICK q \in Simulation : q = [sim EXCEPT !.pc = "unload", !.lift_call_count = l, !.floor_call_count = n]
    BY DEF Simulation, AwakeAtStop
  <2>3. simulation' = [simulation EXCEPT ![e] = q]
    BY <1>0, <1>7, <2>1, <2>2 DEF SimulationCount
  <2>4. Fits(q, car)
    <3>1. q.pc = "unload" /\ q.lift_call_count = l /\ q.floor_call_count = n
      BY <2>2 DEF Simulation
    <3>2. l + n <= Len(car.callSequence)
      BY <2>1, CountsServed
    <3>. QED  BY <3>1, <3>2 DEF Fits
  <2>5. SemaphoreTypes'
    BY <1>0, <1>2, <1>7 DEF SimulationCount, SemaphoreTypes
  <2>. QED  BY <1>0, <1>1, <1>7, <2>3, <2>4, <2>5, CarFrame DEF SimulationCount, ParkingTypes
<1>8. CASE SimulationUnload(e)
  <2>. DEFINE head_call == FirstCall(car.callSequence)
  <2>1. /\ sim.pc = "unload" /\ sim.lift_call_count > 0 /\ sim.lift_call_count \in Nat
        /\ sim.floor_call_count \in Nat /\ car.callSequence \in Seq(Call)
        /\ sim.lift_call_count + sim.floor_call_count <= Len(car.callSequence)
    BY <1>0, <1>8 DEF SimulationUnload, Fits, Simulation, Car
  <2>2. PICK queue \in Seq(Call) : /\ queue = deleteBeginLinkedCall(car.callSequence)
                                   /\ Len(queue) = Len(car.callSequence) - 1
    <3>1. car.callSequence /= <<>>
      BY <2>1, EmptySeq
    <3>. QED  BY <2>1, <3>1, HeadTailProperties DEF deleteBeginLinkedCall
  <2>3. PICK load \in 0..CAPACITY : load = LoadAfter(car.load, head_call)
    BY ModelAssumption DEF LoadAfter, Car
  <2>4. PICK c \in Car : c = [car EXCEPT !.callSequence = queue, !.load = load]
    BY DEF Car
  <2>5. elevator' = [elevator EXCEPT ![e] = c]
    BY <1>0, <1>8, <2>2, <2>3, <2>4 DEF SimulationUnload, Car
  <2>6. PICK pc \in {"unload", "unloading"} : pc = IF head_call.isSpecialCall THEN sim.pc ELSE "unloading"
    BY <2>1
  <2>7. PICK n \in Nat : n = sim.lift_call_count - 1
    BY <2>1
  <2>8. PICK q \in Simulation : q = [sim EXCEPT !.lift_call_count = n, !.pc = pc]
    BY DEF Simulation, AwakeAtStop, AsleepAtStop
  <2>9. simulation' = [simulation EXCEPT ![e] = q]
    BY <1>0, <1>8, <2>6, <2>7, <2>8 DEF SimulationUnload, Simulation
  <2>10. Fits(q, c)
    <3>1. /\ q.pc = pc /\ q.lift_call_count = n /\ q.floor_call_count = sim.floor_call_count
          /\ c.callSequence = queue
      BY <2>4, <2>8 DEF Simulation, Car
    <3>2. n + sim.floor_call_count <= Len(queue)
      <4>1. PICK l \in Nat, a \in Nat, b \in Nat :
              l = sim.lift_call_count /\ a = sim.floor_call_count /\ b = Len(car.callSequence)
        BY <2>1, LenProperties
      <4>2. l + a <= b /\ n = l - 1 /\ Len(queue) = b - 1
        BY <2>1, <2>2, <2>7, <4>1
      <4>3. n + a <= Len(queue)
        BY <4>2
      <4>. QED  BY <4>1, <4>3
    <3>. QED  BY <3>1, <3>2 DEF Fits
  <2>11. SemaphoreTypes'
    BY <1>0, <1>2, <1>8 DEF SimulationUnload, SemaphoreTypes
  <2>. QED  BY <1>0, <1>8, <2>5, <2>9, <2>10, <2>11, CarFrame DEF SimulationUnload, ParkingTypes
<1>9. CASE SimulationCollect(e)
  <2>. DEFINE queue == car.callSequence
              n == sim.floor_call_count
  <2>1. queue \in Seq(Call) /\ Len(queue) \in Nat /\ n \in Nat /\ n <= Len(queue)
    <3>1. /\ sim.pc = "unload" /\ sim.lift_call_count \in Nat /\ sim.floor_call_count \in Nat
          /\ car.callSequence \in Seq(Call)
          /\ sim.lift_call_count + sim.floor_call_count <= Len(car.callSequence)
      BY <1>0, <1>9 DEF SimulationCollect, Fits, Simulation, Car
    <3>. QED  BY <3>1, LenProperties
  <2>2. PICK rest \in Seq(Call) : rest = SubSeq(queue, n + 1, Len(queue))
    <3>. HIDE DEF queue, n
    <3>1. \A j \in (n + 1)..Len(queue) : queue[j] \in Call
      BY <2>1, ElementOfSeq
    <3>2. n + 1 \in Int /\ Len(queue) \in Int
      BY <2>1
    <3>3. SubSeq(queue, n + 1, Len(queue)) \in Seq(Call)
      BY <3>1, <3>2, SubSeqProperties
    <3>. QED  BY <3>3
  <2>3. PICK first \in Seq(Call) : first = SubSeq(queue, 1, n)
    <3>. HIDE DEF queue, n
    <3>1. \A j \in 1..n : queue[j] \in Call
      BY <2>1, ElementOfSeq
    <3>2. SubSeq(queue, 1, n) \in Seq(Call)
      BY <2>1, <3>1, SubSeqProperties
    <3>. QED  BY <3>2
  <2>4. PICK c \in Car : c = [car EXCEPT !.callSequence = rest]
    BY DEF Car
  <2>5. elevator' = [elevator EXCEPT ![e] = c]
    BY <1>0, <1>9, <2>2, <2>4 DEF SimulationCollect, Car
  <2>6. PICK q \in Simulation : q = [sim EXCEPT !.pc = "board", !.floor_call_count = 0, !.deletedFloorCallList = first]
    BY DEF Simulation, AwakeAtStop
  <2>7. simulation' = [simulation EXCEPT ![e] = q]
    BY <1>0, <1>9, <2>3, <2>6 DEF SimulationCollect, Simulation
  <2>8. Fits(q, c)
    BY <2>6 DEF Fits, Simulation
  <2>. QED
    BY <1>0, <1>9, <2>5, <2>7, <2>8, CarFrame DEF SimulationCollect, semaphores, SemaphoreTypes, ParkingTypes
<1>10. CASE SimulationEnterFloor(e)
  <2>1. PICK q \in Simulation : q = [sim EXCEPT !.pc = "onfloor"]
    BY DEF Simulation, AwakeAtStop
  <2>2. simulation' = [simulation EXCEPT ![e] = q]
    BY <1>0, <1>10, <2>1 DEF SimulationEnterFloor, Simulation
  <2>3. Fits(q, car)
    BY <1>10, <2>1 DEF SimulationEnterFloor, Fits, Simulation
  <2>4. SemaphoreTypes'
    BY <1>0, <1>3, <1>10 DEF SimulationEnterFloor, SemaphoreTypes
  <2>. QED  BY <1>0, <1>1, <1>10, <2>2, <2>3, <2>4, CarFrame DEF SimulationEnterFloor, ParkingTypes
<1>11. CASE SimulationAccept(e)
  <2>. DEFINE id == Head(sim.deletedFloorCallList).ID
              here == car.current_floor
  <2>1. sim.deletedFloorCallList \in Seq(Call) /\ sim.deletedFloorCallList /= <<>>
    BY <1>0, <1>11 DEF SimulationAccept, Fits, Simulation
  <2>2. PICK rest \in Seq(Call) : rest = Tail(sim.deletedFloorCallList)
    BY <2>1, HeadTailProperties
  <2>3. PICK k : k = id
    OBVIOUS
  <2>4. PICK accepted \in Call : accepted = [CallWithID(car.liftCalls, k) EXCEPT !.passage = 1]
    <3>1. PICK lift \in Call : lift = CallWithID(car.liftCalls, k)
      BY CallWithIDType DEF Car
    <3>2. \A p \in 0..3 : [lift EXCEPT !.passage = p] \in Call
      BY DEF Call
    <3>. QED  BY <3>1, <3>2
  <2>5. PICK queue \in insertPriorityCall(car.callSequence, accepted) :
          elevator' = [elevator EXCEPT
             ![e].load = IF @ < CAPACITY THEN @ + 1 ELSE @,
             ![e].liftCalls = deleteIDLinkedCall(@, k),
             ![e].callSequence = queue]
    BY <1>11, <2>3, <2>4, Zenon DEF SimulationAccept
  <2>6. queue \in Seq(Call)
    BY InsertsCall DEF Car
  <2>7. PICK load \in 0..CAPACITY : load = IF car.load < CAPACITY THEN car.load + 1 ELSE car.load
    BY ModelAssumption DEF Car
  <2>8. PICK lifts \in Seq(Call) : lifts = deleteIDLinkedCall(car.liftCalls, k)
    BY DeletesNode DEF Car
  <2>9. PICK c \in Car : c = [car EXCEPT !.load = load, !.liftCalls = lifts, !.callSequence = queue]
    BY <2>6 DEF Car
  <2>10. elevator' = [elevator EXCEPT ![e] = c]
    BY <1>0, <2>5, <2>7, <2>8, <2>9 DEF Car
  <2>11. PICK q \in Simulation : q = [sim EXCEPT !.pc = "loading", !.deletedFloorCallList = rest]
    BY DEF Simulation, AsleepAtStop
  <2>12. simulation' = [simulation EXCEPT ![e] = q]
    BY <1>0, <1>11, <2>2, <2>11 DEF SimulationAccept, Simulation
  <2>13. Fits(q, c)
    BY <2>11 DEF Fits, Simulation
  <2>14. SemaphoreTypes'
    BY <1>0, <1>2, <1>3, <1>11 DEF SimulationAccept, SemaphoreTypes
  <2>15. floor' \in [Floors -> Floor] /\ \A f \in Floors : floor'[f].length = floor[f].length
    <3>1. PICK g \in Floor : g = floor[here]
      BY <1>0
    <3>2. PICK p \in Seq(Passenger) : p = deleteIDLinkedPassenger(g.passengers, k)
      BY DeletesNode DEF Floor
    <3>3. [g EXCEPT !.passengers = p] \in Floor /\ [g EXCEPT !.passengers = p].length = g.length
      BY DEF Floor
    <3>4. floor' = [floor EXCEPT ![here] = [g EXCEPT !.passengers = p]]
      BY <1>0, <1>11, <2>3, <3>1, <3>2 DEF SimulationAccept, Floor
    <3>. QED  BY <1>0, <3>1, <3>3, <3>4
  <2>. QED  BY <1>0, <1>11, <2>10, <2>12, <2>13, <2>14, <2>15, CarFrame DEF SimulationAccept, ParkingTypes
<1>12. CASE SimulationAwake(e)
  <2>1. PICK pc \in {"unload", "board"} : pc = IF sim.pc = "unloading" THEN "unload" ELSE "board"
    OBVIOUS
  <2>2. PICK q \in Simulation : q = [sim EXCEPT !.pc = pc]
    BY DEF Simulation, AwakeAtStop
  <2>3. simulation' = [simulation EXCEPT ![e] = q]
    BY <1>0, <1>12, <2>1, <2>2 DEF SimulationAwake, Simulation
  <2>4. Fits(q, car)
    BY <1>0, <2>1, <2>2 DEF Fits, Simulation
  <2>5. SemaphoreTypes'
    BY <1>0, <1>2, <1>12 DEF SimulationAwake, SemaphoreTypes
  <2>. QED  BY <1>0, <1>1, <1>12, <2>3, <2>4, <2>5, CarFrame DEF SimulationAwake, ParkingTypes
<1>13. CASE SimulationClose(e)
  <2>1. PICK q \in Simulation : q = [sim EXCEPT !.pc = "closing", !.target = NULL_CALL]
    BY NullCallType DEF Simulation, AsleepAtStop
  <2>2. simulation' = [simulation EXCEPT ![e] = q]
    BY <1>0, <1>13, <2>1 DEF SimulationClose, Simulation
  <2>3. Fits(q, car)
    BY <2>1 DEF Fits, Simulation
  <2>4. SemaphoreTypes'
    BY <1>0, <1>2, <1>13 DEF SimulationClose, SemaphoreTypes
  <2>. QED  BY <1>0, <1>1, <1>13, <2>2, <2>3, <2>4, CarFrame DEF SimulationClose, ParkingTypes
<1>14. CASE SimulationLeave(e)
  <2>1. PICK q \in Simulation : q = [sim EXCEPT !.pc = "loop"]
    BY DEF Simulation
  <2>2. simulation' = [simulation EXCEPT ![e] = q]
    BY <1>0, <1>14, <2>1 DEF SimulationLeave, Simulation
  <2>3. Fits(q, car)
    BY <2>1 DEF Fits, Simulation
  <2>. QED
    BY <1>0, <1>1, <1>14, <2>2, <2>3, CarFrame DEF SimulationLeave, ParkingTypes, SemaphoreTypes, semaphores
<1>. QED
  BY <1>4, <1>5, <1>6, <1>7, <1>8, <1>9, <1>10, <1>11, <1>12, <1>13, <1>14 DEF SimulationStep

LEMMA QueueGrows ==
  ASSUME NEW sim, NEW car, NEW c, sim.lift_call_count \in Nat, sim.floor_call_count \in Nat,
         Len(car.callSequence) \in Nat, Len(c.callSequence) = Len(car.callSequence) + 1, Fits(sim, car)
  PROVE  Fits(sim, c)
BY DEF Fits

LEMMA AssignType ==
  ASSUME TypeInv, NEW e \in Elevators, Assign(e)
  PROVE  TypeInv'
<1>1. PICK car \in Car : car = elevator[e]
  BY DEF TypeInv
<1>2. PICK sim \in Simulation : sim = simulation[e]
  BY DEF TypeInv
<1>3. /\ elevator \in [Elevators -> Car] /\ simulation \in [Elevators -> Simulation]
      /\ floor \in [Floors -> Floor] /\ SemaphoreTypes /\ ParkingTypes /\ Fits(sim, car)
      /\ simulation = [simulation EXCEPT ![e] = sim]
  BY <1>1, <1>2 DEF TypeInv
<1>4. PICK call \in Call : call = WithPassage(Head(car.floorCalls), car.direction, car.current_floor)
  <2>1. Head(car.floorCalls) \in Call
    BY <1>1, HeadTailProperties DEF Assign, Car
  <2>. QED  BY <2>1, WithPassageType
<1>5. PICK queue \in insertPriorityCall(car.callSequence, call) :
        elevator' = [elevator EXCEPT ![e].callSequence = queue,
                                     ![e].floorCalls = deleteBeginLinkedCall(@)]
  BY <1>1, <1>4, Zenon DEF Assign
<1>6. queue \in Seq(Call) /\ Len(queue) = Len(car.callSequence) + 1 /\ Len(car.callSequence) \in Nat
  BY InsertsCall, LenProperties DEF Car
<1>7. PICK rest \in Seq(Call) : rest = deleteBeginLinkedCall(car.floorCalls)
  BY HeadTailProperties DEF deleteBeginLinkedCall, Car
<1>8. PICK c \in Car : c = [car EXCEPT !.callSequence = queue, !.floorCalls = rest]
  <2>1. [car EXCEPT !.callSequence = queue, !.floorCalls = rest] \in Car
    BY <1>6 DEF Car
  <2>. QED  BY <2>1
<1>9. elevator' = [elevator EXCEPT ![e] = c]
  BY <1>1, <1>3, <1>5, <1>7, <1>8 DEF Car
<1>10. Fits(sim, c)
  <2>1. c.callSequence = queue /\ sim.lift_call_count \in Nat /\ sim.floor_call_count \in Nat
    BY <1>8 DEF Car, Simulation
  <2>. QED  BY <1>3, <1>6, <2>1, QueueGrows
<1>. QED  BY <1>3, <1>9, <1>10, CarFrame DEF Assign, semaphores, SemaphoreTypes, ParkingTypes

LEMMA ParkingStepType ==
  ASSUME TypeInv, HomesExist, NEW e \in Elevators, ParkingStep(e)
  PROVE  TypeInv'
<1>1. PICK car \in Car : car = elevator[e]
  BY DEF TypeInv
<1>2. PICK sim \in Simulation : sim = simulation[e]
  BY DEF TypeInv
<1>3. /\ elevator \in [Elevators -> Car] /\ simulation \in [Elevators -> Simulation]
      /\ floor \in [Floors -> Floor] /\ SemaphoreTypes /\ ParkingTypes /\ Fits(sim, car)
      /\ simulation = [simulation EXCEPT ![e] = sim] /\ elevator = [elevator EXCEPT ![e] = car]
  BY <1>1, <1>2 DEF TypeInv
<1>4. CASE ParkingReads(e)
  <2>1. PICK q \in [pc : ParkingPlaces, call : Call] : q = parking[e]
    BY <1>3 DEF ParkingTypes
  <2>2. /\ q.call \in Call /\ q.call.direction \in Directions
        /\ \A d \in Directions : [q.call EXCEPT !.direction = d] \in Call
    BY DEF Call
  <2>3. \A place \in ParkingPlaces : \A c \in Call :
          [q EXCEPT !.pc = place, !.call = c] \in [pc : ParkingPlaces, call : Call]
    BY DEF ParkingPlaces
  <2>4. algorithm = 4 => WayHome(e) \in Directions
    <3>1. ASSUME algorithm = 4 PROVE HomeFloor(e) \in Floors /\ car.current_floor \in Floors
      BY <3>1, HomesExist DEF HomesExist, Car
    <3>. QED  BY <1>1, <3>1, BuildingAssumption DEF WayHome, Floors, Directions
  <2>5. PICK p \in [pc : ParkingPlaces, call : Call] :
          /\ parking' = [parking EXCEPT ![e] = p]
          /\ p.pc /= "watch" => algorithm \in {2, 4}
          /\ p.pc \in {"subtract", "divide"} => algorithm = 4
    <3>1. CASE ParkingWatch(e)
      <4>1. HomeFloor(e) \in 0..NUM_OF_FLOOR
        BY <3>1, BuildingAssumption, HomesExist DEF HomesExist, ParkingWatch, HomeFloor, Floors
      <4>2. initCall(0, FALSE, TRUE, 1, HomeFloor(e), -1) \in Call
        BY <4>1, Ways, ModelAssumption DEF initCall, Call
      <4>3. [pc |-> "test", call |-> initCall(0, FALSE, TRUE, 1, HomeFloor(e), -1)]
              \in [pc : ParkingPlaces, call : Call]
        BY <4>2 DEF ParkingPlaces
      <4>. WITNESS [pc |-> "test", call |-> initCall(0, FALSE, TRUE, 1, HomeFloor(e), -1)]
                     \in [pc : ParkingPlaces, call : Call]
      <4>. QED  BY <3>1 DEF ParkingWatch
    <3>2. CASE ParkingTest(e)
      <4>1. PICK place \in ParkingPlaces :
              /\ parking' = [parking EXCEPT ![e].pc = place]
              /\ place \in {"subtract", "divide"} => algorithm /= 2
        BY <3>2 DEF ParkingTest, ParkingPlaces
      <4>2. algorithm \in {2, 4}
        BY <1>3, <3>2 DEF ParkingTest, ParkingTypes
      <4>. WITNESS [q EXCEPT !.pc = place, !.call = q.call] \in [pc : ParkingPlaces, call : Call]
      <4>. QED  BY <2>1, <4>1, <4>2
    <3>3. CASE ParkingSubtract(e)
      <4>1. algorithm = 4
        BY <1>3, <3>3 DEF ParkingSubtract, ParkingTypes
      <4>2. PICK c \in Call : c = [q.call EXCEPT !.direction = WayHome(e)]
        BY <2>2, <2>4, <4>1
      <4>3. [q EXCEPT !.pc = "divide", !.call = c] \in [pc : ParkingPlaces, call : Call]
        BY <2>3 DEF ParkingPlaces
      <4>. WITNESS [q EXCEPT !.pc = "divide", !.call = c] \in [pc : ParkingPlaces, call : Call]
      <4>. QED  BY <2>1, <3>3, <4>1, <4>2 DEF ParkingSubtract
    <3>4. CASE ParkingDivide(e)
      <4>1. algorithm = 4
        BY <1>3, <3>4 DEF ParkingDivide, ParkingTypes
      <4>2. PICK place \in ParkingPlaces : place = IF WayHome(e) = 0 THEN "faulted" ELSE "insert"
        BY DEF ParkingPlaces
      <4>3. PICK d \in Directions :
              d = IF WayHome(e) = 0 THEN q.call.direction ELSE Quotient(q.call.direction, WayHome(e))
        BY <2>2, <2>4, <4>1, QuotientRange
      <4>4. PICK c \in Call : c = [q.call EXCEPT !.direction = d]
        BY <2>2
      <4>5. [q EXCEPT !.pc = place, !.call = c] \in [pc : ParkingPlaces, call : Call]
        BY <2>3
      <4>6. parking' = [parking EXCEPT ![e].pc = place, ![e].call.direction = d]
        BY <2>1, <3>4, <4>2, <4>3 DEF ParkingDivide
      <4>. WITNESS [q EXCEPT !.pc = place, !.call = c] \in [pc : ParkingPlaces, call : Call]
      <4>. QED  BY <2>1, <4>1, <4>4, <4>6
    <3>. QED  BY <1>4, <3>1, <3>2, <3>3, <3>4 DEF ParkingReads
  <2>6. ParkingTypes'
    BY <1>3, <2>5 DEF ParkingTypes
  <2>. QED
    BY <1>3, <1>4, <2>6, CarFrame DEF ParkingReads, ParkingWatch, ParkingTest, ParkingSubtract,
       ParkingDivide, semaphores, SemaphoreTypes
<1>5. CASE ParkingInsert(e)
  <2>1. PICK call \in Call : call = parking[e].call
    BY <1>3 DEF ParkingTypes
  <2>2. PICK queue \in insertPriorityCall(car.callSequence, call) :
          elevator' = [elevator EXCEPT ![e].callSequence = queue]
    BY <1>1, <1>5, <2>1, Zenon DEF ParkingInsert
  <2>3. queue \in Seq(Call) /\ Len(queue) = Len(car.callSequence) + 1 /\ Len(car.callSequence) \in Nat
    BY InsertsCall, LenProperties DEF Car
  <2>4. PICK c \in Car : c = [car EXCEPT !.callSequence = queue]
    <3>1. [car EXCEPT !.callSequence = queue] \in Car
      BY <2>3 DEF Car
    <3>. QED  BY <3>1
  <2>5. elevator' = [elevator EXCEPT ![e] = c]
    BY <1>1, <1>3, <2>2, <2>4 DEF Car
  <2>6. Fits(sim, c)
    <3>1. c.callSequence = queue /\ sim.lift_call_count \in Nat /\ sim.floor_call_count \in Nat
      BY <2>4 DEF Car, Simulation
    <3>. QED  BY <1>3, <2>3, <3>1, QueueGrows
  <2>7. ParkingTypes'
    BY <1>3, <1>5, NullCallType DEF ParkingInsert, ParkingTypes, ParkingPlaces
  <2>. QED  BY <1>3, <1>5, <2>5, <2>6, <2>7, CarFrame DEF ParkingInsert, semaphores, SemaphoreTypes
<1>6. CASE ParkingWake(e)
  <2>1. ParkingTypes'
    BY <1>3, <1>6 DEF ParkingWake, ParkingTypes, ParkingPlaces
  <2>. QED  BY <1>3, <1>6, <2>1, CarFrame DEF ParkingWake, semaphores, SemaphoreTypes
<1>. QED  BY <1>4, <1>5, <1>6 DEF ParkingStep, ParkingReads

LEMMA SchedulerStepType ==
  ASSUME TypeInv, SchedulerStep
  PROVE  TypeInv'
<1>0. /\ SemaphoreTypes /\ elevator \in [Elevators -> Car] /\ floor \in [Floors -> Floor]
      /\ SchedulerTypes /\ Here \in Floors
      /\ \A e \in Elevators : Fits(simulation[e], elevator[e])
  BY DEF TypeInv, SchedulerTypes, Here
<1>1. CASE SchedulerSkip
  <2>1. NextFloor(Here) \in Floors
    BY <1>0, BuildingAssumption DEF NextFloor, Floors
  <2>2. SemaphoreTypes'
    BY <1>0, <1>1, <2>1 DEF SchedulerSkip, SemaphoreTypes, Up, Acquired, Released
  <2>3. SchedulerTypes' /\ Shrinks'
    BY <1>0, <1>1, <2>1 DEF SchedulerSkip, SchedulerTypes, Shrinks
  <2>. QED
    BY <1>1, <2>2, <2>3 DEF SchedulerSkip, TypeInv, GeneratorTypes, ParkingTypes, GpioTypes, Created, GeneratorFloor
<1>2. CASE SchedulerTake
  <2>1. PICK g \in Floor : g = floor[Here]
    BY <1>0
  <2>. DEFINE nodes == g.passengers_unchecked
              shifted == [i \in DOMAIN nodes |-> IF i < g.length THEN nodes[i + 1] ELSE nodes[i]]
  <2>2. nodes \in [1..MaxPassengers -> Passenger] /\ g.length \in 0..MaxPassengers /\ g.length > 0
    BY <1>2, <2>1 DEF SchedulerTake, Floor
  <2>3. shifted \in [1..MaxPassengers -> Passenger] /\ nodes[1] \in Passenger
    BY <2>2, ModelAssumption
  <2>. HIDE DEF shifted
  <2>4. [g EXCEPT !.passengers_unchecked = shifted] \in Floor
    BY <2>3 DEF Floor
  <2>5. floor' = [floor EXCEPT ![Here] = [g EXCEPT !.passengers_unchecked = shifted]]
    BY <1>0, <1>2, <2>1 DEF SchedulerTake, shifted, Floor
  <2>6. floor' \in [Floors -> Floor] /\ \A f \in Floors : floor'[f].length = floor[f].length
    BY <1>0, <2>1, <2>4, <2>5 DEF Floor
  <2>7. SchedulerTypes' /\ Here' = Here
    BY <1>0, <1>2, <2>1, <2>3 DEF SchedulerTake, SchedulerTypes, Here
  <2>8. SemaphoreTypes'
    BY <1>0, <1>2 DEF SchedulerTake, SemaphoreTypes, Up, Acquired
  <2>9. Shrinks'
    BY <1>0, <2>1, <2>2, <2>6, <2>7 DEF Shrinks
  <2>. QED
    BY <1>2, <2>6, <2>7, <2>8, <2>9 DEF SchedulerTake, TypeInv, GeneratorTypes, ParkingTypes, GpioTypes, Created, GeneratorFloor
<1>3. CASE SchedulerShrink
  <2>1. PICK g \in Floor : g = floor[Here]
    BY <1>0
  <2>2. PICK p \in Passenger : p = scheduler.new_passenger
    BY <1>0 DEF SchedulerTypes
  <2>3. PICK n \in 0..MaxPassengers : n = g.length - 1
    BY <1>3, <2>1, ModelAssumption DEF SchedulerShrink, TypeInv, Shrinks, Floor
  <2>4. PICK nodes \in [1..MaxPassengers -> Passenger] :
          nodes = [g.passengers_unchecked EXCEPT ![g.length] = NULL_PASSENGER]
    <3>1. [g.passengers_unchecked EXCEPT ![g.length] = NULL_PASSENGER] \in [1..MaxPassengers -> Passenger]
      BY NullCallType DEF Floor
    <3>. QED  BY <3>1
  <2>5. PICK list \in Seq(Passenger) : list = Append(g.passengers, p)
    BY AppendProperties DEF Floor
  <2>6. PICK h \in Floor : h = [g EXCEPT !.passengers_unchecked = nodes, !.length = n, !.passengers = list]
    <3>1. [g EXCEPT !.passengers_unchecked = nodes, !.length = n, !.passengers = list] \in Floor
      BY DEF Floor
    <3>. QED  BY <3>1
  <2>7. floor' = [floor EXCEPT ![Here] = h]
    BY <1>0, <1>3, <2>1, <2>2, <2>3, <2>4, <2>5, <2>6 DEF SchedulerShrink, Floor
  <2>8. floor' \in [Floors -> Floor] /\ \A f \in Floors : floor'[f].length <= floor[f].length
    <3>1. h.length = g.length - 1 /\ g.length \in Nat
      BY <2>3, <2>6 DEF Floor
    <3>2. \A f \in Floors : floor[f].length \in Nat
      BY <1>0 DEF Floor
    <3>. QED  BY <1>0, <2>1, <2>7, <3>1, <3>2
  <2>9. SchedulerTypes' /\ Shrinks'
    BY <1>0, <1>3 DEF SchedulerShrink, SchedulerTypes, Shrinks
  <2>10. Created'
    <3>1. \A f \in Floors : floor[f].length \in Nat /\ floor'[f].length \in Nat
      BY <1>0, <2>8 DEF Floor
    <3>2. generator.passenger_id \in Nat
      BY ModelAssumption DEF TypeInv, GeneratorTypes
    <3>. QED  BY <1>3, <2>8, <3>1, <3>2 DEF SchedulerShrink, TypeInv, Created, GeneratorFloor, AsInt
  <2>. QED
    BY <1>3, <2>8, <2>9, <2>10 DEF SchedulerShrink, TypeInv, SemaphoreTypes, semaphores, GeneratorTypes, ParkingTypes, GpioTypes
<1>4. CASE SchedulerLock
  <2>1. scheduler.locked \in Elevators
    BY <1>0, <1>4, BuildingAssumption DEF SchedulerLock, SchedulerTypes, Elevators
  <2>2. SemaphoreTypes'
    BY <1>0, <1>4, <2>1 DEF SchedulerLock, SemaphoreTypes, Up, Acquired
  <2>3. SchedulerTypes' /\ Shrinks'
    BY <1>0, <1>4, BuildingAssumption DEF SchedulerLock, SchedulerTypes, Shrinks
  <2>. QED
    BY <1>4, <2>2, <2>3 DEF SchedulerLock, TypeInv, GeneratorTypes, ParkingTypes, GpioTypes, Created, GeneratorFloor
<1>5. CASE SchedulerDispatch
  <2>1. PICK e \in Elevators :
          /\ elevator' = [elevator EXCEPT ![e] = WithPassengerCalls(@, scheduler.new_passenger)]
          /\ scheduler' = [scheduler EXCEPT
               !.pc = "scan", !.locked = 0, !.new_passenger = NULL_PASSENGER,
               !.count = IF algorithm \in {3, 4} THEN @ ELSE (e + 1) % NUM_OF_ELEVATOR]
    BY <1>5, Zenon DEF SchedulerDispatch
  <2>2. PICK car \in Car : car = elevator[e]
    BY <1>0
  <2>3. PICK p \in Passenger : p = scheduler.new_passenger
    BY <1>0 DEF SchedulerTypes
  <2>4. PICK c \in Car : c = WithPassengerCalls(car, p) /\ c.callSequence = car.callSequence
    <3>1. p.floor_call \in Call /\ p.lift_call \in Call
      BY DEF Passenger
    <3>2. Append(car.floorCalls, p.floor_call) \in Seq(Call) /\ Append(car.liftCalls, p.lift_call) \in Seq(Call)
      BY <3>1, AppendProperties DEF Car
    <3>3. WithPassengerCalls(car, p) \in Car /\ WithPassengerCalls(car, p).callSequence = car.callSequence
      BY <3>2 DEF WithPassengerCalls, insertEndLinkedCall, Car
    <3>. QED  BY <3>3
  <2>5. elevator' = [elevator EXCEPT ![e] = c]
    BY <1>0, <2>1, <2>2, <2>3, <2>4
  <2>6. elevator' \in [Elevators -> Car] /\ \A d \in Elevators : elevator'[d].callSequence = elevator[d].callSequence
    BY <1>0, <2>2, <2>4, <2>5
  <2>7. \A d \in Elevators : Fits(simulation'[d], elevator'[d])
    BY <1>0, <1>5, <2>6 DEF SchedulerDispatch, Fits
  <2>8. (e + 1) % NUM_OF_ELEVATOR \in Elevators /\ 0 \in 0..NUM_OF_ELEVATOR
    BY BuildingAssumption DEF Elevators
  <2>9. SchedulerTypes' /\ Shrinks'
    BY <1>0, <2>1, <2>8, NullCallType DEF SchedulerTypes, Shrinks
  <2>10. SemaphoreTypes'
    BY <1>0, <1>5 DEF SchedulerDispatch, SemaphoreTypes, Released
  <2>. QED
    BY <1>5, <2>6, <2>7, <2>9, <2>10 DEF SchedulerDispatch, TypeInv, GeneratorTypes, ParkingTypes, GpioTypes, Created, GeneratorFloor
<1>. QED  BY <1>1, <1>2, <1>3, <1>4, <1>5 DEF SchedulerStep

LEMMA GeneratorStepType ==
  ASSUME TypeInv, GeneratorStep
  PROVE  TypeInv'
<1>0. /\ SemaphoreTypes /\ floor \in [Floors -> Floor] /\ SchedulerTypes /\ GeneratorTypes /\ Here \in Floors
      /\ generator.passenger_id \in 1..(MaxPassengers + 1)
  BY DEF TypeInv, SchedulerTypes, GeneratorTypes, Here
<1>1. UNCHANGED <<elevator, simulation, scheduler, parking, gpio>>
  BY DEF GeneratorStep, GeneratorNew, GeneratorGrow, GeneratorStore
<1>2. /\ elevator' \in [Elevators -> Car] /\ simulation' \in [Elevators -> Simulation]
      /\ SchedulerTypes' /\ ParkingTypes' /\ GpioTypes' /\ Here' = Here
      /\ \A e \in Elevators : Fits(simulation'[e], elevator'[e])
  BY <1>1 DEF TypeInv, SchedulerTypes, ParkingTypes, GpioTypes, Here
<1>3. ASSUME SemaphoreTypes', floor' \in [Floors -> Floor], GeneratorTypes', Created',
             \A f \in Floors : floor'[f].length >= floor[f].length
      PROVE  TypeInv'
  <2>1. Shrinks'
    <3>1. floor'[Here].length \in Int /\ floor[Here].length \in Int
      BY <1>0, <1>3 DEF Floor
    <3>. QED  BY <1>0, <1>1, <1>2, <1>3, <3>1 DEF TypeInv, Shrinks
  <2>. QED  BY <1>2, <1>3, <2>1 DEF TypeInv
<1>4. \A f \in Floors : floor[f].length \in 0..MaxPassengers
  BY <1>0 DEF Floor
<1>5. CASE GeneratorNew
  <2>1. PICK trip \in Trips :
          generator' = [generator EXCEPT
            !.pc = "floor", !.passenger_id = @ + 1,
            !.new_passenger = NewPassenger(generator.passenger_id, trip[1], trip[2])]
    BY <1>5 DEF GeneratorNew
  <2>2. PICK from \in Floors, to \in Floors : from = trip[1] /\ to = trip[2]
    BY ModelAssumption
  <2>3. PICK id \in 1..MaxPassengers : id = generator.passenger_id
    BY <1>0, <1>5, ModelAssumption DEF GeneratorNew
  <2>4. PICK p \in Passenger : p = NewPassenger(id, from, to) /\ p.floor_call.floor = from
    <3>1. PICK d \in Directions : d = Order(to, from)
      BY Ways DEF Order
    <3>2. from \in 0..NUM_OF_FLOOR /\ to \in 0..NUM_OF_FLOOR /\ id \in 0..MaxPassengers
      BY BuildingAssumption, ModelAssumption DEF Floors
    <3>3. \A g \in 0..NUM_OF_FLOOR, k \in 0..3, b \in BOOLEAN : initCall(id, b, FALSE, k, g, d) \in Call
      BY <3>2 DEF initCall, Call
    <3>4. PICK a \in Call, b \in Call : /\ a = initCall(id, TRUE, FALSE, 1, from, d)
                                        /\ b = initCall(id, FALSE, FALSE, 1, to, d)
      <4>1. 1 \in 0..3 /\ TRUE \in BOOLEAN /\ FALSE \in BOOLEAN
        OBVIOUS
      <4>2. initCall(id, TRUE, FALSE, 1, from, d) \in Call /\ initCall(id, FALSE, FALSE, 1, to, d) \in Call
        BY <3>2, <3>3, <4>1
      <4>. QED  BY <4>2
    <3>5. initPassenger(id, a, b) \in Passenger
      BY <3>2 DEF initPassenger, Passenger
    <3>6. NewPassenger(id, from, to) = initPassenger(id, a, b) /\ initPassenger(id, a, b).floor_call.floor = from
      BY <3>1, <3>4 DEF NewPassenger, initPassenger, initCall
    <3>. QED  BY <3>5, <3>6
  <2>5. generator' = [generator EXCEPT !.pc = "floor", !.passenger_id = id + 1, !.new_passenger = p]
    BY <1>0, <2>1, <2>2, <2>3, <2>4 DEF GeneratorTypes
  <2>6. GeneratorTypes'
    <3>1. id + 1 \in 1..(MaxPassengers + 1)
      BY ModelAssumption
    <3>. QED  BY <1>0, <2>5, <3>1 DEF GeneratorTypes
  <2>7. /\ generator'.pc = "floor" /\ GeneratorFloor' = from /\ generator'.passenger_id = id + 1
        /\ floor' = floor
    BY <1>0, <1>5, <2>4, <2>5 DEF GeneratorTypes, GeneratorFloor, GeneratorNew
  <2>8. Created'
    <3>1. \A f \in Floors : floor[f].length <= id - 1
      <4>1. AsInt(generator.pc = "floor") = 0
        BY <1>5 DEF GeneratorNew, AsInt
      <4>. QED  BY <2>3, <4>1 DEF TypeInv, Created
    <3>2. \A f \in Floors : floor'[f].length <= (id + 1) - 1 - 1
      BY <1>4, <2>7, <3>1, ModelAssumption
    <3>. QED  BY <2>7, <3>2 DEF Created, AsInt
  <2>. QED
    BY <1>0, <1>3, <1>4, <1>5, <2>6, <2>8 DEF GeneratorNew, semaphores, SemaphoreTypes
<1>6. CASE GeneratorGrow
  <2>1. generator.pc = "floor" /\ GeneratorFloor \in Floors
    BY <1>6 DEF GeneratorGrow, TypeInv, Created
  <2>2. PICK g \in Floor : g = floor[GeneratorFloor]
    BY <1>0, <2>1
  <2>3. PICK id \in 1..(MaxPassengers + 1) : /\ id = generator.passenger_id
                                             /\ \A f \in Floors : floor[f].length <= id - 1 - 1
    BY <1>0, <2>1 DEF TypeInv, Created, AsInt
  <2>4. PICK n \in 0..MaxPassengers : n = g.length + 1 /\ n <= id - 1
    <3>1. g.length \in 0..MaxPassengers /\ g.length <= id - 1 - 1
      BY <2>1, <2>2, <2>3 DEF Floor
    <3>. QED  BY <3>1, ModelAssumption
  <2>5. [g EXCEPT !.length = n] \in Floor /\ [g EXCEPT !.length = n].length = n
    BY DEF Floor
  <2>6. floor' = [floor EXCEPT ![GeneratorFloor] = [g EXCEPT !.length = n]]
    BY <1>0, <1>6, <2>1, <2>2, <2>4 DEF GeneratorGrow, Floor
  <2>7. /\ floor' \in [Floors -> Floor] /\ floor'[GeneratorFloor].length = n
        /\ \A f \in Floors : f /= GeneratorFloor => floor'[f].length = floor[f].length
    BY <1>0, <2>1, <2>5, <2>6
  <2>8. generator' = [generator EXCEPT !.pc = "store", !.index = n]
    BY <1>6, <2>2, <2>4 DEF GeneratorGrow
  <2>9. GeneratorTypes' /\ generator'.pc = "store" /\ generator'.passenger_id = id
    BY <1>0, <2>3, <2>8 DEF GeneratorTypes
  <2>10. Created'
    <3>1. \A f \in Floors : floor'[f].length <= id - 1 - 0
      BY <1>4, <2>3, <2>4, <2>7
    <3>2. GeneratorFloor' = GeneratorFloor
      BY <1>0, <2>8 DEF GeneratorTypes, GeneratorFloor
    <3>. QED  BY <2>1, <2>9, <3>1, <3>2 DEF Created, AsInt
  <2>11. SemaphoreTypes'
    BY <1>0, <1>6, <2>1 DEF GeneratorGrow, SemaphoreTypes, Up, Acquired
  <2>12. \A f \in Floors : floor'[f].length >= floor[f].length
    <3>1. n >= g.length /\ g.length = floor[GeneratorFloor].length
      BY <2>2, <2>4 DEF Floor
    <3>. QED  BY <1>4, <2>7, <3>1
  <2>. QED  BY <1>3, <2>7, <2>9, <2>10, <2>11, <2>12
<1>7. CASE GeneratorStore
  <2>1. GeneratorFloor \in Floors
    BY <1>7 DEF GeneratorStore, TypeInv, Created
  <2>2. PICK p \in Passenger : p = generator.new_passenger
    BY <1>0 DEF GeneratorTypes
  <2>3. PICK g \in Floor : g = floor[GeneratorFloor]
    BY <1>0, <2>1
  <2>4. PICK nodes \in [1..MaxPassengers -> Passenger] :
          nodes = [g.passengers_unchecked EXCEPT ![generator.index] = p]
    <3>1. [g.passengers_unchecked EXCEPT ![generator.index] = p] \in [1..MaxPassengers -> Passenger]
      BY DEF Floor
    <3>. QED  BY <3>1
  <2>5. PICK h \in Floor : h = [g EXCEPT !.passengers_unchecked = nodes] /\ h.length = g.length
    <3>1. /\ [g EXCEPT !.passengers_unchecked = nodes] \in Floor
          /\ [g EXCEPT !.passengers_unchecked = nodes].length = g.length
      BY DEF Floor
    <3>. QED  BY <3>1
  <2>6. floor' = [floor EXCEPT ![GeneratorFloor] = h]
    BY <1>0, <1>7, <2>1, <2>2, <2>3, <2>4, <2>5 DEF GeneratorStore, Floor
  <2>7. floor' \in [Floors -> Floor] /\ \A f \in Floors : floor'[f].length = floor[f].length
    BY <1>0, <2>1, <2>3, <2>5, <2>6
  <2>8. PICK zero \in 0..MaxPassengers, nobody \in Passenger :
          generator' = [generator EXCEPT !.pc = "menu", !.new_passenger = nobody, !.index = zero]
    <3>1. 0 \in 0..MaxPassengers
      BY ModelAssumption
    <3>. QED  BY <1>7, <3>1, NullCallType DEF GeneratorStore
  <2>9. GeneratorTypes' /\ generator'.pc = "menu" /\ generator'.passenger_id = generator.passenger_id
    BY <1>0, <2>8 DEF GeneratorTypes
  <2>10. SemaphoreTypes'
    BY <1>0, <1>7, <2>1 DEF GeneratorStore, SemaphoreTypes, Released
  <2>11. Created'
    BY <1>7, <2>7, <2>9 DEF GeneratorStore, TypeInv, Created, AsInt
  <2>12. \A f \in Floors : floor'[f].length >= floor[f].length
    BY <1>4, <2>7
  <2>. QED  BY <1>3, <2>7, <2>9, <2>10, <2>11, <2>12
<1>. QED  BY <1>5, <1>6, <1>7 DEF GeneratorStep

LEMMA GpioStepType ==
  ASSUME TypeInv, GpioStep
  PROVE  TypeInv'
<1>1. UNCHANGED <<semaphores, floor, simulation, scheduler, generator, parking>>
  BY DEF GpioStep, GpioRead, GpioWrite
<1>2. GpioTypes'
  BY BuildingAssumption, ModelAssumption DEF GpioStep, GpioRead, GpioWrite, TypeInv, GpioTypes
<1>3. /\ elevator' \in [Elevators -> Car]
      /\ \A d \in Elevators : elevator'[d].callSequence = elevator[d].callSequence
  <2>1. CASE GpioRead
    BY <2>1 DEF GpioRead, TypeInv
  <2>2. CASE GpioWrite
    <3>1. elevator \in [Elevators -> Car] /\ gpio.next \in Elevators
      BY <2>2, BuildingAssumption DEF GpioWrite, TypeInv, GpioTypes, Elevators
    <3>2. PICK car \in Car : car = elevator[gpio.next]
      BY <3>1
    <3>3. PICK b \in BOOLEAN : b = (gpio.edges % 2 = 1)
      OBVIOUS
    <3>4. elevator' = [elevator EXCEPT ![gpio.next] = [car EXCEPT !.abnormal = b]]
      BY <2>2, <3>1, <3>2, <3>3 DEF GpioWrite, Car
    <3>5. [car EXCEPT !.abnormal = b] \in Car /\ [car EXCEPT !.abnormal = b].callSequence = car.callSequence
      BY DEF Car
    <3>. QED  BY <3>1, <3>2, <3>4, <3>5
  <2>. QED  BY <2>1, <2>2 DEF GpioStep
<1>4. \A d \in Elevators : Fits(simulation'[d], elevator'[d])
  BY <1>1, <1>3 DEF TypeInv, Fits
<1>. QED
  BY <1>1, <1>2, <1>3, <1>4 DEF TypeInv, SemaphoreTypes, semaphores, SchedulerTypes, GeneratorTypes,
     ParkingTypes, Shrinks, Created, Here, GeneratorFloor

\* Every step keeps the types, if there is a home for every car.
LEMMA TypeNext == ASSUME HomesExist PROVE TypeInv /\ [Next]_vars => TypeInv'
<1>. SUFFICES ASSUME TypeInv, [Next]_vars PROVE TypeInv'
  OBVIOUS
<1>1. CASE UNCHANGED vars
  BY <1>1 DEF vars, semaphores, TypeInv, SemaphoreTypes, SchedulerTypes, GeneratorTypes, ParkingTypes,
     GpioTypes, Fits, Shrinks, Created, Here, GeneratorFloor
<1>. QED
  BY <1>1, HomesExist, CarStepType, AssignType, ParkingStepType, SchedulerStepType, GeneratorStepType, GpioStepType
     DEF Next

\* In a building whose zones end below the top floor, every structure and every
\* process keeps to its type: no load above the capacity or below zero, no car
\* outside its shaft, no list with a node of an unfinished deletion, no more
\* new passengers on a floor than were created, whatever the processes do.
THEOREM TypesHold == ASSUME HomesExist PROVE Spec => []TypeOK
<1>1. TypeInv => TypeOK
  BY DEF TypeInv, TypeOK, SemaphoreTypes, SchedulerTypes, GeneratorTypes, ParkingTypes,
     ParkingPlaces, GpioTypes, Floor, Simulation
<1>. QED  BY TypeInit, TypeNext, <1>1, PTL DEF Spec

-----------------------------------------------------------------------------
(* Lists of nodes that have IDs: what an insertion and a deletion change. *)

IDs(list) == {node.ID : node \in Range(list)}
NoTwice(list) == \A i, j \in 1..Len(list) : list[i].ID = list[j].ID => i = j

\* One list is the other one with one node more.
OneMore(longer, list, node) ==
  /\ Range(longer) = Range(list) \cup {node} /\ node.ID \notin IDs(list)
  /\ NoTwice(longer) /\ NoTwice(list)

\* A list by its nodes.
LEMMA IDsOf ==
  ASSUME NEW S, NEW list \in Seq(S)
  PROVE  /\ Range(list) = {list[i] : i \in 1..Len(list)} /\ Range(list) \in SUBSET S
         /\ \A id : id \in IDs(list) <=> \E i \in 1..Len(list) : list[i].ID = id
<1>1. DOMAIN list = 1..Len(list)
  BY LenProperties
<1>2. Range(list) = {list[i] : i \in 1..Len(list)}
  BY <1>1 DEF Range
<1>3. \A i \in 1..Len(list) : list[i] \in S
  BY ElementOfSeq
<1>. QED  BY <1>2, <1>3 DEF IDs

\* Putting in a node whose ID is new, taking one out, taking off the first and
\* adding at the end: one list is the other with one node more.
LEMMA InsertsOne ==
  ASSUME NEW S, NEW list \in Seq(S), NEW p \in 1..(Len(list) + 1), NEW x \in S,
         NoTwice(list), x.ID \notin IDs(list)
  PROVE  OneMore(InsertAt(list, p, x), list, x)
<1>1. PICK r : r = InsertAt(list, p, x)
  OBVIOUS
<1>2. /\ r \in Seq(S) /\ Len(r) = Len(list) + 1
      /\ \A i \in 1..Len(r) : r[i] = IF i < p THEN list[i] ELSE IF i = p THEN x ELSE list[i - 1]
  <2>1. /\ InsertAt(list, p, x) \in Seq(S) /\ Len(InsertAt(list, p, x)) = Len(list) + 1
        /\ \A i \in 1..(Len(list) + 1) :
             InsertAt(list, p, x)[i] = IF i < p THEN list[i] ELSE IF i = p THEN x ELSE list[i - 1]
    BY InsertedAt
  <2>. QED  BY <1>1, <2>1
<1>3. Len(list) \in Nat
  BY LenProperties
<1>4. /\ Range(list) = {list[i] : i \in 1..Len(list)} /\ Range(r) = {r[i] : i \in 1..Len(r)}
      /\ \A i \in 1..Len(list) : list[i].ID /= x.ID
  <2>1. Range(list) = {list[i] : i \in 1..Len(list)} /\ \A i \in 1..Len(list) : list[i].ID \in IDs(list)
    BY IDsOf
  <2>2. Range(r) = {r[i] : i \in 1..Len(r)}
    BY <1>2, IDsOf
  <2>. QED  BY <2>1, <2>2
<1>5. \A i \in 1..Len(list) : \E j \in 1..Len(r) : r[j] = list[i]
  <2>. TAKE i \in 1..Len(list)
  <2>1. CASE i < p
    <3>1. i \in 1..Len(r) /\ r[i] = list[i]
      BY <1>2, <1>3, <2>1
    <3>. QED  BY <3>1
  <2>2. CASE i >= p
    <3>1. i + 1 \in 1..Len(r) /\ r[i + 1] = list[(i + 1) - 1] /\ (i + 1) - 1 = i
      BY <1>2, <1>3, <2>2
    <3>. QED  BY <3>1
  <2>. QED  BY <2>1, <2>2
<1>6. p \in 1..Len(r) /\ r[p] = x
  BY <1>2, <1>3
<1>7. \A j \in 1..Len(r) : j /= p => \E i \in 1..Len(list) : r[j] = list[i] /\ i = IF j < p THEN j ELSE j - 1
  <2>. TAKE j \in 1..Len(r)
  <2>1. CASE j < p
    BY <1>2, <1>3, <2>1
  <2>2. CASE j > p
    <3>1. j - 1 \in 1..Len(list) /\ r[j] = list[j - 1]
      BY <1>2, <1>3, <2>2
    <3>. QED  BY <2>2, <3>1
  <2>. QED  BY <2>1, <2>2
<1>8. Range(r) = Range(list) \cup {x}
  <2>1. \A j \in 1..Len(r) : r[j] \in Range(list) \cup {x}
    BY <1>4, <1>6, <1>7
  <2>2. Range(r) \subseteq Range(list) \cup {x}
    BY <1>4, <2>1
  <2>3. Range(list) \subseteq Range(r) /\ x \in Range(r)
    BY <1>4, <1>5, <1>6
  <2>. QED  BY <2>2, <2>3
<1>9. NoTwice(r)
  <2>. SUFFICES ASSUME NEW j \in 1..Len(r), NEW k \in 1..Len(r), r[j].ID = r[k].ID PROVE j = k
    BY DEF NoTwice
  <2>1. CASE j = p \/ k = p
    BY <1>4, <1>6, <1>7, <2>1
  <2>2. CASE j /= p /\ k /= p
    <3>1. PICK i \in 1..Len(list), h \in 1..Len(list) :
            /\ r[j] = list[i] /\ i = IF j < p THEN j ELSE j - 1
            /\ r[k] = list[h] /\ h = IF k < p THEN k ELSE k - 1
      BY <1>7, <2>2
    <3>2. i = h
      BY <3>1 DEF NoTwice
    <3>. QED  BY <1>2, <1>3, <2>2, <3>1, <3>2
  <2>. QED  BY <2>1, <2>2
<1>. QED  BY <1>1, <1>8, <1>9 DEF OneMore

LEMMA RemovesOne ==
  ASSUME NEW S, NEW list \in Seq(S), NEW k \in 1..Len(list), NoTwice(list)
  PROVE  OneMore(list, RemoveAt(list, k), list[k])
<1>1. PICK r : r = RemoveAt(list, k)
  OBVIOUS
<1>2. /\ r \in Seq(S) /\ Len(r) = Len(list) - 1
      /\ \A i \in 1..Len(r) : r[i] = IF i < k THEN list[i] ELSE list[i + 1]
  <2>1. /\ RemoveAt(list, k) \in Seq(S) /\ Len(RemoveAt(list, k)) = Len(list) - 1
        /\ \A i \in 1..(Len(list) - 1) : RemoveAt(list, k)[i] = IF i < k THEN list[i] ELSE list[i + 1]
    BY RemovedAt
  <2>. QED  BY <1>1, <2>1
<1>3. Len(list) \in Nat
  BY LenProperties
<1>4. /\ Range(list) = {list[i] : i \in 1..Len(list)} /\ Range(r) = {r[i] : i \in 1..Len(r)}
      /\ \A id : id \in IDs(r) <=> \E i \in 1..Len(r) : r[i].ID = id
  BY <1>2, IDsOf
<1>5. \A i \in 1..Len(r) : \E j \in 1..Len(list) :
        j /= k /\ r[i] = list[j] /\ i = IF j < k THEN j ELSE j - 1
  <2>. TAKE i \in 1..Len(r)
  <2>1. CASE i < k
    <3>1. i \in 1..Len(list) /\ r[i] = list[i]
      BY <1>2, <1>3, <2>1
    <3>. QED  BY <2>1, <3>1
  <2>2. CASE i >= k
    <3>1. i + 1 \in 1..Len(list) /\ r[i] = list[i + 1] /\ i + 1 /= k /\ ~(i + 1 < k) /\ i = (i + 1) - 1
      BY <1>2, <1>3, <2>2
    <3>. QED  BY <3>1
  <2>. QED  BY <2>1, <2>2
<1>6. \A j \in 1..Len(list) : j /= k => \E i \in 1..Len(r) : r[i] = list[j]
  <2>. TAKE j \in 1..Len(list)
  <2>1. CASE j < k
    <3>1. j \in 1..Len(r) /\ r[j] = list[j]
      BY <1>2, <1>3, <2>1
    <3>. QED  BY <3>1
  <2>2. CASE j > k
    <3>1. j - 1 \in 1..Len(r) /\ r[j - 1] = list[(j - 1) + 1] /\ (j - 1) + 1 = j
      BY <1>2, <1>3, <2>2
    <3>. QED  BY <3>1
  <2>. QED  BY <2>1, <2>2
<1>7. Range(list) = Range(r) \cup {list[k]}
  <2>1. \A i \in 1..Len(r) : r[i] \in Range(list)
    BY <1>4, <1>5
  <2>2. \A j \in 1..Len(list) : list[j] \in Range(r) \cup {list[k]}
    BY <1>4, <1>6
  <2>3. Range(r) \subseteq Range(list) /\ list[k] \in Range(list)
    BY <1>4, <2>1
  <2>4. Range(list) \subseteq Range(r) \cup {list[k]}
    BY <1>4, <2>2
  <2>. QED  BY <2>3, <2>4
<1>8. list[k].ID \notin IDs(r)
  <2>1. \A i \in 1..Len(r) : r[i].ID /= list[k].ID
    BY <1>5 DEF NoTwice
  <2>. QED  BY <1>4, <2>1
<1>9. NoTwice(r)
  <2>. SUFFICES ASSUME NEW i \in 1..Len(r), NEW h \in 1..Len(r), r[i].ID = r[h].ID PROVE i = h
    BY DEF NoTwice
  <2>1. PICK j \in 1..Len(list), m \in 1..Len(list) :
          /\ j /= k /\ r[i] = list[j] /\ i = IF j < k THEN j ELSE j - 1
          /\ m /= k /\ r[h] = list[m] /\ h = IF m < k THEN m ELSE m - 1
    BY <1>5
  <2>2. j = m
    BY <2>1 DEF NoTwice
  <2>. QED  BY <2>1, <2>2
<1>. QED  BY <1>1, <1>7, <1>8, <1>9 DEF OneMore

LEMMA TailOne ==
  ASSUME NEW S, NEW list \in Seq(S), list /= <<>>, NoTwice(list)
  PROVE  OneMore(list, Tail(list), Head(list))
<1>1. PICK r : r = Tail(list)
  OBVIOUS
<1>2. /\ r \in Seq(S) /\ Len(r) = Len(list) - 1 /\ \A i \in 1..Len(r) : r[i] = list[i + 1]
      /\ Len(list) \in Nat \ {0} /\ Head(list) = list[1]
  BY <1>1, HeadTailProperties, EmptySeq
<1>3. /\ Range(list) = {list[i] : i \in 1..Len(list)} /\ Range(r) = {r[i] : i \in 1..Len(r)}
      /\ \A id : id \in IDs(r) <=> \E i \in 1..Len(r) : r[i].ID = id
  BY <1>2, IDsOf
<1>4. \A i \in 1..Len(r) : i + 1 \in 1..Len(list) /\ r[i] = list[i + 1] /\ i + 1 /= 1
  BY <1>2
<1>5. \A j \in 1..Len(list) : j /= 1 => \E i \in 1..Len(r) : r[i] = list[j]
  <2>. TAKE j \in 1..Len(list)
  <2>1. j /= 1 => j - 1 \in 1..Len(r) /\ r[j - 1] = list[(j - 1) + 1] /\ (j - 1) + 1 = j
    BY <1>2
  <2>. QED  BY <2>1
<1>6. 1 \in 1..Len(list)
  BY <1>2
<1>7. Range(list) = Range(r) \cup {list[1]}
  <2>1. \A i \in 1..Len(r) : r[i] \in Range(list)
    BY <1>3, <1>4
  <2>2. \A j \in 1..Len(list) : list[j] \in Range(r) \cup {list[1]}
    BY <1>3, <1>5
  <2>3. Range(r) \subseteq Range(list) /\ list[1] \in Range(list)
    BY <1>3, <1>6, <2>1
  <2>4. Range(list) \subseteq Range(r) \cup {list[1]}
    BY <1>3, <2>2
  <2>. QED  BY <2>3, <2>4
<1>8. list[1].ID \notin IDs(r)
  BY <1>3, <1>4, <1>6 DEF NoTwice
<1>9. NoTwice(r)
  <2>. SUFFICES ASSUME NEW i \in 1..Len(r), NEW h \in 1..Len(r), r[i].ID = r[h].ID PROVE i = h
    BY DEF NoTwice
  <2>1. PICK a \in 1..Len(list), b \in 1..Len(list) :
          a = i + 1 /\ b = h + 1 /\ list[a].ID = list[b].ID
    BY <1>4
  <2>2. a = b
    BY <2>1 DEF NoTwice
  <2>. QED  BY <2>1, <2>2
<1>. QED  BY <1>1, <1>2, <1>7, <1>8, <1>9 DEF OneMore

LEMMA AppendOne ==
  ASSUME NEW S, NEW list \in Seq(S), NEW x \in S, NoTwice(list), x.ID \notin IDs(list)
  PROVE  OneMore(Append(list, x), list, x)
<1>1. PICK r : r = Append(list, x)
  OBVIOUS
<1>2. /\ r \in Seq(S) /\ Len(r) = Len(list) + 1 /\ \A i \in 1..Len(list) : r[i] = list[i]
      /\ r[Len(list) + 1] = x /\ Len(list) \in Nat
  BY <1>1, AppendProperties, LenProperties
<1>3. /\ Range(list) = {list[i] : i \in 1..Len(list)} /\ Range(r) = {r[i] : i \in 1..Len(r)}
      /\ \A id : id \in IDs(list) <=> \E i \in 1..Len(list) : list[i].ID = id
  BY <1>2, IDsOf
<1>4. \A i \in 1..Len(r) : i \in 1..Len(list) \/ i = Len(list) + 1
  BY <1>2
<1>5. Len(list) + 1 \in 1..Len(r) /\ \A i \in 1..Len(list) : i \in 1..Len(r)
  BY <1>2
<1>6. Range(r) = Range(list) \cup {x}
  BY <1>2, <1>3, <1>4, <1>5
<1>7. NoTwice(r)
  <2>. SUFFICES ASSUME NEW i \in 1..Len(r), NEW h \in 1..Len(r), r[i].ID = r[h].ID PROVE i = h
    BY DEF NoTwice
  <2>1. \A j \in 1..Len(list) : r[j].ID /= x.ID
    BY <1>2, <1>3
  <2>. QED  BY <1>2, <1>4, <2>1 DEF NoTwice
<1>. QED  BY <1>1, <1>6, <1>7 DEF OneMore

\* Cutting a list in two.
LEMMA SplitAt ==
  ASSUME NEW S, NEW list \in Seq(S), NEW n \in 0..Len(list)
  PROVE  /\ SubSeq(list, 1, n) \in Seq(S) /\ Len(SubSeq(list, 1, n)) = n
         /\ \A i \in 1..n : SubSeq(list, 1, n)[i] = list[i]
         /\ SubSeq(list, n + 1, Len(list)) \in Seq(S) /\ Len(SubSeq(list, n + 1, Len(list))) = Len(list) - n
         /\ \A i \in 1..(Len(list) - n) : SubSeq(list, n + 1, Len(list))[i] = list[n + i]
<1>1. Len(list) \in Nat
  BY LenProperties
<1>2. (\A j \in 1..n : list[j] \in S) /\ (\A j \in (n + 1)..Len(list) : list[j] \in S)
  BY <1>1, ElementOfSeq
<1>3. /\ SubSeq(list, 1, n) \in Seq(S) /\ Len(SubSeq(list, 1, n)) = n
      /\ \A i \in 1..n : SubSeq(list, 1, n)[i] = list[i]
  BY <1>1, <1>2, SubSeqProperties
<1>. DEFINE b == SubSeq(list, n + 1, Len(list))
<1>4. b \in Seq(S) /\ Len(b) = Len(list) - n /\ \A i \in 1..(Len(list) - n) : b[i] = list[(n + 1) + i - 1]
  BY <1>1, <1>2, SubSeqProperties
<1>5. \A i \in 1..(Len(list) - n) : (n + 1) + i - 1 = n + i
  BY <1>1
<1>6. b \in Seq(S) /\ Len(b) = Len(list) - n /\ \A i \in 1..(Len(list) - n) : b[i] = list[n + i]
  <2>. HIDE DEF b
  <2>. QED  BY <1>4, <1>5
<1>. QED  BY <1>3, <1>6

\* ... and has no ID in both parts.
LEMMA SplitsIDs ==
  ASSUME NEW S, NEW list \in Seq(S), NEW n \in 0..Len(list), NoTwice(list),
         NEW a, NEW b, a = SubSeq(list, 1, n), b = SubSeq(list, n + 1, Len(list))
  PROVE  /\ Range(list) = Range(a) \cup Range(b) /\ IDs(a) \cap IDs(b) = {}
         /\ NoTwice(a) /\ NoTwice(b)
<1>1. /\ a \in Seq(S) /\ Len(a) = n /\ \A i \in 1..Len(a) : a[i] = list[i]
      /\ b \in Seq(S) /\ Len(b) = Len(list) - n /\ \A i \in 1..Len(b) : b[i] = list[n + i]
      /\ Len(list) \in Nat
  BY SplitAt, LenProperties
<1>2. /\ Range(list) = {list[i] : i \in 1..Len(list)}
      /\ Range(a) = {a[i] : i \in 1..Len(a)} /\ Range(b) = {b[i] : i \in 1..Len(b)}
      /\ \A id : id \in IDs(a) <=> \E i \in 1..Len(a) : a[i].ID = id
      /\ \A id : id \in IDs(b) <=> \E i \in 1..Len(b) : b[i].ID = id
  <2>1. a \in Seq(S) /\ b \in Seq(S)
    BY <1>1
  <2>2. \A l \in Seq(S) : /\ Range(l) = {l[i] : i \in 1..Len(l)}
                          /\ \A id : id \in IDs(l) <=> \E i \in 1..Len(l) : l[i].ID = id
    BY IDsOf
  <2>. QED  BY <2>1, <2>2
<1>3. \A i \in 1..Len(a) : i \in 1..Len(list) /\ i <= n
  BY <1>1
<1>4. \A i \in 1..Len(b) : n + i \in 1..Len(list) /\ n + i > n
  BY <1>1
<1>5. ASSUME NEW i \in 1..Len(list) PROVE list[i] \in Range(a) \cup Range(b)
  <2>1. CASE i <= n
    BY <1>1, <1>2, <2>1
  <2>2. CASE i > n
    <3>1. i - n \in 1..Len(b) /\ b[i - n] = list[n + (i - n)] /\ n + (i - n) = i
      BY <1>1, <2>2
    <3>2. PICK j \in 1..Len(b) : b[j] = list[i]
      BY <3>1
    <3>3. b[j] \in Range(b)
      BY <1>2
    <3>. QED  BY <3>2, <3>3
  <2>. QED  BY <2>1, <2>2
<1>6. Range(list) = Range(a) \cup Range(b)
  <2>1. \A i \in 1..Len(a) : a[i] \in Range(list)
    BY <1>1, <1>2, <1>3
  <2>2. \A i \in 1..Len(b) : b[i] \in Range(list)
    BY <1>1, <1>2, <1>4
  <2>3. Range(list) \subseteq Range(a) \cup Range(b)
    BY <1>2, <1>5
  <2>. QED  BY <1>2, <2>1, <2>2, <2>3
<1>7. IDs(a) \cap IDs(b) = {}
  <2>. SUFFICES ASSUME NEW id, id \in IDs(a), id \in IDs(b) PROVE FALSE
    OBVIOUS
  <2>0. PICK i \in 1..Len(a) : a[i].ID = id
    BY <1>2
  <2>1. PICK j \in 1..Len(b) : b[j].ID = id
    BY <1>2
  <2>2. i = n + j
    BY <1>1, <1>3, <1>4, <2>0, <2>1 DEF NoTwice
  <2>. QED  BY <1>3, <1>4, <2>2
<1>8. NoTwice(a)
  BY <1>1, <1>3 DEF NoTwice
<1>9. NoTwice(b)
  <2>. SUFFICES ASSUME NEW i \in 1..Len(b), NEW j \in 1..Len(b), b[i].ID = b[j].ID PROVE i = j
    BY DEF NoTwice
  <2>1. n + i = n + j
    BY <1>1, <1>4 DEF NoTwice
  <2>. QED  BY <2>1
<1>. QED  BY <1>6, <1>7, <1>8, <1>9

-----------------------------------------------------------------------------
(* The calls of passengers who go up from the ground floor. *)

UpFloorCall == {c \in Call : /\ c.ID /= 0 /\ c.isFloorCall /\ ~c.isSpecialCall
                             /\ c.passage /= 0 /\ c.floor = 1 /\ c.direction = 1}
NewFloorCall == {c \in UpFloorCall : c.passage = 1}
UpLiftCall == {c \in Call : /\ c.ID /= 0 /\ ~c.isFloorCall /\ ~c.isSpecialCall
                            /\ c.passage = 1 /\ c.floor > 1 /\ c.direction = 1}
UpCall == UpFloorCall \cup UpLiftCall

\* Where a call stands in a queue: the floor calls of the first passage, the
\* lift calls by floor, the floor calls of the other passages.
Rank(c) == IF c.passage = 1 THEN c.floor ELSE NUM_OF_FLOOR + c.passage

Sorted(list) == \A i, j \in 1..Len(list) : i < j => Rank(list[i]) <= Rank(list[j])

FloorIDs(list) == {c.ID : c \in {k \in Range(list) : k.isFloorCall}}
Lifts(list) == {c \in Range(list) : ~c.isFloorCall}
HasFirst(list) == \E c \in Range(list) : c.isFloorCall /\ c.passage = 1

\* What the fields of such calls may be.
LEMMA RankType ==
  ASSUME NEW c \in UpCall
  PROVE  /\ Rank(c) \in Nat /\ c.direction = 1 /\ ~c.isSpecialCall /\ c.isFloorCall \in BOOLEAN
         /\ c.passage \in 1..3 /\ c.floor \in Floors
         /\ c.isFloorCall => c.floor = 1
         /\ ~c.isFloorCall => c.floor > 1 /\ c.passage = 1
<1>1. c.passage \in 1..3 /\ c.floor \in Floors
  BY BuildingAssumption DEF UpCall, UpFloorCall, UpLiftCall, Call, Floors
<1>2. Rank(c) \in Nat
  BY <1>1, BuildingAssumption DEF Rank, Floors
<1>. QED  BY <1>1, <1>2 DEF UpCall, UpFloorCall, UpLiftCall, Call

\* compareCalls compares their ranks.
LEMMA RanksCompared ==
  ASSUME NEW a \in UpCall, NEW b \in UpCall
  PROVE  compareCalls(a, b) = {Order(Rank(a), Rank(b))}
<1>1. /\ ~a.isSpecialCall /\ ~b.isSpecialCall /\ a.direction = 1
      /\ a.passage \in 1..3 /\ b.passage \in 1..3 /\ a.floor \in Floors /\ b.floor \in Floors
      /\ a.isFloorCall \in BOOLEAN /\ b.isFloorCall \in BOOLEAN
      /\ a.isFloorCall => a.floor = 1
      /\ ~a.isFloorCall => a.floor > 1 /\ a.passage = 1
      /\ b.isFloorCall => b.floor = 1
      /\ ~b.isFloorCall => b.floor > 1 /\ b.passage = 1
  BY RankType
<1>2. PICK x \in 1..3, y \in 1..3, f \in 1..NUM_OF_FLOOR, g \in 1..NUM_OF_FLOOR :
        x = a.passage /\ y = b.passage /\ f = a.floor /\ g = b.floor
  BY <1>1 DEF Floors
<1>3. NUM_OF_FLOOR \in Nat
  BY BuildingAssumption
<1>4. CASE x /= y
  <2>1. compareCalls(a, b) = {Order(x, y)}
    BY <1>1, <1>2, <1>4 DEF compareCalls
  <2>2. Order(x, y) = Order(Rank(a), Rank(b))
    <3>1. Rank(a) = IF x = 1 THEN f ELSE NUM_OF_FLOOR + x
      BY <1>2 DEF Rank
    <3>2. Rank(b) = IF y = 1 THEN g ELSE NUM_OF_FLOOR + y
      BY <1>2 DEF Rank
    <3>. QED  BY <1>3, <1>4, <3>1, <3>2 DEF Order
  <2>. QED  BY <2>1, <2>2
<1>5. CASE x = y /\ f /= g
  <2>1. x = 1
    BY <1>1, <1>2, <1>5
  <2>2. compareCalls(a, b) = {1 * Order(f, g)}
    BY <1>1, <1>2, <1>5 DEF compareCalls
  <2>3. Rank(a) = f /\ Rank(b) = g
    BY <1>2, <1>5, <2>1 DEF Rank
  <2>4. 1 * Order(f, g) = Order(f, g)
    BY DEF Order
  <2>. QED  BY <2>2, <2>3, <2>4
<1>6. CASE x = y /\ f = g
  <2>1. a.isFloorCall = b.isFloorCall
    BY <1>1, <1>2, <1>6
  <2>2. compareCalls(a, b) = {Order(AsInt(a.isFloorCall), AsInt(b.isFloorCall))}
    BY <1>1, <1>2, <1>6 DEF compareCalls
  <2>3. Order(AsInt(a.isFloorCall), AsInt(b.isFloorCall)) = 0
    BY <2>1 DEF Order, AsInt
  <2>4. Rank(a) = Rank(b) /\ Rank(a) \in Nat
    BY <1>2, <1>6, RankType DEF Rank
  <2>5. Order(Rank(a), Rank(b)) = 0
    BY <2>4 DEF Order
  <2>. QED  BY <2>2, <2>3, <2>5
<1>. QED  BY <1>4, <1>5, <1>6

\* An insertion keeps a queue in order.
LEMMA InsertSorted ==
  ASSUME NEW list \in Seq(UpCall), Sorted(list), NEW x \in UpCall,
         NEW p \in InsertPositions(list, x)
  PROVE  p \in 1..(Len(list) + 1) /\ Sorted(InsertAt(list, p, x))
<1>1. Len(list) \in Nat /\ \A i \in 1..Len(list) : list[i] \in UpCall
  BY LenProperties, ElementOfSeq
<1>2. p \in 1..(Len(list) + 1)
  BY DEF InsertPositions
<1>3. \A i \in 1..Len(list) : Rank(list[i]) \in Nat /\ compareCalls(x, list[i]) = {Order(Rank(x), Rank(list[i]))}
  BY <1>1, RankType, RanksCompared
<1>4. Rank(x) \in Nat
  BY RankType
<1>5. p <= Len(list) => Rank(x) < Rank(list[p])
  <2>. SUFFICES ASSUME p <= Len(list) PROVE Rank(x) < Rank(list[p])
    OBVIOUS
  <2>1. p \in 1..Len(list) /\ -1 \in compareCalls(x, list[p])
    BY <1>1, <1>2 DEF InsertPositions
  <2>2. Order(Rank(x), Rank(list[p])) = -1
    BY <1>3, <2>1
  <2>. QED  BY <1>3, <1>4, <2>1, <2>2 DEF Order
<1>6. \A q \in 1..(p - 1) : Rank(list[q]) <= Rank(x)
  <2>. TAKE q \in 1..(p - 1)
  <2>1. q \in 1..Len(list) /\ compareCalls(x, list[q]) /= {-1}
    BY <1>1, <1>2 DEF InsertPositions
  <2>2. Order(Rank(x), Rank(list[q])) /= -1
    BY <1>3, <2>1
  <2>. QED  BY <1>3, <1>4, <2>1, <2>2 DEF Order
<1>7. PICK r : r = InsertAt(list, p, x)
  OBVIOUS
<1>8. /\ Len(r) = Len(list) + 1
      /\ \A i \in 1..Len(r) : r[i] = IF i < p THEN list[i] ELSE IF i = p THEN x ELSE list[i - 1]
  <2>1. /\ InsertAt(list, p, x) \in Seq(UpCall) /\ Len(InsertAt(list, p, x)) = Len(list) + 1
        /\ \A i \in 1..(Len(list) + 1) :
             InsertAt(list, p, x)[i] = IF i < p THEN list[i] ELSE IF i = p THEN x ELSE list[i - 1]
    BY <1>2, InsertedAt
  <2>. QED  BY <1>7, <2>1
<1>9. ASSUME NEW i \in 1..Len(r), NEW j \in 1..Len(r), i < j PROVE Rank(r[i]) <= Rank(r[j])
  <2>1. CASE j < p
    <3>1. i \in 1..Len(list) /\ j \in 1..Len(list) /\ r[i] = list[i] /\ r[j] = list[j]
      BY <1>1, <1>2, <1>8, <1>9, <2>1
    <3>. QED  BY <1>9, <3>1 DEF Sorted
  <2>2. CASE j = p
    <3>1. i \in 1..(p - 1) /\ r[i] = list[i] /\ r[j] = x
      BY <1>2, <1>8, <1>9, <2>2
    <3>. QED  BY <1>6, <3>1
  <2>3. CASE j > p
    <3>1. PICK h \in 1..Len(list) : h = j - 1 /\ r[j] = list[h] /\ h >= p
      BY <1>1, <1>2, <1>8, <2>3
    <3>2. p \in 1..Len(list) /\ Rank(x) < Rank(list[p]) /\ Rank(list[p]) <= Rank(list[h])
      <4>1. p \in 1..Len(list) /\ Rank(x) < Rank(list[p])
        BY <1>1, <1>2, <1>5, <3>1
      <4>2. CASE h = p
        BY <1>3, <4>1, <4>2
      <4>3. CASE h > p
        BY <3>1, <4>1, <4>3 DEF Sorted
      <4>. QED  BY <3>1, <4>1, <4>2, <4>3
    <3>3. CASE i < p
      <4>1. i \in 1..Len(list) /\ r[i] = list[i] /\ i < h
        BY <1>1, <1>2, <1>8, <3>1, <3>3
      <4>. QED  BY <3>1, <4>1 DEF Sorted
    <3>4. CASE i = p
      <4>1. r[i] = x
        BY <1>8, <3>4
      <4>. QED  BY <1>3, <1>4, <3>1, <3>2, <4>1
    <3>5. CASE i > p
      <4>1. i - 1 \in 1..Len(list) /\ r[i] = list[i - 1] /\ i - 1 < h
        BY <1>1, <1>2, <1>8, <1>9, <3>1, <3>5
      <4>. QED  BY <3>1, <4>1 DEF Sorted
    <3>. QED  BY <1>2, <3>3, <3>4, <3>5
  <2>. QED  BY <1>2, <2>1, <2>2, <2>3
<1>. QED  BY <1>2, <1>7, <1>9 DEF Sorted

\* The sorting compares every call with itself, and so leaves them alone.
LEMMA SortsNothing ==
  ASSUME NEW list \in Seq(UpCall)
  PROVE  elevatorCallSequenceSorting(list) = {list}
<1>. DEFINE n == Len(list) - 1
            F == CHOOSE g : Rounds(g, list, n, n * n)
<1>1. CASE list = <<>>
  BY <1>1 DEF elevatorCallSequenceSorting
<1>2. CASE list /= <<>>
  <2>1. n \in Nat /\ Len(list) = n + 1 /\ n * n \in Nat
    BY <1>2, LenProperties, EmptySeq
  <2>2. Rounds(F, list, n, n * n)
    <3>. HIDE DEF n
    <3>. QED  BY <2>1, RoundsExist
  <2>3. elevatorCallSequenceSorting(list) = F[n * n]
    BY <1>2, Zenon DEF elevatorCallSequenceSorting, Rounds
  <2>. HIDE DEF F
  <2>. DEFINE T == {k \in 0..(n * n) : F[k] /= {list}}
  <2>. SUFFICES ASSUME T /= {} PROVE FALSE
    <3>1. n * n \in 0..(n * n)
      BY <2>1
    <3>2. F[n * n] /= {list} => n * n \in T
      BY <3>1
    <3>. HIDE DEF T
    <3>. QED  BY <2>3, <3>2
  <2>4. T \in SUBSET Nat
    BY <2>1
  <2>5. PICK k \in T : \A j \in T : k <= j
    <3>. HIDE DEF T
    <3>. QED  BY <2>4, LeastNumber
  <2>6. k \in 0..(n * n) /\ F[k] /= {list}
    OBVIOUS
  <2>7. F[k] = IF k = 0 THEN {list} ELSE SwapIfAfter(F[k - 1], ((k - 1) \div n) + 1, ((k - 1) % n) + 2)
    BY <2>2, <2>6, Zenon DEF Rounds
  <2>8. k /= 0
    BY <2>6, <2>7
  <2>9. k - 1 \in 0..(n * n) /\ k - 1 \notin T
    BY <2>1, <2>5, <2>6, <2>8
  <2>10. F[k - 1] = {list}
    BY <2>9
  <2>11. ((k - 1) \div n) + 1 \in 1..n
    <3>1. k \in 1..(n * n)
      BY <2>1, <2>6, <2>8
    <3>. HIDE DEF n
    <3>. QED  BY <2>1, <3>1, RoundIndex
  <2>12. PICK i \in 1..Len(list) : \E j : F[k] = SwapIfAfter({list}, i, j)
    <3>1. ((k - 1) \div n) + 1 \in 1..Len(list)
      <4>. HIDE DEF n
      <4>. QED  BY <2>1, <2>11
    <3>. HIDE DEF n
    <3>. QED  BY <2>7, <2>8, <2>10, <3>1
  <2>13. compareCalls(list[i], list[i]) = {0}
    <3>1. list[i] \in UpCall
      BY ElementOfSeq
    <3>2. Rank(list[i]) \in Nat
      BY <3>1, RankType
    <3>. QED  BY <3>1, <3>2, RanksCompared DEF Order
  <2>14. \A j : SwapIfAfter({list}, i, j) = {list}
    BY <2>13 DEF SwapIfAfter
  <2>. QED  BY <2>6, <2>12, <2>14
<1>. QED  BY <1>1, <1>2

\* A list has finitely many nodes.
LEMMA RangeFinite ==
  ASSUME NEW S, NEW list \in Seq(S)
  PROVE  IsFiniteSet(Range(list))
<1>1. Len(list) \in Nat /\ Range(list) = {list[i] : i \in 1..Len(list)}
  BY LenProperties, IDsOf
<1>2. IsFiniteSet(1..Len(list))
  BY <1>1, FS_Interval
<1>3. PICK f : f \in Surjection(1..Len(list), Range(list))
  <2>. DEFINE f == [i \in 1..Len(list) |-> list[i]]
  <2>1. f \in [1..Len(list) -> Range(list)]
    BY <1>1
  <2>2. \A y \in Range(list) : \E i \in 1..Len(list) : f[i] = y
    BY <1>1
  <2>. HIDE DEF f
  <2>. QED  BY <2>1, <2>2 DEF Surjection
<1>. QED  BY <1>2, <1>3, FS_Surjection

\* What a node more or less changes.
LEMMA OneMoreCalls ==
  ASSUME NEW longer, NEW list, NEW x, OneMore(longer, list, x)
  PROVE  /\ IDs(longer) = IDs(list) \cup {x.ID} /\ x.ID \notin IDs(list)
         /\ FloorIDs(longer) = FloorIDs(list) \cup (IF x.isFloorCall THEN {x.ID} ELSE {})
         /\ Lifts(longer) = Lifts(list) \cup (IF x.isFloorCall THEN {} ELSE {x})
         /\ NoTwice(longer) /\ NoTwice(list) /\ x \notin Range(list) /\ x \in Range(longer)
<1>1. /\ Range(longer) = Range(list) \cup {x} /\ x.ID \notin IDs(list)
      /\ NoTwice(longer) /\ NoTwice(list)
  BY DEF OneMore
<1>2. IDs(longer) = IDs(list) \cup {x.ID}
  BY <1>1 DEF IDs
<1>3. FloorIDs(longer) = FloorIDs(list) \cup (IF x.isFloorCall THEN {x.ID} ELSE {})
  BY <1>1 DEF FloorIDs
<1>4. Lifts(longer) = Lifts(list) \cup (IF x.isFloorCall THEN {} ELSE {x})
  BY <1>1 DEF Lifts
<1>5. x \notin Range(list) /\ x \in Range(longer)
  BY <1>1 DEF IDs
<1>. QED  BY <1>1, <1>2, <1>3, <1>4, <1>5

\* The lift calls of a list can be counted, one by one.
LEMMA LiftsCounted ==
  ASSUME NEW S, NEW list \in Seq(S)
  PROVE  /\ IsFiniteSet(Lifts(list)) /\ Cardinality(Lifts(list)) \in Nat
         /\ Lifts(list) = {} <=> Cardinality(Lifts(list)) = 0
         /\ \A x : x \notin Lifts(list) =>
              /\ IsFiniteSet(Lifts(list) \cup {x})
              /\ Cardinality(Lifts(list) \cup {x}) = Cardinality(Lifts(list)) + 1
<1>1. IsFiniteSet(Lifts(list))
  <2>1. Lifts(list) \in SUBSET Range(list)
    BY DEF Lifts
  <2>. QED  BY <2>1, RangeFinite, FS_Subset
<1>. QED  BY <1>1, FS_CardinalityType, FS_EmptySet, FS_AddElement

\* A car that turns down has floor calls only; they come in the second passage.
LEMMA ReassignDown ==
  ASSUME NEW list \in Seq(UpCall), Lifts(list) = {}, NEW here,
         NEW s \in reassignPassagePriority(list, -1, here)
  PROVE  /\ s \in Seq(UpCall) /\ Lifts(s) = {} /\ Sorted(s)
         /\ IDs(s) = IDs(list) /\ FloorIDs(s) = FloorIDs(list) /\ (NoTwice(list) => NoTwice(s))
         /\ \A c \in Range(s) : c.isFloorCall /\ c.passage = 2
<1>. DEFINE again == [i \in DOMAIN list |-> IF list[i].isSpecialCall THEN list[i]
                                           ELSE WithPassage(list[i], -1, here)]
<1>1. /\ Len(list) \in Nat /\ DOMAIN list = 1..Len(list)
      /\ \A i \in 1..Len(list) : list[i] \in UpFloorCall
  <2>1. Range(list) = {list[i] : i \in 1..Len(list)}
    BY IDsOf
  <2>2. \A i \in 1..Len(list) : list[i] \in UpCall /\ list[i].isFloorCall
    BY <2>1, ElementOfSeq DEF Lifts
  <2>. QED  BY <2>2, LenProperties DEF UpCall, UpLiftCall
<1>2. \A i \in 1..Len(list) : /\ again[i] \in UpFloorCall /\ again[i].ID = list[i].ID
                              /\ again[i].passage = 2
  <2>. TAKE i \in 1..Len(list)
  <2>1. PICK c \in UpFloorCall : c = list[i]
    BY <1>1
  <2>2. again[i] = WithPassage(c, -1, here)
    BY <1>1, <2>1 DEF UpFloorCall
  <2>3. PassageFor(c, -1, here) = 2
    BY DEF PassageFor, UpFloorCall
  <2>4. WithPassage(c, -1, here) = [c EXCEPT !.passage = 2]
    BY <2>3 DEF WithPassage
  <2>5. [c EXCEPT !.passage = 2] \in UpFloorCall /\ [c EXCEPT !.passage = 2].ID = c.ID
        /\ [c EXCEPT !.passage = 2].passage = 2
    BY DEF UpFloorCall, Call
  <2>. HIDE DEF again
  <2>. QED  BY <2>1, <2>2, <2>4, <2>5
<1>3. DOMAIN again = 1..Len(list) /\ again \in [1..Len(list) -> UpFloorCall]
  BY <1>1, <1>2
<1>4. s \in elevatorCallSequenceSorting(again)
  BY DEF reassignPassagePriority
<1>. HIDE DEF again
<1>5. again \in Seq(UpFloorCall) /\ Len(again) = Len(list)
  BY <1>1, <1>3
<1>6. again \in Seq(UpCall)
  BY <1>5 DEF UpCall
<1>7. s = again
  BY <1>4, <1>6, SortsNothing
<1>8. /\ \A id : id \in IDs(list) <=> \E i \in 1..Len(list) : list[i].ID = id
      /\ \A id : id \in IDs(s) <=> \E i \in 1..Len(s) : s[i].ID = id
      /\ Range(s) = {s[i] : i \in 1..Len(s)}
  BY <1>6, <1>7, IDsOf
<1>9. \A c \in Range(s) : c.isFloorCall /\ c.passage = 2
  BY <1>2, <1>5, <1>7, <1>8 DEF UpFloorCall
<1>10. IDs(s) = IDs(list)
  <2>1. \A id : id \in IDs(list) <=> id \in IDs(s)
    BY <1>2, <1>5, <1>7, <1>8
  <2>. QED  BY <2>1
<1>11. FloorIDs(s) = IDs(s) /\ FloorIDs(list) = IDs(list)
  <2>1. \A c \in Range(list) : c.isFloorCall
    BY DEF Lifts
  <2>2. {k \in Range(s) : k.isFloorCall} = Range(s) /\ {k \in Range(list) : k.isFloorCall} = Range(list)
    BY <1>9, <2>1
  <2>. QED  BY <2>2 DEF FloorIDs, IDs
<1>12. Lifts(s) = {}
  BY <1>9 DEF Lifts
<1>13. NoTwice(list) => NoTwice(s)
  BY <1>2, <1>5, <1>7 DEF NoTwice
<1>14. Sorted(s)
  <2>1. \A i \in 1..Len(s) : Rank(s[i]) = NUM_OF_FLOOR + 2
    BY <1>2, <1>5, <1>7 DEF Rank
  <2>. QED  BY <2>1, BuildingAssumption DEF Sorted
<1>. QED  BY <1>6, <1>7, <1>9, <1>10, <1>11, <1>12, <1>13, <1>14

\* A car that turns up on the ground floor has them there already.
LEMMA ReassignUp ==
  ASSUME NEW list \in Seq(UpCall), \A c \in Range(list) : c.isFloorCall => c.passage = 2
  PROVE  reassignPassagePriority(list, 1, 1) = {list}
<1>. DEFINE again == [i \in DOMAIN list |-> IF list[i].isSpecialCall THEN list[i]
                                           ELSE WithPassage(list[i], 1, 1)]
<1>1. /\ Len(list) \in Nat /\ DOMAIN list = 1..Len(list) /\ list = [i \in 1..Len(list) |-> list[i]]
      /\ \A i \in 1..Len(list) : list[i] \in UpCall
  BY LenProperties, ElementOfSeq
<1>2. \A i \in 1..Len(list) : list[i].isFloorCall => list[i].passage = 2
  BY IDsOf
<1>3. ASSUME NEW i \in 1..Len(list) PROVE again[i] = list[i]
  <2>1. PICK c \in UpCall : c = list[i]
    BY <1>1
  <2>2. again[i] = WithPassage(c, 1, 1)
    BY <1>1, <2>1, RankType
  <2>3. PassageFor(c, 1, 1) = c.passage
    <3>1. c.direction = 1 /\ c.floor \in 1..NUM_OF_FLOOR /\ NUM_OF_FLOOR \in Nat
      BY RankType, BuildingAssumption DEF Floors
    <3>2. (c.floor - 1) * 1 = c.floor - 1
      BY <3>1
    <3>3. CASE c.isFloorCall
      <4>1. c.floor = 1 /\ c.passage = 2
        BY <1>2, <2>1, <3>3, RankType
      <4>. QED  BY <3>1, <3>2, <4>1 DEF PassageFor
    <3>4. CASE ~c.isFloorCall
      <4>1. c.floor > 1 /\ c.passage = 1
        BY <3>4, RankType
      <4>2. c.floor - 1 > 0
        BY <3>1, <4>1
      <4>. QED  BY <3>1, <3>2, <4>1, <4>2 DEF PassageFor
    <3>. QED  BY <3>3, <3>4
  <2>4. WithPassage(c, 1, 1) = [c EXCEPT !.passage = c.passage]
    BY <2>3 DEF WithPassage
  <2>5. [c EXCEPT !.passage = c.passage] = c
    BY DEF UpCall, UpFloorCall, UpLiftCall, Call
  <2>. HIDE DEF again
  <2>. QED  BY <2>1, <2>2, <2>4, <2>5
<1>4. again = list
  <2>1. again = [i \in 1..Len(list) |-> again[i]]
    BY <1>1
  <2>. HIDE DEF again
  <2>. QED  BY <1>1, <1>3, <2>1
<1>5. reassignPassagePriority(list, 1, 1) = elevatorCallSequenceSorting(again)
  BY DEF reassignPassagePriority
<1>. HIDE DEF again
<1>. QED  BY <1>4, <1>5, SortsNothing

-----------------------------------------------------------------------------
(* A car under the traffic that goes up from the ground floor. *)

\* What its lists hold.
UpLists(A, L, Q, D) ==
  A \in Seq(NewFloorCall) /\ L \in Seq(UpLiftCall) /\ Q \in Seq(UpCall) /\ D \in Seq(UpFloorCall)

\* Every passenger given to the car and not yet aboard has one floor call, in one
\* of three lists, and one lift call; nobody's ID is in a list twice.
Ticketed(A, L, Q, D) ==
  /\ NoTwice(A) /\ NoTwice(L) /\ NoTwice(Q) /\ NoTwice(D)
  /\ IDs(A) \cap IDs(Q) = {} /\ IDs(A) \cap IDs(D) = {} /\ IDs(Q) \cap IDs(D) = {}
  /\ IDs(L) = IDs(A) \cup IDs(D) \cup FloorIDs(Q)

\* The queue is in order and lies ahead: lift calls only above a car with a
\* direction, floor calls of the first passage only before the car leaves the
\* ground floor, those of a car on its way down in the second.
Heading(Q, direction, here) ==
  /\ Sorted(Q) /\ direction \in -1..1
  /\ \A c \in Range(Q) :
       /\ c.isFloorCall => /\ c.passage = 1 => direction = 0 \/ here = 1
                           /\ direction = -1 => c.passage = 2
       /\ ~c.isFloorCall => /\ c.floor >= here /\ direction /= 0
                            /\ direction = -1 => here = 1

\* The load is the number of lift calls being served, and with those about to
\* board no more than there is room for; a floor call of the first passage
\* stays behind riders only if the car is full.
Filled(Q, D, load) ==
  /\ load = Cardinality(Lifts(Q)) /\ load + Len(D) <= CAPACITY
  /\ HasFirst(Q) /\ (Lifts(Q) /= {} \/ D /= <<>>) => load + Len(D) = CAPACITY

\* The calls a stop still has to take off are the first ones of the queue: lift
\* calls of this floor, then, on the ground floor, floor calls, all of them or as
\* many as there is room for.
TakesOff(Q, lift_call_count, floor_call_count, load, here) ==
  /\ \A i \in 1..Len(Q) : i <= lift_call_count => ~Q[i].isFloorCall /\ Q[i].floor = here
  /\ here /= 1 => floor_call_count = 0
  /\ here = 1 =>
       /\ lift_call_count = 0 /\ floor_call_count <= CAPACITY - load
       /\ \A i \in 1..Len(Q) : i <= floor_call_count => Q[i].isFloorCall
       /\ \/ floor_call_count = CAPACITY - load
          \/ \A i \in 1..Len(Q) : i > floor_call_count => ~Q[i].isFloorCall

AtStop(car, sim) ==
  /\ sim.pc /= "exited"
  /\ sim.pc /= "loop" => car.direction /= 0
  /\ sim.pc \notin {"loop", "closing"} => /\ sim.target.floor = car.current_floor
                                          /\ sim.target.direction = 1
  /\ sim.pc \notin {"board", "onfloor", "loading"} => sim.deletedFloorCallList = <<>>
  /\ sim.deletedFloorCallList /= <<>> => car.current_floor = 1
  /\ sim.pc = "opening" /\ car.current_floor = 1 /\ Lifts(car.callSequence) /= {} => car.load = CAPACITY
  /\ sim.pc = "unloading" => car.current_floor /= 1
  /\ sim.pc \in {"unload", "unloading"} =>
       TakesOff(car.callSequence, sim.lift_call_count, sim.floor_call_count, car.load, car.current_floor)

CarFacts(car, sim) ==
  /\ UpLists(car.floorCalls, car.liftCalls, car.callSequence, sim.deletedFloorCallList)
  /\ Ticketed(car.floorCalls, car.liftCalls, car.callSequence, sim.deletedFloorCallList)
  /\ Heading(car.callSequence, car.direction, car.current_floor)
  /\ Filled(car.callSequence, sim.deletedFloorCallList, car.load)
  /\ AtStop(car, sim)

-----------------------------------------------------------------------------
(* The tickets, step by step. *)

\* The IDs of a list of floor calls.
LEMMA FloorIDsOf ==
  ASSUME NEW list
  PROVE  /\ FloorIDs(list) \subseteq IDs(list)
         /\ Lifts(list) = {} => FloorIDs(list) = IDs(list)
<1>1. FloorIDs(list) \subseteq IDs(list)
  BY DEF FloorIDs, IDs
<1>2. ASSUME Lifts(list) = {} PROVE FloorIDs(list) = IDs(list)
  <2>1. {k \in Range(list) : k.isFloorCall} = Range(list)
    BY <1>2 DEF Lifts
  <2>. QED  BY <2>1 DEF FloorIDs, IDs
<1>. QED  BY <1>1, <1>2

\* A floor call moves into the queue.
LEMMA AssignTickets ==
  ASSUME NEW A, NEW L, NEW Q, NEW D, NEW B, NEW R, NEW a, NEW c, Ticketed(A, L, Q, D),
         OneMore(A, B, a), OneMore(R, Q, c), c.ID = a.ID, c.isFloorCall
  PROVE  Ticketed(B, L, R, D)
<1>1. /\ IDs(A) = IDs(B) \cup {c.ID} /\ c.ID \notin IDs(B) /\ NoTwice(B)
  BY OneMoreCalls
<1>2. /\ IDs(R) = IDs(Q) \cup {c.ID} /\ FloorIDs(R) = FloorIDs(Q) \cup {c.ID} /\ NoTwice(R)
  BY OneMoreCalls
<1>. QED  BY <1>1, <1>2 DEF Ticketed

\* A lift call leaves the queue.
LEMMA UnloadTickets ==
  ASSUME NEW A, NEW L, NEW Q, NEW D, NEW R, NEW c, Ticketed(A, L, Q, D),
         OneMore(Q, R, c), ~c.isFloorCall
  PROVE  Ticketed(A, L, R, D)
<1>1. /\ IDs(Q) = IDs(R) \cup {c.ID} /\ FloorIDs(Q) = FloorIDs(R) /\ NoTwice(R)
  <2>1. FloorIDs(Q) = FloorIDs(R) \cup {}
    BY OneMoreCalls
  <2>. QED  BY <2>1, OneMoreCalls
<1>. QED  BY <1>1 DEF Ticketed

\* The floor calls at the head of the queue become the deleted ones.
LEMMA CollectTickets ==
  ASSUME NEW A, NEW L, NEW Q, NEW R, NEW D, Ticketed(A, L, Q, <<>>),
         Range(Q) = Range(D) \cup Range(R), IDs(D) \cap IDs(R) = {}, NoTwice(D), NoTwice(R),
         Lifts(D) = {}
  PROVE  Ticketed(A, L, R, D)
<1>1. IDs(Q) = IDs(D) \cup IDs(R) /\ FloorIDs(Q) = FloorIDs(D) \cup FloorIDs(R)
  BY DEF IDs, FloorIDs
<1>2. FloorIDs(D) = IDs(D) /\ IDs(<<>>) = {}
  BY FloorIDsOf DEF IDs, Range
<1>. QED  BY <1>1, <1>2 DEF Ticketed

\* A deleted floor call and its lift call give way to the lift call in the queue.
LEMMA AcceptTickets ==
  ASSUME NEW A, NEW L, NEW Q, NEW D, NEW M, NEW R, NEW E, NEW d, NEW c, Ticketed(A, L, Q, D),
         OneMore(D, E, d), OneMore(L, M, c), OneMore(R, Q, c), c.ID = d.ID, ~c.isFloorCall
  PROVE  Ticketed(A, M, R, E)
<1>1. /\ IDs(D) = IDs(E) \cup {c.ID} /\ c.ID \notin IDs(E) /\ NoTwice(E)
  BY OneMoreCalls
<1>2. /\ IDs(L) = IDs(M) \cup {c.ID} /\ c.ID \notin IDs(M) /\ NoTwice(M)
  BY OneMoreCalls
<1>3. /\ IDs(R) = IDs(Q) \cup {c.ID} /\ FloorIDs(R) = FloorIDs(Q) /\ NoTwice(R)
  <2>1. FloorIDs(R) = FloorIDs(Q) \cup {}
    BY OneMoreCalls
  <2>. QED  BY <2>1, OneMoreCalls
<1>4. FloorIDs(Q) \subseteq IDs(Q)
  BY FloorIDsOf
<1>. QED  BY <1>1, <1>2, <1>3, <1>4 DEF Ticketed

\* The scheduler gives the car a floor call and a lift call.
LEMMA GivenTickets ==
  ASSUME NEW A, NEW L, NEW Q, NEW D, NEW B, NEW M, NEW f, NEW l, Ticketed(A, L, Q, D),
         OneMore(B, A, f), OneMore(M, L, l), f.ID = l.ID, l.ID \notin IDs(Q)
  PROVE  Ticketed(B, M, Q, D)
<1>1. /\ IDs(B) = IDs(A) \cup {l.ID} /\ l.ID \notin IDs(A) /\ NoTwice(B)
  BY OneMoreCalls
<1>2. /\ IDs(M) = IDs(L) \cup {l.ID} /\ l.ID \notin IDs(L) /\ NoTwice(M)
  BY OneMoreCalls
<1>. QED  BY <1>1, <1>2 DEF Ticketed

-----------------------------------------------------------------------------
(* The steps of a car. *)

\* A car's step takes no new passenger in hand.
Within(new, car) ==
  IDs(new.liftCalls) \cup IDs(new.callSequence) \subseteq IDs(car.liftCalls) \cup IDs(car.callSequence)

\* A passenger sees no difference.
SameService(new, car) ==
  new.liftCalls = car.liftCalls /\ Lifts(new.callSequence) = Lifts(car.callSequence)

\* The ranges of the fields the facts are about.
LEMMA FirstFields ==
  ASSUME NEW car \in Car, NEW sim \in Simulation
  PROVE  /\ car.load \in 0..CAPACITY /\ car.current_floor \in Floors
         /\ sim.lift_call_count \in Nat /\ sim.floor_call_count \in Nat /\ CAPACITY \in Nat /\ CAPACITY > 0
BY ModelAssumption DEF Car, Simulation

\* What is given to a queue when it is assigned.
LEMMA AssignedCall ==
  ASSUME NEW h \in NewFloorCall, NEW direction \in -1..1, NEW here \in Floors
  PROVE  \E c \in UpFloorCall :
           /\ WithPassage(h, direction, here) = c /\ c.ID = h.ID
           /\ c.passage = IF direction = 0 THEN 1 ELSE IF direction = 1 /\ here > 1 THEN 3 ELSE 2
<1>. DEFINE p == IF direction = 0 THEN 1 ELSE IF direction = 1 /\ here > 1 THEN 3 ELSE 2
<1>1. h.floor = 1 /\ h.direction = 1 /\ h.passage = 1 /\ here \in Nat /\ here >= 1
  BY BuildingAssumption DEF NewFloorCall, UpFloorCall, Floors
<1>2. PassageFor(h, direction, here) = p
  <2>1. CASE direction = 0
    BY <1>1, <2>1 DEF PassageFor
  <2>2. CASE direction = 1
    <3>1. (1 - here) * 1 = 1 - here /\ ~(1 - here > 0) /\ (1 - here < 0 <=> here > 1)
      BY <1>1
    <3>. QED  BY <1>1, <2>2, <3>1 DEF PassageFor
  <2>3. CASE direction = -1
    BY <1>1, <2>3 DEF PassageFor
  <2>. QED  BY <2>1, <2>2, <2>3
<1>3. WithPassage(h, direction, here) = [h EXCEPT !.passage = p]
  BY <1>2 DEF WithPassage
<1>4. p \in 1..3
  OBVIOUS
<1>5. \A q \in 1..3 : /\ [h EXCEPT !.passage = q] \in UpFloorCall /\ [h EXCEPT !.passage = q].ID = h.ID
                      /\ [h EXCEPT !.passage = q].passage = q
  <2>. TAKE q \in 1..3
  <2>. DEFINE k == [h EXCEPT !.passage = q]
  <2>1. h \in Call /\ h \in UpFloorCall
    BY DEF NewFloorCall, UpFloorCall
  <2>2. /\ k \in Call /\ k.ID = h.ID /\ k.isFloorCall = h.isFloorCall /\ k.isSpecialCall = h.isSpecialCall
        /\ k.passage = q /\ k.floor = h.floor /\ k.direction = h.direction
    BY <2>1 DEF Call
  <2>. HIDE DEF k
  <2>3. k \in UpFloorCall
    BY <2>1, <2>2 DEF UpFloorCall
  <2>. QED  BY <2>2, <2>3 DEF k
<1>. QED  BY <1>3, <1>4, <1>5, ZenonT(30)

\* What a queue is like after a call has been put in its place.
LEMMA QueueInserted ==
  ASSUME NEW list \in Seq(UpCall), Sorted(list), NoTwice(list), NEW c \in UpCall, c.ID \notin IDs(list),
         NEW queue \in insertPriorityCall(list, c)
  PROVE  /\ queue \in Seq(UpCall) /\ Sorted(queue) /\ OneMore(queue, list, c)
         /\ \A n \in 0..Len(list) : (\A i \in 1..n : Rank(list[i]) <= Rank(c))
               => \A i \in 1..n : i \in 1..Len(queue) /\ queue[i] = list[i]
<1>1. PICK p \in InsertPositions(list, c) : queue = InsertAt(list, p, c)
  BY DEF insertPriorityCall
<1>2. p \in 1..(Len(list) + 1) /\ Sorted(InsertAt(list, p, c))
  BY InsertSorted
<1>3. OneMore(InsertAt(list, p, c), list, c)
  BY <1>2, InsertsOne
<1>4. /\ InsertAt(list, p, c) \in Seq(UpCall) /\ Len(InsertAt(list, p, c)) = Len(list) + 1
      /\ \A i \in 1..(Len(list) + 1) :
           InsertAt(list, p, c)[i] = IF i < p THEN list[i] ELSE IF i = p THEN c ELSE list[i - 1]
  BY <1>2, InsertedAt
<1>5. Len(list) \in Nat /\ Rank(c) \in Nat
  BY LenProperties, RankType
<1>6. ASSUME NEW n \in 0..Len(list), \A i \in 1..n : Rank(list[i]) <= Rank(c), NEW i \in 1..n
      PROVE  i \in 1..Len(queue) /\ queue[i] = list[i]
  <2>1. p > n
    <3>. SUFFICES ASSUME p <= n PROVE FALSE
      BY <1>2, <1>5
    <3>1. p \in 1..Len(list) /\ p \in 1..n /\ p <= Len(list)
      BY <1>2, <1>5
    <3>2. -1 \in compareCalls(c, list[p])
      BY <3>1 DEF InsertPositions
    <3>3. list[p] \in UpCall /\ Rank(list[p]) \in Nat /\ Rank(list[p]) <= Rank(c)
      BY <1>6, <3>1, ElementOfSeq, RankType
    <3>4. Order(Rank(c), Rank(list[p])) = -1
      BY <3>2, <3>3, RanksCompared
    <3>. QED  BY <1>5, <3>3, <3>4 DEF Order
  <2>2. i \in 1..(Len(list) + 1) /\ i < p
    BY <1>2, <1>5, <2>1
  <2>. QED  BY <1>1, <1>4, <2>2
<1>. QED  BY <1>1, <1>2, <1>3, <1>4, <1>6

\* elevatorAssignFloorCallProcess puts a floor call in its place.
LEMMA AssignFacts ==
  ASSUME NEW car \in Car, NEW sim \in Simulation, CarFacts(car, sim), Fits(sim, car),
         sim.pc \notin AwakeAtStop, car.floorCalls /= <<>>,
         NEW call, call = WithPassage(Head(car.floorCalls), car.direction, car.current_floor),
         NEW queue \in insertPriorityCall(car.callSequence, call),
         NEW new, new = [car EXCEPT !.callSequence = queue, !.floorCalls = Tail(car.floorCalls)]
  PROVE  CarFacts(new, sim) /\ Within(new, car) /\ SameService(new, car)
<1>. DEFINE A == car.floorCalls
            L == car.liftCalls
            Q == car.callSequence
            D == sim.deletedFloorCallList
<1>1. /\ UpLists(A, L, Q, D) /\ Ticketed(A, L, Q, D) /\ Heading(Q, car.direction, car.current_floor)
      /\ Filled(Q, D, car.load) /\ AtStop(car, sim)
  BY DEF CarFacts
<1>2. /\ new.floorCalls = Tail(A) /\ new.liftCalls = L /\ new.callSequence = queue
      /\ new.load = car.load /\ new.current_floor = car.current_floor /\ new.direction = car.direction
  BY DEF Car
<1>3. PICK direction \in -1..1, here \in Floors : direction = car.direction /\ here = car.current_floor
  BY <1>1, FirstFields DEF Heading
<1>4. A \in Seq(NewFloorCall) /\ L \in Seq(UpLiftCall) /\ Q \in Seq(UpCall) /\ D \in Seq(UpFloorCall)
  BY <1>1 DEF UpLists
<1>. HIDE DEF A, L, Q, D
<1>5. PICK h \in NewFloorCall : h = Head(A) /\ OneMore(A, Tail(A), h) /\ Tail(A) \in Seq(NewFloorCall)
  <2>1. A /= <<>> /\ NoTwice(A)
    BY <1>1 DEF A, Ticketed
  <2>. QED  BY <1>4, <2>1, TailOne, HeadTailProperties
<1>6. PICK c \in UpFloorCall :
        /\ call = c /\ c.ID = h.ID
        /\ c.passage = IF direction = 0 THEN 1 ELSE IF direction = 1 /\ here > 1 THEN 3 ELSE 2
  BY <1>3, <1>5, AssignedCall DEF A
<1>7. c \in UpCall /\ c.isFloorCall
  BY DEF UpCall, UpFloorCall
<1>8. c.ID \notin IDs(Q) /\ c.ID \in IDs(L) /\ NoTwice(Q)
  <2>1. h.ID \in IDs(A)
    BY <1>5, OneMoreCalls
  <2>. QED  BY <1>1, <1>6, <2>1 DEF Ticketed
<1>9. Sorted(Q) /\ queue \in insertPriorityCall(Q, c)
  BY <1>1, <1>6 DEF Heading, Q
<1>10. queue \in Seq(UpCall) /\ Sorted(queue)
  BY <1>4, <1>7, <1>8, <1>9, QueueInserted
<1>11. OneMore(queue, Q, c)
  BY <1>4, <1>7, <1>8, <1>9, QueueInserted
<1>12. \A n \in 0..Len(Q) : (\A i \in 1..n : Rank(Q[i]) <= Rank(c))
               => \A i \in 1..n : i \in 1..Len(queue) /\ queue[i] = Q[i]
  BY <1>4, <1>7, <1>8, <1>9, QueueInserted
<1>13. /\ Range(queue) = Range(Q) \cup {c} /\ Lifts(queue) = Lifts(Q) /\ IDs(queue) = IDs(Q) \cup {c.ID}
  <2>1. Lifts(queue) = Lifts(Q) \cup {} /\ IDs(queue) = IDs(Q) \cup {c.ID}
    BY <1>7, <1>11, OneMoreCalls
  <2>. QED  BY <1>11, <2>1 DEF OneMore
<1>14. UpLists(Tail(A), L, queue, D)
  BY <1>4, <1>5, <1>10 DEF UpLists
<1>15. Ticketed(Tail(A), L, queue, D)
  BY <1>1, <1>5, <1>6, <1>7, <1>11, AssignTickets
<1>16. Heading(queue, direction, here)
  BY <1>1, <1>3, <1>6, <1>7, <1>10, <1>13 DEF Heading
<1>17. Filled(queue, D, car.load)
  <2>1. c.passage = 1 => Lifts(Q) = {} /\ D = <<>>
    <3>. SUFFICES ASSUME direction = 0 PROVE Lifts(Q) = {} /\ D = <<>>
      BY <1>6
    <3>1. Lifts(Q) = {}
      BY <1>1, <1>3 DEF Heading, Lifts
    <3>2. sim.pc = "loop"
      BY <1>1, <1>3 DEF AtStop
    <3>. QED  BY <1>1, <3>1, <3>2 DEF AtStop, D
  <2>2. HasFirst(queue) => HasFirst(Q) \/ c.passage = 1
    BY <1>13 DEF HasFirst
  <2>. QED  BY <1>1, <1>13, <2>1, <2>2 DEF Filled
<1>18. AtStop(new, sim)
  <2>1. ASSUME sim.pc = "unloading"
        PROVE  TakesOff(queue, sim.lift_call_count, sim.floor_call_count, car.load, car.current_floor)
    <3>1. /\ TakesOff(Q, sim.lift_call_count, sim.floor_call_count, car.load, here) /\ here /= 1
          /\ direction /= 0
      BY <1>1, <1>3, <2>1 DEF AtStop, Q
    <3>2. PICK n \in Nat : n = sim.lift_call_count /\ n <= Len(Q)
      <4>1. sim.lift_call_count + sim.floor_call_count <= Len(Q) /\ Len(Q) \in Nat
        BY <1>4, <2>1, LenProperties DEF Fits, Q
      <4>2. PICK n \in Nat, m \in Nat : n = sim.lift_call_count /\ m = sim.floor_call_count
        BY FirstFields
      <4>3. n <= Len(Q)
        BY <4>1, <4>2
      <4>. QED  BY <4>2, <4>3
    <3>3. Rank(c) > NUM_OF_FLOOR /\ Rank(c) \in Nat
      <4>1. c.passage \in {2, 3}
        BY <1>6, <3>1
      <4>. QED  BY <4>1, BuildingAssumption DEF Rank
    <3>4. \A i \in 1..Len(Q) : i <= n => Rank(Q[i]) <= NUM_OF_FLOOR
      <4>. SUFFICES ASSUME NEW i \in 1..Len(Q), i <= n PROVE Rank(Q[i]) <= NUM_OF_FLOOR
        OBVIOUS
      <4>1. ~Q[i].isFloorCall /\ Q[i] \in UpCall
        BY <1>4, <3>1, <3>2, ElementOfSeq DEF TakesOff
      <4>2. Q[i].passage = 1 /\ Q[i].floor \in Floors
        BY <4>1, RankType
      <4>. QED  BY <4>2, BuildingAssumption DEF Rank, Floors
    <3>5. n \in 0..Len(Q) /\ \A i \in 1..n : Rank(Q[i]) <= Rank(c)
      <4>1. Len(Q) \in Nat
        BY <1>4, LenProperties
      <4>2. n \in 0..Len(Q) /\ \A i \in 1..n : i \in 1..Len(Q) /\ i <= n
        BY <3>2, <4>1
      <4>3. \A i \in 1..n : Rank(Q[i]) \in Nat
        BY <1>4, <4>2, ElementOfSeq, RankType
      <4>. QED  BY <3>3, <3>4, <4>2, <4>3, BuildingAssumption
    <3>6. \A i \in 1..Len(queue) : i <= n => ~queue[i].isFloorCall /\ queue[i].floor = here
      <4>. SUFFICES ASSUME NEW i \in 1..Len(queue), i <= n PROVE ~queue[i].isFloorCall /\ queue[i].floor = here
        OBVIOUS
      <4>1. i \in 1..n /\ i \in 1..Len(Q)
        BY <1>4, <3>2, <3>5, LenProperties
      <4>2. queue[i] = Q[i]
        BY <1>12, <3>5, <4>1
      <4>. QED  BY <3>1, <3>2, <4>1, <4>2 DEF TakesOff
    <3>. QED  BY <1>3, <3>1, <3>2, <3>6 DEF TakesOff
  <2>2. sim.pc /= "unload"
    BY DEF AwakeAtStop
  <2>. QED  BY <1>1, <1>2, <1>13, <2>1, <2>2 DEF AtStop, Q
<1>19. Within(new, car) /\ SameService(new, car)
  BY <1>2, <1>8, <1>13 DEF Within, SameService, Q, L
<1>. QED  BY <1>2, <1>3, <1>14, <1>15, <1>16, <1>17, <1>18, <1>19 DEF CarFacts, A, L, Q, D

\* Where a call stands, by its kind.
LEMMA RankCases ==
  ASSUME NEW c \in UpCall
  PROVE  /\ c.isFloorCall /\ c.passage = 1 => Rank(c) = 1
         /\ c.isFloorCall /\ c.passage /= 1 => Rank(c) > NUM_OF_FLOOR
         /\ ~c.isFloorCall => Rank(c) = c.floor /\ Rank(c) \in 2..NUM_OF_FLOOR
<1>1. /\ c.passage \in 1..3 /\ c.floor \in 1..NUM_OF_FLOOR /\ NUM_OF_FLOOR \in Nat
      /\ c.isFloorCall => c.floor = 1
      /\ ~c.isFloorCall => c.floor > 1 /\ c.passage = 1
  BY RankType, BuildingAssumption DEF Floors
<1>2. PICK x \in 1..3, f \in 1..NUM_OF_FLOOR : x = c.passage /\ f = c.floor
  BY <1>1
<1>3. Rank(c) = IF x = 1 THEN f ELSE NUM_OF_FLOOR + x
  BY <1>2 DEF Rank
<1>. QED  BY <1>1, <1>2, <1>3

\* The head of a queue in order.
LEMMA HeadOf ==
  ASSUME NEW list \in Seq(UpCall), list /= <<>>, Sorted(list)
  PROVE  /\ Head(list) \in UpCall /\ Head(list) \in Range(list) /\ Head(list) = list[1]
         /\ \A c \in Range(list) : c \in UpCall /\ Rank(Head(list)) <= Rank(c)
<1>1. Len(list) \in Nat \ {0} /\ Head(list) = list[1]
  BY HeadTailProperties, EmptySeq
<1>2. Range(list) = {list[i] : i \in 1..Len(list)} /\ \A i \in 1..Len(list) : list[i] \in UpCall
  BY IDsOf, ElementOfSeq
<1>3. 1 \in 1..Len(list)
  BY <1>1
<1>4. \A i \in 1..Len(list) : Rank(list[1]) <= Rank(list[i])
  <2>. TAKE i \in 1..Len(list)
  <2>1. CASE i = 1
    BY <1>2, <1>3, <2>1, RankType
  <2>2. CASE i > 1
    BY <1>3, <2>2 DEF Sorted
  <2>. QED  BY <2>1, <2>2
<1>. QED  BY <1>1, <1>2, <1>3, <1>4

\* Where a car with a target goes, and with which queue.
Course(Q, direction, here) ==
  [heading : {Order(Head(Q).floor, here)},
   queue : IF (IF direction = 0 THEN Head(Q).direction ELSE direction) = Order(Head(Q).floor, here)
           THEN {Q}
           ELSE reassignPassagePriority(Q, Order(Head(Q).floor, here), here)]

\* A car whose target is on another floor goes up to riders' floors with its queue
\* as it is, or down with floor calls only: there is a floor on that side.
LEMMA CourseFacts ==
  ASSUME NEW Q \in Seq(UpCall), Q /= <<>>, NEW direction \in -1..1, NEW here \in Floors,
         Heading(Q, direction, here), Head(Q).floor /= here,
         NEW course \in Course(Q, direction, here)
  PROVE  /\ course.heading \in {-1, 1} /\ here + course.heading \in Floors
         /\ course.queue \in Seq(UpCall) /\ Lifts(course.queue) = Lifts(Q)
         /\ IDs(course.queue) = IDs(Q) /\ FloorIDs(course.queue) = FloorIDs(Q)
         /\ NoTwice(Q) => NoTwice(course.queue)
         /\ HasFirst(course.queue) => HasFirst(Q)
         /\ Heading(course.queue, course.heading, here)
         /\ Heading(course.queue, course.heading, here + course.heading)
<1>. DEFINE h == course.heading
            s == course.queue
<1>1. PICK t \in UpCall : t = Head(Q) /\ t \in Range(Q) /\ t.direction = 1 /\ t.floor \in Floors
  BY HeadOf, RankType DEF Heading
<1>2. /\ \A c \in Range(Q) : c \in UpCall /\ Rank(t) <= Rank(c)
      /\ \A c \in Range(Q) : Rank(c) \in Nat /\ c.floor \in Nat
      /\ \A c \in Range(Q) :
           /\ c.isFloorCall => /\ c.passage = 1 => direction = 0 \/ here = 1
                               /\ direction = -1 => c.passage = 2
           /\ ~c.isFloorCall => /\ c.floor >= here /\ direction /= 0
                                /\ direction = -1 => here = 1
  <2>1. \A c \in Range(Q) : c \in UpCall /\ Rank(t) <= Rank(c)
    BY <1>1, HeadOf DEF Heading
  <2>2. \A c \in Range(Q) : Rank(c) \in Nat /\ c.floor \in Nat
    BY <2>1, RankType DEF Floors
  <2>. QED  BY <2>1, <2>2 DEF Heading
<1>3. /\ h = Order(t.floor, here)
      /\ s = Q \/ s \in reassignPassagePriority(Q, h, here)
      /\ (IF direction = 0 THEN 1 ELSE direction) = h => s = Q
      /\ (IF direction = 0 THEN 1 ELSE direction) /= h => s \in reassignPassagePriority(Q, h, here)
  BY <1>1 DEF Course
<1>4. /\ here \in 1..NUM_OF_FLOOR /\ t.floor \in 1..NUM_OF_FLOOR /\ NUM_OF_FLOOR \in Nat /\ t.floor /= here
      /\ t.isFloorCall => t.floor = 1
      /\ ~t.isFloorCall => t.floor > 1
      /\ t.isFloorCall \in BOOLEAN /\ Rank(t) \in Nat
  BY <1>1, RankType, BuildingAssumption DEF Floors
<1>. HIDE DEF h, s
<1>5. CASE ~t.isFloorCall
  <2>1. t.floor > here /\ h = 1 /\ here + 1 \in Floors
    <3>1. t.floor >= here
      BY <1>1, <1>2, <1>5
    <3>2. t.floor > here
      BY <1>4, <3>1
    <3>. QED  BY <1>3, <1>4, <3>2 DEF Order, Floors
  <2>2. s = Q
    <3>1. direction /= 0 /\ (direction = -1 => here = 1)
      BY <1>1, <1>2, <1>5
    <3>2. CASE direction = 1
      BY <1>3, <2>1, <3>2
    <3>3. CASE direction = -1
      <4>1. here = 1 /\ \A c \in Range(Q) : c.isFloorCall => c.passage = 2
        BY <1>2, <3>1, <3>3
      <4>2. reassignPassagePriority(Q, 1, 1) = {Q}
        BY <4>1, ReassignUp
      <4>3. s \in reassignPassagePriority(Q, 1, 1)
        BY <1>3, <2>1, <3>3, <4>1
      <4>. QED  BY <4>2, <4>3
    <3>. QED  BY <3>1, <3>2, <3>3
  <2>3. \A c \in Range(Q) : /\ c.isFloorCall => c.passage /= 1
                            /\ ~c.isFloorCall => c.floor >= here /\ c.floor >= here + 1
    <3>. TAKE c \in Range(Q)
    <3>1. Rank(t) \in 2..NUM_OF_FLOOR /\ Rank(t) = t.floor /\ Rank(t) <= Rank(c) /\ c \in UpCall
      BY <1>2, <1>5, RankCases
    <3>2. c.isFloorCall => c.passage /= 1
      BY <3>1, RankCases
    <3>3. ~c.isFloorCall => Rank(c) = c.floor /\ Rank(c) \in Nat
      BY <3>1, RankCases
    <3>. QED  BY <1>4, <2>1, <3>1, <3>2, <3>3
  <2>4. Heading(Q, 1, here) /\ Heading(Q, 1, here + 1)
    BY <2>3 DEF Heading
  <2>. QED  BY <2>1, <2>2, <2>4 DEF h, s
<1>6. CASE t.isFloorCall
  <2>1. t.floor = 1 /\ here > 1 /\ h = -1 /\ here - 1 \in Floors /\ here + (-1) = here - 1
    <3>1. t.floor = 1 /\ here > 1
      BY <1>1, <1>4, <1>6, RankType
    <3>. QED  BY <1>3, <1>4, <3>1 DEF Order, Floors
  <2>2. Lifts(Q) = {}
    <3>. SUFFICES ASSUME NEW c \in Range(Q), ~c.isFloorCall PROVE FALSE
      BY DEF Lifts
    <3>1. direction = 1
      BY <1>2, <2>1
    <3>2. t.passage /= 1
      BY <1>1, <1>2, <1>6, <2>1, <3>1
    <3>3. Rank(t) > NUM_OF_FLOOR
      BY <1>6, <3>2, RankCases
    <3>4. Rank(t) <= Rank(c) /\ Rank(c) \in 2..NUM_OF_FLOOR
      BY <1>2, RankCases
    <3>. QED  BY <1>4, <3>3, <3>4
  <2>3. CASE direction = -1
    <3>1. s = Q
      BY <1>3, <2>1, <2>3
    <3>2. Heading(Q, -1, here) /\ Heading(Q, -1, here - 1)
      <4>1. \A c \in Range(Q) : c.isFloorCall /\ c.passage = 2
        BY <1>2, <2>2, <2>3 DEF Lifts
      <4>. QED  BY <4>1 DEF Heading
    <3>. QED  BY <2>1, <3>1, <3>2 DEF h, s
  <2>4. CASE direction /= -1
    <3>1. s \in reassignPassagePriority(Q, -1, here)
      BY <1>3, <2>1, <2>4
    <3>2. /\ s \in Seq(UpCall) /\ Lifts(s) = {} /\ Sorted(s)
          /\ IDs(s) = IDs(Q) /\ FloorIDs(s) = FloorIDs(Q) /\ (NoTwice(Q) => NoTwice(s))
          /\ \A c \in Range(s) : c.isFloorCall /\ c.passage = 2
      BY <2>2, <3>1, ReassignDown
    <3>3. Heading(s, -1, here) /\ Heading(s, -1, here - 1)
      BY <3>2 DEF Heading
    <3>4. ~HasFirst(s)
      BY <3>2 DEF HasFirst
    <3>. QED  BY <2>1, <2>2, <3>2, <3>3, <3>4 DEF h, s
  <2>. QED  BY <2>3, <2>4
<1>. QED  BY <1>4, <1>5, <1>6

\* What CarFacts says, list by list.
LEMMA FactsOf ==
  ASSUME NEW car \in Car, NEW sim \in Simulation, CarFacts(car, sim)
  PROVE  /\ car.floorCalls \in Seq(NewFloorCall) /\ car.liftCalls \in Seq(UpLiftCall)
         /\ car.callSequence \in Seq(UpCall) /\ sim.deletedFloorCallList \in Seq(UpFloorCall)
         /\ NoTwice(car.liftCalls) /\ NoTwice(car.callSequence) /\ NoTwice(sim.deletedFloorCallList)
         /\ Sorted(car.callSequence)
         /\ car.load \in 0..CAPACITY /\ car.current_floor \in Floors /\ car.direction \in -1..1
         /\ car.load = Cardinality(Lifts(car.callSequence))
         /\ car.load + Len(sim.deletedFloorCallList) <= CAPACITY
         /\ sim.pc /= "exited"
BY FirstFields DEF CarFacts, UpLists, Ticketed, Heading, Filled, AtStop

\* A step of the car or of its process that leaves the queue alone.
LEMMA QueueKept ==
  ASSUME NEW car \in Car, NEW sim \in Simulation, CarFacts(car, sim), NEW new \in Car, NEW q \in Simulation,
         new.floorCalls = car.floorCalls, new.liftCalls = car.liftCalls, new.callSequence = car.callSequence,
         q.deletedFloorCallList = sim.deletedFloorCallList, new.load = car.load,
         new.current_floor = car.current_floor, new.direction = car.direction, AtStop(new, q)
  PROVE  CarFacts(new, q) /\ Within(new, car) /\ SameService(new, car)
BY DEF CarFacts, Within, SameService

\* No target: the car is idle.
LEMMA IdleFacts ==
  ASSUME NEW car \in Car, NEW sim \in Simulation, CarFacts(car, sim), sim.pc = "loop",
         car.callSequence = <<>>,
         NEW new, new = [car EXCEPT !.idle = TRUE, !.direction = 0]
  PROVE  CarFacts(new, sim) /\ Within(new, car) /\ SameService(new, car)
<1>1. /\ new.floorCalls = car.floorCalls /\ new.liftCalls = car.liftCalls /\ new.callSequence = <<>>
      /\ new.load = car.load /\ new.current_floor = car.current_floor
  BY DEF Car
<1>2. Heading(<<>>, new.direction, new.current_floor)
  <2>1. Range(<<>>) = {} /\ Sorted(<<>>)
    BY DEF Range, Sorted
  <2>. QED  BY <2>1 DEF Heading
<1>3. AtStop(new, sim)
  BY <1>1 DEF CarFacts, AtStop
<1>. QED  BY <1>1, <1>2, <1>3 DEF CarFacts, Within, SameService

\* The car stops for the head of its queue.
LEMMA StopFacts ==
  ASSUME NEW car \in Car, NEW sim \in Simulation, CarFacts(car, sim), sim.pc = "loop",
         car.callSequence /= <<>>, Head(car.callSequence).floor = car.current_floor,
         NEW new, new = [car EXCEPT !.idle = FALSE,
                                    !.direction = IF @ = 0 THEN Head(car.callSequence).direction ELSE @],
         NEW q, q = [sim EXCEPT !.pc = "opening", !.target = Head(car.callSequence)]
  PROVE  CarFacts(new, q) /\ Within(new, car) /\ SameService(new, car)
<1>. DEFINE Q == car.callSequence
            here == car.current_floor
<1>0. /\ Q \in Seq(UpCall) /\ Sorted(Q) /\ Q /= <<>> /\ car.direction \in -1..1 /\ here \in Floors
      /\ Heading(Q, car.direction, here) /\ sim.deletedFloorCallList = <<>>
      /\ Filled(Q, sim.deletedFloorCallList, car.load)
  BY FactsOf DEF CarFacts, AtStop
<1>1. PICK t \in UpCall : t = Head(Q) /\ t \in Range(Q) /\ t.direction = 1 /\ t.floor = here /\ Rank(t) \in Nat
  BY <1>0, HeadOf, RankType
<1>2. /\ new.floorCalls = car.floorCalls /\ new.liftCalls = car.liftCalls /\ new.callSequence = Q
      /\ new.load = car.load /\ new.current_floor = here
      /\ new.direction = IF car.direction = 0 THEN 1 ELSE car.direction
      /\ q.pc = "opening" /\ q.target = t /\ q.deletedFloorCallList = sim.deletedFloorCallList
  BY <1>1 DEF Car, Simulation
<1>3. \A c \in Range(Q) : c \in UpCall /\ Rank(t) <= Rank(c) /\ Rank(c) \in Nat
  <2>1. \A c \in Range(Q) : c \in UpCall /\ Rank(t) <= Rank(c)
    BY <1>0, <1>1, HeadOf
  <2>. QED  BY <2>1, RankType
<1>. HIDE DEF Q
<1>4. Heading(Q, new.direction, here)
  <2>1. ASSUME NEW c \in Range(Q), c.isFloorCall, c.passage = 1, here /= 1, car.direction = 0 PROVE FALSE
    <3>1. Rank(t) <= 1 /\ NUM_OF_FLOOR > 1 /\ NUM_OF_FLOOR \in Nat
      BY <1>3, <2>1, RankCases, BuildingAssumption
    <3>2. t.isFloorCall /\ t.isFloorCall \in BOOLEAN
      BY <1>1, <3>1, RankCases, RankType
    <3>. QED  BY <1>1, <2>1, <3>2, RankType
  <2>. QED  BY <1>0, <1>2, <2>1 DEF Heading
<1>5. here = 1 /\ Lifts(Q) /= {} => car.load = CAPACITY
  <2>. SUFFICES ASSUME here = 1, NEW l \in Range(Q), ~l.isFloorCall PROVE car.load = CAPACITY
    BY DEF Lifts
  <2>1. t.isFloorCall
    BY <1>1, RankType
  <2>2. t.passage = 1
    <3>. SUFFICES ASSUME t.passage /= 1 PROVE FALSE
      OBVIOUS
    <3>1. Rank(t) > NUM_OF_FLOOR /\ Rank(t) <= Rank(l) /\ Rank(l) \in 2..NUM_OF_FLOOR
      BY <1>3, <2>1, RankCases
    <3>. QED  BY <1>1, <3>1, BuildingAssumption
  <2>3. HasFirst(Q) /\ Lifts(Q) /= {}
    BY <1>1, <2>1, <2>2 DEF HasFirst, Lifts
  <2>4. Len(<<>>) = 0 /\ car.load \in Nat
    BY FactsOf
  <2>. QED  BY <1>0, <2>3, <2>4 DEF Filled
<1>6. AtStop(new, q)
  BY <1>0, <1>1, <1>2, <1>5 DEF AtStop, Q
<1>. QED  BY <1>2, <1>4, <1>6 DEF CarFacts, Within, SameService, Q

\* What a car heads for, and one floor on.
LEMMA HeadedFacts ==
  ASSUME NEW car \in Car, NEW sim \in Simulation, CarFacts(car, sim), sim.pc = "loop",
         car.callSequence /= <<>>, Head(car.callSequence).floor /= car.current_floor,
         NEW course \in Course(car.callSequence, car.direction, car.current_floor),
         NEW new \in Car, new.floorCalls = car.floorCalls, new.liftCalls = car.liftCalls,
         new.load = car.load, new.callSequence = course.queue, new.direction = course.heading,
         \/ new.current_floor = car.current_floor
         \/ new.current_floor = car.current_floor + course.heading
  PROVE  CarFacts(new, sim) /\ Within(new, car) /\ SameService(new, car)
<1>. DEFINE Q == car.callSequence
            s == course.queue
<1>1. PICK direction \in -1..1, here \in Floors : direction = car.direction /\ here = car.current_floor
  BY FirstFields DEF CarFacts, Heading
<1>2. Q \in Seq(UpCall) /\ Q /= <<>> /\ NoTwice(Q) /\ Heading(Q, direction, here) /\ Head(Q).floor /= here
  BY <1>1, FactsOf DEF CarFacts
<1>3. course \in Course(Q, direction, here)
  BY <1>1
<1>4. /\ s \in Seq(UpCall) /\ Lifts(s) = Lifts(Q)
      /\ IDs(s) = IDs(Q) /\ FloorIDs(s) = FloorIDs(Q) /\ NoTwice(s)
      /\ HasFirst(s) => HasFirst(Q)
      /\ Heading(s, course.heading, here)
      /\ Heading(s, course.heading, here + course.heading)
  <2>. HIDE DEF Q
  <2>. QED  BY <1>2, <1>3, CourseFacts
<1>. HIDE DEF Q, s
<1>5. UpLists(new.floorCalls, new.liftCalls, new.callSequence, sim.deletedFloorCallList)
  BY <1>4 DEF CarFacts, UpLists, s
<1>6. Ticketed(new.floorCalls, new.liftCalls, new.callSequence, sim.deletedFloorCallList)
  BY <1>4 DEF CarFacts, Ticketed, s, Q
<1>7. Heading(new.callSequence, new.direction, new.current_floor)
  BY <1>1, <1>4 DEF s
<1>8. Filled(new.callSequence, sim.deletedFloorCallList, new.load)
  BY <1>4 DEF CarFacts, Filled, s, Q
<1>9. AtStop(new, sim)
  BY DEF CarFacts, AtStop
<1>. QED  BY <1>4, <1>5, <1>6, <1>7, <1>8, <1>9 DEF CarFacts, Within, SameService, s, Q

-----------------------------------------------------------------------------
(* The steps of a stop. *)

\* The first lift call of the stop is taken off, and its passenger with it.
LEMMA UnloadFacts ==
  ASSUME NEW car \in Car, NEW sim \in Simulation, CarFacts(car, sim), Fits(sim, car),
         sim.pc = "unload", sim.lift_call_count > 0,
         NEW new, new = [car EXCEPT !.callSequence = Tail(car.callSequence), !.load = car.load - 1],
         NEW q, q = [sim EXCEPT !.lift_call_count = @ - 1, !.pc = "unloading"]
  PROVE  /\ CarFacts(new, q) /\ Within(new, car)
         /\ car.callSequence /= <<>> /\ Head(car.callSequence) \in UpLiftCall
         /\ Head(car.callSequence).floor = car.current_floor /\ car.load > 0
         /\ OneMore(car.callSequence, Tail(car.callSequence), Head(car.callSequence))
<1>. DEFINE Q == car.callSequence
            here == car.current_floor
            D == sim.deletedFloorCallList
            R == Tail(Q)
<1>1. PICK l \in Nat, n \in Nat : l = sim.lift_call_count /\ n = sim.floor_call_count
  BY FirstFields
<1>2. /\ Q \in Seq(UpCall) /\ Sorted(Q) /\ NoTwice(Q) /\ here \in Floors /\ Len(Q) \in Nat
      /\ Heading(Q, car.direction, here) /\ D = <<>> /\ car.direction /= 0
      /\ Filled(Q, D, car.load) /\ TakesOff(Q, l, n, car.load, here)
      /\ sim.target.floor = here /\ sim.target.direction = 1
      /\ Ticketed(car.floorCalls, car.liftCalls, Q, D)
  BY <1>1, FactsOf, LenProperties DEF CarFacts, AtStop
<1>3. l > 0 /\ l + n <= Len(Q)
  BY <1>1 DEF Fits
<1>. HIDE DEF Q
<1>4. Q /= <<>> /\ 1 \in 1..Len(Q) /\ 1 <= l /\ here /= 1 /\ n = 0
  BY <1>2, <1>3, EmptySeq DEF TakesOff
<1>5. PICK t \in UpLiftCall : t = Head(Q) /\ t = Q[1] /\ t.floor = here /\ ~t.isFloorCall
  <2>1. Q[1] = Head(Q) /\ Q[1] \in UpCall
    BY <1>2, <1>4, HeadOf
  <2>2. ~Q[1].isFloorCall /\ Q[1].floor = here
    BY <1>2, <1>4 DEF TakesOff
  <2>. QED  BY <2>1, <2>2 DEF UpCall, UpFloorCall
<1>6. OneMore(Q, R, t)
  BY <1>2, <1>4, <1>5, TailOne
<1>7. R \in Seq(UpCall) /\ Len(R) = Len(Q) - 1 /\ \A i \in 1..Len(R) : R[i] = Q[i + 1]
  BY <1>2, <1>4, HeadTailProperties
<1>. HIDE DEF R
<1>8. Range(Q) = Range(R) \cup {t} /\ Lifts(Q) = Lifts(R) \cup {t} /\ t \notin Lifts(R) /\ IDs(Q) = IDs(R) \cup {t.ID}
  <2>1. Lifts(Q) = Lifts(R) \cup {t} /\ IDs(Q) = IDs(R) \cup {t.ID} /\ t \notin Range(R)
    BY <1>5, <1>6, OneMoreCalls
  <2>. QED  BY <1>6, <2>1 DEF OneMore, Lifts
<1>9. PICK load \in 1..CAPACITY : load = car.load /\ Cardinality(Lifts(R)) = load - 1
  <2>1. PICK a \in Nat, b \in Nat : a = Cardinality(Lifts(R)) /\ b = car.load
    BY <1>7, LiftsCounted, FactsOf
  <2>2. Cardinality(Lifts(Q)) = a + 1
    <3>1. Cardinality(Lifts(R) \cup {t}) = Cardinality(Lifts(R)) + 1
      BY <1>7, <1>8, LiftsCounted
    <3>. QED  BY <1>8, <2>1, <3>1
  <2>3. b = a + 1 /\ b <= CAPACITY /\ CAPACITY \in Nat
    BY <1>2, <2>1, <2>2, FactsOf, FirstFields DEF Filled
  <2>. QED  BY <2>1, <2>3
<1>10. /\ new.floorCalls = car.floorCalls /\ new.liftCalls = car.liftCalls /\ new.callSequence = R
       /\ new.load = load - 1 /\ new.current_floor = here /\ new.direction = car.direction
       /\ q.pc = "unloading" /\ q.target = sim.target /\ q.deletedFloorCallList = D
       /\ q.lift_call_count = l - 1 /\ q.floor_call_count = n
  BY <1>1, <1>9 DEF Car, Simulation, R, Q
<1>11. ~HasFirst(R) /\ Heading(R, car.direction, here)
  <2>1. Sorted(R)
    <3>1. \A i \in 1..Len(R) : i + 1 \in 1..Len(Q) /\ R[i] = Q[i + 1]
      BY <1>2, <1>7
    <3>2. \A i, j \in 1..Len(R) : i < j => Rank(R[i]) <= Rank(R[j])
      <4>. TAKE i, j \in 1..Len(R)
      <4>1. i < j => i + 1 < j + 1
        BY <1>7
      <4>. QED  BY <1>2, <3>1, <4>1 DEF Sorted
    <3>. QED  BY <3>2 DEF Sorted
  <2>2. Heading(R, car.direction, here)
    BY <1>2, <1>8, <2>1 DEF Heading
  <2>. QED  BY <1>2, <1>4, <2>2 DEF Heading, HasFirst
<1>12. Filled(R, D, load - 1)
  <2>1. Len(D) = 0 /\ CAPACITY \in Nat
    BY <1>2, ModelAssumption
  <2>2. (load - 1) + 0 <= CAPACITY
    BY <2>1
  <2>. QED  BY <1>9, <1>11, <2>1, <2>2 DEF Filled
<1>13. TakesOff(R, l - 1, n, load - 1, here)
  <2>1. \A i \in 1..Len(R) : i <= l - 1 => i + 1 \in 1..Len(Q) /\ i + 1 <= l /\ R[i] = Q[i + 1]
    BY <1>2, <1>7
  <2>2. \A i \in 1..Len(R) : i <= l - 1 => ~R[i].isFloorCall /\ R[i].floor = here
    BY <1>2, <2>1 DEF TakesOff
  <2>. QED  BY <1>4, <2>2 DEF TakesOff
<1>14. Ticketed(car.floorCalls, car.liftCalls, R, D)
  BY <1>2, <1>5, <1>6, UnloadTickets
<1>15. UpLists(car.floorCalls, car.liftCalls, R, D)
  BY <1>7, FactsOf DEF UpLists
<1>16. AtStop(new, q)
  BY <1>2, <1>4, <1>10, <1>13 DEF AtStop
<1>17. CarFacts(new, q) /\ Within(new, car)
  <2>1. CarFacts(new, q)
    BY <1>10, <1>11, <1>12, <1>14, <1>15, <1>16 DEF CarFacts
  <2>. QED  BY <1>8, <1>10, <2>1 DEF Within, Q
<1>. QED  BY <1>4, <1>5, <1>6, <1>9, <1>17 DEF Q, R

\* A set of numbers that has all the smaller ones.
LEMMA DownClosed ==
  ASSUME NEW N \in Nat, NEW S \in SUBSET (1..N), \A i \in S : \A j \in 1..N : j < i => j \in S
  PROVE  Cardinality(S) \in 0..N /\ S = 1..Cardinality(S)
<1>. DEFINE T == {k \in Nat : k + 1 \notin S}
<1>1. T \in SUBSET Nat /\ N \in T
  OBVIOUS
<1>2. PICK k \in T : \A j \in T : k <= j
  <2>. HIDE DEF T
  <2>. QED  BY <1>1, LeastNumber
<1>3. k \in Nat /\ k + 1 \notin S /\ k <= N
  BY <1>1, <1>2
<1>4. 1..k \subseteq S
  <2>. SUFFICES ASSUME NEW j \in 1..k PROVE j \in S
    OBVIOUS
  <2>1. j - 1 \in Nat /\ ~(k <= j - 1) /\ (j - 1) + 1 = j
    BY <1>3
  <2>2. j - 1 \notin T
    BY <1>2, <2>1
  <2>. QED  BY <2>1, <2>2
<1>5. S \subseteq 1..k
  <2>. SUFFICES ASSUME NEW i \in S, ~(i <= k) PROVE FALSE
    BY <1>3
  <2>1. i \in 1..N /\ i >= k + 1 /\ k + 1 \in 1..N
    BY <1>3
  <2>. QED  BY <1>3, <2>1
<1>6. S = 1..k
  BY <1>4, <1>5
<1>7. Cardinality(1..k) = k
  <2>1. k - 1 + 1 = k
    BY <1>3
  <2>. QED  BY <1>3, <2>1, FS_Interval
<1>. QED  BY <1>3, <1>6, <1>7

\* The calls the open door serves, of a queue.
LiftsServed(Q, direction, here) ==
  Cardinality({i \in DOMAIN Q : Q[i].direction = direction /\ Q[i].floor = here /\ Q[i].isFloorCall = FALSE})
FloorsServed(Q, direction, here) ==
  Cardinality({i \in DOMAIN Q : Q[i].direction = direction /\ Q[i].floor = here /\ Q[i].isFloorCall = TRUE})

\* Above the ground floor the calls served are lift calls, the first ones of the
\* queue; on it they are the floor calls.
LEMMA CallsServed ==
  ASSUME NEW Q \in Seq(UpCall), NEW here \in Floors, NEW direction \in {-1, 1},
         Heading(Q, direction, here)
  PROVE  /\ LiftsServed(Q, 1, here) \in 0..Len(Q) /\ FloorsServed(Q, 1, here) \in Nat
         /\ \A i \in 1..Len(Q) : i <= LiftsServed(Q, 1, here) => ~Q[i].isFloorCall /\ Q[i].floor = here
         /\ here /= 1 => FloorsServed(Q, 1, here) = 0
         /\ here = 1 => LiftsServed(Q, 1, here) = 0
         /\ here = 1 /\ Lifts(Q) = {} => FloorsServed(Q, 1, here) = Len(Q)
<1>. DEFINE lifts == {i \in DOMAIN Q : Q[i].direction = 1 /\ Q[i].floor = here /\ Q[i].isFloorCall = FALSE}
            floors == {i \in DOMAIN Q : Q[i].direction = 1 /\ Q[i].floor = here /\ Q[i].isFloorCall = TRUE}
<1>1. /\ Len(Q) \in Nat /\ DOMAIN Q = 1..Len(Q) /\ NUM_OF_FLOOR \in Nat /\ here \in 1..NUM_OF_FLOOR
  BY LenProperties, BuildingAssumption DEF Floors
<1>2. \A i \in 1..Len(Q) : /\ Q[i] \in UpCall /\ Q[i] \in Range(Q) /\ Q[i].direction = 1
                           /\ Q[i].isFloorCall \in BOOLEAN /\ Q[i].floor \in Nat
                           /\ Q[i].isFloorCall => Q[i].floor = 1
                           /\ ~Q[i].isFloorCall => Q[i].floor > 1
                           /\ Rank(Q[i]) \in Nat
  <2>1. \A i \in 1..Len(Q) : Q[i] \in UpCall /\ Q[i] \in Range(Q)
    BY IDsOf, ElementOfSeq
  <2>. QED  BY <2>1, RankType DEF Floors
<1>3. lifts = {i \in 1..Len(Q) : ~Q[i].isFloorCall /\ Q[i].floor = here}
  BY <1>1, <1>2
<1>4. floors = {i \in 1..Len(Q) : Q[i].isFloorCall /\ Q[i].floor = here}
  BY <1>1, <1>2
<1>5. LiftsServed(Q, 1, here) = Cardinality(lifts) /\ FloorsServed(Q, 1, here) = Cardinality(floors)
  BY DEF LiftsServed, FloorsServed
<1>. HIDE DEF lifts, floors
<1>6. Cardinality({}) = 0
  BY FS_EmptySet
<1>7. Cardinality(floors) \in Nat
  <2>1. IsFiniteSet(1..Len(Q)) /\ floors \in SUBSET (1..Len(Q))
    BY <1>1, <1>4, FS_Interval
  <2>2. IsFiniteSet(floors)
    BY <2>1, FS_Subset
  <2>. QED  BY <2>2, FS_CardinalityType
<1>8. CASE here /= 1
  <2>1. floors = {} /\ Cardinality(floors) = 0
    <3>1. \A i \in 1..Len(Q) : ~(Q[i].isFloorCall /\ Q[i].floor = here)
      BY <1>2, <1>8
    <3>2. floors = {}
      BY <1>4, <3>1
    <3>. QED  BY <1>6, <3>2
  <2>2. \A i \in lifts : \A j \in 1..Len(Q) : j < i => j \in lifts
    <3>. TAKE i \in lifts
    <3>. TAKE j \in 1..Len(Q)
    <3>. HAVE j < i
    <3>1. i \in 1..Len(Q) /\ ~Q[i].isFloorCall /\ Q[i].floor = here /\ Rank(Q[i]) = here /\ here <= NUM_OF_FLOOR
      BY <1>1, <1>2, <1>3, RankCases
    <3>2. Rank(Q[j]) <= here
      BY <3>1 DEF Heading, Sorted
    <3>3. ~Q[j].isFloorCall
      <4>. SUFFICES ASSUME Q[j].isFloorCall PROVE FALSE
        BY <1>2
      <4>1. Q[j].passage /= 1
        BY <1>2, <1>8 DEF Heading
      <4>2. Rank(Q[j]) > NUM_OF_FLOOR
        BY <1>2, <4>1, RankCases
      <4>. QED  BY <1>1, <1>2, <3>1, <3>2, <4>2
    <3>4. Rank(Q[j]) = Q[j].floor /\ Q[j].floor >= here
      BY <1>2, <3>3, RankCases DEF Heading
    <3>. QED  BY <1>1, <1>2, <1>3, <3>2, <3>3, <3>4
  <2>3. lifts \in SUBSET (1..Len(Q))
    BY <1>3
  <2>4. PICK l \in 0..Len(Q) : l = Cardinality(lifts) /\ lifts = 1..l
    BY <1>1, <2>2, <2>3, DownClosed
  <2>5. \A i \in 1..Len(Q) : i <= l => i \in lifts
    <3>1. \A i \in 1..Len(Q) : i <= l => i \in 1..l
      BY <1>1
    <3>. QED  BY <2>4, <3>1
  <2>6. \A i \in 1..Len(Q) : i <= l => ~Q[i].isFloorCall /\ Q[i].floor = here
    BY <1>3, <2>5
  <2>. QED  BY <1>5, <1>7, <1>8, <2>1, <2>4, <2>6
<1>9. CASE here = 1
  <2>1. lifts = {} /\ Cardinality(lifts) = 0
    <3>1. \A i \in 1..Len(Q) : ~(~Q[i].isFloorCall /\ Q[i].floor = here)
      BY <1>2, <1>9
    <3>2. lifts = {}
      BY <1>3, <3>1
    <3>. QED  BY <1>6, <3>2
  <2>2. \A i \in 1..Len(Q) : ~(i <= 0)
    OBVIOUS
  <2>3. ASSUME Lifts(Q) = {} PROVE Cardinality(floors) = Len(Q)
    <3>1. \A i \in 1..Len(Q) : Q[i].isFloorCall
      BY <1>2, <2>3 DEF Lifts
    <3>2. floors = 1..Len(Q)
      BY <1>2, <1>4, <1>9, <3>1
    <3>3. Cardinality(1..Len(Q)) = Len(Q)
      <4>1. PICK N \in Nat : N = Len(Q)
        BY <1>1
      <4>2. Cardinality(1..N) = N
        BY FS_Interval
      <4>. QED  BY <4>1, <4>2
    <3>. QED  BY <3>2, <3>3
  <2>4. LiftsServed(Q, 1, here) = 0 /\ LiftsServed(Q, 1, here) \in 0..Len(Q)
    <3>1. 0 \in 0..Len(Q)
      BY <1>1
    <3>. QED  BY <1>5, <2>1, <3>1
  <2>5. FloorsServed(Q, 1, here) \in Nat /\ (Lifts(Q) = {} => FloorsServed(Q, 1, here) = Len(Q))
    BY <1>5, <1>7, <2>3
  <2>. QED  BY <1>9, <2>2, <2>4, <2>5
<1>. QED  BY <1>8, <1>9

\* The lesser of two numbers.
LEMMA LesserOf ==
  ASSUME NEW s \in Nat, NEW free \in Nat
  PROVE  Min({s, free}) \in {s, free} /\ Min({s, free}) <= s /\ Min({s, free}) <= free
<1>1. \E x \in {s, free} : \A y \in {s, free} : x <= y
  OBVIOUS
<1>. QED  BY <1>1 DEF Min

\* What is counted when the door has opened is what the stop takes off.
LEMMA CountTakesOff ==
  ASSUME NEW Q \in Seq(UpCall), NEW here \in Floors, NEW direction \in {-1, 1}, NEW load \in 0..CAPACITY,
         Heading(Q, direction, here), here = 1 /\ Lifts(Q) /= {} => load = CAPACITY,
         NEW l \in Nat, l = LiftsServed(Q, 1, here), NEW s \in Nat, s = FloorsServed(Q, 1, here),
         NEW free \in Int, free = CAPACITY - load - l,
         NEW n \in Nat, free >= 0 => n \in {s, free} /\ n <= s /\ n <= free, ~(free >= 0) => n = s
  PROVE  TakesOff(Q, l, n, load, here)
<1>1. /\ l \in 0..Len(Q) /\ s \in Nat
      /\ \A i \in 1..Len(Q) : i <= l => ~Q[i].isFloorCall /\ Q[i].floor = here
      /\ here /= 1 => s = 0
      /\ here = 1 => l = 0
      /\ here = 1 /\ Lifts(Q) = {} => s = Len(Q)
  <2>1. /\ LiftsServed(Q, 1, here) \in 0..Len(Q) /\ FloorsServed(Q, 1, here) \in Nat
        /\ \A i \in 1..Len(Q) : i <= LiftsServed(Q, 1, here) => ~Q[i].isFloorCall /\ Q[i].floor = here
        /\ here /= 1 => FloorsServed(Q, 1, here) = 0
        /\ here = 1 => LiftsServed(Q, 1, here) = 0
        /\ here = 1 /\ Lifts(Q) = {} => FloorsServed(Q, 1, here) = Len(Q)
    BY CallsServed
  <2>. QED  BY <2>1
<1>2. CAPACITY \in Nat /\ Len(Q) \in Nat
  BY ModelAssumption, LenProperties
<1>6. here /= 1 => n = 0
  BY <1>1
<1>7. ASSUME here = 1
      PROVE  /\ l = 0 /\ n <= CAPACITY - load
             /\ \A i \in 1..Len(Q) : i <= n => Q[i].isFloorCall
             /\ n = CAPACITY - load \/ \A i \in 1..Len(Q) : i > n => ~Q[i].isFloorCall
  <2>1. l = 0 /\ free = CAPACITY - load /\ free >= 0 /\ n \in {s, free} /\ n <= free
    BY <1>1, <1>2, <1>7
  <2>2. CASE Lifts(Q) /= {}
    <3>1. load = CAPACITY
      BY <1>7, <2>2
    <3>2. free = 0 /\ n = 0
      BY <1>2, <2>1, <3>1
    <3>. QED  BY <2>1, <3>2
  <2>3. CASE Lifts(Q) = {}
    <3>1. \A i \in 1..Len(Q) : Q[i].isFloorCall
      <4>1. \A i \in 1..Len(Q) : Q[i] \in Range(Q) /\ Q[i] \in UpCall
        BY IDsOf, ElementOfSeq
      <4>. QED  BY <2>3, <4>1, RankType DEF Lifts
    <3>2. n = CAPACITY - load \/ n = Len(Q)
      BY <1>1, <1>7, <2>1, <2>3
    <3>3. \A i \in 1..Len(Q) : ~(i > Len(Q))
      BY <1>2
    <3>. QED  BY <2>1, <3>1, <3>2, <3>3
  <2>. QED  BY <2>2, <2>3
<1>. QED  BY <1>1, <1>6, <1>7 DEF TakesOff

\* The stop counts the calls it will take off.
LEMMA CountFacts ==
  ASSUME NEW car \in Car, NEW sim \in Simulation, CarFacts(car, sim), sim.pc = "opening",
         NEW l \in Nat, l = LiftsServed(car.callSequence, sim.target.direction, sim.target.floor),
         NEW s \in Nat, s = FloorsServed(car.callSequence, sim.target.direction, sim.target.floor),
         NEW free \in Int, free = CAPACITY - car.load - l,
         NEW n \in Nat, free >= 0 => n \in {s, free} /\ n <= s /\ n <= free, ~(free >= 0) => n = s,
         NEW q, q = [sim EXCEPT !.pc = "unload", !.lift_call_count = l, !.floor_call_count = n]
  PROVE  CarFacts(car, q)
<1>1. /\ q.pc = "unload" /\ q.lift_call_count = l /\ q.floor_call_count = n /\ q.target = sim.target
      /\ q.deletedFloorCallList = sim.deletedFloorCallList
  BY DEF Simulation
<1>2. /\ sim.target.direction = 1 /\ sim.target.floor = car.current_floor
      /\ car.direction /= 0 /\ Heading(car.callSequence, car.direction, car.current_floor)
      /\ sim.deletedFloorCallList = <<>>
      /\ car.current_floor = 1 /\ Lifts(car.callSequence) /= {} => car.load = CAPACITY
  BY DEF CarFacts, AtStop
<1>3. PICK Q \in Seq(UpCall), here \in Floors, direction \in {-1, 1}, load \in 0..CAPACITY :
        Q = car.callSequence /\ here = car.current_floor /\ direction = car.direction /\ load = car.load
  BY <1>2, FactsOf
<1>4. TakesOff(Q, l, n, load, here)
  <2>1. /\ Heading(Q, direction, here)
        /\ here = 1 /\ Lifts(Q) /= {} => load = CAPACITY
        /\ l = LiftsServed(Q, 1, here) /\ s = FloorsServed(Q, 1, here)
        /\ free = CAPACITY - load - l
    BY <1>2, <1>3
  <2>. QED  BY <2>1, CountTakesOff
<1>5. AtStop(car, q)
  BY <1>1, <1>2, <1>3, <1>4 DEF AtStop
<1>. QED  BY <1>1, <1>5 DEF CarFacts

\* The floor calls of the stop are taken off.
LEMMA CollectFacts ==
  ASSUME NEW car \in Car, NEW sim \in Simulation, CarFacts(car, sim), Fits(sim, car),
         sim.pc = "unload", sim.lift_call_count = 0,
         NEW n \in Nat, n = sim.floor_call_count,
         NEW new, new = [car EXCEPT !.callSequence = SubSeq(car.callSequence, n + 1, Len(car.callSequence))],
         NEW q, q = [sim EXCEPT !.pc = "board", !.floor_call_count = 0,
                                !.deletedFloorCallList = SubSeq(car.callSequence, 1, n)]
  PROVE  CarFacts(new, q) /\ Within(new, car) /\ SameService(new, car)
<1>. DEFINE Q == car.callSequence
            here == car.current_floor
            D == SubSeq(Q, 1, n)
            R == SubSeq(Q, n + 1, Len(Q))
<1>1. /\ Q \in Seq(UpCall) /\ Sorted(Q) /\ NoTwice(Q) /\ here \in Floors /\ Len(Q) \in Nat
      /\ Heading(Q, car.direction, here) /\ sim.deletedFloorCallList = <<>> /\ car.direction /= 0
      /\ Filled(Q, <<>>, car.load) /\ TakesOff(Q, 0, n, car.load, here)
      /\ sim.target.floor = here /\ sim.target.direction = 1
      /\ Ticketed(car.floorCalls, car.liftCalls, Q, <<>>)
  BY FactsOf, LenProperties DEF CarFacts, AtStop
<1>2. n \in 0..Len(Q)
  <2>1. 0 + n <= Len(Q)
    BY DEF Fits
  <2>. QED  BY <1>1, <2>1
<1>3. /\ new.floorCalls = car.floorCalls /\ new.liftCalls = car.liftCalls /\ new.callSequence = R
      /\ new.load = car.load /\ new.current_floor = here /\ new.direction = car.direction
      /\ q.pc = "board" /\ q.target = sim.target /\ q.deletedFloorCallList = D
  BY DEF Car, Simulation
<1>. HIDE DEF Q
<1>23. /\ SubSeq(Q, 1, n) \in Seq(UpCall) /\ Len(SubSeq(Q, 1, n)) = n
       /\ \A i \in 1..n : SubSeq(Q, 1, n)[i] = Q[i]
       /\ SubSeq(Q, n + 1, Len(Q)) \in Seq(UpCall) /\ Len(SubSeq(Q, n + 1, Len(Q))) = Len(Q) - n
       /\ \A i \in 1..(Len(Q) - n) : SubSeq(Q, n + 1, Len(Q))[i] = Q[n + i]
  <2>. HIDE DEF D, R
  <2>1. Q \in Seq(UpCall)
    BY <1>1
  <2>. QED  BY <1>2, <2>1, SplitAt
<1>24. D = SubSeq(Q, 1, n) /\ R = SubSeq(Q, n + 1, Len(Q))
  OBVIOUS
<1>. HIDE DEF D, R
<1>4. /\ D \in Seq(UpCall) /\ Len(D) = n /\ \A i \in 1..n : D[i] = Q[i]
      /\ R \in Seq(UpCall) /\ Len(R) = Len(Q) - n /\ \A i \in 1..(Len(Q) - n) : R[i] = Q[n + i]
  BY <1>23, <1>24
<1>5. /\ Range(Q) = Range(D) \cup Range(R) /\ IDs(D) \cap IDs(R) = {}
      /\ NoTwice(D) /\ NoTwice(R)
  <2>1. \A l \in Seq(UpCall) : \A m \in 0..Len(l) : NoTwice(l) =>
          \A a, b : a = SubSeq(l, 1, m) /\ b = SubSeq(l, m + 1, Len(l)) =>
            /\ Range(l) = Range(a) \cup Range(b) /\ IDs(a) \cap IDs(b) = {}
            /\ NoTwice(a) /\ NoTwice(b)
    BY SplitsIDs, ZenonT(30)
  <2>2. Q \in Seq(UpCall) /\ NoTwice(Q)
    BY <1>1
  <2>3. \A a, b : a = SubSeq(Q, 1, n) /\ b = SubSeq(Q, n + 1, Len(Q)) =>
          /\ Range(Q) = Range(a) \cup Range(b) /\ IDs(a) \cap IDs(b) = {}
          /\ NoTwice(a) /\ NoTwice(b)
    BY <1>2, <2>1, <2>2
  <2>. QED  BY <1>24, <2>3
<1>6. \A i \in 1..n : i \in 1..Len(Q) /\ D[i] = Q[i]
  BY <1>1, <1>2, <1>4
<1>7. \A i \in 1..Len(R) : n + i \in 1..Len(Q) /\ n + i > n /\ R[i] = Q[n + i]
  BY <1>1, <1>2, <1>4
<1>8. Range(D) = {D[i] : i \in 1..n} /\ Range(R) = {R[i] : i \in 1..Len(R)}
  BY <1>4, IDsOf
<1>9. \A i \in 1..n : D[i].isFloorCall
  <2>1. CASE here = 1
    <3>1. \A i \in 1..Len(Q) : i <= n => Q[i].isFloorCall
      BY <1>1, <2>1 DEF TakesOff
    <3>. QED  BY <1>6, <3>1
  <2>2. CASE here /= 1
    BY <1>1, <2>2 DEF TakesOff
  <2>. QED  BY <2>1, <2>2
<1>10. Lifts(D) = {} /\ D \in Seq(UpFloorCall)
  <2>1. Lifts(D) = {}
    BY <1>8, <1>9 DEF Lifts
  <2>2. \A i \in 1..n : D[i] \in UpFloorCall
    <3>1. ASSUME NEW i \in 1..n PROVE D[i] \in UpCall
      BY <1>4, ElementOfSeq
    <3>. QED  BY <1>9, <3>1 DEF UpCall, UpLiftCall
  <2>3. D \in Seq(UpFloorCall)
    <3>1. DOMAIN D = 1..n /\ D = [i \in DOMAIN D |-> D[i]] /\ n \in Nat
      BY <1>2, <1>4, LenProperties, SeqDef
    <3>2. D = [i \in 1..n |-> D[i]]
      BY <3>1
    <3>3. D \in [1..n -> UpFloorCall]
      BY <2>2, <3>2
    <3>. QED  BY <3>1, <3>3, SeqDef
  <2>. QED  BY <2>1, <2>3
<1>11. Lifts(R) = Lifts(Q) /\ Range(R) \subseteq Range(Q)
  BY <1>5, <1>10 DEF Lifts
<1>12. Ticketed(car.floorCalls, car.liftCalls, R, D)
  BY <1>1, <1>5, <1>10, CollectTickets
<1>13. Heading(R, car.direction, here)
  <2>1. Sorted(R)
    <3>1. \A i, j \in 1..Len(R) : i < j => Rank(R[i]) <= Rank(R[j])
      <4>. TAKE i, j \in 1..Len(R)
      <4>1. i < j => n + i < n + j
        BY <1>4, <1>2
      <4>. QED  BY <1>1, <1>7, <4>1 DEF Sorted
    <3>. QED  BY <3>1 DEF Sorted
  <2>. QED  BY <1>1, <1>11, <2>1 DEF Heading
<1>14. PICK load \in 0..CAPACITY : load = car.load
  BY FactsOf
<1>15. CAPACITY \in Nat /\ CAPACITY > 0
  BY ModelAssumption
<1>16. load + n <= CAPACITY /\ (HasFirst(R) => load + n = CAPACITY) /\ (here /= 1 => n = 0)
  <2>1. CASE here /= 1
    <3>1. n = 0 /\ ~HasFirst(R)
      BY <1>1, <1>11, <2>1 DEF TakesOff, Heading, HasFirst
    <3>. QED  BY <1>14, <1>15, <2>1, <3>1
  <2>2. CASE here = 1
    <3>1. /\ n <= CAPACITY - load
          /\ n = CAPACITY - load \/ \A i \in 1..Len(Q) : i > n => ~Q[i].isFloorCall
      BY <1>1, <1>14, <2>2 DEF TakesOff
    <3>2. HasFirst(R) => \E i \in 1..Len(Q) : i > n /\ Q[i].isFloorCall
      BY <1>7, <1>8 DEF HasFirst
    <3>3. HasFirst(R) => n = CAPACITY - load
      BY <3>1, <3>2
    <3>. QED  BY <1>15, <2>2, <3>1, <3>3
  <2>. QED  BY <2>1, <2>2
<1>17. Filled(R, D, load)
  BY <1>1, <1>4, <1>11, <1>14, <1>16 DEF Filled
<1>18. UpLists(car.floorCalls, car.liftCalls, R, D)
  BY <1>4, <1>10, FactsOf DEF UpLists
<1>19. D /= <<>> => here = 1
  BY <1>4, <1>16, EmptySeq
<1>20. AtStop(new, q)
  BY <1>1, <1>3, <1>19 DEF AtStop
<1>21. CarFacts(new, q)
  BY <1>3, <1>12, <1>13, <1>14, <1>17, <1>18, <1>20 DEF CarFacts
<1>22. Within(new, car) /\ SameService(new, car)
  <2>1. IDs(R) \subseteq IDs(Q)
    BY <1>11 DEF IDs
  <2>. QED  BY <1>3, <1>11, <2>1 DEF Within, SameService, Q
<1>. QED  BY <1>21, <1>22

\* A passenger boards: its lift call enters the queue.
LEMMA AcceptFacts ==
  ASSUME NEW car \in Car, NEW sim \in Simulation, CarFacts(car, sim), Fits(sim, car), sim.pc = "onfloor",
         NEW queue \in insertPriorityCall(car.callSequence,
               [CallWithID(car.liftCalls, Head(sim.deletedFloorCallList).ID) EXCEPT !.passage = 1]),
         NEW new, new = [car EXCEPT
           !.load = IF car.load < CAPACITY THEN car.load + 1 ELSE car.load,
           !.liftCalls = deleteIDLinkedCall(car.liftCalls, Head(sim.deletedFloorCallList).ID),
           !.callSequence = queue],
         NEW q, q = [sim EXCEPT !.pc = "loading", !.deletedFloorCallList = Tail(sim.deletedFloorCallList)]
  PROVE  /\ CarFacts(new, q) /\ Within(new, car)
         /\ car.current_floor = 1 /\ car.load < CAPACITY
         /\ \E c \in UpLiftCall : /\ OneMore(car.liftCalls, new.liftCalls, c)
                                  /\ OneMore(new.callSequence, car.callSequence, c)
<1>. DEFINE A == car.floorCalls
            L == car.liftCalls
            Q == car.callSequence
            D == sim.deletedFloorCallList
            E == Tail(D)
<1>1. /\ A \in Seq(NewFloorCall) /\ L \in Seq(UpLiftCall) /\ Q \in Seq(UpCall) /\ D \in Seq(UpFloorCall)
      /\ NoTwice(L) /\ NoTwice(Q) /\ NoTwice(D) /\ Sorted(Q)
      /\ Ticketed(A, L, Q, D) /\ Heading(Q, car.direction, car.current_floor) /\ Filled(Q, D, car.load)
      /\ D /= <<>> /\ car.current_floor = 1 /\ car.direction /= 0
      /\ sim.target.floor = 1 /\ sim.target.direction = 1
  BY FactsOf DEF CarFacts, AtStop, Fits
<1>2. PICK load \in 0..CAPACITY : load = car.load
  BY FactsOf
<1>. HIDE DEF A, L, Q, D
<1>3. PICK d \in UpFloorCall, k \in Nat :
        /\ d = Head(D) /\ d = D[1] /\ OneMore(D, E, d) /\ E \in Seq(UpFloorCall)
        /\ Len(D) = k + 1 /\ Len(E) = k
  <2>1. Head(D) = D[1] /\ Head(D) \in UpFloorCall /\ E \in Seq(UpFloorCall) /\ Len(E) = Len(D) - 1
        /\ Len(D) \in Nat \ {0}
    BY <1>1, HeadTailProperties, EmptySeq
  <2>2. OneMore(D, E, Head(D))
    BY <1>1, TailOne
  <2>3. Len(D) - 1 \in Nat /\ Len(D) = (Len(D) - 1) + 1
    BY <2>1
  <2>. QED  BY <2>1, <2>2, <2>3
<1>. HIDE DEF E
<1>4. PICK id : id = d.ID /\ id = Head(D).ID
  BY <1>3
<1>5. id \in IDs(D) /\ id \in IDs(L)
  <2>1. id \in IDs(D)
    BY <1>3, <1>4, OneMoreCalls
  <2>. QED  BY <1>1, <2>1 DEF Ticketed
<1>6. PICK j \in 1..Len(L) : /\ L[j].ID = id /\ CallWithID(L, id) = L[j]
                             /\ deleteIDLinkedCall(L, id) = RemoveAt(L, j)
  <2>1. DOMAIN L = 1..Len(L)
    BY <1>1, LenProperties
  <2>2. \E i \in DOMAIN L : L[i].ID = id
    BY <1>1, <1>5, <2>1, IDsOf
  <2>. QED  BY <1>1, <2>2, SelectsNode
<1>7. PICK c \in UpLiftCall : c = L[j] /\ c.ID = id
  BY <1>1, <1>6, ElementOfSeq
<1>8. PICK M \in Seq(UpLiftCall) : M = deleteIDLinkedCall(L, id) /\ OneMore(L, M, c)
  <2>1. RemoveAt(L, j) \in Seq(UpLiftCall)
    BY <1>1, RemovedAt
  <2>2. OneMore(L, RemoveAt(L, j), L[j])
    BY <1>1, RemovesOne
  <2>. QED  BY <1>6, <1>7, <2>1, <2>2
<1>9. c \in UpCall /\ ~c.isFloorCall /\ c.floor > 1 /\ [c EXCEPT !.passage = 1] = c
  BY DEF UpLiftCall, UpCall, Call
<1>10. queue \in insertPriorityCall(Q, c)
  <2>1. [CallWithID(L, id) EXCEPT !.passage = 1] = c
    BY <1>6, <1>7, <1>9
  <2>. QED  BY <1>4, <2>1 DEF Q, L, D
<1>11. c.ID \notin IDs(Q)
  BY <1>1, <1>5, <1>7 DEF Ticketed
<1>12. queue \in Seq(UpCall) /\ Sorted(queue) /\ OneMore(queue, Q, c)
  BY <1>1, <1>9, <1>10, <1>11, QueueInserted
<1>13. /\ Range(queue) = Range(Q) \cup {c} /\ Lifts(queue) = Lifts(Q) \cup {c} /\ c \notin Lifts(Q)
       /\ IDs(queue) = IDs(Q) \cup {c.ID}
  <2>1. Lifts(queue) = Lifts(Q) \cup {c} /\ IDs(queue) = IDs(Q) \cup {c.ID} /\ c \notin Range(Q)
    BY <1>9, <1>12, OneMoreCalls
  <2>. QED  BY <1>12, <2>1 DEF OneMore, Lifts
<1>14. IDs(L) = IDs(M) \cup {c.ID}
  BY <1>8, OneMoreCalls
<1>15. CAPACITY \in Nat /\ load + (k + 1) <= CAPACITY /\ load < CAPACITY
  <2>1. CAPACITY \in Nat
    BY ModelAssumption
  <2>2. load + (k + 1) <= CAPACITY
    BY <1>1, <1>2, <1>3 DEF Filled
  <2>. QED  BY <2>1, <2>2
<1>16. /\ new.floorCalls = A /\ new.liftCalls = M /\ new.callSequence = queue
       /\ new.load = load + 1 /\ new.current_floor = 1 /\ new.direction = car.direction
       /\ q.pc = "loading" /\ q.target = sim.target /\ q.deletedFloorCallList = E
  BY <1>1, <1>2, <1>4, <1>8, <1>15 DEF Car, Simulation, A, L, D, E
<1>17. UpLists(A, M, queue, E)
  BY <1>1, <1>3, <1>8, <1>12 DEF UpLists
<1>18. Ticketed(A, M, queue, E)
  BY <1>1, <1>3, <1>4, <1>7, <1>8, <1>9, <1>12, AcceptTickets
<1>19. Heading(queue, car.direction, 1)
  <2>1. c.floor >= 1
    BY <1>9, RankType DEF Floors
  <2>. QED  BY <1>1, <1>9, <1>12, <1>13, <2>1 DEF Heading
<1>20. Filled(queue, E, load + 1)
  <2>1. Cardinality(Lifts(queue)) = load + 1
    <3>1. Cardinality(Lifts(Q) \cup {c}) = Cardinality(Lifts(Q)) + 1
      BY <1>1, <1>13, LiftsCounted
    <3>. QED  BY <1>1, <1>2, <1>13, <3>1 DEF Filled
  <2>2. HasFirst(queue) => HasFirst(Q)
    BY <1>9, <1>13 DEF HasFirst
  <2>3. HasFirst(Q) => load + (k + 1) = CAPACITY
    BY <1>1, <1>2, <1>3 DEF Filled
  <2>4. (load + 1) + k = load + (k + 1)
    OBVIOUS
  <2>. QED  BY <1>3, <1>15, <2>1, <2>2, <2>3, <2>4 DEF Filled
<1>21. AtStop(new, q)
  BY <1>1, <1>16 DEF AtStop
<1>22. CarFacts(new, q)
  BY <1>16, <1>17, <1>18, <1>19, <1>20, <1>21 DEF CarFacts
<1>23. Within(new, car)
  BY <1>5, <1>7, <1>13, <1>14, <1>16 DEF Within, L, Q
<1>. QED  BY <1>1, <1>2, <1>8, <1>12, <1>15, <1>16, <1>22, <1>23 DEF L, Q

\* The steps of a stop that change the process only.
LEMMA ProcessFacts ==
  ASSUME NEW car \in Car, NEW sim \in Simulation, CarFacts(car, sim), NEW q \in Simulation,
         q.deletedFloorCallList = sim.deletedFloorCallList,
         q.lift_call_count = sim.lift_call_count, q.floor_call_count = sim.floor_call_count,
         \/ sim.pc = "board" /\ q.pc = "onfloor" /\ q.target = sim.target
         \/ sim.pc = "unloading" /\ q.pc = "unload" /\ q.target = sim.target
         \/ sim.pc = "loading" /\ q.pc = "board" /\ q.target = sim.target
         \/ sim.pc = "board" /\ q.pc = "closing" /\ sim.deletedFloorCallList = <<>>
         \/ sim.pc = "closing" /\ q.pc = "loop"
  PROVE  CarFacts(car, q)
<1>1. AtStop(car, sim)
  BY DEF CarFacts
<1>2. AtStop(car, q)
  <2>1. CASE sim.pc = "board" /\ q.pc = "onfloor" /\ q.target = sim.target
    BY <1>1, <2>1 DEF AtStop
  <2>2. CASE sim.pc = "unloading" /\ q.pc = "unload" /\ q.target = sim.target
    BY <1>1, <2>2 DEF AtStop
  <2>3. CASE sim.pc = "loading" /\ q.pc = "board" /\ q.target = sim.target
    BY <1>1, <2>3 DEF AtStop
  <2>4. CASE sim.pc = "board" /\ q.pc = "closing" /\ sim.deletedFloorCallList = <<>>
    BY <1>1, <2>4 DEF AtStop
  <2>5. CASE sim.pc = "closing" /\ q.pc = "loop"
    BY <1>1, <2>5 DEF AtStop
  <2>. QED  BY <2>1, <2>2, <2>3, <2>4, <2>5
<1>. QED  BY <1>2 DEF CarFacts

\* A new passenger is given to the car.
LEMMA GivenFacts ==
  ASSUME NEW car \in Car, NEW sim \in Simulation, CarFacts(car, sim),
         NEW f \in NewFloorCall, NEW l \in UpLiftCall, f.ID = l.ID,
         l.ID \notin IDs(car.liftCalls) \cup IDs(car.callSequence),
         NEW new, new.floorCalls = Append(car.floorCalls, f), new.liftCalls = Append(car.liftCalls, l),
         new.callSequence = car.callSequence, new.load = car.load,
         new.current_floor = car.current_floor, new.direction = car.direction
  PROVE  /\ CarFacts(new, sim) /\ new.callSequence = car.callSequence
         /\ OneMore(new.liftCalls, car.liftCalls, l)
<1>. DEFINE A == car.floorCalls
            L == car.liftCalls
            Q == car.callSequence
            D == sim.deletedFloorCallList
<1>1. /\ A \in Seq(NewFloorCall) /\ L \in Seq(UpLiftCall) /\ Q \in Seq(UpCall) /\ D \in Seq(UpFloorCall)
      /\ NoTwice(A) /\ NoTwice(L) /\ Ticketed(A, L, Q, D)
  BY FactsOf DEF CarFacts, Ticketed
<1>2. /\ new.floorCalls = Append(A, f) /\ new.liftCalls = Append(L, l) /\ new.callSequence = Q
      /\ new.load = car.load /\ new.current_floor = car.current_floor /\ new.direction = car.direction
  BY DEF Car
<1>. HIDE DEF A, L, Q, D
<1>3. f.ID \notin IDs(A) /\ l.ID \notin IDs(L) /\ l.ID \notin IDs(Q)
  BY <1>1 DEF Ticketed, L, Q
<1>4. OneMore(Append(A, f), A, f) /\ OneMore(Append(L, l), L, l)
  BY <1>1, <1>3, AppendOne
<1>5. Ticketed(Append(A, f), Append(L, l), Q, D)
  BY <1>1, <1>3, <1>4, GivenTickets
<1>6. UpLists(Append(A, f), Append(L, l), Q, D)
  BY <1>1, AppendProperties DEF UpLists
<1>7. AtStop(new, sim)
  BY <1>2 DEF CarFacts, AtStop, Q
<1>. QED  BY <1>2, <1>4, <1>5, <1>6, <1>7 DEF CarFacts, L, Q, D

-----------------------------------------------------------------------------
(* The steps of a car, under traffic that goes up from the ground floor. *)

UpTraffic == algorithm \in {1, 3} /\ \A t \in Trips : t[1] = 1

\* What a step of the car may be to its passengers: nothing, a floor travelled,
\* one of them leaving, one of them boarding.
Travelled(new, car) ==
  /\ SameService(new, car)
  /\ new.current_floor \in {car.current_floor, car.current_floor - 1, car.current_floor + 1}
Alighted(new, car) ==
  /\ new.liftCalls = car.liftCalls /\ new.current_floor = car.current_floor
  /\ \E c \in UpLiftCall : c.floor = car.current_floor /\ OneMore(car.callSequence, new.callSequence, c)
Boarded(new, car) ==
  /\ car.current_floor = 1 /\ new.current_floor = 1 /\ car.load < CAPACITY
  /\ \E c \in UpLiftCall : /\ OneMore(car.liftCalls, new.liftCalls, c)
                           /\ OneMore(new.callSequence, car.callSequence, c)
CarStep(new, q, car) ==
  CarFacts(new, q) /\ Within(new, car) /\ (Travelled(new, car) \/ Alighted(new, car) \/ Boarded(new, car))

\* Heading for its target, a car takes a course.
LEMMA HeadedCourse ==
  ASSUME NEW e \in Elevators, NEW car \in Car, car = elevator[e], HasTarget(e), NEW c \in Headed(e)
  PROVE  \E course \in Course(car.callSequence, car.direction, car.current_floor) :
           /\ c.callSequence = course.queue /\ c.direction = course.heading
           /\ c.floorCalls = car.floorCalls /\ c.liftCalls = car.liftCalls
           /\ c.load = car.load /\ c.current_floor = car.current_floor
<1>. DEFINE Q == car.callSequence
            taken == IF car.direction = 0 THEN Head(Q).direction ELSE car.direction
            heading == Order(Head(Q).floor, car.current_floor)
            a == [car EXCEPT !.idle = FALSE, !.direction = taken]
            queues == IF taken = heading THEN {Q} ELSE reassignPassagePriority(Q, heading, car.current_floor)
<1>1. a = Roused(e) /\ Target(e) = Head(Q)
  BY DEF Roused, Target, Car
<1>2. /\ a.callSequence = Q /\ a.current_floor = car.current_floor /\ a.direction = taken
      /\ a.floorCalls = car.floorCalls /\ a.liftCalls = car.liftCalls /\ a.load = car.load
      /\ DOMAIN a = DOMAIN car
  BY DEF Car
<1>. HIDE DEF a, taken
<1>3. \E s \in queues : \/ c = [[a EXCEPT !.direction = heading] EXCEPT !.callSequence = s]
                        \/ c = a /\ s = Q /\ taken = heading
  <2>0. heading = Order(Target(e).floor, Roused(e).current_floor)
    BY <1>1, <1>2
  <2>. DEFINE h == heading
  <2>. HIDE DEF h, queues
  <2>3. h = heading
    BY DEF h
  <2>4. c \in (IF a.direction = h THEN {a}
               ELSE {[[a EXCEPT !.direction = h] EXCEPT !.callSequence = s] :
                       s \in reassignPassagePriority(a.callSequence, h, a.current_floor)})
    BY <1>1, <2>0, <2>3 DEF Headed
  <2>5. queues = IF taken = h THEN {Q} ELSE reassignPassagePriority(Q, h, car.current_floor)
    BY <2>3 DEF queues
  <2>. HIDE DEF heading
  <2>1. CASE taken = h
    BY <1>2, <2>1, <2>3, <2>4, <2>5
  <2>2. CASE taken /= h
    <3>1. PICK s \in reassignPassagePriority(Q, h, car.current_floor) :
            c = [[a EXCEPT !.direction = h] EXCEPT !.callSequence = s]
      BY <1>2, <2>2, <2>4
    <3>2. s \in queues
      BY <2>2, <2>5
    <3>3. c = [[a EXCEPT !.direction = heading] EXCEPT !.callSequence = s]
      BY <2>3, <3>1
    <3>. QED  BY <3>2, <3>3
  <2>. QED  BY <2>1, <2>2
<1>4. PICK s \in queues : \/ c = [[a EXCEPT !.direction = heading] EXCEPT !.callSequence = s]
                          \/ c = a /\ s = Q /\ taken = heading
  BY <1>3
<1>. DEFINE course == [heading |-> heading, queue |-> s]
<1>5. course \in Course(car.callSequence, car.direction, car.current_floor)
  BY <1>4 DEF Course, taken
<1>6. /\ c.callSequence = course.queue /\ c.direction = course.heading
      /\ c.floorCalls = car.floorCalls /\ c.liftCalls = car.liftCalls
      /\ c.load = car.load /\ c.current_floor = car.current_floor
  <2>. HIDE DEF heading, queues
  <2>1. {"callSequence", "direction", "floorCalls", "liftCalls", "load", "current_floor"} \subseteq DOMAIN a
    BY <1>2 DEF Car
  <2>. QED  BY <1>2, <1>4, <2>1
<1>. QED  BY <1>5, <1>6

\* Nobody but the scheduler and the menu changes the lists of new passengers.
LEMMA CarStepFrame ==
  ASSUME TypeInv, NEW e \in Elevators, SimulationStep(e) \/ Assign(e)
  PROVE  /\ UNCHANGED <<scheduler, generator, parking>>
         /\ \A d \in Elevators : d /= e => elevator'[d] = elevator[d] /\ simulation'[d] = simulation[d]
         /\ \A f \in Floors : /\ floor'[f].length = floor[f].length
                              /\ floor'[f].passengers_unchecked = floor[f].passengers_unchecked
<1>. USE DEF TypeInv
<1>1. CASE SimulationIdle(e) \/ SimulationStop(e) \/ SimulationCollect(e) \/ SimulationUnload(e)
  BY <1>1 DEF SimulationIdle, SimulationStop, SimulationCollect, SimulationUnload
<1>2. CASE SimulationHead(e) \/ SimulationMove(e) \/ SimulationExit(e)
  <2>1. PICK c : elevator' = [elevator EXCEPT ![e] = c]
    BY <1>2 DEF SimulationHead, SimulationMove, SimulationExit
  <2>. QED  BY <1>2, <2>1 DEF SimulationHead, SimulationMove, SimulationExit
<1>3. CASE SimulationCount(e) \/ SimulationEnterFloor(e) \/ SimulationAwake(e) \/ SimulationClose(e)
             \/ SimulationLeave(e)
  BY <1>3 DEF SimulationCount, SimulationEnterFloor, SimulationAwake, SimulationClose, SimulationLeave
<1>4. CASE SimulationAccept(e)
  <2>1. UNCHANGED <<scheduler, generator, parking>>
        /\ \A d \in Elevators : d /= e => elevator'[d] = elevator[d] /\ simulation'[d] = simulation[d]
    BY <1>4 DEF SimulationAccept
  <2>2. PICK p : floor' = [floor EXCEPT ![elevator[e].current_floor].passengers = p]
    BY <1>4 DEF SimulationAccept
  <2>3. \A f \in Floors : /\ floor'[f].length = floor[f].length
                          /\ floor'[f].passengers_unchecked = floor[f].passengers_unchecked
    BY <2>2 DEF Floor
  <2>. QED  BY <2>1, <2>3
<1>5. CASE Assign(e)
  BY <1>5 DEF Assign
<1>. QED  BY <1>1, <1>2, <1>3, <1>4, <1>5 DEF SimulationStep

\* Every step of a car and of the process that assigns its calls keeps the facts
\* and is nothing to the passengers, or a floor travelled, or one of them leaving,
\* or one boarding.
LEMMA UpCarStep ==
  ASSUME TypeInv, LockInv, NEW e \in Elevators, SimulationStep(e) \/ Assign(e),
         CarFacts(elevator[e], simulation[e]),
         NEW new \in Car, new = elevator'[e], NEW q \in Simulation, q = simulation'[e]
  PROVE  CarStep(new, q, elevator[e])
<1>1. PICK car \in Car : car = elevator[e]
  BY DEF TypeInv
<1>2. PICK sim \in Simulation : sim = simulation[e]
  BY DEF TypeInv
<1>3. CarFacts(car, sim) /\ Fits(sim, car) /\ AtStop(car, sim) /\ car.current_floor \in Floors
      /\ car.callSequence \in Seq(UpCall)
  BY <1>1, <1>2, FactsOf DEF TypeInv, CarFacts
<1>4. elevator \in [Elevators -> Car] /\ simulation \in [Elevators -> Simulation]
  BY DEF TypeInv
<1>5. car.current_floor \in Int
  BY <1>3, BuildingAssumption DEF Floors
<1>6. ASSUME CarFacts(new, q), Within(new, car), SameService(new, car),
             new.current_floor = car.current_floor
      PROVE  CarStep(new, q, car)
  BY <1>6 DEF CarStep, Travelled
<1>7. ASSUME CarFacts(car, q), new = car PROVE CarStep(new, q, car)
  BY <1>6, <1>7 DEF Within, SameService
<1>8. CASE SimulationIdle(e)
  <2>1. new = [car EXCEPT !.idle = TRUE, !.direction = 0] /\ q = sim
    BY <1>1, <1>2, <1>4, <1>8 DEF SimulationIdle
  <2>2. sim.pc = "loop" /\ car.callSequence = <<>>
    BY <1>1, <1>2, <1>8 DEF SimulationIdle, AtLoop, HasTarget
  <2>3. CarFacts(new, sim) /\ Within(new, car) /\ SameService(new, car)
    BY <1>3, <2>1, <2>2, IdleFacts
  <2>4. new.current_floor = car.current_floor
    BY <2>1 DEF Car
  <2>. QED  BY <1>1, <1>6, <2>1, <2>3, <2>4
<1>9. CASE SimulationHead(e) \/ SimulationMove(e) \/ SimulationExit(e)
  <2>1. /\ HasTarget(e) /\ sim.pc = "loop" /\ car.callSequence /= <<>>
        /\ Head(car.callSequence).floor /= car.current_floor
    BY <1>1, <1>2, <1>9 DEF SimulationHead, SimulationMove, SimulationExit, OnTransition, AtLoop, HasTarget, Target
  <2>2. PICK c \in Headed(e) :
          \/ SimulationHead(e) /\ elevator' = [elevator EXCEPT ![e] = c]
          \/ /\ SimulationMove(e)
             /\ elevator' = [elevator EXCEPT ![e] = [c EXCEPT !.current_floor = @ + c.direction]]
          \/ c.current_floor + c.direction \notin Floors
    BY <1>9, Zenon DEF SimulationHead, SimulationMove, SimulationExit
  <2>3. PICK course \in Course(car.callSequence, car.direction, car.current_floor) :
           /\ c.callSequence = course.queue /\ c.direction = course.heading
           /\ c.floorCalls = car.floorCalls /\ c.liftCalls = car.liftCalls
           /\ c.load = car.load /\ c.current_floor = car.current_floor
    BY <1>1, <2>1, HeadedCourse
  <2>4. course.heading \in {-1, 1} /\ car.current_floor + course.heading \in Floors
    <3>1. Heading(car.callSequence, car.direction, car.current_floor) /\ car.direction \in -1..1
      BY <1>3, FactsOf DEF CarFacts
    <3>. QED  BY <1>3, <2>1, <3>1, CourseFacts
  <2>5. c \in Car
    BY <1>1, <2>1, HeadedType
  <2>6. /\ \/ SimulationHead(e) /\ new = c
           \/ SimulationMove(e) /\ new = [c EXCEPT !.current_floor = @ + c.direction]
        /\ q = sim
    <3>1. q = sim
      BY <1>2, <2>2, <2>3, <2>4 DEF SimulationHead, SimulationMove
    <3>. QED  BY <1>4, <2>2, <2>3, <2>4, <3>1
  <2>7. /\ new.floorCalls = car.floorCalls /\ new.liftCalls = car.liftCalls /\ new.load = car.load
        /\ new.callSequence = course.queue /\ new.direction = course.heading
        /\ \/ new.current_floor = car.current_floor
           \/ new.current_floor = car.current_floor + course.heading
    BY <2>3, <2>5, <2>6 DEF Car
  <2>8. CarFacts(new, sim) /\ Within(new, car) /\ SameService(new, car)
    BY <1>3, <2>1, <2>7, HeadedFacts
  <2>9. Travelled(new, car)
    BY <1>5, <2>4, <2>7, <2>8 DEF Travelled
  <2>. QED  BY <1>1, <2>6, <2>8, <2>9 DEF CarStep
<1>10. CASE SimulationStop(e)
  <2>1. /\ sim.pc = "loop" /\ car.callSequence /= <<>>
        /\ Head(car.callSequence).floor = car.current_floor
    BY <1>1, <1>2, <1>10 DEF SimulationStop, AtLoop, HasTarget, Target
  <2>2. new = [car EXCEPT !.idle = FALSE,
                          !.direction = IF @ = 0 THEN Head(car.callSequence).direction ELSE @]
    BY <1>1, <1>4, <1>10 DEF SimulationStop, Roused, Target
  <2>3. q = [sim EXCEPT !.pc = "opening", !.target = Head(car.callSequence)]
    BY <1>1, <1>2, <1>4, <1>10 DEF SimulationStop, Target
  <2>4. CarFacts(new, q) /\ Within(new, car) /\ SameService(new, car)
    BY <1>3, <2>1, <2>2, <2>3, StopFacts
  <2>5. new.current_floor = car.current_floor
    BY <2>2 DEF Car
  <2>. QED  BY <1>1, <1>6, <2>4, <2>5
<1>11. CASE SimulationCount(e)
  <2>. DEFINE Q == car.callSequence
  <2>1. sim.pc = "opening" /\ new = car
    BY <1>1, <1>2, <1>4, <1>11 DEF SimulationCount
  <2>2. /\ LiftsServed(Q, sim.target.direction, sim.target.floor) = Served(e, FALSE)
        /\ FloorsServed(Q, sim.target.direction, sim.target.floor) = Served(e, TRUE)
    BY <1>1, <1>2 DEF Served, LiftsServed, FloorsServed
  <2>3. PICK l \in Nat, m \in Nat : l = Served(e, FALSE) /\ m = FloorCallCount(e)
    BY <1>1, CountsServed
  <2>4. PICK load \in 0..CAPACITY : load = car.load
    BY FactsOf, <1>3
  <2>5. CAPACITY - load - l \in Int
    BY ModelAssumption
  <2>6. PICK free \in Int : free = CAPACITY - load - l
    BY <2>5
  <2>7. FloorsServed(Q, sim.target.direction, sim.target.floor) \in Nat
    <3>1. PICK h \in Floors : h = sim.target.floor /\ h = car.current_floor /\ sim.target.direction = 1
                              /\ car.direction \in {-1, 1} /\ Heading(Q, car.direction, h)
      BY <1>3, <2>1, FactsOf DEF AtStop, CarFacts
    <3>. HIDE DEF Q
    <3>2. Q \in Seq(UpCall)
      BY <1>3 DEF Q
    <3>3. FloorsServed(Q, 1, h) \in Nat
      BY <3>1, <3>2, CallsServed
    <3>. QED  BY <3>1, <3>3
  <2>8. PICK s \in Nat : s = FloorsServed(Q, sim.target.direction, sim.target.floor)
    BY <2>7
  <2>9. /\ free >= 0 => m = Min({s, free})
        /\ ~(free >= 0) => m = s
    <3>1. /\ CAPACITY - elevator[e].load - Served(e, FALSE) = free
          /\ Served(e, TRUE) = s
      BY <1>1, <2>2, <2>3, <2>4, <2>6, <2>8
    <3>. QED  BY <2>3, <3>1 DEF FloorCallCount
  <2>10. /\ free >= 0 => m \in {s, free} /\ m <= s /\ m <= free
         /\ ~(free >= 0) => m = s
    <3>1. CASE free >= 0
      <4>1. PICK r \in Nat : r = free
        BY <3>1
      <4>2. Min({s, r}) \in {s, r} /\ Min({s, r}) <= s /\ Min({s, r}) <= r
        BY LesserOf
      <4>. QED  BY <2>9, <3>1, <4>1, <4>2
    <3>. QED  BY <2>9, <3>1
  <2>11. q = [sim EXCEPT !.pc = "unload", !.lift_call_count = l, !.floor_call_count = m]
    BY <1>2, <1>4, <1>11, <2>3 DEF SimulationCount
  <2>12. CarFacts(car, q)
    <3>1. l = LiftsServed(car.callSequence, sim.target.direction, sim.target.floor)
      BY <2>2, <2>3
    <3>2. free = CAPACITY - car.load - l
      BY <2>4, <2>6
    <3>. DEFINE p == [sim EXCEPT !.pc = "unload", !.lift_call_count = l, !.floor_call_count = m]
    <3>3. CarFacts(car, p)
      BY <1>3, <2>1, <2>8, <2>10, <3>1, <3>2, CountFacts
    <3>. QED  BY <2>11, <3>3
  <2>. QED  BY <1>1, <1>7, <2>1, <2>12
<1>12. CASE SimulationUnload(e)
  <2>1. /\ sim.pc = "unload" /\ sim.lift_call_count > 0
        /\ new = [car EXCEPT !.callSequence = deleteBeginLinkedCall(@),
                             !.load = LoadAfter(@, FirstCall(car.callSequence))]
        /\ q = [sim EXCEPT !.lift_call_count = @ - 1,
                           !.pc = IF FirstCall(car.callSequence).isSpecialCall THEN @ ELSE "unloading"]
    BY <1>1, <1>2, <1>4, <1>12 DEF SimulationUnload
  <2>. DEFINE Q == car.callSequence
              c == [car EXCEPT !.callSequence = Tail(car.callSequence), !.load = car.load - 1]
              p == [sim EXCEPT !.lift_call_count = @ - 1, !.pc = "unloading"]
  <2>2. /\ CarFacts(c, p) /\ Within(c, car)
        /\ Q /= <<>> /\ Head(Q) \in UpLiftCall /\ Head(Q).floor = car.current_floor /\ car.load > 0
        /\ OneMore(Q, Tail(Q), Head(Q))
    BY <1>3, <2>1, UnloadFacts
  <2>3. /\ c.callSequence = Tail(Q) /\ c.liftCalls = car.liftCalls /\ c.current_floor = car.current_floor
    BY DEF Car
  <2>4. new = c /\ q = p
    <3>1. ~FirstCall(Q).isSpecialCall /\ deleteBeginLinkedCall(Q) = Tail(Q)
      BY <2>2 DEF UpLiftCall, FirstCall, deleteBeginLinkedCall
    <3>2. LoadAfter(car.load, FirstCall(Q)) = car.load - 1
      BY <2>2, <3>1 DEF LoadAfter
    <3>. QED  BY <2>1, <3>1, <3>2
  <2>5. Alighted(c, car)
    BY <2>2, <2>3 DEF Alighted
  <2>. QED  BY <1>1, <2>2, <2>4, <2>5 DEF CarStep
<1>13. CASE SimulationCollect(e)
  <2>1. PICK n \in Nat : n = sim.floor_call_count
    BY FirstFields
  <2>2. sim.pc = "unload" /\ sim.lift_call_count = 0
    BY <1>2, <1>13 DEF SimulationCollect
  <2>3. new = [car EXCEPT !.callSequence = SubSeq(car.callSequence, n + 1, Len(car.callSequence))]
    BY <1>1, <1>2, <1>4, <1>13, <2>1 DEF SimulationCollect
  <2>4. q = [sim EXCEPT !.pc = "board", !.floor_call_count = 0,
                        !.deletedFloorCallList = SubSeq(car.callSequence, 1, n)]
    BY <1>1, <1>2, <1>4, <1>13, <2>1 DEF SimulationCollect
  <2>5. CarFacts(new, q) /\ Within(new, car) /\ SameService(new, car)
    <3>. DEFINE c == [car EXCEPT !.callSequence = SubSeq(car.callSequence, n + 1, Len(car.callSequence))]
                p == [sim EXCEPT !.pc = "board", !.floor_call_count = 0,
                                 !.deletedFloorCallList = SubSeq(car.callSequence, 1, n)]
    <3>1. CarFacts(c, p) /\ Within(c, car) /\ SameService(c, car)
      BY <1>3, <2>1, <2>2, CollectFacts
    <3>. QED  BY <2>3, <2>4, <3>1
  <2>6. new.current_floor = car.current_floor
    BY <2>3 DEF Car
  <2>. QED  BY <1>1, <1>6, <2>5, <2>6
<1>14. CASE SimulationEnterFloor(e)
  <2>1. new = car /\ sim.pc = "board" /\ q = [sim EXCEPT !.pc = "onfloor"]
    BY <1>1, <1>2, <1>4, <1>14 DEF SimulationEnterFloor
  <2>2. /\ q.deletedFloorCallList = sim.deletedFloorCallList /\ q.lift_call_count = sim.lift_call_count
        /\ q.floor_call_count = sim.floor_call_count /\ q.pc = "onfloor" /\ q.target = sim.target
    BY <2>1 DEF Simulation
  <2>. QED  BY <1>1, <1>3, <1>7, <2>1, <2>2, ProcessFacts
<1>15. CASE SimulationAccept(e)
  <2>. DEFINE id == Head(sim.deletedFloorCallList).ID
  <2>1. sim.pc = "onfloor"
    BY <1>2, <1>15 DEF SimulationAccept
  <2>2. PICK queue \in insertPriorityCall(car.callSequence,
                         [CallWithID(car.liftCalls, Head(sim.deletedFloorCallList).ID) EXCEPT !.passage = 1]) :
          elevator' = [elevator EXCEPT
             ![e].load = IF @ < CAPACITY THEN @ + 1 ELSE @,
             ![e].liftCalls = deleteIDLinkedCall(@, id),
             ![e].callSequence = queue]
    BY <1>1, <1>2, <1>15, Zenon DEF SimulationAccept
  <2>3. new = [car EXCEPT
           !.load = IF car.load < CAPACITY THEN car.load + 1 ELSE car.load,
           !.liftCalls = deleteIDLinkedCall(car.liftCalls, Head(sim.deletedFloorCallList).ID),
           !.callSequence = queue]
    BY <1>1, <1>4, <2>2
  <2>4. q = [sim EXCEPT !.pc = "loading", !.deletedFloorCallList = Tail(sim.deletedFloorCallList)]
    BY <1>2, <1>4, <1>15 DEF SimulationAccept
  <2>5. /\ CarFacts(new, q) /\ Within(new, car)
        /\ car.current_floor = 1 /\ car.load < CAPACITY
        /\ \E c \in UpLiftCall : /\ OneMore(car.liftCalls, new.liftCalls, c)
                                 /\ OneMore(new.callSequence, car.callSequence, c)
    BY <1>3, <2>1, <2>3, <2>4, AcceptFacts, ZenonT(30)
  <2>6. new.current_floor = car.current_floor
    BY <2>3 DEF Car
  <2>. QED  BY <1>1, <2>5, <2>6 DEF CarStep, Boarded
<1>16. CASE SimulationAwake(e)
  <2>1. /\ new = car /\ sim.pc \in {"unloading", "loading"}
        /\ q = [sim EXCEPT !.pc = IF @ = "unloading" THEN "unload" ELSE "board"]
    BY <1>1, <1>2, <1>4, <1>16 DEF SimulationAwake
  <2>2. /\ q.deletedFloorCallList = sim.deletedFloorCallList /\ q.lift_call_count = sim.lift_call_count
        /\ q.floor_call_count = sim.floor_call_count /\ q.target = sim.target
        /\ q.pc = IF sim.pc = "unloading" THEN "unload" ELSE "board"
    BY <2>1 DEF Simulation
  <2>. QED  BY <1>1, <1>3, <1>7, <2>1, <2>2, ProcessFacts
<1>17. CASE SimulationClose(e)
  <2>1. /\ new = car /\ sim.pc = "board" /\ sim.deletedFloorCallList = <<>>
        /\ q = [sim EXCEPT !.pc = "closing", !.target = NULL_CALL]
    BY <1>1, <1>2, <1>4, <1>17 DEF SimulationClose
  <2>2. /\ q.deletedFloorCallList = sim.deletedFloorCallList /\ q.lift_call_count = sim.lift_call_count
        /\ q.floor_call_count = sim.floor_call_count /\ q.pc = "closing"
    BY <2>1 DEF Simulation
  <2>. QED  BY <1>1, <1>3, <1>7, <2>1, <2>2, ProcessFacts
<1>18. CASE SimulationLeave(e)
  <2>1. new = car /\ sim.pc = "closing" /\ q = [sim EXCEPT !.pc = "loop"]
    BY <1>1, <1>2, <1>4, <1>18 DEF SimulationLeave
  <2>2. /\ q.deletedFloorCallList = sim.deletedFloorCallList /\ q.lift_call_count = sim.lift_call_count
        /\ q.floor_call_count = sim.floor_call_count /\ q.pc = "loop"
    BY <2>1 DEF Simulation
  <2>. QED  BY <1>1, <1>3, <1>7, <2>1, <2>2, ProcessFacts
<1>19. CASE Assign(e)
  <2>1. PICK call \in Call : call = WithPassage(Head(car.floorCalls), car.direction, car.current_floor)
    <3>1. Head(car.floorCalls) \in Call
      BY <1>1, <1>19, HeadTailProperties DEF Assign, Car
    <3>. QED  BY <3>1, WithPassageType
  <2>2. PICK queue \in insertPriorityCall(car.callSequence, call) :
          elevator' = [elevator EXCEPT ![e].callSequence = queue,
                                       ![e].floorCalls = deleteBeginLinkedCall(@)]
    BY <1>1, <1>19, <2>1, Zenon DEF Assign
  <2>3. car.floorCalls /= <<>> /\ q = sim
    BY <1>1, <1>2, <1>19 DEF Assign
  <2>4. new = [car EXCEPT !.callSequence = queue, !.floorCalls = Tail(car.floorCalls)]
    BY <1>1, <1>4, <2>2, <2>3 DEF deleteBeginLinkedCall
  <2>5. sim.pc \notin AwakeAtStop
    <3>1. semaphoreElevator[e] > 0 /\ semaphoreElevator[e] \in Int
      BY <1>19 DEF Assign, Up, LockInv, LockTypes
    <3>. QED  BY <1>2, <3>1 DEF LockInv, ElevatorSemaphores, SimulationHolds, AsInt
  <2>6. CarFacts(new, sim) /\ Within(new, car) /\ SameService(new, car)
    BY <1>3, <2>1, <2>3, <2>4, <2>5, AssignFacts
  <2>7. new.current_floor = car.current_floor
    BY <2>4 DEF Car
  <2>. QED  BY <1>1, <1>6, <2>3, <2>6, <2>7
<1>. QED
  BY <1>1, <1>8, <1>9, <1>10, <1>11, <1>12, <1>13, <1>14, <1>15, <1>16, <1>17, <1>18, <1>19 DEF SimulationStep

-----------------------------------------------------------------------------
(* The passengers nobody has been told of yet. *)

UpTraveller == {NewPassenger(id, t[1], t[2]) : id \in 1..MaxPassengers, t \in Trips}

Nodes == floor[1].passengers_unchecked
Listed == floor[1].length - AsInt(scheduler.pc = "shrink")
LastID == generator.passenger_id - 1 - AsInt(generator.pc /= "menu")
NewIDs == ({Nodes[i].ID : i \in 1..Listed} \cup {scheduler.new_passenger.ID}) \ {0}
Mine(e) == IDs(elevator[e].liftCalls) \cup IDs(elevator[e].callSequence)

\* They are on the ground floor, a node for each up to the length, but for the
\* one the menu has yet to write; while the scheduler is deleting one the last
\* node repeats another.
Newcomers ==
  /\ \A f \in Floors : f /= 1 => floor[f].length = 0
  /\ generator.index = IF generator.pc = "store" THEN floor[1].length ELSE 0
  /\ generator.pc = "store" => floor[1].length >= 1
  /\ \A i \in 1..MaxPassengers :
       Nodes[i] \in IF i <= floor[1].length /\ i /= generator.index THEN UpTraveller ELSE {NULL_PASSENGER}
  /\ generator.pc = "menu" => generator.new_passenger = NULL_PASSENGER
  /\ generator.pc /= "menu" => generator.new_passenger \in UpTraveller /\ generator.new_passenger.ID = LastID + 1
  /\ scheduler.pc = "scan" => scheduler.new_passenger = NULL_PASSENGER
  /\ scheduler.pc /= "scan" => scheduler.new_passenger \in UpTraveller /\ Here = 1
  /\ scheduler.pc = "shrink" =>
       Nodes[floor[1].length] = IF floor[1].length > 1 THEN Nodes[floor[1].length - 1]
                                ELSE scheduler.new_passenger

\* Nobody is twice among them, nor among them and in a car's lists, nor in the
\* lists of two cars.
Apart ==
  /\ \A i, j \in 1..Listed : Nodes[i].ID = Nodes[j].ID => i = j
  /\ scheduler.pc /= "scan" => \A i \in 1..Listed : Nodes[i].ID /= scheduler.new_passenger.ID
  /\ NewIDs \subseteq 1..LastID
  /\ \A e \in Elevators : Mine(e) \subseteq 1..LastID /\ Mine(e) \cap NewIDs = {}
  /\ \A d, e \in Elevators : d /= e => Mine(d) \cap Mine(e) = {}

Watching == \A e \in Elevators : parking[e].pc = "watch"

ServiceInv ==
  /\ \A e \in Elevators : CarFacts(elevator[e], simulation[e])
  /\ Newcomers /\ Apart /\ Watching

\* What the menu creates: somebody on the ground floor who goes up.
LEMMA TravellerFacts ==
  ASSUME UpTraffic, NEW p \in UpTraveller
  PROVE  /\ p \in Passenger /\ p /= NULL_PASSENGER /\ p.ID \in 1..MaxPassengers
         /\ p.floor_call \in NewFloorCall /\ p.floor_call.ID = p.ID /\ p.floor_call.floor = 1
         /\ p.lift_call \in UpLiftCall /\ p.lift_call.ID = p.ID
         /\ \E t \in Trips : p.floor_call.floor = t[1] /\ p.lift_call.floor = t[2]
<1>1. PICK id \in 1..MaxPassengers, t \in Trips : p = NewPassenger(id, t[1], t[2])
  BY DEF UpTraveller
<1>2. t[1] = 1 /\ t[2] \in Floors /\ t[2] /= 1
  BY ModelAssumption DEF UpTraffic
<1>3. PICK to \in 2..NUM_OF_FLOOR : to = t[2]
  BY <1>2, BuildingAssumption DEF Floors
<1>4. Order(to, 1) = 1
  BY BuildingAssumption DEF Order
<1>5. /\ id \in 0..MaxPassengers /\ to \in 0..NUM_OF_FLOOR /\ 1 \in 0..NUM_OF_FLOOR
      /\ id /= 0 /\ to > 1
  BY BuildingAssumption, ModelAssumption
<1>. DEFINE f == initCall(id, TRUE, FALSE, 1, 1, 1)
            l == initCall(id, FALSE, FALSE, 1, to, 1)
<1>6. p = initPassenger(id, f, l)
  BY <1>1, <1>2, <1>3, <1>4 DEF NewPassenger
<1>7. f \in Call /\ l \in Call
  BY <1>5, Ways DEF initCall, Call
<1>8. f \in NewFloorCall /\ f.ID = id /\ f.floor = 1
  BY <1>5, <1>7 DEF NewFloorCall, UpFloorCall, initCall
<1>9. l \in UpLiftCall /\ l.ID = id /\ l.floor = to
  BY <1>5, <1>7 DEF UpLiftCall, initCall
<1>. HIDE DEF f, l
<1>10. p.ID = id /\ p.floor_call = f /\ p.lift_call = l /\ p \in Passenger
  BY <1>5, <1>6, <1>7 DEF initPassenger, Passenger
<1>11. NULL_PASSENGER.ID = 0
  BY DEF NULL_PASSENGER, initPassenger
<1>. QED  BY <1>2, <1>3, <1>5, <1>8, <1>9, <1>10, <1>11

\* On the ground floor the menu and the scheduler exclude each other.
LEMMA GroundFloorAlone ==
  ASSUME UpTraffic, TypeInv, PermitInv, ServiceInv
  PROVE  /\ scheduler.pc = "scan" \/ generator.pc /= "store"
         /\ Up(semaphoreFloor, 1) => scheduler.pc = "scan" /\ generator.pc /= "store"
<1>1. 1 \in Floors
  BY BuildingAssumption DEF Floors
<1>2. Cardinality(CarsExited(1)) = 0
  <2>1. CarsExited(1) = {}
    BY DEF ServiceInv, CarFacts, AtStop, CarsExited
  <2>. QED  BY <2>1, FS_EmptySet
<1>3. Cardinality(CarsOn(1)) \in Nat /\ semaphoreFloor[1] \in Nat
  BY <1>1, CarsFinite DEF TypeInv, SemaphoreTypes
<1>4. semaphoreFloor[1] + Cardinality(CarsOn(1)) + AsInt(SchedulerOn(1)) + AsInt(GeneratorOn(1))
        = AsInt(1 /= 1) + AsInt(Here = 1) + Cardinality(CarsExited(1))
  BY <1>1 DEF PermitInv, FloorPermits
<1>5. scheduler.pc /= "scan" => SchedulerOn(1)
  BY DEF ServiceInv, Newcomers, SchedulerOn
<1>6. generator.pc = "store" => GeneratorOn(1)
  BY TravellerFacts DEF ServiceInv, Newcomers, GeneratorOn, GeneratorFloor
<1>7. AsInt(1 /= 1) + AsInt(Here = 1) <= 1
  BY DEF AsInt
<1>8. semaphoreFloor[1] + AsInt(SchedulerOn(1)) + AsInt(GeneratorOn(1)) <= 1
  <2>1. PICK s \in 0..1, g \in 0..1, h \in 0..1, z \in 0..1 :
          s = AsInt(SchedulerOn(1)) /\ g = AsInt(GeneratorOn(1)) /\ h = AsInt(Here = 1) /\ z = AsInt(1 /= 1)
    BY DEF AsInt
  <2>. QED  BY <1>2, <1>3, <1>4, <1>7, <2>1
<1>. QED  BY <1>3, <1>5, <1>6, <1>8 DEF AsInt, Up

\* Nobody is in the building when it opens.
LEMMA ServiceInit == ASSUME UpTraffic, Init PROVE ServiceInv
<1>1. 1 \in Floors /\ 1 \in Nat
  BY BuildingAssumption DEF Floors
<1>2. \A S : <<>> \in Seq(S)
  OBVIOUS
<1>3. Range(<<>>) = {} /\ IDs(<<>>) = {} /\ FloorIDs(<<>>) = {} /\ Lifts(<<>>) = {}
      /\ NoTwice(<<>>) /\ Sorted(<<>>) /\ ~HasFirst(<<>>)
  BY DEF Range, IDs, FloorIDs, Lifts, NoTwice, Sorted, HasFirst
<1>4. Cardinality({}) = 0 /\ Len(<<>>) = 0 /\ CAPACITY \in Nat
  BY FS_EmptySet, ModelAssumption
<1>5. CarFacts(InitElevator, InitSimulation)
  <2>1. PICK none : none = <<>>
    OBVIOUS
  <2>2. /\ InitElevator.callSequence = none /\ InitElevator.floorCalls = none /\ InitElevator.liftCalls = none
        /\ InitElevator.load = 0 /\ InitElevator.current_floor = 1 /\ InitElevator.direction = 0
        /\ InitSimulation.pc = "loop" /\ InitSimulation.deletedFloorCallList = none
    BY <2>1 DEF InitElevator, InitSimulation
  <2>3. UpLists(none, none, none, none)
    BY <1>2, <2>1 DEF UpLists
  <2>4. Ticketed(none, none, none, none)
    BY <1>3, <2>1 DEF Ticketed
  <2>5. Heading(none, 0, 1)
    BY <1>3, <2>1 DEF Heading
  <2>6. Filled(none, none, 0)
    BY <1>3, <1>4, <2>1 DEF Filled
  <2>7. AtStop(InitElevator, InitSimulation)
    BY <2>1, <2>2 DEF AtStop
  <2>. QED  BY <2>2, <2>3, <2>4, <2>5, <2>6, <2>7 DEF CarFacts
<1>6. Newcomers
  <2>1. /\ \A f \in Floors : floor[f].length = 0
        /\ floor[1].length = 0 /\ floor[1].passengers_unchecked = [i \in 1..MaxPassengers |-> NULL_PASSENGER]
    BY <1>1 DEF Init, InitFloor
  <2>2. \A i \in 1..MaxPassengers : Nodes[i] = NULL_PASSENGER /\ ~(i <= 0)
    BY <2>1, ModelAssumption DEF Nodes
  <2>3. /\ generator.pc = "menu" /\ generator.index = 0 /\ generator.new_passenger = NULL_PASSENGER
        /\ scheduler.pc = "scan" /\ scheduler.new_passenger = NULL_PASSENGER
    BY DEF Init, InitGenerator, InitScheduler
  <2>. QED  BY <2>1, <2>2, <2>3 DEF Newcomers
<1>7. Apart
  <2>1. NewIDs = {} /\ Listed = 0
    BY <1>1 DEF Init, NewIDs, Listed, InitFloor, InitScheduler, AsInt, NULL_PASSENGER, initPassenger
  <2>2. \A e \in Elevators : Mine(e) = {}
    BY <1>3 DEF Init, Mine, InitElevator
  <2>. QED  BY <2>1, <2>2 DEF Init, InitScheduler, Apart
<1>8. Watching
  BY DEF Init, Watching
<1>9. \A e \in Elevators : elevator[e] = InitElevator /\ simulation[e] = InitSimulation
  BY DEF Init
<1>. QED  BY <1>5, <1>6, <1>7, <1>8, <1>9 DEF ServiceInv

\* A step that leaves the new passengers where they are.
LEMMA NewcomersFrame ==
  ASSUME ServiceInv, UNCHANGED generator,
         scheduler'.pc = scheduler.pc, scheduler'.new_passenger = scheduler.new_passenger,
         scheduler.pc /= "scan" => Here' = Here,
         \A f \in Floors : /\ floor'[f].length = floor[f].length
                           /\ floor'[f].passengers_unchecked = floor[f].passengers_unchecked,
         \A e \in Elevators : Mine(e)' \subseteq Mine(e)
  PROVE  Newcomers' /\ Apart'
<1>1. 1 \in Floors
  BY BuildingAssumption DEF Floors
<1>2. Nodes' = Nodes /\ floor'[1].length = floor[1].length /\ Listed' = Listed /\ LastID' = LastID
  BY <1>1 DEF Nodes, Listed, LastID
<1>3. Newcomers'
  BY <1>2 DEF ServiceInv, Newcomers
<1>4. NewIDs' = NewIDs
  BY <1>2 DEF NewIDs
<1>5. Apart'
  <2>1. \A e \in Elevators : Mine(e)' \subseteq 1..LastID /\ Mine(e)' \cap NewIDs = {}
    BY DEF ServiceInv, Apart
  <2>2. \A d, e \in Elevators : d /= e => Mine(d)' \cap Mine(e)' = {}
    BY DEF ServiceInv, Apart
  <2>. QED  BY <1>2, <1>4, <2>1, <2>2 DEF ServiceInv, Apart
<1>. QED  BY <1>3, <1>5

\* A car's step leaves everybody else alone.
LEMMA CarStepService ==
  ASSUME TypeInv, LockInv, ServiceInv, TypeInv', NEW e \in Elevators, SimulationStep(e) \/ Assign(e)
  PROVE  ServiceInv' /\ CarStep(elevator'[e], simulation'[e], elevator[e])
<1>1. PICK new \in Car, q \in Simulation : new = elevator'[e] /\ q = simulation'[e]
  BY DEF TypeInv
<1>2. CarStep(new, q, elevator[e])
  BY <1>1, UpCarStep DEF ServiceInv
<1>3. /\ UNCHANGED <<scheduler, generator, parking>>
      /\ \A d \in Elevators : d /= e => elevator'[d] = elevator[d] /\ simulation'[d] = simulation[d]
      /\ \A f \in Floors : /\ floor'[f].length = floor[f].length
                           /\ floor'[f].passengers_unchecked = floor[f].passengers_unchecked
  BY CarStepFrame
<1>4. \A d \in Elevators : CarFacts(elevator'[d], simulation'[d])
  BY <1>1, <1>2, <1>3 DEF CarStep, ServiceInv
<1>5. \A d \in Elevators : Mine(d)' \subseteq Mine(d)
  BY <1>1, <1>2, <1>3 DEF CarStep, Within, Mine
<1>6. Newcomers' /\ Apart'
  BY <1>3, <1>5, NewcomersFrame DEF Here
<1>7. Watching'
  BY <1>3 DEF ServiceInv, Watching
<1>. QED  BY <1>1, <1>2, <1>4, <1>6, <1>7 DEF ServiceInv

\* The passengers the service knows of who have not been given to a car.
Pending == ({Nodes[i] : i \in 1..floor[1].length} \cup {scheduler.new_passenger}) \ {NULL_PASSENGER}

\* What the types say of the structures the menu and the scheduler change.
LEMMA GroundFloor ==
  ASSUME TypeInv
  PROVE  /\ 1 \in Floors /\ floor[1] \in Floor
         /\ Nodes \in [1..MaxPassengers -> Passenger] /\ floor[1].length \in 0..MaxPassengers
         /\ MaxPassengers \in Nat /\ generator.passenger_id \in 1..(MaxPassengers + 1)
         /\ LastID \in Int /\ Listed \in Int
<1>1. 1 \in Floors
  BY BuildingAssumption DEF Floors
<1>2. floor[1] \in Floor
  BY <1>1 DEF TypeInv
<1>3. Nodes \in [1..MaxPassengers -> Passenger] /\ floor[1].length \in 0..MaxPassengers
  BY <1>2 DEF Floor, Nodes
<1>4. MaxPassengers \in Nat /\ generator.passenger_id \in 1..(MaxPassengers + 1)
  BY ModelAssumption DEF TypeInv, GeneratorTypes
<1>5. AsInt(generator.pc /= "menu") \in 0..1 /\ AsInt(scheduler.pc = "shrink") \in 0..1
  BY DEF AsInt
<1>6. LastID \in Int /\ Listed \in Int
  <2>1. PICK a \in 0..1, b \in 0..1, n \in Nat, id \in Nat :
          /\ a = AsInt(generator.pc /= "menu") /\ b = AsInt(scheduler.pc = "shrink")
          /\ n = floor[1].length /\ id = generator.passenger_id
    BY <1>3, <1>4, <1>5
  <2>2. id - 1 - a \in Int /\ n - b \in Int
    OBVIOUS
  <2>. QED  BY <2>1, <2>2 DEF LastID, Listed
<1>. QED  BY <1>1, <1>2, <1>3, <1>4, <1>6

\* The menu makes up a passenger nobody knows of yet ...
LEMMA GeneratorNewService ==
  ASSUME UpTraffic, TypeInv, ServiceInv, GeneratorNew
  PROVE  Newcomers' /\ Apart' /\ Pending' = Pending /\ LastID' = LastID
<1>1. PICK id \in 1..MaxPassengers : id = generator.passenger_id
  BY GroundFloor DEF GeneratorNew
<1>2. PICK p \in UpTraveller : p.ID = id
        /\ generator' = [generator EXCEPT !.pc = "floor", !.passenger_id = @ + 1, !.new_passenger = p]
  <2>1. PICK t \in Trips :
          generator' = [generator EXCEPT
            !.pc = "floor", !.passenger_id = @ + 1,
            !.new_passenger = NewPassenger(generator.passenger_id, t[1], t[2])]
    BY DEF GeneratorNew
  <2>2. NewPassenger(id, t[1], t[2]) \in UpTraveller
    BY DEF UpTraveller
  <2>3. NewPassenger(id, t[1], t[2]).ID = id
    BY DEF NewPassenger, initPassenger
  <2>. QED  BY <1>1, <2>1, <2>2, <2>3
<1>3. /\ generator'.pc = "floor" /\ generator'.passenger_id = id + 1 /\ generator'.new_passenger = p
      /\ generator'.index = generator.index
  BY <1>1, <1>2 DEF TypeInv, GeneratorTypes
<1>4. UNCHANGED <<elevator, floor, scheduler>> /\ generator.pc = "menu"
  BY DEF GeneratorNew
<1>5. Nodes' = Nodes /\ Listed' = Listed /\ NewIDs' = NewIDs /\ Here' = Here /\ \A e \in Elevators : Mine(e)' = Mine(e)
  BY <1>4 DEF Nodes, Listed, NewIDs, Here, Mine
<1>6. LastID' = LastID /\ LastID = id - 1
  BY <1>1, <1>3, <1>4 DEF LastID, AsInt
<1>7. Newcomers'
  <2>1. generator'.new_passenger.ID = LastID' + 1
    BY <1>2, <1>3, <1>6
  <2>2. generator'.pc /= "store" /\ generator.pc /= "store"
    BY <1>3, <1>4
  <2>. QED  BY <1>3, <1>4, <1>5, <2>1, <2>2 DEF ServiceInv, Newcomers
<1>8. Apart'
  BY <1>4, <1>5, <1>6 DEF ServiceInv, Apart
<1>. QED  BY <1>4, <1>5, <1>6, <1>7, <1>8 DEF Pending

\* ... makes room for it, a node that is still empty ...
LEMMA GeneratorGrowService ==
  ASSUME UpTraffic, TypeInv, PermitInv, ServiceInv, TypeInv', GeneratorGrow
  PROVE  Newcomers' /\ Apart' /\ Pending' = Pending /\ LastID' = LastID
<1>1. PICK n \in Nat : n = floor[1].length
  BY GroundFloor
<1>2. 1 \in Floors /\ floor \in [Floors -> Floor] /\ Nodes \in [1..MaxPassengers -> Passenger] /\ MaxPassengers \in Nat
  BY GroundFloor DEF TypeInv
<1>3. generator.pc = "floor" /\ generator.new_passenger \in UpTraveller /\ GeneratorFloor = 1
  BY TravellerFacts DEF GeneratorGrow, ServiceInv, Newcomers, GeneratorFloor
<1>4. scheduler.pc = "scan" /\ generator.index = 0
  BY <1>3, GroundFloorAlone DEF GeneratorGrow, ServiceInv, Newcomers
<1>5. /\ generator'.pc = "store" /\ generator'.index = n + 1
      /\ generator'.new_passenger = generator.new_passenger /\ generator'.passenger_id = generator.passenger_id
  BY <1>1, <1>3 DEF GeneratorGrow, TypeInv, GeneratorTypes
<1>6. /\ floor'[1].length = n + 1 /\ floor'[1].passengers_unchecked = floor[1].passengers_unchecked
      /\ \A f \in Floors : f /= 1 => floor'[f] = floor[f]
  BY <1>1, <1>2, <1>3 DEF GeneratorGrow, Floor
<1>7. n + 1 \in 1..MaxPassengers
  <2>1. floor'[1] \in Floor
    BY <1>2 DEF TypeInv
  <2>. QED  BY <1>2, <1>6, <2>1 DEF Floor
<1>8. UNCHANGED <<elevator, scheduler>>
  BY DEF GeneratorGrow
<1>9. Nodes' = Nodes /\ Here' = Here /\ LastID' = LastID /\ Listed = n /\ Listed' = n + 1
      /\ \A e \in Elevators : Mine(e)' = Mine(e)
  BY <1>1, <1>3, <1>4, <1>5, <1>6, <1>8 DEF Nodes, Here, LastID, Listed, AsInt, Mine
<1>10. /\ \A i \in 1..n : Nodes[i] \in UpTraveller /\ Nodes[i].ID \in 1..MaxPassengers /\ i \in 1..MaxPassengers
       /\ Nodes[n + 1] = NULL_PASSENGER /\ Nodes[n + 1].ID = 0
  <2>1. \A i \in 1..n : i \in 1..MaxPassengers /\ i /= 0
    BY <1>2, <1>7
  <2>2. \A i \in 1..n : Nodes[i] \in UpTraveller
    BY <1>1, <1>4, <2>1 DEF ServiceInv, Newcomers
  <2>3. Nodes[n + 1] = NULL_PASSENGER
    BY <1>1, <1>4, <1>7 DEF ServiceInv, Newcomers
  <2>. QED  BY <2>1, <2>2, <2>3, TravellerFacts DEF NULL_PASSENGER, initPassenger
<1>11. Newcomers'
  <2>1. \A i \in 1..MaxPassengers :
          Nodes[i] \in IF i <= n + 1 /\ i /= n + 1 THEN UpTraveller ELSE {NULL_PASSENGER}
    <3>1. \A i \in 1..MaxPassengers : i <= n + 1 /\ i /= n + 1 <=> i <= n
      OBVIOUS
    <3>2. \A i \in 1..MaxPassengers : Nodes[i] \in IF i <= n THEN UpTraveller ELSE {NULL_PASSENGER}
      BY <1>1, <1>4 DEF ServiceInv, Newcomers
    <3>. QED  BY <3>1, <3>2
  <2>2. \A f \in Floors : f /= 1 => floor'[f].length = 0
    BY <1>6 DEF ServiceInv, Newcomers
  <2>. QED  BY <1>3, <1>4, <1>5, <1>6, <1>8, <1>9, <2>1, <2>2 DEF ServiceInv, Newcomers
<1>12. \A i \in 1..(n + 1) : i \in 1..n \/ i = n + 1
  OBVIOUS
<1>13. NewIDs' = NewIDs
  <2>1. {Nodes[i].ID : i \in 1..(n + 1)} = {Nodes[i].ID : i \in 1..n} \cup {0}
    <3>1. \A i \in 1..n : i \in 1..(n + 1)
      OBVIOUS
    <3>2. n + 1 \in 1..(n + 1)
      OBVIOUS
    <3>. QED  BY <1>10, <1>12, <3>1, <3>2
  <2>. QED  BY <1>8, <1>9, <2>1 DEF NewIDs
<1>14. Apart'
  <2>1. \A i, j \in 1..(n + 1) : Nodes[i].ID = Nodes[j].ID => i = j
    <3>1. \A i, j \in 1..n : Nodes[i].ID = Nodes[j].ID => i = j
      BY <1>9 DEF ServiceInv, Apart
    <3>. QED  BY <1>10, <1>12, <3>1
  <2>. QED  BY <1>4, <1>8, <1>9, <1>13, <2>1 DEF ServiceInv, Apart
<1>15. Pending' = Pending
  <2>1. {Nodes[i] : i \in 1..(n + 1)} = {Nodes[i] : i \in 1..n} \cup {NULL_PASSENGER}
    <3>1. \A i \in 1..n : i \in 1..(n + 1)
      OBVIOUS
    <3>2. n + 1 \in 1..(n + 1)
      OBVIOUS
    <3>. QED  BY <1>10, <1>12, <3>1, <3>2
  <2>. QED  BY <1>1, <1>6, <1>8, <1>9, <2>1 DEF Pending
<1>. QED  BY <1>9, <1>11, <1>14, <1>15

\* ... and stores it: it has come.
LEMMA GeneratorStoreService ==
  ASSUME UpTraffic, TypeInv, PermitInv, ServiceInv, GeneratorStore
  PROVE  /\ Newcomers' /\ Apart' /\ LastID' = LastID + 1
         /\ \E p \in UpTraveller : p.ID = LastID' /\ Pending' = Pending \cup {p}
<1>1. PICK n \in Nat : n = floor[1].length /\ n >= 1 /\ generator.index = n /\ n \in 1..MaxPassengers
  BY GroundFloor DEF GeneratorStore, ServiceInv, Newcomers
<1>2. 1 \in Floors /\ floor \in [Floors -> Floor] /\ Nodes \in [1..MaxPassengers -> Passenger] /\ MaxPassengers \in Nat
      /\ LastID \in Int
  BY GroundFloor DEF TypeInv
<1>3. PICK p \in UpTraveller : p = generator.new_passenger
  BY DEF GeneratorStore, ServiceInv, Newcomers
<1>4. p.ID = LastID + 1 /\ GeneratorFloor = 1 /\ generator.pc = "store"
  BY <1>3, TravellerFacts DEF GeneratorStore, ServiceInv, Newcomers, GeneratorFloor
<1>5. scheduler.pc = "scan" /\ scheduler.new_passenger = NULL_PASSENGER
  BY <1>4, GroundFloorAlone DEF ServiceInv, Newcomers
<1>6. /\ generator'.pc = "menu" /\ generator'.index = 0
      /\ generator'.new_passenger = NULL_PASSENGER /\ generator'.passenger_id = generator.passenger_id
  BY DEF GeneratorStore, TypeInv, GeneratorTypes
<1>7. PICK nodes : nodes = [Nodes EXCEPT ![n] = p]
  OBVIOUS
<1>8. /\ floor'[1].length = n /\ floor'[1].passengers_unchecked = nodes
      /\ \A f \in Floors : f /= 1 => floor'[f] = floor[f]
  BY <1>1, <1>2, <1>3, <1>4, <1>7 DEF GeneratorStore, Floor, Nodes
<1>9. UNCHANGED <<elevator, scheduler>>
  BY DEF GeneratorStore
<1>10. /\ Nodes' = nodes /\ Here' = Here /\ LastID' = LastID + 1 /\ Listed = n /\ Listed' = n
       /\ \A e \in Elevators : Mine(e)' = Mine(e)
  <2>1. LastID = generator.passenger_id - 1 - 1 /\ LastID' = generator.passenger_id - 1
    BY <1>4, <1>6, GroundFloor DEF LastID, AsInt
  <2>2. LastID' = LastID + 1
    BY <2>1, GroundFloor
  <2>3. Listed = n /\ Listed' = n
    BY <1>1, <1>5, <1>8, <1>9 DEF Listed, AsInt
  <2>. QED  BY <1>8, <1>9, <2>2, <2>3 DEF Nodes, Here, Mine
<1>11. /\ \A i \in 1..MaxPassengers : i /= n => nodes[i] = Nodes[i]
       /\ nodes[n] = p /\ Nodes[n] = NULL_PASSENGER
  <2>1. Nodes[n] = NULL_PASSENGER
    BY <1>1 DEF ServiceInv, Newcomers
  <2>. QED  BY <1>1, <1>2, <1>7, <2>1
<1>12. \A i \in 1..n : i \in 1..MaxPassengers
  BY <1>1, <1>2
<1>13. \A i \in 1..n : i /= n => nodes[i] \in UpTraveller /\ nodes[i] = Nodes[i] /\ nodes[i].ID \in NewIDs
  <2>1. \A i \in 1..n : i /= n => Nodes[i] \in UpTraveller /\ nodes[i] = Nodes[i]
    BY <1>1, <1>11, <1>12 DEF ServiceInv, Newcomers
  <2>2. \A i \in 1..n : i /= n => Nodes[i].ID /= 0
    BY <2>1, TravellerFacts
  <2>. QED  BY <1>10, <2>1, <2>2 DEF NewIDs
<1>14. Newcomers'
  <2>1. \A i \in 1..MaxPassengers : nodes[i] \in IF i <= n /\ i /= 0 THEN UpTraveller ELSE {NULL_PASSENGER}
    <3>1. \A i \in 1..MaxPassengers : i /= n => nodes[i] \in IF i <= n THEN UpTraveller ELSE {NULL_PASSENGER}
      BY <1>1, <1>11 DEF ServiceInv, Newcomers
    <3>. QED  BY <1>11, <3>1
  <2>2. \A f \in Floors : f /= 1 => floor'[f].length = 0
    BY <1>8 DEF ServiceInv, Newcomers
  <2>. QED  BY <1>5, <1>6, <1>8, <1>9, <1>10, <2>1, <2>2 DEF ServiceInv, Newcomers
<1>15. {Nodes[i].ID : i \in 1..n} \subseteq NewIDs \cup {0}
  BY <1>10 DEF NewIDs
<1>16. NewIDs' \subseteq NewIDs \cup {LastID'}
  <2>1. \A i \in 1..n : nodes[i].ID \in NewIDs \cup {LastID + 1}
    BY <1>4, <1>11, <1>13
  <2>2. NULL_PASSENGER.ID = 0
    BY DEF NULL_PASSENGER, initPassenger
  <2>. QED  BY <1>5, <1>9, <1>10, <2>1, <2>2 DEF NewIDs
<1>17. NewIDs \subseteq 1..LastID /\ \A e \in Elevators : Mine(e) \subseteq 1..LastID /\ Mine(e) \cap NewIDs = {}
  BY DEF ServiceInv, Apart
<1>18. LastID' \notin 1..LastID /\ 1..LastID \subseteq 1..LastID' /\ LastID' \in 1..LastID'
  <2>1. p.ID \in 1..MaxPassengers
    BY TravellerFacts
  <2>. QED  BY <1>2, <1>4, <1>10, <2>1
<1>19. Apart'
  <2>1. \A i, j \in 1..n : nodes[i].ID = nodes[j].ID => i = j
    <3>1. \A i, j \in 1..n : Nodes[i].ID = Nodes[j].ID => i = j
      BY <1>10 DEF ServiceInv, Apart
    <3>2. \A i \in 1..n : i /= n => nodes[i].ID /= p.ID
      BY <1>4, <1>10, <1>13, <1>17, <1>18
    <3>. QED  BY <1>11, <1>13, <3>1, <3>2
  <2>2. NewIDs' \subseteq 1..LastID'
    BY <1>16, <1>17, <1>18
  <2>3. \A e \in Elevators : Mine(e)' \subseteq 1..LastID' /\ Mine(e)' \cap NewIDs' = {}
    BY <1>10, <1>16, <1>17, <1>18
  <2>. QED  BY <1>5, <1>9, <1>10, <2>1, <2>2, <2>3 DEF ServiceInv, Apart
<1>20. Pending' = Pending \cup {p}
  <2>1. {nodes[i] : i \in 1..n} = ({Nodes[i] : i \in 1..n} \ {NULL_PASSENGER}) \cup {p}
    <3>1. \A i \in 1..n : i /= n => Nodes[i] /= NULL_PASSENGER
      BY <1>13, TravellerFacts
    <3>2. n \in 1..n
      BY <1>1
    <3>. QED  BY <1>11, <1>13, <3>1, <3>2
  <2>2. p /= NULL_PASSENGER
    BY TravellerFacts
  <2>. QED  BY <1>1, <1>5, <1>8, <1>9, <1>10, <2>1, <2>2 DEF Pending
<1>. QED  BY <1>4, <1>10, <1>14, <1>19, <1>20

\* The scheduler takes the first of the new passengers in hand; until the length
\* is put right the last node repeats another.
LEMMA SchedulerTakeService ==
  ASSUME UpTraffic, TypeInv, PermitInv, ServiceInv, SchedulerTake
  PROVE  Newcomers' /\ Apart' /\ Pending' = Pending
<1>1. /\ 1 \in Floors /\ floor \in [Floors -> Floor] /\ Nodes \in [1..MaxPassengers -> Passenger]
      /\ MaxPassengers \in Nat /\ Here \in Floors
  BY GroundFloor DEF TypeInv, SchedulerTypes, Here
<1>2. Here = 1 /\ scheduler.pc = "scan" /\ scheduler.new_passenger = NULL_PASSENGER
  BY <1>1 DEF SchedulerTake, ServiceInv, Newcomers
<1>3. generator.pc /= "store" /\ generator.index = 0
  BY <1>2, GroundFloorAlone DEF SchedulerTake, ServiceInv, Newcomers
<1>4. PICK n \in Nat : n = floor[1].length /\ n >= 1 /\ n \in 1..MaxPassengers
  BY <1>1, <1>2, GroundFloor DEF SchedulerTake
<1>5. PICK nodes : nodes = [i \in 1..MaxPassengers |-> IF i < n THEN Nodes[i + 1] ELSE Nodes[i]]
  OBVIOUS
<1>6. PICK p : p = Nodes[1]
  OBVIOUS
<1>7. /\ floor'[1].length = n /\ floor'[1].passengers_unchecked = nodes
      /\ \A f \in Floors : f /= 1 => floor'[f] = floor[f]
  <2>1. nodes = [i \in DOMAIN Nodes |-> IF i < n THEN Nodes[i + 1] ELSE Nodes[i]]
    BY <1>1, <1>5
  <2>2. floor' = [floor EXCEPT ![1].passengers_unchecked = nodes]
    BY <1>2, <1>4, <2>1 DEF SchedulerTake, Nodes
  <2>. QED  BY <1>1, <1>4, <2>2 DEF Floor
<1>8. scheduler'.pc = "shrink" /\ scheduler'.new_passenger = p /\ Here' = 1
  BY <1>2, <1>6 DEF SchedulerTake, TypeInv, SchedulerTypes, Here, Nodes
<1>9. UNCHANGED <<elevator, generator>>
  BY DEF SchedulerTake
<1>10. /\ Nodes' = nodes /\ LastID' = LastID /\ Listed = n /\ Listed' = n - 1
       /\ \A e \in Elevators : Mine(e)' = Mine(e)
  BY <1>2, <1>4, <1>7, <1>8, <1>9 DEF Nodes, LastID, Listed, AsInt, Mine
<1>11. \A i \in 1..n : i \in 1..MaxPassengers /\ Nodes[i] \in UpTraveller /\ Nodes[i].ID /= 0 /\ Nodes[i] /= NULL_PASSENGER
  <2>1. \A i \in 1..n : i \in 1..MaxPassengers /\ i /= 0 /\ i <= n
    BY <1>1, <1>4
  <2>2. \A i \in 1..n : Nodes[i] \in UpTraveller
    BY <1>3, <1>4, <2>1 DEF ServiceInv, Newcomers
  <2>. QED  BY <2>1, <2>2, TravellerFacts
<1>12. /\ \A i \in 1..(n - 1) : /\ i \in 1..n /\ i + 1 \in 1..n /\ i + 1 /= 1
                                /\ nodes[i] = Nodes[i + 1]
       /\ nodes[n] = Nodes[n] /\ 1 \in 1..n /\ n \in 1..n
       /\ \A i \in 1..MaxPassengers : ~(i <= n) => nodes[i] = Nodes[i]
  <2>1. \A i \in 1..(n - 1) : i \in 1..MaxPassengers /\ i < n /\ i \in 1..n /\ i + 1 \in 1..n /\ i + 1 /= 1
    BY <1>1, <1>4
  <2>2. \A i \in 1..MaxPassengers : ~(i <= n) => ~(i < n)
    BY <1>4
  <2>. QED  BY <1>4, <1>5, <2>1, <2>2
<1>13. p \in UpTraveller /\ p.ID /= 0 /\ p /= NULL_PASSENGER
  BY <1>6, <1>11, <1>12
<1>14. \A i \in 1..n : i \in 1..(n - 1) \/ i = n
  BY <1>4
<1>15. Newcomers'
  <2>1. \A i \in 1..MaxPassengers : nodes[i] \in IF i <= n /\ i /= 0 THEN UpTraveller ELSE {NULL_PASSENGER}
    <3>1. ASSUME NEW i \in 1..MaxPassengers, i <= n PROVE nodes[i] \in UpTraveller
      <4>1. i \in 1..n
        BY <1>4, <3>1
      <4>. QED  BY <1>11, <1>12, <1>14, <4>1
    <3>2. ASSUME NEW i \in 1..MaxPassengers, ~(i <= n) PROVE nodes[i] = NULL_PASSENGER
      BY <1>4, <1>12, <3>2 DEF ServiceInv, Newcomers
    <3>. QED  BY <3>1, <3>2
  <2>2. nodes[n] = IF n > 1 THEN nodes[n - 1] ELSE p
    <3>1. CASE n > 1
      <4>1. n - 1 \in 1..(n - 1) /\ (n - 1) + 1 = n
        BY <3>1
      <4>. QED  BY <1>12, <3>1, <4>1
    <3>2. CASE ~(n > 1)
      BY <1>4, <1>6, <1>12, <3>2
    <3>. QED  BY <3>1, <3>2
  <2>3. \A f \in Floors : f /= 1 => floor'[f].length = 0
    BY <1>7 DEF ServiceInv, Newcomers
  <2>. QED  BY <1>3, <1>7, <1>8, <1>9, <1>10, <1>13, <2>1, <2>2, <2>3 DEF ServiceInv, Newcomers
<1>16. \A i, j \in 1..n : Nodes[i].ID = Nodes[j].ID => i = j
  BY <1>10 DEF ServiceInv, Apart
<1>17. \A i \in 1..n : Nodes[i].ID \in NewIDs
  BY <1>10, <1>11 DEF NewIDs
<1>18. NewIDs' \subseteq NewIDs
  <2>1. \A i \in 1..(n - 1) : nodes[i].ID \in NewIDs
    BY <1>12, <1>17
  <2>2. p.ID \in NewIDs
    BY <1>6, <1>12, <1>17
  <2>. QED  BY <1>8, <1>10, <2>1, <2>2 DEF NewIDs
<1>19. Apart'
  <2>1. \A i, j \in 1..(n - 1) : nodes[i].ID = nodes[j].ID => i = j
    <3>. TAKE i, j \in 1..(n - 1)
    <3>1. nodes[i].ID = nodes[j].ID => i + 1 = j + 1
      BY <1>12, <1>16
    <3>. QED  BY <3>1
  <2>2. \A i \in 1..(n - 1) : nodes[i].ID /= p.ID
    BY <1>6, <1>12, <1>16
  <2>3. /\ NewIDs' \subseteq 1..LastID
        /\ \A e \in Elevators : Mine(e) \subseteq 1..LastID /\ Mine(e) \cap NewIDs' = {}
    BY <1>18 DEF ServiceInv, Apart
  <2>. QED  BY <1>8, <1>10, <2>1, <2>2, <2>3 DEF ServiceInv, Apart
<1>20. Pending' = Pending
  <2>1. {nodes[i] : i \in 1..n} \cup {p} = {Nodes[i] : i \in 1..n}
    <3>1. \A i \in 1..n : nodes[i] \in {Nodes[j] : j \in 1..n}
      BY <1>12, <1>14
    <3>2. \A i \in 1..n : Nodes[i] \in {nodes[j] : j \in 1..n} \cup {p}
      <4>. TAKE i \in 1..n
      <4>1. CASE i = 1
        BY <1>6, <4>1
      <4>2. CASE i /= 1
        <5>1. i - 1 \in 1..(n - 1) /\ (i - 1) + 1 = i
          BY <1>4, <4>2
        <5>2. nodes[i - 1] = Nodes[i] /\ i - 1 \in 1..n
          BY <1>12, <5>1
        <5>. QED  BY <5>2
      <4>. QED  BY <4>1, <4>2
    <3>3. p \in {Nodes[j] : j \in 1..n}
      BY <1>6, <1>12
    <3>. QED  BY <3>1, <3>2, <3>3
  <2>. QED  BY <1>2, <1>4, <1>7, <1>8, <1>10, <2>1 DEF Pending
<1>. QED  BY <1>15, <1>19, <1>20

\* The length is put right.
LEMMA SchedulerShrinkService ==
  ASSUME UpTraffic, TypeInv, PermitInv, ServiceInv, SchedulerShrink
  PROVE  Newcomers' /\ Apart' /\ Pending' = Pending
<1>1. /\ 1 \in Floors /\ floor \in [Floors -> Floor] /\ Nodes \in [1..MaxPassengers -> Passenger]
      /\ MaxPassengers \in Nat
  BY GroundFloor DEF TypeInv
<1>2. Here = 1 /\ scheduler.pc = "shrink" /\ scheduler.new_passenger \in UpTraveller
  BY DEF SchedulerShrink, ServiceInv, Newcomers
<1>3. generator.pc /= "store" /\ generator.index = 0
  BY <1>2, GroundFloorAlone DEF ServiceInv, Newcomers
<1>4. PICK n \in Nat : n = floor[1].length /\ n >= 1 /\ n \in 1..MaxPassengers
  BY <1>1, <1>2, GroundFloor DEF TypeInv, Shrinks
<1>5. PICK nodes : nodes = [Nodes EXCEPT ![n] = NULL_PASSENGER]
  OBVIOUS
<1>6. PICK p \in UpTraveller : p = scheduler.new_passenger
  BY <1>2
<1>7. /\ floor'[1].length = n - 1 /\ floor'[1].passengers_unchecked = nodes
      /\ \A f \in Floors : f /= 1 => floor'[f] = floor[f]
  BY <1>1, <1>2, <1>4, <1>5 DEF SchedulerShrink, Nodes, Floor
<1>8. scheduler'.pc = "lock" /\ scheduler'.new_passenger = p /\ Here' = 1
  BY <1>2, <1>6 DEF SchedulerShrink, TypeInv, SchedulerTypes, Here
<1>9. UNCHANGED <<elevator, generator>>
  BY DEF SchedulerShrink
<1>10. /\ Nodes' = nodes /\ LastID' = LastID /\ Listed = n - 1 /\ Listed' = n - 1
       /\ \A e \in Elevators : Mine(e)' = Mine(e)
  BY <1>2, <1>4, <1>7, <1>8, <1>9 DEF Nodes, LastID, Listed, AsInt, Mine
<1>11. /\ \A i \in 1..MaxPassengers : i /= n => nodes[i] = Nodes[i]
       /\ nodes[n] = NULL_PASSENGER
       /\ \A i \in 1..(n - 1) : i \in 1..MaxPassengers /\ i /= n
  BY <1>1, <1>4, <1>5
<1>12. \A i \in 1..(n - 1) : nodes[i] = Nodes[i]
  BY <1>11
<1>13. Newcomers'
  <2>1. \A i \in 1..MaxPassengers : nodes[i] \in IF i <= n - 1 /\ i /= 0 THEN UpTraveller ELSE {NULL_PASSENGER}
    <3>1. ASSUME NEW i \in 1..MaxPassengers, i /= n
          PROVE  nodes[i] \in IF i <= n - 1 /\ i /= 0 THEN UpTraveller ELSE {NULL_PASSENGER}
      <4>1. i <= n - 1 /\ i /= 0 <=> i <= n /\ i /= 0
        BY <1>4, <3>1
      <4>2. Nodes[i] \in IF i <= n /\ i /= 0 THEN UpTraveller ELSE {NULL_PASSENGER}
        BY <1>3, <1>4 DEF ServiceInv, Newcomers
      <4>. QED  BY <1>11, <3>1, <4>1, <4>2
    <3>2. ~(n <= n - 1)
      OBVIOUS
    <3>. QED  BY <1>11, <3>1, <3>2
  <2>2. \A f \in Floors : f /= 1 => floor'[f].length = 0
    BY <1>7 DEF ServiceInv, Newcomers
  <2>. QED  BY <1>2, <1>3, <1>6, <1>7, <1>8, <1>9, <1>10, <2>1, <2>2 DEF ServiceInv, Newcomers
<1>14. NewIDs' = NewIDs
  BY <1>6, <1>8, <1>10, <1>12 DEF NewIDs
<1>15. Apart'
  <2>1. \A i, j \in 1..(n - 1) : nodes[i].ID = nodes[j].ID => i = j
    BY <1>10, <1>12 DEF ServiceInv, Apart
  <2>2. \A i \in 1..(n - 1) : nodes[i].ID /= p.ID
    BY <1>2, <1>6, <1>10, <1>12 DEF ServiceInv, Apart
  <2>. QED  BY <1>8, <1>10, <1>14, <2>1, <2>2 DEF ServiceInv, Apart
<1>16. Pending' = Pending
  <2>1. \A i \in 1..n : i \in 1..(n - 1) \/ i = n
    BY <1>4
  <2>2. {Nodes[i] : i \in 1..n} \cup {p} = {nodes[i] : i \in 1..(n - 1)} \cup {p}
    <3>1. Nodes[n] \in {nodes[i] : i \in 1..(n - 1)} \cup {p}
      <4>1. CASE n > 1
        <5>1. n - 1 \in 1..(n - 1)
          BY <4>1
        <5>2. Nodes[n] = Nodes[n - 1]
          BY <1>2, <1>4, <4>1 DEF ServiceInv, Newcomers
        <5>. QED  BY <1>12, <5>1, <5>2
      <4>2. CASE ~(n > 1)
        BY <1>2, <1>4, <1>6, <4>2 DEF ServiceInv, Newcomers
      <4>. QED  BY <4>1, <4>2
    <3>2. \A i \in 1..(n - 1) : i \in 1..n
      BY <1>4
    <3>. QED  BY <1>12, <2>1, <3>1, <3>2
  <2>. QED  BY <1>4, <1>6, <1>7, <1>8, <1>10, <2>2 DEF Pending
<1>. QED  BY <1>13, <1>15, <1>16

\* The scheduler moves on to another floor, or waits for a car.
LEMMA SchedulerWaitService ==
  ASSUME TypeInv, ServiceInv, SchedulerSkip \/ SchedulerLock
  PROVE  Newcomers' /\ Apart' /\ Pending' = Pending
<1>1. UNCHANGED <<elevator, floor, generator>>
  BY DEF SchedulerSkip, SchedulerLock
<1>2. /\ scheduler'.pc = scheduler.pc /\ scheduler'.new_passenger = scheduler.new_passenger
      /\ scheduler.pc /= "scan" => Here' = Here
  BY DEF SchedulerSkip, SchedulerLock, TypeInv, SchedulerTypes, Here
<1>3. Newcomers' /\ Apart'
  BY <1>1, <1>2, NewcomersFrame DEF Mine
<1>4. Pending' = Pending
  BY <1>1, <1>2 DEF Pending, Nodes
<1>. QED  BY <1>3, <1>4

\* The passenger leaves the new ones for the lists of one car.
LEMMA SchedulerDispatchService ==
  ASSUME UpTraffic, TypeInv, PermitInv, ServiceInv, SchedulerDispatch
  PROVE  /\ \A d \in Elevators : CarFacts(elevator'[d], simulation'[d])
         /\ Newcomers' /\ Apart'
         /\ \E p \in Pending, e \in Elevators :
              /\ Pending = Pending' \cup {p}
              /\ OneMore(elevator'[e].liftCalls, elevator[e].liftCalls, p.lift_call)
              /\ p.lift_call.ID = p.ID /\ p.floor_call.floor = 1
              /\ \A d \in Elevators : /\ d /= e => elevator'[d].liftCalls = elevator[d].liftCalls
                                      /\ elevator'[d].callSequence = elevator[d].callSequence
                                      /\ elevator'[d].current_floor = elevator[d].current_floor
<1>1. /\ 1 \in Floors /\ floor \in [Floors -> Floor] /\ elevator \in [Elevators -> Car]
      /\ simulation \in [Elevators -> Simulation]
  BY GroundFloor DEF TypeInv
<1>2. PICK e \in Elevators :
        /\ elevator' = [elevator EXCEPT ![e] = WithPassengerCalls(@, scheduler.new_passenger)]
        /\ scheduler' = [scheduler EXCEPT
             !.pc = "scan", !.locked = 0, !.new_passenger = NULL_PASSENGER,
             !.count = IF algorithm \in {3, 4} THEN @ ELSE (e + 1) % NUM_OF_ELEVATOR]
  BY Zenon DEF SchedulerDispatch
<1>3. PICK p \in UpTraveller : p = scheduler.new_passenger
  BY DEF SchedulerDispatch, ServiceInv, Newcomers
<1>4. /\ p.floor_call \in NewFloorCall /\ p.floor_call.ID = p.ID /\ p.floor_call.floor = 1
      /\ p.lift_call \in UpLiftCall /\ p.lift_call.ID = p.ID /\ p /= NULL_PASSENGER /\ p.ID /= 0
  BY TravellerFacts
<1>5. /\ scheduler.pc = "lock" /\ Here = 1 /\ generator.pc /= "store" /\ generator.index = 0
  BY GroundFloorAlone DEF SchedulerDispatch, ServiceInv, Newcomers
<1>6. PICK n \in Nat : n = floor[1].length
  BY GroundFloor
<1>7. UNCHANGED <<floor, simulation, generator>>
  BY DEF SchedulerDispatch
<1>8. scheduler'.pc = "scan" /\ scheduler'.new_passenger = NULL_PASSENGER
  BY <1>2 DEF TypeInv, SchedulerTypes
<1>9. Nodes' = Nodes /\ LastID' = LastID /\ Listed = n /\ Listed' = n
  BY <1>5, <1>6, <1>7, <1>8 DEF Nodes, LastID, Listed, AsInt
<1>10. p.ID \in NewIDs /\ NULL_PASSENGER.ID = 0
  BY <1>3, <1>4 DEF NewIDs, NULL_PASSENGER, initPassenger
<1>11. PICK car \in Car, sim \in Simulation : car = elevator[e] /\ sim = simulation[e] /\ CarFacts(car, sim)
  BY <1>1 DEF ServiceInv
<1>. DEFINE new == [car EXCEPT !.floorCalls = Append(@, p.floor_call), !.liftCalls = Append(@, p.lift_call)]
<1>12. /\ CarFacts(new, sim) /\ new.callSequence = car.callSequence
       /\ OneMore(new.liftCalls, car.liftCalls, p.lift_call)
  <2>1. p.lift_call.ID \notin IDs(car.liftCalls) \cup IDs(car.callSequence)
    BY <1>4, <1>10, <1>11 DEF ServiceInv, Apart, Mine
  <2>2. p.floor_call.ID = p.lift_call.ID
    BY <1>4
  <2>3. PICK f \in NewFloorCall, l \in UpLiftCall : f = p.floor_call /\ l = p.lift_call
    BY <1>4
  <2>4. f.ID = l.ID /\ l.ID \notin IDs(car.liftCalls) \cup IDs(car.callSequence)
    BY <2>1, <2>2, <2>3
  <2>5. /\ new.floorCalls = Append(car.floorCalls, f) /\ new.liftCalls = Append(car.liftCalls, l)
        /\ new.callSequence = car.callSequence /\ new.load = car.load
        /\ new.current_floor = car.current_floor /\ new.direction = car.direction
    BY <2>3 DEF Car
  <2>. HIDE DEF new
  <2>6. /\ CarFacts(new, sim) /\ new.callSequence = car.callSequence
        /\ OneMore(new.liftCalls, car.liftCalls, l)
    BY <1>11, <2>4, <2>5, GivenFacts
  <2>. QED  BY <2>3, <2>6
<1>13. new.current_floor = car.current_floor
  BY DEF Car
<1>14. elevator'[e] = new /\ \A d \in Elevators : d /= e => elevator'[d] = elevator[d]
  BY <1>1, <1>2, <1>3, <1>11 DEF WithPassengerCalls, insertEndLinkedCall
<1>. HIDE DEF new
<1>15. \A d \in Elevators : CarFacts(elevator'[d], simulation'[d])
  BY <1>7, <1>11, <1>12, <1>14 DEF ServiceInv
<1>16. Newcomers'
  BY <1>5, <1>7, <1>8, <1>9 DEF ServiceInv, Newcomers
<1>17. /\ Mine(e)' = Mine(e) \cup {p.ID}
       /\ \A d \in Elevators : d /= e => Mine(d)' = Mine(d)
  <2>1. IDs(new.liftCalls) = IDs(car.liftCalls) \cup {p.ID}
    BY <1>4, <1>12, OneMoreCalls
  <2>. QED  BY <1>11, <1>12, <1>14, <2>1 DEF Mine
<1>18. NewIDs' = NewIDs \ {p.ID}
  <2>1. \A i \in 1..n : Nodes[i].ID /= p.ID
    BY <1>3, <1>5, <1>9 DEF ServiceInv, Apart
  <2>. QED  BY <1>3, <1>4, <1>8, <1>9, <1>10, <2>1 DEF NewIDs
<1>19. Apart'
  <2>1. NewIDs \subseteq 1..LastID /\ \A d \in Elevators : Mine(d) \subseteq 1..LastID /\ Mine(d) \cap NewIDs = {}
    BY DEF ServiceInv, Apart
  <2>2. \A d \in Elevators : Mine(d)' \subseteq 1..LastID /\ Mine(d)' \cap NewIDs' = {}
    <3>. SUFFICES ASSUME NEW d \in Elevators
                  PROVE  Mine(d)' \subseteq 1..LastID /\ Mine(d)' \cap NewIDs' = {}
      OBVIOUS
    <3>1. Mine(d)' = Mine(d) \cup {p.ID} \/ Mine(d)' = Mine(d)
      BY <1>17
    <3>. QED  BY <1>10, <1>18, <2>1, <3>1
  <2>3. \A c, d \in Elevators : c /= d => Mine(c)' \cap Mine(d)' = {}
    <3>1. \A c, d \in Elevators : c /= d => Mine(c) \cap Mine(d) = {}
      BY DEF ServiceInv, Apart
    <3>. QED  BY <1>10, <1>17, <2>1, <3>1
  <2>. QED  BY <1>8, <1>9, <1>18, <2>1, <2>2, <2>3 DEF ServiceInv, Apart
<1>20. Pending = Pending' \cup {p} /\ p \in Pending
  BY <1>3, <1>4, <1>7, <1>8, <1>9 DEF Pending
<1>. QED  BY <1>4, <1>11, <1>12, <1>13, <1>14, <1>15, <1>16, <1>19, <1>20

-----------------------------------------------------------------------------
(* Every step of the system, as the passengers see it. *)

\* A car whose passengers see no difference.
Still(e) ==
  /\ elevator'[e].current_floor = elevator[e].current_floor
  /\ SameService(elevator'[e], elevator[e])

SamePeople == Pending' = Pending /\ LastID' = LastID

Given(p, e) ==
  /\ Pending = Pending' \cup {p} /\ LastID' = LastID
  /\ OneMore(elevator'[e].liftCalls, elevator[e].liftCalls, p.lift_call)
  /\ p.lift_call.ID = p.ID /\ p.floor_call.floor = 1
  /\ elevator'[e].callSequence = elevator[e].callSequence
  /\ elevator'[e].current_floor = elevator[e].current_floor
  /\ \A d \in Elevators : d /= e => Still(d)

\* The button is no passenger's business, whatever the car is doing.
LEMMA GpioService ==
  ASSUME TypeInv, TypeInv', ServiceInv, GpioStep
  PROVE  ServiceInv' /\ SamePeople /\ \A e \in Elevators : Still(e)
<1>1. UNCHANGED <<floor, simulation, scheduler, generator, parking>>
  BY DEF GpioStep, GpioRead, GpioWrite
<1>2. \A e \in Elevators :
        /\ elevator'[e].floorCalls = elevator[e].floorCalls /\ elevator'[e].liftCalls = elevator[e].liftCalls
        /\ elevator'[e].callSequence = elevator[e].callSequence /\ elevator'[e].load = elevator[e].load
        /\ elevator'[e].current_floor = elevator[e].current_floor
        /\ elevator'[e].direction = elevator[e].direction
  <2>1. elevator \in [Elevators -> Car]
    BY DEF TypeInv
  <2>2. CASE GpioRead
    BY <2>2 DEF GpioRead
  <2>3. CASE GpioWrite
    <3>1. PICK n, b : elevator' = [elevator EXCEPT ![n].abnormal = b]
      BY <2>3 DEF GpioWrite
    <3>. QED  BY <2>1, <3>1 DEF Car
  <2>. QED  BY <2>2, <2>3 DEF GpioStep
<1>3. \A e \in Elevators : CarFacts(elevator'[e], simulation'[e])
  <2>. SUFFICES ASSUME NEW e \in Elevators PROVE CarFacts(elevator'[e], simulation'[e])
    OBVIOUS
  <2>1. PICK car \in Car, new \in Car, sim \in Simulation :
          car = elevator[e] /\ new = elevator'[e] /\ sim = simulation[e] /\ sim = simulation'[e]
    BY <1>1 DEF TypeInv
  <2>2. CarFacts(car, sim) /\ AtStop(car, sim)
    BY <2>1 DEF ServiceInv, CarFacts
  <2>3. /\ new.floorCalls = car.floorCalls /\ new.liftCalls = car.liftCalls
        /\ new.callSequence = car.callSequence /\ new.load = car.load
        /\ new.current_floor = car.current_floor /\ new.direction = car.direction
    BY <1>2, <2>1
  <2>4. AtStop(new, sim)
    BY <2>2, <2>3 DEF AtStop
  <2>5. CarFacts(new, sim)
    BY <2>2, <2>3, <2>4, QueueKept
  <2>. QED  BY <2>1, <2>5
<1>4. \A e \in Elevators : Mine(e)' = Mine(e)
  BY <1>2 DEF Mine
<1>5. Newcomers' /\ Apart'
  BY <1>1, <1>4, NewcomersFrame DEF Here
<1>6. SamePeople
  BY <1>1 DEF SamePeople, Pending, Nodes, LastID
<1>7. \A e \in Elevators : Still(e)
  BY <1>2 DEF Still, SameService
<1>. QED  BY <1>1, <1>3, <1>5, <1>6, <1>7 DEF ServiceInv, Watching

\* The scheduler's and the menu's steps leave the cars alone, but for one.
LEMMA OthersFrame ==
  ASSUME GeneratorStep \/ SchedulerStep
  PROVE  /\ UNCHANGED <<simulation, parking>>
         /\ ~SchedulerDispatch => UNCHANGED elevator
         /\ SchedulerStep => UNCHANGED generator
BY DEF GeneratorStep, GeneratorNew, GeneratorGrow, GeneratorStore, SchedulerStep, SchedulerSkip,
   SchedulerTake, SchedulerShrink, SchedulerLock, SchedulerDispatch

\* Every step keeps the invariant and is one of: nothing to the passengers, a step
\* of a car, a passenger coming, a passenger given to a car.
LEMMA ServiceStep ==
  ASSUME UpTraffic, TypeInv, LockInv, PermitInv, ServiceInv, TypeInv', [Next]_vars
  PROVE  /\ ServiceInv'
         /\ \/ SamePeople /\ \A e \in Elevators : Still(e)
            \/ SamePeople /\ \E e \in Elevators :
                 /\ CarStep(elevator'[e], simulation'[e], elevator[e])
                 /\ \A d \in Elevators : d /= e => Still(d)
            \/ \E p \in UpTraveller : /\ LastID' = LastID + 1 /\ p.ID = LastID'
                                      /\ Pending' = Pending \cup {p}
                                      /\ \A e \in Elevators : Still(e)
            \/ \E p \in Pending, e \in Elevators : Given(p, e)
<1>1. UNCHANGED elevator => \A e \in Elevators : Still(e)
  BY DEF Still, SameService
<1>2. UNCHANGED <<elevator, simulation, parking>> /\ Newcomers' /\ Apart' => ServiceInv'
  BY DEF ServiceInv, Watching
<1>3. CASE UNCHANGED vars
  <2>1. UNCHANGED <<elevator, simulation, parking, floor, scheduler, generator>>
    BY <1>3 DEF vars
  <2>2. SamePeople
    BY <2>1 DEF SamePeople, Pending, Nodes, LastID
  <2>3. \A e \in Elevators : Mine(e)' = Mine(e)
    BY <2>1 DEF Mine
  <2>4. Newcomers' /\ Apart'
    BY <2>1, <2>3, NewcomersFrame DEF Here
  <2>. QED  BY <1>1, <1>2, <2>1, <2>2, <2>4
<1>4. ASSUME NEW e \in Elevators, SimulationStep(e) \/ Assign(e)
      PROVE  /\ ServiceInv' /\ SamePeople /\ CarStep(elevator'[e], simulation'[e], elevator[e])
             /\ \A d \in Elevators : d /= e => Still(d)
  <2>1. ServiceInv' /\ CarStep(elevator'[e], simulation'[e], elevator[e])
    BY <1>4, CarStepService
  <2>2. 1 \in Floors
    BY GroundFloor
  <2>3. /\ UNCHANGED <<scheduler, generator, parking>>
        /\ \A d \in Elevators : d /= e => elevator'[d] = elevator[d] /\ simulation'[d] = simulation[d]
        /\ floor'[1].length = floor[1].length
        /\ floor'[1].passengers_unchecked = floor[1].passengers_unchecked
    BY <1>4, <2>2, CarStepFrame
  <2>4. SamePeople
    BY <2>3 DEF SamePeople, Pending, Nodes, LastID
  <2>5. \A d \in Elevators : d /= e => Still(d)
    BY <2>3 DEF Still, SameService
  <2>. QED  BY <2>1, <2>4, <2>5
<1>5. ASSUME NEW e \in Elevators PROVE ~ParkingStep(e)
  <2>1. parking[e].pc = "watch" /\ algorithm \notin {2, 4}
    BY DEF ServiceInv, Watching, UpTraffic
  <2>2. ~ParkingReads(e)
    BY <2>1 DEF ParkingReads, ParkingWatch, ParkingTest, ParkingSubtract, ParkingDivide
  <2>3. ~ParkingInsert(e) /\ ~ParkingWake(e)
    BY <2>1 DEF ParkingInsert, ParkingWake
  <2>. QED  BY <2>2, <2>3 DEF ParkingStep, ParkingReads
<1>6. CASE GpioStep
  BY <1>6, GpioService
<1>7. CASE GeneratorStep
  <2>0. UNCHANGED <<elevator, simulation, parking>>
    BY <1>7, OthersFrame DEF GeneratorStep, GeneratorNew, GeneratorGrow, GeneratorStore
  <2>1. CASE GeneratorNew
    BY <1>1, <1>2, <2>0, <2>1, GeneratorNewService DEF SamePeople
  <2>2. CASE GeneratorGrow
    BY <1>1, <1>2, <2>0, <2>2, GeneratorGrowService DEF SamePeople
  <2>3. CASE GeneratorStore
    <3>1. /\ Newcomers' /\ Apart' /\ LastID' = LastID + 1
          /\ \E p \in UpTraveller : p.ID = LastID' /\ Pending' = Pending \cup {p}
      BY <2>3, GeneratorStoreService
    <3>. QED  BY <1>1, <1>2, <2>0, <3>1
  <2>. QED  BY <1>7, <2>1, <2>2, <2>3 DEF GeneratorStep
<1>8. CASE SchedulerStep
  <2>0. /\ UNCHANGED <<simulation, parking, generator>>
        /\ ~SchedulerDispatch => UNCHANGED elevator
    BY <1>8, OthersFrame
  <2>1. LastID' = LastID
    BY <2>0 DEF LastID
  <2>2. CASE SchedulerDispatch
    <3>1. PICK p \in Pending, e \in Elevators :
            /\ Pending = Pending' \cup {p}
            /\ OneMore(elevator'[e].liftCalls, elevator[e].liftCalls, p.lift_call)
            /\ p.lift_call.ID = p.ID /\ p.floor_call.floor = 1
            /\ \A d \in Elevators : /\ d /= e => elevator'[d].liftCalls = elevator[d].liftCalls
                                    /\ elevator'[d].callSequence = elevator[d].callSequence
                                    /\ elevator'[d].current_floor = elevator[d].current_floor
      BY <2>2, SchedulerDispatchService
    <3>2. Given(p, e)
      BY <2>1, <3>1 DEF Given, Still, SameService
    <3>3. ServiceInv'
      BY <2>0, <2>2, SchedulerDispatchService DEF ServiceInv, Watching
    <3>. QED  BY <3>2, <3>3
  <2>3. CASE SchedulerTake \/ SchedulerShrink \/ SchedulerSkip \/ SchedulerLock
    <3>1. Newcomers' /\ Apart' /\ Pending' = Pending
      BY <2>3, SchedulerTakeService, SchedulerShrinkService, SchedulerWaitService
    <3>2. UNCHANGED elevator
      BY <2>3 DEF SchedulerTake, SchedulerShrink, SchedulerSkip, SchedulerLock
    <3>. QED  BY <1>1, <1>2, <2>0, <2>1, <3>1, <3>2 DEF SamePeople
  <2>. QED  BY <1>8, <2>2, <2>3 DEF SchedulerStep
<1>. QED  BY <1>3, <1>4, <1>5, <1>6, <1>7, <1>8 DEF Next


\* The invariants hold together.
LEMMA InvariantsHold == ASSUME UpTraffic PROVE Spec => [](TypeInv /\ LockInv /\ PermitInv /\ ServiceInv)
<1>1. HomesExist
  BY DEF UpTraffic, HomesExist
<1>2. Init => ServiceInv
  BY ServiceInit
<1>3. TypeInv /\ [Next]_vars => TypeInv'
  BY <1>1, TypeNext
<1>4. TypeInv /\ LockInv /\ PermitInv /\ ServiceInv /\ TypeInv' /\ [Next]_vars => ServiceInv'
  BY ServiceStep
<1>. QED  BY TypeInit, LockInit, PermitInit, LockNext, PermitNext, <1>2, <1>3, <1>4, PTL DEF Spec

\* Under traffic that goes up from the ground floor, whatever the interleaving of
\* the simulation, assign, scheduler and menu processes, the queue a car takes its
\* next target from is in priority order: insertPriorityCall finds the place of
\* every call although the passages were given at other floors and directions.
THEOREM QueueInOrderHolds == ASSUME UpTraffic PROVE Spec => []QueueInOrder
<1>1. TypeInv /\ ServiceInv => QueueInOrder
  <2>. SUFFICES ASSUME TypeInv, ServiceInv, NEW e \in Elevators
                PROVE  InPriorityOrder(elevator[e].callSequence)
    BY DEF QueueInOrder
  <2>1. PICK Q \in Seq(UpCall) : Q = elevator[e].callSequence /\ Sorted(Q)
    BY FactsOf DEF ServiceInv, TypeInv
  <2>2. InPriorityOrder(Q)
    <3>. SUFFICES ASSUME NEW i \in 1..(Len(Q) - 1) PROVE compareCalls(Q[i], Q[i + 1]) /= {1}
      BY DEF InPriorityOrder
    <3>1. i \in 1..Len(Q) /\ i + 1 \in 1..Len(Q) /\ i < i + 1
      BY LenProperties
    <3>2. PICK a \in UpCall, b \in UpCall : a = Q[i] /\ b = Q[i + 1]
      BY <3>1, ElementOfSeq
    <3>3. Rank(a) <= Rank(b) /\ Rank(a) \in Nat /\ Rank(b) \in Nat
      BY <2>1, <3>1, <3>2, RankType DEF Sorted
    <3>4. Order(Rank(a), Rank(b)) /= 1
      BY <3>3 DEF Order
    <3>. QED  BY <3>2, <3>4, RanksCompared
  <2>. QED  BY <2>1, <2>2
<1>. QED  BY <1>1, InvariantsHold, PTL

\* Under the same traffic the load elevatorSimulationProcess keeps, adding and
\* taking off one at a time, is the number of passengers whose lift calls the car
\* is serving, whenever it is at the head of its loop.
THEOREM LoadIsRidersHolds == ASSUME UpTraffic PROVE Spec => []LoadIsRiders
<1>1. TypeInv /\ ServiceInv => LoadIsRiders
  <2>. SUFFICES ASSUME TypeInv, ServiceInv, NEW e \in Elevators
                PROVE  elevator[e].load = Cardinality(LiftCallsIn(e))
    BY DEF LoadIsRiders
  <2>1. PICK Q \in Seq(UpCall) : /\ Q = elevator[e].callSequence
                                 /\ elevator[e].load = Cardinality(Lifts(Q))
    BY FactsOf DEF ServiceInv, TypeInv
  <2>2. \A c \in Range(Q) : ~c.isSpecialCall
    BY IDsOf DEF UpCall, UpFloorCall, UpLiftCall
  <2>3. LiftCallsIn(e) = Lifts(Q)
    BY <2>1, <2>2 DEF LiftCallsIn, Lifts
  <2>. QED  BY <2>1, <2>3
<1>. QED  BY <1>1, InvariantsHold, PTL

-----------------------------------------------------------------------------
(* The refinement. *)

\* The passengers a car has been given, those aboard, those who wait and those
\* who have come.
Asked(e) == {[id |-> c.ID, from |-> 1, to |-> c.floor] : c \in Range(elevator[e].liftCalls)}
Aboard(e) == {[id |-> c.ID, to |-> c.floor, car |-> e] : c \in Lifts(elevator[e].callSequence)}

Mapped ==
  /\ waitingBar = {AsWaiting(p) : p \in Pending} \cup UNION {Asked(e) : e \in Elevators}
  /\ ridingBar = UNION {Aboard(e) : e \in Elevators}
  /\ arrivedBar = 1..LastID

\* Nobody sends the cars home: the calls of riders are the lift calls.
LEMMA RidersInQueue ==
  ASSUME TypeInv, ServiceInv, NEW e \in Elevators
  PROVE  LiftCallsIn(e) = Lifts(elevator[e].callSequence)
<1>1. PICK Q \in Seq(UpCall) : Q = elevator[e].callSequence
  BY FactsOf DEF ServiceInv, TypeInv
<1>2. \A c \in Range(Q) : ~c.isSpecialCall
  BY IDsOf DEF UpCall, UpFloorCall, UpLiftCall
<1>. QED  BY <1>1, <1>2 DEF LiftCallsIn, Lifts

\* The lift call with an ID is the one the list has.
LEMMA CallNamed ==
  ASSUME NEW L \in Seq(UpLiftCall), NoTwice(L), NEW k \in 1..Len(L)
  PROVE  CallWithID(L, L[k].ID) = L[k]
<1>1. DOMAIN L = 1..Len(L)
  BY LenProperties
<1>2. PICK id : id = L[k].ID
  OBVIOUS
<1>3. \E i \in DOMAIN L : L[i].ID = id
  BY <1>1, <1>2
<1>4. PICK j \in 1..Len(L) : L[j].ID = id /\ CallWithID(L, id) = L[j]
  BY <1>3, SelectsNode
<1>. QED  BY <1>2, <1>4 DEF NoTwice

\* Whatever list its floor call is in, a passenger given to a car waits on the
\* ground floor for the floor of its lift call.
LEMMA AskedOf ==
  ASSUME TypeInv, ServiceInv, NEW e \in Elevators
  PROVE  {[id |-> c.ID, from |-> c.floor, to |-> CallWithID(elevator[e].liftCalls, c.ID).floor]
            : c \in FloorCallsOf(e)} = Asked(e)
<1>1. PICK A \in Seq(NewFloorCall), L \in Seq(UpLiftCall), Q \in Seq(UpCall), D \in Seq(UpFloorCall) :
        /\ A = elevator[e].floorCalls /\ L = elevator[e].liftCalls /\ Q = elevator[e].callSequence
        /\ D = simulation[e].deletedFloorCallList
        /\ Ticketed(A, L, Q, D)
  BY FactsOf DEF ServiceInv, TypeInv, CarFacts
<1>2. Range(A) \subseteq NewFloorCall /\ Range(D) \subseteq UpFloorCall /\ Range(Q) \subseteq UpCall
  BY IDsOf
<1>3. PICK F : F = FloorCallsOf(e)
  OBVIOUS
<1>4. F = Range(A) \cup Range(D) \cup {c \in Range(Q) : c.isFloorCall}
  BY <1>1, <1>2, <1>3 DEF FloorCallsOf, NewFloorCall, UpFloorCall
<1>5. \A c \in F : c.floor = 1
  BY <1>2, <1>4 DEF NewFloorCall, UpCall, UpFloorCall, UpLiftCall
<1>6. {c.ID : c \in F} = IDs(L)
  <2>1. {c.ID : c \in F} = IDs(A) \cup IDs(D) \cup FloorIDs(Q)
    BY <1>4 DEF IDs, FloorIDs
  <2>. QED  BY <1>1, <2>1 DEF Ticketed
<1>7. NoTwice(L) /\ \A k \in 1..Len(L) : CallWithID(L, L[k].ID) = L[k]
  BY <1>1, CallNamed DEF Ticketed
<1>8. Range(L) = {L[k] : k \in 1..Len(L)}
  BY IDsOf
<1>9. \A x \in Range(L) : CallWithID(L, x.ID) = x
  BY <1>7, <1>8
<1>10. \A c \in F : \E x \in Range(L) : c.ID = x.ID
  <2>. TAKE c \in F
  <2>1. c.ID \in IDs(L)
    BY <1>6
  <2>. QED  BY <2>1 DEF IDs
<1>11. \A x \in Range(L) : \E c \in F : c.ID = x.ID
  <2>. TAKE x \in Range(L)
  <2>1. x.ID \in {c.ID : c \in F}
    BY <1>6 DEF IDs
  <2>. QED  BY <2>1
<1>12. {[id |-> c.ID, from |-> c.floor, to |-> CallWithID(L, c.ID).floor] : c \in F}
         = {[id |-> x.ID, from |-> 1, to |-> x.floor] : x \in Range(L)}
  <2>1. ASSUME NEW c \in F
        PROVE  \E x \in Range(L) : [id |-> c.ID, from |-> c.floor, to |-> CallWithID(L, c.ID).floor]
                                     = [id |-> x.ID, from |-> 1, to |-> x.floor]
    <3>1. PICK x \in Range(L) : c.ID = x.ID
      BY <1>10
    <3>2. CallWithID(L, c.ID) = x
      BY <1>9, <3>1
    <3>. QED  BY <1>5, <3>1, <3>2
  <2>2. ASSUME NEW x \in Range(L)
        PROVE  \E c \in F : [id |-> c.ID, from |-> c.floor, to |-> CallWithID(L, c.ID).floor]
                              = [id |-> x.ID, from |-> 1, to |-> x.floor]
    <3>1. PICK c \in F : c.ID = x.ID
      BY <1>11
    <3>2. CallWithID(L, c.ID) = x
      BY <1>9, <3>1
    <3>. QED  BY <1>5, <3>1, <3>2
  <2>. DEFINE W == {[id |-> c.ID, from |-> c.floor, to |-> CallWithID(L, c.ID).floor] : c \in F}
              A1 == {[id |-> x.ID, from |-> 1, to |-> x.floor] : x \in Range(L)}
  <2>3. W \subseteq A1
    BY <2>1, Zenon
  <2>4. A1 \subseteq W
    <3>. SUFFICES ASSUME NEW x \in Range(L) PROVE [id |-> x.ID, from |-> 1, to |-> x.floor] \in W
      BY Zenon
    <3>. QED  BY <2>2
  <2>. QED  BY <2>3, <2>4, Zenon
<1>. QED  BY <1>1, <1>3, <1>12 DEF Asked

\* The refinement mapping, said of the lists the steps are about.
LEMMA ServiceMapped == ASSUME UpTraffic, TypeInv, ServiceInv PROVE Mapped
<1>1. waitingBar = {AsWaiting(p) : p \in Pending} \cup UNION {Asked(e) : e \in Elevators}
  <2>1. 1 \in Floors
    BY GroundFloor
  <2>2. UNION {Unchecked(f) : f \in Floors} = Unchecked(1)
    <3>1. \A f \in Floors : f /= 1 => Unchecked(f) = {}
      BY DEF ServiceInv, Newcomers, Unchecked
    <3>. QED  BY <2>1, <3>1
  <2>3. Pending = ((UNION {Unchecked(f) : f \in Floors}) \ {NULL_PASSENGER})
                    \cup ({scheduler.new_passenger} \ {NULL_PASSENGER})
    BY <2>2 DEF Pending, Unchecked, Nodes
  <2>4. {{[id |-> c.ID, from |-> c.floor, to |-> CallWithID(elevator[e].liftCalls, c.ID).floor]
            : c \in FloorCallsOf(e)} : e \in Elevators} = {Asked(e) : e \in Elevators}
    <3>1. \A e \in Elevators :
            {[id |-> c.ID, from |-> c.floor, to |-> CallWithID(elevator[e].liftCalls, c.ID).floor]
               : c \in FloorCallsOf(e)} = Asked(e)
      BY AskedOf
    <3>. DEFINE W(e) == {[id |-> c.ID, from |-> c.floor, to |-> CallWithID(elevator[e].liftCalls, c.ID).floor]
                           : c \in FloorCallsOf(e)}
    <3>2. \A e \in Elevators : W(e) = Asked(e)
      BY <3>1
    <3>. HIDE DEF W
    <3>3. {W(e) : e \in Elevators} = {Asked(e) : e \in Elevators}
      BY <3>2
    <3>. QED  BY <3>3 DEF W
  <2>5. PICK T : T = (UNION {Unchecked(f) : f \in Floors}) \ {NULL_PASSENGER}
    OBVIOUS
  <2>6. PICK N : N = {scheduler.new_passenger} \ {NULL_PASSENGER}
    OBVIOUS
  <2>7. waitingBar = {AsWaiting(p) : p \in T} \cup {AsWaiting(p) : p \in N} \cup UNION {Asked(e) : e \in Elevators}
    BY <2>4, <2>5, <2>6 DEF waitingBar
  <2>8. {AsWaiting(p) : p \in T} \cup {AsWaiting(p) : p \in N} = {AsWaiting(p) : p \in T \cup N}
    OBVIOUS
  <2>. QED  BY <2>3, <2>5, <2>6, <2>7, <2>8
<1>2. ridingBar = UNION {Aboard(e) : e \in Elevators}
  BY RidersInQueue DEF ridingBar, Aboard
<1>3. arrivedBar = 1..LastID
  <2>1. PICK n \in Nat : n = generator.passenger_id - 1 /\ generator.passenger_id = n + 1
    BY GroundFloor
  <2>2. CASE generator.pc = "menu"
    <3>1. generator.new_passenger.ID = 0
      BY <2>2 DEF ServiceInv, Newcomers, NULL_PASSENGER, initPassenger
    <3>2. LastID = n
      BY <2>1, <2>2 DEF LastID, AsInt
    <3>3. (1..n) \ {0} = 1..n
      BY <2>1
    <3>. QED  BY <2>1, <3>1, <3>2, <3>3 DEF arrivedBar
  <2>3. CASE generator.pc /= "menu"
    <3>1. LastID = n - 1
      BY <2>1, <2>3 DEF LastID, AsInt
    <3>2. generator.new_passenger.ID = n
      <4>1. generator.new_passenger.ID = LastID + 1
        BY <2>3 DEF ServiceInv, Newcomers
      <4>2. (n - 1) + 1 = n
        OBVIOUS
      <4>. QED  BY <3>1, <4>1, <4>2
    <3>3. (1..n) \ {n} = 1..(n - 1)
      OBVIOUS
    <3>. QED  BY <2>1, <3>1, <3>2, <3>3 DEF arrivedBar
  <2>. QED  BY <2>2, <2>3
<1>. QED  BY <1>1, <1>2, <1>3 DEF Mapped

\* Who has not been given to a car is among the new ones.
LEMMA PendingNew ==
  ASSUME UpTraffic, TypeInv, PermitInv, ServiceInv, NEW p \in Pending
  PROVE  p \in UpTraveller /\ p.ID \in NewIDs
<1>1. PICK n \in 0..MaxPassengers : n = floor[1].length
  BY GroundFloor
<1>2. MaxPassengers \in Nat
  BY GroundFloor
<1>3. ASSUME NEW i \in 1..n, p = Nodes[i] PROVE p \in UpTraveller
  BY <1>1, <1>2, <1>3 DEF Pending, ServiceInv, Newcomers
<1>4. p \in UpTraveller
  <2>1. p \in {Nodes[i] : i \in 1..n} \/ p = scheduler.new_passenger
    BY <1>1 DEF Pending
  <2>2. p = scheduler.new_passenger => p \in UpTraveller
    BY DEF Pending, ServiceInv, Newcomers
  <2>. QED  BY <1>3, <2>1, <2>2
<1>5. p.ID /= 0
  BY <1>4, <1>2, TravellerFacts
<1>9. {Nodes[j].ID : j \in 1..Listed} \ {0} \subseteq NewIDs
  BY DEF NewIDs
<1>6. CASE p = scheduler.new_passenger
  BY <1>4, <1>5, <1>6 DEF NewIDs
<1>7. CASE scheduler.pc /= "shrink"
  <2>1. Listed = n
    BY <1>1, <1>2, <1>7 DEF Listed, AsInt
  <2>. QED  BY <1>1, <1>4, <1>5, <1>6, <2>1 DEF Pending, NewIDs
<1>8. CASE scheduler.pc = "shrink" /\ p /= scheduler.new_passenger
  <2>1. Listed = n - 1
    BY <1>1, <1>2, <1>8 DEF Listed, AsInt
  <2>2. PICK i \in 1..n : p = Nodes[i]
    BY <1>1, <1>8 DEF Pending
  <2>3. CASE i = n
    <3>1. n > 1 /\ p = Nodes[n - 1]
      BY <1>1, <1>8, <2>2, <2>3 DEF ServiceInv, Newcomers
    <3>2. n - 1 \in 1..(n - 1)
      BY <3>1
    <3>3. p.ID \in {Nodes[j].ID : j \in 1..Listed}
      BY <2>1, <3>1, <3>2
    <3>. QED  BY <1>4, <1>5, <1>9, <3>3
  <2>4. CASE i /= n
    <3>1. i \in 1..(n - 1)
      BY <2>4
    <3>2. p.ID \in {Nodes[j].ID : j \in 1..Listed}
      BY <2>1, <2>2, <3>1
    <3>. QED  BY <1>4, <1>5, <1>9, <3>2
  <2>. QED  BY <2>3, <2>4
<1>. QED  BY <1>4, <1>6, <1>7, <1>8

\* What a step does to the people a car answers for.
LEMMA StillPeople ==
  ASSUME NEW e \in Elevators, Still(e)
  PROVE  Asked(e)' = Asked(e) /\ Aboard(e)' = Aboard(e) /\ elevator'[e].current_floor = elevator[e].current_floor
BY DEF Still, SameService, Asked, Aboard

\* Nobody waits for two cars, rides in two, or is told of twice.
LEMMA OnlyHere ==
  ASSUME UpTraffic, TypeInv, PermitInv, ServiceInv,
         NEW e \in Elevators, NEW c \in Range(elevator[e].liftCalls)
  PROVE  /\ \A p \in Pending : AsWaiting(p).id /= c.ID
         /\ \A d \in Elevators : d /= e => \A w \in Asked(d) : w.id /= c.ID
<1>1. c.ID \in Mine(e)
  BY DEF Mine, IDs
<1>2. \A p \in Pending : p.ID \in NewIDs
  BY PendingNew
<1>3. Mine(e) \cap NewIDs = {} /\ \A d \in Elevators : d /= e => Mine(d) \cap Mine(e) = {}
  BY DEF ServiceInv, Apart
<1>4. \A d \in Elevators : \A w \in Asked(d) : w.id \in Mine(d)
  BY DEF Asked, Mine, IDs
<1>. QED  BY <1>1, <1>2, <1>3, <1>4 DEF AsWaiting

\* There is room in a car with load to spare.
LEMMA RoomAboard ==
  ASSUME TypeInv, ServiceInv, NEW e \in Elevators, elevator[e].load < CAPACITY
  PROVE  Cardinality({r \in UNION {Aboard(d) : d \in Elevators} : r.car = e}) < CAPACITY
<1>1. PICK Q \in Seq(UpCall), load \in 0..CAPACITY :
        /\ Q = elevator[e].callSequence /\ load = elevator[e].load /\ load = Cardinality(Lifts(Q))
  BY FactsOf DEF ServiceInv, TypeInv
<1>2. {r \in UNION {Aboard(d) : d \in Elevators} : r.car = e} = Aboard(e)
  BY DEF Aboard
<1>3. PICK S : S = Lifts(Q) /\ IsFiniteSet(S)
  BY LiftsCounted
<1>4. PICK T : T = Aboard(e)
  OBVIOUS
<1>5. T = {[id |-> c.ID, to |-> c.floor, car |-> e] : c \in S}
  BY <1>1, <1>3, <1>4 DEF Aboard
<1>6. PICK f : f \in Surjection(S, T)
  <2>. DEFINE f == [c \in S |-> [id |-> c.ID, to |-> c.floor, car |-> e]]
  <2>1. f \in [S -> T]
    BY <1>5
  <2>2. \A y \in T : \E c \in S : f[c] = y
    BY <1>5
  <2>. HIDE DEF f
  <2>. QED  BY <2>1, <2>2 DEF Surjection
<1>7. Cardinality(T) <= Cardinality(S) /\ Cardinality(T) \in Nat
  BY <1>3, <1>6, FS_Surjection, FS_CardinalityType
<1>8. PICK k \in Nat : k = Cardinality(T) /\ k <= load
  BY <1>1, <1>3, <1>7
<1>9. k < CAPACITY
  BY <1>1, <1>8, ModelAssumption
<1>. QED  BY <1>2, <1>4, <1>8, <1>9

\* Nothing to the passengers: the service stutters.
LEMMA StillMapped ==
  ASSUME Mapped, Mapped', SamePeople, \A e \in Elevators : Still(e)
  PROVE  UNCHANGED Service!vars
<1>1. \A e \in Elevators : Asked(e)' = Asked(e) /\ Aboard(e)' = Aboard(e)
                           /\ elevator'[e].current_floor = elevator[e].current_floor
  BY StillPeople
<1>2. UNCHANGED <<waitingBar, ridingBar, arrivedBar>>
  BY <1>1 DEF Mapped, SamePeople
<1>3. UNCHANGED [e \in Elevators |-> elevator[e].current_floor]
  BY <1>1
<1>. QED  BY <1>2, <1>3 DEF Service!vars

\* The passenger waits for the car it was given to as it did before.
LEMMA GivenMapped ==
  ASSUME Mapped, Mapped', NEW p \in Pending, NEW e \in Elevators, Given(p, e)
  PROVE  UNCHANGED Service!vars
<1>1. \A d \in Elevators : d /= e => Asked(d)' = Asked(d) /\ Aboard(d)' = Aboard(d)
                                     /\ elevator'[d].current_floor = elevator[d].current_floor
  BY StillPeople DEF Given
<1>2. Aboard(e)' = Aboard(e) /\ elevator'[e].current_floor = elevator[e].current_floor
  BY DEF Given, Aboard
<1>3. Asked(e)' = Asked(e) \cup {AsWaiting(p)}
  <2>1. /\ Range(elevator'[e].liftCalls) = Range(elevator[e].liftCalls) \cup {p.lift_call}
        /\ p.lift_call.ID = p.ID /\ p.floor_call.floor = 1
    BY DEF Given, OneMore
  <2>. QED  BY <2>1 DEF Asked, AsWaiting
<1>4. {AsWaiting(q) : q \in Pending} = {AsWaiting(q) : q \in Pending'} \cup {AsWaiting(p)}
  <2>1. Pending = Pending' \cup {p}
    BY DEF Given
  <2>. QED  BY <2>1
<1>5. UNION {Asked(d)' : d \in Elevators} = (UNION {Asked(d) : d \in Elevators}) \cup {AsWaiting(p)}
  BY <1>1, <1>3
<1>6. waitingBar' = {AsWaiting(q) : q \in Pending'} \cup UNION {Asked(d)' : d \in Elevators}
  BY DEF Mapped, AsWaiting
<1>7. UNCHANGED <<waitingBar, ridingBar, arrivedBar>>
  BY <1>1, <1>2, <1>4, <1>5, <1>6 DEF Mapped, Given
<1>8. UNCHANGED [d \in Elevators |-> elevator[d].current_floor]
  BY <1>1, <1>2
<1>. QED  BY <1>7, <1>8 DEF Service!vars

\* A passenger the menu has stored arrives.
LEMMA ArriveMapped ==
  ASSUME UpTraffic, TypeInv, Mapped, Mapped', NEW p \in UpTraveller, LastID' = LastID + 1, p.ID = LastID',
         Pending' = Pending \cup {p}, \A e \in Elevators : Still(e)
  PROVE  \E id \in 1..MaxPassengers : Service!Arrive(id)
<1>1. \A e \in Elevators : Asked(e)' = Asked(e) /\ Aboard(e)' = Aboard(e)
                           /\ elevator'[e].current_floor = elevator[e].current_floor
  BY StillPeople
<1>2. UNCHANGED <<ridingBar, [e \in Elevators |-> elevator[e].current_floor]>>
  BY <1>1 DEF Mapped
<1>3. PICK n \in Int : n = LastID
  BY GroundFloor
<1>4. PICK id \in 1..MaxPassengers, t \in Trips :
        id = p.ID /\ id = n + 1 /\ p.floor_call.floor = t[1] /\ p.lift_call.floor = t[2]
  BY <1>3, TravellerFacts
<1>5. id \notin arrivedBar /\ arrivedBar' = arrivedBar \cup {id}
  <2>1. arrivedBar = 1..n /\ arrivedBar' = 1..(n + 1)
    BY <1>3 DEF Mapped
  <2>2. MaxPassengers \in Nat
    BY GroundFloor
  <2>3. n \in Nat
    BY <1>4, <2>2
  <2>4. n + 1 \notin 1..n /\ 1..(n + 1) = (1..n) \cup {n + 1}
    BY <2>3
  <2>. QED  BY <1>4, <2>1, <2>4
<1>6. waitingBar' = waitingBar \cup {[id |-> id, from |-> t[1], to |-> t[2]]}
  <2>1. AsWaiting(p) = [id |-> id, from |-> t[1], to |-> t[2]]
    BY <1>4 DEF AsWaiting
  <2>2. {AsWaiting(q) : q \in Pending'} = {AsWaiting(q) : q \in Pending} \cup {AsWaiting(p)}
    OBVIOUS
  <2>3. waitingBar' = {AsWaiting(q) : q \in Pending'} \cup UNION {Asked(d)' : d \in Elevators}
    BY DEF Mapped, AsWaiting
  <2>4. {Asked(d)' : d \in Elevators} = {Asked(d) : d \in Elevators}
    BY <1>1
  <2>. QED  BY <2>1, <2>2, <2>3, <2>4 DEF Mapped
<1>7. Service!Arrive(id)
  BY <1>2, <1>5, <1>6 DEF Service!Arrive
<1>. QED  BY <1>4, <1>7

\* A car that changes floors travels by one.
LEMMA TravelMapped ==
  ASSUME TypeInv, TypeInv', Mapped, Mapped', SamePeople, NEW e \in Elevators,
         Travelled(elevator'[e], elevator[e]), \A d \in Elevators : d /= e => Still(d)
  PROVE  [Service!Travel(e)]_(Service!vars)
<1>1. \A d \in Elevators : d /= e => Asked(d)' = Asked(d) /\ Aboard(d)' = Aboard(d)
                                     /\ elevator'[d].current_floor = elevator[d].current_floor
  BY StillPeople
<1>2. Asked(e)' = Asked(e) /\ Aboard(e)' = Aboard(e)
  BY DEF Travelled, SameService, Asked, Aboard
<1>3. UNCHANGED <<waitingBar, ridingBar, arrivedBar>>
  BY <1>1, <1>2 DEF Mapped, SamePeople
<1>4. PICK f \in Floors, g \in Floors : f = elevator[e].current_floor /\ g = elevator'[e].current_floor
  BY FirstFields DEF TypeInv
<1>. DEFINE at == [d \in Elevators |-> elevator[d].current_floor]
<1>5. at' = [at EXCEPT ![e] = g] /\ at[e] = f
  BY <1>1, <1>4
<1>6. CASE g = f
  <2>1. UNCHANGED at
    BY <1>1, <1>4, <1>6
  <2>. QED  BY <1>3, <2>1 DEF Service!vars
<1>7. CASE g /= f
  <2>1. g \in Floors \cap {f - 1, f + 1}
    BY <1>4, <1>7 DEF Travelled
  <2>2. g \in Floors \cap {at[e] - 1, at[e] + 1}
    BY <1>5, <2>1
  <2>3. Service!Travel(e)
    BY <1>3, <1>5, <2>2 DEF Service!Travel
  <2>. QED  BY <2>3
<1>. QED  BY <1>6, <1>7

\* A rider whose call is taken off leaves at its floor.
LEMMA AlightMapped ==
  ASSUME Mapped, Mapped', SamePeople, NEW e \in Elevators,
         Alighted(elevator'[e], elevator[e]), \A d \in Elevators : d /= e => Still(d)
  PROVE  \E r \in ridingBar : Service!Alight(r)
<1>1. \A d \in Elevators : d /= e => Asked(d)' = Asked(d) /\ Aboard(d)' = Aboard(d)
                                     /\ elevator'[d].current_floor = elevator[d].current_floor
  BY StillPeople
<1>2. Asked(e)' = Asked(e) /\ elevator'[e].current_floor = elevator[e].current_floor
  BY DEF Alighted, Asked
<1>3. PICK c \in UpLiftCall :
        c.floor = elevator[e].current_floor /\ OneMore(elevator[e].callSequence, elevator'[e].callSequence, c)
  BY DEF Alighted
<1>4. ~c.isFloorCall
  BY DEF UpLiftCall
<1>5. PICK r : r = [id |-> c.ID, to |-> c.floor, car |-> e]
  OBVIOUS
<1>6. Aboard(e) = Aboard(e)' \cup {r} /\ r \notin Aboard(e)'
  <2>1. PICK S, T : S = Lifts(elevator[e].callSequence) /\ T = Lifts(elevator'[e].callSequence)
    OBVIOUS
  <2>2. S = T \cup {c}
    BY <1>3, <1>4, <2>1, OneMoreCalls
  <2>3. \A k \in T : k.ID /= c.ID
    BY <1>3, <2>1 DEF OneMore, IDs, Lifts
  <2>4. /\ Aboard(e) = {[id |-> k.ID, to |-> k.floor, car |-> e] : k \in S}
        /\ Aboard(e)' = {[id |-> k.ID, to |-> k.floor, car |-> e] : k \in T}
    BY <2>1 DEF Aboard
  <2>. QED  BY <1>5, <2>2, <2>3, <2>4
<1>7. \A d \in Elevators : d /= e => r \notin Aboard(d)
  BY <1>5 DEF Aboard
<1>8. ridingBar' = ridingBar \ {r} /\ r \in ridingBar
  BY <1>1, <1>6, <1>7 DEF Mapped
<1>9. UNCHANGED <<waitingBar, arrivedBar>>
  BY <1>1, <1>2 DEF Mapped, SamePeople
<1>. DEFINE at == [d \in Elevators |-> elevator[d].current_floor]
<1>10. UNCHANGED at /\ at[r.car] = r.to
  BY <1>1, <1>2, <1>3, <1>5
<1>11. Service!Alight(r)
  BY <1>8, <1>9, <1>10 DEF Service!Alight
<1>. QED  BY <1>8, <1>11

\* A passenger whose lift call enters the queue boards a car that is there and has
\* room.
LEMMA BoardMapped ==
  ASSUME UpTraffic, TypeInv, PermitInv, ServiceInv, Mapped, Mapped', SamePeople, NEW e \in Elevators,
         Boarded(elevator'[e], elevator[e]), \A d \in Elevators : d /= e => Still(d)
  PROVE  \E p \in waitingBar : Service!Board(p, e)
<1>1. \A d \in Elevators : d /= e => Asked(d)' = Asked(d) /\ Aboard(d)' = Aboard(d)
                                     /\ elevator'[d].current_floor = elevator[d].current_floor
  BY StillPeople
<1>2. elevator'[e].current_floor = 1 /\ elevator[e].current_floor = 1 /\ elevator[e].load < CAPACITY
  BY DEF Boarded
<1>3. PICK c \in UpLiftCall : /\ OneMore(elevator[e].liftCalls, elevator'[e].liftCalls, c)
                              /\ OneMore(elevator'[e].callSequence, elevator[e].callSequence, c)
  BY DEF Boarded
<1>4. ~c.isFloorCall
  BY DEF UpLiftCall
<1>5. PICK p, r : /\ p = [id |-> c.ID, from |-> 1, to |-> c.floor]
                  /\ r = [id |-> c.ID, to |-> c.floor, car |-> e]
  OBVIOUS
<1>6. Asked(e) = Asked(e)' \cup {p} /\ p \notin Asked(e)'
  <2>1. PICK S, T : S = Range(elevator[e].liftCalls) /\ T = Range(elevator'[e].liftCalls)
    OBVIOUS
  <2>2. S = T \cup {c} /\ \A k \in T : k.ID /= c.ID
    BY <1>3, <2>1 DEF OneMore, IDs
  <2>3. /\ Asked(e) = {[id |-> k.ID, from |-> 1, to |-> k.floor] : k \in S}
        /\ Asked(e)' = {[id |-> k.ID, from |-> 1, to |-> k.floor] : k \in T}
    BY <2>1 DEF Asked
  <2>. QED  BY <1>5, <2>2, <2>3
<1>7. Aboard(e)' = Aboard(e) \cup {r}
  <2>1. PICK S, T : S = Lifts(elevator[e].callSequence) /\ T = Lifts(elevator'[e].callSequence)
    OBVIOUS
  <2>2. T = S \cup {c}
    BY <1>3, <1>4, <2>1, OneMoreCalls
  <2>3. /\ Aboard(e) = {[id |-> k.ID, to |-> k.floor, car |-> e] : k \in S}
        /\ Aboard(e)' = {[id |-> k.ID, to |-> k.floor, car |-> e] : k \in T}
    BY <2>1 DEF Aboard
  <2>. QED  BY <1>5, <2>2, <2>3
<1>8. /\ \A q \in Pending : AsWaiting(q) /= p
      /\ \A d \in Elevators : d /= e => p \notin Asked(d)
  <2>1. c \in Range(elevator[e].liftCalls)
    BY <1>3, OneMoreCalls
  <2>. QED  BY <1>5, <2>1, OnlyHere
<1>9. waitingBar' = waitingBar \ {p} /\ p \in waitingBar
  <2>1. PICK W : W = {AsWaiting(q) : q \in Pending}
    OBVIOUS
  <2>2. waitingBar = W \cup UNION {Asked(d) : d \in Elevators}
    BY <2>1 DEF Mapped
  <2>3. waitingBar' = W \cup UNION {Asked(d)' : d \in Elevators}
    BY <2>1 DEF Mapped, SamePeople, AsWaiting
  <2>4. p \notin W
    BY <1>8, <2>1
  <2>. QED  BY <1>1, <1>6, <1>8, <2>2, <2>3, <2>4
<1>10. ridingBar' = ridingBar \cup {r} /\ UNCHANGED arrivedBar
  BY <1>1, <1>7 DEF Mapped, SamePeople
<1>. DEFINE at == [d \in Elevators |-> elevator[d].current_floor]
<1>11. UNCHANGED at /\ at[e] = 1
  BY <1>1, <1>2
<1>12. Service!Cardinality({s \in ridingBar : s.car = e}) < CAPACITY
  <2>1. Cardinality({s \in ridingBar : s.car = e}) < CAPACITY
    BY <1>2, RoomAboard DEF Mapped
  <2>2. \A T : Service!Cardinality(T) = Cardinality(T)
    BY DEF Service!Cardinality, Cardinality
  <2>. QED  BY <2>1, <2>2
<1>13. Service!Board(p, e)
  BY <1>5, <1>9, <1>10, <1>11, <1>12 DEF Service!Board
<1>. QED  BY <1>9, <1>13

\* Every step of the controller is a step of the service or a stutter.
LEMMA MappedStep ==
  ASSUME UpTraffic, TypeInv, LockInv, PermitInv, ServiceInv, TypeInv', Mapped, Mapped', [Next]_vars
  PROVE  [Service!Next]_(Service!vars)
<1>1. \/ SamePeople /\ \A e \in Elevators : Still(e)
      \/ SamePeople /\ \E e \in Elevators :
           /\ CarStep(elevator'[e], simulation'[e], elevator[e])
           /\ \A d \in Elevators : d /= e => Still(d)
      \/ \E p \in UpTraveller : /\ LastID' = LastID + 1 /\ p.ID = LastID'
                                /\ Pending' = Pending \cup {p}
                                /\ \A e \in Elevators : Still(e)
      \/ \E p \in Pending, e \in Elevators : Given(p, e)
  BY ServiceStep
<1>2. CASE SamePeople /\ \A e \in Elevators : Still(e)
  BY <1>2, StillMapped
<1>3. ASSUME SamePeople, NEW e \in Elevators, CarStep(elevator'[e], simulation'[e], elevator[e]),
             \A d \in Elevators : d /= e => Still(d)
      PROVE  [Service!Next]_(Service!vars)
  <2>1. CASE Travelled(elevator'[e], elevator[e])
    <3>1. [Service!Travel(e)]_(Service!vars)
      BY <1>3, <2>1, TravelMapped
    <3>. QED  BY <3>1 DEF Service!Next
  <2>2. CASE Alighted(elevator'[e], elevator[e])
    <3>1. \E r \in ridingBar : Service!Alight(r)
      BY <1>3, <2>2, AlightMapped
    <3>. QED  BY <3>1 DEF Service!Next
  <2>3. CASE Boarded(elevator'[e], elevator[e])
    <3>1. \E p \in waitingBar : Service!Board(p, e)
      BY <1>3, <2>3, BoardMapped
    <3>. QED  BY <3>1 DEF Service!Next
  <2>. QED  BY <1>3, <2>1, <2>2, <2>3 DEF CarStep
<1>4. CASE \E p \in UpTraveller : /\ LastID' = LastID + 1 /\ p.ID = LastID'
                                  /\ Pending' = Pending \cup {p}
                                  /\ \A e \in Elevators : Still(e)
  <2>1. \E id \in 1..MaxPassengers : Service!Arrive(id)
    BY <1>4, ArriveMapped
  <2>. QED  BY <2>1 DEF Service!Next
<1>5. CASE \E p \in Pending, e \in Elevators : Given(p, e)
  BY <1>5, GivenMapped
<1>. QED  BY <1>1, <1>2, <1>3, <1>4, <1>5

\* The building opens empty.
LEMMA MappedInit == ASSUME UpTraffic, Init PROVE Service!Init
<1>1. TypeInv /\ ServiceInv
  BY TypeInit, ServiceInit
<1>2. Mapped
  BY <1>1, ServiceMapped
<1>3. LastID = 0 /\ 1..0 = {}
  BY DEF Init, InitGenerator, LastID, AsInt
<1>4. 1 \in Floors
  BY GroundFloor, <1>1
<1>5. floor[1].length = 0 /\ scheduler.new_passenger = NULL_PASSENGER
  BY <1>4 DEF Init, InitFloor, InitScheduler
<1>6. Pending = {}
  BY <1>5 DEF Pending
<1>7. \A e \in Elevators : Asked(e) = {} /\ Aboard(e) = {} /\ elevator[e].current_floor = 1
  <2>1. Range(<<>>) = {} /\ Lifts(<<>>) = {}
    BY DEF Range, Lifts
  <2>. QED  BY <2>1 DEF Init, InitElevator, Asked, Aboard
<1>8. waitingBar = {} /\ ridingBar = {} /\ arrivedBar = {}
  BY <1>2, <1>3, <1>6, <1>7 DEF Mapped
<1>9. [e \in Elevators |-> elevator[e].current_floor] = [e \in Elevators |-> 1]
  BY <1>7
<1>. QED  BY <1>8, <1>9 DEF Service!Init

\* Under traffic that goes up from the ground floor the controller implements the
\* service its passengers are promised, for any number of floors, cars and
\* passengers and any capacity: nobody is lost, duplicated, boarded elsewhere or
\* into a full car, or let out at another floor, at any interleaving of the
\* simulation, assign, scheduler, menu and button processes.
THEOREM ServiceImplemented == ASSUME UpTraffic PROVE Spec => ServiceSpec
<1>1. Init => Service!Init
  BY MappedInit
<1>2. TypeInv /\ LockInv /\ PermitInv /\ ServiceInv => Mapped
  BY ServiceMapped
<1>3. (TypeInv /\ LockInv /\ PermitInv /\ ServiceInv) /\ Mapped /\ TypeInv' /\ Mapped' /\ [Next]_vars
        => [Service!Next]_(Service!vars)
  BY MappedStep
<1>. QED  BY InvariantsHold, <1>1, <1>2, <1>3, PTL DEF Spec, ServiceSpec, Service!Spec
=============================================================================
