--------------------------- MODULE ElevatorPolicy ---------------------------
(***************************************************************************)
(* The three group policies of ElevatorPolicy.c: which car a new passenger  *)
(* is given to.  Cars are 0 .. NUM_OF_ELEVATOR - 1, floors 1 .. NUM_OF_FLOOR.*)
(***************************************************************************)
EXTENDS Integers, FiniteSetsExt

CONSTANTS NUM_OF_FLOOR, NUM_OF_ELEVATOR

ASSUME BuildingAssumption == /\ NUM_OF_FLOOR \in Nat \ {0, 1}
                             /\ NUM_OF_ELEVATOR \in Nat \ {0}

Elevators == 0..(NUM_OF_ELEVATOR - 1)
Floors == 1..NUM_OF_FLOOR

(***************************************************************************)
(* policyRoundRobin tries car after car from its static counter on, until   *)
(* one is below its capacity.  The empty set: every car is full and the      *)
(* loop never ends.                                                          *)
(***************************************************************************)
RoundRobinTries(count, load, capacity) ==
  {d \in Elevators : load[(count + d) % NUM_OF_ELEVATOR] < capacity}

policyRoundRobin(count, load, capacity) ==
  LET tries == RoundRobinTries(count, load, capacity)
  IN  IF tries = {} THEN {} ELSE {(count + Min(tries)) % NUM_OF_ELEVATOR}

\* policyThreePassage: the first of the cars whose callSequence is shortest.
policyThreePassage(length) ==
  Min({e \in Elevators : \A d \in Elevators : length[e] <= length[d]})

\* ceil(NUM_OF_FLOOR / NUM_OF_ELEVATOR), the number of floors of a zone.
zone == (NUM_OF_FLOOR + NUM_OF_ELEVATOR - 1) \div NUM_OF_ELEVATOR

policyZoning(current_floor) == (current_floor - 1) \div zone
=============================================================================
