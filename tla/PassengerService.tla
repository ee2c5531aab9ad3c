-------------------------- MODULE PassengerService --------------------------
(***************************************************************************)
(* What the elevator controller promises its passengers, whatever happens   *)
(* inside: a passenger waits at its floor, boards a car that stands there   *)
(* and has room, and leaves it at the floor it asked for.  A car travels    *)
(* one floor at a time.                                                      *)
(***************************************************************************)
EXTENDS Integers, FiniteSets

CONSTANTS Elevators, Floors, Capacity, Trips, PassengerIDs

VARIABLES arrived, \* the IDs of the passengers there have been
          waiting, \* the passengers at the floors: [id, from, to]
          riding,  \* the passengers in the cars: [id, to, car]
          at       \* at[e] is the floor of car e

vars == <<arrived, waiting, riding, at>>

TypeOK ==
  /\ arrived \subseteq PassengerIDs
  /\ waiting \subseteq [id : PassengerIDs, from : Floors, to : Floors]
  /\ riding \subseteq [id : PassengerIDs, to : Floors, car : Elevators]
  /\ at \in [Elevators -> Floors]

Init == /\ arrived = {} /\ waiting = {} /\ riding = {}
        /\ at = [e \in Elevators |-> 1]

Arrive(id) ==
  /\ id \notin arrived
  /\ arrived' = arrived \cup {id}
  /\ \E trip \in Trips :
       waiting' = waiting \cup {[id |-> id, from |-> trip[1], to |-> trip[2]]}
  /\ UNCHANGED <<riding, at>>

Board(p, e) ==
  /\ at[e] = p.from
  /\ Cardinality({r \in riding : r.car = e}) < Capacity
  /\ waiting' = waiting \ {p}
  /\ riding' = riding \cup {[id |-> p.id, to |-> p.to, car |-> e]}
  /\ UNCHANGED <<arrived, at>>

Alight(r) ==
  /\ at[r.car] = r.to
  /\ riding' = riding \ {r}
  /\ UNCHANGED <<arrived, waiting, at>>

Travel(e) ==
  /\ \E f \in Floors \cap {at[e] - 1, at[e] + 1} : at' = [at EXCEPT ![e] = f]
  /\ UNCHANGED <<arrived, waiting, riding>>

Next == \/ \E id \in PassengerIDs : Arrive(id)
        \/ \E p \in waiting, e \in Elevators : Board(p, e)
        \/ \E r \in riding : Alight(r)
        \/ \E e \in Elevators : Travel(e)

Spec == Init /\ [][Next]_vars
=============================================================================
