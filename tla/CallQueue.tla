----------------------------- MODULE CallQueue -----------------------------
(***************************************************************************)
(* The call lists of the elevator controller (ElevatorProperty.c).  A Call *)
(* is a request to stop at a floor; a CallList is kept by each car for the  *)
(* calls it has been given (floorCalls, liftCalls) and for the calls it is  *)
(* serving (callSequence, "priority blocking queue" in ElevatorProperty.h). *)
(* The operators are pure: a list goes in, a list comes out.  A list here   *)
(* is the sequence of the first "length" nodes of the C array.              *)
(***************************************************************************)
EXTENDS Integers, Sequences, SequencesExt

initCall(ID, isFloorCall, isSpecialCall, passage, floor, direction) ==
  [ID |-> ID, isFloorCall |-> isFloorCall, isSpecialCall |-> isSpecialCall,
   passage |-> passage, floor |-> floor, direction |-> direction]

NULL_CALL == initCall(0, FALSE, FALSE, 0, 0, 0)

\* What "smaller first" says of two numbers.
Order(a, b) == IF a < b THEN -1 ELSE IF a > b THEN 1 ELSE 0

\* A flag as the int the code keeps it in.
AsInt(flag) == IF flag THEN 1 ELSE 0

(***************************************************************************)
(* The answers compareCalls may give: -1, the new call goes first; 1, it    *)
(* goes after; 0, they are equivalent.  Special calls go first, then the    *)
(* lower passage, then the floor the new call's direction meets first, then *)
(* lift calls before floor calls.  With equal passages and direction 0 the  *)
(* C function runs off its end: it may return anything.                     *)
(***************************************************************************)
compareCalls(new, origin) ==
  IF new.isSpecialCall \/ origin.isSpecialCall
  THEN {Order(AsInt(origin.isSpecialCall), AsInt(new.isSpecialCall))}
  ELSE IF new.passage /= origin.passage
  THEN {Order(new.passage, origin.passage)}
  ELSE IF new.direction = 0
  THEN {-1, 0, 1}
  ELSE IF new.floor /= origin.floor
  THEN {new.direction * Order(new.floor, origin.floor)}
  ELSE {Order(AsInt(new.isFloorCall), AsInt(origin.isFloorCall))}

(***************************************************************************)
(* insertPriorityCall puts the call in front of the first node it goes      *)
(* before, or at the end: the lists it may leave behind.                    *)
(***************************************************************************)
InsertPositions(list, call) ==
  {p \in 1..(Len(list) + 1) :
     /\ p <= Len(list) => -1 \in compareCalls(call, list[p])
     /\ \A q \in 1..(p - 1) : compareCalls(call, list[q]) /= {-1}}

insertPriorityCall(list, call) ==
  {InsertAt(list, p, call) : p \in InsertPositions(list, call)}

insertEndLinkedCall(list, call) == Append(list, call)

\* Deleting answers the deleted call, NULL_CALL when there is none ...
FirstCall(list) == IF list = <<>> THEN NULL_CALL ELSE Head(list)

CallWithID(list, id) ==
  IF \E i \in DOMAIN list : list[i].ID = id
  THEN list[SelectInSeq(list, LAMBDA c : c.ID = id)]
  ELSE NULL_CALL

\* ... and leaves the list without it.
deleteBeginLinkedCall(list) == IF list = <<>> THEN list ELSE Tail(list)

deleteIDLinkedCall(list, id) == RemoveFirstMatch(list, LAMBDA c : c.ID = id)

\* Mutant: a call at the car's own floor counts as ahead of it.
PassageForInclusive(call, direction, current_floor) ==
  LET ahead == (call.floor - current_floor) * direction
  IN  IF direction = 0 THEN call.passage
      ELSE IF call.direction = direction /\ ahead >= 0 THEN 1
      ELSE IF call.direction = direction THEN 3
      ELSE 2

(***************************************************************************)
(* The passage of a call as seen from a car at a floor, moving in a         *)
(* direction: P1 ahead of the car and the same way, P3 behind it and the    *)
(* same way, P2 everything else -- a call at the car's own floor included.  *)
(* A car without direction leaves the passage as it is.                     *)
(***************************************************************************)
PassageFor(call, direction, current_floor) ==
  LET ahead == (call.floor - current_floor) * direction
  IN  IF direction = 0 THEN call.passage
      ELSE IF call.direction = direction /\ ahead > 0 THEN 1
      ELSE IF call.direction = direction /\ ahead < 0 THEN 3
      ELSE 2

WithPassage(call, direction, current_floor) ==
  [call EXCEPT !.passage = PassageFor(call, direction, current_floor)]

(***************************************************************************)
(* elevatorCallSequenceSorting: a doubly nested loop over i and j that      *)
(* compares node i with node i, and swaps i and j when the answer is 1.     *)
(* The comparison of a call with itself is 0, or unspecified when its       *)
(* direction is 0, so the lists it may leave are collected in a set.        *)
(***************************************************************************)
SwapNodes(list, i, j) == [list EXCEPT ![i] = list[j], ![j] = list[i]]

SwapIfAfter(lists, i, j) ==
  {list \in lists : compareCalls(list[i], list[i]) /= {1}}
    \cup {SwapNodes(list, i, j) :
            list \in {l \in lists : 1 \in compareCalls(l[i], l[i])}}

elevatorCallSequenceSorting(list) ==
  LET n == Len(list) - 1
      after[k \in 0..(n * n)] ==
        IF k = 0 THEN {list}
        ELSE SwapIfAfter(after[k - 1], ((k - 1) \div n) + 1, ((k - 1) % n) + 2)
  IN  IF list = <<>> THEN {list} ELSE after[n * n]

\* reassignPassagePriority: every call but the special ones, then the sorting.
reassignPassagePriority(list, direction, current_floor) ==
  elevatorCallSequenceSorting(
    [i \in DOMAIN list |-> IF list[i].isSpecialCall THEN list[i]
                           ELSE WithPassage(list[i], direction, current_floor)])

\* Every call's comparison with the next one says it need not come later.
InPriorityOrder(list) ==
  \A i \in 1..(Len(list) - 1) : compareCalls(list[i], list[i + 1]) /= {1}
=============================================================================
