---------------------------- MODULE ElevatorClaims ----------------------------
(***************************************************************************)
(* What a comment of project/ says of the controller and its code does not   *)
(* do.                                                                       *)
(***************************************************************************)
EXTENDS ElevatorService

\* "Do scheduling if an unchecked passenger is found" (ElevatorOperation.c:336):
\* an unchecked list that somebody is on does not stay so for ever.
DoesScheduling == \A f \in Floors : floor[f].length > 0 ~> floor[f].length = 0
=============================================================================
