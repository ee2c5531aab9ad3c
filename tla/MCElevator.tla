----------------------------- MODULE MCElevator -----------------------------
(***************************************************************************)
(* The traffic the runs choose from: the trips the menu may create.         *)
(***************************************************************************)
EXTENDS ElevatorClaims

AllTrips == {t \in Floors \X Floors : t[1] /= t[2]}

\* generateUpStairsPassenger.
UpStairs == {t \in AllTrips : t[1] = 1}
=============================================================================
