----------------------------- MODULE MCAmbulance -----------------------------
(***************************************************************************)
(* One client reports a region and takes a case of another one back, or       *)
(* finds its second area malformed; the other one reports a region that goes  *)
(* between those two, or the one that shrinks, or a region without a case,    *)
(* and lists the region that shrinks.                                         *)
(***************************************************************************)
EXTENDS Ambulance

CONSTANTS c1, c2

Of(region, degree, number) == [region |-> region, degree |-> degree, number |-> number]

SomeReports == [c \in Clients |->
  IF c = c1 THEN {<<Of(3, "severe", 1), Of(1, "mild", -1)>>, <<Of(1, "mild", 1), Malformed>>}
  ELSE {<<Of(2, "severe", 1)>>, <<Of(1, "mild", 2)>>, <<Of(0, "mild", 0)>>}]

SomeQueries == [c \in Clients |-> IF c = c1 THEN {<<Malformed>>} ELSE {<<1>>}]
=============================================================================
