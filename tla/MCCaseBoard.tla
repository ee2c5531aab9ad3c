----------------------------- MODULE MCCaseBoard -----------------------------
(***************************************************************************)
(* What the user enters: numbers of one digit and of two, and a negative     *)
(* one, which the program takes; two of them for the same area.              *)
(***************************************************************************)
EXTENDS CaseBoard

SomeEntries == {<<0, "mild", 13>>, <<0, "severe", -4>>, <<1, "mild", 7>>}
=============================================================================
