------------------------------- MODULE MCBank -------------------------------
(***************************************************************************)
(* Requests for the bank: into the red past the digits the sign leaves, over *)
(* the largest int, several times, and more often than the counter counts.   *)
(***************************************************************************)
EXTENDS Bank

SomeRequests ==
  {[operation |-> "deposit",  money |-> 3, times |-> 2],
   [operation |-> "withdraw", money |-> 1, times |-> 3],
   [operation |-> "other",    money |-> 1, times |-> -1]}
=============================================================================
