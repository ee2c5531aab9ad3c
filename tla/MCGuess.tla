------------------------------- MODULE MCGuess -------------------------------
(***************************************************************************)
(* The numbers games are started with: those the guesser can name, with one  *)
(* on either side that it never finds.                                       *)
(***************************************************************************)
EXTENDS Guess

AnyAnswer == (-1)..(upper_bound + 1)
=============================================================================
