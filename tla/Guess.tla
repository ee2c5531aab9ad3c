-------------------------------- MODULE Guess --------------------------------
(***************************************************************************)
(* The guessing game of lab7: guess.c halves an interval once a second, in   *)
(* a timer's signal handler, and tells game.c by SIGUSR1; game.c's handler   *)
(* answers.  Guess and answer meet in shared memory, without a lock.         *)
(***************************************************************************)
EXTENDS Integers

CONSTANTS upper_bound, \* guess.o's argument
          Answers,     \* the numbers game.o may be started with
          MaxTicks,    \* the seconds guess.o runs for
          MaxGuessers  \* bound: guess.o processes started, one after the other

ASSUME GameAssumption ==
  /\ upper_bound \in Nat /\ Answers \subseteq Int
  /\ MaxTicks \in Nat /\ MaxGuessers \in Nat \ {0}

VARIABLES
  guess, result, \* the Data in shared memory, removed when the game ends
  game,          \* [pc, answer]
  guesser,       \* [pc, begin_num, end_num, ticks], the guess.o process running now
  sigusr1,       \* 1 while the signal is pending at the game
  guessers       \* the guess.o processes there have been

vars == <<guess, result, game, guesser, sigusr1, guessers>>

NewGuesser == [pc |-> "spin", begin_num |-> 0, end_num |-> upper_bound, ticks |-> 0]

\* A fresh segment is all zeros: guess 0, and no result.
Init ==
  /\ guess = 0 /\ result = "none"
  /\ \E answer \in Answers : game = [pc |-> "spin", answer |-> answer]
  /\ guesser = NewGuesser
  /\ sigusr1 = 0 /\ guessers = 1

-----------------------------------------------------------------------------
(* guess.c *)

\* The timer goes off once in a second of the guesser's processor time, and the
\* game, which only waits for the signal, has answered by then.
InTime == sigusr1 = 0 /\ game.pc /= "answering"

Ticks == guesser.pc = "spin" /\ guesser.ticks < MaxTicks /\ InTime

\* Mutant: a guess that is too high leaves the interval.
BoundsWide(r) ==
  [guesser EXCEPT !.begin_num = IF r = "bigger" THEN guess ELSE @,
                  !.end_num = IF r = "smaller" THEN guess - 1 ELSE @]

Bounds(r) ==
  [guesser EXCEPT !.begin_num = IF r = "bigger" THEN guess ELSE @,
                  !.end_num = IF r = "smaller" THEN guess ELSE @]

\* C's division: the quotient is cut off towards zero.
Half(n) == IF n >= 0 THEN n \div 2 ELSE -((-n) \div 2)

\* timer_handler up to its kill: the last result narrows the interval.
Publish ==
  /\ Ticks /\ game.pc /= "ended" /\ result /= "bingo"
  /\ LET bounds == Bounds(result)
     IN  /\ guess' = Half(bounds.begin_num + bounds.end_num)
         /\ guesser' = [bounds EXCEPT !.pc = "kill", !.ticks = @ + 1]
  /\ UNCHANGED <<result, game, sigusr1, guessers>>

\* kill(gamer_pid, SIGUSR1), which finds nobody when the game is over.
Signal ==
  /\ guesser.pc = "kill"
  /\ sigusr1' = IF game.pc = "ended" THEN 0 ELSE 1
  /\ guesser' = [guesser EXCEPT !.pc = "spin"]
  /\ UNCHANGED <<guess, result, game, guessers>>

\* The early returns of timer_handler: no segment, or nothing left to guess.
NothingToDo ==
  /\ Ticks /\ (game.pc = "ended" \/ result = "bingo")
  /\ guesser' = [guesser EXCEPT !.ticks = @ + 1]
  /\ UNCHANGED <<guess, result, game, sigusr1, guessers>>

\* main's loop ends after its seconds, whatever has been found; the segment
\* stays, and the user may start the next guess.o on it.
NextGuesser ==
  /\ guesser.pc = "spin" /\ guesser.ticks = MaxTicks /\ InTime
  /\ guessers < MaxGuessers /\ game.pc /= "ended"
  /\ guesser' = NewGuesser /\ guessers' = guessers + 1
  /\ UNCHANGED <<guess, result, game, sigusr1>>

-----------------------------------------------------------------------------
(* game.c *)

\* sigusr1_handler is entered.
Delivered ==
  /\ sigusr1 = 1 /\ game.pc = "spin"
  /\ sigusr1' = 0 /\ game' = [game EXCEPT !.pc = "answering"]
  /\ UNCHANGED <<guess, result, guesser, guessers>>

\* Mutant: the two answers are mixed up.
VerdictSwapped(g) ==
  IF g = game.answer THEN "bingo" ELSE IF g < game.answer THEN "smaller" ELSE "bigger"

Verdict(g) ==
  IF g = game.answer THEN "bingo" ELSE IF g < game.answer THEN "bigger" ELSE "smaller"

Answer ==
  /\ game.pc = "answering"
  /\ result' = Verdict(guess) /\ game' = [game EXCEPT !.pc = "spin"]
  /\ UNCHANGED <<guess, guesser, sigusr1, guessers>>

\* ctrl_c_handler, also in the middle of the other handler.
CtrlC ==
  /\ game.pc /= "ended"
  /\ game' = [game EXCEPT !.pc = "ended"] /\ sigusr1' = 0
  /\ UNCHANGED <<guess, result, guesser, guessers>>

-----------------------------------------------------------------------------

Next == \/ Publish \/ Signal \/ NothingToDo \/ NextGuesser
        \/ Delivered \/ Answer \/ CtrlC

Spec == Init /\ [][Next]_vars

-----------------------------------------------------------------------------

\* The types; no answer, possible or not, drives the interval out of the
\* numbers the guesser was started for.
TypeOK ==
  /\ guess \in 0..upper_bound /\ result \in {"none", "bigger", "smaller", "bingo"}
  /\ sigusr1 \in 0..1
  /\ game \in [pc : {"spin", "answering", "ended"}, answer : Answers]
  /\ guesser \in [pc : {"spin", "kill"}, begin_num : 0..upper_bound,
                  end_num : 0..upper_bound, ticks : 0..MaxTicks]
  /\ guessers \in 1..MaxGuessers

\* The interval always holds the answer, in a second guesser too, which starts
\* from the whole interval and the last result of the one before
\* (timer_handler, 77-80, and the segment no guess.o removes).
AnswerInside ==
  game.answer \in 0..upper_bound =>
    game.answer \in guesser.begin_num..guesser.end_num

OutOfTime == guesser.pc = "spin" /\ guesser.ticks = MaxTicks /\ InTime

\* The seconds main spins for are enough: a game that is not stopped is won by
\* the first guess.o, for every answer below the upper bound.
FoundInTime ==
  OutOfTime /\ game.pc /= "ended" /\ game.answer \in 0..(upper_bound - 1) => result = "bingo"
=============================================================================
