------------------------------ MODULE CaseBoard ------------------------------
(***************************************************************************)
(* HW1's case counter (hw1.c): the main thread's menu counts cases, drives   *)
(* one LED an area and rewrites two numbers, digit by digit; the thread      *)
(* set_seg_blink shows one digit of one of them a second on the 7-segment    *)
(* display.  The two share the numbers and the menu's state without a lock.  *)
(***************************************************************************)
EXTENDS Integers, Functions

CONSTANTS LED_NUM,   \* the areas, one LED each
          SEG_NUM,   \* the segments of the display, written one by one
          BUF_SIZE,  \* the places of a number's buffer
          Word,      \* 2^32: one more than the largest unsigned int
          Entries,   \* the reports the user may enter: area, degree, number
          MaxReports \* bound: the reports entered

Power == [n \in 0..BUF_SIZE |-> 10 ^ n]

\* What the provers do not know of powers.
ASSUME PowerAssumption ==
  \A n \in 0..BUF_SIZE : /\ Power[n] \in Nat
                         /\ Power[n] = IF n = 0 THEN 1 ELSE 10 * Power[n - 1]

ASSUME BoardAssumption ==
  /\ LED_NUM \in Nat \ {0} /\ SEG_NUM \in Nat \ {0}
  /\ BUF_SIZE \in Nat \ {0} /\ Word \in Nat \ {0} /\ MaxReports \in Nat
  /\ Entries \subseteq (0..(LED_NUM - 1)) \X {"mild", "severe"} \X Int
  /\ Power[BUF_SIZE] >= Word

Areas == 0..(LED_NUM - 1)
Segments == 1..SEG_NUM
Places == 0..(BUF_SIZE - 1)
Degrees == {"mild", "severe"}
Boards == {"total", "region"}

\* set_seg(-1), and what a word from outside a buffer puts on the display.
Dark == -1
Junk == -2

VARIABLES
  menu_choice, chosen_area,         \* globals both threads read
  buffer, digit_num,                \* total_ and region_case_buffer, _digit_num
  case, region_cases, total_case,   \* mild_case and severe_case; the main thread's
  main,   \* [pc, area, number, rest, writes]: rest is an update's argument
  blinker,\* [pc, shows, timer_index, index, seg_num, segment, touched]
  leds, seg, \* the pins: per LED its level, per segment the glyph it is part of
  reports,   \* counts the reports, for the bound
  listed     \* history: what all areas had when a listing last restarted the total

boards == <<buffer, digit_num>>
counts == <<case, region_cases, total_case, reports, listed>>
pins == <<leds, seg>>
vars == <<menu_choice, chosen_area, buffer, digit_num, case, region_cases,
          total_case, main, blinker, leds, seg, reports, listed>>

\* The LEDs are as an earlier run, perhaps a killed one, left them.
Init ==
  /\ menu_choice = "none" /\ chosen_area = -1
  /\ buffer = [b \in Boards |-> [p \in Places |-> 0]]
  /\ digit_num = [b \in Boards |-> 0]
  /\ case = [d \in Degrees |-> [a \in Areas |-> 0]]
  /\ region_cases = [a \in Areas |-> 0] /\ total_case = 0
  /\ main = [pc |-> "menu", area |-> 0, number |-> 0, rest |-> 0, writes |-> 0]
  /\ blinker = [pc |-> "loop", shows |-> "total", timer_index |-> 0, index |-> 0,
                seg_num |-> 0, segment |-> 1, touched |-> FALSE]
  /\ leds \in [Areas -> 0..1] /\ seg = [s \in Segments |-> 0]
  /\ reports = 0 /\ listed = 0

Cases(a) == (case["mild"][a] + case["severe"][a]) % Word
AllCases == SumFunction([a \in Areas |-> Cases(a)])

\* A fault of either thread ends the process.
Runs(pc) == main.pc = pc /\ blinker.pc /= "faulted"

-----------------------------------------------------------------------------
(* The main thread *)

Lit == [a \in Areas |-> IF Cases(a) > 0 THEN 1 ELSE 0]

\* One round of the listing, up to its scanf: the total restarts at nothing.
List ==
  /\ total_case' = 0 /\ listed' = AllCases /\ leds' = Lit
  /\ main' = [main EXCEPT !.pc = "listed"]
  /\ UNCHANGED <<boards, case, region_cases, blinker, seg, reports>>

ConfirmedCase ==
  /\ Runs("menu") /\ menu_choice' = "1" /\ List
  /\ UNCHANGED chosen_area

\* A key that names no area.
ListAgain == Runs("listed") /\ List /\ UNCHANGED <<menu_choice, chosen_area>>

LeaveListing ==
  /\ Runs("listed") /\ main' = [main EXCEPT !.pc = "menu"]
  /\ UNCHANGED <<menu_choice, chosen_area, boards, counts, blinker, pins>>

ViewArea(a) ==
  /\ Runs("listed")
  /\ leds' = [b \in Areas |-> 0] /\ chosen_area' = a
  /\ main' = [main EXCEPT !.pc = "reset", !.area = a, !.number = region_cases[a]]
  /\ UNCHANGED <<menu_choice, boards, counts, blinker, seg>>

\* The number being rewritten: chosen_area says which call this is.
Written == IF chosen_area = -1 THEN "total" ELSE "region"

\* Mutant: the digits of the last number are not dropped.
ResetForgotten ==
  /\ Runs("reset")
  /\ blinker' = [blinker EXCEPT !.touched = @ \/ blinker.shows = Written]
  /\ main' = [main EXCEPT !.pc = "digits", !.rest = main.number, !.number = 0]
  /\ UNCHANGED <<menu_choice, chosen_area, boards, counts, pins>>

\* update_*_case_buffer: the number has no digits, then one more, which gcc
\* counts before it stores it.
ResetDigits ==
  /\ Runs("reset")
  /\ digit_num' = [digit_num EXCEPT ![Written] = 0]
  /\ blinker' = [blinker EXCEPT !.touched = @ \/ blinker.shows = Written]
  /\ main' = [main EXCEPT !.pc = "digits", !.rest = main.number, !.number = 0]
  /\ UNCHANGED <<menu_choice, chosen_area, buffer, counts, pins>>

CountDigit ==
  /\ Runs("digits") /\ main.rest > 0
  /\ digit_num' = [digit_num EXCEPT ![Written] = @ + 1]
  /\ main' = [main EXCEPT !.pc = "store"]
  /\ UNCHANGED <<menu_choice, chosen_area, buffer, counts, blinker, pins>>

\* Mutant: a digit lands at the place after its own.
StoreDigitLate ==
  /\ Runs("store")
  /\ buffer' = [buffer EXCEPT ![Written] =
                  [@ EXCEPT ![digit_num[Written] % BUF_SIZE] = main.rest % 10]]
  /\ main' = [main EXCEPT !.pc = "digits", !.rest = @ \div 10]
  /\ UNCHANGED <<menu_choice, chosen_area, digit_num, counts, blinker, pins>>

StoreDigit ==
  /\ Runs("store")
  /\ buffer' = [buffer EXCEPT ![Written][digit_num[Written] - 1] = main.rest % 10]
  /\ main' = [main EXCEPT !.pc = "digits", !.rest = @ \div 10]
  /\ UNCHANGED <<menu_choice, chosen_area, digit_num, counts, blinker, pins>>

\* The LED goes on and off three times, half a second each, and stays on.
Blink ==
  /\ Runs("digits") /\ main.rest = 0 /\ chosen_area /= -1
  /\ leds' = [leds EXCEPT ![main.area] = 1]
  /\ main' = [main EXCEPT !.pc = "viewing"]
  /\ UNCHANGED <<menu_choice, chosen_area, boards, counts, blinker, seg>>

\* A key ends the view, and the listing starts again.
LeaveArea ==
  /\ Runs("viewing")
  /\ chosen_area' = -1 /\ total_case' = 0 /\ listed' = AllCases /\ leds' = Lit
  /\ main' = [main EXCEPT !.pc = "listed"]
  /\ UNCHANGED <<menu_choice, boards, case, region_cases, blinker, seg, reports>>

\* The user's entries up to the call of update_total_case_buffer.  The number is
\* unsigned, so the test for a negative one never asks again: it wraps.
EnterReport(a, d, n) ==
  /\ reports < MaxReports /\ reports' = reports + 1
  /\ menu_choice' = "2"
  /\ case' = [case EXCEPT ![d][a] = (@ + n) % Word]
  /\ total_case' = (total_case + n) % Word
  /\ main' = [main EXCEPT !.pc = "reset", !.area = a, !.number = total_case']
  /\ region_cases' = [region_cases EXCEPT ![a] = (@ + n) % Word]
  /\ UNCHANGED <<chosen_area, boards, blinker, pins, listed>>

ReportingSystem ==
  /\ Runs("menu") \/ Runs("reported")
  /\ \E r \in Entries : EnterReport(r[1], r[2], r[3])

\* The buffer is written: the area's LED goes on, if it has a case.
Reported ==
  /\ Runs("digits") /\ main.rest = 0 /\ chosen_area = -1
  /\ leds' = [leds EXCEPT ![main.area] = IF Cases(main.area) > 0 THEN 1 ELSE @]
  /\ main' = [main EXCEPT !.pc = "reported"]
  /\ UNCHANGED <<menu_choice, chosen_area, boards, counts, blinker, seg>>

LeaveReporting ==
  /\ Runs("reported") /\ main' = [main EXCEPT !.pc = "menu"]
  /\ UNCHANGED <<menu_choice, chosen_area, boards, counts, blinker, pins>>

\* Choice 3: the blinking thread sees it before the pins are dark.
Exit ==
  /\ Runs("menu") /\ menu_choice' = "3"
  /\ main' = [main EXCEPT !.pc = "exit"]
  /\ UNCHANGED <<chosen_area, boards, counts, blinker, pins>>

LedsOff ==
  /\ Runs("exit") /\ leds' = [a \in Areas |-> 0]
  /\ main' = [main EXCEPT !.pc = "darken", !.writes = 0]
  /\ UNCHANGED <<menu_choice, chosen_area, boards, counts, blinker, seg>>

\* set_seg(-1), and pthread_exit after the last segment.
SegmentOff ==
  /\ Runs("darken")
  /\ seg' = [seg EXCEPT ![main.writes + 1] = Dark]
  /\ main' = [main EXCEPT !.pc = IF main.writes + 1 = SEG_NUM THEN "ended" ELSE @,
                          !.writes = @ + 1]
  /\ UNCHANGED <<menu_choice, chosen_area, boards, counts, blinker, leds>>

MainThread ==
  \/ ConfirmedCase \/ ListAgain \/ LeaveListing \/ LeaveArea
  \/ \E a \in Areas : ViewArea(a)
  \/ ResetDigits \/ CountDigit \/ StoreDigit \/ Blink
  \/ ReportingSystem \/ Reported \/ LeaveReporting
  \/ Exit \/ LedsOff \/ SegmentOff

-----------------------------------------------------------------------------
(* set_seg_blink, one action for each time it looks at a shared variable *)

BlinkerStep(from, new) ==
  /\ blinker.pc = from /\ blinker' = new
  /\ UNCHANGED <<menu_choice, chosen_area, boards, counts, main, leds>>

AtLoop ==
  /\ BlinkerStep("loop",
       [blinker EXCEPT !.pc = IF menu_choice = "3" THEN "ended" ELSE "which"])
  /\ UNCHANGED seg

\* Which of the numbers is to be shown, asked in two tests: neither, if the area
\* is left in between.
WhichTotal ==
  /\ BlinkerStep("which", IF chosen_area = -1
                          THEN [blinker EXCEPT !.pc = "wrap", !.shows = "total"]
                          ELSE [blinker EXCEPT !.pc = "area"])
  /\ UNCHANGED seg

WhichArea ==
  /\ BlinkerStep("area", IF chosen_area = -1
                         THEN [blinker EXCEPT !.pc = "loop"]
                         ELSE [blinker EXCEPT !.pc = "wrap", !.shows = "region"])
  /\ UNCHANGED seg

Digits == digit_num[blinker.shows]

\* Mutant: the position is not checked against the number's length.
WrapIndexNever ==
  /\ BlinkerStep("wrap", [blinker EXCEPT !.pc = "some", !.touched = FALSE])
  /\ UNCHANGED seg

\* timer_index may be left over from a longer number.
WrapIndex ==
  /\ BlinkerStep("wrap", [blinker EXCEPT !.pc = "some", !.touched = FALSE,
                            !.timer_index = IF @ >= Digits THEN 0 ELSE @])
  /\ UNCHANGED seg

AnyDigit ==
  /\ BlinkerStep("some", [blinker EXCEPT !.pc = IF Digits > 0 THEN "index" ELSE "loop"])
  /\ UNCHANGED seg

Index ==
  /\ BlinkerStep("index", [blinker EXCEPT !.pc = "fetch",
                             !.index = Digits - blinker.timer_index - 1])
  /\ UNCHANGED seg

\* A place before the buffer is a place 16 GB behind it, or the word before it,
\* as addresses are 64 or 32 bits wide.
Fetch ==
  /\ IF blinker.index \in Places
     THEN BlinkerStep("fetch", [blinker EXCEPT !.pc = "write", !.index = 0,
                                  !.seg_num = buffer[blinker.shows][blinker.index]])
     ELSE \/ BlinkerStep("fetch", [blinker EXCEPT !.pc = "faulted"])
          \/ BlinkerStep("fetch", [blinker EXCEPT !.pc = "write", !.index = 0,
                                     !.seg_num = Junk])
  /\ UNCHANGED seg

\* One round of set_seg.
WriteSegment ==
  /\ seg' = [seg EXCEPT ![blinker.segment] = blinker.seg_num]
  /\ BlinkerStep("write", [blinker EXCEPT
       !.pc = IF blinker.segment = SEG_NUM THEN "advance" ELSE @,
       !.segment = (@ % SEG_NUM) + 1])

\* Mutant: the last digit is skipped.
AdvanceShort ==
  /\ IF Digits > 1
     THEN BlinkerStep("advance", [blinker EXCEPT !.pc = "loop",
                                    !.timer_index = (@ + 1) % (Digits - 1)])
     ELSE BlinkerStep("advance", [blinker EXCEPT !.pc = "loop", !.timer_index = 0])
  /\ UNCHANGED seg

\* A division by zero is a signal on one processor, and has the dividend for its
\* remainder on another.  Then the thread sleeps.
Advance ==
  /\ IF Digits > 0
     THEN BlinkerStep("advance", [blinker EXCEPT !.pc = "loop",
                                    !.timer_index = (@ + 1) % Digits])
     ELSE \/ BlinkerStep("advance", [blinker EXCEPT !.pc = "faulted"])
          \/ BlinkerStep("advance", [blinker EXCEPT !.pc = "loop", !.timer_index = @ + 1])
  /\ UNCHANGED seg

Blinker == \/ AtLoop \/ WhichTotal \/ WhichArea \/ WrapIndex \/ AnyDigit
           \/ Index \/ Fetch \/ WriteSegment \/ Advance

-----------------------------------------------------------------------------

Next == MainThread \/ Blinker

\* Whatever does not wait for the user.
OwnSteps == \/ ResetDigits \/ CountDigit \/ StoreDigit \/ Blink \/ Reported
            \/ LedsOff \/ SegmentOff

Spec == Init /\ [][Next]_vars
FairSpec == Spec /\ WF_vars(OwnSteps) /\ WF_vars(Blinker)

-----------------------------------------------------------------------------

\* The types; a number never has more digits than its buffer has places.
TypeOK ==
  /\ menu_choice \in {"none", "1", "2", "3"} /\ chosen_area \in {-1} \cup Areas
  /\ buffer \in [Boards -> [Places -> 0..9]]
  /\ digit_num \in [Boards -> 0..BUF_SIZE]
  /\ case \in [Degrees -> [Areas -> 0..(Word - 1)]]
  /\ region_cases \in [Areas -> 0..(Word - 1)] /\ total_case \in 0..(Word - 1)
  /\ main \in [pc : {"menu", "listed", "reset", "digits", "store", "viewing", "reported",
                     "exit", "darken", "ended"},
               area : Areas, number : 0..(Word - 1), rest : 0..(Word - 1), writes : Nat]
  /\ main.pc = "darken" => main.writes < SEG_NUM
  /\ main.pc = "store" => digit_num[Written] > 0
  /\ blinker \in [pc : {"loop", "which", "area", "wrap", "some", "index", "fetch",
                        "write", "advance", "ended", "faulted"},
                  shows : Boards, timer_index : 0..BUF_SIZE, index : Int,
                  seg_num : {Junk} \cup 0..9, segment : Segments, touched : BOOLEAN]
  /\ leds \in [Areas -> 0..1] /\ seg \in [Segments -> {Junk, Dark} \cup 0..9]
  /\ reports \in 0..MaxReports /\ listed \in Nat

\* Every LED says what was counted whenever the user is asked something: an area
\* with a case is lit from its report on, whatever is looked at in between; the
\* listing puts out what an earlier run left lit; an area looked at is lit alone;
\* nothing is lit after choice 3 (HW1/README.md:31-32 and 103; hw1.c 116,
\* 127, 199, 221).
LedsTellCases ==
  /\ main.pc \in {"menu", "reported"} =>
       \A a \in Areas : Cases(a) > 0 => leds[a] = 1
  /\ main.pc = "listed" => leds = Lit
  /\ main.pc = "viewing" =>
       leds = [a \in Areas |-> IF a = chosen_area THEN 1 ELSE 0]
  /\ main.pc = "ended" => \A a \in Areas : leds[a] = 0

\* The number a buffer's digits make.
Value(b) == SumFunction([p \in 0..(digit_num[b] - 1) |-> buffer[b][p] * Power[p]])

\* What is in the buffers when the user is asked: for an area the sum of its two
\* counts, which come to region_cases by another way; for the total only what was
\* reported since the last listing, which restarts total_case (hw1.c 111, 131, 194 and
\* 325-345).  HW1/README.md:28 and 103 want all that was ever reported there: the
\* program does so until the first listing and never again.
BoardsTellCounts ==
  /\ main.pc = "viewing" => Value("region") = Cases(chosen_area)
  /\ main.pc = "reported" => Value("total") = (AllCases - listed) % Word

\* Whenever the user is asked something, the LEDs and an area's number tell what
\* all reports made of the areas' counts, whatever was looked at in between and
\* whatever an earlier run left lit, and the total tells how much of that came
\* after the last listing (hw1.c 111-139 and 185-202).
ShownIsCounted == LedsTellCases /\ BoardsTellCounts

\* The position the thread has checked against a number's length stays inside
\* the buffer, and inside the number, unless the main thread begins to rewrite
\* that very number between the check and the use: only then can it show what is
\* no digit, divide by zero or be killed (set_seg_blink, 240-246 and 250-256).
StraysOnlyWhenTouched ==
  ~blinker.touched =>
    /\ blinker.pc \in {"index", "advance"} => blinker.timer_index < Digits
    /\ blinker.pc = "fetch" => blinker.index \in 0..(Digits - 1)
    /\ blinker.pc /= "faulted" /\ (blinker.pc = "write" => blinker.seg_num /= Junk)

\* The main thread is waiting and the number b is the one to be shown.
Waiting(b) ==
  /\ main.pc \in {"menu", "listed", "viewing", "reported"}
  /\ menu_choice /= "3" /\ b = Written /\ blinker.pc /= "faulted"

\* As long as the user types nothing, every digit of the number on the board
\* comes up again and again, whatever number the display was in the middle of
\* before ("if the number has more than one digit, the 7-segment display shows
\* them in turn", HW1/README.md:104 and 127).
EveryDigitShown ==
  \A b \in Boards, p \in Places :
    <>[](Waiting(b) /\ p < digit_num[b]) =>
      []<>(blinker.pc = "advance" /\ blinker.shows = b
             /\ blinker.timer_index = digit_num[b] - p - 1)
=============================================================================
