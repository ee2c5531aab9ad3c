--------------------------- MODULE CaseBoardProofs ---------------------------
(***************************************************************************)
(* The types of the case counter, a number's room in its buffer included;    *)
(* when the unlocked blinking thread can leave the number it shows; and what  *)
(* the LEDs and the two boards tell of the counts.                           *)
(***************************************************************************)
EXTENDS CaseBoard, InductionTheorems, TLAPS

Mains == [pc : {"menu", "listed", "reset", "digits", "store", "viewing", "reported",
                "exit", "darken", "ended"},
          area : Areas, number : 0..(Word - 1), rest : 0..(Word - 1), writes : Nat]

Blinkers == [pc : {"loop", "which", "area", "wrap", "some", "index", "fetch",
                   "write", "advance", "ended", "faulted"},
             shows : Boards, timer_index : 0..BUF_SIZE, index : Int,
             seg_num : {Junk} \cup 0..9, segment : Segments, touched : BOOLEAN]

Counting == {"digits", "store"}
Showing == {"some", "index", "fetch", "write", "advance"}

\* What is left of a number fits the places left of its buffer.
Room ==
  /\ main.pc = "digits" => main.rest < Power[BUF_SIZE - digit_num[Written]]
  /\ main.pc = "store" => /\ main.rest > 0
                          /\ main.rest < 10 * Power[BUF_SIZE - digit_num[Written]]

Positioned == blinker.pc \in Showing => blinker.timer_index < BUF_SIZE

\* From the check of the position to its last use.
Checked == ~blinker.touched =>
  /\ blinker.pc = "some" => blinker.timer_index < Digits \/ blinker.timer_index = 0
  /\ blinker.pc \in {"index", "fetch", "write", "advance"} => blinker.timer_index < Digits
  /\ blinker.pc = "fetch" => blinker.index \in 0..(Digits - 1)
  /\ blinker.pc /= "faulted" /\ (blinker.pc = "write" => blinker.seg_num /= Junk)

BoardInv == TypeOK /\ Room /\ Positioned /\ Checked

LEMMA Sizes ==
  /\ LED_NUM \in Nat \ {0} /\ SEG_NUM \in Nat \ {0} /\ BUF_SIZE \in Nat \ {0} /\ Word \in Nat \ {0}
  /\ MaxReports \in Nat /\ 0 \in 0..(Word - 1) /\ 0 \in 0..BUF_SIZE /\ 0 \in Places
  /\ 0 \in Areas /\ 1 \in Segments /\ 0 \in 0..MaxReports
  /\ "total" \in Boards /\ "region" \in Boards /\ "mild" \in Degrees /\ "severe" \in Degrees
BY BoardAssumption DEF Places, Areas, Segments, Boards, Degrees

LEMMA WrittenTypes == Written \in Boards
BY DEF Written, Boards

\* Sums of unsigned numbers stay unsigned numbers, whatever was entered.
LEMMA WordTypes == ASSUME NEW x \in Int PROVE x % Word \in 0..(Word - 1)
<1>1. Word \in Int /\ Word > 0
  BY Sizes
<1>. QED  BY <1>1

LEMMA FiniteAreas == IsFiniteSet(Areas)
<1>1. 0 \in Int /\ LED_NUM - 1 \in Int
  BY Sizes
<1>. QED  BY <1>1, FS_Interval DEF Areas

CasesOf == [a \in Areas |-> Cases(a)]

\* What all areas have is the sum of what each one has.
AllIsSum ==
  /\ AllCases = SumFunctionOnSet(CasesOf, Areas) /\ AllCases \in Nat
  /\ \A a \in Areas : CasesOf[a] = Cases(a) /\ Cases(a) \in Nat

LEMMA AllTypes == TypeOK => AllIsSum
<1>. SUFFICES ASSUME TypeOK PROVE AllIsSum
  OBVIOUS
<1>1. ASSUME NEW a \in Areas PROVE CasesOf[a] = Cases(a) /\ Cases(a) \in Nat
  <2>1. case["mild"][a] + case["severe"][a] \in Int
    BY DEF TypeOK, Degrees
  <2>2. Cases(a) \in 0..(Word - 1)
    BY <2>1, WordTypes DEF Cases
  <2>. QED  BY <2>2, Sizes DEF CasesOf
<1>2. AllCases = SumFunctionOnSet(CasesOf, Areas)
  BY DEF AllCases, SumFunction, CasesOf
<1>. QED  BY <1>1, <1>2, FiniteAreas, SumNat DEF AllIsSum

\* The main thread turns to the rewriting of a number.
LEMMA MainResets ==
  ASSUME NEW m \in Mains, NEW a \in Areas, NEW n \in 0..(Word - 1)
  PROVE  LET r == [m EXCEPT !.pc = "reset", !.area = a, !.number = n]
         IN  r \in Mains /\ r.pc = "reset"
BY DEF Mains

LEMMA BoardInit == Init => BoardInv
<1> SUFFICES ASSUME Init PROVE BoardInv
  OBVIOUS
<1>1. main \in Mains
  BY Sizes DEF Init, Mains
<1>2. blinker \in Blinkers
  BY Sizes DEF Init, Blinkers, Boards
<1>3. /\ buffer \in [Boards -> [Places -> 0..9]] /\ digit_num \in [Boards -> 0..BUF_SIZE]
      /\ case \in [Degrees -> [Areas -> 0..(Word - 1)]]
      /\ region_cases \in [Areas -> 0..(Word - 1)]
      /\ seg \in [Segments -> {Junk, Dark} \cup 0..9]
  <2>1. 0 \in 0..9
    OBVIOUS
  <2>. QED  BY <2>1, Sizes DEF Init
<1>4. TypeOK
  BY <1>1, <1>2, <1>3, Sizes DEF Init, TypeOK, Mains, Blinkers
<1>. QED  BY <1>4 DEF Init, BoardInv, Room, Positioned, Checked, Showing

-----------------------------------------------------------------------------
(* The main thread *)

\* A step after which no number is being written.
LEMMA NotWriting ==
  ASSUME BoardInv, UNCHANGED <<boards, blinker, seg>>,
         main' \in Mains, main'.pc \notin Counting \cup {"darken"},
         menu_choice' \in {"none", "1", "2", "3"}, chosen_area' \in {-1} \cup Areas,
         case' \in [Degrees -> [Areas -> 0..(Word - 1)]],
         region_cases' \in [Areas -> 0..(Word - 1)], total_case' \in 0..(Word - 1),
         leds' \in [Areas -> 0..1], reports' \in 0..MaxReports, listed' \in Nat
  PROVE  BoardInv'
<1>1. TypeOK'
  BY DEF BoardInv, TypeOK, boards, Mains, Counting
<1>. QED  BY <1>1 DEF BoardInv, Room, Positioned, Checked, Digits, boards, Counting

LEMMA LitTypes == Lit \in [Areas -> 0..1]
BY DEF Lit

\* The steps of the menu, and those that light LEDs.
LEMMA InvMenu ==
  ASSUME BoardInv,
         \/ ConfirmedCase \/ ListAgain \/ LeaveListing \/ LeaveArea
         \/ Blink \/ Reported \/ LeaveReporting \/ Exit
         \/ \E a \in Areas : ViewArea(a)
  PROVE  BoardInv'
<1>m. /\ main \in Mains /\ main.area \in Areas /\ TypeOK
      /\ \A place \in {"listed", "menu", "viewing", "reported", "exit"} :
           [main EXCEPT !.pc = place] \in Mains
  BY DEF BoardInv, TypeOK, Mains
<1>1. CASE ConfirmedCase \/ ListAgain
  <2>1. /\ total_case' = 0 /\ listed' = AllCases /\ leds' = Lit /\ main' = [main EXCEPT !.pc = "listed"]
        /\ UNCHANGED <<boards, case, region_cases, blinker, seg, reports, chosen_area>>
        /\ menu_choice' \in {"1", menu_choice}
    BY <1>1 DEF ConfirmedCase, ListAgain, List
  <2>2. main' \in Mains /\ main'.pc = "listed"
    BY <1>m, <2>1 DEF Mains
  <2>. QED  BY <1>m, <2>1, <2>2, NotWriting, LitTypes, AllTypes, Sizes DEF TypeOK, Counting, AllIsSum
<1>2. CASE LeaveArea
  <2>1. /\ total_case' = 0 /\ listed' = AllCases /\ leds' = Lit /\ main' = [main EXCEPT !.pc = "listed"]
        /\ UNCHANGED <<boards, case, region_cases, blinker, seg, reports, menu_choice>>
        /\ chosen_area' = -1
    BY <1>2 DEF LeaveArea
  <2>2. main' \in Mains /\ main'.pc = "listed"
    BY <1>m, <2>1 DEF Mains
  <2>. QED  BY <1>m, <2>1, <2>2, NotWriting, LitTypes, AllTypes, Sizes DEF TypeOK, Counting, AllIsSum
<1>3. CASE LeaveListing \/ LeaveReporting \/ Exit
  <2>1. PICK place \in {"menu", "exit"} : main' = [main EXCEPT !.pc = place]
    BY <1>3 DEF LeaveListing, LeaveReporting, Exit
  <2>2. main' \in Mains /\ main'.pc = place
    BY <1>m, <2>1 DEF Mains
  <2>3. /\ UNCHANGED <<chosen_area, boards, counts, blinker, pins>>
        /\ menu_choice' \in {"3", menu_choice}
    BY <1>3 DEF LeaveListing, LeaveReporting, Exit
  <2>. QED  BY <1>m, <2>1, <2>2, <2>3, NotWriting DEF TypeOK, Counting, counts, pins
<1>4. CASE Blink \/ Reported
  <2>1. PICK place \in {"viewing", "reported"} : main' = [main EXCEPT !.pc = place]
    BY <1>4 DEF Blink, Reported
  <2>2. main' \in Mains /\ main'.pc = place
    BY <1>m, <2>1 DEF Mains
  <2>3. /\ UNCHANGED <<menu_choice, chosen_area, boards, counts, blinker, seg>>
        /\ leds' \in [Areas -> 0..1]
    <3>1. leds \in [Areas -> 0..1] /\ 1 \in 0..1
      BY <1>m DEF TypeOK
    <3>2. leds[main.area] \in 0..1
      BY <1>m, <3>1
    <3>. QED  BY <1>4, <3>1, <3>2 DEF Blink, Reported
  <2>. QED  BY <1>m, <2>1, <2>2, <2>3, NotWriting DEF TypeOK, Counting, counts
<1>5. ASSUME NEW a \in Areas, ViewArea(a) PROVE BoardInv'
  <2>1. region_cases[a] \in 0..(Word - 1)
    BY <1>m DEF TypeOK
  <2>2. main' \in Mains /\ main'.pc = "reset"
    <3>1. main' = [main EXCEPT !.pc = "reset", !.area = a, !.number = region_cases[a]]
      BY <1>5 DEF ViewArea
    <3>. QED  BY <1>m, <2>1, <3>1, MainResets
  <2>3. leds' \in [Areas -> 0..1] /\ chosen_area' \in {-1} \cup Areas
    <3>1. 0 \in 0..1
      OBVIOUS
    <3>. QED  BY <1>5, <3>1 DEF ViewArea
  <2>. QED  BY <1>m, <1>5, <2>2, <2>3, NotWriting DEF ViewArea, TypeOK, Counting, counts, boards
<1>. QED  BY <1>1, <1>2, <1>3, <1>4, <1>5

LEMMA InvReport == ASSUME BoardInv, ReportingSystem PROVE BoardInv'
<1>1. PICK a \in Areas, d \in Degrees, n \in Int : EnterReport(a, d, n)
  BY BoardAssumption DEF ReportingSystem, Degrees, Areas
<1>m. main \in Mains /\ TypeOK
  BY DEF BoardInv, TypeOK, Mains
<1>2. /\ case[d][a] \in Int /\ region_cases[a] \in Int /\ total_case \in Int
  BY <1>m, Sizes DEF TypeOK
<1>3. /\ (case[d][a] + n) % Word \in 0..(Word - 1)
      /\ (region_cases[a] + n) % Word \in 0..(Word - 1)
      /\ (total_case + n) % Word \in 0..(Word - 1)
  BY <1>1, <1>2, WordTypes
<1>4. /\ case' \in [Degrees -> [Areas -> 0..(Word - 1)]]
      /\ region_cases' \in [Areas -> 0..(Word - 1)] /\ total_case' \in 0..(Word - 1)
  BY <1>1, <1>m, <1>3 DEF EnterReport, TypeOK
<1>5. main' \in Mains /\ main'.pc = "reset"
  BY <1>1, <1>m, <1>4, MainResets DEF EnterReport
<1>6. reports' \in 0..MaxReports /\ listed' \in Nat
  BY <1>1, <1>m, Sizes DEF EnterReport, TypeOK
<1>7. /\ UNCHANGED <<boards, blinker, seg>> /\ menu_choice' \in {"none", "1", "2", "3"}
      /\ chosen_area' \in {-1} \cup Areas /\ leds' \in [Areas -> 0..1]
  BY <1>1, <1>m DEF EnterReport, TypeOK, pins
<1>. QED  BY <1>4, <1>5, <1>6, <1>7, NotWriting DEF Counting

\* update_*_case_buffer writes one number at a time, and what is left of it fits
\* what is left of its buffer.
LEMMA PowerTypes == ASSUME NEW n \in 0..BUF_SIZE PROVE Power[n] \in Nat
BY PowerAssumption, Sizes

LEMMA PowerStep == ASSUME NEW n \in 0..BUF_SIZE, n > 0 PROVE Power[n] = 10 * Power[n - 1]
BY PowerAssumption, Sizes

\* The blinker sees at most that the main thread began to rewrite its number.
LEMMA InvReset == ASSUME BoardInv, ResetDigits PROVE BoardInv'
<1>m. main \in Mains /\ blinker \in Blinkers /\ TypeOK /\ Written \in Boards
  BY WrittenTypes DEF BoardInv, TypeOK, Mains, Blinkers
<1>1. /\ digit_num' = [digit_num EXCEPT ![Written] = 0]
      /\ blinker' = [blinker EXCEPT !.touched = blinker.touched \/ blinker.shows = Written]
      /\ main' = [main EXCEPT !.pc = "digits", !.rest = main.number, !.number = 0]
      /\ UNCHANGED <<menu_choice, chosen_area, buffer, counts, pins>>
  BY DEF ResetDigits
<1>2. main' \in Mains /\ main'.pc = "digits" /\ main'.rest = main.number
  BY <1>m, <1>1, Sizes DEF Mains
<1>3. /\ blinker' \in Blinkers
      /\ blinker'.touched = (blinker.touched \/ blinker.shows = Written)
      /\ blinker'.pc = blinker.pc /\ blinker'.timer_index = blinker.timer_index
      /\ blinker'.shows = blinker.shows /\ blinker'.index = blinker.index
      /\ blinker'.seg_num = blinker.seg_num
  BY <1>m, <1>1 DEF Blinkers
<1>4. digit_num' \in [Boards -> 0..BUF_SIZE] /\ digit_num'[Written] = 0
  BY <1>m, <1>1, Sizes DEF TypeOK
<1>5. Written' = Written
  BY <1>1 DEF Written
<1>6. TypeOK'
  BY <1>m, <1>1, <1>2, <1>3, <1>4, <1>5 DEF TypeOK, Mains, Blinkers, counts, pins
<1>7. Room'
  <2>1. main.number < Power[BUF_SIZE - 0]
    <3>1. BUF_SIZE - 0 = BUF_SIZE /\ BUF_SIZE \in 0..BUF_SIZE
      BY Sizes
    <3>2. Power[BUF_SIZE] \in Nat /\ Power[BUF_SIZE] >= Word
      BY <3>1, PowerTypes, BoardAssumption
    <3>3. main.number < Word /\ main.number \in Int /\ Word \in Int
      BY <1>m, Sizes DEF Mains
    <3>4. main.number < Power[BUF_SIZE]
      BY <3>2, <3>3
    <3>. QED  BY <3>1, <3>4
  <2>. QED  BY <1>2, <1>4, <1>5, <2>1 DEF Room
<1>8. Positioned' /\ Checked'
  <2>1. ~blinker'.touched => ~blinker.touched /\ Digits' = Digits
    BY <1>m, <1>1, <1>3 DEF Digits, TypeOK, Blinkers
  <2>. QED  BY <1>3, <2>1 DEF BoardInv, Positioned, Checked, Showing
<1>. QED  BY <1>6, <1>7, <1>8 DEF BoardInv

LEMMA InvCount == ASSUME BoardInv, CountDigit PROVE BoardInv'
<1>m. main \in Mains /\ TypeOK /\ Written \in Boards /\ digit_num[Written] \in 0..BUF_SIZE
  BY WrittenTypes DEF BoardInv, TypeOK, Mains
<1>1. /\ main.pc = "digits" /\ main.rest > 0
      /\ digit_num' = [digit_num EXCEPT ![Written] = digit_num[Written] + 1]
      /\ main' = [main EXCEPT !.pc = "store"]
      /\ UNCHANGED <<menu_choice, chosen_area, buffer, counts, blinker, pins>>
  BY DEF CountDigit, Runs
<1>2. main' \in Mains /\ main'.pc = "store" /\ main'.rest = main.rest
  BY <1>m, <1>1 DEF Mains
<1>3. /\ digit_num[Written] < BUF_SIZE
      /\ main.rest < 10 * Power[BUF_SIZE - (digit_num[Written] + 1)]
  <2>. DEFINE left == BUF_SIZE - digit_num[Written]
  <2>1. left \in 0..BUF_SIZE /\ main.rest < Power[left] /\ main.rest \in Nat
    BY <1>m, <1>1, Sizes DEF BoardInv, Room, Mains
  <2>4. BUF_SIZE - (digit_num[Written] + 1) = left - 1
    BY <1>m, Sizes
  <2>5. left > 0 => digit_num[Written] < BUF_SIZE
    BY <1>m, Sizes
  <2>. HIDE DEF left
  <2>2. left > 0
    <3>1. Power[0] = 1
      BY PowerAssumption, Sizes
    <3>. QED  BY <1>1, <2>1, <3>1
  <2>3. Power[left] = 10 * Power[left - 1]
    BY <2>1, <2>2, PowerStep, Sizes
  <2>. QED  BY <1>m, <2>1, <2>2, <2>3, <2>4, <2>5
<1>4. /\ digit_num' \in [Boards -> 0..BUF_SIZE] /\ digit_num'[Written] = digit_num[Written] + 1
      /\ \A b \in Boards : digit_num'[b] >= digit_num[b]
  BY <1>m, <1>1, <1>3, Sizes DEF TypeOK
<1>5. Written' = Written
  BY <1>1 DEF Written
<1>6. TypeOK'
  BY <1>m, <1>1, <1>2, <1>4, <1>5 DEF TypeOK, Mains, counts, pins
<1>7. Room'
  BY <1>1, <1>2, <1>3, <1>4, <1>5 DEF Room
<1>8. Positioned' /\ Checked'
  <2>1. Digits' \in Int /\ Digits \in Int /\ Digits' >= Digits
    BY <1>m, <1>1, <1>4 DEF Digits, TypeOK
  <2>2. blinker.timer_index \in Int /\ blinker' = blinker
    BY <1>m, <1>1 DEF TypeOK
  <2>. QED  BY <2>1, <2>2 DEF BoardInv, Positioned, Checked, Showing
<1>. QED  BY <1>6, <1>7, <1>8 DEF BoardInv

LEMMA InvStore == ASSUME BoardInv, StoreDigit PROVE BoardInv'
<1>m. main \in Mains /\ TypeOK /\ Written \in Boards /\ digit_num[Written] \in 0..BUF_SIZE
  BY WrittenTypes DEF BoardInv, TypeOK, Mains
<1>1. /\ main.pc = "store"
      /\ buffer' = [buffer EXCEPT ![Written][digit_num[Written] - 1] = main.rest % 10]
      /\ main' = [main EXCEPT !.pc = "digits", !.rest = main.rest \div 10]
      /\ UNCHANGED <<menu_choice, chosen_area, digit_num, counts, blinker, pins>>
  BY DEF StoreDigit, Runs
<1>2. main.rest \in 0..(Word - 1) /\ main.rest % 10 \in 0..9
  BY <1>m, Sizes DEF Mains
<1>3. main.rest \div 10 \in 0..(Word - 1)
  BY <1>2, Sizes
<1>4. main' \in Mains /\ main'.pc = "digits" /\ main'.rest = main.rest \div 10
  BY <1>m, <1>1, <1>3 DEF Mains
<1>5. buffer' \in [Boards -> [Places -> 0..9]]
  <2>1. buffer[Written] \in [Places -> 0..9]
    BY <1>m DEF TypeOK
  <2>. QED  BY <1>m, <1>1, <1>2, <2>1 DEF TypeOK
<1>6. Written' = Written
  BY <1>1 DEF Written
<1>7. TypeOK'
  BY <1>m, <1>1, <1>4, <1>5 DEF TypeOK, Mains, counts, pins
<1>8. Room'
  <2>1. main.rest < 10 * Power[BUF_SIZE - digit_num[Written]]
    BY <1>1 DEF BoardInv, Room
  <2>2. Power[BUF_SIZE - digit_num[Written]] \in Nat
    <3>1. BUF_SIZE - digit_num[Written] \in 0..BUF_SIZE
      BY <1>m, Sizes
    <3>. QED  BY <3>1, PowerTypes, Sizes
  <2>3. main.rest \div 10 < Power[BUF_SIZE - digit_num[Written]]
    BY <1>2, <2>1, <2>2
  <2>. QED  BY <1>1, <1>4, <1>6, <2>3 DEF Room
<1>9. Positioned' /\ Checked'
  BY <1>1 DEF BoardInv, Positioned, Checked, Showing, Digits
<1>. QED  BY <1>7, <1>8, <1>9 DEF BoardInv

LEMMA InvDark == ASSUME BoardInv, LedsOff \/ SegmentOff PROVE BoardInv'
<1>m. main \in Mains /\ TypeOK
  BY DEF BoardInv, TypeOK, Mains
<1>1. UNCHANGED <<menu_choice, chosen_area, boards, counts, blinker>>
  BY DEF LedsOff, SegmentOff
<1>2. /\ main' \in Mains /\ main'.pc \notin Counting
      /\ main'.pc = "darken" => main'.writes < SEG_NUM
      /\ leds' \in [Areas -> 0..1] /\ seg' \in [Segments -> {Junk, Dark} \cup 0..9]
  <2>0. main.writes \in Nat
    BY <1>m DEF Mains
  <2>1. CASE LedsOff
    <3>1. /\ main' = [main EXCEPT !.pc = "darken", !.writes = 0] /\ leds' = [a \in Areas |-> 0]
          /\ UNCHANGED seg /\ main.pc = "exit"
      BY <2>1 DEF LedsOff, Runs
    <3>2. main' \in Mains /\ main'.pc = "darken" /\ main'.writes = 0
      BY <1>m, <3>1 DEF Mains
    <3>3. leds' \in [Areas -> 0..1]
      BY <3>1
    <3>4. 0 < SEG_NUM /\ seg' \in [Segments -> {Junk, Dark} \cup 0..9]
      BY <1>m, <3>1, Sizes DEF TypeOK
    <3>. QED  BY <1>m, <3>2, <3>3, <3>4 DEF Counting
  <2>2. CASE SegmentOff
    <3>. DEFINE place == IF main.writes + 1 = SEG_NUM THEN "ended" ELSE "darken"
    <3>1. /\ main.pc = "darken" /\ UNCHANGED leds
          /\ seg' = [seg EXCEPT ![main.writes + 1] = Dark]
          /\ main' = [main EXCEPT !.pc = place, !.writes = main.writes + 1]
      BY <2>2 DEF SegmentOff, Runs
    <3>2. main.writes < SEG_NUM
      BY <1>m, <3>1 DEF TypeOK
    <3>5. /\ place \in {"ended", "darken"} /\ main.writes + 1 \in Nat
          /\ place = "darken" => main.writes + 1 < SEG_NUM
      BY <2>0, <3>2, Sizes
    <3>. HIDE DEF place
    <3>3. main' \in Mains /\ main'.writes = main.writes + 1 /\ main'.pc = place
      BY <1>m, <3>1, <3>5 DEF Mains
    <3>4. seg' \in [Segments -> {Junk, Dark} \cup 0..9]
      BY <1>m, <3>1 DEF TypeOK
    <3>. QED  BY <1>m, <2>0, <3>1, <3>3, <3>4, <3>5 DEF TypeOK, Counting
  <2>. QED  BY <2>1, <2>2
<1>3. TypeOK'
  BY <1>m, <1>1, <1>2 DEF TypeOK, Mains, Counting, counts, boards
<1>. QED  BY <1>1, <1>2, <1>3 DEF BoardInv, Room, Positioned, Checked, Digits, boards, Counting

-----------------------------------------------------------------------------
(* The blinking thread *)

\* The steps that only look, or move the blinker, outside the writing of a digit.
LEMMA InvBlinker ==
  ASSUME BoardInv,
         \/ AtLoop \/ WhichTotal \/ WhichArea \/ WrapIndex \/ AnyDigit
         \/ Index \/ Fetch \/ WriteSegment \/ Advance
  PROVE  BoardInv'
<1>m. blinker \in Blinkers /\ TypeOK /\ Digits \in 0..BUF_SIZE
  BY DEF BoardInv, TypeOK, Blinkers, Digits
<1>u. UNCHANGED <<menu_choice, chosen_area, boards, counts, main, leds>>
  BY DEF AtLoop, WhichTotal, WhichArea, WrapIndex, AnyDigit, Index, Fetch, WriteSegment,
         Advance, BlinkerStep
<1>s. /\ blinker.timer_index \in 0..BUF_SIZE /\ blinker.segment \in Segments
      /\ blinker.index \in Int /\ blinker.seg_num \in {Junk} \cup 0..9
      /\ blinker.shows \in Boards /\ blinker.touched \in BOOLEAN
  BY <1>m DEF Blinkers
<1>t. ASSUME blinker' \in Blinkers, seg' \in [Segments -> {Junk, Dark} \cup 0..9],
             Positioned', Checked'
      PROVE  BoardInv'
  <2>1. Written' = Written /\ main' = main /\ digit_num' = digit_num
    BY <1>u DEF Written, boards
  <2>2. TypeOK'
    BY <1>m, <1>u, <1>t, <2>1 DEF TypeOK, Blinkers, boards, counts
  <2>. QED  BY <1>t, <2>1, <2>2 DEF BoardInv, Room
<1>q. seg \in [Segments -> {Junk, Dark} \cup 0..9] /\ digit_num' = digit_num
  BY <1>m, <1>u DEF TypeOK, boards
<1>1. CASE AtLoop \/ WhichTotal \/ WhichArea
  <2>1. ASSUME NEW b, NEW pc \in {"loop", "ended", "which", "area", "wrap"}, NEW s \in Boards,
               b = [blinker EXCEPT !.pc = pc, !.shows = s]
        PROVE  b \in Blinkers /\ b.pc \in {"loop", "ended", "which", "area", "wrap"}
    BY <1>m, <2>1 DEF Blinkers
  <2>2. \A pc : [blinker EXCEPT !.pc = pc]
                 = [blinker EXCEPT !.pc = pc, !.shows = blinker.shows]
    BY <1>m DEF Blinkers
  <2>3. /\ blinker' \in Blinkers
        /\ blinker'.pc \in {"loop", "ended", "which", "area", "wrap"}
    <3>1. CASE AtLoop
      BY <1>s, <2>1, <2>2, <3>1 DEF AtLoop, BlinkerStep
    <3>2. CASE WhichTotal
      BY <1>s, <2>1, <2>2, <3>2 DEF WhichTotal, BlinkerStep, Boards
    <3>3. CASE WhichArea
      BY <1>s, <2>1, <2>2, <3>3 DEF WhichArea, BlinkerStep, Boards
    <3>. QED  BY <1>1, <3>1, <3>2, <3>3
  <2>4. seg' = seg
    BY <1>1 DEF AtLoop, WhichTotal, WhichArea
  <2>. QED  BY <1>t, <1>q, <2>3, <2>4 DEF Positioned, Checked, Showing
<1>2. CASE WrapIndex
  <2>. DEFINE t == IF blinker.timer_index >= Digits THEN 0 ELSE blinker.timer_index
  <2>1. /\ blinker' = [blinker EXCEPT !.pc = "some", !.touched = FALSE, !.timer_index = t]
        /\ seg' = seg
    BY <1>2 DEF WrapIndex, BlinkerStep
  <2>2. t \in 0..BUF_SIZE /\ t < BUF_SIZE /\ (t < Digits \/ t = 0)
    BY <1>m, <1>s, Sizes
  <2>. HIDE DEF t
  <2>3. /\ blinker' \in Blinkers /\ blinker'.pc = "some" /\ blinker'.timer_index = t
        /\ blinker'.shows = blinker.shows
    BY <1>m, <2>1, <2>2 DEF Blinkers
  <2>4. Digits' = Digits
    BY <1>q, <2>3 DEF Digits
  <2>. QED  BY <1>t, <1>q, <2>1, <2>2, <2>3, <2>4 DEF Positioned, Checked, Showing
<1>3. CASE AnyDigit
  <2>1. /\ blinker.pc = "some" /\ seg' = seg
        /\ blinker' = [blinker EXCEPT !.pc = IF Digits > 0 THEN "index" ELSE "loop"]
    BY <1>3 DEF AnyDigit, BlinkerStep
  <2>2. /\ blinker' \in Blinkers /\ blinker'.pc = IF Digits > 0 THEN "index" ELSE "loop"
        /\ blinker'.timer_index = blinker.timer_index /\ blinker'.shows = blinker.shows
        /\ blinker'.touched = blinker.touched
    BY <1>m, <2>1 DEF Blinkers
  <2>3. Digits' = Digits
    BY <1>q, <2>2 DEF Digits
  <2>. QED  BY <1>m, <1>t, <1>q, <2>1, <2>2, <2>3 DEF BoardInv, Positioned, Checked, Showing
<1>4. CASE Index
  <2>. DEFINE i == Digits - blinker.timer_index - 1
  <2>1. /\ blinker.pc = "index" /\ seg' = seg
        /\ blinker' = [blinker EXCEPT !.pc = "fetch", !.index = i]
    BY <1>4 DEF Index, BlinkerStep
  <2>2. i \in Int /\ (blinker.timer_index < Digits => i \in 0..(Digits - 1))
    BY <1>m, <1>s, Sizes
  <2>. HIDE DEF i
  <2>3. /\ blinker' \in Blinkers /\ blinker'.pc = "fetch" /\ blinker'.index = i
        /\ blinker'.timer_index = blinker.timer_index /\ blinker'.shows = blinker.shows
        /\ blinker'.touched = blinker.touched
    BY <1>m, <2>1, <2>2 DEF Blinkers
  <2>4. Digits' = Digits
    BY <1>q, <2>3 DEF Digits
  <2>. QED  BY <1>t, <1>q, <2>1, <2>2, <2>3, <2>4 DEF BoardInv, Positioned, Checked, Showing
<1>5. CASE Fetch
  <2>0. blinker.pc = "fetch" /\ seg' = seg
    BY <1>5 DEF Fetch, BlinkerStep
  <2>1. CASE blinker.index \in Places
    <3>. DEFINE d == buffer[blinker.shows][blinker.index]
    <3>1. blinker' = [blinker EXCEPT !.pc = "write", !.index = 0, !.seg_num = d]
      BY <1>5, <2>1 DEF Fetch, BlinkerStep
    <3>2. d \in 0..9 /\ d /= Junk
      <4>1. buffer[blinker.shows] \in [Places -> 0..9]
        BY <1>m, <1>s DEF TypeOK
      <4>2. d \in 0..9
        BY <2>1, <4>1
      <4>. QED  BY <4>2 DEF Junk
    <3>5. d \in {Junk} \cup 0..9
      BY <3>2
    <3>. HIDE DEF d
    <3>3. /\ blinker' \in Blinkers /\ blinker'.pc = "write" /\ blinker'.seg_num = d
          /\ blinker'.timer_index = blinker.timer_index /\ blinker'.shows = blinker.shows
          /\ blinker'.touched = blinker.touched
      <4>1. PICK i \in Int : i = 0
        OBVIOUS
      <4>2. blinker' = [blinker EXCEPT !.pc = "write", !.index = i, !.seg_num = d]
        BY <3>1, <4>1
      <4>. QED  BY <1>m, <3>5, <4>2 DEF Blinkers
    <3>4. Digits' = Digits
      BY <1>q, <3>3 DEF Digits
    <3>. QED  BY <1>t, <1>q, <2>0, <3>2, <3>3, <3>4 DEF BoardInv, Positioned, Checked, Showing
  <2>2. CASE blinker.index \notin Places
    <3>1. blinker.touched
      <4>1. blinker.index \notin 0..(Digits - 1)
        BY <1>m, <1>s, <2>2, Sizes DEF Places
      <4>. QED  BY <2>0, <4>1 DEF BoardInv, Checked
    <3>2. \/ blinker' = [blinker EXCEPT !.pc = "faulted"]
          \/ blinker' = [blinker EXCEPT !.pc = "write", !.index = 0, !.seg_num = Junk]
      BY <1>5, <2>2 DEF Fetch, BlinkerStep
    <3>3. /\ blinker' \in Blinkers /\ blinker'.pc \in {"write", "faulted"}
          /\ blinker'.timer_index = blinker.timer_index /\ blinker'.touched
      <4>1. CASE blinker' = [blinker EXCEPT !.pc = "faulted"]
        BY <1>m, <3>1, <4>1 DEF Blinkers
      <4>2. CASE blinker' = [blinker EXCEPT !.pc = "write", !.index = 0, !.seg_num = Junk]
        <5>1. Junk \in {Junk} \cup 0..9
          OBVIOUS
        <5>2. PICK i \in Int : i = 0
          OBVIOUS
        <5>3. blinker' = [blinker EXCEPT !.pc = "write", !.index = i, !.seg_num = Junk]
          BY <4>2, <5>2
        <5>4. /\ blinker' \in Blinkers /\ blinker'.pc = "write"
              /\ blinker'.timer_index = blinker.timer_index
              /\ blinker'.touched = blinker.touched
          BY <1>m, <5>1, <5>3 DEF Blinkers
        <5>. QED  BY <3>1, <5>4
      <4>. QED  BY <3>2, <4>1, <4>2
    <3>. QED  BY <1>t, <1>q, <2>0, <3>3 DEF BoardInv, Positioned, Checked, Showing
  <2>. QED  BY <2>1, <2>2
<1>6. CASE WriteSegment
  <2>1. /\ blinker.pc = "write" /\ seg' = [seg EXCEPT ![blinker.segment] = blinker.seg_num]
        /\ blinker' = [blinker EXCEPT
             !.pc = IF blinker.segment = SEG_NUM THEN "advance" ELSE blinker.pc,
             !.segment = (blinker.segment % SEG_NUM) + 1]
    BY <1>6 DEF WriteSegment, BlinkerStep
  <2>2. (blinker.segment % SEG_NUM) + 1 \in Segments
    <3>1. blinker.segment \in Int /\ SEG_NUM \in Int /\ SEG_NUM > 0
      BY <1>s, Sizes DEF Segments
    <3>. QED  BY <3>1 DEF Segments
  <2>3. /\ blinker' \in Blinkers /\ blinker'.pc \in {"write", "advance"}
        /\ blinker'.timer_index = blinker.timer_index /\ blinker'.shows = blinker.shows
        /\ blinker'.touched = blinker.touched /\ blinker'.seg_num = blinker.seg_num
    BY <1>m, <2>1, <2>2 DEF Blinkers
  <2>4. Digits' = Digits
    BY <1>q, <2>3 DEF Digits
  <2>5. seg' \in [Segments -> {Junk, Dark} \cup 0..9]
    BY <1>q, <1>s, <2>1
  <2>. QED  BY <1>t, <2>1, <2>3, <2>4, <2>5 DEF BoardInv, Positioned, Checked, Showing
<1>7. CASE Advance
  <2>0. blinker.pc = "advance" /\ seg' = seg
    BY <1>7 DEF Advance, BlinkerStep
  <2>1. CASE Digits > 0
    <3>. DEFINE t == (blinker.timer_index + 1) % Digits
    <3>1. blinker' = [blinker EXCEPT !.pc = "loop", !.timer_index = t]
      BY <1>7, <2>1 DEF Advance, BlinkerStep
    <3>2. t \in 0..BUF_SIZE
      <4>1. blinker.timer_index \in Int /\ Digits \in Int
        BY <1>m, <1>s, Sizes
      <4>2. t \in 0..(Digits - 1)
        BY <2>1, <4>1
      <4>. QED  BY <1>m, <4>2, Sizes
    <3>. HIDE DEF t
    <3>3. blinker' \in Blinkers /\ blinker'.pc = "loop"
      BY <1>m, <3>1, <3>2 DEF Blinkers
    <3>. QED  BY <1>t, <1>q, <2>0, <3>3 DEF Positioned, Checked, Showing
  <2>2. CASE ~(Digits > 0)
    <3>1. blinker.touched
      BY <1>m, <1>s, <2>0, <2>2, Sizes DEF BoardInv, Checked
    <3>2. \/ blinker' = [blinker EXCEPT !.pc = "faulted"]
          \/ blinker' = [blinker EXCEPT !.pc = "loop", !.timer_index = blinker.timer_index + 1]
      BY <1>7, <2>2 DEF Advance, BlinkerStep
    <3>3. blinker.timer_index + 1 \in 0..BUF_SIZE
      BY <1>s, <2>0, Sizes DEF BoardInv, Positioned, Showing
    <3>4. blinker' \in Blinkers /\ blinker'.pc \in {"loop", "faulted"} /\ blinker'.touched
      BY <1>m, <3>1, <3>2, <3>3 DEF Blinkers
    <3>. QED  BY <1>t, <1>q, <2>0, <3>4 DEF Positioned, Checked, Showing
  <2>. QED  BY <2>1, <2>2
<1>. QED  BY <1>1, <1>2, <1>3, <1>4, <1>5, <1>6, <1>7

-----------------------------------------------------------------------------

LEMMA InvNext == BoardInv /\ [Next]_vars => BoardInv'
<1> SUFFICES ASSUME BoardInv, [Next]_vars PROVE BoardInv'
  OBVIOUS
<1>1. CASE MainThread
  BY <1>1, InvMenu, InvReport, InvReset, InvCount, InvStore, InvDark DEF MainThread
<1>2. CASE Blinker
  BY <1>2, InvBlinker DEF Blinker
<1>3. CASE UNCHANGED vars
  BY <1>3 DEF vars, BoardInv, TypeOK, Room, Positioned, Checked, Written, Digits
<1>. QED  BY <1>1, <1>2, <1>3 DEF Next

LEMMA InvHolds == Spec => []BoardInv
BY BoardInit, InvNext, PTL DEF Spec

\* Whatever is reported and looked at, with the two threads in any order, every
\* count keeps to an unsigned int, and a number's digits to its ten places:
\* update_*_case_buffer never writes behind its buffer (hw1.c 325-345).
THEOREM CaseBoardTypes == Spec => []TypeOK
BY InvHolds, PTL DEF BoardInv

\* The position set_seg_blink has checked stays inside the number unless the main
\* thread begins to rewrite it before the thread is done with it (240-256).
THEOREM StraysOnlyWhenTouchedHolds == Spec => []StraysOnlyWhenTouched
<1>1. BoardInv => StraysOnlyWhenTouched
  BY DEF BoardInv, Checked, StraysOnlyWhenTouched
<1>. QED  BY <1>1, InvHolds, PTL

-----------------------------------------------------------------------------
(* What the LEDs and the boards tell. *)

\* The number that update_*_case_buffer is called with.
Counted == IF chosen_area = -1 THEN total_case ELSE Cases(chosen_area)

Digit(b) == [p \in Places |-> buffer[b][p] * Power[p]]
Stored(b, n) == SumFunctionOnSet(Digit(b), 0..(n - 1))

\* An area's two counts come to region_cases by another way.
Tally == \A a \in Areas : region_cases[a] = Cases(a)

\* The total is what all areas got since the last listing.
Total == total_case = (AllCases - listed) % Word

\* Whose number is being rewritten or looked at.
Choice ==
  /\ main.pc \in {"menu", "listed", "reported", "exit", "darken", "ended"} => chosen_area = -1
  /\ main.pc = "viewing" => chosen_area /= -1
  /\ chosen_area \in {-1, main.area}

\* What is stored and what is left make the number.
Rewriting ==
  /\ main.pc = "reset" => main.number = Counted
  /\ main.pc = "digits" =>
       Stored(Written, digit_num[Written]) + main.rest * Power[digit_num[Written]] = Counted
  /\ main.pc = "store" =>
       Stored(Written, digit_num[Written] - 1) + main.rest * Power[digit_num[Written] - 1] = Counted
  /\ main.pc \in {"viewing", "reported"} => Stored(Written, digit_num[Written]) = Counted

Lighting ==
  /\ main.pc = "menu" => \A a \in Areas : Cases(a) > 0 => leds[a] = 1
  /\ main.pc = "reported" => \A a \in Areas : Cases(a) > 0 => leds[a] = 1
  /\ main.pc = "listed" => leds = Lit
  /\ main.pc = "viewing" => leds = [a \in Areas |-> IF a = chosen_area THEN 1 ELSE 0]
  /\ main.pc \in {"reset"} \cup Counting =>
       IF chosen_area = -1 THEN \A a \in Areas \ {main.area} : Cases(a) > 0 => leds[a] = 1
       ELSE leds = [a \in Areas |-> 0]
  /\ main.pc \in {"darken", "ended"} => \A a \in Areas : leds[a] = 0

TellInv == Tally /\ Total /\ Choice /\ Rewriting /\ Lighting

LEMMA ModDef ==
  ASSUME NEW x \in Int
  PROVE  x = Word * (x \div Word) + (x % Word) /\ x \div Word \in Int /\ x % Word \in 0..(Word - 1)
BY Sizes, QuotientRemainder

LEMMA ModUnique ==
  ASSUME NEW q \in Int, NEW r \in 0..(Word - 1)
  PROVE  (Word * q + r) % Word = r
BY Sizes, RemainderUnique

\* A sum may wrap early or late.
LEMMA ModSum ==
  ASSUME NEW x \in Int, NEW y \in Int
  PROVE  ((x % Word) + y) % Word = (x + y) % Word
<1>. DEFINE a == x \div Word
            r == x % Word
            b == (r + y) \div Word
            s == (r + y) % Word
<1>1. x = Word * a + r /\ a \in Int /\ r \in 0..(Word - 1)
  BY ModDef
<1>. HIDE DEF a, r
<1>2. r + y = Word * b + s /\ b \in Int /\ s \in 0..(Word - 1)
  <2>1. r + y \in Int
    BY <1>1, Sizes
  <2>. QED  BY <2>1, ModDef
<1>. HIDE DEF b, s
<1>3. x + y = Word * (a + b) + s /\ a + b \in Int
  BY <1>1, <1>2, Sizes
<1>4. (x + y) % Word = s
  BY <1>2, <1>3, ModUnique
<1>. QED  BY <1>4 DEF s, r

LEMMA DigitTypes ==
  ASSUME TypeOK, NEW b \in Boards, NEW n \in 0..BUF_SIZE
  PROVE  /\ \A p \in 0..(n - 1) : p \in Places /\ Digit(b)[p] \in Nat
         /\ IsFiniteSet(0..(n - 1)) /\ Stored(b, n) \in Nat
<1>1. n \in Int /\ BUF_SIZE \in Int
  BY Sizes
<1>2. IsFiniteSet(0..(n - 1))
  BY <1>1, FS_Interval
<1>3. ASSUME NEW p \in 0..(n - 1) PROVE p \in Places /\ Digit(b)[p] \in Nat
  <2>1. p \in Places /\ p \in 0..BUF_SIZE
    BY <1>1, Sizes DEF Places
  <2>2. buffer[b][p] \in Nat /\ Power[p] \in Nat
    BY <2>1, PowerTypes DEF TypeOK
  <2>3. Digit(b)[p] = buffer[b][p] * Power[p]
    BY <2>1 DEF Digit
  <2>. QED  BY <2>1, <2>2, <2>3
<1>4. Stored(b, n) \in Nat
  BY <1>2, <1>3, SumNat DEF Stored
<1>. QED  BY <1>2, <1>3, <1>4

\* Value is the sum over the places that count.
LEMMA ValueIsStored ==
  ASSUME TypeOK, NEW b \in Boards
  PROVE  Value(b) = Stored(b, digit_num[b])
<1>. DEFINE S == 0..(digit_num[b] - 1)
            f == [p \in S |-> buffer[b][p] * Power[p]]
<1>1. digit_num[b] \in 0..BUF_SIZE
  BY DEF TypeOK
<1>2. IsFiniteSet(S) /\ \A p \in S : p \in Places
  BY <1>1, DigitTypes
<1>3. \A p \in S : f[p] = Digit(b)[p]
  BY <1>2 DEF Digit
<1>4. SumFunctionOnSet(f, S) = SumFunctionOnSet(Digit(b), S)
  <2>. HIDE DEF S, f
  <2>. QED  BY <1>2, <1>3, SumSame
<1>. QED  BY <1>4 DEF Value, SumFunction, Stored

\* A number is rewritten from nothing ...
LEMMA StoredNothing == ASSUME NEW b PROVE Stored(b, 0) = 0
<1>1. 0..(0 - 1) = {}
  OBVIOUS
<1>. QED  BY <1>1, SumEmpty DEF Stored

\* ... one place further each time, which leaves the places before it.
LEMMA StoredNext ==
  ASSUME TypeOK, TypeOK', NEW b \in Boards, NEW n \in 0..(BUF_SIZE - 1),
         \A p \in Places : p /= n => buffer'[b][p] = buffer[b][p]
  PROVE  Stored(b, n + 1)' = Stored(b, n) + buffer'[b][n] * Power[n]
<1>. DEFINE S == 0..(n - 1)
<1>1. n \in Int /\ BUF_SIZE \in Int /\ n \in 0..BUF_SIZE /\ n + 1 \in 0..BUF_SIZE /\ n \in Places
  BY Sizes DEF Places
<1>2. 0..((n + 1) - 1) = S \cup {n} /\ n \notin S
  BY <1>1
<1>3. IsFiniteSet(S) /\ \A p \in S : p \in Places /\ Digit(b)[p] \in Nat
  BY <1>1, DigitTypes
<1>4. \A p \in 0..((n + 1) - 1) : Digit(b)'[p] \in Nat
  <2>1. ASSUME NEW p \in 0..((n + 1) - 1) PROVE Digit(b)'[p] \in Nat
    <3>1. p \in Places /\ p \in 0..BUF_SIZE
      BY <1>1 DEF Places
    <3>2. buffer' \in [Boards -> [Places -> 0..9]] /\ Power[p] \in Nat
      BY <3>1, PowerTypes DEF TypeOK
    <3>3. buffer'[b][p] \in Nat
      BY <3>1, <3>2
    <3>. QED  BY <3>1, <3>2, <3>3 DEF Digit
  <2>. QED  BY <2>1
<1>5. Stored(b, n + 1)' = Digit(b)'[n] + SumFunctionOnSet(Digit(b)', S)
  <2>1. \A p \in S \cup {n} : Digit(b)'[p] \in Int
    BY <1>2, <1>4
  <2>. HIDE DEF S
  <2>. QED  BY <1>2, <1>3, <2>1, SumAdd DEF Stored
<1>6. SumFunctionOnSet(Digit(b)', S) = SumFunctionOnSet(Digit(b), S)
  <2>1. \A p \in S : Digit(b)'[p] = Digit(b)[p]
    BY <1>2, <1>3 DEF Digit
  <2>. HIDE DEF S
  <2>. QED  BY <1>3, <2>1, SumSame
<1>7. Digit(b)'[n] = buffer'[b][n] * Power[n] /\ buffer'[b][n] * Power[n] \in Nat
  BY <1>1, <1>2, <1>4 DEF Digit
<1>8. Stored(b, n) = SumFunctionOnSet(Digit(b), S) /\ Stored(b, n) \in Nat
  BY <1>1, DigitTypes DEF Stored
<1>. QED
  <2>. HIDE DEF S
  <2>. QED  BY <1>5, <1>6, <1>7, <1>8

LEMMA TellInit == Init => TellInv
<1> SUFFICES ASSUME Init PROVE TellInv
  OBVIOUS
<1>1. \A a \in Areas : Cases(a) = 0
  <2>1. 0 % Word = 0
    BY Sizes
  <2>2. \A a \in Areas : Cases(a) = (0 + 0) % Word
    BY DEF Init, Cases, Degrees
  <2>. QED  BY <2>1, <2>2
<1>2. Total
  <2>1. AllCases = 0
    <3>1. \A a \in Areas : CasesOf[a] = 0
      BY <1>1 DEF CasesOf
    <3>2. AllCases = SumFunctionOnSet(CasesOf, Areas)
      BY DEF AllCases, SumFunction, CasesOf
    <3>. QED  BY <3>1, <3>2, FiniteAreas, SumZero
  <2>2. (0 - 0) % Word = 0
    BY Sizes
  <2>. QED  BY <2>1, <2>2 DEF Init, Total
<1>. QED  BY <1>1, <1>2 DEF Init, TellInv, Tally, Choice, Rewriting, Lighting, Counting

\* A step that neither counts nor rewrites.
LEMMA SameCounts ==
  ASSUME TellInv, UNCHANGED <<boards, case, region_cases>>
  PROVE  /\ Tally' /\ Lit' = Lit /\ (\A a \in Areas : Cases(a)' = Cases(a)) /\ AllCases' = AllCases
         /\ \A b, n : Stored(b, n)' = Stored(b, n)
<1>1. \A a \in Areas : Cases(a)' = Cases(a)
  BY DEF Cases
<1>2. AllCases' = AllCases
  BY DEF AllCases, Cases
<1>. QED  BY <1>1, <1>2 DEF TellInv, Tally, Lit, boards, Stored, Digit

\* Nor has it listed or reported anything.
LEMMA SameTotal ==
  ASSUME TellInv, UNCHANGED <<case, total_case, listed>>
  PROVE  Total'
BY DEF TellInv, Total, AllCases, Cases

LEMMA NoArea == -1 \notin Areas
BY Sizes DEF Areas

LEMMA TellMenu ==
  ASSUME BoardInv, TellInv, UNCHANGED <<boards, case, region_cases>>,
         \/ ConfirmedCase \/ ListAgain \/ LeaveListing \/ LeaveArea
         \/ LeaveReporting \/ Exit \/ LedsOff \/ SegmentOff
  PROVE  TellInv'
<1>m. main \in Mains /\ leds \in [Areas -> 0..1] /\ TypeOK
  BY DEF BoardInv, TypeOK, Mains
<1>t. /\ Tally' /\ Lit' = Lit /\ (\A a \in Areas : Cases(a)' = Cases(a)) /\ AllCases' = AllCases
      /\ \A b, n : Stored(b, n)' = Stored(b, n)
  BY SameCounts
<1>1. CASE ConfirmedCase \/ ListAgain \/ LeaveArea
  <2>1. /\ leds' = Lit /\ main' = [main EXCEPT !.pc = "listed"]
        /\ chosen_area' = -1
    BY <1>1 DEF ConfirmedCase, ListAgain, LeaveArea, List, TellInv, Choice, Runs
  <2>2. main'.pc = "listed" /\ main'.area = main.area
    BY <1>m, <2>1 DEF Mains
  <2>3. Total'
    <3>1. total_case' = 0 /\ listed' = AllCases
      BY <1>1 DEF ConfirmedCase, ListAgain, LeaveArea, List
    <3>2. AllCases \in Nat
      BY <1>m, AllTypes DEF AllIsSum
    <3>3. (AllCases - AllCases) % Word = 0
      BY <3>2, Sizes
    <3>. QED  BY <1>t, <3>1, <3>3 DEF Total
  <2>. QED  BY <1>t, <2>1, <2>2, <2>3 DEF TellInv, Choice, Rewriting, Lighting, Counting
<1>2. CASE LeaveListing \/ LeaveReporting \/ Exit
  <2>1. PICK place \in {"menu", "exit"} : main' = [main EXCEPT !.pc = place]
    BY <1>2 DEF LeaveListing, LeaveReporting, Exit
  <2>2. main'.pc = place /\ main'.area = main.area
    BY <1>m, <2>1 DEF Mains
  <2>3. /\ chosen_area' = -1 /\ leds' = leds
        /\ main.pc \in {"menu", "reported"} \/ leds = Lit
        /\ main.pc \in {"menu", "listed", "reported"}
    BY <1>2 DEF LeaveListing, LeaveReporting, Exit, Runs, TellInv, Choice, Lighting, pins
  <2>4. \A a \in Areas : Cases(a) > 0 => leds[a] = 1
    BY <2>3 DEF TellInv, Lighting, Lit
  <2>5. Total'
    BY <1>2, SameTotal DEF LeaveListing, LeaveReporting, Exit, counts
  <2>. QED  BY <1>t, <2>1, <2>2, <2>3, <2>4, <2>5 DEF TellInv, Choice, Rewriting, Lighting, Counting
<1>3. CASE LedsOff \/ SegmentOff
  <2>1. /\ main'.pc \in {"darken", "ended"} /\ main'.area = main.area /\ chosen_area' = chosen_area
        /\ main.pc \in {"exit", "darken"}
    BY <1>3, <1>m DEF LedsOff, SegmentOff, Runs, Mains
  <2>2. \A a \in Areas : leds'[a] = 0
    BY <1>3 DEF LedsOff, SegmentOff, Runs, TellInv, Lighting
  <2>3. Total'
    BY <1>3, SameTotal DEF LedsOff, SegmentOff, counts
  <2>. QED  BY <1>t, <2>1, <2>2, <2>3 DEF TellInv, Choice, Rewriting, Lighting, Counting
<1>. QED  BY <1>1, <1>2, <1>3

LEMMA TellView == ASSUME BoardInv, TellInv, NEW a \in Areas, ViewArea(a) PROVE TellInv'
<1>m. main \in Mains /\ leds \in [Areas -> 0..1]
  BY DEF BoardInv, TypeOK, Mains
<1>t. /\ Tally' /\ Lit' = Lit /\ (\A b \in Areas : Cases(b)' = Cases(b))
      /\ \A b, n : Stored(b, n)' = Stored(b, n)
  BY SameCounts DEF ViewArea, counts
<1>1. /\ main' = [main EXCEPT !.pc = "reset", !.area = a, !.number = region_cases[a]]
      /\ leds' = [b \in Areas |-> 0] /\ chosen_area' = a
  BY DEF ViewArea
<1>2. main'.pc = "reset" /\ main'.area = a /\ main'.number = region_cases[a]
  BY <1>m, <1>1 DEF Mains
<1>3. region_cases[a] = Counted'
  BY <1>1, <1>t, NoArea DEF Counted, TellInv, Tally
<1>4. Total'
  BY SameTotal DEF ViewArea, counts
<1>. QED  BY <1>t, <1>1, <1>2, <1>3, <1>4, NoArea DEF TellInv, Choice, Rewriting, Lighting, Counting

\* The two ways to count the cases of an area stay the same, and the total moves with
\* the areas.
LEMMA TellReport == ASSUME BoardInv, TellInv, ReportingSystem PROVE TellInv'
<1>1. PICK a \in Areas, d \in Degrees, n \in Int : EnterReport(a, d, n)
  BY BoardAssumption DEF ReportingSystem, Degrees, Areas
<1>m. /\ main \in Mains /\ leds \in [Areas -> 0..1] /\ case \in [Degrees -> [Areas -> 0..(Word - 1)]]
      /\ region_cases \in [Areas -> 0..(Word - 1)] /\ Word \in Int /\ TypeOK
  BY Sizes DEF BoardInv, TypeOK, Mains
<1>i. TypeOK'
  BY InvReport DEF BoardInv
<1>2. /\ total_case' = (total_case + n) % Word /\ listed' = listed
      /\ case' = [case EXCEPT ![d][a] = (case[d][a] + n) % Word]
      /\ region_cases' = [region_cases EXCEPT ![a] = (region_cases[a] + n) % Word]
      /\ main' = [main EXCEPT !.pc = "reset", !.area = a, !.number = total_case']
      /\ UNCHANGED <<chosen_area, boards, leds>>
      /\ main.pc \in {"menu", "reported"}
  BY <1>1 DEF EnterReport, ReportingSystem, Runs, pins
<1>3. main'.pc = "reset" /\ main'.area = a /\ main'.number = total_case'
  BY <1>m, <1>2 DEF Mains
<1>4. chosen_area' = -1
  BY <1>2 DEF TellInv, Choice
<1>5. \A b \in Areas : b /= a => Cases(b)' = Cases(b) /\ region_cases'[b] = region_cases[b]
  BY <1>m, <1>2 DEF Cases, Degrees
<1>6. Cases(a)' = region_cases'[a]
  <2>1. PICK m \in Int, s \in Int : m = case["mild"][a] /\ s = case["severe"][a]
    BY <1>m DEF Degrees
  <2>2. region_cases[a] = (m + s) % Word
    BY <2>1 DEF TellInv, Tally, Cases
  <2>3. region_cases'[a] = (((m + s) % Word) + n) % Word
    BY <1>m, <1>2, <2>2
  <2>4. region_cases'[a] = (m + s + n) % Word
    <3>1. m + s \in Int
      OBVIOUS
    <3>2. (((m + s) % Word) + n) % Word = ((m + s) + n) % Word
      BY <3>1, ModSum
    <3>. QED  BY <2>3, <3>2
  <2>5. CASE d = "mild"
    <3>1. Cases(a)' = (((m + n) % Word) + s) % Word
      BY <1>m, <1>2, <2>1, <2>5 DEF Cases, Degrees
    <3>2. m + n \in Int /\ (m + n) + s = m + s + n
      OBVIOUS
    <3>3. (((m + n) % Word) + s) % Word = ((m + n) + s) % Word
      BY <3>2, ModSum
    <3>. QED  BY <2>4, <3>1, <3>2, <3>3
  <2>6. CASE d = "severe"
    <3>1. Cases(a)' = (m + ((s + n) % Word)) % Word
      BY <1>m, <1>2, <2>1, <2>6 DEF Cases, Degrees
    <3>2. s + n \in Int /\ (s + n) + m = m + s + n /\ (s + n) % Word \in Int
      BY <1>m, WordTypes
    <3>3. (((s + n) % Word) + m) % Word = ((s + n) + m) % Word
      BY <3>2, ModSum
    <3>4. m + ((s + n) % Word) = ((s + n) % Word) + m
      BY <3>2
    <3>. QED  BY <2>4, <3>1, <3>2, <3>3, <3>4
  <2>. QED  BY <2>5, <2>6 DEF Degrees
<1>7. Tally'
  BY <1>5, <1>6 DEF TellInv, Tally
<1>8. \A b \in Areas \ {a} : Cases(b)' > 0 => leds'[b] = 1
  BY <1>2, <1>5 DEF TellInv, Lighting
<1>9. main'.number = Counted'
  BY <1>3, <1>4 DEF Counted
<1>10. Total'
  <2>1. PICK all \in Int, c \in Int, l \in Int : all = AllCases /\ c = Cases(a) /\ l = listed
    BY <1>m, AllTypes DEF TypeOK, AllIsSum
  <2>2. Cases(a)' = (c + n) % Word
    BY <1>m, <1>2, <1>6, <2>1 DEF TellInv, Tally
  <2>3. AllCases' = all - c + ((c + n) % Word)
    <3>1. /\ AllCases = SumFunctionOnSet(CasesOf, Areas)
          /\ \A b \in Areas : CasesOf[b] = Cases(b) /\ Cases(b) \in Nat
      BY <1>m, AllTypes DEF AllIsSum
    <3>2. /\ AllCases' = SumFunctionOnSet(CasesOf', Areas)
          /\ \A b \in Areas : CasesOf'[b] = Cases(b)' /\ Cases(b)' \in Nat
      <4>1. AllIsSum'
        BY <1>i, AllTypes, PTL
      <4>. QED  BY <4>1 DEF AllIsSum
    <3>3. /\ \A b \in Areas : CasesOf[b] \in Int /\ CasesOf'[b] \in Int
          /\ \A b \in Areas : b /= a => CasesOf[b] = CasesOf'[b]
      BY <1>5, <3>1, <3>2
    <3>4. SumFunctionOnSet(CasesOf', Areas) = SumFunctionOnSet(CasesOf, Areas) - CasesOf[a] + CasesOf'[a]
      BY <3>3, FiniteAreas, SumChanged
    <3>. QED  BY <2>1, <2>2, <3>1, <3>2, <3>4
  <2>4. total_case' = ((all - l) + n) % Word
    <3>1. total_case' = (((all - l) % Word) + n) % Word
      BY <1>2, <2>1 DEF TellInv, Total
    <3>2. all - l \in Int
      OBVIOUS
    <3>. QED  BY <3>1, <3>2, ModSum
  <2>5. (AllCases' - l) % Word = ((all - l) + n) % Word
    <3>1. c + n \in Int /\ all - c - l \in Int /\ (c + n) % Word \in Int
      BY <1>m, WordTypes
    <3>2. (((c + n) % Word) + (all - c - l)) % Word = ((c + n) + (all - c - l)) % Word
      BY <3>1, ModSum
    <3>3. /\ (c + n) + (all - c - l) = (all - l) + n
          /\ AllCases' - l = ((c + n) % Word) + (all - c - l)
      BY <2>3, <3>1
    <3>. QED  BY <3>2, <3>3
  <2>. QED  BY <1>2, <2>1, <2>4, <2>5 DEF Total
<1>. QED  BY <1>3, <1>4, <1>7, <1>8, <1>9, <1>10 DEF TellInv, Choice, Rewriting, Lighting, Counting

\* The rewriting itself touches neither the LEDs nor what they tell.
LEMMA TellCounting ==
  ASSUME BoardInv, TellInv, UNCHANGED <<chosen_area, counts, leds>>,
         main.pc \in {"reset"} \cup Counting, main'.pc \in {"reset"} \cup Counting,
         main'.area = main.area, Rewriting'
  PROVE  TellInv'
<1>1. Tally' /\ \A a \in Areas : Cases(a)' = Cases(a)
  BY DEF TellInv, Tally, Cases, counts
<1>2. Choice'
  BY DEF TellInv, Choice, Counting
<1>3. Lighting'
  BY <1>1 DEF TellInv, Lighting, Counting
<1>4. Total'
  BY SameTotal DEF counts
<1>. QED  BY <1>1, <1>2, <1>3, <1>4 DEF TellInv

LEMMA TellReset == ASSUME BoardInv, BoardInv', TellInv, ResetDigits PROVE TellInv'
<1>m. main \in Mains /\ Written \in Boards /\ digit_num \in [Boards -> 0..BUF_SIZE]
  BY WrittenTypes DEF BoardInv, TypeOK, Mains
<1>1. /\ main.pc = "reset" /\ digit_num' = [digit_num EXCEPT ![Written] = 0]
      /\ main' = [main EXCEPT !.pc = "digits", !.rest = main.number, !.number = 0]
      /\ UNCHANGED <<menu_choice, chosen_area, buffer, counts, pins>>
  BY DEF ResetDigits, Runs
<1>2. main'.pc = "digits" /\ main'.rest = main.number /\ main'.area = main.area
  BY <1>m, <1>1 DEF Mains
<1>3. Written' = Written /\ digit_num'[Written] = 0 /\ Counted' = Counted
  BY <1>m, <1>1 DEF Written, Counted, Cases, counts
<1>4. Stored(Written, 0)' = 0
  <2>1. \A b : Stored(b, 0)' = Stored(b, 0)
    BY <1>1 DEF Stored, Digit
  <2>. QED  BY <1>3, <2>1, StoredNothing
<1>5. Power[0] = 1 /\ main'.rest = Counted /\ main'.rest \in Nat
  BY <1>1, <1>2, <1>m, Sizes, PowerAssumption DEF TellInv, Rewriting, Mains
<1>6. Rewriting'
  <2>1. Stored(Written, digit_num[Written])' + main'.rest * Power[digit_num'[Written']] = Counted'
    BY <1>3, <1>4, <1>5
  <2>. QED  BY <1>2, <2>1 DEF Rewriting
<1>. QED  BY <1>1, <1>2, <1>6, TellCounting DEF Counting, pins

LEMMA TellCount == ASSUME BoardInv, BoardInv', TellInv, CountDigit PROVE TellInv'
<1>m. main \in Mains /\ Written \in Boards /\ digit_num \in [Boards -> 0..BUF_SIZE]
  BY WrittenTypes DEF BoardInv, TypeOK, Mains
<1>1. /\ main.pc = "digits" /\ digit_num' = [digit_num EXCEPT ![Written] = digit_num[Written] + 1]
      /\ main' = [main EXCEPT !.pc = "store"]
      /\ UNCHANGED <<menu_choice, chosen_area, buffer, counts, blinker, pins>>
  BY DEF CountDigit, Runs
<1>2. main'.pc = "store" /\ main'.rest = main.rest /\ main'.area = main.area
  BY <1>m, <1>1 DEF Mains
<1>3. Written' = Written /\ digit_num'[Written] - 1 = digit_num[Written] /\ Counted' = Counted
  BY <1>m, <1>1 DEF Written, Counted, Cases, counts
<1>4. \A b, n : Stored(b, n)' = Stored(b, n)
  BY <1>1 DEF Stored, Digit
<1>5. Stored(Written, digit_num[Written] - 1)' = Stored(Written, digit_num[Written])
  BY <1>3, <1>4
<1>6. Rewriting'
  BY <1>1, <1>2, <1>3, <1>5 DEF TellInv, Rewriting
<1>. QED  BY <1>1, <1>2, <1>6, TellCounting DEF Counting, pins

LEMMA TellStore == ASSUME BoardInv, BoardInv', TellInv, StoreDigit PROVE TellInv'
<1>m. main \in Mains /\ Written \in Boards /\ digit_num \in [Boards -> 0..BUF_SIZE]
      /\ buffer \in [Boards -> [Places -> 0..9]] /\ TypeOK /\ TypeOK'
  BY WrittenTypes DEF BoardInv, TypeOK, Mains
<1>. DEFINE n == digit_num[Written] - 1
<1>1. /\ main.pc = "store" /\ buffer' = [buffer EXCEPT ![Written][n] = main.rest % 10]
      /\ main' = [main EXCEPT !.pc = "digits", !.rest = main.rest \div 10]
      /\ UNCHANGED <<menu_choice, chosen_area, digit_num, counts, blinker, pins>>
  BY DEF StoreDigit, Runs
<1>2. main'.pc = "digits" /\ main'.rest = main.rest \div 10 /\ main'.area = main.area
  BY <1>m, <1>1 DEF Mains
<1>3. Written' = Written /\ digit_num' = digit_num /\ Counted' = Counted
  BY <1>1 DEF Written, Counted, Cases, counts
<1>4. n \in 0..(BUF_SIZE - 1) /\ n + 1 = digit_num[Written] /\ n \in Places /\ n + 1 \in 0..BUF_SIZE
      /\ n + 1 > 0 /\ n \in 0..BUF_SIZE
  <2>1. digit_num[Written] \in 0..BUF_SIZE /\ digit_num[Written] > 0
    BY <1>m, <1>1 DEF TypeOK
  <2>. QED  BY <2>1, Sizes DEF Places
<1>5. /\ \A p \in Places : p /= n => buffer'[Written][p] = buffer[Written][p]
      /\ buffer'[Written][n] = main.rest % 10
  BY <1>m, <1>1, <1>4
<1>6. Stored(Written, n + 1)' = Stored(Written, n) + (main.rest % 10) * Power[n]
  <2>1. PICK b \in Boards, k \in 0..(BUF_SIZE - 1) : b = Written /\ k = n
    BY <1>m, <1>4
  <2>2. Stored(b, k + 1)' = Stored(b, k) + buffer'[b][k] * Power[k]
    <3>1. \A p \in Places : p /= k => buffer'[b][p] = buffer[b][p]
      BY <1>5, <2>1
    <3>. QED  BY <1>m, <3>1, StoredNext
  <2>3. Stored(Written, n + 1)' = Stored(b, k + 1)'
    BY <1>3, <2>1
  <2>. QED  BY <2>1, <2>2, <2>3, <1>5
<1>7. Stored(Written, n) + main.rest * Power[n] = Counted
  BY <1>1 DEF TellInv, Rewriting
<1>8. Power[n + 1] = 10 * Power[n] /\ Power[n] \in Nat
  <2>1. Power[n + 1] = 10 * Power[(n + 1) - 1]
    <3>. HIDE DEF n
    <3>. QED  BY <1>4, PowerStep
  <2>2. (n + 1) - 1 = n
    BY <1>4
  <2>. QED  BY <2>1, <2>2, <1>4, PowerTypes
<1>9. Stored(Written, n) \in Nat /\ main.rest \in Nat
  BY <1>m, <1>4, DigitTypes, Sizes DEF Mains
<1>10. Stored(Written, n + 1)' + (main.rest \div 10) * Power[n + 1] = Counted
  <2>. DEFINE q == main.rest \div 10
              r == main.rest % 10
  <2>1. main.rest = 10 * q + r /\ q \in Int /\ r \in Int
    BY <1>9
  <2>2. PICK p \in Nat, s \in Nat : p = Power[n] /\ s = Stored(Written, n)
    BY <1>8, <1>9
  <2>. HIDE DEF q, r, n
  <2>3. (10 * q + r) * p = q * (10 * p) + r * p
    BY <2>1
  <2>. QED  BY <1>6, <1>7, <1>8, <2>1, <2>2, <2>3 DEF q, r
<1>11. Rewriting'
  <2>1. Stored(Written, digit_num[Written])' = Stored(Written, n + 1)'
    BY <1>3, <1>4
  <2>2. Stored(Written, digit_num[Written])' + main'.rest * Power[digit_num'[Written']] = Counted'
    BY <1>2, <1>3, <1>4, <1>10, <2>1
  <2>. QED  BY <1>2, <2>2 DEF Rewriting
<1>. QED  BY <1>1, <1>2, <1>11, TellCounting DEF Counting, pins

\* The number is all there; the LED of its area is lit.
LEMMA TellLight == ASSUME BoardInv, TellInv, Blink \/ Reported PROVE TellInv'
<1>m. main \in Mains /\ leds \in [Areas -> 0..1] /\ Written \in Boards /\ digit_num[Written] \in 0..BUF_SIZE /\ TypeOK
  BY WrittenTypes DEF BoardInv, TypeOK, Mains
<1>0. UNCHANGED <<boards, counts, chosen_area>> /\ main.pc = "digits" /\ main.rest = 0
  BY DEF Blink, Reported, Runs
<1>t. /\ Tally' /\ Lit' = Lit /\ (\A b \in Areas : Cases(b)' = Cases(b))
      /\ \A b, n : Stored(b, n)' = Stored(b, n)
  BY <1>0, SameCounts DEF counts
<1>1. Stored(Written, digit_num[Written]) = Counted
  <2>1. Power[digit_num[Written]] \in Nat /\ Stored(Written, digit_num[Written]) \in Nat
    BY <1>m, PowerTypes, DigitTypes
  <2>. QED  BY <1>0, <2>1 DEF TellInv, Rewriting
<1>2. Stored(Written, digit_num[Written])' = Counted'
  BY <1>0, <1>1, <1>t DEF Written, Counted, Cases, boards, counts
<1>5. Total'
  BY <1>0, SameTotal DEF counts
<1>3. CASE Blink
  <2>1. /\ main' = [main EXCEPT !.pc = "viewing"] /\ leds' = [leds EXCEPT ![main.area] = 1]
        /\ chosen_area = main.area /\ chosen_area /= -1 /\ leds = [a \in Areas |-> 0]
    BY <1>3, <1>0 DEF Blink, TellInv, Choice, Lighting, Counting
  <2>2. main'.pc = "viewing" /\ main'.area = main.area
    BY <1>m, <2>1 DEF Mains
  <2>3. leds' = [a \in Areas |-> IF a = chosen_area' THEN 1 ELSE 0]
    BY <1>m, <1>0, <2>1 DEF Mains
  <2>. QED  BY <1>t, <1>0, <1>2, <1>5, <2>1, <2>2, <2>3 DEF TellInv, Choice, Rewriting, Lighting, Counting
<1>4. CASE Reported
  <2>1. /\ main' = [main EXCEPT !.pc = "reported"] /\ chosen_area = -1
        /\ leds' = [leds EXCEPT ![main.area] = IF Cases(main.area) > 0 THEN 1 ELSE leds[main.area]]
    BY <1>4 DEF Reported
  <2>2. main'.pc = "reported" /\ main'.area = main.area
    BY <1>m, <2>1 DEF Mains
  <2>3. \A a \in Areas : Cases(a) > 0 => leds'[a] = 1
    BY <1>m, <1>0, <2>1 DEF Mains, TellInv, Lighting, Counting
  <2>. QED  BY <1>t, <1>0, <1>2, <1>5, <2>1, <2>2, <2>3 DEF TellInv, Choice, Rewriting, Lighting, Counting
<1>. QED  BY <1>3, <1>4

LEMMA TellNext == ASSUME BoardInv, BoardInv', TellInv, [Next]_vars PROVE TellInv'
<1>1. CASE \/ ConfirmedCase \/ ListAgain \/ LeaveListing \/ LeaveArea
           \/ LeaveReporting \/ Exit \/ LedsOff \/ SegmentOff
  <2>1. UNCHANGED <<boards, case, region_cases>>
    BY <1>1 DEF ConfirmedCase, ListAgain, List, LeaveListing, LeaveArea, LeaveReporting, Exit,
                LedsOff, SegmentOff, counts
  <2>. QED  BY <1>1, <2>1, TellMenu
<1>2. CASE Blinker \/ UNCHANGED vars
  <2>1. UNCHANGED <<chosen_area, boards, counts, main, leds>>
    BY <1>2 DEF Blinker, AtLoop, WhichTotal, WhichArea, WrapIndex, AnyDigit, Index, Fetch,
                WriteSegment, Advance, BlinkerStep, vars, boards, counts, pins
  <2>2. /\ Tally' /\ Lit' = Lit /\ (\A b \in Areas : Cases(b)' = Cases(b))
        /\ \A b, n : Stored(b, n)' = Stored(b, n)
    BY <2>1, SameCounts DEF counts
  <2>3. Written' = Written /\ Counted' = Counted /\ digit_num' = digit_num
    BY <2>1 DEF Written, Counted, Cases, boards, counts
  <2>4. Total'
    BY <2>1, SameTotal DEF counts
  <2>. QED  BY <2>1, <2>2, <2>3, <2>4 DEF TellInv, Choice, Rewriting, Lighting
<1>3. CASE MainThread
  BY <1>1, <1>3, TellView, TellReport, TellReset, TellCount, TellStore, TellLight DEF MainThread
<1>. QED  BY <1>2, <1>3 DEF Next

\* Whatever is reported and looked at, in whatever order, for any number of areas
\* and any entries, negative ones and wrapped sums included: whenever the user is
\* asked something, the LEDs say which areas have cases and the digits in the area's
\* buffer are those of its two counts; the digits of the total are those of what was
\* reported since the last listing, which is all that was ever reported, as
\* HW1/README.md:28 wants it, only before the first one (hw1.c 111-139, 185-202,
\* 325-345).
THEOREM ShownIsCountedHolds == Spec => []ShownIsCounted
<1>1. Init => BoardInv /\ TellInv
  BY BoardInit, TellInit
<1>2. BoardInv /\ TellInv /\ [Next]_vars => (BoardInv /\ TellInv)'
  BY InvNext, TellNext
<1>3. BoardInv /\ TellInv => ShownIsCounted
  <2>. SUFFICES ASSUME BoardInv, TellInv PROVE ShownIsCounted
    OBVIOUS
  <2>1. LedsTellCases
    BY DEF TellInv, Lighting, LedsTellCases
  <2>2. BoardsTellCounts
    <3>1. Value("region") = Stored("region", digit_num["region"])
          /\ Value("total") = Stored("total", digit_num["total"])
      BY Sizes, ValueIsStored DEF BoardInv
    <3>2. CASE main.pc = "viewing"
      BY <3>1, <3>2 DEF TellInv, Choice, Rewriting, Counted, Written, BoardsTellCounts
    <3>3. CASE main.pc = "reported"
      BY <3>1, <3>3 DEF TellInv, Total, Choice, Rewriting, Counted, Written, BoardsTellCounts
    <3>. QED  BY <3>2, <3>3 DEF BoardsTellCounts
  <2>. QED  BY <2>1, <2>2 DEF ShownIsCounted
<1>. QED  BY <1>1, <1>2, <1>3, PTL DEF Spec
=============================================================================
