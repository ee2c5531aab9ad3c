---------------------------- MODULE DialogueProofs ----------------------------
(***************************************************************************)
(* The two dialogues: in lab7's guessing game, the guesser's interval for    *)
(* every upper bound, every answer and any number of guessers; in HW2's      *)
(* server, what a listing shows for all requests, clients and words.         *)
(***************************************************************************)
EXTENDS Guess, ReportServer, InductionTheorems, SequenceTheorems, TLAPS

-----------------------------------------------------------------------------
(* lab7: the guesser *)

\* The middle of an interval of naturals lies inside it.
LEMMA HalfInside ==
  ASSUME NEW b \in 0..upper_bound, NEW e \in 0..upper_bound
  PROVE  Half(b + e) \in 0..upper_bound
BY GameAssumption DEF Half

LEMMA TypeInit == Init => TypeOK
BY GameAssumption DEF Init, TypeOK, NewGuesser

LEMMA TypeNext == TypeOK /\ [Next]_vars => TypeOK'
<1> SUFFICES ASSUME TypeOK, [Next]_vars PROVE TypeOK'
  OBVIOUS
<1> USE GameAssumption DEF TypeOK
<1>1. CASE Publish
  <2> DEFINE bounds == Bounds(result)
  <2>1. /\ bounds.begin_num \in 0..upper_bound /\ bounds.end_num \in 0..upper_bound
        /\ bounds \in [pc : {"spin", "kill"}, begin_num : 0..upper_bound,
                       end_num : 0..upper_bound, ticks : 0..MaxTicks]
        /\ bounds.ticks = guesser.ticks
    BY DEF Bounds
  <2>2. guess' \in 0..upper_bound
    BY <1>1, <2>1, HalfInside DEF Publish
  <2>3. guesser' = [bounds EXCEPT !.pc = "kill", !.ticks = bounds.ticks + 1]
        /\ guesser.ticks + 1 \in 0..MaxTicks
    BY <1>1 DEF Publish, Ticks
  <2> HIDE DEF bounds
  <2>4. guesser' \in [pc : {"spin", "kill"}, begin_num : 0..upper_bound,
                      end_num : 0..upper_bound, ticks : 0..MaxTicks]
    BY <2>1, <2>3
  <2>. QED  BY <1>1, <2>2, <2>4 DEF Publish
<1>2. CASE Signal
  BY <1>2 DEF Signal
<1>3. CASE NothingToDo
  BY <1>3 DEF NothingToDo, Ticks
<1>4. CASE NextGuesser
  BY <1>4 DEF NextGuesser, NewGuesser
<1>5. CASE Delivered
  BY <1>5 DEF Delivered
<1>6. CASE Answer
  BY <1>6 DEF Answer, Verdict
<1>7. CASE CtrlC
  BY <1>7 DEF CtrlC
<1>8. CASE UNCHANGED vars
  BY <1>8 DEF vars
<1>. QED  BY <1>1, <1>2, <1>3, <1>4, <1>5, <1>6, <1>7, <1>8 DEF Next

\* The types hold for every upper bound, answers out of the range included.
THEOREM GuessTypes == Spec => []TypeOK
BY TypeInit, TypeNext, PTL DEF Spec

-----------------------------------------------------------------------------
(* The answer stays inside. *)

\* Between two seconds the result in shared memory is about the guess beside
\* it: what the next timer, or the next guesser, will narrow its interval by.
ResultFits ==
  guesser.pc = "spin" /\ InTime /\ game.pc /= "ended" =>
    /\ result = "bigger" => guess < game.answer
    /\ result = "smaller" => guess > game.answer

GuessInv == TypeOK /\ ResultFits /\ AnswerInside

LEMMA GuessInit == Init => GuessInv
<1>1. Init => ResultFits
  BY DEF Init, ResultFits
<1>2. Init => AnswerInside
  BY GameAssumption DEF Init, AnswerInside, NewGuesser
<1>. QED  BY <1>1, <1>2, TypeInit DEF GuessInv

LEMMA GuessNext == GuessInv /\ [Next]_vars => GuessInv'
<1> SUFFICES ASSUME GuessInv, [Next]_vars PROVE GuessInv'
  OBVIOUS
<1>1. TypeOK /\ TypeOK'
  BY TypeNext DEF GuessInv
<1> USE DEF GuessInv, ResultFits, AnswerInside
<1>2. CASE Publish
  <2> DEFINE bounds == Bounds(result)
  <2>1. /\ guesser.pc = "spin" /\ InTime /\ game.pc /= "ended"
        /\ guesser'.pc = "kill" /\ game' = game
        /\ guesser'.begin_num = bounds.begin_num /\ guesser'.end_num = bounds.end_num
    BY <1>1, <1>2 DEF Publish, Ticks, TypeOK, Bounds
  <2>2. ASSUME game.answer \in 0..upper_bound
        PROVE  game.answer \in bounds.begin_num..bounds.end_num
    BY <1>1, <2>1, <2>2 DEF Bounds, TypeOK
  <2>. QED  BY <1>1, <2>1, <2>2
<1>3. CASE Signal
  BY <1>1, <1>3 DEF Signal, TypeOK, InTime
<1>4. CASE NothingToDo
  BY <1>1, <1>4 DEF NothingToDo, Ticks, TypeOK, InTime
<1>5. CASE NextGuesser
  BY <1>1, <1>5, GameAssumption DEF NextGuesser, NewGuesser, TypeOK, InTime
<1>6. CASE Delivered
  BY <1>1, <1>6 DEF Delivered, TypeOK, InTime
<1>7. CASE Answer
  BY <1>1, <1>7, GameAssumption DEF Answer, Verdict, TypeOK, InTime
<1>8. CASE CtrlC
  BY <1>1, <1>8 DEF CtrlC, TypeOK, InTime
<1>9. CASE UNCHANGED vars
  BY <1>1, <1>9 DEF vars, InTime
<1>. QED  BY <1>2, <1>3, <1>4, <1>5, <1>6, <1>7, <1>8, <1>9 DEF Next

\* The bisection never excludes the answer, whatever the upper bound, however
\* many guessers follow one another on the same segment, and whenever the game
\* is stopped (timer_handler's reading of a result it did not ask for included).
THEOREM AnswerInsideHolds == Spec => []AnswerInside
<1>1. GuessInv => AnswerInside
  BY DEF GuessInv
<1>. QED  BY <1>1, GuessInit, GuessNext, PTL DEF Spec

-----------------------------------------------------------------------------
(* The answer is found in time. *)

\* The range that can be searched in the seconds there are: the first of the
\* guesses is made without an answer, each later one with half of the interval.
TimeEnough == MaxTicks >= 1 /\ upper_bound <= 2^(MaxTicks - 1)

Possible == game.pc /= "ended" /\ game.answer \in 0..(upper_bound - 1)

\* Guess, signal and answer follow each other.
Phase ==
  /\ guesser.pc = "kill" => InTime
  /\ game.pc = "answering" => sigusr1 = 0

\* A game that is won stays won, and a second guesser finds it so.
StaysWon ==
  /\ result = "bingo" /\ game.pc /= "ended" => guesser.pc = "spin" /\ InTime
  /\ guessers > 1 /\ Possible => result = "bingo"

\* Where the bisection is: g is the guess after t of the seconds, inside b and e.
Narrowed(b, e, g, t) ==
  /\ b < game.answer \/ b = 0
  /\ game.answer < e
  /\ t >= 1 => g = (b + e) \div 2 /\ e - b <= 2^(MaxTicks - t)

Narrow ==
  guessers = 1 /\ Possible /\ result /= "bingo" =>
    /\ Narrowed(guesser.begin_num, guesser.end_num, guess, guesser.ticks)
    /\ guesser.ticks = 0 => /\ guesser = NewGuesser /\ result = "none" /\ InTime
    /\ guesser.ticks >= 1 /\ guesser.pc = "spin" /\ InTime => result = Verdict(guess)

SearchInv == TypeOK /\ Phase /\ StaysWon /\ Narrow

LEMMA SearchInit == Init => SearchInv
<1>. SUFFICES ASSUME Init PROVE SearchInv
  OBVIOUS
<1>1. upper_bound \in Nat /\ guesser = NewGuesser /\ guessers = 1 /\ guess = 0 /\ InTime
      /\ guesser.pc = "spin" /\ guesser.ticks = 0 /\ guesser.begin_num = 0
      /\ guesser.end_num = upper_bound /\ result = "none" /\ game.answer \in Int
      /\ game.pc = "spin" /\ sigusr1 = 0
  BY GameAssumption DEF Init, NewGuesser, InTime
<1>2. Phase /\ StaysWon
  BY <1>1 DEF Phase, StaysWon
<1>3. Narrow
  BY <1>1 DEF Narrow, Narrowed, Possible
<1>. QED  BY <1>2, <1>3, TypeInit DEF SearchInv

\* One bit is left, and one candidate.
LEMMA LastGuess ==
  ASSUME TimeEnough, NEW b \in Nat, NEW e \in Nat, NEW g, Narrowed(b, e, g, MaxTicks),
         game.answer \in Nat
  PROVE  Verdict(g) = "bingo"
<1>1. MaxTicks \in Nat /\ MaxTicks >= 1 /\ 2^(MaxTicks - MaxTicks) = 1
  <2>1. MaxTicks - MaxTicks = 0
    BY GameAssumption
  <2>. QED  BY <2>1, GameAssumption DEF TimeEnough
<1>2. g = (b + e) \div 2 /\ e - b <= 1 /\ game.answer < e /\ (b < game.answer \/ b = 0)
  BY <1>1 DEF Narrowed
<1>3. b = 0 /\ e = 1 /\ game.answer = 0
  BY <1>2
<1>4. g = game.answer
  BY <1>2, <1>3
<1>. QED  BY <1>4 DEF Verdict

LEMMA SearchEnds == TimeEnough /\ SearchInv => FoundInTime
<1>. SUFFICES ASSUME TimeEnough, SearchInv, OutOfTime, Possible, result /= "bingo" PROVE FALSE
  BY DEF FoundInTime, Possible
<1>1. guessers = 1
  BY DEF SearchInv, StaysWon, TypeOK
<1>2. PICK b \in Nat, e \in Nat : b = guesser.begin_num /\ e = guesser.end_num
  BY GameAssumption DEF SearchInv, TypeOK
<1>3. Narrowed(b, e, guess, MaxTicks) /\ result = Verdict(guess)
  BY <1>1, <1>2 DEF SearchInv, Narrow, OutOfTime, TimeEnough
<1>4. game.answer \in Nat
  BY DEF Possible
<1>. QED  BY <1>2, <1>3, <1>4, LastGuess

\* A second halves what is left.
LEMMA Halves ==
  ASSUME NEW b \in Nat, NEW e \in Nat, NEW g \in Nat, NEW t \in Nat, t >= 1, t < MaxTicks,
         NEW a \in Nat, game.answer = a, Narrowed(b, e, g, t)
  PROVE  /\ g < a => Narrowed(g, e, (g + e) \div 2, t + 1)
         /\ a < g => Narrowed(b, g, (b + g) \div 2, t + 1)
<1>1. PICK k \in Nat : k = MaxTicks - (t + 1) /\ k + 1 = MaxTicks - t
  BY GameAssumption
<1>2. PICK p \in Nat, q \in Nat : p = 2^k /\ q = 2^(k + 1) /\ q = p + p
  BY Doubling
<1>3. g = (b + e) \div 2 /\ e - b <= q /\ (b < a \/ b = 0) /\ a < e
  BY <1>1, <1>2 DEF Narrowed
<1>4. g + g <= b + e /\ b + e <= g + g + 1
  BY <1>3
<1>5. g < a => e - g <= p
  BY <1>2, <1>3, <1>4
<1>6. a < g => g - b <= p
  BY <1>2, <1>3, <1>4
<1>. QED  BY <1>1, <1>2, <1>3, <1>5, <1>6 DEF Narrowed

LEMMA PublishNarrows ==
  ASSUME TimeEnough, SearchInv, TypeOK', Publish
  PROVE  Narrow'
<1>. SUFFICES ASSUME guessers = 1, Possible
     PROVE  /\ Narrowed(guesser.begin_num, guesser.end_num, guess, guesser.ticks)'
            /\ guesser.ticks' /= 0 /\ guesser'.pc = "kill"
  BY DEF Narrow, Possible, Publish
<1>1. PICK b \in Nat, e \in Nat, t \in Nat, g \in Nat, a \in Nat :
        /\ b = guesser.begin_num /\ e = guesser.end_num /\ t = guesser.ticks /\ g = guess
        /\ a = game.answer
  <2>1. guesser.begin_num \in Nat /\ guesser.end_num \in Nat /\ guesser.ticks \in Nat /\ guess \in Nat
    BY GameAssumption DEF SearchInv, TypeOK
  <2>2. game.answer \in Nat
    BY GameAssumption DEF Possible
  <2>. QED  BY <2>1, <2>2
<1>2. /\ guesser.pc = "spin" /\ InTime /\ t < MaxTicks /\ result /= "bingo" /\ game' = game
      /\ guess' = Half(Bounds(result).begin_num + Bounds(result).end_num)
      /\ guesser' = [Bounds(result) EXCEPT !.pc = "kill", !.ticks = @ + 1]
  BY <1>1 DEF Publish, Ticks
<1>3. /\ guesser'.begin_num = IF result = "bigger" THEN g ELSE b
      /\ guesser'.end_num = IF result = "smaller" THEN g ELSE e
      /\ guesser'.ticks = t + 1 /\ guesser'.pc = "kill"
      /\ Bounds(result).begin_num = guesser'.begin_num
      /\ Bounds(result).end_num = guesser'.end_num
  BY <1>1, <1>2 DEF Bounds, SearchInv, TypeOK
<1>4. guess' = (guesser'.begin_num + guesser'.end_num) \div 2
  BY <1>1, <1>2, <1>3 DEF Half
<1>5. Narrowed(b, e, g, t) /\ (t = 0 => guesser = NewGuesser /\ result = "none")
      /\ (t >= 1 => result = Verdict(g))
  BY <1>1, <1>2 DEF SearchInv, Narrow
<1>6. Narrowed(guesser'.begin_num, guesser'.end_num, guess', t + 1)
  <2>1. CASE t = 0
    <3>1. b = 0 /\ e = upper_bound /\ guesser'.begin_num = b /\ guesser'.end_num = e
      BY <1>1, <1>3, <1>5, <2>1 DEF NewGuesser
    <3>2. e - b <= 2^(MaxTicks - (t + 1))
      BY <2>1, <3>1, GameAssumption DEF TimeEnough
    <3>. QED  BY <1>4, <1>5, <3>1, <3>2 DEF Narrowed
  <2>2. CASE t >= 1 /\ g < a
    <3>1. result = "bigger"
      BY <1>1, <1>5, <2>2 DEF Verdict
    <3>. QED  BY <1>1, <1>2, <1>3, <1>4, <1>5, <2>2, <3>1, Halves
  <2>3. CASE t >= 1 /\ a < g
    <3>1. result = "smaller"
      BY <1>1, <1>5, <2>3 DEF Verdict
    <3>. QED  BY <1>1, <1>2, <1>3, <1>4, <1>5, <2>3, <3>1, Halves
  <2>4. CASE t >= 1 /\ a = g
    BY <1>1, <1>2, <1>5, <2>4 DEF Verdict
  <2>. QED  BY <2>1, <2>2, <2>3, <2>4
<1>. QED  BY <1>2, <1>3, <1>6 DEF Narrowed

LEMMA SearchNext == TimeEnough /\ SearchInv /\ [Next]_vars => SearchInv'
<1>. SUFFICES ASSUME TimeEnough, SearchInv, [Next]_vars PROVE SearchInv'
  OBVIOUS
<1>0. TypeOK /\ TypeOK'
  BY TypeNext DEF SearchInv
<1>1. CASE Publish
  <2>1. Phase' /\ StaysWon'
    BY <1>0, <1>1 DEF Publish, Ticks, Phase, StaysWon, SearchInv, TypeOK, InTime, Possible
  <2>. QED  BY <1>0, <1>1, <2>1, PublishNarrows DEF SearchInv
<1>2. CASE Signal
  <2>1. Phase' /\ StaysWon'
    BY <1>0, <1>2 DEF Signal, Phase, StaysWon, SearchInv, TypeOK, InTime, Possible
  <2>2. Narrow'
    BY <1>0, <1>2 DEF Signal, Narrow, Narrowed, SearchInv, TypeOK, InTime, Possible, NewGuesser
  <2>. QED  BY <1>0, <2>1, <2>2 DEF SearchInv
<1>3. CASE NothingToDo
  <2>1. Phase' /\ StaysWon'
    BY <1>0, <1>3 DEF NothingToDo, Ticks, Phase, StaysWon, SearchInv, TypeOK, InTime, Possible
  <2>2. Narrow'
    BY <1>3 DEF NothingToDo, Narrow, Possible
  <2>. QED  BY <1>0, <2>1, <2>2 DEF SearchInv
<1>4. CASE NextGuesser
  <2>1. Possible => result = "bingo"
    BY <1>4, SearchEnds DEF NextGuesser, FoundInTime, OutOfTime, Possible
  <2>2. Phase' /\ StaysWon'
    BY <1>0, <1>4, <2>1 DEF NextGuesser, NewGuesser, Phase, StaysWon, SearchInv, TypeOK, InTime, Possible
  <2>3. Narrow'
    BY <1>0, <1>4 DEF NextGuesser, Narrow, TypeOK
  <2>. QED  BY <1>0, <2>2, <2>3 DEF SearchInv
<1>5. CASE Delivered
  <2>1. Phase' /\ StaysWon'
    BY <1>0, <1>5 DEF Delivered, Phase, StaysWon, SearchInv, TypeOK, InTime, Possible
  <2>2. Narrow'
    BY <1>0, <1>5 DEF Delivered, Narrow, Narrowed, SearchInv, TypeOK, InTime, Possible
  <2>. QED  BY <1>0, <2>1, <2>2 DEF SearchInv
<1>6. CASE Answer
  <2>1. Phase' /\ StaysWon'
    BY <1>0, <1>6 DEF Answer, Phase, StaysWon, SearchInv, TypeOK, InTime, Possible
  <2>2. Narrow'
    BY <1>0, <1>6 DEF Answer, Narrow, Narrowed, StaysWon, SearchInv, TypeOK, InTime, Possible, Verdict
  <2>. QED  BY <1>0, <2>1, <2>2 DEF SearchInv
<1>7. CASE CtrlC
  BY <1>0, <1>7 DEF CtrlC, Phase, StaysWon, Narrow, SearchInv, TypeOK, InTime, Possible
<1>8. CASE UNCHANGED vars
  BY <1>0, <1>8 DEF vars, Phase, StaysWon, Narrow, Narrowed, Verdict, SearchInv, InTime, Possible
<1>. QED  BY <1>1, <1>2, <1>3, <1>4, <1>5, <1>6, <1>7, <1>8 DEF Next

\* The ten seconds of main's loop are enough for an upper bound of 512
\* (TimeEnough), and in general each second but the first for twice as much: a
\* game that is not stopped is won when the first guess.o ends, for every
\* answer below the bound.
THEOREM FoundInTimeHolds ==
  ASSUME TimeEnough
  PROVE  Spec => []FoundInTime
<1>1. SearchInv => FoundInTime
  BY SearchEnds
<1>2. SearchInv /\ [Next]_vars => SearchInv'
  BY SearchNext
<1>. QED  BY <1>1, <1>2, SearchInit, PTL DEF Spec

-----------------------------------------------------------------------------
(* HW2: sums of lists of options *)

\* The sum of a list.
LEMMA ListSum ==
  ASSUME NEW n \in Nat, NEW f, DOMAIN f = 1..n, \A i \in 1..n : f[i] \in Int
  PROVE  IsFiniteSet(1..n) /\ SumFunction(f) = SumFunctionOnSet(f, 1..n) /\ SumFunction(f) \in Int
<1>1. IsFiniteSet(1..n)
  BY FS_Interval
<1>2. SumFunction(f) = SumFunctionOnSet(f, 1..n)
  BY DEF SumFunction
<1>3. SumFunctionOnSet(f, 1..n) \in Int
  BY <1>1, SumInt
<1>. QED  BY <1>1, <1>2, <1>3

\* What a list of options reports is a number, ...
LEMMA TotalTypes ==
  ASSUME NEW options \in Seq(Option), NEW area, NEW degrees
  PROVE  /\ Total(options, area, degrees) \in Int
         /\ \A i \in DOMAIN options : Number(options[i], area, degrees) \in Int
<1>. DEFINE f == [i \in DOMAIN options |-> Number(options[i], area, degrees)]
<1>1. PICK n \in Nat : n = Len(options) /\ DOMAIN options = 1..n
  BY LenProperties
<1>2. \A i \in 1..n : f[i] \in Int /\ f[i] = Number(options[i], area, degrees)
  <2>1. \A i \in 1..n : options[i] \in Option
    BY <1>1, ElementOfSeq
  <2>. QED  BY <1>1, <2>1 DEF Number, Option
<1>3. DOMAIN f = 1..n
  BY <1>1
<1>4. SumFunction(f) \in Int
  <2>. HIDE DEF f
  <2>. QED  BY <1>2, <1>3, ListSum
<1>. QED  BY <1>1, <1>2, <1>4 DEF Total

\* ... that falls into the two degrees.
LEMMA TotalOfDegrees ==
  ASSUME NEW options \in Seq(Option), NEW area
  PROVE  Total(options, area, Degrees)
           = Total(options, area, {"Mild"}) + Total(options, area, {"Severe"})
<1>. DEFINE F(degrees) == [i \in DOMAIN options |-> Number(options[i], area, degrees)]
<1>1. PICK n \in Nat : n = Len(options) /\ DOMAIN options = 1..n
  BY LenProperties
<1>2. PICK f, g, h : f = F({"Mild"}) /\ g = F({"Severe"}) /\ h = F(Degrees)
  OBVIOUS
<1>3. ASSUME NEW i \in 1..n PROVE f[i] \in Int /\ g[i] \in Int /\ h[i] \in Int /\ h[i] = f[i] + g[i]
  <2>1. options[i] \in Option
    BY <1>1, ElementOfSeq
  <2>. QED  BY <1>1, <1>2, <2>1 DEF Number, Option, Degrees
<1>4. DOMAIN f = 1..n /\ DOMAIN g = 1..n /\ DOMAIN h = 1..n
  BY <1>1, <1>2
<1>5. /\ SumFunction(f) = SumFunctionOnSet(f, 1..n) /\ SumFunction(g) = SumFunctionOnSet(g, 1..n)
      /\ SumFunction(h) = SumFunctionOnSet(h, 1..n) /\ IsFiniteSet(1..n)
  BY <1>3, <1>4, ListSum
<1>6. SumFunctionOnSet(h, 1..n) = SumFunctionOnSet(f, 1..n) + SumFunctionOnSet(g, 1..n)
  BY <1>3, <1>5, SumPlus
<1>. QED  BY <1>2, <1>5, <1>6 DEF Total

\* No option, no cases.
LEMMA TotalOfNothing == ASSUME NEW area, NEW degrees PROVE Total(<<>>, area, degrees) = 0
<1>. DEFINE f == [i \in DOMAIN <<>> |-> Number(<<>>[i], area, degrees)]
<1>1. DOMAIN f = {}
  OBVIOUS
<1>2. SumFunction(f) = 0
  BY <1>1, SumEmpty DEF SumFunction
<1>. QED  BY <1>2 DEF Total

\* What an answer confirms, and a list of answers up to the i-th.
Confirms(answer, area, degrees) ==
  IF answer.kind = "result" THEN Total(answer.options, area, degrees) ELSE 0
ConfirmedBy(answers, i, area, degrees) ==
  SumFunction([j \in 1..(i - 1) |-> Confirms(answers[j], area, degrees)])

\* The property's sum is that of the answers, ...
LEMMA ReportedIs ==
  ASSUME NEW i, NEW area, NEW degrees
  PROVE  Reported(i, area, degrees) = ConfirmedBy(heard, i, area, degrees)
BY DEF Reported, ConfirmedBy, Confirms

\* ... after a step as well.
LEMMA ReportedWillBe ==
  ASSUME NEW i, NEW area, NEW degrees
  PROVE  Reported(i, area, degrees)' = ConfirmedBy(heard', i, area, degrees)
BY DEF Reported, ConfirmedBy, Confirms

\* Answers confirm numbers, which fall into the two degrees.
LEMMA ConfirmsTypes ==
  ASSUME NEW answer \in Replies, NEW area
  PROVE  /\ \A degrees : Confirms(answer, area, degrees) \in Int
         /\ Confirms(answer, area, Degrees) =
              Confirms(answer, area, {"Mild"}) + Confirms(answer, area, {"Severe"})
<1>1. answer.kind = "result" => answer.options \in Seq(Option)
  BY DEF Replies
<1>. QED  BY <1>1, TotalTypes, TotalOfDegrees DEF Confirms

LEMMA ConfirmedTypes ==
  ASSUME NEW answers \in Seq(Replies), NEW n \in Nat, n <= Len(answers), NEW area
  PROVE  /\ \A degrees : ConfirmedBy(answers, n + 1, area, degrees) \in Int
         /\ ConfirmedBy(answers, n + 1, area, Degrees) =
              ConfirmedBy(answers, n + 1, area, {"Mild"}) + ConfirmedBy(answers, n + 1, area, {"Severe"})
<1>. DEFINE F(degrees) == [j \in 1..(n + 1 - 1) |-> Confirms(answers[j], area, degrees)]
<1>0. 1..(n + 1 - 1) = 1..n
  OBVIOUS
<1>1. ASSUME NEW j \in 1..n PROVE answers[j] \in Replies
  <2>1. j \in 1..Len(answers)
    BY LenProperties
  <2>. QED  BY <2>1, ElementOfSeq
<1>2. ASSUME NEW degrees PROVE ConfirmedBy(answers, n + 1, area, degrees) \in Int
  <2>1. PICK f : f = F(degrees) /\ ConfirmedBy(answers, n + 1, area, degrees) = SumFunction(f)
    BY DEF ConfirmedBy
  <2>2. DOMAIN f = 1..n /\ \A j \in 1..n : f[j] \in Int
    BY <1>0, <1>1, <2>1, ConfirmsTypes
  <2>. QED  BY <2>1, <2>2, ListSum
<1>3. PICK f, g, h : f = F({"Mild"}) /\ g = F({"Severe"}) /\ h = F(Degrees)
  OBVIOUS
<1>4. ASSUME NEW j \in 1..n PROVE f[j] \in Int /\ g[j] \in Int /\ h[j] \in Int /\ h[j] = f[j] + g[j]
  BY <1>0, <1>1, <1>3, ConfirmsTypes
<1>5. DOMAIN f = 1..n /\ DOMAIN g = 1..n /\ DOMAIN h = 1..n
  BY <1>0, <1>3
<1>6. /\ SumFunction(f) = SumFunctionOnSet(f, 1..n) /\ SumFunction(g) = SumFunctionOnSet(g, 1..n)
      /\ SumFunction(h) = SumFunctionOnSet(h, 1..n) /\ IsFiniteSet(1..n)
  BY <1>4, <1>5, ListSum
<1>7. SumFunctionOnSet(h, 1..n) = SumFunctionOnSet(f, 1..n) + SumFunctionOnSet(g, 1..n)
  BY <1>4, <1>6, SumPlus
<1>8. SumFunction(h) = SumFunction(f) + SumFunction(g)
  BY <1>6, <1>7
<1>9. /\ ConfirmedBy(answers, n + 1, area, {"Mild"}) = SumFunction(f)
       /\ ConfirmedBy(answers, n + 1, area, {"Severe"}) = SumFunction(g)
       /\ ConfirmedBy(answers, n + 1, area, Degrees) = SumFunction(h)
  BY <1>3 DEF ConfirmedBy
<1>. QED  BY <1>2, <1>8, <1>9

\* An answer more leaves what was confirmed before it, ...
LEMMA AnswerLeaves ==
  ASSUME NEW answers \in Seq(Replies), NEW answer \in Replies, NEW area, NEW degrees,
         NEW n \in 0..Len(answers)
  PROVE  ConfirmedBy(Append(answers, answer), n + 1, area, degrees)
           = ConfirmedBy(answers, n + 1, area, degrees)
<1>1. PICK m \in Nat : m = Len(answers)
  BY LenProperties
<1>2. PICK more : more = Append(answers, answer)
  OBVIOUS
<1>3. \A j \in 1..(n + 1 - 1) : more[j] = answers[j]
  <2>1. \A j \in 1..m : more[j] = answers[j]
    BY <1>1, <1>2, AppendProperties
  <2>. QED  BY <1>1, <2>1
<1>4. [j \in 1..(n + 1 - 1) |-> Confirms(more[j], area, degrees)]
        = [j \in 1..(n + 1 - 1) |-> Confirms(answers[j], area, degrees)]
  BY <1>3
<1>5. ConfirmedBy(more, n + 1, area, degrees) = ConfirmedBy(answers, n + 1, area, degrees)
  BY <1>4 DEF ConfirmedBy
<1>. QED  BY <1>2, <1>5

\* ... and adds what it confirms.
LEMMA AnswerMore ==
  ASSUME NEW answers \in Seq(Replies), NEW answer \in Replies, NEW area, NEW degrees
  PROVE  ConfirmedBy(Append(answers, answer), Len(answers) + 2, area, degrees)
           = ConfirmedBy(answers, Len(answers) + 1, area, degrees) + Confirms(answer, area, degrees)
<1>1. PICK m \in Nat : m = Len(answers)
  BY LenProperties
<1>2. PICK more \in Seq(Replies) : /\ more = Append(answers, answer) /\ Len(more) = m + 1
                                   /\ \A j \in 1..m : more[j] = answers[j]
                                   /\ more[m + 1] = answer
  BY <1>1, AppendProperties
<1>. DEFINE f == [j \in 1..(m + 1) |-> Confirms(more[j], area, degrees)]
            g == [j \in 1..m |-> Confirms(more[j], area, degrees)]
<1>4. /\ DOMAIN f = 1..(m + 1) /\ DOMAIN g = 1..m
      /\ \A j \in 1..(m + 1) : f[j] \in Int
      /\ \A j \in 1..m : g[j] \in Int /\ g[j] = f[j]
      /\ f[m + 1] = Confirms(answer, area, degrees)
  <2>1. \A j \in 1..(m + 1) : more[j] \in Replies
    BY <1>2, ElementOfSeq
  <2>2. \A j \in 1..(m + 1) : Confirms(more[j], area, degrees) \in Int
    BY <2>1, ConfirmsTypes
  <2>3. \A j \in 1..m : j \in 1..(m + 1)
    OBVIOUS
  <2>. QED  BY <1>2, <2>2, <2>3
<1>5. ConfirmedBy(more, m + 2, area, degrees) = SumFunction(f)
      /\ ConfirmedBy(more, m + 1, area, degrees) = SumFunction(g)
  <2>1. m + 2 - 1 = m + 1 /\ m + 1 - 1 = m
    OBVIOUS
  <2>. QED  BY <2>1 DEF ConfirmedBy
<1>. HIDE DEF f, g
<1>6. /\ SumFunction(f) = SumFunctionOnSet(f, 1..(m + 1)) /\ SumFunction(g) = SumFunctionOnSet(g, 1..m)
      /\ IsFiniteSet(1..m)
  <2>1. m + 1 \in Nat
    OBVIOUS
  <2>. QED  BY <1>4, <2>1, ListSum
<1>7. SumFunctionOnSet(f, 1..(m + 1)) = f[m + 1] + SumFunctionOnSet(f, 1..m)
  <2>1. 1..(m + 1) = (1..m) \cup {m + 1} /\ m + 1 \notin 1..m
    OBVIOUS
  <2>2. \A j \in (1..m) \cup {m + 1} : f[j] \in Int
    BY <1>4, <2>1
  <2>3. SumFunctionOnSet(f, (1..m) \cup {m + 1}) = f[m + 1] + SumFunctionOnSet(f, 1..m)
    BY <1>6, <2>1, <2>2, SumAdd
  <2>. QED  BY <2>1, <2>3
<1>8. SumFunctionOnSet(f, 1..m) = SumFunctionOnSet(g, 1..m) /\ SumFunctionOnSet(f, 1..m) \in Int
  BY <1>4, <1>6, SumSame, SumInt
<1>9. ConfirmedBy(more, m + 1, area, degrees) = ConfirmedBy(answers, m + 1, area, degrees)
  <2>1. m \in 0..Len(answers)
    BY <1>1
  <2>. QED  BY <1>2, <2>1, AnswerLeaves
<1>10. ConfirmedBy(more, m + 2, area, degrees)
         = Confirms(answer, area, degrees) + ConfirmedBy(answers, m + 1, area, degrees)
  BY <1>4, <1>5, <1>6, <1>7, <1>8, <1>9
<1>11. ConfirmedBy(answers, m + 1, area, degrees) \in Int
  <2>1. m <= Len(answers)
    BY <1>1
  <2>. QED  BY <2>1, ConfirmedTypes
<1>12. Confirms(answer, area, degrees) \in Int
  BY ConfirmsTypes
<1>. QED  BY <1>1, <1>2, <1>10, <1>11, <1>12

-----------------------------------------------------------------------------
(* The types. *)

Locals == /\ pc = "sleep" => command /= <<>> /\ Head(command).kind = "Reporting"
ServerTypes == ReportTypeOK /\ Locals

LEMMA Constants ==
  /\ Word \in Nat \ {0} /\ 0 \in 0..(Word - 1) /\ MaxRequests \in Nat /\ MaxClients \in Nat
  /\ 0 \in 0..MaxRequests /\ 0 \in 0..MaxClients
  /\ <<>> \in Seq(Requests) /\ <<>> \in Seq(Replies)
  /\ NoCases \in [Regions -> 0..(Word - 1)]
<1>1. <<>> \in Seq(Requests) /\ <<>> \in Seq(Replies)
  BY EmptySeq
<1>. QED  BY <1>1, RequestAssumption DEF NoCases

\* The requests that have options have a list of them.
LEMMA OptionsTypes ==
  ASSUME ReportTypeOK, command /= <<>>, Head(command).kind \in {"Confirmed", "Reporting"}
  PROVE  Options \in Seq(Option)
<1>1. Head(command) \in Requests
  BY HeadTailProperties DEF ReportTypeOK
<1>. QED  BY <1>1, RequestAssumption DEF Options

\* The options that are counted.
LEMMA GoodTypes ==
  ASSUME Options \in Seq(Option)
  PROVE  Good \in Seq(Option)
<1>1. PICK o \in Seq(Option), n \in Nat : o = Options /\ n = Len(o) /\ DOMAIN o = 1..n
  BY LenProperties
<1>. DEFINE I == {i \in 1..n : ~Wellformed(o[i])}
<1>2. Wrong = IF I /= {} THEN Min(I) ELSE 0
  BY <1>1 DEF Wrong, SelectInSeq
<1>3. CASE I = {}
  BY <1>1, <1>2, <1>3 DEF Good
<1>4. CASE I /= {}
  <2>1. I \in SUBSET Nat
    OBVIOUS
  <2>2. PICK m \in I : \A i \in I : m <= i
    <3>. HIDE DEF I
    <3>. QED  BY <1>4, <2>1, LeastNumber
  <2>3. Min(I) \in I
    <3>. HIDE DEF I
    <3>. QED  BY <2>2 DEF Min
  <2>4. PICK w \in 1..n : w = Wrong
    BY <1>2, <1>4, <2>3
  <2>5. SubSeq(o, 1, w - 1) \in Seq(Option)
    <3>1. \A i \in 1..(w - 1) : o[i] \in Option
      <4>1. \A i \in 1..(w - 1) : i \in 1..Len(o)
        BY <1>1
      <4>. QED  BY <4>1, ElementOfSeq
    <3>. QED  BY <3>1, SubSeqProperties
  <2>. QED  BY <1>1, <2>4, <2>5 DEF Good
<1>. QED  BY <1>3, <1>4

\* A report leaves numbers of a word in the table.
LEMMA WithTypes ==
  ASSUME Good \in Seq(Option), NEW cases \in [Regions -> 0..(Word - 1)], NEW degree
  PROVE  With(cases, degree) \in [Regions -> 0..(Word - 1)]
<1>1. ASSUME NEW a \in Regions PROVE (cases[a] + Total(Good, a, {degree})) % Word \in 0..(Word - 1)
  <2>1. PICK x \in Int, y \in Int : x = cases[a] /\ y = Total(Good, a, {degree})
    <3>1. PICK o \in Seq(Option) : o = Good
      OBVIOUS
    <3>2. Total(o, a, {degree}) \in Int
      BY TotalTypes
    <3>3. cases[a] \in 0..(Word - 1)
      OBVIOUS
    <3>. QED  BY <3>1, <3>2, <3>3, Constants
  <2>2. x + y \in Int
    OBVIOUS
  <2>. QED  BY <2>1, <2>2, Constants, QuotientRemainder
<1>. QED  BY <1>1 DEF With

\* An answer is one more, or the server ends or goes on without it.
LEMMA WriteTypes ==
  ASSUME ReportTypeOK, NEW answer \in Replies, NEW next, Write(answer, next)
  PROVE  /\ heard' \in Seq(Replies) /\ pc' \in {next, "ended"}
<1>1. Append(heard, answer) \in Seq(Replies)
  BY AppendProperties DEF ReportTypeOK
<1>. QED  BY <1>1 DEF Write, ReportTypeOK

\* printf's %d shows an integer that is the same in a word.
LEMMA ShownTypes == ASSUME NEW n \in Int PROVE Shown(n) \in Int
BY Constants DEF Shown

LEMMA ServerTypesInit == ReportInit => ServerTypes
BY Constants DEF ReportInit, ServerTypes, ReportTypeOK, Locals

\* The two listings are answers.
LEMMA AllTypes ==
  ASSUME ReportTypeOK
  PROVE  [kind |-> "all", cases |-> [a \in Regions |-> Shown((mild_case[a] + severe_case[a]) % Word)]]
           \in Replies
<1>1. ASSUME NEW a \in Regions PROVE Shown((mild_case[a] + severe_case[a]) % Word) \in Int
  <2>1. PICK x \in Int : x = mild_case[a] + severe_case[a]
    BY Constants DEF ReportTypeOK
  <2>2. x % Word \in Int
    BY Constants, QuotientRemainder
  <2>. QED  BY <2>1, <2>2, ShownTypes
<1>. QED  BY <1>1 DEF Replies

LEMMA AreasTypes ==
  ASSUME ReportTypeOK, Options \in Seq(Option), AreasExist
  PROVE  [kind |-> "areas",
          cases |-> [i \in DOMAIN Options |->
                       [area |-> Options[i].area,
                        Mild |-> Shown(mild_case[Options[i].area]),
                        Severe |-> Shown(severe_case[Options[i].area])]]] \in Replies
<1>. DEFINE S == [area : Regions, Mild : Int, Severe : Int]
            line(i) == [area |-> Options[i].area, Mild |-> Shown(mild_case[Options[i].area]),
                        Severe |-> Shown(severe_case[Options[i].area])]
<1>1. PICK n \in Nat : n = Len(Options) /\ DOMAIN Options = 1..n
  BY LenProperties
<1>2. ASSUME NEW i \in 1..n PROVE line(i) \in S
  <2>1. PICK a \in Regions : a = Options[i].area
    BY <1>1 DEF AreasExist
  <2>2. mild_case[a] \in Int /\ severe_case[a] \in Int
    BY Constants DEF ReportTypeOK
  <2>3. Shown(mild_case[a]) \in Int /\ Shown(severe_case[a]) \in Int
    BY <2>2, ShownTypes
  <2>. QED  BY <2>1, <2>3
<1>3. PICK f : f = [i \in 1..n |-> line(i)]
  OBVIOUS
<1>4. f \in [1..n -> S]
  BY <1>2, <1>3
<1>5. f \in Seq(S)
  <2>. HIDE DEF S
  <2>. QED  BY <1>4
<1>. QED  BY <1>1, <1>3, <1>5 DEF Replies

LEMMA ServerTypesNext ==
  ASSUME ServerTypes, [ReportNext]_reportVars
  PROVE  ServerTypes'
<1>. USE DEF ServerTypes, Locals
<1>1. CASE UNCHANGED reportVars
  BY <1>1 DEF reportVars, ReportTypeOK, Locals
<1>2. CASE Accept
  BY <1>2, Constants DEF Accept, ReportTypeOK, table
<1>3. CASE AcceptFails
  BY <1>3 DEF AcceptFails, ReportTypeOK, table, connection
<1>4. CASE Read
  <2>1. stream' \in Seq(Requests) /\ command' \in Seq(Requests)
    <3>1. CASE stream = <<>> /\ client = "gone" /\ command' = NotCleared /\ UNCHANGED stream
      BY <3>1, Constants DEF NotCleared, ReportTypeOK
    <3>2. ASSUME NEW n \in 1..Len(stream), command' = SubSeq(stream, 1, n),
                 stream' = SubSeq(stream, n + 1, Len(stream))
          PROVE  stream' \in Seq(Requests) /\ command' \in Seq(Requests)
      <4>1. PICK s \in Seq(Requests), m \in Nat : s = stream /\ m = Len(s)
        BY LenProperties DEF ReportTypeOK
      <4>2. \A i \in 1..m : s[i] \in Requests
        BY <4>1, ElementOfSeq
      <4>3. \A i \in 1..n : s[i] \in Requests
        BY <4>1, <4>2
      <4>4. SubSeq(s, 1, n) \in Seq(Requests)
        BY <4>3, SubSeqProperties
      <4>5. \A i \in (n + 1)..m : s[i] \in Requests
        BY <4>2
      <4>6. n + 1 \in Int /\ m \in Int
        BY <4>1
      <4>7. SubSeq(s, n + 1, m) \in Seq(Requests)
        BY <4>5, <4>6, SubSeqProperties
      <4>. QED  BY <3>2, <4>1, <4>4, <4>7
    <3>. QED  BY <1>4, <3>1, <3>2 DEF Read
  <2>. QED  BY <1>4, <2>1 DEF Read, ReportTypeOK, table
<1>5. CASE ReadFails
  BY <1>5 DEF ReadFails, ReportTypeOK, table, connection
<1>6. CASE Skip
  BY <1>6 DEF Skip, ReportTypeOK, table, connection
<1>7. CASE List
  <2>1. [kind |-> "menu"] \in Replies
    BY DEF Replies
  <2>2. heard' \in Seq(Replies) /\ pc' \in {"read", "ended"}
    BY <1>7, <2>1, WriteTypes DEF List
  <2>. QED  BY <1>7, <2>2 DEF List, ReportTypeOK, table
<1>8. CASE ConfirmedCase
  <2>1. heard' \in Seq(Replies) /\ pc' \in {"read", "ended"}
    BY <1>8, AllTypes, WriteTypes DEF ConfirmedCase
  <2>. QED  BY <1>8, <2>1 DEF ConfirmedCase, ReportTypeOK, table
<1>9. CASE ConfirmedAreas
  <2>1. Options \in Seq(Option)
    BY <1>9, OptionsTypes DEF ConfirmedAreas, Asked
  <2>2. heard' \in Seq(Replies) /\ pc' \in {"read", "ended"}
    BY <1>9, <2>1, AreasTypes, WriteTypes DEF ConfirmedAreas
  <2>. QED  BY <1>9, <2>2 DEF ConfirmedAreas, ReportTypeOK, table
<1>10. CASE ReportingSystem
  <2>1. Options \in Seq(Option)
    BY <1>10, OptionsTypes DEF ReportingSystem, Asked
  <2>2. mild_case' \in [Regions -> 0..(Word - 1)] /\ severe_case' \in [Regions -> 0..(Word - 1)]
    BY <1>10, <2>1, GoodTypes, WithTypes DEF ReportingSystem, ReportTypeOK
  <2>3. heard' \in Seq(Replies) /\ pc' \in {"sleep", "ended"}
    <3>1. [kind |-> "wait"] \in Replies
      BY DEF Replies
    <3>2. CASE Write([kind |-> "wait"], "sleep")
      BY <3>1, <3>2, WriteTypes
    <3>3. CASE pc' = "ended" /\ UNCHANGED heard
      BY <3>3 DEF ReportTypeOK
    <3>. QED  BY <1>10, <3>2, <3>3 DEF ReportingSystem
  <2>. QED  BY <1>10, <2>2, <2>3 DEF ReportingSystem, ReportTypeOK, Asked
<1>11. CASE Wake
  <2>1. Options \in Seq(Option)
    BY <1>11, OptionsTypes DEF Wake
  <2>2. [kind |-> "result", options |-> Options] \in Replies
    BY <2>1 DEF Replies
  <2>3. heard' \in Seq(Replies) /\ pc' \in {"read", "ended"}
    BY <1>11, <2>2, WriteTypes DEF Wake
  <2>. QED  BY <1>11, <2>3 DEF Wake, ReportTypeOK, table
<1>12. CASE FormatError
  BY <1>12 DEF FormatError, ReportTypeOK, table, connection
<1>13. CASE Exit
  BY <1>13, Constants DEF Exit, Overwrite, ReportTypeOK
<1>14. CASE Send
  <2>1. stream' \in Seq(Requests)
    BY <1>14, AppendProperties DEF Send, ReportTypeOK
  <2>2. sent' \in 0..MaxRequests
    BY <1>14, Constants DEF Send, ReportTypeOK
  <2>. QED  BY <1>14, <2>1, <2>2 DEF Send, ReportTypeOK, table
<1>15. CASE Disconnect
  BY <1>15 DEF Disconnect, ReportTypeOK, table
<1>16. CASE interrupt_handler
  BY <1>16 DEF interrupt_handler, ReportTypeOK, table, connection
<1>. QED  BY <1>1, <1>2, <1>3, <1>4, <1>5, <1>6, <1>7, <1>8, <1>9, <1>10, <1>11, <1>12, <1>13,
            <1>14, <1>15, <1>16 DEF ReportNext, Server

\* The tables hold unsigned ints, whatever numbers are reported, requests and answers
\* keep their form, for any requests, clients and word (hw2.c:45-209).
THEOREM ReportTypes == ReportSpec => []ReportTypeOK
<1>1. ReportInit => ServerTypes
  BY ServerTypesInit
<1>2. ServerTypes /\ [ReportNext]_reportVars => ServerTypes'
  BY ServerTypesNext
<1>3. ServerTypes => ReportTypeOK
  BY DEF ServerTypes
<1>. QED  BY <1>1, <1>2, <1>3, PTL DEF ReportSpec

-----------------------------------------------------------------------------
(* Sums in a word. *)

\* Numbers agree if words lie between them, ...
LEMMA AgreesBy ==
  ASSUME NEW x \in Int, NEW y \in Int
  PROVE  Agrees(x, y) <=> \E k \in Int : x = y + Word * k
BY Constants, SameInWord DEF Agrees

\* ... which makes an equivalence that sums keep.
LEMMA AgreesSelf == ASSUME NEW x \in Int PROVE Agrees(x, x)
<1>1. x = x + Word * 0
  BY Constants
<1>. QED  BY <1>1, AgreesBy

LEMMA AgreesSum ==
  ASSUME NEW x \in Int, NEW y \in Int, NEW u \in Int, NEW v \in Int,
         Agrees(x, y), Agrees(u, v)
  PROVE  Agrees(x + u, y + v)
<1>1. PICK k \in Int : x = y + Word * k
  BY AgreesBy
<1>2. PICK l \in Int : u = v + Word * l
  BY AgreesBy
<1>3. PICK m \in Int : m = k + l
  OBVIOUS
<1>4. Word * m = Word * k + Word * l
  BY <1>3, Constants
<1>5. Word * m \in Int /\ Word * k \in Int /\ Word * l \in Int
  BY Constants
<1>6. x + u = (y + v) + Word * m
  BY <1>1, <1>2, <1>4, <1>5
<1>. QED  BY <1>6, AgreesBy

LEMMA AgreesTrans ==
  ASSUME NEW x \in Int, NEW y \in Int, NEW z \in Int, Agrees(x, y), Agrees(y, z)
  PROVE  Agrees(x, z)
<1>1. PICK k \in Int : x = y + Word * k
  BY AgreesBy
<1>2. PICK l \in Int : y = z + Word * l
  BY AgreesBy
<1>3. PICK m \in Int : m = k + l
  OBVIOUS
<1>4. Word * m = Word * k + Word * l
  BY <1>3, Constants
<1>5. Word * m \in Int /\ Word * k \in Int /\ Word * l \in Int
  BY Constants
<1>6. x = z + Word * m
  BY <1>1, <1>2, <1>4, <1>5
<1>. QED  BY <1>6, AgreesBy

\* The remainder, and what printf makes of it, are the same in a word.
LEMMA AgreesRemainder ==
  ASSUME NEW x \in Int
  PROVE  x % Word \in Int /\ Agrees(x % Word, x)
<1>1. x = Word * (x \div Word) + (x % Word) /\ x \div Word \in Int /\ x % Word \in Int
  <2>1. Word \in Nat \ {0} /\ Word \in Int /\ \A r \in 0..(Word - 1) : r \in Int
    BY Constants
  <2>2. x = Word * (x \div Word) + (x % Word) /\ x \div Word \in Int /\ x % Word \in 0..(Word - 1)
    BY <2>1, QuotientRemainder
  <2>. QED  BY <2>1, <2>2
<1>2. PICK q \in Int, r \in Int : q = x \div Word /\ r = x % Word
  BY <1>1
<1>3. PICK l \in Int : l = -q
  OBVIOUS
<1>4. Word * l = -(Word * q) /\ Word * q \in Int
  BY <1>3, Constants
<1>5. r = x + Word * l
  BY <1>1, <1>2, <1>4
<1>. QED  BY <1>2, <1>5, AgreesBy

LEMMA AgreesShown ==
  ASSUME NEW x \in Int
  PROVE  Shown(x) \in Int /\ Agrees(Shown(x), x)
<1>1. x - Word = x + Word * (-1) /\ x - Word \in Int
  BY Constants
<1>2. Agrees(x - Word, x)
  BY <1>1, AgreesBy
<1>. QED  BY <1>1, <1>2, AgreesSelf DEF Shown

-----------------------------------------------------------------------------
(* The tables. *)

\* A table holds what the answers confirmed, and the options.
Holds(cases, degree, options, answers) ==
  \A a \in Regions : Agrees(cases[a], ConfirmedBy(answers, Len(answers) + 1, a, {degree})
                                        + Total(options, a, {degree}))

\* All answers confirm.
LEMMA ConfirmedSoFar ==
  ASSUME NEW answers \in Seq(Replies), NEW area
  PROVE  /\ \A degrees : ConfirmedBy(answers, Len(answers) + 1, area, degrees) \in Int
         /\ ConfirmedBy(answers, Len(answers) + 1, area, Degrees) =
              ConfirmedBy(answers, Len(answers) + 1, area, {"Mild"})
                + ConfirmedBy(answers, Len(answers) + 1, area, {"Severe"})
<1>1. Len(answers) \in Nat /\ Len(answers) <= Len(answers)
  BY LenProperties
<1>. QED  BY <1>1, ConfirmedTypes

\* The next client starts with nothing reported and nothing in the tables.
LEMMA NothingHeld == ASSUME NEW degree PROVE Holds(NoCases, degree, <<>>, <<>>)
<1>1. ASSUME NEW a \in Regions
      PROVE  Agrees(NoCases[a], ConfirmedBy(<<>>, Len(<<>>) + 1, a, {degree}) + Total(<<>>, a, {degree}))
  <2>. DEFINE f == [j \in 1..(Len(<<>>) + 1 - 1) |-> Confirms(<<>>[j], a, {degree})]
  <2>1. DOMAIN f = {}
    OBVIOUS
  <2>2. SumFunction(f) = 0
    BY <2>1, SumEmpty DEF SumFunction
  <2>3. ConfirmedBy(<<>>, Len(<<>>) + 1, a, {degree}) = 0
    BY <2>2 DEF ConfirmedBy
  <2>4. NoCases[a] = 0 /\ Total(<<>>, a, {degree}) = 0
    BY TotalOfNothing DEF NoCases
  <2>. QED  BY <2>3, <2>4, AgreesSelf
<1>. QED  BY <1>1 DEF Holds

\* Another answer confirms nothing, ...
LEMMA HoldsMore ==
  ASSUME NEW cases, NEW degree, NEW options, NEW answers \in Seq(Replies), NEW answer \in Replies,
         answer.kind /= "result", Holds(cases, degree, options, answers)
  PROVE  Holds(cases, degree, options, Append(answers, answer))
<1>1. ASSUME NEW a \in Regions
      PROVE  ConfirmedBy(Append(answers, answer), Len(Append(answers, answer)) + 1, a, {degree})
               = ConfirmedBy(answers, Len(answers) + 1, a, {degree})
  <2>1. Len(Append(answers, answer)) + 1 = Len(answers) + 2
    BY AppendProperties, LenProperties
  <2>2. Confirms(answer, a, {degree}) = 0
    BY DEF Confirms
  <2>3. PICK x \in Int : x = ConfirmedBy(answers, Len(answers) + 1, a, {degree})
    BY ConfirmedSoFar
  <2>. QED  BY <2>1, <2>2, <2>3, AnswerMore
<1>. QED  BY <1>1 DEF Holds

\* ... a result the options.
LEMMA HoldsConfirmed ==
  ASSUME NEW cases, NEW degree, NEW options \in Seq(Option), NEW answers \in Seq(Replies),
         NEW answer, answer = [kind |-> "result", options |-> options],
         Holds(cases, degree, options, answers)
  PROVE  answer \in Replies /\ Holds(cases, degree, <<>>, Append(answers, answer))
<1>1. answer \in Replies
  BY DEF Replies
<1>2. ASSUME NEW a \in Regions
      PROVE  ConfirmedBy(Append(answers, answer), Len(Append(answers, answer)) + 1, a, {degree})
               + Total(<<>>, a, {degree})
               = ConfirmedBy(answers, Len(answers) + 1, a, {degree}) + Total(options, a, {degree})
  <2>1. Len(Append(answers, answer)) + 1 = Len(answers) + 2
    BY <1>1, AppendProperties, LenProperties
  <2>2. Confirms(answer, a, {degree}) = Total(options, a, {degree})
    BY DEF Confirms
  <2>3. PICK x \in Int, y \in Int : x = ConfirmedBy(answers, Len(answers) + 1, a, {degree})
                                    /\ y = Total(options, a, {degree})
    BY ConfirmedSoFar, TotalTypes
  <2>4. ConfirmedBy(Append(answers, answer), Len(answers) + 2, a, {degree}) = x + y
    BY <1>1, <2>2, <2>3, AnswerMore
  <2>. QED  BY <2>1, <2>3, <2>4, TotalOfNothing
<1>. QED  BY <1>1, <1>2 DEF Holds

\* A report puts its options into the table.
LEMMA HoldsReport ==
  ASSUME NEW cases \in [Regions -> 0..(Word - 1)], NEW degree,
         NEW options \in Seq(Option), NEW answers \in Seq(Replies), Holds(cases, degree, <<>>, answers)
  PROVE  Holds([a \in Regions |-> (cases[a] + Total(options, a, {degree})) % Word], degree, options, answers)
<1>1. ASSUME NEW a \in Regions
      PROVE  Agrees((cases[a] + Total(options, a, {degree})) % Word,
                    ConfirmedBy(answers, Len(answers) + 1, a, {degree}) + Total(options, a, {degree}))
  <2>1. PICK x \in Int, y \in Int, z \in Int :
          /\ x = ConfirmedBy(answers, Len(answers) + 1, a, {degree})
          /\ y = Total(options, a, {degree}) /\ z = cases[a]
    <3>1. ConfirmedBy(answers, Len(answers) + 1, a, {degree}) \in Int
      BY ConfirmedSoFar
    <3>2. Total(options, a, {degree}) \in Int
      BY TotalTypes
    <3>3. cases[a] \in Int
      BY Constants
    <3>. QED  BY <3>1, <3>2, <3>3
  <2>2. Agrees(z, x)
    <3>1. Agrees(z, x + 0)
      BY <2>1, TotalOfNothing DEF Holds
    <3>. QED  BY <3>1
  <2>3. Agrees(z + y, x + y)
    BY <2>2, AgreesSelf, AgreesSum
  <2>4. PICK s \in Int : s = z + y
    OBVIOUS
  <2>5. Agrees(s % Word, s) /\ s % Word \in Int
    BY AgreesRemainder
  <2>6. Agrees(s % Word, x + y)
    <3>1. x + y \in Int
      OBVIOUS
    <3>. QED  BY <2>3, <2>4, <2>5, <3>1, AgreesTrans
  <2>. QED  BY <2>1, <2>4, <2>6
<1>. QED  BY <1>1 DEF Holds

-----------------------------------------------------------------------------
(* The answers. *)

\* A listing that is the i-th of the answers tells what those before it confirmed.
TellsOf(answer, answers, i) ==
  /\ answer.kind = "all" =>
       \A a \in Regions : Agrees(answer.cases[a], ConfirmedBy(answers, i, a, Degrees))
  /\ answer.kind = "areas" =>
       \A k \in DOMAIN answer.cases :
         LET c == answer.cases[k]
         IN  /\ Agrees(c.Mild, ConfirmedBy(answers, i, c.area, {"Mild"}))
             /\ Agrees(c.Severe, ConfirmedBy(answers, i, c.area, {"Severe"}))
AllTell(answers) == \A i \in DOMAIN answers : TellsOf(answers[i], answers, i)

\* The property in terms of the answers.
LEMMA TellingIs == /\ ListingsTellReports <=> AllTell(heard)
                   /\ ListingsTellReports' <=> AllTell(heard')
<1>1. ASSUME NEW i
      PROVE  /\ Tells(heard[i], i) <=> TellsOf(heard[i], heard, i)
             /\ Tells(heard[i], i)' <=> TellsOf(heard[i]', heard', i)
  BY ReportedIs, ReportedWillBe DEF Tells, TellsOf
<1>. QED  BY <1>1 DEF ListingsTellReports, AllTell

\* A right answer more.
LEMMA TellsMore ==
  ASSUME NEW answers \in Seq(Replies), NEW answer \in Replies, AllTell(answers),
         TellsOf(answer, answers, Len(answers) + 1)
  PROVE  AllTell(Append(answers, answer))
<1>1. PICK m \in Nat : m = Len(answers) /\ DOMAIN answers = 1..m
  BY LenProperties
<1>2. PICK more \in Seq(Replies) : /\ more = Append(answers, answer) /\ DOMAIN more = 1..(m + 1)
                                   /\ \A j \in 1..m : more[j] = answers[j]
                                   /\ more[m + 1] = answer
  <2>1. PICK more : more = Append(answers, answer)
    OBVIOUS
  <2>2. /\ more \in Seq(Replies) /\ Len(more) = m + 1
        /\ \A j \in 1..m : more[j] = answers[j]
        /\ more[m + 1] = answer
    BY <1>1, <2>1, AppendProperties
  <2>3. DOMAIN more = 1..(m + 1)
    BY <2>2, LenProperties
  <2>. QED  BY <2>1, <2>2, <2>3
<1>3. ASSUME NEW i \in 1..(m + 1), NEW area, NEW degrees
      PROVE  ConfirmedBy(more, i, area, degrees) = ConfirmedBy(answers, i, area, degrees)
  <2>1. PICK n \in 0..m : i = n + 1
    <3>1. i - 1 \in 0..m /\ i = (i - 1) + 1
      OBVIOUS
    <3>. QED  BY <3>1
  <2>2. n \in 0..Len(answers)
    BY <1>1
  <2>3. ConfirmedBy(more, n + 1, area, degrees) = ConfirmedBy(answers, n + 1, area, degrees)
    BY <1>2, <2>2, AnswerLeaves
  <2>. QED  BY <2>1, <2>3
<1>4. ASSUME NEW i \in 1..(m + 1) PROVE TellsOf(more[i], more, i)
  <2>1. TellsOf(more[i], answers, i)
    <3>1. CASE i \in 1..m
      BY <1>1, <1>2, <3>1 DEF AllTell
    <3>2. CASE i = m + 1
      BY <1>1, <1>2, <3>2
    <3>. QED  BY <3>1, <3>2
  <2>. QED  BY <1>3, <2>1 DEF TellsOf
<1>. QED  BY <1>2, <1>4 DEF AllTell

\* "Confirmed case" adds the two tables, ...
LEMMA ListingTells ==
  ASSUME NEW mild \in [Regions -> 0..(Word - 1)],
         NEW severe \in [Regions -> 0..(Word - 1)], NEW answers \in Seq(Replies),
         Holds(mild, "Mild", <<>>, answers), Holds(severe, "Severe", <<>>, answers)
  PROVE  TellsOf([kind |-> "all", cases |-> [a \in Regions |-> Shown((mild[a] + severe[a]) % Word)]],
                 answers, Len(answers) + 1)
<1>1. ASSUME NEW a \in Regions
      PROVE  Agrees(Shown((mild[a] + severe[a]) % Word), ConfirmedBy(answers, Len(answers) + 1, a, Degrees))
  <2>1. PICK x \in Int, y \in Int : x = mild[a] /\ y = severe[a]
    BY Constants
  <2>2. PICK u \in Int, v \in Int : /\ u = ConfirmedBy(answers, Len(answers) + 1, a, {"Mild"})
                                    /\ v = ConfirmedBy(answers, Len(answers) + 1, a, {"Severe"})
    BY ConfirmedSoFar
  <2>3. Agrees(x, u) /\ Agrees(y, v)
    <3>1. Agrees(x, u + 0) /\ Agrees(y, v + 0)
      BY <2>1, <2>2, TotalOfNothing DEF Holds
    <3>. QED  BY <3>1
  <2>4. PICK s \in Int, t \in Int : s = x + y /\ t = u + v
    OBVIOUS
  <2>5. Agrees(s, t)
    BY <2>3, <2>4, AgreesSum
  <2>6. s % Word \in Int /\ Agrees(s % Word, s)
    BY AgreesRemainder
  <2>7. PICK r \in Int : r = s % Word
    BY <2>6
  <2>8. Shown(r) \in Int /\ Agrees(Shown(r), r)
    BY AgreesShown
  <2>9. Agrees(r, t)
    BY <2>5, <2>6, <2>7, AgreesTrans
  <2>10. Agrees(Shown(r), t)
    BY <2>8, <2>9, AgreesTrans
  <2>11. t = ConfirmedBy(answers, Len(answers) + 1, a, Degrees)
    BY <2>2, <2>4, ConfirmedSoFar
  <2>. QED  BY <2>1, <2>4, <2>7, <2>10, <2>11
<1>. QED  BY <1>1 DEF TellsOf

\* ... and with areas shows a line of each.
LEMMA LinesTell ==
  ASSUME NEW mild \in [Regions -> 0..(Word - 1)],
         NEW severe \in [Regions -> 0..(Word - 1)], NEW answers \in Seq(Replies),
         Holds(mild, "Mild", <<>>, answers), Holds(severe, "Severe", <<>>, answers),
         NEW options, \A i \in DOMAIN options : options[i].area \in Regions
  PROVE  TellsOf([kind |-> "areas",
                  cases |-> [i \in DOMAIN options |->
                               [area |-> options[i].area, Mild |-> Shown(mild[options[i].area]),
                                Severe |-> Shown(severe[options[i].area])]]], answers, Len(answers) + 1)
<1>1. ASSUME NEW a \in Regions
      PROVE  /\ Agrees(Shown(mild[a]), ConfirmedBy(answers, Len(answers) + 1, a, {"Mild"}))
             /\ Agrees(Shown(severe[a]), ConfirmedBy(answers, Len(answers) + 1, a, {"Severe"}))
  <2>1. PICK x \in Int, y \in Int : x = mild[a] /\ y = severe[a]
    BY Constants
  <2>2. PICK u \in Int, v \in Int : /\ u = ConfirmedBy(answers, Len(answers) + 1, a, {"Mild"})
                                    /\ v = ConfirmedBy(answers, Len(answers) + 1, a, {"Severe"})
    BY ConfirmedSoFar
  <2>3. Agrees(x, u) /\ Agrees(y, v)
    <3>1. Agrees(x, u + 0) /\ Agrees(y, v + 0)
      BY <2>1, <2>2, TotalOfNothing DEF Holds
    <3>. QED  BY <3>1
  <2>4. Shown(x) \in Int /\ Agrees(Shown(x), x) /\ Shown(y) \in Int /\ Agrees(Shown(y), y)
    BY AgreesShown
  <2>5. Agrees(Shown(x), u) /\ Agrees(Shown(y), v)
    BY <2>3, <2>4, AgreesTrans
  <2>. QED  BY <2>1, <2>2, <2>5
<1>. QED  BY <1>1 DEF TellsOf

-----------------------------------------------------------------------------
(* The invariant. *)

Kept(options) == /\ Holds(mild_case, "Mild", options, heard)
                 /\ Holds(severe_case, "Severe", options, heard)

\* A connected client's answers confirm what the tables hold, but for the report that
\* the server sleeps on; between two clients the tables are empty.
Tables ==
  /\ pc = "accept" => mild_case = NoCases /\ severe_case = NoCases
  /\ client = "connected" /\ pc \in {"read", "perform"} => Kept(<<>>)
  /\ client = "connected" /\ pc = "sleep" => Kept(Options)

ServerInv == ServerTypes /\ Tables /\ ListingsTellReports

LEMMA ServerInvInit == ReportInit => ServerInv
<1>. SUFFICES ASSUME ReportInit PROVE ServerInv
  OBVIOUS
<1>1. ServerTypes
  BY ServerTypesInit
<1>2. Tables
  BY DEF ReportInit, Tables
<1>3. ListingsTellReports
  BY DEF ReportInit, ListingsTellReports
<1>. QED  BY <1>1, <1>2, <1>3 DEF ServerInv

\* A step that leaves the tables and the answers.
LEMMA KeptStays ==
  ASSUME NEW options, UNCHANGED <<table, heard>>
  PROVE  Kept(options)' <=> Kept(options)
BY DEF Kept, Holds, table

\* Nor does a step that writes no answer change what they tell.
LEMMA TellingStays ==
  ASSUME ListingsTellReports, UNCHANGED heard
  PROVE  ListingsTellReports'
BY TellingIs

\* Writing an answer that confirms nothing.
LEMMA WriteKeeps ==
  ASSUME ReportTypeOK, NEW answer \in Replies, answer.kind /= "result",
         Write(answer, "read"), client = "connected" => Kept(<<>>) /\ TellsOf(answer, heard, Len(heard) + 1),
         UNCHANGED <<table, client>>, ListingsTellReports
  PROVE  Tables' /\ ListingsTellReports'
<1>1. CASE socket = "open" /\ client = "connected" /\ heard' = Append(heard, answer) /\ pc' = "read"
  <2>1. PICK answers \in Seq(Replies) : answers = heard
    BY DEF ReportTypeOK
  <2>2. AllTell(heard')
    BY <1>1, <2>1, TellingIs, TellsMore
  <2>3. PICK m, v : m = mild_case /\ v = severe_case
    OBVIOUS
  <2>4. Holds(m, "Mild", <<>>, Append(answers, answer)) /\ Holds(v, "Severe", <<>>, Append(answers, answer))
    BY <1>1, <2>1, <2>3, HoldsMore DEF Kept
  <2>5. mild_case' = m /\ severe_case' = v
    BY <2>3 DEF table
  <2>6. Kept(<<>>)'
    BY <1>1, <2>1, <2>4, <2>5 DEF Kept
  <2>. QED  BY <1>1, <2>2, <2>6, TellingIs DEF Tables
<1>2. CASE client = "gone" /\ UNCHANGED heard /\ pc' = "read"
  BY <1>2, TellingStays DEF Tables
<1>3. CASE UNCHANGED heard /\ pc' = "ended"
  BY <1>3, TellingStays DEF Tables
<1>. QED  BY <1>1, <1>2, <1>3 DEF Write

\* Reports go from the request to the table, and by the result to what was reported.
LEMMA ServerInvNext ==
  ASSUME ServerInv, [ReportNext]_reportVars
  PROVE  ServerInv'
<1>. USE DEF ServerInv
<1>1. ServerTypes'
  BY ServerTypesNext
<1>2. ReportTypeOK /\ Locals
  BY DEF ServerTypes
<1>3. CASE UNCHANGED reportVars
  <2>1. UNCHANGED <<table, heard>> /\ UNCHANGED <<pc, client, command>>
    BY <1>3 DEF reportVars, table
  <2>2. Options' = Options
    BY <2>1 DEF Options
  <2>3. Kept(<<>>)' <=> Kept(<<>>)
    BY <2>1, KeptStays
  <2>4. Kept(Options)' <=> Kept(Options)
    BY <2>1, <2>2 DEF Kept, Holds, table
  <2>. QED  BY <1>1, <2>1, <2>3, <2>4, TellingStays DEF Tables, table
<1>4. CASE Accept
  <2>1. heard' = <<>> /\ pc' = "read" /\ UNCHANGED table /\ mild_case = NoCases /\ severe_case = NoCases
    BY <1>4 DEF Accept, Tables
  <2>2. mild_case' = NoCases /\ severe_case' = NoCases
    BY <2>1 DEF table
  <2>3. Kept(<<>>)'
    BY <2>1, <2>2, NothingHeld DEF Kept
  <2>4. ListingsTellReports'
    BY <2>1, TellingIs DEF AllTell
  <2>. QED  BY <1>1, <2>1, <2>3, <2>4 DEF Tables
<1>5. CASE Read
  <2>1. UNCHANGED <<table, heard, client>> /\ pc = "read" /\ pc' = "perform"
    BY <1>5 DEF Read, table
  <2>. QED  BY <1>1, <2>1, KeptStays, TellingStays DEF Tables
<1>6. CASE Skip
  <2>1. UNCHANGED <<table, heard, client>> /\ pc = "perform" /\ pc' = "read"
    BY <1>6 DEF Skip, table, connection
  <2>. QED  BY <1>1, <2>1, KeptStays, TellingStays DEF Tables
<1>7. CASE AcceptFails \/ ReadFails \/ FormatError
  <2>1. UNCHANGED heard /\ pc' = "ended"
    BY <1>7 DEF AcceptFails, ReadFails, FormatError, connection
  <2>. QED  BY <1>1, <2>1, TellingStays DEF Tables
<1>8. CASE List
  <2>1. [kind |-> "menu"] \in Replies /\ [kind |-> "menu"].kind = "menu"
    BY DEF Replies
  <2>2. client = "connected" => Kept(<<>>)
    BY <1>8 DEF List, Asked, Tables
  <2>3. TellsOf([kind |-> "menu"], heard, Len(heard) + 1)
    BY DEF TellsOf
  <2>4. Write([kind |-> "menu"], "read") /\ UNCHANGED <<table, client>>
    BY <1>8 DEF List
  <2>. QED  BY <1>1, <1>2, <2>1, <2>2, <2>3, <2>4, WriteKeeps
<1>9. CASE ConfirmedCase
  <2>. DEFINE answer == [kind |-> "all",
                         cases |-> [a \in Regions |-> Shown((mild_case[a] + severe_case[a]) % Word)]]
  <2>1. answer \in Replies /\ answer.kind = "all"
    BY <1>2, AllTypes
  <2>2. client = "connected" => Kept(<<>>)
    BY <1>9 DEF ConfirmedCase, Asked, Tables
  <2>3. client = "connected" => TellsOf(answer, heard, Len(heard) + 1)
    <3>1. PICK m \in [Regions -> 0..(Word - 1)], v \in [Regions -> 0..(Word - 1)] :
             m = mild_case /\ v = severe_case
      BY <1>2 DEF ReportTypeOK
    <3>2. PICK answers \in Seq(Replies) : answers = heard
      BY <1>2 DEF ReportTypeOK
    <3>3. ASSUME client = "connected"
          PROVE  TellsOf([kind |-> "all", cases |-> [a \in Regions |-> Shown((m[a] + v[a]) % Word)]],
                         answers, Len(answers) + 1)
      <4>1. Holds(m, "Mild", <<>>, answers) /\ Holds(v, "Severe", <<>>, answers)
        BY <2>2, <3>1, <3>2, <3>3 DEF Kept
      <4>. QED  BY <4>1, ListingTells
    <3>. QED  BY <3>1, <3>2, <3>3
  <2>4. Write(answer, "read") /\ UNCHANGED <<table, client>>
    BY <1>9 DEF ConfirmedCase
  <2>. HIDE DEF answer
  <2>. QED  BY <1>1, <1>2, <2>1, <2>2, <2>3, <2>4, WriteKeeps
<1>10. CASE ConfirmedAreas
  <2>. DEFINE answer == [kind |-> "areas",
                         cases |-> [i \in DOMAIN Options |->
                                      [area |-> Options[i].area,
                                       Mild |-> Shown(mild_case[Options[i].area]),
                                       Severe |-> Shown(severe_case[Options[i].area])]]]
  <2>0. Options \in Seq(Option)
    BY <1>2, <1>10, OptionsTypes DEF ConfirmedAreas, Asked
  <2>1. answer \in Replies /\ answer.kind = "areas" /\ AreasExist
    <3>1. Options \in Seq(Option) /\ AreasExist
      BY <1>2, <1>10, OptionsTypes DEF ConfirmedAreas, Asked
    <3>. QED  BY <1>2, <3>1, AreasTypes
  <2>2. client = "connected" => Kept(<<>>)
    BY <1>10 DEF ConfirmedAreas, Asked, Tables
  <2>3. client = "connected" => TellsOf(answer, heard, Len(heard) + 1)
    <3>1. PICK m \in [Regions -> 0..(Word - 1)], v \in [Regions -> 0..(Word - 1)] :
             m = mild_case /\ v = severe_case
      BY <1>2 DEF ReportTypeOK
    <3>2. PICK answers \in Seq(Replies), options \in Seq(Option) : answers = heard /\ options = Options
      BY <1>2, <2>0 DEF ReportTypeOK
    <3>3. ASSUME client = "connected"
          PROVE  TellsOf([kind |-> "areas",
                          cases |-> [i \in DOMAIN options |->
                                       [area |-> options[i].area, Mild |-> Shown(m[options[i].area]),
                                        Severe |-> Shown(v[options[i].area])]]], answers, Len(answers) + 1)
      <4>1. Holds(m, "Mild", <<>>, answers) /\ Holds(v, "Severe", <<>>, answers)
        BY <2>2, <3>1, <3>2, <3>3 DEF Kept
      <4>2. \A i \in DOMAIN options : options[i].area \in Regions
        BY <2>1, <3>2 DEF AreasExist
      <4>. QED  BY <4>1, <4>2, LinesTell
    <3>. QED  BY <3>1, <3>2, <3>3
  <2>4. Write(answer, "read") /\ UNCHANGED <<table, client>>
    BY <1>10 DEF ConfirmedAreas
  <2>. HIDE DEF answer
  <2>. QED  BY <1>1, <1>2, <2>1, <2>2, <2>3, <2>4, WriteKeeps
<1>11. CASE ReportingSystem
  <2>1. pc = "perform" /\ UNCHANGED <<command, client>> /\ Options \in Seq(Option) /\ Good \in Seq(Option)
    <3>1. Options \in Seq(Option)
      BY <1>2, <1>11, OptionsTypes DEF ReportingSystem, Asked
    <3>. QED  BY <1>11, <3>1, GoodTypes DEF ReportingSystem, Asked
  <2>2. CASE pc' = "ended" /\ UNCHANGED heard
    BY <1>1, <2>2, TellingStays DEF Tables
  <2>3. CASE Good = Options /\ Write([kind |-> "wait"], "sleep")
    <3>1. CASE client = "gone" /\ UNCHANGED heard /\ pc' = "sleep"
      BY <1>1, <2>1, <3>1, TellingStays DEF Tables
    <3>2. CASE UNCHANGED heard /\ pc' = "ended"
      BY <1>1, <3>2, TellingStays DEF Tables
    <3>3. CASE client = "connected" /\ heard' = Append(heard, [kind |-> "wait"]) /\ pc' = "sleep"
      <4>1. PICK answers \in Seq(Replies), answer \in Replies :
               answers = heard /\ answer = [kind |-> "wait"] /\ answer.kind = "wait"
        <5>1. [kind |-> "wait"] \in Replies /\ [kind |-> "wait"].kind = "wait"
          BY DEF Replies
        <5>. QED  BY <1>2, <5>1 DEF ReportTypeOK
      <4>2. PICK m \in [Regions -> 0..(Word - 1)], v \in [Regions -> 0..(Word - 1)] :
               m = mild_case /\ v = severe_case
        BY <1>2 DEF ReportTypeOK
      <4>3. PICK options \in Seq(Option) : options = Options
        BY <2>1
      <4>4. Holds(m, "Mild", <<>>, answers) /\ Holds(v, "Severe", <<>>, answers)
        BY <2>1, <3>3, <4>1, <4>2 DEF Tables, Kept
      <4>5. PICK w, z : /\ w = [a \in Regions |-> (m[a] + Total(options, a, {"Mild"})) % Word]
                        /\ z = [a \in Regions |-> (v[a] + Total(options, a, {"Severe"})) % Word]
        OBVIOUS
      <4>6. Holds(w, "Mild", options, answers) /\ Holds(z, "Severe", options, answers)
        BY <4>4, <4>5, HoldsReport
      <4>7. /\ Holds(w, "Mild", options, Append(answers, answer))
            /\ Holds(z, "Severe", options, Append(answers, answer))
        BY <4>1, <4>6, HoldsMore
      <4>8. mild_case' = w /\ severe_case' = z
        BY <1>11, <2>3, <4>2, <4>3, <4>5 DEF ReportingSystem, With
      <4>9. Options' = options /\ heard' = Append(answers, answer)
        BY <2>1, <3>3, <4>1, <4>3 DEF Options
      <4>10. Kept(Options)'
        BY <4>7, <4>8, <4>9 DEF Kept
      <4>11. ListingsTellReports'
        <5>1. TellsOf(answer, answers, Len(answers) + 1)
          BY <4>1 DEF TellsOf
        <5>2. AllTell(answers)
          BY <4>1, TellingIs
        <5>3. AllTell(Append(answers, answer))
          BY <5>1, <5>2, TellsMore
        <5>. QED  BY <4>9, <5>3, TellingIs
      <4>. QED  BY <1>1, <3>3, <4>10, <4>11 DEF Tables
    <3>. QED  BY <2>3, <3>1, <3>2, <3>3 DEF Write
  <2>. QED  BY <1>11, <2>2, <2>3 DEF ReportingSystem
<1>12. CASE Wake
  <2>1. pc = "sleep" /\ UNCHANGED <<table, command, client>> /\ Options \in Seq(Option)
    <3>1. Options \in Seq(Option)
      BY <1>2, <1>12, OptionsTypes DEF Wake, Locals
    <3>. QED  BY <1>12, <3>1 DEF Wake, table
  <2>2. CASE client = "gone" /\ UNCHANGED heard /\ pc' = "read"
    BY <1>1, <2>1, <2>2, TellingStays DEF Tables
  <2>3. CASE UNCHANGED heard /\ pc' = "ended"
    BY <1>1, <2>3, TellingStays DEF Tables
  <2>4. CASE /\ client = "connected" /\ pc' = "read"
             /\ heard' = Append(heard, [kind |-> "result", options |-> Options])
    <3>1. PICK answers \in Seq(Replies), options \in Seq(Option) : answers = heard /\ options = Options
      BY <1>2, <2>1 DEF ReportTypeOK
    <3>2. PICK answer : answer = [kind |-> "result", options |-> options]
      OBVIOUS
    <3>3. PICK m, v : m = mild_case /\ v = severe_case
      OBVIOUS
    <3>4. Holds(m, "Mild", options, answers) /\ Holds(v, "Severe", options, answers)
      BY <2>1, <2>4, <3>1, <3>3 DEF Tables, Kept
    <3>5. /\ answer \in Replies /\ Holds(m, "Mild", <<>>, Append(answers, answer))
          /\ Holds(v, "Severe", <<>>, Append(answers, answer))
      BY <3>2, <3>4, HoldsConfirmed
    <3>6. mild_case' = m /\ severe_case' = v /\ heard' = Append(answers, answer)
      BY <2>1, <2>4, <3>1, <3>2, <3>3 DEF table
    <3>7. Kept(<<>>)'
      BY <3>5, <3>6 DEF Kept
    <3>8. ListingsTellReports'
      <4>1. TellsOf(answer, answers, Len(answers) + 1)
        <5>1. answer.kind = "result"
          BY <3>2
        <5>. QED  BY <5>1 DEF TellsOf
      <4>2. AllTell(answers)
        BY <3>1, TellingIs
      <4>3. AllTell(Append(answers, answer))
        BY <3>5, <4>1, <4>2, TellsMore
      <4>. QED  BY <3>6, <4>3, TellingIs
    <3>. QED  BY <1>1, <2>4, <3>7, <3>8 DEF Tables
  <2>. QED  BY <1>12, <2>2, <2>3, <2>4 DEF Wake, Write
<1>13. CASE Exit
  <2>1. /\ UNCHANGED heard /\ pc' = "accept" /\ client' = "none"
        /\ mild_case' = NoCases /\ severe_case' = NoCases
    BY <1>13 DEF Exit, Overwrite
  <2>. QED  BY <1>1, <2>1, TellingStays DEF Tables
<1>14. CASE Send \/ interrupt_handler
  <2>1. UNCHANGED <<table, heard>> /\ UNCHANGED <<pc, client, command>>
    BY <1>14 DEF Send, interrupt_handler, table, connection
  <2>2. Options' = Options
    BY <2>1 DEF Options
  <2>3. Kept(<<>>)' <=> Kept(<<>>)
    BY <2>1, KeptStays
  <2>4. Kept(Options)' <=> Kept(Options)
    BY <2>1, <2>2 DEF Kept, Holds, table
  <2>. QED  BY <1>1, <2>1, <2>3, <2>4, TellingStays DEF Tables, table
<1>15. CASE Disconnect
  <2>1. UNCHANGED <<table, heard, pc>> /\ client' = "gone"
    BY <1>15 DEF Disconnect, table
  <2>. QED  BY <1>1, <2>1, TellingStays DEF Tables, table
<1>. QED  BY <1>3, <1>4, <1>5, <1>6, <1>7, <1>8, <1>9, <1>10, <1>11, <1>12, <1>13, <1>14, <1>15
          DEF ReportNext, Server

\* A listing shows, in a word, what was reported and confirmed on its connection before
\* it, for any regions, requests, their number and that of the clients (hw2.c:101-206).
THEOREM ListingsTellReportsHolds == ReportSpec => []ListingsTellReports
<1>1. ReportInit => ServerInv
  BY ServerInvInit
<1>2. ServerInv /\ [ReportNext]_reportVars => ServerInv'
  BY ServerInvNext
<1>3. ServerInv => ListingsTellReports
  BY DEF ServerInv
<1>. QED  BY <1>1, <1>2, <1>3, PTL DEF ReportSpec
=============================================================================
