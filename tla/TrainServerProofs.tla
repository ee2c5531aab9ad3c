-------------------------- MODULE TrainServerProofs --------------------------
(***************************************************************************)
(* The types of the train server, whose a taken slot is, and what it takes   *)
(* to leave the slots behind, for every number of slots and trains.          *)
(***************************************************************************)
EXTENDS TrainServer, FiniteSetTheorems, TLAPS

LEMMA SlotsAreWords ==
  /\ Slots \subseteq Words /\ 0 \in Slots
  /\ Words \subseteq 0..(CLIENT_MAXIMUN + Padding)
BY TrainAssumption DEF Slots, Words

Pollers == [pc : {"check", "wait", "compare", "free"}, i : Slots, pid : -1..MaxTrains]

LEMMA NextSlotTypes == ASSUME poller \in Pollers PROVE NextSlot \in Pollers
<1>1. poller.i \in Nat /\ CLIENT_MAXIMUN \in Nat /\ CLIENT_MAXIMUN > 0
  BY TrainAssumption DEF Pollers, Slots
<1>2. (poller.i + 1) % CLIENT_MAXIMUN \in 0..(CLIENT_MAXIMUN - 1)
  BY <1>1
<1>3. 0 \in -1..MaxTrains
  BY TrainAssumption
<1>. QED  BY <1>2, <1>3 DEF NextSlot, Pollers, Slots

\* The first n pids are those of the children there are.
InOrder(n) == \A p \in Pids : child[p] /= "none" <=> p <= n

LEMMA ForkedTypes == Forked \in Nat
<1>1. IsFiniteSet(Pids)
  BY TrainAssumption, FS_Interval DEF Pids
<1>2. IsFiniteSet({p \in Pids : child[p] /= "none"})
  BY <1>1, FS_Subset
<1>. QED  BY <1>2, FS_CardinalityType DEF Forked

LEMMA ForkedInOrder ==
  ASSUME NEW c, NEW n \in 0..MaxTrains, \A p \in Pids : c[p] /= "none" <=> p <= n
  PROVE  Cardinality({p \in Pids : c[p] /= "none"}) = n
<1>1. {p \in Pids : c[p] /= "none"} = 1..n
  BY TrainAssumption DEF Pids
<1>2. Cardinality(1..n) = n
  BY TrainAssumption, FS_Interval
<1>. QED  BY <1>1, <1>2

-----------------------------------------------------------------------------
(* The invariant *)

\* Where main may be in the arrays, and what it may count on.
Placed ==
  /\ main.pc /= "strayed" => main.i \in Words
  /\ main.pc = "fork" => Forked < MaxTrains
  /\ main.pc = "record" => Forked \in Pids /\ \A w \in Words : childs_pid[w] /= Forked

Counted == Forked \in 0..MaxTrains /\ InOrder(Forked)

\* A pid is written once, after its fork.
Known == \A w \in Words : childs_pid[w] /= 0 => childs_pid[w] <= Forked

Distinct == \A v, w \in Words : v /= w /\ childs_pid[v] /= 0 => childs_pid[v] /= childs_pid[w]

\* A taken slot without a pid is the one main is filling.
Named == \A w \in Words : Alive /\ connfd_occupied[w] = 1 /\ childs_pid[w] = 0 => InHand(w)

\* The slots main has looked at in this round, freed since or not, have had a train.
Passed == main.pc /= "ended" => \A w \in Words : w < main.i => childs_pid[w] /= 0

TrainInv == TypeOK /\ Placed /\ Counted /\ Known /\ Distinct /\ Named /\ Passed

LEMMA InvInit == Init => TrainInv
<1> SUFFICES ASSUME Init PROVE TrainInv
  OBVIOUS
<1>1. TypeOK
  <2>1. 0 \in 0..(CLIENT_MAXIMUN + Padding) /\ 0 \in Slots /\ 0 \in -1..MaxTrains
    BY SlotsAreWords, TrainAssumption
  <2>2. main \in [pc : {"search", "accept", "fork", "record", "strayed", "ended"},
                  i : 0..(CLIENT_MAXIMUN + Padding)]
    BY <2>1 DEF Init
  <2>3. poller \in [pc : {"check", "wait", "compare", "free"}, i : Slots, pid : -1..MaxTrains]
    BY <2>1 DEF Init
  <2>4. /\ connfd_occupied \in [Words -> 0..1] /\ childs_pid \in [Words -> {0} \cup Pids]
        /\ child \in [Pids -> {"none", "running", "zombie", "polled", "handled"}]
    BY DEF Init
  <2>. QED  BY <2>2, <2>3, <2>4 DEF Init, TypeOK
<1>2. InOrder(0)
  BY DEF Init, InOrder, Pids
<1>3. Forked = 0
  BY <1>2, ForkedInOrder, TrainAssumption DEF InOrder, Forked
<1>4. Counted
  BY <1>2, <1>3, TrainAssumption DEF Counted
<1>5. Placed /\ Known /\ Distinct /\ Named /\ Passed
  BY SlotsAreWords DEF Init, Placed, Known, Distinct, Named, Passed, Words
<1>. QED  BY <1>1, <1>4, <1>5 DEF TrainInv

\* A step that adds no child leaves the count alone.
LEMMA SameChildren ==
  ASSUME \A p \in Pids : child'[p] = "none" <=> child[p] = "none"
  PROVE  Forked' = Forked /\ (Counted => Counted')
<1>1. {p \in Pids : child'[p] /= "none"} = {p \in Pids : child[p] /= "none"}
  OBVIOUS
<1>2. Forked' = Forked
  BY <1>1 DEF Forked
<1>. QED  BY <1>2 DEF Counted, InOrder

\* A step of the other thread or of a handler.
LEMMA InvOthers ==
  ASSUME TrainInv, TypeOK', UNCHANGED <<main, childs_pid>>,
         \A p \in Pids : child'[p] = "none" <=> child[p] = "none",
         \A w \in Words : connfd_occupied'[w] = 1 => connfd_occupied[w] = 1
  PROVE  TrainInv'
<1>1. Forked' = Forked /\ Counted'
  BY SameChildren DEF TrainInv
<1>. QED  BY <1>1 DEF TrainInv, Placed, Known, Distinct, Named, Passed, InHand, Alive

-----------------------------------------------------------------------------
(* main *)

LEMMA InvSearch == ASSUME TrainInv, Search PROVE TrainInv'
<1>1. /\ main.i \in Words /\ main.pc = "search" /\ TypeOK
      /\ UNCHANGED <<childs_pid, poller, child, sigchld, reaping, socket>>
  BY DEF TrainInv, Placed, Search
<1>2. Forked' = Forked /\ Counted'
  BY <1>1, SameChildren DEF TrainInv
<1>3. CASE connfd_occupied[main.i] = 1
  <2>1. childs_pid[main.i] /= 0
    BY <1>1, <1>3 DEF TrainInv, Named, InHand, Alive
  <2>2. CASE main.i + 1 \in Words
    <3>1. main' = [main EXCEPT !.i = @ + 1] /\ UNCHANGED connfd_occupied
      BY <1>3, <2>2 DEF Search
    <3>2. TypeOK'
      BY <1>1, <2>2, <3>1, SlotsAreWords DEF TypeOK
    <3>3. \A w \in Words : w < main.i + 1 => w < main.i \/ w = main.i
      BY <1>1, TrainAssumption DEF Words
    <3>. QED  BY <1>1, <1>2, <2>1, <2>2, <3>1, <3>2, <3>3
              DEF TypeOK, TrainInv, Placed, Known, Distinct, Named, Passed, InHand, Alive
  <2>3. CASE main.i + 1 \notin Words
    <3>1. /\ main' = [pc |-> "strayed", i |-> CLIENT_MAXIMUN + Padding]
          /\ UNCHANGED connfd_occupied
      BY <1>3, <2>3 DEF Search
    <3>2. TypeOK'
      BY <1>1, <3>1, TrainAssumption DEF TypeOK
    <3>3. \A w \in Words : w < main.i \/ w = main.i
      BY <1>1, <2>3, TrainAssumption DEF Words
    <3>. QED  BY <1>1, <1>2, <2>1, <3>1, <3>2, <3>3
              DEF TrainInv, Placed, Known, Distinct, Named, Passed, InHand, Alive
  <2>. QED  BY <2>2, <2>3
<1>4. CASE connfd_occupied[main.i] /= 1
  <2>1. /\ main' = [main EXCEPT !.pc = "accept"]
        /\ connfd_occupied' = [connfd_occupied EXCEPT ![main.i] = 1]
    BY <1>4 DEF Search
  <2>2. TypeOK'
    BY <1>1, <2>1 DEF TypeOK
  <2>. QED  BY <1>1, <1>2, <2>1, <2>2
            DEF TypeOK, TrainInv, Placed, Known, Distinct, Named, Passed, InHand, Alive
<1>. QED  BY <1>3, <1>4

\* The steps that only move main on, or end it.
LEMMA InvMoves == ASSUME TrainInv, Accept \/ AcceptFails \/ ForkFails PROVE TrainInv'
<1>1. /\ \E next \in {"fork", "ended"} : main' = [main EXCEPT !.pc = next]
      /\ main.pc \in {"accept", "fork"} /\ (main'.pc = "fork" => Forked < MaxTrains)
      /\ UNCHANGED <<connfd_occupied, childs_pid, child>>
  BY DEF Accept, AcceptFails, ForkFails, TrainInv, TypeOK
<1>2. Forked' = Forked /\ Counted'
  BY <1>1, SameChildren DEF TrainInv
<1>3. TypeOK'
  <2>1. main' \in [pc : {"search", "accept", "fork", "record", "strayed", "ended"},
                   i : 0..(CLIENT_MAXIMUN + Padding)]
    BY <1>1 DEF TrainInv, TypeOK
  <2>2. /\ UNCHANGED <<connfd_occupied, childs_pid, poller, child, sigchld, reaping>>
        /\ socket' \in {"open", "closed", "waited"}
    BY DEF TrainInv, TypeOK, Accept, AcceptFails, ForkFails
  <2>. QED  BY <2>1, <2>2 DEF TrainInv, TypeOK
<1>4. main.pc \in {"accept", "fork"} /\ main'.i = main.i /\ main'.pc \in {"fork", "ended"}
  <2>1. PICK next \in {"fork", "ended"} : main' = [main EXCEPT !.pc = next]
    BY <1>1
  <2>2. main'.pc = next /\ main'.i = main.i
    BY <2>1 DEF TrainInv, TypeOK
  <2>. QED  BY <1>1, <2>2
<1>5. Placed'
  BY <1>1, <1>2, <1>4 DEF TrainInv, Placed
<1>. QED  BY <1>1, <1>2, <1>3, <1>4, <1>5
          DEF TrainInv, Known, Distinct, Named, Passed, InHand, Alive

\* The new child is one more, and no slot has its pid.
LEMMA InvFork == ASSUME TrainInv, Fork PROVE TrainInv'
<1>1. /\ main.pc = "fork" /\ main' = [main EXCEPT !.pc = "record"]
      /\ child' = [child EXCEPT ![Forked + 1] = "running"]
      /\ UNCHANGED <<connfd_occupied, childs_pid, poller, sigchld, reaping, socket>>
      /\ TypeOK
  BY DEF Fork, TrainInv
<1>2. Forked \in 0..MaxTrains /\ Forked + 1 \in Pids /\ InOrder(Forked)
  BY <1>1, TrainAssumption DEF TrainInv, Placed, Counted, Pids
<1>3. \A p \in Pids : child'[p] /= "none" <=> p <= Forked + 1
  <2>1. \A p \in Pids : child'[p] = IF p = Forked + 1 THEN "running" ELSE child[p]
    BY <1>1, <1>2 DEF TypeOK
  <2>2. \A p \in Pids : p <= Forked + 1 <=> p <= Forked \/ p = Forked + 1
    BY <1>2 DEF Pids
  <2>. QED  BY <1>2, <2>1, <2>2 DEF InOrder
<1>4. Forked' = Forked + 1
  <2>1. Forked + 1 \in 0..MaxTrains
    BY <1>2, TrainAssumption DEF Pids
  <2>. QED  BY <1>3, <2>1, ForkedInOrder DEF Forked
<1>5. Counted'
  BY <1>2, <1>3, <1>4, TrainAssumption DEF Counted, InOrder, Pids
<1>6. TypeOK'
  BY <1>1, <1>2 DEF TypeOK
<1>7. Known' /\ \A w \in Words : childs_pid[w] /= Forked + 1
  BY <1>1, <1>2, <1>4, TrainAssumption DEF TrainInv, Known, TypeOK, Pids
<1>8. Placed'
  BY <1>1, <1>2, <1>4, <1>7 DEF TrainInv, Placed, TypeOK
<1>. QED  BY <1>1, <1>5, <1>6, <1>7, <1>8
          DEF TypeOK, TrainInv, Distinct, Named, Passed, InHand, Alive

\* The slot's pid is another slot's from now on no more than before.
LEMMA InvRecord == ASSUME TrainInv, Record PROVE TrainInv'
<1>1. /\ main.pc = "record" /\ main' = [pc |-> "search", i |-> 0]
      /\ childs_pid' = [childs_pid EXCEPT ![main.i] = Forked]
      /\ UNCHANGED <<connfd_occupied, poller, child, sigchld, reaping, socket>>
      /\ TypeOK /\ main.i \in Words
      /\ Forked \in Pids /\ \A w \in Words : childs_pid[w] /= Forked
  BY DEF Record, TrainInv, Placed
<1>2. Forked' = Forked /\ Counted'
  BY <1>1, SameChildren DEF TrainInv
<1>3. \A w \in Words : childs_pid'[w] = IF w = main.i THEN Forked ELSE childs_pid[w]
  BY <1>1 DEF TypeOK
<1>4. Forked \in Nat \ {0}
  BY <1>1 DEF Pids
<1>5. TypeOK' /\ Placed'
  BY <1>1, SlotsAreWords, TrainAssumption DEF TypeOK, Placed
<1>6. Known' /\ Distinct'
  BY <1>1, <1>2, <1>3, <1>4 DEF TrainInv, Known, Distinct
<1>7. Named' /\ Passed'
  BY <1>1, <1>3, <1>4 DEF TrainInv, Named, Passed, InHand, Alive, Words
<1>. QED  BY <1>2, <1>5, <1>6, <1>7 DEF TrainInv

-----------------------------------------------------------------------------

LEMMA InvNext == TrainInv /\ [Next]_vars => TrainInv'
<1> SUFFICES ASSUME TrainInv, [Next]_vars PROVE TrainInv'
  OBVIOUS
<1>t. TypeOK /\ poller \in Pollers /\ NextSlot \in Pollers
  BY NextSlotTypes DEF TrainInv, TypeOK, Pollers
<1>1. CASE Main
  BY <1>1, InvSearch, InvMoves, InvFork, InvRecord DEF Main
<1>2. CASE Check
  BY <1>2, <1>t, InvOthers DEF Check, TypeOK, Pollers
<1>3. CASE Wait
  <2>1. \A p \in Pids : child'[p] = "none" <=> child[p] = "none"
    BY <1>3, <1>t DEF Wait, Zombies, TypeOK
  <2>2. child' \in [Pids -> {"none", "running", "zombie", "polled", "handled"}]
    BY <1>3, <1>t DEF Wait, Zombies, TypeOK
  <2>3. \E pid \in -1..MaxTrains : poller' = [poller EXCEPT !.pc = "compare", !.pid = pid]
    <3>1. Pids \subseteq -1..MaxTrains /\ 0 \in -1..MaxTrains /\ -1 \in -1..MaxTrains
      BY TrainAssumption DEF Pids
    <3>. QED  BY <1>3, <3>1 DEF Wait, Zombies
  <2>4. poller' \in Pollers
    BY <1>t, <2>3 DEF Pollers
  <2>5. TypeOK'
    BY <1>3, <1>t, <2>2, <2>4 DEF Wait, TypeOK, Pollers
  <2>. QED  BY <1>3, <2>1, <2>5, InvOthers DEF Wait
<1>4. CASE Compare
  BY <1>4, <1>t, InvOthers DEF Compare, TypeOK, Pollers
<1>5. CASE Free
  <2>1. /\ connfd_occupied' = [connfd_occupied EXCEPT ![poller.i] = 0] /\ poller' \in Pollers
        /\ UNCHANGED <<main, childs_pid, child, sigchld, reaping, socket>>
    BY <1>5, <1>t DEF Free
  <2>2. TypeOK'
    <3>1. connfd_occupied' \in [Words -> 0..1]
      <4>1. connfd_occupied \in [Words -> 0..1] /\ 0 \in 0..1
        BY <1>t DEF TypeOK
      <4>. QED  BY <2>1, <4>1
    <3>. QED  BY <1>t, <2>1, <3>1 DEF TypeOK, Pollers
  <2>3. \A w \in Words : connfd_occupied'[w] = 1 => connfd_occupied[w] = 1
    BY <1>5, <1>t DEF Free, TypeOK
  <2>. QED  BY <2>1, <2>2, <2>3, InvOthers
<1>6. CASE ZombieProcessHandler
  <2>1. \A p \in Pids : child'[p] = "none" <=> child[p] = "none"
    BY <1>6, <1>t DEF ZombieProcessHandler, Delivered, Reap, ReapedAll, Zombies, TypeOK
  <2>2. TypeOK' /\ UNCHANGED <<main, childs_pid, connfd_occupied>>
    BY <1>6, <1>t DEF ZombieProcessHandler, Delivered, Reap, ReapedAll, Zombies, TypeOK
  <2>. QED  BY <2>1, <2>2, InvOthers
<1>7. CASE InterruptHandler
  BY <1>7, <1>t, InvOthers DEF InterruptHandler, TypeOK
<1>8. ASSUME NEW p \in Pids, Exit(p) \/ Orphaned(p) PROVE TrainInv'
  <2>1. \A q \in Pids : child'[q] = "none" <=> child[q] = "none"
    BY <1>8, <1>t DEF Exit, Orphaned, TypeOK
  <2>2. TypeOK' /\ UNCHANGED <<main, childs_pid, connfd_occupied>>
    BY <1>8, <1>t DEF Exit, Orphaned, TypeOK, Alive
  <2>. QED  BY <2>1, <2>2, InvOthers
<1>9. CASE UNCHANGED vars
  BY <1>9, <1>t, InvOthers DEF vars, TypeOK
<1>. QED  BY <1>1, <1>2, <1>3, <1>4, <1>5, <1>6, <1>7, <1>8, <1>9 DEF Next, WaitForChild

LEMMA InvAlways == Spec => []TrainInv
BY InvInit, InvNext, PTL DEF Spec

\* The types hold for any number of slots and trains.
THEOREM TrainTypes == Spec => []TypeOK
<1>1. TrainInv => TypeOK
  BY DEF TrainInv
<1>. QED  BY <1>1, InvAlways, PTL

\* Whatever the two threads and the handlers reap in which order: a slot that is
\* taken and not in main's hands has a train of its own.
THEOREM TakenForATrainHolds == Spec => []TakenForATrain
<1>1. TrainInv => TakenForATrain
  BY DEF TrainInv, Named, Distinct, TakenForATrain
<1>. QED  BY <1>1, InvAlways, PTL

\* Main leaves the slots only when as many trains have been started as there are
\* slots: the slots it has passed had a train each.
THEOREM StraysOnlyWhenFullHolds == Spec => []StraysOnlyWhenFull
<1>1. ASSUME TrainInv PROVE StraysOnlyWhenFull
  <2> SUFFICES ASSUME main.pc /= "ended", main.i \notin Slots PROVE Forked >= CLIENT_MAXIMUN
    BY DEF StraysOnlyWhenFull
  <2> DEFINE train == [w \in Slots |-> childs_pid[w]]
  <2>1. \A w \in Slots : w < main.i /\ w \in Words
    BY <1>1, SlotsAreWords, TrainAssumption DEF TrainInv, TypeOK, Slots
  <2>2. Forked \in 0..MaxTrains
    BY <1>1 DEF TrainInv, Counted
  <2>3. \A w \in Slots : childs_pid[w] \in 1..Forked
    BY <1>1, <2>1, <2>2, TrainAssumption DEF TrainInv, TypeOK, Passed, Known, Pids
  <2>4. train \in Injection(Slots, 1..Forked)
    BY <1>1, <2>1, <2>3 DEF TrainInv, Distinct, Injection, IsInjective
  <2>5. /\ IsFiniteSet(1..Forked) /\ Cardinality(1..Forked) = Forked
        /\ Cardinality(Slots) = CLIENT_MAXIMUN
    <3>1. 0 \in Int /\ 1 \in Int /\ Forked \in Int /\ CLIENT_MAXIMUN - 1 \in Int
      BY <2>2, TrainAssumption
    <3>2. IsFiniteSet(1..Forked) /\ Cardinality(1..Forked) = IF 1 > Forked THEN 0 ELSE Forked - 1 + 1
      BY <3>1, FS_Interval
    <3>3. Cardinality(Slots) = IF 0 > CLIENT_MAXIMUN - 1 THEN 0 ELSE CLIENT_MAXIMUN - 1 - 0 + 1
      BY <3>1, FS_Interval DEF Slots
    <3>. QED  BY <2>2, <3>2, <3>3, TrainAssumption
  <2>6. Cardinality(Slots) <= Cardinality(1..Forked)
    BY <2>4, <2>5, FS_Injection
  <2>. QED  BY <2>5, <2>6, TrainAssumption, <2>2
<1>. QED  BY <1>1, InvAlways, PTL
=============================================================================
