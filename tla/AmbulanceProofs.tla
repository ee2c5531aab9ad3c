--------------------------- MODULE AmbulanceProofs ---------------------------
(***************************************************************************)
(* The disease-control server, for any clients, regions, reports and         *)
(* queries: its semaphores keep its processes apart, its lists and processes *)
(* keep to their types, no case is lost, a listing lies between what there   *)
(* was and what there is, but for what reports took back, and nobody is      *)
(* answered a whole second before the ambulance came.                        *)
(***************************************************************************)
EXTENDS Ambulance, InductionTheorems, SequenceTheorems, TLAPS

\* Every step says of the two that record how many cases came and went.
USE DEF history

SemTypes ==
  /\ semaCDCSystem \in Int /\ semaBusResult \in [Buses -> Int]
  /\ DOMAIN pc = Clients /\ removed \subseteq {"shm", "semaphores"}

\* The inductive invariant: what is claimed, and its types.
SemInv == SemTypes /\ SemaphoresHeldOnce

\* Where a process is as far as the semaphores are concerned.
Place(p) == IF p \in {"adding", "bus1", "both"} THEN p ELSE "outside"

\* A step that leaves the semaphores and who holds them alone.
LEMMA SemFrame ==
  ASSUME SemInv, UNCHANGED <<semaCDCSystem, semaBusResult, removed>>,
         DOMAIN pc' = Clients,
         \A c \in Clients : Place(pc'[c]) = Place(pc[c])
  PROVE  SemInv'
<1>1. InTables' = InTables /\ \A b \in Buses : InBus(b)' = InBus(b)
  BY DEF InTables, InBus, Place
<1>. QED  BY <1>1 DEF SemInv, SemTypes, SemaphoresHeldOnce, HeldOnce, Buses

\* A client moves on without passing a semaphore.
LEMMA ClientFrame ==
  ASSUME SemInv, NEW c \in Clients, NEW to,
         UNCHANGED <<semaCDCSystem, semaBusResult, removed>>,
         pc' = [pc EXCEPT ![c] = to], Place(to) = Place(pc[c])
  PROVE  SemInv'
<1>1. DOMAIN pc' = Clients /\ \A d \in Clients : Place(pc'[d]) = Place(pc[d])
  BY DEF SemInv, SemTypes
<1>. QED  BY <1>1, SemFrame

\* When something is removed nothing more is claimed.
LEMMA AfterRemoval ==
  ASSUME SemTypes', removed' /= {}
  PROVE  SemInv'
BY DEF SemInv, SemaphoresHeldOnce

\* Client c comes to be at that place, and no other client moves.
MovesTo(c, place) ==
  DOMAIN pc' = Clients /\ pc'[c] = place /\ \A d \in Clients : d /= c => pc'[d] = pc[d]

\* Holding one of the three semaphores, by where a client is.
InTablesAt(p) == p = "adding"
InBusAt(p, b) == p = "both" \/ (p = "bus1" /\ b = 1)

\* Who is in a table or in a list when client c has come to be at a place where
\* it is, or is not, inside.
LEMMA HoldersMoved ==
  ASSUME SemTypes, NEW c \in Clients, MovesTo(c, pc'[c])
  PROVE  /\ InTablesAt(pc'[c]) => InTables' = InTables \cup {c}
         /\ ~InTablesAt(pc'[c]) => InTables' = InTables \ {c}
         /\ InBusAt(pc'[c], 1) => InBus(1)' = InBus(1) \cup {c}
         /\ ~InBusAt(pc'[c], 1) => InBus(1)' = InBus(1) \ {c}
         /\ InBusAt(pc'[c], 2) => InBus(2)' = InBus(2) \cup {c}
         /\ ~InBusAt(pc'[c], 2) => InBus(2)' = InBus(2) \ {c}
<1>1. \A d \in Clients : d /= c => pc'[d] = pc[d]
  BY DEF MovesTo
<1>2. InTables' = {d \in Clients : InTablesAt(pc'[d])} /\ InTables = {d \in Clients : InTablesAt(pc[d])}
  BY DEF InTables, InTablesAt
<1>3. InBus(1)' = {d \in Clients : InBusAt(pc'[d], 1)} /\ InBus(1) = {d \in Clients : InBusAt(pc[d], 1)}
  BY DEF InBus, InBusAt
<1>4. InBus(2)' = {d \in Clients : InBusAt(pc'[d], 2)} /\ InBus(2) = {d \in Clients : InBusAt(pc[d], 2)}
  BY DEF InBus, InBusAt
<1>5. /\ InTablesAt(pc'[c]) => InTables' = InTables \cup {c}
      /\ ~InTablesAt(pc'[c]) => InTables' = InTables \ {c}
  BY <1>1, <1>2
<1>6. /\ InBusAt(pc'[c], 1) => InBus(1)' = InBus(1) \cup {c}
      /\ ~InBusAt(pc'[c], 1) => InBus(1)' = InBus(1) \ {c}
  BY <1>1, <1>3
<1>7. /\ InBusAt(pc'[c], 2) => InBus(2)' = InBus(2) \cup {c}
      /\ ~InBusAt(pc'[c], 2) => InBus(2)' = InBus(2) \ {c}
  BY <1>1, <1>4
<1>. QED  BY <1>5, <1>6, <1>7

LEMMA Unmoved ==
  ASSUME NEW S, NEW c
  PROVE  (c \notin S => S \ {c} = S) /\ (c \in S => S \cup {c} = S)
OBVIOUS

\* sem_acquire and sem_release, on one semaphore and who holds it.
LEMMA AcquireHeld ==
  ASSUME NEW s \in Int, NEW H, NEW c, HeldOnce(s, H), s > 0
  PROVE  HeldOnce(s - 1, H \cup {c})
BY DEF HeldOnce

LEMMA ReleaseHeld ==
  ASSUME NEW s \in Int, NEW H, NEW c \in H, HeldOnce(s, H)
  PROVE  HeldOnce(s + 1, H \ {c})
BY DEF HeldOnce

LEMMA SemInit == ASSUME Init PROVE SemInv
BY DEF Init, SemInv, SemTypes, SemaphoresHeldOnce, HeldOnce, InTables, InBus, Buses

\* Every step of a client's process: three take a semaphore or give it back,
\* the others keep away from them or find something removed.
LEMMA SemClient ==
  ASSUME SemInv, NEW c \in Clients, ClientStep(c)
  PROVE  SemInv'
<1>. USE DEF SemInv
<1>1. CASE addConfirmedDataRead(c)
  <2>1. /\ removed = {} /\ removed' = removed /\ semaCDCSystem > 0
        /\ semaCDCSystem' = semaCDCSystem - 1 /\ semaBusResult' = semaBusResult
        /\ MovesTo(c, "adding") /\ pc[c] = "reporting"
    BY <1>1 DEF MovesTo, SemTypes, addConfirmedDataRead, HasNext, At, Usable
  <2>2. HeldOnce(semaCDCSystem - 1, InTables \cup {c})
    BY <2>1, AcquireHeld DEF SemTypes, SemaphoresHeldOnce
  <2>3. c \notin InBus(1) /\ c \notin InBus(2)
    BY <2>1 DEF InBus
  <2>4. InTables' = InTables \cup {c} /\ InBus(1)' = InBus(1) /\ InBus(2)' = InBus(2)
    BY <2>1, <2>3, HoldersMoved, Unmoved DEF MovesTo, InTablesAt, InBusAt, Buses
  <2>. QED  BY <2>1, <2>2, <2>4 DEF MovesTo, SemTypes, SemaphoresHeldOnce, Buses
<1>2. CASE addConfirmedData(c)
  <2>1. /\ removed' = removed /\ semaBusResult' = semaBusResult
        /\ semaCDCSystem' = IF SemaphoresRemoved THEN semaCDCSystem ELSE semaCDCSystem + 1
        /\ MovesTo(c, AfterEntry(c)) /\ pc[c] = "adding"
        /\ AfterEntry(c) \in {"dispatch", "reporting"}
    BY <1>2 DEF MovesTo, SemTypes, addConfirmedData, At, AfterEntry, sem_release
  <2>2. SemTypes'
    BY <2>1 DEF MovesTo, SemTypes
  <2>3. CASE removed = {}
    <3>1. HeldOnce(semaCDCSystem + 1, InTables \ {c})
      BY <2>1, <2>3, ReleaseHeld DEF SemTypes, SemaphoresHeldOnce, InTables
    <3>2. c \notin InBus(1) /\ c \notin InBus(2)
      BY <2>1 DEF InBus
    <3>3. InTables' = InTables \ {c} /\ InBus(1)' = InBus(1) /\ InBus(2)' = InBus(2)
      BY <2>1, <3>2, HoldersMoved, Unmoved DEF MovesTo, InTablesAt, InBusAt, Buses
    <3>. QED  BY <2>1, <2>2, <2>3, <3>1, <3>3 DEF SemaphoresHeldOnce, SemaphoresRemoved, Buses
  <2>. QED  BY <2>1, <2>2, <2>3, AfterRemoval
<1>3. CASE LockBus1(c)
  <2>1. /\ removed' = removed /\ semaCDCSystem' = semaCDCSystem /\ semaBusResult[1] > 0
        /\ semaBusResult' = [semaBusResult EXCEPT ![1] = @ - 1]
        /\ MovesTo(c, "bus1") /\ pc[c] = "dispatch"
    BY <1>3 DEF MovesTo, SemTypes, LockBus1, At
  <2>2. SemTypes'
    BY <2>1 DEF MovesTo, SemTypes, Buses
  <2>3. CASE removed = {}
    <3>1. HeldOnce(semaBusResult[1] - 1, InBus(1) \cup {c})
      BY <2>1, <2>3, AcquireHeld DEF SemTypes, SemaphoresHeldOnce, Buses
    <3>2. c \notin InTables /\ c \notin InBus(2)
      BY <2>1 DEF InTables, InBus
    <3>5. MovesTo(c, pc'[c]) /\ pc'[c] = "bus1"
      BY <2>1 DEF MovesTo
    <3>6. ~InTablesAt(pc'[c]) /\ InBusAt(pc'[c], 1) /\ ~InBusAt(pc'[c], 2)
      BY <3>5 DEF InTablesAt, InBusAt
    <3>7. /\ InTables' = InTables \ {c} /\ InBus(1)' = InBus(1) \cup {c}
          /\ InBus(2)' = InBus(2) \ {c}
      BY <3>5, <3>6, HoldersMoved
    <3>3. InTables' = InTables /\ InBus(1)' = InBus(1) \cup {c} /\ InBus(2)' = InBus(2)
      BY <3>2, <3>7, Unmoved
    <3>4. semaBusResult'[1] = semaBusResult[1] - 1 /\ semaBusResult'[2] = semaBusResult[2]
      BY <2>1 DEF SemTypes, Buses
    <3>. QED  BY <2>1, <2>2, <2>3, <3>1, <3>3, <3>4 DEF SemaphoresHeldOnce, Buses
  <2>. QED  BY <2>1, <2>2, <2>3, AfterRemoval
<1>4. CASE LockBus2(c)
  <2>1. /\ removed' = removed /\ semaCDCSystem' = semaCDCSystem /\ semaBusResult[2] > 0
        /\ semaBusResult' = [semaBusResult EXCEPT ![2] = @ - 1]
        /\ MovesTo(c, "both") /\ pc[c] = "bus1"
    BY <1>4 DEF MovesTo, SemTypes, LockBus2, At
  <2>2. SemTypes'
    BY <2>1 DEF MovesTo, SemTypes, Buses
  <2>3. CASE removed = {}
    <3>1. HeldOnce(semaBusResult[2] - 1, InBus(2) \cup {c})
      BY <2>1, <2>3, AcquireHeld DEF SemTypes, SemaphoresHeldOnce, Buses
    <3>2. c \notin InTables /\ c \in InBus(1)
      BY <2>1 DEF InTables, InBus
    <3>5. MovesTo(c, pc'[c]) /\ pc'[c] = "both"
      BY <2>1 DEF MovesTo
    <3>6. ~InTablesAt(pc'[c]) /\ InBusAt(pc'[c], 1) /\ InBusAt(pc'[c], 2)
      BY <3>5 DEF InTablesAt, InBusAt
    <3>7. /\ InTables' = InTables \ {c} /\ InBus(1)' = InBus(1) \cup {c}
          /\ InBus(2)' = InBus(2) \cup {c}
      BY <3>5, <3>6, HoldersMoved
    <3>3. InTables' = InTables /\ InBus(1)' = InBus(1) /\ InBus(2)' = InBus(2) \cup {c}
      BY <3>2, <3>7, Unmoved
    <3>4. semaBusResult'[2] = semaBusResult[2] - 1 /\ semaBusResult'[1] = semaBusResult[1]
      BY <2>1 DEF SemTypes, Buses
    <3>. QED  BY <2>1, <2>2, <2>3, <3>1, <3>3, <3>4 DEF SemaphoresHeldOnce, Buses
  <2>. QED  BY <2>1, <2>2, <2>3, AfterRemoval
<1>5. CASE ClientSchedule(c)
  <2>1. /\ removed' = removed /\ semaCDCSystem' = semaCDCSystem /\ semaBusResult' = BusReleased
        /\ MovesTo(c, "dispatch") /\ pc[c] = "both"
    BY <1>5 DEF MovesTo, SemTypes, ClientSchedule, At
  <2>2. SemTypes'
    BY <2>1 DEF MovesTo, SemTypes, BusReleased, sem_release
  <2>3. CASE removed = {}
    <3>1. c \notin InTables /\ c \in InBus(1) /\ c \in InBus(2)
      BY <2>1 DEF InTables, InBus
    <3>2. /\ HeldOnce(semaBusResult[1] + 1, InBus(1) \ {c})
          /\ HeldOnce(semaBusResult[2] + 1, InBus(2) \ {c})
      BY <2>3, <3>1, ReleaseHeld DEF SemTypes, SemaphoresHeldOnce, Buses
    <3>3. InTables' = InTables /\ InBus(1)' = InBus(1) \ {c} /\ InBus(2)' = InBus(2) \ {c}
      BY <2>1, <3>1, HoldersMoved, Unmoved DEF MovesTo, InTablesAt, InBusAt, Buses
    <3>4. semaBusResult'[1] = semaBusResult[1] + 1 /\ semaBusResult'[2] = semaBusResult[2] + 1
      BY <2>1, <2>3 DEF BusReleased, sem_release, SemaphoresRemoved, Buses
    <3>. QED  BY <2>1, <2>2, <2>3, <3>2, <3>3, <3>4 DEF SemaphoresHeldOnce, Buses
  <2>. QED  BY <2>1, <2>2, <2>3, AfterRemoval
<1>6. CASE getConfirmedDataFails(c)
  <2>1. removed' = removed /\ removed /= {}
    BY <1>6 DEF getConfirmedDataFails, SemaphoresRemoved, ShmRemoved
  <2>2. SemTypes'
    BY <1>6 DEF getConfirmedDataFails, SemTypes
  <2>. QED  BY <2>1, <2>2, AfterRemoval
<1>7. CASE ClientScheduleFails(c)
  <2>1. removed' = removed /\ removed /= {}
    BY <1>7 DEF ClientScheduleFails, SemaphoresRemoved, ShmRemoved
  <2>2. SemTypes'
    BY <1>7 DEF ClientScheduleFails, Ends, SemTypes, BusReleased, sem_release
  <2>. QED  BY <2>1, <2>2, AfterRemoval
<1>8. CASE addConfirmedDataFails(c)
  <2>1. /\ pc[c] = "reporting" /\ AfterEntry(c) \in {"dispatch", "reporting"}
        /\ pc' = [pc EXCEPT ![c] = AfterEntry(c)]
        /\ UNCHANGED <<semaCDCSystem, semaBusResult, removed>>
    BY <1>8 DEF addConfirmedDataFails, HasNext, At, AfterEntry, shared
  <2>. QED  BY <2>1, ClientFrame DEF Place
<1>9. CASE \/ ClientList(c) \/ ClientConfirmed(c) \/ ClientReporting(c) \/ ClientExit(c)
           \/ ClientMalformed(c) \/ ClientConfirmedReply(c) \/ ClientSleep(c)
           \/ ClientAnswer(c) \/ ClientUnheard(c)
  <2>1. /\ UNCHANGED <<semaCDCSystem, semaBusResult, removed>>
        /\ pc[c] \in {"connected", "command", "confirmed", "reporting", "dispatch", "sleeping"}
        /\ \E to \in {"command", "confirmed", "reporting", "sleeping", "failed", "gone"} :
             pc' = [pc EXCEPT ![c] = to]
    BY <1>9 DEF ClientList, ClientConfirmed, ClientReporting, ClientExit, ClientMalformed,
                ClientConfirmedReply, ClientSleep, ClientAnswer, ClientUnheard, Reads, At,
                Reply, Ends, shared
  <2>. QED  BY <2>1, ClientFrame DEF Place
<1>10. CASE getConfirmedData(c)
  BY <1>10, SemFrame DEF getConfirmedData, shared, SemTypes
<1>. QED  BY <1>1, <1>2, <1>3, <1>4, <1>5, <1>6, <1>7, <1>8, <1>9, <1>10 DEF ClientStep

LEMMA SemNext == ASSUME SemInv, [Next]_vars PROVE SemInv'
<1>1. CASE \E c \in Clients : ClientStep(c)
  BY <1>1, SemClient
<1>2. CASE \/ \E b \in Buses : AmbulanceStep(b)
           \/ Tick \/ CtrlC \/ AcceptFails \/ UNCHANGED vars
  <2>1. UNCHANGED <<semaCDCSystem, semaBusResult, removed, pc>>
    BY <1>2 DEF AmbulanceStep, AmbulanceIdle, AmbulanceDrives, AmbulanceArrives,
                AmbulanceFails, Round, Tick, CtrlC, AcceptFails, shared, vars
  <2>. QED  BY <2>1, SemFrame DEF SemInv, SemTypes
<1>3. CASE \E c \in Clients : Accept(c)
  <2>1. PICK c \in Clients : Accept(c)
    BY <1>3
  <2>2. /\ UNCHANGED <<semaCDCSystem, semaBusResult, removed>>
        /\ pc[c] = "none" /\ pc' = [pc EXCEPT ![c] = "connected"]
    BY <2>1 DEF Accept, shared
  <2>. QED  BY <2>2, ClientFrame DEF Place
<1>4. CASE ServerEnds \/ \E p \in Handlers : Handler(p)
  <2>1. removed' /= {} /\ removed' \subseteq {"shm", "semaphores"}
        /\ UNCHANGED <<semaCDCSystem, semaBusResult, pc>>
    BY <1>4 DEF ServerEnds, Handler, RemoveShm, RemoveSemaphores, SemInv, SemTypes
  <2>. QED  BY <2>1, AfterRemoval DEF SemInv, SemTypes
<1>. QED  BY <1>1, <1>2, <1>3, <1>4 DEF Next, ServerStep

\* For any number of clients and regions and whatever they report and ask,
\* until Ctrl-C removes it each of the three semaphores (sem_acquire,
\* sem_release in IPC_lib.c) is up, or held by exactly one process: two clients'
\* updates of a case table never overlap, and getAmbulanceWaitingTime has the two
\* lists to itself.
THEOREM SemaphoresHeldOnceHolds == Spec => []SemaphoresHeldOnce
<1>1. Init => SemInv
  BY SemInit
<1>2. SemInv /\ [Next]_vars => SemInv'
  BY SemNext
<1>3. SemInv => SemaphoresHeldOnce
  BY DEF SemInv
<1>. QED  BY <1>1, <1>2, <1>3, PTL DEF Spec

-----------------------------------------------------------------------------
(* The types, and the shape of the lists. *)

HeldAtMost(semaphore, holders, gone) ==
  /\ semaphore \in 0..1
  /\ ~gone => (semaphore = 1 => holders = {}) /\ \A p, q \in holders : p = q

\* What is left of SemaphoresHeldOnce while Ctrl-C is handled: a semaphore may
\* stay down, but is never up while it is held.
Semaphores ==
  /\ SemTypes
  /\ HeldAtMost(semaCDCSystem, InTables, SemaphoresRemoved)
  /\ HeldAtMost(semaBusResult[1], InBus(1), SemaphoresRemoved)
  /\ HeldAtMost(semaBusResult[2], InBus(2), SemaphoresRemoved)

Options == Entry \cup {Malformed}
Looked == (Degrees \X Regions) \cup {Malformed}
Asked == Regions \cup {Malformed}

Locals == [todo : Seq(Looked) \cup Seq(Options), array : Numbers, at : 0..NUM_REGION,
           largest : Int, sleep : 0..(SECOND * UINT_MAX), seen : Int, asked : Seq(Asked),
           before : Int, withdrawn : Int, reports : Nat]

Places == {"none", "connected", "command", "confirmed", "reporting", "adding",
           "dispatch", "bus1", "both", "sleeping", "failed", "gone"}

\* What is still to be read is of the kind the command takes, and a bus is chosen
\* for a region that has cases.
Todo(place, m) ==
  /\ place = "confirmed" => m.todo \in Seq(Looked)
  /\ place \in {"reporting", "adding"} => m.todo \in Seq(Options) /\ m.todo /= <<>>
  /\ place = "adding" => Head(m.todo) /= Malformed /\ m.seen \in Int
  /\ place \in {"bus1", "both"} =>
       \E r \in Regions : r >= m.at /\ \E d \in Degrees : m.array[d][r] /= 0

ClientTypes ==
  /\ client \in [Clients -> Locals] /\ pc \in [Clients -> Places]
  /\ \A c \in Clients : Todo(pc[c], client[c])
  /\ last \in Clients \cup {Server} /\ server \in {"accept", "exit", "ended"}
  /\ signal \in [Handlers -> {"none", "pending", "handling", "handled"}]
  /\ cases \in Numbers /\ delivered \in Numbers /\ taken \in Numbers

\* An ambulance drives to the first region of its list and has not been under
\* way for longer than it takes.
Driving(list, a) ==
  /\ \A i \in DOMAIN list : i /= 1 => list[i].execution_time = 0
  /\ a.first_get_time = 1 => a.age = 0
  /\ list = <<>> => a.first_get_time = 1
  /\ list /= <<>> => list[1].execution_time <= a.age /\ a.age <= TravelTime(list[1].region_number)

ListTypes ==
  /\ bus \in [Buses -> Seq(Node)]
  /\ ambulance \in [Buses -> [pc : {"poll", "gone"}, first_get_time : 0..1, age : Nat]]
  /\ \A b \in Buses : Driving(bus[b], ambulance[b])

TypeInv == Semaphores /\ ClientTypes /\ ListTypes

-----------------------------------------------------------------------------

\* The array of a client that may begin a report holds no case.
Clean ==
  \A c \in Clients :
    /\ pc[c] = "command" \/ (pc[c] = "connected" /\ "Reporting" \in FirstCommands)
         => client[c].array = None
    /\ pc[c] \in {"reporting", "adding"} => client[c].at = 0

\* Nobody else has touched the number that addConfirmedData is about to store.
ReadIsCurrent ==
  \A c \in Clients : pc[c] = "adding" /\ removed = {} =>
    client[c].seen = cases[Head(client[c].todo).degree][Head(client[c].todo).region]

\* What a table, or a sum of tables, has for each lookup.
Found(table, q) == [i \in 1..(2 * Len(q)) |-> IF Lookups(q)[i] = Malformed THEN 0
                                               ELSE table[Lookups(q)[i][1]][Lookups(q)[i][2]]]

\* What reports of positive numbers have brought, whatever others took back: like
\* what they took back, it only grows.
Gained == [d \in Degrees |-> [r \in Regions |-> cases[d][r] + taken[d][r]]]

\* Of n numbers k have been looked up, g is what has been gained and h what has been
\* taken back of each: but for what has been taken back since the command came, what
\* has been seen is not more than there is, and what it is short of is to come.
Between(m, g, h, k, n) ==
  /\ m.seen + m.withdrawn <= SumFunctionOnSet(g, 1..k) + SumFunctionOnSet(h, (k + 1)..n)
  /\ m.before + m.withdrawn <= m.seen + SumFunctionOnSet(g, (k + 1)..n) + SumFunctionOnSet(h, 1..k)

Looking(c) ==
  LET q == client[c].asked
      k == 2 * Len(q) - Len(client[c].todo)
  IN  /\ k >= 0 /\ \A i \in DOMAIN client[c].todo : client[c].todo[i] = Lookups(q)[k + i]
      /\ Between(client[c], Found(Gained, q), Found(taken, q), k, 2 * Len(q))

Listing == \A c \in Clients : pc[c] = "confirmed" /\ removed = {} => Looking(c)

-----------------------------------------------------------------------------
(* A semaphore that stays down. *)

LEMMA MovedFrame ==
  ASSUME Semaphores, SemInv', UNCHANGED <<semaCDCSystem, semaBusResult>>, removed \subseteq removed',
         \A c \in Clients : Place(pc'[c]) = Place(pc[c])
  PROVE  Semaphores'
<1>1. InTables' = InTables /\ InBus(1)' = InBus(1) /\ InBus(2)' = InBus(2)
  BY DEF InTables, InBus, Place
<1>2. SemaphoresRemoved => SemaphoresRemoved'
  BY DEF SemaphoresRemoved
<1>. QED  BY <1>1, <1>2 DEF Semaphores, HeldAtMost, SemInv

LEMMA AcquireAtMost ==
  ASSUME NEW s, NEW H, NEW c, NEW gone, HeldAtMost(s, H, gone), s > 0, ~gone
  PROVE  HeldAtMost(s - 1, H \cup {c}, gone)
BY DEF HeldAtMost

LEMMA ReleaseAtMost ==
  ASSUME NEW s, NEW H, NEW c \in H, NEW gone, HeldAtMost(s, H, gone)
  PROVE  HeldAtMost(IF gone THEN s ELSE s + 1, H \ {c}, gone)
BY DEF HeldAtMost

LEMMA SemaphoresClient ==
  ASSUME Semaphores, SemInv', NEW c \in Clients, ClientStep(c)
  PROVE  Semaphores'
<1>. USE DEF Semaphores
<1>0. SemTypes /\ SemTypes'
  BY DEF SemInv
<1>1. CASE addConfirmedDataRead(c)
  <2>1. /\ removed' = removed /\ ~SemaphoresRemoved /\ semaCDCSystem > 0
        /\ semaCDCSystem' = semaCDCSystem - 1 /\ semaBusResult' = semaBusResult
        /\ MovesTo(c, "adding") /\ pc[c] = "reporting" /\ SemaphoresRemoved' = SemaphoresRemoved
    BY <1>1, <1>0 DEF MovesTo, SemTypes, addConfirmedDataRead, HasNext, At, Usable, SemaphoresRemoved
  <2>2. HeldAtMost(semaCDCSystem - 1, InTables \cup {c}, SemaphoresRemoved)
    BY <2>1, AcquireAtMost
  <2>3. c \notin InBus(1) /\ c \notin InBus(2)
    BY <2>1 DEF InBus
  <2>4. InTables' = InTables \cup {c} /\ InBus(1)' = InBus(1) /\ InBus(2)' = InBus(2)
    BY <1>0, <2>1, <2>3, HoldersMoved, Unmoved DEF MovesTo, InTablesAt, InBusAt
  <2>. QED  BY <1>0, <2>1, <2>2, <2>4
<1>2. CASE addConfirmedData(c)
  <2>1. /\ removed' = removed /\ semaBusResult' = semaBusResult
        /\ semaCDCSystem' = IF SemaphoresRemoved THEN semaCDCSystem ELSE semaCDCSystem + 1
        /\ MovesTo(c, AfterEntry(c)) /\ pc[c] = "adding" /\ SemaphoresRemoved' = SemaphoresRemoved
        /\ AfterEntry(c) \in {"dispatch", "reporting"}
    BY <1>2, <1>0 DEF MovesTo, SemTypes, addConfirmedData, At, AfterEntry, sem_release, SemaphoresRemoved
  <2>2. HeldAtMost(semaCDCSystem', InTables \ {c}, SemaphoresRemoved)
    <3>1. c \in InTables
      BY <2>1 DEF InTables
    <3>. QED  BY <2>1, <3>1, ReleaseAtMost
  <2>3. c \notin InBus(1) /\ c \notin InBus(2)
    BY <2>1 DEF InBus
  <2>4. InTables' = InTables \ {c} /\ InBus(1)' = InBus(1) /\ InBus(2)' = InBus(2)
    BY <1>0, <2>1, <2>3, HoldersMoved, Unmoved DEF MovesTo, InTablesAt, InBusAt
  <2>. QED  BY <1>0, <2>1, <2>2, <2>4
<1>3. CASE LockBus1(c)
  <2>1. /\ removed' = removed /\ semaCDCSystem' = semaCDCSystem /\ semaBusResult[1] > 0
        /\ semaBusResult' = [semaBusResult EXCEPT ![1] = @ - 1] /\ ~SemaphoresRemoved
        /\ MovesTo(c, "bus1") /\ pc[c] = "dispatch" /\ SemaphoresRemoved' = SemaphoresRemoved
    BY <1>3, <1>0 DEF MovesTo, SemTypes, LockBus1, At, SemaphoresRemoved
  <2>2. HeldAtMost(semaBusResult[1] - 1, InBus(1) \cup {c}, SemaphoresRemoved)
    BY <2>1, AcquireAtMost
  <2>3. semaBusResult'[1] = semaBusResult[1] - 1 /\ semaBusResult'[2] = semaBusResult[2]
    BY <1>0, <2>1 DEF SemTypes, Buses
  <2>4. c \notin InTables /\ c \notin InBus(2) /\ MovesTo(c, pc'[c]) /\ pc'[c] = "bus1"
    BY <2>1 DEF InTables, InBus, MovesTo
  <2>5. ~InTablesAt(pc'[c]) /\ InBusAt(pc'[c], 1) /\ ~InBusAt(pc'[c], 2)
    BY <2>4 DEF InTablesAt, InBusAt
  <2>6. InTables' = InTables \ {c} /\ InBus(1)' = InBus(1) \cup {c} /\ InBus(2)' = InBus(2) \ {c}
    BY <1>0, <2>4, <2>5, HoldersMoved
  <2>7. InTables' = InTables /\ InBus(2)' = InBus(2)
    BY <2>4, <2>6, Unmoved
  <2>. QED  BY <1>0, <2>1, <2>2, <2>3, <2>6, <2>7
<1>4. CASE LockBus2(c)
  <2>1. /\ removed' = removed /\ semaCDCSystem' = semaCDCSystem /\ semaBusResult[2] > 0
        /\ semaBusResult' = [semaBusResult EXCEPT ![2] = @ - 1] /\ ~SemaphoresRemoved
        /\ MovesTo(c, "both") /\ pc[c] = "bus1" /\ SemaphoresRemoved' = SemaphoresRemoved
    BY <1>4, <1>0 DEF MovesTo, SemTypes, LockBus2, At, SemaphoresRemoved
  <2>2. HeldAtMost(semaBusResult[2] - 1, InBus(2) \cup {c}, SemaphoresRemoved)
    BY <2>1, AcquireAtMost
  <2>3. semaBusResult'[2] = semaBusResult[2] - 1 /\ semaBusResult'[1] = semaBusResult[1]
    BY <1>0, <2>1 DEF SemTypes, Buses
  <2>4. c \notin InTables /\ c \in InBus(1) /\ MovesTo(c, pc'[c]) /\ pc'[c] = "both"
    BY <2>1 DEF InTables, InBus, MovesTo
  <2>5. ~InTablesAt(pc'[c]) /\ InBusAt(pc'[c], 1) /\ InBusAt(pc'[c], 2)
    BY <2>4 DEF InTablesAt, InBusAt
  <2>6. InTables' = InTables \ {c} /\ InBus(1)' = InBus(1) \cup {c} /\ InBus(2)' = InBus(2) \cup {c}
    BY <1>0, <2>4, <2>5, HoldersMoved
  <2>7. InTables' = InTables /\ InBus(1)' = InBus(1)
    BY <2>4, <2>6, Unmoved
  <2>. QED  BY <1>0, <2>1, <2>2, <2>3, <2>6, <2>7
<1>5. CASE \/ ClientSchedule(c)
           \/ At(c, "both") /\ ClientScheduleFails(c)
  <2>1. /\ removed' = removed /\ semaCDCSystem' = semaCDCSystem /\ semaBusResult' = BusReleased
        /\ MovesTo(c, pc'[c]) /\ pc'[c] \in {"dispatch", "gone"} /\ pc[c] = "both"
        /\ SemaphoresRemoved' = SemaphoresRemoved
    BY <1>5, <1>0 DEF MovesTo, SemTypes, ClientSchedule, ClientScheduleFails, Ends, At, SemaphoresRemoved
  <2>2. c \notin InTables /\ c \in InBus(1) /\ c \in InBus(2)
    BY <2>1 DEF InTables, InBus
  <2>3. /\ semaBusResult'[1] = IF SemaphoresRemoved THEN semaBusResult[1] ELSE semaBusResult[1] + 1
        /\ semaBusResult'[2] = IF SemaphoresRemoved THEN semaBusResult[2] ELSE semaBusResult[2] + 1
    BY <2>1 DEF BusReleased, sem_release, Buses
  <2>4. /\ HeldAtMost(semaBusResult'[1], InBus(1) \ {c}, SemaphoresRemoved)
        /\ HeldAtMost(semaBusResult'[2], InBus(2) \ {c}, SemaphoresRemoved)
    BY <2>2, <2>3, ReleaseAtMost
  <2>5. ~InTablesAt(pc'[c]) /\ ~InBusAt(pc'[c], 1) /\ ~InBusAt(pc'[c], 2)
    BY <2>1 DEF InTablesAt, InBusAt
  <2>6. InTables' = InTables \ {c} /\ InBus(1)' = InBus(1) \ {c} /\ InBus(2)' = InBus(2) \ {c}
    BY <1>0, <2>1, <2>5, HoldersMoved
  <2>7. InTables' = InTables
    BY <2>2, <2>6, Unmoved
  <2>. QED  BY <1>0, <2>1, <2>4, <2>6, <2>7
<1>6. CASE getConfirmedDataFails(c)
  <2>1. /\ removed' = removed /\ semaBusResult' = semaBusResult /\ pc' = pc
        /\ semaCDCSystem' = IF SemaphoresRemoved THEN semaCDCSystem ELSE semaCDCSystem - 1
        /\ SemaphoresRemoved \/ semaCDCSystem > 0
    BY <1>6 DEF getConfirmedDataFails
  <2>2. InTables' = InTables /\ InBus(1)' = InBus(1) /\ InBus(2)' = InBus(2)
        /\ SemaphoresRemoved' = SemaphoresRemoved
    BY <2>1 DEF InTables, InBus, SemaphoresRemoved
  <2>3. HeldAtMost(semaCDCSystem', InTables, SemaphoresRemoved)
    BY <2>1 DEF HeldAtMost
  <2>. QED  BY <1>0, <2>1, <2>2, <2>3
<1>7. CASE SemaphoresRemoved /\ ClientScheduleFails(c) /\ ~At(c, "both")
  <2>1. /\ removed' = removed /\ UNCHANGED <<semaCDCSystem, semaBusResult>>
        /\ SemaphoresRemoved' = SemaphoresRemoved
    BY <1>7 DEF ClientScheduleFails, SemaphoresRemoved
  <2>. QED  BY <1>0, <1>7, <2>1 DEF HeldAtMost
<1>8. CASE addConfirmedDataFails(c)
  <2>1. /\ pc[c] = "reporting" /\ AfterEntry(c) \in {"dispatch", "reporting"}
        /\ pc' = [pc EXCEPT ![c] = AfterEntry(c)]
        /\ UNCHANGED <<semaCDCSystem, semaBusResult, removed>>
    BY <1>8 DEF addConfirmedDataFails, HasNext, At, AfterEntry, shared
  <2>2. \A d \in Clients : Place(pc'[d]) = Place(pc[d])
    BY <1>0, <2>1 DEF Place, SemTypes
  <2>. QED  BY <2>1, <2>2, MovedFrame
<1>9. CASE \/ ClientList(c) \/ ClientConfirmed(c) \/ ClientReporting(c) \/ ClientExit(c)
           \/ ClientMalformed(c) \/ ClientConfirmedReply(c) \/ ClientSleep(c)
           \/ ClientAnswer(c) \/ ClientUnheard(c)
  <2>1. /\ UNCHANGED <<semaCDCSystem, semaBusResult, removed>>
        /\ pc[c] \in {"connected", "command", "confirmed", "reporting", "dispatch", "sleeping"}
        /\ \E to \in {"command", "confirmed", "reporting", "sleeping", "failed", "gone"} :
             pc' = [pc EXCEPT ![c] = to]
    BY <1>9 DEF ClientList, ClientConfirmed, ClientReporting, ClientExit, ClientMalformed,
                ClientConfirmedReply, ClientSleep, ClientAnswer, ClientUnheard, Reads, At,
                Reply, Ends, shared
  <2>2. \A d \in Clients : Place(pc'[d]) = Place(pc[d])
    BY <1>0, <2>1 DEF Place, SemTypes
  <2>. QED  BY <2>1, <2>2, MovedFrame
<1>10. CASE getConfirmedData(c)
  BY <1>10, MovedFrame DEF getConfirmedData, shared, SemTypes
<1>11. CASE ClientScheduleFails(c)
  BY <1>5, <1>7, <1>11 DEF ClientScheduleFails, At
<1>. QED  BY <1>1, <1>2, <1>3, <1>4, <1>5, <1>6, <1>8, <1>9, <1>10, <1>11 DEF ClientStep

LEMMA SemaphoresNext == ASSUME Semaphores, SemInv', [Next]_vars PROVE Semaphores'
<1>1. CASE \E c \in Clients : ClientStep(c)
  BY <1>1, SemaphoresClient
<1>2. CASE \/ \E b \in Buses : AmbulanceStep(b)
           \/ Tick \/ CtrlC \/ AcceptFails \/ ServerEnds \/ UNCHANGED vars
           \/ \E p \in Handlers : Handler(p)
  <2>1. UNCHANGED <<semaCDCSystem, semaBusResult, pc>> /\ removed \subseteq removed'
    BY <1>2 DEF AmbulanceStep, AmbulanceIdle, AmbulanceDrives, AmbulanceArrives,
                AmbulanceFails, Round, Tick, CtrlC, AcceptFails, shared, vars, ServerEnds, Handler,
                RemoveShm, RemoveSemaphores, Semaphores, SemTypes
  <2>. QED  BY <2>1, MovedFrame
<1>3. CASE \E c \in Clients : Accept(c)
  <2>1. PICK c \in Clients : Accept(c)
    BY <1>3
  <2>2. /\ UNCHANGED <<semaCDCSystem, semaBusResult, removed>>
        /\ pc[c] = "none" /\ pc' = [pc EXCEPT ![c] = "connected"]
    BY <2>1 DEF Accept, shared
  <2>3. \A d \in Clients : Place(pc'[d]) = Place(pc[d])
    BY <2>2 DEF Place, Semaphores, SemTypes
  <2>. QED  BY <2>2, <2>3, MovedFrame
<1>. QED  BY <1>1, <1>2, <1>3 DEF Next, ServerStep

-----------------------------------------------------------------------------

LEMMA Sizes ==
  /\ NUM_REGION \in Nat /\ NUM_REGION > 0 /\ UINT_MAX \in Nat /\ 0 \in 0..NUM_REGION
  /\ SECOND \in Nat /\ SECOND > 0 /\ SECOND * UINT_MAX \in Nat /\ SECOND * (NUM_REGION - 1) \in Nat
  /\ 0 \in 0..(SECOND * UINT_MAX) /\ 0 \in Regions /\ Regions \subseteq Nat
<1>1. NUM_REGION \in Nat \ {0} /\ UINT_MAX \in Nat /\ SECOND \in Nat \ {0}
  BY ServerAssumption
<1>2. SECOND * UINT_MAX \in Nat /\ SECOND * (NUM_REGION - 1) \in Nat
  <2>1. \A x, y \in Nat : x * y \in Nat
    OBVIOUS
  <2>2. NUM_REGION - 1 \in Nat
    BY <1>1
  <2>. QED  BY <1>1, <2>1, <2>2
<1>. QED  BY <1>1, <1>2 DEF Regions

LEMMA TravelTypes ==
  ASSUME NEW r \in Regions
  PROVE  TravelTime(r) \in Nat /\ TravelTime(r) <= SECOND * (NUM_REGION - 1)
<1>1. r \in Nat /\ NUM_REGION - 1 - r \in Nat
  BY Sizes DEF Regions
<1>2. SECOND * r \in Nat /\ SECOND * (NUM_REGION - 1 - r) \in Nat
  <2>1. \A x, y \in Nat : x * y \in Nat
    OBVIOUS
  <2>. QED  BY <1>1, <2>1, Sizes
<1>3. SECOND * (NUM_REGION - 1) = SECOND * r + SECOND * (NUM_REGION - 1 - r)
  BY <1>1, Sizes
<1>. QED  BY <1>2, <1>3, Sizes DEF TravelTime

LEMMA NoClientTypes ==
  ASSUME NEW n \in Nat
  PROVE  [NoClient EXCEPT !.reports = n] \in Locals /\ NoClient \in Locals /\ None \in Numbers
         /\ NoClient.todo = <<>> /\ [NoClient EXCEPT !.reports = n].todo = <<>>
<1>1. <<>> \in Seq(Looked) /\ <<>> \in Seq(Asked) /\ None \in Numbers /\ 0 \in Nat /\ 0 \in Int /\ -SECOND \in Int
  BY Sizes DEF None, Numbers
<1>2. PICK z \in Nat, i \in Int, m \in Int : z = 0 /\ i = 0 /\ m = -SECOND
  BY <1>1
<1>3. NoClient = [todo |-> <<>>, array |-> None, at |-> z, largest |-> m, sleep |-> z,
                  seen |-> i, asked |-> <<>>, before |-> i, withdrawn |-> i, reports |-> z]
  BY <1>2 DEF NoClient
<1>4. z \in 0..NUM_REGION /\ z \in 0..(SECOND * UINT_MAX)
  BY <1>2, Sizes
<1>. QED  BY <1>1, <1>3, <1>4 DEF Locals

ClientMoves(c, m, to) ==
  client' = [client EXCEPT ![c] = m] /\ pc' = [pc EXCEPT ![c] = to]

LEMMA ClientUpdate ==
  ASSUME ClientTypes, NEW c \in Clients, NEW m \in Locals, NEW to \in Places,
         ClientMoves(c, m, to), Todo(to, m), UNCHANGED <<last, server, signal>>,
         cases' \in Numbers, delivered' \in Numbers /\ taken' \in Numbers
  PROVE  ClientTypes'
<1>1. client' \in [Clients -> Locals] /\ pc' \in [Clients -> Places]
  BY DEF ClientTypes, ClientMoves
<1>2. \A d \in Clients : Todo(pc'[d], client'[d])
  <2>1. ASSUME NEW d \in Clients, d /= c PROVE Todo(pc'[d], client'[d])
    <3>1. pc'[d] = pc[d] /\ client'[d] = client[d]
      BY <2>1 DEF ClientTypes, ClientMoves
    <3>. QED  BY <3>1 DEF ClientTypes
  <2>2. pc'[c] = to /\ client'[c] = m
    BY DEF ClientTypes, ClientMoves
  <2>. QED  BY <2>1, <2>2
<1>. QED  BY <1>1, <1>2 DEF ClientTypes

LEMMA TypesCommand ==
  ASSUME ClientTypes, NEW c \in Clients,
         ClientList(c) \/ ClientExit(c) \/ ClientConfirmedReply(c) \/ ClientAnswer(c) \/ ClientUnheard(c)
         \/ ClientMalformed(c) \/ ClientScheduleFails(c)
  PROVE  ClientTypes'
<1>1. client[c] \in Locals /\ client[c].reports \in Nat /\ pc[c] \in Places
      /\ UNCHANGED <<last, server, signal, cases, history>>
  BY DEF ClientTypes, Locals, ClientList, ClientExit, ClientConfirmedReply, ClientAnswer, ClientUnheard,
         ClientMalformed, ClientScheduleFails, shared
<1>2. PICK n \in Nat : n = client[c].reports
  BY <1>1
<1>3. \/ ClientMoves(c, [NoClient EXCEPT !.reports = n], "command")
      \/ ClientMoves(c, NoClient, "gone")
      \/ ClientMoves(c, client[c], "failed")
  BY <1>2 DEF ClientTypes, ClientList, ClientExit, ClientConfirmedReply, ClientAnswer, ClientUnheard,
         ClientMalformed, ClientScheduleFails, Reply, Ends, ClientMoves
<1>4. "command" \in Places /\ "gone" \in Places /\ "failed" \in Places
  BY DEF Places
<1>5. \A todo : Todo("command", todo) /\ Todo("gone", todo) /\ Todo("failed", todo)
  BY DEF Todo
<1>6. cases' \in Numbers /\ delivered' \in Numbers /\ taken' \in Numbers
  BY <1>1 DEF ClientTypes
<1>7. CASE ClientMoves(c, [NoClient EXCEPT !.reports = n], "command")
  <2>1. PICK m \in Locals : m = [NoClient EXCEPT !.reports = n]
    BY NoClientTypes
  <2>. QED  BY <1>1, <1>4, <1>5, <1>6, <1>7, <2>1, ClientUpdate
<1>8. CASE ClientMoves(c, NoClient, "gone")
  BY <1>1, <1>4, <1>5, <1>6, <1>8, NoClientTypes, ClientUpdate
<1>9. CASE ClientMoves(c, client[c], "failed")
  <2>1. PICK m \in Locals : m = client[c]
    BY <1>1
  <2>. QED  BY <1>1, <1>4, <1>5, <1>6, <1>9, <2>1, ClientUpdate
<1>. QED  BY <1>3, <1>7, <1>8, <1>9

\* What a field of a client's locals may be changed to.
LEMMA LocalsUpdate ==
  ASSUME NEW m \in Locals
  PROVE  /\ m.todo \in Seq(Options) \cup Seq(Looked) /\ m.array \in Numbers /\ m.at \in 0..NUM_REGION
         /\ m.largest \in Int /\ m.sleep \in 0..(SECOND * UINT_MAX) /\ m.seen \in Int /\ m.asked \in Seq(Asked)
         /\ m.before \in Int /\ m.withdrawn \in Int /\ m.reports \in Nat
BY DEF Locals

LEMMA LookupTypes ==
  ASSUME NEW q \in Seq(Asked)
  PROVE  /\ Lookups(q) \in Seq(Looked) /\ Len(Lookups(q)) = 2 * Len(q) /\ DOMAIN Lookups(q) = 1..(2 * Len(q))
         /\ \A i \in 1..(2 * Len(q)) : (i + 1) \div 2 \in 1..Len(q)
<1>1. Len(q) \in Nat /\ DOMAIN q = 1..Len(q) /\ \A j \in 1..Len(q) : q[j] \in Asked
  OBVIOUS
<1>2. \A i \in 1..(2 * Len(q)) : (i + 1) \div 2 \in 1..Len(q)
  BY <1>1
<1>3. ASSUME NEW i \in 1..(2 * Len(q))
      PROVE  (IF q[(i + 1) \div 2] = Malformed THEN Malformed
              ELSE <<IF i % 2 = 1 THEN "severe" ELSE "mild", q[(i + 1) \div 2]>>) \in Looked
  <2>1. q[(i + 1) \div 2] \in Asked
    BY <1>1, <1>2
  <2>. QED  BY <2>1 DEF Asked, Looked, Degrees
<1>4. Lookups(q) \in [1..(2 * Len(q)) -> Looked]
  BY <1>3 DEF Lookups
<1>5. 2 * Len(q) \in Nat
  BY <1>1
<1>6. Lookups(q) \in Seq(Looked) /\ Len(Lookups(q)) = 2 * Len(q)
  BY <1>4, <1>5
<1>. QED  BY <1>2, <1>4, <1>6

\* One lookup in the tables.
LEMMA CellTypes ==
  ASSUME NEW table \in Numbers, NEW l \in Looked, l /= Malformed
  PROVE  table[l[1]][l[2]] \in Int
BY DEF Looked, Numbers

LEMMA TotalTypes ==
  ASSUME NEW table \in Numbers, NEW q \in Seq(Asked)
  PROVE  TotalIn(table, q) \in Int
<1>. DEFINE f == [i \in DOMAIN q |->
                   IF q[i] = Malformed THEN 0 ELSE table["severe"][q[i]] + table["mild"][q[i]]]
<1>1. \A i \in DOMAIN q : f[i] \in Int
  <2>1. ASSUME NEW i \in DOMAIN q PROVE f[i] \in Int
    <3>1. q[i] \in Asked
      OBVIOUS
    <3>2. CASE q[i] \in Regions
      <4>1. table["severe"][q[i]] \in Int /\ table["mild"][q[i]] \in Int
        BY <3>2 DEF Numbers, Degrees
      <4>. QED  BY <4>1
    <3>. QED  BY <3>1, <3>2 DEF Asked
  <2>. QED  BY <2>1
<1>2. IsFiniteSet(DOMAIN q) /\ DOMAIN f = DOMAIN q
  <2>1. DOMAIN q = 1..Len(q) /\ Len(q) \in Int
    OBVIOUS
  <2>. QED  BY <2>1, FS_Interval
<1>. HIDE DEF f
<1>3. SumFunction(f) \in Int
  BY <1>1, <1>2, SumInt DEF SumFunction
<1>. QED  BY <1>3 DEF TotalIn, f

LEMMA TypesConfirmed ==
  ASSUME ClientTypes, NEW c \in Clients,
         ClientConfirmed(c) \/ getConfirmedData(c) \/ getConfirmedDataFails(c)
  PROVE  ClientTypes'
<1>1. client[c] \in Locals /\ pc[c] \in Places /\ cases \in Numbers /\ taken \in Numbers /\ "confirmed" \in Places
      /\ UNCHANGED <<last, server, signal, cases, history>> /\ cases' \in Numbers /\ delivered' \in Numbers /\ taken' \in Numbers
  BY DEF ClientTypes, ClientConfirmed, getConfirmedData, getConfirmedDataFails, shared, Places
<1>2. CASE ClientConfirmed(c)
  <2>1. PICK q \in Queries[c] :
          client' = [client EXCEPT ![c].todo = Lookups(q), ![c].seen = 0,
                                   ![c].asked = q, ![c].before = TotalIn(cases, q),
                                   ![c].withdrawn = TotalIn(taken, q)]
    BY <1>2 DEF ClientConfirmed
  <2>2. q \in Seq(Asked) /\ Lookups(q) \in Seq(Looked) /\ TotalIn(cases, q) \in Int /\ TotalIn(taken, q) \in Int
    BY <1>1, ServerAssumption, LookupTypes, TotalTypes DEF Asked
  <2>3. PICK i \in Int, t \in Int, w \in Int : i = 0 /\ t = TotalIn(cases, q) /\ w = TotalIn(taken, q)
    BY <2>2
  <2>. DEFINE m == [client[c] EXCEPT !.todo = Lookups(q), !.seen = i, !.asked = q, !.before = t, !.withdrawn = w]
  <2>4. client' = [client EXCEPT ![c] = m] /\ pc' = [pc EXCEPT ![c] = "confirmed"]
    BY <1>2, <2>1, <2>3 DEF ClientTypes, ClientConfirmed
  <2>5. m \in Locals /\ m.todo = Lookups(q)
    BY <1>1, <2>2 DEF Locals
  <2>6. PICK n \in Locals : n = m
    BY <2>5
  <2>7. ClientMoves(c, n, "confirmed") /\ Todo("confirmed", n)
    BY <2>2, <2>4, <2>5, <2>6 DEF ClientMoves, Todo
  <2>. QED  BY <1>1, <2>7, ClientUpdate
<1>3. CASE getConfirmedData(c) \/ getConfirmedDataFails(c)
  <2>1. /\ pc[c] = "confirmed" /\ client[c].todo /= <<>> /\ Head(client[c].todo) /= Malformed
        /\ pc' = pc
    BY <1>3 DEF getConfirmedData, getConfirmedDataFails, HasNext, At
  <2>2. client[c].todo \in Seq(Looked) /\ client[c].seen \in Int
    BY <1>1, <2>1 DEF ClientTypes, Todo, Locals
  <2>3. Tail(client[c].todo) \in Seq(Looked) /\ Head(client[c].todo) \in Looked
    BY <2>1, <2>2
  <2>4. cases[Head(client[c].todo)[1]][Head(client[c].todo)[2]] \in Int
    BY <1>1, <2>1, <2>3, CellTypes
  <2>5. PICK i \in Int : client' = [client EXCEPT ![c].todo = Tail(client[c].todo), ![c].seen = i]
    <3>1. CASE getConfirmedData(c)
      <4>1. PICK i \in Int : i = client[c].seen + cases[Head(client[c].todo)[1]][Head(client[c].todo)[2]]
        BY <2>2, <2>4
      <4>. QED  BY <3>1, <4>1 DEF getConfirmedData, ClientTypes
    <3>2. CASE getConfirmedDataFails(c)
      <4>1. PICK i \in Int : i = client[c].seen - 1
        BY <2>2
      <4>. QED  BY <3>2, <4>1 DEF getConfirmedDataFails, ClientTypes
    <3>. QED  BY <1>3, <3>1, <3>2
  <2>. DEFINE m == [client[c] EXCEPT !.todo = Tail(client[c].todo), !.seen = i]
  <2>6. client' = [client EXCEPT ![c] = m] /\ pc' = [pc EXCEPT ![c] = "confirmed"]
    BY <2>1, <2>5 DEF ClientTypes
  <2>7. m \in Locals /\ m.todo = Tail(client[c].todo)
    BY <1>1, <2>3 DEF Locals
  <2>8. PICK n \in Locals : n = m
    BY <2>7
  <2>9. ClientMoves(c, n, "confirmed") /\ Todo("confirmed", n)
    BY <2>3, <2>6, <2>7, <2>8 DEF ClientMoves, Todo
  <2>. QED  BY <1>1, <2>9, ClientUpdate
<1>. QED  BY <1>2, <1>3

\* The option that is being carried out.
LEMMA EntryTypes ==
  ASSUME ClientTypes, NEW c \in Clients, pc[c] \in {"reporting", "adding"}, Head(client[c].todo) /= Malformed
  PROVE  /\ client[c].todo \in Seq(Options) /\ client[c].todo /= <<>> /\ Head(client[c].todo) \in Entry
         /\ Tail(client[c].todo) \in Seq(Options) /\ AfterEntry(c) \in {"dispatch", "reporting"}
         /\ AfterEntry(c) = "reporting" => Tail(client[c].todo) /= <<>>
         /\ InArray(c) \in Numbers
<1>1. client[c].todo \in Seq(Options) /\ client[c].todo /= <<>>
  BY DEF ClientTypes, Todo
<1>2. Head(client[c].todo) \in Options /\ Tail(client[c].todo) \in Seq(Options)
      /\ Len(Tail(client[c].todo)) = Len(client[c].todo) - 1 /\ Len(client[c].todo) \in Nat
  BY <1>1
<1>3. Head(client[c].todo) \in Entry
  BY <1>2 DEF Options
<1>4. Len(client[c].todo) /= 1 => Tail(client[c].todo) /= <<>>
  <2>1. Len(client[c].todo) /= 0
    BY <1>1
  <2>2. PICK t \in Seq(Options) : t = Tail(client[c].todo)
    BY <1>2
  <2>3. t = <<>> => Len(t) = 0
    OBVIOUS
  <2>. QED  BY <1>2, <2>1, <2>2, <2>3
<1>5. client[c].array \in Numbers
  BY DEF ClientTypes, Locals
<1>6. InArray(c) \in Numbers
  <2>1. PICK e \in Entry : e = Head(client[c].todo)
    BY <1>3
  <2>2. InArray(c) = [client[c].array EXCEPT ![e.degree][e.region] = client[c].array[e.degree][e.region] + e.number]
    BY <2>1, <1>5 DEF InArray, Numbers
  <2>3. e.degree \in Degrees /\ e.region \in Regions /\ e.number \in Int
    BY DEF Entry
  <2>. QED  BY <1>5, <2>2, <2>3 DEF Numbers
<1>. QED  BY <1>1, <1>2, <1>3, <1>4, <1>6 DEF AfterEntry

LEMMA TypesReporting ==
  ASSUME ClientTypes, NEW c \in Clients,
         \/ ClientReporting(c) \/ addConfirmedDataRead(c) \/ addConfirmedData(c) \/ addConfirmedDataFails(c)
  PROVE  ClientTypes'
<1>1. client[c] \in Locals /\ pc[c] \in Places /\ cases \in Numbers /\ delivered \in Numbers /\ taken \in Numbers
      /\ UNCHANGED <<last, server, signal, delivered>> /\ {"reporting", "adding", "dispatch"} \subseteq Places
  BY DEF ClientTypes, ClientReporting, addConfirmedDataRead, addConfirmedData, addConfirmedDataFails, shared, Places
<1>2. CASE ClientReporting(c)
  <2>1. PICK q \in Reports[c] :
          client' = [client EXCEPT ![c].todo = q, ![c].at = 0, ![c].largest = -SECOND,
                                   ![c].reports = client[c].reports + 1]
    BY <1>2 DEF ClientReporting, ClientTypes
  <2>2. q \in Seq(Options) /\ q /= <<>>
    BY ServerAssumption DEF Options
  <2>3. PICK z \in 0..NUM_REGION, l \in Int, r \in Nat : z = 0 /\ l = -SECOND /\ r = client[c].reports + 1
    <3>1. client[c].reports \in Nat
      BY <1>1 DEF Locals
    <3>2. client[c].reports + 1 \in Nat /\ -SECOND \in Int
      BY <3>1, Sizes
    <3>. QED  BY <3>2, Sizes
  <2>. DEFINE m == [client[c] EXCEPT !.todo = q, !.at = z, !.largest = l, !.reports = r]
  <2>4. client' = [client EXCEPT ![c] = m] /\ pc' = [pc EXCEPT ![c] = "reporting"] /\ UNCHANGED <<cases, taken>>
    BY <1>2, <2>1, <2>3 DEF ClientTypes, ClientReporting, shared
  <2>5. m \in Locals /\ m.todo = q
    BY <1>1, <2>2 DEF Locals
  <2>6. PICK n \in Locals : n = m
    BY <2>5
  <2>7. ClientMoves(c, n, "reporting") /\ Todo("reporting", n)
    BY <2>2, <2>4, <2>5, <2>6 DEF ClientMoves, Todo
  <2>. QED  BY <1>1, <2>4, <2>7, ClientUpdate
<1>3. CASE addConfirmedDataRead(c)
  <2>1. /\ pc[c] = "reporting" /\ client[c].todo /= <<>> /\ Head(client[c].todo) /= Malformed
        /\ pc' = [pc EXCEPT ![c] = "adding"] /\ UNCHANGED <<cases, taken>>
    BY <1>3 DEF addConfirmedDataRead, HasNext, At
  <2>2. client[c].todo \in Seq(Options) /\ Head(client[c].todo) \in Entry
    BY <2>1, EntryTypes
  <2>3. PICK i \in Int : i = cases[Head(client[c].todo).degree][Head(client[c].todo).region]
    BY <1>1, <2>2 DEF Entry, Numbers
  <2>. DEFINE m == [client[c] EXCEPT !.seen = i]
  <2>4. client' = [client EXCEPT ![c] = m]
    <3>1. client' = [client EXCEPT ![c].seen = i]
      BY <1>3, <2>3 DEF addConfirmedDataRead
    <3>. QED  BY <3>1
  <2>5. m \in Locals /\ m.todo = client[c].todo /\ m.seen = i
    <3>1. PICK old \in Locals : old = client[c]
      BY <1>1
    <3>2. [old EXCEPT !.seen = i] \in Locals
      BY DEF Locals
    <3>. QED  BY <3>1, <3>2 DEF Locals
  <2>6. PICK n \in Locals : n = m
    BY <2>5
  <2>7. ClientMoves(c, n, "adding") /\ Todo("adding", n)
    BY <2>1, <2>2, <2>4, <2>5, <2>6 DEF ClientMoves, Todo
  <2>. QED  BY <1>1, <2>1, <2>7, ClientUpdate
<1>4. CASE addConfirmedData(c) \/ addConfirmedDataFails(c)
  <2>1. /\ pc[c] \in {"adding", "reporting"} /\ Head(client[c].todo) /= Malformed
        /\ pc' = [pc EXCEPT ![c] = AfterEntry(c)]
    BY <1>4 DEF addConfirmedData, addConfirmedDataFails, HasNext, At, ClientTypes, Todo
  <2>2. /\ Head(client[c].todo) \in Entry /\ Tail(client[c].todo) \in Seq(Options)
        /\ AfterEntry(c) \in {"dispatch", "reporting"} /\ InArray(c) \in Numbers
        /\ AfterEntry(c) = "reporting" => Tail(client[c].todo) /= <<>>
    BY <2>1, EntryTypes
  <2>3. PICK i \in Int : client' = [client EXCEPT ![c].todo = Tail(client[c].todo), ![c].array = InArray(c), ![c].seen = i]
    <3>1. client[c].seen \in Int
      BY <1>1 DEF Locals
    <3>2. CASE addConfirmedData(c)
      <4>1. PICK i \in Int : i = 0
        OBVIOUS
      <4>. QED  BY <3>2, <4>1 DEF addConfirmedData, ClientTypes
    <3>3. CASE addConfirmedDataFails(c)
      <4>1. client' = [client EXCEPT ![c].todo = Tail(client[c].todo), ![c].array = InArray(c)]
        BY <3>3 DEF addConfirmedDataFails, ClientTypes
      <4>2. client' = [client EXCEPT ![c].todo = Tail(client[c].todo), ![c].array = InArray(c), ![c].seen = client[c].seen]
        BY <4>1, <1>1 DEF ClientTypes, Locals
      <4>. QED  BY <3>1, <4>2
    <3>. QED  BY <1>4, <3>2, <3>3
  <2>. DEFINE m == [client[c] EXCEPT !.todo = Tail(client[c].todo), !.array = InArray(c), !.seen = i]
  <2>4. client' = [client EXCEPT ![c] = m]
    BY <2>3 DEF ClientTypes
  <2>5. m \in Locals /\ m.todo = Tail(client[c].todo)
    BY <1>1, <2>2 DEF Locals
  <2>6. PICK n \in Locals, to \in Places : n = m /\ to = AfterEntry(c)
    BY <1>1, <2>2, <2>5
  <2>7. ClientMoves(c, n, to) /\ Todo(to, n)
    BY <2>1, <2>2, <2>4, <2>5, <2>6 DEF ClientMoves, Todo
  <2>8. cases' \in Numbers
    <3>1. CASE addConfirmedData(c)
      <4>1. PICK e \in Entry : e = Head(client[c].todo)
        BY <2>2
      <4>2. cases' = [cases EXCEPT ![e.degree][e.region] = client[c].seen + e.number]
        BY <3>1, <4>1 DEF addConfirmedData
      <4>3. client[c].seen + e.number \in Int
        <5>1. client[c].seen \in Int
          BY <3>1 DEF addConfirmedData, At, ClientTypes, Todo
        <5>. QED  BY <5>1 DEF Entry
      <4>. QED  BY <1>1, <4>2, <4>3 DEF Numbers, Entry
    <3>2. CASE addConfirmedDataFails(c)
      BY <1>1, <3>2 DEF addConfirmedDataFails, shared
    <3>. QED  BY <1>4, <3>1, <3>2
  <2>9. taken' \in Numbers
    <3>1. CASE addConfirmedData(c)
      <4>1. PICK e \in Entry : e = Head(client[c].todo)
        BY <2>2
      <4>2. PICK i2 \in Int : i2 = IF e.number < 0 THEN -e.number ELSE 0
        BY DEF Entry
      <4>3. taken' = [taken EXCEPT ![e.degree][e.region] = taken[e.degree][e.region] + i2]
        BY <1>1, <3>1, <4>1, <4>2 DEF addConfirmedData, Numbers, Entry
      <4>4. taken[e.degree][e.region] + i2 \in Int
        BY <1>1 DEF Entry, Numbers
      <4>. QED  BY <1>1, <4>3, <4>4 DEF Numbers, Entry
    <3>2. CASE addConfirmedDataFails(c)
      BY <1>1, <3>2 DEF addConfirmedDataFails
    <3>. QED  BY <1>4, <3>1, <3>2
  <2>. QED  BY <1>1, <2>7, <2>8, <2>9, ClientUpdate
<1>. QED  BY <1>2, <1>3, <1>4

-----------------------------------------------------------------------------
(* The lists, and the time that a region waits. *)

LEMMA MinIsLeast ==
  ASSUME NEW S \in SUBSET Nat, S /= {}
  PROVE  Min(S) \in S /\ \A x \in S : Min(S) <= x
<1>1. \E x \in S : \A y \in S : x <= y
  BY LeastNumber
<1>. QED  BY <1>1 DEF Min

LEMMA IndexTypes ==
  ASSUME NEW list \in Seq(Node), NEW r
  PROVE  /\ Index(list, r) \in SUBSET Nat /\ Index(list, r) \subseteq DOMAIN list
         /\ IsFiniteSet(Index(list, r)) /\ DOMAIN list = 1..Len(list) /\ Len(list) \in Nat
<1>1. DOMAIN list = 1..Len(list) /\ Len(list) \in Nat
  OBVIOUS
<1>2. IsFiniteSet(DOMAIN list)
  BY <1>1, FS_Interval
<1>3. Index(list, r) \in SUBSET DOMAIN list
  BY DEF Index
<1>. QED  BY <1>1, <1>2, <1>3, FS_Subset

\* The ticks the first k regions of a list take.
Ticks(list, k) == SumFunctionOnSet([i \in DOMAIN list |-> TravelTime(list[i].region_number)], 1..k)

LEMMA TicksTypes ==
  ASSUME NEW list \in Seq(Node), NEW k \in Nat, k <= Len(list)
  PROVE  /\ IsFiniteSet(1..k) /\ 1..k \subseteq DOMAIN list /\ Ticks(list, k) \in Nat
         /\ \A i \in 1..k : list[i] \in Node /\ TravelTime(list[i].region_number) \in Nat /\ list[i].execution_time \in Nat
<1>1. IsFiniteSet(1..k)
  BY FS_Interval
<1>2. 1..k \subseteq DOMAIN list
  OBVIOUS
<1>3. \A i \in 1..k : list[i] \in Node /\ TravelTime(list[i].region_number) \in Nat /\ list[i].execution_time \in Nat
  <2>1. ASSUME NEW i \in 1..k PROVE list[i] \in Node
    BY <1>2
  <2>. QED  BY <2>1, TravelTypes DEF Node
<1>. DEFINE f == [i \in DOMAIN list |-> TravelTime(list[i].region_number)]
<1>4. \A i \in 1..k : f[i] \in Nat
  BY <1>2, <1>3
<1>. HIDE DEF f
<1>5. SumFunctionOnSet(f, 1..k) \in Nat
  BY <1>1, <1>4, SumNat
<1>. QED  BY <1>1, <1>2, <1>3, <1>5 DEF Ticks, f

\* Only the first region of a list has been begun.
LEMMA LeftIs ==
  ASSUME NEW list \in Seq(Node), NEW k \in Nat, k <= Len(list),
         \A i \in DOMAIN list : i /= 1 => list[i].execution_time = 0
  PROVE  Left(list, k) = Ticks(list, k) - (IF k = 0 THEN 0 ELSE list[1].execution_time)
<1>. DEFINE S == 1..k
            f == [i \in S |-> TravelTime(list[i].region_number) - list[i].execution_time]
            g == [i \in DOMAIN list |-> TravelTime(list[i].region_number)]
<1>1. /\ IsFiniteSet(S) /\ S \subseteq DOMAIN list
      /\ \A i \in S : TravelTime(list[i].region_number) \in Nat /\ list[i].execution_time \in Nat
  BY TicksTypes
<1>2. \A i \in S : f[i] \in Int /\ g[i] \in Int /\ (i /= 1 => g[i] = f[i])
  <2>1. ASSUME NEW i \in S PROVE f[i] \in Int /\ g[i] \in Int /\ (i /= 1 => g[i] = f[i])
    <3>1. PICK x \in Nat, y \in Nat : x = TravelTime(list[i].region_number) /\ y = list[i].execution_time
      BY <1>1
    <3>2. f[i] = x - y /\ g[i] = x /\ (i /= 1 => y = 0)
      BY <1>1, <3>1
    <3>. QED  BY <3>2
  <2>. QED  BY <2>1
<1>3. Left(list, k) = SumFunctionOnSet(f, S) /\ Ticks(list, k) = SumFunctionOnSet(g, S)
  BY DEF Left, SumFunction, Ticks
<1>4. CASE k = 0
  <2>1. S = {}
    BY <1>4
  <2>. QED  BY <1>3, <1>4, <2>1, SumEmpty
<1>5. CASE k /= 0
  <2>1. 1 \in S
    BY <1>5
  <2>2. f[1] = TravelTime(list[1].region_number) - list[1].execution_time /\ g[1] = TravelTime(list[1].region_number)
    BY <1>1, <2>1
  <2>3. TravelTime(list[1].region_number) \in Nat /\ list[1].execution_time \in Nat
    BY <1>1, <2>1
  <2>. HIDE DEF f, g, S
  <2>4. SumFunctionOnSet(f, S) = SumFunctionOnSet(g, S) - g[1] + f[1]
    BY <1>1, <1>2, <2>1, SumChanged
  <2>5. SumFunctionOnSet(g, S) \in Int
    BY <1>1, <1>2, SumInt
  <2>. QED  BY <1>3, <1>5, <2>2, <2>3, <2>4, <2>5
<1>. QED  BY <1>4, <1>5

\* The last node that getNodeWaitingTime counts, and what of the first is done.
Slot(list, r) == IF Index(list, r) = {} THEN Len(list) ELSE Min(Index(list, r))
Begun(list) == IF list = <<>> THEN 0 ELSE list[1].execution_time

\* getNodeWaitingTime, in terms of what the bus needs: the ticks to the region's
\* node, if it has one, or to the end of the list.
LEMMA WaitingTime ==
  ASSUME NEW list \in Seq(Node), NEW r \in Regions,
         \A i \in DOMAIN list : i /= 1 => list[i].execution_time = 0
  PROVE  /\ Slot(list, r) \in 0..Len(list) /\ getNodeWaitingTime(list, r) \in Int
         /\ Ticks(list, Slot(list, r)) \in Nat /\ Begun(list) \in Nat
         /\ getNodeWaitingTime(list, r) <= TravelTime(r) + Ticks(list, Slot(list, r)) - Begun(list)
         /\ Index(list, r) = {} =>
              getNodeWaitingTime(list, r) = TravelTime(r) + Ticks(list, Slot(list, r)) - Begun(list)
         /\ Index(list, r) /= {} =>
              getNodeWaitingTime(list, r) >= Ticks(list, Slot(list, r)) - Begun(list)
<1>. DEFINE same == Index(list, r)
            k == Slot(list, r)
            begun == Begun(list)
<1>1. same \in SUBSET Nat /\ same \subseteq 1..Len(list) /\ Len(list) \in Nat /\ DOMAIN list = 1..Len(list)
  BY IndexTypes
<1>2. k \in 0..Len(list)
  <2>1. same /= {} => Min(same) \in same
    BY <1>1, MinIsLeast
  <2>. QED  BY <1>1, <2>1 DEF Slot
<1>3. list = <<>> <=> Len(list) = 0
  OBVIOUS
<1>4. begun \in Nat /\ Ticks(list, k) \in Nat
  <2>1. k \in Nat /\ k <= Len(list)
    BY <1>1, <1>2
  <2>2. Ticks(list, k) \in Nat
    <3>. HIDE DEF k
    <3>. QED  BY <2>1, TicksTypes
  <2>3. list /= <<>> => list[1] \in Node
    BY <1>1, <1>3
  <2>. QED  BY <2>2, <2>3 DEF Node, Begun
<1>5. TravelTime(r) \in Nat
  BY TravelTypes
<1>6. CASE 1 \in same
  <2>1. k = 1 /\ Len(list) >= 1
    <3>1. Min(same) \in same /\ Min(same) <= 1
      BY <1>1, <1>6, MinIsLeast
    <3>. QED  BY <1>1, <1>6, <3>1 DEF Slot
  <2>2. getNodeWaitingTime(list, r) = Left(list, 1)
    BY <1>6 DEF getNodeWaitingTime
  <2>3. Left(list, 1) = Ticks(list, 1) - (IF 1 = 0 THEN 0 ELSE list[1].execution_time)
    BY <2>1, <1>1, LeftIs
  <2>4. getNodeWaitingTime(list, r) = Ticks(list, k) - begun
    BY <1>1, <1>3, <2>1, <2>2, <2>3 DEF Begun
  <2>. QED  BY <1>2, <1>4, <1>5, <1>6, <2>4
<1>7. CASE 1 \notin same
  <2>1. getNodeWaitingTime(list, r) = TravelTime(r) + Left(list, k)
    BY <1>7 DEF getNodeWaitingTime, Slot
  <2>2. Left(list, k) = Ticks(list, k) - (IF k = 0 THEN 0 ELSE list[1].execution_time)
    <3>1. k \in Nat /\ k <= Len(list)
      BY <1>1, <1>2
    <3>. HIDE DEF k
    <3>. QED  BY <3>1, LeftIs
  <2>3. k = 0 <=> list = <<>>
    <3>1. same /= {} => Min(same) \in same
      BY <1>1, MinIsLeast
    <3>. QED  BY <1>1, <1>3, <3>1 DEF Slot
  <2>4. getNodeWaitingTime(list, r) = TravelTime(r) + Ticks(list, k) - begun
    <3>1. Left(list, k) = Ticks(list, k) - begun
      BY <2>2, <2>3 DEF Begun
    <3>. HIDE DEF begun, k
    <3>. QED  BY <1>4, <1>5, <2>1, <3>1
  <2>. QED  BY <1>2, <1>4, <1>5, <2>4
<1>. QED  BY <1>6, <1>7

\* The node that takes a report in.
Target(list, r) == IF Index(list, r) = {} THEN Len(list) + 1 ELSE Min(Index(list, r))

LEMMA Merged ==
  ASSUME NEW m \in Node, NEW node \in Node
  PROVE  LET n == [m EXCEPT !.cases = [d \in Degrees |-> m.cases[d] + node.cases[d]],
                            !.reporters = m.reporters \cup node.reporters]
         IN  /\ n \in Node /\ n.region_number = m.region_number /\ n.execution_time = m.execution_time
             /\ n.cases = [d \in Degrees |-> m.cases[d] + node.cases[d]]
             /\ n.reporters = m.reporters \cup node.reporters
<1>. DEFINE cs == [d \in Degrees |-> m.cases[d] + node.cases[d]]
            rs == m.reporters \cup node.reporters
<1>1. cs \in [Degrees -> Int]
  BY DEF Node
<1>2. rs \in SUBSET Clients
  BY DEF Node
<1>. HIDE DEF cs, rs
<1>3. LET n == [m EXCEPT !.cases = cs, !.reporters = rs]
      IN  /\ n \in Node /\ n.region_number = m.region_number /\ n.execution_time = m.execution_time
          /\ n.cases = cs /\ n.reporters = rs
  BY <1>1, <1>2 DEF Node
<1>. QED  BY <1>3 DEF cs, rs

\* What addNewCaseNumber does to a list: it grows by the new node, or the t-th
\* node takes the cases in.
Grown(list, node, new, t) ==
  /\ DOMAIN new = 1..Len(new) /\ DOMAIN list = 1..Len(list) /\ Len(list) \in Nat /\ Len(new) \in Nat
  /\ t = Target(list, node.region_number)
  /\ 1 <= t /\ t <= Len(new) /\ Len(list) <= Len(new)
  /\ new[t].region_number = node.region_number
  /\ IF Index(list, node.region_number) = {}
     THEN Len(new) = Len(list) + 1 /\ t = Len(list) + 1 /\ new[t] = node
     ELSE /\ Len(new) = Len(list) /\ t \in Index(list, node.region_number)
          /\ list[t].region_number = node.region_number
          /\ new[t].execution_time = list[t].execution_time
          /\ new[t].cases = [d \in Degrees |-> list[t].cases[d] + node.cases[d]]
          /\ new[t].reporters = list[t].reporters \cup node.reporters
  /\ \A i \in 1..Len(list) : i /= t => new[i] = list[i]

LEMMA Added ==
  ASSUME NEW list \in Seq(Node), NEW node \in Node
  PROVE  \E new \in Seq(Node), t \in Nat :
           new = addNewCaseNumber(list, node) /\ Grown(list, node, new, t)
<1>. DEFINE r == node.region_number
            new == addNewCaseNumber(list, node)
            t == Target(list, r)
<1>1. /\ Index(list, r) \in SUBSET Nat /\ Index(list, r) \subseteq DOMAIN list
      /\ DOMAIN list = 1..Len(list) /\ Len(list) \in Nat
  BY IndexTypes
<1>2. CASE Index(list, r) = {}
  <2>1. t = Len(list) + 1 /\ new = Append(list, node)
    BY <1>2 DEF Target, addNewCaseNumber, insertEnd
  <2>2. /\ Append(list, node) \in Seq(Node) /\ Len(Append(list, node)) = Len(list) + 1
        /\ Append(list, node)[Len(list) + 1] = node
        /\ \A i \in 1..Len(list) : Append(list, node)[i] = list[i]
    OBVIOUS
  <2>3. PICK n \in Seq(Node), x \in Nat : n = new /\ x = t
    BY <1>1, <2>1, <2>2
  <2>. HIDE DEF new, t
  <2>4. Len(n) = Len(list) + 1 /\ x = Len(list) + 1 /\ n[x] = node /\ \A i \in 1..Len(list) : n[i] = list[i]
    BY <2>1, <2>2, <2>3
  <2>5. Grown(list, node, n, x)
    BY <1>1, <1>2, <2>3, <2>4 DEF Grown, t
  <2>. QED  BY <2>3, <2>5 DEF new
<1>3. CASE Index(list, r) /= {}
  <2>1. t = Min(Index(list, r)) /\ t \in Index(list, r)
    BY <1>1, <1>3, MinIsLeast DEF Target
  <2>2. t \in 1..Len(list) /\ list[t] \in Node /\ list[t].region_number = r
    BY <1>1, <2>1 DEF Index
  <2>3. PICK m \in Node : m = list[t]
    BY <2>2
  <2>. DEFINE n == [m EXCEPT !.cases = [d \in Degrees |-> m.cases[d] + node.cases[d]],
                             !.reporters = m.reporters \cup node.reporters]
  <2>4. /\ n \in Node /\ n.region_number = m.region_number /\ n.execution_time = m.execution_time
        /\ n.cases = [d \in Degrees |-> m.cases[d] + node.cases[d]]
        /\ n.reporters = m.reporters \cup node.reporters
    BY Merged
  <2>5. new = [list EXCEPT ![t] = n]
    BY <1>3, <2>1, <2>3 DEF addNewCaseNumber
  <2>. HIDE DEF n, t
  <2>6. [list EXCEPT ![t] = n] \in Seq(Node) /\ Len([list EXCEPT ![t] = n]) = Len(list)
        /\ [list EXCEPT ![t] = n][t] = n
        /\ \A i \in 1..Len(list) : i /= t => [list EXCEPT ![t] = n][i] = list[i]
    BY <2>2, <2>4
  <2>7. new \in Seq(Node) /\ Len(new) = Len(list) /\ new[t] = n /\ \A i \in 1..Len(list) : i /= t => new[i] = list[i]
    BY <2>5, <2>6
  <2>8. PICK k \in Seq(Node), x \in Nat : k = new /\ x = t
    BY <2>2, <2>7
  <2>. HIDE DEF new
  <2>9. Grown(list, node, k, x)
    BY <1>1, <1>3, <2>1, <2>2, <2>3, <2>4, <2>7, <2>8 DEF Grown, t
  <2>. QED  BY <2>8, <2>9 DEF new
<1>. QED  BY <1>2, <1>3

\* The step of getAmbulanceWaitingTime: the region r, the bus b, the new node and
\* the estimate.
Scheduled(c, r, b, node, time) ==
  /\ pc[c] = "both" /\ pc' = [pc EXCEPT ![c] = "dispatch"]
  /\ r >= client[c].at /\ r \in ToDispatch(c) /\ \A x \in ToDispatch(c) : r <= x
  /\ node = [region_number |-> r, cases |-> [d \in Degrees |-> client[c].array[d][r]],
             execution_time |-> 0, reporters |-> {c}]
  /\ time = getNodeWaitingTime(bus[b], r)
  /\ bus' = [bus EXCEPT ![b] = addNewCaseNumber(bus[b], node)]
  /\ client' = [client EXCEPT ![c].at = r + 1,
                              ![c].largest = IF client[c].largest < time THEN time ELSE client[c].largest]
  /\ UNCHANGED <<cases, semaCDCSystem, removed, ambulance, last, server, signal, history>>

LEMMA ScheduleIs ==
  ASSUME ClientTypes, ListTypes, NEW c \in Clients, ClientSchedule(c)
  PROVE  \E r \in Regions, b \in Buses, node \in Node, time \in Int : Scheduled(c, r, b, node, time)
<1>1. pc[c] = "both" /\ client[c] \in Locals /\ c \in DOMAIN client
  BY DEF ClientSchedule, At, ClientTypes
<1>2. ToDispatch(c) \in SUBSET Nat /\ ToDispatch(c) \subseteq Regions /\ ToDispatch(c) /= {}
  <2>1. ToDispatch(c) \subseteq Regions
    BY DEF ToDispatch
  <2>2. ToDispatch(c) /= {}
    BY <1>1 DEF ToDispatch, ClientTypes, Todo
  <2>. QED  BY <2>1, <2>2, Sizes
<1>3. PICK r \in Regions : r = Min(ToDispatch(c)) /\ r \in ToDispatch(c) /\ \A x \in ToDispatch(c) : r <= x
  BY <1>2, MinIsLeast
<1>. DEFINE time == [b \in Buses |-> getNodeWaitingTime(bus[b], r)]
            chosen == IF time[1] <= time[2] THEN 1 ELSE 2
            ours == initNode(r, [d \in Degrees |-> client[c].array[d][r]], c)
<1>4. PICK b \in Buses : b = chosen
  BY DEF Buses
<1>5. bus[b] \in Seq(Node) /\ \A i \in DOMAIN bus[b] : i /= 1 => bus[b][i].execution_time = 0
  BY DEF ListTypes, Driving
<1>6. PICK t \in Int : t = getNodeWaitingTime(bus[b], r)
  BY <1>5, WaitingTime
<1>7. PICK node \in Node : node = ours
  <2>1. [d \in Degrees |-> client[c].array[d][r]] \in [Degrees -> Int]
    BY <1>1 DEF Locals, Numbers
  <2>. QED  BY <2>1 DEF initNode, Node
<1>8. /\ bus' = [bus EXCEPT ![chosen] = addNewCaseNumber(@, ours)]
      /\ client' = [client EXCEPT ![c].at = r + 1,
                                  ![c].largest = IF @ < time[chosen] THEN time[chosen] ELSE @]
      /\ pc' = [pc EXCEPT ![c] = "dispatch"]
      /\ UNCHANGED <<cases, semaCDCSystem, removed, ambulance, last, server, signal, history>>
  BY <1>3 DEF ClientSchedule
<1>9. time[chosen] = t
  BY <1>4, <1>6
<1>10. /\ bus' = [bus EXCEPT ![b] = addNewCaseNumber(bus[b], node)]
       /\ client' = [client EXCEPT ![c].at = r + 1,
                                   ![c].largest = IF client[c].largest < t THEN t ELSE client[c].largest]
  <2>. HIDE DEF time, chosen, ours
  <2>1. bus' = [bus EXCEPT ![b] = addNewCaseNumber(bus[b], node)]
    BY <1>4, <1>7, <1>8 DEF ListTypes
  <2>2. client' = [client EXCEPT ![c].at = r + 1, ![c].largest = IF @ < t THEN t ELSE @]
    BY <1>8, <1>9
  <2>. QED  BY <1>1, <2>1, <2>2 DEF Locals, ClientTypes
<1>11. r >= client[c].at
  BY <1>3 DEF ToDispatch
<1>12. node = [region_number |-> r, cases |-> [d \in Degrees |-> client[c].array[d][r]],
               execution_time |-> 0, reporters |-> {c}]
  BY <1>7 DEF initNode
<1>13. /\ pc' = [pc EXCEPT ![c] = "dispatch"]
       /\ UNCHANGED <<cases, semaCDCSystem, removed, ambulance, last, server, signal, history>>
  BY <1>8
<1>14. Scheduled(c, r, b, node, t)
  BY <1>1, <1>3, <1>6, <1>10, <1>11, <1>12, <1>13 DEF Scheduled
<1>. QED  BY <1>14

\* The seconds that a process sleeps, whatever was estimated.
LEMMA SleepTypes ==
  ASSUME NEW l \in Int
  PROVE  /\ Truncated(l) \in Int /\ AsUnsigned(Truncated(l)) \in 0..UINT_MAX
         /\ SECOND * AsUnsigned(Truncated(l)) \in 0..(SECOND * UINT_MAX)
<1>1. Truncated(l) \in Int
  <2>1. \A i \in Int, n \in Nat : n > 0 => i \div n \in Int
    OBVIOUS
  <2>2. l \div SECOND \in Int /\ (-l) \div SECOND \in Int
    BY <2>1, Sizes
  <2>. QED  BY <2>2 DEF Truncated
<1>2. AsUnsigned(Truncated(l)) \in 0..UINT_MAX
  <2>1. \A i \in Int, n \in Nat : n > 0 => i % n \in 0..(n - 1)
    OBVIOUS
  <2>2. PICK i \in Int, n \in Nat : i = Truncated(l) /\ n = UINT_MAX + 1 /\ n > 0
    BY <1>1, Sizes
  <2>3. i % n \in 0..(n - 1) /\ n - 1 = UINT_MAX
    BY <2>1, <2>2, Sizes
  <2>. QED  BY <2>2, <2>3 DEF AsUnsigned
<1>3. SECOND * AsUnsigned(Truncated(l)) \in 0..(SECOND * UINT_MAX)
  <2>1. PICK a \in Nat : a = AsUnsigned(Truncated(l)) /\ UINT_MAX - a \in Nat
    BY <1>2, Sizes
  <2>2. \A x, y \in Nat : x * y \in Nat
    OBVIOUS
  <2>3. SECOND * a \in Nat /\ SECOND * (UINT_MAX - a) \in Nat
    BY <2>1, <2>2, Sizes
  <2>4. SECOND * UINT_MAX = SECOND * a + SECOND * (UINT_MAX - a)
    BY <2>1, Sizes
  <2>. QED  BY <2>1, <2>3, <2>4, Sizes
<1>. QED  BY <1>1, <1>2, <1>3

LEMMA TypesScheduling ==
  ASSUME ClientTypes, ListTypes, NEW c \in Clients,
         LockBus1(c) \/ LockBus2(c) \/ ClientSchedule(c) \/ ClientSleep(c)
  PROVE  ClientTypes'
<1>1. client[c] \in Locals /\ pc[c] \in Places /\ {"bus1", "both", "dispatch", "sleeping"} \subseteq Places
  BY DEF ClientTypes, Places
<1>2. PICK m \in Locals : m = client[c]
  BY <1>1
<1>3. CASE LockBus1(c) \/ LockBus2(c)
  <2>1. /\ UNCHANGED <<client, last, server, signal, cases, history>>
        /\ \E to \in {"bus1", "both"} : pc' = [pc EXCEPT ![c] = to]
    BY <1>3 DEF LockBus1, LockBus2
  <2>2. PICK to \in {"bus1", "both"} : pc' = [pc EXCEPT ![c] = to]
    BY <2>1
  <2>3. \E r \in Regions : r >= m.at /\ \E d \in Degrees : m.array[d][r] /= 0
    <3>1. CASE LockBus1(c)
      BY <1>2, <3>1 DEF LockBus1, ToDispatch
    <3>2. CASE LockBus2(c)
      BY <1>2, <3>2 DEF LockBus2, At, ClientTypes, Todo
    <3>. QED  BY <1>3, <3>1, <3>2
  <2>4. ClientMoves(c, m, to) /\ Todo(to, m)
    BY <1>2, <2>1, <2>2, <2>3 DEF ClientMoves, Todo, ClientTypes
  <2>5. cases' \in Numbers /\ delivered' \in Numbers /\ taken' \in Numbers /\ to \in Places
    BY <1>1, <2>1 DEF ClientTypes
  <2>. QED  BY <2>1, <2>4, <2>5, ClientUpdate
<1>4. CASE ClientSchedule(c)
  <2>1. PICK r \in Regions, b \in Buses, node \in Node, time \in Int : Scheduled(c, r, b, node, time)
    BY <1>4, ScheduleIs
  <2>2. PICK a \in 0..NUM_REGION : a = r + 1
    BY Sizes DEF Regions
  <2>3. PICK l \in Int : l = IF client[c].largest < time THEN time ELSE client[c].largest
    BY <1>1 DEF Locals
  <2>. DEFINE n == [m EXCEPT !.at = a, !.largest = l]
  <2>4. client' = [client EXCEPT ![c].at = a, ![c].largest = l] /\ pc' = [pc EXCEPT ![c] = "dispatch"]
    BY <2>1, <2>2, <2>3 DEF Scheduled
  <2>5. client' = [client EXCEPT ![c] = n]
    BY <1>2, <2>4 DEF ClientTypes
  <2>6. n \in Locals
    BY DEF Locals
  <2>7. PICK o \in Locals : o = n
    BY <2>6
  <2>8. ClientMoves(c, o, "dispatch") /\ Todo("dispatch", o)
    BY <2>4, <2>5, <2>7 DEF ClientMoves, Todo
  <2>9. UNCHANGED <<last, server, signal, cases, history>> /\ cases' \in Numbers /\ delivered' \in Numbers /\ taken' \in Numbers
    BY <2>1 DEF Scheduled, ClientTypes
  <2>. QED  BY <1>1, <2>8, <2>9, ClientUpdate
<1>5. CASE ClientSleep(c)
  <2>1. PICK z \in 0..(SECOND * UINT_MAX) : z = SECOND * AsUnsigned(Truncated(client[c].largest))
    <3>1. client[c].largest \in Int
      BY <1>1 DEF Locals
    <3>. QED  BY <3>1, SleepTypes
  <2>. DEFINE n == [m EXCEPT !.sleep = z]
  <2>2. client' = [client EXCEPT ![c] = n] /\ pc' = [pc EXCEPT ![c] = "sleeping"]
    BY <1>2, <1>5, <2>1 DEF ClientTypes, ClientSleep
  <2>3. n \in Locals
    BY DEF Locals
  <2>4. PICK o \in Locals : o = n
    BY <2>3
  <2>5. ClientMoves(c, o, "sleeping") /\ Todo("sleeping", o)
    BY <2>2, <2>4 DEF ClientMoves, Todo
  <2>6. UNCHANGED <<last, server, signal, cases, history>> /\ cases' \in Numbers /\ delivered' \in Numbers /\ taken' \in Numbers
    BY <1>5 DEF ClientSleep, shared, ClientTypes
  <2>. QED  BY <1>1, <2>5, <2>6, ClientUpdate
<1>. QED  BY <1>3, <1>4, <1>5

LEMMA TypesClient ==
  ASSUME ClientTypes, ListTypes, NEW c \in Clients, ClientStep(c)
  PROVE  ClientTypes'
BY TypesCommand, TypesConfirmed, TypesReporting, TypesScheduling DEF ClientStep

LEMMA TypesElsewhere ==
  ASSUME ClientTypes, ListTypes, (\E b \in Buses : AmbulanceStep(b)) \/ Tick \/ CtrlC \/ ServerStep
         \/ (\E p \in Handlers : Handler(p)) \/ UNCHANGED vars
  PROVE  ClientTypes'
<1>1. CASE \/ CtrlC \/ AcceptFails \/ ServerEnds \/ (\E p \in Handlers : Handler(p)) \/ UNCHANGED vars
  <2>1. UNCHANGED <<cases, pc, client, last, history>>
    BY <1>1 DEF CtrlC, AcceptFails, ServerEnds, Handler, RemoveShm, RemoveSemaphores, shared, vars
  <2>2. server' \in {"accept", "exit", "ended"}
    BY <1>1 DEF CtrlC, AcceptFails, ServerEnds, Handler, RemoveShm, RemoveSemaphores, shared, vars, ClientTypes
  <2>3. signal' \in [Handlers -> {"none", "pending", "handling", "handled"}]
    BY <1>1 DEF CtrlC, AcceptFails, ServerEnds, Handler, RemoveShm, RemoveSemaphores, shared, vars, ClientTypes
  <2>. QED  BY <2>1, <2>2, <2>3 DEF ClientTypes
<1>2. CASE \E b \in Buses : AmbulanceStep(b)
  <2>1. PICK b \in Buses : AmbulanceStep(b)
    BY <1>2
  <2>2. UNCHANGED <<cases, pc, client, last, server, signal>>
    BY <2>1 DEF AmbulanceStep, AmbulanceIdle, AmbulanceDrives, AmbulanceArrives, AmbulanceFails, Round, shared
  <2>3. delivered' \in Numbers /\ taken' = taken
    <3>1. CASE AmbulanceArrives(b)
      <4>1. PICK n \in Node : n = bus[b][1]
        <5>1. bus[b] \in Seq(Node) /\ bus[b] /= <<>>
          BY <3>1 DEF AmbulanceArrives, ListTypes
        <5>. QED  BY <5>1
      <4>2. delivered' = [d \in Degrees |-> [delivered[d] EXCEPT ![n.region_number] = delivered[d][n.region_number] + n.cases[d]]]
        BY <3>1, <4>1 DEF AmbulanceArrives, ClientTypes, Numbers
      <4>3. taken' = taken
        BY <3>1 DEF AmbulanceArrives
      <4>. QED  BY <4>2, <4>3 DEF ClientTypes, Numbers, Node
    <3>2. CASE ~AmbulanceArrives(b)
      BY <2>1, <3>2 DEF AmbulanceStep, AmbulanceIdle, AmbulanceDrives, AmbulanceFails, ClientTypes
    <3>. QED  BY <3>1, <3>2
  <2>. QED  BY <2>2, <2>3 DEF ClientTypes
<1>3. CASE Tick
  <2>1. UNCHANGED <<cases, pc, last, server, signal, history>>
    BY <1>3 DEF Tick, shared
  <2>2. ASSUME NEW c \in Clients PROVE client'[c] \in Locals /\ Todo(pc'[c], client'[c])
    <3>1. client[c] \in Locals /\ Todo(pc[c], client[c]) /\ pc'[c] = pc[c]
      BY <2>1 DEF ClientTypes
    <3>2. CASE pc[c] = "sleeping" /\ client[c].sleep > 0
      <4>1. PICK z \in 0..(SECOND * UINT_MAX) : z = client[c].sleep - 1
        <5>1. PICK w \in 0..(SECOND * UINT_MAX) : w = client[c].sleep
          BY <3>1 DEF Locals
        <5>2. w - 1 \in 0..(SECOND * UINT_MAX)
          BY <3>2, <5>1, Sizes
        <5>. QED  BY <5>1, <5>2
      <4>2. client'[c] = [client[c] EXCEPT !.sleep = z]
        BY <1>3, <3>2, <4>1 DEF Tick
      <4>. QED  BY <3>1, <3>2, <4>2 DEF Locals, Todo
    <3>3. CASE ~(pc[c] = "sleeping" /\ client[c].sleep > 0)
      BY <1>3, <3>1, <3>3 DEF Tick
    <3>. QED  BY <3>2, <3>3
  <2>3. client' \in [Clients -> Locals]
    <3>1. client' = [c \in Clients |-> client'[c]]
      BY <1>3 DEF Tick
    <3>. QED  BY <2>2, <3>1
  <2>. QED  BY <2>1, <2>2, <2>3 DEF ClientTypes
<1>4. CASE \E c \in Clients : Accept(c)
  <2>1. PICK c \in Clients : Accept(c)
    BY <1>4
  <2>2. PICK n \in Int : client' = [client EXCEPT ![c].array = [d \in Degrees |-> [r \in Regions |-> n]]]
    BY <2>1, ServerAssumption DEF Accept
  <2>3. client[c] \in Locals /\ [d \in Degrees |-> [r \in Regions |-> n]] \in Numbers
        /\ pc \in [Clients -> Places] /\ "connected" \in Places
    BY DEF ClientTypes, Numbers, Places
  <2>4. PICK m \in Locals : m = [client[c] EXCEPT !.array = [d \in Degrees |-> [r \in Regions |-> n]]]
    BY <2>3 DEF Locals
  <2>5. client' = [client EXCEPT ![c] = m] /\ pc' = [pc EXCEPT ![c] = "connected"]
    BY <2>1, <2>2, <2>4 DEF Accept, ClientTypes
  <2>6. client' \in [Clients -> Locals] /\ pc' \in [Clients -> Places]
        /\ client'[c] = m /\ pc'[c] = "connected"
        /\ \A d \in Clients : d /= c => pc'[d] = pc[d] /\ client'[d] = client[d]
    BY <2>3, <2>5 DEF ClientTypes
  <2>7. \A d \in Clients : Todo(pc'[d], client'[d])
    BY <2>6 DEF ClientTypes, Todo
  <2>8. UNCHANGED <<cases, server, signal, history>> /\ last' = c
    BY <2>1 DEF Accept, shared
  <2>. QED  BY <2>6, <2>7, <2>8 DEF ClientTypes
<1>. QED  BY <1>1, <1>2, <1>3, <1>4 DEF ServerStep

-----------------------------------------------------------------------------
(* The lists: what an ambulance and a report do to them. *)

\* A list and its ambulance move; the other list and ambulance do not.
LEMMA ListUpdate ==
  ASSUME ListTypes, NEW b \in Buses, NEW list \in Seq(Node),
         NEW a \in [pc : {"poll", "gone"}, first_get_time : 0..1, age : Nat],
         bus' = [bus EXCEPT ![b] = list], ambulance' = [ambulance EXCEPT ![b] = a], Driving(list, a)
  PROVE  ListTypes'
<1>1. /\ bus' \in [Buses -> Seq(Node)]
      /\ ambulance' \in [Buses -> [pc : {"poll", "gone"}, first_get_time : 0..1, age : Nat]]
  BY DEF ListTypes
<1>2. ASSUME NEW x \in Buses PROVE Driving(bus'[x], ambulance'[x])
  <2>1. CASE x = b
    <3>1. bus'[x] = list /\ ambulance'[x] = a
      BY <2>1 DEF ListTypes
    <3>. QED  BY <3>1
  <2>2. CASE x /= b
    <3>1. bus'[x] = bus[x] /\ ambulance'[x] = ambulance[x]
      BY <2>2 DEF ListTypes
    <3>. QED  BY <3>1 DEF ListTypes
  <2>. QED  BY <2>1, <2>2
<1>. QED  BY <1>1, <1>2 DEF ListTypes

LEMMA ListsAmbulance ==
  ASSUME ListTypes, NEW b \in Buses, AmbulanceStep(b)
  PROVE  ListTypes'
<1>. DEFINE A == [pc : {"poll", "gone"}, first_get_time : 0..1, age : Nat]
<1>1. PICK l \in Seq(Node), a \in A : l = bus[b] /\ a = ambulance[b] /\ Driving(l, a)
  BY DEF ListTypes
<1>2. /\ a.pc \in {"poll", "gone"} /\ a.first_get_time \in 0..1 /\ a.age \in Nat
      /\ b \in DOMAIN bus /\ b \in DOMAIN ambulance /\ bus = [bus EXCEPT ![b] = l]
  BY <1>1 DEF ListTypes
<1>3. PICK z \in Nat, o \in 0..1, y \in 0..1 : z = 0 /\ o = 1 /\ y = 0
  OBVIOUS
<1>4. [pc |-> "poll", first_get_time |-> o, age |-> z] \in A
  BY <1>3
<1>5. PICK idle \in A : idle = [pc |-> "poll", first_get_time |-> o, age |-> z]
  BY <1>4
<1>6. Executed(b) \in Nat /\ (o = 1 /\ Executed(b) = IF a.first_get_time = 1 THEN 0 ELSE a.age)
  BY <1>1, <1>2, <1>3 DEF Executed
<1>7. CASE AmbulanceIdle(b)
  <2>1. l = <<>> /\ bus' = [bus EXCEPT ![b] = l] /\ ambulance' = [ambulance EXCEPT ![b] = idle]
    BY <1>1, <1>2, <1>3, <1>5, <1>7 DEF AmbulanceIdle, Polling
  <2>2. Driving(l, idle)
    <3>1. idle.age = 0 /\ idle.first_get_time = 1
      BY <1>3, <1>5
    <3>. QED  BY <1>1, <2>1, <3>1 DEF Driving
  <2>. QED  BY <2>1, <2>2, ListUpdate
<1>8. CASE AmbulanceDrives(b)
  <2>1. PICK e \in Nat : e = Executed(b)
    BY <1>6
  <2>2. l /= <<>> /\ l[1] \in Node /\ 1 \in DOMAIN l /\ e < TravelTime(l[1].region_number) /\ e <= a.age
    <3>1. l /= <<>> /\ e < TravelTime(l[1].region_number)
      BY <1>1, <1>8, <2>1 DEF AmbulanceDrives
    <3>2. l[1] \in Node /\ 1 \in DOMAIN l
      BY <3>1
    <3>. QED  BY <1>2, <1>6, <2>1, <3>1, <3>2
  <2>3. PICK n \in Node : n = [l[1] EXCEPT !.execution_time = e]
    BY <2>2 DEF Node
  <2>4. PICK g \in A : g = [pc |-> "poll", first_get_time |-> y, age |-> e]
    OBVIOUS
  <2>5. PICK k \in Seq(Node) : k = [l EXCEPT ![1] = n]
    <3>1. [l EXCEPT ![1] = n] \in Seq(Node)
      BY <2>2
    <3>. QED  BY <3>1
  <2>6. ambulance' = [ambulance EXCEPT ![b] = g]
    BY <1>3, <1>8, <2>1, <2>4 DEF AmbulanceDrives, Polling
  <2>7. bus' = [bus EXCEPT ![b] = k]
    <3>1. bus' = [bus EXCEPT ![b][1].execution_time = e]
      BY <1>8, <2>1 DEF AmbulanceDrives
    <3>. QED  BY <1>1, <2>2, <2>3, <2>5, <3>1 DEF ListTypes
  <2>8. Driving(k, g)
    <3>1. DOMAIN k = DOMAIN l /\ k[1] = n /\ \A i \in DOMAIN k : i /= 1 => k[i] = l[i]
      BY <2>2, <2>5
    <3>2. n.execution_time = e /\ n.region_number = l[1].region_number
      BY <2>2, <2>3 DEF Node
    <3>3. TravelTime(l[1].region_number) \in Nat
      BY <2>2, TravelTypes DEF Node
    <3>4. g.age = e /\ g.first_get_time = 0
      BY <1>3, <2>4
    <3>5. \A i \in DOMAIN k : i /= 1 => k[i].execution_time = 0
      BY <1>1, <3>1 DEF Driving
    <3>6. k /= <<>>
      BY <2>2, <3>1
    <3>. QED  BY <2>2, <3>1, <3>2, <3>3, <3>4, <3>5, <3>6 DEF Driving
  <2>. QED  BY <2>6, <2>7, <2>8, ListUpdate
<1>9. CASE AmbulanceArrives(b)
  <2>1. /\ l /= <<>> /\ bus' = [bus EXCEPT ![b] = Tail(l)]
        /\ ambulance' = [ambulance EXCEPT ![b] = idle]
    BY <1>1, <1>3, <1>5, <1>9 DEF AmbulanceArrives, deleteBegin, Polling, ListTypes
  <2>2. PICK k \in Seq(Node) : k = Tail(l)
    <3>1. Tail(l) \in Seq(Node)
      BY <2>1
    <3>. QED  BY <3>1
  <2>3. Driving(k, idle)
    <3>1. idle.age = 0 /\ idle.first_get_time = 1
      BY <1>3, <1>5
    <3>2. ASSUME NEW i \in DOMAIN k PROVE k[i] \in Node /\ k[i].execution_time = 0
      <4>1. i \in 1..(Len(l) - 1) /\ k[i] = l[i + 1] /\ Len(l) \in Nat
        BY <2>1, <2>2
      <4>2. i + 1 \in DOMAIN l /\ i + 1 /= 1
        BY <4>1
      <4>. QED  BY <1>1, <4>1, <4>2 DEF Driving
    <3>3. k /= <<>> => k[1].execution_time = 0 /\ k[1] \in Node
      <4>1. k /= <<>> => 1 \in DOMAIN k
        OBVIOUS
      <4>. QED  BY <3>2, <4>1
    <3>4. k /= <<>> => TravelTime(k[1].region_number) \in Nat
      BY <3>3, TravelTypes DEF Node
    <3>. QED  BY <3>1, <3>2, <3>3, <3>4 DEF Driving
  <2>. QED  BY <2>1, <2>2, <2>3, ListUpdate
<1>10. CASE AmbulanceFails(b)
  <2>1. PICK g \in A : g = [a EXCEPT !.pc = "gone"]
    BY <1>2
  <2>2. bus' = [bus EXCEPT ![b] = l] /\ ambulance' = [ambulance EXCEPT ![b] = g]
    BY <1>1, <1>2, <1>10, <2>1 DEF AmbulanceFails, shared, ListTypes
  <2>3. Driving(l, g)
    BY <1>1, <2>1 DEF Driving
  <2>. QED  BY <2>2, <2>3, ListUpdate
<1>. QED  BY <1>7, <1>8, <1>9, <1>10 DEF AmbulanceStep

LEMMA ListsSchedule ==
  ASSUME ListTypes, ClientTypes, NEW c \in Clients, ClientSchedule(c)
  PROVE  ListTypes'
<1>1. PICK r \in Regions, b \in Buses, node \in Node, time \in Int : Scheduled(c, r, b, node, time)
  BY ScheduleIs
<1>2. PICK list \in Seq(Node), a \in [pc : {"poll", "gone"}, first_get_time : 0..1, age : Nat] :
        list = bus[b] /\ a = ambulance[b] /\ Driving(list, a)
  BY DEF ListTypes
<1>3. node.execution_time = 0 /\ node.region_number = r
  BY <1>1 DEF Scheduled
<1>4. PICK new \in Seq(Node), t \in Nat : new = addNewCaseNumber(list, node) /\ Grown(list, node, new, t)
  BY Added
<1>5. \A i \in DOMAIN new : i /= 1 => new[i].execution_time = 0
  BY <1>2, <1>3, <1>4 DEF Grown, Driving
<1>6. list = <<>> => Len(list) = 0
  OBVIOUS
<1>7. list /= <<>> => Len(list) /= 0
  OBVIOUS
<1>8. /\ list = <<>> => new[1].execution_time = 0
      /\ list /= <<>> => new[1].execution_time = list[1].execution_time
                         /\ new[1].region_number = list[1].region_number
  <2>1. CASE list = <<>>
    <3>1. Index(list, r) = {}
      BY <2>1 DEF Index
    <3>2. new[1] = node
      BY <1>3, <1>4, <1>6, <2>1, <3>1 DEF Grown
    <3>. QED  BY <1>3, <2>1, <3>2
  <2>2. CASE list /= <<>>
    <3>1. 1 \in 1..Len(list)
      BY <1>7, <2>2
    <3>2. CASE t = 1
      <4>1. Index(list, r) /= {}
        <5>1. Len(list) \in Nat /\ (Index(list, r) = {} => t = Len(list) + 1)
          BY <1>3, <1>4 DEF Grown
        <5>. QED  BY <3>1, <3>2, <5>1
      <4>. QED  BY <1>3, <1>4, <2>2, <3>2, <4>1 DEF Grown
    <3>3. CASE t /= 1
      BY <1>4, <2>2, <3>1, <3>3 DEF Grown
    <3>. QED  BY <3>2, <3>3
  <2>. QED  BY <2>1, <2>2
<1>9. new /= <<>> /\ TravelTime(new[1].region_number) \in Nat
  <2>1. 1 <= t /\ t <= Len(new) /\ Len(new) \in Nat
    BY <1>4 DEF Grown
  <2>2. 1 \in 1..Len(new)
    BY <2>1
  <2>3. new[1] \in Node /\ new /= <<>>
    BY <2>2
  <2>. QED  BY <2>3, TravelTypes DEF Node
<1>10. Driving(new, a)
  BY <1>2, <1>5, <1>8, <1>9 DEF Driving
<1>11. bus' = [bus EXCEPT ![b] = new] /\ ambulance' = [ambulance EXCEPT ![b] = a]
  BY <1>1, <1>2, <1>4 DEF Scheduled, ListTypes
<1>. QED  BY <1>10, <1>11, ListUpdate

LEMMA ListsNext ==
  ASSUME ListTypes, ClientTypes, [Next]_vars
  PROVE  ListTypes'
<1>1. CASE \E b \in Buses : AmbulanceStep(b)
  BY <1>1, ListsAmbulance
<1>2. CASE \E c \in Clients : ClientSchedule(c)
  BY <1>2, ListsSchedule
<1>3. CASE Tick
  <2>1. bus' = bus
    BY <1>3 DEF Tick, shared
  <2>2. ASSUME NEW b \in Buses
        PROVE  /\ ambulance'[b] \in [pc : {"poll", "gone"}, first_get_time : 0..1, age : Nat]
               /\ Driving(bus[b], ambulance'[b])
    <3>1. PICK l \in Seq(Node), a \in [pc : {"poll", "gone"}, first_get_time : 0..1, age : Nat] :
            l = bus[b] /\ a = ambulance[b] /\ Driving(l, a)
      BY DEF ListTypes
    <3>2. CASE a.first_get_time = 1
      BY <1>3, <3>1, <3>2 DEF Tick
    <3>3. CASE a.first_get_time /= 1
      <4>1. PICK n \in Nat : n = a.age + 1
        <5>1. a.age \in Nat
          OBVIOUS
        <5>. QED  BY <5>1
      <4>2. ambulance'[b] = [a EXCEPT !.age = n]
        BY <1>3, <3>1, <3>3, <4>1 DEF Tick
      <4>3. l /= <<>>
        BY <3>1, <3>3 DEF Driving
      <4>4. l[1].execution_time = a.age /\ a.age < TravelTime(l[1].region_number)
        BY <1>3, <3>1, <4>3 DEF Tick, Polled
      <4>5. l[1] \in Node
        BY <4>3
      <4>6. n <= TravelTime(l[1].region_number) /\ l[1].execution_time <= n
        <5>1. TravelTime(l[1].region_number) \in Nat /\ l[1].execution_time \in Nat
          BY <4>5, TravelTypes DEF Node
        <5>. QED  BY <4>1, <4>4, <5>1
      <4>7. Driving(l, [a EXCEPT !.age = n])
        BY <3>1, <3>3, <4>3, <4>6 DEF Driving
      <4>. QED  BY <3>1, <4>2, <4>7
    <3>. QED  BY <3>2, <3>3
  <2>3. ambulance' = [b \in Buses |-> ambulance'[b]]
    BY <1>3 DEF Tick
  <2>. QED  BY <2>1, <2>2, <2>3 DEF ListTypes
<1>4. CASE \/ CtrlC \/ ServerStep \/ (\E p \in Handlers : Handler(p)) \/ UNCHANGED vars
  <2>1. UNCHANGED <<bus, ambulance>>
    BY <1>4 DEF CtrlC, ServerStep, Accept, AcceptFails, ServerEnds, Handler, RemoveShm, RemoveSemaphores,
                shared, vars
  <2>. QED  BY <2>1 DEF ListTypes
<1>5. ASSUME NEW c \in Clients, ClientStep(c), ~ClientSchedule(c) PROVE UNCHANGED <<bus, ambulance>>
  BY <1>5 DEF ClientStep, ClientList, ClientConfirmed, ClientReporting, ClientExit, ClientMalformed,
      getConfirmedData, getConfirmedDataFails, ClientConfirmedReply, addConfirmedDataRead, addConfirmedData,
      addConfirmedDataFails, LockBus1, LockBus2, ClientScheduleFails, ClientSleep, ClientAnswer,
      ClientUnheard, shared
<1>6. CASE \E c \in Clients : ClientStep(c) /\ ~ClientSchedule(c)
  <2>1. UNCHANGED <<bus, ambulance>>
    BY <1>5, <1>6
  <2>. QED  BY <2>1 DEF ListTypes
<1>. QED  BY <1>1, <1>2, <1>3, <1>4, <1>6 DEF Next

LEMMA TypesInit == ASSUME Init PROVE TypeInv
<1>1. Semaphores
  <2>1. InTables = {} /\ InBus(1) = {} /\ InBus(2) = {}
    BY DEF Init, InTables, InBus
  <2>2. SemTypes
    BY DEF Init, SemTypes
  <2>3. semaCDCSystem = 1 /\ semaBusResult[1] = 1 /\ semaBusResult[2] = 1
    BY DEF Init, Buses
  <2>. QED  BY <2>1, <2>2, <2>3 DEF Semaphores, HeldAtMost
<1>2. ClientTypes
  <2>1. client \in [Clients -> Locals] /\ pc \in [Clients -> Places] /\ cases \in Numbers /\ delivered \in Numbers /\ taken \in Numbers
    <3>1. NoClient \in Locals /\ None \in Numbers
      BY NoClientTypes
    <3>. QED  BY <3>1 DEF Init, Places
  <2>2. \A c \in Clients : Todo(pc[c], client[c])
    BY DEF Init, Todo
  <2>3. last \in Clients \cup {Server} /\ server \in {"accept", "exit", "ended"}
        /\ signal \in [Handlers -> {"none", "pending", "handling", "handled"}]
    BY DEF Init
  <2>. QED  BY <2>1, <2>2, <2>3 DEF ClientTypes
<1>3. ListTypes
  <2>1. PICK z \in Nat, o \in 0..1, e \in Seq(Node) : z = 0 /\ o = 1 /\ e = <<>>
    <3>1. <<>> \in Seq(Node) /\ 0 \in Nat /\ 1 \in 0..1
      OBVIOUS
    <3>. QED  BY <3>1
  <2>2. bus = [b \in Buses |-> e] /\ ambulance = [b \in Buses |-> [pc |-> "poll", first_get_time |-> o, age |-> z]]
    BY <2>1 DEF Init
  <2>3. Driving(e, [pc |-> "poll", first_get_time |-> o, age |-> z])
    BY <2>1 DEF Driving
  <2>. QED  BY <2>2, <2>3 DEF ListTypes
<1>. QED  BY <1>1, <1>2, <1>3 DEF TypeInv

LEMMA TypesNext == ASSUME TypeInv, SemInv', [Next]_vars PROVE TypeInv'
<1>1. Semaphores' /\ ListTypes'
  BY SemaphoresNext, ListsNext DEF TypeInv
<1>2. ClientTypes'
  BY TypesClient, TypesElsewhere DEF TypeInv, Next
<1>. QED  BY <1>1, <1>2 DEF TypeInv

LEMMA TypesImply == ASSUME TypeInv PROVE TypeOK
<1>. USE DEF TypeInv
<1>1. cases \in Numbers /\ delivered \in Numbers /\ taken \in Numbers /\ pc \in [Clients -> Places]
      /\ last \in Clients \cup {Server} /\ server \in {"accept", "exit", "ended"}
      /\ signal \in [Handlers -> {"none", "pending", "handling", "handled"}]
  BY DEF ClientTypes
<1>2. ASSUME NEW b \in Buses
      PROVE  /\ bus[b] \in Seq(Node) /\ ambulance[b].age \in 0..TravelTime(NUM_REGION)
             /\ \A i \in DOMAIN bus[b] : bus[b][i].execution_time <= TravelTime(bus[b][i].region_number)
  <2>1. PICK l \in Seq(Node), a \in [pc : {"poll", "gone"}, first_get_time : 0..1, age : Nat] :
          l = bus[b] /\ a = ambulance[b] /\ Driving(l, a)
    BY DEF ListTypes
  <2>2. ASSUME NEW i \in DOMAIN l
        PROVE  l[i].execution_time <= TravelTime(l[i].region_number)
    <3>1. l[i] \in Node /\ l[i].execution_time \in Nat /\ TravelTime(l[i].region_number) \in Nat
      <4>1. l[i] \in Node
        OBVIOUS
      <4>. QED  BY <4>1, TravelTypes DEF Node
    <3>2. CASE i = 1
      <4>1. l /= <<>>
        BY <3>2
      <4>. QED  BY <2>1, <3>1, <3>2, <4>1 DEF Driving
    <3>3. CASE i /= 1
      BY <2>1, <3>1, <3>3 DEF Driving
    <3>. QED  BY <3>2, <3>3
  <2>3. a.age \in 0..TravelTime(NUM_REGION)
    <3>0. TravelTime(NUM_REGION) \in Nat /\ \A r \in Regions : TravelTime(r) <= TravelTime(NUM_REGION)
      <4>1. TravelTime(NUM_REGION) = SECOND * (NUM_REGION - 1) + SECOND
        BY Sizes DEF TravelTime
      <4>. QED  BY <4>1, Sizes, TravelTypes
    <3>1. CASE l = <<>>
      BY <2>1, <3>0, <3>1, Sizes DEF Driving
    <3>2. CASE l /= <<>>
      <4>1. l[1] \in Node
        BY <3>2
      <4>2. a.age \in Nat /\ a.age <= TravelTime(l[1].region_number) /\ l[1].region_number \in Regions
        BY <2>1, <3>2, <4>1 DEF Driving, Node
      <4>. QED  BY <3>0, <4>2, TravelTypes
    <3>. QED  BY <3>1, <3>2
  <2>. QED  BY <2>1, <2>2, <2>3
<1>3. ambulance \in [Buses -> [pc : {"poll", "gone"}, first_get_time : 0..1, age : 0..TravelTime(NUM_REGION)]]
  <2>1. ASSUME NEW b \in Buses
        PROVE  ambulance[b] \in [pc : {"poll", "gone"}, first_get_time : 0..1, age : 0..TravelTime(NUM_REGION)]
    BY <1>2 DEF ListTypes
  <2>. QED  BY <2>1 DEF ListTypes
<1>4. semaCDCSystem \in 0..1 /\ semaBusResult \in [Buses -> 0..1] /\ removed \subseteq {"shm", "semaphores"}
  <2>1. \A b \in Buses : semaBusResult[b] \in 0..1
    BY DEF Semaphores, HeldAtMost, Buses
  <2>. QED  BY <2>1 DEF Semaphores, HeldAtMost, SemTypes
<1>5. \A c \in Clients : /\ client[c].array \in Numbers /\ client[c].at \in 0..NUM_REGION
                         /\ client[c].largest \in Int /\ client[c].sleep \in 0..(SECOND * UINT_MAX)
  BY DEF ClientTypes, Locals
<1>. QED  BY <1>1, <1>2, <1>3, <1>4, <1>5 DEF TypeOK, Places

\* For any clients, regions and reports every variable keeps its type: no
\* semaphore counts past 1, sleep stays an unsigned int, no ambulance drives
\* longer than its region takes, and only the first node of a list has begun
\* (ambulanceProcess, addNewCaseNumber).
THEOREM AmbulanceTypes == Spec => []TypeOK
<1>. DEFINE Inv == SemInv /\ TypeInv
<1>1. Init => Inv
  BY SemInit, TypesInit
<1>2. Inv /\ [Next]_vars => Inv'
  BY SemNext, TypesNext
<1>3. Inv => TypeOK
  BY TypesImply
<1>. QED  BY <1>1, <1>2, <1>3, PTL DEF Spec

-----------------------------------------------------------------------------
(* No case is lost. *)

\* A report that is the first command of a connection finds the array empty, or no
\* connection begins with one.
ArrayZeroed == "Reporting" \notin FirstCommands \/ Residue \subseteq {0}

\* The cases of a region on a list.
On(list, d, r) == SumFunctionOnSet([i \in Index(list, r) |-> list[i].cases[d]], Index(list, r))

LEMMA OnTypes ==
  ASSUME NEW list \in Seq(Node), NEW d \in Degrees, NEW r
  PROVE  /\ On(list, d, r) \in Int /\ IsFiniteSet(Index(list, r))
         /\ \A i \in DOMAIN list : list[i] \in Node /\ list[i].cases[d] \in Int
<1>1. \A i \in DOMAIN list : list[i] \in Node /\ list[i].cases[d] \in Int
  <2>1. ASSUME NEW i \in DOMAIN list PROVE list[i] \in Node
    OBVIOUS
  <2>. QED  BY <2>1 DEF Node
<1>2. IsFiniteSet(Index(list, r)) /\ Index(list, r) \subseteq DOMAIN list
  BY IndexTypes
<1>. DEFINE f == [i \in Index(list, r) |-> list[i].cases[d]]
<1>3. \A i \in Index(list, r) : f[i] \in Int
  BY <1>1, <1>2
<1>. HIDE DEF f
<1>4. SumFunctionOnSet(f, Index(list, r)) \in Int
  BY <1>2, <1>3, SumInt
<1>. QED  BY <1>1, <1>2, <1>4 DEF On, f

\* addNewCaseNumber puts on the list what the node holds, at the node's region.
LEMMA OnAdded ==
  ASSUME NEW list \in Seq(Node), NEW node \in Node, NEW new \in Seq(Node), NEW t \in Nat,
         Grown(list, node, new, t), NEW d \in Degrees, NEW r
  PROVE  On(new, d, r) = On(list, d, r) + (IF r = node.region_number THEN node.cases[d] ELSE 0)
<1>. DEFINE f == [i \in Index(list, r) |-> list[i].cases[d]]
            g == [i \in Index(new, r) |-> new[i].cases[d]]
<1>1. /\ On(list, d, r) \in Int /\ IsFiniteSet(Index(list, r)) /\ On(new, d, r) \in Int
      /\ \A i \in DOMAIN list : list[i] \in Node /\ list[i].cases[d] \in Int
      /\ \A i \in DOMAIN new : new[i] \in Node /\ new[i].cases[d] \in Int
      /\ IsFiniteSet(Index(new, r))
  BY OnTypes
<1>2. node.cases[d] \in Int
  BY DEF Node
<1>3. Index(list, r) \subseteq DOMAIN list /\ Index(new, r) \subseteq DOMAIN new
  BY DEF Index
<1>4. /\ DOMAIN new = 1..Len(new) /\ DOMAIN list = 1..Len(list) /\ Len(list) \in Nat /\ Len(new) \in Nat
      /\ 1 <= t /\ t <= Len(new) /\ new[t].region_number = node.region_number
      /\ \A i \in 1..Len(list) : i /= t => new[i] = list[i]
  BY DEF Grown
<1>5. CASE Index(list, node.region_number) = {}
  <2>1. Len(new) = Len(list) + 1 /\ t = Len(list) + 1 /\ new[t] = node
    BY <1>5 DEF Grown
  <2>2. DOMAIN new = DOMAIN list \cup {t} /\ t \notin DOMAIN list
    BY <1>4, <2>1
  <2>3. CASE r = node.region_number
    <3>1. Index(list, r) = {} /\ Index(new, r) = {} \cup {t}
      BY <1>4, <1>5, <2>2, <2>3 DEF Index
    <3>2. g[t] = node.cases[d] /\ \A i \in {} \cup {t} : g[i] \in Int
      BY <1>2, <2>1, <3>1
    <3>3. SumFunctionOnSet(f, {}) = 0 /\ SumFunctionOnSet(g, {}) = 0
      BY SumEmpty
    <3>. HIDE DEF g
    <3>4. SumFunctionOnSet(g, {} \cup {t}) = g[t] + SumFunctionOnSet(g, {})
      BY <3>2, SumAdd, FS_EmptySet
    <3>. QED  BY <1>2, <2>3, <3>1, <3>2, <3>3, <3>4 DEF On, g
  <2>4. CASE r /= node.region_number
    <3>1. Index(new, r) = Index(list, r) /\ t \notin Index(list, r)
      BY <1>4, <2>2, <2>4 DEF Index
    <3>2. \A i \in Index(list, r) : f[i] = g[i]
      BY <1>3, <1>4, <3>1
    <3>. HIDE DEF f, g
    <3>3. SumFunctionOnSet(f, Index(list, r)) = SumFunctionOnSet(g, Index(list, r))
      BY <1>1, <3>2, SumSame
    <3>. QED  BY <1>1, <2>4, <3>1, <3>3 DEF On, f, g
  <2>. QED  BY <2>3, <2>4
<1>6. CASE Index(list, node.region_number) /= {}
  <2>1. /\ Len(new) = Len(list) /\ t \in Index(list, node.region_number)
        /\ list[t].region_number = node.region_number
        /\ new[t].cases = [x \in Degrees |-> list[t].cases[x] + node.cases[x]]
    BY <1>6 DEF Grown
  <2>2. DOMAIN new = DOMAIN list /\ t \in DOMAIN list
    BY <1>4, <2>1 DEF Index
  <2>3. Index(new, r) = Index(list, r) /\ (t \in Index(list, r) <=> r = node.region_number)
    BY <1>4, <2>1, <2>2 DEF Index
  <2>4. \A i \in Index(list, r) : i /= t => f[i] = g[i]
    BY <1>3, <1>4, <2>3
  <2>5. \A i \in Index(list, r) : f[i] \in Int /\ g[i] \in Int
    BY <1>1, <1>3, <2>3
  <2>6. t \in Index(list, r) => g[t] = f[t] + node.cases[d] /\ f[t] \in Int
    BY <1>1, <1>3, <2>1, <2>3
  <2>. HIDE DEF f, g
  <2>7. CASE r = node.region_number
    <3>1. SumFunctionOnSet(g, Index(list, r)) = SumFunctionOnSet(f, Index(list, r)) - f[t] + g[t]
      BY <1>1, <2>3, <2>4, <2>5, <2>7, SumChanged
    <3>2. SumFunctionOnSet(f, Index(list, r)) = On(list, d, r) /\ SumFunctionOnSet(g, Index(list, r)) = On(new, d, r)
      BY <2>3 DEF On, f, g
    <3>3. g[t] = f[t] + node.cases[d] /\ f[t] \in Int
      BY <2>3, <2>6, <2>7
    <3>. QED  BY <1>1, <1>2, <2>7, <3>1, <3>2, <3>3
  <2>8. CASE r /= node.region_number
    <3>1. SumFunctionOnSet(f, Index(list, r)) = SumFunctionOnSet(g, Index(list, r))
      BY <1>1, <2>3, <2>4, <2>8, SumSame
    <3>. QED  BY <1>1, <2>3, <2>8, <3>1 DEF On, f, g
  <2>. QED  BY <2>7, <2>8
<1>. QED  BY <1>5, <1>6

\* deleteBegin takes off what the first node holds.
LEMMA OnTail ==
  ASSUME NEW list \in Seq(Node), list /= <<>>, NEW d \in Degrees, NEW r
  PROVE  On(list, d, r) = On(Tail(list), d, r)
                          + (IF r = list[1].region_number THEN list[1].cases[d] ELSE 0)
<1>1. PICK rest \in Seq(Node), n \in Nat, m \in Nat : rest = Tail(list) /\ n = Len(list) /\ m = Len(rest)
  <2>1. Tail(list) \in Seq(Node) /\ Len(list) \in Nat
    OBVIOUS
  <2>2. PICK rest \in Seq(Node) : rest = Tail(list)
    BY <2>1
  <2>3. Len(rest) \in Nat
    OBVIOUS
  <2>. QED  BY <2>1, <2>2, <2>3
<1>2. /\ DOMAIN list = 1..n /\ DOMAIN rest = 1..m /\ n = m + 1
      /\ \A i \in 1..m : rest[i] = list[i + 1]
  <2>1. DOMAIN list = 1..n /\ DOMAIN rest = 1..m
    BY <1>1
  <2>2. n = m + 1
    BY <1>1
  <2>3. \A i \in 1..m : rest[i] = list[i + 1]
    BY <1>1
  <2>. QED  BY <2>1, <2>2, <2>3
<1>3. /\ On(list, d, r) \in Int /\ IsFiniteSet(Index(list, r)) /\ On(rest, d, r) \in Int
      /\ IsFiniteSet(Index(rest, r))
      /\ \A i \in DOMAIN list : list[i] \in Node /\ list[i].cases[d] \in Int
  BY OnTypes
<1>. DEFINE I == Index(list, r)
            J == Index(rest, r)
            f == [i \in J |-> rest[i].cases[d]]
            g == [i \in I |-> list[i].cases[d]]
            next == [i \in J |-> i + 1]
<1>4. J \subseteq 1..m /\ I \subseteq 1..n
  BY <1>2 DEF Index
<1>5. {next[i] : i \in J} = I \ {1}
  <2>1. ASSUME NEW i \in J PROVE next[i] \in I \ {1}
    BY <1>2, <1>4 DEF Index
  <2>2. ASSUME NEW k \in I \ {1} PROVE \E i \in J : next[i] = k
    <3>1. k \in 1..n /\ k /= 1 /\ list[k].region_number = r
      BY <1>4 DEF Index
    <3>2. k - 1 \in 1..m /\ (k - 1) + 1 = k
      BY <1>2, <3>1
    <3>3. k - 1 \in J
      BY <1>2, <3>1, <3>2 DEF Index
    <3>. QED  BY <3>2, <3>3
  <2>. HIDE DEF next, I, J
  <2>. QED  BY <2>1, <2>2
<1>6. \A x, y \in J : next[x] = next[y] => x = y
  BY <1>4
<1>7. \A i \in J : f[i] \in Int /\ g[next[i]] = f[i]
  <2>1. ASSUME NEW i \in J PROVE f[i] \in Int /\ g[next[i]] = f[i]
    <3>1. next[i] \in I /\ next[i] = i + 1 /\ rest[i] = list[i + 1]
      BY <1>2, <1>4, <1>5
    <3>2. g[next[i]] = list[i + 1].cases[d] /\ f[i] = list[i + 1].cases[d] /\ i + 1 \in DOMAIN list
      BY <1>2, <1>4, <3>1
    <3>. QED  BY <1>3, <3>2
  <2>. QED  BY <2>1
<1>8. \A i \in I : g[i] \in Int
  BY <1>2, <1>3, <1>4
<1>9. 1 \in I <=> r = list[1].region_number
  BY <1>2 DEF Index
<1>10. list[1].cases[d] \in Int /\ (1 \in I => g[1] = list[1].cases[d])
  BY <1>2, <1>3
<1>11. IsFiniteSet(I \ {1})
  BY <1>3, FS_Subset
<1>12. SumFunctionOnSet(f, J) = On(rest, d, r) /\ SumFunctionOnSet(g, I) = On(list, d, r)
  BY DEF On
<1>. HIDE DEF f, g, next, I, J
<1>13. SumFunctionOnSet(g, {next[i] : i \in J}) = SumFunctionOnSet(f, J)
  <2>1. IsFiniteSet(J) /\ IsFiniteSet({next[i] : i \in J})
    BY <1>3, <1>5, <1>11 DEF J
  <2>. QED  BY <1>6, <1>7, <2>1, SumRenamed
<1>14. PICK v \in Int, x \in Nat : v = list[1].cases[d] /\ x = 1
  BY <1>10
<1>15. CASE x \in I
  <2>1. SumFunctionOnSet(g, I) = g[x] + SumFunctionOnSet(g, I \ {x})
    <3>1. IsFiniteSet(I)
      BY <1>3 DEF I
    <3>2. PICK y \in I : y = x
      BY <1>15
    <3>3. SumFunctionOnSet(g, I) = g[y] + SumFunctionOnSet(g, I \ {y})
      BY <1>8, <3>1, SumRemove
    <3>. QED  BY <3>2, <3>3
  <2>2. On(list, d, r) = v + On(rest, d, r)
    BY <1>5, <1>10, <1>12, <1>13, <1>14, <1>15, <2>1
  <2>. QED  BY <1>1, <1>3, <1>9, <1>14, <1>15, <2>2
<1>16. CASE x \notin I
  <2>1. I \ {x} = I
    BY <1>16
  <2>2. On(list, d, r) = On(rest, d, r)
    BY <1>5, <1>12, <1>13, <1>14, <2>1
  <2>. QED  BY <1>1, <1>3, <1>9, <1>14, <1>16, <2>2
<1>. QED  BY <1>15, <1>16

LEMMA OnSame ==
  ASSUME NEW list \in Seq(Node), NEW new \in Seq(Node), DOMAIN new = DOMAIN list, NEW d \in Degrees, NEW r,
         \A i \in DOMAIN list : new[i].region_number = list[i].region_number /\ new[i].cases = list[i].cases
  PROVE  On(new, d, r) = On(list, d, r)
<1>1. IsFiniteSet(Index(list, r)) /\ Index(new, r) = Index(list, r) /\ Index(list, r) \subseteq DOMAIN list
  BY OnTypes DEF Index
<1>. DEFINE f == [i \in Index(list, r) |-> list[i].cases[d]]
            g == [i \in Index(list, r) |-> new[i].cases[d]]
<1>2. \A i \in Index(list, r) : f[i] = g[i]
  BY <1>1
<1>. HIDE DEF f, g
<1>3. SumFunctionOnSet(f, Index(list, r)) = SumFunctionOnSet(g, Index(list, r))
  BY <1>1, <1>2, SumSame
<1>. QED  BY <1>1, <1>3 DEF On, f, g

\* What the clients' processes have in hand of a region.
Hand(d, r) == SumFunctionOnSet([c \in Clients |-> InHand(c, d, r)], Clients)

LEMMA HandTypes ==
  ASSUME ClientTypes, NEW d \in Degrees, NEW r \in Regions
  PROVE  Hand(d, r) \in Int /\ \A c \in Clients : InHand(c, d, r) \in Int
<1>1. \A c \in Clients : InHand(c, d, r) \in Int
  <2>1. ASSUME NEW c \in Clients PROVE client[c].array[d][r] \in Int
    BY DEF ClientTypes, Locals, Numbers
  <2>. QED  BY <2>1 DEF InHand
<1>. DEFINE f == [c \in Clients |-> InHand(c, d, r)]
<1>2. \A c \in Clients : f[c] \in Int
  BY <1>1
<1>. HIDE DEF f
<1>3. SumFunctionOnSet(f, Clients) \in Int
  BY <1>2, SumInt, ServerAssumption
<1>. QED  BY <1>1, <1>3 DEF Hand, f

\* The others stay where they are.
Alone(c) == \A x \in Clients : x /= c => pc'[x] = pc[x] /\ client'[x] = client[x]

LEMMA HandMoves ==
  ASSUME ClientTypes, ClientTypes', NEW c \in Clients, Alone(c), NEW d \in Degrees, NEW r \in Regions
  PROVE  Hand(d, r)' = Hand(d, r) - InHand(c, d, r) + InHand(c, d, r)'
<1>. DEFINE f == [x \in Clients |-> InHand(x, d, r)]
            g == [x \in Clients |-> InHand(x, d, r)']
<1>1. \A x \in Clients : InHand(x, d, r) \in Int /\ InHand(x, d, r)' \in Int
  <2>1. ASSUME NEW x \in Clients PROVE client[x].array[d][r] \in Int /\ client'[x].array[d][r] \in Int
    <3>1. client \in [Clients -> Locals] /\ client' \in [Clients -> Locals]
      BY DEF ClientTypes
    <3>2. ASSUME NEW m \in Locals PROVE m.array[d][r] \in Int
      BY DEF Locals, Numbers
    <3>. QED  BY <3>1, <3>2
  <2>. QED  BY <2>1 DEF InHand
<1>2. \A x \in Clients : x /= c => InHand(x, d, r)' = InHand(x, d, r)
  BY DEF Alone, InHand
<1>3. /\ \A x \in Clients : f[x] \in Int /\ g[x] \in Int /\ (x /= c => f[x] = g[x])
      /\ f[c] = InHand(c, d, r) /\ g[c] = InHand(c, d, r)'
  BY <1>1, <1>2
<1>4. Hand(d, r) = SumFunctionOnSet(f, Clients) /\ Hand(d, r)' = SumFunctionOnSet(g, Clients)
  BY DEF Hand
<1>. HIDE DEF f, g
<1>5. SumFunctionOnSet(g, Clients) = SumFunctionOnSet(f, Clients) - f[c] + g[c]
  BY <1>3, SumChanged, ServerAssumption
<1>. QED  BY <1>3, <1>4, <1>5

LEMMA StepsAlone ==
  ASSUME ClientTypes, ListTypes, NEW c \in Clients, ClientStep(c)
  PROVE  Alone(c)
<1>1. \A x \in Clients : x /= c => pc'[x] = pc[x]
  BY DEF ClientTypes, ClientStep, ClientList, ClientConfirmed, ClientReporting, ClientExit, ClientMalformed,
      getConfirmedData, getConfirmedDataFails, ClientConfirmedReply, addConfirmedDataRead, addConfirmedData,
      addConfirmedDataFails, LockBus1, LockBus2, ClientScheduleFails, ClientSleep, ClientAnswer, ClientSchedule,
      ClientUnheard, Reply, Ends
<1>2. CASE ClientConfirmed(c) \/ ClientReporting(c)
  <2>1. \A x \in Clients : x /= c => client'[x] = client[x]
    BY <1>2 DEF ClientTypes, ClientConfirmed, ClientReporting
  <2>. QED  BY <1>1, <2>1 DEF Alone
<1>3. CASE \/ getConfirmedData(c) \/ getConfirmedDataFails(c) \/ addConfirmedDataRead(c) \/ addConfirmedData(c)
           \/ addConfirmedDataFails(c)
  <2>1. \A x \in Clients : x /= c => client'[x] = client[x]
    BY <1>3 DEF ClientTypes, getConfirmedData, getConfirmedDataFails, addConfirmedDataRead, addConfirmedData,
      addConfirmedDataFails
  <2>. QED  BY <1>1, <2>1 DEF Alone
<1>4. CASE ClientSchedule(c)
  <2>1. PICK r \in Regions, b \in Buses, node \in Node, time \in Int : Scheduled(c, r, b, node, time)
    BY <1>4, ScheduleIs
  <2>2. \A x \in Clients : x /= c => client'[x] = client[x]
    BY <2>1 DEF Scheduled, ClientTypes
  <2>. QED  BY <1>1, <2>2 DEF Alone
<1>5. CASE \/ ClientList(c) \/ ClientExit(c) \/ ClientMalformed(c) \/ ClientConfirmedReply(c) \/ LockBus1(c)
           \/ LockBus2(c) \/ ClientScheduleFails(c) \/ ClientSleep(c) \/ ClientAnswer(c) \/ ClientUnheard(c)
  <2>1. \A x \in Clients : x /= c => client'[x] = client[x]
    BY <1>5 DEF ClientTypes, ClientList, ClientExit, ClientMalformed, ClientConfirmedReply, LockBus1, LockBus2,
       ClientScheduleFails, ClientSleep, ClientAnswer, ClientUnheard, Reply, Ends
  <2>. QED  BY <1>1, <2>1 DEF Alone
<1>. QED  BY <1>2, <1>3, <1>4, <1>5 DEF ClientStep

\* A client that keeps away from the tables and the lists has as much in hand as
\* before.
LEMMA HandKept ==
  ASSUME ClientTypes, Clean, NEW c \in Clients, ClientStep(c), removed = {},
         ~addConfirmedData(c), ~ClientSchedule(c), NEW d \in Degrees, NEW r \in Regions
  PROVE  InHand(c, d, r)' = InHand(c, d, r) /\ UNCHANGED <<cases, bus, delivered>>
<1>1. UNCHANGED <<cases, bus, delivered>>
  BY DEF ClientStep, ClientList, ClientConfirmed, ClientReporting, ClientExit, ClientMalformed,
      getConfirmedData, getConfirmedDataFails, ClientConfirmedReply, addConfirmedDataRead,
      addConfirmedDataFails, LockBus1, LockBus2, ClientScheduleFails, ClientSleep, ClientAnswer,
      ClientUnheard, shared
<1>2. client[c] \in Locals /\ r \in Nat /\ client \in [Clients -> Locals] /\ pc \in [Clients -> Places]
  BY Sizes DEF ClientTypes
<1>. DEFINE Busy == {"reporting", "adding", "dispatch", "bus1", "both", "failed"}
<1>3. CASE \/ ClientList(c) \/ ClientExit(c) \/ ClientConfirmedReply(c) \/ ClientAnswer(c) \/ ClientConfirmed(c)
           \/ ClientMalformed(c) /\ pc[c] = "confirmed"
  <2>1. pc[c] \notin Busy /\ pc'[c] \notin Busy
    BY <1>2, <1>3 DEF ClientList, ClientExit, ClientConfirmedReply, ClientAnswer, ClientConfirmed, ClientMalformed,
       Reply, Ends, At, Reads
  <2>. QED  BY <1>1, <2>1 DEF InHand
<1>4. CASE ClientReporting(c)
  <2>1. pc[c] \notin Busy /\ client[c].array = None
    BY <1>4 DEF ClientReporting, Reads, Clean
  <2>2. client'[c].array = None
    BY <1>2, <1>4, <2>1 DEF ClientReporting, Locals
  <2>. QED  BY <1>1, <2>1, <2>2 DEF InHand, None
<1>5. CASE LockBus1(c) \/ LockBus2(c) \/ (ClientMalformed(c) /\ pc[c] /= "confirmed")
  <2>1. pc[c] \in Busy /\ pc'[c] \in Busy /\ client' = client
    BY <1>2, <1>5 DEF LockBus1, LockBus2, ClientMalformed, At
  <2>. QED  BY <1>1, <2>1 DEF InHand
<1>6. CASE getConfirmedData(c)
  <2>1. pc[c] \notin Busy /\ pc' = pc
    BY <1>6 DEF getConfirmedData, HasNext, At
  <2>. QED  BY <1>1, <2>1 DEF InHand
<1>7. CASE addConfirmedDataRead(c)
  <2>1. pc[c] \in Busy /\ pc'[c] \in Busy
    BY <1>2, <1>7 DEF addConfirmedDataRead, HasNext, At
  <2>2. client'[c].array = client[c].array /\ client'[c].at = client[c].at
    BY <1>2, <1>7 DEF addConfirmedDataRead, Locals
  <2>. QED  BY <1>1, <2>1, <2>2 DEF InHand
<1>8. CASE ClientSleep(c) \/ ClientUnheard(c)
  <2>1. pc'[c] \notin Busy /\ (pc[c] \notin Busy \/ (pc[c] = "dispatch" /\ ToDispatch(c) = {}))
    BY <1>2, <1>8 DEF ClientSleep, ClientUnheard, At, Ends
  <2>2. ToDispatch(c) = {} => ~(r >= client[c].at /\ client[c].array[d][r] /= 0)
    BY DEF ToDispatch
  <2>. QED  BY <1>1, <2>1, <2>2 DEF InHand
<1>9. ~getConfirmedDataFails(c) /\ ~addConfirmedDataFails(c) /\ ~ClientScheduleFails(c)
  BY DEF getConfirmedDataFails, addConfirmedDataFails, ClientScheduleFails, SemaphoresRemoved, ShmRemoved
<1>. QED  BY <1>3, <1>4, <1>5, <1>6, <1>7, <1>8, <1>9 DEF ClientStep

Balance(d, r) ==
  cases[d][r] = delivered[d][r] + On(bus[1], d, r) + On(bus[2], d, r) + Hand(d, r)

LEMMA BalanceIs ==
  CasesConserved <=> (removed = {} => \A d \in Degrees, r \in Regions : Balance(d, r))
BY DEF CasesConserved, Balance, OnBus, On, Hand, SumFunction

\* addConfirmedData stores what it has read and what is reported.
LEMMA Stored ==
  ASSUME ClientTypes, Clean, ReadIsCurrent, removed = {}, NEW c \in Clients, addConfirmedData(c),
         NEW d \in Degrees, NEW r \in Regions
  PROVE  /\ cases'[d][r] - cases[d][r] = InHand(c, d, r)' - InHand(c, d, r)
         /\ UNCHANGED <<bus, delivered>>
<1>1. pc[c] = "adding" /\ Head(client[c].todo) /= Malformed /\ client[c].at = 0 /\ client[c] \in Locals
      /\ client[c].seen = cases[Head(client[c].todo).degree][Head(client[c].todo).region]
      /\ client \in [Clients -> Locals] /\ pc \in [Clients -> Places] /\ cases \in Numbers
      /\ client[c].array \in Numbers
  BY DEF addConfirmedData, At, ClientTypes, Todo, Clean, ReadIsCurrent, Locals
<1>2. PICK e \in Entry : e = Head(client[c].todo)
  BY <1>1, EntryTypes
<1>3. e.degree \in Degrees /\ e.region \in Regions /\ e.number \in Int
  BY DEF Entry
<1>4. cases' = [cases EXCEPT ![e.degree][e.region] = cases[e.degree][e.region] + e.number]
  BY <1>1, <1>2 DEF addConfirmedData
<1>5. client'[c].array = InArray(c) /\ client'[c].at = 0 /\ pc'[c] \in {"reporting", "dispatch"}
  BY <1>1, EntryTypes DEF addConfirmedData, Locals
<1>6. InArray(c) = [client[c].array EXCEPT ![e.degree][e.region] = client[c].array[e.degree][e.region] + e.number]
  BY <1>1, <1>2 DEF InArray, Numbers
<1>7. InHand(c, d, r) = client[c].array[d][r] /\ InHand(c, d, r)' = InArray(c)[d][r]
  BY <1>1, <1>5, Sizes DEF InHand
<1>8. cases[d][r] \in Int /\ client[c].array[d][r] \in Int
  BY <1>1 DEF Numbers
<1>9. UNCHANGED <<bus, delivered>>
  BY DEF addConfirmedData
<1>10. CASE d = e.degree /\ r = e.region
  <2>1. cases'[d][r] = cases[d][r] + e.number /\ InArray(c)[d][r] = client[c].array[d][r] + e.number
    BY <1>1, <1>3, <1>4, <1>6, <1>10 DEF Numbers
  <2>. QED  BY <1>3, <1>7, <1>8, <1>9, <2>1
<1>11. CASE ~(d = e.degree /\ r = e.region)
  <2>1. cases'[d][r] = cases[d][r] /\ InArray(c)[d][r] = client[c].array[d][r]
    BY <1>1, <1>3, <1>4, <1>6, <1>11 DEF Numbers
  <2>. QED  BY <1>7, <1>8, <1>9, <2>1
<1>. QED  BY <1>10, <1>11

\* The region that is given to a bus leaves the client's hand for the list.
LEMMA Dispatched ==
  ASSUME ClientTypes, ListTypes, NEW c \in Clients, ClientSchedule(c), NEW d \in Degrees, NEW r \in Regions
  PROVE  /\ On(bus'[1], d, r) + On(bus'[2], d, r) - On(bus[1], d, r) - On(bus[2], d, r)
               = InHand(c, d, r) - InHand(c, d, r)'
         /\ UNCHANGED <<cases, history>>
<1>1. PICK x \in Regions, b \in Buses, node \in Node, time \in Int : Scheduled(c, x, b, node, time)
  BY ScheduleIs
<1>2. /\ pc[c] = "both" /\ pc'[c] = "dispatch" /\ client[c] \in Locals
      /\ client'[c].at = x + 1 /\ client'[c].array = client[c].array
  BY <1>1 DEF Scheduled, ClientTypes, Locals
<1>3. /\ node.region_number = x /\ node.cases = [y \in Degrees |-> client[c].array[y][x]]
      /\ bus' = [bus EXCEPT ![b] = addNewCaseNumber(bus[b], node)]
      /\ UNCHANGED <<cases, history>>
  BY <1>1 DEF Scheduled
<1>4. /\ x >= client[c].at
      /\ \A y \in Regions : y >= client[c].at /\ client[c].array[d][y] /= 0 => x <= y
  BY <1>1 DEF Scheduled, ToDispatch
<1>5. client[c].array[d][r] \in Int /\ client[c].at \in Nat /\ x \in Nat /\ r \in Nat
  <2>1. client[c].array \in Numbers /\ client[c].at \in 0..NUM_REGION
    BY <1>2 DEF Locals
  <2>. QED  BY <2>1, Sizes DEF Numbers
<1>6. PICK old \in Seq(Node) : old = bus[b]
  BY DEF ListTypes
<1>7. PICK new \in Seq(Node), t \in Nat : new = addNewCaseNumber(old, node) /\ Grown(old, node, new, t)
  BY Added
<1>8. On(new, d, r) = On(old, d, r) + (IF r = x THEN client[c].array[d][x] ELSE 0)
  BY <1>3, <1>7, OnAdded
<1>9. bus'[b] = new /\ (b = 1 => bus'[2] = bus[2]) /\ (b = 2 => bus'[1] = bus[1])
  BY <1>3, <1>6, <1>7 DEF ListTypes, Buses
<1>10. On(bus[1], d, r) \in Int /\ On(bus[2], d, r) \in Int /\ On(new, d, r) \in Int
  BY OnTypes DEF ListTypes, Buses
<1>11. InHand(c, d, r) - InHand(c, d, r)' = IF r = x THEN client[c].array[d][x] ELSE 0
  <2>1. InHand(c, d, r) = IF r >= client[c].at THEN client[c].array[d][r] ELSE 0
    BY <1>2 DEF InHand
  <2>2. InHand(c, d, r)' = IF r >= x + 1 THEN client[c].array[d][r] ELSE 0
    BY <1>2 DEF InHand
  <2>. QED  BY <1>4, <1>5, <2>1, <2>2
<1>12. PICK v \in Int : v = IF r = x THEN client[c].array[d][x] ELSE 0
  BY <1>5
<1>13. PICK y \in Int, z \in Int, w \in Int :
         y = On(bus[1], d, r) /\ z = On(bus[2], d, r) /\ w = On(new, d, r)
  BY <1>10
<1>14. On(new, d, r) = On(bus[b], d, r) + v /\ InHand(c, d, r) - InHand(c, d, r)' = v
  BY <1>6, <1>8, <1>11, <1>12
<1>15. CASE b = 1
  <2>1. On(bus'[1], d, r) = w /\ On(bus'[2], d, r) = z /\ w = y + v
    BY <1>9, <1>13, <1>14, <1>15
  <2>2. w + z - y - z = v
    BY <2>1
  <2>. QED  BY <1>3, <1>13, <1>14, <2>1, <2>2
<1>16. CASE b = 2
  <2>1. On(bus'[2], d, r) = w /\ On(bus'[1], d, r) = y /\ w = z + v
    BY <1>9, <1>13, <1>14, <1>16
  <2>2. y + w - y - z = v
    BY <2>1
  <2>. QED  BY <1>3, <1>13, <1>14, <2>1, <2>2
<1>. QED  BY <1>16, <1>15 DEF Buses

\* The first region of a list is brought away, or driven to.
LEMMA Delivered ==
  ASSUME ClientTypes, ListTypes, NEW b \in Buses, AmbulanceStep(b), NEW d \in Degrees, NEW r \in Regions
  PROVE  /\ On(bus'[1], d, r) + On(bus'[2], d, r) - On(bus[1], d, r) - On(bus[2], d, r)
               = delivered[d][r] - delivered'[d][r]
         /\ UNCHANGED <<cases, pc, client>>
<1>1. PICK l \in Seq(Node) : l = bus[b]
  BY DEF ListTypes
<1>2. UNCHANGED <<cases, pc, client>> /\ (b = 1 \/ b = 2) /\ delivered[d][r] \in Int /\ bus \in [Buses -> Seq(Node)]
  BY DEF AmbulanceStep, AmbulanceIdle, AmbulanceDrives, AmbulanceArrives, AmbulanceFails, Round, shared, Buses,
         ClientTypes, ListTypes, Numbers
<1>3. On(bus[1], d, r) \in Int /\ On(bus[2], d, r) \in Int /\ On(l, d, r) \in Int
  BY <1>2, OnTypes DEF Buses
<1>4. CASE AmbulanceIdle(b) \/ AmbulanceFails(b)
  BY <1>2, <1>3, <1>4 DEF AmbulanceIdle, AmbulanceFails, shared
<1>5. CASE AmbulanceDrives(b)
  <2>1. l /= <<>> /\ delivered' = delivered
    BY <1>1, <1>5 DEF AmbulanceDrives
  <2>2. l[1] \in Node /\ 1 \in DOMAIN l
    BY <2>1
  <2>3. Executed(b) \in Nat
    BY DEF Executed, ListTypes
  <2>4. PICK n \in Node : n = [l[1] EXCEPT !.execution_time = Executed(b)]
    BY <2>2, <2>3 DEF Node
  <2>5. PICK k \in Seq(Node) : k = [l EXCEPT ![1] = n]
    <3>1. [l EXCEPT ![1] = n] \in Seq(Node)
      BY <2>2
    <3>. QED  BY <3>1
  <2>6. bus' = [bus EXCEPT ![b] = k]
    <3>1. bus' = [bus EXCEPT ![b][1].execution_time = Executed(b)]
      BY <1>5 DEF AmbulanceDrives
    <3>. QED  BY <1>1, <2>2, <2>4, <2>5, <3>1 DEF ListTypes
  <2>7. DOMAIN k = DOMAIN l /\ \A i \in DOMAIN l : k[i].region_number = l[i].region_number /\ k[i].cases = l[i].cases
    <3>1. DOMAIN k = DOMAIN l /\ k[1] = n /\ \A i \in DOMAIN l : i /= 1 => k[i] = l[i]
      BY <2>2, <2>5
    <3>2. n.region_number = l[1].region_number /\ n.cases = l[1].cases
      BY <2>2, <2>4 DEF Node
    <3>. QED  BY <3>1, <3>2
  <2>8. On(k, d, r) = On(l, d, r)
    BY <2>7, OnSame
  <2>9. bus'[b] = k /\ (b = 1 => bus'[2] = bus[2]) /\ (b = 2 => bus'[1] = bus[1])
    BY <1>2, <2>6 DEF Buses
  <2>. QED  BY <1>1, <1>2, <1>3, <2>1, <2>8, <2>9
<1>6. CASE AmbulanceArrives(b)
  <2>1. l /= <<>> /\ bus' = [bus EXCEPT ![b] = Tail(l)]
    BY <1>1, <1>2, <1>6 DEF AmbulanceArrives, deleteBegin
  <2>2. PICK k \in Seq(Node) : k = Tail(l)
    <3>1. Tail(l) \in Seq(Node)
      BY <2>1
    <3>. QED  BY <3>1
  <2>3. PICK n \in Node : n = l[1]
    <3>1. l[1] \in Node
      BY <2>1
    <3>. QED  BY <3>1
  <2>4. On(l, d, r) = On(k, d, r) + (IF r = n.region_number THEN n.cases[d] ELSE 0)
    BY <2>1, <2>2, <2>3, OnTail
  <2>5. delivered' = [y \in Degrees |-> [delivered[y] EXCEPT ![n.region_number] = delivered[y][n.region_number] + n.cases[y]]]
    BY <1>1, <1>6, <2>3 DEF AmbulanceArrives, ClientTypes, Numbers
  <2>6. delivered'[d][r] = delivered[d][r] + (IF r = n.region_number THEN n.cases[d] ELSE 0) /\ n.cases[d] \in Int
    BY <2>5 DEF ClientTypes, Numbers, Node
  <2>7. bus'[b] = k /\ (b = 1 => bus'[2] = bus[2]) /\ (b = 2 => bus'[1] = bus[1])
    BY <1>2, <2>1, <2>2 DEF Buses
  <2>8. On(k, d, r) \in Int
    BY OnTypes
  <2>9. PICK v \in Int : v = IF r = n.region_number THEN n.cases[d] ELSE 0
    BY <2>6
  <2>10. On(l, d, r) = On(k, d, r) + v /\ delivered'[d][r] = delivered[d][r] + v
    BY <2>4, <2>6, <2>9
  <2>11. CASE b = 1
    <3>1. On(bus'[1], d, r) = On(k, d, r) /\ On(bus'[2], d, r) = On(bus[2], d, r) /\ On(bus[1], d, r) = On(l, d, r)
      BY <1>1, <2>7, <2>11
    <3>2. PICK x \in Int, y \in Int, z \in Int, w \in Int :
            x = On(k, d, r) /\ y = On(bus[2], d, r) /\ z = On(l, d, r) /\ w = delivered[d][r]
      BY <1>2, <1>3, <2>8
    <3>3. z = x + v
      BY <2>10, <3>2
    <3>4. x + y - z - y = w - (w + v)
      BY <3>3
    <3>. QED  BY <1>2, <2>10, <3>1, <3>2, <3>4
  <2>12. CASE b = 2
    <3>1. On(bus'[2], d, r) = On(k, d, r) /\ On(bus'[1], d, r) = On(bus[1], d, r) /\ On(bus[2], d, r) = On(l, d, r)
      BY <1>1, <2>7, <2>12
    <3>2. PICK x \in Int, y \in Int, z \in Int, w \in Int :
            x = On(k, d, r) /\ y = On(bus[1], d, r) /\ z = On(l, d, r) /\ w = delivered[d][r]
      BY <1>2, <1>3, <2>8
    <3>3. z = x + v
      BY <2>10, <3>2
    <3>4. y + x - y - z = w - (w + v)
      BY <3>3
    <3>. QED  BY <1>2, <2>10, <3>1, <3>2, <3>4
  <2>. QED  BY <1>2, <2>11, <2>12
<1>. QED  BY <1>4, <1>5, <1>6 DEF AmbulanceStep

\* Only addConfirmedData touches the tables, and what is removed stays so.
LEMMA TablesKept ==
  ASSUME [Next]_vars
  PROVE  /\ removed' = {} => removed = {}
         /\ UNCHANGED <<cases, taken>> \/ \E c \in Clients : addConfirmedData(c)
<1>1. ASSUME NEW c \in Clients, ClientStep(c)
      PROVE  removed' = removed /\ (UNCHANGED <<cases, taken>> \/ addConfirmedData(c))
  <2>1. CASE \/ ClientList(c) \/ ClientConfirmed(c) \/ ClientReporting(c) \/ ClientExit(c)
             \/ ClientMalformed(c) \/ ClientConfirmedReply(c) \/ ClientAnswer(c) \/ ClientUnheard(c)
    BY <2>1 DEF ClientList, ClientConfirmed, ClientReporting, ClientExit, ClientMalformed, ClientConfirmedReply,
       ClientAnswer, ClientUnheard, shared
  <2>2. CASE \/ getConfirmedData(c) \/ getConfirmedDataFails(c) \/ addConfirmedDataRead(c)
             \/ addConfirmedDataFails(c)
    BY <2>2 DEF getConfirmedData, getConfirmedDataFails, addConfirmedDataRead, addConfirmedDataFails, shared
  <2>3. CASE LockBus1(c) \/ LockBus2(c) \/ ClientScheduleFails(c) \/ ClientSleep(c)
    BY <2>3 DEF LockBus1, LockBus2, ClientScheduleFails, ClientSleep, shared
  <2>4. CASE ClientSchedule(c)
    BY <2>4 DEF ClientSchedule
  <2>5. CASE addConfirmedData(c)
    BY <2>5 DEF addConfirmedData
  <2>. QED  BY <1>1, <2>1, <2>2, <2>3, <2>4, <2>5 DEF ClientStep
<1>2. ASSUME NEW b \in Buses, AmbulanceStep(b) PROVE removed' = removed /\ UNCHANGED <<cases, taken>>
  BY <1>2 DEF AmbulanceStep, AmbulanceIdle, AmbulanceDrives, AmbulanceArrives, AmbulanceFails, Round, shared
<1>3. CASE (\E p \in Handlers : Handler(p)) \/ ServerStep \/ Tick \/ CtrlC \/ UNCHANGED vars
  BY <1>3 DEF Handler, RemoveShm, RemoveSemaphores, ServerStep, Accept, AcceptFails, ServerEnds, Tick, CtrlC,
     shared, vars
<1>. QED  BY <1>1, <1>2, <1>3 DEF Next

LEMMA BalanceNext ==
  ASSUME TypeInv, TypeInv', Clean, ReadIsCurrent, CasesConserved, [Next]_vars
  PROVE  CasesConserved'
<1>. USE DEF TypeInv
<1>1. SUFFICES ASSUME removed' = {}, NEW d \in Degrees, NEW r \in Regions PROVE Balance(d, r)'
  BY BalanceIs DEF CasesConserved, Balance, OnBus, On, Hand, SumFunction
<1>2. removed = {}
  BY <1>1, TablesKept
<1>3. Balance(d, r)
  BY <1>2, BalanceIs
<1>4. /\ cases[d][r] \in Int /\ delivered[d][r] \in Int /\ On(bus[1], d, r) \in Int /\ On(bus[2], d, r) \in Int
      /\ Hand(d, r) \in Int /\ \A c \in Clients : InHand(c, d, r) \in Int
  <2>1. bus[1] \in Seq(Node) /\ bus[2] \in Seq(Node)
    BY DEF ListTypes, Buses
  <2>2. On(bus[1], d, r) \in Int /\ On(bus[2], d, r) \in Int
    BY <2>1, OnTypes
  <2>3. Hand(d, r) \in Int /\ \A c \in Clients : InHand(c, d, r) \in Int
    BY HandTypes
  <2>. QED  BY <2>2, <2>3 DEF ClientTypes, Numbers
<1>5. /\ cases'[d][r] \in Int /\ delivered'[d][r] \in Int /\ On(bus'[1], d, r) \in Int /\ On(bus'[2], d, r) \in Int
  <2>1. bus'[1] \in Seq(Node) /\ bus'[2] \in Seq(Node)
    BY DEF ListTypes, Buses
  <2>2. PICK k \in Seq(Node), l \in Seq(Node) : k = bus'[1] /\ l = bus'[2]
    BY <2>1
  <2>3. On(k, d, r) \in Int /\ On(l, d, r) \in Int
    BY OnTypes
  <2>. QED  BY <2>2, <2>3 DEF ClientTypes, Numbers
<1>6. \A c \in Clients : InHand(c, d, r)' \in Int
  <2>1. client' \in [Clients -> Locals]
    BY DEF ClientTypes
  <2>2. ASSUME NEW m \in Locals PROVE m.array[d][r] \in Int
    BY DEF Locals, Numbers
  <2>. QED  BY <2>1, <2>2 DEF InHand
<1>7. CASE \E c \in Clients : ClientStep(c)
  <2>1. PICK c \in Clients : ClientStep(c)
    BY <1>7
  <2>2. Alone(c)
    BY <2>1, StepsAlone
  <2>3. Hand(d, r)' = Hand(d, r) - InHand(c, d, r) + InHand(c, d, r)'
    BY <2>2, HandMoves
  <2>4. InHand(c, d, r) \in Int /\ InHand(c, d, r)' \in Int
    BY <1>4, <1>6
  <2>5. CASE ~addConfirmedData(c) /\ ~ClientSchedule(c)
    <3>1. InHand(c, d, r)' = InHand(c, d, r) /\ UNCHANGED <<cases, bus, delivered>>
      BY <1>2, <2>1, <2>5, HandKept
    <3>. QED  BY <1>3, <1>4, <2>3, <2>4, <3>1 DEF Balance
  <2>6. CASE addConfirmedData(c)
    <3>1. /\ cases'[d][r] - cases[d][r] = InHand(c, d, r)' - InHand(c, d, r)
          /\ UNCHANGED <<bus, delivered>>
      BY <1>2, <2>6, Stored
    <3>2. PICK x \in Int, y \in Int : x = cases[d][r] /\ y = cases'[d][r]
      BY <1>4, <1>5
    <3>3. PICK h \in Int, i \in Int, z \in Int :
            h = Hand(d, r) /\ i = InHand(c, d, r) /\ z = InHand(c, d, r)'
      BY <1>4, <2>4
    <3>4. PICK w \in Int : w = delivered[d][r] + On(bus[1], d, r) + On(bus[2], d, r)
      <4>1. delivered[d][r] + On(bus[1], d, r) + On(bus[2], d, r) \in Int
        BY <1>4
      <4>. QED  BY <4>1, Zenon
    <3>5. x = w + h /\ y - x = z - i
      BY <1>3, <1>4, <3>1, <3>2, <3>3, <3>4 DEF Balance
    <3>6. y = w + (h - i + z)
      BY <3>5
    <3>. QED  BY <1>4, <2>3, <3>1, <3>2, <3>3, <3>4, <3>6 DEF Balance
  <2>7. CASE ClientSchedule(c)
    <3>1. /\ On(bus'[1], d, r) + On(bus'[2], d, r) - On(bus[1], d, r) - On(bus[2], d, r)
               = InHand(c, d, r) - InHand(c, d, r)'
          /\ UNCHANGED <<cases, history>>
      BY <2>7, Dispatched
    <3>. QED  BY <1>3, <1>4, <1>5, <2>3, <2>4, <3>1 DEF Balance
  <2>. QED  BY <2>5, <2>6, <2>7
<1>8. CASE \E b \in Buses : AmbulanceStep(b)
  <2>1. PICK b \in Buses : AmbulanceStep(b)
    BY <1>8
  <2>2. /\ On(bus'[1], d, r) + On(bus'[2], d, r) - On(bus[1], d, r) - On(bus[2], d, r)
               = delivered[d][r] - delivered'[d][r]
        /\ UNCHANGED <<cases, pc, client>>
    BY <2>1, Delivered
  <2>3. Hand(d, r)' = Hand(d, r)
    BY <2>2 DEF Hand, InHand
  <2>. QED  BY <1>3, <1>4, <1>5, <2>2, <2>3 DEF Balance
<1>9. CASE \E c \in Clients : Accept(c)
  <2>1. PICK c \in Clients : Accept(c)
    BY <1>9
  <2>2. UNCHANGED <<cases, bus, delivered>> /\ pc[c] = "none" /\ pc'[c] = "connected" /\ Alone(c)
    BY <2>1 DEF Accept, shared, Alone, ClientTypes
  <2>3. InHand(c, d, r) = 0 /\ InHand(c, d, r)' = 0
    BY <2>2 DEF InHand
  <2>4. Hand(d, r)' = Hand(d, r) - InHand(c, d, r) + InHand(c, d, r)'
    BY <2>2, HandMoves
  <2>. QED  BY <1>3, <1>4, <2>2, <2>3, <2>4 DEF Balance
<1>10. CASE \/ Tick \/ CtrlC \/ AcceptFails \/ UNCHANGED vars
  <2>1. UNCHANGED <<cases, bus, delivered, pc>>
    BY <1>10 DEF Tick, CtrlC, AcceptFails, vars, shared
  <2>2. ASSUME NEW c \in Clients PROVE client'[c].array = client[c].array /\ client'[c].at = client[c].at
    <3>1. client[c] \in Locals
      BY DEF ClientTypes
    <3>. QED  BY <1>10, <3>1 DEF Tick, CtrlC, AcceptFails, vars, shared, Locals
  <2>3. \A c \in Clients : InHand(c, d, r)' = InHand(c, d, r)
    BY <2>1, <2>2 DEF InHand
  <2>4. Hand(d, r)' = Hand(d, r)
    BY <2>3 DEF Hand
  <2>. QED  BY <1>3, <2>1, <2>4 DEF Balance
<1>11. CASE ServerEnds \/ \E p \in Handlers : Handler(p)
  BY <1>1, <1>11 DEF ServerEnds, Handler, RemoveShm, RemoveSemaphores, Semaphores, SemTypes
<1>. QED  BY <1>7, <1>8, <1>9, <1>10, <1>11 DEF Next, ServerStep

LEMMA CleanNext ==
  ASSUME ArrayZeroed, ClientTypes, ListTypes, Clean, [Next]_vars
  PROVE  Clean'
<1>1. CASE \E c \in Clients : ClientStep(c)
  <2>1. PICK c \in Clients : ClientStep(c)
    BY <1>1
  <2>2. Alone(c)
    BY <2>1, StepsAlone
  <2>3. client \in [Clients -> Locals] /\ pc \in [Clients -> Places] /\ client[c] \in Locals
    BY DEF ClientTypes
  <2>4. CASE ClientList(c) \/ ClientConfirmedReply(c) \/ ClientAnswer(c)
    <3>1. pc'[c] = "command" /\ client'[c] = [NoClient EXCEPT !.reports = client[c].reports]
      BY <2>3, <2>4 DEF ClientList, ClientConfirmedReply, ClientAnswer, Reply
    <3>2. client'[c].array = None
      BY <3>1 DEF NoClient
    <3>. QED  BY <2>2, <3>1, <3>2 DEF Clean, Alone
  <2>5. CASE ClientReporting(c)
    <3>1. pc'[c] = "reporting" /\ client'[c].at = 0
      BY <2>3, <2>5 DEF ClientReporting, Locals
    <3>. QED  BY <2>2, <3>1 DEF Clean, Alone
  <2>6. CASE addConfirmedDataRead(c) \/ addConfirmedData(c) \/ addConfirmedDataFails(c)
    <3>1. pc[c] \in {"reporting", "adding"} /\ pc'[c] \in {"reporting", "adding", "dispatch"}
      <4>1. CASE addConfirmedDataRead(c)
        BY <2>3, <4>1 DEF addConfirmedDataRead, HasNext, At
      <4>2. CASE addConfirmedData(c)
        BY <2>3, <4>2 DEF addConfirmedData, At, AfterEntry
      <4>3. CASE addConfirmedDataFails(c)
        BY <2>3, <4>3 DEF addConfirmedDataFails, HasNext, At, AfterEntry
      <4>. QED  BY <2>6, <4>1, <4>2, <4>3
    <3>2. client'[c].at = client[c].at
      <4>1. CASE addConfirmedDataRead(c)
        BY <2>3, <4>1 DEF addConfirmedDataRead, Locals
      <4>2. CASE addConfirmedData(c)
        BY <2>3, <4>2 DEF addConfirmedData, Locals
      <4>3. CASE addConfirmedDataFails(c)
        BY <2>3, <4>3 DEF addConfirmedDataFails
      <4>. QED  BY <2>6, <4>1, <4>2, <4>3
    <3>. QED  BY <2>2, <3>1, <3>2 DEF Clean, Alone
  <2>7. CASE \/ ClientConfirmed(c) \/ ClientExit(c) \/ ClientMalformed(c) \/ LockBus1(c) \/ LockBus2(c)
             \/ ClientSchedule(c) \/ ClientScheduleFails(c) \/ ClientSleep(c) \/ ClientUnheard(c)
             \/ getConfirmedData(c) \/ getConfirmedDataFails(c)
    <3>1. pc'[c] \notin {"command", "connected", "reporting", "adding"}
      BY <2>3, <2>7 DEF ClientConfirmed, ClientExit, ClientMalformed, LockBus1, LockBus2, ClientSchedule,
         ClientScheduleFails, ClientSleep, ClientUnheard, getConfirmedData, getConfirmedDataFails, Ends, HasNext, At
    <3>. QED  BY <2>2, <3>1 DEF Clean, Alone
  <2>. QED  BY <2>1, <2>4, <2>5, <2>6, <2>7 DEF ClientStep
<1>2. CASE \E c \in Clients : Accept(c)
  <2>1. PICK c \in Clients : Accept(c)
    BY <1>2
  <2>2. PICK n \in Residue : client' = [client EXCEPT ![c].array = [d \in Degrees |-> [r \in Regions |-> n]]]
    BY <2>1 DEF Accept
  <2>3. "Reporting" \in FirstCommands => client'[c].array = None
    <3>1. client'[c].array = [d \in Degrees |-> [r \in Regions |-> n]]
      BY <2>2 DEF ClientTypes, Locals
    <3>2. "Reporting" \in FirstCommands => n = 0
      BY DEF ArrayZeroed
    <3>. QED  BY <3>1, <3>2 DEF None
  <2>4. pc'[c] = "connected" /\ Alone(c)
    BY <2>1, <2>2 DEF Accept, Alone, ClientTypes
  <2>. QED  BY <2>3, <2>4 DEF Clean, Alone
<1>3. CASE \/ (\E b \in Buses : AmbulanceStep(b)) \/ Tick \/ CtrlC \/ AcceptFails \/ ServerEnds
           \/ (\E p \in Handlers : Handler(p)) \/ UNCHANGED vars
  <2>1. pc' = pc
    BY <1>3 DEF AmbulanceStep, AmbulanceIdle, AmbulanceDrives, AmbulanceArrives, AmbulanceFails, Round,
       Tick, CtrlC, AcceptFails, ServerEnds, Handler, RemoveShm, RemoveSemaphores, shared, vars
  <2>2. ASSUME NEW c \in Clients PROVE client'[c].array = client[c].array /\ client'[c].at = client[c].at
    <3>1. client[c] \in Locals
      BY DEF ClientTypes
    <3>2. CASE Tick
      BY <3>1, <3>2 DEF Tick, Locals
    <3>3. CASE ~Tick
      BY <1>3, <3>3 DEF AmbulanceStep, AmbulanceIdle, AmbulanceDrives, AmbulanceArrives, AmbulanceFails, Round,
         CtrlC, AcceptFails, ServerEnds, Handler, RemoveShm, RemoveSemaphores, shared, vars
    <3>. QED  BY <3>2, <3>3
  <2>. QED  BY <2>1, <2>2 DEF Clean
<1>. QED  BY <1>1, <1>2, <1>3 DEF Next, ServerStep

\* The semaphore keeps every other client out of the tables until the sum is
\* stored.
LEMMA ReadNext ==
  ASSUME SemInv, ClientTypes, ListTypes, ReadIsCurrent, [Next]_vars
  PROVE  ReadIsCurrent'
<1>1. SUFFICES ASSUME NEW x \in Clients, pc'[x] = "adding", removed' = {}
               PROVE  client'[x].seen = cases'[Head(client'[x].todo).degree][Head(client'[x].todo).region]
  BY DEF ReadIsCurrent
<1>2. removed = {}
  BY <1>1, TablesKept
<1>3. client \in [Clients -> Locals] /\ pc \in [Clients -> Places]
  BY DEF ClientTypes
<1>4. CASE pc[x] = "adding" /\ cases' = cases /\ client'[x] = client[x]
  BY <1>2, <1>4 DEF ReadIsCurrent
<1>5. CASE \E c \in Clients : ClientStep(c)
  <2>1. PICK c \in Clients : ClientStep(c)
    BY <1>5
  <2>2. Alone(c)
    BY <2>1, StepsAlone
  <2>3. CASE c = x
    <3>1. addConfirmedDataRead(c)
      <4>1. pc'[c] = "adding"
        BY <1>1, <2>3
      <4>. QED  BY <1>3, <2>1, <4>1 DEF ClientStep, ClientList, ClientConfirmed, ClientReporting, ClientExit, ClientMalformed,
         getConfirmedData, getConfirmedDataFails, ClientConfirmedReply, addConfirmedData, AfterEntry,
         addConfirmedDataFails, LockBus1, LockBus2, ClientScheduleFails, ClientSleep, ClientAnswer, ClientSchedule,
         ClientUnheard, Reply, Ends, HasNext, At
    <3>2. client'[c].seen = cases[Head(client[c].todo).degree][Head(client[c].todo).region]
          /\ client'[c].todo = client[c].todo /\ cases' = cases
      BY <1>3, <3>1 DEF addConfirmedDataRead, Locals
    <3>. QED  BY <2>3, <3>2
  <2>4. CASE c /= x
    <3>1. pc[x] = "adding" /\ client'[x] = client[x]
      BY <1>1, <2>2, <2>4 DEF Alone
    <3>2. ~addConfirmedData(c)
      <4>1. x \in InTables /\ \A p, q \in InTables : p = q
        BY <1>2, <3>1 DEF InTables, SemInv, SemaphoresHeldOnce, HeldOnce
      <4>. QED  BY <2>4, <4>1 DEF addConfirmedData, At, InTables
    <3>3. cases' = cases
      BY <2>1, <3>2 DEF ClientStep, ClientList, ClientConfirmed, ClientReporting, ClientExit, ClientMalformed,
         getConfirmedData, getConfirmedDataFails, ClientConfirmedReply, addConfirmedDataRead,
         addConfirmedDataFails, LockBus1, LockBus2, ClientScheduleFails, ClientSleep, ClientAnswer, ClientSchedule,
         ClientUnheard, shared
    <3>. QED  BY <1>4, <3>1, <3>3
  <2>. QED  BY <2>3, <2>4
<1>6. CASE \E c \in Clients : Accept(c)
  <2>1. PICK c \in Clients : Accept(c)
    BY <1>6
  <2>2. x /= c /\ pc'[x] = pc[x] /\ client'[x] = client[x] /\ cases' = cases
    BY <1>1, <1>3, <2>1 DEF Accept, shared
  <2>. QED  BY <1>1, <1>4, <2>2
<1>7. CASE \/ (\E b \in Buses : AmbulanceStep(b)) \/ Tick \/ CtrlC \/ AcceptFails \/ ServerEnds
           \/ (\E p \in Handlers : Handler(p)) \/ UNCHANGED vars
  <2>1. pc' = pc /\ cases' = cases
    BY <1>7 DEF AmbulanceStep, AmbulanceIdle, AmbulanceDrives, AmbulanceArrives, AmbulanceFails, Round,
       Tick, CtrlC, AcceptFails, ServerEnds, Handler, RemoveShm, RemoveSemaphores, shared, vars
  <2>2. client'[x] = client[x]
    <3>1. CASE Tick
      BY <1>1, <2>1, <3>1 DEF Tick
    <3>2. CASE ~Tick
      BY <1>7, <3>2 DEF AmbulanceStep, AmbulanceIdle, AmbulanceDrives, AmbulanceArrives, AmbulanceFails, Round,
         CtrlC, AcceptFails, ServerEnds, Handler, RemoveShm, RemoveSemaphores, shared, vars
    <3>. QED  BY <3>1, <3>2
  <2>. QED  BY <1>1, <1>4, <2>1, <2>2
<1>. QED  BY <1>5, <1>6, <1>7 DEF Next, ServerStep

LEMMA CountedInit == ASSUME Init PROVE Clean /\ ReadIsCurrent /\ CasesConserved
<1>1. Clean /\ ReadIsCurrent
  BY DEF Init, Clean, ReadIsCurrent
<1>2. ASSUME NEW d \in Degrees, NEW r \in Regions PROVE Balance(d, r)
  <2>1. \A c \in Clients : InHand(c, d, r) = 0
    BY DEF Init, InHand
  <2>. DEFINE f == [c \in Clients |-> InHand(c, d, r)]
  <2>2. Hand(d, r) = 0
    <3>1. \A c \in Clients : f[c] = 0
      BY <2>1
    <3>. HIDE DEF f
    <3>2. SumFunctionOnSet(f, Clients) = 0
      BY <3>1, SumZero, ServerAssumption
    <3>. QED  BY <3>2 DEF Hand, f
  <2>3. On(bus[1], d, r) = 0 /\ On(bus[2], d, r) = 0
    <3>1. bus[1] = <<>> /\ bus[2] = <<>>
      BY DEF Init, Buses
    <3>2. Index(<<>>, r) = {}
      BY DEF Index
    <3>. QED  BY <3>1, <3>2, SumEmpty DEF On
  <2>. QED  BY <2>2, <2>3 DEF Init, Balance, None
<1>. QED  BY <1>1, <1>2, BalanceIs

\* For any clients, regions and reports: until Ctrl-C no case that the tables
\* count is lost or counted twice (addConfirmedData, addNewCaseNumber,
\* deleteBegin).  It takes that case_number_array begins empty, or that no
\* connection begins with a report: the code clears it after a command only.
THEOREM CasesConservedHolds ==
  ASSUME ArrayZeroed
  PROVE  Spec => []CasesConserved
<1>. DEFINE Inv == SemInv /\ TypeInv /\ Clean /\ ReadIsCurrent /\ CasesConserved
<1>1. Init => Inv
  BY SemInit, TypesInit, CountedInit
<1>2. Inv /\ [Next]_vars => Inv'
  <2>. SUFFICES ASSUME Inv, [Next]_vars PROVE Inv'
    OBVIOUS
  <2>1. SemInv' /\ TypeInv'
    BY SemNext, TypesNext
  <2>2. Clean' /\ ReadIsCurrent'
    BY CleanNext, ReadNext DEF TypeInv
  <2>3. CasesConserved'
    BY <2>1, BalanceNext
  <2>. QED  BY <2>1, <2>2, <2>3
<1>. QED  BY <1>1, <1>2, PTL DEF Spec

-----------------------------------------------------------------------------
(* Confirmed case: the listing. *)

LEMMA TotalIsFound ==
  ASSUME NEW table \in Numbers, NEW q \in Seq(Asked)
  PROVE  /\ TotalIn(table, q) = SumFunctionOnSet(Found(table, q), 1..(2 * Len(q))) /\ Len(q) \in Nat
         /\ \A i \in 1..(2 * Len(q)) : Found(table, q)[i] \in Int
<1>. DEFINE f == [i \in DOMAIN q |->
                   IF q[i] = Malformed THEN 0 ELSE table["severe"][q[i]] + table["mild"][q[i]]]
            g == Found(table, q)
            n == Len(q)
<1>1. n \in Nat /\ DOMAIN q = 1..n /\ DOMAIN Lookups(q) = 1..(2 * n) /\ Lookups(q) \in Seq(Looked)
      /\ Len(Lookups(q)) = 2 * n
  BY LookupTypes
<1>2. \A i \in 1..(2 * n) : g[i] \in Int
  <2>1. ASSUME NEW i \in 1..(2 * n) PROVE g[i] \in Int
    <3>1. Lookups(q)[i] \in Looked
      BY <1>1
    <3>2. g[i] = IF Lookups(q)[i] = Malformed THEN 0 ELSE table[Lookups(q)[i][1]][Lookups(q)[i][2]]
      BY DEF Found
    <3>3. PICK l \in Looked : l = Lookups(q)[i]
      BY <3>1
    <3>. QED  BY <3>2, <3>3, CellTypes
  <2>. QED  BY <2>1
<1>3. \A i \in 1..n : f[i] \in Int /\ f[i] = g[2 * i - 1] + g[2 * i]
  <2>1. ASSUME NEW i \in 1..n PROVE f[i] \in Int /\ f[i] = g[2 * i - 1] + g[2 * i]
    <3>1. q[i] \in Asked /\ i \in Nat
      BY <1>1
    <3>2. PICK x \in 1..(2 * n), y \in 1..(2 * n) : x = 2 * i - 1 /\ y = 2 * i
      BY <1>1
    <3>3. (x + 1) \div 2 = i /\ (y + 1) \div 2 = i /\ x % 2 = 1 /\ y % 2 = 0
      BY <3>1, <3>2
    <3>4. /\ Lookups(q)[x] = IF q[i] = Malformed THEN Malformed ELSE <<"severe", q[i]>>
          /\ Lookups(q)[y] = IF q[i] = Malformed THEN Malformed ELSE <<"mild", q[i]>>
      <4>1. ASSUME NEW z \in 1..(2 * n)
            PROVE  Lookups(q)[z] = IF q[(z + 1) \div 2] = Malformed THEN Malformed
                                   ELSE <<IF z % 2 = 1 THEN "severe" ELSE "mild", q[(z + 1) \div 2]>>
        BY DEF Lookups
      <4>2. Lookups(q)[x] = IF q[i] = Malformed THEN Malformed ELSE <<"severe", q[i]>>
        BY <3>3, <4>1
      <4>3. Lookups(q)[y] = IF q[i] = Malformed THEN Malformed ELSE <<"mild", q[i]>>
        BY <3>3, <4>1
      <4>. QED  BY <4>2, <4>3
    <3>5. CASE q[i] = Malformed
      <4>1. g[x] = 0 /\ g[y] = 0
        BY <3>4, <3>5 DEF Found
      <4>. QED  BY <1>1, <3>2, <3>5, <4>1
    <3>6. CASE q[i] /= Malformed
      <4>1. q[i] \in Regions /\ "severe" \in Degrees /\ "mild" \in Degrees
        BY <3>1, <3>6 DEF Asked, Degrees
      <4>2. <<"severe", q[i]>> /= Malformed /\ <<"mild", q[i]>> /= Malformed
        BY <4>1, ServerAssumption
      <4>3. PICK u \in Looked, v \in Looked : u = <<"severe", q[i]>> /\ v = <<"mild", q[i]>>
        BY <4>1 DEF Looked
      <4>4. u[1] = "severe" /\ u[2] = q[i] /\ v[1] = "mild" /\ v[2] = q[i]
        BY <4>3
      <4>5. Lookups(q)[x] = u /\ Lookups(q)[y] = v /\ u /= Malformed /\ v /= Malformed
        BY <3>4, <3>6, <4>2, <4>3
      <4>6. g[x] = table[u[1]][u[2]] /\ g[y] = table[v[1]][v[2]]
        BY <4>5 DEF Found
      <4>7. table["severe"][q[i]] \in Int /\ table["mild"][q[i]] \in Int
        BY <4>1 DEF Numbers
      <4>. QED  BY <1>1, <3>2, <3>6, <4>4, <4>6, <4>7
    <3>. QED  BY <3>5, <3>6
  <2>. QED  BY <2>1
<1>4. TotalIn(table, q) = SumFunctionOnSet(f, 1..n)
  BY <1>1 DEF TotalIn, SumFunction
<1>. HIDE DEF f, g, n
<1>5. SumFunctionOnSet(f, 1..n) = SumFunctionOnSet(g, 1..(2 * n))
  <2>1. \A i \in 1..(2 * n) : g[i] \in Int
    BY <1>2
  <2>. QED  BY <1>1, <1>3, <2>1, SumPairs
<1>. QED  BY <1>1, <1>2, <1>4, <1>5 DEF g, n

\* The sum of two tables has the sum of their totals.
LEMMA TotalAdds ==
  ASSUME NEW table \in Numbers, NEW other \in Numbers, NEW sum \in Numbers, NEW q \in Seq(Asked),
         \A d \in Degrees, r \in Regions : sum[d][r] = table[d][r] + other[d][r]
  PROVE  TotalIn(sum, q) = TotalIn(table, q) + TotalIn(other, q)
<1>. DEFINE Of(t, i) == IF q[i] = Malformed THEN 0 ELSE t["severe"][q[i]] + t["mild"][q[i]]
            f == [i \in DOMAIN q |-> Of(table, i)]
            g == [i \in DOMAIN q |-> Of(other, i)]
            h == [i \in DOMAIN q |-> Of(sum, i)]
<1>1. IsFiniteSet(DOMAIN q)
  <2>1. DOMAIN q = 1..Len(q) /\ Len(q) \in Int
    OBVIOUS
  <2>. QED  BY <2>1, FS_Interval
<1>2. \A i \in DOMAIN q : f[i] \in Int /\ g[i] \in Int /\ h[i] = f[i] + g[i]
  <2>1. ASSUME NEW i \in DOMAIN q PROVE f[i] \in Int /\ g[i] \in Int /\ h[i] = f[i] + g[i]
    <3>1. q[i] \in Asked
      OBVIOUS
    <3>2. CASE q[i] = Malformed
      BY <3>2
    <3>3. CASE q[i] /= Malformed
      <4>1. q[i] \in Regions /\ "severe" \in Degrees /\ "mild" \in Degrees
        BY <3>1, <3>3 DEF Asked, Degrees
      <4>2. PICK a \in Int, b \in Int, x \in Int, y \in Int :
              /\ a = table["severe"][q[i]] /\ b = table["mild"][q[i]]
              /\ x = other["severe"][q[i]] /\ y = other["mild"][q[i]]
        BY <4>1 DEF Numbers
      <4>3. sum["severe"][q[i]] = a + x /\ sum["mild"][q[i]] = b + y
        BY <4>1, <4>2
      <4>4. f[i] = a + b /\ g[i] = x + y /\ h[i] = (a + x) + (b + y)
        BY <3>3, <4>2, <4>3
      <4>. QED  BY <4>4
    <3>. QED  BY <3>2, <3>3
  <2>. QED  BY <2>1
<1>3. TotalIn(table, q) = SumFunctionOnSet(f, DOMAIN q) /\ TotalIn(other, q) = SumFunctionOnSet(g, DOMAIN q)
      /\ TotalIn(sum, q) = SumFunctionOnSet(h, DOMAIN q)
  BY DEF TotalIn, SumFunction
<1>. HIDE DEF f, g, h
<1>. QED  BY <1>1, <1>2, <1>3, SumPlus

\* What was gained and what was taken back only grow.
TablesGrow ==
  \A d \in Degrees, r \in Regions : Gained[d][r] <= Gained'[d][r] /\ taken[d][r] <= taken'[d][r]

LEMMA GainedTypes ==
  ASSUME cases \in Numbers, taken \in Numbers
  PROVE  Gained \in Numbers /\ \A d \in Degrees, r \in Regions : Gained[d][r] = cases[d][r] + taken[d][r]
BY DEF Gained, Numbers

LEMMA TablesOnlyGrow ==
  ASSUME SemInv, TypeInv, TypeInv', ReadIsCurrent, [Next]_vars, removed' = {}
  PROVE  removed = {} /\ TablesGrow
<1>1. removed = {}
  BY TablesKept
<1>2. cases \in Numbers /\ taken \in Numbers /\ cases' \in Numbers /\ taken' \in Numbers
  BY DEF TypeInv, ClientTypes
<1>3. ASSUME NEW d \in Degrees, NEW r \in Regions
      PROVE  /\ cases[d][r] \in Int /\ taken[d][r] \in Int /\ Gained[d][r] = cases[d][r] + taken[d][r]
             /\ Gained'[d][r] = cases'[d][r] + taken'[d][r]
  <2>1. cases[d][r] \in Int /\ taken[d][r] \in Int /\ Gained[d][r] = cases[d][r] + taken[d][r]
    BY <1>2, GainedTypes DEF Numbers
  <2>2. Gained'[d][r] = cases'[d][r] + taken'[d][r]
    BY DEF Gained
  <2>. QED  BY <2>1, <2>2
<1>4. CASE \E c \in Clients : addConfirmedData(c)
  <2>1. PICK c \in Clients : addConfirmedData(c)
    BY <1>4
  <2>2. /\ pc[c] = "adding" /\ Head(client[c].todo) /= Malformed
        /\ client[c].seen = cases[Head(client[c].todo).degree][Head(client[c].todo).region]
    BY <1>1, <2>1 DEF addConfirmedData, At, TypeInv, ClientTypes, Todo, ReadIsCurrent
  <2>3. PICK e \in Entry : e = Head(client[c].todo)
    BY <2>2, EntryTypes DEF TypeInv
  <2>4. e.degree \in Degrees /\ e.region \in Regions /\ e.number \in Int
    BY DEF Entry
  <2>5. PICK i \in Int : i = IF e.number < 0 THEN -e.number ELSE 0
    BY <2>4
  <2>6. /\ cases' = [cases EXCEPT ![e.degree][e.region] = cases[e.degree][e.region] + e.number]
        /\ taken' = [taken EXCEPT ![e.degree][e.region] = taken[e.degree][e.region] + i]
    BY <1>2, <2>1, <2>2, <2>3, <2>4, <2>5 DEF addConfirmedData, Numbers
  <2>7. i >= 0 /\ e.number + i >= 0
    BY <2>4, <2>5
  <2>8. ASSUME NEW d \in Degrees, NEW r \in Regions
        PROVE  Gained[d][r] <= Gained'[d][r] /\ taken[d][r] <= taken'[d][r]
    <3>1. PICK x \in Int, y \in Int : x = cases[d][r] /\ y = taken[d][r] /\ Gained[d][r] = x + y
      BY <1>3
    <3>2. CASE d = e.degree /\ r = e.region
      <4>1. cases'[d][r] = x + e.number /\ taken'[d][r] = y + i
        BY <1>2, <2>4, <2>6, <3>1, <3>2 DEF Numbers
      <4>2. Gained'[d][r] = (x + e.number) + (y + i)
        BY <1>3, <4>1
      <4>. QED  BY <2>4, <2>7, <3>1, <4>1, <4>2
    <3>3. CASE ~(d = e.degree /\ r = e.region)
      <4>1. cases'[d][r] = x /\ taken'[d][r] = y
        BY <1>2, <2>4, <2>6, <3>1, <3>3 DEF Numbers
      <4>2. Gained'[d][r] = x + y
        BY <1>3, <4>1
      <4>. QED  BY <3>1, <4>1, <4>2
    <3>. QED  BY <3>2, <3>3
  <2>. QED  BY <1>1, <2>8 DEF TablesGrow
<1>5. CASE ~\E c \in Clients : addConfirmedData(c)
  <2>1. cases' = cases /\ taken' = taken
    BY <1>5, TablesKept
  <2>2. ASSUME NEW d \in Degrees, NEW r \in Regions
        PROVE  Gained[d][r] <= Gained'[d][r] /\ taken[d][r] <= taken'[d][r]
    <3>1. PICK x \in Int, y \in Int : x = cases[d][r] /\ y = taken[d][r] /\ Gained[d][r] = x + y
      BY <1>3
    <3>2. Gained'[d][r] = x + y /\ taken'[d][r] = y
      BY <1>3, <2>1, <3>1
    <3>. QED  BY <3>1, <3>2
  <2>. QED  BY <1>1, <2>2 DEF TablesGrow
<1>. QED  BY <1>4, <1>5

\* What is found in a table that has grown is no less.
LEMMA FoundGrows ==
  ASSUME NEW table \in Numbers, NEW grown \in Numbers, NEW q \in Seq(Asked),
         \A d \in Degrees, r \in Regions : table[d][r] <= grown[d][r]
  PROVE  \A i \in 1..(2 * Len(q)) : /\ Found(table, q)[i] \in Int /\ Found(grown, q)[i] \in Int
                                    /\ Found(table, q)[i] <= Found(grown, q)[i]
<1>1. DOMAIN Lookups(q) = 1..(2 * Len(q)) /\ Lookups(q) \in Seq(Looked)
  BY LookupTypes
<1>2. ASSUME NEW i \in 1..(2 * Len(q))
      PROVE  /\ Found(table, q)[i] \in Int /\ Found(grown, q)[i] \in Int
             /\ Found(table, q)[i] <= Found(grown, q)[i]
  <2>1. PICK l \in Looked : l = Lookups(q)[i]
    BY <1>1
  <2>2. /\ Found(table, q)[i] = IF l = Malformed THEN 0 ELSE table[l[1]][l[2]]
        /\ Found(grown, q)[i] = IF l = Malformed THEN 0 ELSE grown[l[1]][l[2]]
    BY <2>1 DEF Found
  <2>3. l /= Malformed => l[1] \in Degrees /\ l[2] \in Regions
    BY DEF Looked
  <2>. QED  BY <2>2, <2>3 DEF Numbers
<1>. QED  BY <1>2

LEMMA PartSums ==
  ASSUME NEW f, NEW n \in Nat, \A i \in 1..n : f[i] \in Int, NEW x \in Nat, NEW y \in Nat, 0 < x, y <= n
  PROVE  IsFiniteSet(x..y) /\ x..y \subseteq 1..n /\ SumFunctionOnSet(f, x..y) \in Int
<1>1. IsFiniteSet(x..y) /\ x..y \subseteq 1..n
  BY FS_Interval
<1>2. \A i \in x..y : f[i] \in Int
  BY <1>1
<1>. QED  BY <1>1, <1>2, SumInt

LEMMA BetweenGrows ==
  ASSUME NEW m \in Locals, NEW n \in Nat, NEW k \in Nat, k <= n, NEW f, NEW h, NEW g, NEW i,
         \A x \in 1..n : /\ f[x] \in Int /\ g[x] \in Int /\ f[x] <= g[x]
                         /\ h[x] \in Int /\ i[x] \in Int /\ h[x] <= i[x],
         Between(m, f, h, k, n)
  PROVE  Between(m, g, i, k, n)
<1>1. PICK o \in Nat, j \in Nat : o = 1 /\ j = k + 1
  OBVIOUS
<1>2. 0 < o /\ 0 < j /\ n <= n /\ k <= n
  BY <1>1
<1>3. ASSUME NEW a, NEW b, \A x \in 1..n : a[x] \in Int /\ b[x] \in Int /\ a[x] <= b[x],
             NEW x \in Nat, NEW y \in Nat, 0 < x, y <= n
      PROVE  /\ SumFunctionOnSet(a, x..y) \in Int /\ SumFunctionOnSet(b, x..y) \in Int
             /\ SumFunctionOnSet(a, x..y) <= SumFunctionOnSet(b, x..y)
  <2>1. \A z \in 1..n : a[z] \in Int /\ b[z] \in Int
    BY <1>3
  <2>2. /\ IsFiniteSet(x..y) /\ x..y \subseteq 1..n /\ SumFunctionOnSet(a, x..y) \in Int
        /\ SumFunctionOnSet(b, x..y) \in Int
    BY <1>3, <2>1, PartSums
  <2>3. \A z \in x..y : a[z] \in Int /\ b[z] \in Int /\ a[z] <= b[z]
    BY <1>3, <2>2
  <2>4. SumFunctionOnSet(a, x..y) <= SumFunctionOnSet(b, x..y)
    BY <2>2, <2>3, SumAtLeast
  <2>. QED  BY <2>2, <2>4
<1>4. (\A x \in 1..n : f[x] \in Int /\ g[x] \in Int /\ f[x] <= g[x])
      /\ (\A x \in 1..n : h[x] \in Int /\ i[x] \in Int /\ h[x] <= i[x])
  OBVIOUS
<1>5. /\ SumFunctionOnSet(f, o..k) \in Int /\ SumFunctionOnSet(g, o..k) \in Int
      /\ SumFunctionOnSet(f, o..k) <= SumFunctionOnSet(g, o..k)
      /\ SumFunctionOnSet(f, j..n) \in Int /\ SumFunctionOnSet(g, j..n) \in Int
      /\ SumFunctionOnSet(f, j..n) <= SumFunctionOnSet(g, j..n)
  <2>1. \A x \in 1..n : f[x] \in Int /\ g[x] \in Int /\ f[x] <= g[x]
    BY <1>4
  <2>2. /\ SumFunctionOnSet(f, o..k) \in Int /\ SumFunctionOnSet(g, o..k) \in Int
        /\ SumFunctionOnSet(f, o..k) <= SumFunctionOnSet(g, o..k)
    BY <1>2, <1>3, <2>1
  <2>3. /\ SumFunctionOnSet(f, j..n) \in Int /\ SumFunctionOnSet(g, j..n) \in Int
        /\ SumFunctionOnSet(f, j..n) <= SumFunctionOnSet(g, j..n)
    BY <1>2, <1>3, <2>1
  <2>. QED  BY <2>2, <2>3
<1>6. /\ SumFunctionOnSet(h, o..k) \in Int /\ SumFunctionOnSet(i, o..k) \in Int
      /\ SumFunctionOnSet(h, o..k) <= SumFunctionOnSet(i, o..k)
      /\ SumFunctionOnSet(h, j..n) \in Int /\ SumFunctionOnSet(i, j..n) \in Int
      /\ SumFunctionOnSet(h, j..n) <= SumFunctionOnSet(i, j..n)
  <2>1. \A x \in 1..n : h[x] \in Int /\ i[x] \in Int /\ h[x] <= i[x]
    BY <1>4
  <2>2. /\ SumFunctionOnSet(h, o..k) \in Int /\ SumFunctionOnSet(i, o..k) \in Int
        /\ SumFunctionOnSet(h, o..k) <= SumFunctionOnSet(i, o..k)
    BY <1>2, <1>3, <2>1
  <2>3. /\ SumFunctionOnSet(h, j..n) \in Int /\ SumFunctionOnSet(i, j..n) \in Int
        /\ SumFunctionOnSet(h, j..n) <= SumFunctionOnSet(i, j..n)
    BY <1>2, <1>3, <2>1
  <2>. QED  BY <2>2, <2>3
<1>7. PICK s \in Int, b \in Int, w \in Int : s = m.seen /\ b = m.before /\ w = m.withdrawn
  BY LocalsUpdate
<1>8. PICK f1 \in Int, h1 \in Int, f2 \in Int, h2 \in Int :
        /\ f1 = SumFunctionOnSet(f, o..k) /\ f2 = SumFunctionOnSet(f, j..n)
        /\ h1 = SumFunctionOnSet(h, o..k) /\ h2 = SumFunctionOnSet(h, j..n)
  BY <1>5, <1>6
<1>9. PICK g1 \in Int, i1 \in Int, g2 \in Int, i2 \in Int :
        /\ g1 = SumFunctionOnSet(g, o..k) /\ g2 = SumFunctionOnSet(g, j..n)
        /\ i1 = SumFunctionOnSet(i, o..k) /\ i2 = SumFunctionOnSet(i, j..n)
  BY <1>5, <1>6
<1>10. f1 <= g1 /\ f2 <= g2 /\ h1 <= i1 /\ h2 <= i2
  BY <1>5, <1>6, <1>8, <1>9
<1>11. s + w <= f1 + h2 /\ b + w <= s + f2 + h1
  BY <1>1, <1>7, <1>8 DEF Between
<1>12. s + w <= g1 + i2 /\ b + w <= s + g2 + i1
  BY <1>10, <1>11
<1>. QED  BY <1>1, <1>7, <1>9, <1>12 DEF Between

\* The first of the sums from i to j, or the last, is looked up.
LEMMA SumEnds ==
  ASSUME NEW f, NEW k \in Nat, NEW n \in Nat, NEW j \in Nat, NEW m \in Nat, j = k + 1, m = j + 1, j <= n,
         \A i \in 1..n : f[i] \in Int
  PROVE  /\ SumFunctionOnSet(f, 1..j) = f[j] + SumFunctionOnSet(f, 1..k)
         /\ SumFunctionOnSet(f, j..n) = f[j] + SumFunctionOnSet(f, m..n)
         /\ SumFunctionOnSet(f, 1..k) \in Int /\ SumFunctionOnSet(f, m..n) \in Int
<1>1. IsFiniteSet(1..k) /\ IsFiniteSet(m..n)
  <2>1. ASSUME NEW x \in Nat, NEW y \in Nat PROVE IsFiniteSet(x..y)
    BY FS_Interval
  <2>. QED  BY <2>1
<1>2. 1..j = (1..k) \cup {j} /\ j \notin 1..k /\ 1..j \subseteq 1..n
  OBVIOUS
<1>3. j..n = (m..n) \cup {j} /\ j \notin m..n /\ j..n \subseteq 1..n
  OBVIOUS
<1>5. (\A i \in (1..k) \cup {j} : f[i] \in Int) /\ (\A i \in (m..n) \cup {j} : f[i] \in Int)
  BY <1>2, <1>3
<1>6. SumFunctionOnSet(f, (1..k) \cup {j}) = f[j] + SumFunctionOnSet(f, 1..k)
  BY <1>1, <1>2, <1>5, SumAdd
<1>7. SumFunctionOnSet(f, (m..n) \cup {j}) = f[j] + SumFunctionOnSet(f, m..n)
  BY <1>1, <1>3, <1>5, SumAdd
<1>8. SumFunctionOnSet(f, 1..k) \in Int
  BY <1>1, <1>5, SumInt
<1>9. SumFunctionOnSet(f, m..n) \in Int
  BY <1>1, <1>5, SumInt
<1>. QED  BY <1>2, <1>3, <1>6, <1>7, <1>8, <1>9

\* The next number is looked up: what was gained there less what was taken back.
LEMMA BetweenMoves ==
  ASSUME NEW m \in Locals, NEW l \in Locals, NEW n \in Nat, NEW k \in Nat, NEW j \in Nat, j = k + 1, j <= n,
         NEW g, NEW h, \A x \in 1..n : g[x] \in Int /\ h[x] \in Int, Between(m, g, h, k, n),
         l.seen = m.seen + (g[j] - h[j]), l.before = m.before, l.withdrawn = m.withdrawn
  PROVE  Between(l, g, h, j, n)
<1>1. PICK p \in Nat : p = j + 1
  OBVIOUS
<1>2. PICK g1 \in Int, g2 \in Int, gj \in Int :
        /\ g1 = SumFunctionOnSet(g, 1..k) /\ g2 = SumFunctionOnSet(g, p..n) /\ gj = g[j]
        /\ SumFunctionOnSet(g, 1..j) = gj + g1 /\ SumFunctionOnSet(g, j..n) = gj + g2
  <2>1. \A x \in 1..n : g[x] \in Int
    OBVIOUS
  <2>2. j \in 1..n
    OBVIOUS
  <2>. QED  BY <1>1, <2>1, <2>2, SumEnds
<1>3. PICK h1 \in Int, h2 \in Int, hj \in Int :
        /\ h1 = SumFunctionOnSet(h, 1..k) /\ h2 = SumFunctionOnSet(h, p..n) /\ hj = h[j]
        /\ SumFunctionOnSet(h, 1..j) = hj + h1 /\ SumFunctionOnSet(h, j..n) = hj + h2
  <2>1. \A x \in 1..n : h[x] \in Int
    OBVIOUS
  <2>2. j \in 1..n
    OBVIOUS
  <2>. QED  BY <1>1, <2>1, <2>2, SumEnds
<1>4. PICK s \in Int, b \in Int, w \in Int : s = m.seen /\ b = m.before /\ w = m.withdrawn
  BY LocalsUpdate
<1>5. s + w <= g1 + (hj + h2) /\ b + w <= s + (gj + g2) + h1
  BY <1>2, <1>3, <1>4 DEF Between
<1>6. l.seen = s + (gj - hj) /\ l.before = b /\ l.withdrawn = w
  BY <1>2, <1>3, <1>4
<1>7. (s + (gj - hj)) + w <= (gj + g1) + h2 /\ b + w <= (s + (gj - hj)) + g2 + (hj + h1)
  BY <1>5
<1>. QED  BY <1>1, <1>2, <1>3, <1>6, <1>7 DEF Between

\* The listing of client c: m is its locals, k of the n numbers are looked up.
Progress(m, g, h, q, k, n, todo) ==
  /\ q = m.asked /\ todo = m.todo /\ n = 2 * Len(q) /\ n = k + Len(todo)
  /\ \A i \in 1..Len(todo) : todo[i] = Lookups(q)[k + i]
  /\ Between(m, g, h, k, n)

LEMMA LookingAt ==
  ASSUME ClientTypes, NEW c \in Clients, pc[c] = "confirmed", Looking(c)
  PROVE  \E q \in Seq(Asked), k \in Nat, n \in Nat, todo \in Seq(Looked) :
           Progress(client[c], Found(Gained, q), Found(taken, q), q, k, n, todo)
<1>1. client[c] \in Locals /\ client[c].todo \in Seq(Looked)
  BY DEF ClientTypes, Todo
<1>2. client[c].asked \in Seq(Asked)
  BY <1>1 DEF Locals
<1>3. PICK q \in Seq(Asked), todo \in Seq(Looked) : q = client[c].asked /\ todo = client[c].todo
  BY <1>1, <1>2
<1>4. PICK x \in Nat, t \in Nat : x = Len(q) /\ t = Len(todo)
  OBVIOUS
<1>5. DOMAIN todo = 1..t
  BY <1>4
<1>6. PICK n \in Nat : n = 2 * x
  OBVIOUS
<1>7. PICK k \in Int : k = n - t
  OBVIOUS
<1>8. n = 2 * Len(client[c].asked) /\ k = n - Len(client[c].todo)
  BY <1>3, <1>4, <1>6, <1>7
<1>9. /\ k >= 0 /\ \A i \in DOMAIN todo : todo[i] = Lookups(q)[k + i]
      /\ Between(client[c], Found(Gained, q), Found(taken, q), k, n)
  BY <1>3, <1>8 DEF Looking
<1>10. k \in Nat /\ n = k + t
  BY <1>7, <1>9
<1>11. Progress(client[c], Found(Gained, q), Found(taken, q), q, k, n, todo)
  BY <1>3, <1>4, <1>5, <1>6, <1>9, <1>10 DEF Progress
<1>. QED  BY <1>10, <1>11

\* The same, of the locals and the numbers found after the step.
LEMMA LookingWillBe ==
  ASSUME NEW c \in Clients, NEW q \in Seq(Asked), NEW k \in Nat, NEW n \in Nat, NEW todo \in Seq(Looked),
         Progress(client'[c], Found(Gained', q), Found(taken', q), q, k, n, todo)
  PROVE  Looking(c)'
<1>1. PICK t \in Nat : t = Len(todo) /\ DOMAIN todo = 1..t
  OBVIOUS
<1>2. /\ client'[c].asked = q /\ client'[c].todo = todo /\ n = 2 * Len(q) /\ n = k + t
      /\ \A i \in 1..t : todo[i] = Lookups(q)[k + i]
      /\ Between(client'[c], Found(Gained', q), Found(taken', q), k, n)
  BY <1>1 DEF Progress
<1>3. n = 2 * Len(client'[c].asked) /\ k = n - Len(client'[c].todo)
  BY <1>1, <1>2
<1>4. k >= 0 /\ \A i \in DOMAIN client'[c].todo : client'[c].todo[i] = Lookups(client'[c].asked)[k + i]
  BY <1>1, <1>2
<1>. QED  BY <1>2, <1>3, <1>4 DEF Looking

LEMMA LookingStays ==
  ASSUME ClientTypes, ClientTypes', NEW c \in Clients, pc[c] = "confirmed", Looking(c),
         client'[c].todo = client[c].todo, client'[c].asked = client[c].asked,
         client'[c].seen = client[c].seen, client'[c].before = client[c].before,
         client'[c].withdrawn = client[c].withdrawn, TablesGrow
  PROVE  Looking(c)'
<1>1. PICK q \in Seq(Asked), k \in Nat, n \in Nat, todo \in Seq(Looked) :
        Progress(client[c], Found(Gained, q), Found(taken, q), q, k, n, todo)
  BY LookingAt
<1>2. cases \in Numbers /\ cases' \in Numbers /\ taken \in Numbers /\ taken' \in Numbers
  BY DEF ClientTypes
<1>3. Gained \in Numbers /\ Gained' \in Numbers
  BY <1>2 DEF Gained, Numbers
<1>4. PICK g \in Numbers, grown \in Numbers, h \in Numbers, more \in Numbers :
        g = Gained /\ grown = Gained' /\ h = taken /\ more = taken'
  BY <1>2, <1>3
<1>5. /\ \A d \in Degrees, r \in Regions : g[d][r] <= grown[d][r]
      /\ \A d \in Degrees, r \in Regions : h[d][r] <= more[d][r]
  BY <1>4 DEF TablesGrow
<1>6. PICK m \in Locals, l \in Locals : m = client[c] /\ l = client'[c]
  <2>1. client[c] \in Locals /\ client'[c] \in Locals
    BY DEF ClientTypes
  <2>. QED  BY <2>1
<1>7. PICK t \in Nat : t = Len(todo)
  OBVIOUS
<1>8. /\ q = m.asked /\ todo = m.todo /\ n = 2 * Len(q) /\ n = k + t /\ k <= n
      /\ \A i \in 1..t : todo[i] = Lookups(q)[k + i]
      /\ Between(m, Found(g, q), Found(h, q), k, n)
  BY <1>1, <1>4, <1>6, <1>7 DEF Progress
<1>9. \A i \in 1..n : /\ Found(g, q)[i] \in Int /\ Found(grown, q)[i] \in Int
                      /\ Found(g, q)[i] <= Found(grown, q)[i]
  BY <1>5, <1>8, FoundGrows
<1>10. \A i \in 1..n : /\ Found(h, q)[i] \in Int /\ Found(more, q)[i] \in Int
                       /\ Found(h, q)[i] <= Found(more, q)[i]
  BY <1>5, <1>8, FoundGrows
<1>11. Between(m, Found(grown, q), Found(more, q), k, n)
  BY <1>8, <1>9, <1>10, BetweenGrows
<1>12. /\ l.asked = q /\ l.todo = todo /\ l.seen = m.seen /\ l.before = m.before /\ l.withdrawn = m.withdrawn
  BY <1>6, <1>8
<1>13. Between(l, Found(grown, q), Found(more, q), k, n)
  BY <1>11, <1>12 DEF Between
<1>14. Progress(l, Found(grown, q), Found(more, q), q, k, n, todo)
  BY <1>7, <1>8, <1>12, <1>13 DEF Progress
<1>15. Progress(client'[c], Found(Gained', q), Found(taken', q), q, k, n, todo)
  BY <1>4, <1>6, <1>14
<1>. QED  BY <1>15, LookingWillBe

\* The command comes: nothing is looked up.
LEMMA LookingBegins ==
  ASSUME ClientTypes, NEW c \in Clients, ClientConfirmed(c)
  PROVE  Looking(c)'
<1>1. PICK q \in Queries[c] :
          client' = [client EXCEPT ![c].todo = Lookups(q), ![c].seen = 0,
                                   ![c].asked = q, ![c].before = TotalIn(cases, q),
                                   ![c].withdrawn = TotalIn(taken, q)]
  BY DEF ClientConfirmed
<1>2. /\ q \in Seq(Asked) /\ cases \in Numbers /\ taken \in Numbers /\ cases' = cases /\ taken' = taken
      /\ client[c] \in Locals
  BY ServerAssumption DEF ClientConfirmed, shared, ClientTypes, Asked
<1>3. /\ client'[c].todo = Lookups(q) /\ client'[c].seen = 0 /\ client'[c].asked = q
      /\ client'[c].before = TotalIn(cases, q) /\ client'[c].withdrawn = TotalIn(taken, q)
  BY <1>1, <1>2 DEF ClientTypes, Locals
<1>4. Gained \in Numbers /\ \A d \in Degrees, r \in Regions : Gained[d][r] = cases[d][r] + taken[d][r]
  BY <1>2, GainedTypes
<1>5. PICK x \in Numbers, g \in Numbers, h \in Numbers : x = cases /\ g = Gained /\ h = taken
  BY <1>2, <1>4
<1>6. Gained' = g /\ taken' = h
  BY <1>2, <1>5 DEF Gained
<1>7. PICK z \in Seq(Asked) : z = q
  BY <1>2
<1>8. Len(Lookups(z)) = 2 * Len(z) /\ Lookups(z) \in Seq(Looked)
  BY LookupTypes
<1>9. PICK n \in Nat, todo \in Seq(Looked) : n = 2 * Len(z) /\ todo = Lookups(z) /\ n = Len(todo)
  BY <1>8
<1>10. /\ TotalIn(x, z) = SumFunctionOnSet(Found(x, z), 1..n) /\ TotalIn(h, z) = SumFunctionOnSet(Found(h, z), 1..n)
       /\ TotalIn(g, z) = SumFunctionOnSet(Found(g, z), 1..n)
       /\ \A i \in 1..n : Found(x, z)[i] \in Int /\ Found(h, z)[i] \in Int
  BY <1>9, TotalIsFound
<1>11. TotalIn(g, z) = TotalIn(x, z) + TotalIn(h, z) /\ TotalIn(x, z) \in Int /\ TotalIn(h, z) \in Int
  <2>1. \A d \in Degrees, r \in Regions : g[d][r] = x[d][r] + h[d][r]
    BY <1>4, <1>5
  <2>. QED  BY <2>1, TotalAdds, TotalTypes
<1>12. PICK k \in Nat : k = 0
  OBVIOUS
<1>13. SumFunctionOnSet(Found(g, z), 1..k) = 0 /\ SumFunctionOnSet(Found(h, z), 1..k) = 0 /\ k + 1 = 1
  <2>1. 1..k = {} /\ k + 1 = 1
    BY <1>12
  <2>. QED  BY <2>1, SumEmpty
<1>14. PICK u \in Int, w \in Int : u = TotalIn(x, z) /\ w = TotalIn(h, z)
  BY <1>11
<1>15. client'[c].seen = 0 /\ client'[c].before = u /\ client'[c].withdrawn = w
  BY <1>3, <1>5, <1>7, <1>14
<1>16. /\ SumFunctionOnSet(Found(g, z), (k + 1)..n) = u + w /\ SumFunctionOnSet(Found(h, z), (k + 1)..n) = w
  BY <1>10, <1>11, <1>13, <1>14
<1>17. 0 + w <= 0 + w /\ u + w <= 0 + (u + w) + 0
  OBVIOUS
<1>18. Between(client'[c], Found(g, z), Found(h, z), k, n)
  BY <1>13, <1>15, <1>16, <1>17 DEF Between
<1>19. \A i \in 1..n : todo[i] = Lookups(z)[k + i]
  <2>1. ASSUME NEW i \in 1..n PROVE k + i = i
    BY <1>12
  <2>. QED  BY <1>9, <2>1
<1>20. n = k + Len(todo)
  BY <1>9, <1>12
<1>21. client'[c].asked = z /\ client'[c].todo = todo
  BY <1>3, <1>7, <1>9
<1>22. Progress(client'[c], Found(g, z), Found(h, z), z, k, n, todo)
  BY <1>9, <1>18, <1>19, <1>20, <1>21 DEF Progress
<1>23. Progress(client'[c], Found(Gained', z), Found(taken', z), z, k, n, todo)
  BY <1>6, <1>22
<1>. QED  BY <1>23, LookingWillBe

LEMMA LookingMoves ==
  ASSUME ClientTypes, NEW c \in Clients, getConfirmedData(c), Looking(c)
  PROVE  Looking(c)'
<1>1. /\ pc[c] = "confirmed" /\ client[c].todo /= <<>> /\ Head(client[c].todo) /= Malformed
      /\ cases' = cases /\ taken' = taken /\ cases \in Numbers /\ taken \in Numbers /\ client[c] \in Locals
  BY DEF getConfirmedData, HasNext, At, shared, ClientTypes
<1>2. PICK q \in Seq(Asked), k \in Nat, n \in Nat, todo \in Seq(Looked) :
        Progress(client[c], Found(Gained, q), Found(taken, q), q, k, n, todo)
  BY <1>1, LookingAt
<1>3. Gained \in Numbers /\ \A d \in Degrees, r \in Regions : Gained[d][r] = cases[d][r] + taken[d][r]
  BY <1>1, GainedTypes
<1>4. PICK g \in Numbers, h \in Numbers, m \in Locals : g = Gained /\ h = taken /\ m = client[c]
  BY <1>1, <1>3
<1>5. PICK j \in Nat : j = k + 1
  OBVIOUS
<1>6. PICK t \in Nat : t = Len(todo)
  OBVIOUS
<1>7. /\ q = m.asked /\ todo = m.todo /\ n = 2 * Len(q) /\ n = k + t
      /\ \A i \in 1..t : todo[i] = Lookups(q)[k + i]
      /\ Between(m, Found(g, q), Found(h, q), k, n)
  BY <1>2, <1>4, <1>6 DEF Progress
<1>8. todo /= <<>> /\ Head(todo) /= Malformed
  BY <1>1, <1>4, <1>7
<1>9. t >= 1
  BY <1>6, <1>8
<1>10. PICK u \in Nat : u = t - 1
  BY <1>9
<1>11. Tail(todo) \in Seq(Looked) /\ Head(todo) \in Looked
  BY <1>8
<1>12. PICK rest \in Seq(Looked), l \in Looked : rest = Tail(todo) /\ l = Head(todo)
  BY <1>11
<1>13. Len(rest) = u /\ l = todo[1] /\ \A i \in 1..u : rest[i] = todo[i + 1]
  BY <1>6, <1>8, <1>10, <1>12
<1>14. n = j + u /\ j <= n /\ j \in 1..n /\ 1 \in 1..t
  <2>1. n = k + t
    BY <1>7
  <2>. QED  BY <1>5, <1>9, <1>10, <2>1
<1>15. l = Lookups(q)[j]
  BY <1>5, <1>7, <1>13, <1>14
<1>16. ASSUME NEW i \in 1..u PROVE rest[i] = Lookups(q)[j + i]
  <2>1. i + 1 \in 1..t /\ k + (i + 1) = j + i
    BY <1>5, <1>10
  <2>2. rest[i] = todo[i + 1] /\ todo[i + 1] = Lookups(q)[k + (i + 1)]
    BY <1>7, <1>13, <2>1
  <2>. QED  BY <2>1, <2>2
<1>17. \A i \in 1..n : Found(g, q)[i] \in Int /\ Found(h, q)[i] \in Int
  BY <1>7, TotalIsFound
<1>18. Found(g, q)[j] = g[l[1]][l[2]] /\ Found(h, q)[j] = h[l[1]][l[2]]
  BY <1>7, <1>8, <1>12, <1>14, <1>15 DEF Found
<1>19. PICK a \in Degrees, r \in Regions : a = l[1] /\ r = l[2]
  BY <1>8, <1>12 DEF Looked
<1>20. PICK v \in Int, w \in Int : v = Found(g, q)[j] /\ w = Found(h, q)[j]
  BY <1>14, <1>17
<1>21. cases[a][r] = v - w
  <2>1. g[a][r] = cases[a][r] + h[a][r] /\ cases[a][r] \in Int /\ h[a][r] \in Int
    BY <1>1, <1>3, <1>4 DEF Numbers
  <2>. QED  BY <1>18, <1>19, <1>20, <2>1
<1>22. PICK s \in Int : s = m.seen + (v - w)
  <2>1. m.seen \in Int
    BY LocalsUpdate
  <2>. QED  BY <2>1
<1>23. PICK o \in Locals : o = [m EXCEPT !.todo = rest, !.seen = s]
  BY DEF Locals
<1>24. o.seen = s /\ o.todo = rest /\ o.asked = q /\ o.before = m.before /\ o.withdrawn = m.withdrawn
  BY <1>7, <1>23 DEF Locals
<1>25. client'[c] = o
  <2>1. client' = [client EXCEPT ![c].todo = Tail(client[c].todo),
                                 ![c].seen = client[c].seen + cases[l[1]][l[2]]]
    BY <1>4, <1>7, <1>12 DEF getConfirmedData, ClientTypes
  <2>2. client[c].seen + cases[l[1]][l[2]] = s /\ Tail(client[c].todo) = rest
    BY <1>4, <1>7, <1>12, <1>19, <1>21, <1>22
  <2>3. client' = [client EXCEPT ![c].todo = rest, ![c].seen = s]
    BY <2>1, <2>2
  <2>. QED  BY <1>4, <1>23, <2>3 DEF ClientTypes
<1>26. Between(o, Found(g, q), Found(h, q), j, n)
  BY <1>5, <1>7, <1>14, <1>17, <1>20, <1>22, <1>24, BetweenMoves
<1>27. Progress(o, Found(g, q), Found(h, q), q, j, n, rest)
  BY <1>7, <1>13, <1>14, <1>16, <1>24, <1>26 DEF Progress
<1>28. Gained' = g /\ taken' = h
  BY <1>1, <1>4 DEF Gained
<1>29. Progress(client'[c], Found(Gained', q), Found(taken', q), q, j, n, rest)
  BY <1>25, <1>27, <1>28
<1>. QED  BY <1>29, LookingWillBe

LEMMA ListingNext ==
  ASSUME SemInv, TypeInv, TypeInv', ReadIsCurrent, Listing, [Next]_vars
  PROVE  Listing'
<1>1. SUFFICES ASSUME NEW x \in Clients, pc'[x] = "confirmed", removed' = {}
               PROVE  Looking(x)'
  BY DEF Listing
<1>2. removed = {} /\ TablesGrow
  BY <1>1, TablesOnlyGrow
<1>3. ClientTypes /\ ClientTypes' /\ ListTypes /\ client \in [Clients -> Locals] /\ pc \in [Clients -> Places]
  BY DEF TypeInv, ClientTypes
<1>4. CASE pc[x] = "confirmed" /\ client'[x] = client[x]
  <2>1. Looking(x)
    BY <1>2, <1>4 DEF Listing
  <2>. QED  BY <1>2, <1>3, <1>4, <2>1, LookingStays
<1>5. CASE \E c \in Clients : ClientStep(c)
  <2>1. PICK c \in Clients : ClientStep(c)
    BY <1>5
  <2>2. Alone(c)
    BY <1>3, <2>1, StepsAlone
  <2>3. CASE c = x
    <3>1. ClientConfirmed(c) \/ getConfirmedData(c)
      <4>1. pc'[c] = "confirmed" /\ ~SemaphoresRemoved /\ ~ShmRemoved
        BY <1>1, <1>2, <2>3 DEF SemaphoresRemoved, ShmRemoved
      <4>2. ~ClientMalformed(c)
        BY <1>3, <4>1 DEF ClientMalformed, Ends, At
      <4>. QED  BY <1>3, <2>1, <4>1, <4>2 DEF ClientStep, ClientList, ClientReporting, ClientExit,
         getConfirmedDataFails, ClientConfirmedReply, addConfirmedDataRead, addConfirmedData, AfterEntry,
         addConfirmedDataFails, LockBus1, LockBus2, ClientScheduleFails, ClientSleep, ClientAnswer, ClientSchedule,
         ClientUnheard, Reply, Ends, HasNext, At
    <3>2. CASE ClientConfirmed(c)
      BY <1>3, <2>3, <3>2, LookingBegins
    <3>3. CASE getConfirmedData(c)
      <4>1. Looking(c)
        BY <1>2, <3>3 DEF Listing, getConfirmedData, HasNext, At
      <4>. QED  BY <1>3, <2>3, <3>3, <4>1, LookingMoves
    <3>. QED  BY <3>1, <3>2, <3>3
  <2>4. CASE c /= x
    BY <1>1, <1>4, <2>2, <2>4 DEF Alone
  <2>. QED  BY <2>3, <2>4
<1>6. CASE \E c \in Clients : Accept(c)
  <2>1. PICK c \in Clients : Accept(c)
    BY <1>6
  <2>2. x /= c /\ pc'[x] = pc[x] /\ client'[x] = client[x]
    BY <1>1, <1>3, <2>1 DEF Accept
  <2>. QED  BY <1>1, <1>4, <2>2
<1>7. CASE \/ (\E b \in Buses : AmbulanceStep(b)) \/ Tick \/ CtrlC \/ AcceptFails \/ ServerEnds
           \/ (\E p \in Handlers : Handler(p)) \/ UNCHANGED vars
  <2>1. pc' = pc
    BY <1>7 DEF AmbulanceStep, AmbulanceIdle, AmbulanceDrives, AmbulanceArrives, AmbulanceFails, Round,
       Tick, CtrlC, AcceptFails, ServerEnds, Handler, RemoveShm, RemoveSemaphores, vars
  <2>2. client'[x] = client[x]
    <3>1. CASE Tick
      BY <1>1, <2>1, <3>1 DEF Tick
    <3>2. CASE ~Tick
      BY <1>7, <3>2 DEF AmbulanceStep, AmbulanceIdle, AmbulanceDrives, AmbulanceArrives, AmbulanceFails, Round,
         CtrlC, AcceptFails, ServerEnds, Handler, RemoveShm, RemoveSemaphores, shared, vars
    <3>. QED  BY <3>1, <3>2
  <2>. QED  BY <1>1, <1>4, <2>1, <2>2
<1>. QED  BY <1>5, <1>6, <1>7 DEF Next, ServerStep

LEMMA ListingSuffices == ASSUME ClientTypes, Listing PROVE ListingBetween
<1>. SUFFICES ASSUME NEW c \in Clients, pc[c] = "confirmed", client[c].todo = <<>>, removed = {}
              PROVE  LET back == TotalIn(taken, client[c].asked) - client[c].withdrawn
                     IN  /\ client[c].before <= client[c].seen + back
                         /\ client[c].seen <= TotalIn(cases, client[c].asked) + back
  BY DEF ListingBetween
<1>1. Looking(c) /\ cases \in Numbers /\ taken \in Numbers /\ client[c] \in Locals
  BY DEF Listing, ClientTypes
<1>2. PICK q \in Seq(Asked), k \in Nat, n \in Nat, todo \in Seq(Looked) :
        Progress(client[c], Found(Gained, q), Found(taken, q), q, k, n, todo)
  BY <1>1, LookingAt
<1>3. Gained \in Numbers /\ \A d \in Degrees, r \in Regions : Gained[d][r] = cases[d][r] + taken[d][r]
  BY <1>1, GainedTypes
<1>4. PICK x \in Numbers, g \in Numbers, h \in Numbers, m \in Locals :
        x = cases /\ g = Gained /\ h = taken /\ m = client[c]
  BY <1>1, <1>3
<1>5. /\ q = m.asked /\ n = 2 * Len(q) /\ n = k + Len(todo) /\ todo = <<>>
      /\ Between(m, Found(g, q), Found(h, q), k, n)
  BY <1>2, <1>4 DEF Progress
<1>6. n = k
  <2>1. Len(todo) = 0
    BY <1>5
  <2>. QED  BY <1>5, <2>1
<1>7. SumFunctionOnSet(Found(g, q), (k + 1)..n) = 0 /\ SumFunctionOnSet(Found(h, q), (k + 1)..n) = 0
  <2>1. (k + 1)..n = {}
    BY <1>6
  <2>. QED  BY <2>1, SumEmpty
<1>8. TotalIn(g, q) = SumFunctionOnSet(Found(g, q), 1..k) /\ TotalIn(h, q) = SumFunctionOnSet(Found(h, q), 1..k)
  BY <1>5, <1>6, TotalIsFound
<1>9. PICK u \in Int, v \in Int : u = TotalIn(x, q) /\ v = TotalIn(h, q) /\ TotalIn(g, q) = u + v
  <2>1. \A d \in Degrees, r \in Regions : g[d][r] = x[d][r] + h[d][r]
    BY <1>3, <1>4
  <2>2. TotalIn(x, q) \in Int /\ TotalIn(h, q) \in Int
    BY TotalTypes
  <2>. QED  BY <2>1, <2>2, TotalAdds
<1>10. PICK s \in Int, b \in Int, w \in Int : s = m.seen /\ b = m.before /\ w = m.withdrawn
  BY LocalsUpdate
<1>11. s + w <= (u + v) + 0 /\ b + w <= s + 0 + v
  BY <1>5, <1>7, <1>8, <1>9, <1>10 DEF Between
<1>12. b <= s + (v - w) /\ s <= u + (v - w)
  BY <1>11
<1>13. TotalIn(taken, client[c].asked) = v /\ TotalIn(cases, client[c].asked) = u
  BY <1>4, <1>5, <1>9
<1>. QED  BY <1>4, <1>10, <1>12, <1>13

\* For any clients, regions, queries and reports: what "Confirmed case" shows,
\* looked up one number at a time while other processes count (getConfirmedData,
\* addConfirmedData), is no fewer than when it was asked and no more than when
\* it is answered, but for what reports of negative numbers have taken back in
\* between.
THEOREM ListingBetweenHolds == Spec => []ListingBetween
<1>. DEFINE Inv == SemInv /\ TypeInv /\ ReadIsCurrent /\ Listing
<1>1. Init => Inv
  <2>. SUFFICES ASSUME Init PROVE Inv
    OBVIOUS
  <2>1. SemInv /\ TypeInv /\ ReadIsCurrent
    BY SemInit, TypesInit DEF Init, ReadIsCurrent
  <2>2. Listing
    BY DEF Init, Listing
  <2>. QED  BY <2>1, <2>2
<1>2. Inv /\ [Next]_vars => Inv'
  <2>. SUFFICES ASSUME Inv, [Next]_vars PROVE Inv'
    OBVIOUS
  <2>1. SemInv' /\ TypeInv'
    BY SemNext, TypesNext
  <2>2. ReadIsCurrent'
    BY ReadNext DEF TypeInv
  <2>3. Listing'
    BY <2>1, ListingNext
  <2>. QED  BY <2>1, <2>2, <2>3
<1>3. Inv => ListingBetween
  BY ListingSuffices DEF TypeInv
<1>. QED  BY <1>1, <1>2, <1>3, PTL DEF Spec

-----------------------------------------------------------------------------
(* Nobody is answered a whole second too early. *)

\* No region is on a list twice, so that no estimate is too long for sleep.
Different(list) == \A i, j \in DOMAIN list : list[i].region_number = list[j].region_number => i = j

\* Cases of client c are on the list.
OnList(list, c) == \E i \in DOMAIN list : c \in list[i].reporters

\* They will have been brought away when p ticks have passed.
Covered(list, age, c, p) ==
  \A i \in DOMAIN list : c \in list[i].reporters => Ticks(list, i) - age <= p

\* The ticks after which a client's process may have woken, as far as it has
\* dispatched its report: a fraction of a second longer than it sleeps.
Promise(c) == IF pc[c] = "sleeping" THEN client[c].sleep + (SECOND - 1)
              ELSE IF pc[c] \in {"dispatch", "bus1", "both"} /\ client[c].largest > SECOND - 1
              THEN client[c].largest ELSE SECOND - 1

Promised ==
  \A c \in Clients, b \in Buses :
    /\ pc[c] \notin {"failed", "gone"} => Covered(bus[b], ambulance[b].age, c, Promise(c))
    /\ pc[c] = "none" => ~OnList(bus[b], c)

Fitting ==
  /\ \A b \in Buses : Different(bus[b])
  /\ \A c \in Clients : client[c].largest >= -SECOND /\ client[c].largest <= SECOND * UINT_MAX

\* What an ambulance does to its list and to its age, in one round.
Advance(l, age, k, aged) ==
  \/ /\ DOMAIN k = DOMAIN l /\ aged = age
     /\ \A i \in DOMAIN l : k[i].region_number = l[i].region_number /\ k[i].reporters = l[i].reporters
  \/ l /= <<>> /\ k = Tail(l) /\ age = TravelTime(l[1].region_number) /\ aged = 0

LEMMA AmbulanceAdvances ==
  ASSUME ListTypes, NEW b \in Buses, AmbulanceStep(b)
  PROVE  /\ \E l \in Seq(Node), k \in Seq(Node), age \in Nat, aged \in Nat :
              /\ l = bus[b] /\ k = bus'[b] /\ age = ambulance[b].age /\ aged = ambulance'[b].age
              /\ Advance(l, age, k, aged)
         /\ \A x \in Buses : x /= b => bus'[x] = bus[x] /\ ambulance'[x] = ambulance[x]
         /\ UNCHANGED <<pc, client>>
<1>1. PICK l \in Seq(Node), a \in [pc : {"poll", "gone"}, first_get_time : 0..1, age : Nat] :
        l = bus[b] /\ a = ambulance[b] /\ Driving(l, a)
  BY DEF ListTypes
<1>2. /\ bus \in [Buses -> Seq(Node)] /\ b \in DOMAIN ambulance /\ DOMAIN ambulance = Buses
      /\ UNCHANGED <<pc, client>>
  BY DEF AmbulanceStep, AmbulanceIdle, AmbulanceDrives, AmbulanceArrives, AmbulanceFails, Round, ListTypes
<1>3. PICK age \in Nat, e \in Nat : age = a.age /\ e = Executed(b) /\ e = age
  <2>1. a.age \in Nat /\ (a.first_get_time = 1 => a.age = 0)
    BY <1>1 DEF Driving
  <2>. QED  BY <1>1, <2>1 DEF Executed
<1>4. \A x \in Buses : x /= b => bus'[x] = bus[x] /\ ambulance'[x] = ambulance[x]
  BY <1>2 DEF AmbulanceStep, AmbulanceIdle, AmbulanceDrives, AmbulanceArrives, AmbulanceFails, Round, shared
<1>5. CASE AmbulanceIdle(b) \/ AmbulanceFails(b)
  <2>1. bus' = bus
    BY <1>5 DEF AmbulanceIdle, AmbulanceFails, shared
  <2>2. ambulance'[b].age = age
    <3>1. CASE AmbulanceIdle(b)
      <4>1. l = <<>> /\ ambulance'[b].age = 0
        BY <1>1, <1>2, <3>1 DEF AmbulanceIdle, Polling
      <4>. QED  BY <1>1, <1>3, <4>1 DEF Driving
    <3>2. CASE AmbulanceFails(b)
      BY <1>1, <1>2, <1>3, <3>2 DEF AmbulanceFails
    <3>. QED  BY <1>5, <3>1, <3>2
  <2>3. Advance(l, age, l, age)
    BY DEF Advance
  <2>. QED  BY <1>1, <1>2, <1>3, <1>4, <2>1, <2>2, <2>3
<1>6. CASE AmbulanceDrives(b)
  <2>1. l /= <<>> /\ l[1] \in Node /\ 1 \in DOMAIN l
    <3>1. l /= <<>>
      BY <1>1, <1>6 DEF AmbulanceDrives
    <3>. QED  BY <3>1
  <2>2. PICK n \in Node : n = [l[1] EXCEPT !.execution_time = e]
    BY <2>1 DEF Node
  <2>3. PICK k \in Seq(Node) : k = [l EXCEPT ![1] = n]
    <3>1. [l EXCEPT ![1] = n] \in Seq(Node)
      BY <2>1
    <3>. QED  BY <3>1
  <2>4. bus'[b] = k
    <3>1. bus' = [bus EXCEPT ![b][1].execution_time = e]
      BY <1>3, <1>6 DEF AmbulanceDrives
    <3>. QED  BY <1>1, <1>2, <2>1, <2>2, <2>3, <3>1
  <2>5. ambulance'[b].age = age
    BY <1>2, <1>3, <1>6 DEF AmbulanceDrives, Polling
  <2>6. Advance(l, age, k, age)
    <3>1. DOMAIN k = DOMAIN l /\ k[1] = n /\ \A i \in DOMAIN l : i /= 1 => k[i] = l[i]
      BY <2>1, <2>3
    <3>2. n.region_number = l[1].region_number /\ n.reporters = l[1].reporters
      BY <2>1, <2>2 DEF Node
    <3>. QED  BY <3>1, <3>2 DEF Advance
  <2>. QED  BY <1>1, <1>2, <1>3, <1>4, <2>4, <2>5, <2>6
<1>7. CASE AmbulanceArrives(b)
  <2>1. l /= <<>> /\ bus'[b] = Tail(l) /\ e >= TravelTime(l[1].region_number) /\ ambulance'[b].age = 0
    BY <1>1, <1>2, <1>3, <1>7 DEF AmbulanceArrives, deleteBegin, Polling
  <2>2. PICK k \in Seq(Node) : k = Tail(l)
    <3>1. Tail(l) \in Seq(Node)
      BY <2>1
    <3>. QED  BY <3>1
  <2>3. age = TravelTime(l[1].region_number)
    <3>1. l[1] \in Node /\ age <= TravelTime(l[1].region_number)
      BY <1>1, <1>3, <2>1 DEF Driving
    <3>2. TravelTime(l[1].region_number) \in Nat
      BY <3>1, TravelTypes DEF Node
    <3>. QED  BY <1>3, <2>1, <3>1, <3>2
  <2>4. PICK z \in Nat : z = 0
    OBVIOUS
  <2>5. Advance(l, age, k, z)
    BY <2>1, <2>2, <2>3, <2>4 DEF Advance
  <2>. QED  BY <1>1, <1>2, <1>3, <1>4, <2>1, <2>2, <2>4, <2>5
<1>. QED  BY <1>5, <1>6, <1>7 DEF AmbulanceStep

\* The ticks of a list that begins one node later.
LEMMA TicksTail ==
  ASSUME NEW l \in Seq(Node), NEW k \in Seq(Node), l /= <<>>, k = Tail(l), NEW i \in DOMAIN k
  PROVE  /\ i + 1 \in DOMAIN l /\ k[i] = l[i + 1] /\ TravelTime(l[1].region_number) \in Nat
         /\ Ticks(l, i + 1) = TravelTime(l[1].region_number) + Ticks(k, i)
         /\ Ticks(k, i) \in Nat
<1>1. PICK n \in Nat : n = Len(l)
  OBVIOUS
<1>2. n >= 1 /\ DOMAIN l = 1..n /\ DOMAIN k = 1..(n - 1) /\ \A x \in 1..(n - 1) : k[x] = l[x + 1]
  <2>1. n >= 1
    BY <1>1
  <2>2. DOMAIN l = 1..n
    BY <1>1
  <2>3. Len(k) = n - 1 /\ \A x \in 1..(n - 1) : k[x] = l[x + 1]
    BY <1>1
  <2>4. DOMAIN k = 1..Len(k)
    OBVIOUS
  <2>. QED  BY <2>1, <2>2, <2>3, <2>4
<1>3. PICK j \in Nat : j = i + 1 /\ i \in Nat /\ i >= 1
  BY <1>2
<1>4. j \in 1..n /\ j <= n /\ i <= n - 1
  BY <1>2, <1>3
<1>. DEFINE f == [x \in DOMAIN l |-> TravelTime(l[x].region_number)]
            g == [x \in DOMAIN k |-> TravelTime(k[x].region_number)]
            J == 1..i
            next == [x \in J |-> x + 1]
            T == 2..j
<1>5. \A x \in 1..n : l[x] \in Node /\ TravelTime(l[x].region_number) \in Nat
  <2>1. ASSUME NEW x \in 1..n PROVE l[x] \in Node
    BY <1>2
  <2>. QED  BY <2>1, TravelTypes DEF Node
<1>6. \A x \in 1..j : f[x] \in Int
  BY <1>2, <1>4, <1>5
<1>7. /\ {next[x] : x \in J} = T /\ 1..j = T \cup {1} /\ 1 \notin T
  <2>1. 1..j = T \cup {1} /\ 1 \notin T
    BY <1>3
  <2>2. ASSUME NEW y \in T PROVE \E x \in J : next[x] = y
    <3>1. y - 1 \in J /\ next[y - 1] = y
      BY <1>3
    <3>. QED  BY <3>1
  <2>3. ASSUME NEW x \in J PROVE next[x] \in T
    BY <1>3
  <2>. HIDE DEF next, T, J
  <2>. QED  BY <2>1, <2>2, <2>3
<1>8. \A x, y \in J : next[x] = next[y] => x = y
  BY <1>3
<1>9. \A x \in J : g[x] \in Int /\ f[next[x]] = g[x]
  <2>1. ASSUME NEW x \in J PROVE g[x] \in Int /\ f[next[x]] = g[x]
    <3>1. x \in DOMAIN k /\ k[x] = l[x + 1] /\ x + 1 \in 1..n /\ next[x] = x + 1
      BY <1>2, <1>3, <1>4
    <3>. QED  BY <1>2, <1>5, <3>1
  <2>. QED  BY <2>1
<1>10. IsFiniteSet(J) /\ IsFiniteSet(T)
  <2>1. ASSUME NEW x \in Nat, NEW y \in Nat PROVE IsFiniteSet(x..y)
    BY FS_Interval
  <2>. QED  BY <1>3, <2>1
<1>11. Ticks(l, j) = SumFunctionOnSet(f, 1..j) /\ Ticks(k, i) = SumFunctionOnSet(g, J)
  BY DEF Ticks
<1>12. f[1] = TravelTime(l[1].region_number) /\ 1 \in 1..n
  BY <1>2
<1>13. Ticks(k, i) \in Nat
  <2>1. i <= Len(k)
    BY <1>2, <1>4
  <2>. QED  BY <1>3, <2>1, TicksTypes
<1>. HIDE DEF f, g, next, T, J
<1>14. SumFunctionOnSet(f, {next[x] : x \in J}) = SumFunctionOnSet(g, J)
  <2>1. IsFiniteSet({next[x] : x \in J})
    BY <1>7, <1>10
  <2>. QED  BY <1>8, <1>9, <1>10, <2>1, SumRenamed
<1>15. SumFunctionOnSet(f, T \cup {1}) = f[1] + SumFunctionOnSet(f, T)
  BY <1>6, <1>7, <1>10, SumAdd
<1>16. Ticks(l, j) = TravelTime(l[1].region_number) + Ticks(k, i)
  BY <1>7, <1>11, <1>12, <1>14, <1>15
<1>. QED  BY <1>2, <1>3, <1>4, <1>5, <1>12, <1>13, <1>16

\* Nodes whose regions are the same take the same time.
LEMMA TicksSame ==
  ASSUME NEW l \in Seq(Node), NEW k \in Seq(Node), NEW i \in Nat, i <= Len(l), i <= Len(k),
         \A x \in 1..i : k[x].region_number = l[x].region_number
  PROVE  Ticks(k, i) = Ticks(l, i)
<1>. DEFINE f == [x \in DOMAIN l |-> TravelTime(l[x].region_number)]
            g == [x \in DOMAIN k |-> TravelTime(k[x].region_number)]
<1>1. IsFiniteSet(1..i) /\ 1..i \subseteq DOMAIN l /\ 1..i \subseteq DOMAIN k
  BY TicksTypes
<1>2. \A x \in 1..i : f[x] = g[x]
  BY <1>1
<1>. HIDE DEF f, g
<1>3. SumFunctionOnSet(f, 1..i) = SumFunctionOnSet(g, 1..i)
  BY <1>1, <1>2, SumSame
<1>. QED  BY <1>3 DEF Ticks, f, g

\* Whatever the ambulance does, the ticks to come are the same.
LEMMA AdvanceCovers ==
  ASSUME NEW l \in Seq(Node), NEW k \in Seq(Node), NEW age \in Nat, NEW aged \in Nat, Advance(l, age, k, aged),
         NEW c, NEW p \in Int
  PROVE  /\ Covered(l, age, c, p) => Covered(k, aged, c, p)
         /\ OnList(k, c) => OnList(l, c)
         /\ Different(l) => Different(k)
<1>1. CASE /\ DOMAIN k = DOMAIN l /\ aged = age
           /\ \A i \in DOMAIN l : k[i].region_number = l[i].region_number /\ k[i].reporters = l[i].reporters
  <2>1. ASSUME NEW i \in DOMAIN l PROVE Ticks(k, i) = Ticks(l, i)
    <3>1. i \in Nat /\ i <= Len(l) /\ i <= Len(k) /\ 1..i \subseteq DOMAIN l
      <4>1. DOMAIN l = 1..Len(l) /\ DOMAIN k = 1..Len(k) /\ Len(l) \in Nat /\ Len(k) \in Nat
        OBVIOUS
      <4>2. i \in 1..Len(l) /\ i \in 1..Len(k)
        BY <1>1, <4>1
      <4>. QED  BY <4>1, <4>2
    <3>2. \A x \in 1..i : k[x].region_number = l[x].region_number
      BY <1>1, <3>1
    <3>. QED  BY <3>1, <3>2, TicksSame
  <2>2. Covered(l, age, c, p) => Covered(k, aged, c, p)
    BY <1>1, <2>1 DEF Covered
  <2>. QED  BY <1>1, <2>2 DEF OnList, Different
<1>2. CASE l /= <<>> /\ k = Tail(l) /\ age = TravelTime(l[1].region_number) /\ aged = 0
  <2>1. ASSUME NEW i \in DOMAIN k
        PROVE  /\ i + 1 \in DOMAIN l /\ k[i] = l[i + 1] /\ Ticks(l, i + 1) - age = Ticks(k, i) - aged
               /\ i \in Nat
    <3>1. /\ i + 1 \in DOMAIN l /\ k[i] = l[i + 1] /\ TravelTime(l[1].region_number) \in Nat
          /\ Ticks(l, i + 1) = TravelTime(l[1].region_number) + Ticks(k, i) /\ Ticks(k, i) \in Nat
      BY <1>2, TicksTail
    <3>2. i \in Nat
      <4>1. DOMAIN k = 1..Len(k) /\ Len(k) \in Nat
        OBVIOUS
      <4>. QED  BY <4>1
    <3>. QED  BY <1>2, <3>1, <3>2
  <2>2. Covered(l, age, c, p) => Covered(k, aged, c, p)
    BY <2>1 DEF Covered
  <2>3. OnList(k, c) => OnList(l, c)
    BY <2>1 DEF OnList
  <2>4. Different(l) => Different(k)
    <3>1. SUFFICES ASSUME Different(l), NEW i \in DOMAIN k, NEW j \in DOMAIN k, k[i].region_number = k[j].region_number
                   PROVE  i = j
      BY DEF Different
    <3>2. i + 1 = j + 1
      BY <2>1, <3>1 DEF Different
    <3>3. i \in Nat /\ j \in Nat
      BY <2>1
    <3>. QED  BY <3>2, <3>3
  <2>. QED  BY <2>2, <2>3, <2>4
<1>. QED  BY <1>1, <1>2 DEF Advance

\* A tick passes, and of what is promised no more than a tick.
LEMMA TickCovers ==
  ASSUME NEW l \in Seq(Node), NEW age \in Nat, NEW aged \in Nat, NEW c, NEW p \in Int, NEW q \in Int,
         Covered(l, age, c, p), p - 1 <= q, l /= <<>> => aged = age + 1
  PROVE  Covered(l, aged, c, q)
<1>. SUFFICES ASSUME NEW i \in DOMAIN l, c \in l[i].reporters PROVE Ticks(l, i) - aged <= q
  BY DEF Covered
<1>1. l /= <<>> /\ DOMAIN l = 1..Len(l) /\ Len(l) \in Nat
  OBVIOUS
<1>2. Ticks(l, i) \in Nat
  <2>1. i \in Nat /\ i <= Len(l)
    BY <1>1
  <2>. QED  BY <2>1, TicksTypes
<1>3. Ticks(l, i) - age <= p
  BY DEF Covered
<1>4. PICK x \in Nat : x = Ticks(l, i)
  BY <1>2
<1>5. x - (age + 1) <= q
  BY <1>3, <1>4
<1>. QED  BY <1>1, <1>4, <1>5

\* A report is put on a list: what was promised to the others stays true, and the
\* estimate covers the client's own cases.
LEMMA GrownCovers ==
  ASSUME NEW l \in Seq(Node), NEW node \in Node, NEW k \in Seq(Node), NEW t \in Nat, Grown(l, node, k, t),
         NEW age \in Nat, NEW c, NEW p \in Int, NEW q \in Int, Covered(l, age, c, p), p <= q,
         c \in node.reporters => Ticks(k, t) - age <= q
  PROVE  Covered(k, age, c, q)
<1>. SUFFICES ASSUME NEW i \in DOMAIN k, c \in k[i].reporters PROVE Ticks(k, i) - age <= q
  BY DEF Covered
<1>1. /\ DOMAIN k = 1..Len(k) /\ DOMAIN l = 1..Len(l) /\ Len(l) \in Nat /\ Len(k) \in Nat /\ Len(l) <= Len(k)
      /\ 1 <= t /\ t <= Len(k) /\ k[t].region_number = node.region_number
      /\ \A x \in 1..Len(l) : x /= t => k[x] = l[x]
  BY DEF Grown
<1>2. CASE i = t /\ c \in node.reporters
  BY <1>2
<1>3. CASE ~(i = t /\ c \in node.reporters)
  <2>1. i \in 1..Len(l) /\ c \in l[i].reporters
    <3>1. CASE Index(l, node.region_number) = {}
      <4>1. Len(k) = Len(l) + 1 /\ t = Len(l) + 1 /\ k[t] = node
        BY <3>1 DEF Grown
      <4>2. i /= t
        BY <1>3, <4>1
      <4>3. i \in 1..Len(l)
        BY <1>1, <4>1, <4>2
      <4>. QED  BY <1>1, <4>2, <4>3
    <3>2. CASE Index(l, node.region_number) /= {}
      <4>1. Len(k) = Len(l) /\ k[t].reporters = l[t].reporters \cup node.reporters
        BY <3>2 DEF Grown
      <4>. QED  BY <1>1, <1>3, <4>1
    <3>. QED  BY <3>1, <3>2
  <2>2. \A x \in 1..Len(l) : k[x].region_number = l[x].region_number
    <3>1. ASSUME NEW x \in 1..Len(l), x = t PROVE k[x].region_number = l[x].region_number
      <4>1. Index(l, node.region_number) /= {}
        <5>1. Index(l, node.region_number) = {} => t = Len(l) + 1
          BY DEF Grown
        <5>. QED  BY <1>1, <3>1, <5>1
      <4>2. l[t].region_number = node.region_number
        BY <4>1 DEF Grown
      <4>. QED  BY <1>1, <3>1, <4>2
    <3>. QED  BY <1>1, <3>1
  <2>3. PICK n \in Nat : n = i /\ n <= Len(l) /\ n <= Len(k)
    BY <1>1, <2>1
  <2>4. \A x \in 1..n : k[x].region_number = l[x].region_number
    BY <1>1, <2>2, <2>3
  <2>5. Ticks(k, n) = Ticks(l, n) /\ Ticks(l, n) \in Nat
    BY <2>3, <2>4, TicksSame, TicksTypes
  <2>6. Ticks(l, i) - age <= p
    BY <1>1, <2>1 DEF Covered
  <2>. QED  BY <2>3, <2>5, <2>6
<1>. QED  BY <1>2, <1>3

LEMMA GrownKeeps ==
  ASSUME NEW l \in Seq(Node), NEW node \in Node, NEW k \in Seq(Node), NEW t \in Nat, Grown(l, node, k, t), NEW c
  PROVE  /\ OnList(k, c) => OnList(l, c) \/ c \in node.reporters
         /\ Different(l) => Different(k)
<1>1. /\ DOMAIN k = 1..Len(k) /\ DOMAIN l = 1..Len(l) /\ Len(l) \in Nat /\ Len(k) \in Nat /\ Len(l) <= Len(k)
      /\ 1 <= t /\ t <= Len(k) /\ k[t].region_number = node.region_number
      /\ \A x \in 1..Len(l) : x /= t => k[x] = l[x]
  BY DEF Grown
<1>2. CASE Index(l, node.region_number) = {}
  <2>1. Len(k) = Len(l) + 1 /\ t = Len(l) + 1 /\ k[t] = node
    BY <1>2 DEF Grown
  <2>2. \A x \in DOMAIN k : x /= t => x \in DOMAIN l /\ k[x] = l[x]
    BY <1>1, <2>1
  <2>3. \A x \in DOMAIN l : l[x].region_number /= node.region_number
    BY <1>2 DEF Index
  <2>. QED  BY <1>1, <2>1, <2>2, <2>3 DEF OnList, Different
<1>3. CASE Index(l, node.region_number) /= {}
  <2>1. Len(k) = Len(l) /\ k[t].reporters = l[t].reporters \cup node.reporters
        /\ l[t].region_number = node.region_number
    BY <1>3 DEF Grown
  <2>2. DOMAIN k = DOMAIN l /\ t \in DOMAIN l /\ \A x \in DOMAIN k : x /= t => k[x] = l[x]
    BY <1>1, <2>1
  <2>3. \A x \in DOMAIN k : k[x].region_number = l[x].region_number
    BY <1>1, <2>1, <2>2
  <2>. QED  BY <2>1, <2>2, <2>3 DEF OnList, Different
<1>. QED  BY <1>2, <1>3

LEMMA TicksNext ==
  ASSUME NEW l \in Seq(Node), NEW i \in Nat, NEW j \in Nat, j = i + 1, j <= Len(l)
  PROVE  /\ Ticks(l, j) = TravelTime(l[j].region_number) + Ticks(l, i)
         /\ TravelTime(l[j].region_number) \in Nat /\ TravelTime(l[j].region_number) <= SECOND * (NUM_REGION - 1)
         /\ Ticks(l, i) \in Nat
<1>. DEFINE f == [x \in DOMAIN l |-> TravelTime(l[x].region_number)]
<1>1. /\ IsFiniteSet(1..j) /\ 1..j \subseteq DOMAIN l
      /\ \A x \in 1..j : l[x] \in Node /\ TravelTime(l[x].region_number) \in Nat
  BY TicksTypes
<1>2. i <= Len(l) /\ j \in 1..j
  <2>1. PICK n \in Nat : n = Len(l)
    OBVIOUS
  <2>. QED  BY <2>1
<1>3. Ticks(l, i) \in Nat /\ IsFiniteSet(1..i)
  BY <1>2, TicksTypes
<1>4. f[j] = TravelTime(l[j].region_number) /\ \A x \in (1..i) \cup {j} : f[x] \in Int
  <2>1. (1..i) \cup {j} \subseteq 1..j
    OBVIOUS
  <2>. QED  BY <1>1, <1>2, <2>1
<1>5. 1..j = (1..i) \cup {j} /\ j \notin 1..i
  OBVIOUS
<1>. HIDE DEF f
<1>6. SumFunctionOnSet(f, (1..i) \cup {j}) = f[j] + SumFunctionOnSet(f, 1..i)
  BY <1>3, <1>4, <1>5, SumAdd
<1>7. Ticks(l, j) = TravelTime(l[j].region_number) + Ticks(l, i)
  BY <1>4, <1>5, <1>6 DEF Ticks, f
<1>8. l[j].region_number \in Regions
  BY <1>1, <1>2 DEF Node
<1>9. TravelTime(l[j].region_number) \in Nat /\ TravelTime(l[j].region_number) <= SECOND * (NUM_REGION - 1)
  BY <1>8, TravelTypes
<1>. QED  BY <1>3, <1>7, <1>9

\* The estimate is what the bus needs until the client's cases are brought away,
\* or more.
LEMMA TimeCovers ==
  ASSUME NEW l \in Seq(Node), NEW node \in Node, NEW k \in Seq(Node), NEW t \in Nat, Grown(l, node, k, t),
         \A i \in DOMAIN l : i /= 1 => l[i].execution_time = 0, NEW age \in Nat, Begun(l) <= age
  PROVE  Ticks(k, t) - age <= getNodeWaitingTime(l, node.region_number)
<1>1. PICK r \in Regions : r = node.region_number /\ TravelTime(r) \in Nat
  BY TravelTypes DEF Node
<1>2. PICK n \in Nat : n = Len(l)
  OBVIOUS
<1>3. /\ Slot(l, r) \in 0..n /\ getNodeWaitingTime(l, r) \in Int
      /\ Ticks(l, Slot(l, r)) \in Nat /\ Begun(l) \in Nat
      /\ Index(l, r) = {} =>
           getNodeWaitingTime(l, r) = TravelTime(r) + Ticks(l, Slot(l, r)) - Begun(l)
      /\ Index(l, r) /= {} =>
           getNodeWaitingTime(l, r) >= Ticks(l, Slot(l, r)) - Begun(l)
  BY <1>2, WaitingTime
<1>4. PICK m \in Nat : m = Slot(l, r) /\ m <= n
  BY <1>3
<1>5. PICK z \in Int, b \in Nat, x \in Nat, y \in Nat :
        z = getNodeWaitingTime(l, r) /\ b = Begun(l) /\ x = Ticks(l, m) /\ y = TravelTime(r)
  BY <1>1, <1>3, <1>4
<1>6. /\ DOMAIN l = 1..n /\ n <= Len(k) /\ t <= Len(k)
      /\ \A i \in 1..n : i /= t => k[i] = l[i]
      /\ t = Target(l, r)
  BY <1>1, <1>2 DEF Grown
<1>7. CASE Index(l, r) = {}
  <2>1. t = n + 1 /\ k[t] = node /\ m = n
    BY <1>1, <1>2, <1>4, <1>7 DEF Grown, Slot
  <2>2. Ticks(k, t) = TravelTime(k[t].region_number) + Ticks(k, n) /\ Ticks(k, n) \in Nat
    BY <1>6, <2>1, TicksNext
  <2>3. \A i \in 1..n : k[i].region_number = l[i].region_number
    BY <1>6, <2>1
  <2>4. Ticks(k, n) = Ticks(l, n)
    <3>1. n <= Len(l)
      BY <1>2
    <3>. QED  BY <1>6, <2>3, <3>1, TicksSame
  <2>5. Ticks(k, t) = y + x
    BY <1>1, <1>5, <2>1, <2>2, <2>4
  <2>6. z = y + x - b
    BY <1>3, <1>4, <1>5, <1>7
  <2>7. (y + x) - age <= z
    <3>1. b <= age
      BY <1>5
    <3>. QED  BY <2>6, <3>1
  <2>. QED  BY <1>1, <1>5, <2>5, <2>7
<1>8. CASE Index(l, r) /= {}
  <2>1. t = m /\ l[t].region_number = r /\ k[t].region_number = r
    BY <1>1, <1>4, <1>6, <1>8 DEF Grown, Target, Slot
  <2>2. \A i \in 1..t : k[i].region_number = l[i].region_number
    <3>1. ASSUME NEW i \in 1..t PROVE i \in 1..n
      BY <1>4, <2>1
    <3>. QED  BY <1>6, <2>1, <3>1
  <2>3. t <= Len(l)
    BY <1>2, <1>4, <2>1
  <2>4. Ticks(k, t) = Ticks(l, t)
    BY <1>6, <2>2, <2>3, TicksSame
  <2>5. z >= x - b
    BY <1>3, <1>4, <1>5, <1>8
  <2>6. x - age <= z
    BY <1>5, <2>5
  <2>. QED  BY <1>1, <1>5, <2>1, <2>4, <2>6
<1>. QED  BY <1>7, <1>8

\* sleep can be told the longest estimate.
SleepFits == NUM_REGION * NUM_REGION <= UINT_MAX + 1

LEMMA TicksBound ==
  ASSUME NEW l \in Seq(Node), NEW i \in Nat, i <= Len(l)
  PROVE  Ticks(l, i) <= i * (SECOND * (NUM_REGION - 1))
<1>1. PICK n \in Nat, m \in Nat : n = Len(l) /\ m = SECOND * (NUM_REGION - 1)
  <2>1. \A x, y \in Nat : x * y \in Nat
    OBVIOUS
  <2>2. Len(l) \in Nat /\ NUM_REGION - 1 \in Nat
    BY Sizes
  <2>. QED  BY <2>1, <2>2, Sizes
<1>. DEFINE T == {x \in Nat : x <= n /\ ~(Ticks(l, x) <= x * m)}
<1>. SUFFICES ASSUME T /= {} PROVE FALSE
  BY <1>1
<1>2. PICK j \in T : \A x \in T : j <= x
  BY LeastNumber
<1>3. j \in Nat /\ j <= n /\ ~(Ticks(l, j) <= j * m)
  OBVIOUS
<1>4. j /= 0
  <2>1. SUFFICES ASSUME j = 0 PROVE FALSE
    OBVIOUS
  <2>2. 1..j = {}
    BY <2>1
  <2>3. Ticks(l, j) = 0
    BY <2>2, SumEmpty DEF Ticks
  <2>4. j * m = 0
    BY <2>1
  <2>. QED  BY <1>3, <2>3, <2>4
<1>5. PICK i0 \in Nat : j = i0 + 1
  <2>1. j - 1 \in Nat /\ j = (j - 1) + 1
    BY <1>3, <1>4
  <2>. QED  BY <2>1
<1>6. Ticks(l, i0) <= i0 * m
  <2>1. i0 \notin T /\ i0 <= n
    BY <1>2, <1>3, <1>5
  <2>. QED  BY <2>1
<1>7. /\ Ticks(l, j) = TravelTime(l[j].region_number) + Ticks(l, i0)
      /\ TravelTime(l[j].region_number) \in Nat /\ TravelTime(l[j].region_number) <= m /\ Ticks(l, i0) \in Nat
  BY <1>1, <1>3, <1>5, TicksNext
<1>8. PICK x \in Nat, y \in Nat, p \in Nat : x = Ticks(l, i0) /\ y = TravelTime(l[j].region_number) /\ p = i0 * m
  <2>1. i0 * m \in Nat
    OBVIOUS
  <2>. QED  BY <1>7, <2>1
<1>9. j * m = p + m
  <2>1. (i0 + 1) * m = i0 * m + m
    OBVIOUS
  <2>. QED  BY <1>5, <1>8, <2>1
<1>10. y + x <= p + m
  <2>1. x <= p
    BY <1>6, <1>8
  <2>2. y <= m
    BY <1>7, <1>8
  <2>3. x \in Nat /\ y \in Nat /\ p \in Nat /\ m \in Nat
    OBVIOUS
  <2>. QED  BY <2>1, <2>2, <2>3
<1>. QED  BY <1>3, <1>7, <1>8, <1>9, <1>10

LEMMA LenFits ==
  ASSUME NEW l \in Seq(Node), Different(l)
  PROVE  Len(l) <= NUM_REGION
<1>. DEFINE f == [i \in 1..Len(l) |-> l[i].region_number]
<1>1. Len(l) \in Nat /\ DOMAIN l = 1..Len(l)
  OBVIOUS
<1>2. \A i \in 1..Len(l) : l[i] \in Node /\ l[i].region_number \in Regions
  <2>1. ASSUME NEW i \in 1..Len(l) PROVE l[i] \in Node
    BY <1>1
  <2>. QED  BY <2>1 DEF Node
<1>3. f \in Injection(1..Len(l), Regions)
  BY <1>1, <1>2 DEF Injection, IsInjective, Different
<1>4. IsFiniteSet(Regions) /\ Cardinality(Regions) = NUM_REGION
  <2>1. PICK n \in Nat : n = NUM_REGION - 1
    BY Sizes
  <2>2. IsFiniteSet(0..n) /\ Cardinality(0..n) = n + 1
    <3>1. PICK z \in Int : z = 0
      OBVIOUS
    <3>2. IsFiniteSet(z..n) /\ Cardinality(z..n) = IF z > n THEN 0 ELSE n - z + 1
      BY FS_Interval
    <3>. QED  BY <3>1, <3>2
  <2>. QED  BY <2>1, <2>2, Sizes DEF Regions
<1>5. Cardinality(1..Len(l)) = Len(l)
  <2>0. PICK n \in Nat : n = Len(l)
    BY <1>1
  <2>1. PICK o \in Int : o = 1
    OBVIOUS
  <2>2. Cardinality(o..n) = IF o > n THEN 0 ELSE n - o + 1
    BY FS_Interval
  <2>. QED  BY <2>0, <2>1, <2>2
<1>. HIDE DEF f
<1>6. Cardinality(1..Len(l)) <= Cardinality(Regions)
  BY <1>3, <1>4, FS_Injection
<1>. QED  BY <1>4, <1>5, <1>6

LEMMA TimeFits ==
  ASSUME SleepFits, NEW l \in Seq(Node), Different(l), NEW r \in Regions,
         \A i \in DOMAIN l : i /= 1 => l[i].execution_time = 0
  PROVE  getNodeWaitingTime(l, r) <= SECOND * UINT_MAX
<1>1. /\ Slot(l, r) \in 0..Len(l) /\ getNodeWaitingTime(l, r) \in Int
      /\ Ticks(l, Slot(l, r)) \in Nat /\ Begun(l) \in Nat
      /\ getNodeWaitingTime(l, r) <= TravelTime(r) + Ticks(l, Slot(l, r)) - Begun(l)
  BY WaitingTime
<1>2. PICK n \in Nat, m \in Nat, u \in Nat, v \in Nat : n = Len(l) /\ m = NUM_REGION - 1 /\ u = UINT_MAX /\ v = SECOND
  <2>1. Len(l) \in Nat
    OBVIOUS
  <2>. QED  BY <2>1, Sizes
<1>3. PICK i \in Nat : i = Slot(l, r) /\ i <= n
  BY <1>1, <1>2
<1>4. PICK y \in Nat : y = TravelTime(r) /\ y <= v * m
  BY <1>2, TravelTypes
<1>5. PICK z \in Int, s \in Nat, b \in Nat : z = getNodeWaitingTime(l, r) /\ s = Ticks(l, i) /\ b = Begun(l)
  BY <1>1, <1>3
<1>6. i <= m + 1
  <2>1. n <= m + 1
    BY <1>2, LenFits, Sizes
  <2>. QED  BY <1>3, <2>1
<1>7. s <= i * (v * m)
  BY <1>2, <1>3, <1>5, TicksBound
<1>8. (m + 1) * (m + 1) <= u + 1
  BY <1>2, Sizes DEF SleepFits
<1>9. \A d, e, f \in Nat : d <= e => d * f <= e * f
  OBVIOUS
<1>10. PICK p \in Nat, q \in Nat, w \in Nat : p = i * (v * m) /\ w = v * m /\ q = (m + 1) * w
  <2>1. \A d, e \in Nat : d * e \in Nat
    OBVIOUS
  <2>2. v * m \in Nat
    BY <2>1
  <2>. QED  BY <2>1, <2>2
<1>11. p <= q
  BY <1>6, <1>9, <1>10
<1>12. w + q <= v * u
  <2>1. m + (m + 1) * m <= u
    BY <1>8
  <2>2. PICK g \in Nat : g = m + (m + 1) * m
    <3>1. (m + 1) * m \in Nat
      OBVIOUS
    <3>. QED  BY <3>1
  <2>3. g * v <= u * v
    BY <1>9, <2>1, <2>2
  <2>4. g * v = v * m + (m + 1) * (v * m)
    BY <2>2
  <2>5. u * v = v * u
    OBVIOUS
  <2>. QED  BY <1>10, <2>3, <2>4, <2>5
<1>13. z <= y + s - b
  BY <1>1, <1>3, <1>4, <1>5
<1>14. PICK x \in Nat : x = v * u
  <2>1. v * u \in Nat
    OBVIOUS
  <2>. QED  BY <2>1
<1>15. z <= x
  <2>1. y <= w /\ s <= p /\ p <= q /\ w + q <= x
    BY <1>4, <1>7, <1>10, <1>11, <1>12, <1>14
  <2>. QED  BY <1>13, <2>1
<1>. QED  BY <1>2, <1>5, <1>14, <1>15

\* The ticks of the fraction that (int) drops.
LEMMA Fraction == SECOND - 1 \in Nat
BY Sizes

LEMMA PromiseTypes ==
  ASSUME ClientTypes, NEW c \in Clients
  PROVE  Promise(c) \in Int /\ Promise(c) >= SECOND - 1
<1>1. PICK x \in Int, y \in Int, e \in Nat : x = client[c].largest /\ y = client[c].sleep /\ y >= 0 /\ e = SECOND - 1
  <2>1. PICK m \in Locals : m = client[c]
    BY DEF ClientTypes
  <2>2. m.largest \in Int /\ m.sleep \in 0..(SECOND * UINT_MAX)
    BY DEF Locals
  <2>3. m.sleep \in Int /\ m.sleep >= 0
    BY <2>2, Sizes
  <2>. QED  BY <2>1, <2>2, <2>3, Fraction
<1>2. Promise(c) = IF pc[c] = "sleeping" THEN y + e
                   ELSE IF pc[c] \in {"dispatch", "bus1", "both"} /\ x > e THEN x ELSE e
  BY <1>1 DEF Promise
<1>. QED  BY <1>1, <1>2

\* What is slept is less than a second shorter than what was estimated.
LEMMA Remembered ==
  ASSUME NEW n \in Int, n >= -SECOND, n <= SECOND * UINT_MAX
  PROVE  /\ SECOND * AsUnsigned(Truncated(n)) \in Nat
         /\ n <= SECOND * AsUnsigned(Truncated(n)) + (SECOND - 1)
<1>1. PICK s \in Nat, u \in Nat : s = SECOND /\ u = UINT_MAX /\ s > 0
  BY Sizes
<1>2. PICK a \in Nat : a = AsUnsigned(Truncated(n))
  BY SleepTypes, Sizes
<1>3. PICK z \in Nat : z = s * a
  <2>1. s * a \in Nat
    OBVIOUS
  <2>. QED  BY <2>1
<1>4. CASE n < 0
  <2>1. n <= z + (s - 1)
    BY <1>1, <1>4
  <2>. QED  BY <1>1, <1>2, <1>3, <2>1
<1>5. CASE n >= 0
  <2>1. PICK q \in Int, f \in Int : q = n \div s /\ n = s * q + f /\ 0 <= f /\ f <= s - 1
    <3>1. n \div s \in Int /\ n % s \in 0..(s - 1) /\ n = s * (n \div s) + (n % s)
      BY <1>1
    <3>. QED  BY <3>1, <1>1
  <2>2. q >= 0
    <3>1. \A i, j \in Int : i > 0 /\ j < 0 => i * j <= -i
      OBVIOUS
    <3>2. SUFFICES ASSUME q < 0 PROVE FALSE
      OBVIOUS
    <3>3. s * q <= -s
      BY <1>1, <3>1, <3>2
    <3>. QED  BY <1>5, <2>1, <3>3
  <2>3. q <= u
    <3>1. \A i, j, k \in Int : i > 0 /\ j >= k + 1 => i * j >= i * k + i
      OBVIOUS
    <3>2. SUFFICES ASSUME q >= u + 1 PROVE FALSE
      OBVIOUS
    <3>3. s * q >= s * u + s
      BY <1>1, <3>1, <3>2
    <3>4. n <= s * u
      BY <1>1
    <3>. QED  BY <1>1, <2>1, <3>3, <3>4
  <2>4. Truncated(n) = q
    BY <1>1, <1>5, <2>1 DEF Truncated
  <2>5. a = q
    <3>1. \A i \in Nat, k \in Nat : i < k => i % k = i
      OBVIOUS
    <3>2. q \in Nat /\ u + 1 \in Nat /\ q < u + 1
      BY <2>2, <2>3
    <3>3. q % (u + 1) = q
      BY <3>1, <3>2
    <3>. QED  BY <1>1, <1>2, <2>4, <3>3 DEF AsUnsigned
  <2>6. n <= z + (s - 1)
    BY <1>3, <2>1, <2>5
  <2>. QED  BY <1>1, <1>2, <1>3, <2>6
<1>. QED  BY <1>4, <1>5

\* A client's process takes nothing of its promise back, but by ending.
LEMMA PromiseStays ==
  ASSUME TypeInv, TypeInv', Fitting, NEW c \in Clients, ClientStep(c), ~ClientSchedule(c),
         pc'[c] \notin {"failed", "gone"}
  PROVE  /\ pc[c] \notin {"none", "failed", "gone"} /\ pc'[c] /= "none"
         /\ Promise(c) <= Promise(c)' /\ UNCHANGED <<bus, ambulance>>
<1>1. ClientTypes /\ client \in [Clients -> Locals] /\ pc \in [Clients -> Places]
  BY DEF TypeInv, ClientTypes
<1>2. Promise(c) \in Int /\ Promise(c)' \in Int /\ Promise(c)' >= SECOND - 1
  <2>1. Promise(c) \in Int
    BY <1>1, PromiseTypes
  <2>2. PICK x \in Int, y \in Int, e \in Nat : x = client'[c].largest /\ y = client'[c].sleep /\ y >= 0 /\ e = SECOND - 1
    <3>1. PICK m \in Locals : m = client'[c]
      BY DEF TypeInv, ClientTypes
    <3>2. m.largest \in Int /\ m.sleep \in 0..(SECOND * UINT_MAX)
      BY DEF Locals
    <3>3. m.sleep \in Int /\ m.sleep >= 0
      BY <3>2, Sizes
    <3>. QED  BY <3>1, <3>2, <3>3, Fraction
  <2>3. Promise(c)' = IF pc'[c] = "sleeping" THEN y + e
                      ELSE IF pc'[c] \in {"dispatch", "bus1", "both"} /\ x > e THEN x ELSE e
    BY <2>2 DEF Promise
  <2>. QED  BY <2>1, <2>2, <2>3
<1>3. UNCHANGED <<bus, ambulance>>
  BY DEF ClientStep, ClientList, ClientConfirmed, ClientReporting, ClientExit, ClientMalformed,
      getConfirmedData, getConfirmedDataFails, ClientConfirmedReply, addConfirmedDataRead, addConfirmedData,
      addConfirmedDataFails, LockBus1, LockBus2, ClientScheduleFails, ClientSleep, ClientAnswer,
      ClientUnheard, shared
<1>4. ~ClientExit(c) /\ ~ClientMalformed(c) /\ ~ClientScheduleFails(c) /\ ~ClientUnheard(c)
  <2>1. \A m : pc' /= [pc EXCEPT ![c] = "gone"] /\ pc' /= [pc EXCEPT ![c] = "failed"]
    BY <1>1
  <2>. QED  BY <2>1 DEF ClientExit, ClientMalformed, ClientScheduleFails, ClientUnheard, Ends
<1>5. CASE \/ ClientList(c) \/ ClientConfirmed(c) \/ ClientReporting(c) \/ getConfirmedData(c)
           \/ getConfirmedDataFails(c) \/ ClientConfirmedReply(c) \/ addConfirmedDataRead(c)
           \/ addConfirmedData(c) \/ addConfirmedDataFails(c)
  <2>1. pc[c] \in {"connected", "command", "confirmed", "reporting", "adding"} /\ pc'[c] /= "none"
    BY <1>1, <1>5 DEF ClientList, ClientConfirmed, ClientReporting, getConfirmedData, getConfirmedDataFails,
       ClientConfirmedReply, addConfirmedDataRead, addConfirmedData, addConfirmedDataFails, Reply, Reads, HasNext,
       At, AfterEntry
  <2>2. Promise(c) = SECOND - 1
    BY <2>1 DEF Promise
  <2>. QED  BY <1>2, <1>3, <2>1, <2>2
<1>6. CASE LockBus1(c) \/ LockBus2(c)
  <2>1. pc[c] \in {"dispatch", "bus1"} /\ pc'[c] \in {"bus1", "both"} /\ client' = client
    BY <1>1, <1>6 DEF LockBus1, LockBus2, At
  <2>2. Promise(c)' = Promise(c)
    BY <2>1 DEF Promise
  <2>. QED  BY <1>2, <1>3, <2>1, <2>2
<1>7. CASE ClientSleep(c)
  <2>1. pc[c] = "dispatch" /\ pc'[c] = "sleeping"
        /\ client'[c].sleep = SECOND * AsUnsigned(Truncated(client[c].largest))
    BY <1>1, <1>7 DEF ClientSleep, At, Locals
  <2>2. PICK n \in Int : n = client[c].largest /\ n >= -SECOND /\ n <= SECOND * UINT_MAX
    <3>1. client[c].largest \in Int
      BY <1>1 DEF Locals
    <3>. QED  BY <3>1 DEF Fitting
  <2>3. PICK z \in Nat, e \in Nat : z = SECOND * AsUnsigned(Truncated(n)) /\ e = SECOND - 1 /\ n <= z + e
    BY <2>2, Remembered, Fraction
  <2>4. Promise(c)' = z + e
    BY <2>1, <2>2, <2>3 DEF Promise
  <2>5. Promise(c) = IF n > e THEN n ELSE e
    BY <2>1, <2>2, <2>3 DEF Promise
  <2>6. (IF n > e THEN n ELSE e) <= z + e
    BY <2>3
  <2>. QED  BY <1>3, <2>1, <2>4, <2>5, <2>6
<1>8. CASE ClientAnswer(c)
  <2>1. pc[c] = "sleeping" /\ client[c].sleep = 0 /\ pc'[c] = "command"
    BY <1>1, <1>8 DEF ClientAnswer, At, Reply
  <2>2. Promise(c) = SECOND - 1
    BY <2>1, Fraction DEF Promise
  <2>. QED  BY <1>2, <1>3, <2>1, <2>2
<1>. QED  BY <1>4, <1>5, <1>6, <1>7, <1>8 DEF ClientStep

LEMMA CoveredMore ==
  ASSUME NEW l \in Seq(Node), NEW age \in Nat, NEW c, NEW p \in Int, NEW q \in Int, Covered(l, age, c, p), p <= q
  PROVE  Covered(l, age, c, q)
<1>. SUFFICES ASSUME NEW i \in DOMAIN l, c \in l[i].reporters PROVE Ticks(l, i) - age <= q
  BY DEF Covered
<1>1. Ticks(l, i) \in Nat
  <2>1. i \in Nat /\ i <= Len(l)
    OBVIOUS
  <2>. QED  BY <2>1, TicksTypes
<1>2. PICK x \in Nat : x = Ticks(l, i)
  BY <1>1
<1>3. x - age <= p
  BY <1>2 DEF Covered
<1>. QED  BY <1>2, <1>3

\* What getAmbulanceWaitingTime does to the list l that it chooses.
Chosen(c, b, l, k, node, age, t, time) ==
  /\ Grown(l, node, k, t) /\ node.reporters = {c} /\ node.region_number \in Regions
  /\ Ticks(k, t) - age <= time /\ time = getNodeWaitingTime(l, node.region_number)
  /\ l = bus[b] /\ k = bus'[b] /\ age = ambulance[b].age
  /\ \A i \in DOMAIN l : i /= 1 => l[i].execution_time = 0
  /\ \A x \in Buses : x /= b => bus'[x] = bus[x]
  /\ ambulance' = ambulance /\ pc[c] = "both" /\ pc'[c] = "dispatch"
  /\ client'[c].largest = IF client[c].largest < time THEN time ELSE client[c].largest

LEMMA ScheduleCovers ==
  ASSUME ListTypes, ClientTypes, NEW c \in Clients, ClientSchedule(c)
  PROVE  \E b \in Buses, l \in Seq(Node), k \in Seq(Node), node \in Node, age \in Nat, t \in Nat, time \in Int :
           Chosen(c, b, l, k, node, age, t, time)
<1>1. PICK r \in Regions, b \in Buses, node \in Node, time \in Int : Scheduled(c, r, b, node, time)
  BY ScheduleIs
<1>2. PICK l \in Seq(Node), a \in [pc : {"poll", "gone"}, first_get_time : 0..1, age : Nat] :
        l = bus[b] /\ a = ambulance[b] /\ Driving(l, a)
  BY DEF ListTypes
<1>3. PICK k \in Seq(Node), t \in Nat : k = addNewCaseNumber(l, node) /\ Grown(l, node, k, t)
  BY Added
<1>4. PICK age \in Nat : age = a.age
  OBVIOUS
<1>5. node.reporters = {c} /\ node.region_number = r /\ time = getNodeWaitingTime(l, r)
  BY <1>1, <1>2 DEF Scheduled
<1>6. \A i \in DOMAIN l : i /= 1 => l[i].execution_time = 0
  BY <1>2 DEF Driving
<1>7. Begun(l) <= age
  BY <1>2, <1>4 DEF Begun, Driving
<1>8. Ticks(k, t) - age <= time
  BY <1>3, <1>5, <1>6, <1>7, TimeCovers
<1>10. /\ bus' = [bus EXCEPT ![b] = k] /\ ambulance' = ambulance /\ pc[c] = "both"
       /\ pc' = [pc EXCEPT ![c] = "dispatch"]
       /\ client' = [client EXCEPT ![c].at = r + 1,
                       ![c].largest = IF client[c].largest < time THEN time ELSE client[c].largest]
  BY <1>1, <1>2, <1>3 DEF Scheduled
<1>11. bus'[b] = k /\ (\A x \in Buses : x /= b => bus'[x] = bus[x]) /\ pc'[c] = "dispatch"
       /\ client'[c].largest = IF client[c].largest < time THEN time ELSE client[c].largest
  BY <1>10 DEF ListTypes, ClientTypes, Locals
<1>12. Chosen(c, b, l, k, node, age, t, time)
  BY <1>2, <1>3, <1>4, <1>5, <1>6, <1>8, <1>10, <1>11 DEF Chosen
<1>. QED  BY <1>12

LEMMA PromisedSchedule ==
  ASSUME TypeInv, TypeInv', Promised, NEW c \in Clients, ClientSchedule(c)
  PROVE  Promised'
<1>0. ClientTypes /\ ListTypes /\ pc \in [Clients -> Places] /\ bus \in [Buses -> Seq(Node)]
  BY DEF TypeInv, ClientTypes, ListTypes
<1>1. PICK b \in Buses, l \in Seq(Node), k \in Seq(Node), node \in Node, age \in Nat, t \in Nat, time \in Int :
        Chosen(c, b, l, k, node, age, t, time)
  BY <1>0, ScheduleCovers
<1>2. Alone(c)
  BY <1>0, StepsAlone DEF ClientStep
<1>3. /\ Grown(l, node, k, t) /\ node.reporters = {c} /\ Ticks(k, t) - age <= time
      /\ l = bus[b] /\ k = bus'[b] /\ age = ambulance[b].age
      /\ \A x \in Buses : x /= b => bus'[x] = bus[x]
      /\ ambulance' = ambulance /\ pc[c] = "both" /\ pc'[c] = "dispatch"
  BY <1>1 DEF Chosen
<1>4. PICK p \in Int, q \in Int : p = Promise(c) /\ q = Promise(c)' /\ p <= q /\ time <= q
  <2>1. PICK n \in Int : n = client[c].largest
    BY <1>0 DEF ClientTypes, Locals
  <2>2. PICK m \in Int : m = client'[c].largest
    BY DEF TypeInv, ClientTypes, Locals
  <2>3. m = IF n < time THEN time ELSE n
    BY <1>1, <2>1, <2>2 DEF Chosen
  <2>4. PICK e \in Nat : e = SECOND - 1
    BY Fraction
  <2>5. Promise(c) = (IF n > e THEN n ELSE e) /\ Promise(c)' = (IF m > e THEN m ELSE e)
    BY <1>3, <2>1, <2>2, <2>4 DEF Promise
  <2>6. PICK p \in Int, q \in Int : p = (IF n > e THEN n ELSE e) /\ q = (IF m > e THEN m ELSE e)
    OBVIOUS
  <2>7. p <= q /\ time <= q
    BY <2>3, <2>6
  <2>. QED  BY <2>5, <2>6, <2>7
<1>5. ASSUME NEW x \in Clients, NEW y \in Buses
      PROVE  /\ pc'[x] \notin {"failed", "gone"} => Covered(bus'[y], ambulance'[y].age, x, Promise(x)')
             /\ pc'[x] = "none" => ~OnList(bus'[y], x)
  <2>1. PICK u \in Int : u = Promise(x)
    BY <1>0, PromiseTypes
  <2>2. PICK ly \in Seq(Node), ay \in Nat : ly = bus[y] /\ ay = ambulance[y].age
    BY <1>0 DEF ListTypes
  <2>3. CASE x = c
    <3>1. Covered(ly, ay, c, p)
      BY <1>3, <1>4, <2>2 DEF Promised
    <3>2. CASE y = b
      <4>1. l = ly /\ age = ay
        BY <1>3, <2>2, <3>2
      <4>2. Covered(l, age, c, p) /\ Ticks(k, t) - age <= q
        <5>1. PICK s \in Nat : s = Ticks(k, t)
          <6>1. t <= Len(k)
            BY <1>3 DEF Grown
          <6>. QED  BY <6>1, TicksTypes
        <5>2. s - age <= time
          BY <1>3, <5>1
        <5>3. s - age <= q
          BY <1>4, <5>2
        <5>. QED  BY <3>1, <4>1, <5>1, <5>3
      <4>3. Covered(k, age, c, q)
        BY <1>3, <1>4, <4>2, GrownCovers
      <4>. QED  BY <1>3, <1>4, <2>3, <3>2, <4>3
    <3>3. CASE y /= b
      <4>1. Covered(ly, ay, c, q)
        BY <1>4, <3>1, CoveredMore
      <4>. QED  BY <1>3, <1>4, <2>2, <2>3, <3>3, <4>1
    <3>. QED  BY <3>2, <3>3
  <2>4. CASE x /= c
    <3>1. pc'[x] = pc[x] /\ Promise(x)' = Promise(x) /\ x \notin node.reporters
      <4>1. pc'[x] = pc[x] /\ client'[x] = client[x]
        BY <1>2, <2>4 DEF Alone
      <4>. QED  BY <1>3, <2>4, <4>1 DEF Promise
    <3>2. /\ pc[x] \notin {"failed", "gone"} => Covered(ly, ay, x, u)
          /\ pc[x] = "none" => ~OnList(ly, x)
      BY <2>1, <2>2 DEF Promised
    <3>3. CASE y = b
      <4>1. l = ly /\ age = ay
        BY <1>3, <2>2, <3>3
      <4>2. Covered(l, age, x, u) => Covered(k, age, x, u)
        <5>1. Grown(l, node, k, t) /\ x \notin node.reporters /\ u <= u
          BY <1>3, <3>1
        <5>. QED  BY <5>1, GrownCovers
      <4>3. OnList(k, x) => OnList(l, x)
        BY <1>3, <3>1, GrownKeeps
      <4>. QED  BY <1>3, <2>1, <3>1, <3>2, <3>3, <4>1, <4>2, <4>3
    <3>4. CASE y /= b
      BY <1>3, <2>1, <2>2, <3>1, <3>2, <3>4
    <3>. QED  BY <3>3, <3>4
  <2>. QED  BY <2>3, <2>4
<1>. QED  BY <1>5 DEF Promised

LEMMA PromisedAmbulance ==
  ASSUME TypeInv, Promised, NEW b \in Buses, AmbulanceStep(b)
  PROVE  Promised'
<1>0. ClientTypes /\ ListTypes
  BY DEF TypeInv
<1>1. PICK l \in Seq(Node), k \in Seq(Node), age \in Nat, aged \in Nat :
        /\ l = bus[b] /\ k = bus'[b] /\ age = ambulance[b].age /\ aged = ambulance'[b].age
        /\ Advance(l, age, k, aged)
  BY <1>0, AmbulanceAdvances
<1>2. (\A x \in Buses : x /= b => bus'[x] = bus[x] /\ ambulance'[x] = ambulance[x]) /\ UNCHANGED <<pc, client>>
  BY <1>0, AmbulanceAdvances
<1>3. ASSUME NEW x \in Clients, NEW y \in Buses
      PROVE  /\ pc'[x] \notin {"failed", "gone"} => Covered(bus'[y], ambulance'[y].age, x, Promise(x)')
             /\ pc'[x] = "none" => ~OnList(bus'[y], x)
  <2>1. PICK p \in Int : p = Promise(x)
    BY <1>0, PromiseTypes
  <2>2. Promise(x)' = p /\ pc'[x] = pc[x]
    BY <1>2, <2>1 DEF Promise
  <2>3. /\ pc[x] \notin {"failed", "gone"} => Covered(bus[y], ambulance[y].age, x, p)
        /\ pc[x] = "none" => ~OnList(bus[y], x)
    BY <2>1 DEF Promised
  <2>4. CASE y = b
    <3>1. (Covered(l, age, x, p) => Covered(k, aged, x, p)) /\ (OnList(k, x) => OnList(l, x))
      <4>1. Advance(l, age, k, aged)
        BY <1>1
      <4>. QED  BY <4>1, AdvanceCovers
    <3>. QED  BY <1>1, <2>2, <2>3, <2>4, <3>1
  <2>5. CASE y /= b
    BY <1>2, <2>2, <2>3, <2>5
  <2>. QED  BY <2>4, <2>5
<1>. QED  BY <1>3 DEF Promised

LEMMA PromisedTick ==
  ASSUME TypeInv, TypeInv', Promised, Tick
  PROVE  Promised'
<1>0. ClientTypes /\ ListTypes
  BY DEF TypeInv
<1>1. bus' = bus /\ pc' = pc
  BY DEF Tick, shared
<1>2. ASSUME NEW x \in Clients, NEW y \in Buses
      PROVE  /\ pc'[x] \notin {"failed", "gone"} => Covered(bus'[y], ambulance'[y].age, x, Promise(x)')
             /\ pc'[x] = "none" => ~OnList(bus'[y], x)
  <2>1. PICK l \in Seq(Node), a \in [pc : {"poll", "gone"}, first_get_time : 0..1, age : Nat] :
          l = bus[y] /\ a = ambulance[y] /\ Driving(l, a)
    BY <1>0 DEF ListTypes
  <2>2. PICK age \in Nat, aged \in Nat : age = a.age /\ aged = ambulance'[y].age
    <3>1. a.age \in Nat
      OBVIOUS
    <3>2. ambulance'[y].age \in Nat
      BY DEF TypeInv, ListTypes
    <3>. QED  BY <3>1, <3>2
  <2>3. l /= <<>> => aged = age + 1
    <3>1. SUFFICES ASSUME l /= <<>> PROVE aged = age + 1
      OBVIOUS
    <3>2. a.first_get_time = 0
      BY <2>1, <3>1 DEF Tick, Polled
    <3>. QED  BY <2>1, <2>2, <3>2 DEF Tick
  <2>4. PICK p \in Int, q \in Int : p = Promise(x) /\ q = Promise(x)' /\ p - 1 <= q
    <3>1. PICK p \in Int : p = Promise(x)
      BY <1>0, PromiseTypes
    <3>2. CASE pc[x] = "sleeping" /\ client[x].sleep > 0
      <4>1. client[x] \in Locals /\ client'[x] = [client[x] EXCEPT !.sleep = @ - 1]
        BY <1>0, <3>2 DEF Tick, ClientTypes
      <4>2. PICK left \in Int, e \in Nat : left = client[x].sleep /\ e = SECOND - 1
        <5>1. client[x].sleep \in Int
          BY <4>1, Sizes DEF Locals
        <5>. QED  BY <5>1, Fraction
      <4>3. client'[x].sleep = left - 1
        BY <4>1, <4>2 DEF Locals
      <4>4. p = left + e /\ Promise(x)' = (left - 1) + e
        BY <1>1, <3>1, <3>2, <4>2, <4>3 DEF Promise
      <4>5. Promise(x)' = p - 1 /\ p - 1 \in Int /\ p - 1 <= p - 1
        BY <4>4
      <4>. QED  BY <3>1, <4>5
    <3>3. CASE ~(pc[x] = "sleeping" /\ client[x].sleep > 0)
      <4>1. client'[x] = client[x]
        BY <3>3 DEF Tick
      <4>2. Promise(x)' = p
        BY <1>1, <3>1, <4>1 DEF Promise
      <4>3. p - 1 <= p
        OBVIOUS
      <4>. QED  BY <3>1, <4>2, <4>3
    <3>. QED  BY <3>2, <3>3
  <2>5. /\ pc[x] \notin {"failed", "gone"} => Covered(l, age, x, p)
        /\ pc[x] = "none" => ~OnList(l, x)
    BY <2>1, <2>2, <2>4 DEF Promised
  <2>6. Covered(l, age, x, p) => Covered(l, aged, x, q)
    BY <2>3, <2>4, TickCovers
  <2>. QED  BY <1>1, <2>1, <2>2, <2>4, <2>5, <2>6
<1>. QED  BY <1>2 DEF Promised

LEMMA PromisedNext ==
  ASSUME TypeInv, TypeInv', Promised, Fitting, [Next]_vars
  PROVE  Promised'
<1>0. /\ ClientTypes /\ ListTypes /\ pc \in [Clients -> Places] /\ client \in [Clients -> Locals]
      /\ bus \in [Buses -> Seq(Node)]
  BY DEF TypeInv, ClientTypes, ListTypes
<1>1. CASE \E c \in Clients : ClientStep(c) /\ ~ClientSchedule(c)
  <2>1. PICK c \in Clients : ClientStep(c) /\ ~ClientSchedule(c)
    BY <1>1
  <2>2. Alone(c)
    BY <1>0, <2>1, StepsAlone
  <2>3. UNCHANGED <<bus, ambulance>>
    BY <2>1 DEF ClientStep, ClientList, ClientConfirmed, ClientReporting, ClientExit, ClientMalformed,
      getConfirmedData, getConfirmedDataFails, ClientConfirmedReply, addConfirmedDataRead, addConfirmedData,
      addConfirmedDataFails, LockBus1, LockBus2, ClientScheduleFails, ClientSleep, ClientAnswer,
      ClientUnheard, shared
  <2>4. ASSUME NEW x \in Clients, NEW y \in Buses
        PROVE  /\ pc'[x] \notin {"failed", "gone"} => Covered(bus'[y], ambulance'[y].age, x, Promise(x)')
               /\ pc'[x] = "none" => ~OnList(bus'[y], x)
    <3>1. PICK l \in Seq(Node), age \in Nat : l = bus[y] /\ age = ambulance[y].age
      BY <1>0 DEF ListTypes
    <3>2. PICK p \in Int : p = Promise(x)
      BY <1>0, PromiseTypes
    <3>3. /\ pc[x] \notin {"failed", "gone"} => Covered(l, age, x, p)
          /\ pc[x] = "none" => ~OnList(l, x)
      BY <3>1, <3>2 DEF Promised
    <3>4. CASE x = c
      <4>1. SUFFICES ASSUME pc'[c] \notin {"failed", "gone"}
                     PROVE  Covered(l, age, c, Promise(c)') /\ pc'[c] /= "none"
        BY <2>3, <3>1, <3>4
      <4>2. pc[c] \notin {"failed", "gone"} /\ pc'[c] /= "none" /\ Promise(c) <= Promise(c)'
        BY <2>1, <4>1, PromiseStays
      <4>3. PICK q \in Int : q = Promise(c)'
        <5>1. PICK m \in Locals : m = client'[c]
          BY DEF TypeInv, ClientTypes
        <5>2. m.largest \in Int /\ m.sleep \in Int
          BY Sizes DEF Locals
        <5>3. SECOND - 1 \in Int /\ m.sleep + (SECOND - 1) \in Int
          BY <5>2, Fraction
        <5>. QED  BY <5>1, <5>2, <5>3 DEF Promise
      <4>4. Covered(l, age, c, q)
        BY <3>2, <3>3, <3>4, <4>2, <4>3, CoveredMore
      <4>. QED  BY <4>2, <4>3, <4>4
    <3>5. CASE x /= c
      <4>1. pc'[x] = pc[x] /\ client'[x] = client[x]
        BY <2>2, <3>5 DEF Alone
      <4>2. Promise(x)' = p
        BY <3>2, <4>1 DEF Promise
      <4>. QED  BY <2>3, <3>1, <3>3, <4>1, <4>2
    <3>. QED  BY <3>4, <3>5
  <2>. QED  BY <2>4 DEF Promised
<1>2. CASE \E c \in Clients : ClientSchedule(c)
  BY <1>2, PromisedSchedule
<1>3. CASE \E b \in Buses : AmbulanceStep(b)
  BY <1>3, PromisedAmbulance
<1>4. CASE Tick
  BY <1>4, PromisedTick
<1>5. CASE \E c \in Clients : Accept(c)
  <2>1. PICK c \in Clients : Accept(c)
    BY <1>5
  <2>2. UNCHANGED <<bus, ambulance>> /\ pc[c] = "none" /\ pc'[c] = "connected"
        /\ \A x \in Clients : x /= c => pc'[x] = pc[x] /\ client'[x] = client[x]
    BY <1>0, <2>1 DEF Accept, shared
  <2>3. ASSUME NEW x \in Clients, NEW y \in Buses
        PROVE  /\ pc'[x] \notin {"failed", "gone"} => Covered(bus'[y], ambulance'[y].age, x, Promise(x)')
               /\ pc'[x] = "none" => ~OnList(bus'[y], x)
    <3>1. CASE x = c
      <4>1. ~OnList(bus[y], c)
        BY <2>2 DEF Promised
      <4>2. Covered(bus[y], ambulance[y].age, c, Promise(c)')
        BY <4>1 DEF Covered, OnList
      <4>. QED  BY <2>2, <3>1, <4>2
    <3>2. CASE x /= c
      <4>1. Promise(x)' = Promise(x)
        BY <2>2, <3>2 DEF Promise
      <4>. QED  BY <2>2, <3>2, <4>1 DEF Promised
    <3>. QED  BY <3>1, <3>2
  <2>. QED  BY <2>3 DEF Promised
<1>6. CASE \/ CtrlC \/ AcceptFails \/ ServerEnds \/ (\E p \in Handlers : Handler(p)) \/ UNCHANGED vars
  <2>1. UNCHANGED <<bus, ambulance, pc, client>>
    BY <1>6 DEF CtrlC, AcceptFails, ServerEnds, Handler, RemoveShm, RemoveSemaphores, shared, vars
  <2>. QED  BY <2>1 DEF Promised, Promise
<1>. QED  BY <1>1, <1>2, <1>3, <1>4, <1>5, <1>6 DEF Next, ServerStep

LEMMA FittingNext ==
  ASSUME SleepFits, TypeInv, TypeInv', Fitting, [Next]_vars
  PROVE  Fitting'
<1>0. /\ ClientTypes /\ ListTypes /\ pc \in [Clients -> Places] /\ client \in [Clients -> Locals]
      /\ bus \in [Buses -> Seq(Node)]
  BY DEF TypeInv, ClientTypes, ListTypes
<1>1. -SECOND >= -SECOND /\ -SECOND <= SECOND * UINT_MAX
  <2>1. SECOND * UINT_MAX \in Nat /\ SECOND \in Nat
    <3>1. \A x, y \in Nat : x * y \in Nat
      OBVIOUS
    <3>. QED  BY <3>1, Sizes
  <2>. QED  BY <2>1
<1>2. CASE \E c \in Clients : ClientStep(c) /\ ~ClientSchedule(c)
  <2>1. PICK c \in Clients : ClientStep(c) /\ ~ClientSchedule(c)
    BY <1>2
  <2>2. bus' = bus
    BY <2>1 DEF ClientStep, ClientList, ClientConfirmed, ClientReporting, ClientExit, ClientMalformed,
      getConfirmedData, getConfirmedDataFails, ClientConfirmedReply, addConfirmedDataRead, addConfirmedData,
      addConfirmedDataFails, LockBus1, LockBus2, ClientScheduleFails, ClientSleep, ClientAnswer,
      ClientUnheard, shared
  <2>3. Alone(c)
    BY <1>0, <2>1, StepsAlone
  <2>4. client'[c].largest = client[c].largest \/ client'[c].largest = -SECOND
    <3>1. CASE \/ ClientList(c) \/ ClientExit(c) \/ ClientMalformed(c) \/ ClientConfirmedReply(c)
               \/ ClientScheduleFails(c) \/ ClientAnswer(c) \/ ClientUnheard(c)
      BY <1>0, <3>1 DEF ClientList, ClientExit, ClientMalformed, ClientConfirmedReply, ClientScheduleFails,
         ClientAnswer, ClientUnheard, Reply, Ends, NoClient
    <3>2. CASE ClientConfirmed(c)
      BY <1>0, <3>2 DEF ClientConfirmed, Locals
    <3>3. CASE ClientReporting(c)
      BY <1>0, <3>3 DEF ClientReporting, Locals
    <3>4. CASE getConfirmedData(c)
      BY <1>0, <3>4 DEF getConfirmedData, Locals
    <3>5. CASE getConfirmedDataFails(c)
      BY <1>0, <3>5 DEF getConfirmedDataFails, Locals
    <3>6. CASE addConfirmedDataRead(c)
      BY <1>0, <3>6 DEF addConfirmedDataRead, Locals
    <3>7. CASE addConfirmedData(c)
      BY <1>0, <3>7 DEF addConfirmedData, Locals
    <3>8. CASE addConfirmedDataFails(c)
      BY <1>0, <3>8 DEF addConfirmedDataFails, Locals
    <3>9. CASE LockBus1(c) \/ LockBus2(c)
      BY <3>9 DEF LockBus1, LockBus2
    <3>10. CASE ClientSleep(c)
      BY <1>0, <3>10 DEF ClientSleep, Locals
    <3>. QED  BY <2>1, <3>1, <3>2, <3>3, <3>4, <3>5, <3>6, <3>7, <3>8, <3>9, <3>10 DEF ClientStep
  <2>5. ASSUME NEW x \in Clients PROVE client'[x].largest >= -SECOND /\ client'[x].largest <= SECOND * UINT_MAX
    <3>1. CASE x = c
      BY <1>1, <2>4, <3>1 DEF Fitting
    <3>2. CASE x /= c
      BY <2>3, <3>2 DEF Alone, Fitting
    <3>. QED  BY <3>1, <3>2
  <2>. QED  BY <2>2, <2>5 DEF Fitting
<1>3. CASE \E c \in Clients : ClientSchedule(c)
  <2>1. PICK c \in Clients : ClientSchedule(c)
    BY <1>3
  <2>2. PICK b \in Buses, l \in Seq(Node), k \in Seq(Node), node \in Node, age \in Nat, t \in Nat, time \in Int :
          Chosen(c, b, l, k, node, age, t, time)
    BY <1>0, <2>1, ScheduleCovers
  <2>3. Alone(c)
    BY <1>0, <2>1, StepsAlone DEF ClientStep
  <2>4. /\ Grown(l, node, k, t) /\ l = bus[b] /\ k = bus'[b]
        /\ \A i \in DOMAIN l : i /= 1 => l[i].execution_time = 0
        /\ \A x \in Buses : x /= b => bus'[x] = bus[x]
        /\ node.region_number \in Regions /\ time = getNodeWaitingTime(l, node.region_number)
    BY <2>2 DEF Chosen
  <2>5. Different(l)
    BY <2>4 DEF Fitting
  <2>6. Different(k)
    BY <2>4, <2>5, GrownKeeps
  <2>7. time <= SECOND * UINT_MAX
    <3>1. PICK r \in Regions : r = node.region_number
      BY <2>4
    <3>. QED  BY <2>4, <2>5, <3>1, TimeFits
  <2>8. client'[c].largest >= -SECOND /\ client'[c].largest <= SECOND * UINT_MAX
    <3>1. PICK n \in Int : n = client[c].largest /\ n >= -SECOND /\ n <= SECOND * UINT_MAX
      <4>1. client[c].largest \in Int
        BY <1>0 DEF Locals
      <4>. QED  BY <4>1 DEF Fitting
    <3>2. client'[c].largest = IF n < time THEN time ELSE n
      BY <2>2, <3>1 DEF Chosen
    <3>3. PICK x \in Int, y \in Int : x = -SECOND /\ y = SECOND * UINT_MAX
      BY <1>1, Sizes
    <3>4. time <= y /\ x <= n /\ n <= y
      BY <2>7, <3>1, <3>3
    <3>5. (IF n < time THEN time ELSE n) >= x /\ (IF n < time THEN time ELSE n) <= y
      BY <3>4
    <3>. QED  BY <3>2, <3>3, <3>5
  <2>9. \A x \in Clients : x /= c => client'[x] = client[x]
    BY <2>3 DEF Alone
  <2>. QED  BY <2>4, <2>6, <2>8, <2>9 DEF Fitting
<1>4. CASE \E b \in Buses : AmbulanceStep(b)
  <2>1. PICK b \in Buses : AmbulanceStep(b)
    BY <1>4
  <2>2. PICK l \in Seq(Node), k \in Seq(Node), age \in Nat, aged \in Nat :
          /\ l = bus[b] /\ k = bus'[b] /\ age = ambulance[b].age /\ aged = ambulance'[b].age
          /\ Advance(l, age, k, aged)
    BY <1>0, <2>1, AmbulanceAdvances
  <2>3. (\A x \in Buses : x /= b => bus'[x] = bus[x]) /\ client' = client
    BY <1>0, <2>1, AmbulanceAdvances
  <2>4. Different(l) => Different(k)
    <3>1. PICK z \in Int : z = 0
      OBVIOUS
    <3>. QED  BY <2>2, <3>1, AdvanceCovers
  <2>. QED  BY <2>2, <2>3, <2>4 DEF Fitting
<1>5. CASE \E c \in Clients : Accept(c)
  <2>1. PICK c \in Clients : Accept(c)
    BY <1>5
  <2>2. bus' = bus
    BY <2>1 DEF Accept, shared
  <2>3. \A x \in Clients : client'[x].largest = client[x].largest
    BY <1>0, <2>1 DEF Accept, Locals
  <2>. QED  BY <2>2, <2>3 DEF Fitting
<1>6. CASE Tick
  <2>1. bus' = bus
    BY <1>6 DEF Tick, shared
  <2>2. \A x \in Clients : client'[x].largest = client[x].largest
    BY <1>0, <1>6 DEF Tick, Locals
  <2>. QED  BY <2>1, <2>2 DEF Fitting
<1>7. CASE \/ CtrlC \/ AcceptFails \/ ServerEnds \/ (\E p \in Handlers : Handler(p)) \/ UNCHANGED vars
  <2>1. UNCHANGED <<bus, client>>
    BY <1>7 DEF CtrlC, AcceptFails, ServerEnds, Handler, RemoveShm, RemoveSemaphores, shared, vars
  <2>. QED  BY <2>1 DEF Fitting
<1>. QED  BY <1>2, <1>3, <1>4, <1>5, <1>6, <1>7 DEF Next, ServerStep

LEMMA PromisedInit == ASSUME Init PROVE Promised /\ Fitting
<1>1. \A b \in Buses : bus[b] = <<>>
  BY DEF Init
<1>2. Promised
  BY <1>1 DEF Init, Promised, Covered, OnList
<1>3. \A c \in Clients : client[c].largest = -SECOND
  BY DEF Init, NoClient
<1>4. -SECOND >= -SECOND /\ -SECOND <= SECOND * UINT_MAX
  <2>1. SECOND * UINT_MAX \in Nat /\ SECOND \in Nat
    <3>1. \A x, y \in Nat : x * y \in Nat
      OBVIOUS
    <3>. QED  BY <3>1, Sizes
  <2>. QED  BY <2>1
<1>5. Fitting
  BY <1>1, <1>3, <1>4 DEF Fitting, Different
<1>. QED  BY <1>2, <1>5

LEMMA PromisedSuffices == ASSUME TypeInv, Promised PROVE SleepCoversRescue
<1>. SUFFICES ASSUME NEW c \in Clients, NEW b \in Buses, pc[c] = "sleeping",
                     NEW i \in DOMAIN bus[b], c \in bus[b][i].reporters
              PROVE  Remaining(b, i) < client[c].sleep + SECOND
  BY DEF SleepCoversRescue
<1>1. PICK l \in Seq(Node) : l = bus[b]
  BY DEF TypeInv, ListTypes
<1>2. PICK n \in Nat : n = i /\ n <= Len(l)
  <2>1. DOMAIN l = 1..Len(l)
    OBVIOUS
  <2>. QED  BY <1>1, <2>1
<1>3. Ticks(l, n) - ambulance[b].age < client[c].sleep + SECOND
  <2>1. Ticks(l, n) - ambulance[b].age <= client[c].sleep + (SECOND - 1)
    BY <1>1, <1>2 DEF Promised, Covered, Promise
  <2>2. PICK x \in Int, y \in Int, z \in Int, e \in Int :
          x = Ticks(l, n) /\ y = ambulance[b].age /\ z = client[c].sleep /\ e = SECOND
    <3>1. Ticks(l, n) \in Int
      BY <1>2, TicksTypes
    <3>2. ambulance[b].age \in Int
      BY DEF TypeInv, ListTypes
    <3>3. client[c].sleep \in Int
      BY Sizes DEF TypeInv, ClientTypes, Locals
    <3>. QED  BY <3>1, <3>2, <3>3, Sizes
  <2>3. x - y <= z + (e - 1)
    BY <2>1, <2>2
  <2>4. x - y < z + e
    BY <2>3
  <2>. QED  BY <2>2, <2>4, Zenon
<1>. DEFINE f == [j \in DOMAIN l |-> TravelTime(l[j].region_number)]
            g == [j \in 1..n |-> TravelTime(l[j].region_number)]
<1>4. IsFiniteSet(1..n) /\ 1..n \subseteq DOMAIN l
  BY <1>2, TicksTypes
<1>5. \A j \in 1..n : f[j] = g[j]
  BY <1>4
<1>6. SumFunction(g) = SumFunctionOnSet(g, 1..n)
  BY DEF SumFunction
<1>. HIDE DEF f, g
<1>7. SumFunctionOnSet(f, 1..n) = SumFunctionOnSet(g, 1..n)
  BY <1>4, <1>5, SumSame
<1>8. Remaining(b, i) = SumFunction(g) - ambulance[b].age
  BY <1>1, <1>2 DEF Remaining, g
<1>. QED  BY <1>3, <1>6, <1>7, <1>8 DEF Ticks, f

\* For any clients, regions and reports, and any ticks in a second: nobody is
\* answered a whole second before the cases it reported have been brought away
\* (getNodeWaitingTime, getAmbulanceWaitingTime, ambulanceProcess, and the (int)
\* of process_lib.c 177), when sleep can be told the longest estimate there may be.
THEOREM SleepCoversRescueHolds ==
  ASSUME SleepFits
  PROVE  Spec => []SleepCoversRescue
<1>. DEFINE Inv == SemInv /\ TypeInv /\ Fitting /\ Promised
<1>1. Init => Inv
  BY SemInit, TypesInit, PromisedInit
<1>2. Inv /\ [Next]_vars => Inv'
  <2>. SUFFICES ASSUME Inv, [Next]_vars PROVE Inv'
    OBVIOUS
  <2>1. SemInv' /\ TypeInv'
    BY SemNext, TypesNext
  <2>2. Fitting'
    BY <2>1, FittingNext
  <2>3. Promised'
    BY <2>1, PromisedNext
  <2>. QED  BY <2>1, <2>2, <2>3
<1>3. Inv => SleepCoversRescue
  BY PromisedSuffices
<1>. QED  BY <1>1, <1>2, <1>3, PTL DEF Spec
=============================================================================
