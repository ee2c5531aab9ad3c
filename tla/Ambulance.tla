------------------------------ MODULE Ambulance ------------------------------
(***************************************************************************)
(* The disease-control server of HW3.  The server forks a process for each  *)
(* of two ambulance buses and one for every client that connects.  A client *)
(* reports cases by region; its process counts them in shared tables, gives *)
(* each region to the bus with the shorter estimated wait, sleeps as long   *)
(* as the longest estimate and answers.  Each table and each bus's list is  *)
(* guarded by a System V semaphore.  An ambulance needs as many seconds for *)
(* a region as the region's number says.                                    *)
(*                                                                         *)
(* Time is in ticks, SECOND of them a second: the ambulances measure parts  *)
(* of a second, and sleep does not know them.  Fields and variables marked  *)
(* "history" are not in the code: they record what the properties are about.*)
(***************************************************************************)
EXTENDS Integers, Sequences, FiniteSets, FiniteSetsExt

CONSTANTS Clients,        \* the connections
          NUM_REGION,
          Reports,        \* what "Reporting system" is sent with, by each client
          Queries,        \* the regions "Confirmed case" asks for, by each client
          Malformed,      \* an option that does not parse, or a region out of bounds
          FirstCommands,  \* the commands a connection may begin with
          Residue,        \* what the stack may hold under case_number_array
          MaxReports,     \* bound: the reports of one client
          MaxInterrupted, \* bound: the clients that have connected when Ctrl-C is pressed
          UINT_MAX,
          SECOND          \* the ticks of a second

Regions == 0..(NUM_REGION - 1)
Degrees == {"severe", "mild"}
Buses == {1, 2}
Server == 0
Processes == Clients \cup Buses \cup {Server}

\* Those whose handler of Ctrl-C is modelled.  The ambulances' does nothing that
\* the server's does not do, and nothing waits for it.
Handlers == Clients \cup {Server}

\* atoi reads the number: it may be negative.
Entry == [region : Regions, degree : Degrees, number : Int]

ASSUME ServerAssumption ==
  /\ NUM_REGION \in Nat \ {0} /\ UINT_MAX \in Nat /\ SECOND \in Nat \ {0} /\ MaxReports \in Nat /\ MaxInterrupted \in Nat
  /\ IsFiniteSet(Clients) /\ Clients \cap (Buses \cup {Server}) = {}
  /\ Malformed \notin Entry \cup Regions \cup (Degrees \X Regions)
  /\ Reports \in [Clients -> SUBSET (Seq(Entry \cup {Malformed}) \ {<<>>})]
  /\ Queries \in [Clients -> SUBSET (Seq(Regions \cup {Malformed}) \ {<<>>})]
  /\ Residue \subseteq Int
  /\ FirstCommands \subseteq {"list", "Confirmed", "Reporting"}

VARIABLES
  cases,          \* shmSevereCase and shmMildCase: [Degrees -> [Regions -> Int]]
  bus,            \* shmBus1Result and shmBus2Result: a list of nodes each
  semaCDCSystem, semaBusResult,
  removed,        \* the IPC objects removed, of {"shm", "semaphores"}
  ambulance,      \* [Buses -> [pc, first_get_time, age]]; age: ticks since start
  pc,             \* where each client's process is
  client,         \* the locals of each client's process
  last,           \* client_pid of main, Server while there is none
  server,         \* where main is
  signal,         \* SIGINT, for the server and every client's process
  delivered,      \* history: the cases the ambulances have brought away
  taken           \* history: how many cases negative reports have taken back

history == <<delivered, taken>>
shared == <<cases, bus, semaCDCSystem, semaBusResult, removed>>
vars == <<shared, ambulance, pc, client, last, server, signal, history>>

None == [d \in Degrees |-> [r \in Regions |-> 0]]
NoClient == [todo |-> <<>>, array |-> None, at |-> 0, largest |-> -SECOND, sleep |-> 0,
             seen |-> 0, asked |-> <<>>, before |-> 0, withdrawn |-> 0, reports |-> 0]

Init ==
  /\ cases = None /\ bus = [b \in Buses |-> <<>>] /\ delivered = None /\ taken = None
  /\ semaCDCSystem = 1 /\ semaBusResult = [b \in Buses |-> 1] /\ removed = {}
  /\ ambulance = [b \in Buses |-> [pc |-> "poll", first_get_time |-> 1, age |-> 0]]
  /\ pc = [c \in Clients |-> "none"] /\ client = [c \in Clients |-> NoClient]
  /\ last = Server /\ server = "accept"
  /\ signal = [p \in Handlers |-> "none"]

ClientAlive(c) == pc[c] \notin {"none", "failed", "gone"}
Alive(p) == IF p = Server THEN server /= "ended"
            ELSE IF p \in Buses THEN ambulance[p].pc /= "gone"
            ELSE ClientAlive(p)

\* The process is not inside its interrupt handler.
Runs(p) == signal[p] /= "handling"

\* What is left of the shared memory and the semaphores.
Usable == removed = {}
SemaphoresRemoved == "semaphores" \in removed
ShmRemoved == "shm" \in removed

\* On a semaphore that has been removed it fails, which nobody minds.
sem_release(semaphore) == IF SemaphoresRemoved THEN semaphore ELSE semaphore + 1
-----------------------------------------------------------------------------
(* The lists (linked_list.c). *)

insertEnd(list, node) == Append(list, node)
deleteBegin(list) == Tail(list)

\* history: reporters are the clients whose reports the node has taken in.
initNode(region, numbers, c) ==
  [region_number |-> region, cases |-> numbers, execution_time |-> 0, reporters |-> {c}]

Index(list, region) == {i \in DOMAIN list : list[i].region_number = region}

\* Mutant: the cases of the last report replace those that are waiting.
addNewCaseNumberReplacing(list, node) ==
  IF Index(list, node.region_number) = {} THEN insertEnd(list, node)
  ELSE [list EXCEPT ![Min(Index(list, node.region_number))] =
          [node EXCEPT !.execution_time = list[Min(Index(list, node.region_number))].execution_time]]

\* The first node of the same region takes the cases in; else the list grows.
addNewCaseNumber(list, node) ==
  LET same == Index(list, node.region_number)
  IN  IF same = {} THEN insertEnd(list, node)
      ELSE [list EXCEPT ![Min(same)].cases = [d \in Degrees |-> @[d] + node.cases[d]],
                        ![Min(same)].reporters = @ \cup node.reporters]

\* A region is as many seconds away as its number says.
TravelTime(region) == SECOND * region

Left(list, last_i) ==
  SumFunction([i \in 1..last_i |-> TravelTime(list[i].region_number) - list[i].execution_time])

\* Mutant: the loop ends one node early.
getNodeWaitingTimeShort(list, region) ==
  LET same == Index(list, region)
  IN  IF 1 \in same THEN Left(list, 1)
      ELSE TravelTime(region) + Left(list, (IF same = {} THEN Len(list) ELSE Min(same)) - 1)

\* A region further down the list is counted at its node and once more.  The
\* first node of an empty list is a ZERO_NODE, so that region 0 waits 0 either way.
getNodeWaitingTime(list, region) ==
  LET same == Index(list, region)
  IN  IF 1 \in same THEN Left(list, 1)
      ELSE TravelTime(region) + Left(list, IF same = {} THEN Len(list) ELSE Min(same))
-----------------------------------------------------------------------------
(* clientProcess: the commands. *)

At(c, where) == pc[c] = where /\ Runs(c)

\* A signal that is pending is handled before read returns.
Reads(c, command) ==
  /\ signal[c] = "none"
  /\ pc[c] = "command" \/ (pc[c] = "connected" /\ command \in FirstCommands)

\* The end of the loop: the answer is written, and the command and the array
\* are cleared.
Reply(c) ==
  /\ signal[c] /= "handled"
  /\ pc' = [pc EXCEPT ![c] = "command"]
  /\ client' = [client EXCEPT ![c] = [NoClient EXCEPT !.reports = client[c].reports]]

ClientList(c) ==
  /\ Reads(c, "list") /\ Reply(c)
  /\ UNCHANGED <<shared, ambulance, last, server, signal, history>>

\* Mutant: the severe cases are read twice.
LookupsSevere(q) == [i \in 1..(2 * Len(q)) |->
  IF q[(i + 1) \div 2] = Malformed THEN Malformed ELSE <<"severe", q[(i + 1) \div 2]>>]

\* For each region asked for, the severe cases and then the mild ones.
Lookups(q) == [i \in 1..(2 * Len(q)) |->
  IF q[(i + 1) \div 2] = Malformed THEN Malformed
  ELSE <<IF i % 2 = 1 THEN "severe" ELSE "mild", q[(i + 1) \div 2]>>]

TotalIn(table, q) ==
  SumFunction([i \in DOMAIN q |->
                IF q[i] = Malformed THEN 0 ELSE table["severe"][q[i]] + table["mild"][q[i]]])

\* history: asked are the regions asked for, before is what the tables hold of
\* them when the command is read, withdrawn what has been taken back by then.
ClientConfirmed(c) ==
  /\ Reads(c, "Confirmed")
  /\ pc' = [pc EXCEPT ![c] = "confirmed"]
  /\ \E q \in Queries[c] :
       client' = [client EXCEPT ![c].todo = Lookups(q), ![c].seen = 0,
                                ![c].asked = q, ![c].before = TotalIn(cases, q),
                                ![c].withdrawn = TotalIn(taken, q)]
  /\ UNCHANGED <<shared, ambulance, last, server, signal, history>>

ClientReporting(c) ==
  /\ Reads(c, "Reporting") /\ client[c].reports < MaxReports
  /\ pc' = [pc EXCEPT ![c] = "reporting"]
  /\ \E q \in Reports[c] :
       client' = [client EXCEPT ![c].todo = q, ![c].at = 0, ![c].largest = -SECOND,
                                ![c].reports = @ + 1]
  /\ UNCHANGED <<shared, ambulance, last, server, signal, history>>

\* F_EXIT: the process ends, and its locals with it.
Ends(c) == pc' = [pc EXCEPT ![c] = "gone"] /\ client' = [client EXCEPT ![c] = NoClient]

\* "Exit", a command that is none, a peer that has gone, a connfd that the
\* handler has closed.
ClientExit(c) ==
  /\ At(c, "command") \/ At(c, "connected")
  /\ Ends(c)
  /\ UNCHANGED <<shared, ambulance, last, server, signal, history>>

HasNext(c, where) == At(c, where) /\ client[c].todo /= <<>> /\ Head(client[c].todo) /= Malformed

\* The options before this one have been carried out.
ClientMalformed(c) ==
  /\ client[c].todo /= <<>> /\ Head(client[c].todo) = Malformed
  /\ \/ At(c, "confirmed") /\ Ends(c)
     \/ At(c, "reporting") /\ pc' = [pc EXCEPT ![c] = "failed"] /\ UNCHANGED client
  /\ UNCHANGED <<shared, ambulance, last, server, signal, history>>
-----------------------------------------------------------------------------
(* clientProcess: Confirmed case. *)

getConfirmedData(c) ==
  LET lookup == Head(client[c].todo)
  IN  /\ HasNext(c, "confirmed") /\ Usable /\ semaCDCSystem > 0
      /\ client' = [client EXCEPT ![c].todo = Tail(@),
                                  ![c].seen = @ + cases[lookup[1]][lookup[2]]]
      /\ UNCHANGED <<shared, ambulance, pc, last, server, signal, history>>

\* -1 is shown.  When only the shared memory is gone the semaphore stays down.
getConfirmedDataFails(c) ==
  /\ HasNext(c, "confirmed")
  /\ SemaphoresRemoved \/ (ShmRemoved /\ semaCDCSystem > 0)
  /\ semaCDCSystem' = IF SemaphoresRemoved THEN semaCDCSystem ELSE semaCDCSystem - 1
  /\ client' = [client EXCEPT ![c].todo = Tail(@), ![c].seen = @ - 1]
  /\ UNCHANGED <<cases, bus, semaBusResult, removed, ambulance, pc, last, server, signal, history>>

ClientConfirmedReply(c) ==
  /\ At(c, "confirmed") /\ client[c].todo = <<>> /\ Reply(c)
  /\ UNCHANGED <<shared, ambulance, last, server, signal, history>>
-----------------------------------------------------------------------------
(* clientProcess: Reporting system. *)

\* Once the last option is read the regions are dispatched.
AfterEntry(c) == IF Len(client[c].todo) = 1 THEN "dispatch" ELSE "reporting"

\* case_number_array[..] += number_case.  The array is local: the model adds to
\* it when addConfirmedData is done.
InArray(c) == LET e == Head(client[c].todo)
              IN  [client[c].array EXCEPT ![e.degree][e.region] = @ + e.number]

\* addConfirmedData takes the semaphore and reads the table.
addConfirmedDataRead(c) ==
  LET e == Head(client[c].todo)
  IN  /\ HasNext(c, "reporting") /\ Usable /\ semaCDCSystem > 0
      /\ semaCDCSystem' = semaCDCSystem - 1
      /\ pc' = [pc EXCEPT ![c] = "adding"]
      /\ client' = [client EXCEPT ![c].seen = cases[e.degree][e.region]]
      /\ UNCHANGED <<cases, bus, semaBusResult, removed, ambulance, last, server, signal, history>>

\* ... and stores the sum and gives it back.
addConfirmedData(c) ==
  LET e == Head(client[c].todo)
  IN  /\ At(c, "adding")
      /\ cases' = [cases EXCEPT ![e.degree][e.region] = client[c].seen + e.number]
      /\ semaCDCSystem' = sem_release(semaCDCSystem)
      /\ pc' = [pc EXCEPT ![c] = AfterEntry(c)]
      /\ client' = [client EXCEPT ![c].todo = Tail(@), ![c].array = InArray(c), ![c].seen = 0]
      /\ taken' = [taken EXCEPT ![e.degree][e.region] = @ + (IF e.number < 0 THEN -e.number ELSE 0)]
      /\ UNCHANGED <<bus, semaBusResult, removed, ambulance, last, server, signal, delivered>>

\* The error is printed, and the report goes on.
addConfirmedDataFails(c) ==
  /\ HasNext(c, "reporting")
  /\ SemaphoresRemoved \/ (ShmRemoved /\ semaCDCSystem > 0)
  /\ pc' = [pc EXCEPT ![c] = AfterEntry(c)]
  /\ client' = [client EXCEPT ![c].todo = Tail(@), ![c].array = InArray(c)]
  /\ UNCHANGED <<shared, ambulance, last, server, signal, history>>

\* The regions of the report that no bus has been chosen for, in ascending order.
ToDispatch(c) == {r \in Regions : r >= client[c].at /\ \E d \in Degrees : client[c].array[d][r] /= 0}

\* getAmbulanceWaitingTime: the two semaphores, one after the other.
LockBus1(c) ==
  /\ At(c, "dispatch") /\ ToDispatch(c) /= {}
  /\ ~SemaphoresRemoved /\ semaBusResult[1] > 0
  /\ semaBusResult' = [semaBusResult EXCEPT ![1] = @ - 1]
  /\ pc' = [pc EXCEPT ![c] = "bus1"]
  /\ UNCHANGED <<cases, bus, semaCDCSystem, removed, ambulance, client, last, server, signal, history>>

LockBus2(c) ==
  /\ At(c, "bus1") /\ ~SemaphoresRemoved /\ semaBusResult[2] > 0
  /\ semaBusResult' = [semaBusResult EXCEPT ![2] = @ - 1]
  /\ pc' = [pc EXCEPT ![c] = "both"]
  /\ UNCHANGED <<cases, bus, semaCDCSystem, removed, ambulance, client, last, server, signal, history>>

\* Mutant: the second one stays down.
BusReleasedFirst == [semaBusResult EXCEPT ![1] = sem_release(@)]

BusReleased == [b \in Buses |-> sem_release(semaBusResult[b])]

ClientSchedule(c) ==
  LET r == Min(ToDispatch(c))
      time == [b \in Buses |-> getNodeWaitingTime(bus[b], r)]
      chosen == IF time[1] <= time[2] THEN 1 ELSE 2
      node == initNode(r, [d \in Degrees |-> client[c].array[d][r]], c)
  IN  /\ At(c, "both") /\ ~ShmRemoved
      /\ bus' = [bus EXCEPT ![chosen] = addNewCaseNumber(@, node)]
      /\ semaBusResult' = BusReleased
      /\ pc' = [pc EXCEPT ![c] = "dispatch"]
      /\ client' = [client EXCEPT ![c].at = r + 1,
                                  ![c].largest = IF @ < time[chosen] THEN time[chosen] ELSE @]
      /\ UNCHANGED <<cases, semaCDCSystem, removed, ambulance, last, server, signal, history>>

\* F_ERR_TIME: a semaphore or the shared memory is gone.
ClientScheduleFails(c) ==
  /\ \/ At(c, "dispatch") /\ ToDispatch(c) /= {} /\ SemaphoresRemoved /\ UNCHANGED semaBusResult
     \/ At(c, "bus1") /\ SemaphoresRemoved /\ UNCHANGED semaBusResult
     \/ At(c, "both") /\ ShmRemoved /\ semaBusResult' = BusReleased
  /\ Ends(c)
  /\ UNCHANGED <<cases, bus, semaCDCSystem, removed, ambulance, last, server, signal, history>>

\* (int): the fraction of a second is dropped.
Truncated(time) == IF time >= 0 THEN time \div SECOND ELSE -((-time) \div SECOND)

\* Mutant: -1 is -1.
AsSigned(n) == n

\* sleep takes an unsigned int: -1, of a report without a case, is the longest.
AsUnsigned(n) == n % (UINT_MAX + 1)

\* "The ambulance is on it's way...", and sleep.
ClientSleep(c) ==
  /\ At(c, "dispatch") /\ ToDispatch(c) = {} /\ signal[c] /= "handled"
  /\ pc' = [pc EXCEPT ![c] = "sleeping"]
  /\ client' = [client EXCEPT ![c].sleep = SECOND * AsUnsigned(Truncated(client[c].largest))]
  /\ UNCHANGED <<shared, ambulance, last, server, signal, history>>

ClientAnswer(c) ==
  /\ At(c, "sleeping") /\ client[c].sleep = 0 /\ Reply(c)
  /\ UNCHANGED <<shared, ambulance, last, server, signal, history>>

\* write fails or ends the process: the peer has gone, or the handler has
\* closed connfd; the handler also ends the sleep.
ClientUnheard(c) ==
  /\ \/ At(c, "confirmed") /\ client[c].todo = <<>>
     \/ At(c, "dispatch") /\ ToDispatch(c) = {}
     \/ At(c, "sleeping") /\ (client[c].sleep = 0 \/ signal[c] = "handled")
  /\ Ends(c)
  /\ UNCHANGED <<shared, ambulance, last, server, signal, history>>

ClientStep(c) ==
  \/ ClientList(c) \/ ClientConfirmed(c) \/ ClientReporting(c) \/ ClientExit(c)
  \/ ClientMalformed(c)
  \/ getConfirmedData(c) \/ getConfirmedDataFails(c) \/ ClientConfirmedReply(c)
  \/ addConfirmedDataRead(c) \/ addConfirmedData(c) \/ addConfirmedDataFails(c)
  \/ LockBus1(c) \/ LockBus2(c) \/ ClientSchedule(c) \/ ClientScheduleFails(c)
  \/ ClientSleep(c) \/ ClientAnswer(c) \/ ClientUnheard(c)
-----------------------------------------------------------------------------
(* ambulanceProcess *)

\* One round takes the bus's semaphore and gives it back without waiting.
Round(b) ==
  /\ ambulance[b].pc = "poll" /\ Usable /\ semaBusResult[b] > 0
  /\ UNCHANGED <<cases, semaCDCSystem, semaBusResult, removed, pc, client, last, server, signal>>

Polling(age, first) == [pc |-> "poll", first_get_time |-> first, age |-> age]

\* finish - start, where start is now for a node just begun.
Executed(b) == IF ambulance[b].first_get_time = 1 THEN 0 ELSE ambulance[b].age

AmbulanceIdle(b) ==
  /\ Round(b) /\ bus[b] = <<>>
  /\ ambulance' = [ambulance EXCEPT ![b] = Polling(0, 1)]
  /\ UNCHANGED <<bus, history>>

AmbulanceDrives(b) ==
  /\ Round(b) /\ bus[b] /= <<>> /\ Executed(b) < TravelTime(bus[b][1].region_number)
  /\ bus' = [bus EXCEPT ![b][1].execution_time = Executed(b)]
  /\ ambulance' = [ambulance EXCEPT ![b] = Polling(Executed(b), 0)]
  /\ UNCHANGED history

AmbulanceArrives(b) ==
  /\ Round(b) /\ bus[b] /= <<>> /\ Executed(b) >= TravelTime(bus[b][1].region_number)
  /\ bus' = [bus EXCEPT ![b] = deleteBegin(@)]
  /\ ambulance' = [ambulance EXCEPT ![b] = Polling(0, 1)]
  /\ delivered' = [d \in Degrees |->
                    [delivered[d] EXCEPT ![bus[b][1].region_number] = @ + bus[b][1].cases[d]]]
  /\ UNCHANGED taken

AmbulanceFails(b) ==
  /\ ambulance[b].pc = "poll"
  /\ SemaphoresRemoved \/ (ShmRemoved /\ semaBusResult[b] > 0)
  /\ ambulance' = [ambulance EXCEPT ![b].pc = "gone"]
  /\ UNCHANGED <<shared, pc, client, last, server, signal, history>>

AmbulanceStep(b) == AmbulanceIdle(b) \/ AmbulanceDrives(b) \/ AmbulanceArrives(b)
                    \/ AmbulanceFails(b)
-----------------------------------------------------------------------------
(* Time. *)

\* The ambulances poll without a pause: each has seen the tick that passed,
\* and what has been added to its list, before the next one passes.
Polled(b) ==
  \/ bus[b] = <<>>
  \/ /\ ambulance[b].first_get_time = 0
     /\ bus[b][1].execution_time = ambulance[b].age
     /\ ambulance[b].age < TravelTime(bus[b][1].region_number)

\* No time needs to pass for Ctrl-C, which ends every sleep.
Tick ==
  /\ \A p \in Handlers : signal[p] = "none"
  /\ \A b \in Buses : Polled(b)
  /\ ambulance' = [b \in Buses |-> IF ambulance[b].first_get_time = 1 THEN ambulance[b]
                                   ELSE [ambulance[b] EXCEPT !.age = @ + 1]]
  /\ client' = [c \in Clients |-> IF pc[c] = "sleeping" /\ client[c].sleep > 0
                                  THEN [client[c] EXCEPT !.sleep = @ - 1] ELSE client[c]]
  /\ UNCHANGED <<shared, pc, last, server, signal, history>>
-----------------------------------------------------------------------------
(* main, and interrupt_handler, which every process inherits. *)

\* A signal that is pending is handled before accept and fork return.  The
\* array of the new process is not initialised.  accept, the store to connfd and
\* fork are one step: left out is a Ctrl-C between the first two, whose handler
\* would close the last client's descriptor.  There is always a descriptor left.
Accept(c) ==
  /\ server = "accept" /\ signal[Server] = "none" /\ pc[c] = "none"
  /\ pc' = [pc EXCEPT ![c] = "connected"]
  /\ \E n \in Residue :
       client' = [client EXCEPT ![c].array = [d \in Degrees |-> [r \in Regions |-> n]]]
  /\ last' = c
  /\ UNCHANGED <<shared, ambulance, server, signal, history>>

\* The handler has closed sockfd.
AcceptFails ==
  /\ server = "accept" /\ signal[Server] = "handled"
  /\ server' = "exit"
  /\ UNCHANGED <<shared, ambulance, pc, client, last, signal, history>>

\* F_EXIT: waitpid for the client that was forked last and for the ambulances;
\* what is to be removed has been.
ServerEnds ==
  /\ server = "exit"
  /\ last /= Server => ~Alive(last)
  /\ \A b \in Buses : ~Alive(b)
  /\ server' = "ended" /\ removed' = {"shm", "semaphores"}
  /\ UNCHANGED <<cases, bus, semaCDCSystem, semaBusResult, ambulance, pc, client, last, signal, history>>

CtrlC ==
  /\ \A p \in Handlers : signal[p] = "none"
  /\ Cardinality({c \in Clients : pc[c] /= "none"}) <= MaxInterrupted
  /\ signal' = [p \in Handlers |-> IF Alive(p) THEN "pending" ELSE "none"]
  /\ UNCHANGED <<shared, ambulance, pc, client, last, server, history>>

\* close, sharedMemoryRemove: a failure is printed.
RemoveShm(p) ==
  /\ signal[p] = "pending" /\ Alive(p)
  /\ signal' = [signal EXCEPT ![p] = "handling"]
  /\ removed' = removed \cup {"shm"}
  /\ UNCHANGED <<cases, bus, semaCDCSystem, semaBusResult, ambulance, pc, client, last, server, history>>

\* Mutant: the handler gives up after the shared memory.
RemoveNothing(p) ==
  /\ signal[p] = "handling" /\ Alive(p)
  /\ signal' = [signal EXCEPT ![p] = "handled"]
  /\ UNCHANGED <<shared, ambulance, pc, client, last, server, history>>

\* semaphoreRemove: whoever sleeps in semop is woken with an error.
RemoveSemaphores(p) ==
  /\ signal[p] = "handling" /\ Alive(p)
  /\ signal' = [signal EXCEPT ![p] = "handled"]
  /\ removed' = removed \cup {"semaphores"}
  /\ UNCHANGED <<cases, bus, semaCDCSystem, semaBusResult, ambulance, pc, client, last, server, history>>

Handler(p) == RemoveShm(p) \/ RemoveSemaphores(p)

ServerStep == (\E c \in Clients : Accept(c)) \/ AcceptFails \/ ServerEnds

Next ==
  \/ \E c \in Clients : ClientStep(c)
  \/ \E b \in Buses : AmbulanceStep(b)
  \/ \E p \in Handlers : Handler(p)
  \/ ServerStep \/ Tick \/ CtrlC

Spec == Init /\ [][Next]_vars

\* Every process is scheduled, semop serves the processes asleep on a semaphore
\* in turn, and time passes.  What a peer sends, when it hangs up and whether
\* Ctrl-C is pressed are nobody's duty: only the steps that carry a command on,
\* or end a process that cannot go on, are fair.
ClientCarriesOn(c) ==
  \/ ClientMalformed(c) \/ getConfirmedData(c) \/ getConfirmedDataFails(c) \/ ClientConfirmedReply(c)
  \/ addConfirmedDataRead(c) \/ addConfirmedData(c) \/ addConfirmedDataFails(c)
  \/ LockBus1(c) \/ LockBus2(c) \/ ClientSchedule(c) \/ ClientScheduleFails(c)
  \/ ClientSleep(c) \/ ClientAnswer(c)
  \/ signal[c] = "handled" /\ (ClientExit(c) \/ ClientUnheard(c))

Fairness ==
  /\ \A c \in Clients : SF_vars(ClientCarriesOn(c))
  /\ \A b \in Buses : SF_vars(AmbulanceStep(b))
  /\ WF_vars((\E p \in Handlers : Handler(p)) \/ AcceptFails \/ ServerEnds)
  /\ WF_vars(Tick)

FairSpec == Spec /\ Fairness
-----------------------------------------------------------------------------
(* Properties. *)

Numbers == [Degrees -> [Regions -> Int]]
Node == [region_number : Regions, cases : [Degrees -> Int], execution_time : Nat,
         reporters : SUBSET Clients]

\* The types; in particular sleep is an unsigned int, and no execution time is
\* longer than the region's.
TypeOK ==
  /\ cases \in Numbers /\ delivered \in Numbers /\ taken \in Numbers
  /\ \A b \in Buses : /\ bus[b] \in Seq(Node)
                      /\ \A i \in DOMAIN bus[b] : 
                           bus[b][i].execution_time <= TravelTime(bus[b][i].region_number)
  /\ semaCDCSystem \in 0..1 /\ semaBusResult \in [Buses -> 0..1]
  /\ removed \subseteq {"shm", "semaphores"}
  /\ ambulance \in [Buses -> [pc : {"poll", "gone"}, first_get_time : 0..1, age : 0..TravelTime(NUM_REGION)]]
  /\ pc \in [Clients -> {"none", "connected", "command", "confirmed", "reporting", "adding",
                         "dispatch", "bus1", "both", "sleeping", "failed", "gone"}]
  /\ \A c \in Clients : /\ client[c].array \in Numbers /\ client[c].at \in 0..NUM_REGION
                        /\ client[c].largest \in Int /\ client[c].sleep \in 0..(SECOND * UINT_MAX)
  /\ last \in Clients \cup {Server} /\ server \in {"accept", "exit", "ended"}
  /\ signal \in [Handlers -> {"none", "pending", "handling", "handled"}]

\* Who is between sem_acquire and sem_release.
InTables == {c \in Clients : pc[c] = "adding"}
InBus(b) == {c \in Clients : pc[c] = "both" \/ (pc[c] = "bus1" /\ b = 1)}

HeldOnce(semaphore, holders) ==
  /\ semaphore = 1 => holders = {}
  /\ semaphore /= 1 => semaphore = 0 /\ holders /= {}
  /\ \A p, q \in holders : p = q

\* Until Ctrl-C removes it, each semaphore (sem_acquire, sem_release) is up and
\* held by nobody, or down and held by exactly one process: two clients are
\* never in the case tables together, and a client that holds both lists is alone
\* in them: no other client and, its semaphore being down, no ambulance.
SemaphoresHeldOnce ==
  removed = {} => /\ HeldOnce(semaCDCSystem, InTables)
                  /\ \A b \in Buses : HeldOnce(semaBusResult[b], InBus(b))

\* The cases a client's process has counted and put on no bus: it is reading
\* the report or dispatching it, or has ended in the middle.
InHand(c, d, r) ==
  IF pc[c] \in {"reporting", "adding", "dispatch", "bus1", "both", "failed"} /\ r >= client[c].at
  THEN client[c].array[d][r] ELSE 0
OnBus(b, d, r) == SumFunction([i \in Index(bus[b], r) |-> bus[b][i].cases[d]])

\* No case is lost or invented between the tables, the clients' processes, the
\* two lists and the ambulances (addConfirmedData, addNewCaseNumber,
\* deleteBegin): what the tables count has been brought away, is on one bus, or
\* is in the hand of the process that is dispatching it or has failed to.
CasesConserved ==
  removed = {} => \A d \in Degrees, r \in Regions :
    cases[d][r] = delivered[d][r] + OnBus(1, d, r) + OnBus(2, d, r)
                  + SumFunction([c \in Clients |-> InHand(c, d, r)])

\* The ticks until the i-th node of the list is brought away.
Remaining(b, i) ==
  SumFunction([j \in 1..i |-> TravelTime(bus[b][j].region_number)]) - ambulance[b].age

\* No client is answered a whole second before its cases have been brought away:
\* getNodeWaitingTime never estimates less than what the bus needs, whatever the
\* other clients put on or merge into the lists meanwhile, and what is lost is the
\* fraction that (int) drops (process_lib.c 177).
SleepCoversRescue ==
  \A c \in Clients, b \in Buses :
    pc[c] = "sleeping" =>
      \A i \in DOMAIN bus[b] : c \in bus[b][i].reporters => Remaining(b, i) < client[c].sleep + SECOND

\* The numbers that "Confirmed case" shows, read one by one while other clients
\* report, are never fewer than when the command was read nor more than there are,
\* in the regions asked for, when it is answered, but for what reports of negative
\* numbers (process_lib.c 121, 133) have taken back in between.
ListingBetween ==
  \A c \in Clients :
    pc[c] = "confirmed" /\ client[c].todo = <<>> /\ removed = {} =>
      LET back == TotalIn(taken, client[c].asked) - client[c].withdrawn
      IN  /\ client[c].before <= client[c].seen + back
          /\ client[c].seen <= TotalIn(cases, client[c].asked) + back

\* A report that is read is answered, or found malformed, or its client has
\* gone, however the clients and ambulances compete for the semaphores.
EveryReportAnswered ==
  \A c \in Clients : pc[c] = "reporting" ~> pc[c] \in {"command", "failed", "gone"}

\* After Ctrl-C every process ends and nothing is left behind, whoever runs its
\* handler first and wherever the others are.
CtrlCEndsEverybody ==
  signal[Server] = "pending"
    ~> (removed = {"shm", "semaphores"} /\ \A p \in Processes : ~Alive(p))
=============================================================================
