-------------------------------- MODULE Bank --------------------------------
(***************************************************************************)
(* The bank server of lab6 (server.c).  The server forks a child for every  *)
(* connection; the child repeats its client's operation on the savings in   *)
(* shared memory, under one System V semaphore.  Ctrl-C reaches the server  *)
(* and all its children, and every one of them removes the shared memory    *)
(* and the semaphore under the feet of the others.                           *)
(*                                                                         *)
(* The savings are kept as SHMSZ (10) decimal characters and computed as an *)
(* int: SPAN is 10^(SHMSZ - 1), so that the digits behind a minus sign are   *)
(* those of a number below SPAN.                                             *)
(***************************************************************************)
EXTENDS Integers, FiniteSets

CONSTANTS Clients, Requests,  \* the parsed lines clients send
          SPAN, INT_MAX, USHRT_MAX,
          MaxDescriptors      \* the connections the server's descriptors allow

INT_MIN == -INT_MAX - 1

ASSUME WidthAssumption ==
  /\ SPAN \in Nat \ {0} /\ INT_MAX \in Nat /\ USHRT_MAX \in Nat /\ MaxDescriptors \in Nat
  /\ SPAN <= INT_MAX /\ INT_MAX < 10 * SPAN

ASSUME RequestAssumption ==
  Requests \subseteq [operation : {"deposit", "withdraw", "other"},
                      money : INT_MIN..INT_MAX, times : INT_MIN..INT_MAX]

Server == "server"

ASSUME ProcessAssumption == Server \notin Clients

VARIABLES
  semaphore, \* the counter
  shm,       \* the savings that the characters in shared memory spell
  removed,   \* the IPC objects removed, of {"shm", "semaphore"}
  server,    \* [pc, childpid], the process that accepts connections
  child,     \* [Clients -> [pc, ended, request, i, savings]], a child process each
  signal     \* SIGINT, for the server and every client's child

vars == <<semaphore, shm, removed, server, child, signal>>

NoRequest == [operation |-> "none", money |-> 0, times |-> 0]
NoChild == [pc |-> "none", ended |-> FALSE, request |-> NoRequest, i |-> 0, savings |-> 0]
Processes == Clients \cup {Server}

Init ==
  /\ semaphore = 1 /\ shm = 0 /\ removed = {}
  /\ server = [pc |-> "accept", childpid |-> Server]
  /\ child = [c \in Clients |-> NoChild]
  /\ signal = [p \in Processes |-> "none"]

Alive(p) == IF p = Server THEN server.pc /= "ended"
            ELSE child[p].pc /= "none" /\ ~child[p].ended

-----------------------------------------------------------------------------
(* main *)

Connected == {c \in Clients : child[c].pc /= "none"}

\* A signal that is pending is handled before accept and fork return.  The child
\* is here from the moment it has read its request: one that waits for a client
\* that is silent touches nothing, and Ctrl-C, whose handler closes connfd, ends it.
Accept(c) ==
  /\ server.pc = "accept" /\ signal[Server] = "none"
  /\ child[c].pc = "none" /\ Cardinality(Connected) < MaxDescriptors
  /\ \E r \in Requests : child' = [child EXCEPT ![c].pc = "loop", ![c].request = r]
  /\ server' = [server EXCEPT !.childpid = c]
  /\ UNCHANGED <<semaphore, shm, removed, signal>>

\* accept fails when there is no descriptor left (the server never closes its
\* connfd), and when the handler has closed sockfd.
AcceptFails ==
  /\ server.pc = "accept"
  /\ \/ signal[Server] = "none" /\ Cardinality(Connected) = MaxDescriptors
     \/ signal[Server] = "handled"
  /\ server' = [server EXCEPT !.pc = "exit"]
  /\ UNCHANGED <<semaphore, shm, removed, child, signal>>

\* F_EXIT: waitpid for the child that was forked last, if there was one.
ServerEnds ==
  /\ server.pc = "exit" /\ signal[Server] \in {"none", "handled"}
  /\ server.childpid /= Server => ~Alive(server.childpid)
  /\ server' = [server EXCEPT !.pc = "ended"]
  /\ UNCHANGED <<semaphore, shm, removed, child, signal>>

ServerStep == (\E c \in Clients : Accept(c)) \/ AcceptFails \/ ServerEnds

-----------------------------------------------------------------------------
(* childprocess *)

\* The child is not inside the interrupt handler.
At(c, pc) == child[c].pc = pc /\ ~child[c].ended /\ signal[c] /= "handling"

\* The test of the loop, whose counter is an unsigned short.
MoreToDo(c) == child[c].i < child[c].request.times

Finish(c) ==
  /\ At(c, "loop") /\ ~MoreToDo(c)
  /\ child' = [child EXCEPT ![c].ended = TRUE]
  /\ UNCHANGED <<semaphore, shm, removed, server, signal>>

\* Mutant: the semaphore is not taken.
AcquireNothing(c) ==
  /\ At(c, "loop") /\ MoreToDo(c) /\ "semaphore" \notin removed /\ semaphore > 0
  /\ child' = [child EXCEPT ![c].pc = "attach"]
  /\ UNCHANGED <<semaphore, shm, removed, server, signal>>

Acquire(c) ==
  /\ At(c, "loop") /\ MoreToDo(c) /\ "semaphore" \notin removed /\ semaphore > 0
  /\ semaphore' = semaphore - 1
  /\ child' = [child EXCEPT ![c].pc = "attach"]
  /\ UNCHANGED <<shm, removed, server, signal>>

\* shmat, and atoi of what is there.
Attach(c) ==
  /\ At(c, "attach") /\ "shm" \notin removed
  /\ child' = [child EXCEPT ![c].pc = "store", ![c].savings = shm]
  /\ UNCHANGED <<semaphore, shm, removed, server, signal>>

\* int arithmetic, as the processor does it.
AsInt32(n) == IF n > INT_MAX THEN n - 2 * (INT_MAX + 1)
              ELSE IF n < INT_MIN THEN n + 2 * (INT_MAX + 1)
              ELSE n

\* Mutant: the sign needs no room.
SpelledInFull(n) == n

\* What atoi will read of the characters n is stored as: all the digits of a
\* positive number fit; the minus sign takes the place of the first one; and
\* the digits of INT_MIN, which has no opposite, are no digits.
Spelled(n) == IF n >= 0 THEN n ELSE IF n = INT_MIN THEN 0 ELSE -((-n) % SPAN)

Result(savings, r) ==
  AsInt32(CASE r.operation = "deposit" -> savings + r.money
            [] r.operation = "withdraw" -> savings - r.money
            [] OTHER -> savings)

\* The characters are written, and savings is used no more.
Store(c) ==
  /\ At(c, "store")
  /\ shm' = Spelled(Result(child[c].savings, child[c].request))
  /\ child' = [child EXCEPT ![c].pc = "release", ![c].savings = 0]
  /\ UNCHANGED <<semaphore, removed, server, signal>>

\* Mutant: the semaphore stays down.
ReleaseNothing(c) ==
  /\ At(c, "release") /\ "semaphore" \notin removed
  /\ child' = [child EXCEPT ![c].pc = "loop", ![c].i = (@ + 1) % (USHRT_MAX + 1)]
  /\ UNCHANGED <<semaphore, shm, removed, server, signal>>

Release(c) ==
  /\ At(c, "release") /\ "semaphore" \notin removed
  /\ semaphore' = semaphore + 1
  /\ child' = [child EXCEPT ![c].pc = "loop", ![c].i = (@ + 1) % (USHRT_MAX + 1)]
  /\ UNCHANGED <<shm, removed, server, signal>>

\* semop or shmat on what is removed ends the child, as it is.
Fails(c) ==
  /\ \/ At(c, "loop") /\ MoreToDo(c) /\ "semaphore" \in removed
     \/ At(c, "attach") /\ "shm" \in removed
     \/ At(c, "release") /\ "semaphore" \in removed
  /\ child' = [child EXCEPT ![c].ended = TRUE]
  /\ UNCHANGED <<semaphore, shm, removed, server, signal>>

ChildStep(c) == Finish(c) \/ Acquire(c) \/ Attach(c) \/ Store(c) \/ Release(c) \/ Fails(c)

-----------------------------------------------------------------------------
(* interrupt_handler, in the server and, inherited, in every child. *)

CtrlC ==
  /\ \A p \in Processes : signal[p] = "none"
  /\ \E p \in Processes : Alive(p)
  /\ signal' = [p \in Processes |-> IF Alive(p) THEN "pending" ELSE "none"]
  /\ UNCHANGED <<semaphore, shm, removed, server, child>>

\* errexit
EndedInHandler(p) ==
  /\ server' = IF p = Server THEN [server EXCEPT !.pc = "ended"] ELSE server
  /\ child' = IF p = Server THEN child ELSE [child EXCEPT ![p].ended = TRUE]

\* Shared memory that is removed stays while somebody is attached to it, and
\* can be removed again.
Attached == \E c \in Clients : child[c].pc = "store" /\ ~child[c].ended

\* Mutant: the handler gives up after the shared memory.
RemoveOnlyShm(p) ==
  /\ signal[p] = "pending" /\ Alive(p)
  /\ removed' = removed \cup {"shm"}
  /\ signal' = [signal EXCEPT ![p] = "handled"]
  /\ UNCHANGED <<semaphore, shm, server, child>>

RemoveShm(p) ==
  /\ signal[p] = "pending" /\ Alive(p)
  /\ IF "shm" \in removed /\ ~Attached
     THEN /\ signal' = [signal EXCEPT ![p] = "handled"]
          /\ EndedInHandler(p) /\ UNCHANGED removed
     ELSE /\ signal' = [signal EXCEPT ![p] = "handling"]
          /\ removed' = removed \cup {"shm"}
          /\ UNCHANGED <<server, child>>
  /\ UNCHANGED <<semaphore, shm>>

RemoveSemaphore(p) ==
  /\ signal[p] = "handling" /\ Alive(p)
  /\ signal' = [signal EXCEPT ![p] = "handled"]
  /\ IF "semaphore" \in removed
     THEN EndedInHandler(p) /\ UNCHANGED removed
     ELSE removed' = removed \cup {"semaphore"} /\ UNCHANGED <<server, child>>
  /\ UNCHANGED <<semaphore, shm>>

Handler(p) == RemoveShm(p) \/ RemoveSemaphore(p)

-----------------------------------------------------------------------------

Next == \/ ServerStep \/ CtrlC
        \/ \E c \in Clients : ChildStep(c)
        \/ \E p \in Processes : Handler(p)

Spec == Init /\ [][Next]_vars

\* Every process is scheduled, and semop serves the processes asleep on the
\* semaphore in turn.  Clients connect, and Ctrl-C is pressed, or not.
Fairness ==
  /\ \A c \in Clients : SF_vars(ChildStep(c))
  /\ \A p \in Processes : WF_vars(Handler(p))
  /\ WF_vars(AcceptFails \/ ServerEnds)

FairSpec == Spec /\ Fairness

-----------------------------------------------------------------------------

\* The types; in particular the savings stay in what the characters can spell.
TypeOK ==
  /\ semaphore \in 0..1 /\ shm \in (1 - SPAN)..INT_MAX
  /\ removed \subseteq {"shm", "semaphore"}
  /\ server \in [pc : {"accept", "exit", "ended"}, childpid : Processes]
  /\ child \in [Clients -> [pc : {"none", "loop", "attach", "store", "release"},
                            ended : BOOLEAN, request : Requests \cup {NoRequest}, i : 0..USHRT_MAX,
                            savings : (1 - SPAN)..INT_MAX]]
  /\ signal \in [Processes -> {"none", "pending", "handling", "handled"}]

\* The operations a child has still to do; those of a request that asks for more
\* than an unsigned short counts never end.
LeftOf(c) ==
  LET r == child[c].request
      done == child[c].i + (IF child[c].pc = "release" THEN 1 ELSE 0)
  IN  IF r.times > USHRT_MAX THEN -1 ELSE IF r.times < 0 THEN 0 ELSE r.times - done

Account == INSTANCE BankAccount WITH
  Lowest <- 1 - SPAN, Highest <- INT_MAX, MostTimes <- USHRT_MAX,
  savings <- shm, request <- [c \in Clients |-> child[c].request],
  left <- [c \in Clients |-> LeftOf(c)]

\* The server is the account: every operation of every child is done at once
\* and on the savings the last one left, even while Ctrl-C removes the
\* semaphore and the shared memory between two steps of a child that is inside.
AccountSpec == Account!Spec

\* Whoever connects is served, however many others there are: its child ends
\* (childprocess), unless its loop counter cannot reach what it asked for.
EverybodyServed ==
  \A c \in Clients :
    child[c].pc /= "none" /\ child[c].request.times <= USHRT_MAX ~> child[c].ended

\* Ctrl-C that finds the server alive ends it and every child, loops without
\* end included, and leaves neither semaphore nor shared memory behind, whichever process runs
\* its handler first.
CtrlCLeavesNothing ==
  signal[Server] = "pending"
    ~> (removed = {"shm", "semaphore"} /\ \A p \in Processes : ~Alive(p))
=============================================================================
