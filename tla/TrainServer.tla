----------------------------- MODULE TrainServer -----------------------------
(***************************************************************************)
(* lab5's train server (lab5.c): the main thread accepts clients and forks a *)
(* child for each, which becomes the program sl; wait_for_child polls the    *)
(* children of the occupied slots; the handlers of SIGCHLD and SIGINT run in *)
(* either thread, at any point.  Slots and children are shared by all four   *)
(* without a lock.                                                           *)
(***************************************************************************)
EXTENDS Integers, FiniteSets

CONSTANTS CLIENT_MAXIMUN, \* the slots
          Padding,        \* words behind the arrays that the linker left unused
          MaxTrains       \* bound: the clients that connect

ASSUME TrainAssumption ==
  CLIENT_MAXIMUN \in Nat \ {0} /\ Padding \in Nat /\ MaxTrains \in Nat

Slots == 0..(CLIENT_MAXIMUN - 1)
\* The slots main can write to: the search stops at the first one that is not 1.
Words == 0..(CLIENT_MAXIMUN + Padding - 1)
Pids == 1..MaxTrains

VARIABLES
  connfd_occupied, childs_pid, \* per slot; a pid is 0 before the slot's first fork
  main,    \* [pc, i]: i is the slot looked at, then client_index
  poller,  \* [pc, i, pid], the thread wait_for_child
  child,   \* per pid: how far it is, and who reaped it
  sigchld, \* the signal is pending
  reaping, \* zombie_process_handler is running
  socket   \* sockfd: "open", "closed", or "waited": closed, but an accept holds it

vars == <<connfd_occupied, childs_pid, main, poller, child, sigchld, reaping, socket>>

Init ==
  /\ connfd_occupied = [w \in Words |-> 0] /\ childs_pid = [w \in Words |-> 0]
  /\ main = [pc |-> "search", i |-> 0] /\ poller = [pc |-> "check", i |-> 0, pid |-> 0]
  /\ child = [p \in Pids |-> "none"]
  /\ sigchld = FALSE /\ reaping = FALSE /\ socket = "open"

\* Those the server has to wait for: started, and not reaped.
Running == {p \in Pids : child[p] = "running"}
Zombies == {p \in Pids : child[p] = "zombie"}

Alive == main.pc /= "ended"

-----------------------------------------------------------------------------
(* main *)

\* One look at a slot.  A search that finds every slot taken leaves the arrays;
\* what a write behind the padding does is not followed any further.
Search ==
  /\ main.pc = "search"
  /\ IF connfd_occupied[main.i] = 1
     THEN /\ main' = IF main.i + 1 \in Words THEN [main EXCEPT !.i = @ + 1]
                                             ELSE [pc |-> "strayed", i |-> CLIENT_MAXIMUN + Padding]
          /\ UNCHANGED connfd_occupied
     ELSE /\ main' = [main EXCEPT !.pc = "accept"]
          /\ connfd_occupied' = [connfd_occupied EXCEPT ![main.i] = 1]
  /\ UNCHANGED <<childs_pid, poller, child, sigchld, reaping, socket>>

\* The children there are: pids come in the order of the forks, and none comes twice.
Forked == Cardinality({p \in Pids : child[p] /= "none"})

\* A client connects, and the connection gets the slot's connfd.  Behind the slots
\* accept writes the address behind addr_cln as well, which is taken for unused,
\* as the padding is.
Accept ==
  /\ main.pc = "accept" /\ socket /= "closed" /\ Forked < MaxTrains
  /\ main' = [main EXCEPT !.pc = "fork"]
  /\ socket' = IF socket = "waited" THEN "closed" ELSE socket
  /\ UNCHANGED <<connfd_occupied, childs_pid, poller, child, sigchld, reaping>>

\* Mutant: a failed accept starts the next round.
AcceptFailsNext ==
  /\ main.pc = "accept"
  /\ main' = [pc |-> "search", i |-> 0]
  /\ UNCHANGED <<connfd_occupied, childs_pid, poller, child, sigchld, reaping, socket>>

\* Mutant: a failed accept is tried again.
AcceptFailsAgain == main.pc = "accept" /\ UNCHANGED vars

\* errexit, after Ctrl-C or when the server, which never closes a connection,
\* has no descriptor left.  The trains go on without it.
AcceptFails ==
  /\ main.pc = "accept"
  /\ main' = [main EXCEPT !.pc = "ended"]
  /\ UNCHANGED <<connfd_occupied, childs_pid, poller, child, sigchld, reaping, socket>>

ForkFails ==
  /\ main.pc = "fork" /\ main' = [main EXCEPT !.pc = "ended"]
  /\ UNCHANGED <<connfd_occupied, childs_pid, poller, child, sigchld, reaping, socket>>

\* The child is there before its pid is in the slot.
Fork ==
  /\ main.pc = "fork"
  /\ child' = [child EXCEPT ![Forked + 1] = "running"]
  /\ main' = [main EXCEPT !.pc = "record"]
  /\ UNCHANGED <<connfd_occupied, childs_pid, poller, sigchld, reaping, socket>>

\* Mutant: the pid goes into the slot after the one that was found.
RecordNext ==
  /\ main.pc = "record"
  /\ childs_pid' = [childs_pid EXCEPT ![(main.i + 1) % CLIENT_MAXIMUN] = Forked]
  /\ main' = [pc |-> "search", i |-> 0]
  /\ UNCHANGED <<connfd_occupied, poller, child, sigchld, reaping, socket>>

Record ==
  /\ main.pc = "record"
  /\ childs_pid' = [childs_pid EXCEPT ![main.i] = Forked]
  /\ main' = [pc |-> "search", i |-> 0]
  /\ UNCHANGED <<connfd_occupied, poller, child, sigchld, reaping, socket>>

Main == Search \/ Accept \/ AcceptFails \/ ForkFails \/ Fork \/ Record

-----------------------------------------------------------------------------
(* childprocess: dup2 and sl, until the train has passed *)

Exit(p) ==
  /\ child[p] = "running" /\ child' = [child EXCEPT ![p] = "zombie"]
  /\ sigchld' = Alive
  /\ UNCHANGED <<connfd_occupied, childs_pid, main, poller, reaping, socket>>

-----------------------------------------------------------------------------
(* wait_for_child *)

\* Mutant: <= for <.
NextSlotPast ==
  [poller EXCEPT !.pc = "check", !.i = (@ + 1) % (CLIENT_MAXIMUN + 1), !.pid = 0]

NextSlot == [poller EXCEPT !.pc = "check", !.i = (@ + 1) % CLIENT_MAXIMUN, !.pid = 0]

Check ==
  /\ Alive /\ poller.pc = "check"
  /\ poller' = IF connfd_occupied[poller.i] = 1 THEN [poller EXCEPT !.pc = "wait"]
                                                ELSE NextSlot
  /\ UNCHANGED <<connfd_occupied, childs_pid, main, child, sigchld, reaping, socket>>

\* waitpid(childs_pid[i], NULL, WNOHANG) returns the pid of a child it reaped, 0
\* if there are only running ones, -1 if there is none.  0 asks for any child.
Asked == IF childs_pid[poller.i] = 0 THEN Pids ELSE {childs_pid[poller.i]}

Wait ==
  /\ Alive /\ poller.pc = "wait"
  /\ IF Asked \cap Zombies /= {}
     THEN \E p \in Asked \cap Zombies :
            /\ child' = [child EXCEPT ![p] = "polled"]
            /\ poller' = [poller EXCEPT !.pc = "compare", !.pid = p]
     ELSE /\ poller' = [poller EXCEPT !.pc = "compare",
                          !.pid = IF Asked \cap Running /= {} THEN 0 ELSE -1]
          /\ UNCHANGED child
  /\ UNCHANGED <<connfd_occupied, childs_pid, main, sigchld, reaping, socket>>

Compare ==
  /\ Alive /\ poller.pc = "compare"
  /\ poller' = IF poller.pid = childs_pid[poller.i] THEN [poller EXCEPT !.pc = "free"]
                                                    ELSE NextSlot
  /\ UNCHANGED <<connfd_occupied, childs_pid, main, child, sigchld, reaping, socket>>

Free ==
  /\ Alive /\ poller.pc = "free"
  /\ connfd_occupied' = [connfd_occupied EXCEPT ![poller.i] = 0]
  /\ poller' = NextSlot
  /\ UNCHANGED <<childs_pid, main, child, sigchld, reaping, socket>>

WaitForChild == Check \/ Wait \/ Compare \/ Free

-----------------------------------------------------------------------------
(* The signal handlers *)

\* zombie_process_handler is entered; children that exit from now on are one
\* more signal, however many they are.
Delivered ==
  /\ Alive /\ sigchld /\ ~reaping
  /\ sigchld' = FALSE /\ reaping' = TRUE
  /\ UNCHANGED <<connfd_occupied, childs_pid, main, poller, child, socket>>

\* Mutant: if instead of while.
ReapOne ==
  /\ Alive /\ reaping /\ Zombies /= {}
  /\ \E p \in Zombies : child' = [child EXCEPT ![p] = "handled"]
  /\ reaping' = FALSE
  /\ UNCHANGED <<connfd_occupied, childs_pid, main, poller, sigchld, socket>>

Reap ==
  /\ Alive /\ reaping /\ Zombies /= {}
  /\ \E p \in Zombies : child' = [child EXCEPT ![p] = "handled"]
  /\ UNCHANGED <<connfd_occupied, childs_pid, main, poller, sigchld, reaping, socket>>

ReapedAll ==
  /\ Alive /\ reaping /\ Zombies = {}
  /\ reaping' = FALSE
  /\ UNCHANGED <<connfd_occupied, childs_pid, main, poller, child, sigchld, socket>>

ZombieProcessHandler == Delivered \/ Reap \/ ReapedAll

\* interrupt_handler closes every descriptor.  In the main thread it interrupts
\* an accept, which is then tried on the closed socket; in the other thread an
\* accept that is waiting keeps the socket until a client has come.
InterruptHandler ==
  /\ Alive /\ socket = "open"
  /\ socket' \in IF main.pc = "accept" THEN {"closed", "waited"} ELSE {"closed"}
  /\ UNCHANGED <<connfd_occupied, childs_pid, main, poller, child, sigchld, reaping>>

\* init reaps what the server leaves.
Orphaned(p) ==
  /\ ~Alive /\ child[p] = "zombie" /\ child' = [child EXCEPT ![p] = "handled"]
  /\ UNCHANGED <<connfd_occupied, childs_pid, main, poller, sigchld, reaping, socket>>

-----------------------------------------------------------------------------

Next == \/ Main \/ WaitForChild \/ ZombieProcessHandler \/ InterruptHandler
        \/ \E p \in Pids : Exit(p) \/ Orphaned(p)

\* Threads and handlers get on; clients come, and trains pass, as they like.
Spec == Init /\ [][Next]_vars
FairSpec ==
  /\ Spec
  /\ WF_vars(Search) /\ WF_vars(Fork \/ ForkFails) /\ WF_vars(Record)
  /\ WF_vars(AcceptFails /\ socket = "closed")
  /\ WF_vars(WaitForChild) /\ WF_vars(ZombieProcessHandler)
  /\ WF_vars(\E p \in Pids : Orphaned(p))

-----------------------------------------------------------------------------

TypeOK ==
  /\ connfd_occupied \in [Words -> 0..1] /\ childs_pid \in [Words -> {0} \cup Pids]
  /\ main \in [pc : {"search", "accept", "fork", "record", "strayed", "ended"},
               i : 0..(CLIENT_MAXIMUN + Padding)]
  /\ poller \in [pc : {"check", "wait", "compare", "free"}, i : Slots, pid : -1..MaxTrains]
  /\ child \in [Pids -> {"none", "running", "zombie", "polled", "handled"}]
  /\ sigchld \in BOOLEAN /\ reaping \in BOOLEAN
  /\ socket \in {"open", "closed", "waited"}

\* A slot is the main thread's from its assignment (75) to the end of the round.
InHand(w) == main.pc \in {"accept", "fork", "record"} /\ main.i = w

\* A slot that is taken, and not in main's hands, is the slot of one train and of
\* no other slot's: of one that is still to be waited for, of one that is being
\* let go, or of one that somebody else reaped, and then it stays taken for good
\* (72-81 against 118-127 and 26).
TakenForATrain ==
  \A w \in Words : Alive /\ connfd_occupied[w] = 1 /\ ~InHand(w) =>
    /\ childs_pid[w] /= 0
    /\ \A v \in Words : v /= w => childs_pid[v] /= childs_pid[w]

\* The slots are left behind (71) only after at least as many trains as there are
\* slots were forked, gone or not: no fewer clients overrun them.
StraysOnlyWhenFull ==
  main.pc \in {"accept", "fork", "record", "strayed"} /\ main.i \notin Slots =>
    Forked >= CLIENT_MAXIMUN

\* No zombie stays ("the assistant checks that no zombie is left", lab5/README.md:73):
\* neither a signal that stands for several children, nor a slot that was freed
\* too early, nor one that was never freed loses a child.
NoZombieStays == \A p \in Pids : child[p] = "zombie" ~> child[p] \in {"polled", "handled"}

\* Ctrl-C ends the server, unless an accept still waits for one last client, or
\* main has left the array, behind which it is not followed.
CtrlCEnds == socket = "closed" ~> main.pc \in {"ended", "strayed"}
=============================================================================
