------------------------------ MODULE Controller ------------------------------
(***************************************************************************)
(* The life of the elevator controller: main.c from semaphoreInit to its    *)
(* last return, the processes it forks as far as they use the System V       *)
(* objects, Ctrl-C, kill -9, kill_sem.sh, and the next run of the program on  *)
(* what the last one left.                                                   *)
(*                                                                           *)
(* The key "elevator" stands for those of the elevators, the floors and the  *)
(* passenger ID, on which an error does not stop semaphoreInit and the two   *)
(* removals; "int" and "pid" for the two keys on which it does.              *)
(***************************************************************************)
EXTENDS Integers, FiniteSets

CONSTANTS MaxRuns,  \* bound: how often the program is started
          Followed, \* bound: the runs whose workers, gpioProcess and clients are followed
          Workers,  \* processes of the cars, the scheduler and the parking ones
          Clients,  \* bound: the clients that connect, in all runs
          Together  \* bound: how many of these processes are followed at a time

Runs == 1..MaxRuns
Keys == {"elevator", "int", "pid"}
Procs == {"main", "gpio", "parent"} \cup Workers \cup Clients

ASSUME RunsAssumption ==
  /\ MaxRuns \in Nat /\ Followed \subseteq Runs
  /\ (Workers \cup Clients) \cap {"main", "gpio", "parent"} = {} /\ Workers \cap Clients = {}

VARIABLES
  sem, shm,   \* the run that created the object a key leads to, 0 when there is none
  shmID,      \* per run: the segments shmget gave it
  pc,         \* per run and process
  rm,         \* per run and process: how far it is in sharedMemoryRemove, semaphoreRemove
  interrupted \* the run that got Ctrl-C, if one did

vars == <<sem, shm, shmID, pc, rm, interrupted>>

Init ==
  /\ sem = [k \in Keys |-> 0] /\ shm = [k \in Keys |-> 0]
  /\ shmID = [r \in Runs |-> [k \in Keys |-> 0]]
  /\ pc = [r \in Runs |-> [p \in Procs |-> "none"]]
  /\ rm = [r \in Runs |-> [p \in Procs |-> "none"]]
  /\ interrupted = {}

Alive(r, p) == pc[r][p] \notin {"none", "ended", "left", "failed", "killed"}

\* A process in the signal handler does nothing else.
At(r, p, place) == pc[r][p] = place /\ rm[r][p] = "none"

Goes(r, p, place) == pc' = [pc EXCEPT ![r][p] = place]

-----------------------------------------------------------------------------
(* main: start-up *)

Start(r) ==
  /\ At(r, "main", "none")
  /\ \A s \in 1..(r - 1) : /\ pc[s]["main"] /= "none"
                          /\ (s \notin interrupted \/ ~Alive(s, "main")) \* bound
  /\ Goes(r, "main", "elevator")
  /\ UNCHANGED <<sem, shm, shmID, rm, interrupted>>

\* semget, IPC_CREAT | IPC_EXCL.
Created(r, k) == IF sem[k] = 0 THEN [sem EXCEPT ![k] = r] ELSE sem

\* Mutant: IPC_CREAT alone, which gives the semaphore that is there.
AcceptedAny(r, k) == TRUE

Accepted(r, k) == sem'[k] = r

\* semaphoreInit: a failure on "elevator" only shows in what it returns.
SemaphoreInit(r) ==
  /\ \E k \in Keys :
       /\ At(r, "main", k) /\ sem' = Created(r, k)
       /\ Goes(r, "main",
               CASE k = "elevator" -> "int"
                 [] k = "int" -> IF Accepted(r, k) THEN "pid" ELSE "failed"
                 [] k = "pid" -> IF Accepted(r, k) /\ Accepted(r, "elevator") THEN "shm"
                                                                               ELSE "failed")
  /\ UNCHANGED <<shm, shmID, rm, interrupted>>

\* shmget without IPC_EXCL: a segment that is there is taken over.
Attach(r, ks) ==
  /\ shm' = [k \in Keys |-> IF k \in ks /\ shm[k] = 0 THEN r ELSE shm[k]]
  /\ shmID' = [shmID EXCEPT ![r] = [k \in Keys |-> IF k \in ks THEN shm'[k] ELSE @[k]]]

SharedMemoryInit(r) ==
  /\ \/ At(r, "main", "shm") /\ Attach(r, {"elevator", "int"}) /\ Goes(r, "main", "shmPid")
     \/ At(r, "main", "shmPid") /\ Attach(r, {"pid"}) /\ Goes(r, "main", "forkWorkers")
  /\ UNCHANGED <<sem, rm, interrupted>>

\* F_ERR_SHM_INIT: the segments stay.
SharedMemoryInitFails(r) ==
  /\ At(r, "main", "shmPid") /\ Goes(r, "main", "error")
  /\ rm' = [rm EXCEPT ![r]["main"] = "sem"]
  /\ UNCHANGED <<sem, shm, shmID, interrupted>>

\* Whether another process of r is followed.
Room(r) == Cardinality({p \in Workers \cup Clients \cup {"gpio"} : pc[r][p] /= "none"}) < Together

\* The workers, by what they begin with: a simulation or assignment process, the
\* scheduler, an up-peak or zoning process, or one that is not followed.
ForkWorkers(r) ==
  /\ At(r, "main", "forkWorkers")
  /\ \E begin \in [Workers -> {"acquire", "schedule", "park", "none"}] :
       /\ Cardinality({w \in Workers : begin[w] /= "none"})
            <= (IF r \in Followed THEN Together ELSE 0)
       /\ pc' = [pc EXCEPT ![r] =
                   [p \in Procs |-> IF p = "main" THEN "forkGpio"
                                    ELSE IF p \in Workers /\ begin[p] /= "none" THEN begin[p]
                                    ELSE @[p]]]
  /\ UNCHANGED <<sem, shm, shmID, rm, interrupted>>

Fork(r) ==
  /\ \/ /\ At(r, "main", "forkGpio")
        /\ \E begin \in (IF r \in Followed /\ Room(r) THEN {"open"} ELSE {}) \cup {pc[r]["gpio"]} :
             pc' = [pc EXCEPT ![r]["gpio"] = begin, ![r]["main"] = "bind"]
     \/ /\ At(r, "main", "forkParent")
        /\ pc' = [pc EXCEPT ![r]["parent"] = IF r \in Followed THEN "accept" ELSE @,
                            ![r]["main"] = "menu"]
  /\ UNCHANGED <<sem, shm, shmID, rm, interrupted>>

\* F_ERR_PROCESS: whoever was started is not told.
ForkFails(r) ==
  /\ pc[r]["main"] \in {"forkWorkers", "forkGpio", "forkParent"} /\ Goes(r, "main", "error")
  /\ rm' = [rm EXCEPT ![r]["main"] = "shm"]
  /\ UNCHANGED <<sem, shm, shmID, interrupted>>

\* passivesock, which ends the process when the port is in use.
Bind(r) ==
  /\ At(r, "main", "bind")
  /\ Goes(r, "main", "forkParent") \/ Goes(r, "main", "failed")
  /\ UNCHANGED <<sem, shm, shmID, rm, interrupted>>

-----------------------------------------------------------------------------
(* main: the way out *)

\* Choice 0: F_EXIT kills the workers and parentProcess, not gpio and the clients.
Exit(r) ==
  /\ At(r, "main", "menu")
  /\ pc' = [pc EXCEPT ![r] = [p \in Procs |-> IF p = "main" THEN "exit"
                                           ELSE IF p \in Workers \cup {"parent"} THEN "ended" ELSE @[p]]]
  /\ rm' = [rm EXCEPT ![r] = [p \in Procs |-> IF p = "main" THEN "shm"
                                           ELSE IF p \in Workers \cup {"parent"} THEN "none" ELSE @[p]]]
  /\ UNCHANGED <<sem, shm, shmID, interrupted>>

\* Mutant: main returns without waiting for its removals.
LeaveEarly(r) ==
  /\ pc[r]["main"] = "exit" /\ Goes(r, "main", "left")
  /\ UNCHANGED <<sem, shm, shmID, rm, interrupted>>

\* The return of main, after its removals.
Leave(r) ==
  /\ \/ At(r, "main", "exit") /\ Goes(r, "main", "left")
     \/ At(r, "main", "error") /\ Goes(r, "main", "failed")
  /\ UNCHANGED <<sem, shm, shmID, rm, interrupted>>

\* SIGKILL for some processes of a run: the objects stay.
Dead(r, ps) ==
  /\ pc' = [pc EXCEPT ![r] = [p \in Procs |-> IF p \notin ps THEN @[p]
                                           ELSE IF p = "main" THEN "killed"
                                           ELSE IF @[p] = "none" THEN "none" ELSE "ended"]]
  /\ rm' = [rm EXCEPT ![r] = [p \in Procs |-> IF p \in ps THEN "none" ELSE @[p]]]
  /\ UNCHANGED <<sem, shm, shmID, interrupted>>

\* By hand, or a fault in sharedMemoryInit, which goes on without a segment.  The
\* children live on.  Bound: none of them has a handler still at work, which after
\* kill_sem.sh could take a segment from the next run.
Killed(r) ==
  /\ Alive(r, "main") /\ Dead(r, {"main"})
  /\ \A p \in Procs \ {"main"} : rm[r][p] = "none"

-----------------------------------------------------------------------------
(* Ctrl-C: SIGINT_handler in every process of the foreground group *)

\* bound: one Ctrl-C, at the menu, in a run that another may follow and before that
\* one starts.  The handler is installed in the first lines of main: left out are a
\* Ctrl-C before the ids are set, which removes what has the id 0, and one while
\* main removes.
Interrupt(r) ==
  /\ At(r, "main", "menu")
  /\ interrupted = {} /\ r < MaxRuns /\ \A s \in Runs : s > r => pc[s]["main"] = "none"
  /\ interrupted' = interrupted \cup {r}
  /\ rm' = [rm EXCEPT ![r] = [p \in Procs |-> IF Alive(r, p) THEN "shm" ELSE @[p]]]
  /\ UNCHANGED <<sem, shm, shmID, pc>>

\* IPC_RMID of what is still this run's.
ShmWithout(r, ks) == [k \in Keys |-> IF k \in ks /\ shm[k] = shmID[r][k] THEN 0 ELSE shm[k]]
SemWithout(r, ks) == [k \in Keys |-> IF k \in ks /\ sem[k] = r THEN 0 ELSE sem[k]]

\* semaphoreRemove returns at once when "int" fails.
semaphoreRemove(r, p) ==
  /\ sem' = SemWithout(r, {"elevator", "int"})
  /\ rm' = [rm EXCEPT ![r][p] = IF sem["int"] = r THEN "semPid" ELSE "none"]

\* Mutant: the semaphores are removed only after every segment was.
IntSegmentGoneStops(r, p) == rm' = [rm EXCEPT ![r][p] = "none"] /\ UNCHANGED sem

\* sharedMemoryRemove returns at once when "int" fails, and semaphoreRemove follows anyway.
IntSegmentGone(r, p) == semaphoreRemove(r, p)

\* Two removals meet only where one of them can fail, before "int": a failed step
\* is taken together with the next one, and so are the segment of the pids and
\* the semaphores up to "int".
Shm(r, p) ==
  /\ rm[r][p] = "shm" /\ shm' = ShmWithout(r, {"elevator", "int"})
  /\ IF shm["int"] = shmID[r]["int"]
     THEN rm' = [rm EXCEPT ![r][p] = "shmPid"] /\ UNCHANGED sem
     ELSE IntSegmentGone(r, p)

ShmPid(r, p) ==
  /\ rm[r][p] = "shmPid" /\ shm' = ShmWithout(r, {"pid"})
  /\ semaphoreRemove(r, p)

SemPid(r, p) ==
  /\ rm[r][p] = "semPid" /\ sem' = SemWithout(r, {"pid"})
  /\ rm' = [rm EXCEPT ![r][p] = "none"] /\ UNCHANGED shm

\* F_ERR_SHM_INIT leaves out the segments.
Sem(r, p) == rm[r][p] = "sem" /\ semaphoreRemove(r, p) /\ UNCHANGED shm

Remove(r, p) ==
  /\ Shm(r, p) \/ ShmPid(r, p) \/ Sem(r, p) \/ SemPid(r, p)
  /\ UNCHANGED <<shmID, pc, interrupted>>

-----------------------------------------------------------------------------
(* parentProcess and the clients *)

Connect(r, c) ==
  /\ At(r, "parent", "accept") /\ r \notin interrupted /\ r \in Followed /\ Room(r)
  /\ \A s \in Runs : pc[s][c] = "none"
  /\ c = CHOOSE d \in Clients : \A s \in Runs : pc[s][d] = "none" \* bound: one after the other
  /\ Goes(r, c, "attach")
  /\ UNCHANGED <<sem, shm, shmID, rm, interrupted>>

\* accept or fork fails: parentProcess returns to main, which has no exit there,
\* and goes on as a second menu.
ParentReturns(r) ==
  /\ At(r, "parent", "accept") /\ Goes(r, "parent", "menu")
  /\ UNCHANGED <<sem, shm, shmID, rm, interrupted>>

\* Choice 0 in the second menu, where parent_pid is 0: kill(0, SIGKILL).
ParentExits(r) == At(r, "parent", "menu") /\ Dead(r, Procs)

\* Who has the elevators' segments attached.
Inside(r, p) == pc[r][p] \in {"attached", "scheduling", "parking", "doors", "spinning"}

\* shmat works on a removed segment as long as somebody is attached to it.
Attached(id) == \E r \in Runs : shmID[r]["elevator"] = id /\ \E p \in Procs : Inside(r, p)
Attachable(r) == LET id == shmID[r]["elevator"]
                 IN shm["elevator"] = id \/ Attached(id)

\* The loop of a client: attach and write, until one of them fails.  The handler
\* has closed connfd.
ClientAttach(r, c) ==
  /\ At(r, c, "attach")
  /\ Goes(r, c, IF Attachable(r) THEN "attached" ELSE "ended")
  /\ UNCHANGED <<sem, shm, shmID, rm, interrupted>>

ClientWrite(r, c) ==
  /\ At(r, c, "attached")
  /\ (Goes(r, c, "attach") /\ r \notin interrupted) \/ Goes(r, c, "ended")
  /\ UNCHANGED <<sem, shm, shmID, rm, interrupted>>

-----------------------------------------------------------------------------
(* The loops of the workers and of gpioProcess, as far as they can end *)

\* The loop of a car and that of the scheduler.
Inner(place) == IF place = "acquire" THEN "attached" ELSE "scheduling"

\* Mutant: a failed semop is not noticed.
WorkerAcquireBlind(r, w) ==
  /\ \E place \in {"acquire", "schedule"} :
       At(r, w, place) /\ Goes(r, w, IF Attachable(r) THEN Inner(place) ELSE place)
  /\ UNCHANGED <<sem, shm, shmID, rm, interrupted>>

WorkerAcquire(r, w) ==
  /\ \E place \in {"acquire", "schedule"} :
       /\ At(r, w, place)
       /\ Goes(r, w, IF sem["elevator"] = r /\ Attachable(r) THEN Inner(place) ELSE "ended")
  /\ UNCHANGED <<sem, shm, shmID, rm, interrupted>>

\* A failure to release is not noticed.
WorkerRelease(r, w) ==
  /\ \E place \in {"acquire", "schedule"} : At(r, w, Inner(place)) /\ Goes(r, w, place)
  /\ UNCHANGED <<sem, shm, shmID, rm, interrupted>>

\* A stop: elevatorOperationSleep, as often as there are doors and passengers,
\* releases and acquires whatever semop says; the floor's semaphore is minded.
CarStops(r, w) ==
  /\ \/ At(r, w, "attached") /\ Goes(r, w, "doors")
     \/ At(r, w, "doors") /\ Goes(r, w, "acquire")
     \/ At(r, w, "doors") /\ sem["elevator"] /= r /\ Goes(r, w, "ended")
  /\ UNCHANGED <<sem, shm, shmID, rm, interrupted>>

\* policyRoundRobin, on copies of cars that are all full: there is no way out.
SchedulerSpins(r, w) ==
  /\ At(r, w, "scheduling") /\ Goes(r, w, "spinning")
  /\ UNCHANGED <<sem, shm, shmID, rm, interrupted>>

\* Attach and detach; a semaphore is asked for only to send the car home.
Park(r, w) ==
  /\ \/ At(r, w, "park") /\ Goes(r, w, IF Attachable(r) THEN "parking" ELSE "ended")
     \/ At(r, w, "parking") /\ Goes(r, w, "park")
     \/ At(r, w, "parking") /\ sem["elevator"] /= r /\ Goes(r, w, "ended")
  /\ UNCHANGED <<sem, shm, shmID, rm, interrupted>>

\* The LED and button devices need not be there.
GpioOpen(r) ==
  /\ At(r, "gpio", "open")
  /\ Goes(r, "gpio", "pid") \/ Goes(r, "gpio", "ended")
  /\ UNCHANGED <<sem, shm, shmID, rm, interrupted>>

GpioPids(r) ==
  /\ At(r, "gpio", "pid")
  /\ Goes(r, "gpio", IF sem["pid"] = r /\ shm["pid"] = shmID[r]["pid"] THEN "attach"
                                                                     ELSE "ended")
  /\ UNCHANGED <<sem, shm, shmID, rm, interrupted>>

GpioAttach(r) ==
  /\ At(r, "gpio", "attach")
  /\ Goes(r, "gpio", IF Attachable(r) THEN "attached" ELSE "ended")
  /\ UNCHANGED <<sem, shm, shmID, rm, interrupted>>

\* From the attached elevators to the detached ones, with a semop on each.
GpioShow(r) ==
  /\ At(r, "gpio", "attached")
  /\ Goes(r, "gpio", IF sem["elevator"] = r THEN "attach" ELSE "ended")
  /\ UNCHANGED <<sem, shm, shmID, rm, interrupted>>

-----------------------------------------------------------------------------
\* kill_sem.sh, when no menu is up.  Its last two keys are not those of the
\* segments, which main.c creates under the keys of the semaphores.
KillSem ==
  /\ \A r \in Runs : ~Alive(r, "main")
  /\ \E k \in Keys : sem[k] /= 0
  /\ sem' = [k \in Keys |-> 0] /\ shm' = [shm EXCEPT !["elevator"] = 0]
  /\ UNCHANGED <<shmID, pc, rm, interrupted>>

Main(r) == \/ SemaphoreInit(r) \/ SharedMemoryInit(r) \/ SharedMemoryInitFails(r)
           \/ ForkWorkers(r) \/ Fork(r) \/ ForkFails(r) \/ Bind(r) \/ Leave(r)
Worker(r, w) == \/ WorkerAcquire(r, w) \/ WorkerRelease(r, w)
                \/ CarStops(r, w) \/ SchedulerSpins(r, w) \/ Park(r, w)
Gpio(r) == GpioOpen(r) \/ GpioPids(r) \/ GpioAttach(r) \/ GpioShow(r)
Client(r, c) == ClientAttach(r, c) \/ ClientWrite(r, c)

Next ==
  \/ KillSem
  \/ \E r \in Runs :
       \/ Start(r) \/ Main(r) \/ Exit(r) \/ Killed(r) \/ Interrupt(r)
       \/ ParentReturns(r) \/ ParentExits(r)
       \/ Gpio(r)
       \/ \E w \in Workers : Worker(r, w)
       \/ \E c \in Clients : Connect(r, c) \/ Client(r, c)
       \/ \E p \in Procs : Remove(r, p)

Spec == Init /\ [][Next]_vars

\* The children get to run, in their loops and in the handler.
Fairness ==
  \A r \in Followed : /\ \A w \in Workers : WF_vars(Worker(r, w) \/ Remove(r, w))
                      /\ WF_vars(Gpio(r) \/ Remove(r, "gpio"))
                      /\ \A c \in Clients : WF_vars(Client(r, c) \/ Remove(r, c))

FairSpec == Spec /\ Fairness

-----------------------------------------------------------------------------
(* Properties *)

\* What main has from the first fork to the menu.
Up(r) == pc[r]["main"] \in {"forkWorkers", "forkGpio", "bind", "forkParent", "menu"}

Places == {"none", "elevator", "int", "pid", "shm", "shmPid", "forkWorkers", "forkGpio", "bind",
           "forkParent", "menu", "exit", "error", "left", "failed", "killed", "open", "accept",
           "acquire", "attach", "attached", "doors", "schedule", "scheduling", "spinning", "park",
           "parking", "ended"}

\* Type invariant; a process is in the handler or in a removal only while it lives.
TypeOK ==
  /\ sem \in [Keys -> 0..MaxRuns] /\ shm \in [Keys -> 0..MaxRuns]
  /\ shmID \in [Runs -> [Keys -> 0..MaxRuns]]
  /\ pc \in [Runs -> [Procs -> Places]]
  /\ rm \in [Runs -> [Procs -> {"none", "shm", "shmPid", "sem", "semPid"}]]
  /\ \A r \in Runs : \A p \in Procs : rm[r][p] /= "none" => Alive(r, p)
  /\ interrupted \subseteq Runs

\* While a controller is up and nobody pressed its Ctrl-C, its semaphores are its
\* own and its segments are there, whatever other runs start, fail, are killed or
\* still remove (main.c:36-134, InterProcessCommunication.c:11-128).  The segment of
\* the pids is not promised: a handler of an earlier run may still be about to remove
\* it.  Left out is an earlier main killed with handlers at work (see Killed).
RunningKeepsItsObjects ==
  \A r \in Runs : Up(r) /\ r \notin interrupted =>
    /\ \A k \in Keys : sem[k] = r
    /\ \A k \in {"elevator", "int"} : shm[k] = shmID[r][k]

\* A main that returned from choice 0 left nothing of its own behind; after a
\* Ctrl-C at most the two objects of the pids, when the process whose handler had
\* removed "int" was killed before it came to them (main.c:187-228).
ExitLeavesOnlyPid ==
  \A r \in Runs : pc[r]["main"] = "left" =>
    \A k \in (IF r \in interrupted THEN Keys \ {"pid"} ELSE Keys) :
      sem[k] /= r /\ shm[k] /= r

\* Who can stay without a semaphore and, as long as somebody else stays, without
\* the segments: the scheduler in its search, the parking processes, and the clients
\* until a handler has closed their connfd.
Stays(r, p) == \/ pc[r][p] \in {"park", "parking", "spinning"}
               \/ p \in Clients /\ r \notin interrupted

\* By its own search, or by another that stays.
Kept(r, p) ==
  /\ Stays(r, p)
  /\ \/ pc[r][p] = "spinning"
     \/ \E q \in Procs \ {p} : Stays(r, q) /\ Inside(r, q)

\* Once a run's semaphores are removed, by main, Ctrl-C or kill_sem.sh, its workers,
\* gpioProcess (which main does not kill, main.c:201) and its clients end, each by
\* the semaphore, the segment or the connection it misses, and only those above
\* ever keep anybody.
EverybodyLeaves ==
  \A r \in Followed : \A p \in Workers \cup Clients \cup {"gpio"} :
    (Alive(r, p) /\ sem["elevator"] /= r) ~> (~Alive(r, p) \/ Kept(r, p))
=============================================================================
