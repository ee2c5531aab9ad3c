--------------------------- MODULE ControllerProofs ---------------------------
(***************************************************************************)
(* The types of the controller's life, that a controller that is up keeps    *)
(* its objects, and what an orderly exit leaves, for every number of runs.    *)
(***************************************************************************)
EXTENDS Controller, TLAPS

Stages == {"none", "shm", "shmPid", "sem", "semPid"}

-----------------------------------------------------------------------------
(* How pc and rm change. *)

LEMMA GoesTypes ==
  ASSUME TypeOK, NEW r \in Runs, NEW p \in Procs, NEW place \in Places, Goes(r, p, place)
  PROVE  /\ pc' \in [Runs -> [Procs -> Places]]
         /\ \A s \in Runs : \A q \in Procs :
              pc'[s][q] = IF s = r /\ q = p THEN place ELSE pc[s][q]
BY DEF TypeOK, Goes

LEMMA TypeInit == Init => TypeOK
BY RunsAssumption DEF Init, TypeOK, Runs, Keys, Places

\* Whoever moves is not in a removal, and does not touch rm.
LEMMA TypeMove ==
  ASSUME TypeOK, NEW r \in Runs, NEW p \in Procs, NEW place \in Places,
         Goes(r, p, place), rm[r][p] = "none",
         UNCHANGED <<shm, shmID, rm, interrupted>>, sem' \in [Keys -> 0..MaxRuns]
  PROVE  TypeOK'
<1>1. /\ pc' \in [Runs -> [Procs -> Places]]
      /\ \A s \in Runs : \A q \in Procs :
           pc'[s][q] = IF s = r /\ q = p THEN place ELSE pc[s][q]
  BY GoesTypes
<1>2. \A s \in Runs : \A q \in Procs : rm'[s][q] /= "none" => Alive(s, q)'
  <2> SUFFICES ASSUME NEW s \in Runs, NEW q \in Procs, rm[s][q] /= "none"
               PROVE  Alive(s, q)'
    OBVIOUS
  <2>1. Alive(s, q) /\ ~(s = r /\ q = p)
    BY DEF TypeOK
  <2>. QED  BY <1>1, <2>1 DEF Alive
<1>. QED  BY <1>1, <1>2 DEF TypeOK

\* A step of a worker, gpioProcess, parentProcess or a client.
Others(r) == \/ ParentReturns(r) \/ Gpio(r)
             \/ \E w \in Workers : Worker(r, w)
             \/ \E c \in Clients : Connect(r, c) \/ Client(r, c)

LEMMA OthersMove ==
  ASSUME TypeOK, NEW r \in Runs, Others(r)
  PROVE  /\ \E p \in Procs \ {"main"}, place \in Places : Goes(r, p, place) /\ rm[r][p] = "none"
         /\ UNCHANGED <<sem, shm, shmID, rm, interrupted>>
<1>p. /\ "gpio" \in Procs \ {"main"} /\ "parent" \in Procs \ {"main"}
      /\ \A p \in Workers \cup Clients : p \in Procs \ {"main"}
  BY RunsAssumption DEF Procs
<1>1. CASE ParentReturns(r) \/ Gpio(r)
  BY <1>1, <1>p DEF ParentReturns, Gpio, GpioOpen, GpioPids, GpioAttach, GpioShow, At, Places
<1>2. ASSUME NEW w \in Workers, Worker(r, w)
      PROVE  /\ \E place \in Places : Goes(r, w, place) /\ rm[r][w] = "none"
             /\ UNCHANGED <<sem, shm, shmID, rm, interrupted>>
  <2>1. CASE WorkerAcquire(r, w) \/ WorkerRelease(r, w)
    BY <2>1 DEF WorkerAcquire, WorkerRelease, Inner, At, Places
  <2>2. CASE CarStops(r, w) \/ SchedulerSpins(r, w) \/ Park(r, w)
    BY <2>2 DEF CarStops, SchedulerSpins, Park, At, Places
  <2>. QED  BY <1>2, <2>1, <2>2 DEF Worker
<1>3. ASSUME NEW c \in Clients, Connect(r, c) \/ Client(r, c)
      PROVE  /\ \E place \in Places : Goes(r, c, place) /\ rm[r][c] = "none"
             /\ UNCHANGED <<sem, shm, shmID, rm, interrupted>>
  <2>1. CASE Connect(r, c)
    <3>1. Goes(r, c, "attach") /\ pc[r][c] = "none"
      BY <2>1 DEF Connect
    <3>. QED  BY <1>p, <2>1, <3>1 DEF Connect, TypeOK, Alive, Places
  <2>2. CASE Client(r, c)
    BY <2>2 DEF Client, ClientAttach, ClientWrite, At, Places
  <2>. QED  BY <1>3, <2>1, <2>2
<1>. QED  BY <1>1, <1>2, <1>3, <1>p DEF Others

\* What a fork changes: main goes on, and who is started is not in a removal.
LEMMA ForkTypes ==
  ASSUME TypeOK, NEW r \in Runs, ForkWorkers(r) \/ Fork(r)
  PROVE  /\ pc' \in [Runs -> [Procs -> Places]]
         /\ UNCHANGED <<sem, shm, shmID, rm, interrupted>>
         /\ \A s \in Runs, p \in Procs :
              rm[s][p] /= "none" => pc'[s][p] \notin {"none", "ended", "left", "failed", "killed"}
         /\ \A s \in Runs : s /= r => pc'[s] = pc[s]
         /\ pc[r]["main"] \in {"forkWorkers", "forkGpio", "forkParent"}
         /\ pc'[r]["main"] \in {"forkGpio", "bind", "menu"}
<1>p. {"main", "gpio", "parent"} \subseteq Procs
  BY DEF Procs
<1>w. "main" \notin Workers
  BY RunsAssumption
<1>1. CASE ForkWorkers(r)
  <2>1. PICK begin \in [Workers -> {"acquire", "schedule", "park", "none"}] :
          pc' = [pc EXCEPT ![r] = [p \in Procs |-> IF p = "main" THEN "forkGpio"
                                                ELSE IF p \in Workers /\ begin[p] /= "none" THEN begin[p] ELSE @[p]]]
    BY <1>1 DEF ForkWorkers
  <2>2. /\ pc[r]["main"] = "forkWorkers" /\ UNCHANGED <<sem, shm, shmID, rm, interrupted>>
        /\ rm[r]["main"] = "none"
    BY <1>1 DEF ForkWorkers, At
  <2>3. /\ pc' \in [Runs -> [Procs -> Places]] /\ \A s \in Runs : s /= r => pc'[s] = pc[s]
        /\ \A p \in Procs : pc'[r][p] = IF p = "main" THEN "forkGpio"
                                        ELSE IF p \in Workers /\ begin[p] /= "none" THEN begin[p] ELSE pc[r][p]
    BY <2>1 DEF TypeOK, Places
  <2>. QED  BY <1>p, <1>w, <2>2, <2>3 DEF TypeOK, Alive
<1>2. CASE Fork(r)
  <2>1. CASE At(r, "main", "forkGpio")
    <3>1. PICK begin \in {"open", pc[r]["gpio"]} :
            pc' = [pc EXCEPT ![r]["gpio"] = begin, ![r]["main"] = "bind"]
      BY <1>2, <2>1 DEF Fork, At
    <3>2. begin \in Places /\ "bind" \in Places
      BY <1>p DEF TypeOK, Places
    <3>3. /\ pc' \in [Runs -> [Procs -> Places]] /\ \A s \in Runs : s /= r => pc'[s] = pc[s]
          /\ \A p \in Procs : pc'[r][p] = IF p = "main" THEN "bind"
                                          ELSE IF p = "gpio" THEN begin ELSE pc[r][p]
      BY <1>p, <3>1, <3>2 DEF TypeOK
    <3>4. ASSUME NEW s \in Runs, NEW p \in Procs, rm[s][p] /= "none"
          PROVE  pc'[s][p] \notin {"none", "ended", "left", "failed", "killed"}
      <4>1. Alive(s, p)
        BY <3>4 DEF TypeOK
      <4>2. pc'[s][p] \in {pc[s][p], "open", "bind"}
        BY <3>1, <3>3
      <4>. QED  BY <4>1, <4>2 DEF Alive
    <3>. QED  BY <1>2, <1>p, <2>1, <3>3, <3>4 DEF Fork, At
  <2>2. CASE At(r, "main", "forkParent")
    <3>1. PICK begin \in {"accept", pc[r]["parent"]} :
            pc' = [pc EXCEPT ![r]["parent"] = begin, ![r]["main"] = "menu"]
      BY <1>2, <2>2 DEF Fork, At
    <3>2. begin \in Places /\ "menu" \in Places
      BY <1>p DEF TypeOK, Places
    <3>3. /\ pc' \in [Runs -> [Procs -> Places]] /\ \A s \in Runs : s /= r => pc'[s] = pc[s]
          /\ \A p \in Procs : pc'[r][p] = IF p = "main" THEN "menu"
                                          ELSE IF p = "parent" THEN begin ELSE pc[r][p]
      BY <1>p, <3>1, <3>2 DEF TypeOK
    <3>4. ASSUME NEW s \in Runs, NEW p \in Procs, rm[s][p] /= "none"
          PROVE  pc'[s][p] \notin {"none", "ended", "left", "failed", "killed"}
      <4>1. Alive(s, p)
        BY <3>4 DEF TypeOK
      <4>2. pc'[s][p] \in {pc[s][p], "accept", "menu"}
        BY <3>1, <3>3
      <4>. QED  BY <4>1, <4>2 DEF Alive
    <3>. QED  BY <1>2, <1>p, <2>2, <3>3, <3>4 DEF Fork, At
  <2>. QED  BY <1>2, <2>1, <2>2 DEF Fork
<1>. QED  BY <1>1, <1>2

LEMMA TypeNext == TypeOK /\ [Next]_vars => TypeOK'
<1> SUFFICES ASSUME TypeOK, [Next]_vars PROVE TypeOK'
  OBVIOUS
<1>p. /\ {"main", "gpio", "parent"} \subseteq Procs
      /\ \A p \in Workers \cup Clients : p \in Procs \ {"main"}
  BY RunsAssumption DEF Procs
<1>k. \A r \in Runs, k \in Keys : Created(r, k) \in [Keys -> 0..MaxRuns]
  BY RunsAssumption DEF TypeOK, Created, Runs
<1>w. \A r \in Runs : \A ks : /\ ShmWithout(r, ks) \in [Keys -> 0..MaxRuns]
                              /\ SemWithout(r, ks) \in [Keys -> 0..MaxRuns]
  BY RunsAssumption DEF TypeOK, ShmWithout, SemWithout, Runs
<1>1. ASSUME NEW r \in Runs, Start(r) PROVE TypeOK'
  BY <1>1, <1>p, TypeMove DEF Start, At, TypeOK, Places
<1>2. ASSUME NEW r \in Runs, SemaphoreInit(r) PROVE TypeOK'
  <2>1. PICK k \in Keys : /\ At(r, "main", k) /\ sem' = Created(r, k)
                          /\ \E place \in Places : Goes(r, "main", place)
    <3>1. PICK k \in Keys :
            /\ At(r, "main", k) /\ sem' = Created(r, k)
            /\ Goes(r, "main",
                    CASE k = "elevator" -> "int"
                      [] k = "int" -> IF Accepted(r, k) THEN "pid" ELSE "failed"
                      [] k = "pid" -> IF Accepted(r, k) /\ Accepted(r, "elevator")
                                      THEN "shm" ELSE "failed")
      BY <1>2 DEF SemaphoreInit
    <3>2. k \in {"elevator", "int", "pid"}
      BY DEF Keys
    <3>. QED  BY <3>1, <3>2 DEF Places
  <2>. QED  BY <1>2, <1>p, <1>k, <2>1, TypeMove DEF SemaphoreInit, At
<1>3. ASSUME NEW r \in Runs, SharedMemoryInit(r) PROVE TypeOK'
  <2>1. ASSUME NEW ks \in SUBSET Keys, Attach(r, ks)
        PROVE  shm' \in [Keys -> 0..MaxRuns] /\ shmID' \in [Runs -> [Keys -> 0..MaxRuns]]
    BY <2>1, RunsAssumption DEF TypeOK, Attach, Runs
  <2>2. /\ shm' \in [Keys -> 0..MaxRuns] /\ shmID' \in [Runs -> [Keys -> 0..MaxRuns]]
        /\ rm[r]["main"] = "none"
        /\ Goes(r, "main", "shmPid") \/ Goes(r, "main", "forkWorkers")
        /\ UNCHANGED <<sem, rm, interrupted>>
    <3>1. {"elevator", "int"} \in SUBSET Keys /\ {"pid"} \in SUBSET Keys
      BY DEF Keys
    <3>. QED  BY <1>3, <2>1, <3>1 DEF SharedMemoryInit, At
  <2>3. /\ pc' \in [Runs -> [Procs -> Places]]
        /\ \A s \in Runs : \A q \in Procs : rm[s][q] /= "none" => pc'[s][q] = pc[s][q]
    BY <1>p, <2>2, GoesTypes DEF Places
  <2>. QED  BY <2>2, <2>3 DEF TypeOK, Alive
<1>4. ASSUME NEW r \in Runs, SharedMemoryInitFails(r) PROVE TypeOK'
  BY <1>4, <1>p, GoesTypes DEF SharedMemoryInitFails, TypeOK, Alive, Places
<1>5. ASSUME NEW r \in Runs, ForkWorkers(r) \/ Fork(r) PROVE TypeOK'
  <2>1. /\ pc' \in [Runs -> [Procs -> Places]]
        /\ UNCHANGED <<sem, shm, shmID, rm, interrupted>>
        /\ \A s \in Runs, p \in Procs : rm[s][p] /= "none" => pc'[s][p] \notin {"none", "ended", "left", "failed", "killed"}
    BY <1>5, ForkTypes
  <2>. QED  BY <2>1 DEF TypeOK, Alive
<1>6. ASSUME NEW r \in Runs, ForkFails(r) PROVE TypeOK'
  BY <1>6, <1>p, GoesTypes DEF ForkFails, TypeOK, Alive, Places
<1>7. ASSUME NEW r \in Runs, Bind(r) PROVE TypeOK'
  BY <1>7, <1>p, TypeMove DEF Bind, At, TypeOK, Places
<1>8. ASSUME NEW r \in Runs, Leave(r) PROVE TypeOK'
  BY <1>8, <1>p, TypeMove DEF Leave, At, TypeOK, Places
<1>9. ASSUME NEW r \in Runs, Exit(r) PROVE TypeOK'
  BY <1>9, <1>p DEF Exit, TypeOK, Alive, Places
<1>10. ASSUME NEW r \in Runs, Killed(r) \/ ParentExits(r) PROVE TypeOK'
  <2>1. \A ps : Dead(r, ps) => TypeOK'
    BY DEF Dead, TypeOK, Alive, Places
  <2>. QED  BY <1>10, <2>1 DEF Killed, ParentExits
<1>11. ASSUME NEW r \in Runs, Interrupt(r) PROVE TypeOK'
  BY <1>11, <1>p DEF Interrupt, TypeOK, Alive
<1>12. ASSUME NEW r \in Runs, NEW p \in Procs, Remove(r, p) PROVE TypeOK'
  <2>1. /\ rm[r][p] /= "none" /\ \E stage \in Stages : rm' = [rm EXCEPT ![r][p] = stage]
        /\ shm' \in [Keys -> 0..MaxRuns] /\ sem' \in [Keys -> 0..MaxRuns]
        /\ UNCHANGED <<shmID, pc, interrupted>>
    BY <1>12, <1>w DEF Remove, Shm, ShmPid, Sem, SemPid, IntSegmentGone, semaphoreRemove,
                       Stages, TypeOK
  <2>. QED  BY <2>1 DEF TypeOK, Alive, Stages
<1>13. ASSUME NEW r \in Runs,
              Others(r) PROVE TypeOK'
  BY <1>13, OthersMove, TypeMove DEF TypeOK
<1>14. CASE KillSem
  <2>1. 0 \in 0..MaxRuns
    BY RunsAssumption
  <2>2. sem' \in [Keys -> 0..MaxRuns] /\ shm' \in [Keys -> 0..MaxRuns]
    BY <1>14, <2>1 DEF KillSem, TypeOK
  <2>3. UNCHANGED <<shmID, pc, rm, interrupted>>
    BY <1>14 DEF KillSem
  <2>. QED  BY <2>2, <2>3 DEF TypeOK, Alive
<1>15. CASE UNCHANGED vars
  BY <1>15 DEF vars, TypeOK, Alive
<1>. QED  BY <1>1, <1>2, <1>3, <1>4, <1>5, <1>6, <1>7, <1>8, <1>9, <1>10, <1>11, <1>12, <1>13,
             <1>14, <1>15 DEF Next, Main, Others

\* The types hold for any number of runs, and nobody is in a handler or a removal
\* who does not live.
THEOREM ControllerTypes == Spec => []TypeOK
BY TypeInit, TypeNext, PTL DEF Spec

-----------------------------------------------------------------------------
(* A controller that is up keeps its objects.  The danger is a removal of an  *)
(* earlier run that still goes on: it takes away the segments that run used,   *)
(* which the next run may have taken over.  What forbids it is the order of    *)
(* the removals: the segments go while "int" is still the old run's, and a     *)
(* new run comes to its segments only with "int" its own.                      *)

Two == {"elevator", "int"}
Forked == {"forkWorkers", "forkGpio", "bind", "forkParent", "menu"}

\* Only Ctrl-C and the two ways out of main remove anything.
Removals(r) == \A p \in Procs : rm[r][p] /= "none" =>
  \/ r \in interrupted /\ pc[r]["main"] \in {"menu", "exit", "left"}
  \/ p = "main" /\ pc[r]["main"] \in {"exit", "error"}

Interrupted(r) == r \in interrupted => pc[r]["main"] \in {"menu", "exit", "left", "killed"}

Semaphores(r) == r \notin interrupted =>
  /\ pc[r]["main"] \in {"pid", "shm", "shmPid"} \cup Forked => sem["int"] = r
  /\ pc[r]["main"] \in {"shm", "shmPid"} \cup Forked => sem["elevator"] = r /\ sem["pid"] = r

Segments(r) == r \notin interrupted /\ pc[r]["main"] \in {"shmPid"} \cup Forked =>
  \A k \in Two : shm[k] = shmID[r][k]

Known(r) == pc[r]["main"] \in {"shmPid", "exit", "error", "left"} \cup Forked =>
  \A k \in Two : shmID[r][k] /= 0

\* No segment is named after a run that has not come to its segments.
Fresh(r) == pc[r]["main"] \in {"none", "elevator", "int", "pid", "shm"} =>
  \A k \in Two : shm[k] /= r /\ \A s \in Runs : shmID[s][k] /= r

\* Who is about to remove segments, or may be, by Ctrl-C.
Removing(r) == \/ r \in interrupted /\ pc[r]["main"] /= "killed"
               \/ \E p \in Procs : rm[r][p] = "shm"

Guarded(r) == Removing(r) => \A k \in Two : shm[k] = shmID[r][k] => sem["int"] = r

SegmentsGone(r) == \A k \in Two : shm[k] /= shmID[r][k]

AfterSegments(r) == (\E p \in Procs : rm[r][p] = "shmPid") => SegmentsGone(r)

AfterMain(r) ==
  \/ pc[r]["main"] = "left"
  \/ pc[r]["main"] = "exit" /\ rm[r]["main"] /= "shm"
  => SegmentsGone(r)

\* F_ERR_SHM_INIT.
OnlySemaphores(r) == \A p \in Procs : rm[r][p] = "sem" => p = "main" /\ pc[r]["main"] = "error"

RunInv(r) == /\ Removals(r) /\ Interrupted(r) /\ Semaphores(r) /\ Segments(r) /\ Known(r)
             /\ Fresh(r) /\ Guarded(r) /\ AfterSegments(r) /\ AfterMain(r) /\ OnlySemaphores(r)

Inv == TypeOK /\ \A r \in Runs : RunInv(r)

LEMMA InvInit == Init => Inv
<1> SUFFICES ASSUME Init PROVE Inv
  OBVIOUS
<1>1. "main" \in Procs /\ Two \subseteq Keys
  BY DEF Procs, Two, Keys
<1>2. ASSUME NEW r \in Runs PROVE RunInv(r)
  BY <1>1, RunsAssumption DEF Init, RunInv, Removals, Interrupted, Semaphores, Segments, Known, Fresh,
     Guarded, Removing, AfterSegments, AfterMain, OnlySemaphores, Forked, Runs
<1>. QED  BY <1>2, TypeInit DEF Inv

LEMMA InvImplies == Inv => RunningKeepsItsObjects
BY DEF Inv, RunInv, Semaphores, Segments, Two, Forked, RunningKeepsItsObjects, Up, Keys

\* A step of the workers, gpioProcess, parentProcess or the clients.
LEMMA InvOthers ==
  ASSUME Inv, TypeOK', UNCHANGED <<sem, shm, shmID, rm, interrupted>>,
         \A r \in Runs : pc'[r]["main"] = pc[r]["main"]
  PROVE  Inv'
BY DEF Inv, RunInv, Removals, Interrupted, Semaphores, Segments, Known, Fresh,
     Guarded, Removing, SegmentsGone, AfterSegments, AfterMain, OnlySemaphores

Early == {"none", "elevator", "int", "pid", "shm", "shmPid", "forkWorkers", "forkGpio", "bind",
          "forkParent"}

\* A main on its way to the menu has nobody in a removal.
LEMMA NobodyRemoves ==
  ASSUME Inv, NEW r \in Runs, pc[r]["main"] \in Early
  PROVE  /\ r \notin interrupted /\ \A p \in Procs : rm[r][p] = "none"
         /\ ~Removing(r)
BY DEF Inv, RunInv, Removals, Interrupted, Removing, Early

\* main starts, and passes the port and the forks.
LEMMA InvStarts ==
  ASSUME Inv, TypeOK', NEW r \in Runs, NEW place \in Places,
         UNCHANGED <<sem, shm, shmID, rm, interrupted>>,
         \A s \in Runs : pc'[s]["main"] = IF s = r THEN place ELSE pc[s]["main"],
         \/ pc[r]["main"] = "none" /\ place = "elevator"
         \/ pc[r]["main"] \in Forked \ {"menu"} /\ place \in Forked \cup {"failed"}
  PROVE  Inv'
<1>1. /\ r \notin interrupted /\ \A p \in Procs : rm[r][p] = "none"
      /\ ~Removing(r)
  BY NobodyRemoves DEF Forked, Early
<1>2. ASSUME NEW s \in Runs PROVE RunInv(s)'
  BY <1>1 DEF Inv, RunInv, Removals, Interrupted, Semaphores, Segments, Known, Fresh,
     Guarded, Removing, SegmentsGone, AfterSegments, AfterMain, OnlySemaphores, Forked
<1>. QED  BY <1>2 DEF Inv

LEMMA InvSemaphoreInit ==
  ASSUME Inv, TypeOK', NEW r \in Runs, NEW k \in Keys, NEW place \in Places,
         rm[r]["main"] = "none", pc[r]["main"] = k, sem' = Created(r, k),
         UNCHANGED <<shm, shmID, rm, interrupted>>,
         \A s \in Runs : pc'[s]["main"] = IF s = r THEN place ELSE pc[s]["main"],
         \/ k = "elevator" /\ place = "int"
         \/ k = "int" /\ place = "pid" /\ sem'["int"] = r
         \/ k = "pid" /\ place = "shm" /\ sem'["pid"] = r /\ sem'["elevator"] = r
         \/ place = "failed"
  PROVE  Inv'
<1>1. /\ r \notin interrupted /\ \A p \in Procs : rm[r][p] = "none"
      /\ ~Removing(r)
  BY NobodyRemoves DEF Keys, Early
<1>2. \A s \in Runs, l \in Keys : sem[l] = s => sem'[l] = s
  BY RunsAssumption DEF Inv, TypeOK, Created, Runs
<1>3. "elevator" \in Keys /\ "int" \in Keys /\ "pid" \in Keys
  BY DEF Keys
<1>4. ASSUME NEW s \in Runs PROVE RunInv(s)'
  <2>1. Semaphores(s)'
    BY <1>1, <1>2, <1>3 DEF Inv, RunInv, Semaphores, Forked, Keys
  <2>2. Guarded(s)'
    BY <1>1, <1>2, <1>3 DEF Inv, RunInv, Guarded, Removing, Keys
  <2>3. Removals(s)' /\ Interrupted(s)' /\ Segments(s)' /\ Known(s)' /\ Fresh(s)'
    BY <1>1 DEF Inv, RunInv, Removals, Interrupted, Segments, Known, Fresh, Forked, Keys
  <2>4. AfterSegments(s)' /\ AfterMain(s)' /\ OnlySemaphores(s)'
    BY <1>1 DEF Inv, RunInv, SegmentsGone, AfterSegments, AfterMain, OnlySemaphores, Keys
  <2>. QED  BY <2>1, <2>2, <2>3, <2>4 DEF RunInv
<1>. QED  BY <1>4 DEF Inv

\* The segments are taken with "int" in hand, so nobody is about to remove them.
LEMMA InvSharedMemoryInit ==
  ASSUME Inv, TypeOK', NEW r \in Runs,
         rm[r]["main"] = "none", pc[r]["main"] = "shm", Attach(r, Two),
         UNCHANGED <<sem, rm, interrupted>>,
         \A s \in Runs : pc'[s]["main"] = IF s = r THEN "shmPid" ELSE pc[s]["main"]
  PROVE  Inv'
<1>1. /\ r \notin interrupted /\ \A p \in Procs : rm[r][p] = "none"
      /\ ~Removing(r)
  BY NobodyRemoves DEF Early
<1>2. /\ \A k \in Two : k \in Keys
      /\ \A k \in Two : shm'[k] = IF shm[k] = 0 THEN r ELSE shm[k]
      /\ \A k \in Two : shmID'[r][k] = shm'[k]
      /\ \A s \in Runs : s /= r => \A k \in Two : shmID'[s][k] = shmID[s][k]
  BY DEF Inv, TypeOK, Attach, Two, Keys
<1>3. \A s \in Runs : s /= 0
  BY DEF Runs
<1>4. ASSUME NEW s \in Runs PROVE RunInv(s)'
  <2>1. CASE s = r
    BY <1>1, <1>2, <1>3, <2>1 DEF Inv, RunInv, Removals, Interrupted, Semaphores, Segments, Known,
       Fresh, Guarded, Removing, AfterSegments, AfterMain, OnlySemaphores, Forked
  <2>2. CASE s /= r
    <3>1. \A k \in Two : shm[k] = 0 => shmID[s][k] /= shm'[k]
      BY <1>2 DEF Inv, RunInv, Fresh
    <3>2. Segments(s)' /\ Known(s)' /\ Fresh(s)'
      BY <1>2, <1>3, <2>2, <3>1 DEF Inv, RunInv, Segments, Known, Fresh, Forked
    <3>3. Guarded(s)' /\ AfterSegments(s)' /\ AfterMain(s)'
      BY <1>2, <2>2, <3>1 DEF Inv, RunInv, Guarded, Removing, SegmentsGone, AfterSegments, AfterMain
    <3>4. Removals(s)' /\ Interrupted(s)' /\ Semaphores(s)' /\ OnlySemaphores(s)'
      BY <2>2 DEF Inv, RunInv, Removals, Interrupted, Semaphores, OnlySemaphores
    <3>. QED  BY <3>2, <3>3, <3>4 DEF RunInv
  <2>. QED  BY <2>1, <2>2
<1>. QED  BY <1>4 DEF Inv

LEMMA InvSharedMemoryInitPid ==
  ASSUME Inv, TypeOK', NEW r \in Runs,
         rm[r]["main"] = "none", pc[r]["main"] = "shmPid", Attach(r, {"pid"}),
         UNCHANGED <<sem, rm, interrupted>>,
         \A s \in Runs : pc'[s]["main"] = IF s = r THEN "forkWorkers" ELSE pc[s]["main"]
  PROVE  Inv'
<1>1. /\ r \notin interrupted /\ \A p \in Procs : rm[r][p] = "none"
      /\ ~Removing(r)
  BY NobodyRemoves DEF Early
<1>2. \A k \in Two : shm'[k] = shm[k] /\ \A s \in Runs : shmID'[s][k] = shmID[s][k]
  BY DEF Inv, TypeOK, Attach, Two, Keys
<1>3. ASSUME NEW s \in Runs PROVE RunInv(s)'
  BY <1>1, <1>2 DEF Inv, RunInv, Removals, Interrupted, Semaphores, Segments, Known, Fresh,
     Guarded, Removing, SegmentsGone, AfterSegments, AfterMain, OnlySemaphores, Forked
<1>. QED  BY <1>3 DEF Inv

\* main, its last fork behind it, or a fork or sharedMemoryInit failing, turns to
\* its removals.
LEMMA InvTurns ==
  ASSUME Inv, TypeOK', NEW r \in Runs, NEW place \in {"exit", "error"}, NEW stage \in Stages,
         UNCHANGED <<sem, shm, shmID, interrupted>>,
         \A s \in Runs : pc'[s]["main"] = IF s = r THEN place ELSE pc[s]["main"],
         \A s \in Runs : s /= r => rm'[s] = rm[s],
         rm'[r]["main"] = stage,
         \A p \in Procs : p /= "main" => rm'[r][p] \in {rm[r][p], "none"},
         \/ place = "error" /\ pc[r]["main"] = "shmPid" /\ stage = "sem"
         \/ place = "error" /\ pc[r]["main"] \in Forked \ {"menu"} /\ stage = "shm"
         \/ place = "exit" /\ pc[r]["main"] = "menu" /\ stage = "shm"
  PROVE  Inv'
<1>1. "main" \in Procs
  BY DEF Procs
<1>2. pc[r]["main"] /= "menu" => r \notin interrupted /\ \A p \in Procs : rm[r][p] = "none"
  BY NobodyRemoves DEF Forked, Early
<1>3. \A k \in Two : shm[k] = shmID[r][k] => sem["int"] = r
  <2>1. CASE r \in interrupted
    BY <2>1, <1>2 DEF Inv, RunInv, Guarded, Removing
  <2>2. CASE r \notin interrupted
    BY <2>2 DEF Inv, RunInv, Semaphores, Forked
  <2>. QED  BY <2>1, <2>2
<1>4. ASSUME NEW s \in Runs, s /= r PROVE RunInv(s)'
  BY <1>4 DEF Inv, RunInv, Removals, Interrupted, Semaphores, Segments, Known, Fresh,
     Guarded, Removing, SegmentsGone, AfterSegments, AfterMain, OnlySemaphores
<1>5. RunInv(r)'
  <2>1. Removals(r)' /\ Interrupted(r)' /\ OnlySemaphores(r)'
    BY <1>1, <1>2 DEF Inv, RunInv, Removals, Interrupted, OnlySemaphores
  <2>2. Semaphores(r)' /\ Segments(r)' /\ Known(r)' /\ Fresh(r)'
    BY DEF Inv, RunInv, Semaphores, Segments, Known, Fresh, Forked
  <2>3. Guarded(r)'
    BY <1>3 DEF Guarded
  <2>4. AfterSegments(r)' /\ AfterMain(r)'
    BY <1>1, <1>2 DEF Inv, RunInv, SegmentsGone, AfterSegments, AfterMain
  <2>. QED  BY <2>1, <2>2, <2>3, <2>4 DEF RunInv
<1>. QED  BY <1>4, <1>5 DEF Inv

LEMMA InvLeave ==
  ASSUME Inv, TypeOK', NEW r \in Runs, NEW place \in Places,
         rm[r]["main"] = "none", UNCHANGED <<sem, shm, shmID, rm, interrupted>>,
         \A s \in Runs : pc'[s]["main"] = IF s = r THEN place ELSE pc[s]["main"],
         \/ pc[r]["main"] = "exit" /\ place = "left"
         \/ pc[r]["main"] = "error" /\ place = "failed"
  PROVE  Inv'
<1>1. ASSUME NEW s \in Runs PROVE RunInv(s)'
  BY DEF Inv, RunInv, Removals, Interrupted, Semaphores, Segments, Known, Fresh,
     Guarded, Removing, SegmentsGone, AfterSegments, AfterMain, OnlySemaphores, Forked
<1>. QED  BY <1>1 DEF Inv

\* A kill -9 of main, when nobody of its run is in a handler, and the end of all.
LEMMA DeadMoves ==
  ASSUME TypeOK, NEW r \in Runs, Killed(r) \/ ParentExits(r)
  PROVE  /\ UNCHANGED <<sem, shm, shmID, interrupted>>
         /\ \A s \in Runs : pc'[s]["main"] = IF s = r THEN "killed" ELSE pc[s]["main"]
         /\ \A s \in Runs, p \in Procs : rm'[s][p] = IF s = r THEN "none" ELSE rm[s][p]
         /\ \A s \in Runs : s /= r => rm'[s] = rm[s]
<1>1. PICK ps \in {{"main"}, Procs} : Dead(r, ps) /\ \A p \in Procs \ ps : rm[r][p] = "none"
  BY DEF Killed, ParentExits
<1>2. "main" \in Procs /\ "main" \in ps
  BY <1>1 DEF Procs
<1>. QED  BY <1>1, <1>2 DEF Dead, TypeOK

LEMMA InvDead ==
  ASSUME Inv, TypeOK', NEW r \in Runs, UNCHANGED <<sem, shm, shmID, interrupted>>,
         \A s \in Runs : pc'[s]["main"] = IF s = r THEN "killed" ELSE pc[s]["main"],
         \A s \in Runs, p \in Procs : rm'[s][p] = IF s = r THEN "none" ELSE rm[s][p]
  PROVE  Inv'
<1>1. ASSUME NEW s \in Runs PROVE RunInv(s)'
  <2>1. CASE s = r
    BY <2>1 DEF Inv, RunInv, Removals, Interrupted, Semaphores, Segments, Known, Fresh,
       Guarded, Removing, SegmentsGone, AfterSegments, AfterMain, OnlySemaphores, Forked
  <2>2. CASE s /= r
    BY <2>2 DEF Inv, RunInv, Removals, Interrupted, Semaphores, Segments, Known, Fresh,
       Guarded, Removing, SegmentsGone, AfterSegments, AfterMain, OnlySemaphores, Forked, Procs
  <2>. QED  BY <2>1, <2>2
<1>. QED  BY <1>1 DEF Inv

LEMMA InvInterrupt ==
  ASSUME Inv, TypeOK', NEW r \in Runs, Interrupt(r)
  PROVE  Inv'
<1>1. /\ pc[r]["main"] = "menu" /\ r \notin interrupted /\ interrupted' = interrupted \cup {r}
      /\ UNCHANGED <<sem, shm, shmID, pc>>
      /\ \A s \in Runs, p \in Procs : s /= r => rm'[s][p] = rm[s][p]
      /\ \A p \in Procs : rm'[r][p] \in {"shm", rm[r][p]}
  BY DEF Inv, TypeOK, Interrupt, At
<1>2. \A p \in Procs : rm[r][p] = "none"
  BY <1>1 DEF Inv, RunInv, Removals
<1>p. "main" \in Procs
  BY DEF Procs
<1>3. ASSUME NEW s \in Runs, s /= r PROVE RunInv(s)'
  BY <1>1, <1>3, <1>p DEF Inv, RunInv, Removals, Interrupted, Semaphores, Segments, Known, Fresh,
     Guarded, Removing, SegmentsGone, AfterSegments, AfterMain, OnlySemaphores
<1>4. RunInv(r)'
  BY <1>1, <1>2 DEF Inv, RunInv, Removals, Interrupted, Semaphores, Segments, Known, Fresh,
     Guarded, Removing, SegmentsGone, AfterSegments, AfterMain, OnlySemaphores, Forked
<1>. QED  BY <1>3, <1>4 DEF Inv

\* One step of a removal takes away objects of its own run and no others.
LEMMA InvRemove ==
  ASSUME Inv, TypeOK', NEW r \in Runs, NEW p \in Procs, Remove(r, p)
  PROVE  Inv'
<1>1. PICK stage \in Stages :
        /\ rm'[r][p] = stage
        /\ rm[r][p] \in {"shm", "shmPid", "sem", "semPid"}
        /\ stage \in {"semPid", "none"} \/ (stage = "shmPid" /\ rm[r][p] = "shm")
  BY DEF Inv, TypeOK, Remove, Shm, ShmPid, Sem, SemPid, IntSegmentGone, semaphoreRemove, Stages
<1>2. /\ UNCHANGED <<shmID, pc, interrupted>>
      /\ \A s \in Runs, q \in Procs : ~(s = r /\ q = p) => rm'[s][q] = rm[s][q]
  BY DEF Inv, TypeOK, Remove, Shm, ShmPid, Sem, SemPid, IntSegmentGone, semaphoreRemove
<1>3. \A k \in Keys : sem'[k] = sem[k] \/ (sem[k] = r /\ sem'[k] = 0)
  BY DEF Inv, TypeOK, Remove, Shm, ShmPid, Sem, SemPid, IntSegmentGone, semaphoreRemove, SemWithout
<1>4. /\ "main" \in Procs /\ \A k \in Two : k \in Keys
      /\ "int" \in Keys /\ "elevator" \in Keys /\ "pid" \in Keys
      /\ \A s \in Runs : s /= 0
  BY DEF Procs, Two, Keys, Runs
<1>5. \A k \in Two : IF rm[r][p] = "shm" /\ shm[k] = shmID[r][k] THEN shm'[k] = 0
                                                                ELSE shm'[k] = shm[k]
  BY <1>4 DEF Inv, TypeOK, Remove, Shm, ShmPid, Sem, SemPid, ShmWithout, Two
<1>6. \/ r \in interrupted /\ pc[r]["main"] \in {"menu", "exit", "left"}
      \/ p = "main" /\ pc[r]["main"] \in {"exit", "error"} /\ r \notin interrupted
  BY <1>1 DEF Inv, RunInv, Removals, Interrupted
\* Whose segments go still has "int"; whose "int" goes has no segments left.
<1>7. rm[r][p] = "shm" => \A k \in Two : shm[k] = shmID[r][k] => sem["int"] = r
  BY DEF Inv, RunInv, Guarded, Removing
<1>8. sem'["int"] = sem["int"] \/ SegmentsGone(r)' \/ ~Removing(r)'
  <2>1. \A k \in Two : shmID[r][k] /= 0
    BY <1>6 DEF Inv, RunInv, Known, Forked
  <2>2. CASE rm[r][p] = "shm"
    BY <1>2, <1>5, <2>1, <2>2 DEF SegmentsGone
  <2>3. CASE rm[r][p] = "shmPid"
    <3>1. SegmentsGone(r)
      BY <2>3 DEF Inv, RunInv, AfterSegments
    <3>. QED  BY <1>2, <1>5, <2>3, <3>1 DEF SegmentsGone
  <2>4. CASE rm[r][p] = "sem"
    <3>1. p = "main" /\ r \notin interrupted
      BY <1>6, <2>4 DEF Inv, RunInv, OnlySemaphores, Interrupted
    <3>2. \A q \in Procs : q /= "main" => rm[r][q] = "none"
      BY <3>1 DEF Inv, RunInv, Removals
    <3>. QED  BY <1>1, <1>2, <2>4, <3>1, <3>2 DEF Removing
  <2>5. CASE rm[r][p] = "semPid"
    BY <1>4, <2>5 DEF Inv, TypeOK, Remove, Shm, ShmPid, Sem, SemPid, SemWithout
  <2>. QED  BY <1>1, <2>2, <2>3, <2>4, <2>5
\* What is gone stays gone.
<1>9. ASSUME NEW s \in Runs, SegmentsGone(s), \A k \in Two : shmID[s][k] /= 0
      PROVE  SegmentsGone(s)'
  BY <1>2, <1>5, <1>9 DEF SegmentsGone
<1>10. ASSUME NEW s \in Runs, s \notin interrupted,
              pc[s]["main"] \in {"pid", "shm", "shmPid"} \cup Forked
       PROVE  s /= r
  BY <1>6, <1>10 DEF Forked
<1>11. ASSUME NEW s \in Runs PROVE RunInv(s)'
  <2>1. Removals(s)' /\ Interrupted(s)' /\ OnlySemaphores(s)'
    <3>1. \A q \in Procs : /\ rm'[s][q] /= "none" => rm[s][q] /= "none"
                           /\ rm'[s][q] = "sem" => rm[s][q] = "sem"
      BY <1>1, <1>2
    <3>. QED  BY <1>2, <3>1 DEF Inv, RunInv, Removals, Interrupted, OnlySemaphores
  <2>2. Semaphores(s)'
    BY <1>2, <1>3, <1>4, <1>10 DEF Inv, RunInv, Semaphores, Forked
  <2>3. Segments(s)'
    BY <1>2, <1>5, <1>7, <1>10 DEF Inv, RunInv, Segments, Semaphores, Forked
  <2>4. Known(s)' /\ Fresh(s)'
    BY <1>2, <1>4, <1>5 DEF Inv, RunInv, Known, Fresh
  <2>5. ASSUME Removing(s) PROVE \A k \in Two : shmID[s][k] /= 0
    BY <2>5 DEF Inv, RunInv, Removing, Removals, Interrupted, Known, Forked
  <2>6. Guarded(s)'
    <3>1. CASE s = r
      <4>1. CASE SegmentsGone(r)'
        BY <3>1, <4>1 DEF Guarded, SegmentsGone
      <4>2. CASE sem'["int"] = sem["int"] /\ Removing(r)'
        <5>1. Removing(r)
          BY <1>1, <1>2, <4>2 DEF Removing
        <5>2. \A k \in Two : shm'[k] = shmID'[r][k] => shm[k] = shmID[r][k]
          BY <1>2, <1>5, <2>5, <3>1, <5>1
        <5>. QED  BY <3>1, <4>2, <5>1, <5>2 DEF Inv, RunInv, Guarded
      <4>. QED  BY <1>8, <3>1, <4>1, <4>2 DEF Guarded
    <3>2. CASE s /= r
      BY <1>2, <1>3, <1>4, <1>5, <2>5, <3>2 DEF Inv, RunInv, Guarded, Removing
    <3>. QED  BY <3>1, <3>2
  <2>7. AfterSegments(s)'
    <3>1. CASE s = r /\ rm[r][p] = "shm"
      BY <1>2, <1>5, <1>6, <3>1 DEF Inv, RunInv, Known, Forked, AfterSegments, SegmentsGone
    <3>2. CASE ~(s = r /\ rm[r][p] = "shm")
      <4>1. \A q \in Procs : rm'[s][q] = "shmPid" => rm[s][q] = "shmPid"
        BY <1>1, <1>2, <3>2
      <4>2. (\E q \in Procs : rm[s][q] = "shmPid") => \A k \in Two : shmID[s][k] /= 0
        BY DEF Inv, RunInv, Removals, Known, Forked
      <4>. QED  BY <1>9, <4>1, <4>2 DEF Inv, RunInv, AfterSegments
    <3>. QED  BY <3>1, <3>2
  <2>8. AfterMain(s)'
    <3>1. CASE s = r /\ p = "main" /\ rm[r][p] = "shm"
      BY <1>2, <1>5, <1>6, <3>1 DEF Inv, RunInv, Known, Forked, AfterMain, SegmentsGone
    <3>2. CASE ~(s = r /\ p = "main" /\ rm[r][p] = "shm")
      <4>1. rm'[s]["main"] /= "shm" => rm[s]["main"] /= "shm"
        BY <1>2, <1>4, <3>2
      <4>. QED  BY <1>2, <1>9, <4>1 DEF Inv, RunInv, AfterMain, Known
    <3>. QED  BY <3>1, <3>2
  <2>. QED  BY <2>1, <2>2, <2>3, <2>4, <2>6, <2>7, <2>8 DEF RunInv
<1>. QED  BY <1>11 DEF Inv

LEMMA InvKillSem ==
  ASSUME Inv, TypeOK', KillSem
  PROVE  Inv'
<1>1. /\ \A r \in Runs : ~Alive(r, "main")
      /\ UNCHANGED <<shmID, pc, rm, interrupted>>
      /\ \A k \in Two : shm'[k] \in {0, shm[k]}
      /\ "main" \in Procs /\ \A s \in Runs : s /= 0
  BY DEF Inv, TypeOK, KillSem, Procs, Runs, Two, Keys
<1>2. ASSUME NEW s \in Runs PROVE RunInv(s)'
  <2>1. Removals(s)' /\ Interrupted(s)' /\ Known(s)' /\ Fresh(s)' /\ OnlySemaphores(s)'
    BY <1>1 DEF Inv, RunInv, Removals, Interrupted, Known, Fresh, OnlySemaphores
  <2>2. Semaphores(s)' /\ Segments(s)'
    BY <1>1 DEF Semaphores, Segments, Forked, Alive
  <2>3. Removing(s) \/ (\E p \in Procs : rm[s][p] /= "none") => pc[s]["main"] = "left"
    BY <1>1 DEF Inv, RunInv, Removing, Removals, Interrupted, Alive
  <2>4. pc[s]["main"] = "left" => SegmentsGone(s)'
    BY <1>1 DEF Inv, RunInv, AfterMain, Known, SegmentsGone
  <2>5. Guarded(s)' /\ AfterSegments(s)' /\ AfterMain(s)'
    <3>1. Removing(s)' => Removing(s)
      BY <1>1 DEF Removing
    <3>2. Guarded(s)' /\ AfterSegments(s)'
      BY <1>1, <2>3, <2>4, <3>1 DEF Guarded, AfterSegments, SegmentsGone
    <3>3. AfterMain(s)'
      BY <1>1, <2>4 DEF AfterMain, Alive
    <3>. QED  BY <3>2, <3>3
  <2>. QED  BY <2>1, <2>2, <2>5 DEF RunInv
<1>. QED  BY <1>2 DEF Inv

LEMMA InvNext == Inv /\ [Next]_vars => Inv'
<1> SUFFICES ASSUME Inv, [Next]_vars PROVE Inv'
  OBVIOUS
<1>t. TypeOK /\ TypeOK'
  BY TypeNext DEF Inv
<1>p. /\ {"main", "gpio", "parent"} \subseteq Procs
      /\ \A p \in Workers \cup Clients : p \in Procs \ {"main"}
  BY RunsAssumption DEF Procs
<1>m. ASSUME NEW r \in Runs, NEW place \in Places, Goes(r, "main", place)
      PROVE  \A s \in Runs : pc'[s]["main"] = IF s = r THEN place ELSE pc[s]["main"]
  BY <1>t, <1>p, <1>m, GoesTypes
<1>1. ASSUME NEW r \in Runs, Start(r) PROVE Inv'
  <2>1. Goes(r, "main", "elevator") /\ "elevator" \in Places
    BY <1>1 DEF Start, Places
  <2>. QED  BY <1>1, <1>t, <1>m, <2>1, InvStarts DEF Start, At
<1>2. ASSUME NEW r \in Runs, SemaphoreInit(r) PROVE Inv'
  <2>1. PICK k \in Keys :
          /\ At(r, "main", k) /\ sem' = Created(r, k)
          /\ Goes(r, "main",
                  CASE k = "elevator" -> "int"
                    [] k = "int" -> IF Accepted(r, k) THEN "pid" ELSE "failed"
                    [] k = "pid" -> IF Accepted(r, k) /\ Accepted(r, "elevator")
                                    THEN "shm" ELSE "failed")
    BY <1>2 DEF SemaphoreInit
  <2>2. PICK place \in Places :
          /\ Goes(r, "main", place)
          /\ \/ k = "elevator" /\ place = "int"
             \/ k = "int" /\ place = "pid" /\ sem'["int"] = r
             \/ k = "pid" /\ place = "shm" /\ sem'["pid"] = r /\ sem'["elevator"] = r
             \/ place = "failed"
    BY <2>1 DEF Keys, Places, Accepted
  <2>. QED  BY <1>2, <1>t, <1>m, <2>1, <2>2, InvSemaphoreInit DEF SemaphoreInit, At
<1>3. ASSUME NEW r \in Runs, SharedMemoryInit(r) PROVE Inv'
  <2>1. CASE At(r, "main", "shm") /\ Attach(r, {"elevator", "int"}) /\ Goes(r, "main", "shmPid")
    <3>1. "shmPid" \in Places
      BY DEF Places
    <3>. QED  BY <1>3, <1>t, <1>m, <2>1, <3>1, InvSharedMemoryInit DEF SharedMemoryInit, At, Two
  <2>2. CASE At(r, "main", "shmPid") /\ Attach(r, {"pid"}) /\ Goes(r, "main", "forkWorkers")
    BY <1>3, <1>t, <1>m, <2>2, InvSharedMemoryInitPid DEF SharedMemoryInit, At, Places
  <2>. QED  BY <1>3, <2>1, <2>2 DEF SharedMemoryInit
<1>4. ASSUME NEW r \in Runs, SharedMemoryInitFails(r) PROVE Inv'
  <2>1. /\ pc[r]["main"] = "shmPid"
        /\ \A s \in Runs : pc'[s]["main"] = IF s = r THEN "error" ELSE pc[s]["main"]
        /\ UNCHANGED <<sem, shm, shmID, interrupted>>
    BY <1>4, <1>m DEF SharedMemoryInitFails, At, Places
  <2>2. /\ rm'[r]["main"] = "sem" /\ \A s \in Runs : s /= r => rm'[s] = rm[s]
        /\ \A p \in Procs : p /= "main" => rm'[r][p] \in {rm[r][p], "none"}
    BY <1>4, <1>t, <1>p DEF SharedMemoryInitFails, TypeOK
  <2>. QED  BY <1>t, <2>1, <2>2, InvTurns DEF Stages
<1>5. ASSUME NEW r \in Runs, ForkWorkers(r) \/ Fork(r) PROVE Inv'
  <2>1. PICK place \in Places :
          /\ pc[r]["main"] \in Forked \ {"menu"} /\ place \in Forked
          /\ \A s \in Runs : pc'[s]["main"] = IF s = r THEN place ELSE pc[s]["main"]
    BY <1>5, <1>t, <1>p, ForkTypes DEF Places, Forked
  <2>. QED  BY <1>5, <1>t, <2>1, InvStarts, ForkTypes
<1>6. ASSUME NEW r \in Runs, ForkFails(r) PROVE Inv'
  <2>1. /\ pc[r]["main"] \in Forked \ {"menu"}
        /\ \A s \in Runs : pc'[s]["main"] = IF s = r THEN "error" ELSE pc[s]["main"]
        /\ UNCHANGED <<sem, shm, shmID, interrupted>>
    BY <1>6, <1>m DEF ForkFails, Places, Forked
  <2>2. /\ rm'[r]["main"] = "shm" /\ \A s \in Runs : s /= r => rm'[s] = rm[s]
        /\ \A p \in Procs : p /= "main" => rm'[r][p] \in {rm[r][p], "none"}
    BY <1>6, <1>t, <1>p DEF ForkFails, TypeOK
  <2>. QED  BY <1>t, <2>1, <2>2, InvTurns DEF Stages
<1>7. ASSUME NEW r \in Runs, Bind(r) PROVE Inv'
  BY <1>7, <1>t, <1>m, InvStarts DEF Bind, At, Places, Forked
<1>8. ASSUME NEW r \in Runs, Leave(r) PROVE Inv'
  BY <1>8, <1>t, <1>m, InvLeave DEF Leave, At, Places
<1>9. ASSUME NEW r \in Runs, Exit(r) PROVE Inv'
  <2>1. /\ pc[r]["main"] = "menu"
        /\ \A s \in Runs : pc'[s]["main"] = IF s = r THEN "exit" ELSE pc[s]["main"]
        /\ UNCHANGED <<sem, shm, shmID, interrupted>>
    BY <1>9, <1>t, <1>p DEF Exit, At, TypeOK
  <2>2. /\ rm'[r]["main"] = "shm" /\ \A s \in Runs : s /= r => rm'[s] = rm[s]
        /\ \A p \in Procs : p /= "main" => rm'[r][p] \in {rm[r][p], "none"}
    BY <1>9, <1>t, <1>p DEF Exit, TypeOK
  <2>. QED  BY <1>t, <2>1, <2>2, InvTurns DEF Stages
<1>10. ASSUME NEW r \in Runs, Killed(r) \/ ParentExits(r) PROVE Inv'
  <2>. QED  BY <1>10, <1>t, DeadMoves, InvDead
<1>11. ASSUME NEW r \in Runs, Interrupt(r) PROVE Inv'
  BY <1>11, <1>t, InvInterrupt
<1>12. ASSUME NEW r \in Runs, NEW p \in Procs, Remove(r, p) PROVE Inv'
  BY <1>12, <1>t, InvRemove
<1>13. ASSUME NEW r \in Runs,
              Others(r) PROVE Inv'
  <2>1. PICK p \in Procs \ {"main"}, place \in Places : Goes(r, p, place)
    BY <1>13, <1>t, OthersMove
  <2>2. UNCHANGED <<sem, shm, shmID, rm, interrupted>>
    BY <1>13, <1>t, OthersMove
  <2>3. \A s \in Runs : pc'[s]["main"] = pc[s]["main"]
    BY <1>t, <1>p, <2>1, GoesTypes
  <2>. QED  BY <1>t, <2>2, <2>3, InvOthers
<1>14. CASE KillSem
  BY <1>14, <1>t, InvKillSem
<1>15. CASE UNCHANGED vars
  BY <1>15, <1>t, InvOthers DEF vars
<1>. QED  BY <1>1, <1>2, <1>3, <1>4, <1>5, <1>6, <1>7, <1>8, <1>9, <1>10, <1>11, <1>12, <1>13,
             <1>14, <1>15 DEF Next, Main, Others

\* However many runs start, fail, are killed or still remove: a controller that is
\* up, and whose Ctrl-C nobody pressed, has its semaphores and its segments.
THEOREM RunningKeepsItsObjectsHolds == Spec => []RunningKeepsItsObjects
BY InvInit, InvNext, InvImplies, PTL DEF Spec

-----------------------------------------------------------------------------
(* An orderly exit.  Main's removals go through to the end, unless Ctrl-C made   *)
(* others of its run remove as well: the first thing missing ends a removal.     *)

\* A segment a run created is the segment it knows.
Own(r) == \A k \in Keys : shm[k] = r => shmID[r][k] = r

\* How far main is in the removals of choice 0.
MainAt(r, stages) ==
  \/ pc[r]["main"] = "left"
  \/ pc[r]["main"] = "exit" /\ rm[r]["main"] \in stages

AfterSemaphores(r) == MainAt(r, {"semPid", "none"}) => \A k \in Two : sem[k] /= r

\* Nobody else has removed what main looks at first.
GoesThrough(r) == r \notin interrupted /\ pc[r]["main"] = "exit" =>
  /\ rm[r]["main"] \in {"shm", "shmPid"} => sem["int"] = r
  /\ rm[r]["main"] = "shm" => shm["int"] = shmID[r]["int"]

AfterPids(r) == r \notin interrupted =>
  /\ MainAt(r, {"semPid", "none"}) => shm["pid"] /= r
  /\ MainAt(r, {"none"}) => sem["pid"] /= r

ExitInv == \A r \in Runs : Own(r) /\ AfterSemaphores(r) /\ GoesThrough(r) /\ AfterPids(r)

LEMMA ExitInit == Init => ExitInv
BY DEF Init, ExitInv, Own, AfterSemaphores, GoesThrough, AfterPids, MainAt, Runs, Procs, Keys

LEMMA ExitImplies == Inv /\ ExitInv => ExitLeavesOnlyPid
<1> SUFFICES ASSUME Inv, ExitInv, NEW r \in Runs, pc[r]["main"] = "left",
                    NEW k \in Keys, r \in interrupted => k /= "pid"
             PROVE  sem[k] /= r /\ shm[k] /= r
  BY DEF ExitLeavesOnlyPid
<1>1. \A l \in Two : sem[l] /= r
  BY DEF ExitInv, AfterSemaphores, MainAt
<1>2. \A l \in Two : shm[l] /= shmID[r][l]
  BY DEF Inv, RunInv, AfterMain, SegmentsGone
<1>3. \A l \in Two : shm[l] /= r
  BY <1>2 DEF ExitInv, Own, Two, Keys
<1>4. r \notin interrupted => shm["pid"] /= r /\ sem["pid"] /= r
  BY DEF ExitInv, AfterPids, MainAt
<1>. QED  BY <1>1, <1>3, <1>4 DEF Two, Keys

\* A step that lets nobody leave or come to the menu's removals.
LEMMA ExitOthers ==
  ASSUME Inv, ExitInv, UNCHANGED <<shm, shmID, interrupted>>,
         \A s \in Runs, k \in Keys : sem'[k] = s =>
           sem[k] = s \/ pc[s]["main"] \notin {"exit", "left"},
         \A s \in Runs, k \in Keys : sem[k] = s => sem'[k] = s,
         \A s \in Runs : pc'[s]["main"] \in {"exit", "left"} =>
           /\ pc'[s]["main"] = pc[s]["main"] /\ rm'[s]["main"] = rm[s]["main"]
  PROVE  ExitInv'
BY DEF ExitInv, Own, AfterSemaphores, GoesThrough, AfterPids, MainAt, Two, Keys

LEMMA ExitRemove ==
  ASSUME Inv, ExitInv, NEW r \in Runs, NEW p \in Procs, Remove(r, p)
  PROVE  ExitInv'
<1>1. /\ UNCHANGED <<shmID, pc, interrupted>>
      /\ "main" \in Procs /\ {"elevator", "int", "pid"} = Keys /\ \A s \in Runs : s /= 0
  BY DEF Remove, Procs, Keys, Runs
<1>2. \A s \in Runs, q \in Procs : ~(s = r /\ q = p) => rm'[s][q] = rm[s][q]
  BY DEF Inv, TypeOK, Remove, Shm, ShmPid, Sem, SemPid, IntSegmentGone, semaphoreRemove
<1>3. \A k \in Keys : sem'[k] = sem[k] \/ (sem[k] = r /\ sem'[k] = 0)
  BY DEF Inv, TypeOK, Remove, Shm, ShmPid, Sem, SemPid, IntSegmentGone, semaphoreRemove, SemWithout
<1>4. \A k \in Keys : shm'[k] = shm[k] \/ (shm[k] = shmID[r][k] /\ shm'[k] = 0)
  BY DEF Inv, TypeOK, Remove, Shm, ShmPid, Sem, SemPid, ShmWithout
<1>5. shm'["int"] /= shm["int"] => sem["int"] = r
  <2>1. rm[r][p] \notin {"shm"} => shm'["int"] = shm["int"]
    BY <1>1 DEF Inv, TypeOK, Remove, Shm, ShmPid, Sem, SemPid, ShmWithout
  <2>2. Removing(r) \/ rm[r][p] /= "shm"
    BY DEF Removing
  <2>. QED  BY <1>1, <1>4, <2>1, <2>2 DEF Inv, RunInv, Guarded, Two
<1>6. ASSUME NEW s \in Runs PROVE Own(s)'
  BY <1>1, <1>4 DEF ExitInv, Own
<1>7. ASSUME NEW s \in Runs, ~(s = r /\ p = "main")
      PROVE  AfterSemaphores(s)' /\ AfterPids(s)'
  BY <1>1, <1>2, <1>3, <1>4, <1>7 DEF ExitInv, AfterSemaphores, AfterPids, MainAt, Two
<1>8. ASSUME NEW s \in Runs, s /= r PROVE GoesThrough(s)'
  BY <1>1, <1>2, <1>3, <1>5, <1>8 DEF ExitInv, GoesThrough
\* Without Ctrl-C nobody but main removes.
<1>9. ASSUME r \notin interrupted PROVE p = "main"
  BY <1>9 DEF Inv, RunInv, Removals, Remove, Shm, ShmPid, Sem, SemPid
<1>10. CASE p /= "main"
  <2>1. GoesThrough(r)'
    BY <1>1, <1>9, <1>10 DEF GoesThrough
  <2>. QED  BY <1>6, <1>7, <1>8, <1>10, <2>1 DEF ExitInv
<1>11. CASE p = "main"
  <2>a. pc[r]["main"] /= "left" /\ pc'[r]["main"] /= "left"
    <3>1. rm[r]["main"] /= "none"
      BY <1>11 DEF Remove, Shm, ShmPid, Sem, SemPid
    <3>. QED  BY <1>1, <3>1 DEF Inv, TypeOK, Alive
  <2>b. \A stage : rm' = [rm EXCEPT ![r][p] = stage] => rm'[r]["main"] = stage
    BY <1>1, <1>11 DEF Inv, TypeOK
  <2>c. semaphoreRemove(r, p) =>
          /\ \A k \in Two : sem'[k] /= r
          /\ rm'[r]["main"] = IF sem["int"] = r THEN "semPid" ELSE "none"
    BY <1>1, <2>b DEF semaphoreRemove, SemWithout, Two
  <2>1. CASE Shm(r, p)
    <3>1. rm[r]["main"] = "shm"
      BY <1>11, <2>1 DEF Shm
    <3>2. CASE shm["int"] = shmID[r]["int"]
      <4>1. rm'[r]["main"] = "shmPid" /\ UNCHANGED sem
        BY <2>1, <2>b, <3>2 DEF Shm
      <4>. QED  BY <1>1, <1>6, <1>7, <1>8, <2>a, <3>1, <4>1
                DEF ExitInv, AfterSemaphores, GoesThrough, AfterPids, MainAt
    <3>3. CASE shm["int"] /= shmID[r]["int"]
      <4>1. r \in interrupted \/ pc[r]["main"] /= "exit"
        BY <3>1, <3>3 DEF ExitInv, GoesThrough
      <4>2. semaphoreRemove(r, p)
        BY <2>1, <3>3 DEF Shm, IntSegmentGone
      <4>. QED  BY <1>1, <1>6, <1>7, <1>8, <2>a, <2>c, <4>1, <4>2
                DEF ExitInv, AfterSemaphores, GoesThrough, AfterPids, MainAt
    <3>. QED  BY <3>2, <3>3
  <2>2. CASE ShmPid(r, p)
    <3>1. rm[r]["main"] = "shmPid" /\ semaphoreRemove(r, p)
      BY <1>11, <2>2 DEF ShmPid
    <3>2. shm'["pid"] /= r
      BY <1>1, <2>2 DEF ShmPid, ShmWithout, ExitInv, Own
    <3>3. r \notin interrupted /\ pc[r]["main"] = "exit" => rm'[r]["main"] = "semPid"
      BY <2>c, <3>1 DEF ExitInv, GoesThrough
    <3>. QED  BY <1>1, <1>6, <1>7, <1>8, <2>a, <2>c, <3>1, <3>2, <3>3
              DEF ExitInv, AfterSemaphores, GoesThrough, AfterPids, MainAt
  <2>3. CASE Sem(r, p)
    <3>1. pc[r]["main"] = "error"
      BY <1>11, <2>3 DEF Sem, Inv, RunInv, OnlySemaphores
    <3>. QED  BY <1>1, <1>6, <1>7, <1>8, <3>1
              DEF ExitInv, AfterSemaphores, GoesThrough, AfterPids, MainAt
  <2>4. CASE SemPid(r, p)
    <3>1. rm[r]["main"] = "semPid" /\ rm'[r]["main"] = "none" /\ UNCHANGED shm
      BY <1>11, <2>4, <2>b DEF SemPid
    <3>2. sem'["pid"] /= r /\ \A k \in Two : sem'[k] = sem[k]
      BY <1>1, <2>4 DEF SemPid, SemWithout, Two, Inv, TypeOK
    <3>. QED  BY <1>1, <1>6, <1>7, <1>8, <2>a, <3>1, <3>2
              DEF ExitInv, AfterSemaphores, GoesThrough, AfterPids, MainAt
  <2>. QED  BY <2>1, <2>2, <2>3, <2>4 DEF Remove
<1>. QED  BY <1>10, <1>11

LEMMA ExitNext == Inv /\ ExitInv /\ [Next]_vars => ExitInv'
<1> SUFFICES ASSUME Inv, ExitInv, [Next]_vars PROVE ExitInv'
  OBVIOUS
<1>t. TypeOK /\ TypeOK'
  BY TypeNext DEF Inv
<1>p. /\ {"main", "gpio", "parent"} \subseteq Procs
      /\ \A p \in Workers \cup Clients : p \in Procs \ {"main"}
      /\ {"elevator", "int", "pid"} = Keys
  BY RunsAssumption DEF Procs, Keys
<1>m. ASSUME NEW r \in Runs, NEW place \in Places, Goes(r, "main", place)
      PROVE  \A s \in Runs : pc'[s]["main"] = IF s = r THEN place ELSE pc[s]["main"]
  BY <1>t, <1>p, <1>m, GoesTypes
<1>1. ASSUME NEW r \in Runs, Start(r) \/ Bind(r) PROVE ExitInv'
  <2>1. \E place \in {"elevator", "forkParent", "failed"} : Goes(r, "main", place)
    BY <1>1 DEF Start, Bind
  <2>2. \E place \in {"elevator", "forkParent", "failed"} :
          \A s \in Runs : pc'[s]["main"] = IF s = r THEN place ELSE pc[s]["main"]
    BY <1>m, <2>1 DEF Places
  <2>. QED  BY <1>1, <2>2, ExitOthers DEF Start, Bind
<1>2. ASSUME NEW r \in Runs, SemaphoreInit(r) PROVE ExitInv'
  <2>1. PICK k \in Keys, place \in {"int", "pid", "shm", "failed"} :
          /\ pc[r]["main"] = k /\ sem' = Created(r, k) /\ Goes(r, "main", place)
    <3>1. PICK k \in Keys :
            /\ At(r, "main", k) /\ sem' = Created(r, k)
            /\ Goes(r, "main",
                    CASE k = "elevator" -> "int"
                      [] k = "int" -> IF Accepted(r, k) THEN "pid" ELSE "failed"
                      [] k = "pid" -> IF Accepted(r, k) /\ Accepted(r, "elevator")
                                      THEN "shm" ELSE "failed")
      BY <1>2 DEF SemaphoreInit
    <3>2. k \in {"elevator", "int", "pid"}
      BY DEF Keys
    <3>. QED  BY <3>1, <3>2 DEF At
  <2>2. \A s \in Runs : pc'[s]["main"] = IF s = r THEN place ELSE pc[s]["main"]
    BY <1>m, <2>1 DEF Places
  <2>3. \A s \in Runs, l \in Keys :
          /\ sem'[l] = s => sem[l] = s \/ pc[s]["main"] \notin {"exit", "left"}
          /\ sem[l] = s => sem'[l] = s
    <3>1. pc[r]["main"] \notin {"exit", "left"} /\ r /= 0 /\ \A s \in Runs : s /= 0
      BY <1>p, <2>1 DEF Runs
    <3>2. \A l \in Keys : sem'[l] = IF l = k /\ sem[l] = 0 THEN r ELSE sem[l]
      BY <1>t, <2>1 DEF Created, TypeOK
    <3>. QED  BY <3>1, <3>2
  <2>. QED  BY <1>2, <2>2, <2>3, ExitOthers DEF SemaphoreInit
<1>3. ASSUME NEW r \in Runs, SharedMemoryInit(r) PROVE ExitInv'
  <2>1. PICK ks \in SUBSET Keys, place \in {"shmPid", "forkWorkers"} :
          /\ pc[r]["main"] \in {"shm", "shmPid"} /\ Attach(r, ks) /\ Goes(r, "main", place)
    BY <1>3, <1>p DEF SharedMemoryInit, At
  <2>2. /\ \A s \in Runs : pc'[s]["main"] = IF s = r THEN place ELSE pc[s]["main"]
        /\ UNCHANGED <<sem, rm, interrupted>>
    BY <1>3, <1>m, <2>1 DEF Places, SharedMemoryInit
  <2>3. /\ \A k \in Keys : shm'[k] = IF k \in ks /\ shm[k] = 0 THEN r ELSE shm[k]
        /\ \A k \in Keys : shmID'[r][k] = IF k \in ks THEN shm'[k] ELSE shmID[r][k]
        /\ \A s \in Runs : s /= r => shmID'[s] = shmID[s]
    BY <1>t, <2>1 DEF Attach, TypeOK
  <2>4. ASSUME NEW s \in Runs PROVE Own(s)'
    BY <2>3 DEF ExitInv, Own
  <2>5. ASSUME NEW s \in Runs PROVE AfterSemaphores(s)'
    BY <2>1, <2>2 DEF ExitInv, AfterSemaphores, MainAt
  <2>6. ASSUME NEW s \in Runs PROVE AfterPids(s)'
    BY <1>p, <2>1, <2>2, <2>3 DEF ExitInv, AfterPids, MainAt
  <2>7. ASSUME NEW s \in Runs PROVE GoesThrough(s)'
    <3> SUFFICES ASSUME s \notin interrupted, s /= r, pc[s]["main"] = "exit"
                 PROVE  GoesThrough(s)'
      BY <2>1, <2>2 DEF GoesThrough
    <3>1. shmID[s]["int"] /= 0
      BY DEF Inv, RunInv, Known, Two
    <3>. QED  BY <1>p, <2>2, <2>3, <3>1 DEF ExitInv, GoesThrough
  <2>. QED  BY <2>4, <2>5, <2>6, <2>7 DEF ExitInv
<1>4. ASSUME NEW r \in Runs, SharedMemoryInitFails(r) \/ ForkFails(r) PROVE ExitInv'
  <2>1. \A s \in Runs : pc'[s]["main"] = IF s = r THEN "error" ELSE pc[s]["main"]
    BY <1>4, <1>m DEF SharedMemoryInitFails, ForkFails, Places
  <2>2. \A s \in Runs : s /= r => rm'[s] = rm[s]
    BY <1>4, <1>t DEF SharedMemoryInitFails, ForkFails, TypeOK
  <2>. QED  BY <1>4, <2>1, <2>2, ExitOthers DEF SharedMemoryInitFails, ForkFails
<1>5. ASSUME NEW r \in Runs, ForkWorkers(r) \/ Fork(r) PROVE ExitInv'
  BY <1>5, <1>t, <1>p, ForkTypes, ExitOthers
<1>6. ASSUME NEW r \in Runs, Leave(r) PROVE ExitInv'
  <2>1. PICK place \in {"left", "failed"} :
          /\ \A s \in Runs : pc'[s]["main"] = IF s = r THEN place ELSE pc[s]["main"]
          /\ place = "left" => pc[r]["main"] = "exit" /\ rm[r]["main"] = "none"
          /\ UNCHANGED <<sem, shm, shmID, rm, interrupted>>
    BY <1>6, <1>m DEF Leave, At, Places
  <2>. QED  BY <2>1 DEF ExitInv, Own, AfterSemaphores, GoesThrough, AfterPids, MainAt
\* The menu has what its main will remove.
<1>7. ASSUME NEW r \in Runs, Exit(r) PROVE ExitInv'
  <2>1. /\ pc[r]["main"] = "menu" /\ rm'[r]["main"] = "shm"
        /\ \A s \in Runs : pc'[s]["main"] = IF s = r THEN "exit" ELSE pc[s]["main"]
        /\ \A s \in Runs : s /= r => rm'[s] = rm[s]
        /\ UNCHANGED <<sem, shm, shmID, interrupted>>
    BY <1>7, <1>t, <1>p DEF Exit, At, TypeOK
  <2>2. r \notin interrupted => sem["int"] = r /\ shm["int"] = shmID[r]["int"]
    BY <2>1 DEF Inv, RunInv, Semaphores, Segments, Forked, Two
  <2>. QED  BY <2>1, <2>2 DEF ExitInv, Own, AfterSemaphores, GoesThrough, AfterPids, MainAt
<1>8. ASSUME NEW r \in Runs, Killed(r) \/ ParentExits(r) PROVE ExitInv'
  BY <1>8, <1>t, DeadMoves, ExitOthers
<1>9. ASSUME NEW r \in Runs, Interrupt(r) PROVE ExitInv'
  <2>1. /\ pc[r]["main"] = "menu" /\ interrupted' = interrupted \cup {r}
        /\ \A s \in Runs : s /= r => rm'[s] = rm[s]
        /\ UNCHANGED <<sem, shm, shmID, pc>>
    BY <1>9, <1>t DEF Interrupt, At, TypeOK
  <2>. QED  BY <2>1 DEF ExitInv, Own, AfterSemaphores, GoesThrough, AfterPids, MainAt
<1>10. ASSUME NEW r \in Runs, NEW p \in Procs, Remove(r, p) PROVE ExitInv'
  BY <1>10, ExitRemove
<1>11. ASSUME NEW r \in Runs,
              Others(r) PROVE ExitInv'
  <2>1. PICK p \in Procs \ {"main"}, place \in Places : Goes(r, p, place)
    BY <1>11, <1>t, OthersMove
  <2>2. UNCHANGED <<sem, shm, shmID, rm, interrupted>>
    BY <1>11, <1>t, OthersMove
  <2>3. \A s \in Runs : pc'[s]["main"] = pc[s]["main"]
    BY <1>t, <1>p, <2>1, GoesTypes
  <2>. QED  BY <2>2, <2>3, ExitOthers
<1>12. CASE KillSem
  <2>1. /\ \A s \in Runs : pc[s]["main"] /= "exit" /\ s /= 0
        /\ UNCHANGED <<shmID, pc, rm, interrupted>>
        /\ \A k \in Keys : sem'[k] = 0 /\ shm'[k] \in {0, shm[k]}
    <3>1. \A s \in Runs : pc[s]["main"] /= "exit" /\ s /= 0
      BY <1>12 DEF KillSem, Alive, Runs
    <3>2. \A k \in Keys : sem'[k] = 0 /\ shm'[k] \in {0, shm[k]}
      BY <1>12, <1>t DEF KillSem, TypeOK
    <3>. QED  BY <1>12, <3>1, <3>2 DEF KillSem
  <2>. QED  BY <1>p, <2>1 DEF ExitInv, Own, AfterSemaphores, GoesThrough, AfterPids, MainAt, Two
<1>13. CASE UNCHANGED vars
  BY <1>13, ExitOthers DEF vars
<1>. QED  BY <1>1, <1>2, <1>3, <1>4, <1>5, <1>6, <1>7, <1>8, <1>9, <1>10, <1>11, <1>12, <1>13
          DEF Next, Main, Others

\* However the runs before and after it went: a main that has returned from choice
\* 0 has left none of its objects, but, after a Ctrl-C, perhaps those of the pids.
THEOREM ExitLeavesOnlyPidHolds == Spec => []ExitLeavesOnlyPid
BY InvInit, InvNext, ExitInit, ExitNext, ExitImplies, PTL DEF Spec
=============================================================================
