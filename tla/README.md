# A verification development of 2022Fall-EOS

The repository holds the programs of an embedded operating systems course: a
group-elevator controller (`src/project`), three home works (`src/HW1` to
`src/HW3`) and five labs (`src/lab3` to `src/lab7`). Most of them are families
of Linux processes that share memory and meet at System V semaphores, signals
or sockets. This directory models them in TLA+, checks the models with TLC and
proves the results that matter most with TLAPS.

1. [Inventory](#1-inventory)
2. [Plan](#2-plan)
3. [The elevator controller](#3-the-elevator-controller)
4. [The life of the controller](#4-the-life-of-the-controller)
5. [The bank server](#5-the-bank-server)
6. [The guessing game](#6-the-guessing-game)
7. [The disease-control server](#7-the-disease-control-server)
8. [The case counter](#8-the-case-counter)
9. [The reporting server](#9-the-reporting-server)
10. [The train server](#10-the-train-server)
11. [The runs](#11-the-runs)
12. [Disagreements seen while modelling](#12-disagreements-seen-while-modelling)
13. [What is proved](#13-what-is-proved)
14. [What is not modelled](#14-what-is-not-modelled)

## 1. Inventory

### Elevator controller (`src/project`)

The final project, and the core of the repository. `main.c` creates the IPC
objects (`InterProcessCommunication.c`), forks the processes below
(`ElevatorOperation.c`) and stays in a menu that creates passengers.

| process | instances | what it does |
|---|---|---|
| `elevatorSimulationProcess` | one per car | moves the car, opens and closes its door, unloads and boards |
| `elevatorAssignFloorCallProcess` | one per car | takes new floor calls into a car's queue |
| `elevatorSchedulerProcess` | one | gives every new passenger to a car, by one of three policies |
| `elevatorUpPeakProcess` or `elevatorZoningProcess` | one per car, algorithm 2 or 4 only | sends a car that has been idle elsewhere home |
| `gpioProcess` | one | polls the abnormal button, writes it into every car, drives a display |
| menu (`main`) | one | `generateSingleFloorPassenger` and its variants |
| `parentProcess`, `clientProcess` | one, and one per display | accept displays; copy the structures to a socket for one |

State, all in shared memory: an `Elevator` per car (`callSequence`, the queue
of the calls being served; `floorCalls` and `liftCalls`, given but not yet
served; `load`, `current_floor`, `direction`, `idle`, `abnormal`) and a `Floor`
per floor (`passengers_unchecked`, the new ones; `passengers`, the scheduled
ones). One semaphore per car and one per floor.

How they interact: the menu appends to a floor's unchecked list; the scheduler
moves the passenger to the checked list, locks *every* car, asks the policy and
appends the two calls of the passenger to the chosen car; the assignment
process of that car inserts the floor call into the car's priority queue; the simulation
process goes where the queue's first call says, boards who waits there (taking
the floor's semaphore with its own in hand) and inserts the lift calls.

What is hard: the simulation process gives its semaphore back in the middle of
every stop, five times, while counters taken before the sleep are used after
it; two lock orders (floor then cars, car then floor); a semaphore released on
a floor other than the one that was taken; queue order kept by inserting while
priorities change; unguarded reads of `idle` and `abnormal`.

What makes it correct: one process in a structure at a time; no passenger lost,
duplicated, carried past, or squeezed in; the load is who is aboard; the
queue is in order; a pressed button stops the cars; everybody is served; idle
cars go home.

Start-up and shutdown are a system of their own. The semaphores and segments
outlive the program: `main` creates the semaphores exclusively and takes over
whatever segments are there, leaves by choice 0 (`F_EXIT`), by four kinds of
error, or is killed; Ctrl-C runs the removals in every process at once; each of
the two removals gives up at its own first serious failure; `kill_sem.sh`
removes by hand what a killed run left; and `parentProcess` returns into `main`,
as a second menu. Correct is: a controller that is up has its objects to itself,
an orderly exit leaves none behind, and it is known who may go on with removed ones for ever.

### The other programs

| component | state | operations | hard | correct when |
|---|---|---|---|---|
| lab6 bank (`server.c`, `client.c`) | savings as 10 characters in shared memory, one semaphore, a child per client | accept and fork; deposit, withdraw, n times; Ctrl-C removes everything, in every process | read-modify-write of several processes; removal under a process's feet; widths of characters, int and counter | it is one atomic account, serves all, leaves nothing behind |
| lab7 game (`guess.c`, `game.c`) | guess and result in shared memory, the guesser's interval | timer handler, SIGUSR1 handler, Ctrl-C | a result read on a timer, left over from the last guess or guesser | the interval keeps the answer and finds it in time |
| HW3 disease-control server (`hw3.c`, `process_lib.c`, `IPC_lib.c`, `linked_list.c`) | severe and mild case tables, one list of regions per ambulance bus, three semaphores, a process per bus and per client | list, Confirmed case, Reporting system, Exit; an ambulance's round; Ctrl-C removes everything, in every process | read-modify-write of tables, two semaphores in sequence, estimates on lists others change, reports that fail half-way, removal under a process's feet | no case is lost, nobody is answered a whole second before the patients are away, every report is answered, Ctrl-C ends everybody |
| HW1 case counter (`hw1.c`, `driver.c`) | case counts, the digits of two numbers, LEDs and segments | menu (listing, area, report, exit), blinking thread | the thread checks a number's length and uses it later, while the menu rewrites the number | LEDs and numbers show what was counted, the total what was counted since the last listing, every digit comes up, the thread stays inside the number |
| HW2 reporting server (`hw2.c`) | case counts, the connection | list, Confirmed case, Reporting system, Exit, Ctrl-C | requests are cut out of a byte stream; a report that is wrong half-way; a client that goes; a handler between any two calls | a listing shows what was reported, the server gets on to the next client, Ctrl-C ends it |
| lab5 trains (`lab5.c`) | child slots | search, accept, fork; polling thread; handlers of SIGCHLD and SIGINT | handler and polling thread wait for the same child; the search for a slot has no end; handlers run in either thread | a slot is one train's, no zombie stays, Ctrl-C ends the server |
| lab4 display (`mydev.c`, `reader.c`, `writer.c`) | the driver's last letter | write, sampled read | two clocks of one second | every letter shown once |
| lab3 LED driver (`lab3_driver.c`, `writer.c`) | none beyond the pins | write | - | - |
| course samples (`examples`), socket helper (`sockop.c`) | - | - | not part of a program | - |

## 2. Plan

Done, in this order: `CallQueue`, `ElevatorPolicy`, `Elevator` (the core),
`ElevatorProofs`; `PassengerService` and `ElevatorService` (the abstract
specification and the refinement mapping); `ElevatorClaims`; `BankAccount`,
`Bank`, `BankProofs`; `Guess`; `Ambulance`, `AmbulanceProofs`;
`CaseBoard` and `CaseBoardProofs` (HW1), `TrainServer` and
`TrainServerProofs` (lab5), `Controller` and `ControllerProofs`
(the controller's start-up and shutdown), `ReportServer` (HW2); `DialogueProofs`
(the proofs about `Guess` and `ReportServer`).

Left: start-up on left-over objects for the bank and the disease-control
server.

Runs are kept few, one for each question; a new component makes room by folding
runs of an older one together.

## 3. The elevator controller

### Modules

| module | models |
|---|---|
| `CallQueue` | the call lists (`ElevatorProperty.c`) and the passages (`reassignPassagePriority`), as pure operators on sequences |
| `ElevatorPolicy` | the three policies (`ElevatorPolicy.c`) |
| `Elevator` | every process of the table above but the display, its types and its safety properties |
| `PassengerService` | abstract: what passengers are promised |
| `ElevatorService` | the refinement mapping from `Elevator` to `PassengerService`, fairness, liveness |
| `ElevatorClaims` | what a comment says and the code does not do |
| `MCElevator` | the trips the runs choose from |
| `ElevatorProofs` | theorems and proofs |

### State

`elevator[e]` and `floor[f]` are the shared structures, `semaphoreElevator` and
`semaphoreFloor` the System V counters. `simulation[e]`, `scheduler`,
`generator`, `parking[e]` and `gpio` hold, for each process, where it is (`pc`)
and those locals that live from one step to the next: `target`, the two counts
and `deletedFloorCallList` of a stop; `start_index`, the passenger in hand, how
many cars are locked and the round-robin counter; the new passenger and the
index it goes to. The assignment process has no locals and no state.

A list is the sequence of its first `length` nodes. The unchecked list keeps
its array and its length apart, because two processes may be inside it.

### Actions

One step runs from one point where a process can be held up, or where another
can see it, to the next: from semaphore operation to semaphore operation.
`SimulationHead`, `SimulationMove`, `SimulationIdle`, `Assign`, `ParkingInsert`
and `GpioWrite` take the semaphore and give it back without waiting in between
and are one step each, possible while the semaphore is up. A stop is cut at
every sleep: `SimulationStop` (door opens) - `SimulationCount` (what is to be
served) - `SimulationUnload`, `SimulationAwake` (once per call) -
`SimulationCollect` - `SimulationEnterFloor`, `SimulationAccept`,
`SimulationAwake` (once per passenger) - `SimulationClose` - `SimulationLeave`.
The scheduler is `SchedulerSkip` (nobody here), `SchedulerTake`,
`SchedulerShrink` (the two halves of the transfer), `SchedulerLock` (car by
car), `SchedulerDispatch`.

Decisions worth knowing when the model is compared with the code:

- Time is a choice: a car on its way either moves (`transition_time` is over)
  or does not. The one assumption about time is in `ParkingWake`: in the three
  seconds the parking process sleeps, a simulation process that is free to run
  has gone through its loop. Without it the same special call could be queued
  again and again, which no real schedule does.
- `elevatorCallSequenceSorting` compares node i with itself; the model does the
  same. `compareCalls` falls off its end for a call without direction, and may
  then answer anything: both operators give the set of what can come out.
- `floor_call_count` is unsigned and compared with a possibly negative
  `free_space`; `FloorCallCount` does what C does.
- A missing lift call becomes `NULL_CALL` and joins the queue, as in the code.
- `policyRoundRobin` never returns when all cars are full, and `policyZoning`
  indexes an array with -1 for an empty passenger: the scheduler then goes no
  further, with every semaphore in hand.
- The stores to the *checked* list and the single store of a length are atomic;
  reads of `idle`, `current_floor` and `abnormal` without a semaphore are steps
  of their own. The parking processes read the car up to four times before they
  insert their call: `ParkingWatch` (the test in the pass of the loop in which
  the seven seconds are over), `ParkingTest`, and in `elevatorZoningProcess`
  `ParkingSubtract` and `ParkingDivide`, the two halves of line 523. The first
  half may be further from home than the second, which makes a direction of 2
  or more, and a car that has come home in between makes the division one by zero,
  which ends the process (`"faulted"`). For that a passenger has to call the idle
  car to just that floor between two reads: no run's instance of the zoning policy
  has the passengers for it, and the theorem `TypesHold` covers it.
- The scheduler releases the semaphore of the floor it moves *to*
  (`SchedulerSkip`), because `start_index` is advanced before `sem_release`.
- Errors of `shmat`, `semop` and `fork` are left out; the one error exit that
  needs no failing system call (a car driving out of its shaft) is
  `SimulationExit`.

### Fairness

`FairSpec` gives each process strong fairness: the processes are endless loops
that the kernel keeps scheduling, and `semop` serves sleepers in the order they
came, so that a semaphore that is up again and again is got in the end. The
menu's user and the button owe nothing: `GeneratorNew` and `GpioRead` have no
fairness. What `elevatorOperationSleep` sleeps for ends.

Deadlock is not checked in the elevator's runs (`CHECK_DEADLOCK FALSE`): the
traffic is bounded, so the model ends when everybody is served; and the code
does have a deadlock, which the run `deadlock` shows and `RingOnlyHere` bounds.

## 4. The life of the controller

`Controller` models `main.c` from `semaphoreInit` to its last return, the
forked processes as far as the IPC objects are concerned, and what happens to
those objects between two runs. `sem[k]` and `shm[k]` hold the run that created
the object behind a key; `shmID[r]` what `shmget` gave a run; `pc[r][p]` and
`rm[r][p]` where a process is, in its own code and in `sharedMemoryRemove` and
`semaphoreRemove`. Three keys stand for all: `"int"` and `"pid"` are those on
whose failure `semaphoreInit` and the removals return at once, `"elevator"`
stands for the others, whose failure is only remembered.

The forked processes differ in how they can end, so a worker is of one of three
kinds, chosen when it is forked (`ForkWorkers`): a car (a simulation or
assignment process), the scheduler, or a parking process.

| process | loop | ends |
|---|---|---|
| car | `WorkerAcquire`, `WorkerRelease`; within, `CarStops`: the sleeps of a stop release and acquire whatever `semop` says | when it misses the semaphore or the segment at the head of its loop, or the floor's semaphore at a stop |
| scheduler | `WorkerAcquire`, `WorkerRelease`; within, `SchedulerSpins`: `policyRoundRobin` with every car full has no way out | the same, but never once it spins |
| parking | `Park`: attach and detach, a semaphore only when it sends the car home | when it misses the segment, or the semaphore when it comes to need it |
| `gpioProcess` | `GpioPids`, `GpioAttach`, `GpioShow` | when it misses any of them |
| client | `ClientAttach`, `ClientWrite` | when it misses the segment, its peer has gone, or the handler has closed its `connfd` |

An attached segment that was removed stays attachable through its ID until the
last process has detached (`Attachable`), so that two of these can keep it for
each other.

- Start-up: `Start`, `SemaphoreInit` (key by key), `SharedMemoryInit` and its
  error path, `Fork` and `ForkFails`, `Bind` (`passivesock` ends the process
  when the port is taken, and the children it has started stay).
- The ways out: `Exit` (choice 0 kills workers and `parentProcess`, neither
  `gpioProcess` nor the clients), `Interrupt` (Ctrl-C puts every process of the
  run into the handler), `Killed` (`kill -9` of main alone, whose children live
  on), and `ParentReturns` with `ParentExits`: after
  a failed `accept` or `fork`, `parentProcess` goes on in `main`'s menu, whose
  choice 0 kills process group 0.
- The removals, `Remove`: in `main` and, after Ctrl-C, in all processes at once.
- Between runs: `KillSem`. The script's two last keys are not those of the
  segments, which the code creates under the keys of the semaphores.

`EverybodyLeaves` says who ends once the semaphores of a run are removed: all,
but for those that `Kept` names. A scheduler that spins stays. A parking process
stays, and so does a client no handler has closed the connection of, as long as
some other process that can stay (`Stays`) is attached to the segments. Nobody
else stays, and nobody stays for another reason.

Bounds, and why they are enough: two runs (`MaxRuns`), since what the next run
finds is what the last one left. Of the first run (`Followed`) any two
(`Together`) of its workers, `gpioProcess` and clients are followed at a time,
out of two workers of any kind and two clients: a process ends or stays by what
it misses itself and by whether at least one other keeps the segment, so that
every reason takes one process or two. Ctrl-C once, at the menu, in a run that another may follow and
before that one has started, and a run starts only when the `main` of an
interrupted one is gone. `main` is killed only while no other process of its run has
a handler at work: `kill_sem.sh` may run as soon as `main` is gone, the next run
would then get the removed keys anew, and the late handler take a segment from
it. A removal step that fails is taken together with the next one: it changes
nothing but where its process is.

Fairness is weak, for the workers, `gpioProcess` and the clients: they are
endless loops, and here they never wait long. `main`, the user and the signals
owe nothing. The runs end when the bounded starts are used up: deadlock is not
checked.

## 5. The bank server

`Bank` models `lab6/server.c` from the end of its start-up on: the accepting
server, a child per client, Ctrl-C. A child is there (`Accept`) from the moment it has
read its request: one that waits for a silent client (`server.c:129`) touches
nothing, and Ctrl-C, whose handler closes `connfd`, ends it. A child's loop is `Acquire`, `Attach` (reads
the savings), `Store`, `Release`, so that two children could overwrite each
other if the semaphore let them. `Spelled` is the conversion of an int to ten
characters and back, with the sign over the first digit; `AsInt32` wraps;
the counter is an unsigned short. The widths are constants: `SPAN` stands for
10^9, `INT_MAX` and `USHRT_MAX` for themselves.

Ctrl-C goes to the whole process group. Each process runs the inherited
handler in two steps (`RemoveShm`, `RemoveSemaphore`); whoever comes late finds
the objects gone and ends in `errexit`; a child whose `semop` or `shmat` then
fails ends where it is (`Fails`), possibly with the semaphore down.

`BankAccount` is the promise: one balance, atomic operations, as many as were
asked for, exact whenever the result can be stored. A request for more
operations than the counter can count is promised operations without end, which
is what the code gives it; `EverybodyServed` leaves it out for the same reason.

Fairness: strong for a child (`semop` serves in turn), weak for handlers and for
the server's way out. Clients and Ctrl-C owe nothing.

## 6. The guessing game

`Guess` models both signal handlers of lab7, the timer, Ctrl-C of the game, and
a second `guess.o` started on the segment the first one leaves behind. The
handler of the timer is two steps (write the guess, send the signal), that of
SIGUSR1 is two steps (entered, answered). One assumption about time: the game,
which only waits for the signal, answers within the second the timer leaves it
(`InTime`). Killing a guesser inside its handler is left out.

## 7. The disease-control server

`Ambulance` models HW3 from the end of the server's start-up on: `main`
accepting and forking, a process per client, the two ambulances, and Ctrl-C.

State: `cases` is the two case tables, `bus[b]` the list of a bus with a record
per node, `semaCDCSystem` and `semaBusResult[b]` the three semaphores. Of a
client's process `pc` says where it is and `client[c]` holds its locals: the
options not yet read (`todo`), `case_number_array` (`array`), the loop index
(`at`), `largest_waiting_time`, and the time left to sleep. Each ambulance
has `first_get_time` and the time since `start`. History, for the
properties: `delivered` (cases brought away), `reporters` in a node (whose
reports it took in), `asked` and `before` (the regions a listing asks for, and
what the tables held of them when it began), `taken` (how many cases reports have
taken back, since `atoi` takes a negative number) and `withdrawn` (how many
that was of the regions asked for when the listing began).

Actions: a command is read (`ClientList`, `ClientConfirmed`, `ClientReporting`,
`ClientExit`) and carried out option by option. `addConfirmedDataRead` and
`addConfirmedData` are the two halves of `*shm += n` under the semaphore;
`getConfirmedData` is one. Then, region by region in ascending order,
`LockBus1`, `LockBus2` and `ClientSchedule` are `getAmbulanceWaitingTime`.
`ClientMalformed` ends the process at any option; what it has counted by then
stays counted and on no bus (`failed`), which is how `CasesConserved` speaks of
it. An ambulance's round takes its semaphore and gives it back without waiting:
`AmbulanceIdle`, `AmbulanceDrives`, `AmbulanceArrives`. The estimate
`getNodeWaitingTime` counts a region further down a list twice, as the code
does.

Ctrl-C makes SIGINT pending in every process. The inherited handler is two
steps (`RemoveShm`, `RemoveSemaphores`), after which the process goes on where
it was with `connfd` and `sockfd` closed: a `read` or `write` fails
(`ClientExit`, `ClientUnheard`), a `semop` or `shmat` fails (`..Fails`), a
`sleep` is over, `accept` fails (`AcceptFails`), and `main` waits for the last
client and both ambulances (`ServerEnds`).

Assumptions, each named where it is used:

- Time is in ticks, `SECOND` of them a second, and the estimates, which are
  doubles in the code, are in ticks too. `ClientSleep` drops the fraction of a second
  (`Truncated`, the `(int)` of `process_lib.c:177`) and then takes what is left
  for unsigned (`AsUnsigned`). An ambulance polls without a pause and sees every
  tick pass (`Polled`); nothing else is assumed about speed: a client may take
  any number of ticks over any step. No tick passes after Ctrl-C, which
  ends every sleep: nothing modelled after it depends on one.
- `accept`, the store to `connfd` and `fork` are one step (`Accept`): a Ctrl-C
  between the first two, whose handler closes the last client's descriptor in
  place of the new one, is left out.
- The handler in an ambulance is left out: it removes what the server's removes,
  an interrupted `semop` ends it, and nothing waits for it but `main`.
- A connection begins with `FirstCommands`, in the run `ambulances`, as in the
  README's dialogue. `case_number_array` is not initialised (`Residue` is what
  the stack held) and is cleared after the first command; a connection that
  begins with a report adds to the residue. TLC refutes `CasesConserved` at once
  when `"Reporting"` is among `FirstCommands`.
- Bounds: `MaxReports` per client, and Ctrl-C is pressed while no more than
  `MaxInterrupted` clients have connected. Two ticks are the least a second can
  have a fraction with. `UINT_MAX` is small, so that the sleep of -1 seconds ends,
  and the longest tour of what the run's reports name fits (in general `SleepFits`,
  section 13). A model in which that sleep ends cannot show how long it is:
  `EveryReportAnswered` says nothing about the century of section 12.

Fairness: strong for a client's process and an ambulance, because `semop` serves
those who sleep on a semaphore in turn and the ambulances take theirs again and
again; weak for the handlers, the server's way out and time. What a peer sends,
when it hangs up and whether Ctrl-C is pressed are nobody's duty.

## 8. The case counter

`CaseBoard` models `HW1/hw1.c`: the main thread's menu, and `set_seg_blink`
with one action for each access to a variable the two threads share. A number
is `buffer[b]` with `digit_num[b]`, for the total and for the area looked at;
rewriting one is `ResetDigits`, then `CountDigit` and `StoreDigit` per digit, in
the order gcc gives `buf[n++] = d`. The thread goes `AtLoop` - `WhichTotal`,
`WhichArea` - `WrapIndex` - `AnyDigit` - `Index` - `Fetch` - `WriteSegment` (per
segment) - `Advance`. `leds` and `seg` are what was last written to the pins;
the half-second blinks of an area are one step, and seconds are not counted:
how long a digit stays is no property here. `listed` is history: the cases of
all areas when a listing last set `total_case` to 0. `ShownIsCounted` says that the
total on the board is what has been counted since (`AllCases - listed`); that it is
not what has been counted altogether is in section 12.

Undefined behaviour is a choice: a fetch outside the buffer is a fault or some
word (`Junk`), a division by zero is a fault or leaves the dividend
(x86 and ARM). The LEDs begin at random, as an earlier run may have left them.

Bounds: two areas, two segments (a digit can be half written), numbers of two
places (`Word` = 100 stands for 2^32, so unsigned sums wrap and a number fills
its buffer), two reports out of three. `touched` is history: the main thread has
begun to rewrite the number that the blinking thread has checked.

Fairness: weak for what the main thread does of its own (`OwnSteps`) and for
the blinking thread; the user owes nothing. The process may end: deadlock is not
checked.

## 9. The reporting server

`ReportServer` models `HW2/hw2.c`: one client at a time, whose requests are
taken out of a byte stream. `Read` returns whatever has arrived, one request or
several run together; a request that is not alone is malformed for every
command that looks at its options, and is the first of them for the others.
`ReportingSystem` counts the options up to the first that is wrong, and a wrong
one ends the server. After `Exit` the command is not cleared (`NotCleared`): a
next client that goes without a word leaves it there, and is taken to have said
`Exit` too. `accept` and the store to `connfd` are one step: a Ctrl-C in between
would close the client before. `Write` succeeds for a client that is there, may still
succeed for one that is gone, and ends the server after Ctrl-C, which closes the
sockets at any point. `heard` is history, the answers a client got;
`ListingsTellReports` is about it alone: the listing among the answers shows, for
each region, the sum of what the earlier answers confirmed (`Tells`, `Reported`),
in a word.

Bounds: two regions, unsigned numbers below 8 (a report may be negative, and
wraps), three requests of a client, two clients. Fairness: weak for the server,
none for clients and Ctrl-C.

## 10. The train server

`TrainServer` models `lab5/lab5.c`. Shared by the main thread, `wait_for_child`
and two handlers without a lock: `connfd_occupied` and `childs_pid`. The main
thread is `Search` (slot by slot), `Accept`, `Fork`, `Record`; the polling
thread `Check`, `Wait` (`waitpid` with the slot's pid, or for any child when the
slot has none yet), `Compare`, `Free`; the handlers `ZombieProcessHandler` (any
number of exits may be one signal) and `InterruptHandler`, which may run in the
thread that is not in `accept`: the socket is then closed, and the accept takes
one more client. `Search` has no end: with every slot taken it leaves the array,
up to `Padding` words that read as free; what a write further behind does is not
followed, nor what `accept` destroys when it writes the address behind
`addr_cln` (`lab5.c:78`), which is taken for unused like the padding.

Bounds: two slots, one word of padding and three trains are the least in which
the search leaves the array and comes back to it. Fairness: weak for the threads
and handlers; clients come and trains pass as they like.

## 11. The runs

Bounds: two cars are the least that can be told apart by a policy or wait for
each other with the scheduler; two to four floors give a floor between and two
zones; capacity 1 or 2 with up to three passengers fills a car with somebody
left over; one button press, one parking call per queue. Passengers are told
apart by ID in the code (the order of arrival matters), so no symmetry is used.

| run | instance | shows |
|---|---|---|
| `any_traffic` | 2 floors, 2 cars for 1, 2 passengers, trips both ways, up-peak, one press of the button | `TypeOK`, `ElevatorSemaphores` (each car's semaphore is up or held once), `FloorPermits` (where every floor permit is, the travelling one included), `RingOnlyHere` (between which processes the lock ring can close), `ButtonStopsCars` (action property) |
| `up_traffic` | 3 floors, 2 cars for 2, three passengers from the ground floor, shortest-queue policy | `ServiceSpec` (refinement of `PassengerService`), `LoadIsRiders`, `QueueInOrder` |
| `lone_passenger` | 4 floors, 2 cars, zoning, one passenger, fair | `EveryoneServed`, `CarsGoHome` |
| `deadlock` | 3 floors, 1 car for 2, fair | violated: scheduler and car wait for each other, nobody is scheduled |
| `bank` | 2 clients, 3 kinds of request, SPAN 3, INT_MAX 4, USHRT_MAX 2 | `TypeOK`, `AccountSpec` (refinement of `BankAccount`), `EverybodyServed`, `CtrlCLeavesNothing` |
| `guess` | upper bound 100, answers -1 to 101, 10 seconds, 2 guessers | `TypeOK`, `AnswerInside`, `FoundInTime` |
| `ambulances` | 2 clients with a report each, regions 0 to 3, negative numbers, half seconds, queries with and without a fault, Ctrl-C with one client connected | `TypeOK`, `SemaphoresHeldOnce`, `CasesConserved` (tables = delivered + lists + in hand), `SleepCoversRescue` (nobody is answered a whole second too early), `ListingBetween` (but for what reports took back), `EveryReportAnswered`, `CtrlCEndsEverybody` |
| `case_board` | 2 areas, 2 segments, 2 places, 2 reports | `TypeOK`, `ShownIsCounted` (LEDs, an area's number, and the total since the last listing), `StraysOnlyWhenTouched` (the unlocked thread leaves the number only while it is being rewritten), `EveryDigitShown` |
| `trains` | 2 slots, 1 word of padding, 3 trains | `TypeOK`, `TakenForATrain`, `StraysOnlyWhenFull`, `NoZombieStays`, `CtrlCEnds` |
| `controller` | 2 runs, 1 Ctrl-C, 2 workers, 2 clients, two of these and `gpioProcess` at a time | `TypeOK`, `RunningKeepsItsObjects`, `ExitLeavesOnlyPid`, `EverybodyLeaves` (who ends, and who alone may stay) |
| `reports` | 2 regions, 2 clients of 3 requests | `ReportTypeOK`, `ListingsTellReports`, `CtrlCEnds` |
| `lost_client` | the same | violated: a client that goes keeps the server for ever |

Why the traffic differs from run to run: for trips in both directions the code
boards passengers of another floor (section 12), so the service can only be
implemented for the traffic of the ground floor, which is the rush hour the
policies are made for; that restriction is a finding and not a convenience.
Up-peak and zoning cars are sent home by special calls whose removal is counted
like a passenger's, so `ServiceSpec` is checked with a policy that sends
nobody home, and `CarsGoHome` with one that does. `EveryoneServed` is checked
for one passenger at a time, because with more the deadlock of the run
`deadlock` is reachable.

The bank's small widths keep the proportions of the real ones (ten digits, an
int of the same number of digits, a sign that costs one): deposits overrun the
int, withdrawals the digits behind the sign, one request the counter. The
theorem `AccountImplemented` is about all widths.

In `ambulances` one client reports a region that takes long and a region with a
negative number, or finds its second area malformed after the first was counted; the other
reports a region in between, or the one that shrinks, or region 0 without a
case, and lists the region that shrinks. With half seconds the second bus is
chosen, regions wait behind and are merged into others, and a sleep loses a
fraction. The two clients' reports differ, so no symmetry is used. Deadlock is
not checked, because the server ends after Ctrl-C; `EveryReportAnswered` would
find one.

## 12. Disagreements seen while modelling

Two have a run and are listed as findings: `deadlock` and `lost_client`. The
others were met on the way; each was seen in a counterexample of TLC or follows
from the lines named.

- `ElevatorOperation.c:983` calls a floor's lists a critical section ("Floor
  criteria"); the scheduler releases, at 398, the semaphore of the floor it moves
  *to*, so that a floor can have two permits and two processes inside.
  `FloorPermits` says where every permit is.
- `ElevatorOperation.c:105` takes the calls from the front of the queue after
  sleeps in which another call may have come there; 122 then removes the
  passenger from the list of the floor the car is at, who may be waiting on
  another. This needs trips in both directions.
- `ElevatorProperty.h:41` orders a car's requests; a full car (`free_space` 0 at
  `ElevatorOperation.c:82`) accepts nobody and keeps the call it stops for, so
  that it opens and closes its door at that floor without serving what is next.
- `lab7/README.md:43` says that the range of the guesses ends with the upper
  bound; the middle at `guess.c:89` is rounded down and the bound itself is never
  guessed. `FoundInTime` is about the other numbers.
- `HW3/README.md:25-26` says that a region that already waits is merged with the
  new report; `linked_list.c:109` compares one bus at a time, so that a region
  can wait on both buses.
- `HW3/README.md:108-116` has two clients answered at the moment the ambulance
  is back; `process_lib.c:177` cuts the estimate, a double, to whole seconds, so that a
  client whose estimate has a fraction is answered up to a second early.
  `SleepCoversRescue` says that it is never more.
- A report without a case sleeps for the -1 that `largest_waiting_time` began
  with, as an unsigned int (`process_lib.c:177`): it is answered after more than
  a century.
- `atoi` at `process_lib.c:121` and `133` takes a negative number of cases, so the tables
  can shrink, also below zero; `ListingBetween` says by how much a listing can then be off.
- `HW1/README.md:28` and `103` say that the display shows the total number of
  cases; the listing sets `total_case` to 0 at `hw1.c:111`, and what is shown after
  the next report is what was counted since the listing. `ShownIsCounted` says so.
- `hw2.c:188` leaves the loop without clearing the command (192-193): the next
  client, when it goes without a word, is taken to have said `Exit`. It is the one
  lost client that does not keep the server of the run `lost_client`.
- In both directions of traffic, `ElevatorOperation.c:138` can fail to find the
  lift call of a passenger it boards, and queues a `NULL_CALL` for floor 0: in
  the instance of `any_traffic` TLC refutes that no queue holds one after a few
  hundred states. `TypeOK` therefore admits floor 0.
- `ElevatorOperation.c:523` divides by the distance between the car and its
  home, which was not 0 when it was tested at 522 and may be when it is read again.

## 13. What is proved

All of it by TLAPS, for every value of the constants that the named
assumptions allow (`BuildingAssumption`: at least two floors and one car;
`WidthAssumption`, `RequestAssumption`, `ProcessAssumption` of the bank;
`GameAssumption`; `ServerAssumption`; `RunsAssumption`; `TrainAssumption`;
`BoardAssumption`, and `PowerAssumption`: what a power of ten is, place by
place, which the provers do not know).

`ElevatorProofs`:

- `ElevatorSemaphoresHold`. The invariant alone is not inductive: nothing says
  that the scheduler has locked no car unless it is locking. `LockInv` adds
  that and the range of `scheduler.locked` (`LockTypes`), and that structures
  have their fields (`Shape`). Each step either leaves a car's semaphore and
  who holds it alone (`LockFrame`), or takes (`LockAcquire`) or gives back
  (`LockRelease`) exactly one.
- `FloorPermitsHold`. `PermitInv` adds `FloorTypes`. The difficulty is that
  permits travel: `SchedulerSkip` takes from one floor and gives to the next,
  and the equation says that the floor the scheduler is at has one more than
  it should, the ground floor one fewer. The sets of cars on a floor change by
  one element; `CarsFrame` and the library's theorems on cardinality do that.
- `RingOnlyHereHolds` follows from the permits: a car that waits for a floor
  nobody else is on waits for a permit that is elsewhere, and that can only be
  the ground floor's.
- `ButtonStopsCarsHolds`, an action property: `ButtonInv` says that the first
  `gpio.next` cars have been told, and `AbnormalKept` that nobody but the
  GPIO process touches the flag.
- `TypesHold`, if `HomesExist`: with the zoning policy the floors the cars are
  sent home to exist (the zones are rounded up, so that four floors and three cars
  would have a car go home to a fifth floor). `TypeInv` adds that the calls a car still has
  to take off at its stop are in its queue (`Fits`), that the scheduler, who shortens
  a list in two halves, has a node to take off the length (`Shrinks`), and that no
  floor has more new passengers than were created (`Created`). The direction of a
  parking call is a quotient of two ways home read at different times
  (`ParkingTypes`, `QuotientRange`).
  The lemmas before it say what each operator on lists does to a list of any calls:
  the selection, insertion and removal of a node, and `SortingType` for the sort,
  whose exchanges keep the calls whatever `compareCalls` answers for a call
  without direction. That there is a result at all is part of it
  (`RoundsExist`, by the least round that has none).

- `QueueInOrderHolds`, `LoadIsRidersHolds` and `ServiceImplemented`, if
  `UpTraffic`: the policy sends nobody home and every trip starts on the ground
  floor, which is the setting of the run `up_traffic` (section 11 says why: for
  other traffic the code does not implement the service). Floors, cars, capacity,
  passengers and their destinations are arbitrary. One invariant, `ServiceInv`,
  serves all three; none of its parts is inductive without the others:
  - `CarFacts` of a car and its process. `Ticketed`: a passenger who is given to the car
    and not yet aboard has one lift call and one floor call, the latter in exactly one of
    three lists (assigned, in the queue, deleted at this stop), so that
    `deleteIDLinkedCall` finds the lift call that goes with a floor call. `Heading`: the
    queue is in order and lies ahead. `Filled`: the load is the number of riders, those
    about to board fit, and a floor call of the first passage stays behind riders only
    in a full car. `AtStop`: what the process knows between two critical sections is
    still true of the car, though the assign process may have been at its queue: the calls
    yet to be taken off (`TakesOff`) are still its first ones, since what is inserted
    meanwhile goes behind them.
  - `Newcomers`: the new passengers are on the ground floor's list, with a node each
    up to its length, but for the one the menu has yet to write and the
    one the scheduler has half deleted.
  - `Apart`: nobody is twice among the newcomers, among them and in a car, or in two cars.
  - `Watching`: no parking process runs.

  A special call, a trip from above or a passage given in the other direction would
  break `Heading`. The proof has three layers: what the list operators do to a list of
  upward calls in the order of their ranks (`RanksCompared`, `QueueInserted`,
  `OneMoreCalls`); one lemma for each kind of step of a car (`AcceptFacts`,
  `ProcessFacts`, `GivenFacts`...), about values and not variables; and the actions,
  which only name the values (`UpCarStep`, `ServiceStep`).
- For the refinement, `Mapped` says what the mapping of `ElevatorService`
  gives under `ServiceInv`: those who wait are the pending newcomers
  and the lift calls the cars were given, those who ride the lift calls in the
  queues. `MappedStep` is then by cases: a step of a car travels, lets out, boards
  (`CarStep`) or changes none of this, the menu's is an arrival, the scheduler's
  gives a newcomer to one car and changes nothing a passenger can see.

`BankProofs`: `AccountImplemented`, the refinement. `BankInv` says that at most
one child is inside and none while the semaphore is up (`Exclusion`, also when
a child has died inside), that a child about to store has read what is there
(`Fresh`), and that the counter stays below what was asked for (`Counted`).
Every step then maps to `Connect`, `Perform` or nothing; `OneOperation` is the
arithmetic: wrapping and spelling are exact for results that fit.
`NothingLeftHolds` is the safety half of `CtrlCLeavesNothing`: when all have
ended nothing is left. `Removal` is why: the server does not end while its
signal is pending, whoever has begun the handler finds or leaves the segment removed,
and from then on the semaphore is removed too or somebody is between the two
removals, alive. That all do end is the other half, and TLC's.
`NobodyStrandedHolds` is what `EverybodyServed` rests on: a semaphore that is
down is held by a child that has not ended, or is removed, or somebody is about
to remove it, which wakes its sleepers; a child that dies inside does so only
after the segment is gone (`Accounted`).
`BankTypesHold` is type correctness, by the same invariant and the types of the
processes (`ProcessTypes`).

`DialogueProofs` holds the proofs about the two programs in which one party
answers another, lab7's game and HW2's server. It EXTENDS both, hence the names
of `ReportServer`'s specification (`ReportInit`, `ReportSpec`...). The
game: `GuessTypes` and `AnswerInsideHolds`; the strengthening
(`ResultFits`) is that between two seconds the result in shared memory is about
the guess beside it. `FoundInTimeHolds`, if `TimeEnough`: the upper bound is at
most 2 to the power of `MaxTicks` - 1, which is 512 for the code's ten seconds
(the first guess is made without an answer, each later one halves what is left,
and a larger range is not found in time). `Narrowed` says how wide the interval
still is after how many seconds, and that it holds the answer in the way the
next guess needs: strictly, but for the lower end before anything was too low.
`Phase` and `StaysWon` carry a game that is won through a second guesser's life.
`Doubling` (`InductionTheorems`) is what the provers have to know of powers.

The server: `ReportTypes` and `ListingsTellReportsHolds`, for any regions, word,
requests and clients (`RequestAssumption`: what kinds of requests there are, and
that a Confirmed case with options has one). A listing tells what was reported
because the tables do, and that is not so at all times: `Tables` says that they
are empty between clients, are what the client's answers confirmed (`Kept(<<>>)`) while a
request is read or performed, and are that and the options of the report in hand
(`Kept`) while the server sleeps over it, having counted it before it answers.
Numbers are unsigned and wrap at each addition, what was reported is added up first:
`SameInWord` and `RemainderUnique` are that it comes to the same.

`InductionTheorems`: the library's induction theorems take an operator as a
parameter, which the provers cannot instantiate; but the least counterexample of
a set (`WFMin` of `WellFoundedInduction`) can be had without one. `LeastNumber`
and `MinimalSet` are induction over the natural numbers and over the finite
sets in that form. On them rest the laws of `SumFunction` and
`SumFunctionOnSet`, from `SumRecursion` (what the fold computes for one element
more) to `SumUnion`, `SumChanged`, `SumAtLeast`, `SumRenamed`, `SumPairs` and
`SumPlus`. `QuotientRemainder` and `RemainderUnique` say what % is for a divisor
that is not a literal, which the solver does not find by itself.
The models therefore take their sums with these two operators of `Functions`.

`AmbulanceProofs`, for any clients, regions, reports and queries
(`ServerAssumption`):

- `SemaphoresHeldOnceHolds`. `SemInv` adds the types. Most steps leave a
  client's place among the semaphores alone (`SemFrame`, `ClientFrame`); three
  take a semaphore or give one or two back, which moves exactly one client into
  or out of the holders (`HoldersMoved`, `AcquireHeld`, `ReleaseHeld`); after a
  removal nothing more is claimed (`AfterRemoval`).
- `AmbulanceTypes`. `TypeInv` says besides what each command still has to read
  (`Todo`), that a client that is choosing a bus has a region with cases before
  it, and how an ambulance's clock goes with the head of its list (`Driving`).
  `Semaphores` is what is left of the first theorem while Ctrl-C is handled.
- `CasesConservedHolds`, if `ArrayZeroed`: the first command of a connection is
  no report or the uninitialised array happens to be zero. (The code does not
  see to it; a report that comes first adds what is on the stack, and the run
  and the theorem leave that out.) `ReadIsCurrent` says that the number a
  client is about to store has not been touched since it read it, which is what
  the semaphore is for; `Clean` that a command begins with an empty array. What
  `insertEnd`, merging, `deleteBegin` and the way from a client's hands onto a bus do to
  the sums is shown by the laws above.
- `ListingBetweenHolds`. `Looking` says of each moment of a listing that what
  has been read is no more than the tables hold now of the entries read, and that what was
  there at the start is no more than what was read and what the remaining entries hold
  now: until Ctrl-C the tables only grow, but for
  what `taken` records of the negative numbers.
- `SleepCoversRescueHolds`, if `SleepFits`: the square of the number of regions,
  in seconds, fits an unsigned int. The regions of a list are `Different`, so no list takes
  longer than that. `Promised` follows the estimate from the moment a node is put
  on a list or merged into one until the client is answered: a tick that passes
  takes the same from both sides, and truncating takes less than a second once.

`ControllerProofs`: `ControllerTypes`, `RunningKeepsItsObjectsHolds` and
`ExitLeavesOnlyPidHolds`, for any number of runs, workers and clients, whichever
of them are followed. The danger is a removal of an earlier run that still goes on
and takes away a segment the next run has taken over, since segments, unlike
semaphores, are not created exclusively. What forbids it is the order of the
removals and of the start-up: the segments go while `"int"` is still the old
run's (`Guarded`: who may still remove segments, and has some, holds `"int"`;
`AfterSegments` and `AfterMain`: whoever comes to the semaphores has none
left), and a new run comes to its segments only with `"int"` its own
(`Semaphores`). `Fresh` and `Known` say that a run's name is on no segment
before it gets there and that it knows its segments afterwards; `Removals`,
`Interrupted` and `OnlySemaphores` who removes at all. The segment of the pids
is left out of the property because TLC refutes it there: it is removed after
`"int"`'s segment, by a handler that may be late. For the orderly exit, `ExitInv`
adds that main's removals go through: what main looks at first is still there
while nobody pressed Ctrl-C (`GoesThrough`), since the removals of other runs
touch only what holds their own `"int"`; and how far main has come says what is
gone (`AfterSemaphores`, `AfterPids`).

`TrainServerProofs`: `TrainTypes`, `TakenForATrainHolds` and
`StraysOnlyWhenFullHolds`, for any number of slots, words of padding and trains.
`TrainInv` says that a slot that is taken without a pid is the one main is
filling (`Named`), that pids are in the arrays once (`Distinct`) and only after
their fork (`Known`, `Counted`), and that the slots main has passed in this
round have had a train, freed since or not (`Passed`): the slots then inject
into the trains. The other thread and the handlers can only free slots and reap
children (`InvOthers`).

`CaseBoardProofs`: `CaseBoardTypes`, `StraysOnlyWhenTouchedHolds` and
`ShownIsCountedHolds`, for any
areas, reports (negative ones included) and word and buffer with room for it.
That a number never has more digits than its buffer has places needs `Room`:
what is left of the number is below the power of ten of the places left, from
`Word` at the start down to 1, where no digit is left to be written. The other
thread's position stays inside the number because of `Checked`, which carries
the check through its four steps: while nobody has begun to rewrite the number
it can only grow, one digit at a time. `Positioned` bounds the position also
when the number was dropped under it, and the processor gives no fault. What the
board tells, of the total only since the last listing: `Rewriting` says that the digits stored so far, each times its
power, and what is left times the power of the next place make the number
(`Stored`, by the laws of sums), `Tally` that an area's two counts, which reach the
list by another way, agree, `Choice` and `Lighting` which number and which LEDs belong to each
place of main.

Only model-checked: what the elevator does under other traffic or the policies
with parking processes, beyond the first four theorems and the types;
and all liveness (`EveryoneServed`, `CarsGoHome`, `EverybodyServed`,
`CtrlCLeavesNothing`, `EveryReportAnswered`, `CtrlCEndsEverybody`,
`EveryDigitShown`, `NoZombieStays`, `EverybodyLeaves`, `CtrlCEnds`), which is
beyond the prover: it needs ENABLED and fairness.

## 14. What is not modelled

- Kernel drivers: `HW1/driver.c`, `project/ElevatorGpio.c`, `lab3_driver.c`,
  `lab4/mydev.c`. A call requests, sets or reads pins through kernel functions
  whose behaviour is not in the repository, and keeps no state between two calls
  beyond the pin; a pin is modelled as what was last written to it.
- lab4's writer and reader meet only in the driver's last letter, on two clocks
  of a second each: which letters are seen is a matter of real time.
- What a display client is sent, and the digits and LEDs `gpioProcess` drives:
  output only.
- Start-up of the bank and of the disease-control server on objects an earlier
  life left behind. Both create their semaphores exclusively and do not start.
- Limits: buffers of 1024 bytes; the nodes of a list (1000 of the elevator's,
  100 of HW3's), which no operation checks and no instance TLC can explore reaches;
  the descriptors of parents that never close `connfd`, except where running out
  ends an `accept` (`AcceptFails` of `Bank` and `TrainServer`, not of `Ambulance`);
  `fork` failing outside `Controller` and `TrainServer`.
- What a write behind the padding of lab5's arrays, or behind `addr_cln`, destroys.
- Ctrl-C in the moment between the return of `accept` and the store to `connfd`
  (`Ambulance`, `ReportServer`).
- Ctrl-C while the controller starts or removes: its handler is installed at
  `main.c:25`, before any ID is set, and then removes what has the ID 0, which
  may be anybody's. Also left out is a `main` that is killed while handlers of
  its own run are still at work (section 4).
- The guesser's ten seconds are ten expirations of its timer: that its loop, which
  spins, gets the processor for all of them is assumed.
- Course samples (`examples`) and the socket helper (`sockop.c`) are not part of
  a program of this repository.
