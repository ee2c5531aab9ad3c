----------------------------- MODULE BankProofs -----------------------------
(***************************************************************************)
(* The bank server implements the account, for any number of clients, any   *)
(* requests and any width of int, characters and loop counter; when all have *)
(* ended Ctrl-C has left nothing, and nobody sleeps on a lost semaphore.     *)
(***************************************************************************)
EXTENDS Bank, TLAPS

Kept == (1 - SPAN)..INT_MAX

\* What a minus sign leaves of a number fits behind it, and is the number
\* itself when it has no digit too many.
LEMMA Remainder ==
  ASSUME NEW n \in Nat
  PROVE  n % SPAN \in 0..(SPAN - 1) /\ (n < SPAN => n % SPAN = n)
BY WidthAssumption

\* The characters spell a number that fits, and spell it exactly if it did.
LEMMA SpelledKept ==
  ASSUME NEW n \in INT_MIN..INT_MAX
  PROVE  Spelled(n) \in Kept /\ (n \in Kept => Spelled(n) = n)
<1>1. CASE n >= 0
  BY <1>1, WidthAssumption DEF Spelled, Kept
<1>2. CASE n < 0 /\ n /= INT_MIN
  <2>1. -n \in Nat
    BY <1>2, WidthAssumption DEF INT_MIN
  <2>2. (-n) % SPAN \in 0..(SPAN - 1) /\ (-n < SPAN => (-n) % SPAN = -n)
    BY <2>1, Remainder
  <2>. QED  BY <1>2, <2>2, WidthAssumption DEF Spelled, Kept, INT_MIN
<1>3. CASE n < 0 /\ n = INT_MIN
  BY <1>3, WidthAssumption DEF Spelled, Kept, INT_MIN
<1>. QED  BY <1>1, <1>2, <1>3, WidthAssumption DEF INT_MIN

\* One operation of a request on savings the characters can spell.
LEMMA OneOperation ==
  ASSUME NEW s \in Kept, NEW r \in Requests \cup {NoRequest}
  PROVE  /\ Spelled(Result(s, r)) \in Kept
         /\ s + Account!Amount(r) \in Kept => Spelled(Result(s, r)) = s + Account!Amount(r)
<1>1. r.money \in INT_MIN..INT_MAX
  BY RequestAssumption, WidthAssumption DEF NoRequest, INT_MIN
<1>2. Account!Amount(r) \in Int /\ Result(s, r) = AsInt32(s + Account!Amount(r))
  BY <1>1, WidthAssumption DEF Account!Amount, Result, Kept, INT_MIN
<1>3. \A a \in (INT_MIN)..(INT_MAX + 1) :
        AsInt32(s + a) \in INT_MIN..INT_MAX /\ (s + a \in Kept => AsInt32(s + a) = s + a)
  BY WidthAssumption DEF AsInt32, Kept, INT_MIN
<1>4. Account!Amount(r) \in (INT_MIN)..(INT_MAX + 1)
  BY <1>1, WidthAssumption DEF Account!Amount, INT_MIN
<1>. QED  BY <1>2, <1>3, <1>4, SpelledKept

-----------------------------------------------------------------------------
(* The inductive invariant. *)

Holds(c) == child[c].pc \in {"attach", "store", "release"} /\ ~child[c].ended

BankTypes ==
  /\ semaphore \in Nat /\ shm \in Kept
  /\ DOMAIN child = Clients
  /\ \A c \in Clients : /\ DOMAIN child[c] = {"pc", "ended", "request", "i", "savings"}
                         /\ child[c].request \in Requests \cup {NoRequest}
                         /\ child[c].i \in Nat
  /\ DOMAIN server = {"pc", "childpid"}

\* Nobody is inside while the semaphore is up, and never are two; a child that
\* dies inside leaves it down.
Exclusion ==
  /\ semaphore > 0 => semaphore = 1 /\ \A c \in Clients : ~Holds(c)
  /\ \A c, d \in Clients : Holds(c) /\ Holds(d) => c = d

\* What a child has read is still what is there when it stores.
Fresh == \A c \in Clients : child[c].pc = "store" /\ ~child[c].ended => child[c].savings = shm

\* A counter that can reach what was asked for does not pass it.
Counted ==
  \A c \in Clients :
    /\ child[c].pc = "none" => child[c].request = NoRequest /\ child[c].i = 0
    /\ child[c].request.times <= USHRT_MAX =>
         /\ child[c].i <= (IF child[c].request.times < 0 THEN 0 ELSE child[c].request.times)
         /\ child[c].pc \in {"attach", "store", "release"} =>
              child[c].i < child[c].request.times

BankInv == BankTypes /\ Exclusion /\ Fresh /\ Counted

LEMMA BankInit == Init => BankInv
BY WidthAssumption DEF Init, BankInv, BankTypes, Exclusion, Fresh, Counted, Holds, NoChild,
   NoRequest, Kept

\* What ends a process, or stops it, leaves the account alone.
LEMMA BankEnds ==
  ASSUME BankInv, semaphore' = semaphore, shm' = shm, DOMAIN server' = DOMAIN server,
         \/ child' = child
         \/ \E c \in Clients : /\ child[c].pc /= "none"
                               /\ child' = [child EXCEPT ![c].ended = TRUE]
  PROVE  BankInv'
<1> USE DEF BankInv
<1>1. CASE child' = child
  BY <1>1 DEF BankTypes, Exclusion, Fresh, Counted, Holds
<1>2. ASSUME NEW c \in Clients, child[c].pc /= "none",
             child' = [child EXCEPT ![c].ended = TRUE]
      PROVE  BankInv'
  <2>1. BankTypes'
    BY <1>2 DEF BankTypes
  <2>2. Exclusion'
    BY <1>2 DEF BankTypes, Exclusion, Holds
  <2>3. Fresh'
    BY <1>2 DEF BankTypes, Fresh
  <2>4. Counted'
    BY <1>2 DEF BankTypes, Counted
  <2>. QED  BY <2>1, <2>2, <2>3, <2>4
<1>. QED  BY <1>1, <1>2

\* A child's own step: what it does to the child, and to nobody else.
LEMMA BankStep ==
  ASSUME BankInv, NEW c \in Clients, ChildStep(c)
  PROVE  BankInv'
<1> USE DEF BankInv, At
<1>1. CASE Finish(c) \/ Fails(c)
  <2>1. child[c].pc /= "none" /\ child' = [child EXCEPT ![c].ended = TRUE]
    BY <1>1 DEF Finish, Fails
  <2>. QED  BY <1>1, <2>1, BankEnds DEF Finish, Fails
<1>2. CASE Acquire(c)
  <2>1. BankTypes'
    BY <1>2 DEF Acquire, BankTypes, Exclusion
  <2>2. Exclusion'
    BY <1>2 DEF Acquire, BankTypes, Exclusion, Holds
  <2>3. Fresh'
    BY <1>2 DEF Acquire, BankTypes, Fresh
  <2>4. Counted'
    BY <1>2 DEF Acquire, BankTypes, Counted, MoreToDo
  <2>. QED  BY <2>1, <2>2, <2>3, <2>4
<1>3. CASE Attach(c)
  <2>1. BankTypes'
    BY <1>3 DEF Attach, BankTypes
  <2>2. Exclusion'
    BY <1>3 DEF Attach, BankTypes, Exclusion, Holds
  <2>3. Fresh'
    BY <1>3 DEF Attach, BankTypes, Fresh
  <2>4. Counted'
    BY <1>3 DEF Attach, BankTypes, Counted
  <2>. QED  BY <2>1, <2>2, <2>3, <2>4
<1>4. CASE Store(c)
  <2>1. child[c].savings = shm
    BY <1>4 DEF Store, Fresh
  <2>2. shm' \in Kept
    BY <1>4, <2>1, OneOperation DEF Store, BankTypes
  <2>3. BankTypes'
    BY <1>4, <2>2 DEF Store, BankTypes, Kept
  <2>4. Exclusion'
    BY <1>4 DEF Store, BankTypes, Exclusion, Holds
  <2>5. Fresh'
    BY <1>4 DEF Store, BankTypes, Exclusion, Fresh, Holds
  <2>6. Counted'
    BY <1>4 DEF Store, BankTypes, Counted
  <2>. QED  BY <2>3, <2>4, <2>5, <2>6
<1>5. CASE Release(c)
  <2>1. (child[c].i + 1) % (USHRT_MAX + 1) \in 0..USHRT_MAX
        /\ (child[c].i < USHRT_MAX => (child[c].i + 1) % (USHRT_MAX + 1) = child[c].i + 1)
    BY WidthAssumption DEF BankTypes
  <2>2. BankTypes'
    BY <1>5, <2>1 DEF Release, BankTypes
  <2>3. Exclusion'
    BY <1>5 DEF Release, BankTypes, Exclusion, Holds
  <2>4. Fresh'
    BY <1>5 DEF Release, BankTypes, Fresh
  <2>5. Counted'
    <3>1. child[c].request.times \in Int
      BY RequestAssumption, WidthAssumption DEF BankTypes, NoRequest, INT_MIN
    <3>2. child[c].request.times <= USHRT_MAX =>
            /\ child[c].i < child[c].request.times
            /\ (child[c].i + 1) % (USHRT_MAX + 1) = child[c].i + 1
      BY <1>5, <2>1, <3>1, WidthAssumption DEF Release, BankTypes, Counted
    <3>. QED  BY <1>5, <3>1, <3>2 DEF Release, BankTypes, Counted
  <2>. QED  BY <2>2, <2>3, <2>4, <2>5
<1>. QED  BY <1>1, <1>2, <1>3, <1>4, <1>5 DEF ChildStep

LEMMA BankNext == BankInv /\ [Next]_vars => BankInv'
<1> SUFFICES ASSUME BankInv, [Next]_vars PROVE BankInv'
  OBVIOUS
<1>1. CASE UNCHANGED vars
  BY <1>1, BankEnds DEF vars
<1>2. ASSUME NEW c \in Clients, Accept(c) PROVE BankInv'
  <2>1. PICK r \in Requests : child' = [child EXCEPT ![c].pc = "loop", ![c].request = r]
    BY <1>2 DEF Accept
  <2>2. child[c].i = 0
    BY <1>2 DEF Accept, BankInv, Counted
  <2>3. r.times \in Int
    BY RequestAssumption, WidthAssumption DEF INT_MIN
  <2> USE DEF BankInv, Accept
  <2>4. BankTypes'
    BY <1>2, <2>1 DEF BankTypes
  <2>5. Exclusion'
    BY <1>2, <2>1 DEF BankTypes, Exclusion, Holds
  <2>6. Fresh'
    BY <1>2, <2>1 DEF BankTypes, Fresh
  <2>7. Counted'
    BY <1>2, <2>1, <2>2, <2>3 DEF BankTypes, Counted
  <2>. QED  BY <2>4, <2>5, <2>6, <2>7
<1>3. CASE AcceptFails \/ ServerEnds \/ CtrlC
  BY <1>3, BankEnds DEF AcceptFails, ServerEnds, CtrlC, BankInv, BankTypes
<1>4. ASSUME NEW c \in Clients, ChildStep(c) PROVE BankInv'
  BY <1>4, BankStep
<1>5. ASSUME NEW p \in Processes, Handler(p) PROVE BankInv'
  <2>1. /\ semaphore' = semaphore /\ shm' = shm /\ Alive(p)
        /\ EndedInHandler(p) \/ UNCHANGED <<server, child>>
    BY <1>5 DEF Handler, RemoveShm, RemoveSemaphore
  <2>. QED  BY <1>5, <2>1, BankEnds, ProcessAssumption
            DEF EndedInHandler, Alive, Processes, BankInv, BankTypes
<1>. QED  BY <1>1, <1>2, <1>3, <1>4, <1>5 DEF Next, ServerStep

-----------------------------------------------------------------------------
(* The account. *)

LEMMA AccountInit == Init => Account!Init
<1> SUFFICES ASSUME Init PROVE Account!Init
  OBVIOUS
<1>1. \A c \in Clients : child[c].request = Account!NoRequest /\ LeftOf(c) = 0
  BY WidthAssumption DEF Init, NoChild, NoRequest, Account!NoRequest, LeftOf
<1>. QED  BY <1>1 DEF Init, Account!Init

\* A step that neither stores nor connects anybody.
LEMMA AccountFrame ==
  ASSUME shm' = shm,
         \A c \in Clients : child'[c].request = child[c].request /\ LeftOf(c)' = LeftOf(c)
  PROVE  UNCHANGED Account!vars
BY DEF Account!vars

\* ... because it only ends children, or none.
LEMMA AccountEnds ==
  ASSUME BankInv, shm' = shm,
         \/ child' = child
         \/ \E c \in Clients : child' = [child EXCEPT ![c].ended = TRUE]
  PROVE  UNCHANGED Account!vars
<1>1. \A c \in Clients : /\ child'[c].request = child[c].request
                         /\ child'[c].i = child[c].i /\ child'[c].pc = child[c].pc
  BY DEF BankInv, BankTypes
<1>. QED  BY <1>1, AccountFrame DEF LeftOf

\* Storing the new savings is the operation.
LEMMA StorePerforms ==
  ASSUME BankInv, NEW c \in Clients, Store(c)
  PROVE  Account!Perform(c)
<1> DEFINE r == child[c].request
<1>1. r.times \in Int
  BY RequestAssumption, WidthAssumption DEF BankInv, BankTypes, NoRequest, INT_MIN
<1>2. /\ child[c].pc = "store" /\ ~child[c].ended
      /\ \A d \in Clients : child'[d].request = child[d].request
      /\ \A d \in Clients : child'[d].i = child[d].i
      /\ child'[c].pc = "release"
      /\ \A d \in Clients \ {c} : child'[d].pc = child[d].pc
  BY DEF Store, At, BankInv, BankTypes
<1>3. \A d \in Clients \ {c} : LeftOf(d)' = LeftOf(d)
  BY <1>2 DEF LeftOf
<1>4. /\ LeftOf(c) /= 0
      /\ LeftOf(c)' = IF LeftOf(c) = -1 THEN -1 ELSE LeftOf(c) - 1
  <2>1. CASE r.times > USHRT_MAX
    BY <1>2, <2>1 DEF LeftOf
  <2>2. CASE r.times <= USHRT_MAX
    <3>1. child[c].i \in Nat /\ child[c].i < r.times
      BY <1>2, <2>2 DEF BankInv, BankTypes, Counted
    <3>. QED  BY <1>1, <1>2, <2>2, <3>1, WidthAssumption DEF LeftOf
  <2>. QED  BY <1>1, <2>1, <2>2, WidthAssumption
<1>5. [d \in Clients |-> LeftOf(d)']
        = [[d \in Clients |-> LeftOf(d)] EXCEPT
             ![c] = IF LeftOf(c) = -1 THEN LeftOf(c) ELSE LeftOf(c) - 1]
  BY <1>3, <1>4
<1>6. /\ shm' \in Kept
      /\ shm + Account!Amount(r) \in Kept => shm' = shm + Account!Amount(r)
  <2>1. child[c].savings = shm /\ shm \in Kept /\ r \in Requests \cup {NoRequest}
    BY <1>2 DEF BankInv, BankTypes, Fresh
  <2>2. shm' = Spelled(Result(shm, r))
    BY <2>1 DEF Store
  <2>. QED  BY <2>1, <2>2, OneOperation
<1>. QED  BY <1>2, <1>4, <1>5, <1>6 DEF Account!Perform, Account!Forever, Kept

\* The server's fork of a child is the client's coming.
LEMMA AcceptConnects ==
  ASSUME BankInv, NEW c \in Clients, Accept(c)
  PROVE  Account!Connect(c)
<1>1. PICK r \in Requests : child' = [child EXCEPT ![c].pc = "loop", ![c].request = r]
  BY DEF Accept
<1>2. /\ child[c].pc = "none" /\ child[c].request = NoRequest /\ child[c].i = 0
      /\ child'[c].pc = "loop" /\ child'[c].request = r /\ child'[c].i = 0
      /\ \A d \in Clients \ {c} : child'[d] = child[d]
  BY <1>1 DEF Accept, BankInv, BankTypes, Counted
<1>3. r.times \in Int
  BY RequestAssumption, WidthAssumption DEF INT_MIN
<1>4. /\ \A d \in Clients \ {c} : LeftOf(d)' = LeftOf(d)
      /\ LeftOf(c)' = Account!Asked(r)
  BY <1>2, <1>3 DEF LeftOf, Account!Asked, Account!Forever
<1>5. /\ [d \in Clients |-> child'[d].request]
           = [[d \in Clients |-> child[d].request] EXCEPT ![c] = r]
      /\ [d \in Clients |-> LeftOf(d)'] = [[d \in Clients |-> LeftOf(d)] EXCEPT
                                             ![c] = Account!Asked(r)]
  BY <1>2, <1>4
<1>6. NoRequest = Account!NoRequest /\ shm' = shm
  BY DEF NoRequest, Account!NoRequest, Accept
<1>. QED  BY <1>2, <1>5, <1>6 DEF Account!Connect

LEMMA AccountNext == BankInv /\ [Next]_vars => [Account!Next]_(Account!vars)
<1> SUFFICES ASSUME BankInv, [Next]_vars PROVE [Account!Next]_(Account!vars)
  OBVIOUS
<1>1. CASE UNCHANGED vars
  BY <1>1, AccountEnds DEF vars
<1>2. ASSUME NEW c \in Clients, Accept(c) PROVE Account!Next
  BY <1>2, AcceptConnects DEF Account!Next
<1>3. CASE AcceptFails \/ ServerEnds \/ CtrlC
  BY <1>3, AccountEnds DEF AcceptFails, ServerEnds, CtrlC
<1>4. ASSUME NEW c \in Clients, ChildStep(c) PROVE [Account!Next]_(Account!vars)
  <2>1. CASE Finish(c) \/ Fails(c)
    BY <2>1, AccountEnds DEF Finish, Fails
  <2>2. CASE Acquire(c) \/ Attach(c)
    <3>1. /\ shm' = shm
          /\ \A d \in Clients : /\ child'[d].request = child[d].request
                                /\ child'[d].i = child[d].i
                                /\ child'[d].pc = "release" <=> child[d].pc = "release"
      BY <2>2 DEF Acquire, Attach, At, BankInv, BankTypes
    <3>. QED  BY <3>1, AccountFrame DEF LeftOf
  <2>3. CASE Store(c)
    BY <2>3, StorePerforms DEF Account!Next
  <2>4. CASE Release(c)
    <3>1. /\ shm' = shm /\ child[c].pc = "release" /\ ~child[c].ended
          /\ \A d \in Clients : child'[d].request = child[d].request
          /\ child'[c].i = (child[c].i + 1) % (USHRT_MAX + 1) /\ child'[c].pc = "loop"
          /\ \A d \in Clients \ {c} : child'[d] = child[d]
      BY <2>4 DEF Release, At, BankInv, BankTypes
    <3>2. child[c].request.times \in Int
      BY RequestAssumption, WidthAssumption DEF BankInv, BankTypes, NoRequest, INT_MIN
    <3>3. CASE child[c].request.times > USHRT_MAX
      <4>. QED  BY <3>1, <3>3, AccountFrame DEF LeftOf
    <3>4. CASE child[c].request.times <= USHRT_MAX
      <4>1. child[c].i \in Nat /\ child[c].i < child[c].request.times
        BY <3>1, <3>4 DEF BankInv, BankTypes, Counted
      <4>2. child'[c].i = child[c].i + 1
        BY <3>1, <3>2, <3>4, <4>1, WidthAssumption
      <4>3. LeftOf(c)' = LeftOf(c)
        BY <3>1, <3>2, <4>1, <4>2, WidthAssumption DEF LeftOf
      <4>4. \A d \in Clients \ {c} : LeftOf(d)' = LeftOf(d)
        BY <3>1 DEF LeftOf
      <4>. QED  BY <3>1, <4>3, <4>4, AccountFrame
    <3>. QED  BY <3>2, <3>3, <3>4, WidthAssumption
  <2>. QED  BY <1>4, <2>1, <2>2, <2>3, <2>4 DEF ChildStep
<1>5. ASSUME NEW p \in Processes, Handler(p) PROVE UNCHANGED Account!vars
  <2>1. shm' = shm /\ (EndedInHandler(p) \/ UNCHANGED <<server, child>>)
    BY <1>5 DEF Handler, RemoveShm, RemoveSemaphore
  <2>. QED  BY <1>5, <2>1, AccountEnds DEF EndedInHandler, Processes
<1>. QED  BY <1>1, <1>2, <1>3, <1>4, <1>5 DEF Next, ServerStep

\* The server implements the account: for any clients and requests and any
\* widths, each operation of each child (childprocess, 131-180) is one atomic
\* operation on the savings the last one left, done as often as was asked, and
\* exact whenever the characters can spell its result.
THEOREM AccountImplemented == Spec => AccountSpec
<1>1. Init => BankInv /\ Account!Init
  BY BankInit, AccountInit
<1>2. BankInv /\ [Next]_vars => BankInv' /\ [Account!Next]_(Account!vars)
  BY BankNext, AccountNext
<1>. QED  BY <1>1, <1>2, PTL DEF Spec, AccountSpec, Account!Spec

-----------------------------------------------------------------------------
(* The types. *)

Child == [pc : {"none", "loop", "attach", "store", "release"}, ended : BOOLEAN,
          request : Requests \cup {NoRequest}, i : 0..USHRT_MAX, savings : Kept]

\* The part of the types that the account does not need.
ProcessTypes ==
  /\ removed \subseteq {"shm", "semaphore"}
  /\ server \in [pc : {"accept", "exit", "ended"}, childpid : Processes]
  /\ child \in [Clients -> Child]
  /\ signal \in [Processes -> {"none", "pending", "handling", "handled"}]

LEMMA TypesAre == BankInv /\ ProcessTypes => TypeOK
BY WidthAssumption DEF BankInv, BankTypes, Exclusion, ProcessTypes, Child, Kept, TypeOK

LEMMA ProcessTypesInit == Init => ProcessTypes
<1> SUFFICES ASSUME Init PROVE ProcessTypes
  OBVIOUS
<1>1. NoChild \in Child
  BY WidthAssumption DEF NoChild, Child, Kept
<1>. QED  BY <1>1 DEF Init, ProcessTypes, Processes

\* A child's own step changes that child, within its type.
LEMMA ChildTypes ==
  ASSUME BankInv, ProcessTypes, NEW c \in Clients, ChildStep(c)
  PROVE  ProcessTypes'
<1>0. UNCHANGED <<removed, server, signal>>
  BY DEF ChildStep, Finish, Acquire, Attach, Store, Release, Fails
<1>1. PICK r \in Child : r = child[c]
  BY DEF ProcessTypes
<1>2. CASE Finish(c) \/ Fails(c)
  <2>1. [r EXCEPT !.ended = TRUE] \in Child /\ child' = [child EXCEPT ![c] = [r EXCEPT !.ended = TRUE]]
    BY <1>1, <1>2 DEF Child, Finish, Fails
  <2>. QED  BY <1>0, <2>1 DEF ProcessTypes
<1>3. CASE Acquire(c)
  <2>1. [r EXCEPT !.pc = "attach"] \in Child /\ child' = [child EXCEPT ![c] = [r EXCEPT !.pc = "attach"]]
    BY <1>1, <1>3 DEF Child, Acquire
  <2>. QED  BY <1>0, <2>1 DEF ProcessTypes
<1>4. CASE Attach(c)
  <2>1. shm \in Kept
    BY DEF BankInv, BankTypes
  <2>2. /\ [r EXCEPT !.pc = "store", !.savings = shm] \in Child
        /\ child' = [child EXCEPT ![c] = [r EXCEPT !.pc = "store", !.savings = shm]]
    BY <1>1, <1>4, <2>1 DEF Child, Attach
  <2>. QED  BY <1>0, <2>2 DEF ProcessTypes
<1>5. CASE Store(c)
  <2>1. 0 \in Kept
    BY WidthAssumption DEF Kept
  <2>2. /\ [r EXCEPT !.pc = "release", !.savings = 0] \in Child
        /\ child' = [child EXCEPT ![c] = [r EXCEPT !.pc = "release", !.savings = 0]]
    BY <1>1, <1>5, <2>1 DEF Child, Store
  <2>. QED  BY <1>0, <2>2 DEF ProcessTypes
<1>6. CASE Release(c)
  <2>1. (r.i + 1) % (USHRT_MAX + 1) \in 0..USHRT_MAX
    BY WidthAssumption DEF Child
  <2>2. /\ [r EXCEPT !.pc = "loop", !.i = (r.i + 1) % (USHRT_MAX + 1)] \in Child
        /\ child' = [child EXCEPT ![c] = [r EXCEPT !.pc = "loop", !.i = (r.i + 1) % (USHRT_MAX + 1)]]
    BY <1>1, <1>6, <2>1 DEF Child, Release
  <2>. QED  BY <1>0, <2>2 DEF ProcessTypes
<1>. QED  BY <1>2, <1>3, <1>4, <1>5, <1>6 DEF ChildStep

LEMMA HandlerTypes ==
  ASSUME ProcessTypes, NEW p \in Processes, Handler(p)
  PROVE  ProcessTypes'
<1>1. removed' \subseteq {"shm", "semaphore"}
  BY DEF ProcessTypes, Handler, RemoveShm, RemoveSemaphore
<1>2. signal' \in [Processes -> {"none", "pending", "handling", "handled"}]
  BY DEF ProcessTypes, Handler, RemoveShm, RemoveSemaphore
<1>3. EndedInHandler(p) \/ UNCHANGED <<server, child>>
  BY DEF Handler, RemoveShm, RemoveSemaphore
<1>4. /\ server' \in [pc : {"accept", "exit", "ended"}, childpid : Processes]
      /\ child' \in [Clients -> Child]
  <2>1. CASE EndedInHandler(p) /\ p \in Clients
    <3>1. PICK r \in Child : r = child[p]
      BY <2>1 DEF ProcessTypes
    <3>2. [r EXCEPT !.ended = TRUE] \in Child /\ child' = [child EXCEPT ![p] = [r EXCEPT !.ended = TRUE]]
      BY <2>1, <3>1, ProcessAssumption DEF Child, EndedInHandler
    <3>. QED  BY <2>1, <3>2, ProcessAssumption DEF ProcessTypes, EndedInHandler
  <2>2. CASE EndedInHandler(p) /\ p = Server
    BY <2>2 DEF ProcessTypes, EndedInHandler
  <2>. QED  BY <1>3, <2>1, <2>2 DEF ProcessTypes, Processes
<1>. QED  BY <1>1, <1>2, <1>4 DEF ProcessTypes

LEMMA ProcessTypesNext == BankInv /\ ProcessTypes /\ [Next]_vars => ProcessTypes'
<1> SUFFICES ASSUME BankInv, ProcessTypes, [Next]_vars PROVE ProcessTypes'
  OBVIOUS
<1>1. CASE UNCHANGED vars
  BY <1>1 DEF vars, ProcessTypes
<1>2. ASSUME NEW c \in Clients, Accept(c) PROVE ProcessTypes'
  <2>1. PICK q \in Requests, r \in Child : r = child[c] /\ child' = [child EXCEPT ![c].pc = "loop", ![c].request = q]
    BY <1>2 DEF Accept, ProcessTypes
  <2>2. /\ [r EXCEPT !.pc = "loop", !.request = q] \in Child
        /\ child' = [child EXCEPT ![c] = [r EXCEPT !.pc = "loop", !.request = q]]
    BY <2>1 DEF Child
  <2>. QED  BY <1>2, <2>2 DEF Accept, ProcessTypes, Processes
<1>3. CASE AcceptFails \/ ServerEnds \/ CtrlC
  BY <1>3 DEF AcceptFails, ServerEnds, CtrlC, ProcessTypes
<1>. QED  BY <1>1, <1>2, <1>3, ChildTypes, HandlerTypes DEF Next, ServerStep

\* What the characters in shared memory spell stays within what they can spell
\* (childprocess, 150-170), the semaphore is a mutual exclusion's, and the loop
\* counter is an unsigned short, for any clients, requests and widths.
THEOREM BankTypesHold == Spec => []TypeOK
<1>1. Init => BankInv /\ ProcessTypes
  BY BankInit, ProcessTypesInit
<1>2. BankInv /\ ProcessTypes /\ [Next]_vars => BankInv' /\ ProcessTypes'
  BY BankNext, ProcessTypesNext
<1>. QED  BY <1>1, <1>2, TypesAre, PTL DEF Spec

-----------------------------------------------------------------------------
(* What Ctrl-C leaves. *)

\* Whoever is inside the handler, or the server with a signal to come, is alive; and
\* of a shared memory that is gone somebody is still to remove the semaphore.
Removal ==
  /\ \A p \in Processes : signal[p] = "handling" => Alive(p)
  /\ signal[Server] = "pending" => Alive(Server)
  /\ \A p \in Processes : signal[p] \in {"handling", "handled"} => "shm" \in removed
  /\ "shm" \in removed => "semaphore" \in removed \/ \E p \in Processes : signal[p] = "handling"

\* When everybody has ended, the server after Ctrl-C, nothing is left behind.
NothingLeft ==
  signal[Server] /= "none" /\ (\A p \in Processes : ~Alive(p)) => removed = {"shm", "semaphore"}

LEMMA RemovalMeans == ProcessTypes /\ Removal => NothingLeft
BY DEF ProcessTypes, Removal, NothingLeft, Processes

LEMMA RemovalInit == Init => Removal
BY DEF Init, Removal, Processes

\* Steps outside the handler keep those alive who are inside it, and do not remove.
LEMMA RemovalStays ==
  ASSUME Removal, UNCHANGED <<signal, removed>>,
         \A p \in Processes : signal[p] = "handling" /\ Alive(p) => Alive(p)',
         signal[Server] = "pending" /\ Alive(Server) => Alive(Server)'
  PROVE  Removal'
BY DEF Removal, Processes

LEMMA RemovalSteps ==
  ASSUME ProcessTypes, Removal, NEW c \in Clients, ChildStep(c)
  PROVE  Removal'
<1>1. UNCHANGED <<signal, removed, server>> /\ signal[c] /= "handling"
  BY DEF ChildStep, Finish, Acquire, Attach, Store, Release, Fails, At
<1>2. \A d \in Clients \ {c} : child'[d] = child[d]
  BY DEF ChildStep, Finish, Acquire, Attach, Store, Release, Fails, ProcessTypes
<1>3. \A p \in Processes : p /= c /\ Alive(p) => Alive(p)'
  BY <1>1, <1>2 DEF Alive, Processes
<1>. QED  BY <1>1, <1>3, ProcessAssumption, RemovalStays DEF Processes

LEMMA RemovalHandles ==
  ASSUME ProcessTypes, Removal, NEW p \in Processes, Handler(p)
  PROVE  Removal'
<1>1. /\ \A q \in Processes \ {p} : signal'[q] = signal[q] /\ (Alive(q) => Alive(q)')
      /\ signal'[p] \in {"handling", "handled"}
      /\ signal'[p] = "handling" => Alive(p)'
      /\ removed \subseteq removed' /\ "shm" \in removed'
      /\ "semaphore" \in removed' \/ signal'[p] = "handling"
         \/ ("shm" \in removed /\ signal[p] /= "handling")
  <2>1. CASE RemoveShm(p)
    <3>1. CASE "shm" \in removed /\ ~Attached
      <4>1. signal' = [signal EXCEPT ![p] = "handled"] /\ EndedInHandler(p) /\ UNCHANGED removed
        BY <2>1, <3>1 DEF RemoveShm
      <4>2. \A q \in Processes \ {p} : Alive(q) => Alive(q)'
        BY <4>1, ProcessAssumption DEF EndedInHandler, Alive, Processes, ProcessTypes
      <4>. QED  BY <2>1, <3>1, <4>1, <4>2 DEF RemoveShm, ProcessTypes
    <3>2. CASE ~("shm" \in removed /\ ~Attached)
      <4>1. /\ signal' = [signal EXCEPT ![p] = "handling"] /\ removed' = removed \cup {"shm"}
            /\ UNCHANGED <<server, child>> /\ Alive(p)
        BY <2>1, <3>2 DEF RemoveShm
      <4>. QED  BY <4>1 DEF Alive, ProcessTypes
    <3>. QED  BY <3>1, <3>2
  <2>2. CASE RemoveSemaphore(p)
    <3>1. signal' = [signal EXCEPT ![p] = "handled"] /\ signal[p] = "handling"
      BY <2>2 DEF RemoveSemaphore
    <3>2. "semaphore" \in removed' /\ removed \subseteq removed' /\ "shm" \in removed'
      BY <2>2, <3>1 DEF RemoveSemaphore, Removal
    <3>3. \A q \in Processes \ {p} : Alive(q) => Alive(q)'
      BY <2>2, ProcessAssumption DEF RemoveSemaphore, EndedInHandler, Alive, Processes, ProcessTypes
    <3>. QED  BY <3>1, <3>2, <3>3 DEF ProcessTypes
  <2>. QED  BY <2>1, <2>2 DEF Handler
<1>2. \A q \in Processes : signal'[q] = "handling" => Alive(q)'
  BY <1>1 DEF Removal
<1>3. signal'[Server] = "pending" => Alive(Server)'
  BY <1>1 DEF Removal, Processes
<1>4. "semaphore" \in removed' \/ \E q \in Processes : signal'[q] = "handling"
  BY <1>1 DEF Removal
<1>. QED  BY <1>1, <1>2, <1>3, <1>4 DEF Removal

LEMMA RemovalNext == ProcessTypes /\ Removal /\ [Next]_vars => Removal'
<1> SUFFICES ASSUME ProcessTypes, Removal, [Next]_vars PROVE Removal'
  OBVIOUS
<1>1. CASE UNCHANGED vars
  BY <1>1, RemovalStays DEF vars, Alive
<1>2. ASSUME NEW c \in Clients, Accept(c) PROVE Removal'
  <2>1. UNCHANGED <<signal, removed>> /\ signal[Server] = "none" /\ server'.pc = server.pc
    BY <1>2 DEF Accept, ProcessTypes
  <2>2. \A d \in Clients : Alive(d) => Alive(d)'
    BY <1>2, ProcessAssumption DEF Accept, Alive, ProcessTypes
  <2>3. Alive(Server) => Alive(Server)'
    BY <2>1 DEF Alive
  <2>. QED  BY <2>1, <2>2, <2>3, RemovalStays DEF Processes
<1>3. CASE AcceptFails \/ ServerEnds
  <2>1. UNCHANGED <<signal, removed, child>> /\ signal[Server] /= "handling"
    BY <1>3 DEF AcceptFails, ServerEnds
  <2>2. signal[Server] = "pending" /\ Alive(Server) => Alive(Server)'
    BY <1>3 DEF AcceptFails, ServerEnds, Alive
  <2>3. \A d \in Clients : Alive(d) => Alive(d)'
    BY <2>1, ProcessAssumption DEF Alive
  <2>. QED  BY <2>1, <2>2, <2>3, RemovalStays DEF Processes
<1>4. CASE CtrlC
  <2>1. \A p \in Processes : signal[p] = "none" /\ signal'[p] \in {"pending", "none"}
    BY <1>4 DEF CtrlC
  <2>2. \A p \in Processes : signal'[p] = "pending" => Alive(p)'
    BY <1>4 DEF CtrlC, Alive
  <2>. QED  BY <1>4, <2>1, <2>2 DEF CtrlC, Removal, Processes
<1>. QED  BY <1>1, <1>2, <1>3, <1>4, RemovalSteps, RemovalHandles DEF Next, ServerStep

\* The safety half of CtrlCLeavesNothing: for any clients, requests and widths, and
\* whichever process is where when Ctrl-C is pressed and in whichever order their
\* handlers run, when all have ended neither the semaphore nor the shared memory is
\* left (interrupt_handler, server.c:35-48).
THEOREM NothingLeftHolds == Spec => []NothingLeft
<1>1. Init => BankInv /\ ProcessTypes /\ Removal
  BY BankInit, ProcessTypesInit, RemovalInit
<1>2. BankInv /\ ProcessTypes /\ Removal /\ [Next]_vars => BankInv' /\ ProcessTypes' /\ Removal'
  BY BankNext, ProcessTypesNext, RemovalNext
<1>. QED  BY <1>1, <1>2, RemovalMeans, PTL DEF Spec

-----------------------------------------------------------------------------
(* Who sleeps on the semaphore. *)

\* A semaphore that is down is held, or its holder has ended as the shared memory was
\* gone, which is removed before the semaphore.
Accounted ==
  /\ "semaphore" \in removed => "shm" \in removed
  /\ semaphore = 0 => (\E c \in Clients : Holds(c)) \/ "shm" \in removed

\* Nobody sleeps on the semaphore for ever: a child holds it that has not ended, or it
\* has been removed, or somebody who has not ended is about to remove it.
NobodyStranded ==
  semaphore = 0 => \/ \E c \in Clients : Holds(c)
                   \/ "semaphore" \in removed
                   \/ \E p \in Processes : signal[p] = "handling" /\ Alive(p)

LEMMA AccountedMeans == Removal /\ Accounted => NobodyStranded
BY DEF Removal, Accounted, NobodyStranded

LEMMA AccountedInit == Init => Accounted
BY DEF Init, Accounted

\* A child comes to hold the semaphore that it takes, and gives up what it holds by
\* releasing it, or on finding the shared memory or the semaphore gone.
LEMMA AccountedSteps ==
  ASSUME BankInv, Accounted, NEW c \in Clients, ChildStep(c)
  PROVE  Accounted'
<1> USE DEF BankInv, BankTypes
<1>1. UNCHANGED removed /\ \A d \in Clients \ {c} : Holds(d)' <=> Holds(d)
  BY DEF ChildStep, Finish, Acquire, Attach, Store, Release, Fails, Holds
<1>2. CASE Finish(c)
  BY <1>1, <1>2 DEF Finish, At, Accounted, Holds
<1>3. CASE Acquire(c) \/ Attach(c) \/ Store(c)
  <2>1. Holds(c)'
    BY <1>3 DEF Acquire, Attach, Store, At, Holds
  <2>. QED  BY <1>1, <2>1 DEF Accounted
<1>4. CASE Release(c)
  BY <1>1, <1>4 DEF Release, Accounted
<1>5. CASE Fails(c)
  <2>1. UNCHANGED semaphore /\ (Holds(c) => "shm" \in removed)
    BY <1>5 DEF Fails, At, Accounted, Holds
  <2>. QED  BY <1>1, <2>1 DEF Accounted
<1>. QED  BY <1>2, <1>3, <1>4, <1>5 DEF ChildStep

LEMMA AccountedHandles ==
  ASSUME Removal, Accounted, NEW p \in Processes, Handler(p)
  PROVE  Accounted'
<1>1. "shm" \in removed'
  BY DEF Handler, RemoveShm, RemoveSemaphore, Removal
<1>. QED  BY <1>1 DEF Accounted

LEMMA AccountedNext == BankInv /\ Removal /\ Accounted /\ [Next]_vars => Accounted'
<1> SUFFICES ASSUME BankInv, Removal, Accounted, [Next]_vars PROVE Accounted'
  OBVIOUS
<1>1. CASE UNCHANGED vars
  BY <1>1 DEF vars, Accounted, Holds
<1>2. ASSUME NEW c \in Clients, Accept(c) PROVE Accounted'
  <2>1. UNCHANGED <<semaphore, removed>>
    BY <1>2 DEF Accept
  <2>2. \A d \in Clients : Holds(d) => Holds(d)'
    BY <1>2 DEF Accept, Holds, BankInv, BankTypes
  <2>. QED  BY <2>1, <2>2 DEF Accounted
<1>3. CASE AcceptFails \/ ServerEnds \/ CtrlC
  BY <1>3 DEF AcceptFails, ServerEnds, CtrlC, Accounted, Holds
<1>. QED  BY <1>1, <1>2, <1>3, AccountedSteps, AccountedHandles DEF Next, ServerStep

\* What EverybodyServed rests on: whenever the semaphore is down somebody will put it
\* up, or wake its sleepers by removing it, even if Ctrl-C's handlers end the children
\* inside or take the shared memory from them (server.c:35-48, 166-210).
THEOREM NobodyStrandedHolds == Spec => []NobodyStranded
<1>1. Init => BankInv /\ ProcessTypes /\ Removal /\ Accounted
  BY BankInit, ProcessTypesInit, RemovalInit, AccountedInit
<1>2. BankInv /\ ProcessTypes /\ Removal /\ Accounted /\ [Next]_vars
        => BankInv' /\ ProcessTypes' /\ Removal' /\ Accounted'
  BY BankNext, ProcessTypesNext, RemovalNext, AccountedNext
<1>. QED  BY <1>1, <1>2, AccountedMeans, PTL DEF Spec
=============================================================================
