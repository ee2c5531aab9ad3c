----------------------------- MODULE ReportServer -----------------------------
(***************************************************************************)
(* HW2's reporting server (hw2.c): one client at a time, whose requests it   *)
(* reads from a byte stream that does not keep them apart, and a table of    *)
(* cases that starts anew with every client.                                 *)
(***************************************************************************)
EXTENDS Integers, Sequences, SequencesExt

CONSTANTS REGION_NUM,
          Word,       \* values of an unsigned int
          Requests,   \* what a client may send, see RequestAssumption
          MaxRequests, MaxClients \* bounds: requests of a client, clients

Regions == 0..(REGION_NUM - 1)
Degrees == {"Mild", "Severe"}

\* An option names an area, a degree and a number; areas and degrees that do not
\* exist stand for whatever else a client may write.
Option == [area : Int, degree : STRING, number : Int]

ASSUME RequestAssumption ==
  /\ REGION_NUM \in Nat \ {0} /\ Word \in Nat \ {0}
  /\ MaxRequests \in Nat /\ MaxClients \in Nat
  /\ \A q \in Requests :
       \/ q.kind \in {"list", "all", "Exit", "other", "malformed"}
       \/ /\ q.kind \in {"Confirmed", "Reporting"} /\ q.options \in Seq(Option)
          /\ q.kind = "Confirmed" => q.options /= <<>> \* without an area it is "all"

VARIABLES
  pc,       \* the server's place
  mild_case, severe_case,
  command,  \* the requests that one read returned
  socket,   \* "open", or "closed" by interrupt_handler
  client,   \* "none", "connected" or "gone"
  stream,   \* its requests that the server has not read
  sent,     \* how many it sent
  heard,    \* the answers it got
  clients   \* how many there were

reportVars == <<pc, mild_case, severe_case, command, socket, client, stream, sent, heard, clients>>
table == <<mild_case, severe_case>>
connection == <<client, stream, sent, heard, clients>>

NoCases == [a \in Regions |-> 0]

ReportInit ==
  /\ pc = "accept" /\ mild_case = NoCases /\ severe_case = NoCases /\ command = <<>>
  /\ socket = "open" /\ client = "none" /\ stream = <<>> /\ sent = 0 /\ heard = <<>>
  /\ clients = 0

-----------------------------------------------------------------------------
(* The client, and Ctrl-C *)

\* It need not wait for the answer to its last request.
Send ==
  /\ client = "connected" /\ sent < MaxRequests
  /\ \E q \in Requests : stream' = Append(stream, q)
  /\ sent' = sent + 1
  /\ UNCHANGED <<pc, table, command, socket, client, heard, clients>>

Disconnect ==
  /\ client = "connected" /\ client' = "gone"
  /\ UNCHANGED <<pc, table, command, socket, stream, sent, heard, clients>>

interrupt_handler ==
  /\ socket = "open" /\ pc /= "ended" /\ socket' = "closed"
  /\ UNCHANGED <<pc, table, command, connection>>

-----------------------------------------------------------------------------
(* The server *)

\* accept returns and connfd is assigned: a Ctrl-C in between, which would close
\* the connection of the client before instead, is left out.
Accept ==
  /\ pc = "accept" /\ socket = "open" /\ clients < MaxClients
  /\ client' = "connected" /\ clients' = clients + 1
  /\ stream' = <<>> /\ sent' = 0 /\ heard' = <<>>
  /\ pc' = "read"
  /\ UNCHANGED <<table, command, socket>>

AcceptFails ==
  /\ pc = "accept" /\ socket = "closed" /\ pc' = "ended"
  /\ UNCHANGED <<table, command, socket, connection>>

\* A request is cleared away after it was performed, but for the "Exit" of the client
\* before: break leaves the loop in front of the clearing (hw2.c:188, 192).
NotCleared == IF command /= <<>> /\ Head(command).kind = "Exit" THEN command ELSE <<>>

\* However many requests have arrived, or nothing when the client is gone: then the
\* server takes for a request what is not cleared away.
Read ==
  /\ pc = "read" /\ socket = "open"
  /\ \/ \E n \in 1..Len(stream) : /\ command' = SubSeq(stream, 1, n)
                                  /\ stream' = SubSeq(stream, n + 1, Len(stream))
     \/ stream = <<>> /\ client = "gone" /\ command' = NotCleared /\ UNCHANGED stream
  /\ pc' = "perform"
  /\ UNCHANGED <<table, socket, client, sent, heard, clients>>

\* Mutant: a read that failed is a request without tokens.
ReadFailsOn ==
  /\ pc = "read" /\ (socket = "closed" \/ client = "gone")
  /\ command' = <<>> /\ pc' = "perform"
  /\ UNCHANGED <<table, socket, connection>>

\* err_read: after Ctrl-C, or when the client left without reading its answers.
ReadFails ==
  /\ pc = "read" /\ (socket = "closed" \/ client = "gone")
  /\ pc' = "ended"
  /\ UNCHANGED <<table, command, socket, connection>>

\* An answer: err_write after Ctrl-C; to a client that left, a lost one or SIGPIPE.
Write(answer, next) ==
  \/ /\ socket = "open" /\ client = "connected"
     /\ heard' = Append(heard, answer) /\ pc' = next
  \/ /\ socket = "open" /\ client = "gone" /\ pc' = next /\ UNCHANGED heard
  \/ /\ socket = "closed" \/ client = "gone"
     /\ pc' = "ended" /\ UNCHANGED heard

\* Only the first request of a read is looked at: the tokens of another one behind
\* it are options, which they cannot be.
Asked(kind) == pc = "perform" /\ command /= <<>> /\ Head(command).kind = kind
Alone == Len(command) = 1

Skip ==
  /\ pc = "perform" /\ (command /= <<>> => Head(command).kind = "other")
  /\ pc' = "read"
  /\ UNCHANGED <<table, command, socket, connection>>

List ==
  /\ Asked("list") /\ Write([kind |-> "menu"], "read")
  /\ UNCHANGED <<table, command, socket, client, stream, sent, clients>>

\* printf's %d of an unsigned int.
Shown(n) == IF 2 * n >= Word THEN n - Word ELSE n

ConfirmedCase ==
  /\ Asked("all") /\ Alone
  /\ Write([kind |-> "all",
            cases |-> [a \in Regions |-> Shown((mild_case[a] + severe_case[a]) % Word)]], "read")
  /\ UNCHANGED <<table, command, socket, client, stream, sent, clients>>

Options == Head(command).options
AreasExist == \A i \in DOMAIN Options : Options[i].area \in Regions
Wellformed(option) == option.area \in Regions /\ option.degree \in Degrees

ConfirmedAreas ==
  /\ Asked("Confirmed") /\ Alone /\ AreasExist
  /\ Write([kind |-> "areas",
            cases |-> [i \in DOMAIN Options |->
                         [area |-> Options[i].area,
                          Mild |-> Shown(mild_case[Options[i].area]),
                          Severe |-> Shown(severe_case[Options[i].area])]]], "read")
  /\ UNCHANGED <<table, command, socket, client, stream, sent, clients>>

\* The options up to the first that is wrong are counted.
Wrong == SelectInSeq(Options, LAMBDA o : ~Wellformed(o))
Good == IF Wrong = 0 THEN Options ELSE SubSeq(Options, 1, Wrong - 1)

\* The cases that options report of an area.
Number(option, area, degrees) ==
  IF option.area = area /\ option.degree \in degrees THEN option.number ELSE 0
Total(options, area, degrees) ==
  SumFunction([i \in DOMAIN options |-> Number(options[i], area, degrees)])

\* Mutant: the numbers are added as signed ones.
WithSigned(cases, degree) == [a \in Regions |-> cases[a] + Total(Good, a, {degree})]

With(cases, degree) == [a \in Regions |-> (cases[a] + Total(Good, a, {degree})) % Word]

\* What a wrong report counted is lost with the server.
ReportingSystem ==
  /\ Asked("Reporting")
  /\ mild_case' = With(mild_case, "Mild") /\ severe_case' = With(severe_case, "Severe")
  /\ IF Alone /\ Good = Options
     THEN Write([kind |-> "wait"], "sleep")
     ELSE pc' = "ended" /\ UNCHANGED heard
  /\ UNCHANGED <<command, socket, client, stream, sent, clients>>

\* After sleep(largest_region_number), the result.
Wake ==
  /\ pc = "sleep" /\ Write([kind |-> "result", options |-> Options], "read")
  /\ UNCHANGED <<table, command, socket, client, stream, sent, clients>>

\* err_input_confirmed_case, err_input_reporting_system, err_outofbound.
FormatError ==
  /\ \/ Asked("malformed")
     \/ Asked("all") /\ ~Alone
     \/ Asked("Confirmed") /\ ~(Alone /\ AreasExist)
  /\ pc' = "ended"
  /\ UNCHANGED <<table, command, socket, connection>>

\* Mutant: OVERWRITE forgets the severe cases.
OverwriteMild == mild_case' = NoCases /\ UNCHANGED severe_case

Overwrite == mild_case' = NoCases /\ severe_case' = NoCases

Exit ==
  /\ Asked("Exit") /\ Overwrite
  /\ client' = "none" /\ stream' = <<>> /\ pc' = "accept"
  /\ UNCHANGED <<command, socket, sent, heard, clients>>

Server == \/ Accept \/ AcceptFails \/ Read \/ ReadFails \/ Skip \/ List \/ ConfirmedCase
          \/ ConfirmedAreas \/ ReportingSystem \/ Wake \/ FormatError \/ Exit

ReportNext == Server \/ Send \/ Disconnect \/ interrupt_handler

ReportSpec == ReportInit /\ [][ReportNext]_reportVars

\* The server runs; clients and Ctrl-C come or not.
FairReportSpec == ReportSpec /\ WF_reportVars(Server)

-----------------------------------------------------------------------------
(* Properties *)

Replies == [kind : {"menu", "wait"}]
             \cup [kind : {"result"}, options : Seq(Option)]
             \cup [kind : {"all"}, cases : [Regions -> Int]]
             \cup [kind : {"areas"}, cases : Seq([area : Regions, Mild : Int, Severe : Int])]

\* Type invariant.
ReportTypeOK ==
  /\ pc \in {"accept", "read", "perform", "sleep", "ended"}
  /\ mild_case \in [Regions -> 0..(Word - 1)] /\ severe_case \in [Regions -> 0..(Word - 1)]
  /\ command \in Seq(Requests) /\ stream \in Seq(Requests)
  /\ socket \in {"open", "closed"} /\ client \in {"none", "connected", "gone"}
  /\ sent \in 0..MaxRequests /\ clients \in 0..MaxClients
  /\ heard \in Seq(Replies)

\* What was confirmed to the client before its i-th answer.
Reported(i, area, degrees) ==
  SumFunction([j \in 1..(i - 1) |->
    IF heard[j].kind = "result" THEN Total(heard[j].options, area, degrees) ELSE 0])
Agrees(shown, reported) == (shown - reported) % Word = 0

\* A listing as the i-th answer shows what was reported before it.
Tells(answer, i) ==
  /\ answer.kind = "all" =>
       \A a \in Regions : Agrees(answer.cases[a], Reported(i, a, Degrees))
  /\ answer.kind = "areas" =>
       \A k \in DOMAIN answer.cases :
         LET c == answer.cases[k]
         IN  /\ Agrees(c.Mild, Reported(i, c.area, {"Mild"}))
             /\ Agrees(c.Severe, Reported(i, c.area, {"Severe"}))

\* What a listing shows is what was reported, and confirmed, on this connection
\* before it, no more and no less: not what an earlier client reported, what a broken
\* off report counted, or what requests read together lost (hw2.c:91-206).
ListingsTellReports == \A i \in DOMAIN heard : Tells(heard[i], i)

\* Ctrl-C ends the server wherever it is, the loop a lost client leaves it in
\* included (hw2.c:19-23, 60, 73).
CtrlCEnds == socket = "closed" ~> pc = "ended"

\* "A connection lasts until it is broken off or the report has succeeded"
\* (HW2/README.md:14): a server whose client is gone comes to the next one, or ends.
LostClientLetGo == client = "gone" ~> (client /= "gone" \/ pc = "ended")
=============================================================================
