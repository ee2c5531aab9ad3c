----------------------------- MODULE BankAccount -----------------------------
(***************************************************************************)
(* What the bank server of lab6 promises: one account for everybody, and    *)
(* every deposit and withdrawal of every client done on it at once, as many *)
(* times as the client asked for.                                            *)
(***************************************************************************)
EXTENDS Integers

CONSTANTS Clients, Requests, \* [operation, money, times]
          Lowest, Highest,   \* the savings the account can hold
          MostTimes          \* as often as a request can be repeated

VARIABLES savings, \* of the one account
          request, \* [Clients -> Requests or NoRequest]
          left     \* [Clients -> operations still to be done, Forever]

vars == <<savings, request, left>>

NoRequest == [operation |-> "none", money |-> 0, times |-> 0]
Forever == -1

Amount(r) == CASE r.operation = "deposit" -> r.money
               [] r.operation = "withdraw" -> -r.money
               [] OTHER -> 0

Asked(r) == IF r.times > MostTimes THEN Forever ELSE IF r.times < 0 THEN 0 ELSE r.times

Init == /\ savings = 0
        /\ request = [c \in Clients |-> NoRequest]
        /\ left = [c \in Clients |-> 0]

Connect(c) ==
  /\ request[c] = NoRequest
  /\ \E r \in Requests : /\ request' = [request EXCEPT ![c] = r]
                         /\ left' = [left EXCEPT ![c] = Asked(r)]
  /\ UNCHANGED savings

\* One operation.  Savings the account cannot hold come out as it pleases.
Perform(c) ==
  /\ left[c] /= 0
  /\ left' = [left EXCEPT ![c] = IF @ = Forever THEN @ ELSE @ - 1]
  /\ savings' \in Lowest..Highest
  /\ savings + Amount(request[c]) \in Lowest..Highest
       => savings' = savings + Amount(request[c])
  /\ UNCHANGED request

Next == \E c \in Clients : Connect(c) \/ Perform(c)

Spec == Init /\ [][Next]_vars
=============================================================================
