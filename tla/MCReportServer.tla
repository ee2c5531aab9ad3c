---------------------------- MODULE MCReportServer ----------------------------
(***************************************************************************)
(* The requests of the README, a report of fewer cases than none, one with   *)
(* a second option that is wrong, and what the server does not know.         *)
(***************************************************************************)
EXTENDS ReportServer

SomeOption(a, d, n) == [area |-> a, degree |-> d, number |-> n]
Report(options) == [kind |-> "Reporting", options |-> options]

ReadmeRequests == {[kind |-> "list"], [kind |-> "all"], [kind |-> "Exit"],
                   [kind |-> "Confirmed", options |-> <<SomeOption(1, "Mild", 0)>>],
                   Report(<<SomeOption(1, "Mild", 5)>>),
                   Report(<<SomeOption(0, "Severe", 6), SomeOption(1, "Severe", -4)>>)}

SomeRequests == ReadmeRequests \cup
                {[kind |-> "other"], [kind |-> "malformed"],
                 [kind |-> "Confirmed", options |-> <<SomeOption(0, "Mild", 0), SomeOption(2, "Mild", 0)>>],
                 Report(<<SomeOption(0, "Mild", 5), SomeOption(1, "?", 1)>>)}
=============================================================================
