---------------------------- MODULE SetupChecker ----------------------------
(***************************************************************************)
(* The setup page, its banner and the health endpoint ask for one report   *)
(* of the server's setup.  It is made under a mutex, kept for a time that  *)
(* counts from before its checks ran, and made again on request.  A server *)
(* that cannot be reached makes a report as well.                          *)
(***************************************************************************)
EXTENDS Integers

CONSTANTS
  Requests,
  NoReport,
  Checks,        \* of one report, which run one after another
  TTL,
  MaxMinute, MaxRequests, MaxOutages   \* bounds

ASSUME SetupAssumption ==
  /\ {TTL, MaxMinute, MaxRequests, MaxOutages} \subseteq Nat
  /\ Checks \in Nat \ {0}

VARIABLES
  minute,
  reachable,     \* the server
  lastChange,    \* history variable: when it last came or went
  cached,        \* [at, ok] or NoReport; at is taken before the checks
  mutex,         \* the request that holds it, or NoReport
  request,       \* each request: its kind, when it was made, the checks left, what it got
  asked, outages

setupVars == <<minute, reachable, lastChange, cached, mutex, request, asked, outages>>

Idle == [pc |-> "idle", kind |-> "Report", made |-> 0, began |-> 0, left |-> 0,
         report |-> NoReport]

SetupInit ==
  /\ minute = 0
  /\ reachable \in BOOLEAN
  /\ lastChange = 0
  /\ cached = NoReport
  /\ mutex = NoReport
  /\ request = [r \in Requests |-> Idle]
  /\ asked = 0 /\ outages = 0

Ask(r) ==
  /\ request[r].pc = "idle" /\ asked < MaxRequests
  /\ asked' = asked + 1
  /\ \E kind \in {"Report", "Refresh"} :
       request' = [request EXCEPT ![r] =
         [pc |-> "waiting", kind |-> kind, made |-> minute, began |-> minute, left |-> 0,
          report |-> NoReport]]
  /\ UNCHANGED <<minute, reachable, lastChange, cached, mutex, outages>>

\* Mutant: a report is kept until somebody asks for a refresh.
KeptForever == cached # NoReport

Fresh == IF cached = NoReport THEN FALSE ELSE minute - cached.at < TTL

MustCheck(r) == request[r].kind = "Refresh" \/ ~Fresh

\* With the mutex, the cached report is returned or a new one begun.
Returns(r, report) == request' = [request EXCEPT ![r].pc = "done", ![r].report = report]

ReportCached(r) ==
  /\ request[r].pc = "waiting" /\ mutex = NoReport
  /\ ~MustCheck(r)
  /\ Returns(r, cached)
  /\ UNCHANGED <<minute, reachable, lastChange, cached, mutex, asked, outages>>

BeginChecks(r) ==
  /\ request[r].pc = "waiting" /\ mutex = NoReport
  /\ MustCheck(r)
  /\ mutex' = r
  /\ request' = [request EXCEPT ![r].pc = "checking", ![r].began = minute, ![r].left = Checks,
                                ![r].report = [at |-> minute, ok |-> TRUE]]
  /\ UNCHANGED <<minute, reachable, lastChange, cached, asked, outages>>

\* Each check finds the server as it is by then; one that cannot run has failed.
CheckSetup(r) ==
  /\ request[r].pc = "checking"
  /\ LET left == request[r].left
         found == [at |-> request[r].began, ok |-> request[r].report.ok /\ reachable]
     IN request' = [request EXCEPT ![r].pc = IF left = 1 THEN "checked" ELSE "checking",
                                   ![r].left = left - 1, ![r].report = found]
  /\ UNCHANGED <<minute, reachable, lastChange, cached, mutex, asked, outages>>

\* The history's readiness is read from the store before the report is kept.
KeepReport(r) ==
  /\ request[r].pc = "checked"
  /\ cached' = request[r].report
  /\ mutex' = NoReport
  /\ Returns(r, request[r].report)
  /\ UNCHANGED <<minute, reachable, lastChange, asked, outages>>

Answered(r) ==
  /\ request[r].pc = "done"
  /\ request' = [request EXCEPT ![r] = Idle]
  /\ UNCHANGED <<minute, reachable, lastChange, cached, mutex, asked, outages>>

Minute ==
  /\ minute < MaxMinute
  /\ minute' = minute + 1
  /\ UNCHANGED <<reachable, lastChange, cached, mutex, request, asked, outages>>

ServerChanges ==
  /\ outages < MaxOutages
  /\ outages' = outages + 1
  /\ reachable' = ~reachable
  /\ lastChange' = minute
  /\ UNCHANGED <<minute, cached, mutex, request, asked>>

SetupNext ==
  \/ Minute \/ ServerChanges
  \/ \E r \in Requests :
       \/ Ask(r) \/ ReportCached(r) \/ BeginChecks(r) \/ CheckSetup(r)
       \/ KeepReport(r) \/ Answered(r)

-----------------------------------------------------------------------------
\* A report that is handed out tells the server's state, or the server came or went
\* less than the TTL ago or while the checks of this very request were running: a
\* failed check is forgotten as soon as a successful one would be.
ReportIsRecent ==
  [][\A r \in Requests :
       (request[r].pc # "done" /\ request'[r].pc = "done") =>
          \/ request'[r].report.ok = reachable
          \/ lastChange > minute - TTL
          \/ request[r].pc = "checked" /\ lastChange >= request[r].began]_setupVars

\* A refresh is never answered with checks that ran before it was asked for.
RefreshChecksAgain ==
  \A r \in Requests :
    (request[r].pc = "done" /\ request[r].kind = "Refresh")
      => request[r].report.at >= request[r].made

\* Whoever asks gets a report that is recent, and new if asked for.
ReportsAreRecent == ReportIsRecent /\ []RefreshChecksAgain
=============================================================================
