----------------------------- MODULE IndexPlans -----------------------------
(***************************************************************************)
(* The query_plans collector.  A run plans the busiest queries and looks   *)
(* whether an index would serve the scans it finds; a plan is kept for a   *)
(* time and only its table is looked at again.  Plans, tables and          *)
(* hypothetical indexes are read one after the other from a server whose   *)
(* indexes come and go, and each of these reads may fail.                  *)
(*                                                                         *)
(* All queries read one table, and one index would serve the filters of    *)
(* those that can be served.  Time is counted in hours.                    *)
(***************************************************************************)
EXTENDS Integers, FiniteSets

CONSTANTS
  Queries,
  Filtered,          \* queries with columns an index can serve
  MaxQueries,
  ReplanAfter,
  NoPlans,
  PlanFaults,        \* "run", "previous", "explain", "table", "validate", "unused"
  MaxHours, MaxPlanFaults, MaxServerChanges   \* bounds

ASSUME IndexPlansAssumption ==
  /\ Filtered \subseteq Queries
  /\ {MaxQueries, MaxHours, MaxPlanFaults, MaxServerChanges} \subseteq Nat
  /\ ReplanAfter \in Nat \ {0}

VARIABLES
  planHour,
  relation,     \* [large, indexed] on the server; large enough for an index to pay
  planReport,   \* the last report on record, or NoPlans
  run,          \* at most one run at work
  ranAt,        \* when the last run began
  calm,         \* history variable: the last change of the table or fault
  planFaults, serverChanges

planVars == <<planHour, relation, planReport, run, ranAt, calm, planFaults, serverChanges>>

PlansInit ==
  /\ planHour = 0
  /\ relation \in [large : BOOLEAN, indexed : BOOLEAN]
  /\ planReport = NoPlans
  /\ run = {}
  /\ ranAt = -1
  /\ calm = 0
  /\ planFaults = 0 /\ serverChanges = 0

\* What a fault changes is an outcome of the step it happens in.
PlanFault(f) ==
  /\ f \in PlanFaults /\ planFaults < MaxPlanFaults
  /\ planFaults' = planFaults + 1
  /\ calm' = planHour

NoPlanFault == UNCHANGED <<planFaults, calm>>

NextHour ==
  /\ planHour < MaxHours
  /\ planHour' = planHour + 1
  /\ UNCHANGED <<relation, planReport, run, ranAt, calm, planFaults, serverChanges>>

\* An index is built or dropped, a table grows or is emptied.  absent is a history
\* variable: at some time since the run began there was no index.
TableChanges ==
  /\ serverChanges < MaxServerChanges
  /\ serverChanges' = serverChanges + 1
  /\ relation' \in {[relation EXCEPT !.large = ~@], [relation EXCEPT !.indexed = ~@]}
  /\ calm' = planHour
  /\ run' = {[r EXCEPT !.absent = @ \/ ~relation'.indexed] : r \in run}
  /\ UNCHANGED <<planHour, planReport, ranAt, planFaults>>

-----------------------------------------------------------------------------
\* The findings of the last report on record; none if they cannot be read.
PreviousFindings == IF planReport = NoPlans THEN {} ELSE planReport.findings

\* rankQueries: any of the queries may be the busiest ones.  The statistics may
\* show a query with another text than before, the server may have hypopg or not.
BeginPlans ==
  /\ run = {} /\ ranAt < planHour
  /\ \E ranked \in SUBSET Queries, previous \in {{}, PreviousFindings}, hypo \in BOOLEAN :
     \E reworded \in SUBSET {q \in ranked : \E f \in previous : f.query = q} :
       /\ Cardinality(ranked) =< MaxQueries
       /\ run' = {[at |-> planHour, todo |-> ranked, reworded |-> reworded,
                   previous |-> previous, hypo |-> hypo, info |-> {},
                   judging |-> {}, findings |-> {}, absent |-> ~relation.indexed]}
       /\ IF previous = PreviousFindings THEN NoPlanFault ELSE PlanFault("previous")
  /\ ranAt' = planHour
  /\ UNCHANGED <<planHour, relation, planReport, serverChanges>>

\* No statistics yet, the report cannot be stored or recorded, or the process ends.
RunFails(r) ==
  /\ PlanFault("run")
  /\ run' = {}
  /\ UNCHANGED <<planHour, relation, planReport, ranAt, serverChanges>>

NextQuery(r, q) == r.judging = {} /\ q \in r.todo

\* A finding that may be used again: same text, recent and without an error.
Reusable(f, r) == r.at - f.at < ReplanAfter /\ ~f.error

PreviousOf(r, q) ==
  {f \in r.previous : f.query = q /\ q \notin r.reworded /\ Reusable(f, r)}

-----------------------------------------------------------------------------
(* checkTable: the table's size, the filter's selectivity and the indexes  *)
(* there are, read once per run.                                           *)
Judged(info) ==
  CASE \E t \in info : ~t.large -> "unsuitable"
    [] \E t \in info : t.large /\ t.indexed -> "covered"
    [] OTHER -> "proposed"

\* The run after looking at the table, and what is found for the scan.
TableRead(r) == [r EXCEPT !.info = IF @ = {} THEN {relation} ELSE @]

Done(r, f) == [r EXCEPT !.todo = @ \ {f.query}, !.judging = {}, !.findings = @ \cup {f}]

\* Mutant: a plan that is used again counts as a new one.
Stamped(f, r) == [f EXCEPT !.at = r.at]

\* The plan keeps its time.
Kept(f, r) == f

\* Mutant: a kept proposal is not looked at again.
NoRecheck(f) == FALSE

\* recheck only looks at what is still a proposal.
Rechecks(f) == f.scan = "proposed"

Reuse(r, q) ==
  /\ NextQuery(r, q)
  /\ \E f \in PreviousOf(r, q) :
       run' = {IF Rechecks(f)
               THEN Done(TableRead(r), Kept([f EXCEPT !.scan = Judged(TableRead(r).info)], r))
               ELSE Done(r, Kept(f, r))}
  /\ NoPlanFault
  /\ UNCHANGED <<planHour, relation, planReport, ranAt, serverChanges>>

\* A table that cannot be read ends a proposal.
ReuseUnread(r, q) ==
  /\ NextQuery(r, q) /\ r.info = {} /\ PlanFault("table")
  /\ \E f \in PreviousOf(r, q) :
       Rechecks(f) /\ run' = {Done(r, Kept([f EXCEPT !.scan = "unreadable"], r))}
  /\ UNCHANGED <<planHour, relation, planReport, ranAt, serverChanges>>

-----------------------------------------------------------------------------
(* plan and judge.  planned is a history variable.                         *)
NewFinding(r, q, scan) ==
  [query |-> q, at |-> r.at, planned |-> r.at, error |-> FALSE, scan |-> scan]

\* Without an index the table is scanned; with one the planner has a choice.
Scans(q) ==
  IF q \notin Filtered THEN {"whole"}
  ELSE IF relation.indexed THEN {"none", "unjudged"} ELSE {"unjudged"}

ExplainGeneric(r, q) ==
  /\ NextQuery(r, q) /\ PreviousOf(r, q) = {}
  /\ \E scan \in Scans(q) :
       LET f == NewFinding(r, q, scan) IN
       run' = {IF scan = "unjudged" THEN [r EXCEPT !.judging = {f}] ELSE Done(r, f)}
  /\ NoPlanFault
  /\ UNCHANGED <<planHour, relation, planReport, ranAt, serverChanges>>

\* The error is the finding.
ExplainFails(r, q) ==
  /\ NextQuery(r, q) /\ PreviousOf(r, q) = {} /\ PlanFault("explain")
  /\ run' = {Done(r, [NewFinding(r, q, "none") EXCEPT !.error = TRUE])}
  /\ UNCHANGED <<planHour, relation, planReport, ranAt, serverChanges>>

Judge(r) ==
  /\ \E f \in r.judging :
       LET read == TableRead(r)
           judged == [f EXCEPT !.scan = Judged(read.info)]
       IN /\ f.scan = "unjudged"
          /\ run' = {IF judged.scan = "proposed" /\ r.hypo
                     THEN [read EXCEPT !.judging = {judged}]
                     ELSE Done(read, judged)}
  /\ NoPlanFault
  /\ UNCHANGED <<planHour, relation, planReport, ranAt, serverChanges>>

JudgeUnread(r) ==
  /\ r.info = {} /\ PlanFault("table")
  /\ \E f \in r.judging :
       f.scan = "unjudged" /\ run' = {Done(r, [f EXCEPT !.scan = "unreadable"])}
  /\ UNCHANGED <<planHour, relation, planReport, ranAt, serverChanges>>

\* The proposal stands; a failure to ask is only logged.
ValidateIndex(r) ==
  /\ \E f \in r.judging : f.scan = "proposed" /\ run' = {Done(r, f)}
  /\ NoPlanFault \/ PlanFault("validate")
  /\ UNCHANGED <<planHour, relation, planReport, ranAt, serverChanges>>

\* The planner would not use the index.
IndexUnused(r) ==
  /\ PlanFault("unused")
  /\ \E f \in r.judging :
       f.scan = "proposed" /\ run' = {Done(r, [f EXCEPT !.scan = "unused"])}
  /\ UNCHANGED <<planHour, relation, planReport, ranAt, serverChanges>>

SaveQueryPlans(r) ==
  /\ r.todo = {} /\ r.judging = {}
  /\ planReport' = [at |-> r.at, findings |-> r.findings, absent |-> r.absent]
  /\ run' = {}
  /\ NoPlanFault
  /\ UNCHANGED <<planHour, relation, ranAt, serverChanges>>

PlansNext ==
  \/ NextHour \/ TableChanges \/ BeginPlans
  \/ \E r \in run :
       \/ RunFails(r) \/ SaveQueryPlans(r)
       \/ \E q \in Queries :
            Reuse(r, q) \/ ReuseUnread(r, q) \/ ExplainGeneric(r, q) \/ ExplainFails(r, q)
       \/ Judge(r) \/ JudgeUnread(r) \/ ValidateIndex(r) \/ IndexUnused(r)

-----------------------------------------------------------------------------
Findings == IF planReport = NoPlans THEN {} ELSE planReport.findings

\* A report proposes no index that was there all the time since its run began,
\* whenever the plan was made that called for it.
BuiltIsNotProposed ==
  \A f \in Findings : f.scan = "proposed" => planReport.absent

\* No finding rests on a plan older than replanAfter, over any number of reports it
\* was carried through, and an error is from the report's own run.
FindingsAreRecent ==
  \A f \in Findings :
    /\ planReport.at - f.planned < ReplanAfter
    /\ f.error => f.planned = planReport.at

\* When a large table has had no index for replanAfter, and nothing failed or spoke
\* against one meanwhile, each query it would serve has it proposed: what once
\* spoke against it, though it is not looked at again, is forgotten by then.
NeedIsProposed ==
  (planReport # NoPlans /\ relation.large /\ ~relation.indexed) =>
    (planReport.at >= calm + ReplanAfter
       => \A f \in Findings : f.query \in Filtered => f.scan = "proposed")

\* Reusing plans loses no proposal for good and never goes further back than allowed.
ReuseLosesNothing == FindingsAreRecent /\ NeedIsProposed
=============================================================================
