------------------------ MODULE SuggestionLifecycle ------------------------
(***************************************************************************)
(* What the storage promises about suggestions to those that read them,    *)
(* the notifier, the pages and the API: there is one row for each issue    *)
(* (a rule and its target), an issue that is found again comes back, and a *)
(* dismissal is final.                                                     *)
(***************************************************************************)
CONSTANTS
  Keys,        \* issues: (rule, target object)
  Severities,
  None         \* no issue, no severity, no key

VARIABLES
  status,      \* status[k]: of the row of k; "none" while there is no row
  severity     \* severity[k]: as last reported

rowVars == <<status, severity>>

Statuses == {"none", "active", "resolved", "dismissed"}

LifecycleInit ==
  /\ status = [k \in Keys |-> "none"]
  /\ severity = [k \in Keys |-> None]

\* The issue is found with severity s.
Report(k, s) ==
  /\ severity' = [severity EXCEPT ![k] = s]
  /\ status' = [status EXCEPT ![k] =
                  IF @ = "dismissed" THEN "dismissed" ELSE "active"]

\* The issue is looked for and not found.
Resolve(k) ==
  /\ status[k] = "active"
  /\ status' = [status EXCEPT ![k] = "resolved"]
  /\ UNCHANGED severity

\* A user does not want to see it any more.
Dismiss(k) ==
  /\ status[k] # "none"
  /\ status' = [status EXCEPT ![k] = "dismissed"]
  /\ UNCHANGED severity

LifecycleNext ==
  \E k \in Keys :
    \/ \E s \in Severities : Report(k, s)
    \/ Resolve(k)
    \/ Dismiss(k)

LifecycleSpec == LifecycleInit /\ [][LifecycleNext]_rowVars
=============================================================================
