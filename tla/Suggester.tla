----------------------------- MODULE Suggester -----------------------------
(***************************************************************************)
(* Suggestions as they are written.  Suggest runs in the analysis loop and *)
(* in the handler of a manual trigger; the two are not serialised, each of *)
(* their SQL statements is a transaction of its own, and users dismiss     *)
(* suggestions meanwhile.                                                  *)
(***************************************************************************)
EXTENDS Naturals, FiniteSets

CONSTANTS
  Keys,        \* issues: (rule, target object), unique in the table
  Rules,
  RuleOf,      \* RuleOf[k]: the rule that finds k
  Checked,     \* targets that a rule builds from a check on the server
  Severities,
  Workers,     \* goroutines that call Suggest
  Users,       \* dismissal requests at work at one time
  None,
  MaxFaults    \* bound: failed statements and calls cut short

ASSUME SuggesterAssumption ==
  /\ RuleOf \in [Keys -> Rules] /\ Checked \subseteq Keys
  /\ None \notin Keys \cup Severities
  /\ MaxFaults \in Nat

VARIABLES
  status,      \* the rows of the table
  severity,
  issues,      \* issues[k]: the severity the collected data show, or None
  always,      \* history: the issues the data have shown all the time
  pc,          \* pc[w]: "idle", "evaluated" or "writing"
  view,        \* view[w]: what the rules made of the analysis
  todo,        \* todo[w]: found, not upserted yet
  inserting,   \* inserting[w]: its UPDATE met no row, its INSERT is next
  gone,        \* gone[w]: still to be resolved
  settles,     \* history: nothing failed and nobody else called Suggest
  request,     \* request[u]: what u dismisses, once its status was checked
  faults

rows == <<status, severity>>
world == <<issues, always>>
calls == <<pc, view, todo, inserting, gone, settles>>
vars == <<rows, world, calls, request, faults>>

Statuses == {"none", "active", "resolved", "dismissed"}

Observation == [Keys -> Severities \cup {None}]

\* ran: rules whose data were usable and that did not fail.  hidden: targets
\* of a rule whose own check failed.  found: the rules' suggestions.
View == [ran : SUBSET Rules, hidden : SUBSET Keys, found : Observation]

NoView == [ran |-> {}, hidden |-> {}, found |-> [k \in Keys |-> None]]

Init ==
  /\ status = [k \in Keys |-> "none"]
  /\ severity = [k \in Keys |-> None]
  /\ issues \in Observation
  /\ always = {k \in Keys : issues[k] # None}
  /\ pc = [w \in Workers |-> "idle"]
  /\ view = [w \in Workers |-> NoView]
  /\ todo = [w \in Workers |-> {}]
  /\ inserting = [w \in Workers |-> None]
  /\ gone = [w \in Workers |-> {}]
  /\ settles = [w \in Workers |-> FALSE]
  /\ request = [u \in Users |-> None]
  /\ faults = 0

-----------------------------------------------------------------------------
\* The rules look at the analysis.  One whose domains are missing or stale is
\* not asked, one that fails reports nothing, and a check that failed on the
\* server hides its targets; which those are is up to the environment.
TargetsOf(ran) == {k \in Keys : RuleOf[k] \in ran}

Visible(ran, hidden) ==
  [k \in Keys |-> IF k \in TargetsOf(ran) \ hidden THEN issues[k] ELSE None]

Evaluate(w) ==
  /\ pc[w] = "idle"
  /\ \E ran \in SUBSET Rules :
       \E hidden \in SUBSET (TargetsOf(ran) \cap Checked) :
         view' = [view EXCEPT ![w] = [ran |-> ran, hidden |-> hidden,
                                      found |-> Visible(ran, hidden)]]
  /\ pc' = [pc EXCEPT ![w] = "evaluated"]
  /\ settles' = [v \in Workers |-> v = w /\ \A x \in Workers : pc[x] = "idle"]
  /\ UNCHANGED <<rows, world, todo, inserting, gone, request, faults>>

Found(w) == {k \in Keys : view[w].found[k] # None}

Active == {k \in Keys : status[k] = "active"}

\* Mutant: not found means gone.
ResolvableUnasked(w) == Active \ Found(w)

\* Not found counts only where the rule was asked, answered and could see.
Resolvable(w) ==
  {k \in Active \ Found(w) : /\ RuleOf[k] \in view[w].ran
                             /\ k \notin view[w].hidden}

\* GetSuggestionsByStatus, a read; what follows works from its result.
ReadActive(w) ==
  /\ pc[w] = "evaluated"
  /\ pc' = [pc EXCEPT ![w] = "writing"]
  /\ todo' = [todo EXCEPT ![w] = Found(w)]
  /\ gone' = [gone EXCEPT ![w] = Resolvable(w)]
  /\ UNCHANGED <<rows, world, view, inserting, settles, request, faults>>

Upserted(w, k) == todo' = [todo EXCEPT ![w] = @ \ {k}]

\* Mutant: a resolved suggestion that is found again is only refreshed.
UpdateRowKeeps(w, k) ==
  /\ pc[w] = "writing" /\ inserting[w] = None /\ k \in todo[w]
  /\ status[k] # "none"
  /\ severity' = [severity EXCEPT ![k] = view[w].found[k]]
  /\ Upserted(w, k)
  /\ UNCHANGED <<status, world, pc, view, inserting, gone, settles, request,
                 faults>>

\* The UPDATE of UpsertSuggestion meets a row.
UpdateRow(w, k) ==
  /\ pc[w] = "writing" /\ inserting[w] = None /\ k \in todo[w]
  /\ status[k] # "none"
  /\ status' = [status EXCEPT ![k] = IF @ = "resolved" THEN "active" ELSE @]
  /\ severity' = [severity EXCEPT ![k] = view[w].found[k]]
  /\ Upserted(w, k)
  /\ UNCHANGED <<world, pc, view, inserting, gone, settles, request, faults>>

\* Mutant: an UPDATE without an error is taken to have met a row.
UpdateNothingDone(w, k) ==
  /\ pc[w] = "writing" /\ inserting[w] = None /\ k \in todo[w]
  /\ status[k] = "none"
  /\ Upserted(w, k)
  /\ UNCHANGED <<rows, world, pc, view, inserting, gone, settles, request,
                 faults>>

UpdateNothing(w, k) ==
  /\ pc[w] = "writing" /\ inserting[w] = None /\ k \in todo[w]
  /\ status[k] = "none"
  /\ inserting' = [inserting EXCEPT ![w] = k]
  /\ UNCHANGED <<rows, world, pc, view, todo, gone, settles, request, faults>>

\* Its INSERT, a second statement: somebody else may have inserted the row.
InsertRow(w, k) ==
  /\ inserting[w] = k /\ k \in todo[w]
  /\ status[k] = "none"
  /\ status' = [status EXCEPT ![k] = "active"]
  /\ severity' = [severity EXCEPT ![k] = view[w].found[k]]
  /\ inserting' = [inserting EXCEPT ![w] = None]
  /\ Upserted(w, k)
  /\ UNCHANGED <<world, pc, view, gone, settles, request, faults>>

\* The unique index refuses it: an entry in Errors, and on to the next.
InsertConflicts(w, k) ==
  /\ inserting[w] = k /\ k \in todo[w]
  /\ status[k] # "none"
  /\ inserting' = [inserting EXCEPT ![w] = None]
  /\ Upserted(w, k)
  /\ UNCHANGED <<rows, world, pc, view, gone, settles, request, faults>>

\* Mutant: a resolution goes by the id alone.
ResolveById(w, k) ==
  /\ pc[w] = "writing" /\ todo[w] = {} /\ k \in gone[w]
  /\ status' = [status EXCEPT ![k] = "resolved"]
  /\ gone' = [gone EXCEPT ![w] = @ \ {k}]
  /\ UNCHANGED <<severity, world, pc, view, todo, inserting, settles, request,
                 faults>>

\* ResolveSuggestion, after every upsert, whatever its UPDATE matches.
ResolveRow(w, k) ==
  /\ pc[w] = "writing" /\ todo[w] = {} /\ k \in gone[w]
  /\ status' = [status EXCEPT ![k] = IF @ = "active" THEN "resolved" ELSE @]
  /\ gone' = [gone EXCEPT ![w] = @ \ {k}]
  /\ UNCHANGED <<severity, world, pc, view, todo, inserting, settles, request,
                 faults>>

\* Suggest returns.
End(w) ==
  /\ pc' = [pc EXCEPT ![w] = "idle"]
  /\ view' = [view EXCEPT ![w] = NoView]
  /\ todo' = [todo EXCEPT ![w] = {}]
  /\ inserting' = [inserting EXCEPT ![w] = None]
  /\ gone' = [gone EXCEPT ![w] = {}]
  /\ settles' = [settles EXCEPT ![w] = FALSE]
  /\ UNCHANGED <<rows, world, request>>

Finish(w) ==
  /\ pc[w] = "writing" /\ todo[w] = {} /\ gone[w] = {}
  /\ End(w)
  /\ UNCHANGED faults

-----------------------------------------------------------------------------
\* Failures.
Fault == faults < MaxFaults /\ faults' = faults + 1

\* A statement that writes fails: an entry in Errors, and on to the next.
UpsertFails(w, k) ==
  /\ Fault
  /\ pc[w] = "writing" /\ k \in todo[w] /\ inserting[w] \in {None, k}
  /\ Upserted(w, k)
  /\ inserting' = [inserting EXCEPT ![w] = None]
  /\ settles' = [settles EXCEPT ![w] = FALSE]
  /\ UNCHANGED <<rows, world, pc, view, gone, request>>

ResolveFails(w, k) ==
  /\ Fault
  /\ pc[w] = "writing" /\ todo[w] = {} /\ k \in gone[w]
  /\ gone' = [gone EXCEPT ![w] = @ \ {k}]
  /\ settles' = [settles EXCEPT ![w] = FALSE]
  /\ UNCHANGED <<rows, world, pc, view, todo, inserting, request>>

\* The read fails and Suggest returns, or the context ends and every statement
\* left fails, or the process dies.
CutShort(w) == pc[w] # "idle" /\ Fault /\ End(w)

-----------------------------------------------------------------------------
\* A dismissal is a read, a check and a write; nobody deletes a row.
CheckDismissal(u, k) ==
  /\ request[u] = None
  /\ status[k] \in {"active", "resolved"}
  /\ request' = [request EXCEPT ![u] = k]
  /\ UNCHANGED <<rows, world, calls, faults>>

DismissRow(u, k) ==
  /\ request[u] = k
  /\ status' = [status EXCEPT ![k] = "dismissed"]
  /\ request' = [request EXCEPT ![u] = None]
  /\ UNCHANGED <<severity, world, calls, faults>>

\* The statement fails or the client's context ends.
DismissFails(u) ==
  /\ request[u] # None
  /\ request' = [request EXCEPT ![u] = None]
  /\ UNCHANGED <<rows, world, calls, faults>>

-----------------------------------------------------------------------------
\* New data are collected.
Observe ==
  /\ issues' \in Observation
  /\ always' = {k \in always : issues'[k] # None}
  /\ UNCHANGED <<rows, calls, request, faults>>

Write(w, k) ==
  \/ UpdateRow(w, k) \/ UpdateNothing(w, k)
  \/ InsertRow(w, k) \/ InsertConflicts(w, k)
  \/ ResolveRow(w, k)

Suggest(w) == ReadActive(w) \/ Finish(w) \/ \E k \in Keys : Write(w, k)

Next ==
  \/ \E w \in Workers :
       \/ Evaluate(w) \/ Suggest(w) \/ CutShort(w)
       \/ \E k \in Keys : UpsertFails(w, k) \/ ResolveFails(w, k)
  \/ \E u \in Users :
       \/ DismissFails(u)
       \/ \E k \in Keys : CheckDismissal(u, k) \/ DismissRow(u, k)
  \/ Observe

Spec == Init /\ [][Next]_vars

\* A Suggest that began ends, and the analysis loop starts another.
FairSpec ==
  /\ Spec
  /\ \A w \in Workers : WF_vars(Suggest(w))
  /\ WF_vars(\E w \in Workers : Evaluate(w))

-----------------------------------------------------------------------------
\* Properties.
SuggesterTypeOK ==
  /\ status \in [Keys -> Statuses]
  /\ severity \in Observation
  /\ issues \in Observation
  /\ always \subseteq Keys
  /\ pc \in [Workers -> {"idle", "evaluated", "writing"}]
  /\ view \in [Workers -> View]
  /\ todo \in [Workers -> SUBSET Keys]
  /\ inserting \in [Workers -> Keys \cup {None}]
  /\ gone \in [Workers -> SUBSET Keys]
  /\ settles \in [Workers -> BOOLEAN]
  /\ request \in [Users -> Keys \cup {None}]
  /\ faults \in 0..MaxFaults
  /\ \A k \in Keys : status[k] = "none" <=> severity[k] = None
  /\ \A w \in Workers : inserting[w] = None \/ inserting[w] \in todo[w]

\* A gap in the data is no recovery: an issue that every collection showed is
\* never resolved, whatever rules were skipped, failed or saw only a part, and
\* however two Suggests of different age interleave.
GapIsNoRecovery ==
  \A k \in always : status[k] # "resolved"

\* A Suggest that ran undisturbed, with nothing failing, leaves exactly what it
\* found active, and nothing active of what it looked for and did not find;
\* users may dismiss in between.
SuggestSettles ==
  \A w \in Workers :
    settles[w] /\ pc[w] = "writing" /\ todo[w] = {} /\ gone[w] = {} =>
      \A k \in Keys :
        /\ view[w].found[k] # None =>
             /\ status[k] \in {"active", "dismissed"}
             /\ severity[k] = view[w].found[k]
        /\ RuleOf[k] \in view[w].ran /\ k \notin view[w].hidden
             /\ view[w].found[k] = None => status[k] # "active"

\* To its readers the table behaves as SuggestionLifecycle says, statement by
\* statement: no dismissal is undone by an upsert or a resolution that began
\* before it, and only an active suggestion is resolved.
Lifecycle == INSTANCE SuggestionLifecycle

ImplementsLifecycle == Lifecycle!LifecycleSpec

\* From some time on every Suggest finds the issue: it stays listed for good,
\* although older analyses may resolve it meanwhile.
PersistentIsListed ==
  \A k \in Keys :
    <>[](\A w \in Workers : pc[w] # "idle" => view[w].found[k] # None) =>
      <>[](status[k] \in {"active", "dismissed"})

\* From some time on every Suggest looks for the issue and misses it: it does
\* not stay active.
GoneIsResolved ==
  \A k \in Keys :
    <>[](\A w \in Workers : pc[w] # "idle" =>
           /\ RuleOf[k] \in view[w].ran /\ k \notin view[w].hidden
           /\ view[w].found[k] = None) =>
      <>[](status[k] # "active")

\* What all later Suggests agree on is in the end what the table says, however many
\* older ones are still at work.
TableSettles == PersistentIsListed /\ GoneIsResolved
=============================================================================
