-------------------------- MODULE SuggesterProofs --------------------------
(***************************************************************************)
(* Suggestions, for any number of issues, rules, concurrent Suggests and   *)
(* users.                                                                  *)
(***************************************************************************)
EXTENDS Suggester, TLAPS

\* What Suggest has in hand: it upserts only what its rules found, resolves only
\* what they did not, and nothing before it read the active suggestions.
Work ==
  \A w \in Workers :
    /\ todo[w] \subseteq Found(w)
    /\ gone[w] \cap Found(w) = {}
    /\ pc[w] # "writing" => todo[w] = {} /\ gone[w] = {}

\* What a user is about to dismiss exists.
Requested == \A u \in Users : request[u] # None => status[request[u]] # "none"

TInv == SuggesterTypeOK /\ Work /\ Requested

LEMMA InitTInv == Init => TInv
<1> SUFFICES ASSUME Init PROVE TInv
  OBVIOUS
<1>1. SuggesterTypeOK
  BY SuggesterAssumption
  DEF Init, SuggesterTypeOK, Statuses, Observation, View, NoView
<1>2. Work
  BY DEF Init, Work
<1>3. Requested
  BY DEF Init, Requested
<1> QED
  BY <1>1, <1>2, <1>3 DEF TInv

\* Steps that leave the rows and the views alone.
LEMMA EvaluateT ==
  ASSUME TInv, NEW w \in Workers, Evaluate(w)
  PROVE  TInv'
<1> USE DEF TInv
<1>1. PICK ran \in SUBSET Rules :
        \E hidden \in SUBSET (TargetsOf(ran) \cap Checked) :
          view' = [view EXCEPT ![w] = [ran |-> ran, hidden |-> hidden,
                                       found |-> Visible(ran, hidden)]]
  BY DEF Evaluate
<1>2. PICK hidden \in SUBSET (TargetsOf(ran) \cap Checked) :
        view' = [view EXCEPT ![w] = [ran |-> ran, hidden |-> hidden,
                                     found |-> Visible(ran, hidden)]]
  BY <1>1
<1>3. Visible(ran, hidden) \in Observation
  BY DEF Visible, Observation, SuggesterTypeOK
<1>4. hidden \in SUBSET Keys
  BY DEF TargetsOf
<1>5. view' \in [Workers -> View]
  BY <1>2, <1>3, <1>4 DEF View, SuggesterTypeOK
<1>6. settles' \in [Workers -> BOOLEAN]
  BY DEF Evaluate
<1>7. SuggesterTypeOK'
  BY <1>5, <1>6 DEF Evaluate, SuggesterTypeOK, rows, world
<1>8. todo[w] = {} /\ gone[w] = {}
  BY DEF Work, Evaluate
<1>9. \A x \in Workers : x # w => Found(x)' = Found(x) /\ pc'[x] = pc[x]
  BY <1>2 DEF Found, Evaluate, SuggesterTypeOK
<1>10. Work'
  BY <1>8, <1>9 DEF Work, Evaluate
<1>11. Requested'
  BY DEF Requested, Evaluate, rows
<1> QED
  BY <1>7, <1>10, <1>11

LEMMA ReadActiveT ==
  ASSUME TInv, NEW w \in Workers, ReadActive(w)
  PROVE  TInv'
<1> USE DEF TInv
<1>1. Found(w) \in SUBSET Keys /\ Resolvable(w) \in SUBSET Keys
  BY DEF Found, Resolvable, Active
<1>2. inserting[w] = None
  BY DEF SuggesterTypeOK, Work, ReadActive
<1>3. SuggesterTypeOK'
  BY <1>1, <1>2 DEF ReadActive, SuggesterTypeOK, rows, world
<1>4. \A x \in Workers : Found(x)' = Found(x)
  BY DEF Found, ReadActive
<1>5. Resolvable(w) \cap Found(w) = {}
  BY DEF Resolvable
<1>6. Work'
  BY <1>4, <1>5 DEF Work, ReadActive, SuggesterTypeOK
<1>7. Requested'
  BY DEF Requested, ReadActive, rows
<1> QED
  BY <1>3, <1>6, <1>7

\* What a row that w writes is given.
LEMMA FoundSeverity ==
  ASSUME TInv, NEW w \in Workers, NEW k \in Keys, k \in todo[w]
  PROVE  view[w].found[k] \in Severities
BY DEF TInv, SuggesterTypeOK, View, Observation, Work, Found

\* A statement of w writes the row of k or leaves the rows alone, and takes k
\* off one of its lists.
LEMMA WriteFrame ==
  ASSUME TInv, NEW w \in Workers, NEW k \in Keys, Write(w, k)
  PROVE  /\ pc[w] = "writing"
         /\ UNCHANGED <<world, pc, view, settles, request, faults>>
         /\ \A x \in Workers : x # w => /\ todo'[x] = todo[x]
                                        /\ gone'[x] = gone[x]
                                        /\ inserting'[x] = inserting[x]
         /\ todo' \in [Workers -> SUBSET Keys]
         /\ gone' \in [Workers -> SUBSET Keys]
         /\ inserting' \in [Workers -> Keys \cup {None}]
         /\ inserting'[w] = None \/ inserting'[w] \in todo'[w]
         /\ todo'[w] \subseteq todo[w] /\ gone'[w] \subseteq gone[w]
         /\ status' \in [Keys -> Statuses]
         /\ severity' \in Observation
         /\ \A j \in Keys : j # k => /\ status'[j] = status[j]
                                     /\ severity'[j] = severity[j]
         /\ status'[k] = "none" <=> severity'[k] = None
         /\ status'[k] = "none" => status[k] = "none"
<1> USE DEF TInv, SuggesterTypeOK, Upserted, Statuses, rows
<1>1. CASE UpdateRow(w, k)
  <2>1. view[w].found[k] \in Severities
    BY <1>1, FoundSeverity DEF UpdateRow
  <2> QED
    BY <1>1, <2>1, SuggesterAssumption DEF UpdateRow, Observation
<1>2. CASE UpdateNothing(w, k)
  BY <1>2 DEF UpdateNothing
<1>3. CASE InsertRow(w, k)
  <2>1. view[w].found[k] \in Severities
    BY <1>3, FoundSeverity DEF InsertRow
  <2>2. pc[w] = "writing"
    BY <1>3 DEF InsertRow, Work
  <2> QED
    BY <1>3, <2>1, <2>2, SuggesterAssumption DEF InsertRow, Observation
<1>4. CASE InsertConflicts(w, k)
  <2>1. pc[w] = "writing"
    BY <1>4 DEF InsertConflicts, Work
  <2> QED
    BY <1>4, <2>1 DEF InsertConflicts
<1>5. CASE ResolveRow(w, k)
  BY <1>5 DEF ResolveRow
<1> QED
  BY <1>1, <1>2, <1>3, <1>4, <1>5 DEF Write

LEMMA WriteT ==
  ASSUME TInv, NEW w \in Workers, NEW k \in Keys, Write(w, k)
  PROVE  TInv'
<1> USE DEF TInv
<1>1. SuggesterTypeOK'
  BY WriteFrame DEF SuggesterTypeOK, world
<1>2. \A x \in Workers : Found(x)' = Found(x)
  BY WriteFrame DEF Found
<1>3. Work'
  BY <1>2, WriteFrame DEF Work
<1>4. Requested'
  BY WriteFrame DEF Requested, SuggesterTypeOK
<1> QED
  BY <1>1, <1>3, <1>4

LEMMA EndT ==
  ASSUME TInv, NEW w \in Workers, End(w), faults' \in 0..MaxFaults
  PROVE  TInv'
<1> USE DEF TInv
<1>1. NoView \in View
  BY DEF NoView, View, Observation
<1>2. SuggesterTypeOK'
  BY <1>1 DEF End, SuggesterTypeOK, rows, world
<1>3. \A x \in Workers : x # w => Found(x)' = Found(x)
  BY DEF End, Found, SuggesterTypeOK
<1>4. Work'
  BY <1>3 DEF Work, End, SuggesterTypeOK
<1>5. Requested'
  BY DEF Requested, End, rows
<1> QED
  BY <1>2, <1>4, <1>5

LEMMA FaultT ==
  ASSUME TInv, NEW w \in Workers, NEW k \in Keys,
         UpsertFails(w, k) \/ ResolveFails(w, k)
  PROVE  TInv'
<1>0. SuggesterTypeOK /\ Work /\ Requested
  BY DEF TInv
<1>1. faults' \in 0..MaxFaults
  BY <1>0, SuggesterAssumption
  DEF UpsertFails, ResolveFails, Fault, SuggesterTypeOK
<1>2. /\ todo' \in [Workers -> SUBSET Keys]
      /\ gone' \in [Workers -> SUBSET Keys]
      /\ settles' \in [Workers -> BOOLEAN]
  BY <1>0 DEF UpsertFails, ResolveFails, Upserted, SuggesterTypeOK
<1>3. /\ inserting' \in [Workers -> Keys \cup {None}]
      /\ \A x \in Workers : inserting'[x] = None \/ inserting'[x] \in todo'[x]
  <2>1. CASE UpsertFails(w, k)
    BY <1>0, <2>1 DEF UpsertFails, Upserted, SuggesterTypeOK
  <2>2. CASE ResolveFails(w, k)
    BY <1>0, <2>2 DEF ResolveFails, SuggesterTypeOK
  <2> QED
    BY <2>1, <2>2
<1>4. UNCHANGED <<status, severity, issues, always, pc, view, request>>
  BY DEF UpsertFails, ResolveFails, rows, world
<1>5. SuggesterTypeOK'
  BY <1>0, <1>1, <1>2, <1>3, <1>4 DEF SuggesterTypeOK
<1>6. \A x \in Workers : Found(x)' = Found(x)
  BY <1>4 DEF Found
<1>7. Work'
  BY <1>0, <1>4, <1>6
  DEF Work, UpsertFails, ResolveFails, Upserted, SuggesterTypeOK
<1>8. Requested'
  BY <1>0, <1>4 DEF Requested
<1> QED
  BY <1>5, <1>7, <1>8 DEF TInv

\* Users and new data.
LEMMA OthersT ==
  ASSUME TInv,
         \/ \E u \in Users :
              \/ DismissFails(u)
              \/ \E k \in Keys : CheckDismissal(u, k) \/ DismissRow(u, k)
         \/ Observe
  PROVE  TInv'
<1> USE DEF TInv
<1>1. UNCHANGED calls
  BY DEF DismissFails, CheckDismissal, DismissRow, Observe
<1>2. Work'
  BY <1>1 DEF Work, Found, calls
<1>3. ASSUME NEW u \in Users, DismissFails(u)
      PROVE  SuggesterTypeOK' /\ Requested'
  BY <1>1, <1>3
  DEF DismissFails, SuggesterTypeOK, Requested, calls, rows, world
<1>4. ASSUME NEW u \in Users, NEW k \in Keys, CheckDismissal(u, k)
      PROVE  SuggesterTypeOK' /\ Requested'
  BY <1>1, <1>4
  DEF CheckDismissal, SuggesterTypeOK, Requested, calls, rows, world
<1>5. ASSUME NEW u \in Users, NEW k \in Keys, DismissRow(u, k)
      PROVE  SuggesterTypeOK' /\ Requested'
  <2>1. status[k] # "none"
    BY <1>5, SuggesterAssumption DEF DismissRow, Requested
  <2> QED
    BY <1>1, <1>5, <2>1
    DEF DismissRow, SuggesterTypeOK, Requested, Statuses, calls, world
<1>6. ASSUME Observe PROVE SuggesterTypeOK' /\ Requested'
  BY <1>1, <1>6 DEF Observe, SuggesterTypeOK, Requested, calls, rows
<1> QED
  BY <1>2, <1>3, <1>4, <1>5, <1>6

LEMMA StepTInv == TInv /\ [Next]_vars => TInv'
<1> SUFFICES ASSUME TInv, [Next]_vars PROVE TInv'
  OBVIOUS
<1>1. CASE UNCHANGED vars
  <2>1. Work'
    BY <1>1 DEF TInv, Work, Found, vars, calls
  <2> QED
    BY <1>1, <2>1
    DEF TInv, SuggesterTypeOK, Requested, vars, rows, world, calls
<1>2. ASSUME NEW w \in Workers, Finish(w) \/ CutShort(w) PROVE TInv'
  <2>1. faults' \in 0..MaxFaults
    BY <1>2, SuggesterAssumption
    DEF Finish, CutShort, Fault, TInv, SuggesterTypeOK
  <2> QED
    BY <1>2, <2>1, EndT DEF Finish, CutShort
<1> QED
  BY <1>1, <1>2, EvaluateT, ReadActiveT, WriteT, FaultT, OthersT
  DEF Next, Suggest

LEMMA AlwaysTInv == Spec => []TInv
<1> QED
  BY InitTInv, StepTInv, PTL DEF Spec

\* Every reachable state is well typed; a row has a severity from its INSERT on.
THEOREM SuggesterTypeCorrect == Spec => []SuggesterTypeOK
<1>1. TInv => SuggesterTypeOK
  BY DEF TInv
<1> QED
  BY <1>1, AlwaysTInv, PTL

-----------------------------------------------------------------------------
(***************************************************************************)
(* Gaps.  An issue that every collection showed is found by each rule that *)
(* was asked, answered and could see, so nobody has it on a list of what   *)
(* to resolve.                                                             *)
(***************************************************************************)
Shown ==
  /\ \A k \in always : issues[k] # None /\ status[k] # "resolved"
  /\ \A w \in Workers : gone[w] \cap always = {}
  /\ \A w \in Workers, k \in always :
       pc[w] = "evaluated" => \/ view[w].found[k] # None
                              \/ RuleOf[k] \notin view[w].ran
                              \/ k \in view[w].hidden

LEMMA EvaluateShows ==
  ASSUME TInv, Shown, NEW w \in Workers, Evaluate(w)
  PROVE  Shown'
<1>0. always \subseteq Keys /\ view \in [Workers -> View]
      /\ pc \in [Workers -> {"idle", "evaluated", "writing"}]
  BY DEF TInv, SuggesterTypeOK
<1>1. PICK ran \in SUBSET Rules :
        \E hidden \in SUBSET (TargetsOf(ran) \cap Checked) :
          view' = [view EXCEPT ![w] = [ran |-> ran, hidden |-> hidden,
                                       found |-> Visible(ran, hidden)]]
  BY DEF Evaluate
<1>2. PICK hidden \in SUBSET (TargetsOf(ran) \cap Checked) :
        view' = [view EXCEPT ![w] = [ran |-> ran, hidden |-> hidden,
                                     found |-> Visible(ran, hidden)]]
  BY <1>1
<1>3. \A k \in Keys : k \in always /\ RuleOf[k] \in ran /\ k \notin hidden =>
        Visible(ran, hidden)[k] # None
  BY DEF Visible, TargetsOf, Shown
<1>4. /\ view'[w].ran = ran /\ view'[w].hidden = hidden
      /\ view'[w].found = Visible(ran, hidden)
  BY <1>0, <1>2
<1>5. \A x \in Workers : x # w => view'[x] = view[x] /\ pc'[x] = pc[x]
  BY <1>0, <1>2 DEF Evaluate
<1> QED
  BY <1>0, <1>3, <1>4, <1>5 DEF Shown, Evaluate, rows, world

LEMMA WriteShows ==
  ASSUME TInv, Shown, NEW w \in Workers, NEW k \in Keys, Write(w, k)
  PROVE  Shown'
<1>1. /\ \A x \in Workers : gone'[x] \subseteq gone[x]
      /\ UNCHANGED <<world, pc, view>>
  BY WriteFrame
<1>2. \A j \in always : status'[j] # "resolved"
  <2>1. status \in [Keys -> Statuses] /\ always \subseteq Keys
    BY DEF TInv, SuggesterTypeOK
  <2>2. CASE ResolveRow(w, k)
    <3>1. k \notin always
      BY <2>2 DEF ResolveRow, Shown
    <3> QED
      BY <2>1, <2>2, <3>1 DEF ResolveRow, Shown
  <2>3. CASE ~ResolveRow(w, k)
    BY <2>1, <2>3
    DEF Write, UpdateRow, UpdateNothing, InsertRow, InsertConflicts, Shown, rows
  <2> QED
    BY <2>2, <2>3
<1> QED
  BY <1>1, <1>2 DEF Shown, world

LEMMA StepShown == TInv /\ Shown /\ [Next]_vars => Shown'
<1> SUFFICES ASSUME TInv, Shown, [Next]_vars PROVE Shown'
  OBVIOUS
<1>0. /\ always \subseteq Keys /\ status \in [Keys -> Statuses]
      /\ gone \in [Workers -> SUBSET Keys]
      /\ pc \in [Workers -> {"idle", "evaluated", "writing"}]
      /\ request \in [Users -> Keys \cup {None}]
      /\ view \in [Workers -> View]
  BY DEF TInv, SuggesterTypeOK
<1>1. CASE UNCHANGED vars
  BY <1>1 DEF Shown, vars, rows, world, calls
<1>2. ASSUME NEW w \in Workers, ReadActive(w) PROVE Shown'
  <2>1. Resolvable(w) \cap always = {}
    BY <1>0, <1>2 DEF ReadActive, Resolvable, Found, Active, Shown
  <2> QED
    BY <1>0, <1>2, <2>1 DEF ReadActive, Shown, rows, world
<1>3. ASSUME NEW w \in Workers, End(w) PROVE Shown'
  BY <1>0, <1>3 DEF End, Shown, rows, world
<1>4. ASSUME NEW w \in Workers, NEW k \in Keys,
             UpsertFails(w, k) \/ ResolveFails(w, k)
      PROVE  Shown'
  BY <1>0, <1>4 DEF UpsertFails, ResolveFails, Shown, rows, world
<1>5. ASSUME NEW u \in Users, DismissFails(u) PROVE Shown'
  BY <1>5 DEF DismissFails, Shown, rows, world, calls
<1>6. ASSUME NEW u \in Users, NEW k \in Keys,
             CheckDismissal(u, k) \/ DismissRow(u, k)
      PROVE  Shown'
  BY <1>0, <1>6 DEF CheckDismissal, DismissRow, Shown, rows, world, calls
<1>7. ASSUME Observe PROVE Shown'
  BY <1>7 DEF Observe, Shown, rows, calls
<1> QED
  BY <1>1, <1>2, <1>3, <1>4, <1>5, <1>6, <1>7, EvaluateShows, WriteShows
  DEF Next, Suggest, Finish, CutShort

\* An issue that the collected data have always shown is never resolved,
\* whatever was skipped, failed, hidden, cut short or dismissed meanwhile and
\* however many Suggests overlap.
THEOREM GapsResolveNothing == Spec => []GapIsNoRecovery
<1>1. Init => Shown
  BY DEF Init, Shown
<1>2. Shown => GapIsNoRecovery
  BY DEF Shown, GapIsNoRecovery
<1> QED
  BY <1>1, <1>2, StepShown, AlwaysTInv, PTL DEF Spec

-----------------------------------------------------------------------------
(***************************************************************************)
(* An undisturbed Suggest.  While it writes, each issue it found is either *)
(* still to be upserted or is listed as it was found, and each it looked   *)
(* for and missed is still to be resolved or not active.                   *)
(***************************************************************************)
Listed(w, k) ==
  view[w].found[k] # None =>
    \/ k \in todo[w]
    \/ status[k] \in {"active", "dismissed"} /\ severity[k] = view[w].found[k]

Missed(w, k) ==
  RuleOf[k] \in view[w].ran /\ k \notin view[w].hidden
    /\ view[w].found[k] = None =>
      k \in gone[w] \/ status[k] # "active"

Settling(w) ==
  /\ pc[w] # "idle"
  /\ \A x \in Workers : x # w => pc[x] = "idle"
  /\ inserting[w] # None => status[inserting[w]] = "none"
  /\ pc[w] = "writing" => \A k \in Keys : Listed(w, k) /\ Missed(w, k)

Undisturbed == \A w \in Workers : settles[w] => Settling(w)

\* The rows and what w knows of them do not change.
LEMMA SettlingKept ==
  ASSUME NEW w \in Workers, Settling(w),
         UNCHANGED <<status, severity, pc, view, todo, inserting, gone>>
  PROVE  Settling(w)'
BY DEF Settling, Listed, Missed

LEMMA EvaluateSettles ==
  ASSUME TInv, Undisturbed, NEW w \in Workers, Evaluate(w)
  PROVE  Undisturbed'
<1>1. SUFFICES ASSUME NEW x \in Workers, settles'[x] PROVE Settling(x)'
  BY DEF Undisturbed
<1>2. x = w /\ \A y \in Workers : pc[y] = "idle"
  BY <1>1 DEF Evaluate
<1>3. /\ pc' = [pc EXCEPT ![w] = "evaluated"]
      /\ pc \in [Workers -> {"idle", "evaluated", "writing"}]
  BY DEF Evaluate, TInv, SuggesterTypeOK
<1>4. inserting[w] = None /\ inserting' = inserting
  BY <1>2 DEF Evaluate, TInv, SuggesterTypeOK, Work
<1> QED
  BY <1>2, <1>3, <1>4 DEF Settling

LEMMA ReadActiveSettles ==
  ASSUME TInv, Undisturbed, NEW w \in Workers, ReadActive(w)
  PROVE  Undisturbed'
<1>1. SUFFICES ASSUME NEW x \in Workers, settles'[x] PROVE Settling(x)'
  BY DEF Undisturbed
<1>2. Settling(x) /\ UNCHANGED <<status, severity, view, inserting>>
  BY <1>1 DEF ReadActive, Undisturbed, rows
<1>3. x = w
  BY <1>2 DEF Settling, ReadActive
<1>4. /\ pc' = [pc EXCEPT ![w] = "writing"]
      /\ todo'[w] = Found(w) /\ gone'[w] = Resolvable(w)
  BY DEF ReadActive, TInv, SuggesterTypeOK
<1>5. \A k \in Keys : Listed(w, k)' /\ Missed(w, k)'
  BY <1>2, <1>4 DEF Listed, Missed, Found, Resolvable, Active
<1>6. pc \in [Workers -> {"idle", "evaluated", "writing"}]
  BY DEF TInv, SuggesterTypeOK
<1> QED
  BY <1>2, <1>3, <1>4, <1>5, <1>6 DEF Settling

LEMMA WriteSettles ==
  ASSUME TInv, Undisturbed, NEW w \in Workers, NEW k \in Keys, Write(w, k)
  PROVE  Undisturbed'
<1>1. SUFFICES ASSUME NEW x \in Workers, settles'[x] PROVE Settling(x)'
  BY DEF Undisturbed
<1>2. Settling(x) /\ UNCHANGED <<pc, view>>
  BY <1>1, WriteFrame DEF Undisturbed
<1>3. x = w /\ pc[w] = "writing"
  BY <1>2, WriteFrame DEF Settling
<1>4. \A j \in Keys : j # k => /\ status'[j] = status[j]
                               /\ severity'[j] = severity[j]
  BY WriteFrame
<1>5. /\ status \in [Keys -> Statuses] /\ severity \in Observation
      /\ todo \in [Workers -> SUBSET Keys] /\ gone \in [Workers -> SUBSET Keys]
      /\ inserting \in [Workers -> Keys \cup {None}]
      /\ todo[w] \subseteq Found(w) /\ gone[w] \cap Found(w) = {}
  BY DEF TInv, SuggesterTypeOK, Work
<1>6. CASE UpdateRow(w, k)
  <2>1. Listed(w, k)' /\ Missed(w, k)'
    BY <1>2, <1>5, <1>6
    DEF UpdateRow, Listed, Missed, Found, Statuses, Observation
  <2>2. \A j \in Keys : j # k => Listed(w, j)' /\ Missed(w, j)'
    BY <1>2, <1>3, <1>4, <1>5, <1>6
    DEF UpdateRow, Upserted, Settling, Listed, Missed
  <2>3. inserting'[w] = None
    BY <1>6 DEF UpdateRow
  <2> QED
    BY <1>2, <1>3, <2>1, <2>2, <2>3 DEF Settling
<1>7. CASE UpdateNothing(w, k)
  <2>1. inserting'[w] = k /\ status'[k] = "none"
    BY <1>5, <1>7 DEF UpdateNothing, rows
  <2>2. \A j \in Keys : Listed(w, j)' /\ Missed(w, j)'
    BY <1>2, <1>3, <1>7
    DEF UpdateNothing, Settling, Listed, Missed, rows
  <2> QED
    BY <1>2, <1>3, <2>1, <2>2 DEF Settling
<1>8. CASE InsertRow(w, k)
  <2>1. Listed(w, k)' /\ Missed(w, k)'
    BY <1>2, <1>5, <1>8
    DEF InsertRow, Listed, Missed, Found, Statuses, Observation
  <2>2. \A j \in Keys : j # k => Listed(w, j)' /\ Missed(w, j)'
    BY <1>2, <1>3, <1>4, <1>5, <1>8
    DEF InsertRow, Upserted, Settling, Listed, Missed
  <2>3. inserting'[w] = None
    BY <1>5, <1>8 DEF InsertRow
  <2> QED
    BY <1>2, <1>3, <2>1, <2>2, <2>3 DEF Settling
<1>9. CASE InsertConflicts(w, k)
  BY <1>2, <1>3, <1>9, SuggesterAssumption DEF InsertConflicts, Settling
<1>10. CASE ResolveRow(w, k)
  <2>1. Listed(w, k)' /\ Missed(w, k)'
    BY <1>2, <1>5, <1>10 DEF ResolveRow, Listed, Missed, Found
  <2>2. \A j \in Keys : j # k => Listed(w, j)' /\ Missed(w, j)'
    BY <1>2, <1>3, <1>4, <1>5, <1>10
    DEF ResolveRow, Settling, Listed, Missed
  <2>3. inserting'[w] = None
    BY <1>10 DEF ResolveRow, TInv, SuggesterTypeOK
  <2> QED
    BY <1>2, <1>3, <2>1, <2>2, <2>3 DEF Settling
<1> QED
  BY <1>6, <1>7, <1>8, <1>9, <1>10 DEF Write

\* A failure or an end is not undisturbed, and while one Suggest is nobody else
\* has any to fail or end.
LEMMA EndSettles ==
  ASSUME TInv, Undisturbed, NEW w \in Workers, pc[w] # "idle",
         \/ End(w)
         \/ \E k \in Keys : UpsertFails(w, k) \/ ResolveFails(w, k)
  PROVE  Undisturbed'
<1>1. SUFFICES ASSUME NEW x \in Workers, settles'[x] PROVE FALSE
  BY DEF Undisturbed
<1>2. settles' = [settles EXCEPT ![w] = FALSE]
  BY DEF End, UpsertFails, ResolveFails
<1>3. x # w /\ settles[x]
  BY <1>1, <1>2 DEF TInv, SuggesterTypeOK
<1> QED
  BY <1>3 DEF Undisturbed, Settling

LEMMA UsersSettle ==
  ASSUME TInv, Undisturbed, NEW u \in Users, NEW k \in Keys, DismissRow(u, k)
  PROVE  Undisturbed'
<1>1. SUFFICES ASSUME NEW x \in Workers, settles'[x] PROVE Settling(x)'
  BY DEF Undisturbed
<1>2. Settling(x) /\ UNCHANGED <<severity, pc, view, todo, inserting, gone>>
  BY <1>1 DEF DismissRow, Undisturbed, calls
<1>3. /\ status \in [Keys -> Statuses]
      /\ status' = [status EXCEPT ![k] = "dismissed"]
  BY DEF DismissRow, TInv, SuggesterTypeOK
<1>4. inserting[x] # k
  BY <1>2, SuggesterAssumption DEF DismissRow, Settling, TInv, Requested
<1>5. inserting[x] \in Keys \cup {None}
  BY DEF TInv, SuggesterTypeOK
<1>6. \A j \in Keys : /\ Listed(x, j) => Listed(x, j)'
                      /\ Missed(x, j) => Missed(x, j)'
  BY <1>2, <1>3 DEF Listed, Missed
<1> QED
  BY <1>2, <1>3, <1>4, <1>5, <1>6 DEF Settling

LEMMA StepUndisturbed == TInv /\ Undisturbed /\ [Next]_vars => Undisturbed'
<1> SUFFICES ASSUME TInv, Undisturbed, [Next]_vars PROVE Undisturbed'
  OBVIOUS
<1>1. ASSUME UNCHANGED <<status, severity, pc, view, todo, inserting, gone,
                         settles>>
      PROVE  Undisturbed'
  BY <1>1, SettlingKept DEF Undisturbed
<1>2. CASE UNCHANGED vars
  BY <1>1, <1>2 DEF vars, rows, calls
<1>3. ASSUME NEW w \in Workers, Finish(w) \/ CutShort(w) PROVE Undisturbed'
  BY <1>3, EndSettles DEF Finish, CutShort
<1>4. ASSUME NEW w \in Workers, NEW k \in Keys,
             UpsertFails(w, k) \/ ResolveFails(w, k)
      PROVE  Undisturbed'
  BY <1>4, EndSettles DEF UpsertFails, ResolveFails
<1>5. ASSUME NEW u \in Users, NEW k \in Keys,
             DismissFails(u) \/ CheckDismissal(u, k)
      PROVE  Undisturbed'
  BY <1>1, <1>5 DEF DismissFails, CheckDismissal, rows, calls
<1>6. ASSUME NEW u \in Users, DismissFails(u) PROVE Undisturbed'
  BY <1>1, <1>6 DEF DismissFails, rows, calls
<1>7. ASSUME Observe PROVE Undisturbed'
  BY <1>1, <1>7 DEF Observe, rows, calls
<1> QED
  BY <1>2, <1>3, <1>4, <1>5, <1>6, <1>7, EvaluateSettles, ReadActiveSettles,
     WriteSettles, UsersSettle
  DEF Next, Suggest

\* When a Suggest with nobody beside it and no failure has done its last write,
\* the table says what the rules said, dismissals excepted.
THEOREM SettlesAlways == Spec => []SuggestSettles
<1>1. Init => Undisturbed
  BY DEF Init, Undisturbed
<1>2. Undisturbed => SuggestSettles
  BY DEF Undisturbed, Settling, Listed, Missed, SuggestSettles
<1> QED
  BY <1>1, <1>2, StepUndisturbed, AlwaysTInv, PTL DEF Spec

-----------------------------------------------------------------------------
LEMMA StepLifecycle == TInv /\ [Next]_vars => [Lifecycle!LifecycleNext]_rows
<1> SUFFICES ASSUME TInv, [Next]_vars PROVE [Lifecycle!LifecycleNext]_rows
  OBVIOUS
<1>0. status \in [Keys -> Statuses] /\ severity \in Observation
  BY DEF TInv, SuggesterTypeOK
<1>1. ASSUME NEW w \in Workers, NEW k \in Keys,
             UpdateRow(w, k) \/ InsertRow(w, k)
      PROVE  /\ Lifecycle!Report(k, view[w].found[k])
             /\ view[w].found[k] \in Severities
  <2>1. k \in todo[w]
    BY <1>1 DEF UpdateRow, InsertRow
  <2>2. status[k] \in Statuses
    BY <1>0
  <2> QED
    BY <1>0, <1>1, <2>1, <2>2, FoundSeverity
    DEF UpdateRow, InsertRow, Lifecycle!Report, Statuses
<1>2. ASSUME NEW w \in Workers, NEW k \in Keys, ResolveRow(w, k)
      PROVE  Lifecycle!Resolve(k) \/ UNCHANGED rows
  BY <1>0, <1>2 DEF ResolveRow, Lifecycle!Resolve, rows
<1>3. ASSUME NEW u \in Users, NEW k \in Keys, DismissRow(u, k)
      PROVE  Lifecycle!Dismiss(k)
  BY <1>3, SuggesterAssumption
  DEF DismissRow, Lifecycle!Dismiss, TInv, Requested
<1>4. ASSUME NEW w \in Workers,
             Evaluate(w) \/ ReadActive(w) \/ Finish(w) \/ CutShort(w)
      PROVE  UNCHANGED rows
  BY <1>4 DEF Evaluate, ReadActive, Finish, CutShort, End
<1>5. ASSUME NEW w \in Workers, NEW k \in Keys,
             \/ UpdateNothing(w, k) \/ InsertConflicts(w, k)
             \/ UpsertFails(w, k) \/ ResolveFails(w, k)
      PROVE  UNCHANGED rows
  BY <1>5 DEF UpdateNothing, InsertConflicts, UpsertFails, ResolveFails
<1>6. ASSUME NEW u \in Users, DismissFails(u) PROVE UNCHANGED rows
  BY <1>6 DEF DismissFails
<1>7. ASSUME NEW u \in Users, NEW k \in Keys, CheckDismissal(u, k)
      PROVE  UNCHANGED rows
  BY <1>7 DEF CheckDismissal
<1>8. CASE Observe \/ UNCHANGED vars
  BY <1>8 DEF Observe, vars
<1>9. ASSUME NEW w \in Workers, NEW k \in Keys, Write(w, k)
      PROVE  [Lifecycle!LifecycleNext]_rows
  BY <1>1, <1>2, <1>5, <1>9 DEF Write, Lifecycle!LifecycleNext
<1>10. ASSUME NEW u \in Users, NEW k \in Keys, DismissRow(u, k)
       PROVE  Lifecycle!LifecycleNext
  BY <1>3, <1>10 DEF Lifecycle!LifecycleNext
<1> QED
  BY <1>4, <1>5, <1>6, <1>7, <1>8, <1>9, <1>10 DEF Next, Suggest

\* The table implements SuggestionLifecycle: initial states map to initial
\* states, every statement to one step of a row's life or to a stutter.
THEOREM SuggesterImplements == Spec => ImplementsLifecycle
<1>1. Init => Lifecycle!LifecycleInit
  BY DEF Init, Lifecycle!LifecycleInit
<1>3. TInv /\ [Next]_vars => [Lifecycle!LifecycleNext]_Lifecycle!rowVars
  BY StepLifecycle DEF rows, Lifecycle!rowVars
<1> QED
  BY <1>1, <1>3, AlwaysTInv, PTL
  DEF Spec, ImplementsLifecycle, Lifecycle!LifecycleSpec
=============================================================================
