----------------------------- MODULE Scheduler -----------------------------
(***************************************************************************)
(* Collection as the scheduler drives it (internal/scheduler): the         *)
(* collection loop and its ticker, manual triggers from HTTP handlers, and *)
(* the collection health that the status page and the notifier's           *)
(* "data collection is failing" alert rest on.                             *)
(*                                                                         *)
(* The coordinator is its specification, CollectionCycle.  Starting and    *)
(* stopping the loops is in Lifecycle; here one loop runs from time 0.     *)
(***************************************************************************)
EXTENDS CollectionCycle, FiniteSets

CONSTANTS
  Loop,       \* the goroutine of the collection loop
  Triggers,   \* goroutines of HTTP handlers that trigger a snapshot
  Faults,     \* what the environment inflicts: cancelled contexts, failures
  CycleTime   \* how long a cycle takes when nothing holds it up

ASSUME SchedulerAssumption ==
  /\ Loop \notin Triggers
  /\ Callers = {Loop} \cup Triggers
  /\ Faults \subseteq {"cancel", "fail"}
  /\ CycleTime \in Nat \ {0}

VARIABLES
  at,          \* at[p]: where goroutine p is
  outcome,     \* outcome[p]: what p's call to the coordinator returned
  startedAt,   \* startedAt[p]: CollectionResult.StartedAt of p's cycle
  ticker,      \* the ticker's channel holds a tick
  manualMu,    \* manualMu is locked
  lastSuccess, \* HealthStatus.LastSuccessfulCollection
  healthy,     \* HealthStatus.LastCollectionSuccess
  broken,      \* collectors whose latest run did not succeed (history)
  latest,      \* how the latest call to the coordinator ended (history)
  begun        \* begun[c]: when the latest cycle with c began (history)

health  == <<lastSuccess, healthy>>
history == <<broken, latest, begun>>
vars    == <<cycleVars, at, outcome, startedAt, ticker, manualMu, health,
             history>>

SchedulerTypeOK ==
  /\ CycleTypeOK
  /\ at \in [Callers -> {"starting", "select", "idle", "locked", "calling",
                         "reporting", "analysing", "stopped"}]
  /\ outcome \in [Callers -> {"none", "clean", "partial", "failed"}]
  /\ startedAt \in [Callers -> Nat]
  /\ ticker \in BOOLEAN
  /\ manualMu \in BOOLEAN
  /\ lastSuccess \in Nat \cup {Never}
  /\ healthy \in BOOLEAN
  /\ broken \in SUBSET Collectors
  /\ latest \in {"none", "clean", "partial", "failed"}
  /\ begun \in [Collectors -> Nat \cup {Never}]

Init ==
  /\ CycleInit
  /\ at = [p \in Callers |-> IF p = Loop THEN "starting" ELSE "idle"]
  /\ outcome = [p \in Callers |-> "none"]
  /\ startedAt = [p \in Callers |-> 0]
  /\ ticker = FALSE
  /\ manualMu = FALSE
  /\ lastSuccess = Never
  /\ healthy = FALSE
  /\ broken = Collectors
  /\ latest = "none"
  /\ begun = [c \in Collectors |-> Never]

\* Mutant: the ticker runs at the longest interval.
MaxInterval == CHOOSE i \in {Interval[c] : c \in Collectors} :
                 \A c \in Collectors : Interval[c] <= i

\* The smallest of the registered collectors' intervals.
MinInterval == CHOOSE i \in {Interval[c] : c \in Collectors} :
                 \A c \in Collectors : i <= Interval[c]

\* p has its result and goes on to report it.
Result(p, o) ==
  /\ outcome' = [outcome EXCEPT ![p] = o]
  /\ latest' = o
  /\ at' = [at EXCEPT ![p] = "reporting"]

\* CollectionResult.StartedAt
Stamp(p) == startedAt' = [startedAt EXCEPT ![p] = now]

\* History: when the collectors cs were last started.
NoteBegin(cs) == begun' = [c \in Collectors |-> IF c \in cs THEN now ELSE begun[c]]

-----------------------------------------------------------------------------
\* The collection loop.

\* The initial collection, or one for a tick.
ExecuteCollection ==
  /\ \/ at[Loop] = "starting" /\ UNCHANGED ticker
     \/ at[Loop] = "select" /\ ticker /\ ticker' = FALSE
  /\ Request(Loop, {})
  /\ at' = [at EXCEPT ![Loop] = "calling"]
  /\ UNCHANGED <<outcome, startedAt, manualMu, health, history>>

BeginScheduled ==
  /\ at[Loop] = "calling" /\ BeginDue(Loop)
  /\ Stamp(Loop) /\ NoteBegin(Due)
  /\ UNCHANGED <<at, outcome, ticker, manualMu, health, broken, latest>>

\* Nothing is due: the call succeeds.
SkipScheduled ==
  /\ at[Loop] = "calling" /\ Skip(Loop)
  /\ Stamp(Loop) /\ Result(Loop, "clean")
  /\ UNCHANGED <<ticker, manualMu, health, broken, begun>>

\* The timeout of runCollection passes while the loop waits for its turn.
GiveUpScheduled ==
  /\ at[Loop] = "calling" /\ Withdraw(Loop)
  /\ Result(Loop, "failed")
  /\ UNCHANGED <<startedAt, ticker, manualMu, health, broken, begun>>

\* The loop sees the stop channel, or its context is done.
StopLoop ==
  /\ at[Loop] = "select"
  /\ at' = [at EXCEPT ![Loop] = "stopped"]
  /\ UNCHANGED <<cycleVars, outcome, startedAt, ticker, manualMu, health,
                 history>>

-----------------------------------------------------------------------------
\* TriggerSnapshot.

\* TryLock; a trigger that finds manualMu locked returns at once.
LockManual(t) ==
  /\ at[t] = "idle" /\ ~manualMu
  /\ manualMu' = TRUE
  /\ at' = [at EXCEPT ![t] = "locked"]
  /\ UNCHANGED <<cycleVars, outcome, startedAt, ticker, health, history>>

BeginManual(t) ==
  /\ at[t] = "locked" /\ BeginAll(t)
  /\ Stamp(t) /\ NoteBegin(Collectors)
  /\ at' = [at EXCEPT ![t] = "calling"]
  /\ UNCHANGED <<outcome, ticker, manualMu, health, broken, latest>>

\* Mutant: the busy return does not unlock.
KeepManual(t) ==
  /\ at[t] = "locked" /\ ~Free
  /\ at' = [at EXCEPT ![t] = "idle"]
  /\ UNCHANGED <<cycleVars, outcome, startedAt, ticker, manualMu, health,
                 history>>

\* ErrCollectionInProgress: the trigger leaves health alone.
BusyManual(t) ==
  /\ at[t] = "locked" /\ ~Free
  /\ manualMu' = FALSE
  /\ at' = [at EXCEPT ![t] = "idle"]
  /\ UNCHANGED <<cycleVars, outcome, startedAt, ticker, health, history>>

\* The client has gone before CollectAll starts: a failed collection.
GoneManual(t) ==
  /\ "cancel" \in Faults /\ at[t] = "locked"
  /\ Result(t, "failed")
  /\ UNCHANGED <<cycleVars, startedAt, ticker, manualMu, health, broken, begun>>

\* runAnalysis and updateAnalysisHealth are over; manualMu is unlocked.
FinishManual(t) ==
  /\ at[t] = "analysing"
  /\ manualMu' = FALSE
  /\ at' = [at EXCEPT ![t] = "idle"]
  /\ UNCHANGED <<cycleVars, outcome, startedAt, ticker, health, history>>

-----------------------------------------------------------------------------
\* A cycle, whoever started it.

CollectorSucceeds(p, c) ==
  /\ Succeed(p, c)
  /\ broken' = broken \ {c}
  /\ UNCHANGED <<at, outcome, startedAt, ticker, manualMu, health, latest, begun>>

CollectorFails(p, c) ==
  /\ "fail" \in Faults
  /\ Fail(p, c)
  /\ broken' = broken \cup {c}
  /\ UNCHANGED <<at, outcome, startedAt, ticker, manualMu, health, latest, begun>>

\* Mutant: errors of single collectors are not looked at.
EveryCycleClean(p) == "clean"

\* What a finished cycle returns.
CycleOutcome(p) == IF errors[p] = {} THEN "clean" ELSE "partial"

CycleEnds(p) ==
  /\ Leave(p)
  /\ Result(p, CycleOutcome(p))
  /\ UNCHANGED <<startedAt, ticker, manualMu, health, broken, begun>>

\* No snapshot: the cycle returns an error and ran nothing.
CycleAborts(p) ==
  /\ "fail" \in Faults
  /\ Abort(p)
  /\ Result(p, "failed")
  /\ UNCHANGED <<startedAt, ticker, manualMu, health, broken, begun>>

\* updateCollectionHealth.
Report(p) ==
  /\ at[p] = "reporting"
  /\ lastSuccess' = IF outcome[p] = "clean" THEN now ELSE lastSuccess
  /\ healthy' = (outcome[p] = "clean")
  /\ outcome' = [outcome EXCEPT ![p] = "none"]
  /\ \/ /\ p = Loop
        /\ at' = [at EXCEPT ![p] = "select"]
        /\ UNCHANGED manualMu
     \/ /\ p # Loop /\ outcome[p] # "failed"
        /\ at' = [at EXCEPT ![p] = "analysing"]
        /\ UNCHANGED manualMu
     \/ /\ p # Loop /\ outcome[p] = "failed"
        /\ at' = [at EXCEPT ![p] = "idle"]
        /\ manualMu' = FALSE
  /\ UNCHANGED <<cycleVars, startedAt, ticker, history>>

CancelContext(p) ==
  /\ "cancel" \in Faults
  /\ CancelCall(p)
  /\ UNCHANGED <<at, outcome, startedAt, ticker, manualMu, health, history>>

\* The ticker fires every MinInterval, into a channel that holds one tick.
Clock ==
  /\ Advance
  /\ ticker' = (ticker \/ now' % MinInterval = 0)
  /\ UNCHANGED <<at, outcome, startedAt, manualMu, health, history>>

Cycle(p) ==
  \/ \E c \in Collectors : CollectorSucceeds(p, c) \/ CollectorFails(p, c)
  \/ CycleEnds(p) \/ CycleAborts(p)
  \/ Report(p)

TurnOfLoop == BeginScheduled \/ SkipScheduled

Manual(t) == BeginManual(t) \/ BusyManual(t) \/ FinishManual(t)

Step ==
  \/ ExecuteCollection \/ TurnOfLoop \/ GiveUpScheduled \/ StopLoop
  \/ \E t \in Triggers : LockManual(t) \/ Manual(t) \/ GoneManual(t)
  \/ \E p \in Callers : Cycle(p) \/ CancelContext(p)

Next == Step \/ Clock

Spec == Init /\ [][Next]_vars

(***************************************************************************)
(* Goroutines run; the loop, blocked on the token's channel, is served in  *)
(* its turn.  Nothing is cancelled and nobody triggers by assumption.      *)
(***************************************************************************)
FairSpec ==
  /\ Spec
  /\ WF_vars(ExecuteCollection) /\ SF_vars(TurnOfLoop) /\ WF_vars(GiveUpScheduled)
  /\ \A p \in Callers : WF_vars(Cycle(p))
  /\ \A t \in Triggers : WF_vars(Manual(t))

\* A scheduler that is not held up: the loop takes a tick at once, and a cycle
\* ends within CycleTime.
Prompt ==
  /\ at[Loop] \in {"select", "calling", "stopped"}
  /\ at[Loop] = "select" => ~ticker
  /\ at[Loop] = "calling" =>
       phase[Loop] = "in" /\ now < startedAt[Loop] + CycleTime

PromptSpec == Init /\ [][Step \/ (Prompt /\ Clock)]_vars

-----------------------------------------------------------------------------
\* Properties.

\* A collection that is about to be reported as successful vouches for every
\* collector: each has succeeded so recently that it was not due when the cycle
\* began, or succeeded in the cycle itself, even when the cycle ran nothing
\* (the notifier stays quiet about collection on the strength of this).
SuccessIsFresh ==
  \A p \in Callers :
    outcome[p] = "clean" =>
      \A c \in Collectors :
        /\ lastRun[c] \in Nat
        /\ lastRun[c] + Interval[c] > startedAt[p]

\* A collection is called successful, and becomes LastSuccessfulCollection, only
\* if the latest run of every collector succeeded ("when every collector last
\* succeeded", HealthStatus).
SuccessIsTotal ==
  [][\A p \in Callers :
       outcome'[p] = "clean" /\ outcome[p] # "clean" => broken = {}]_vars

\* Unless a report is on its way, health tells how the latest collection ended
\* ("the error from the most recent collection", CollectionStatus), as long as
\* collections do not overlap: they report after they gave the token back.
StatusIsLatest ==
  (\A p \in Callers : at[p] # "reporting") =>
    (healthy <=> latest = "clean")

\* What health says of the latest collection, and of all collectors, is the case as
\* long as nobody but the loop collects.
HealthIsTrue == []StatusIsLatest /\ SuccessIsTotal

\* manualMu is locked exactly while one trigger is under way, from TryLock to
\* the end of its analysis, whichever way it ends (TriggerSnapshot).
OneManualTrigger ==
  /\ \A t, u \in Triggers : at[t] # "idle" /\ at[u] # "idle" => t = u
  /\ manualMu <=> \E t \in Triggers : at[t] # "idle"

\* No trigger and no scheduled collection hangs (executeCollection and
\* TriggerSnapshot return, whatever fails).
CallersReturn ==
  /\ \A t \in Triggers : at[t] # "idle" ~> at[t] = "idle"
  /\ at[Loop] \in {"starting", "calling", "reporting"} ~> at[Loop] = "select"

\* Time since the latest cycle that ran c began.
Elapsed(c) == now - begun[c]

\* A prompt scheduler starts each collector again within two of its intervals:
\* completion times in lastRun can cost a collector a tick, never two, and a
\* working collector's data stays inside the three intervals after which
\* analysis stops trusting it (runCollectionLoop over getDueCollectors).
RunsWithinTwoIntervals ==
  at[Loop] # "stopped" =>
    \A c \in Collectors : begun[c] \in Nat => Elapsed(c) <= 2 * Interval[c]
=============================================================================
