-------------------------- MODULE SchedulerProofs --------------------------
(***************************************************************************)
(* What a successful collection vouches for, the mutual exclusion of       *)
(* manual triggers, what health says while only the loop collects, and how *)
(* far apart a prompt loop starts a collector, for every set of handlers   *)
(* and collectors and every choice of intervals.                           *)
(***************************************************************************)
EXTENDS Scheduler, NaturalsInduction, WellFoundedInduction, TLAPS

\* A goroutine carries a result exactly while it is about to report it.
OutcomeWhere ==
  \A p \in Callers :
    /\ outcome[p] # "none" <=> at[p] = "reporting"
    /\ phase[p] # "out" => at[p] = "calling"

\* Only a goroutine inside a cycle has collectors that finished or failed.
CountsWhere ==
  \A p \in Callers : phase[p] # "in" => done[p] = {} /\ errors[p] = {}

\* Clocks: no stamp lies in the future.
StampsPast ==
  /\ \A c \in Collectors : lastRun[c] # Never => lastRun[c] <= now
  /\ \A p \in Callers : startedAt[p] <= now

\* c has succeeded since time t, or so shortly before that it was not due.
FreshAt(c, t) == lastRun[c] \in Nat /\ lastRun[c] + Interval[c] > t

\* A running cycle has fresh data of the collectors it left out and of those
\* that finished without an error.
CycleFreshOf(p) ==
  phase[p] = "in" =>
    \A c \in Collectors :
      c \notin targets[p] \/ c \in done[p] \ errors[p] => FreshAt(c, startedAt[p])

CycleFresh == \A p \in Callers : CycleFreshOf(p)

\* A clean result vouches for every collector (SuccessIsFresh, one goroutine).
ResultFreshOf(p) ==
  outcome[p] = "clean" => \A c \in Collectors : FreshAt(c, startedAt[p])

FInv == /\ SchedulerTypeOK
        /\ OutcomeWhere
        /\ CountsWhere
        /\ StampsPast
        /\ CycleFresh
        /\ SuccessIsFresh

-----------------------------------------------------------------------------
\* Every variable keeps its type.
LEMMA TypeStep == SchedulerTypeOK /\ [Next]_vars => SchedulerTypeOK'
<1> SUFFICES ASSUME SchedulerTypeOK, [Next]_vars PROVE SchedulerTypeOK'
  OBVIOUS
<1> USE CycleAssumption, SchedulerAssumption
        DEF SchedulerTypeOK, CycleTypeOK, health, history, cycleVars
<1>1. CASE UNCHANGED vars
  BY <1>1 DEF vars
<1>2. CASE ExecuteCollection
  BY <1>2 DEF ExecuteCollection, Request
<1>3. CASE BeginScheduled
  BY <1>3 DEF BeginScheduled, BeginDue, Begin, Due, Stamp, NoteBegin
<1>4. CASE SkipScheduled
  BY <1>4 DEF SkipScheduled, Skip, Quit, Stamp, Result
<1>5. CASE GiveUpScheduled
  BY <1>5 DEF GiveUpScheduled, Withdraw, Quit, Result
<1>6. CASE StopLoop
  BY <1>6 DEF StopLoop
<1>7. ASSUME NEW t \in Triggers, LockManual(t) PROVE SchedulerTypeOK'
  BY <1>7 DEF LockManual
<1>8. ASSUME NEW t \in Triggers, BeginManual(t) PROVE SchedulerTypeOK'
  BY <1>8 DEF BeginManual, BeginAll, Begin, Stamp, NoteBegin
<1>9. ASSUME NEW t \in Triggers, BusyManual(t) PROVE SchedulerTypeOK'
  BY <1>9 DEF BusyManual
<1>10. ASSUME NEW t \in Triggers, GoneManual(t) PROVE SchedulerTypeOK'
  BY <1>10 DEF GoneManual, Result
<1>11. ASSUME NEW t \in Triggers, FinishManual(t) PROVE SchedulerTypeOK'
  BY <1>11 DEF FinishManual
<1>12. ASSUME NEW p \in Callers, NEW c \in Collectors, CollectorSucceeds(p, c)
       PROVE  SchedulerTypeOK'
  BY <1>12 DEF CollectorSucceeds, Succeed, Finish
<1>13. ASSUME NEW p \in Callers, NEW c \in Collectors, CollectorFails(p, c)
       PROVE  SchedulerTypeOK'
  BY <1>13 DEF CollectorFails, Fail, Finish
<1>14. ASSUME NEW p \in Callers, CycleEnds(p) PROVE SchedulerTypeOK'
  BY <1>14 DEF CycleEnds, Leave, Quit, Result, CycleOutcome
<1>15. ASSUME NEW p \in Callers, CycleAborts(p) PROVE SchedulerTypeOK'
  BY <1>15 DEF CycleAborts, Abort, Quit, Result
<1>16. ASSUME NEW p \in Callers, Report(p) PROVE SchedulerTypeOK'
  BY <1>16 DEF Report
<1>17. ASSUME NEW p \in Callers, CancelContext(p) PROVE SchedulerTypeOK'
  BY <1>17 DEF CancelContext, CancelCall
<1>18. CASE Clock
  BY <1>18 DEF Clock, Advance
<1> HIDE CycleAssumption, SchedulerAssumption
         DEF SchedulerTypeOK, CycleTypeOK, health, history, cycleVars
<1> QED
  BY <1>1, <1>2, <1>3, <1>4, <1>5, <1>6, <1>7, <1>8, <1>9, <1>10, <1>11,
     <1>12, <1>13, <1>14, <1>15, <1>16, <1>17, <1>18
  DEF Next, Step, TurnOfLoop, Manual, Cycle

LEMMA TypeInit == Init => SchedulerTypeOK
<1> SUFFICES ASSUME Init PROVE SchedulerTypeOK
  OBVIOUS
<1>1. CycleTypeOK
  BY CycleAssumption DEF Init, CycleInit, CycleTypeOK
<1>2. at \in [Callers -> {"starting", "select", "idle", "locked", "calling",
                         "reporting", "analysing", "stopped"}]
  BY DEF Init
<1>3. /\ outcome \in [Callers -> {"none", "clean", "partial", "failed"}]
      /\ startedAt \in [Callers -> Nat]
      /\ lastSuccess \in Nat \cup {Never}
      /\ begun \in [Collectors -> Nat \cup {Never}]
      /\ broken \in SUBSET Collectors
      /\ ticker \in BOOLEAN /\ manualMu \in BOOLEAN /\ healthy \in BOOLEAN
  BY DEF Init
<1> QED
  BY <1>1, <1>2, <1>3 DEF Init, SchedulerTypeOK

-----------------------------------------------------------------------------
\* manualMu.
LEMMA ManualStep ==
  SchedulerTypeOK /\ OneManualTrigger /\ OutcomeWhere /\ [Next]_vars
    => OneManualTrigger'
<1> SUFFICES ASSUME SchedulerTypeOK, OneManualTrigger, OutcomeWhere, [Next]_vars
             PROVE  OneManualTrigger'
  OBVIOUS
<1> USE SchedulerAssumption DEF OneManualTrigger
<1>0. at \in [Callers -> {"starting", "select", "idle", "locked", "calling",
                          "reporting", "analysing", "stopped"}]
  BY DEF SchedulerTypeOK
<1>1. ASSUME UNCHANGED <<at, manualMu>> PROVE OneManualTrigger'
  BY <1>1
<1>2. ASSUME NEW v, at' = [at EXCEPT ![Loop] = v], UNCHANGED manualMu
      PROVE  OneManualTrigger'
  BY <1>0, <1>2
<1>3. ASSUME NEW t \in Triggers, NEW v, v # "idle", at[t] # "idle",
             at' = [at EXCEPT ![t] = v], UNCHANGED manualMu
      PROVE  OneManualTrigger'
  BY <1>0, <1>3
<1>4. ASSUME NEW t \in Triggers, at[t] # "idle",
             at' = [at EXCEPT ![t] = "idle"], manualMu' = FALSE
      PROVE  OneManualTrigger'
  BY <1>0, <1>4
<1>5. ASSUME NEW t \in Triggers, LockManual(t) PROVE OneManualTrigger'
  BY <1>0, <1>5 DEF LockManual
<1>6. ASSUME NEW t \in Triggers, Manual(t) \/ GoneManual(t)
      PROVE  OneManualTrigger'
  BY <1>3, <1>4, <1>6
  DEF Manual, BeginManual, BusyManual, FinishManual, GoneManual, Result
<1>7. ASSUME NEW p \in Callers, CycleEnds(p) \/ CycleAborts(p)
      PROVE  OneManualTrigger'
  <2>1. at[p] = "calling"
    BY <1>7 DEF CycleEnds, CycleAborts, Leave, Abort, OutcomeWhere
  <2> QED
    BY <1>2, <1>3, <1>7, <2>1 DEF CycleEnds, CycleAborts, Result
<1>8. ASSUME NEW p \in Callers, Report(p) PROVE OneManualTrigger'
  BY <1>2, <1>3, <1>4, <1>8 DEF Report
<1>9. CASE TurnOfLoop \/ GiveUpScheduled \/ ExecuteCollection \/ StopLoop
  BY <1>1, <1>2, <1>9
  DEF TurnOfLoop, BeginScheduled, SkipScheduled, GiveUpScheduled,
      ExecuteCollection, StopLoop, Result
<1>10. ASSUME NEW p \in Callers, NEW c \in Collectors,
              CollectorSucceeds(p, c) \/ CollectorFails(p, c)
       PROVE  OneManualTrigger'
  BY <1>1, <1>10 DEF CollectorSucceeds, CollectorFails
<1>11. ASSUME NEW p \in Callers, CancelContext(p) PROVE OneManualTrigger'
  BY <1>1, <1>11 DEF CancelContext
<1>12. CASE Clock \/ UNCHANGED vars
  BY <1>1, <1>12 DEF Clock, vars
<1> QED
  BY <1>5, <1>6, <1>7, <1>8, <1>9, <1>10, <1>11, <1>12
  DEF Next, Step, Cycle

-----------------------------------------------------------------------------
\* Where results and counts are.
LEMMA WhereStep ==
  ASSUME SchedulerTypeOK, OutcomeWhere, CountsWhere, [Next]_vars
  PROVE  OutcomeWhere' /\ CountsWhere'
<1> USE SchedulerAssumption
<1>0. /\ at \in [Callers -> {"starting", "select", "idle", "locked", "calling",
                             "reporting", "analysing", "stopped"}]
      /\ outcome \in [Callers -> {"none", "clean", "partial", "failed"}]
      /\ phase \in [Callers -> {"out", "waiting", "in"}]
      /\ done \in [Callers -> SUBSET Collectors]
      /\ errors \in [Callers -> SUBSET Collectors]
  BY DEF SchedulerTypeOK, CycleTypeOK
<1> DEFINE P == OutcomeWhere' /\ CountsWhere'
<1> USE DEF OutcomeWhere, CountsWhere
<1>1. CASE ExecuteCollection
  BY <1>0, <1>1 DEF ExecuteCollection, Request
<1>2. CASE BeginScheduled
  BY <1>0, <1>2 DEF BeginScheduled, BeginDue, Begin
<1>3. ASSUME NEW p \in Callers, NEW o \in {"clean", "partial", "failed"},
             Quit(p), Result(p, o)
      PROVE  P
  BY <1>0, <1>3 DEF Quit, Result
<1>4. CASE SkipScheduled \/ GiveUpScheduled
  BY <1>3, <1>4 DEF SkipScheduled, GiveUpScheduled, Skip, Withdraw
<1>5. ASSUME NEW p \in Callers, CycleEnds(p) \/ CycleAborts(p) PROVE P
  BY <1>3, <1>5 DEF CycleEnds, CycleAborts, Leave, Abort, CycleOutcome
<1>6. ASSUME NEW p \in Callers, NEW v, v \notin {"calling", "reporting"},
             at[p] \notin {"calling", "reporting"},
             at' = [at EXCEPT ![p] = v], UNCHANGED <<outcome, cycleVars>>
      PROVE  P
  BY <1>0, <1>6 DEF cycleVars
<1>7. CASE StopLoop
  BY <1>6, <1>7 DEF StopLoop
<1>8. ASSUME NEW t \in Triggers,
             LockManual(t) \/ BusyManual(t) \/ FinishManual(t)
      PROVE  P
  BY <1>6, <1>8 DEF LockManual, BusyManual, FinishManual
<1>9. ASSUME NEW t \in Triggers, BeginManual(t) PROVE P
  BY <1>0, <1>9 DEF BeginManual, BeginAll, Begin
<1>10. ASSUME NEW t \in Triggers, GoneManual(t) PROVE P
  BY <1>0, <1>10 DEF GoneManual, Result, cycleVars
<1>11. ASSUME NEW p \in Callers, NEW c \in Collectors,
              CollectorSucceeds(p, c) \/ CollectorFails(p, c)
       PROVE  P
  <2>1. /\ UNCHANGED <<at, outcome, phase>> /\ phase[p] = "in"
        /\ \A q \in Callers : q # p => /\ done'[q] = done[q]
                                       /\ errors'[q] = errors[q]
    BY <1>0, <1>11
    DEF CollectorSucceeds, CollectorFails, Succeed, Fail, Finish
  <2> QED
    BY <2>1
<1>12. ASSUME NEW p \in Callers, Report(p) PROVE P
  <2>1. /\ at[p] = "reporting" /\ UNCHANGED cycleVars
        /\ outcome' = [outcome EXCEPT ![p] = "none"]
        /\ \E v \in {"select", "analysing", "idle"} : at' = [at EXCEPT ![p] = v]
    BY <1>12 DEF Report
  <2> QED
    BY <1>0, <2>1 DEF cycleVars
<1>13. ASSUME UNCHANGED <<at, outcome, phase, done, errors>> PROVE P
  BY <1>13
<1>14. ASSUME NEW p \in Callers, CancelContext(p) PROVE P
  BY <1>13, <1>14 DEF CancelContext, CancelCall
<1>15. CASE Clock \/ UNCHANGED vars
  BY <1>13, <1>15 DEF Clock, Advance, vars, cycleVars
<1> QED
  BY <1>1, <1>2, <1>4, <1>5, <1>7, <1>8, <1>9, <1>10, <1>11, <1>12, <1>14,
     <1>15
  DEF Next, Step, TurnOfLoop, Manual, Cycle

-----------------------------------------------------------------------------
\* Freshness, once had, is kept: lastRun only moves to the present.
LEMMA FreshStep ==
  ASSUME SchedulerTypeOK, StampsPast, [Next]_vars
  PROVE  /\ StampsPast'
         /\ \A c \in Collectors, t \in Nat : FreshAt(c, t) => FreshAt(c, t)'
<1> USE DEF StampsPast, FreshAt
<1>0. /\ now \in Nat /\ startedAt \in [Callers -> Nat]
      /\ lastRun \in [Collectors -> Nat \cup {Never}]
      /\ Interval \in [Collectors -> Nat \ {0}]
      /\ Never \notin Nat
  BY CycleAssumption DEF SchedulerTypeOK, CycleTypeOK
<1>1. \/ now' = now \/ now' = now + 1
  BY DEF Next, Step, TurnOfLoop, Manual, Cycle, Clock, Advance,
         ExecuteCollection, Request, BeginScheduled, BeginDue, Begin,
         SkipScheduled, Skip, Quit, GiveUpScheduled, Withdraw, StopLoop,
         LockManual, BeginManual, BeginAll, BusyManual, GoneManual,
         FinishManual, CollectorSucceeds, Succeed, Finish, CollectorFails,
         Fail, CycleEnds, Leave, CycleAborts, Abort, Report, CancelContext,
         CancelCall, vars, cycleVars
<1>2. \/ UNCHANGED lastRun
      \/ \E c \in Collectors : lastRun' = [lastRun EXCEPT ![c] = now]
  BY DEF Next, Step, TurnOfLoop, Manual, Cycle, Clock, Advance,
         ExecuteCollection, Request, BeginScheduled, BeginDue, Begin,
         SkipScheduled, Skip, Quit, GiveUpScheduled, Withdraw, StopLoop,
         LockManual, BeginManual, BeginAll, BusyManual, GoneManual,
         FinishManual, CollectorSucceeds, Succeed, Finish, CollectorFails,
         Fail, CycleEnds, Leave, CycleAborts, Abort, Report, CancelContext,
         CancelCall, vars, cycleVars
<1>3. \/ UNCHANGED startedAt
      \/ \E p \in Callers : Stamp(p)
  BY SchedulerAssumption
  DEF Next, Step, TurnOfLoop, Manual, Cycle, Clock, ExecuteCollection,
      BeginScheduled, SkipScheduled, GiveUpScheduled, StopLoop, LockManual,
      BeginManual, BusyManual, GoneManual, FinishManual, CollectorSucceeds,
      CollectorFails, CycleEnds, CycleAborts, Report, CancelContext, vars
<1>4. StampsPast'
  BY <1>0, <1>1, <1>2, <1>3 DEF Stamp
<1>5. \A c \in Collectors, t \in Nat : FreshAt(c, t) => FreshAt(c, t)'
  BY <1>0, <1>2
<1> QED
  BY <1>4, <1>5

-----------------------------------------------------------------------------
\* How a step may touch one goroutine's cycle and result.
LEMMA FreshKept ==
  ASSUME SchedulerTypeOK, StampsPast, [Next]_vars, NEW p \in Callers,
         startedAt'[p] = startedAt[p]
  PROVE  \A c \in Collectors :
           FreshAt(c, startedAt[p]) => FreshAt(c, startedAt[p])'
<1>1. startedAt[p] \in Nat
  BY DEF SchedulerTypeOK
<1>2. \A c \in Collectors, t \in Nat : FreshAt(c, t) => FreshAt(c, t)'
  BY FreshStep
<1> QED
  BY <1>1, <1>2 DEF FreshAt

\* A cycle starts with fresh data of the collectors it leaves out.
LEMMA BeginFresh ==
  ASSUME SchedulerTypeOK, StampsPast, NEW p \in Callers, NEW cs,
         Begin(p, cs), Stamp(p), Due \subseteq cs, done[p] = {}
  PROVE  CycleFreshOf(p)'
<1>1. /\ now \in Nat /\ lastRun \in [Collectors -> Nat \cup {Never}]
      /\ Interval \in [Collectors -> Nat \ {0}]
      /\ startedAt \in [Callers -> Nat]
      /\ targets \in [Callers -> SUBSET Collectors]
  BY CycleAssumption DEF SchedulerTypeOK, CycleTypeOK
<1>2. \A c \in Collectors : c \notin cs =>
        lastRun[c] \in Nat /\ lastRun[c] + Interval[c] > now
  BY <1>1 DEF Due
<1>3. /\ lastRun' = lastRun /\ startedAt'[p] = now
      /\ targets'[p] = cs /\ done'[p] = {}
  BY <1>1 DEF Begin, Stamp
<1> QED
  BY <1>2, <1>3 DEF CycleFreshOf, FreshAt

\* A collector that has just succeeded is fresh.
LEMMA SucceedFresh ==
  ASSUME SchedulerTypeOK, StampsPast, [Next]_vars, NEW p \in Callers,
         NEW c \in Collectors, Succeed(p, c), UNCHANGED startedAt,
         CycleFreshOf(p)
  PROVE  CycleFreshOf(p)'
<1>1. /\ now \in Nat /\ lastRun \in [Collectors -> Nat \cup {Never}]
      /\ Interval \in [Collectors -> Nat \ {0}]
      /\ startedAt \in [Callers -> Nat] /\ startedAt[p] <= now
      /\ done \in [Callers -> SUBSET Collectors]
  BY CycleAssumption DEF SchedulerTypeOK, CycleTypeOK, StampsPast
<1>2. FreshAt(c, startedAt[p])'
  BY <1>1 DEF Succeed, FreshAt
<1>3. \A d \in Collectors : FreshAt(d, startedAt[p]) => FreshAt(d, startedAt[p])'
  BY FreshKept
<1>4. /\ phase[p] = "in" /\ UNCHANGED <<targets, errors>>
      /\ done'[p] = done[p] \cup {c}
  BY <1>1 DEF Succeed, Finish
<1> QED
  BY <1>2, <1>3, <1>4 DEF CycleFreshOf

\* A collector that fails joins the errors.
LEMMA FailFresh ==
  ASSUME SchedulerTypeOK, StampsPast, [Next]_vars, NEW p \in Callers,
         NEW c \in Collectors, Fail(p, c), UNCHANGED startedAt,
         CycleFreshOf(p)
  PROVE  CycleFreshOf(p)'
<1>1. /\ done \in [Callers -> SUBSET Collectors]
      /\ errors \in [Callers -> SUBSET Collectors]
  BY DEF SchedulerTypeOK, CycleTypeOK
<1>2. /\ phase[p] = "in" /\ UNCHANGED targets
      /\ done'[p] = done[p] \cup {c} /\ errors'[p] = errors[p] \cup {c}
  BY <1>1 DEF Fail, Finish
<1>3. \A d \in Collectors : FreshAt(d, startedAt[p]) => FreshAt(d, startedAt[p])'
  BY FreshKept
<1> QED
  BY <1>2, <1>3 DEF CycleFreshOf

-----------------------------------------------------------------------------
\* Every step keeps what running cycles and waiting results vouch for.
LEMMA CycleFreshStep ==
  ASSUME SchedulerTypeOK, OutcomeWhere, CountsWhere, StampsPast, CycleFresh,
         [Next]_vars
  PROVE  CycleFresh'
<1> USE SchedulerAssumption
<1> SUFFICES ASSUME NEW q \in Callers PROVE CycleFreshOf(q)'
  BY DEF CycleFresh
<1>0. /\ CycleFreshOf(q)
      /\ phase \in [Callers -> {"out", "waiting", "in"}]
      /\ done \in [Callers -> SUBSET Collectors]
      /\ errors \in [Callers -> SUBSET Collectors]
      /\ targets \in [Callers -> SUBSET Collectors]
      /\ startedAt \in [Callers -> Nat]
  BY DEF CycleFresh, SchedulerTypeOK, CycleTypeOK
\* q's cycle is left alone.
<1>1. ASSUME startedAt'[q] = startedAt[q], phase'[q] = phase[q],
             targets'[q] = targets[q], done'[q] = done[q],
             errors'[q] = errors[q]
      PROVE  CycleFreshOf(q)'
  <2>1. \A d \in Collectors :
          FreshAt(d, startedAt[q]) => FreshAt(d, startedAt[q])'
    BY <1>1, FreshKept
  <2> QED
    BY <1>0, <1>1, <2>1 DEF CycleFreshOf
\* q is not in a cycle afterwards.
<1>2. ASSUME phase'[q] # "in" PROVE CycleFreshOf(q)'
  BY <1>2 DEF CycleFreshOf
<1>3. ASSUME NEW p \in Callers, Quit(p),
             \A r \in Callers : r # p => startedAt'[r] = startedAt[r]
      PROVE  CycleFreshOf(q)'
  BY <1>0, <1>1, <1>2, <1>3 DEF Quit
<1>4. CASE ExecuteCollection
  BY <1>0, <1>1, <1>2, <1>4 DEF ExecuteCollection, Request
<1>5. ASSUME NEW p \in Callers, NEW cs, Begin(p, cs), Stamp(p),
             Due \subseteq cs, phase[p] # "in"
      PROVE  CycleFreshOf(q)'
  <2>1. CASE q = p
    BY <1>5, <2>1, BeginFresh DEF CountsWhere
  <2>2. CASE q # p
    BY <1>0, <1>1, <1>5, <2>2 DEF Begin, Stamp
  <2> QED
    BY <2>1, <2>2
<1>6. CASE BeginScheduled
  BY <1>5, <1>6 DEF BeginScheduled, BeginDue
<1>7. ASSUME NEW t \in Triggers, BeginManual(t) PROVE CycleFreshOf(q)'
  BY <1>5, <1>7 DEF BeginManual, BeginAll, Due
<1>8. CASE SkipScheduled \/ GiveUpScheduled
  BY <1>0, <1>3, <1>8 DEF SkipScheduled, GiveUpScheduled, Skip, Withdraw, Stamp
<1>9. ASSUME NEW p \in Callers, CycleEnds(p) \/ CycleAborts(p)
      PROVE  CycleFreshOf(q)'
  BY <1>3, <1>9 DEF CycleEnds, CycleAborts, Leave, Abort
<1>10. ASSUME UNCHANGED <<startedAt, phase, targets, done, errors>>
       PROVE  CycleFreshOf(q)'
  BY <1>1, <1>10
<1>11. ASSUME NEW t \in Triggers,
              LockManual(t) \/ BusyManual(t) \/ GoneManual(t) \/ FinishManual(t)
       PROVE  CycleFreshOf(q)'
  BY <1>10, <1>11
  DEF LockManual, BusyManual, GoneManual, FinishManual, cycleVars
<1>12. ASSUME NEW p \in Callers, NEW c \in Collectors,
              CollectorSucceeds(p, c) \/ CollectorFails(p, c)
       PROVE  CycleFreshOf(q)'
  <2>1. CASE q = p
    BY <1>0, <1>12, <2>1, SucceedFresh, FailFresh
    DEF CollectorSucceeds, CollectorFails
  <2>2. CASE q # p
    BY <1>0, <1>1, <1>12, <2>2
    DEF CollectorSucceeds, CollectorFails, Succeed, Fail, Finish
  <2> QED
    BY <2>1, <2>2
<1>13. ASSUME NEW p \in Callers, Report(p) PROVE CycleFreshOf(q)'
  BY <1>10, <1>13 DEF Report, cycleVars
<1>14. ASSUME NEW p \in Callers, CancelContext(p) PROVE CycleFreshOf(q)'
  BY <1>10, <1>14 DEF CancelContext, CancelCall
<1>15. CASE StopLoop \/ Clock \/ UNCHANGED vars
  BY <1>10, <1>15 DEF StopLoop, Clock, Advance, vars, cycleVars
<1> QED
  BY <1>4, <1>6, <1>7, <1>8, <1>9, <1>11, <1>12, <1>13, <1>14, <1>15
  DEF Next, Step, TurnOfLoop, Manual, Cycle

LEMMA ResultFreshStep ==
  ASSUME SchedulerTypeOK, OutcomeWhere, StampsPast, CycleFresh,
         \A p \in Callers : ResultFreshOf(p), [Next]_vars
  PROVE  \A p \in Callers : ResultFreshOf(p)'
<1> USE SchedulerAssumption
<1> SUFFICES ASSUME NEW q \in Callers PROVE ResultFreshOf(q)'
  OBVIOUS
<1>0. /\ ResultFreshOf(q)
      /\ outcome \in [Callers -> {"none", "clean", "partial", "failed"}]
      /\ startedAt \in [Callers -> Nat] /\ now \in Nat
      /\ lastRun \in [Collectors -> Nat \cup {Never}]
      /\ Interval \in [Collectors -> Nat \ {0}]
      /\ Never \notin Nat
  BY CycleAssumption DEF SchedulerTypeOK, CycleTypeOK
<1>1. ASSUME startedAt'[q] = startedAt[q], outcome'[q] = outcome[q]
      PROVE  ResultFreshOf(q)'
  <2>1. \A d \in Collectors :
          FreshAt(d, startedAt[q]) => FreshAt(d, startedAt[q])'
    BY <1>1, FreshKept
  <2> QED
    BY <1>0, <1>1, <2>1 DEF ResultFreshOf
<1>2. ASSUME outcome'[q] # "clean" PROVE ResultFreshOf(q)'
  BY <1>2 DEF ResultFreshOf
<1>3. ASSUME UNCHANGED <<startedAt, outcome>> PROVE ResultFreshOf(q)'
  BY <1>1, <1>3
\* A stamp is taken by a goroutine that has no result yet.
<1>4. ASSUME NEW p \in Callers, at[p] # "reporting", Stamp(p), UNCHANGED outcome
      PROVE  ResultFreshOf(q)'
  <2>1. CASE q = p
    BY <1>2, <1>4, <2>1 DEF OutcomeWhere
  <2>2. CASE q # p
    BY <1>0, <1>1, <1>4, <2>2 DEF Stamp
  <2> QED
    BY <2>1, <2>2
<1>5. CASE BeginScheduled
  BY <1>4, <1>5 DEF BeginScheduled
<1>6. ASSUME NEW t \in Triggers, BeginManual(t) PROVE ResultFreshOf(q)'
  BY <1>4, <1>6 DEF BeginManual
\* A result other than clean vouches for nothing.
<1>7. ASSUME NEW p \in Callers, NEW o, o # "clean",
             outcome' = [outcome EXCEPT ![p] = o], UNCHANGED startedAt
      PROVE  ResultFreshOf(q)'
  BY <1>0, <1>1, <1>2, <1>7
<1>8. CASE GiveUpScheduled
  BY <1>7, <1>8 DEF GiveUpScheduled, Result
<1>9. ASSUME NEW p \in Callers, GoneManual(p) \/ CycleAborts(p) \/ Report(p)
      PROVE  ResultFreshOf(q)'
  BY <1>7, <1>9 DEF GoneManual, CycleAborts, Report, Result
\* Nothing is due: everything is fresh.
<1>10. CASE SkipScheduled
  <2>1. CASE q = Loop
    <3>1. \A c \in Collectors :
            lastRun[c] \in Nat /\ lastRun[c] + Interval[c] > now
      BY <1>0, <1>10 DEF SkipScheduled, Skip, Due
    <3>2. lastRun' = lastRun /\ startedAt'[q] = now
      BY <1>0, <1>10, <2>1 DEF SkipScheduled, Skip, Quit, Stamp
    <3> QED
      BY <3>1, <3>2 DEF ResultFreshOf, FreshAt
  <2>2. CASE q # Loop
    BY <1>0, <1>1, <1>10, <2>2 DEF SkipScheduled, Stamp, Result
  <2> QED
    BY <2>1, <2>2
\* The cycle ran every target, none of them with an error.
<1>11. ASSUME NEW p \in Callers, CycleEnds(p) PROVE ResultFreshOf(q)'
  <2>1. CASE q = p /\ errors[p] = {}
    <3>1. \A c \in Collectors : FreshAt(c, startedAt[p])
      BY <1>11, <2>1 DEF CycleFresh, CycleFreshOf, CycleEnds, Leave
    <3>2. startedAt' = startedAt
      BY <1>11 DEF CycleEnds
    <3> QED
      BY <2>1, <3>1, <3>2, FreshKept DEF ResultFreshOf
  <2>2. CASE q = p /\ errors[p] # {}
    BY <1>0, <1>2, <1>11, <2>2 DEF CycleEnds, Result, CycleOutcome
  <2>3. CASE q # p
    BY <1>0, <1>1, <1>11, <2>3 DEF CycleEnds, Result
  <2> QED
    BY <2>1, <2>2, <2>3
<1>12. ASSUME NEW t \in Triggers,
              LockManual(t) \/ BusyManual(t) \/ FinishManual(t)
       PROVE  ResultFreshOf(q)'
  BY <1>3, <1>12 DEF LockManual, BusyManual, FinishManual
<1>13. ASSUME NEW p \in Callers, NEW c \in Collectors,
              CollectorSucceeds(p, c) \/ CollectorFails(p, c)
       PROVE  ResultFreshOf(q)'
  BY <1>3, <1>13 DEF CollectorSucceeds, CollectorFails
<1>14. ASSUME NEW p \in Callers, CancelContext(p) PROVE ResultFreshOf(q)'
  BY <1>3, <1>14 DEF CancelContext
<1>15. CASE ExecuteCollection \/ StopLoop \/ Clock \/ UNCHANGED vars
  BY <1>3, <1>15 DEF ExecuteCollection, StopLoop, Clock, vars
<1> QED
  BY <1>5, <1>6, <1>8, <1>9, <1>10, <1>11, <1>12, <1>13, <1>14, <1>15
  DEF Next, Step, TurnOfLoop, Manual, Cycle

-----------------------------------------------------------------------------
LEMMA SuccessFresh == SuccessIsFresh <=> \A p \in Callers : ResultFreshOf(p)
  BY DEF SuccessIsFresh, ResultFreshOf, FreshAt

LEMMA FInvInit == Init => FInv
<1> SUFFICES ASSUME Init PROVE FInv
  OBVIOUS
<1>1. SchedulerTypeOK
  BY TypeInit
<1>2. /\ \A p \in Callers : phase[p] = "out" /\ outcome[p] = "none"
                             /\ at[p] # "reporting" /\ done[p] = {}
                             /\ errors[p] = {} /\ startedAt[p] = 0
      /\ \A c \in Collectors : lastRun[c] = Never
      /\ now = 0
  BY DEF Init, CycleInit
<1>3. OutcomeWhere /\ CountsWhere /\ StampsPast
  BY <1>2 DEF OutcomeWhere, CountsWhere, StampsPast
<1>4. CycleFresh /\ SuccessIsFresh
  BY <1>2 DEF CycleFresh, CycleFreshOf, SuccessIsFresh
<1> QED
  BY <1>1, <1>3, <1>4 DEF FInv

LEMMA FInvStep == FInv /\ [Next]_vars => FInv'
<1> SUFFICES ASSUME FInv, [Next]_vars PROVE FInv'
  OBVIOUS
<1>1. /\ SchedulerTypeOK /\ OutcomeWhere /\ CountsWhere /\ StampsPast
      /\ CycleFresh /\ \A p \in Callers : ResultFreshOf(p)
  BY SuccessFresh DEF FInv
<1>2. SchedulerTypeOK'
  BY <1>1, TypeStep
<1>3. OutcomeWhere' /\ CountsWhere'
  BY <1>1, WhereStep
<1>4. StampsPast'
  BY <1>1, FreshStep
<1>5. CycleFresh'
  BY <1>1, CycleFreshStep
<1>6. \A p \in Callers : ResultFreshOf(p)'
  BY <1>1, ResultFreshStep
<1>7. SuccessIsFresh'
  BY <1>6 DEF SuccessIsFresh, ResultFreshOf, FreshAt
<1> QED
  BY <1>2, <1>3, <1>4, <1>5, <1>7 DEF FInv

\* Every reachable state of the scheduler and its cycles is well typed.
THEOREM SchedulerTypeCorrect == Spec => []SchedulerTypeOK
  BY TypeInit, TypeStep, PTL DEF Spec

\* The inductive invariant behind the next two theorems.
LEMMA FInvAlways == Spec => []FInv
  BY FInvInit, FInvStep, PTL DEF Spec

\* A collection reported as successful vouches for fresh data of every
\* collector, for any number of handlers, collectors and intervals, also when
\* it ran some of them or none (CollectAll, Collect, updateCollectionHealth).
THEOREM SuccessAlwaysFresh == Spec => []SuccessIsFresh
<1>1. FInv => SuccessIsFresh
  BY DEF FInv
<1> QED
  BY <1>1, FInvAlways, PTL

\* manualMu is locked exactly while one trigger is under way, for any number of
\* handlers (TriggerSnapshot).
THEOREM ManualExclusive == Spec => []OneManualTrigger
<1>1. Init => OneManualTrigger
  BY SchedulerAssumption DEF Init, OneManualTrigger
<1>2. FInv /\ OneManualTrigger /\ [Next]_vars => OneManualTrigger'
  BY ManualStep DEF FInv
<1> QED
  BY <1>1, <1>2, FInvAlways, PTL DEF Spec

-----------------------------------------------------------------------------
\* The loop alone: what a step can be when no handler triggers snapshots.

LoopStep ==
  \/ ExecuteCollection \/ BeginScheduled \/ SkipScheduled \/ GiveUpScheduled
  \/ StopLoop
  \/ \E c \in Collectors : CollectorSucceeds(Loop, c) \/ CollectorFails(Loop, c)
  \/ CycleEnds(Loop) \/ CycleAborts(Loop) \/ Report(Loop)
  \/ CancelContext(Loop)

LEMMA LoopSteps ==
  ASSUME Triggers = {}, Step
  PROVE  LoopStep
BY SchedulerAssumption DEF Step, TurnOfLoop, Cycle, LoopStep

\* A collector whose latest run did not succeed is due; a cycle of the loop sets
\* out to run it, and if it has run it without success, counts the error.
BrokenRuns ==
  /\ broken \subseteq Due
  /\ phase[Loop] = "in" =>
       /\ broken \subseteq targets[Loop]
       /\ broken \cap done[Loop] \subseteq errors[Loop]
       /\ targets[Loop] \ done[Loop] \subseteq Due

\* Until it is reported the loop carries how the latest collection ended, then
\* health does.
ReportedIsLatest ==
  IF at[Loop] = "reporting" THEN outcome[Loop] = latest
                            ELSE healthy <=> latest = "clean"

HealthInv == /\ SchedulerTypeOK
             /\ OutcomeWhere
             /\ CountsWhere
             /\ BrokenRuns
             /\ ReportedIsLatest

\* A collector stays due until it succeeds.
LEMMA DueStays ==
  ASSUME SchedulerTypeOK, NEW c \in Due,
         lastRun'[c] = lastRun[c], now' \in Nat, now' >= now
  PROVE  c \in Due'
<1>1. /\ c \in Collectors /\ now \in Nat
      /\ lastRun[c] \in Nat \cup {Never} /\ Interval[c] \in Nat
  BY CycleAssumption DEF SchedulerTypeOK, CycleTypeOK, Due
<1>2. CASE lastRun[c] = Never
  BY <1>1, <1>2 DEF Due
<1>3. CASE lastRun[c] # Never
  <2>1. lastRun[c] \in Nat /\ now - lastRun[c] >= Interval[c]
    BY <1>1, <1>3 DEF Due
  <2>2. now' - lastRun'[c] >= Interval[c]
    BY <1>1, <2>1
  <2> QED
    BY <1>1, <2>2 DEF Due
<1> QED
  BY <1>2, <1>3

LEMMA BrokenStep ==
  ASSUME Triggers = {}, HealthInv, [Next]_vars
  PROVE  BrokenRuns'
<1>0. /\ SchedulerTypeOK /\ SchedulerTypeOK' /\ OutcomeWhere /\ CountsWhere
      /\ BrokenRuns
  BY TypeStep DEF HealthInv
<1>t. /\ Loop \in Callers
      /\ phase \in [Callers -> {"out", "waiting", "in"}]
      /\ targets \in [Callers -> SUBSET Collectors]
      /\ done \in [Callers -> SUBSET Collectors]
      /\ errors \in [Callers -> SUBSET Collectors]
      /\ lastRun \in [Collectors -> Nat \cup {Never}]
      /\ now \in Nat /\ broken \subseteq Collectors
  BY <1>0, SchedulerAssumption DEF SchedulerTypeOK, CycleTypeOK
<1>1. ASSUME UNCHANGED <<now, lastRun, broken>>, phase'[Loop] # "in"
      PROVE  BrokenRuns'
  BY <1>0, <1>1 DEF BrokenRuns, Due
<1>2. ASSUME UNCHANGED <<now, lastRun, broken, phase, targets, done, errors>>
      PROVE  BrokenRuns'
  BY <1>0, <1>2 DEF BrokenRuns, Due
<1>3. CASE ExecuteCollection
  BY <1>t, <1>1, <1>3 DEF ExecuteCollection, Request, history
<1>4. CASE BeginScheduled
  <2>1. /\ UNCHANGED <<now, lastRun, broken, done, errors>>
        /\ phase[Loop] = "waiting"
        /\ phase'[Loop] = "in" /\ targets'[Loop] = Due
    BY <1>t, <1>4 DEF BeginScheduled, BeginDue, Begin
  <2>2. Due' = Due
    BY <2>1 DEF Due
  <2>3. done[Loop] = {}
    BY <1>0, <1>t, <2>1 DEF CountsWhere
  <2> QED
    BY <1>0, <2>1, <2>2, <2>3 DEF BrokenRuns
<1>5. CASE SkipScheduled \/ GiveUpScheduled \/ CycleEnds(Loop) \/ CycleAborts(Loop)
  <2>1. Quit(Loop) /\ UNCHANGED broken
    BY <1>5
    DEF SkipScheduled, GiveUpScheduled, CycleEnds, CycleAborts, Skip, Withdraw,
        Leave, Abort
  <2> QED
    BY <1>t, <1>1, <2>1 DEF Quit
<1>6. CASE StopLoop \/ Report(Loop)
  BY <1>2, <1>6 DEF StopLoop, Report, cycleVars, history
<1>7. CASE CancelContext(Loop)
  BY <1>2, <1>7 DEF CancelContext, CancelCall, history
<1>8. ASSUME NEW c \in Collectors, CollectorSucceeds(Loop, c) PROVE BrokenRuns'
  <2>1. /\ UNCHANGED <<now, phase, targets, errors>>
        /\ phase[Loop] = "in" /\ c \in targets[Loop]
        /\ done'[Loop] = done[Loop] \cup {c}
        /\ broken' = broken \ {c}
        /\ \A d \in Collectors : d # c => lastRun'[d] = lastRun[d]
    BY <1>t, <1>8 DEF CollectorSucceeds, Succeed, Finish
  <2>2. \A d \in Due : d # c => d \in Due'
    <3> SUFFICES ASSUME NEW d \in Due, d # c PROVE d \in Due'
      OBVIOUS
    <3>1. lastRun'[d] = lastRun[d]
      BY <2>1 DEF Due
    <3> QED
      BY <1>0, <1>t, <2>1, <3>1, DueStays
  <2> QED
    BY <1>0, <2>1, <2>2 DEF BrokenRuns
<1>9. ASSUME NEW c \in Collectors, CollectorFails(Loop, c) PROVE BrokenRuns'
  <2>1. /\ UNCHANGED <<now, lastRun, phase, targets>>
        /\ phase[Loop] = "in" /\ c \in targets[Loop] \ done[Loop]
        /\ done'[Loop] = done[Loop] \cup {c}
        /\ errors'[Loop] = errors[Loop] \cup {c}
        /\ broken' = broken \cup {c}
    BY <1>t, <1>9 DEF CollectorFails, Fail, Finish
  <2>2. Due' = Due
    BY <2>1 DEF Due
  <2> QED
    BY <1>0, <2>1, <2>2 DEF BrokenRuns
<1>10. CASE Clock
  <2>1. /\ UNCHANGED <<lastRun, broken, phase, targets, done, errors>>
        /\ now' = now + 1
    BY <1>10 DEF Clock, Advance, history
  <2>2. Due \subseteq Due'
    BY <1>0, <1>t, <2>1, DueStays DEF Due
  <2> QED
    BY <1>0, <2>1, <2>2 DEF BrokenRuns
<1>11. CASE UNCHANGED vars
  BY <1>2, <1>11 DEF vars, cycleVars, history
<1> QED
  BY <1>3, <1>4, <1>5, <1>6, <1>7, <1>8, <1>9, <1>10, <1>11, LoopSteps
  DEF Next, LoopStep

LEMMA ReportedStep ==
  ASSUME Triggers = {}, HealthInv, [Next]_vars
  PROVE  ReportedIsLatest'
<1>0. ReportedIsLatest /\ OutcomeWhere
  BY DEF HealthInv
<1>t. /\ Loop \in Callers
      /\ at \in [Callers -> {"starting", "select", "idle", "locked", "calling",
                             "reporting", "analysing", "stopped"}]
      /\ outcome \in [Callers -> {"none", "clean", "partial", "failed"}]
      /\ healthy \in BOOLEAN
  BY SchedulerAssumption DEF HealthInv, SchedulerTypeOK
<1>1. ASSUME UNCHANGED <<latest, healthy, outcome>>,
             at[Loop] # "reporting", at'[Loop] # "reporting"
      PROVE  ReportedIsLatest'
  BY <1>0, <1>1 DEF ReportedIsLatest
<1>2. ASSUME NEW o, Result(Loop, o) PROVE ReportedIsLatest'
  BY <1>t, <1>2 DEF Result, ReportedIsLatest
<1>3. CASE ExecuteCollection \/ StopLoop
  <2>1. UNCHANGED <<latest, healthy, outcome>>
    BY <1>3 DEF ExecuteCollection, StopLoop, health, history
  <2>2. at[Loop] # "reporting" /\ at'[Loop] # "reporting"
    BY <1>t, <1>3 DEF ExecuteCollection, StopLoop
  <2> QED
    BY <1>1, <2>1, <2>2
<1>4. CASE SkipScheduled \/ GiveUpScheduled \/ CycleEnds(Loop) \/ CycleAborts(Loop)
  BY <1>2, <1>4 DEF SkipScheduled, GiveUpScheduled, CycleEnds, CycleAborts
<1>5. CASE Report(Loop)
  <2>1. /\ at[Loop] = "reporting" /\ at'[Loop] # "reporting"
        /\ healthy' = (outcome[Loop] = "clean") /\ UNCHANGED latest
    BY <1>t, <1>5, SchedulerAssumption DEF Report, history
  <2>2. outcome[Loop] = latest
    BY <1>0, <2>1 DEF ReportedIsLatest
  <2> QED
    BY <2>1, <2>2 DEF ReportedIsLatest
<1>6. ASSUME UNCHANGED <<latest, healthy, outcome, at>> PROVE ReportedIsLatest'
  BY <1>0, <1>6 DEF ReportedIsLatest
<1>7. CASE BeginScheduled \/ CancelContext(Loop) \/ Clock \/ UNCHANGED vars
  BY <1>6, <1>7 DEF BeginScheduled, CancelContext, Clock, vars, health, history
<1>8. CASE \E c \in Collectors :
             CollectorSucceeds(Loop, c) \/ CollectorFails(Loop, c)
  BY <1>6, <1>8 DEF CollectorSucceeds, CollectorFails, health
<1> QED
  BY <1>3, <1>4, <1>5, <1>7, <1>8, LoopSteps DEF Next, LoopStep

\* A call returns without error only when nothing is broken.
LEMMA CleanIsTotal ==
  ASSUME Triggers = {}, HealthInv, [Next]_vars,
         NEW p \in Callers, outcome'[p] = "clean", outcome[p] # "clean"
  PROVE  broken = {}
<1>0. /\ p = Loop /\ BrokenRuns
      /\ outcome \in [Callers -> {"none", "clean", "partial", "failed"}]
  BY SchedulerAssumption DEF HealthInv, SchedulerTypeOK
<1>1. CASE SkipScheduled
  BY <1>0, <1>1 DEF SkipScheduled, Skip, BrokenRuns
<1>2. CASE CycleEnds(Loop)
  <2>1. phase[Loop] = "in" /\ done[Loop] = targets[Loop]
    BY <1>2 DEF CycleEnds, Leave
  <2>2. errors[Loop] = {}
    BY <1>0, <1>2 DEF CycleEnds, Result, CycleOutcome
  <2> QED
    BY <1>0, <2>1, <2>2 DEF BrokenRuns
<1>3. CASE GiveUpScheduled \/ CycleAborts(Loop)
  BY <1>0, <1>3 DEF GiveUpScheduled, CycleAborts, Result
<1>4. CASE Report(Loop)
  BY <1>0, <1>4 DEF Report
<1>5. CASE UNCHANGED outcome
  BY <1>5
<1> QED
  BY <1>1, <1>2, <1>3, <1>4, <1>5, LoopSteps
  DEF Next, LoopStep, ExecuteCollection, BeginScheduled, StopLoop,
      CollectorSucceeds, CollectorFails, CancelContext, Clock, vars

\* While only the loop collects, health tells how the latest collection ended,
\* and a collection counts as successful only if the latest run of every
\* collector succeeded, for all collectors and intervals and whatever fails or
\* is cancelled (updateCollectionHealth).  A manual trigger reports after it
\* gave the token back, so with handlers at work neither holds.
THEOREM HealthAlwaysTrue ==
  ASSUME Triggers = {}
  PROVE  Spec => HealthIsTrue
<1>1. Init => HealthInv
  <2> SUFFICES ASSUME Init PROVE HealthInv
    OBVIOUS
  <2>1. SchedulerTypeOK /\ OutcomeWhere /\ CountsWhere
    BY FInvInit DEF FInv
  <2>2. BrokenRuns
    BY SchedulerAssumption DEF Init, CycleInit, BrokenRuns, Due
  <2>3. ReportedIsLatest
    BY SchedulerAssumption DEF Init, ReportedIsLatest
  <2> QED
    BY <2>1, <2>2, <2>3 DEF HealthInv
<1>2. HealthInv /\ [Next]_vars => HealthInv'
  <2> SUFFICES ASSUME HealthInv, [Next]_vars PROVE HealthInv'
    OBVIOUS
  <2>1. SchedulerTypeOK' /\ OutcomeWhere' /\ CountsWhere'
    BY TypeStep, WhereStep DEF HealthInv
  <2> QED
    BY <2>1, BrokenStep, ReportedStep DEF HealthInv
<1>3. HealthInv => StatusIsLatest
  BY SchedulerAssumption DEF HealthInv, ReportedIsLatest, StatusIsLatest
<1>4. HealthInv /\ [Next]_vars
        => [\A p \in Callers :
              outcome'[p] = "clean" /\ outcome[p] # "clean" => broken = {}]_vars
  BY CleanIsTotal
<1> QED
  BY <1>1, <1>2, <1>3, <1>4, PTL DEF Spec, HealthIsTrue, SuccessIsTotal

-----------------------------------------------------------------------------
\* The ticker's grid.

\* Multiples of m, from both sides.
LEMMA ModZero ==
  ASSUME NEW a \in Nat, NEW m \in Nat \ {0}, a % m = 0
  PROVE  \E k \in Nat : a = m * k
OBVIOUS

LEMMA ZeroMod ==
  ASSUME NEW k \in Nat, NEW m \in Nat \ {0}
  PROVE  (m * k) % m = 0
OBVIOUS

\* The next multiple of m is m away.
LEMMA NextMultiple ==
  ASSUME NEW m \in Nat, NEW i \in Nat, NEW j \in Nat, i < j
  PROVE  m * i + m <= m * j
<1>1. PICK d \in Nat : j = i + 1 + d
  <2>1. j - i - 1 \in Nat /\ j = i + 1 + (j - i - 1)
    OBVIOUS
  <2> QED
    BY <2>1
<1>2. m * j = m * i + m + m * d /\ m * d \in Nat /\ m * i \in Nat
  BY <1>1
<1> QED
  BY <1>2

LEMMA GridGap ==
  ASSUME NEW m \in Nat \ {0}, NEW a \in Nat, NEW b \in Nat,
         a % m = 0, b % m = 0, a < b
  PROVE  a + m <= b
<1>1. PICK i \in Nat : a = m * i
  BY ModZero
<1>2. PICK j \in Nat : b = m * j
  BY ModZero
<1>3. CASE i < j
  BY <1>1, <1>2, <1>3, NextMultiple
<1>4. CASE i = j
  BY <1>1, <1>2, <1>4
<1>5. CASE j < i
  <2>1. m * j + m <= m * i
    BY <1>5, NextMultiple
  <2> QED
    BY <1>1, <1>2, <2>1
<1> QED
  BY <1>3, <1>4, <1>5

\* Multiples add up.
LEMMA GridSum ==
  ASSUME NEW m \in Nat \ {0}, NEW a \in Nat, NEW b \in Nat,
         a % m = 0, b % m = 0
  PROVE  (a + b) % m = 0
<1>1. PICK i \in Nat : a = m * i
  BY ModZero
<1>2. PICK j \in Nat : b = m * j
  BY ModZero
<1>3. a + b = m * (i + j) /\ i + j \in Nat
  BY <1>1, <1>2
<1> QED
  BY <1>3, ZeroMod

\* The ticker's period is the least interval there is.
LEMMA MinIntervalLeast ==
  ASSUME Collectors # {}
  PROVE  /\ MinInterval \in Nat \ {0}
         /\ \A c \in Collectors : MinInterval <= Interval[c]
<1> DEFINE S == {Interval[c] : c \in Collectors}
<1>1. S \subseteq Nat \ {0} /\ S # {}
  BY CycleAssumption
<1>2. PICK x \in S : \A y \in S : ~(<<y, x>> \in OpToRel(<, Nat))
  BY <1>1, NatLessThanWellFounded, WFMin
<1>3. ASSUME NEW y \in S PROVE x <= y
  <2>1. x \in Nat /\ y \in Nat
    BY <1>1
  <2>2. y < x => <<y, x>> \in OpToRel(<, Nat)
    BY <2>1, Zenon DEF OpToRel
  <2>3. ~(y < x)
    BY <1>2, <2>2, Zenon
  <2> QED
    BY <2>1, <2>3
<1>4. x \in S /\ \A c \in Collectors : x <= Interval[c]
  BY <1>3
<1>5. MinInterval \in S /\ \A c \in Collectors : MinInterval <= Interval[c]
  BY <1>4 DEF MinInterval
<1> QED
  BY <1>1, <1>5

OnGrid(t) == t % MinInterval = 0

\* The loop has a tick it has not yet acted upon.
Pending == ticker \/ (at[Loop] = "calling" /\ phase[Loop] = "waiting")

\* A tick is taken at the time it comes, so that cycles begin on the grid, and
\* they end before the next tick.
TicksOnTime ==
  /\ at[Loop] = "starting" => now = 0 /\ \A c \in Collectors : begun[c] = Never
  /\ ~cancelled[Loop]
  /\ at[Loop] # "stopped" /\ Pending => OnGrid(now)
  /\ ticker => at[Loop] \in {"select", "stopped"}
  /\ phase[Loop] = "in" => /\ OnGrid(startedAt[Loop])
                           /\ startedAt[Loop] <= now
                           /\ now <= startedAt[Loop] + CycleTime

\* What lastRun can be behind the beginning of the run that set it.
RunsBegan ==
  /\ phase[Loop] = "in" =>
       \A c \in targets[Loop] : begun[c] = startedAt[Loop]
  /\ \A c \in Collectors :
       /\ begun[c] \in Nat => OnGrid(begun[c]) /\ begun[c] <= now
       /\ lastRun[c] \in Nat => /\ begun[c] \in Nat
                                /\ lastRun[c] <= begun[c] + CycleTime

\* t was the last tick the loop has acted upon: whatever was due then has begun.
ActedUpon(t) ==
  /\ OnGrid(t) /\ t <= now /\ now <= t + MinInterval
  /\ now = t + MinInterval => Pending
  /\ \A c \in Collectors : begun[c] \in Nat => t <= begun[c] + Interval[c]

LoopKeepsUp == at[Loop] # "stopped" => \E t \in Nat : ActedUpon(t)

PunctualInv == /\ SchedulerTypeOK
               /\ OutcomeWhere
               /\ CountsWhere
               /\ TicksOnTime
               /\ RunsBegan
               /\ LoopKeepsUp

PromptNext == Step \/ (Prompt /\ Clock)

\* The configurations in which the clock may be trusted to be on time: nobody
\* else takes the token, no call is cancelled, the ticker's period divides every
\* interval and is longer than a cycle.
Punctual ==
  /\ Triggers = {} /\ "cancel" \notin Faults
  /\ Collectors # {}
  /\ \A c \in Collectors : Interval[c] % MinInterval = 0
  /\ CycleTime < MinInterval

LEMMA PunctualNumbers ==
  ASSUME Punctual
  PROVE  /\ MinInterval \in Nat \ {0} /\ CycleTime \in Nat /\ Loop \in Callers
         /\ Callers = {Loop} /\ Never \notin Nat
         /\ \A c \in Collectors : /\ Interval[c] \in Nat
                                  /\ MinInterval <= Interval[c]
                                  /\ OnGrid(Interval[c])
BY MinIntervalLeast, CycleAssumption, SchedulerAssumption DEF Punctual, OnGrid

\* The clock moves towards the next tick, and sets it when it is there.
LEMMA PunctualClock ==
  ASSUME Punctual, PunctualInv, SchedulerTypeOK', Prompt, Clock
  PROVE  TicksOnTime' /\ RunsBegan' /\ LoopKeepsUp'
<1> DEFINE m == MinInterval
<1>n. /\ m \in Nat \ {0} /\ CycleTime \in Nat /\ Loop \in Callers
      /\ \A c \in Collectors : Interval[c] \in Nat /\ m <= Interval[c]
      /\ CycleTime < m
  BY PunctualNumbers DEF Punctual
<1>0. TicksOnTime /\ RunsBegan /\ LoopKeepsUp /\ OutcomeWhere
  BY DEF PunctualInv
<1>t. /\ now \in Nat /\ startedAt[Loop] \in Nat
      /\ lastRun \in [Collectors -> Nat \cup {Never}]
      /\ begun \in [Collectors -> Nat \cup {Never}]
      /\ ticker \in BOOLEAN
  BY <1>n DEF PunctualInv, SchedulerTypeOK, CycleTypeOK
<1>1. /\ now' = now + 1
      /\ UNCHANGED <<lastRun, phase, cancelled, targets, at, startedAt, begun>>
      /\ ticker' = (ticker \/ now' % m = 0)
  BY DEF Clock, Advance, history
<1>2. CASE at[Loop] = "stopped"
  <2>1. phase[Loop] # "in"
    BY <1>n, <1>0, <1>2 DEF OutcomeWhere
  <2>2. TicksOnTime'
    BY <1>0, <1>1, <1>2, <2>1 DEF TicksOnTime
  <2>3. RunsBegan'
    BY <1>0, <1>t, <1>1, <2>1 DEF RunsBegan
  <2>4. LoopKeepsUp'
    BY <1>1, <1>2 DEF LoopKeepsUp
  <2> QED
    BY <2>2, <2>3, <2>4
<1>3. CASE at[Loop] # "stopped"
  <2>1. /\ at[Loop] \in {"select", "calling"} /\ ~Pending
        /\ phase[Loop] = "in" => now < startedAt[Loop] + CycleTime
    BY <1>n, <1>0, <1>3 DEF Prompt, Pending, TicksOnTime, OutcomeWhere
  <2>2. ~ticker
    BY <2>1 DEF Pending
  <2>3. PICK t \in Nat : ActedUpon(t)
    BY <1>0, <1>3 DEF LoopKeepsUp
  <2>4. OnGrid(t) /\ t <= now /\ now < t + m
    BY <1>n, <1>t, <2>1, <2>3 DEF ActedUpon
  <2>5. t % m = 0 /\ m % m = 0
    BY <1>n, <2>4 DEF OnGrid
  <2>6. OnGrid(now') <=> now' = t + m
    <3>1. (t + m) % m = 0
      BY <1>n, <2>5, GridSum
    <3>2. ASSUME now' % m = 0 PROVE now' = t + m
      <4>1. now' \in Nat /\ t < now'
        BY <1>t, <1>1, <2>4
      <4>2. t + m <= now'
        BY <1>n, <2>5, <3>2, <4>1, GridGap
      <4> QED
        BY <1>n, <1>t, <1>1, <2>4, <4>2
    <3> QED
      BY <3>1, <3>2 DEF OnGrid
  <2>7. ticker' <=> now' = t + m
    BY <1>1, <2>2, <2>6 DEF OnGrid
  <2>8. phase[Loop] = "in" => now' < t + m
    <3> SUFFICES ASSUME phase[Loop] = "in" PROVE now' < t + m
      OBVIOUS
    <3>1. /\ startedAt[Loop] % m = 0 /\ startedAt[Loop] <= now
          /\ now < startedAt[Loop] + CycleTime
      BY <1>0, <2>1 DEF TicksOnTime, OnGrid
    <3>2. startedAt[Loop] <= t
      <4> SUFFICES ASSUME t < startedAt[Loop] PROVE FALSE
        BY <1>t
      <4>1. t + m <= startedAt[Loop]
        BY <1>n, <1>t, <2>5, <3>1, GridGap
      <4> QED
        BY <1>n, <1>t, <2>4, <3>1, <4>1
    <3> QED
      BY <1>n, <1>t, <1>1, <3>1, <3>2
  <2>9. at[Loop] = "calling" => phase[Loop] = "in"
    BY <2>1, <1>3 DEF Prompt
  <2>10. TicksOnTime'
    <3>1. at'[Loop] # "starting" /\ ~cancelled'[Loop]
      BY <1>0, <1>1, <2>1 DEF TicksOnTime
    <3>2. ticker' => at'[Loop] \in {"select", "stopped"}
      BY <1>t, <1>n, <1>1, <2>1, <2>7, <2>8, <2>9
    <3>3. Pending' => OnGrid(now')
      BY <1>1, <2>1, <2>2, <2>6, <2>7 DEF Pending
    <3>4. phase'[Loop] = "in" => /\ OnGrid(startedAt'[Loop])
                                 /\ startedAt'[Loop] <= now'
                                 /\ now' <= startedAt'[Loop] + CycleTime
      BY <1>n, <1>0, <1>t, <1>1, <2>1 DEF TicksOnTime, OnGrid
    <3> QED
      BY <3>1, <3>2, <3>3, <3>4 DEF TicksOnTime, OnGrid
  <2>11. RunsBegan'
    BY <1>0, <1>t, <1>1 DEF RunsBegan, OnGrid
  <2>12. ActedUpon(t)'
    <3>1. OnGrid(t)' /\ t <= now' /\ now' <= t + m
      BY <1>n, <1>t, <1>1, <2>4 DEF OnGrid
    <3>2. now' = t + m => Pending'
      BY <2>7 DEF Pending
    <3> QED
      BY <1>1, <2>3, <3>1, <3>2 DEF ActedUpon
  <2> QED
    BY <2>10, <2>11, <2>12 DEF LoopKeepsUp
<1> QED
  BY <1>2, <1>3
\* The tick the loop acted upon last stays so while time does.
LEMMA ActedKept ==
  ASSUME LoopKeepsUp, UNCHANGED <<now, begun>>, at[Loop] # "stopped",
         Pending => Pending'
  PROVE  LoopKeepsUp'
<1>1. PICK t \in Nat : ActedUpon(t)
  BY DEF LoopKeepsUp
<1>2. ActedUpon(t)'
  BY <1>1 DEF ActedUpon, OnGrid
<1> QED
  BY <1>2 DEF LoopKeepsUp

\* A collector that is not due at a tick began no more than its interval ago:
\* what the run took can hold lastRun back by less than a period, and the next
\* tick after the interval is a whole period away.
LEMMA NotDueBegan ==
  ASSUME Punctual, PunctualInv, OnGrid(now), NEW c \in Collectors, c \notin Due
  PROVE  begun[c] \in Nat /\ now <= begun[c] + Interval[c]
<1>n. /\ MinInterval \in Nat \ {0} /\ CycleTime \in Nat /\ Never \notin Nat
      /\ Interval[c] \in Nat /\ OnGrid(Interval[c])
      /\ CycleTime < MinInterval
  BY PunctualNumbers DEF Punctual
<1>t. now \in Nat /\ lastRun[c] \in Nat \cup {Never}
  BY DEF PunctualInv, SchedulerTypeOK, CycleTypeOK
<1>1. lastRun[c] \in Nat /\ now < lastRun[c] + Interval[c]
  BY <1>n, <1>t DEF Due
<1>2. /\ begun[c] \in Nat /\ OnGrid(begun[c])
      /\ lastRun[c] <= begun[c] + CycleTime
  BY <1>1 DEF PunctualInv, RunsBegan
<1>3. /\ begun[c] + Interval[c] \in Nat
      /\ (begun[c] + Interval[c]) % MinInterval = 0
  BY <1>n, <1>2, GridSum DEF OnGrid
<1>4. ASSUME begun[c] + Interval[c] < now PROVE FALSE
  <2>1. begun[c] + Interval[c] + MinInterval <= now
    BY <1>n, <1>t, <1>3, <1>4, GridGap DEF OnGrid
  <2> QED
    BY <1>n, <1>t, <1>1, <1>2, <2>1
<1> QED
  BY <1>n, <1>t, <1>2, <1>3, <1>4

\* At its turn the loop acts upon the tick: what is due begins now.
LEMMA ActsNow ==
  ASSUME Punctual, PunctualInv, Pending, at[Loop] # "stopped", now' = now,
         \A c \in Collectors :
           \/ begun'[c] = now
           \/ c \notin Due /\ begun'[c] = begun[c]
  PROVE  LoopKeepsUp'
<1>n. /\ MinInterval \in Nat \ {0}
      /\ \A c \in Collectors : Interval[c] \in Nat
  BY PunctualNumbers
<1>t. now \in Nat
  BY DEF PunctualInv, SchedulerTypeOK, CycleTypeOK
<1>1. OnGrid(now)
  BY DEF PunctualInv, TicksOnTime
<1>2. ASSUME NEW c \in Collectors, begun'[c] \in Nat
      PROVE  now <= begun'[c] + Interval[c]
  <2>1. CASE begun'[c] = now
    BY <1>n, <1>t, <2>1
  <2>2. CASE c \notin Due /\ begun'[c] = begun[c]
    BY <1>1, <2>2, NotDueBegan
  <2> QED
    BY <2>1, <2>2
<1>3. ActedUpon(now)'
  <2>1. OnGrid(now)' /\ now' <= now' /\ now' <= now' + MinInterval
    BY <1>n, <1>t, <1>1 DEF OnGrid
  <2>2. now' # now' + MinInterval
    BY <1>n, <1>t
  <2> QED
    BY <1>2, <2>1, <2>2 DEF ActedUpon
<1> QED
  BY <1>t, <1>3 DEF LoopKeepsUp

\* The other steps take no time.
LEMMA PunctualStep ==
  ASSUME Punctual, PunctualInv, SchedulerTypeOK', LoopStep
  PROVE  TicksOnTime' /\ RunsBegan' /\ LoopKeepsUp'
<1> DEFINE P == TicksOnTime' /\ RunsBegan' /\ LoopKeepsUp'
           m == MinInterval
<1>n. /\ m \in Nat \ {0} /\ CycleTime \in Nat /\ Loop \in Callers
      /\ Never \notin Nat /\ Callers = {Loop} /\ "cancel" \notin Faults
      /\ \A c \in Collectors : Interval[c] \in Nat
  BY PunctualNumbers DEF Punctual
<1>0. TicksOnTime /\ RunsBegan /\ LoopKeepsUp /\ OutcomeWhere
  BY DEF PunctualInv
<1>t. /\ now \in Nat /\ startedAt \in [Callers -> Nat]
      /\ phase \in [Callers -> {"out", "waiting", "in"}]
      /\ targets \in [Callers -> SUBSET Collectors]
      /\ cancelled \in [Callers -> BOOLEAN]
      /\ lastRun \in [Collectors -> Nat \cup {Never}]
      /\ begun \in [Collectors -> Nat \cup {Never}]
      /\ ticker \in BOOLEAN
      /\ at \in [Callers -> {"starting", "select", "idle", "locked", "calling",
                             "reporting", "analysing", "stopped"}]
  BY DEF PunctualInv, SchedulerTypeOK, CycleTypeOK
<1>g. \A t : OnGrid(t)' <=> t % m = 0
  BY DEF OnGrid
<1>1. CASE ExecuteCollection
  <2>1. /\ UNCHANGED <<now, lastRun, cancelled, startedAt, begun>>
        /\ at[Loop] \in {"starting", "select"} /\ at'[Loop] = "calling"
        /\ phase'[Loop] = "waiting"
        /\ \/ at[Loop] = "starting" /\ UNCHANGED ticker
           \/ at[Loop] = "select" /\ ticker /\ ticker' = FALSE
    BY <1>n, <1>t, <1>1 DEF ExecuteCollection, Request, history
  <2>2. OnGrid(now) /\ ~ticker'
    <3>1. CASE at[Loop] = "starting"
      <4>1. now = 0 /\ ~ticker
        BY <1>0, <3>1 DEF TicksOnTime
      <4>2. (m * 0) % m = 0 /\ m * 0 = 0
        BY <1>n, ZeroMod
      <4> QED
        BY <2>1, <3>1, <4>1, <4>2 DEF OnGrid
    <3>2. CASE at[Loop] = "select"
      BY <1>0, <2>1, <3>2 DEF TicksOnTime, Pending
    <3> QED
      BY <2>1, <3>1, <3>2
  <2>3. TicksOnTime'
    BY <1>0, <1>g, <2>1, <2>2 DEF TicksOnTime, OnGrid
  <2>4. RunsBegan'
    BY <1>0, <1>g, <2>1 DEF RunsBegan, OnGrid
  <2>5. LoopKeepsUp'
    BY <1>0, <2>1, ActedKept DEF Pending
  <2> QED
    BY <2>3, <2>4, <2>5
<1>2. CASE BeginScheduled
  <2>1. /\ UNCHANGED <<now, lastRun, cancelled, ticker, at>>
        /\ at[Loop] = "calling"
        /\ phase[Loop] = "waiting" /\ phase'[Loop] = "in"
        /\ targets'[Loop] = Due
        /\ startedAt'[Loop] = now
        /\ \A c \in Collectors : begun'[c] = IF c \in Due THEN now ELSE begun[c]
    BY <1>n, <1>t, <1>2
    DEF BeginScheduled, BeginDue, Begin, Stamp, NoteBegin
  <2>2. Pending /\ OnGrid(now) /\ ~ticker
    BY <1>0, <2>1 DEF TicksOnTime, Pending
  <2>3. TicksOnTime'
    BY <1>0, <1>n, <1>t, <1>g, <2>1, <2>2 DEF TicksOnTime, OnGrid, Pending
  <2>4. RunsBegan'
    <3>1. \A c \in targets'[Loop] : begun'[c] = startedAt'[Loop]
      BY <2>1 DEF Due
    <3>2. ASSUME NEW c \in Collectors
          PROVE  /\ begun'[c] \in Nat => OnGrid(begun'[c]) /\ begun'[c] <= now
                 /\ lastRun[c] \in Nat => /\ begun'[c] \in Nat
                                          /\ lastRun[c] <= begun'[c] + CycleTime
      <4>1. CASE c \in Due
        BY <1>0, <1>n, <1>t, <2>1, <2>2, <4>1 DEF RunsBegan
      <4>2. CASE c \notin Due
        BY <1>0, <2>1, <4>2 DEF RunsBegan
      <4> QED
        BY <4>1, <4>2
    <3> QED
      BY <1>g, <2>1, <3>1, <3>2 DEF RunsBegan, OnGrid
  <2>5. LoopKeepsUp'
    BY <2>1, <2>2, ActsNow
  <2> QED
    BY <2>3, <2>4, <2>5
<1>3. CASE SkipScheduled
  <2>1. /\ UNCHANGED <<now, lastRun, ticker, begun>>
        /\ at[Loop] = "calling" /\ at'[Loop] = "reporting"
        /\ phase[Loop] = "waiting" /\ phase'[Loop] = "out"
        /\ cancelled'[Loop] = FALSE
        /\ Due = {}
    BY <1>n, <1>t, <1>3 DEF SkipScheduled, Skip, Quit, Result
  <2>2. Pending /\ ~ticker
    BY <1>0, <2>1 DEF TicksOnTime, Pending
  <2>3. TicksOnTime'
    BY <1>0, <2>1, <2>2 DEF TicksOnTime, Pending
  <2>4. RunsBegan'
    BY <1>0, <1>g, <2>1 DEF RunsBegan, OnGrid
  <2>5. LoopKeepsUp'
    BY <2>1, <2>2, ActsNow
  <2> QED
    BY <2>3, <2>4, <2>5
<1>4. CASE GiveUpScheduled \/ CancelContext(Loop)
  BY <1>0, <1>n, <1>4
  DEF GiveUpScheduled, Withdraw, CancelContext, TicksOnTime
<1>5. CASE StopLoop
  <2>1. /\ UNCHANGED <<now, lastRun, ticker, begun, phase, cancelled, startedAt>>
        /\ at[Loop] = "select" /\ at'[Loop] = "stopped"
    BY <1>n, <1>t, <1>5 DEF StopLoop, cycleVars, history
  <2>2. phase[Loop] # "in"
    BY <1>0, <1>n, <2>1 DEF OutcomeWhere
  <2>3. TicksOnTime'
    BY <1>0, <2>1, <2>2 DEF TicksOnTime
  <2>4. RunsBegan'
    BY <1>0, <1>g, <2>1, <2>2 DEF RunsBegan, OnGrid
  <2>5. LoopKeepsUp'
    BY <2>1 DEF LoopKeepsUp
  <2> QED
    BY <2>3, <2>4, <2>5
<1>6. ASSUME NEW c \in Collectors,
             CollectorSucceeds(Loop, c) \/ CollectorFails(Loop, c)
      PROVE  P
  <2>1. /\ UNCHANGED <<now, ticker, begun, phase, cancelled, startedAt, targets, at>>
        /\ phase[Loop] = "in" /\ c \in targets[Loop]
        /\ \A d \in Collectors : \/ lastRun'[d] = lastRun[d]
                                 \/ d = c /\ lastRun'[d] = now
    BY <1>n, <1>t, <1>6
    DEF CollectorSucceeds, CollectorFails, Succeed, Fail, Finish
  <2>2. TicksOnTime'
    BY <1>0, <1>g, <2>1 DEF TicksOnTime, OnGrid, Pending
  <2>3. RunsBegan'
    <3>1. begun[c] = startedAt[Loop] /\ startedAt[Loop] \in Nat
          /\ now <= startedAt[Loop] + CycleTime
      BY <1>0, <1>n, <1>t, <2>1 DEF RunsBegan, TicksOnTime
    <3>2. ASSUME NEW d \in Collectors, lastRun'[d] \in Nat
          PROVE  begun[d] \in Nat /\ lastRun'[d] <= begun[d] + CycleTime
      BY <1>0, <1>n, <2>1, <3>1, <3>2 DEF RunsBegan
    <3> QED
      BY <1>0, <1>g, <2>1, <3>2 DEF RunsBegan, OnGrid
  <2>4. at[Loop] = "calling"
    BY <1>0, <1>n, <2>1 DEF OutcomeWhere
  <2>5. LoopKeepsUp'
    BY <1>0, <2>1, <2>4, ActedKept DEF Pending
  <2> QED
    BY <2>2, <2>3, <2>5
<1>7. CASE CycleEnds(Loop) \/ CycleAborts(Loop)
  <2>1. /\ UNCHANGED <<now, lastRun, ticker, begun>>
        /\ at'[Loop] = "reporting"
        /\ phase[Loop] = "in" /\ phase'[Loop] = "out"
        /\ cancelled'[Loop] = FALSE
    BY <1>n, <1>t, <1>7 DEF CycleEnds, CycleAborts, Leave, Abort, Quit, Result
  <2>2. at[Loop] = "calling" /\ ~ticker
    BY <1>0, <1>n, <2>1 DEF OutcomeWhere, TicksOnTime
  <2>3. TicksOnTime'
    BY <1>0, <2>1, <2>2 DEF TicksOnTime, Pending
  <2>4. RunsBegan'
    BY <1>0, <1>g, <2>1 DEF RunsBegan, OnGrid
  <2>5. LoopKeepsUp'
    BY <1>0, <2>1, <2>2, ActedKept DEF Pending
  <2> QED
    BY <2>3, <2>4, <2>5
<1>8. CASE Report(Loop)
  <2>1. /\ UNCHANGED <<now, lastRun, ticker, begun, phase, cancelled, startedAt>>
        /\ at[Loop] = "reporting" /\ at'[Loop] = "select"
    BY <1>n, <1>t, <1>8 DEF Report, cycleVars, history
  <2>2. phase[Loop] = "out" /\ ~ticker
    BY <1>0, <1>n, <2>1 DEF OutcomeWhere, TicksOnTime
  <2>3. TicksOnTime'
    BY <1>0, <2>1, <2>2 DEF TicksOnTime, Pending
  <2>4. RunsBegan'
    BY <1>0, <1>g, <2>1, <2>2 DEF RunsBegan, OnGrid
  <2>5. LoopKeepsUp'
    BY <1>0, <2>1, <2>2, ActedKept DEF Pending
  <2> QED
    BY <2>3, <2>4, <2>5
<1> QED
  BY <1>1, <1>2, <1>3, <1>4, <1>5, <1>6, <1>7, <1>8 DEF LoopStep

LEMMA PunctualKept ==
  ASSUME Punctual, PunctualInv, [PromptNext]_vars
  PROVE  PunctualInv'
<1>1. Triggers = {} /\ [Next]_vars
  BY DEF Punctual, PromptNext, Next
<1>2. SchedulerTypeOK' /\ OutcomeWhere' /\ CountsWhere'
  BY <1>1, TypeStep, WhereStep DEF PunctualInv
<1>3. CASE Step
  BY <1>1, <1>2, <1>3, LoopSteps, PunctualStep DEF PunctualInv
<1>4. CASE Prompt /\ Clock
  BY <1>2, <1>4, PunctualClock DEF PunctualInv
<1>5. CASE UNCHANGED vars
  <2>1. UNCHANGED <<now, lastRun, phase, cancelled, targets, at, startedAt,
                    ticker, begun>>
    BY <1>5 DEF vars, cycleVars, history
  <2> QED
    BY <1>2, <2>1
    DEF PunctualInv, TicksOnTime, RunsBegan, LoopKeepsUp, ActedUpon, Pending,
        OnGrid
<1> QED
  BY <1>3, <1>4, <1>5 DEF PromptNext

LEMMA PunctualInit ==
  ASSUME Punctual, Init
  PROVE  PunctualInv
<1>1. SchedulerTypeOK /\ OutcomeWhere /\ CountsWhere
  BY FInvInit DEF FInv
<1>2. /\ at[Loop] = "starting" /\ phase[Loop] = "out" /\ ~cancelled[Loop]
      /\ now = 0 /\ ~ticker
      /\ \A c \in Collectors : begun[c] = Never /\ lastRun[c] = Never
      /\ Never \notin Nat /\ MinInterval \in Nat \ {0}
  BY PunctualNumbers DEF Init, CycleInit
<1>3. TicksOnTime /\ RunsBegan
  BY <1>2 DEF TicksOnTime, RunsBegan, Pending
<1>4. ActedUpon(0)
  <2>1. (MinInterval * 0) % MinInterval = 0 /\ MinInterval * 0 = 0
    BY <1>2, ZeroMod
  <2>2. OnGrid(0) /\ 0 <= now /\ now <= 0 + MinInterval /\ now # 0 + MinInterval
    BY <1>2, <2>1 DEF OnGrid
  <2> QED
    BY <1>2, <2>2 DEF ActedUpon
<1> QED
  BY <1>1, <1>2, <1>3, <1>4 DEF PunctualInv, LoopKeepsUp

\* A scheduler that is not held up starts every collector again within two of
\* its intervals, for all collectors and all intervals that are multiples of the
\* shortest and longer than a cycle, and whatever fails: a collector that missed
\* a tick because its last run ended late is due at the next one
\* (runCollectionLoop, getDueCollectors).
THEOREM StartsWithinTwoIntervals ==
  ASSUME Punctual
  PROVE  PromptSpec => []RunsWithinTwoIntervals
<1>1. PunctualInv => RunsWithinTwoIntervals
  <2> SUFFICES ASSUME PunctualInv, at[Loop] # "stopped",
                      NEW c \in Collectors, begun[c] \in Nat
               PROVE  Elapsed(c) <= 2 * Interval[c]
    BY DEF RunsWithinTwoIntervals
  <2>1. PICK t \in Nat : ActedUpon(t)
    BY DEF PunctualInv, LoopKeepsUp
  <2>2. /\ now \in Nat /\ Interval[c] \in Nat
        /\ MinInterval \in Nat /\ MinInterval <= Interval[c]
    BY PunctualNumbers DEF PunctualInv, SchedulerTypeOK, CycleTypeOK
  <2>3. now <= t + MinInterval /\ t <= begun[c] + Interval[c]
    BY <2>1 DEF ActedUpon
  <2> QED
    BY <2>2, <2>3 DEF Elapsed
<1> QED
  BY <1>1, PunctualInit, PunctualKept, PTL DEF PromptSpec, PromptNext
=============================================================================
