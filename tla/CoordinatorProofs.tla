------------------------- MODULE CoordinatorProofs -------------------------
(***************************************************************************)
(* Safety of the coordinator, and that it implements CollectionCycle, for  *)
(* every set of callers and collectors, every interval and window, and     *)
(* every choice of entry points and faults.                                *)
(***************************************************************************)
EXTENDS CoordinatorRefinement, TLAPS

\* A goroutine exists only for a target of a caller that is running, and its
\* snapshot exists.
TaskOwned ==
  \A p \in Callers, c \in Collectors :
    task[p][c] # "off" => /\ pc[p] = "running"
                          /\ c \in call[p].targets
                          /\ call[p].snapshot \in Snapshots

\* Between the commit of the last transaction and the coverage row, nobody
\* else touches the tables the goroutine wrote.
OkIsWhole ==
  \A p \in Callers, c \in Collectors :
    task[p][c] = "ok" => data[call[p].snapshot][c] = "whole"

\* RunCollector names an existing snapshot before it waits.
OneHasSnapshot ==
  \A p \in Callers :
    call[p].op = "one" => call[p].snapshot \in Snapshots

-----------------------------------------------------------------------------
\* The locals of a call keep their type.
LEMMA CallStep ==
  ASSUME TypeOK, Next
  PROVE  call' \in [Callers -> Call]
<1> DEFINE CallOK == call' \in [Callers -> Call]
<1>0. /\ call \in [Callers -> Call]
      /\ now \in Nat
      /\ NoCall \in Call
      /\ DueCollectors \subseteq Collectors
      /\ Created \subseteq 0..MaxSnapshots
  BY ConstantsAssumption
  DEF TypeOK, NoCall, Call, DueCollectors, Created, Snapshots
<1>1. ASSUME NEW p \in Callers, BeginCollect(p) PROVE CallOK
  BY <1>0, <1>1 DEF BeginCollect, Call
<1>2. ASSUME NEW p \in Callers, BeginRunCollector(p) PROVE CallOK
  <2>1. PICK c \in Collectors, s \in Created :
          call' = [call EXCEPT ![p].op = "one", ![p].targets = {c},
                               ![p].snapshot = s]
    BY <1>2 DEF BeginRunCollector
  <2>2. {c} \in SUBSET Collectors /\ s \in 0..MaxSnapshots
    BY <1>0
  <2> QED
    BY <1>0, <2>1, <2>2, ZenonT(40) DEF Call
<1>3. ASSUME NEW p \in Callers, Return(p) PROVE CallOK
  BY <1>0, <1>3 DEF Return
<1>4. ASSUME NEW p \in Callers, StartCollect(p) PROVE CallOK
  BY <1>0, <1>4 DEF StartCollect, Call
<1>5. ASSUME NEW p \in Callers, StartCollectAll(p) PROVE CallOK
  BY <1>0, <1>5, ZenonT(40) DEF StartCollectAll, Call
<1>6. ASSUME NEW p \in Callers, StartRunCollector(p) PROVE CallOK
  BY <1>0, <1>6 DEF StartRunCollector, Call
<1>7. ASSUME NEW p \in Callers, NEW s \in Snapshots, RunTargets(p, s)
      PROVE  CallOK
  <2>1. s \in 0..MaxSnapshots /\ call' = [call EXCEPT ![p].snapshot = s]
    BY <1>7, ConstantsAssumption DEF RunTargets, Snapshots
  <2> QED
    BY <1>0, <2>1 DEF Call
<1>8. ASSUME NEW p \in Callers, ReuseSnapshot(p) PROVE CallOK
  BY <1>7, <1>8
  DEF ReuseSnapshot, Sharable, Recent, Latest, Created
<1>9. ASSUME NEW p \in Callers, CreateSnapshot(p) PROVE CallOK
  BY <1>7, <1>9 DEF CreateSnapshot
<1>10. ASSUME NEW p \in Callers, NEW c \in Collectors, RecordRun(p, c)
       PROVE  CallOK
  <2>1. \/ UNCHANGED call
        \/ call' = [call EXCEPT ![p].errors = @ \cup {c}]
    BY <1>10 DEF RecordRun
  <2> QED
    BY <1>0, <2>1 DEF Call
<1>11. ASSUME UNCHANGED call PROVE CallOK
  BY <1>0, <1>11
<1>12. CASE Restart
  BY <1>0, <1>12 DEF Restart
<1> QED
  BY <1>1, <1>2, <1>3, <1>4, <1>5, <1>6, <1>8, <1>9, <1>10, <1>11, <1>12, ZenonT(60)
  DEF Next, Proceed, Task, GiveUp, NothingDue, SnapshotFails, EndCycle,
      Cancel, Tick, CheckContext, WriteFirst, WriteLast, CollectFails,
      SetLastRun, calls

\* Recording moves the goroutine on, whichever way its run ended.
LEMMA RecordRunTask ==
  ASSUME NEW p \in Callers, NEW c \in Collectors, RecordRun(p, c), TypeOK
  PROVE  task' \in [Callers -> [Collectors -> TaskStates]]
<1>1. SetTask(p, c, "recorded") \/ SetTask(p, c, "done")
  BY DEF RecordRun
<1>2. /\ task \in [Callers -> [Collectors -> TaskStates]]
      /\ "recorded" \in TaskStates /\ "done" \in TaskStates
  BY DEF TypeOK, TaskStates
<1> QED
  BY <1>1, <1>2 DEF SetTask

\* The upsert changes one row, or none.
LEMMA RecordRunCoverage ==
  ASSUME NEW p \in Callers, NEW c \in Collectors, RecordRun(p, c), TypeOK
  PROVE  coverage' \in [Snapshots -> [Collectors -> Row]]
<1>1. OutcomeRow(p, c) \in Row
  BY DEF OutcomeRow, Row, TypeOK
<1>2. \/ UNCHANGED coverage
      \/ coverage' =
           [coverage EXCEPT ![call[p].snapshot][c] = OutcomeRow(p, c)]
  BY DEF RecordRun, WriteCoverage
<1>3. coverage \in [Snapshots -> [Collectors -> Row]]
  BY DEF TypeOK
<1> QED
  BY <1>1, <1>2, <1>3

\* Every variable keeps its type.
LEMMA TypeStep == TypeOK /\ [Next]_vars => TypeOK'
<1> SUFFICES ASSUME TypeOK, Next PROVE TypeOK'
  BY DEF TypeOK, vars, memory, calls, store
<1>0. call' \in [Callers -> Call]
  BY CallStep
<1> USE <1>0, ConstantsAssumption DEF TypeOK, memory, calls, store, Row,
        NoRow, NoTasks, Phases, TaskStates, Snapshots, Created
<1>1. ASSUME NEW p \in Callers, BeginCollect(p) PROVE TypeOK'
  BY <1>1 DEF BeginCollect
<1>2. ASSUME NEW p \in Callers, BeginRunCollector(p) PROVE TypeOK'
  BY <1>2 DEF BeginRunCollector
<1>3. ASSUME NEW p \in Callers, GiveUp(p) PROVE TypeOK'
  BY <1>3 DEF GiveUp, Return
<1>4. ASSUME NEW p \in Callers, StartCollect(p) PROVE TypeOK'
  BY <1>4 DEF StartCollect, DueCollectors
<1>5. ASSUME NEW p \in Callers, NothingDue(p) PROVE TypeOK'
  BY <1>5 DEF NothingDue, Return
<1>6. ASSUME NEW p \in Callers, StartCollectAll(p) PROVE TypeOK'
  BY <1>6 DEF StartCollectAll
<1>7. ASSUME NEW p \in Callers, StartRunCollector(p) PROVE TypeOK'
  BY <1>7 DEF StartRunCollector
<1>8. ASSUME NEW p \in Callers, ReuseSnapshot(p) PROVE TypeOK'
  BY <1>8, SMTT(20) DEF ReuseSnapshot, RunTargets, Sharable, Recent, Latest
<1>9. ASSUME NEW p \in Callers, CreateSnapshot(p) PROVE TypeOK'
  <2>1. CaptureTime(p) \in Nat
    BY DEF CaptureTime, Call
  <2>2. captured' \in [Snapshots -> Nat \cup {Never}]
    BY <1>9, <2>1 DEF CreateSnapshot
  <2>3. forced' \in SUBSET Snapshots
    BY <1>9 DEF CreateSnapshot
  <2> QED
    BY <1>9, <2>2, <2>3 DEF CreateSnapshot, RunTargets
<1>10. ASSUME NEW p \in Callers, SnapshotFails(p) PROVE TypeOK'
  BY <1>10 DEF SnapshotFails, ReleaseCycle, Return
<1>11. ASSUME NEW p \in Callers, EndCycle(p) PROVE TypeOK'
  BY <1>11 DEF EndCycle, ReleaseCycle, Return
<1>12. ASSUME NEW p \in Callers, Cancel(p) PROVE TypeOK'
  BY <1>12 DEF Cancel
<1>13. ASSUME NEW p \in Callers, NEW c \in Collectors, CheckContext(p, c)
       PROVE  TypeOK'
  BY <1>13 DEF CheckContext, SetTask
<1>14. ASSUME NEW p \in Callers, NEW c \in Collectors, WriteFirst(p, c)
       PROVE  TypeOK'
  BY <1>14 DEF WriteFirst, SetTask
<1>15. ASSUME NEW p \in Callers, NEW c \in Collectors, WriteLast(p, c)
       PROVE  TypeOK'
  BY <1>15 DEF WriteLast, SetTask
<1>16. ASSUME NEW p \in Callers, NEW c \in Collectors, CollectFails(p, c)
       PROVE  TypeOK'
  BY <1>16 DEF CollectFails, SetTask
<1>17. ASSUME NEW p \in Callers, NEW c \in Collectors, RecordRun(p, c)
       PROVE  TypeOK'
  <2> DEFINE s == call[p].snapshot
  <2>1. task' \in [Callers -> [Collectors -> TaskStates]]
    BY <1>17, RecordRunTask
  <2>2. coverage' \in [Snapshots -> [Collectors -> Row]]
    BY <1>17, RecordRunCoverage
  <2>3. s \in 0..MaxSnapshots
    BY DEF Call
  <2> QED
    BY <1>17, <2>1, <2>2, <2>3 DEF RecordRun, WriteCoverage
<1>18. ASSUME NEW p \in Callers, NEW c \in Collectors, SetLastRun(p, c)
       PROVE  TypeOK'
  <2>1. ran' \in [Collectors -> Run]
    BY <1>18 DEF SetLastRun, Run, Call
  <2> QED
    BY <1>18, <2>1 DEF SetLastRun, SetTask
<1>19. CASE Tick
  BY <1>19 DEF Tick
<1>20. CASE Restart
  BY <1>20 DEF Restart, NoRun, Run
<1> QED
  BY <1>1, <1>2, <1>3, <1>4, <1>5, <1>6, <1>7, <1>8, <1>9, <1>10, <1>11,
     <1>12, <1>13, <1>14, <1>15, <1>16, <1>17, <1>18, <1>19, <1>20
  DEF Next, Proceed, Task

\* The coordinator's variables always have their types.
THEOREM TypeCorrect == Spec => []TypeOK
<1>1. Init => TypeOK
  BY ConstantsAssumption
  DEF Init, TypeOK, Call, Row, Run, NoCall, NoRow, NoRun, NoTasks, Phases,
      TaskStates, Snapshots
<1>2. QED
  BY <1>1, TypeStep, PTL DEF Spec

-----------------------------------------------------------------------------
\* What a step can do to the set of callers inside a cycle.
Enters(p) == /\ cycle /\ ~cycle'
             /\ pc' \in {[pc EXCEPT ![p] = "holding"],
                         [pc EXCEPT ![p] = "running"]}

Leaves(p) == /\ Holds(p) /\ ~cycle /\ cycle'
             /\ pc' = [pc EXCEPT ![p] = "idle"]

Stays == cycle' = cycle /\ \A p \in Callers : Holds(p)' <=> Holds(p)

LEMMA StepShape ==
  ASSUME TypeOK, Next
  PROVE  \/ \E p \in Callers : Enters(p) \/ Leaves(p)
         \/ Stays
         \/ Restart
<1> USE DEF TypeOK, Holds, memory, calls
<1>1. ASSUME NEW p \in Callers,
             \/ StartCollect(p) \/ StartCollectAll(p) \/ StartRunCollector(p)
      PROVE  Enters(p)
  BY <1>1 DEF StartCollect, StartCollectAll, StartRunCollector, Enters
<1>2. ASSUME NEW p \in Callers, SnapshotFails(p) \/ EndCycle(p)
      PROVE  Leaves(p)
  BY <1>2 DEF SnapshotFails, EndCycle, ReleaseCycle, Return, Leaves
<1>3. ASSUME NEW p \in Callers,
             \/ BeginCollect(p) \/ BeginRunCollector(p) \/ GiveUp(p)
             \/ NothingDue(p)
      PROVE  Stays
  BY <1>3 DEF BeginCollect, BeginRunCollector, GiveUp, NothingDue, Return, Stays
<1>4. ASSUME NEW p \in Callers, ReuseSnapshot(p) \/ CreateSnapshot(p)
      PROVE  Stays
  BY <1>4 DEF ReuseSnapshot, CreateSnapshot, RunTargets, Stays
<1>5. ASSUME NEW p \in Callers, NEW c \in Collectors, Task(p, c)
      PROVE  Stays
  BY <1>5
  DEF Task, CheckContext, WriteFirst, WriteLast, CollectFails, RecordRun,
      SetLastRun, Stays
<1>6. ASSUME NEW p \in Callers, Cancel(p) PROVE Stays
  BY <1>6 DEF Cancel, Stays
<1>7. ASSUME Tick PROVE Stays
  BY <1>7 DEF Tick, Stays
<1> QED
  BY <1>1, <1>2, <1>3, <1>4, <1>5, <1>6, <1>7 DEF Next, Proceed

LEMMA ExclusiveStep == TypeOK /\ CycleExclusive /\ [Next]_vars => CycleExclusive'
<1> SUFFICES ASSUME TypeOK, CycleExclusive, Next PROVE CycleExclusive'
  BY DEF CycleExclusive, Holds, vars, memory, calls
<1> USE DEF TypeOK, CycleExclusive, Holds
<1>1. ASSUME NEW p \in Callers, Enters(p) PROVE CycleExclusive'
  BY <1>1 DEF Enters
<1>2. ASSUME NEW p \in Callers, Leaves(p) PROVE CycleExclusive'
  BY <1>2 DEF Leaves
<1>3. CASE Stays
  BY <1>3 DEF Stays
<1>4. CASE Restart
  BY <1>4 DEF Restart
<1> QED
  BY <1>1, <1>2, <1>3, <1>4, StepShape

\* Cycles never overlap, and the token is in the channel whenever no cycle is
\* running: for any number of loops and handlers, whatever fails.
THEOREM CyclesExclusive == Spec => []CycleExclusive
<1>1. Init => CycleExclusive
  BY DEF Init, CycleExclusive, Holds
<1>2. QED
  BY <1>1, ExclusiveStep, TypeCorrect, PTL DEF Spec

-----------------------------------------------------------------------------
\* The strengthening of CoverageHonest that is inductive.
IInv == /\ TypeOK
        /\ CycleExclusive
        /\ TaskOwned
        /\ OneHasSnapshot
        /\ OkIsWhole
        /\ CoverageHonest

\* Recording an outcome leaves what the call is doing, and starts no goroutine.
LEMMA RecordRunFrame ==
  ASSUME TypeOK, NEW p \in Callers, NEW c \in Collectors, RecordRun(p, c)
  PROVE  /\ \A q \in Callers : /\ call'[q].op = call[q].op
                               /\ call'[q].targets = call[q].targets
                               /\ call'[q].snapshot = call[q].snapshot
         /\ \A q \in Callers, d \in Collectors :
              task'[q][d] # "off" => task[q][d] # "off"
         /\ UNCHANGED pc
<1>1. call \in [Callers -> Call] /\ task \in [Callers -> [Collectors -> TaskStates]]
  BY DEF TypeOK
<1>2. \/ UNCHANGED call
      \/ call' = [call EXCEPT ![p].errors = @ \cup {c}]
  BY DEF RecordRun
<1>3. SetTask(p, c, "recorded") \/ SetTask(p, c, "done")
  BY DEF RecordRun
<1>4. task[p][c] # "off" /\ UNCHANGED pc
  BY DEF RecordRun
<1>5. \A q \in Callers : /\ call'[q].op = call[q].op
                         /\ call'[q].targets = call[q].targets
                         /\ call'[q].snapshot = call[q].snapshot
  BY <1>1, <1>2 DEF Call
<1>6. \A q \in Callers, d \in Collectors :
        task'[q][d] # "off" => task[q][d] # "off"
  BY <1>1, <1>3, <1>4 DEF SetTask
<1> QED
  BY <1>4, <1>5, <1>6

\* Entering a cycle changes one call, and not its snapshot.
LEMMA StartFrame ==
  ASSUME TypeOK, NEW p \in Callers, StartCollect(p) \/ StartCollectAll(p)
  PROVE  /\ \A q \in Callers : q # p => call'[q] = call[q]
         /\ call'[p].op # "one"
         /\ pc' = [pc EXCEPT ![p] = "holding"]
         /\ pc[p] # "running"
         /\ UNCHANGED task
<1>1. call \in [Callers -> Call]
  BY DEF TypeOK
<1>2. CASE StartCollect(p)
  <2>1. /\ call' = [call EXCEPT ![p].started = now,
                               ![p].targets = DueCollectors]
        /\ call[p].op = "collect"
    BY <1>2 DEF StartCollect
  <2>2. /\ \A q \in Callers : q # p => call'[q] = call[q]
        /\ call'[p].op # "one"
    BY <1>1, <2>1 DEF Call
  <2> QED
    BY <1>2, <2>2 DEF StartCollect
<1>3. CASE StartCollectAll(p)
  <2>1. call' = [call EXCEPT ![p].op = "all", ![p].started = now,
                             ![p].targets = Collectors]
    BY <1>3 DEF StartCollectAll
  <2>2. /\ \A q \in Callers : q # p => call'[q] = call[q]
        /\ call'[p].op # "one"
    BY <1>1, <2>1 DEF Call
  <2> QED
    BY <1>3, <2>2 DEF StartCollectAll
<1> QED
  BY <1>2, <1>3

LEMMA OwnedStep ==
  ASSUME TypeOK, TaskOwned, OneHasSnapshot, Next
  PROVE  TaskOwned' /\ OneHasSnapshot'
<1> USE DEF TypeOK, TaskOwned, OneHasSnapshot, memory, calls, Call
<1>1. ASSUME NEW p \in Callers, BeginCollect(p)
      PROVE  TaskOwned' /\ OneHasSnapshot'
  BY <1>1 DEF BeginCollect
<1>2. ASSUME NEW p \in Callers, BeginRunCollector(p)
      PROVE  TaskOwned' /\ OneHasSnapshot'
  <2>1. PICK c \in Collectors, s \in Created :
          call' = [call EXCEPT ![p].op = "one", ![p].targets = {c},
                               ![p].snapshot = s]
    BY <1>2 DEF BeginRunCollector
  <2>2. /\ \A q \in Callers : q # p => call'[q] = call[q]
        /\ call'[p].snapshot = s
        /\ s \in Snapshots
    BY <2>1 DEF Created
  <2>3. UNCHANGED task /\ task[p] = [d \in Collectors |-> task[p][d]]
    BY <1>2 DEF BeginRunCollector
  <2>4. pc[p] = "idle" /\ pc' = [pc EXCEPT ![p] = "waiting"]
    BY <1>2 DEF BeginRunCollector
  <2> QED
    BY <2>2, <2>3, <2>4
<1>3. ASSUME NEW p \in Callers, Return(p)
      PROVE  TaskOwned' /\ OneHasSnapshot'
  BY <1>3 DEF Return, NoCall, NoTasks
<1>4. ASSUME NEW p \in Callers, StartCollect(p) \/ StartCollectAll(p)
      PROVE  TaskOwned' /\ OneHasSnapshot'
  <2> HIDE DEF Call, TypeOK
  <2>1. /\ \A q \in Callers : q # p => call'[q] = call[q]
        /\ call'[p].op # "one"
        /\ pc' = [pc EXCEPT ![p] = "holding"]
        /\ pc[p] # "running"
        /\ UNCHANGED task
    BY <1>4, StartFrame
  <2>2. \A c \in Collectors : task[p][c] = "off"
    BY <2>1
  <2>3. \A q \in Callers : q # p => pc'[q] = pc[q]
    BY <2>1 DEF TypeOK
  <2> QED
    BY <2>1, <2>2, <2>3
<1>5. ASSUME NEW p \in Callers, StartRunCollector(p)
      PROVE  TaskOwned' /\ OneHasSnapshot'
  BY <1>5 DEF StartRunCollector
<1>6. ASSUME NEW p \in Callers, NEW s \in Snapshots, RunTargets(p, s)
      PROVE  UNCHANGED cancelled => TaskOwned' /\ OneHasSnapshot'
  BY <1>6 DEF RunTargets
<1>7. ASSUME NEW p \in Callers, ReuseSnapshot(p) \/ CreateSnapshot(p)
      PROVE  TaskOwned' /\ OneHasSnapshot'
  BY <1>6, <1>7
  DEF ReuseSnapshot, CreateSnapshot, Sharable, Recent, Latest, Created
<1>8. ASSUME NEW p \in Callers, NEW c \in Collectors, Task(p, c)
      PROVE  TaskOwned' /\ OneHasSnapshot'
  <2>1. ASSUME NEW t, SetTask(p, c, t), task[p][c] # "off", UNCHANGED <<pc, call>>
        PROVE  TaskOwned' /\ OneHasSnapshot'
    BY <2>1 DEF SetTask
  <2>2. CASE RecordRun(p, c)
    BY <2>2, RecordRunFrame
  <2> QED
    BY <1>8, <2>1, <2>2
    DEF Task, CheckContext, WriteFirst, WriteLast, CollectFails, SetLastRun
<1>9. ASSUME UNCHANGED <<pc, call, task>>
      PROVE  TaskOwned' /\ OneHasSnapshot'
  BY <1>9
<1>10. CASE Restart
  BY <1>10 DEF Restart, NoCall, NoTasks
<1> QED
  BY <1>1, <1>2, <1>3, <1>4, <1>5, <1>7, <1>8, <1>9, <1>10
  DEF Next, Proceed, GiveUp, NothingDue, SnapshotFails, EndCycle, Cancel, Tick

\* A step that writes no table, and forgets no run that still has to be recorded.
Quiet ==
  /\ UNCHANGED <<coverage, data, lost>>
  /\ \A p \in Callers, c \in Collectors :
       task'[p][c] = "ok" => /\ task[p][c] = "ok"
                             /\ call'[p].snapshot = call[p].snapshot
  /\ \A p \in Callers, c \in Collectors :
       pc[p] = "running" /\ task[p][c] \in {"torn", "ok", "failed"} =>
         /\ pc'[p] = "running"
         /\ task'[p][c] \in {"torn", "ok", "failed"}
         /\ call'[p].snapshot = call[p].snapshot

LEMMA QuietStep ==
  ASSUME OkIsWhole, CoverageHonest, Quiet
  PROVE  OkIsWhole' /\ CoverageHonest'
BY DEF OkIsWhole, CoverageHonest, InFlight, Unrecorded, Quiet

\* A call that returns has no goroutine left with an outcome to record.
LEMMA ReturnQuiet ==
  ASSUME TypeOK, TaskOwned, NEW p \in Callers, Return(p),
         UNCHANGED <<coverage, data, lost>>,
         pc[p] = "running" => AllDone(p)
  PROVE  Quiet
<1>1. \A c \in Collectors : task[p][c] \in {"off", "done"}
  BY DEF TaskOwned, AllDone
<1>2. /\ \A q \in Callers : q # p => /\ pc'[q] = pc[q]
                                     /\ call'[q] = call[q]
                                     /\ task'[q] = task[q]
      /\ \A c \in Collectors : task'[p][c] = "off"
  BY DEF Return, TypeOK, NoTasks
<1> QED
  BY <1>1, <1>2 DEF Quiet

\* A caller that is not running has no goroutines.
LEMMA NoGoroutines ==
  ASSUME TaskOwned, NEW p \in Callers, pc[p] # "running"
  PROVE  \A c \in Collectors : task[p][c] = "off"
BY DEF TaskOwned

\* Choosing a snapshot starts goroutines that have done nothing yet.
LEMMA RunTargetsQuiet ==
  ASSUME TypeOK, TaskOwned, NEW p \in Callers, NEW s \in Snapshots,
         pc[p] = "holding", RunTargets(p, s), UNCHANGED <<coverage, data, lost>>
  PROVE  Quiet
<1>1. \A c \in Collectors : task[p][c] = "off"
  BY NoGoroutines
<1>2. /\ \A q \in Callers : q # p => /\ pc'[q] = pc[q]
                                     /\ call'[q] = call[q]
                                     /\ task'[q] = task[q]
      /\ \A c \in Collectors : task'[p][c] \in {"off", "ready"}
  BY DEF RunTargets, TypeOK
<1> QED
  BY <1>1, <1>2 DEF Quiet

\* A caller that enters or awaits a cycle, and one whose context ends.
LEMMA EnterQuiet ==
  ASSUME TypeOK, TaskOwned, NEW p \in Callers,
         \/ BeginCollect(p) \/ BeginRunCollector(p) \/ StartCollect(p)
         \/ StartCollectAll(p) \/ StartRunCollector(p) \/ Cancel(p)
  PROVE  Quiet
<1>1. CASE Cancel(p)
  BY <1>1 DEF Cancel, Quiet, store
<1>2. CASE ~Cancel(p)
  <2>1. pc[p] # "running" /\ UNCHANGED <<coverage, data, lost>>
    BY <1>2 DEF BeginCollect, BeginRunCollector, StartCollect,
                StartCollectAll, StartRunCollector, store
  <2>2. \A c \in Collectors : task[p][c] = "off"
    BY <2>1, NoGoroutines
  <2>3. \A q \in Callers : q # p => /\ pc'[q] = pc[q]
                                  /\ task'[q] = task[q]
                                  /\ call'[q] = call[q]
    <3>1. CASE BeginCollect(p)
      BY <3>1 DEF BeginCollect, TypeOK
    <3>2. CASE BeginRunCollector(p)
      BY <3>2 DEF BeginRunCollector, TypeOK
    <3>3. CASE StartCollect(p)
      BY <3>3 DEF StartCollect, TypeOK
    <3>4. CASE StartCollectAll(p)
      BY <3>4 DEF StartCollectAll, TypeOK
    <3>5. CASE StartRunCollector(p)
      BY <3>5 DEF StartRunCollector, TypeOK
    <3> QED
      BY <1>2, <3>1, <3>2, <3>3, <3>4, <3>5
  <2>4. \A c \in Collectors : task'[p][c] \in {"off", "collecting"}
    <3>1. CASE StartRunCollector(p)
      BY <3>1 DEF StartRunCollector, TypeOK
    <3>2. CASE ~StartRunCollector(p)
      BY <1>2, <2>2, <3>2
      DEF BeginCollect, BeginRunCollector, StartCollect, StartCollectAll
    <3> QED
      BY <3>1, <3>2
  <2> QED
    BY <2>1, <2>2, <2>3, <2>4 DEF Quiet
<1> QED
  BY <1>1, <1>2

\* The steps of a goroutine that write no table.
LEMMA TaskQuiet ==
  ASSUME TypeOK, NEW p \in Callers, NEW c \in Collectors,
         CheckContext(p, c) \/ CollectFails(p, c) \/ SetLastRun(p, c)
  PROVE  Quiet
<1>1. /\ UNCHANGED <<coverage, data, lost, pc, call>>
      /\ \E t \in {"failed", "collecting", "done"} : SetTask(p, c, t)
      /\ \/ task[p][c] \in {"ready", "recorded"}
         \/ task[p][c] \in {"collecting", "torn"} /\ SetTask(p, c, "failed")
  BY DEF CheckContext, CollectFails, SetLastRun, store
<1> QED
  BY <1>1 DEF Quiet, SetTask, TypeOK

\* A transaction that commits puts its run in flight; nobody else has a run in
\* the same tables, because nobody else is inside a cycle.
LEMMA WriteStep ==
  ASSUME IInv, NEW p \in Callers, NEW c \in Collectors,
         WriteFirst(p, c) \/ WriteLast(p, c)
  PROVE  OkIsWhole' /\ CoverageHonest'
<1> DEFINE s == call[p].snapshot
<1>1. PICK t \in {<<"torn", "torn">>, <<"ok", "whole">>} :
        /\ SetTask(p, c, t[1])
        /\ data' = [data EXCEPT ![s][c] = t[2]]
  BY DEF WriteFirst, WriteLast
<1>2. /\ pc[p] = "running" /\ task[p][c] # "off"
      /\ UNCHANGED <<pc, call, coverage, lost>>
  BY DEF WriteFirst, WriteLast
<1>3. s \in Snapshots
  BY <1>2 DEF IInv, TaskOwned
<1>4. \A q \in Callers, d \in Collectors : task[q][d] = "ok" => q = p
  BY <1>2 DEF IInv, TaskOwned, CycleExclusive, Holds
<1>5. /\ task'[p][c] = t[1] /\ data'[s][c] = t[2]
      /\ \A q \in Callers, d \in Collectors :
           q # p \/ d # c => task'[q][d] = task[q][d]
      /\ \A r \in Snapshots, d \in Collectors :
           r # s \/ d # c => data'[r][d] = data[r][d]
  BY <1>1, <1>3 DEF IInv, TypeOK, SetTask
<1>6. OkIsWhole'
  BY <1>1, <1>2, <1>4, <1>5 DEF IInv, OkIsWhole
<1>7. ASSUME NEW r \in Snapshots, NEW d \in Collectors, Unrecorded(r, d)
      PROVE  Unrecorded(r, d)'
  BY <1>1, <1>2, <1>5, <1>7 DEF Unrecorded
<1>8. Unrecorded(s, c)'
  BY <1>1, <1>2, <1>5 DEF Unrecorded
<1>9. CoverageHonest'
  BY <1>2, <1>5, <1>7, <1>8 DEF IInv, CoverageHonest, InFlight
<1> QED
  BY <1>6, <1>9

\* The row of a successful run is written over whole tables; any other outcome
\* leaves no success row, or is on the list of lost records.
LEMMA RecordStep ==
  ASSUME IInv, NEW p \in Callers, NEW c \in Collectors, RecordRun(p, c)
  PROVE  OkIsWhole' /\ CoverageHonest'
<1> DEFINE s == call[p].snapshot
<1>1. TypeOK /\ s \in Snapshots
  BY DEF IInv, TaskOwned, RecordRun
<1>2. /\ UNCHANGED data
      /\ SetTask(p, c, "recorded") \/ SetTask(p, c, "done")
      /\ task[p][c] \in {"ok", "failed"}
  BY DEF RecordRun
<1>3. /\ \A q \in Callers : call'[q].snapshot = call[q].snapshot
      /\ UNCHANGED pc
  BY <1>1, RecordRunFrame
<1>4. \A q \in Callers, d \in Collectors :
        /\ q # p \/ d # c => task'[q][d] = task[q][d]
        /\ task'[q][d] = "ok" => task[q][d] = "ok"
  BY <1>1, <1>2 DEF SetTask, TypeOK
<1>5. OkIsWhole'
  BY <1>2, <1>3, <1>4 DEF IInv, OkIsWhole
<1>6. ASSUME NEW r \in Snapshots, NEW d \in Collectors, Unrecorded(r, d),
             r # s \/ d # c
      PROVE  Unrecorded(r, d)'
  BY <1>3, <1>4, <1>6 DEF Unrecorded
<1>7. \/ /\ coverage' = [coverage EXCEPT ![s][c] = OutcomeRow(p, c)]
         /\ lost' = lost \ {<<s, c>>}
      \/ coverage' = coverage /\ lost' = lost \cup {<<s, c>>}
  BY DEF RecordRun, WriteCoverage
<1>8. \A r \in Snapshots, d \in Collectors :
        r # s \/ d # c => /\ coverage'[r][d] = coverage[r][d]
                          /\ <<r, d>> \in lost => <<r, d>> \in lost'
  BY <1>1, <1>7 DEF TypeOK
<1>9. /\ coverage'[s][c].status = "success"
      /\ <<s, c>> \notin lost'
      => data'[s][c] = "whole"
  <2>1. <<s, c>> \notin lost' => coverage'[s][c] = OutcomeRow(p, c)
    BY <1>1, <1>7 DEF TypeOK
  <2>2. OutcomeRow(p, c).status = "success" => task[p][c] = "ok"
    BY DEF OutcomeRow
  <2> QED
    BY <1>2, <2>1, <2>2 DEF IInv, OkIsWhole
<1>10. CoverageHonest'
  <2> SUFFICES ASSUME NEW r \in Snapshots, NEW d \in Collectors,
                      coverage'[r][d].status = "success",
                      <<r, d>> \notin lost', ~Unrecorded(r, d)'
               PROVE  data'[r][d] = "whole"
    BY DEF CoverageHonest, InFlight
  <2>1. CASE r = s /\ d = c
    BY <1>9, <2>1
  <2>2. CASE r # s \/ d # c
    <3>1. ~Unrecorded(r, d)
      BY <1>6, <2>2
    <3>2. coverage'[r][d] = coverage[r][d]
      BY <1>8, <2>2
    <3>3. <<r, d>> \notin lost
      BY <1>8, <2>2
    <3> QED
      BY <1>2, <3>1, <3>2, <3>3 DEF IInv, CoverageHonest, InFlight
  <2> QED
    BY <2>1, <2>2
<1> QED
  BY <1>5, <1>10

\* A crash moves every run in flight to the list of lost records.
LEMMA RestartStep ==
  ASSUME IInv, Restart
  PROVE  OkIsWhole' /\ CoverageHonest'
<1>1. OkIsWhole'
  BY DEF Restart, OkIsWhole, NoTasks
<1>2. /\ UNCHANGED <<coverage, data>>
      /\ \A s \in Snapshots, c \in Collectors :
           <<s, c>> \in lost \/ Unrecorded(s, c) => <<s, c>> \in lost'
  BY DEF Restart
<1>3. CoverageHonest'
  BY <1>2 DEF IInv, CoverageHonest, InFlight
<1> QED
  BY <1>1, <1>3

LEMMA IInvStep == IInv /\ [Next]_vars => IInv'
<1>1. ASSUME IInv, UNCHANGED vars PROVE IInv'
  <2>1. /\ UNCHANGED <<now, cycle, lastRun, pc, call, cancelled, task>>
        /\ UNCHANGED <<captured, forced, coverage, data, lost>>
    BY <1>1 DEF vars, memory, calls, store
  <2>2. TypeOK' /\ CycleExclusive'
    BY <1>1, <2>1, TypeStep, ExclusiveStep DEF IInv, vars, memory, calls, store
  <2>3. TaskOwned' /\ OneHasSnapshot' /\ OkIsWhole'
    BY <1>1, <2>1 DEF IInv, TaskOwned, OneHasSnapshot, OkIsWhole
  <2>4. CoverageHonest'
    BY <1>1, <2>1 DEF IInv, CoverageHonest, InFlight, Unrecorded
  <2> QED
    BY <2>2, <2>3, <2>4 DEF IInv
<1>2. ASSUME IInv, Next PROVE OkIsWhole' /\ CoverageHonest'
  <2>1. TypeOK /\ TaskOwned /\ OkIsWhole /\ CoverageHonest
    BY <1>2 DEF IInv
  <2>2. ASSUME NEW p \in Callers,
               \/ GiveUp(p) \/ NothingDue(p) \/ SnapshotFails(p) \/ EndCycle(p)
        PROVE  Quiet
    BY <2>1, <2>2, ReturnQuiet
    DEF GiveUp, NothingDue, SnapshotFails, EndCycle, store
  <2>3. ASSUME NEW p \in Callers, ReuseSnapshot(p) \/ CreateSnapshot(p)
        PROVE  Quiet
    BY <2>1, <2>3, RunTargetsQuiet
    DEF ReuseSnapshot, CreateSnapshot, Sharable, Recent, Latest, Created, store
  <2>4. ASSUME Tick PROVE Quiet
    BY <2>4 DEF Tick, Quiet, store, calls
  <2> QED
    BY <1>2, <2>1, <2>2, <2>3, <2>4, QuietStep, EnterQuiet, TaskQuiet,
       WriteStep, RecordStep, RestartStep
    DEF Next, Proceed, Task
<1>3. ASSUME IInv, Next PROVE IInv'
  BY <1>2, <1>3, TypeStep, ExclusiveStep, OwnedStep DEF IInv
<1> QED
  BY <1>1, <1>3

LEMMA IInvInit == Init => IInv
<1>1. Init => TypeOK
  BY ConstantsAssumption
  DEF Init, TypeOK, Call, Row, Run, NoCall, NoRow, NoRun, NoTasks, Phases,
      TaskStates, Snapshots
<1> QED
  BY <1>1
  DEF Init, IInv, CycleExclusive, Holds, TaskOwned, OneHasSnapshot,
      OkIsWhole, CoverageHonest, NoCall, NoTasks, NoRow

\* A success row stands over whole tables, for every number of callers and
\* collectors, every schedule, cancellation, lost write and crash.
THEOREM CoverageIsHonest == Spec => []CoverageHonest
<1>1. IInv => CoverageHonest
  BY DEF IInv
<1> QED
  BY <1>1, IInvInit, IInvStep, PTL DEF Spec

-----------------------------------------------------------------------------
\* Snapshots and rows in time.

\* A cycle started in the past, a snapshot was captured in the past, and a
\* cycle still to choose its snapshot started no earlier than any that exists.
CycleTimes ==
  /\ \A p \in Callers : call[p].started <= now
  /\ \A s \in Created : captured[s] <= now
  /\ \A p \in Callers :
       pc[p] = "holding" =>
         /\ call[p].op \in {"collect", "all"}
         /\ \A s \in Created : captured[s] <= call[p].started

\* Ids are given out in order.
CreatedPrefix == \A s \in Created, r \in Snapshots : r < s => r \in Created

SpacingInv == /\ TypeOK
              /\ CycleExclusive
              /\ CycleTimes
              /\ CreatedPrefix
              /\ SnapshotSpacing

\* What caller p does, as opposed to the clock and the crash.
StepOf(p) == \/ BeginCollect(p) \/ BeginRunCollector(p) \/ StartCollectAll(p)
             \/ Proceed(p) \/ Cancel(p)
             \/ \E c \in Collectors : Task(p, c)

Others(p) == \A q \in Callers : q # p => /\ pc'[q] = pc[q]
                                         /\ call'[q] = call[q]
                                         /\ task'[q] = task[q]

\* A caller changes its own locals and goroutines only.
LEMMA OthersStep ==
  ASSUME TypeOK, NEW p \in Callers, StepOf(p)
  PROVE  Others(p)
<1>0. /\ pc \in [Callers -> Phases]
      /\ call \in [Callers -> Call]
      /\ task \in [Callers -> [Collectors -> TaskStates]]
  BY DEF TypeOK
<1> USE DEF Others
<1>1. CASE BeginCollect(p) \/ StartCollect(p) \/ StartCollectAll(p)
  BY <1>0, <1>1 DEF BeginCollect, StartCollect, StartCollectAll
<1>2. CASE BeginRunCollector(p)
  BY <1>0, <1>2 DEF BeginRunCollector
<1>3. CASE Return(p)
  BY <1>0, <1>3 DEF Return
<1>4. CASE StartRunCollector(p)
  BY <1>0, <1>4 DEF StartRunCollector
<1>5. CASE ReuseSnapshot(p) \/ CreateSnapshot(p)
  BY <1>0, <1>5 DEF ReuseSnapshot, CreateSnapshot, RunTargets
<1>6. CASE Cancel(p)
  BY <1>6 DEF Cancel
<1>7. ASSUME NEW c \in Collectors, Task(p, c) PROVE Others(p)
  <2>1. CASE RecordRun(p, c)
    <3>1. SetTask(p, c, "recorded") \/ SetTask(p, c, "done")
      BY <2>1 DEF RecordRun
    <3>2. \/ UNCHANGED call
          \/ call' = [call EXCEPT ![p].errors = @ \cup {c}]
      BY <2>1 DEF RecordRun
    <3> QED
      BY <1>0, <2>1, <3>1, <3>2 DEF RecordRun, SetTask
  <2>2. CASE ~RecordRun(p, c)
    BY <1>0, <1>7, <2>2
    DEF Task, CheckContext, WriteFirst, WriteLast, CollectFails, SetLastRun,
        SetTask
  <2> QED
    BY <2>1, <2>2
<1> QED
  BY <1>1, <1>2, <1>3, <1>4, <1>5, <1>6, <1>7
  DEF StepOf, Proceed, GiveUp, NothingDue, SnapshotFails, EndCycle

\* A step that creates no snapshot and takes no caller to the choice of one.
Timeless(p) ==
  /\ UNCHANGED <<now, captured, forced>>
  /\ call'[p].started \in {0, call[p].started, now}
  /\ pc'[p] = "holding" => /\ pc[p] = "holding"
                           /\ call'[p].op = call[p].op
                           /\ call'[p].started = call[p].started

LEMMA TimelessStep ==
  ASSUME TypeOK, NEW p \in Callers, StepOf(p),
         ~StartCollect(p), ~StartCollectAll(p), ~CreateSnapshot(p)
  PROVE  Timeless(p)
<1>0. /\ pc \in [Callers -> Phases]
      /\ call \in [Callers -> Call]
  BY DEF TypeOK
<1> USE DEF Timeless, store, memory, calls
<1>1. CASE BeginCollect(p)
  BY <1>0, <1>1 DEF BeginCollect, Call
<1>2. CASE BeginRunCollector(p)
  <2>1. PICK c \in Collectors, s \in Created :
          call' = [call EXCEPT ![p].op = "one", ![p].targets = {c},
                               ![p].snapshot = s]
    BY <1>2 DEF BeginRunCollector
  <2>2. call'[p].started = call[p].started
    BY <1>0, <2>1 DEF Call
  <2> QED
    BY <1>0, <1>2, <2>2 DEF BeginRunCollector
<1>3. CASE Return(p) /\ UNCHANGED <<now, store>>
  BY <1>0, <1>3 DEF Return, NoCall
<1>4. CASE StartRunCollector(p)
  BY <1>0, <1>4 DEF StartRunCollector, Call
<1>5. CASE ReuseSnapshot(p)
  BY <1>0, <1>5 DEF ReuseSnapshot, RunTargets, Call
<1>6. CASE Cancel(p)
  BY <1>6 DEF Cancel
<1>7. ASSUME NEW c \in Collectors, Task(p, c) PROVE Timeless(p)
  <2>1. CASE RecordRun(p, c)
    <3>1. \/ UNCHANGED call
          \/ call' = [call EXCEPT ![p].errors = @ \cup {c}]
      BY <2>1 DEF RecordRun
    <3>2. /\ call'[p].op = call[p].op
          /\ call'[p].started = call[p].started
      BY <1>0, <3>1 DEF Call
    <3> QED
      BY <2>1, <3>2 DEF RecordRun
  <2>2. CASE ~RecordRun(p, c)
    BY <1>7, <2>2
    DEF Task, CheckContext, WriteFirst, WriteLast, CollectFails, SetLastRun
  <2> QED
    BY <2>1, <2>2
<1> QED
  BY <1>1, <1>2, <1>3, <1>4, <1>5, <1>6, <1>7
  DEF StepOf, Proceed, GiveUp, NothingDue, SnapshotFails, EndCycle

\* A caller at the choice of a snapshot started at this moment.
LEMMA StartTimes ==
  ASSUME TypeOK, NEW p \in Callers, StartCollect(p) \/ StartCollectAll(p)
  PROVE  /\ UNCHANGED <<now, captured, forced>>
         /\ call'[p].started = now
         /\ call'[p].op \in {"collect", "all"}
<1>0. call \in [Callers -> Call]
  BY DEF TypeOK
<1> USE DEF store, memory
<1>1. CASE StartCollect(p)
  BY <1>0, <1>1 DEF StartCollect, Call
<1>2. CASE StartCollectAll(p)
  BY <1>0, <1>2 DEF StartCollectAll, Call
<1> QED
  BY <1>1, <1>2

\* The snapshot a cycle creates is the next id, is no older than any other, and
\* a scheduled cycle creates one only when the newest is a window old.
LEMMA CreateSpaced ==
  ASSUME SpacingInv, NEW p \in Callers, CreateSnapshot(p)
  PROVE  \E s \in Snapshots \ Created :
           /\ Created' = Created \cup {s}
           /\ \A r \in Created : captured'[r] = captured[r]
           /\ \A r \in Created : /\ r < s
                                 /\ captured[r] <= captured'[s]
                                 /\ s \in forced' \/ captured'[s] - captured[r] >= Window
           /\ \A r \in Snapshots : r < s => r \in Created
           /\ captured'[s] \in Nat /\ captured'[s] <= now
           /\ forced \subseteq forced'
<1> USE DEF SpacingInv
<1>0. /\ now \in Nat /\ MaxSnapshots \in Nat /\ Window \in Nat
      /\ captured \in [Snapshots -> Nat \cup {Never}]
      /\ call[p].started \in Nat /\ call[p].started <= now
      /\ call[p].op \in {"collect", "all"}
      /\ \A r \in Created : captured[r] \in Nat /\ captured[r] <= call[p].started
      /\ Never \notin Nat
  BY ConstantsAssumption
  DEF TypeOK, Call, CreateSnapshot, CycleTimes, Created
<1>1. PICK s \in Snapshots \ Created :
        /\ \A r \in Snapshots : r < s => r \in Created
        /\ captured' = [captured EXCEPT ![s] = CaptureTime(p)]
        /\ forced' = IF call[p].op = "all" THEN forced \cup {s} ELSE forced
  BY DEF CreateSnapshot
<1>2. /\ CaptureTime(p) \in Nat
      /\ call[p].started <= CaptureTime(p) /\ CaptureTime(p) <= now
      /\ call[p].op = "collect" => CaptureTime(p) = now
  BY <1>0 DEF CaptureTime
<1>3. /\ captured'[s] = CaptureTime(p)
      /\ \A r \in Snapshots : r # s => captured'[r] = captured[r]
  BY <1>0, <1>1
<1>4. Created' = Created \cup {s}
  BY <1>0, <1>2, <1>3 DEF Created
<1>5. \A r \in Created : r < s
  BY <1>0, <1>1 DEF CreatedPrefix, Created, Snapshots
<1>6. ASSUME NEW r \in Created, call[p].op = "collect"
      PROVE  now - captured[r] >= Window
  <2> DEFINE top == s - 1
  <2>1. /\ top \in Snapshots /\ top \in Created
        /\ \A t \in Created : t <= top
    BY <1>0, <1>1, <1>5 DEF Snapshots, Created
  <2>2. \A t \in Created : captured[t] <= captured[top]
    <3> SUFFICES ASSUME NEW t \in Created PROVE captured[t] <= captured[top]
      OBVIOUS
    <3>1. CASE t = top
      BY <1>0, <3>1
    <3>2. CASE t < top
      BY <2>1, <3>2 DEF SnapshotSpacing
    <3> QED
      BY <1>0, <2>1, <3>1, <3>2 DEF Created, Snapshots
  <2>3. top \in Latest
    BY <2>1, <2>2 DEF Latest
  <2>4. Recent = {}
    BY <1>6 DEF CreateSnapshot, Sharable
  <2>5. ~(now - captured[top] < Window)
    BY <2>3, <2>4 DEF Recent
  <2>6. captured[r] <= captured[top] /\ captured[r] \in Nat /\ captured[top] \in Nat
    BY <1>0, <2>1, <2>2
  <2> QED
    BY <1>0, <2>5, <2>6
<1>7. ASSUME NEW r \in Created
      PROVE  /\ captured[r] <= captured'[s]
             /\ s \in forced' \/ captured'[s] - captured[r] >= Window
  <2>1. captured[r] <= captured'[s]
    BY <1>0, <1>2, <1>3
  <2>2. CASE call[p].op = "all"
    BY <1>1, <2>1, <2>2
  <2>3. CASE call[p].op = "collect"
    BY <1>2, <1>3, <1>6, <2>1, <2>3
  <2> QED
    BY <1>0, <2>2, <2>3
<1>8. \A r \in Created : captured'[r] = captured[r]
  BY <1>1, <1>3 DEF Created
<1>9. forced \subseteq forced'
  BY <1>1
<1> QED
  BY <1>1, <1>2, <1>3, <1>4, <1>5, <1>7, <1>8, <1>9

LEMMA SpacingStep == SpacingInv /\ [Next]_vars => SpacingInv'
<1> SUFFICES ASSUME SpacingInv, [Next]_vars
             PROVE  CycleTimes' /\ CreatedPrefix' /\ SnapshotSpacing'
  BY TypeStep, ExclusiveStep DEF SpacingInv
<1>0. /\ TypeOK /\ TypeOK' /\ CycleExclusive
      /\ CycleTimes /\ CreatedPrefix /\ SnapshotSpacing
  BY TypeStep DEF SpacingInv
<1>t. /\ now \in Nat
      /\ \A q \in Callers : call[q].started \in Nat
      /\ \A s \in Created : captured[s] \in Nat
  BY <1>0 DEF TypeOK, Call, Created
<1>1. ASSUME UNCHANGED <<now, captured, forced>>,
             \A q \in Callers :
               \/ pc'[q] # "holding" /\ call'[q].started \in {0, call[q].started, now}
               \/ /\ pc'[q] = pc[q]
                  /\ call'[q].op = call[q].op
                  /\ call'[q].started = call[q].started
               \/ call'[q].started = now /\ call'[q].op \in {"collect", "all"}
      PROVE  CycleTimes' /\ CreatedPrefix' /\ SnapshotSpacing'
  <2>1. Created' = Created
    BY <1>1 DEF Created
  <2>2. CreatedPrefix' /\ SnapshotSpacing'
    BY <1>0, <1>1, <2>1 DEF CreatedPrefix, SnapshotSpacing
  <2>3. CycleTimes'
    BY <1>0, <1>t, <1>1, <2>1 DEF CycleTimes
  <2> QED
    BY <2>2, <2>3
<1>2. ASSUME NEW p \in Callers, StepOf(p)
      PROVE  CycleTimes' /\ CreatedPrefix' /\ SnapshotSpacing'
  <2>1. Others(p)
    BY <1>0, <1>2, OthersStep
  <2>2. CASE StartCollect(p) \/ StartCollectAll(p)
    BY <1>0, <1>1, <2>1, <2>2, StartTimes DEF Others
  <2>3. CASE CreateSnapshot(p)
    <3>1. PICK s \in Snapshots \ Created :
            /\ Created' = Created \cup {s}
            /\ \A r \in Created : captured'[r] = captured[r]
            /\ \A r \in Created : /\ r < s
                                  /\ captured[r] <= captured'[s]
                                  /\ s \in forced' \/ captured'[s] - captured[r] >= Window
            /\ \A r \in Snapshots : r < s => r \in Created
            /\ captured'[s] \in Nat /\ captured'[s] <= now
            /\ forced \subseteq forced'
      BY <2>3, CreateSpaced
    <3>2. /\ now' = now
          /\ pc[p] = "holding" /\ pc'[p] = "running"
          /\ call'[p].started = call[p].started
      BY <1>0, <2>3 DEF CreateSnapshot, RunTargets, TypeOK, Call
    <3>3. \A q \in Callers : pc'[q] # "holding"
      BY <1>0, <2>1, <3>2 DEF Others, CycleExclusive, Holds
    <3>4. CycleTimes'
      BY <1>0, <2>1, <3>1, <3>2, <3>3 DEF CycleTimes, Others
    <3>5. Snapshots \subseteq Nat /\ s \in Snapshots
      BY ConstantsAssumption DEF Snapshots
    <3>6. CreatedPrefix'
      BY <1>0, <3>1 DEF CreatedPrefix
    <3>7. SnapshotSpacing'
      <4> SUFFICES ASSUME NEW r \in Created', NEW t \in Created', r < t
                   PROVE  /\ captured'[r] <= captured'[t]
                          /\ t \notin forced' => captured'[t] - captured'[r] >= Window
        BY DEF SnapshotSpacing
      <4>1. CASE t = s
        <5>1. r \in Created
          BY <3>1, <3>5, <4>1
        <5> QED
          BY <3>1, <4>1, <5>1
      <4>2. CASE t \in Created
        <5>1. r \in Created
          BY <3>1, <3>5, <4>2 DEF Created
        <5> QED
          BY <1>0, <3>1, <4>2, <5>1 DEF SnapshotSpacing
      <4> QED
        BY <3>1, <4>1, <4>2
    <3> QED
      BY <3>4, <3>6, <3>7
  <2>4. CASE ~StartCollect(p) /\ ~StartCollectAll(p) /\ ~CreateSnapshot(p)
    BY <1>0, <1>1, <1>2, <2>1, <2>4, TimelessStep DEF Others, Timeless
  <2> QED
    BY <2>2, <2>3, <2>4
<1>3. CASE Tick
  <2>1. now' = now + 1 /\ UNCHANGED <<captured, forced, call, pc>>
    BY <1>3 DEF Tick, calls, store
  <2>2. Created' = Created
    BY <2>1 DEF Created
  <2> QED
    BY <1>0, <1>t, <2>1, <2>2
    DEF CycleTimes, CreatedPrefix, SnapshotSpacing
<1>4. CASE Restart
  BY <1>1, <1>4 DEF Restart, NoCall
<1>5. CASE UNCHANGED vars
  BY <1>1, <1>5 DEF vars, calls, store
<1> QED
  BY <1>2, <1>3, <1>4, <1>5 DEF Next, StepOf

LEMMA SpacingInit == Init => SpacingInv
<1> SUFFICES ASSUME Init PROVE SpacingInv
  OBVIOUS
<1>1. TypeOK /\ CycleExclusive
  BY IInvInit DEF IInv
<1>2. Created = {}
  BY ConstantsAssumption DEF Init, Created
<1>3. CycleTimes /\ CreatedPrefix /\ SnapshotSpacing
  BY <1>2 DEF Init, CycleTimes, CreatedPrefix, SnapshotSpacing, NoCall
<1> QED
  BY <1>1, <1>3 DEF SpacingInv

\* Snapshots are captured in the order of their ids, and one that a scheduled
\* cycle created is a window younger than all before it, for every window and
\* any mix of scheduled and forced cycles, failures and restarts.
THEOREM SnapshotsAreSpaced == Spec => []SnapshotSpacing
<1>1. SpacingInv => SnapshotSpacing
  BY DEF SpacingInv
<1> QED
  BY <1>1, SpacingInit, SpacingStep, PTL DEF Spec

-----------------------------------------------------------------------------
\* What a finished goroutine leaves behind.

RecordedSince(s, c, t) ==
  \/ coverage[s][c].status = "success" /\ coverage[s][c].at >= t
  \/ <<s, c>> \in lost

\* A goroutine that recorded a success during this cycle finds its row as it
\* left it, and one that ended without an error has set lastRun since.
RunEvidence ==
  \A p \in Callers, c \in Collectors :
    /\ pc[p] = "running"
    /\ \/ task[p][c] = "recorded"
       \/ task[p][c] = "done" /\ c \notin call[p].errors
    => /\ RecordedSince(call[p].snapshot, c, call[p].started)
       /\ task[p][c] = "done" =>
            lastRun[c] \in Nat /\ lastRun[c] >= call[p].started

CleanInv == /\ SpacingInv
            /\ TaskOwned
            /\ OneHasSnapshot
            /\ RunEvidence

\* A step that ends no run of p, and changes no row and no lastRun.
Unending(p) ==
  /\ UNCHANGED <<now, lastRun, coverage, lost>>
  /\ \A c \in Collectors :
       pc'[p] = "running" /\ task'[p][c] \in {"recorded", "done"} =>
         /\ pc[p] = "running"
         /\ task[p][c] = task'[p][c]
         /\ call'[p] = call[p]

LEMMA UnendingStep ==
  ASSUME TypeOK, TaskOwned, NEW p \in Callers, StepOf(p),
         \A c \in Collectors : ~RecordRun(p, c) /\ ~SetLastRun(p, c)
  PROVE  Unending(p)
<1>0. /\ pc \in [Callers -> Phases]
      /\ call \in [Callers -> Call]
      /\ task \in [Callers -> [Collectors -> TaskStates]]
  BY DEF TypeOK
<1> USE DEF Unending, store, memory, calls
<1>1. CASE BeginCollect(p) \/ BeginRunCollector(p)
  BY <1>0, <1>1 DEF BeginCollect, BeginRunCollector
<1>2. CASE StartCollect(p) \/ StartCollectAll(p)
  BY <1>0, <1>2 DEF StartCollect, StartCollectAll
<1>3. CASE Return(p) /\ UNCHANGED <<now, lastRun, store>>
  BY <1>0, <1>3 DEF Return
<1>4. CASE StartRunCollector(p)
  <2>1. \A c \in Collectors : task'[p][c] \in {"collecting", "off"}
    BY <1>0, <1>4 DEF StartRunCollector
  <2> QED
    BY <1>4, <2>1 DEF StartRunCollector
<1>5. CASE ReuseSnapshot(p) \/ CreateSnapshot(p)
  <2>1. \A c \in Collectors : task'[p][c] \in {"ready", "off"}
    BY <1>0, <1>5 DEF ReuseSnapshot, CreateSnapshot, RunTargets
  <2> QED
    BY <1>5, <2>1 DEF ReuseSnapshot, CreateSnapshot
<1>6. CASE Cancel(p)
  BY <1>6 DEF Cancel
<1>7. ASSUME NEW c \in Collectors,
             \/ CheckContext(p, c) \/ WriteFirst(p, c) \/ WriteLast(p, c)
             \/ CollectFails(p, c)
      PROVE  Unending(p)
  <2>1. PICK t \in {"failed", "collecting", "torn", "ok"} : SetTask(p, c, t)
    BY <1>7 DEF CheckContext, WriteFirst, WriteLast, CollectFails
  <2>2. /\ UNCHANGED <<now, lastRun, coverage, lost, pc, call>>
        /\ pc[p] = "running"
    BY <1>7 DEF CheckContext, WriteFirst, WriteLast, CollectFails
  <2> QED
    BY <1>0, <2>1, <2>2 DEF SetTask
<1> QED
  BY <1>1, <1>2, <1>3, <1>4, <1>5, <1>6, <1>7
  DEF StepOf, Proceed, Task, GiveUp, NothingDue, SnapshotFails, EndCycle

\* What recording an outcome does to the caller's locals and goroutines.
LEMMA RecordRunCall ==
  ASSUME TypeOK, TaskOwned, NEW p \in Callers, NEW c \in Collectors,
         RecordRun(p, c)
  PROVE  /\ call[p].snapshot \in Snapshots /\ pc[p] = "running"
         /\ UNCHANGED <<pc, now, lastRun, ran, captured>>
         /\ task[p][c] \in {"ok", "failed"}
         /\ \A d \in Collectors : d # c => task'[p][d] = task[p][d]
         /\ call'[p].snapshot = call[p].snapshot
         /\ call'[p].op = call[p].op
         /\ call'[p].targets = call[p].targets
         /\ call'[p].started = call[p].started
         /\ call[p].errors \subseteq call'[p].errors
         /\ task[p][c] = "ok" => task'[p][c] = "recorded"
         /\ task[p][c] = "failed" => /\ task'[p][c] = "done"
                                     /\ c \in call'[p].errors
<1>0. /\ call \in [Callers -> Call]
      /\ task \in [Callers -> [Collectors -> TaskStates]]
  BY DEF TypeOK
<1>1. /\ call[p].snapshot \in Snapshots /\ pc[p] = "running"
      /\ UNCHANGED <<pc, now, lastRun, ran, captured>>
  BY DEF RecordRun, TaskOwned, memory
<1>2. \/ UNCHANGED call
      \/ call' = [call EXCEPT ![p].errors = @ \cup {c}]
  BY DEF RecordRun
<1>3. /\ call'[p].snapshot = call[p].snapshot
      /\ call'[p].op = call[p].op
      /\ call'[p].targets = call[p].targets
      /\ call'[p].started = call[p].started
      /\ call[p].errors \subseteq call'[p].errors
  BY <1>0, <1>2 DEF Call
<1>4. task[p][c] \in {"ok", "failed"}
  BY DEF RecordRun
<1>5. SetTask(p, c, IF task[p][c] = "ok" THEN "recorded" ELSE "done")
  BY DEF RecordRun
<1>6. /\ \A d \in Collectors : d # c => task'[p][d] = task[p][d]
      /\ task[p][c] = "ok" => task'[p][c] = "recorded"
      /\ task[p][c] = "failed" => task'[p][c] = "done"
  BY <1>0, <1>5 DEF SetTask
<1>7. task[p][c] = "failed" => c \in call'[p].errors
  <2> SUFFICES ASSUME task[p][c] = "failed" PROVE c \in call'[p].errors
    OBVIOUS
  <2>1. call' = [call EXCEPT ![p].errors = @ \cup {c}]
    BY DEF RecordRun
  <2> QED
    BY <1>0, <2>1 DEF Call
<1> QED
  BY <1>1, <1>3, <1>4, <1>6, <1>7

\* What it does to the rows: one is written, or is on the list of lost ones.
LEMMA RecordRunRows ==
  ASSUME TypeOK, TaskOwned, NEW p \in Callers, NEW c \in Collectors,
         RecordRun(p, c)
  PROVE  LET s == call[p].snapshot
         IN  /\ \A r \in Snapshots, d \in Collectors :
                  r # s \/ d # c => /\ coverage'[r][d] = coverage[r][d]
                                    /\ (<<r, d>> \in lost' <=> <<r, d>> \in lost)
             /\ \/ coverage'[s][c] = OutcomeRow(p, c)
                \/ coverage'[s][c] = coverage[s][c] /\ <<s, c>> \in lost'
<1> DEFINE s == call[p].snapshot
<1>0. coverage \in [Snapshots -> [Collectors -> Row]] /\ s \in Snapshots
  BY DEF TypeOK, RecordRun, TaskOwned
<1>1. \/ /\ coverage' = [coverage EXCEPT ![s][c] = OutcomeRow(p, c)]
         /\ lost' = lost \ {<<s, c>>}
      \/ coverage' = coverage /\ lost' = lost \cup {<<s, c>>}
  BY DEF RecordRun, WriteCoverage
<1>2. \A r \in Snapshots, d \in Collectors :
        r # s \/ d # c => /\ coverage'[r][d] = coverage[r][d]
                          /\ (<<r, d>> \in lost' <=> <<r, d>> \in lost)
  BY <1>0, <1>1
<1>3. \/ coverage'[s][c] = OutcomeRow(p, c)
      \/ coverage'[s][c] = coverage[s][c] /\ <<s, c>> \in lost'
  BY <1>0, <1>1
<1> QED
  BY <1>2, <1>3

\* What a goroutine's last step does.
LEMMA SetLastRunEffect ==
  ASSUME TypeOK, NEW p \in Callers, NEW c \in Collectors, SetLastRun(p, c)
  PROVE  /\ UNCHANGED <<now, pc, call, captured, coverage, lost>>
         /\ pc[p] = "running"
         /\ task[p][c] = "recorded" /\ task'[p][c] = "done"
         /\ \A d \in Collectors : d # c => /\ task'[p][d] = task[p][d]
                                           /\ lastRun'[d] = lastRun[d]
                                           /\ ran'[d] = ran[d]
         /\ lastRun'[c] = now
         /\ ran'[c].snapshot = call[p].snapshot
         /\ ran'[c].since = call[p].started
BY DEF SetLastRun, SetTask, TypeOK, store

LEMMA RunEvidenceStep == CleanInv /\ [Next]_vars => RunEvidence'
<1> SUFFICES ASSUME CleanInv, [Next]_vars PROVE RunEvidence'
  OBVIOUS
<1>0. /\ TypeOK /\ TypeOK' /\ CycleExclusive /\ TaskOwned /\ RunEvidence
      /\ CycleTimes
  BY TypeStep DEF CleanInv, SpacingInv
<1>1. ASSUME NEW p \in Callers, StepOf(p) PROVE RunEvidence'
  <2> SUFFICES ASSUME NEW q \in Callers, NEW d \in Collectors,
                      pc'[q] = "running",
                      \/ task'[q][d] = "recorded"
                      \/ task'[q][d] = "done" /\ d \notin call'[q].errors
               PROVE  /\ RecordedSince(call[q].snapshot, d, call[q].started)'
                      /\ task'[q][d] = "done" =>
                           lastRun'[d] \in Nat /\ lastRun'[d] >= call'[q].started
    BY DEF RunEvidence
  <2>0. Others(p)
    BY <1>0, <1>1, OthersStep
  <2>1. CASE \A c \in Collectors : ~RecordRun(p, c) /\ ~SetLastRun(p, c)
    <3>1. Unending(p)
      BY <1>0, <1>1, <2>1, UnendingStep
    <3>2. /\ pc[q] = "running" /\ task[q][d] = task'[q][d]
          /\ call'[q] = call[q]
      BY <2>0, <3>1 DEF Others, Unending
    <3>3. /\ RecordedSince(call[q].snapshot, d, call[q].started)
          /\ task[q][d] = "done" => lastRun[d] \in Nat /\ lastRun[d] >= call[q].started
      BY <1>0, <3>2 DEF RunEvidence
    <3> QED
      BY <3>1, <3>2, <3>3 DEF RecordedSince, Unending
  <2>2. ASSUME NEW c \in Collectors, RecordRun(p, c) \/ SetLastRun(p, c)
        PROVE  q = p
    BY <1>0, <2>0, <2>2 DEF RecordRun, SetLastRun, Others, CycleExclusive, Holds
  <2>3. ASSUME NEW c \in Collectors, RecordRun(p, c)
        PROVE  /\ RecordedSince(call[q].snapshot, d, call[q].started)'
               /\ task'[q][d] = "done" =>
                    lastRun'[d] \in Nat /\ lastRun'[d] >= call'[q].started
    <3> DEFINE s == call[p].snapshot
    <3>0. q = p
      BY <2>2, <2>3
    <3>1. /\ s \in Snapshots /\ pc[p] = "running" /\ UNCHANGED <<pc, now, lastRun>>
          /\ task[p][c] \in {"ok", "failed"}
          /\ \A e \in Collectors : e # c => task'[p][e] = task[p][e]
          /\ call'[p].snapshot = s
          /\ call'[p].started = call[p].started
          /\ call[p].errors \subseteq call'[p].errors
          /\ task[p][c] = "ok" => task'[p][c] = "recorded"
          /\ task[p][c] = "failed" => task'[p][c] = "done" /\ c \in call'[p].errors
      BY <1>0, <2>3, RecordRunCall
    <3>2. /\ \A r \in Snapshots, e \in Collectors :
               r # s \/ e # c => /\ coverage'[r][e] = coverage[r][e]
                                 /\ (<<r, e>> \in lost' <=> <<r, e>> \in lost)
          /\ \/ coverage'[s][c] = OutcomeRow(p, c)
             \/ /\ coverage'[s][c] = coverage[s][c]
                /\ <<s, c>> \in lost'
      BY <1>0, <2>3, RecordRunRows
    <3>3. CASE d = c
      <4>1. task[p][c] = "ok" /\ task'[p][c] = "recorded"
        BY <3>0, <3>1, <3>3
      <4>2. OutcomeRow(p, c) = [status |-> "success", at |-> now]
        BY <4>1 DEF OutcomeRow
      <4>3. now >= call[p].started
        BY <1>0 DEF CycleTimes, TypeOK, Call
      <4>4. <<s, c>> \in lost' \/ /\ coverage'[s][c].status = "success"
                                  /\ coverage'[s][c].at >= call[p].started
        BY <3>2, <4>2, <4>3
      <4> QED
        BY <3>0, <3>1, <3>3, <4>1, <4>4 DEF RecordedSince
    <3>4. CASE d # c
      <4>1. /\ task[p][d] = task'[p][d]
            /\ \/ task[p][d] = "recorded"
               \/ task[p][d] = "done" /\ d \notin call[p].errors
        BY <3>0, <3>1, <3>4
      <4>2. /\ RecordedSince(s, d, call[p].started)
            /\ task[p][d] = "done" => lastRun[d] \in Nat /\ lastRun[d] >= call[p].started
        BY <1>0, <3>0, <3>1, <4>1 DEF RunEvidence
      <4>3. coverage'[s][d] = coverage[s][d] /\ (<<s, d>> \in lost' <=> <<s, d>> \in lost)
        BY <3>1, <3>2, <3>4
      <4> QED
        BY <3>0, <3>1, <4>1, <4>2, <4>3 DEF RecordedSince
    <3> QED
      BY <3>3, <3>4
  <2>4. ASSUME NEW c \in Collectors, SetLastRun(p, c)
        PROVE  /\ RecordedSince(call[q].snapshot, d, call[q].started)'
               /\ task'[q][d] = "done" =>
                    lastRun'[d] \in Nat /\ lastRun'[d] >= call'[q].started
    <3>0. q = p
      BY <2>2, <2>4
    <3>1. /\ UNCHANGED <<now, pc, call, coverage, lost>>
          /\ pc[p] = "running"
          /\ task[p][c] = "recorded" /\ task'[p][c] = "done"
          /\ \A e \in Collectors : e # c => /\ task'[p][e] = task[p][e]
                                            /\ lastRun'[e] = lastRun[e]
          /\ lastRun'[c] = now
      BY <1>0, <2>4, SetLastRunEffect
    <3>2. \/ task[p][d] = "recorded"
          \/ task[p][d] = "done" /\ d \notin call[p].errors
      BY <3>0, <3>1
    <3>3. /\ RecordedSince(call[p].snapshot, d, call[p].started)
          /\ task[p][d] = "done" => lastRun[d] \in Nat /\ lastRun[d] >= call[p].started
      BY <1>0, <3>0, <3>1, <3>2 DEF RunEvidence
    <3>4. now \in Nat /\ now >= call[p].started
      BY <1>0 DEF CycleTimes, TypeOK, Call
    <3> QED
      BY <3>0, <3>1, <3>3, <3>4 DEF RecordedSince
  <2> QED
    BY <2>1, <2>3, <2>4
<1>2. CASE Restart
  BY <1>2 DEF Restart, RunEvidence
<1>3. CASE UNCHANGED <<lastRun, coverage, lost, pc, call, task>>
  BY <1>0, <1>3 DEF RunEvidence, RecordedSince
<1> QED
  BY <1>1, <1>2, <1>3
  DEF Next, StepOf, Tick, vars, memory, calls, store

LEMMA CleanInvStep == CleanInv /\ [Next]_vars => CleanInv'
<1> SUFFICES ASSUME CleanInv, [Next]_vars PROVE CleanInv'
  OBVIOUS
<1>1. TaskOwned' /\ OneHasSnapshot'
  <2>1. CASE Next
    BY <2>1, OwnedStep DEF CleanInv, SpacingInv
  <2>2. CASE UNCHANGED vars
    BY <2>2 DEF CleanInv, TaskOwned, OneHasSnapshot, vars, calls
  <2> QED
    BY <2>1, <2>2
<1> QED
  BY <1>1, SpacingStep, RunEvidenceStep DEF CleanInv

\* A cycle that reports no error has run every one of its collectors since it
\* began, row and lastRun both, for any number of callers and collectors.
THEOREM CleanResultsAreCovered == Spec => []CleanResultCovered
<1>1. Init => CleanInv
  <2>1. Init => RunEvidence
    BY DEF Init, RunEvidence
  <2> QED
    BY <2>1, SpacingInit, IInvInit DEF CleanInv, IInv
<1>2. CleanInv => CleanResultCovered
  <2> SUFFICES ASSUME CleanInv, NEW p \in Callers, pc[p] = "running",
                      AllDone(p), call[p].errors = {}, NEW c \in call[p].targets
               PROVE  /\ lastRun[c] \in Nat /\ lastRun[c] >= call[p].started
                      /\ RecordedSince(call[p].snapshot, c, call[p].started)
    BY DEF CleanResultCovered, RecordedSince
  <2>1. c \in Collectors
    BY DEF CleanInv, SpacingInv, TypeOK, Call
  <2> QED
    BY <2>1 DEF CleanInv, RunEvidence, AllDone
<1> QED
  BY <1>1, <1>2, CleanInvStep, PTL DEF Spec

-----------------------------------------------------------------------------
\* Skipped collectors.

\* No row is stamped in the future.
RowsPast == \A s \in Snapshots, c \in Collectors : coverage[s][c].at <= now

\* Without RunCollector every cycle is a scheduled or a forced one, over a
\* snapshot that exists.
ScheduledOrForced ==
  \A p \in Callers :
    /\ call[p].op # "one"
    /\ Holds(p) => call[p].op \in {"collect", "all"}
    /\ pc[p] = "running" => call[p].snapshot \in Created

\* A snapshot nobody has created yet has no rows.
FreshSnapshots ==
  \A s \in Snapshots, c \in Collectors :
    s \notin Created => /\ coverage[s][c].status # "success"
                        /\ <<s, c>> \notin lost

\* A scheduled cycle overwrites the rows of due collectors only.
TargetsDue ==
  \A p \in Callers :
    Holds(p) /\ call[p].op = "collect" =>
      \A c \in call[p].targets : task[p][c] # "done" => c \in DueCollectors

\* A forced cycle overwrites no success, its snapshot being new.
ForcedFresh ==
  \A p \in Callers, c \in Collectors :
    /\ pc[p] = "running" /\ call[p].op = "all"
    /\ task[p][c] \notin {"off", "recorded", "done"}
    => /\ coverage[call[p].snapshot][c].status # "success"
       /\ <<call[p].snapshot, c>> \notin lost

\* The run that set c's lastRun has left its row in snapshot s.
RowStands(s, c) ==
  /\ coverage[s][c].status = "success"
  /\ ran[c].since <= coverage[s][c].at
  /\ coverage[s][c].at <= lastRun[c]

Covered(c) ==
  LET s == ran[c].snapshot
  IN  s \in Snapshots /\ (RowStands(s, c) \/ <<s, c>> \in lost)

SkipCovered == \A c \in Collectors : c \notin DueCollectors => Covered(c)

SkipInv == /\ CleanInv
           /\ RowsPast
           /\ ScheduledOrForced
           /\ FreshSnapshots
           /\ TargetsDue
           /\ ForcedFresh
           /\ SkipCovered

\* A collector stays due until its lastRun is set.
LEMMA DueStays ==
  ASSUME TypeOK, NEW c \in Collectors, c \in DueCollectors,
         lastRun'[c] = lastRun[c], now' \in Nat, now' >= now
  PROVE  c \in DueCollectors'
<1>1. now \in Nat /\ Interval[c] \in Nat /\ lastRun[c] \in Nat \cup {Never}
  BY ConstantsAssumption DEF TypeOK
<1>2. CASE lastRun[c] = Never
  BY <1>2 DEF DueCollectors
<1>3. CASE lastRun[c] # Never
  <2>1. lastRun[c] \in Nat /\ now - lastRun[c] >= Interval[c]
    BY <1>1, <1>3 DEF DueCollectors
  <2>2. now' - lastRun'[c] >= Interval[c]
    BY <1>1, <2>1
  <2> QED
    BY <2>2 DEF DueCollectors
<1> QED
  BY <1>2, <1>3

\* The steps of p other than the choice of a snapshot, the record of an outcome
\* and the update of lastRun leave rows and times alone; what p runs and where
\* it stands in its cycle is what it was, or p has left, or has just entered.
Idle(p) ==
  /\ UNCHANGED <<now, lastRun, ran, coverage, lost, captured>>
  /\ \/ ~Holds(p)' /\ call'[p].op # "one"
     \/ /\ Holds(p) /\ pc'[p] = pc[p] /\ call'[p] = call[p]
        /\ \A c \in Collectors :
             /\ task'[p][c] # "done" => task[p][c] # "done"
             /\ task'[p][c] \notin {"off", "recorded", "done"} =>
                  task[p][c] \notin {"off", "recorded", "done"}
     \/ /\ pc'[p] = "holding"
        /\ \/ call'[p].op = "all"
           \/ call'[p].op = "collect" /\ call'[p].targets = DueCollectors

LEMMA IdleStep ==
  ASSUME TypeOK, TaskOwned, ScheduledOrForced, "one" \notin Ops,
         NEW p \in Callers, StepOf(p),
         ~ReuseSnapshot(p), ~CreateSnapshot(p),
         \A c \in Collectors : ~RecordRun(p, c) /\ ~SetLastRun(p, c)
  PROVE  Idle(p)
<1>0. /\ pc \in [Callers -> Phases]
      /\ call \in [Callers -> Call]
      /\ task \in [Callers -> [Collectors -> TaskStates]]
      /\ call[p].op # "one"
  BY DEF TypeOK, ScheduledOrForced
<1> USE DEF Idle, Holds, store, memory, calls
<1>1. CASE BeginCollect(p)
  BY <1>0, <1>1 DEF BeginCollect, Call
<1>2. CASE BeginRunCollector(p)
  BY <1>2 DEF BeginRunCollector
<1>3. CASE Return(p) /\ UNCHANGED <<now, lastRun, ran, store>>
  BY <1>0, <1>3 DEF Return, NoCall
<1>4. CASE StartCollect(p)
  <2>1. /\ call'[p].op = "collect" /\ call'[p].targets = DueCollectors
        /\ pc'[p] = "holding"
    BY <1>0, <1>4 DEF StartCollect, Call
  <2> QED
    BY <1>4, <2>1 DEF StartCollect
<1>5. CASE StartCollectAll(p)
  <2>1. call'[p].op = "all" /\ pc'[p] = "holding"
    BY <1>0, <1>5 DEF StartCollectAll, Call
  <2> QED
    BY <1>5, <2>1 DEF StartCollectAll
<1>6. CASE StartRunCollector(p)
  BY <1>0, <1>6 DEF StartRunCollector
<1>7. CASE Cancel(p)
  <2>1. UNCHANGED <<now, lastRun, ran, coverage, lost, captured, pc, call, task>>
    BY <1>7 DEF Cancel
  <2> QED
    BY <1>0, <2>1
<1>8. ASSUME NEW c \in Collectors,
             \/ CheckContext(p, c) \/ WriteFirst(p, c) \/ WriteLast(p, c)
             \/ CollectFails(p, c)
      PROVE  Idle(p)
  <2>1. PICK t \in {"failed", "collecting", "torn", "ok"} : SetTask(p, c, t)
    BY <1>8 DEF CheckContext, WriteFirst, WriteLast, CollectFails
  <2>2. /\ UNCHANGED <<now, lastRun, ran, coverage, lost, captured, pc, call>>
        /\ pc[p] = "running"
        /\ task[p][c] \notin {"off", "recorded", "done"}
    BY <1>8 DEF CheckContext, WriteFirst, WriteLast, CollectFails
  <2> QED
    BY <1>0, <2>1, <2>2 DEF SetTask
<1> QED
  BY <1>1, <1>2, <1>3, <1>4, <1>5, <1>6, <1>7, <1>8
  DEF StepOf, Proceed, Task, GiveUp, NothingDue, SnapshotFails, EndCycle

\* What the choice of a snapshot leaves for the goroutines it starts.
LEMMA ChooseEffect ==
  ASSUME SpacingInv, TaskOwned, NEW p \in Callers,
         ReuseSnapshot(p) \/ CreateSnapshot(p)
  PROVE  /\ pc[p] = "holding" /\ pc'[p] = "running"
         /\ UNCHANGED <<now, lastRun, ran, coverage, lost>>
         /\ call'[p].op = call[p].op /\ call'[p].targets = call[p].targets
         /\ call'[p].snapshot \in Created'
         /\ \A c \in Collectors : task[p][c] = "off"
         /\ CreateSnapshot(p) => call'[p].snapshot \notin Created
         /\ call[p].op = "all" => CreateSnapshot(p)
         /\ Created \subseteq Created'
<1>0. /\ pc \in [Callers -> Phases]
      /\ call \in [Callers -> Call]
      /\ captured \in [Snapshots -> Nat \cup {Never}]
      /\ TypeOK
  BY DEF SpacingInv, TypeOK
<1>1. pc[p] = "holding" /\ UNCHANGED <<now, lastRun, ran, coverage, lost>>
  BY DEF ReuseSnapshot, CreateSnapshot, memory, store
<1>2. \A c \in Collectors : task[p][c] = "off"
  BY <1>1, NoGoroutines
<1>3. CASE ReuseSnapshot(p)
  <2>1. PICK s \in Sharable(p) : RunTargets(p, s)
    BY <1>3 DEF ReuseSnapshot
  <2>2. s \in Created /\ call[p].op = "collect"
    BY <2>1 DEF Sharable, Recent, Latest
  <2>3. Created' = Created /\ s \in Created'
    BY <1>3, <2>2 DEF ReuseSnapshot, Created, store
  <2>4. /\ pc'[p] = "running"
        /\ call'[p].op = call[p].op /\ call'[p].targets = call[p].targets
        /\ call'[p].snapshot = s
    BY <1>0, <2>1 DEF RunTargets, Call
  <2>5. ~CreateSnapshot(p)
    BY <2>1 DEF CreateSnapshot
  <2> QED
    BY <1>1, <1>2, <2>2, <2>3, <2>4, <2>5
<1>4. CASE CreateSnapshot(p)
  <2>1. PICK s \in Snapshots \ Created :
          /\ captured' = [captured EXCEPT ![s] = CaptureTime(p)]
          /\ RunTargets(p, s)
    BY <1>4 DEF CreateSnapshot
  <2>2. /\ pc'[p] = "running"
        /\ call'[p].op = call[p].op /\ call'[p].targets = call[p].targets
        /\ call'[p].snapshot = s
    BY <1>0, <2>1 DEF RunTargets, Call
  <2>3. CaptureTime(p) # Never
    BY <1>0, ConstantsAssumption DEF CaptureTime, Call, TypeOK
  <2>4. Created' = Created \cup {s}
    BY <1>0, <2>1, <2>3 DEF Created
  <2> QED
    BY <1>1, <1>2, <1>4, <2>1, <2>2, <2>4
<1> QED
  BY <1>3, <1>4

\* The six facts about skipping, over each kind of step.
SkipParts == /\ RowsPast /\ ScheduledOrForced /\ FreshSnapshots
             /\ TargetsDue /\ ForcedFresh /\ SkipCovered

LEMMA SkipIdle ==
  ASSUME SkipInv, TypeOK', NEW p \in Callers, Others(p), Idle(p)
  PROVE  SkipParts'
<1>0. /\ RowsPast /\ ScheduledOrForced /\ FreshSnapshots
      /\ TargetsDue /\ ForcedFresh /\ SkipCovered
  BY DEF SkipInv
<1>1. UNCHANGED <<now, lastRun, ran, coverage, lost, captured>>
  BY DEF Idle
<1>2. Created' = Created /\ DueCollectors' = DueCollectors
  BY <1>1 DEF Created, DueCollectors
<1>3. RowsPast' /\ FreshSnapshots' /\ SkipCovered'
  BY <1>0, <1>1, <1>2
  DEF RowsPast, FreshSnapshots, SkipCovered, Covered, RowStands
<1>4. \A q \in Callers : q # p => /\ pc'[q] = pc[q]
                                  /\ call'[q] = call[q]
                                  /\ task'[q] = task[q]
  BY DEF Others
<1>5. ScheduledOrForced'
  BY <1>0, <1>2, <1>4 DEF ScheduledOrForced, Idle, Holds
<1>6. TargetsDue'
  <2> SUFFICES ASSUME NEW q \in Callers, Holds(q)', call'[q].op = "collect",
                      NEW c \in call'[q].targets, task'[q][c] # "done"
               PROVE  c \in DueCollectors
    BY <1>2 DEF TargetsDue
  <2>1. CASE q # p
    BY <1>0, <1>4, <2>1 DEF TargetsDue, Holds
  <2>2. CASE q = p
    <3>1. c \in Collectors
      BY DEF TypeOK, Call
    <3> QED
      BY <1>0, <2>2, <3>1 DEF TargetsDue, Idle, Holds
  <2> QED
    BY <2>1, <2>2
<1>7. ForcedFresh'
  BY <1>0, <1>1, <1>4 DEF ForcedFresh, Idle, Holds
<1> QED
  BY <1>3, <1>5, <1>6, <1>7 DEF SkipParts

LEMMA SkipChoose ==
  ASSUME SkipInv, TypeOK', NEW p \in Callers, Others(p),
         ReuseSnapshot(p) \/ CreateSnapshot(p)
  PROVE  SkipParts'
<1>0. /\ RowsPast /\ ScheduledOrForced /\ FreshSnapshots
      /\ TargetsDue /\ ForcedFresh /\ SkipCovered
      /\ SpacingInv /\ TaskOwned /\ CycleExclusive
  BY DEF SkipInv, CleanInv, SpacingInv
<1>1. /\ pc[p] = "holding" /\ pc'[p] = "running"
      /\ UNCHANGED <<now, lastRun, ran, coverage, lost>>
      /\ call'[p].op = call[p].op /\ call'[p].targets = call[p].targets
      /\ call'[p].snapshot \in Created'
      /\ \A c \in Collectors : task[p][c] = "off"
      /\ CreateSnapshot(p) => call'[p].snapshot \notin Created
      /\ call[p].op = "all" => CreateSnapshot(p)
      /\ Created \subseteq Created'
  BY <1>0, ChooseEffect
<1>2. \A q \in Callers : q # p => /\ pc'[q] = pc[q]
                                  /\ call'[q] = call[q]
                                  /\ task'[q] = task[q]
  BY DEF Others
<1>3. DueCollectors' = DueCollectors
  BY <1>1 DEF DueCollectors
<1>4. RowsPast' /\ FreshSnapshots' /\ SkipCovered'
  BY <1>0, <1>1, <1>3
  DEF RowsPast, FreshSnapshots, SkipCovered, Covered, RowStands
<1>5. ScheduledOrForced'
  BY <1>0, <1>1, <1>2 DEF ScheduledOrForced, Holds
<1>6. TargetsDue'
  <2> SUFFICES ASSUME NEW q \in Callers, Holds(q)', call'[q].op = "collect",
                      NEW c \in call'[q].targets, task'[q][c] # "done"
               PROVE  c \in DueCollectors
    BY <1>3 DEF TargetsDue
  <2>1. CASE q # p
    BY <1>0, <1>2, <2>1 DEF TargetsDue, Holds
  <2>2. CASE q = p
    <3>1. c \in Collectors
      BY DEF TypeOK, Call
    <3> QED
      BY <1>0, <1>1, <2>2, <3>1 DEF TargetsDue, Holds
  <2> QED
    BY <2>1, <2>2
<1>7. ForcedFresh'
  <2> SUFFICES ASSUME NEW q \in Callers, NEW c \in Collectors,
                      pc'[q] = "running", call'[q].op = "all",
                      task'[q][c] \notin {"off", "recorded", "done"}
               PROVE  /\ coverage'[call'[q].snapshot][c].status # "success"
                      /\ <<call'[q].snapshot, c>> \notin lost'
    BY DEF ForcedFresh
  <2>1. q = p
    BY <1>0, <1>1, <1>2 DEF CycleExclusive, Holds
  <2>2. call'[p].snapshot \in Snapshots /\ call'[p].snapshot \notin Created
    BY <1>1, <2>1 DEF Created
  <2> QED
    BY <1>0, <1>1, <2>1, <2>2 DEF FreshSnapshots
<1> QED
  BY <1>4, <1>5, <1>6, <1>7 DEF SkipParts

LEMMA SkipRecord ==
  ASSUME SkipInv, TypeOK', NEW p \in Callers, NEW c \in Collectors, Others(p),
         RecordRun(p, c)
  PROVE  SkipParts'
<1> DEFINE s == call[p].snapshot
<1>0. /\ RowsPast /\ ScheduledOrForced /\ FreshSnapshots
      /\ TargetsDue /\ ForcedFresh /\ SkipCovered
      /\ SpacingInv /\ TypeOK /\ TaskOwned /\ CycleExclusive
  BY DEF SkipInv, CleanInv, SpacingInv
<1>1. /\ s \in Snapshots /\ pc[p] = "running"
      /\ UNCHANGED <<pc, now, lastRun, ran, captured>>
      /\ task[p][c] \in {"ok", "failed"}
      /\ \A d \in Collectors : d # c => task'[p][d] = task[p][d]
      /\ call'[p].snapshot = s
      /\ call'[p].op = call[p].op
      /\ call'[p].targets = call[p].targets
      /\ task'[p][c] \in {"recorded", "done"}
  BY <1>0, RecordRunCall
<1>2. /\ \A r \in Snapshots, d \in Collectors :
           r # s \/ d # c => /\ coverage'[r][d] = coverage[r][d]
                             /\ (<<r, d>> \in lost' <=> <<r, d>> \in lost)
      /\ \/ coverage'[s][c] = OutcomeRow(p, c)
         \/ coverage'[s][c] = coverage[s][c] /\ <<s, c>> \in lost'
  BY <1>0, RecordRunRows
<1>3. Created' = Created /\ DueCollectors' = DueCollectors
  BY <1>1 DEF Created, DueCollectors
<1>4. s \in Created /\ c \in call[p].targets
  BY <1>0, <1>1 DEF ScheduledOrForced, TaskOwned
<1>5. \A q \in Callers : q # p => /\ pc'[q] = pc[q]
                                  /\ call'[q] = call[q]
                                  /\ task'[q] = task[q]
  BY DEF Others
<1>6. \A q \in Callers : Holds(q) => q = p
  BY <1>0, <1>1 DEF CycleExclusive, Holds
<1>7. RowsPast'
  <2>1. now \in Nat /\ OutcomeRow(p, c).at <= now
    BY <1>0 DEF OutcomeRow, TypeOK
  <2> QED
    BY <1>0, <1>1, <1>2, <2>1 DEF RowsPast
<1>8. ScheduledOrForced'
  BY <1>0, <1>1, <1>3, <1>5 DEF ScheduledOrForced, Holds
<1>9. FreshSnapshots'
  BY <1>0, <1>2, <1>3, <1>4 DEF FreshSnapshots
<1>10. TargetsDue'
  <2> SUFFICES ASSUME NEW q \in Callers, Holds(q)', call'[q].op = "collect",
                      NEW d \in call'[q].targets, task'[q][d] # "done"
               PROVE  d \in DueCollectors
    BY <1>3 DEF TargetsDue
  <2>1. q = p /\ Holds(p)
    BY <1>1, <1>6 DEF Holds
  <2>2. d \in Collectors /\ task[p][d] # "done"
    BY <1>1, <2>1 DEF TypeOK, Call
  <2> QED
    BY <1>0, <1>1, <2>1, <2>2 DEF TargetsDue
<1>11. ForcedFresh'
  <2> SUFFICES ASSUME NEW q \in Callers, NEW d \in Collectors,
                      pc'[q] = "running", call'[q].op = "all",
                      task'[q][d] \notin {"off", "recorded", "done"}
               PROVE  /\ coverage'[call'[q].snapshot][d].status # "success"
                      /\ <<call'[q].snapshot, d>> \notin lost'
    BY DEF ForcedFresh
  <2>1. q = p /\ d # c
    BY <1>1, <1>6 DEF Holds
  <2>2. task[p][d] \notin {"off", "recorded", "done"}
    BY <1>1, <2>1
  <2>3. coverage[s][d].status # "success" /\ <<s, d>> \notin lost
    BY <1>0, <1>1, <2>1, <2>2 DEF ForcedFresh
  <2> QED
    BY <1>1, <1>2, <2>1, <2>3
<1>12. SkipCovered'
  <2> SUFFICES ASSUME NEW d \in Collectors, d \notin DueCollectors
               PROVE  Covered(d)'
    BY <1>3 DEF SkipCovered
  <2> DEFINE r == ran[d].snapshot
  <2>1. r \in Snapshots /\ (RowStands(r, d) \/ <<r, d>> \in lost)
    BY <1>0 DEF SkipCovered, Covered
  <2>2. r # s \/ d # c
    <3>1. CASE call[p].op = "collect"
      BY <1>0, <1>1, <1>4, <3>1 DEF TargetsDue, Holds
    <3>2. CASE call[p].op = "all"
      BY <1>0, <1>1, <2>1, <3>2 DEF ForcedFresh, RowStands
    <3> QED
      BY <1>0, <1>1, <3>1, <3>2 DEF ScheduledOrForced, Holds
  <2>3. /\ coverage'[r][d] = coverage[r][d]
        /\ <<r, d>> \in lost' <=> <<r, d>> \in lost
    BY <1>2, <2>1, <2>2
  <2>4. ran' = ran /\ lastRun' = lastRun
    BY <1>1
  <2> QED
    BY <2>1, <2>3, <2>4 DEF Covered, RowStands
<1> QED
  BY <1>7, <1>8, <1>9, <1>10, <1>11, <1>12 DEF SkipParts

LEMMA SkipSetLastRun ==
  ASSUME SkipInv, TypeOK', NEW p \in Callers, NEW c \in Collectors, Others(p),
         SetLastRun(p, c)
  PROVE  SkipParts'
<1>0. /\ RowsPast /\ ScheduledOrForced /\ FreshSnapshots
      /\ TargetsDue /\ ForcedFresh /\ SkipCovered
      /\ RunEvidence /\ TypeOK /\ TaskOwned /\ CycleExclusive
  BY DEF SkipInv, CleanInv, SpacingInv
<1>1. /\ UNCHANGED <<now, pc, call, captured, coverage, lost>>
      /\ pc[p] = "running"
      /\ task[p][c] = "recorded" /\ task'[p][c] = "done"
      /\ \A d \in Collectors : d # c => /\ task'[p][d] = task[p][d]
                                        /\ lastRun'[d] = lastRun[d]
                                        /\ ran'[d] = ran[d]
      /\ lastRun'[c] = now
      /\ ran'[c].snapshot = call[p].snapshot
      /\ ran'[c].since = call[p].started
  BY <1>0, SetLastRunEffect
<1>2. Created' = Created
  BY <1>1 DEF Created
<1>3. \A q \in Callers : Holds(q) => q = p
  BY <1>0, <1>1 DEF CycleExclusive, Holds
<1>4. RowsPast' /\ ScheduledOrForced' /\ FreshSnapshots'
  BY <1>0, <1>1, <1>2
  DEF RowsPast, ScheduledOrForced, FreshSnapshots, Holds
<1>5. \A d \in Collectors : d # c => (d \in DueCollectors' <=> d \in DueCollectors)
  BY <1>1 DEF DueCollectors
<1>6. TargetsDue'
  <2> SUFFICES ASSUME NEW q \in Callers, Holds(q)', call'[q].op = "collect",
                      NEW d \in call'[q].targets, task'[q][d] # "done"
               PROVE  d \in DueCollectors'
    BY DEF TargetsDue
  <2>1. q = p /\ Holds(p)
    BY <1>1, <1>3 DEF Holds
  <2>2. d \in Collectors /\ d # c /\ task[p][d] # "done"
    BY <1>1, <2>1 DEF TypeOK, Call
  <2> QED
    BY <1>0, <1>1, <1>5, <2>1, <2>2 DEF TargetsDue
<1>7. ForcedFresh'
  <2> SUFFICES ASSUME NEW q \in Callers, NEW d \in Collectors,
                      pc'[q] = "running", call'[q].op = "all",
                      task'[q][d] \notin {"off", "recorded", "done"}
               PROVE  /\ coverage'[call'[q].snapshot][d].status # "success"
                      /\ <<call'[q].snapshot, d>> \notin lost'
    BY DEF ForcedFresh
  <2>1. q = p /\ d # c
    BY <1>1, <1>3 DEF Holds
  <2> QED
    BY <1>0, <1>1, <2>1 DEF ForcedFresh
<1>8. SkipCovered'
  <2> SUFFICES ASSUME NEW d \in Collectors, d \notin DueCollectors'
               PROVE  Covered(d)'
    BY DEF SkipCovered
  <2>1. CASE d # c
    <3>1. Covered(d) /\ ran'[d] = ran[d] /\ lastRun'[d] = lastRun[d]
      BY <1>0, <1>1, <1>5, <2>1 DEF SkipCovered
    <3> QED
      BY <1>1, <3>1 DEF Covered, RowStands
  <2>2. CASE d = c
    <3> DEFINE s == call[p].snapshot
    <3>1. /\ s \in Snapshots
          /\ \/ /\ coverage[s][c].status = "success"
                /\ coverage[s][c].at >= call[p].started
             \/ <<s, c>> \in lost
      BY <1>0, <1>1 DEF TaskOwned, RunEvidence, RecordedSince
    <3>2. coverage[s][c].at <= now
      BY <1>0, <3>1 DEF RowsPast
    <3> QED
      BY <1>1, <2>2, <3>1, <3>2 DEF Covered, RowStands
  <2> QED
    BY <2>1, <2>2
<1> QED
  BY <1>4, <1>6, <1>7, <1>8 DEF SkipParts

LEMMA SkipInvStep ==
  ASSUME "one" \notin Ops
  PROVE  SkipInv /\ [Next]_vars => SkipInv'
<1> SUFFICES ASSUME SkipInv, [Next]_vars PROVE SkipInv'
  OBVIOUS
<1>0. /\ CleanInv /\ TypeOK /\ TaskOwned /\ ScheduledOrForced
      /\ RowsPast /\ FreshSnapshots /\ TargetsDue /\ ForcedFresh
      /\ SkipCovered
  BY DEF SkipInv, CleanInv, SpacingInv
<1>1. CleanInv' /\ TypeOK'
  BY <1>0, CleanInvStep DEF CleanInv, SpacingInv
<1>2. ASSUME NEW p \in Callers, StepOf(p) PROVE SkipParts'
  <2>1. Others(p)
    BY <1>0, <1>2, OthersStep
  <2>2. CASE ReuseSnapshot(p) \/ CreateSnapshot(p)
    BY <1>1, <2>1, <2>2, SkipChoose
  <2>3. CASE \E c \in Collectors : RecordRun(p, c)
    BY <1>1, <2>1, <2>3, SkipRecord
  <2>4. CASE \E c \in Collectors : SetLastRun(p, c)
    BY <1>1, <2>1, <2>4, SkipSetLastRun
  <2>5. CASE /\ ~ReuseSnapshot(p) /\ ~CreateSnapshot(p)
             /\ \A c \in Collectors : ~RecordRun(p, c) /\ ~SetLastRun(p, c)
    <3>1. Idle(p)
      BY <1>0, <1>2, <2>5, IdleStep
    <3> QED
      BY <1>1, <2>1, <3>1, SkipIdle
  <2> QED
    BY <2>2, <2>3, <2>4, <2>5
<1>3. ASSUME Tick PROVE SkipParts'
  <2>1. /\ now' = now + 1 /\ now \in Nat
        /\ UNCHANGED <<lastRun, ran, captured, coverage, lost, pc, call, task>>
    BY <1>0, <1>3 DEF Tick, TypeOK, memory, calls, store
  <2>2. Created' = Created
    BY <2>1 DEF Created
  <2>3. DueCollectors \subseteq DueCollectors'
    <3> SUFFICES ASSUME NEW c \in DueCollectors PROVE c \in DueCollectors'
      OBVIOUS
    <3>1. c \in Collectors
      BY DEF DueCollectors
    <3> QED
      BY <1>0, <2>1, <3>1, DueStays
  <2>4. RowsPast'
    BY <1>0, <2>1 DEF RowsPast, TypeOK, Row
  <2>5. ScheduledOrForced' /\ FreshSnapshots' /\ ForcedFresh'
    BY <1>0, <2>1, <2>2
    DEF ScheduledOrForced, FreshSnapshots, ForcedFresh, Holds
  <2>6. TargetsDue'
    BY <1>0, <2>1, <2>3 DEF TargetsDue, Holds
  <2>7. SkipCovered'
    BY <1>0, <2>1, <2>3 DEF SkipCovered, Covered, RowStands
  <2> QED
    BY <2>4, <2>5, <2>6, <2>7 DEF SkipParts
<1>4. ASSUME Restart PROVE SkipParts'
  <2>1. /\ UNCHANGED <<now, captured, coverage>>
        /\ lastRun' = [c \in Collectors |-> Never]
        /\ pc' = [p \in Callers |-> "idle"]
        /\ call' = [p \in Callers |-> NoCall]
        /\ lost' = lost \cup {sc \in Snapshots \X Collectors :
                                Unrecorded(sc[1], sc[2])}
    BY <1>4 DEF Restart
  <2>2. Created' = Created
    BY <2>1 DEF Created
  <2>3. RowsPast' /\ TargetsDue' /\ ForcedFresh'
    BY <1>0, <2>1 DEF RowsPast, TargetsDue, ForcedFresh, Holds
  <2>4. ScheduledOrForced'
    BY <2>1 DEF ScheduledOrForced, Holds, NoCall
  <2>5. FreshSnapshots'
    BY <1>0, <2>1, <2>2 DEF FreshSnapshots, ScheduledOrForced, Unrecorded
  <2>6. SkipCovered'
    BY <2>1 DEF SkipCovered, DueCollectors
  <2> QED
    BY <2>3, <2>4, <2>5, <2>6 DEF SkipParts
<1>5. ASSUME UNCHANGED vars PROVE SkipParts'
  <2>1. UNCHANGED <<now, lastRun, ran, captured, coverage, lost, pc, call, task>>
    BY <1>5 DEF vars, memory, calls, store
  <2>2. Created' = Created /\ DueCollectors' = DueCollectors
    BY <2>1 DEF Created, DueCollectors
  <2> QED
    BY <1>0, <2>1, <2>2
    DEF SkipParts, RowsPast, ScheduledOrForced, FreshSnapshots, TargetsDue,
        ForcedFresh, SkipCovered, Covered, RowStands, Holds
<1>6. SkipParts'
  BY <1>2, <1>3, <1>4, <1>5 DEF Next, StepOf
<1> QED
  BY <1>1, <1>6 DEF SkipInv, SkipParts

\* A collector that is not due still has the row of the run that set its
\* lastRun, a success recorded since that run's call started, for every interval
\* and any mix of scheduled and forced cycles, failures and restarts;
\* RunCollector, which only tests call, writes to a snapshot its caller names
\* and is left out.
THEOREM SkippedAreCovered ==
  ASSUME "one" \notin Ops
  PROVE  Spec => []SkippedIsCovered
<1>1. Init => SkipInv
  <2> SUFFICES ASSUME Init PROVE SkipInv
    OBVIOUS
  <2>1. CleanInv
    <3>1. RunEvidence
      BY DEF Init, RunEvidence
    <3> QED
      BY <3>1, SpacingInit, IInvInit DEF CleanInv, IInv
  <2>2. RowsPast /\ FreshSnapshots
    BY DEF Init, RowsPast, FreshSnapshots, NoRow
  <2>3. ScheduledOrForced /\ TargetsDue /\ ForcedFresh
    BY DEF Init, ScheduledOrForced, TargetsDue, ForcedFresh, Holds, NoCall
  <2>4. SkipCovered
    BY DEF Init, SkipCovered, DueCollectors
  <2> QED
    BY <2>1, <2>2, <2>3, <2>4 DEF SkipInv
<1>2. SkipInv /\ [Next]_vars => SkipInv'
  BY SkipInvStep
<1>3. SkipInv => SkippedIsCovered
  BY DEF SkipInv, SkipCovered, Covered, RowStands, SkippedIsCovered
<1> QED
  BY <1>1, <1>2, <1>3, PTL DEF Spec

-----------------------------------------------------------------------------
(* Every step of the coordinator is a step of CollectionCycle or leaves its *)
(* variables alone.                                                        *)

\* What a call holds before it is inside a cycle: a scheduled caller has named
\* no collector, a caller of RunCollector has.
CallShape ==
  \A p \in Callers :
    /\ pc[p] = "idle" => call[p].targets = {}
    /\ pc[p] = "waiting" /\ call[p].op = "collect" => call[p].targets = {}
    /\ pc[p] = "waiting" /\ call[p].op = "one" => call[p].targets # {}

LEMMA ShapeStep ==
  ASSUME TypeOK, CallShape, Next
  PROVE  CallShape'
<1> USE DEF CallShape
<1>0. /\ call \in [Callers -> Call]
      /\ pc \in [Callers -> Phases]
  BY DEF TypeOK
<1>1. ASSUME NEW p \in Callers, BeginCollect(p) PROVE CallShape'
  BY <1>0, <1>1 DEF BeginCollect, Call
<1>2. ASSUME NEW p \in Callers, BeginRunCollector(p) PROVE CallShape'
  <2>1. PICK c \in Collectors, s \in Created :
          call' = [call EXCEPT ![p].op = "one", ![p].targets = {c},
                               ![p].snapshot = s]
    BY <1>2 DEF BeginRunCollector
  <2>2. /\ \A q \in Callers : q # p => call'[q] = call[q]
        /\ call'[p].op = "one" /\ call'[p].targets # {}
    BY <1>0, <2>1 DEF Call
  <2>3. pc' = [pc EXCEPT ![p] = "waiting"]
    BY <1>2 DEF BeginRunCollector
  <2> QED
    BY <1>0, <2>2, <2>3
<1>3. ASSUME NEW p \in Callers, Return(p) PROVE CallShape'
  BY <1>0, <1>3 DEF Return, NoCall
<1>4. ASSUME NEW p \in Callers, StartCollect(p) \/ StartCollectAll(p)
      PROVE  CallShape'
  BY <1>0, <1>4, StartFrame
<1>5. ASSUME NEW p \in Callers, StartRunCollector(p) PROVE CallShape'
  BY <1>0, <1>5 DEF StartRunCollector, Call
<1>6. ASSUME NEW p \in Callers, NEW s \in Snapshots, RunTargets(p, s)
      PROVE  CallShape'
  BY <1>0, <1>6 DEF RunTargets, Call
<1>7. ASSUME NEW p \in Callers, ReuseSnapshot(p) \/ CreateSnapshot(p)
      PROVE  CallShape'
  BY <1>6, <1>7
  DEF ReuseSnapshot, CreateSnapshot, Sharable, Recent, Latest, Created
<1>8. ASSUME NEW p \in Callers, NEW c \in Collectors, RecordRun(p, c)
      PROVE  CallShape'
  BY <1>8, RecordRunFrame
<1>9. ASSUME UNCHANGED <<pc, call>> PROVE CallShape'
  BY <1>9
<1>10. CASE Restart
  BY <1>10 DEF Restart, NoCall
<1> QED
  BY <1>1, <1>2, <1>3, <1>4, <1>5, <1>7, <1>8, <1>9, <1>10, ZenonT(60)
  DEF Next, Proceed, Task, GiveUp, NothingDue, SnapshotFails, EndCycle,
      Cancel, Tick, CheckContext, WriteFirst, WriteLast, CollectFails,
      SetLastRun, calls

-----------------------------------------------------------------------------
\* What the refinement mapping makes of the coordinator's assignments.
LEMMA PhaseUpdate ==
  ASSUME TypeOK, NEW p \in Callers, NEW v, pc' = [pc EXCEPT ![p] = v]
  PROVE  /\ PhaseMap' = [PhaseMap EXCEPT ![p] = PhaseOf(v)]
         /\ PhaseMap[p] = PhaseOf(pc[p])
BY DEF TypeOK, PhaseMap

LEMMA PhaseNames ==
  /\ \A v : PhaseOf(v) = "out" <=> v = "idle"
  /\ \A v : PhaseOf(v) = "waiting" <=> v = "waiting"
  /\ PhaseOf("holding") = "in" /\ PhaseOf("running") = "in"
BY DEF PhaseOf

LEMMA MapsStill ==
  /\ UNCHANGED pc => UNCHANGED PhaseMap
  /\ UNCHANGED call => UNCHANGED <<TargetsMap, ErrorsMap>>
  /\ UNCHANGED task => UNCHANGED DoneMap
BY DEF PhaseMap, TargetsMap, ErrorsMap, DoneMap

LEMMA ReturnMap ==
  ASSUME TypeOK, NEW p \in Callers, Return(p), UNCHANGED <<now, lastRun>>
  PROVE  Cycle!Quit(p)
<1>1. PhaseMap' = [PhaseMap EXCEPT ![p] = "out"]
  <2>1. pc' = [pc EXCEPT ![p] = "idle"] /\ PhaseOf("idle") = "out"
    BY DEF Return, PhaseOf
  <2> QED
    BY <2>1, PhaseUpdate
<1>2. /\ call \in [Callers -> Call]
      /\ call' = [call EXCEPT ![p] = NoCall]
      /\ NoCall.targets = {} /\ NoCall.errors = {}
  BY DEF TypeOK, Return, NoCall
<1>3. /\ TargetsMap' = [TargetsMap EXCEPT ![p] = {}]
      /\ ErrorsMap' = [ErrorsMap EXCEPT ![p] = {}]
  BY <1>2 DEF TargetsMap, ErrorsMap
<1>4. DoneMap' = [DoneMap EXCEPT ![p] = {}]
  BY DEF TypeOK, Return, NoTasks, DoneMap
<1>5. cancelled' = [cancelled EXCEPT ![p] = FALSE]
  BY DEF Return
<1> QED
  BY <1>1, <1>3, <1>4, <1>5 DEF Cycle!Quit

\* The token is in the channel only while nobody is inside a cycle.
LEMMA TokenMeansFree ==
  ASSUME CycleExclusive, TypeOK, cycle
  PROVE  Cycle!Free
BY PhaseNames DEF CycleExclusive, Holds, TypeOK, Phases, PhaseMap, Cycle!Free

LEMMA DueMap == Cycle!Due = DueCollectors
BY DEF Cycle!Due, DueCollectors

\* A caller starts to wait.
LEMMA RequestRefined ==
  ASSUME TypeOK, CallShape, NEW p \in Callers,
         BeginCollect(p) \/ BeginRunCollector(p)
  PROVE  \/ Cycle!Request(p, {})
         \/ \E c \in Collectors : Cycle!Request(p, {c})
<1>1. PhaseMap[p] = "out" /\ PhaseMap' = [PhaseMap EXCEPT ![p] = "waiting"]
  <2>1. pc[p] = "idle" /\ pc' = [pc EXCEPT ![p] = "waiting"]
    BY DEF BeginCollect, BeginRunCollector
  <2>2. PhaseOf("idle") = "out" /\ PhaseOf("waiting") = "waiting"
    BY DEF PhaseOf
  <2> QED
    BY <2>1, <2>2, PhaseUpdate
<1>2. UNCHANGED <<now, lastRun, cancelled, DoneMap>>
  BY MapsStill DEF BeginCollect, BeginRunCollector, memory
<1>3. call \in [Callers -> Call]
  BY DEF TypeOK
<1>4. CASE BeginCollect(p)
  <2>1. /\ call' = [call EXCEPT ![p].op = "collect"]
        /\ call[p].targets = {}
    BY <1>4 DEF BeginCollect, CallShape
  <2>2. TargetsMap' = [TargetsMap EXCEPT ![p] = {}] /\ UNCHANGED ErrorsMap
    BY <1>3, <2>1 DEF TargetsMap, ErrorsMap, Call
  <2> QED
    BY <1>1, <1>2, <2>2 DEF Cycle!Request
<1>5. CASE BeginRunCollector(p)
  <2>1. PICK c \in Collectors, s \in Created :
          call' = [call EXCEPT ![p].op = "one", ![p].targets = {c},
                               ![p].snapshot = s]
    BY <1>5 DEF BeginRunCollector
  <2>2. TargetsMap' = [TargetsMap EXCEPT ![p] = {c}] /\ UNCHANGED ErrorsMap
    BY <1>3, <2>1 DEF TargetsMap, ErrorsMap, Call
  <2> QED
    BY <1>1, <1>2, <2>2 DEF Cycle!Request
<1> QED
  BY <1>4, <1>5

\* A caller enters a cycle.
LEMMA BeginRefined ==
  ASSUME TypeOK, CycleExclusive, TaskOwned, CallShape, NEW p \in Callers,
         StartCollect(p) \/ StartCollectAll(p) \/ StartRunCollector(p)
  PROVE  Cycle!BeginDue(p) \/ Cycle!BeginNamed(p) \/ Cycle!BeginAll(p)
<1>1. Cycle!Free
  BY TokenMeansFree DEF StartCollect, StartCollectAll, StartRunCollector
<1>2. PhaseMap' = [PhaseMap EXCEPT ![p] = "in"]
  <2>1. PICK v \in {"holding", "running"} : pc' = [pc EXCEPT ![p] = v]
    BY DEF StartCollect, StartCollectAll, StartRunCollector
  <2>2. PhaseOf(v) = "in"
    BY DEF PhaseOf
  <2>3. PhaseMap' = [PhaseMap EXCEPT ![p] = PhaseOf(v)]
    BY <2>1, PhaseUpdate
  <2> QED
    BY <2>2, <2>3
<1>3. PhaseMap[p] = PhaseOf(pc[p])
  BY DEF PhaseMap
<1>4. UNCHANGED <<now, lastRun, cancelled>>
  BY DEF StartCollect, StartCollectAll, StartRunCollector
<1>5. call \in [Callers -> Call] /\ task \in [Callers -> [Collectors -> TaskStates]]
  BY DEF TypeOK
<1>6. CASE StartCollect(p)
  <2>1. /\ call' = [call EXCEPT ![p].started = now,
                               ![p].targets = DueCollectors]
        /\ pc[p] = "waiting" /\ call[p].op = "collect"
        /\ DueCollectors # {} /\ UNCHANGED task
    BY <1>6 DEF StartCollect
  <2>2. /\ TargetsMap' = [TargetsMap EXCEPT ![p] = DueCollectors]
        /\ UNCHANGED ErrorsMap
    BY <1>5, <2>1 DEF TargetsMap, ErrorsMap, Call
  <2>3. TargetsMap[p] = {} /\ PhaseMap[p] = "waiting" /\ UNCHANGED DoneMap
    BY <1>3, <2>1, MapsStill DEF CallShape, TargetsMap, PhaseOf
  <2> QED
    BY <1>1, <1>2, <1>4, <2>1, <2>2, <2>3, DueMap
    DEF Cycle!BeginDue, Cycle!Begin
<1>7. CASE StartCollectAll(p)
  <2>1. /\ call' = [call EXCEPT ![p].op = "all", ![p].started = now,
                               ![p].targets = Collectors]
        /\ pc[p] = "idle" /\ UNCHANGED task
    BY <1>7 DEF StartCollectAll
  <2>2. /\ TargetsMap' = [TargetsMap EXCEPT ![p] = Collectors]
        /\ UNCHANGED ErrorsMap
    BY <1>5, <2>1 DEF TargetsMap, ErrorsMap, Call
  <2>3. PhaseMap[p] = "out" /\ UNCHANGED DoneMap
    BY <1>3, <2>1, MapsStill DEF PhaseOf
  <2> QED
    BY <1>1, <1>2, <1>4, <2>2, <2>3 DEF Cycle!BeginAll, Cycle!Begin
<1>8. CASE StartRunCollector(p)
  <2>1. /\ call' = [call EXCEPT ![p].started = now]
        /\ pc[p] = "waiting" /\ call[p].op = "one"
    BY <1>8 DEF StartRunCollector
  <2>2. /\ TargetsMap' = [TargetsMap EXCEPT ![p] = TargetsMap[p]]
        /\ UNCHANGED ErrorsMap
    BY <1>5, <2>1 DEF TargetsMap, ErrorsMap, Call
  <2>3. TargetsMap[p] # {} /\ PhaseMap[p] = "waiting"
    BY <1>3, <2>1 DEF CallShape, TargetsMap, PhaseOf
  <2>4. \A c \in Collectors : task[p][c] = "off"
    BY <2>1, NoGoroutines
  <2>5. /\ \A q \in Callers : q # p => task'[q] = task[q]
        /\ \A c \in Collectors : task'[p][c] # "done"
    BY <1>5, <1>8 DEF StartRunCollector
  <2>6. UNCHANGED DoneMap
    BY <2>4, <2>5 DEF DoneMap
  <2> QED
    BY <1>1, <1>2, <1>4, <2>2, <2>3, <2>6 DEF Cycle!BeginNamed, Cycle!Begin
<1> QED
  BY <1>6, <1>7, <1>8

\* Choosing a snapshot is invisible.
LEMMA ChooseRefined ==
  ASSUME TypeOK, TaskOwned, NEW p \in Callers,
         ReuseSnapshot(p) \/ CreateSnapshot(p)
  PROVE  UNCHANGED Cycle!cycleVars
<1>1. PICK s : RunTargets(p, s)
  BY DEF ReuseSnapshot, CreateSnapshot
<1>2. pc[p] = "holding" /\ UNCHANGED <<now, lastRun, cancelled>>
  BY DEF ReuseSnapshot, CreateSnapshot, memory
<1>3. UNCHANGED PhaseMap
  BY <1>1, <1>2 DEF RunTargets, TypeOK, PhaseMap, PhaseOf
<1>4. UNCHANGED <<TargetsMap, ErrorsMap>>
  <2>1. call \in [Callers -> Call] /\ call' = [call EXCEPT ![p].snapshot = s]
    BY <1>1 DEF TypeOK, RunTargets
  <2> QED
    BY <2>1 DEF TargetsMap, ErrorsMap, Call
<1>5. UNCHANGED DoneMap
  <2>1. \A c \in Collectors : task[p][c] = "off"
    BY <1>2, NoGoroutines
  <2>2. /\ \A q \in Callers : q # p => task'[q] = task[q]
        /\ \A c \in Collectors : task'[p][c] # "done"
    BY <1>1 DEF TypeOK, RunTargets
  <2> QED
    BY <2>1, <2>2 DEF DoneMap
<1> QED
  BY <1>2, <1>3, <1>4, <1>5 DEF Cycle!cycleVars

\* A goroutine is seen when it ends: it has failed when its error is in the
\* result, and succeeded when lastRun has moved.
LEMMA TaskRefined ==
  ASSUME TypeOK, TaskOwned, NEW p \in Callers, NEW c \in Collectors, Task(p, c)
  PROVE  \/ Cycle!Succeed(p, c) \/ Cycle!Fail(p, c)
         \/ UNCHANGED Cycle!cycleVars
<1>1. /\ pc[p] = "running" /\ UNCHANGED <<now, pc, cancelled>>
      /\ task[p][c] \notin {"off", "done"}
  BY DEF Task, CheckContext, WriteFirst, WriteLast, CollectFails, RecordRun,
         SetLastRun, memory
<1>2. /\ UNCHANGED PhaseMap /\ PhaseMap[p] = "in"
      /\ c \in TargetsMap[p] \ DoneMap[p]
  BY <1>1, MapsStill DEF TaskOwned, PhaseMap, PhaseOf, TargetsMap, DoneMap
<1>3. ASSUME NEW t, SetTask(p, c, t), t # "done" PROVE UNCHANGED DoneMap
  BY <1>1, <1>3 DEF SetTask, TypeOK, DoneMap
<1>4. ASSUME SetTask(p, c, "done")
      PROVE  DoneMap' = [DoneMap EXCEPT ![p] = @ \cup {c}]
  BY <1>1, <1>4, ZenonT(40) DEF SetTask, TypeOK, DoneMap
<1>5. CASE CheckContext(p, c) \/ WriteFirst(p, c) \/ WriteLast(p, c)
           \/ CollectFails(p, c)
  <2>1. /\ \E t \in {"failed", "collecting", "torn", "ok"} : SetTask(p, c, t)
        /\ UNCHANGED <<call, lastRun>>
    BY <1>5 DEF CheckContext, WriteFirst, WriteLast, CollectFails, memory
  <2> QED
    BY <1>1, <1>2, <1>3, <2>1, MapsStill DEF Cycle!cycleVars
<1>6. CASE RecordRun(p, c)
  <2>1. UNCHANGED lastRun
    BY <1>6 DEF RecordRun, memory
  <2>2. CASE task[p][c] = "ok"
    <3>1. SetTask(p, c, "recorded") /\ UNCHANGED call
      BY <1>6, <2>2 DEF RecordRun
    <3> QED
      BY <1>1, <1>2, <1>3, <2>1, <3>1, MapsStill DEF Cycle!cycleVars
  <2>3. CASE task[p][c] # "ok"
    <3>1. /\ SetTask(p, c, "done")
          /\ call' = [call EXCEPT ![p].errors = @ \cup {c}]
          /\ call \in [Callers -> Call]
      BY <1>6, <2>3 DEF RecordRun, TypeOK
    <3>2. /\ ErrorsMap' = [ErrorsMap EXCEPT ![p] = @ \cup {c}]
          /\ UNCHANGED TargetsMap
      BY <3>1 DEF ErrorsMap, TargetsMap, Call
    <3> QED
      BY <1>1, <1>2, <1>4, <2>1, <3>1, <3>2 DEF Cycle!Fail, Cycle!Finish
  <2> QED
    BY <2>2, <2>3
<1>7. CASE SetLastRun(p, c)
  <2>1. /\ SetTask(p, c, "done") /\ UNCHANGED call
        /\ lastRun' = [lastRun EXCEPT ![c] = now]
    BY <1>7 DEF SetLastRun
  <2> QED
    BY <1>1, <1>2, <1>4, <2>1, MapsStill DEF Cycle!Succeed, Cycle!Finish
<1> QED
  BY <1>5, <1>6, <1>7 DEF Task

\* A call returns.
LEMMA ReturnRefined ==
  ASSUME TypeOK, CycleExclusive, TaskOwned, CallShape, NEW p \in Callers,
         GiveUp(p) \/ NothingDue(p) \/ SnapshotFails(p) \/ EndCycle(p)
  PROVE  \/ Cycle!Withdraw(p) \/ Cycle!Skip(p)
         \/ Cycle!Abort(p) \/ Cycle!Leave(p)
<1>1. PhaseMap[p] = PhaseOf(pc[p])
  BY DEF PhaseMap
<1>2. Cycle!Quit(p)
  BY ReturnMap
  DEF GiveUp, NothingDue, SnapshotFails, EndCycle, memory
<1>3. CASE GiveUp(p)
  BY <1>1, <1>2, <1>3 DEF GiveUp, PhaseOf, Cycle!Withdraw
<1>4. CASE NothingDue(p)
  <2>1. Cycle!Free /\ Cycle!Due = {}
    BY <1>4, TokenMeansFree, DueMap DEF NothingDue
  <2>2. TargetsMap[p] = {} /\ PhaseMap[p] = "waiting"
    BY <1>1, <1>4 DEF NothingDue, CallShape, TargetsMap, PhaseOf
  <2> QED
    BY <1>2, <2>1, <2>2 DEF Cycle!Skip
<1>5. CASE SnapshotFails(p)
  <2>1. pc[p] = "holding"
    BY <1>5 DEF SnapshotFails
  <2>2. DoneMap[p] = {} /\ PhaseMap[p] = "in"
    BY <1>1, <2>1, NoGoroutines DEF DoneMap, PhaseOf
  <2> QED
    BY <1>2, <2>2 DEF Cycle!Abort
<1>6. CASE EndCycle(p)
  <2>1. pc[p] = "running" /\ AllDone(p)
    BY <1>6 DEF EndCycle
  <2>2. DoneMap[p] = TargetsMap[p] /\ PhaseMap[p] = "in"
    BY <1>1, <2>1 DEF AllDone, TaskOwned, DoneMap, TargetsMap, PhaseOf,
                      TypeOK, Call
  <2> QED
    BY <1>2, <2>2 DEF Cycle!Leave
<1> QED
  BY <1>3, <1>4, <1>5, <1>6

\* The environment.
LEMMA CancelRefined ==
  ASSUME TypeOK, NEW p \in Callers, Cancel(p)
  PROVE  Cycle!CancelCall(p)
<1>1. PhaseMap[p] # "out"
  BY DEF Cancel, PhaseMap, PhaseOf
<1>2. UNCHANGED <<PhaseMap, TargetsMap, DoneMap, ErrorsMap, now, lastRun>>
  BY MapsStill DEF Cancel, memory
<1> QED
  BY <1>1, <1>2 DEF Cancel, Cycle!CancelCall

LEMMA TickRefined ==
  ASSUME Tick PROVE Cycle!Advance
<1>1. UNCHANGED <<PhaseMap, TargetsMap, DoneMap, ErrorsMap>>
  BY MapsStill DEF Tick, calls
<1> QED
  BY <1>1 DEF Tick, Cycle!Advance, memory, calls

LEMMA RestartRefined ==
  ASSUME Restart PROVE Cycle!Reboot
<1>1. /\ PhaseMap' = [p \in Callers |-> "out"]
      /\ TargetsMap' = [p \in Callers |-> {}]
      /\ DoneMap' = [p \in Callers |-> {}]
      /\ ErrorsMap' = [p \in Callers |-> {}]
  BY DEF Restart, PhaseMap, PhaseOf, TargetsMap, DoneMap, ErrorsMap, NoCall,
         NoTasks
<1> QED
  BY <1>1 DEF Restart, Cycle!Reboot

-----------------------------------------------------------------------------
RInv == IInv /\ CallShape

LEMMA StepRefined ==
  ASSUME RInv, [Next]_vars
  PROVE  [Cycle!CycleNext]_(Cycle!cycleVars)
<1>0. TypeOK /\ CycleExclusive /\ TaskOwned /\ CallShape
  BY DEF RInv, IInv
<1>1. CASE UNCHANGED vars
  BY <1>1, MapsStill DEF vars, memory, calls, Cycle!cycleVars
<1>2. CASE Next
  <2>1. ASSUME NEW p \in Callers, BeginCollect(p) \/ BeginRunCollector(p)
        PROVE  Cycle!CycleNext
    BY <1>0, <2>1, RequestRefined DEF Cycle!CycleNext
  <2>2. ASSUME NEW p \in Callers,
               \/ StartCollect(p) \/ StartCollectAll(p) \/ StartRunCollector(p)
        PROVE  Cycle!CycleNext
    BY <1>0, <2>2, BeginRefined DEF Cycle!CycleNext
  <2>3. ASSUME NEW p \in Callers, ReuseSnapshot(p) \/ CreateSnapshot(p)
        PROVE  UNCHANGED Cycle!cycleVars
    BY <1>0, <2>3, ChooseRefined
  <2>4. ASSUME NEW p \in Callers, NEW c \in Collectors, Task(p, c)
        PROVE  [Cycle!CycleNext]_(Cycle!cycleVars)
    BY <1>0, <2>4, TaskRefined DEF Cycle!CycleNext
  <2>5. ASSUME NEW p \in Callers,
               \/ GiveUp(p) \/ NothingDue(p) \/ SnapshotFails(p)
               \/ EndCycle(p)
        PROVE  Cycle!CycleNext
    BY <1>0, <2>5, ReturnRefined DEF Cycle!CycleNext
  <2>6. ASSUME NEW p \in Callers, Cancel(p) PROVE Cycle!CycleNext
    BY <1>0, <2>6, CancelRefined DEF Cycle!CycleNext
  <2>7. Tick \/ Restart => Cycle!CycleNext
    BY TickRefined, RestartRefined DEF Cycle!CycleNext
  <2> QED
    BY <1>2, <2>1, <2>2, <2>3, <2>4, <2>5, <2>6, <2>7 DEF Next, Proceed
<1> QED
  BY <1>1, <1>2

\* The coordinator keeps every promise of CollectionCycle, for any callers,
\* collectors, intervals, windows and faults.
THEOREM CoordinatorImplementsCycle == Spec => ImplementsCycle
<1>1. Init => Cycle!CycleInit
  BY DEF Init, Cycle!CycleInit, PhaseMap, PhaseOf, TargetsMap, DoneMap,
         ErrorsMap, NoCall, NoTasks
<1>2. Init => CallShape
  BY DEF Init, CallShape, NoCall
<1>3. RInv /\ [Next]_vars => RInv'
  <2>1. RInv /\ UNCHANGED vars => CallShape'
    BY DEF RInv, CallShape, vars, calls
  <2> QED
    BY <2>1, IInvStep, ShapeStep DEF RInv, IInv
<1>4. RInv /\ [Next]_vars => [Cycle!CycleNext]_(Cycle!cycleVars)
  BY StepRefined
<1> QED
  BY <1>1, <1>2, <1>3, <1>4, IInvInit, PTL
  DEF Spec, RInv, ImplementsCycle, Cycle!CycleSpec
=============================================================================
