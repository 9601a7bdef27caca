---------------------------- MODULE Coordinator ----------------------------
(***************************************************************************)
(* The collection coordinator (internal/collector/coordinator.go) over the *)
(* snapshot tables it writes (internal/storage/sqlite/storage.go).         *)
(*                                                                         *)
(* Callers are the goroutines that call it: the scheduler's collection     *)
(* loop, a loop a timed-out Stop left behind, HTTP handlers.  A call runs  *)
(* one goroutine per collector against one snapshot; calls are serialised  *)
(* by a channel that holds a single token.  Rows survive a crash, the      *)
(* channel and lastRun do not.                                             *)
(***************************************************************************)
EXTENDS Naturals, FiniteSets

CONSTANTS
  Callers,       \* goroutines that call the coordinator
  Collectors,    \* the registered collectors
  MultiTx,       \* collectors that write their tables in several transactions
  Interval,      \* Interval[c]: time between two runs of collector c
  Window,        \* snapshotWindow: age below which a snapshot is reused
  Ops,           \* the entry points the callers use
  Faults,        \* the failures the environment inflicts
  Never,         \* "has no time": no map entry, no row
  MaxTime,       \* bound on the clock
  MaxSnapshots   \* bound on the number of snapshots

Snapshots == 1..MaxSnapshots

ASSUME ConstantsAssumption ==
  /\ MultiTx \subseteq Collectors
  /\ MaxTime \in Nat
  /\ MaxSnapshots \in Nat
  /\ Window \in Nat \ {0}
  /\ Interval \in [Collectors -> Nat \ {0}]
  /\ Ops \subseteq {"collect", "all", "one"}
  /\ Faults \subseteq {"cancel", "crash", "record"}
  /\ Never \notin Nat

VARIABLES
  now,        \* wall clock
  cycle,      \* the channel holds its token
  lastRun,    \* lastRun[c]: when collector c last succeeded, in memory
  ran,        \* ran[c]: the snapshot of the run that set lastRun[c] and when
              \* its call started (history)
  pc,         \* pc[p]: where caller p is
  call,       \* call[p]: the locals of the call p is making
  cancelled,  \* cancelled[p]: the context of p's call is done
  task,       \* task[p][c]: progress of the goroutine p started for c
  captured,   \* captured[s]: captured_at of snapshot s
  forced,     \* snapshots created by CollectAll
  coverage,   \* coverage[s][c]: the snapshot_collectors row
  data,       \* data[s][c]: what the tables of collector c hold for s
  lost        \* <<s, c>> whose latest run is missing from coverage (history)

memory == <<cycle, lastRun, ran>>
calls  == <<pc, call, cancelled, task>>
store  == <<captured, forced, coverage, data, lost>>
vars   == <<now, memory, calls, store>>

Phases     == {"idle", "waiting", "holding", "running"}
TaskStates == {"off", "ready", "collecting", "torn", "ok", "failed",
               "recorded", "done"}
NoCall  == [op |-> "none", started |-> 0, targets |-> {}, snapshot |-> 0,
            errors |-> {}]
NoRow   == [status |-> "none", at |-> 0]
NoRun   == [snapshot |-> 0, since |-> 0]
NoTasks == [c \in Collectors |-> "off"]

Row  == [status : {"none", "success", "error"}, at : Nat]
Call == [op : {"none", "collect", "all", "one"}, started : Nat,
         targets : SUBSET Collectors, snapshot : 0..MaxSnapshots,
         errors : SUBSET Collectors]
Run  == [snapshot : 0..MaxSnapshots, since : Nat]

TypeOK ==
  /\ now \in Nat
  /\ cycle \in BOOLEAN
  /\ lastRun \in [Collectors -> Nat \cup {Never}]
  /\ ran \in [Collectors -> Run]
  /\ pc \in [Callers -> Phases]
  /\ call \in [Callers -> Call]
  /\ cancelled \in [Callers -> BOOLEAN]
  /\ task \in [Callers -> [Collectors -> TaskStates]]
  /\ captured \in [Snapshots -> Nat \cup {Never}]
  /\ forced \in SUBSET Snapshots
  /\ coverage \in [Snapshots -> [Collectors -> Row]]
  /\ data \in [Snapshots -> [Collectors -> {"none", "torn", "whole"}]]
  /\ lost \in SUBSET ((0..MaxSnapshots) \X Collectors)

Init ==
  /\ now = 0
  /\ cycle = TRUE
  /\ lastRun = [c \in Collectors |-> Never]
  /\ ran = [c \in Collectors |-> NoRun]
  /\ pc = [p \in Callers |-> "idle"]
  /\ call = [p \in Callers |-> NoCall]
  /\ cancelled = [p \in Callers |-> FALSE]
  /\ task = [p \in Callers |-> NoTasks]
  /\ captured = [s \in Snapshots |-> Never]
  /\ forced = {}
  /\ coverage = [s \in Snapshots |-> [c \in Collectors |-> NoRow]]
  /\ data = [s \in Snapshots |-> [c \in Collectors |-> "none"]]
  /\ lost = {}

-----------------------------------------------------------------------------
\* Storage and due collectors.

Created == {s \in Snapshots : captured[s] # Never}

\* The snapshots ORDER BY captured_at DESC LIMIT 1 may return.
Latest == {s \in Created : \A r \in Created : captured[r] <= captured[s]}

\* GetOrCreateSnapshot reuses a latest snapshot younger than the window.
Recent == {s \in Latest : now - captured[s] < Window}

DueCollectors ==
  {c \in Collectors : lastRun[c] = Never \/ now - lastRun[c] >= Interval[c]}

\* The caller is inside a cycle: it took the token and has not put it back.
Holds(p) == pc[p] \in {"holding", "running"}

\* Ends p's call; the caller drops its context with it.
Return(p) ==
  /\ pc' = [pc EXCEPT ![p] = "idle"]
  /\ call' = [call EXCEPT ![p] = NoCall]
  /\ cancelled' = [cancelled EXCEPT ![p] = FALSE]
  /\ task' = [task EXCEPT ![p] = NoTasks]

\* The deferred send; it would block on a channel that is already full.
ReleaseCycle == ~cycle /\ cycle' = TRUE

-----------------------------------------------------------------------------
\* Entering a cycle.

BeginCollect(p) ==
  /\ "collect" \in Ops /\ pc[p] = "idle"
  /\ pc' = [pc EXCEPT ![p] = "waiting"]
  /\ call' = [call EXCEPT ![p].op = "collect"]
  /\ UNCHANGED <<now, memory, cancelled, task, store>>

BeginRunCollector(p) ==
  /\ "one" \in Ops /\ pc[p] = "idle"
  /\ pc' = [pc EXCEPT ![p] = "waiting"]
  /\ \E c \in Collectors, s \in Created :
       call' = [call EXCEPT ![p].op = "one", ![p].targets = {c},
                            ![p].snapshot = s]
  /\ UNCHANGED <<now, memory, cancelled, task, store>>

\* Mutant: the deferred send is registered before the select.
GiveUpReleases(p) ==
  /\ pc[p] = "waiting" /\ cancelled[p]
  /\ cycle' = TRUE
  /\ Return(p)
  /\ UNCHANGED <<now, lastRun, ran, store>>

\* select picks ctx.Done(): a waiting caller gives up.
GiveUp(p) ==
  /\ pc[p] = "waiting" /\ cancelled[p]
  /\ Return(p)
  /\ UNCHANGED <<now, memory, store>>

\* Collect receives the token and finds collectors to run.
StartCollect(p) ==
  /\ pc[p] = "waiting" /\ call[p].op = "collect" /\ cycle
  /\ DueCollectors # {}
  /\ cycle' = FALSE
  /\ pc' = [pc EXCEPT ![p] = "holding"]
  /\ call' = [call EXCEPT ![p].started = now, ![p].targets = DueCollectors]
  /\ UNCHANGED <<now, lastRun, ran, cancelled, task, store>>

\* Collect receives the token, finds nothing due and puts it back.
NothingDue(p) ==
  /\ pc[p] = "waiting" /\ call[p].op = "collect" /\ cycle
  /\ DueCollectors = {}
  /\ Return(p)
  /\ UNCHANGED <<now, memory, store>>

\* CollectAll takes the token or, when it is away, returns
\* ErrCollectionInProgress having changed nothing.
StartCollectAll(p) ==
  /\ "all" \in Ops /\ pc[p] = "idle" /\ cycle
  /\ cycle' = FALSE
  /\ pc' = [pc EXCEPT ![p] = "holding"]
  /\ call' = [call EXCEPT ![p].op = "all", ![p].started = now,
                          ![p].targets = Collectors]
  /\ UNCHANGED <<now, lastRun, ran, cancelled, task, store>>

StartRunCollector(p) ==
  /\ pc[p] = "waiting" /\ call[p].op = "one" /\ cycle
  /\ cycle' = FALSE
  /\ pc' = [pc EXCEPT ![p] = "running"]
  /\ call' = [call EXCEPT ![p].started = now]
  /\ task' = [task EXCEPT ![p] =
                [c \in Collectors |->
                   IF c \in call[p].targets THEN "collecting" ELSE "off"]]
  /\ UNCHANGED <<now, lastRun, ran, cancelled, store>>

-----------------------------------------------------------------------------
\* Choosing the snapshot, then one goroutine per collector.

RunTargets(p, s) ==
  /\ pc' = [pc EXCEPT ![p] = "running"]
  /\ call' = [call EXCEPT ![p].snapshot = s]
  /\ task' = [task EXCEPT ![p] =
                [c \in Collectors |->
                   IF c \in call[p].targets THEN "ready" ELSE "off"]]

\* Mutant: CollectAll shares a recent snapshot too.
SharableByAll(p) == Recent

\* Only Collect looks for a snapshot to share.
Sharable(p) == IF call[p].op = "collect" THEN Recent ELSE {}

ReuseSnapshot(p) ==
  /\ pc[p] = "holding" /\ ~cancelled[p]
  /\ \E s \in Sharable(p) : RunTargets(p, s)
  /\ UNCHANGED <<now, memory, cancelled, store>>

\* Mutant: every snapshot is stamped with the start of its cycle.
CaptureAtStart(p) == call[p].started

\* CollectAll stamps the snapshot with its start, GetOrCreateSnapshot with
\* the moment it creates it.
CaptureTime(p) == IF call[p].op = "all" THEN call[p].started ELSE now

CreateSnapshot(p) ==
  /\ pc[p] = "holding" /\ ~cancelled[p]
  /\ Sharable(p) = {}
  /\ \E s \in Snapshots \ Created :
       /\ \A r \in Snapshots : r < s => r \in Created
       /\ captured' = [captured EXCEPT ![s] = CaptureTime(p)]
       /\ forced' = IF call[p].op = "all" THEN forced \cup {s} ELSE forced
       /\ RunTargets(p, s)
  /\ UNCHANGED <<now, memory, cancelled, coverage, data, lost>>

\* Mutant: an early return that keeps the token.
SnapshotFailsHolding(p) ==
  /\ pc[p] = "holding"
  /\ Return(p)
  /\ UNCHANGED <<now, memory, store>>

\* The version query, the lookup or the insert failed: the call returns the
\* error, and its defer puts the token back.
SnapshotFails(p) ==
  /\ pc[p] = "holding"
  /\ ReleaseCycle
  /\ Return(p)
  /\ UNCHANGED <<now, lastRun, ran, store>>

-----------------------------------------------------------------------------
\* One collector's goroutine.

SetTask(p, c, t) == task' = [task EXCEPT ![p][c] = t]

\* Mutant: a goroutine that finds its context done leaves without an error.
CheckContextSilently(p, c) ==
  /\ pc[p] = "running" /\ task[p][c] = "ready"
  /\ SetTask(p, c, IF cancelled[p] THEN "done" ELSE "collecting")
  /\ UNCHANGED <<now, memory, pc, call, cancelled, store>>

\* The goroutine looks at the context before it starts.
CheckContext(p, c) ==
  /\ pc[p] = "running" /\ task[p][c] = "ready"
  /\ SetTask(p, c, IF cancelled[p] THEN "failed" ELSE "collecting")
  /\ UNCHANGED <<now, memory, pc, call, cancelled, store>>

\* The first of several transactions commits: the tables now mix two runs.
WriteFirst(p, c) ==
  /\ pc[p] = "running" /\ ~cancelled[p]
  /\ task[p][c] = "collecting" /\ c \in MultiTx
  /\ SetTask(p, c, "torn")
  /\ data' = [data EXCEPT ![call[p].snapshot][c] = "torn"]
  /\ UNCHANGED <<now, memory, pc, call, cancelled, captured, forced, coverage,
                 lost>>

\* The last transaction commits and Collect returns nil.
WriteLast(p, c) ==
  /\ pc[p] = "running" /\ ~cancelled[p]
  /\ task[p][c] = IF c \in MultiTx THEN "torn" ELSE "collecting"
  /\ SetTask(p, c, "ok")
  /\ data' = [data EXCEPT ![call[p].snapshot][c] = "whole"]
  /\ UNCHANGED <<now, memory, pc, call, cancelled, captured, forced, coverage,
                 lost>>

\* A query or a transaction fails; what was committed before it stays.
CollectFails(p, c) ==
  /\ pc[p] = "running" /\ task[p][c] \in {"collecting", "torn"}
  /\ SetTask(p, c, "failed")
  /\ UNCHANGED <<now, memory, pc, call, cancelled, store>>

\* The row a run leaves; when a failed run was recorded matters to nobody.
OutcomeRow(p, c) == IF task[p][c] = "ok" THEN [status |-> "success", at |-> now]
                                         ELSE [status |-> "error", at |-> 0]

\* Mutant: only successful runs are recorded.
WriteSuccessOnly(s, c, row) ==
  IF row.status = "success"
  THEN /\ coverage' = [coverage EXCEPT ![s][c] = row]
       /\ lost' = lost \ {<<s, c>>}
  ELSE UNCHANGED <<coverage, lost>>

\* recordCollectorRun upserts the coverage row under a context of its own.
\* A failed write is only logged: the row keeps what it said before.
WriteCoverage(s, c, row) ==
  \/ /\ coverage' = [coverage EXCEPT ![s][c] = row]
     /\ lost' = lost \ {<<s, c>>}
  \/ /\ "record" \in Faults
     /\ lost' = lost \cup {<<s, c>>}
     /\ UNCHANGED coverage

RecordRun(p, c) ==
  /\ pc[p] = "running" /\ task[p][c] \in {"ok", "failed"}
  /\ WriteCoverage(call[p].snapshot, c, OutcomeRow(p, c))
  /\ IF task[p][c] = "ok"
     THEN SetTask(p, c, "recorded") /\ UNCHANGED call
     ELSE /\ SetTask(p, c, "done")
          /\ call' = [call EXCEPT ![p].errors = @ \cup {c}]
  /\ UNCHANGED <<now, memory, pc, cancelled, captured, forced, data>>

SetLastRun(p, c) ==
  /\ pc[p] = "running" /\ task[p][c] = "recorded"
  /\ SetTask(p, c, "done")
  /\ lastRun' = [lastRun EXCEPT ![c] = now]
  /\ ran' = [ran EXCEPT ![c] = [snapshot |-> call[p].snapshot,
                                since |-> call[p].started]]
  /\ UNCHANGED <<now, cycle, pc, call, cancelled, store>>

\* Mutant: each goroutine adds itself to the WaitGroup it should be counted in.
AnyDone(p) == \E c \in call[p].targets : task[p][c] = "done"

AllDone(p) == \A c \in call[p].targets : task[p][c] = "done"

\* wg.Wait returns, and the call with it.
EndCycle(p) ==
  /\ pc[p] = "running" /\ AllDone(p)
  /\ ReleaseCycle
  /\ Return(p)
  /\ UNCHANGED <<now, lastRun, ran, store>>

-----------------------------------------------------------------------------
\* The environment.

\* A deadline passes, the client disconnects or the program shuts down.
Cancel(p) ==
  /\ "cancel" \in Faults
  /\ pc[p] # "idle" /\ ~cancelled[p]
  /\ cancelled' = [cancelled EXCEPT ![p] = TRUE]
  /\ UNCHANGED <<now, memory, pc, call, task, store>>

Tick ==
  /\ now < MaxTime
  /\ now' = now + 1
  /\ UNCHANGED <<memory, calls, store>>

\* Runs that wrote, or had an outcome to record, when the process died.
Unrecorded(s, c) ==
  \E p \in Callers : /\ pc[p] = "running" /\ call[p].snapshot = s
                     /\ task[p][c] \in {"torn", "ok", "failed"}

\* The process dies and a new one starts: NewCoordinator over the old database.
Restart ==
  /\ "crash" \in Faults
  /\ cycle' = TRUE
  /\ lastRun' = [c \in Collectors |-> Never]
  /\ ran' = [c \in Collectors |-> NoRun]
  /\ pc' = [p \in Callers |-> "idle"]
  /\ call' = [p \in Callers |-> NoCall]
  /\ cancelled' = [p \in Callers |-> FALSE]
  /\ task' = [p \in Callers |-> NoTasks]
  /\ lost' = lost \cup {sc \in Snapshots \X Collectors :
                          Unrecorded(sc[1], sc[2])}
  /\ UNCHANGED <<now, captured, forced, coverage, data>>

Task(p, c) ==
  \/ CheckContext(p, c) \/ WriteFirst(p, c) \/ WriteLast(p, c)
  \/ CollectFails(p, c) \/ RecordRun(p, c) \/ SetLastRun(p, c)

\* What the coordinator does once p has called it.
Proceed(p) ==
  \/ GiveUp(p)
  \/ StartCollect(p) \/ NothingDue(p) \/ StartRunCollector(p)
  \/ ReuseSnapshot(p) \/ CreateSnapshot(p) \/ SnapshotFails(p)
  \/ EndCycle(p)

Next ==
  \/ \E p \in Callers : \/ BeginCollect(p) \/ BeginRunCollector(p)
                        \/ StartCollectAll(p)
                        \/ Proceed(p) \/ Cancel(p)
                        \/ \E c \in Collectors : Task(p, c)
  \/ Tick
  \/ Restart

Spec == Init /\ [][Next]_vars

(***************************************************************************)
(* Go serves goroutines blocked on a channel first come, first served, so  *)
(* a waiting caller that is offered the token again and again gets it:     *)
(* strong fairness.  A running goroutine is scheduled: weak fairness.  No  *)
(* call is ever cancelled by assumption.                                   *)
(***************************************************************************)
Receive(p) == StartCollect(p) \/ NothingDue(p) \/ StartRunCollector(p)

Fairness ==
  \A p \in Callers :
    /\ SF_vars(Receive(p))
    /\ WF_vars(Proceed(p))
    /\ \A c \in Collectors : WF_vars(Task(p, c))

FairSpec == Spec /\ Fairness

-----------------------------------------------------------------------------
\* Properties.

\* The token is away exactly while one caller is inside a cycle, so cycles of
\* scheduled loops, manual triggers and RunCollector never overlap, whichever
\* return path each one leaves by (the channel in Coordinator.cycle).
CycleExclusive ==
  /\ \A p, q \in Callers : Holds(p) /\ Holds(q) => p = q
  /\ cycle <=> \A p \in Callers : ~Holds(p)

\* A run that has changed the tables and not yet recorded how it ended.
InFlight(s, c) == Unrecorded(s, c)

\* A coverage row that says success stands over tables one successful run left
\* whole: a later failed, cancelled or overlapping run of the same collector in
\* the same snapshot has turned the row into an error, unless its bookkeeping
\* was itself lost (runCollector records every outcome).
CoverageHonest ==
  \A s \in Snapshots, c \in Collectors :
    /\ coverage[s][c].status = "success"
    /\ <<s, c>> \notin lost
    /\ ~InFlight(s, c)
    => data[s][c] = "whole"

\* A collector the coordinator will not run again before its interval is over
\* still has the row of the very run that set its lastRun, a success recorded
\* between the start of that run's call and lastRun: skipping the collector
\* (getDueCollectors) never leaves analysis without the data the skip relies
\* on, although a forced cycle may have failed to collect it since.  A row whose
\* write failed is the one exception the code accepts.
SkippedIsCovered ==
  \A c \in Collectors :
    c \notin DueCollectors =>
      LET s == ran[c].snapshot
      IN  \/ /\ coverage[s][c].status = "success"
             /\ ran[c].since <= coverage[s][c].at
             /\ coverage[s][c].at <= lastRun[c]
          \/ <<s, c>> \in lost

\* A cycle about to return without errors ran every collector it set out to
\* run, during this cycle: each has its lastRun and its row from this cycle
\* (CollectionResult.Errors empty means everything was collected).
CleanResultCovered ==
  \A p \in Callers :
    pc[p] = "running" /\ AllDone(p) /\ call[p].errors = {} =>
      \A c \in call[p].targets :
        LET s == call[p].snapshot
        IN  /\ lastRun[c] \in Nat /\ lastRun[c] >= call[p].started
            /\ \/ /\ coverage[s][c].status = "success"
                  /\ coverage[s][c].at >= call[p].started
               \/ <<s, c>> \in lost

\* Snapshots are numbered in the order they were captured, and one that a
\* scheduled cycle created is at least a window younger than every snapshot
\* before it, forced ones included: data that belongs together is not spread
\* over several snapshots (GetOrCreateSnapshot).
SnapshotSpacing ==
  \A r, s \in Created :
    r < s => /\ captured[r] <= captured[s]
             /\ s \notin forced => captured[s] - captured[r] >= Window

\* Every call returns, even if no context is ever cancelled: no return path
\* keeps the token, and no waiting caller is passed over for ever.
CallReturns == \A p \in Callers : pc[p] # "idle" ~> pc[p] = "idle"
=============================================================================
