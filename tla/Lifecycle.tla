----------------------------- MODULE Lifecycle -----------------------------
(***************************************************************************)
(* Starting and stopping the scheduler's loops (internal/scheduler): an    *)
(* atomic pointer to the current schedulerRun, its stop channel, its wait  *)
(* group, and the collection, analysis and maintenance loops that watch    *)
(* them.  Start and Stop may be called by several goroutines, and a Stop   *)
(* that timed out leaves loops behind.                                     *)
(***************************************************************************)
EXTENDS Naturals, FiniteSets

CONSTANTS
  Owners,      \* goroutines that start and stop the scheduler
  Runs,        \* schedulerRun objects; one that nobody refers to is reused
  Loops,       \* the loops of a run
  EagerLoops,  \* loops that do their job before they first wait
  NoRun        \* the nil pointer

ASSUME LifecycleAssumption ==
  /\ IsFiniteSet(Loops)
  /\ EagerLoops \subseteq Loops
  /\ NoRun \notin Runs

VARIABLES
  run,      \* Scheduler.run, the pointer
  at,       \* at[o]: where owner o is
  mine,     \* mine[o]: the run o is starting or stopping
  loop,     \* loop[r][l]: where loop l of run r is
  wg,       \* wg[r]: the counter of r's wait group
  closed,   \* runs whose stopCh is closed
  ctxDone,  \* runs whose context is done
  drained,  \* runs that a Stop reported as gracefully stopped (history)
  panicked  \* a stop channel was closed twice

runVars == <<loop, wg, closed, ctxDone, drained, panicked>>
vars    == <<run, at, mine, runVars>>

Places == {"off", "begun", "select", "busy", "gone"}

LifecycleTypeOK ==
  /\ run \in Runs \cup {NoRun}
  /\ at \in [Owners -> {"idle", "starting", "spawning", "closing", "waiting"}]
  /\ mine \in [Owners -> Runs \cup {NoRun}]
  /\ loop \in [Runs -> [Loops -> Places]]
  /\ wg \in [Runs -> Nat]
  /\ closed \in SUBSET Runs
  /\ ctxDone \in SUBSET Runs
  /\ drained \in SUBSET Runs
  /\ panicked \in BOOLEAN

Init ==
  /\ run = NoRun
  /\ at = [o \in Owners |-> "idle"]
  /\ mine = [o \in Owners |-> NoRun]
  /\ loop = [r \in Runs |-> [l \in Loops |-> "off"]]
  /\ wg = [r \in Runs |-> 0]
  /\ closed = {}
  /\ ctxDone = {}
  /\ drained = {}
  /\ panicked = FALSE

Alive(r, l) == loop[r][l] \notin {"off", "gone"}

Move(o, place, r) ==
  /\ at' = [at EXCEPT ![o] = place]
  /\ mine' = [mine EXCEPT ![o] = r]

-----------------------------------------------------------------------------
\* Start.

\* Nobody refers to r: it can stand for a new object.
Unused(r) ==
  /\ run # r
  /\ \A o \in Owners : mine[o] # r
  /\ \A l \in Loops : ~Alive(r, l)

\* Mutant: wg.Add next to the go statements.
AddLater(r) == wg' = [wg EXCEPT ![r] = 0]

\* run.wg.Add(3)
AddLoops(r) == wg' = [wg EXCEPT ![r] = Cardinality(Loops)]

Allocate(o) ==
  /\ at[o] = "idle"
  /\ \E r \in Runs :
       /\ Unused(r)
       /\ Move(o, "starting", r)
       /\ AddLoops(r)
       /\ loop' = [loop EXCEPT ![r] = [l \in Loops |-> "off"]]
       /\ closed' = closed \ {r}
       /\ ctxDone' = ctxDone \ {r}
       /\ drained' = drained \ {r}
  /\ UNCHANGED <<run, panicked>>

\* Mutant: the pointer is stored without a comparison.
InstallAnyway(o) ==
  /\ at[o] = "starting"
  /\ run' = mine[o]
  /\ Move(o, "spawning", mine[o])
  /\ UNCHANGED runVars

\* CompareAndSwap succeeds.
Install(o) ==
  /\ at[o] = "starting" /\ run = NoRun
  /\ run' = mine[o]
  /\ Move(o, "spawning", mine[o])
  /\ UNCHANGED runVars

\* "scheduler is already running"
Refuse(o) ==
  /\ at[o] = "starting" /\ run # NoRun
  /\ Move(o, "idle", NoRun)
  /\ UNCHANGED <<run, runVars>>

Spawn(o, l) ==
  /\ at[o] = "spawning" /\ loop[mine[o]][l] = "off"
  /\ loop' = [loop EXCEPT ![mine[o]][l] = "begun"]
  /\ UNCHANGED <<run, at, mine, wg, closed, ctxDone, drained, panicked>>

Started(o) ==
  /\ at[o] = "spawning"
  /\ \A l \in Loops : loop[mine[o]][l] # "off"
  /\ Move(o, "idle", NoRun)
  /\ UNCHANGED <<run, runVars>>

-----------------------------------------------------------------------------
\* StopWithTimeout.

\* Swap(nil)
TakeRun(o) == run' = NoRun

\* A Stop that finds no run returns an error and changes nothing.
BeginStop(o) ==
  /\ at[o] = "idle" /\ run # NoRun
  /\ Move(o, "closing", run)
  /\ TakeRun(o)
  /\ UNCHANGED runVars

CloseStop(o) ==
  /\ at[o] = "closing"
  /\ closed' = closed \cup {mine[o]}
  /\ panicked' = (panicked \/ mine[o] \in closed)
  /\ Move(o, "waiting", mine[o])
  /\ UNCHANGED <<run, loop, wg, ctxDone, drained>>

\* wg.Wait returned: stopped gracefully.
Drained(o) ==
  /\ at[o] = "waiting" /\ wg[mine[o]] = 0
  /\ drained' = drained \cup {mine[o]}
  /\ Move(o, "idle", NoRun)
  /\ UNCHANGED <<run, loop, wg, closed, ctxDone, panicked>>

\* "stop timeout exceeded"
TimeOut(o) ==
  /\ at[o] = "waiting"
  /\ Move(o, "idle", NoRun)
  /\ UNCHANGED <<run, runVars>>

-----------------------------------------------------------------------------
\* The loops.

SetLoop(r, l, place) == loop' = [loop EXCEPT ![r][l] = place]

Elsewhere == UNCHANGED <<run, at, mine, closed, ctxDone, drained, panicked>>

\* The collection loop collects first; the others wait for a timer first.
Enter(r, l) ==
  /\ loop[r][l] = "begun"
  /\ SetLoop(r, l, IF l \in EagerLoops THEN "busy" ELSE "select")
  /\ UNCHANGED wg /\ Elsewhere

\* A timer or a ticker fires.
Fire(r, l) ==
  /\ loop[r][l] = "select"
  /\ SetLoop(r, l, "busy")
  /\ UNCHANGED wg /\ Elsewhere

\* executeCollection, executeAnalysis or executeMaintenance returns.
EndJob(r, l) ==
  /\ loop[r][l] = "busy"
  /\ SetLoop(r, l, "select")
  /\ UNCHANGED wg /\ Elsewhere

\* Mutant: the loop has no case for the stop channel.
ToldByContext(r) == r \in ctxDone

Told(r) == r \in closed \cup ctxDone

\* select picks ctx.Done() or stopCh; wg.Done is deferred.
Exit(r, l) ==
  /\ loop[r][l] = "select" /\ Told(r)
  /\ SetLoop(r, l, "gone")
  /\ wg' = [wg EXCEPT ![r] = @ - 1]
  /\ Elsewhere

\* The context that a Start was given ends.
EndContext(r) ==
  /\ r \notin ctxDone /\ ~Unused(r)
  /\ ctxDone' = ctxDone \cup {r}
  /\ UNCHANGED <<run, at, mine, loop, wg, closed, drained, panicked>>

-----------------------------------------------------------------------------
Owner(o) ==
  \/ Install(o) \/ Refuse(o) \/ Started(o) \/ \E l \in Loops : Spawn(o, l)
  \/ CloseStop(o) \/ Drained(o) \/ TimeOut(o)

Run(r, l) == Enter(r, l) \/ EndJob(r, l)

Next ==
  \/ \E o \in Owners : Allocate(o) \/ BeginStop(o) \/ Owner(o)
  \/ \E r \in Runs : \/ EndContext(r)
                     \/ \E l \in Loops : Run(r, l) \/ Fire(r, l) \/ Exit(r, l)

Spec == Init /\ [][Next]_vars

(***************************************************************************)
(* Goroutines run and jobs end; select chooses among its ready cases at    *)
(* random, so a loop that is told to stop again and again between its jobs *)
(* notices.  Nobody has to start or stop anything, and no tick is owed.    *)
(***************************************************************************)
FairSpec ==
  /\ Spec
  /\ \A o \in Owners : WF_vars(Owner(o))
  /\ \A r \in Runs, l \in Loops : WF_vars(Run(r, l)) /\ SF_vars(Exit(r, l))

-----------------------------------------------------------------------------
\* Properties.

\* No loop runs on unnoticed: its run is the installed one, or has been told to
\* stop, or the Stop that took it is about to tell it, however Starts and Stops
\* interleave (the swap and the close in StopWithTimeout are two steps).
NoOrphans ==
  \A r \in Runs, l \in Loops :
    Alive(r, l) => \/ run = r
                   \/ r \in closed
                   \/ \E o \in Owners : at[o] = "closing" /\ mine[o] = r

\* Once Stop has said that the scheduler stopped gracefully, no loop of that run
\* is at work, and none is still to be spawned by the Start it raced (the wait
\* group is filled before the run is installed).  main closes the database next.
GracefulIsGone ==
  \A r \in drained, l \in Loops : loop[r][l] = "gone"

\* No two Stops close the same channel, which would panic.
NoPanic == ~panicked

\* Every loop that is told to stop, by the channel or by its context, ends, also
\* one whose Stop gave up waiting for it and one a Start was still spawning.
LoopsEnd ==
  \A r \in Runs, l \in Loops :
    r \in closed \cup ctxDone /\ Alive(r, l) ~> loop[r][l] \in {"gone", "off"}

\* Stop does what main relies on, however many overlap and whatever Start they
\* overtake: it neither panics nor reports loops as gone that are not.
StopIsSafe == NoPanic /\ GracefulIsGone
=============================================================================
