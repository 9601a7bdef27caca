-------------------------- MODULE LifecycleProofs --------------------------
(***************************************************************************)
(* Starts and Stops cannot close a channel twice, cannot leave a loop that *)
(* nobody told to stop, and do not call a run stopped before its loops are *)
(* gone: for any number of goroutines, runs and loops.                     *)
(***************************************************************************)
EXTENDS Lifecycle, FiniteSetTheorems, TLAPS

\* An owner holds a run exactly while its call is under way.
MineWhere == \A o \in Owners : mine[o] = NoRun <=> at[o] = "idle"

\* A run that is being started belongs to the goroutine that allocated it.
StartFresh ==
  \A o \in Owners :
    at[o] = "starting" =>
      /\ run # mine[o]
      /\ mine[o] \notin closed
      /\ \A p \in Owners : p # o => mine[p] # mine[o]

\* A run is taken by one Stop, before it is closed.
CloseOnce ==
  /\ run # NoRun => run \notin closed
  /\ \A o \in Owners :
       at[o] = "closing" =>
         /\ run # mine[o]
         /\ mine[o] \notin closed
         /\ \A p \in Owners : p # o /\ at[p] = "closing" => mine[p] # mine[o]

\* Loops that are told to stop, or will be.
Watched(r) ==
  \/ run = r
  \/ r \in closed
  \/ \E o \in Owners : at[o] = "closing" /\ mine[o] = r

SpawnsWatched ==
  \A o \in Owners : at[o] = "spawning" => Watched(mine[o])

Referred(r) ==
  \/ run = r
  \/ \E o \in Owners : mine[o] = r
  \/ \E l \in Loops : Alive(r, l)

Remaining(r) == {l \in Loops : loop[r][l] # "gone"}

\* The wait group counts the loops that have not ended.
WgCounts == \A r \in Runs : Referred(r) => wg[r] = Cardinality(Remaining(r))

LInv ==
  /\ LifecycleTypeOK
  /\ MineWhere
  /\ StartFresh
  /\ CloseOnce
  /\ SpawnsWatched
  /\ WgCounts
  /\ NoOrphans
  /\ GracefulIsGone
  /\ NoPanic

-----------------------------------------------------------------------------
\* The wait group.

LEMMA RemainingFinite ==
  ASSUME NEW r \in Runs
  PROVE  IsFiniteSet(Remaining(r)) /\ IsFiniteSet(Remaining(r))'
<1>1. Remaining(r) \in SUBSET Loops /\ Remaining(r)' \in SUBSET Loops
  BY DEF Remaining
<1> QED
  BY <1>1, FS_Subset, LifecycleAssumption

\* A loop that ends takes itself out of the count.
LEMMA ExitCounts ==
  ASSUME LifecycleTypeOK, WgCounts, NEW r \in Runs, NEW l \in Loops, Exit(r, l)
  PROVE  /\ wg' \in [Runs -> Nat]
         /\ wg'[r] = Cardinality(Remaining(r)')
         /\ \A q \in Runs : q # r => wg'[q] = wg[q]
<1>1. loop \in [Runs -> [Loops -> Places]] /\ wg \in [Runs -> Nat]
  BY DEF LifecycleTypeOK
<1>2. /\ loop[r][l] = "select"
      /\ loop' = [loop EXCEPT ![r][l] = "gone"]
      /\ wg' = [wg EXCEPT ![r] = @ - 1]
  BY DEF Exit, SetLoop
<1>3. /\ l \in Remaining(r)
      /\ Remaining(r)' = Remaining(r) \ {l}
  BY <1>1, <1>2 DEF Remaining
<1>4. wg[r] = Cardinality(Remaining(r))
  BY <1>2 DEF WgCounts, Referred, Alive
<1>5. IsFiniteSet(Remaining(r))
  BY RemainingFinite
<1>6. Cardinality(Remaining(r) \ {l}) = Cardinality(Remaining(r)) - 1
  BY <1>3, <1>5, FS_RemoveElement
<1>7. Cardinality(Remaining(r) \ {l}) \in Nat
  BY <1>5, FS_RemoveElement, FS_CardinalityType
<1>8. wg'[r] = Cardinality(Remaining(r)') /\ wg[r] - 1 \in Nat
  BY <1>1, <1>2, <1>3, <1>4, <1>6, <1>7
<1> QED
  BY <1>1, <1>2, <1>8

\* A wait group at zero has no loop left.
LEMMA ZeroIsGone ==
  ASSUME LifecycleTypeOK, WgCounts, NEW r \in Runs, Referred(r), wg[r] = 0
  PROVE  \A l \in Loops : loop[r][l] = "gone"
<1>1. Cardinality(Remaining(r)) = 0
  BY DEF WgCounts
<1>2. Remaining(r) = {}
  BY <1>1, RemainingFinite, FS_EmptySet
<1> QED
  BY <1>2 DEF Remaining

-----------------------------------------------------------------------------
LEMMA LifecycleTypeStep ==
  ASSUME LifecycleTypeOK, MineWhere, WgCounts, [Next]_vars
  PROVE  LifecycleTypeOK'
<1> USE LifecycleAssumption DEF LifecycleTypeOK, Move, runVars, Places, SetLoop,
        Elsewhere
<1>0. \A o \in Owners : at[o] # "idle" => mine[o] \in Runs
  BY DEF MineWhere
<1>1. ASSUME NEW o \in Owners, Allocate(o) PROVE LifecycleTypeOK'
  <2>1. Cardinality(Loops) \in Nat
    BY FS_CardinalityType
  <2> QED
    BY <1>1, <2>1 DEF Allocate, AddLoops
<1>2. ASSUME NEW o \in Owners,
             Install(o) \/ Refuse(o) \/ Started(o) \/ TimeOut(o)
      PROVE  LifecycleTypeOK'
  BY <1>0, <1>2 DEF Install, Refuse, Started, TimeOut
<1>3. ASSUME NEW o \in Owners, NEW l \in Loops, Spawn(o, l)
      PROVE  LifecycleTypeOK'
  BY <1>0, <1>3 DEF Spawn
<1>4. ASSUME NEW o \in Owners, BeginStop(o) PROVE LifecycleTypeOK'
  BY <1>4 DEF BeginStop, TakeRun
<1>5. ASSUME NEW o \in Owners, CloseStop(o) \/ Drained(o) PROVE LifecycleTypeOK'
  BY <1>0, <1>5 DEF CloseStop, Drained
<1>6. ASSUME NEW r \in Runs, NEW l \in Loops,
             Enter(r, l) \/ Fire(r, l) \/ EndJob(r, l)
      PROVE  LifecycleTypeOK'
  <2>1. PICK place \in Places : loop' = [loop EXCEPT ![r][l] = place]
    BY <1>6 DEF Enter, Fire, EndJob
  <2>2. loop' \in [Runs -> [Loops -> Places]]
    BY <2>1
  <2> QED
    BY <1>6, <2>2 DEF Enter, Fire, EndJob
<1>7. ASSUME NEW r \in Runs, NEW l \in Loops, Exit(r, l) PROVE LifecycleTypeOK'
  <2>1. wg' \in [Runs -> Nat]
    BY <1>7, ExitCounts
  <2> QED
    BY <1>7, <2>1 DEF Exit
<1>8. ASSUME NEW r \in Runs, EndContext(r) PROVE LifecycleTypeOK'
  BY <1>8 DEF EndContext
<1>9. CASE UNCHANGED vars
  BY <1>9 DEF vars
<1> HIDE LifecycleAssumption
<1> HIDE DEF LifecycleTypeOK, Move, runVars, Places, SetLoop, Elsewhere
<1> QED
  BY <1>1, <1>2, <1>3, <1>4, <1>5, <1>6, <1>7, <1>8, <1>9
  DEF Next, Owner, Run

\* Which goroutine holds which run.
LEMMA OwnershipStep ==
  ASSUME LifecycleTypeOK, MineWhere, StartFresh, CloseOnce, [Next]_vars
  PROVE  MineWhere' /\ StartFresh' /\ CloseOnce'
<1> DEFINE P == MineWhere' /\ StartFresh' /\ CloseOnce'
<1> USE DEF MineWhere, StartFresh, CloseOnce, Move, runVars
<1>0. /\ at \in [Owners -> {"idle", "starting", "spawning", "closing", "waiting"}]
      /\ mine \in [Owners -> Runs \cup {NoRun}]
      /\ run \in Runs \cup {NoRun}
      /\ NoRun \notin Runs
  BY LifecycleAssumption DEF LifecycleTypeOK
<1>1. ASSUME NEW o \in Owners, Allocate(o) PROVE P
  <2>1. PICK r \in Runs : /\ run # r /\ \A p \in Owners : mine[p] # r
                          /\ at' = [at EXCEPT ![o] = "starting"]
                          /\ mine' = [mine EXCEPT ![o] = r]
                          /\ closed' = closed \ {r}
    BY <1>1 DEF Allocate, Unused
  <2> QED
    BY <1>0, <1>1, <2>1 DEF Allocate
<1>2. ASSUME NEW o \in Owners, Install(o) PROVE P
  BY <1>0, <1>2 DEF Install
<1>3. ASSUME NEW o \in Owners, Refuse(o) \/ Started(o) \/ TimeOut(o) \/ Drained(o)
      PROVE  P
  <2>1. /\ at' = [at EXCEPT ![o] = "idle"] /\ mine' = [mine EXCEPT ![o] = NoRun]
        /\ UNCHANGED <<run, closed>>
    BY <1>3 DEF Refuse, Started, TimeOut, Drained
  <2> QED
    BY <1>0, <2>1
<1>4. ASSUME NEW o \in Owners, BeginStop(o) PROVE P
  BY <1>0, <1>4 DEF BeginStop, TakeRun
<1>5. ASSUME NEW o \in Owners, CloseStop(o) PROVE P
  BY <1>0, <1>5 DEF CloseStop
<1>6. ASSUME UNCHANGED <<run, at, mine, closed>> PROVE P
  BY <1>6
<1>7. ASSUME NEW o \in Owners, NEW l \in Loops, Spawn(o, l) PROVE P
  BY <1>6, <1>7 DEF Spawn
<1>8. ASSUME NEW r \in Runs, NEW l \in Loops,
             Enter(r, l) \/ Fire(r, l) \/ EndJob(r, l) \/ Exit(r, l)
      PROVE  P
  BY <1>6, <1>8 DEF Enter, Fire, EndJob, Exit, Elsewhere
<1>9. ASSUME NEW r \in Runs, EndContext(r) PROVE P
  BY <1>6, <1>9 DEF EndContext
<1>10. CASE UNCHANGED vars
  BY <1>6, <1>10 DEF vars
<1> QED
  BY <1>1, <1>2, <1>3, <1>4, <1>5, <1>7, <1>8, <1>9, <1>10 DEF Next, Owner, Run

\* Nothing but its reuse makes a watched run unwatched.
LEMMA WatchedStep ==
  ASSUME LifecycleTypeOK, MineWhere, [Next]_vars, NEW r \in Runs, Watched(r)
  PROVE  \/ Watched(r)'
         \/ Unused(r) /\ \E o \in Owners : Allocate(o)
<1>0. /\ at \in [Owners -> {"idle", "starting", "spawning", "closing", "waiting"}]
      /\ mine \in [Owners -> Runs \cup {NoRun}]
  BY DEF LifecycleTypeOK
<1> USE DEF Watched
<1>1. ASSUME NEW o \in Owners, Allocate(o)
      PROVE  Watched(r)' \/ Unused(r)
  <2>1. PICK s \in Runs : /\ Unused(s)
                          /\ at' = [at EXCEPT ![o] = "starting"]
                          /\ mine' = [mine EXCEPT ![o] = s]
                          /\ closed' = closed \ {s}
    BY <1>1 DEF Allocate, Move
  <2>2. CASE r = s
    BY <2>1, <2>2
  <2>3. CASE r # s
    BY <1>0, <1>1, <2>1, <2>3 DEF Allocate
  <2> QED
    BY <2>2, <2>3
<1>2. ASSUME NEW o \in Owners, Install(o) PROVE Watched(r)'
  BY <1>0, <1>2, LifecycleAssumption DEF Install, Move, runVars
<1>3. ASSUME NEW o \in Owners, Refuse(o) \/ Started(o) \/ TimeOut(o) \/ Drained(o)
      PROVE  Watched(r)'
  <2>1. /\ at[o] # "closing" /\ UNCHANGED <<run, closed>>
        /\ at' = [at EXCEPT ![o] = "idle"] /\ mine' = [mine EXCEPT ![o] = NoRun]
    BY <1>3 DEF Refuse, Started, TimeOut, Drained, Move, runVars
  <2> QED
    BY <1>0, <2>1
<1>4. ASSUME NEW o \in Owners, BeginStop(o) PROVE Watched(r)'
  BY <1>0, <1>4 DEF BeginStop, TakeRun, Move, runVars
<1>5. ASSUME NEW o \in Owners, CloseStop(o) PROVE Watched(r)'
  BY <1>0, <1>5 DEF CloseStop, Move
<1>6. ASSUME UNCHANGED <<run, at, mine, closed>> PROVE Watched(r)'
  BY <1>6
<1>7. ASSUME NEW o \in Owners, NEW l \in Loops, Spawn(o, l) PROVE Watched(r)'
  BY <1>6, <1>7 DEF Spawn
<1>8. ASSUME NEW s \in Runs, NEW l \in Loops,
             Enter(s, l) \/ Fire(s, l) \/ EndJob(s, l) \/ Exit(s, l)
      PROVE  Watched(r)'
  BY <1>6, <1>8 DEF Enter, Fire, EndJob, Exit, Elsewhere
<1>9. ASSUME NEW s \in Runs, EndContext(s) PROVE Watched(r)'
  BY <1>6, <1>9 DEF EndContext
<1>10. CASE UNCHANGED vars
  BY <1>6, <1>10 DEF vars, runVars
<1> QED
  BY <1>1, <1>2, <1>3, <1>4, <1>5, <1>7, <1>8, <1>9, <1>10 DEF Next, Owner, Run

\* Loops, and Starts that have loops to spawn, stay watched.
LEMMA OrphanStep ==
  ASSUME LifecycleTypeOK, MineWhere, StartFresh, SpawnsWatched, NoOrphans,
         [Next]_vars
  PROVE  SpawnsWatched' /\ NoOrphans'
<1>0. /\ at \in [Owners -> {"idle", "starting", "spawning", "closing", "waiting"}]
      /\ mine \in [Owners -> Runs \cup {NoRun}]
      /\ loop \in [Runs -> [Loops -> Places]]
      /\ \A o \in Owners : at[o] # "idle" => mine[o] \in Runs
  BY DEF LifecycleTypeOK, MineWhere
<1>1. \A r \in Runs, l \in Loops : Alive(r, l) => Watched(r)
  BY DEF NoOrphans, Watched
<1>2. CASE \E o \in Owners : Allocate(o)
  <2>1. PICK o \in Owners : Allocate(o)
    BY <1>2
  <2>2. PICK s \in Runs : /\ Unused(s)
                          /\ at' = [at EXCEPT ![o] = "starting"]
                          /\ mine' = [mine EXCEPT ![o] = s]
                          /\ loop' = [loop EXCEPT ![s] = [l \in Loops |-> "off"]]
    BY <2>1 DEF Allocate, Move
  <2>3. \A r \in Runs : Watched(r) /\ r # s => Watched(r)'
    BY <1>0, <2>1, <2>2 DEF Allocate, Watched, Move
  <2>4. SpawnsWatched'
    <3> SUFFICES ASSUME NEW p \in Owners, at'[p] = "spawning" PROVE Watched(mine[p])'
      BY DEF SpawnsWatched
    <3>1. p # o /\ at[p] = "spawning" /\ mine'[p] = mine[p] /\ mine[p] # s
      BY <1>0, <2>2 DEF Unused
    <3> QED
      BY <1>0, <2>3, <3>1 DEF SpawnsWatched, Watched
  <2>5. NoOrphans'
    <3> SUFFICES ASSUME NEW r \in Runs, NEW l \in Loops, Alive(r, l)'
                 PROVE  Watched(r)'
      BY DEF NoOrphans, Watched
    <3>1. r # s /\ Alive(r, l)
      BY <1>0, <2>2 DEF Alive
    <3> QED
      BY <1>1, <2>3, <3>1
  <2> QED
    BY <2>4, <2>5
<1>3. CASE ~ \E o \in Owners : Allocate(o)
  <2>1. \A r \in Runs : Watched(r) => Watched(r)'
    BY <1>3, WatchedStep
  <2>2. SpawnsWatched'
    <3> SUFFICES ASSUME NEW p \in Owners, at'[p] = "spawning" PROVE Watched(mine[p])'
      BY DEF SpawnsWatched
    <3>1. \/ at[p] = "spawning" /\ mine'[p] = mine[p]
          \/ Install(p)
      BY <1>0, <1>3
      DEF Next, Owner, Run, Install, Refuse, Started, Spawn, BeginStop, CloseStop,
          Drained, TimeOut, Enter, EndJob, Fire, Exit, EndContext, Move,
          Elsewhere, vars
    <3>2. CASE at[p] = "spawning" /\ mine'[p] = mine[p]
      BY <1>0, <2>1, <3>2 DEF SpawnsWatched, Watched
    <3>3. CASE Install(p)
      BY <1>0, <3>3 DEF Install, Move, Watched
    <3> QED
      BY <3>1, <3>2, <3>3
  <2>3. NoOrphans'
    <3> SUFFICES ASSUME NEW r \in Runs, NEW l \in Loops, Alive(r, l)'
                 PROVE  Watched(r)'
      BY DEF NoOrphans, Watched
    <3>1. \/ Alive(r, l)
          \/ \E o \in Owners : at[o] = "spawning" /\ mine[o] = r
      <4>1. CASE UNCHANGED loop
        BY <4>1 DEF Alive
      <4>2. ASSUME NEW o \in Owners, NEW k \in Loops, Spawn(o, k)
            PROVE  Alive(r, l) \/ (at[o] = "spawning" /\ mine[o] = r)
        BY <1>0, <4>2 DEF Spawn, Alive
      <4>3. ASSUME NEW s \in Runs, NEW k \in Loops,
                   Enter(s, k) \/ Fire(s, k) \/ EndJob(s, k) \/ Exit(s, k)
            PROVE  Alive(r, l)
        <5>1. PICK place : /\ Alive(s, k)
                           /\ loop' = [loop EXCEPT ![s][k] = place]
          BY <4>3 DEF Enter, Fire, EndJob, Exit, SetLoop, Alive
        <5> QED
          BY <1>0, <5>1 DEF Alive
      <4> QED
        BY <1>3, <4>1, <4>2, <4>3
        DEF Next, Owner, Run, Install, Refuse, Started, BeginStop, CloseStop,
            Drained, TimeOut, EndContext, runVars, vars
    <3> QED
      BY <1>1, <2>1, <3>1 DEF SpawnsWatched
  <2> QED
    BY <2>2, <2>3
<1> QED
  BY <1>2, <1>3

-----------------------------------------------------------------------------
\* Counting loops, and what a graceful stop means.
LEMMA CountStep ==
  ASSUME LifecycleTypeOK, MineWhere, WgCounts, [Next]_vars
  PROVE  WgCounts'
<1> SUFFICES ASSUME NEW q \in Runs, Referred(q)'
             PROVE  wg'[q] = Cardinality(Remaining(q)')
  BY DEF WgCounts
<1>0. /\ at \in [Owners -> {"idle", "starting", "spawning", "closing", "waiting"}]
      /\ mine \in [Owners -> Runs \cup {NoRun}]
      /\ loop \in [Runs -> [Loops -> Places]]
      /\ wg \in [Runs -> Nat]
      /\ \A o \in Owners : at[o] # "idle" => mine[o] \in Runs
      /\ NoRun \notin Runs
  BY LifecycleAssumption DEF LifecycleTypeOK, MineWhere
<1>1. ASSUME Referred(q), wg'[q] = wg[q], Remaining(q)' = Remaining(q)
      PROVE  wg'[q] = Cardinality(Remaining(q)')
  BY <1>1 DEF WgCounts
<1>2. ASSUME NEW o \in Owners, Allocate(o)
      PROVE  wg'[q] = Cardinality(Remaining(q)')
  <2>1. PICK s \in Runs : /\ Unused(s)
                          /\ mine' = [mine EXCEPT ![o] = s]
                          /\ loop' = [loop EXCEPT ![s] = [l \in Loops |-> "off"]]
                          /\ wg' = [wg EXCEPT ![s] = Cardinality(Loops)]
                          /\ run' = run
    BY <1>2 DEF Allocate, Move, AddLoops
  <2>2. CASE q = s
    <3>1. Remaining(q)' = Loops
      BY <1>0, <2>1, <2>2 DEF Remaining
    <3> QED
      BY <1>0, <2>1, <2>2, <3>1
  <2>3. CASE q # s
    BY <1>0, <1>1, <2>1, <2>3 DEF Referred, Alive, Remaining
  <2> QED
    BY <2>2, <2>3
<1>3. ASSUME UNCHANGED <<loop, wg>>, Referred(q)
      PROVE  wg'[q] = Cardinality(Remaining(q)')
  BY <1>1, <1>3 DEF Remaining
<1>4. ASSUME NEW o \in Owners, Install(o)
      PROVE  wg'[q] = Cardinality(Remaining(q)')
  BY <1>0, <1>3, <1>4 DEF Install, Move, runVars, Referred, Alive
<1>5. ASSUME NEW o \in Owners, Refuse(o) \/ Started(o) \/ TimeOut(o) \/ Drained(o)
      PROVE  wg'[q] = Cardinality(Remaining(q)')
  <2>1. mine' = [mine EXCEPT ![o] = NoRun] /\ UNCHANGED <<run, loop, wg>>
    BY <1>5 DEF Refuse, Started, TimeOut, Drained, Move, runVars
  <2>2. Referred(q)
    BY <1>0, <2>1 DEF Referred, Alive
  <2> QED
    BY <1>3, <2>1, <2>2
<1>6. ASSUME NEW o \in Owners, BeginStop(o)
      PROVE  wg'[q] = Cardinality(Remaining(q)')
  BY <1>0, <1>3, <1>6 DEF BeginStop, TakeRun, Move, runVars, Referred, Alive
<1>7. ASSUME NEW o \in Owners, CloseStop(o)
      PROVE  wg'[q] = Cardinality(Remaining(q)')
  BY <1>0, <1>3, <1>7 DEF CloseStop, Move, Referred, Alive
<1>8. ASSUME NEW o \in Owners, NEW l \in Loops, Spawn(o, l)
      PROVE  wg'[q] = Cardinality(Remaining(q)')
  <2>1. UNCHANGED <<run, mine, wg>> /\ mine[o] \in Runs
    BY <1>0, <1>8 DEF Spawn
  <2>2. Remaining(q)' = Remaining(q)
    BY <1>0, <1>8 DEF Spawn, Remaining
  <2>3. Referred(q)
    BY <1>0, <1>8, <2>1 DEF Spawn, Referred, Alive
  <2> QED
    BY <1>1, <2>1, <2>2, <2>3
<1>9. ASSUME NEW r \in Runs, NEW l \in Loops,
             Enter(r, l) \/ Fire(r, l) \/ EndJob(r, l)
      PROVE  wg'[q] = Cardinality(Remaining(q)')
  <2>1. PICK place \in {"select", "busy"} :
          /\ Alive(r, l) /\ loop' = [loop EXCEPT ![r][l] = place]
          /\ UNCHANGED <<run, mine, wg>>
    BY <1>9 DEF Enter, Fire, EndJob, SetLoop, Elsewhere, Alive
  <2>2. Remaining(q)' = Remaining(q)
    BY <1>0, <2>1 DEF Remaining, Alive
  <2>3. Referred(q)
    BY <1>0, <2>1 DEF Referred, Alive
  <2> QED
    BY <1>1, <2>1, <2>2, <2>3
<1>10. ASSUME NEW r \in Runs, NEW l \in Loops, Exit(r, l)
       PROVE  wg'[q] = Cardinality(Remaining(q)')
  <2>1. CASE q = r
    BY <1>10, <2>1, ExitCounts
  <2>2. CASE q # r
    <3>1. Remaining(q)' = Remaining(q)
      BY <1>0, <1>10, <2>2 DEF Exit, SetLoop, Remaining
    <3>2. Referred(q)
      BY <1>0, <1>10, <2>2 DEF Exit, SetLoop, Elsewhere, Referred, Alive
    <3> QED
      BY <1>1, <1>10, <2>2, <3>1, <3>2, ExitCounts
  <2> QED
    BY <2>1, <2>2
<1>11. ASSUME NEW r \in Runs, EndContext(r)
       PROVE  wg'[q] = Cardinality(Remaining(q)')
  BY <1>3, <1>11 DEF EndContext, Referred, Alive
<1>12. CASE UNCHANGED vars
  BY <1>3, <1>12 DEF vars, runVars, Referred, Alive
<1> QED
  BY <1>2, <1>4, <1>5, <1>6, <1>7, <1>8, <1>9, <1>10, <1>11, <1>12
  DEF Next, Owner, Run

LEMMA GracefulStep ==
  ASSUME LifecycleTypeOK, MineWhere, WgCounts, GracefulIsGone, [Next]_vars
  PROVE  GracefulIsGone'
<1> SUFFICES ASSUME NEW r \in drained', NEW l \in Loops PROVE loop'[r][l] = "gone"
  BY DEF GracefulIsGone
<1>0. /\ loop \in [Runs -> [Loops -> Places]]
      /\ drained \in SUBSET Runs
      /\ \A o \in Owners : at[o] # "idle" => mine[o] \in Runs
      /\ \A d \in drained, k \in Loops : loop[d][k] = "gone"
  BY DEF LifecycleTypeOK, MineWhere, GracefulIsGone
<1>1. ASSUME UNCHANGED <<loop, drained>> PROVE loop'[r][l] = "gone"
  BY <1>0, <1>1
<1>2. ASSUME NEW o \in Owners, Allocate(o) PROVE loop'[r][l] = "gone"
  <2>1. PICK s \in Runs : /\ loop' = [loop EXCEPT ![s] = [k \in Loops |-> "off"]]
                          /\ drained' = drained \ {s}
    BY <1>2 DEF Allocate
  <2> QED
    BY <1>0, <2>1
<1>3. ASSUME NEW o \in Owners, Drained(o) PROVE loop'[r][l] = "gone"
  <2>1. /\ mine[o] \in Runs /\ wg[mine[o]] = 0 /\ loop' = loop
        /\ drained' = drained \cup {mine[o]}
    BY <1>0, <1>3 DEF Drained
  <2>2. \A k \in Loops : loop[mine[o]][k] = "gone"
    BY <2>1, ZeroIsGone DEF Referred
  <2> QED
    BY <1>0, <2>1, <2>2
<1>4. ASSUME NEW o \in Owners, NEW k \in Loops, Spawn(o, k)
      PROVE  loop'[r][l] = "gone"
  BY <1>0, <1>4 DEF Spawn
<1>5. ASSUME NEW s \in Runs, NEW k \in Loops,
             Enter(s, k) \/ Fire(s, k) \/ EndJob(s, k) \/ Exit(s, k)
      PROVE  loop'[r][l] = "gone"
  <2>1. PICK place : /\ loop[s][k] # "gone" /\ drained' = drained
                     /\ loop' = [loop EXCEPT ![s][k] = place]
    BY <1>5 DEF Enter, Fire, EndJob, Exit, SetLoop, Elsewhere
  <2> QED
    BY <1>0, <2>1
<1> QED
  BY <1>1, <1>2, <1>3, <1>4, <1>5
  DEF Next, Owner, Run, Install, Refuse, Started, BeginStop, CloseStop, TimeOut,
      EndContext, runVars, vars

LEMMA PanicStep == CloseOnce /\ NoPanic /\ [Next]_vars => NoPanic'
  BY DEF CloseOnce, NoPanic, Next, Owner, Run, Allocate, Install, Refuse,
         Started, Spawn, BeginStop, CloseStop, Drained, TimeOut, Enter, EndJob,
         Fire, Exit, EndContext, Elsewhere, runVars, vars

-----------------------------------------------------------------------------
LEMMA LInvInit == Init => LInv
<1> SUFFICES ASSUME Init PROVE LInv
  OBVIOUS
<1> USE LifecycleAssumption DEF Init
<1>1. LifecycleTypeOK
  BY DEF LifecycleTypeOK, Places
<1>2. MineWhere /\ StartFresh /\ CloseOnce /\ SpawnsWatched
  BY DEF MineWhere, StartFresh, CloseOnce, SpawnsWatched
<1>3. \A r \in Runs : ~Referred(r)
  BY DEF Referred, Alive
<1>4. WgCounts /\ NoOrphans
  BY <1>3 DEF WgCounts, NoOrphans, Referred
<1>5. GracefulIsGone /\ NoPanic
  BY DEF GracefulIsGone, NoPanic
<1> QED
  BY <1>1, <1>2, <1>4, <1>5 DEF LInv

LEMMA LInvStep == LInv /\ [Next]_vars => LInv'
<1> SUFFICES ASSUME LInv, [Next]_vars PROVE LInv'
  OBVIOUS
<1>0. /\ LifecycleTypeOK /\ MineWhere /\ StartFresh /\ CloseOnce
      /\ SpawnsWatched /\ WgCounts /\ NoOrphans /\ GracefulIsGone /\ NoPanic
  BY DEF LInv
<1>1. LifecycleTypeOK'
  BY <1>0, LifecycleTypeStep
<1>2. MineWhere' /\ StartFresh' /\ CloseOnce'
  BY <1>0, OwnershipStep
<1>3. SpawnsWatched' /\ NoOrphans'
  BY <1>0, OrphanStep
<1>4. WgCounts'
  BY <1>0, CountStep
<1>5. GracefulIsGone'
  BY <1>0, GracefulStep
<1>6. NoPanic'
  BY <1>0, PanicStep
<1> QED
  BY <1>1, <1>2, <1>3, <1>4, <1>5, <1>6 DEF LInv

LEMMA LInvAlways == Spec => []LInv
  BY LInvInit, LInvStep, PTL DEF Spec

\* Every reachable state of the life cycle is well typed; a wait group's counter
\* never goes below zero.
THEOREM LifecycleTypeCorrect == Spec => []LifecycleTypeOK
<1>1. LInv => LifecycleTypeOK
  BY DEF LInv
<1> QED
  BY <1>1, LInvAlways, PTL

\* However many goroutines start and stop the scheduler, a loop that works is
\* one the scheduler still points to or one that has been or is being told to
\* stop (Start, StopWithTimeout).
THEOREM LoopsAreWatched == Spec => []NoOrphans
<1>1. LInv => NoOrphans
  BY DEF LInv
<1> QED
  BY <1>1, LInvAlways, PTL

\* "stopped gracefully" means that every loop of that run has ended, even if Stop
\* overtook the Start that spawns them (wg.Add before CompareAndSwap).
THEOREM GracefulStop == Spec => []GracefulIsGone
<1>1. LInv => GracefulIsGone
  BY DEF LInv
<1> QED
  BY <1>1, LInvAlways, PTL

\* A stop channel is closed once (Swap hands a run to one Stop).
THEOREM StopsOnce == Spec => []NoPanic
<1>1. LInv => NoPanic
  BY DEF LInv
<1> QED
  BY <1>1, LInvAlways, PTL

\* Stop neither panics nor reports loops as gone that are not (StopWithTimeout).
THEOREM StopAlwaysSafe == Spec => []StopIsSafe
  BY GracefulStop, StopsOnce, PTL DEF StopIsSafe
=============================================================================
