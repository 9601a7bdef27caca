----------------------- MODULE CoordinatorRefinement -----------------------
(***************************************************************************)
(* The coordinator implements CollectionCycle: a caller is inside a cycle  *)
(* while it keeps the token, and a collector has finished when its         *)
(* goroutine has nothing left to do.                                       *)
(***************************************************************************)
EXTENDS Coordinator

PhaseOf(v) == CASE v = "idle"    -> "out"
                [] v = "waiting" -> "waiting"
                [] OTHER         -> "in"

PhaseMap   == [p \in Callers |-> PhaseOf(pc[p])]
TargetsMap == [p \in Callers |-> call[p].targets]
DoneMap    == [p \in Callers |-> {c \in Collectors : task[p][c] = "done"}]
ErrorsMap  == [p \in Callers |-> call[p].errors]

Cycle == INSTANCE CollectionCycle
           WITH phase <- PhaseMap, targets <- TargetsMap,
                done <- DoneMap, errors <- ErrorsMap

\* Every behaviour of the coordinator is one its callers were promised: cycles
\* one at a time, skipped only when nothing is due, and ending without an error
\* only after each of their collectors succeeded and moved its lastRun.
ImplementsCycle == Cycle!CycleSpec
=============================================================================
