-------------------------- MODULE CollectionCycle --------------------------
(***************************************************************************)
(* What the collection coordinator promises the goroutines that call it,   *)
(* snapshots, storage and its own goroutines hidden: one cycle at a time;  *)
(* a scheduled cycle runs the collectors that are due; every collector a   *)
(* cycle sets out to run succeeds, which moves lastRun, or is reported.    *)
(* Coordinator implements this specification; Scheduler is built on it.    *)
(***************************************************************************)
EXTENDS Naturals

CONSTANTS
  Callers,       \* goroutines that call the coordinator
  Collectors,    \* the registered collectors
  Interval,      \* Interval[c]: time between two runs of collector c
  Never,         \* "has not run": no lastRun entry
  MaxTime        \* bound on the clock

ASSUME CycleAssumption ==
  /\ MaxTime \in Nat
  /\ Interval \in [Collectors -> Nat \ {0}]
  /\ Never \notin Nat

VARIABLES
  now,      \* wall clock
  lastRun,  \* lastRun[c]: when collector c last succeeded
  phase,    \* phase[p]: outside, waiting for, or inside a cycle
  cancelled, \* cancelled[p]: the context of p's call is done
  targets,  \* targets[p]: collectors p's cycle set out to run
  done,     \* done[p]: those that have finished
  errors    \* errors[p]: those that have failed

cycleVars == <<now, lastRun, phase, cancelled, targets, done, errors>>

CycleTypeOK ==
  /\ now \in Nat
  /\ lastRun \in [Collectors -> Nat \cup {Never}]
  /\ phase \in [Callers -> {"out", "waiting", "in"}]
  /\ cancelled \in [Callers -> BOOLEAN]
  /\ targets \in [Callers -> SUBSET Collectors]
  /\ done \in [Callers -> SUBSET Collectors]
  /\ errors \in [Callers -> SUBSET Collectors]

CycleInit ==
  /\ now = 0
  /\ lastRun = [c \in Collectors |-> Never]
  /\ phase = [p \in Callers |-> "out"]
  /\ cancelled = [p \in Callers |-> FALSE]
  /\ targets = [p \in Callers |-> {}]
  /\ done = [p \in Callers |-> {}]
  /\ errors = [p \in Callers |-> {}]

Free == \A p \in Callers : phase[p] # "in"

Due == {c \in Collectors : lastRun[c] = Never \/ now - lastRun[c] >= Interval[c]}

-----------------------------------------------------------------------------
\* A scheduled caller names no collector, RunCollector names one.
Request(p, cs) ==
  /\ phase[p] = "out"
  /\ phase' = [phase EXCEPT ![p] = "waiting"]
  /\ targets' = [targets EXCEPT ![p] = cs]
  /\ UNCHANGED <<now, lastRun, cancelled, done, errors>>

\* The call ends and leaves nothing behind.
Quit(p) ==
  /\ phase' = [phase EXCEPT ![p] = "out"]
  /\ cancelled' = [cancelled EXCEPT ![p] = FALSE]
  /\ targets' = [targets EXCEPT ![p] = {}]
  /\ done' = [done EXCEPT ![p] = {}]
  /\ errors' = [errors EXCEPT ![p] = {}]
  /\ UNCHANGED <<now, lastRun>>

\* A waiting caller's context ends before the token arrives.
Withdraw(p) == phase[p] = "waiting" /\ cancelled[p] /\ Quit(p)

\* It is p's turn and nothing is due.
Skip(p) ==
  /\ phase[p] = "waiting" /\ targets[p] = {} /\ Free
  /\ Due = {}
  /\ Quit(p)

Begin(p, cs) ==
  /\ Free
  /\ phase' = [phase EXCEPT ![p] = "in"]
  /\ targets' = [targets EXCEPT ![p] = cs]
  /\ UNCHANGED <<now, lastRun, cancelled, done, errors>>

\* A scheduled cycle.
BeginDue(p) ==
  /\ phase[p] = "waiting" /\ targets[p] = {}
  /\ Due # {}
  /\ Begin(p, Due)

BeginNamed(p) ==
  /\ phase[p] = "waiting" /\ targets[p] # {}
  /\ Begin(p, targets[p])

\* A manual cycle does not wait for its turn.
BeginAll(p) == phase[p] = "out" /\ Begin(p, Collectors)

Finish(p, c) ==
  /\ phase[p] = "in" /\ c \in targets[p] \ done[p]
  /\ done' = [done EXCEPT ![p] = @ \cup {c}]
  /\ UNCHANGED <<now, phase, cancelled, targets>>

Succeed(p, c) ==
  /\ Finish(p, c)
  /\ lastRun' = [lastRun EXCEPT ![c] = now]
  /\ UNCHANGED errors

\* Mutant: lastRun is set before the error is looked at.
FailStamped(p, c) ==
  /\ Finish(p, c)
  /\ errors' = [errors EXCEPT ![p] = @ \cup {c}]
  /\ lastRun' = [lastRun EXCEPT ![c] = now]

Fail(p, c) ==
  /\ Finish(p, c)
  /\ errors' = [errors EXCEPT ![p] = @ \cup {c}]
  /\ UNCHANGED lastRun

\* Mutant: the error return keeps the token.
AbortHolding(p) ==
  phase[p] = "in" /\ done[p] = {} /\ UNCHANGED cycleVars

\* The cycle found no snapshot to write to: the call fails as a whole.
Abort(p) == phase[p] = "in" /\ done[p] = {} /\ Quit(p)

\* The call returns errors[p].
Leave(p) == phase[p] = "in" /\ done[p] = targets[p] /\ Quit(p)

CancelCall(p) ==
  /\ phase[p] # "out" /\ ~cancelled[p]
  /\ cancelled' = [cancelled EXCEPT ![p] = TRUE]
  /\ UNCHANGED <<now, lastRun, phase, targets, done, errors>>

Advance ==
  /\ now < MaxTime
  /\ now' = now + 1
  /\ UNCHANGED <<lastRun, phase, cancelled, targets, done, errors>>

\* A new process: every call is gone and nothing has run.
Reboot ==
  /\ lastRun' = [c \in Collectors |-> Never]
  /\ phase' = [p \in Callers |-> "out"]
  /\ cancelled' = [p \in Callers |-> FALSE]
  /\ targets' = [p \in Callers |-> {}]
  /\ done' = [p \in Callers |-> {}]
  /\ errors' = [p \in Callers |-> {}]
  /\ UNCHANGED now

CycleNext ==
  \/ \E p \in Callers :
       \/ Request(p, {}) \/ \E c \in Collectors : Request(p, {c})
       \/ CancelCall(p) \/ Withdraw(p) \/ Skip(p)
       \/ BeginDue(p) \/ BeginNamed(p) \/ BeginAll(p)
       \/ \E c \in Collectors : Succeed(p, c) \/ Fail(p, c)
       \/ Abort(p) \/ Leave(p)
  \/ Advance
  \/ Reboot

CycleSpec == CycleInit /\ [][CycleNext]_cycleVars
=============================================================================
