----------------------------- MODULE Migrations -----------------------------
(***************************************************************************)
(* Opening the database file.  Each process brings the schema to what its  *)
(* binary knows, one transaction per migration, on the strength of a list  *)
(* of applied migrations it reads once; nothing keeps another process out. *)
(* One migration copies the samples collected so far into query_history.   *)
(***************************************************************************)
EXTENDS Integers, FiniteSets, FiniteSetsExt

CONSTANTS
  Processes,
  Latest,            \* versions are 1..Latest
  Backfill,          \* the version that creates and fills query_history
  OpenFaults,        \* "io", "stop"
  MaxSamples, MaxOpenFaults, MaxRollbacks   \* bounds

ASSUME MigrationsAssumption ==
  /\ {Latest, Backfill, MaxSamples, MaxOpenFaults, MaxRollbacks} \subseteq Nat
  /\ Backfill \in 2..Latest

VARIABLES
  recorded,     \* _migrations
  schema,       \* migrations whose effect is in the file
  samples,      \* query_stats
  copies,       \* copies[s]: rows of sample s in query_history
  opener,       \* each process: its state, binary and list of applied migrations
  unheard,      \* history variable: samples a binary without the history saved
  openFaults, rollbacks

fileVars == <<recorded, schema, samples, copies, opener, unheard, openFaults, rollbacks>>

Closed == [pc |-> "closed", knows |-> 0, applied |-> {}]

OpenInit ==
  /\ recorded = {} /\ schema = {}
  /\ samples = {}
  /\ copies = [s \in 1..MaxSamples |-> 0]
  /\ opener = [p \in Processes |-> Closed]
  /\ unheard = {}
  /\ openFaults = 0 /\ rollbacks = 0

OpenFault(f) ==
  /\ f \in OpenFaults /\ openFaults < MaxOpenFaults
  /\ openFaults' = openFaults + 1

-----------------------------------------------------------------------------
NewStorage(p) ==
  /\ opener[p].pc = "closed"
  /\ \E known \in Backfill - 1..Latest :
       opener' = [opener EXCEPT ![p] = [pc |-> "listing", knows |-> known, applied |-> {}]]
  /\ UNCHANGED <<recorded, schema, samples, copies, unheard, openFaults, rollbacks>>

GetAppliedMigrations(p) ==
  /\ opener[p].pc = "listing"
  /\ opener' = [opener EXCEPT ![p].pc = "migrating", ![p].applied = recorded]
  /\ UNCHANGED <<recorded, schema, samples, copies, unheard, openFaults, rollbacks>>

PendingOf(p) == (1..opener[p].knows) \ opener[p].applied

Migrating(p) == opener[p].pc = "migrating" /\ PendingOf(p) # {}

BackfillQueryHistory == [s \in DOMAIN copies |-> IF s \in samples THEN copies[s] + 1 ELSE copies[s]]

\* Mutant: applied by one transaction after the other, the record last.
RecordedAlone(m) == schema' = schema /\ recorded' = recorded \cup {m}

\* The migration and its record are one transaction.
Committed(m) == schema' = schema \cup {m} /\ recorded' = recorded \cup {m}

\* Its objects or its record exist already.
Conflicts(p, m) == m \in recorded

ApplyMigration(p) ==
  /\ Migrating(p)
  /\ LET m == Min(PendingOf(p)) IN
       /\ ~Conflicts(p, m)
       /\ Committed(m)
       /\ copies' = IF m = Backfill THEN BackfillQueryHistory ELSE copies
       /\ opener' = [opener EXCEPT ![p].applied = @ \cup {m}]
  /\ UNCHANGED <<samples, unheard, openFaults, rollbacks>>

\* The transaction is rolled back and the program ends.
GivesUpOpening(p) == opener' = [opener EXCEPT ![p] = Closed]

MigrationConflicts(p) ==
  /\ Migrating(p)
  /\ Conflicts(p, Min(PendingOf(p)))
  /\ GivesUpOpening(p)
  /\ UNCHANGED <<recorded, schema, samples, copies, unheard, openFaults, rollbacks>>

MigrationFails(p) ==
  /\ Migrating(p) /\ OpenFault("io")
  /\ GivesUpOpening(p)
  /\ UNCHANGED <<recorded, schema, samples, copies, unheard, rollbacks>>

NothingPending(p) == PendingOf(p) = {}

Opened(p) ==
  /\ opener[p].pc = "migrating" /\ NothingPending(p)
  /\ opener' = [opener EXCEPT ![p].pc = "open"]
  /\ UNCHANGED <<recorded, schema, samples, copies, unheard, openFaults, rollbacks>>

\* The process ends, in whatever it does.
Close(p) ==
  /\ opener[p].pc # "closed" /\ OpenFault("stop")
  /\ GivesUpOpening(p)
  /\ UNCHANGED <<recorded, schema, samples, copies, unheard, rollbacks>>

\* An older binary goes on collecting into a file that has moved on.
SaveSample(p) ==
  /\ opener[p].pc = "open"
  /\ Cardinality(samples) < MaxSamples
  /\ LET s == Cardinality(samples) + 1
         writesHistory == opener[p].knows >= Backfill
     IN /\ samples' = samples \cup {s}
        /\ copies' = IF writesHistory THEN [copies EXCEPT ![s] = 1] ELSE copies
        /\ unheard' = IF writesHistory THEN unheard ELSE unheard \cup {s}
  /\ UNCHANGED <<recorded, schema, opener, openFaults, rollbacks>>

\* Mutant: the history outlives its migration.
KeepsHistory == copies

DropsHistory == [s \in DOMAIN copies |-> 0]

\* Nothing in the program calls it; done with no process at the file.
Rollback ==
  /\ rollbacks < MaxRollbacks
  /\ \A p \in Processes : opener[p].pc = "closed"
  /\ recorded # {} /\ Max(recorded) >= Backfill
  /\ LET m == Max(recorded) IN
       /\ schema' = schema \ {m} /\ recorded' = recorded \ {m}
       /\ copies' = IF m = Backfill THEN DropsHistory ELSE copies
  /\ rollbacks' = rollbacks + 1
  /\ UNCHANGED <<samples, opener, unheard, openFaults>>

OpenNext ==
  \/ \E p \in Processes :
       \/ NewStorage(p) \/ GetAppliedMigrations(p)
       \/ ApplyMigration(p) \/ MigrationConflicts(p) \/ MigrationFails(p)
       \/ Opened(p) \/ Close(p) \/ SaveSample(p)
  \/ Rollback

OpenSpec == OpenInit /\ [][OpenNext]_fileVars

-----------------------------------------------------------------------------
\* Samples are numbered in the order they are saved, and a process has a list of
\* applied migrations only while it opens the file or uses it.
OpenTypeOK ==
  /\ recorded \subseteq 1..Latest /\ schema \subseteq 1..Latest
  /\ samples \subseteq 1..MaxSamples /\ unheard \subseteq samples
  /\ copies \in [1..MaxSamples -> Nat]
  /\ opener \in [Processes -> [pc : {"closed", "listing", "migrating", "open"},
                               knows : 0..Latest, applied : SUBSET (1..Latest)]]
  /\ \A p \in Processes : opener[p].pc \in {"closed", "listing"} => opener[p].applied = {}
  /\ openFaults \in 0..MaxOpenFaults /\ rollbacks \in 0..MaxRollbacks

\* Whoever stopped where, the records tell which migrations the schema has, and
\* these are the first ones without a gap.
RecordsTellSchema ==
  /\ recorded = schema
  /\ recorded = 1..Cardinality(recorded)

\* No process uses the file before everything its binary relies on is in it, though
\* several may start at once and each may fail or end half-way.
OpenMeansMigrated ==
  \A p \in Processes : opener[p].pc = "open" => 1..opener[p].knows \subseteq schema

\* Each sample is in the history once, taken before the history existed or after,
\* through rollbacks and repeated migrations; only what a binary that does not know
\* the history saves beside it can be missing.
HistoryHasEachOnce ==
  Backfill \in recorded =>
    \A s \in samples : copies[s] = 1 \/ (s \in unheard /\ copies[s] = 0)

\* Processes that start at once do not all fail on each other: of those that have
\* begun one is at work or has opened the file, unless one stopped or I/O failed.
SomebodyOpens ==
  (openFaults = 0 /\ recorded # {} /\ rollbacks = 0) =>
    \E p \in Processes : opener[p].pc # "closed"

\* What a start needs of the migrations, through crashes, conflicts, rollbacks and
\* binaries of different age: true records, a whole schema under whoever has the
\* file open, and somebody who gets through.
OpeningIsSafe == RecordsTellSchema /\ OpenMeansMigrated /\ SomebodyOpens
=============================================================================
