---------------------------- MODULE StoreProofs ----------------------------
(***************************************************************************)
(* The parts that keep the store's tables, each for itself and for every   *)
(* value of its constants: opening the file, the setup checker, health     *)
(* messages and digests, query plans, what collectors leave, and windows,  *)
(* periods and verdicts.                                                   *)
(***************************************************************************)
EXTENDS Migrations, SetupChecker, Digest, IndexPlans, Views, Workload,
        FiniteSetTheorems, NaturalsInduction, WellFoundedInduction, TLAPS

-----------------------------------------------------------------------------
(* Opening the file.                                                       *)

\* The migrations on record are the first ones.
Ordered == \E k \in 0..Latest : recorded = 1..k

\* So are those on a process's list, and they are all on record: only with nobody at
\* the file is one taken back.
Lists ==
  \A p \in Processes :
    /\ opener[p].pc # "closed" =>
         \E j \in 0..Latest : opener[p].applied = 1..j /\ 1..j \subseteq recorded
    /\ opener[p].pc = "open" => 1..opener[p].knows \subseteq recorded

\* Whoever recorded the latest migration goes on, and nothing keeps it from that.
Leader ==
  (openFaults = 0 /\ recorded # {} /\ rollbacks = 0) =>
    \E p \in Processes :
      opener[p].pc \in {"migrating", "open"} /\ opener[p].applied = recorded

\* The history has rows only while its migration is on record, and only of samples.
HistoryRows ==
  /\ \E n \in 0..MaxSamples : samples = 1..n
  /\ \A s \in 1..MaxSamples : copies[s] # 0 => Backfill \in recorded /\ s \in samples
  /\ Backfill \in recorded =>
       \A s \in samples : copies[s] = 1 \/ (s \in unheard /\ copies[s] = 0)

OInv == OpenTypeOK /\ recorded = schema /\ Ordered /\ Lists /\ Leader /\ HistoryRows

-----------------------------------------------------------------------------
\* The least number missing of an initial segment.
LEMMA MinOfRest ==
  ASSUME NEW j \in Nat, NEW n \in Nat, (1..n) \ (1..j) # {}
  PROVE  /\ Min((1..n) \ (1..j)) = j + 1
         /\ j + 1 \in 1..n
<1> DEFINE S == (1..n) \ (1..j)
<1>1. j + 1 \in S /\ \A y \in S : j + 1 =< y
  OBVIOUS
<1>2. \A x \in S : (\A y \in S : x =< y) => x = j + 1
  BY <1>1
<1>3. Min(S) = j + 1
  BY <1>1, <1>2 DEF Min
<1> QED
  BY <1>1, <1>3

\* The greatest number of an initial segment.
LEMMA MaxOfSegment ==
  ASSUME NEW k \in Nat, 1..k # {}
  PROVE  Max(1..k) = k /\ k \in 1..k
<1>1. k \in 1..k /\ \A y \in 1..k : k >= y
  OBVIOUS
<1>2. \A x \in 1..k : (\A y \in 1..k : x >= y) => x = k
  BY <1>1
<1> QED
  BY <1>1, <1>2 DEF Max

LEMMA InitOInv == OpenInit => OInv
<1> SUFFICES ASSUME OpenInit PROVE OInv
  OBVIOUS
<1>1. OpenTypeOK
  BY MigrationsAssumption DEF OpenInit, OpenTypeOK, Closed
<1>2. Ordered
  BY MigrationsAssumption DEF OpenInit, Ordered
<1>3. Lists /\ Leader
  BY DEF OpenInit, Lists, Leader, Closed
<1>4. HistoryRows
  BY MigrationsAssumption DEF OpenInit, HistoryRows
<1> QED
  BY <1>1, <1>2, <1>3, <1>4 DEF OInv, OpenInit

-----------------------------------------------------------------------------
\* Steps of one process's way to the open file, which leave the file alone.
States == [pc : {"closed", "listing", "migrating", "open"}, knows : 0..Latest,
           applied : SUBSET (1..Latest)]

OnlyOpens(p, r) ==
  /\ opener' = [opener EXCEPT ![p] = r]
  /\ UNCHANGED <<recorded, schema, samples, copies, unheard, rollbacks>>
  /\ openFaults' \in 0..MaxOpenFaults /\ (openFaults' = 0 => openFaults = 0)

\* What such a step must see to: the list, and not to give up while it leads.
Keeps(p, r) ==
  /\ r.pc \in {"closed", "listing"} => r.applied = {}
  /\ r.pc # "closed" => \E j \in 0..Latest : r.applied = 1..j /\ 1..j \subseteq recorded
  /\ r.pc = "open" => 1..r.knows \subseteq recorded
  /\ \/ openFaults' # 0
     \/ ~(opener[p].pc \in {"migrating", "open"} /\ opener[p].applied = recorded)
     \/ recorded = {}
     \/ r.pc \in {"migrating", "open"} /\ r.applied = recorded

LEMMA OpenerStep ==
  ASSUME OInv, NEW p \in Processes, NEW r \in States, OnlyOpens(p, r), Keeps(p, r)
  PROVE  OInv'
<1> USE DEF OInv
<1>1. opener' \in [Processes -> States]
  BY DEF OnlyOpens, OpenTypeOK, States
<1>2. \A q \in Processes : opener'[q] = IF q = p THEN r ELSE opener[q]
  BY DEF OnlyOpens, OpenTypeOK
<1>3. openFaults' \in 0..MaxOpenFaults /\ (openFaults' = 0 => openFaults = 0)
  BY DEF OnlyOpens
<1>4. OpenTypeOK'
  BY <1>1, <1>2, <1>3 DEF OnlyOpens, OpenTypeOK, Keeps, States
<1>5. Lists'
  BY <1>2 DEF OnlyOpens, Keeps, Lists
<1>6. Leader'
  <2> SUFFICES ASSUME openFaults' = 0, recorded # {}, rollbacks = 0
               PROVE  \E q \in Processes :
                        opener'[q].pc \in {"migrating", "open"} /\ opener'[q].applied = recorded
    BY DEF Leader, OnlyOpens
  <2>1. PICK q \in Processes :
          opener[q].pc \in {"migrating", "open"} /\ opener[q].applied = recorded
    BY <1>3 DEF Leader
  <2> QED
    BY <1>2, <2>1 DEF Keeps
<1>7. Ordered' /\ HistoryRows' /\ (recorded = schema)'
  BY DEF OnlyOpens, Ordered, HistoryRows
<1> QED
  BY <1>4, <1>5, <1>6, <1>7

LEMMA NewStorageO ==
  ASSUME OInv, NEW p \in Processes, NewStorage(p)
  PROVE  OInv'
<1>1. PICK known \in Backfill - 1..Latest :
        opener' = [opener EXCEPT ![p] = [pc |-> "listing", knows |-> known, applied |-> {}]]
  BY DEF NewStorage
<1> DEFINE r == [pc |-> "listing", knows |-> known, applied |-> {}]
<1>2. known \in 0..Latest
  BY MigrationsAssumption
<1>3. r \in States
  BY <1>2 DEF States
<1>4. OnlyOpens(p, r)
  BY <1>1 DEF NewStorage, OnlyOpens, OInv, OpenTypeOK
<1>5. {} = 1..0 /\ 0 \in 0..Latest
  BY MigrationsAssumption
<1>6. Keeps(p, r)
  BY <1>5 DEF Keeps, NewStorage
<1> QED
  BY <1>3, <1>4, <1>6, OpenerStep

LEMMA GetAppliedMigrationsO ==
  ASSUME OInv, NEW p \in Processes, GetAppliedMigrations(p)
  PROVE  OInv'
<1> DEFINE r == [opener[p] EXCEPT !.pc = "migrating", !.applied = recorded]
<1>1. opener[p] \in States
  BY DEF OInv, OpenTypeOK, States
<1>2. r \in States /\ r.pc = "migrating" /\ r.applied = recorded
  BY <1>1 DEF OInv, OpenTypeOK, States
<1>3. OnlyOpens(p, r)
  BY DEF GetAppliedMigrations, OnlyOpens, OInv, OpenTypeOK
<1>4. Keeps(p, r)
  BY <1>2 DEF Keeps, OInv, Ordered
<1> QED
  BY <1>2, <1>3, <1>4, OpenerStep

LEMMA OpenedO ==
  ASSUME OInv, NEW p \in Processes, Opened(p)
  PROVE  OInv'
<1> DEFINE r == [opener[p] EXCEPT !.pc = "open"]
<1>1. opener[p] \in States /\ opener[p].pc = "migrating"
  BY DEF OInv, OpenTypeOK, States, Opened
<1>2. r \in States /\ r.pc = "open" /\ r.applied = opener[p].applied
                   /\ r.knows = opener[p].knows
  BY <1>1 DEF States
<1>3. OnlyOpens(p, r)
  BY DEF Opened, OnlyOpens, OInv, OpenTypeOK
<1>4. PICK j \in 0..Latest : opener[p].applied = 1..j /\ 1..j \subseteq recorded
  BY <1>1 DEF OInv, Lists
<1>5. 1..opener[p].knows \subseteq opener[p].applied
  BY DEF Opened, NothingPending, PendingOf
<1>6. Keeps(p, r)
  BY <1>2, <1>4, <1>5 DEF Keeps
<1> QED
  BY <1>2, <1>3, <1>6, OpenerStep

\* Giving up: for a fault, or because somebody else was faster and leads.
LEMMA GivesUpO ==
  ASSUME OInv, NEW p \in Processes,
         MigrationConflicts(p) \/ MigrationFails(p) \/ Close(p)
  PROVE  OInv'
<1>1. Closed \in States /\ Closed.pc = "closed" /\ Closed.applied = {}
  BY MigrationsAssumption DEF Closed, States
<1>2. openFaults \in Nat /\ openFaults \in 0..MaxOpenFaults /\ MaxOpenFaults \in Nat
  BY MigrationsAssumption DEF OInv, OpenTypeOK
<1>3. OnlyOpens(p, Closed)
  BY <1>2 DEF MigrationConflicts, MigrationFails, Close, OpenFault, GivesUpOpening,
                  OnlyOpens
<1>4. CASE MigrationConflicts(p)
  <2>1. PICK j \in 0..Latest : opener[p].applied = 1..j /\ 1..j \subseteq recorded
    BY <1>4 DEF OInv, Lists, MigrationConflicts, Migrating
  <2>2. opener[p].knows \in Nat /\ j \in Nat
    BY MigrationsAssumption DEF OInv, OpenTypeOK
  <2>3. (1..opener[p].knows) \ (1..j) # {}
    BY <1>4, <2>1 DEF MigrationConflicts, Migrating, PendingOf
  <2>4. Min(PendingOf(p)) = j + 1
    BY <2>1, <2>2, <2>3, MinOfRest DEF PendingOf
  <2>5. j + 1 \in recorded
    BY <1>4, <2>4 DEF MigrationConflicts, Conflicts
  <2>6. opener[p].applied # recorded
    BY <2>1, <2>2, <2>5
  <2>7. Keeps(p, Closed)
    BY <1>1, <2>6 DEF Keeps
  <2> QED
    BY <1>1, <1>3, <2>7, OpenerStep
<1>5. CASE MigrationFails(p) \/ Close(p)
  <2>1. openFaults' # 0
    BY <1>2, <1>5 DEF MigrationFails, Close, OpenFault
  <2>2. Keeps(p, Closed)
    BY <1>1, <2>1 DEF Keeps
  <2> QED
    BY <1>1, <1>3, <2>2, OpenerStep
<1> QED
  BY <1>4, <1>5

-----------------------------------------------------------------------------
\* A migration that does not conflict is the next one, and its process leads then.
LEMMA ApplyMigrationO ==
  ASSUME OInv, NEW p \in Processes, ApplyMigration(p)
  PROVE  OInv'
<1> USE DEF OInv
<1> DEFINE m == Min(PendingOf(p))
<1>1. PICK k \in 0..Latest : recorded = 1..k
  BY DEF Ordered
<1>2. PICK j \in 0..Latest : opener[p].applied = 1..j /\ 1..j \subseteq recorded
  BY DEF ApplyMigration, Migrating, Lists
<1>3. opener[p].knows \in 0..Latest /\ Latest \in Nat
  BY MigrationsAssumption DEF OpenTypeOK
<1>4. m = j + 1 /\ j + 1 \in 1..opener[p].knows
  <2>1. (1..opener[p].knows) \ (1..j) # {}
    BY <1>2 DEF ApplyMigration, Migrating, PendingOf
  <2>2. PICK n : n = opener[p].knows
    OBVIOUS
  <2>3. n \in Nat /\ j \in Nat
    BY <1>3, <2>2
  <2>4. m = Min((1..n) \ (1..j))
    BY <1>2, <2>2 DEF PendingOf
  <2> QED
    BY <2>1, <2>2, <2>3, <2>4, MinOfRest
<1>5. j = k
  <2>1. ~(j + 1 \in 1..k)
    BY <1>1, <1>4 DEF ApplyMigration, Conflicts
  <2>2. 1..j \subseteq 1..k
    BY <1>1, <1>2
  <2> QED
    BY <2>1, <2>2
<1>6. k + 1 \in 0..Latest /\ (1..k) \cup {k + 1} = 1..(k + 1)
  BY <1>3, <1>4, <1>5
<1>7. recorded' = 1..(k + 1) /\ schema' = 1..(k + 1)
  BY <1>1, <1>4, <1>5, <1>6 DEF ApplyMigration, Committed
<1>8. /\ opener' = [opener EXCEPT ![p].applied = 1..(k + 1)]
      /\ UNCHANGED <<samples, unheard, openFaults, rollbacks>>
  BY <1>2, <1>4, <1>5, <1>6 DEF ApplyMigration
<1>9. opener[p].pc = "migrating"
  BY DEF ApplyMigration, Migrating
<1>10. /\ opener' \in [Processes -> States]
       /\ opener'[p].pc = "migrating" /\ opener'[p].applied = 1..(k + 1)
       /\ \A q \in Processes : q # p => opener'[q] = opener[q]
  <2>1. opener \in [Processes -> States]
    BY DEF OpenTypeOK, States
  <2>2. 1..(k + 1) \in SUBSET (1..Latest)
    BY <1>3, <1>6
  <2> QED
    BY <1>8, <1>9, <2>1, <2>2 DEF States
<1>11. \/ Backfill = k + 1 /\ copies' = BackfillQueryHistory
       \/ Backfill # k + 1 /\ copies' = copies
  BY <1>4, <1>5 DEF ApplyMigration
<1>12. OpenTypeOK'
  <2>1. copies' \in [1..MaxSamples -> Nat]
    BY <1>11 DEF OpenTypeOK, BackfillQueryHistory
  <2>2. recorded' \subseteq 1..Latest /\ schema' \subseteq 1..Latest
    BY <1>3, <1>6, <1>7
  <2>3. \A q \in Processes :
          opener'[q].pc \in {"closed", "listing"} => opener'[q].applied = {}
    BY <1>10 DEF OpenTypeOK
  <2> QED
    BY <1>8, <1>10, <2>1, <2>2, <2>3 DEF OpenTypeOK, States
<1>13. Lists'
  <2>1. recorded \subseteq recorded'
    BY <1>1, <1>6, <1>7
  <2> QED
    BY <1>6, <1>7, <1>10, <2>1 DEF Lists
<1>14. Leader'
  BY <1>7, <1>10 DEF Leader
<1>15. HistoryRows'
  <2>1. Backfill \in recorded' <=> Backfill \in recorded \/ Backfill = k + 1
    BY <1>1, <1>6, <1>7
  <2>2. CASE Backfill # k + 1
    BY <1>8, <1>11, <2>1, <2>2 DEF HistoryRows
  <2>3. CASE Backfill = k + 1
    <3>1. ~(Backfill \in recorded)
      BY <1>1, <2>3
    <3>2. \A s \in 1..MaxSamples : copies[s] = 0
      BY <3>1 DEF HistoryRows
    <3>3. \A s \in 1..MaxSamples : copies'[s] = IF s \in samples THEN 1 ELSE 0
      BY <1>11, <2>3, <3>2 DEF BackfillQueryHistory, OpenTypeOK
    <3>4. samples \subseteq 1..MaxSamples
      BY DEF OpenTypeOK
    <3> QED
      BY <1>8, <2>1, <2>3, <3>3, <3>4 DEF HistoryRows
  <2> QED
    BY <2>2, <2>3
<1>16. Ordered' /\ (recorded = schema)'
  BY <1>6, <1>7 DEF Ordered
<1> QED
  BY <1>12, <1>13, <1>14, <1>15, <1>16

\* Whoever has the file open has the history if its binary knows it.
LEMMA SaveSampleO ==
  ASSUME OInv, NEW p \in Processes, SaveSample(p)
  PROVE  OInv'
<1> USE DEF OInv
<1>1. PICK n \in 0..MaxSamples : samples = 1..n
  BY DEF HistoryRows
<1>2. n \in Nat /\ MaxSamples \in Nat
  BY MigrationsAssumption
<1>3. Cardinality(samples) = n
  BY <1>1, <1>2, FS_Interval
<1>4. n + 1 \in 1..MaxSamples /\ n + 1 \notin samples /\ samples \cup {n + 1} = 1..(n + 1)
  BY <1>1, <1>2, <1>3 DEF SaveSample
<1>5. samples' = 1..(n + 1)
  BY <1>3, <1>4 DEF SaveSample
<1>6. /\ \/ copies' = [copies EXCEPT ![n + 1] = 1] /\ unheard' = unheard
         \/ copies' = copies /\ unheard' = unheard \cup {n + 1}
      /\ opener[p].knows >= Backfill => copies' = [copies EXCEPT ![n + 1] = 1]
      /\ ~(opener[p].knows >= Backfill) =>
           copies' = copies /\ unheard' = unheard \cup {n + 1}
  BY <1>3 DEF SaveSample
<1>7. UNCHANGED <<recorded, schema, opener, openFaults, rollbacks>>
  BY DEF SaveSample
<1>8. OpenTypeOK'
  <2>1. copies' \in [1..MaxSamples -> Nat]
    BY <1>6 DEF OpenTypeOK
  <2>2. samples' \subseteq 1..MaxSamples
    BY <1>2, <1>4, <1>5
  <2>3. unheard' \subseteq samples'
    BY <1>4, <1>5, <1>6 DEF OpenTypeOK
  <2> QED
    BY <1>7, <2>1, <2>2, <2>3 DEF OpenTypeOK
<1>9. opener[p].knows >= Backfill => Backfill \in recorded
  <2>1. opener[p].knows \in Nat /\ Backfill \in Nat /\ 1 =< Backfill
    BY MigrationsAssumption DEF OpenTypeOK
  <2>2. 1..opener[p].knows \subseteq recorded
    BY DEF SaveSample, Lists
  <2> QED
    BY <2>1, <2>2
<1>10. copies[n + 1] = 0
  BY <1>4 DEF HistoryRows, OpenTypeOK
<1>11. HistoryRows'
  <2>1. n + 1 \in 0..MaxSamples
    BY <1>2, <1>4
  <2>2. \A s \in 1..MaxSamples : s # n + 1 => copies'[s] = copies[s]
    BY <1>6 DEF OpenTypeOK
  <2>3. \/ copies'[n + 1] = 1 /\ Backfill \in recorded
        \/ copies'[n + 1] = 0 /\ n + 1 \in unheard'
    BY <1>4, <1>6, <1>9, <1>10 DEF OpenTypeOK
  <2>4. unheard \subseteq unheard'
    BY <1>6
  <2>5. samples \subseteq 1..MaxSamples /\ samples' = samples \cup {n + 1}
    BY <1>4, <1>5 DEF OpenTypeOK
  <2>6. \A s \in 1..MaxSamples : copies'[s] # 0 => Backfill \in recorded' /\ s \in samples'
    BY <1>7, <2>2, <2>3, <2>5 DEF HistoryRows
  <2>7. Backfill \in recorded' =>
          \A s \in samples' : copies'[s] = 1 \/ (s \in unheard' /\ copies'[s] = 0)
    BY <1>7, <2>2, <2>3, <2>4, <2>5 DEF HistoryRows
  <2> QED
    BY <1>5, <2>1, <2>6, <2>7 DEF HistoryRows
<1>12. Ordered' /\ Lists' /\ Leader' /\ (recorded = schema)'
  BY <1>7 DEF Ordered, Lists, Leader
<1> QED
  BY <1>8, <1>11, <1>12

\* With nobody at the file the last migration is taken back, and the history with its.
LEMMA RollbackO ==
  ASSUME OInv, Rollback
  PROVE  OInv'
<1> USE DEF OInv
<1>1. PICK k \in 0..Latest : recorded = 1..k
  BY DEF Ordered
<1>2. k \in Nat /\ Latest \in Nat /\ MaxRollbacks \in Nat
  BY MigrationsAssumption
<1>3. Max(recorded) = k /\ k \in 1..k
  BY <1>1, <1>2, MaxOfSegment DEF Rollback
<1>4. k - 1 \in 0..Latest /\ (1..k) \ {k} = 1..(k - 1)
  BY <1>2, <1>3
<1>5. recorded' = 1..(k - 1) /\ schema' = 1..(k - 1)
  BY <1>1, <1>3, <1>4 DEF Rollback
<1>6. \/ k = Backfill /\ copies' = DropsHistory
      \/ k # Backfill /\ copies' = copies
  BY <1>3 DEF Rollback
<1>7. /\ rollbacks' = rollbacks + 1 /\ rollbacks < MaxRollbacks
      /\ UNCHANGED <<samples, opener, unheard, openFaults>>
      /\ \A p \in Processes : opener[p].pc = "closed"
  BY DEF Rollback
<1>8. rollbacks' \in 1..MaxRollbacks
  BY <1>2, <1>7 DEF OpenTypeOK
<1>9. OpenTypeOK'
  <2>1. copies' \in [1..MaxSamples -> Nat]
    BY <1>6 DEF OpenTypeOK, DropsHistory
  <2>2. recorded' \subseteq 1..Latest /\ schema' \subseteq 1..Latest
    BY <1>2, <1>4, <1>5
  <2> QED
    BY <1>2, <1>7, <1>8, <2>1, <2>2 DEF OpenTypeOK
<1>10. Lists' /\ Leader'
  BY <1>7, <1>8 DEF Lists, Leader
<1>11. HistoryRows'
  <2>1. Backfill \in recorded' <=> Backfill \in recorded /\ Backfill # k
    BY <1>1, <1>4, <1>5
  <2>2. CASE k = Backfill
    <3>1. \A s \in 1..MaxSamples : copies'[s] = 0
      BY <1>6, <2>2 DEF DropsHistory, OpenTypeOK
    <3> QED
      BY <1>7, <2>1, <2>2, <3>1 DEF HistoryRows
  <2>3. CASE k # Backfill
    BY <1>6, <1>7, <2>1, <2>3 DEF HistoryRows
  <2> QED
    BY <2>2, <2>3
<1>12. Ordered' /\ (recorded = schema)'
  BY <1>4, <1>5 DEF Ordered
<1> QED
  BY <1>9, <1>10, <1>11, <1>12

-----------------------------------------------------------------------------
LEMMA NextOInv == OInv /\ [OpenNext]_fileVars => OInv'
<1> SUFFICES ASSUME OInv, [OpenNext]_fileVars PROVE OInv'
  OBVIOUS
<1>1. CASE Rollback
  BY <1>1, RollbackO
<1>2. ASSUME NEW p \in Processes, NewStorage(p) \/ GetAppliedMigrations(p) \/ Opened(p)
      PROVE  OInv'
  BY <1>2, NewStorageO, GetAppliedMigrationsO, OpenedO
<1>3. ASSUME NEW p \in Processes, ApplyMigration(p) \/ SaveSample(p)
      PROVE  OInv'
  BY <1>3, ApplyMigrationO, SaveSampleO
<1>4. ASSUME NEW p \in Processes, MigrationConflicts(p) \/ MigrationFails(p) \/ Close(p)
      PROVE  OInv'
  BY <1>4, GivesUpO
<1>5. CASE UNCHANGED fileVars
  BY <1>5 DEF fileVars, OInv, OpenTypeOK, Ordered, Lists, Leader, HistoryRows
<1> QED
  BY <1>1, <1>2, <1>3, <1>4, <1>5 DEF OpenNext

\* The inductive invariant holds in every behaviour.
LEMMA OpenInvariant == OpenSpec => []OInv
  BY InitOInv, NextOInv, PTL DEF OpenSpec

\* Every state is well typed: the lists hold known versions, the history whole rows.
THEOREM OpenTypeCorrect == OpenSpec => []OpenTypeOK
<1>1. OInv => OpenTypeOK
  BY DEF OInv
<1> QED
  BY <1>1, OpenInvariant, PTL

\* The records tell which migrations the schema has, without a gap, wherever
\* processes stopped and whatever was rolled back.
THEOREM RecordsAreTrue == OpenSpec => []RecordsTellSchema
<1>1. OInv => RecordsTellSchema
  <2> SUFFICES ASSUME OInv PROVE RecordsTellSchema
    OBVIOUS
  <2>1. PICK k \in 0..Latest : recorded = 1..k
    BY DEF OInv, Ordered
  <2>2. k \in Nat
    BY MigrationsAssumption
  <2>3. Cardinality(recorded) = k
    BY <2>1, <2>2, FS_Interval
  <2> QED
    BY <2>1, <2>3 DEF OInv, RecordsTellSchema
<1> QED
  BY <1>1, OpenInvariant, PTL

\* Whoever uses the file finds everything its binary relies on in it.
THEOREM OpenedIsMigrated == OpenSpec => []OpenMeansMigrated
<1>1. OInv => OpenMeansMigrated
  BY DEF OInv, Lists, OpenMeansMigrated
<1> QED
  BY <1>1, OpenInvariant, PTL

\* Each sample is in the history once: backfilled, or saved beside it.
THEOREM HistoryIsComplete == OpenSpec => []HistoryHasEachOnce
<1>1. OInv => HistoryHasEachOnce
  BY DEF OInv, HistoryRows, HistoryHasEachOnce
<1> QED
  BY <1>1, OpenInvariant, PTL

\* Processes that migrate at once do not all fail on each other.
THEOREM OneGetsThrough == OpenSpec => []SomebodyOpens
<1>1. OInv => SomebodyOpens
  BY DEF OInv, Leader, SomebodyOpens
<1> QED
  BY <1>1, OpenInvariant, PTL

\* What a start needs of the migrations holds of any number of processes and
\* migrations (Migrate, migrateOne, RollbackLast).
THEOREM OpeningAlwaysSafe == OpenSpec => []OpeningIsSafe
  BY RecordsAreTrue, OpenedIsMigrated, OneGetsThrough, PTL DEF OpeningIsSafe

-----------------------------------------------------------------------------
(* The setup checker.                                                      *)

Reports == [at : Nat, ok : BOOLEAN]

RequestStates == [pc : {"idle", "waiting", "checking", "checked", "done"},
                  kind : {"Report", "Refresh"}, made : Nat, began : Nat, left : Nat,
                  report : Reports \cup {NoReport}]

SetupTypeOK == /\ minute \in Nat /\ reachable \in BOOLEAN /\ lastChange \in Nat
               /\ cached \in Reports \cup {NoReport}
               /\ request \in [Requests -> RequestStates]

\* Checks that began at t found ok, or the server came or went since.
Found(report, t) ==
  /\ report \in Reports /\ report.at = t /\ t <= minute
  /\ report.ok = reachable \/ lastChange >= t

\* Before the first check nothing is found, and nothing wrong.
FoundSoFar(state) ==
  /\ state.left \in 1..Checks
  /\ state.left = Checks => state.report = [at |-> state.began, ok |-> TRUE]
  /\ state.left # Checks => Found(state.report, state.began)

\* What a request has, from the mutex to its answer.
RequestInv(r) ==
  /\ request[r].made <= minute /\ request[r].began <= minute
  /\ request[r].pc # "done" => request[r].began >= request[r].made
  /\ request[r].pc = "checking" => FoundSoFar(request[r])
  /\ request[r].pc = "checked" => Found(request[r].report, request[r].began)
  /\ request[r].pc = "done" /\ request[r].kind = "Refresh" =>
       request[r].report.at >= request[r].made

SetupInv == /\ SetupTypeOK
            /\ cached # NoReport => Found(cached, cached.at)
            /\ \A r \in Requests : RequestInv(r)

\* One request moves on while the server and the clock stand still.
OneRequest(r, state) ==
  /\ request' = [request EXCEPT ![r] = state]
  /\ UNCHANGED <<minute, reachable, lastChange>>

LEMMA RequestStep ==
  ASSUME SetupInv, NEW r \in Requests, NEW state \in RequestStates,
         OneRequest(r, state),
         /\ state.made <= minute /\ state.began <= minute
         /\ state.pc # "done" => state.began >= state.made
         /\ state.pc = "checking" => FoundSoFar(state)
         /\ state.pc = "checked" => Found(state.report, state.began)
         /\ state.pc = "done" /\ state.kind = "Refresh" => state.report.at >= state.made,
         cached' \in Reports \cup {NoReport},
         cached' # NoReport => Found(cached', cached'.at)
  PROVE  SetupInv'
<1>1. \A q \in Requests : request'[q] = IF q = r THEN state ELSE request[q]
  BY DEF OneRequest, SetupInv, SetupTypeOK
<1>2. UNCHANGED <<minute, reachable, lastChange>>
  BY DEF OneRequest
<1>3. SetupTypeOK'
  <2>1. request' \in [Requests -> RequestStates]
    BY DEF OneRequest, SetupInv, SetupTypeOK
  <2> QED
    BY <1>2, <2>1 DEF SetupInv, SetupTypeOK
<1>4. ASSUME NEW q \in Requests PROVE RequestInv(q)'
  BY <1>1, <1>2 DEF SetupInv, RequestInv, FoundSoFar, Found
<1>5. (cached # NoReport => Found(cached, cached.at))'
  BY <1>2 DEF Found
<1> QED
  BY <1>3, <1>4, <1>5 DEF SetupInv

LEMMA RequestType ==
  ASSUME SetupInv, NEW r \in Requests
  PROVE  /\ request[r] \in RequestStates
         /\ minute \in Nat /\ lastChange \in Nat /\ TTL \in Nat
BY SetupAssumption DEF SetupInv, SetupTypeOK

LEMMA AskStep ==
  ASSUME SetupInv, NEW r \in Requests, Ask(r)
  PROVE  SetupInv'
<1>0. minute \in Nat
  BY RequestType
<1>1. PICK kind \in {"Report", "Refresh"} :
        request' = [request EXCEPT ![r] =
          [pc |-> "waiting", kind |-> kind, made |-> minute, began |-> minute,
           left |-> 0, report |-> NoReport]]
  BY DEF Ask
<1> DEFINE s == [pc |-> "waiting", kind |-> kind, made |-> minute, began |-> minute,
                 left |-> 0, report |-> NoReport]
<1>2. s \in RequestStates /\ OneRequest(r, s) /\ cached' = cached
  BY <1>0, <1>1 DEF RequestStates, OneRequest, Ask
<1> QED
  BY <1>0, <1>2, RequestStep DEF SetupInv, SetupTypeOK

LEMMA ReportCachedStep ==
  ASSUME SetupInv, NEW r \in Requests, ReportCached(r)
  PROVE  /\ SetupInv'
         /\ \/ request'[r].report.ok = reachable
            \/ lastChange > minute - TTL
<1> DEFINE s == [request[r] EXCEPT !.pc = "done", !.report = cached]
<1>0. request[r] \in RequestStates /\ minute \in Nat /\ lastChange \in Nat /\ TTL \in Nat
  BY RequestType
<1>1. /\ cached # NoReport /\ minute - cached.at < TTL
      /\ request[r].kind # "Refresh" /\ request[r].pc = "waiting"
  BY DEF ReportCached, MustCheck, Fresh
<1>2. Found(cached, cached.at) /\ cached \in Reports
  BY <1>1 DEF SetupInv, Found
<1>3. /\ s \in RequestStates /\ s.pc = "done" /\ s.kind = request[r].kind
      /\ s.made = request[r].made /\ s.began = request[r].began /\ s.report = cached
  BY <1>0, <1>2 DEF RequestStates
<1>4. OneRequest(r, s) /\ cached' = cached
  BY DEF OneRequest, ReportCached, Returns
<1>5. RequestInv(r)
  BY DEF SetupInv
<1>6. SetupInv'
  BY <1>1, <1>2, <1>3, <1>4, <1>5, RequestStep DEF RequestInv
<1>7. request'[r].report = cached
  BY <1>3, <1>4 DEF OneRequest, SetupInv, SetupTypeOK
<1>8. cached.ok = reachable \/ lastChange > minute - TTL
  <2>1. cached.at \in Nat
    BY <1>2 DEF Reports
  <2> QED
    BY <1>0, <1>1, <1>2, <2>1 DEF Found
<1> QED
  BY <1>6, <1>7, <1>8

LEMMA ChecksStep ==
  ASSUME SetupInv, NEW r \in Requests, BeginChecks(r) \/ CheckSetup(r)
  PROVE  SetupInv'
<1>0. /\ request[r] \in RequestStates /\ minute \in Nat /\ reachable \in BOOLEAN
      /\ RequestInv(r)
  BY RequestType DEF SetupInv, SetupTypeOK
<1>1. cached' = cached
  BY DEF BeginChecks, CheckSetup
<1>2. CASE BeginChecks(r)
  <2> DEFINE s == [request[r] EXCEPT !.pc = "checking", !.began = minute, !.left = Checks,
                                     !.report = [at |-> minute, ok |-> TRUE]]
  <2>0. Checks \in Nat \ {0} /\ Checks \in 1..Checks /\ [at |-> minute, ok |-> TRUE] \in Reports
    BY <1>0, SetupAssumption DEF Reports
  <2>1. /\ s \in RequestStates /\ s.pc = "checking" /\ s.made = request[r].made
        /\ s.began = minute /\ s.left = Checks /\ s.report = [at |-> minute, ok |-> TRUE]
    BY <1>0, <2>0 DEF RequestStates
  <2>2. OneRequest(r, s)
    BY <1>2 DEF OneRequest, BeginChecks
  <2>3. minute <= minute /\ FoundSoFar(s)
    BY <1>0, <2>0, <2>1 DEF FoundSoFar
  <2>4. s.made =< minute /\ s.began =< minute /\ s.began >= s.made
    BY <1>0, <2>1, <2>3 DEF RequestInv
  <2> QED
    BY <1>1, <2>1, <2>2, <2>3, <2>4, RequestStep DEF SetupInv, SetupTypeOK
<1>3. CASE CheckSetup(r)
  <2> DEFINE report == request[r].report
             left == request[r].left
             found == [at |-> request[r].began, ok |-> report.ok /\ reachable]
             s == [request[r] EXCEPT !.pc = IF left = 1 THEN "checked" ELSE "checking",
                                     !.left = left - 1, !.report = found]
  <2>0. /\ request[r].pc = "checking" /\ FoundSoFar(request[r]) /\ request[r].began =< minute
        /\ request[r].began >= request[r].made /\ request[r].made =< minute
    BY <1>0, <1>3 DEF CheckSetup, RequestInv
  <2>1. left \in 1..Checks /\ left - 1 \in Nat /\ Checks \in Nat
    BY <2>0, SetupAssumption DEF FoundSoFar
  <2>2. report.ok \in BOOLEAN /\ (report.ok = TRUE \/ report.ok = reachable \/ lastChange >= request[r].began)
    <3>1. CASE left = Checks
      <4>1. report = [at |-> request[r].began, ok |-> TRUE]
        BY <2>0, <3>1 DEF FoundSoFar
      <4> QED
        BY <4>1
    <3>2. CASE left # Checks
      BY <2>0, <3>2 DEF FoundSoFar, Found, Reports
    <3> QED
      BY <3>1, <3>2
  <2>3. (report.ok /\ reachable) \in BOOLEAN
    BY <1>0, <2>2
  <2>4. (report.ok /\ reachable) = reachable \/ lastChange >= request[r].began
    BY <1>0, <2>2
  <2>5. found \in Reports /\ found.at = request[r].began /\ found.ok = (report.ok /\ reachable)
    BY <1>0, <2>3 DEF Reports, RequestStates
  <2>6. Found(found, request[r].began)
    BY <2>0, <2>4, <2>5 DEF Found
  <2>7. /\ s \in RequestStates /\ s.made = request[r].made /\ s.began = request[r].began
        /\ s.report = found /\ s.left = left - 1
        /\ s.pc = IF left = 1 THEN "checked" ELSE "checking"
    BY <1>0, <2>1, <2>5 DEF RequestStates
  <2>8. OneRequest(r, s)
    <3>1. request' = [request EXCEPT ![r] = s]
      BY <1>3 DEF CheckSetup
    <3> QED
      BY <1>3, <3>1 DEF OneRequest, CheckSetup
  <2>9. s.pc = "checking" => FoundSoFar(s)
    BY <2>1, <2>6, <2>7 DEF FoundSoFar
  <2>10. s.pc = "checked" => Found(s.report, s.began)
    BY <2>6, <2>7
  <2>11. s.made =< minute /\ s.began =< minute /\ s.began >= s.made /\ s.pc # "done"
    BY <2>0, <2>7
  <2> QED
    BY <1>1, <2>7, <2>8, <2>9, <2>10, <2>11, RequestStep DEF SetupInv, SetupTypeOK
<1> QED
  BY <1>2, <1>3

LEMMA KeepReportStep ==
  ASSUME SetupInv, NEW r \in Requests, KeepReport(r)
  PROVE  /\ SetupInv'
         /\ request[r].pc = "checked"
         /\ \/ request'[r].report.ok = reachable
            \/ lastChange >= request[r].began
<1> DEFINE found == request[r].report
           s == [request[r] EXCEPT !.pc = "done", !.report = found]
<1>0. request[r] \in RequestStates /\ RequestInv(r) /\ request[r].pc = "checked"
  BY RequestType DEF SetupInv, KeepReport
<1>1. Found(found, request[r].began) /\ found \in Reports /\ found.at = request[r].began
  BY <1>0 DEF RequestInv, Found
<1>2. /\ s \in RequestStates /\ s.pc = "done" /\ s.made = request[r].made
      /\ s.began = request[r].began /\ s.report = found
  BY <1>0, <1>1 DEF RequestStates
<1>3. OneRequest(r, s) /\ cached' = found
  BY DEF OneRequest, KeepReport, Returns
<1>4. SetupInv'
  BY <1>0, <1>1, <1>2, <1>3, RequestStep DEF RequestInv
<1>5. request'[r].report = found
  BY <1>2, <1>3 DEF OneRequest, SetupInv, SetupTypeOK
<1> QED
  BY <1>0, <1>1, <1>4, <1>5 DEF Found

LEMMA AnsweredStep ==
  ASSUME SetupInv, NEW r \in Requests, Answered(r)
  PROVE  SetupInv'
<1>1. Idle \in RequestStates /\ OneRequest(r, Idle) /\ cached' = cached
  BY DEF Idle, RequestStates, OneRequest, Answered
<1>2. minute \in Nat
  BY RequestType
<1> QED
  BY <1>1, <1>2, RequestStep DEF Idle, SetupInv, SetupTypeOK

\* Time passes, and the server comes or goes.
LEMMA WorldStep ==
  ASSUME SetupInv, Minute \/ ServerChanges
  PROVE  SetupInv'
<1>0. minute \in Nat /\ lastChange \in Nat /\ reachable \in BOOLEAN
  BY DEF SetupInv, SetupTypeOK
<1>1. UNCHANGED <<cached, request>>
  BY DEF Minute, ServerChanges
<1>2. SetupTypeOK'
  <2>1. reachable' \in BOOLEAN
    BY <1>0 DEF Minute, ServerChanges
  <2>2. minute' \in Nat /\ lastChange' \in Nat
    BY <1>0 DEF Minute, ServerChanges
  <2> QED
    BY <1>1, <2>1, <2>2 DEF SetupInv, SetupTypeOK
<1>3. ASSUME NEW report, NEW t \in Nat, Found(report, t) PROVE Found(report, t)'
  BY <1>0, <1>3 DEF Minute, ServerChanges, Found
<1>4. cached # NoReport => Found(cached, cached.at)'
  <2> SUFFICES ASSUME cached # NoReport PROVE Found(cached, cached.at)'
    OBVIOUS
  <2>1. Found(cached, cached.at) /\ cached.at \in Nat
    BY DEF SetupInv, Found, Reports
  <2> QED
    BY <1>1, <1>3, <2>1 DEF Found
<1>5. ASSUME NEW r \in Requests PROVE RequestInv(r)'
  <2>1. request[r] \in RequestStates /\ RequestInv(r)
    BY DEF SetupInv, SetupTypeOK
  <2>2. request[r].began \in Nat /\ request[r].made \in Nat /\ minute' >= minute /\ minute' \in Nat
    BY <1>0, <2>1 DEF RequestStates, Minute, ServerChanges
  <2>3. request[r].pc = "checked" => Found(request[r].report, request[r].began)'
    BY <1>1, <1>3, <2>1, <2>2 DEF RequestInv, Found
  <2>4. request[r].pc = "checking" => FoundSoFar(request[r])'
    <3> SUFFICES ASSUME request[r].pc = "checking" PROVE FoundSoFar(request[r])'
      OBVIOUS
    <3>1. FoundSoFar(request[r])
      BY <2>1 DEF RequestInv
    <3>2. request[r].left # Checks => Found(request[r].report, request[r].began)'
      BY <1>1, <1>3, <2>2, <3>1 DEF FoundSoFar
    <3> QED
      BY <1>1, <3>1, <3>2 DEF FoundSoFar
  <2> QED
    BY <1>0, <1>1, <2>1, <2>2, <2>3, <2>4 DEF RequestInv
<1> QED
  BY <1>1, <1>2, <1>4, <1>5 DEF SetupInv

SetupSpec == SetupInit /\ [][SetupNext]_setupVars

LEMMA SetupInvInit == SetupInit => SetupInv
<1> SUFFICES ASSUME SetupInit PROVE SetupInv
  OBVIOUS
<1>1. Idle \in RequestStates
  BY DEF Idle, RequestStates
<1>2. SetupTypeOK
  BY <1>1 DEF SetupInit, SetupTypeOK
<1>3. ASSUME NEW r \in Requests PROVE RequestInv(r)
  BY DEF SetupInit, Idle, RequestInv
<1> QED
  BY <1>2, <1>3 DEF SetupInv, SetupInit

LEMMA SetupInvStep == SetupInv /\ [SetupNext]_setupVars => SetupInv'
<1> SUFFICES ASSUME SetupInv, [SetupNext]_setupVars PROVE SetupInv'
  OBVIOUS
<1>1. CASE UNCHANGED setupVars
  <2>1. UNCHANGED <<minute, reachable, lastChange, cached, request>>
    BY <1>1 DEF setupVars
  <2> QED
    BY <2>1 DEF SetupInv, SetupTypeOK, RequestInv, FoundSoFar, Found
<1> QED
  BY <1>1, WorldStep, AskStep, ReportCachedStep, ChecksStep, KeepReportStep, AnsweredStep
  DEF SetupNext

\* Whichever step hands a report out, it tells the server's state or the server came
\* or went too lately to know.
LEMMA HandedOutRecent ==
  ASSUME SetupInv, [SetupNext]_setupVars, NEW r \in Requests,
         request[r].pc # "done", request'[r].pc = "done"
  PROVE  \/ request'[r].report.ok = reachable
         \/ lastChange > minute - TTL
         \/ request[r].pc = "checked" /\ lastChange >= request[r].began
<1>0. request \in [Requests -> RequestStates]
  BY DEF SetupInv, SetupTypeOK
<1>1. CASE ReportCached(r)
  BY <1>1, ReportCachedStep
<1>2. CASE KeepReport(r)
  BY <1>2, KeepReportStep
<1>3. CASE Ask(r)
  BY <1>0, <1>3 DEF Ask
<1>4. CASE BeginChecks(r) \/ CheckSetup(r) \/ Answered(r)
  <2>1. CASE BeginChecks(r)
    BY <1>0, <2>1 DEF BeginChecks, RequestStates
  <2>2. CASE CheckSetup(r)
    <3>1. request'[r].pc \in {"checking", "checked"}
      BY <1>0, <2>2 DEF CheckSetup, RequestStates
    <3> QED
      BY <3>1
  <2>3. CASE Answered(r)
    BY <1>0, <2>3 DEF Answered, Idle
  <2> QED
    BY <1>4, <2>1, <2>2, <2>3
<1>5. ASSUME NEW q \in Requests, q # r,
             Ask(q) \/ ReportCached(q) \/ BeginChecks(q) \/ CheckSetup(q)
               \/ KeepReport(q) \/ Answered(q)
      PROVE  FALSE
  <2>1. request'[r] = request[r]
    BY <1>0, <1>5
    DEF Ask, ReportCached, BeginChecks, CheckSetup, KeepReport, Answered, Returns
  <2> QED
    BY <2>1
<1>6. CASE Minute \/ ServerChanges \/ UNCHANGED setupVars
  BY <1>6 DEF Minute, ServerChanges, setupVars
<1> QED
  BY <1>1, <1>2, <1>3, <1>4, <1>5, <1>6 DEF SetupNext

\* Every report handed out is recent, and a refresh is answered with checks that ran
\* after it was asked for, for any number of requests, outages and any TTL
\* (setup.Checker: Report, Refresh).
THEOREM ReportsAlwaysRecent == SetupSpec => ReportsAreRecent
<1>1. SetupInv => RefreshChecksAgain
  BY DEF SetupInv, RequestInv, RefreshChecksAgain
<1>2. SetupInv /\ [SetupNext]_setupVars
        => [\A r \in Requests :
              (request[r].pc # "done" /\ request'[r].pc = "done") =>
                 \/ request'[r].report.ok = reachable
                 \/ lastChange > minute - TTL
                 \/ request[r].pc = "checked" /\ lastChange >= request[r].began]_setupVars
  BY HandedOutRecent
<1> QED
  BY <1>1, <1>2, SetupInvInit, SetupInvStep, PTL
  DEF SetupSpec, ReportsAreRecent, ReportIsRecent

-----------------------------------------------------------------------------
(* The notifier's health messages and digests.                             *)

DigestSpec == DigestInit /\ [][DigestNext]_digestVars

Mails == [sent : SUBSET Nat, again : SUBSET Nat, lost : SUBSET Nat,
          covered : SUBSET Int, attended : SUBSET Nat]

DigestTypeOK ==
  /\ clock \in Nat
  /\ alerted \in Nat \cup {NoTime}
  /\ lastSlot \in Nat \cup {NoTime}
  /\ installed \in Nat \cup {NoTime}
  /\ slot \in Nat \cup {NoTime}
  /\ tick \in {"idle", "checked", "sending", "recording"}
  /\ tick \in {"sending", "recording"} => slot \in Nat
  /\ announced \in [failing : BOOLEAN, at : Nat]
  /\ mailed \in Mails

\* What the notifier remembers of a failure it announced, unless a restart made it
\* forget.
AlertRemembered ==
  /\ alerted # NoTime => announced.failing /\ announced.at = alerted
  /\ alerted = NoTime /\ announced.failing => "forgotten" \in broken

\* Slots are multiples of a day.
IsSlot(s) == \E k \in Nat : s = Day * k

\* The stored slot is one that has passed, and within a day of it, or later, the
\* notifier was installed.
StoredSlot ==
  /\ lastSlot = NoTime <=> installed = NoTime
  /\ lastSlot # NoTime => /\ IsSlot(lastSlot) /\ lastSlot <= clock
                          /\ installed < lastSlot + Day

\* A digest at work is the one of the last slot, which is not stored yet.
SlotAtWork ==
  /\ tick \in {"sending", "recording"} =>
       /\ slot = LastDigestSlot /\ lastSlot # NoTime /\ slot > lastSlot
  /\ tick = "recording" => (slot - Day..slot) \subseteq mailed.covered

\* What has been sent is stored, or its record was lost, or is being stored.
SentIsStored ==
  \A s \in mailed.sent :
    \/ lastSlot # NoTime /\ s <= lastSlot
    \/ s \in mailed.lost
    \/ tick = "recording" /\ s = slot

\* The period before the stored slot is covered, unless it is that of the first start.
StoredIsCovered ==
  lastSlot # NoTime /\ lastSlot > installed =>
    (lastSlot - Day..lastSlot) \subseteq mailed.covered

DigestInv == /\ DigestTypeOK
             /\ \A s \in mailed.attended : s <= clock
             /\ StoredSlot /\ SlotAtWork /\ SentIsStored /\ StoredIsCovered
             /\ DigestOncePerSlot /\ AttendedIsCovered

AlertInv == DigestTypeOK /\ AlertRemembered /\ HealthIsTold

-----------------------------------------------------------------------------
\* The last slot: a multiple of a day, less than a day ago.
LEMMA LastSlotBounds ==
  ASSUME clock \in Nat
  PROVE  /\ LastDigestSlot \in Nat /\ IsSlot(LastDigestSlot)
         /\ LastDigestSlot <= clock /\ clock < LastDigestSlot + Day
<1> DEFINE q == clock \div Day
<1>1. Day \in Nat \ {0}
  BY DigestAssumption
<1>2. q \in Nat /\ q * Day <= clock /\ clock < q * Day + Day
  BY <1>1
<1>3. q * Day = Day * q /\ q * Day \in Nat
  BY <1>1, <1>2
<1> QED
  BY <1>2, <1>3 DEF LastDigestSlot, IsSlot

\* Between two slots lies a day.
LEMMA SlotGap ==
  ASSUME NEW s \in Nat, NEW t \in Nat, IsSlot(s), IsSlot(t), s < t
  PROVE  s + Day <= t
<1>1. Day \in Nat \ {0}
  BY DigestAssumption
<1>2. PICK i \in Nat : s = Day * i
  BY DEF IsSlot
<1>3. PICK j \in Nat : t = Day * j
  BY DEF IsSlot
<1>4. i < j
  <2>1. CASE i = j
    BY <1>2, <1>3, <2>1
  <2>2. CASE j < i
    <3>1. PICK d \in Nat : i = j + d
      <4>1. i - j \in Nat /\ i = j + (i - j)
        BY <2>2
      <4> QED
        BY <4>1
    <3>2. Day * i = Day * j + Day * d /\ Day * d \in Nat /\ Day * j \in Nat
      BY <1>1, <3>1
    <3> QED
      BY <1>1, <1>2, <1>3, <3>2
  <2> QED
    BY <2>1, <2>2
<1>5. PICK d \in Nat : j = i + 1 + d
  <2>1. j - i - 1 \in Nat /\ j = i + 1 + (j - i - 1)
    BY <1>4
  <2> QED
    BY <2>1
<1>6. Day * j = Day * i + Day + Day * d /\ Day * d \in Nat /\ Day * i \in Nat
  BY <1>1, <1>5
<1> QED
  BY <1>1, <1>2, <1>3, <1>6

-----------------------------------------------------------------------------
\* What a step does to the history of the digests.
LEMMA MailedStep ==
  ASSUME DigestTypeOK
  PROVE  /\ mailed' = Attended =>
              /\ mailed' \in Mails
              /\ UNCHANGED <<mailed.sent, mailed.again, mailed.lost, mailed.covered>>
              /\ mailed'.attended = mailed.attended \cup {LastDigestSlot}
         /\ slot \in Nat /\ mailed' = [mailed EXCEPT !.lost = @ \cup {slot}] =>
              /\ mailed' \in Mails
              /\ UNCHANGED <<mailed.sent, mailed.again, mailed.covered, mailed.attended>>
              /\ mailed'.lost = mailed.lost \cup {slot}
         /\ DeliverDigest =>
              /\ mailed' \in Mails
              /\ UNCHANGED <<mailed.lost, mailed.attended>>
              /\ mailed'.sent = mailed.sent \cup {slot}
              /\ mailed'.again = mailed.again \cup ({slot} \cap mailed.sent)
              /\ mailed'.covered = mailed.covered \cup (slot - Day..clock)
<1>0. /\ clock \in Nat /\ mailed \in Mails /\ LastDigestSlot \in Nat
      /\ tick \in {"sending", "recording"} => slot \in Nat
  BY LastSlotBounds DEF DigestTypeOK
<1>1. ASSUME mailed' = Attended
      PROVE  /\ mailed' \in Mails
             /\ UNCHANGED <<mailed.sent, mailed.again, mailed.lost, mailed.covered>>
             /\ mailed'.attended = mailed.attended \cup {LastDigestSlot}
  BY <1>0, <1>1 DEF Attended, Mails
<1>2. ASSUME slot \in Nat, mailed' = [mailed EXCEPT !.lost = @ \cup {slot}]
      PROVE  /\ mailed' \in Mails
             /\ UNCHANGED <<mailed.sent, mailed.again, mailed.covered, mailed.attended>>
             /\ mailed'.lost = mailed.lost \cup {slot}
  BY <1>0, <1>2 DEF Mails
<1>3. ASSUME DeliverDigest
      PROVE  /\ mailed' \in Mails
             /\ UNCHANGED <<mailed.lost, mailed.attended>>
             /\ mailed'.sent = mailed.sent \cup {slot}
             /\ mailed'.again = mailed.again \cup ({slot} \cap mailed.sent)
             /\ mailed'.covered = mailed.covered \cup (slot - Day..clock)
  <2>1. slot \in Nat /\ slot - Day..clock \subseteq Int
    BY <1>0, <1>3, DigestAssumption DEF DeliverDigest
  <2> QED
    BY <1>0, <1>3, <2>1 DEF DeliverDigest, PreviousSlot, Mails
<1> QED
  BY <1>1, <1>2, <1>3

LEMMA DigestType ==
  ASSUME DigestTypeOK, [DigestNext]_digestVars
  PROVE  DigestTypeOK'
<1>t. /\ LastDigestSlot \in Nat /\ clock \in Nat
      /\ tick \in {"sending", "recording"} => slot \in Nat
      /\ announced \in [failing : BOOLEAN, at : Nat]
  BY LastSlotBounds DEF DigestTypeOK
<1>1. CASE Pass \/ Collected
  BY <1>t, <1>1 DEF Pass, Collected, DigestTypeOK
<1>2. CASE CollectionFailing \/ CollectionRecovered
  <2>1. announced' \in [failing : BOOLEAN, at : Nat]
    <3>1. Says(TRUE) \/ Says(FALSE)
      BY <1>2 DEF CollectionFailing, CollectionRecovered
    <3>2. ASSUME NEW b \in BOOLEAN, Says(b)
          PROVE  announced' \in [failing : BOOLEAN, at : Nat]
      BY <1>t, <3>2 DEF Says
    <3> QED
      BY <3>1, <3>2
  <2> QED
    BY <1>t, <1>2, <2>1 DEF CollectionFailing, CollectionRecovered, DigestTypeOK
<1>3. CASE NothingToSay \/ HealthUndelivered
  BY <1>t, <1>3 DEF NothingToSay, HealthUndelivered, DigestTypeOK
<1>4. CASE StoreFirstSlot \/ FirstSlotFails
  BY <1>t, <1>4 DEF StoreFirstSlot, FirstSlotFails, FirstStart, DigestTypeOK
<1>5. CASE BuildDigest \/ DigestUndelivered
  BY <1>t, <1>5 DEF BuildDigest, DigestUndelivered, DigestTypeOK
<1>6. CASE NoDigestDue \/ SetNotifierTime
  <2>1. mailed' = Attended
    BY <1>6 DEF NoDigestDue, SetNotifierTime
  <2>2. mailed' \in Mails
    BY <2>1, MailedStep
  <2> QED
    BY <1>t, <1>6, <2>2 DEF NoDigestDue, SetNotifierTime, DigestTypeOK
<1>7. CASE DeliverDigest
  <2>1. mailed' \in Mails
    BY <1>7, MailedStep
  <2> QED
    BY <1>t, <1>7, <2>1 DEF DeliverDigest, DigestTypeOK
<1>8. CASE SlotUnrecorded
  <2>1. mailed' \in Mails
    BY <1>t, <1>8, MailedStep DEF SlotUnrecorded
  <2> QED
    BY <1>t, <1>8, <2>1 DEF SlotUnrecorded, DigestTypeOK
<1>9. CASE Restart
  <2>1. mailed' \in Mails
    BY <1>t, <1>9, MailedStep DEF Restart, DigestTypeOK
  <2> QED
    BY <1>t, <1>9, <2>1 DEF Restart, DigestTypeOK
<1>10. CASE UNCHANGED digestVars
  BY <1>10 DEF digestVars, DigestTypeOK
<1> QED
  BY <1>1, <1>2, <1>3, <1>4, <1>5, <1>6, <1>7, <1>8, <1>9, <1>10 DEF DigestNext

LEMMA DigestTypeInit == DigestInit => DigestTypeOK
  BY DEF DigestInit, DigestTypeOK, Mails

-----------------------------------------------------------------------------
\* Health messages.
LEMMA AlertStep ==
  ASSUME AlertInv, [DigestNext]_digestVars
  PROVE  AlertInv'
<1>0. /\ DigestTypeOK /\ DigestTypeOK' /\ AlertRemembered /\ HealthIsTold
      /\ NoTime \notin Nat /\ clock \in Nat
      /\ announced \in [failing : BOOLEAN, at : Nat]
  BY DigestType, DigestAssumption DEF AlertInv, DigestTypeOK
<1>1. ASSUME UNCHANGED <<alerted, announced, broken>>, tick' # "checked"
      PROVE  AlertInv'
  BY <1>0, <1>1 DEF AlertInv, AlertRemembered, HealthIsTold
<1>2. CASE \/ Pass \/ Collected \/ StoreFirstSlot \/ FirstSlotFails \/ NoDigestDue
           \/ BuildDigest \/ DeliverDigest \/ DigestUndelivered \/ SetNotifierTime
           \/ SlotUnrecorded
  BY <1>1, <1>2
  DEF Pass, Collected, StoreFirstSlot, FirstStart, FirstSlotFails, NoDigestDue,
      BuildDigest, DeliverDigest, DigestUndelivered, SetNotifierTime, SlotUnrecorded
<1>3. CASE Restart
  BY <1>0, <1>3 DEF Restart, AlertInv, AlertRemembered, HealthIsTold
<1>4. ASSUME UNCHANGED <<clock, lastSuccess, started>>
      PROVE  Failing' <=> Failing
  BY <1>4 DEF Failing, Down
<1>5. CASE CollectionFailing
  <2>1. /\ announced'.failing = TRUE /\ announced'.at = clock
        /\ alerted' = clock /\ broken' = {} /\ Failing
    BY <1>0, <1>5 DEF CollectionFailing, Says
  <2>2. Failing'
    BY <1>4, <1>5, <2>1 DEF CollectionFailing
  <2> QED
    BY <1>0, <2>1, <2>2 DEF AlertInv, AlertRemembered, HealthIsTold
<1>6. CASE CollectionRecovered
  <2>1. /\ announced'.failing = FALSE
        /\ alerted' = NoTime /\ broken' = {} /\ ~Failing
    BY <1>0, <1>6 DEF CollectionRecovered, Says
  <2>2. ~Failing'
    BY <1>4, <1>6, <2>1 DEF CollectionRecovered
  <2> QED
    BY <1>0, <2>1, <2>2 DEF AlertInv, AlertRemembered, HealthIsTold
<1>7. CASE NothingToSay
  <2>1. /\ UNCHANGED <<alerted, announced>>
        /\ broken' = broken \ {"delivery"}
        /\ IF Failing THEN alerted # NoTime ELSE alerted = NoTime
    BY <1>7 DEF NothingToSay, AlertDue
  <2>2. Failing' <=> Failing
    BY <1>4, <1>7 DEF NothingToSay
  <2> QED
    BY <1>0, <2>1, <2>2 DEF AlertInv, AlertRemembered, HealthIsTold
<1>8. CASE HealthUndelivered
  BY <1>0, <1>8 DEF HealthUndelivered, AlertInv, AlertRemembered, HealthIsTold
<1>9. CASE UNCHANGED digestVars
  <2>1. UNCHANGED <<alerted, announced, broken, tick>> /\ (Failing' <=> Failing)
    BY <1>4, <1>9 DEF digestVars
  <2> QED
    BY <1>0, <2>1 DEF AlertInv, AlertRemembered, HealthIsTold
<1> QED
  BY <1>2, <1>3, <1>5, <1>6, <1>7, <1>8, <1>9 DEF DigestNext

\* Only a failing check announces a failure again.
LEMMA RepeatIsDue ==
  ASSUME AlertInv, [DigestNext]_digestVars,
         announced.failing, announced'.failing, announced' # announced
  PROVE  \/ "forgotten" \in broken
         \/ RenotifyAfter > 0 /\ clock - announced.at >= RenotifyAfter
<1>1. CASE CollectionFailing
  BY <1>1 DEF CollectionFailing, AlertDue, AlertInv, AlertRemembered
<1>2. CASE CollectionRecovered
  BY <1>2 DEF CollectionRecovered, Says
<1>3. CASE UNCHANGED announced
  BY <1>3
<1> QED
  BY <1>1, <1>2, <1>3
  DEF DigestNext, digestVars, Pass, Collected, Restart, NothingToSay,
      HealthUndelivered, StoreFirstSlot, FirstSlotFails, NoDigestDue,
      BuildDigest, DeliverDigest, DigestUndelivered, SetNotifierTime, SlotUnrecorded

\* What the notifier said last about collection is the case after each check, and is
\* said again only when it is time, for any durations, failed deliveries and restarts
\* (checkCollection).
THEOREM HealthMessagesAlwaysTrue == DigestSpec => HealthMessagesAreTrue
<1>1. DigestInit => AlertInv
  BY DigestTypeInit DEF DigestInit, AlertInv, AlertRemembered, HealthIsTold
<1>2. AlertInv => HealthIsTold
  BY DEF AlertInv
<1>3. AlertInv /\ [DigestNext]_digestVars
        => [(announced.failing /\ announced'.failing /\ announced' # announced)
              => \/ "forgotten" \in broken
                 \/ RenotifyAfter > 0 /\ clock - announced.at >= RenotifyAfter]_digestVars
  BY RepeatIsDue
<1> QED
  BY <1>1, <1>2, <1>3, AlertStep, PTL
  DEF DigestSpec, HealthMessagesAreTrue, FailureIsNotRepeated

-----------------------------------------------------------------------------
\* Digests.
LEMMA DigestFacts ==
  ASSUME DigestInv
  PROVE  /\ DigestTypeOK /\ clock \in Nat /\ NoTime \notin Nat
         /\ lastSlot \in Nat \cup {NoTime} /\ installed \in Nat \cup {NoTime}
         /\ mailed.sent \subseteq Nat /\ mailed.again \subseteq Nat
         /\ mailed.lost \subseteq Nat /\ mailed.covered \subseteq Int
         /\ mailed.attended \subseteq Nat
         /\ tick \in {"sending", "recording"} => slot \in Nat
         /\ Day \in Nat \ {0}
BY DigestAssumption DEF DigestInv, DigestTypeOK, Mails

\* Steps that leave the store and what was sent alone.
LEMMA QuietStep ==
  ASSUME DigestInv, DigestTypeOK', SlotAtWork',
         UNCHANGED <<lastSlot, installed, mailed>>, clock' >= clock,
         tick = "recording" => tick' = "recording" /\ slot' = slot
  PROVE  DigestInv'
<1>0. clock \in Nat /\ clock' \in Nat /\ lastSlot \in Nat \cup {NoTime}
      /\ mailed.attended \subseteq Nat
  BY DigestFacts DEF DigestTypeOK
<1>1. (\A s \in mailed.attended : s <= clock)'
  BY <1>0 DEF DigestInv
<1>2. StoredSlot'
  BY <1>0 DEF DigestInv, StoredSlot, IsSlot
<1>3. SentIsStored'
  BY DEF DigestInv, SentIsStored
<1>4. StoredIsCovered' /\ DigestOncePerSlot' /\ AttendedIsCovered'
  BY DEF DigestInv, StoredIsCovered, DigestOncePerSlot, AttendedIsCovered
<1> QED
  BY <1>1, <1>2, <1>3, <1>4 DEF DigestInv

LEMMA QuietSteps ==
  ASSUME DigestInv, DigestTypeOK',
         \/ Pass \/ Collected \/ CollectionFailing \/ CollectionRecovered
         \/ NothingToSay \/ HealthUndelivered \/ FirstSlotFails \/ BuildDigest
         \/ DigestUndelivered \/ UNCHANGED digestVars
  PROVE  DigestInv'
<1>0. clock \in Nat /\ SlotAtWork /\ lastSlot \in Nat \cup {NoTime}
      /\ LastDigestSlot \in Nat
  BY DigestFacts, LastSlotBounds DEF DigestInv
<1>1. CASE Pass
  <2>1. SlotAtWork'
    BY <1>1 DEF Pass, SlotAtWork
  <2>2. UNCHANGED <<lastSlot, installed, mailed>> /\ clock' >= clock /\ tick # "recording"
    BY <1>0, <1>1 DEF Pass
  <2> QED
    BY <2>1, <2>2, QuietStep
<1>2. CASE \/ Collected \/ CollectionFailing \/ CollectionRecovered
           \/ NothingToSay \/ HealthUndelivered \/ FirstSlotFails
  <2>1. /\ UNCHANGED <<lastSlot, installed, mailed, clock>>
        /\ tick \in {"idle", "checked"} /\ tick' \in {"idle", "checked"}
    BY <1>2 DEF Collected, CollectionFailing, CollectionRecovered, NothingToSay,
                HealthUndelivered, FirstSlotFails
  <2>2. SlotAtWork'
    BY <2>1 DEF SlotAtWork
  <2>3. clock' >= clock /\ tick # "recording"
    BY <1>0, <2>1
  <2> QED
    BY <2>1, <2>2, <2>3, QuietStep
<1>3. CASE BuildDigest
  <2>1. /\ UNCHANGED <<lastSlot, installed, mailed, clock>>
        /\ tick = "checked" /\ tick' = "sending" /\ slot' = LastDigestSlot
        /\ lastSlot # NoTime /\ LastDigestSlot > lastSlot
    BY <1>3 DEF BuildDigest, SlotPassed
  <2>2. LastDigestSlot' = LastDigestSlot
    BY <2>1 DEF LastDigestSlot
  <2>3. SlotAtWork'
    BY <2>1, <2>2 DEF SlotAtWork
  <2>4. clock' >= clock
    BY <1>0, <2>1
  <2> QED
    BY <2>1, <2>3, <2>4, QuietStep
<1>4. CASE DigestUndelivered
  <2>1. /\ UNCHANGED <<lastSlot, installed, mailed, clock>>
        /\ tick = "sending" /\ tick' = "idle"
    BY <1>4 DEF DigestUndelivered
  <2>2. SlotAtWork' /\ clock' >= clock
    BY <1>0, <2>1 DEF SlotAtWork
  <2> QED
    BY <2>1, <2>2, QuietStep
<1>5. CASE UNCHANGED digestVars
  <2>1. UNCHANGED <<lastSlot, installed, mailed, clock, tick, slot>>
    BY <1>5 DEF digestVars
  <2>2. SlotAtWork' /\ clock' >= clock
    BY <1>0, <2>1 DEF SlotAtWork, LastDigestSlot
  <2> QED
    BY <2>1, <2>2, QuietStep
<1> QED
  BY <1>1, <1>2, <1>3, <1>4, <1>5

\* The first start stores a slot and covers nothing.
LEMMA StoreFirstSlotStep ==
  ASSUME DigestInv, DigestTypeOK', StoreFirstSlot
  PROVE  DigestInv'
<1>0. /\ DigestTypeOK /\ clock \in Nat /\ NoTime \notin Nat
      /\ Day \in Nat \ {0} /\ mailed.attended \subseteq Nat
  BY DigestFacts
<1>1. /\ lastSlot = NoTime /\ lastSlot' = LastDigestSlot /\ installed' = clock
      /\ tick' = "idle" /\ UNCHANGED <<mailed, clock>>
  BY DEF StoreFirstSlot, FirstStart
<1>2. /\ LastDigestSlot \in Nat /\ IsSlot(LastDigestSlot)
      /\ LastDigestSlot <= clock /\ clock < LastDigestSlot + Day
  BY <1>0, LastSlotBounds
<1>3. installed = NoTime /\ mailed.sent = {} /\ mailed.again \subseteq mailed.lost
  BY <1>1 DEF DigestInv, StoredSlot, DigestOncePerSlot
<1>4. StoredSlot' /\ SlotAtWork'
  BY <1>0, <1>1, <1>2 DEF StoredSlot, SlotAtWork, IsSlot
<1>5. SentIsStored' /\ DigestOncePerSlot'
  BY <1>1, <1>3 DEF SentIsStored, DigestOncePerSlot
<1>6. StoredIsCovered'
  BY <1>0, <1>1, <1>2 DEF StoredIsCovered
<1>7. (\A s \in mailed.attended : s <= clock)'
  BY <1>1 DEF DigestInv
<1>8. AttendedIsCovered'
  BY <1>0, <1>1, <1>7 DEF AttendedIsCovered
<1> QED
  BY <1>4, <1>5, <1>6, <1>7, <1>8 DEF DigestInv

\* Nothing is due once the last slot is stored.
LEMMA NoDigestDueStep ==
  ASSUME DigestInv, DigestTypeOK', NoDigestDue
  PROVE  DigestInv'
<1>0. /\ DigestTypeOK /\ clock \in Nat /\ NoTime \notin Nat
      /\ lastSlot \in Nat \cup {NoTime} /\ installed \in Nat \cup {NoTime}
      /\ Day \in Nat \ {0} /\ mailed.attended \subseteq Nat
  BY DigestFacts
<1>1. /\ lastSlot # NoTime /\ ~(LastDigestSlot > lastSlot) /\ mailed' = Attended
      /\ tick = "checked" /\ tick' = "idle" /\ UNCHANGED <<lastSlot, installed, clock>>
  BY DEF NoDigestDue, SlotPassed
<1>2. /\ UNCHANGED <<mailed.sent, mailed.again, mailed.lost, mailed.covered>>
      /\ mailed'.attended = mailed.attended \cup {LastDigestSlot}
  BY <1>0, <1>1, MailedStep
<1>3. /\ LastDigestSlot \in Nat /\ IsSlot(LastDigestSlot)
      /\ LastDigestSlot <= clock /\ clock < LastDigestSlot + Day
  BY <1>0, LastSlotBounds
<1>4. LastDigestSlot = lastSlot
  <2>1. lastSlot \in Nat /\ IsSlot(lastSlot) /\ lastSlot <= clock
    BY <1>0, <1>1 DEF DigestInv, StoredSlot
  <2>2. ASSUME LastDigestSlot < lastSlot PROVE FALSE
    <3>1. LastDigestSlot + Day <= lastSlot
      BY <1>3, <2>1, <2>2, SlotGap
    <3> QED
      BY <1>0, <1>3, <2>1, <3>1
  <2> QED
    BY <1>1, <1>3, <2>1, <2>2
<1>5. StoredSlot' /\ SlotAtWork' /\ SentIsStored'
  BY <1>1, <1>2 DEF DigestInv, StoredSlot, SlotAtWork, SentIsStored, IsSlot
<1>6. StoredIsCovered' /\ DigestOncePerSlot'
  BY <1>1, <1>2 DEF DigestInv, StoredIsCovered, DigestOncePerSlot
<1>7. AttendedIsCovered'
  BY <1>1, <1>2, <1>4 DEF DigestInv, AttendedIsCovered, StoredIsCovered
<1>8. (\A s \in mailed.attended : s <= clock)'
  BY <1>1, <1>2, <1>3 DEF DigestInv
<1> QED
  BY <1>5, <1>6, <1>7, <1>8 DEF DigestInv

\* A digest goes out twice only if its record was lost, and for no slot before the
\* notifier was installed.
LEMMA DeliverDigestStep ==
  ASSUME DigestInv, DigestTypeOK', DeliverDigest
  PROVE  DigestInv'
<1>0. /\ DigestTypeOK /\ clock \in Nat /\ NoTime \notin Nat
      /\ lastSlot \in Nat \cup {NoTime} /\ installed \in Nat \cup {NoTime}
      /\ Day \in Nat \ {0}
  BY DigestFacts
<1>1. /\ tick = "sending" /\ tick' = "recording"
      /\ UNCHANGED <<lastSlot, installed, clock, slot>>
  BY DEF DeliverDigest
<1>2. /\ UNCHANGED <<mailed.lost, mailed.attended>>
      /\ mailed'.sent = mailed.sent \cup {slot}
      /\ mailed'.again = mailed.again \cup ({slot} \cap mailed.sent)
      /\ mailed'.covered = mailed.covered \cup (slot - Day..clock)
  BY <1>0, MailedStep
<1>3. slot = LastDigestSlot /\ lastSlot # NoTime /\ slot > lastSlot
  BY <1>1 DEF DigestInv, SlotAtWork
<1>4. /\ slot \in Nat /\ IsSlot(slot) /\ slot <= clock
  BY <1>0, <1>3, LastSlotBounds
<1>5. /\ lastSlot \in Nat /\ IsSlot(lastSlot)
      /\ installed \in Nat /\ installed < lastSlot + Day
  BY <1>0, <1>3 DEF DigestInv, StoredSlot
<1>6. slot > installed
  <2>1. lastSlot + Day <= slot
    BY <1>3, <1>4, <1>5, SlotGap
  <2> QED
    BY <1>0, <1>4, <1>5, <2>1
<1>7. StoredSlot'
  BY <1>1 DEF DigestInv, StoredSlot, IsSlot
<1>8. SlotAtWork'
  <2>1. LastDigestSlot' = LastDigestSlot
    BY <1>1 DEF LastDigestSlot
  <2>2. (slot - Day..slot) \subseteq slot - Day..clock
    BY <1>0, <1>4
  <2> QED
    BY <1>1, <1>2, <1>3, <2>1, <2>2 DEF SlotAtWork
<1>9. SentIsStored'
  BY <1>1, <1>2 DEF DigestInv, SentIsStored
<1>10. DigestOncePerSlot'
  <2>1. slot \in mailed.sent => slot \in mailed.lost
    BY <1>1, <1>3, <1>4, <1>5 DEF DigestInv, SentIsStored
  <2>2. installed # NoTime
    BY <1>0, <1>5
  <2> QED
    BY <1>1, <1>2, <1>6, <2>1, <2>2 DEF DigestInv, DigestOncePerSlot
<1>11. StoredIsCovered' /\ AttendedIsCovered'
  BY <1>1, <1>2 DEF DigestInv, StoredIsCovered, AttendedIsCovered
<1>12. (\A s \in mailed.attended : s <= clock)'
  BY <1>1, <1>2 DEF DigestInv
<1> QED
  BY <1>7, <1>8, <1>9, <1>10, <1>11, <1>12 DEF DigestInv

LEMMA SetNotifierTimeStep ==
  ASSUME DigestInv, DigestTypeOK', SetNotifierTime
  PROVE  DigestInv'
<1>0. /\ DigestTypeOK /\ clock \in Nat /\ NoTime \notin Nat
      /\ lastSlot \in Nat \cup {NoTime} /\ installed \in Nat \cup {NoTime}
      /\ Day \in Nat \ {0} /\ mailed.sent \subseteq Nat
  BY DigestFacts
<1>1. /\ tick = "recording" /\ tick' = "idle" /\ lastSlot' = slot
      /\ UNCHANGED <<installed, clock>> /\ mailed' = Attended
  BY DEF SetNotifierTime
<1>2. /\ UNCHANGED <<mailed.sent, mailed.again, mailed.lost, mailed.covered>>
      /\ mailed'.attended = mailed.attended \cup {LastDigestSlot}
  BY <1>0, <1>1, MailedStep
<1>3. /\ slot = LastDigestSlot /\ lastSlot # NoTime /\ slot > lastSlot
      /\ (slot - Day..slot) \subseteq mailed.covered
  BY <1>1 DEF DigestInv, SlotAtWork
<1>4. slot \in Nat /\ IsSlot(slot) /\ slot <= clock
  BY <1>0, <1>3, LastSlotBounds
<1>5. /\ lastSlot \in Nat /\ installed \in Nat /\ installed < lastSlot + Day
  BY <1>0, <1>3 DEF DigestInv, StoredSlot
<1>6. StoredSlot' /\ SlotAtWork'
  BY <1>0, <1>1, <1>3, <1>4, <1>5 DEF StoredSlot, SlotAtWork, IsSlot
<1>7. SentIsStored'
  BY <1>0, <1>1, <1>2, <1>3, <1>4, <1>5 DEF DigestInv, SentIsStored
<1>8. StoredIsCovered' /\ DigestOncePerSlot'
  BY <1>1, <1>2, <1>3 DEF DigestInv, StoredIsCovered, DigestOncePerSlot
<1>9. AttendedIsCovered'
  BY <1>1, <1>2, <1>3 DEF DigestInv, AttendedIsCovered
<1>10. (\A s \in mailed.attended : s <= clock)'
  BY <1>1, <1>2, <1>3, <1>4 DEF DigestInv
<1> QED
  BY <1>6, <1>7, <1>8, <1>9, <1>10 DEF DigestInv

\* The record is lost, to an error or to a crash.
LEMMA RecordLostStep ==
  ASSUME DigestInv, DigestTypeOK', tick = "recording", tick' = "idle",
         UNCHANGED <<lastSlot, installed, clock>>,
         mailed' = [mailed EXCEPT !.lost = @ \cup {slot}]
  PROVE  DigestInv'
<1>1. /\ UNCHANGED <<mailed.sent, mailed.again, mailed.covered, mailed.attended>>
      /\ mailed'.lost = mailed.lost \cup {slot}
  BY DigestFacts, MailedStep
<1>2. StoredSlot' /\ SlotAtWork' /\ SentIsStored'
  BY <1>1 DEF DigestInv, StoredSlot, SlotAtWork, SentIsStored, IsSlot
<1>3. StoredIsCovered' /\ DigestOncePerSlot' /\ AttendedIsCovered'
  BY <1>1 DEF DigestInv, StoredIsCovered, DigestOncePerSlot, AttendedIsCovered
<1>4. (\A s \in mailed.attended : s <= clock)'
  BY <1>1 DEF DigestInv
<1> QED
  BY <1>2, <1>3, <1>4 DEF DigestInv

LEMMA RestartStep ==
  ASSUME DigestInv, DigestTypeOK', Restart
  PROVE  DigestInv'
<1>1. tick' = "idle" /\ UNCHANGED <<lastSlot, installed, clock>>
  BY DEF Restart
<1>2. CASE tick = "recording"
  <2>1. mailed' = [mailed EXCEPT !.lost = @ \cup {slot}]
    BY <1>2 DEF Restart
  <2> QED
    BY <1>1, <1>2, <2>1, RecordLostStep
<1>3. CASE tick # "recording"
  <2>1. mailed' = mailed /\ SlotAtWork'
    BY <1>1, <1>3 DEF Restart, SlotAtWork
  <2>2. clock' >= clock
    BY <1>1, DigestFacts
  <2> QED
    BY <1>1, <1>3, <2>1, <2>2, QuietStep
<1> QED
  BY <1>2, <1>3

LEMMA DigestStep ==
  ASSUME DigestInv, [DigestNext]_digestVars
  PROVE  DigestInv'
<1>0. DigestTypeOK'
  BY DigestType DEF DigestInv
<1>1. CASE SlotUnrecorded
  BY <1>0, <1>1, RecordLostStep DEF SlotUnrecorded
<1> QED
  BY <1>0, <1>1, QuietSteps, StoreFirstSlotStep, NoDigestDueStep, DeliverDigestStep,
     SetNotifierTimeStep, RestartStep DEF DigestNext

LEMMA DigestInvInit == DigestInit => DigestInv
<1> SUFFICES ASSUME DigestInit PROVE DigestInv
  OBVIOUS
<1>1. DigestTypeOK
  BY DigestTypeInit
<1> QED
  BY <1>1
  DEF DigestInit, DigestInv, StoredSlot, SlotAtWork, SentIsStored, StoredIsCovered,
      DigestOncePerSlot, AttendedIsCovered

\* Digests leave no gap behind a notifier at work, and go out once unless their record
\* was lost, for any period, any delays, faults and restarts (maybeSendDigest).
THEOREM DigestsAlwaysCover == DigestSpec => []DigestsCover
<1>1. DigestInv => DigestsCover
  BY DEF DigestInv, DigestsCover
<1> QED
  BY <1>1, DigestInvInit, DigestStep, PTL DEF DigestSpec

-----------------------------------------------------------------------------
(* Query plans.                                                            *)

PlansSpec == PlansInit /\ [][PlansNext]_planVars

FindingRecords ==
  [query : Queries, at : Nat, planned : Nat, error : BOOLEAN,
   scan : {"whole", "none", "unjudged", "unreadable", "unsuitable", "covered",
           "proposed", "unused"}]

Relations == [large : BOOLEAN, indexed : BOOLEAN]

RunRecords ==
  [at : Nat, todo : SUBSET Queries, reworded : SUBSET Queries,
   previous : SUBSET FindingRecords, hypo : BOOLEAN, info : SUBSET Relations,
   judging : SUBSET FindingRecords, findings : SUBSET FindingRecords, absent : BOOLEAN]

PlanReports == [at : Nat, findings : SUBSET FindingRecords, absent : BOOLEAN]

\* An index is called for, and has been since calm.
Needed == relation.large /\ ~relation.indexed

\* A finding that was planned since calm proposes the index that is needed.
Sound(f) ==
  /\ f.at = f.planned /\ f.planned <= planHour
  /\ f.planned > calm /\ Needed /\ f.query \in Filtered => f.scan = "proposed"

\* A finding a report of time t may hold: absent if an index was missing meanwhile.
Holds(f, t, absent) ==
  /\ f \in FindingRecords /\ Sound(f)
  /\ t - f.planned < ReplanAfter
  /\ f.error => f.planned = t
  /\ f.scan = "proposed" => absent

\* A scan the run has planned itself and is not done with.
AtWork(f, r) ==
  /\ f \in FindingRecords
  /\ f.at = r.at /\ f.planned = r.at /\ ~f.error
  /\ f.scan \in {"unjudged", "proposed"}
  /\ f.scan = "proposed" => r.absent

\* What the run has read is the table there is, if it began after calm.
TableRight(r) ==
  /\ \A t, u \in r.info : t = u
  /\ r.at > calm => r.info \subseteq {relation}
  /\ \A t \in r.info : ~t.indexed => r.absent
  /\ ~relation.indexed => r.absent

RunInv(r) ==
  /\ r \in RunRecords /\ r.at <= planHour
  /\ \A f \in r.previous : Sound(f) /\ f.planned <= r.at
  /\ \A f \in r.findings : Holds(f, r.at, r.absent)
  /\ \A f \in r.judging : AtWork(f, r)
  /\ TableRight(r)

PlansTypeOK ==
  /\ planHour \in Nat /\ calm \in Nat /\ relation \in Relations
  /\ planReport \in PlanReports \cup {NoPlans}

PlansInv ==
  /\ PlansTypeOK
  /\ \A r \in run : RunInv(r)
  /\ planReport # NoPlans =>
       \A f \in planReport.findings : Holds(f, planReport.at, planReport.absent)

-----------------------------------------------------------------------------
\* Time goes on, and a change of the table or a fault ends the calm.
GoesBy ==
  /\ planHour' \in Nat /\ planHour' >= planHour
  /\ \/ UNCHANGED <<relation, calm>>
     \/ calm' = planHour

LEMMA SoundStays ==
  ASSUME PlansTypeOK, GoesBy, NEW f \in FindingRecords, Sound(f)
  PROVE  Sound(f)'
<1>0. f.planned \in Nat /\ planHour \in Nat /\ calm \in Nat
  BY DEF PlansTypeOK, FindingRecords
<1>1. f.at = f.planned /\ f.planned <= planHour /\ f.planned <= planHour'
  BY <1>0 DEF Sound, GoesBy
<1>2. CASE UNCHANGED <<relation, calm>>
  BY <1>1, <1>2 DEF Sound, Needed
<1>3. CASE calm' = planHour
  BY <1>0, <1>1, <1>3 DEF Sound
<1> QED
  BY <1>2, <1>3 DEF GoesBy

LEMMA HoldsStays ==
  ASSUME PlansTypeOK, GoesBy, NEW f, NEW t, NEW absent, Holds(f, t, absent)
  PROVE  Holds(f, t, absent)'
BY SoundStays DEF Holds

\* The run as it is, while the table stays the same.
LEMMA PlanRunStays ==
  ASSUME PlansTypeOK, GoesBy, relation' = relation, NEW r, RunInv(r)
  PROVE  RunInv(r)'
<1>0. r.at \in Nat /\ planHour \in Nat /\ calm \in Nat /\ r.previous \subseteq FindingRecords
  BY DEF PlansTypeOK, RunInv, RunRecords
<1>1. r.at <= planHour'
  BY <1>0 DEF RunInv, GoesBy
<1>2. \A f \in r.previous : Sound(f)' /\ f.planned <= r.at
  BY <1>0, SoundStays DEF RunInv
<1>3. \A f \in r.findings : Holds(f, r.at, r.absent)'
  BY HoldsStays DEF RunInv
<1>4. \A f \in r.judging : AtWork(f, r)'
  BY DEF RunInv, AtWork
<1>5. TableRight(r)'
  <2>1. CASE calm' = calm
    BY <2>1 DEF RunInv, TableRight
  <2>2. CASE calm' = planHour
    BY <1>0, <2>2 DEF RunInv, TableRight
  <2> QED
    BY <2>1, <2>2 DEF GoesBy
<1> QED
  BY <1>1, <1>2, <1>3, <1>4, <1>5 DEF RunInv

\* A step of the run's.
LEMMA RunStep ==
  ASSUME PlansInv, GoesBy, relation' = relation, planReport' = planReport,
         calm' \in Nat, \A r \in run' : RunInv(r)'
  PROVE  PlansInv'
<1>1. PlansTypeOK'
  BY DEF PlansInv, PlansTypeOK, GoesBy
<1>2. PICK report : report = planReport
  OBVIOUS
<1>3. ASSUME report # NoPlans, NEW f \in report.findings
      PROVE  Holds(f, report.at, report.absent)'
  BY <1>2, <1>3, HoldsStays DEF PlansInv
<1>4. (planReport # NoPlans =>
        \A f \in planReport.findings : Holds(f, planReport.at, planReport.absent))'
  BY <1>2, <1>3
<1> QED
  BY <1>1, <1>4 DEF PlansInv

\* The run looks at the table.
LEMMA ReadTable ==
  ASSUME PlansTypeOK', relation' = relation, NEW r, RunInv(r)', NEW s, s = TableRead(r)
  PROVE  /\ RunInv(s)' /\ s.info # {} /\ s.at = r.at /\ s.absent = r.absent
         /\ s.hypo = r.hypo /\ s.judging = r.judging /\ s.previous = r.previous
<1>0. r \in RunRecords /\ relation \in Relations
  BY DEF RunInv, PlansTypeOK
<1> DEFINE i == IF r.info = {} THEN {relation} ELSE r.info
<1>1. s = [r EXCEPT !.info = i] /\ i \in SUBSET Relations /\ i # {}
  BY <1>0 DEF TableRead, RunRecords
<1>2. /\ s \in RunRecords /\ s.info = i
      /\ s.at = r.at /\ s.absent = r.absent /\ s.hypo = r.hypo /\ s.judging = r.judging
      /\ s.previous = r.previous /\ s.findings = r.findings
  BY <1>0, <1>1 DEF RunRecords
<1>3. TableRight(s)'
  BY <1>2 DEF RunInv, TableRight
<1>4. \A f \in s.judging : AtWork(f, s)'
  BY <1>2 DEF RunInv, AtWork
<1> QED
  BY <1>1, <1>2, <1>3, <1>4 DEF RunInv

\* What the table read says.
LEMMA JudgedSays ==
  ASSUME NEW r, RunInv(r)', relation' = relation, r.info # {}
  PROVE  /\ Judged(r.info) \in {"unsuitable", "covered", "proposed"}
         /\ Judged(r.info) = "proposed" => r.absent
         /\ (r.at > calm /\ Needed)' => Judged(r.info) = "proposed"
<1>0. \A t \in r.info : ~t.indexed => r.absent
  BY DEF RunInv, TableRight
<1>1. r.info \subseteq Relations
  BY DEF RunInv, RunRecords
<1>2. CASE \E t \in r.info : ~t.large
  <2>1. ~\E t \in r.info : t.large /\ t.indexed
    BY <1>2 DEF RunInv, TableRight
  <2>2. Judged(r.info) = "unsuitable"
    BY <1>2, <2>1 DEF Judged
  <2> QED
    BY <1>2, <2>2 DEF RunInv, TableRight, Needed
<1>3. CASE (\A t \in r.info : t.large) /\ \E t \in r.info : t.large /\ t.indexed
  <2>1. Judged(r.info) = "covered"
    BY <1>3 DEF Judged
  <2> QED
    BY <1>3, <2>1 DEF RunInv, TableRight, Needed
<1>4. CASE \A t \in r.info : t.large /\ ~t.indexed
  <2>1. Judged(r.info) = "proposed"
    BY <1>4 DEF Judged
  <2> QED
    BY <1>0, <1>4, <2>1
<1> QED
  BY <1>2, <1>3, <1>4

\* The run is done with a query.
LEMMA DoneWith ==
  ASSUME NEW r, RunInv(r)', NEW f, Holds(f, r.at, r.absent)', NEW s, s = Done(r, f)
  PROVE  RunInv(s)'
<1>0. r \in RunRecords /\ f \in FindingRecords
  BY DEF RunInv, Holds
<1>1. s = [r EXCEPT !.todo = r.todo \ {f.query}, !.judging = {},
                    !.findings = r.findings \cup {f}]
  BY <1>0 DEF Done, RunRecords
<1>2. /\ s \in RunRecords /\ s.judging = {} /\ s.findings = r.findings \cup {f}
      /\ s.at = r.at /\ s.absent = r.absent /\ s.previous = r.previous /\ s.info = r.info
  <2>1. /\ r.todo \ {f.query} \in SUBSET Queries
        /\ r.findings \cup {f} \in SUBSET FindingRecords
    BY <1>0 DEF RunRecords
  <2> QED
    BY <1>0, <1>1, <2>1 DEF RunRecords
<1>3. TableRight(s)'
  BY <1>2 DEF RunInv, TableRight
<1> QED
  BY <1>2, <1>3 DEF RunInv

-----------------------------------------------------------------------------
\* The actions.  A fault ends the calm, so that nothing needs to have been proposed.
LEMMA FaultGoesBy ==
  ASSUME PlansInv, UNCHANGED <<planHour, relation>>,
         NoPlanFault \/ \E f : PlanFault(f)
  PROVE  GoesBy /\ calm' \in Nat /\ PlansTypeOK /\ relation' = relation
         /\ ((\E f : PlanFault(f)) => calm' = planHour)
<1>1. PlansTypeOK /\ planHour \in Nat /\ calm \in Nat
  BY DEF PlansInv, PlansTypeOK
<1>2. CASE NoPlanFault
  BY <1>1, <1>2 DEF NoPlanFault, GoesBy, PlanFault
<1>3. CASE \E f : PlanFault(f)
  BY <1>1, <1>3 DEF GoesBy, PlanFault
<1> QED
  BY <1>2, <1>3

\* Only a singleton run follows.
LEMMA OneRunStep ==
  ASSUME PlansInv, GoesBy, relation' = relation, planReport' = planReport,
         calm' \in Nat, NEW s, run' = {s}, RunInv(s)'
  PROVE  PlansInv'
<1>1. \A r \in run' : RunInv(r)'
  OBVIOUS
<1> QED
  BY <1>1, RunStep

LEMMA NextHourStep ==
  ASSUME PlansInv, NextHour
  PROVE  PlansInv'
<1>1. PlansTypeOK /\ GoesBy /\ relation' = relation /\ planReport' = planReport
      /\ calm' \in Nat /\ run' = run
  BY DEF PlansInv, PlansTypeOK, NextHour, GoesBy
<1>2. \A r \in run' : RunInv(r)'
  BY <1>1, PlanRunStays DEF PlansInv
<1> QED
  BY <1>1, <1>2, RunStep

LEMMA TableChangesStep ==
  ASSUME PlansInv, TableChanges
  PROVE  PlansInv'
<1>0. PlansTypeOK /\ planHour \in Nat /\ calm \in Nat /\ relation \in Relations
  BY DEF PlansInv, PlansTypeOK
<1>1. /\ relation' \in Relations /\ calm' = planHour
      /\ UNCHANGED <<planHour, planReport>>
  <2>1. [relation EXCEPT !.large = ~@] \in Relations
    BY <1>0 DEF Relations
  <2>2. [relation EXCEPT !.indexed = ~@] \in Relations
    BY <1>0 DEF Relations
  <2> QED
    BY <2>1, <2>2 DEF TableChanges
<1>2. GoesBy
  BY <1>0, <1>1 DEF GoesBy
<1>3. PlansTypeOK'
  BY <1>0, <1>1 DEF PlansInv, PlansTypeOK
<1>4. ASSUME NEW s \in run' PROVE RunInv(s)'
  <2>1. PICK r \in run : s = [r EXCEPT !.absent = @ \/ ~relation'.indexed]
    BY DEF TableChanges
  <2>2. RunInv(r) /\ r \in RunRecords
    BY DEF PlansInv, RunInv
  <2>3. PICK absent : absent = (r.absent \/ ~relation'.indexed)
    OBVIOUS
  <2>4. absent \in BOOLEAN /\ s = [r EXCEPT !.absent = absent]
    BY <2>1, <2>2, <2>3 DEF RunRecords
  <2>5. /\ s \in RunRecords /\ s.absent = absent /\ s.at = r.at
        /\ s.previous = r.previous /\ s.findings = r.findings
        /\ s.judging = r.judging /\ s.info = r.info
    BY <2>2, <2>4 DEF RunRecords
  <2>6. r.absent => s.absent
    BY <2>3, <2>5
  <2>7. s.at <= planHour' /\ \A f \in s.previous : Sound(f)' /\ f.planned <= s.at
    BY <1>0, <1>1, <1>2, <2>2, <2>5, SoundStays DEF RunInv, RunRecords
  <2>8. \A f \in s.findings : Holds(f, s.at, s.absent)'
    <3> SUFFICES ASSUME NEW f \in s.findings PROVE Holds(f, s.at, s.absent)'
      OBVIOUS
    <3>1. Holds(f, r.at, r.absent)'
      BY <1>0, <1>2, <2>2, <2>5, HoldsStays DEF RunInv
    <3> QED
      BY <2>5, <2>6, <3>1 DEF Holds
  <2>9. \A f \in s.judging : AtWork(f, s)'
    BY <2>2, <2>5, <2>6 DEF RunInv, AtWork
  <2>10. TableRight(s)'
    BY <1>0, <1>1, <2>2, <2>3, <2>5, <2>6 DEF RunInv, RunRecords, TableRight
  <2> QED
    BY <2>5, <2>7, <2>8, <2>9, <2>10 DEF RunInv
<1>5. PICK report : report = planReport
  OBVIOUS
<1>6. ASSUME report # NoPlans, NEW f \in report.findings
      PROVE  Holds(f, report.at, report.absent)'
  BY <1>0, <1>2, <1>5, <1>6, HoldsStays DEF PlansInv
<1>7. (planReport # NoPlans =>
        \A f \in planReport.findings : Holds(f, planReport.at, planReport.absent))'
  BY <1>1, <1>5, <1>6
<1> QED
  BY <1>3, <1>4, <1>7 DEF PlansInv

\* What the report on record holds is sound.
LEMMA PreviousSound ==
  ASSUME PlansInv
  PROVE  /\ PreviousFindings \subseteq FindingRecords
         /\ \A f \in PreviousFindings : Sound(f) /\ f.planned <= planHour
BY DEF PlansInv, PreviousFindings, Holds, Sound

LEMMA BeginPlansStep ==
  ASSUME PlansInv, BeginPlans
  PROVE  PlansInv'
<1>1. PICK ranked \in SUBSET Queries, previous \in {{}, PreviousFindings},
           hypo \in BOOLEAN :
      \E reworded \in SUBSET {q \in ranked : \E f \in previous : f.query = q} :
       /\ Cardinality(ranked) =< MaxQueries
       /\ run' = {[at |-> planHour, todo |-> ranked, reworded |-> reworded,
                   previous |-> previous, hypo |-> hypo, info |-> {},
                   judging |-> {}, findings |-> {}, absent |-> ~relation.indexed]}
       /\ IF previous = PreviousFindings THEN NoPlanFault ELSE PlanFault("previous")
  BY DEF BeginPlans
<1>2. PICK reworded \in SUBSET {q \in ranked : \E f \in previous : f.query = q} :
       /\ run' = {[at |-> planHour, todo |-> ranked, reworded |-> reworded,
                   previous |-> previous, hypo |-> hypo, info |-> {},
                   judging |-> {}, findings |-> {}, absent |-> ~relation.indexed]}
       /\ NoPlanFault \/ PlanFault("previous")
  BY <1>1
<1>3. UNCHANGED <<planHour, relation, planReport>>
  BY DEF BeginPlans
<1>4. /\ GoesBy /\ calm' \in Nat /\ PlansTypeOK /\ planHour \in Nat
      /\ relation \in Relations
  BY <1>2, <1>3, FaultGoesBy DEF PlansTypeOK
<1>5. PICK s : s = [at |-> planHour, todo |-> ranked, reworded |-> reworded,
                   previous |-> previous, hypo |-> hypo, info |-> {},
                   judging |-> {}, findings |-> {}, absent |-> ~relation.indexed]
  OBVIOUS
<1>6. /\ previous \subseteq FindingRecords /\ reworded \subseteq Queries
      /\ \A f \in previous : Sound(f) /\ f.planned <= planHour
  BY PreviousSound
<1>7. s \in RunRecords
  <2>1. (~relation.indexed) \in BOOLEAN
    OBVIOUS
  <2> QED
    BY <1>4, <1>5, <1>6, <2>1 DEF RunRecords
<1>8. RunInv(s)
  <2>1. planHour <= planHour
    BY <1>4
  <2> QED
    BY <1>5, <1>6, <1>7, <2>1 DEF RunInv, TableRight
<1>9. RunInv(s)'
  BY <1>3, <1>4, <1>8, PlanRunStays
<1> QED
  BY <1>2, <1>3, <1>4, <1>5, <1>9, OneRunStep

LEMMA RunEndsStep ==
  ASSUME PlansInv, NEW r \in run, RunFails(r)
  PROVE  PlansInv'
<1>1. UNCHANGED <<planHour, relation, planReport>> /\ run' = {}
  BY DEF RunFails
<1>2. GoesBy /\ calm' \in Nat
  BY <1>1, FaultGoesBy DEF RunFails
<1> QED
  BY <1>1, <1>2, RunStep

LEMMA SaveQueryPlansStep ==
  ASSUME PlansInv, NEW r \in run, SaveQueryPlans(r)
  PROVE  PlansInv'
<1>1. /\ UNCHANGED <<planHour, relation, calm>> /\ run' = {}
      /\ planReport' = [at |-> r.at, findings |-> r.findings, absent |-> r.absent]
  BY DEF SaveQueryPlans, NoPlanFault
<1>2. RunInv(r) /\ r \in RunRecords
  BY DEF PlansInv, RunInv
<1>3. PlansTypeOK'
  BY <1>1, <1>2 DEF PlansInv, PlansTypeOK, PlanReports, RunRecords
<1>4. planReport'.at = r.at /\ planReport'.findings = r.findings
      /\ planReport'.absent = r.absent
  BY <1>1
<1>5. \A f \in r.findings : Holds(f, r.at, r.absent)'
  BY <1>1, <1>2 DEF RunInv, Holds, Sound, Needed
<1>6. (planReport # NoPlans =>
        \A f \in planReport.findings : Holds(f, planReport.at, planReport.absent))'
  BY <1>4, <1>5
<1> QED
  BY <1>1, <1>3, <1>6 DEF PlansInv

-----------------------------------------------------------------------------
\* The steps of a run on a query.
LEMMA RunNow ==
  ASSUME PlansInv, NEW r \in run, UNCHANGED <<planHour, relation, planReport>>,
         NoPlanFault \/ \E f : PlanFault(f)
  PROVE  /\ GoesBy /\ calm' \in Nat /\ PlansTypeOK' /\ r \in RunRecords
         /\ RunInv(r) /\ RunInv(r)'
<1>1. GoesBy /\ calm' \in Nat /\ PlansTypeOK
  BY FaultGoesBy
<1>2. PlansTypeOK'
  BY <1>1 DEF PlansTypeOK
<1>3. RunInv(r) /\ r \in RunRecords
  BY DEF PlansInv, RunInv
<1>4. RunInv(r)'
  BY <1>1, <1>3, PlanRunStays
<1> QED
  BY <1>1, <1>2, <1>3, <1>4

\* A finding the run planned itself.
LEMMA NewHolds ==
  ASSUME PlansTypeOK', NEW r, RunInv(r)', NEW f \in FindingRecords,
         f.at = r.at, f.planned = r.at, f.scan = "proposed" => r.absent,
         (r.at > calm /\ Needed)' /\ f.query \in Filtered => f.scan = "proposed"
  PROVE  Holds(f, r.at, r.absent)'
<1>1. r.at \in Nat /\ r.at - f.planned < ReplanAfter /\ f.planned <= planHour'
  BY IndexPlansAssumption DEF RunInv, RunRecords
<1>2. Sound(f)'
  BY <1>1 DEF Sound
<1> QED
  BY <1>1, <1>2 DEF Holds

\* A finding of the last report that may be used again.
LEMMA OldHolds ==
  ASSUME PlansTypeOK', NEW r, RunInv(r)', NEW q, NEW f \in PreviousOf(r, q),
         NEW g \in FindingRecords,
         g.query = f.query, g.at = f.at, g.planned = f.planned, g.error = f.error,
         g.scan = "proposed" => r.absent,
         (r.at > calm /\ Needed)' /\ f.scan = "proposed" => g.scan = "proposed"
  PROVE  Holds(g, r.at, r.absent)'
<1>1. /\ f \in r.previous /\ r.at - f.at < ReplanAfter /\ ~f.error
      /\ f \in FindingRecords /\ r.at \in Nat
  BY DEF PreviousOf, Reusable, RunInv, RunRecords
<1>2. Sound(f)'
  BY <1>1 DEF RunInv
<1>3. f.planned \in Nat /\ f.at = f.planned /\ f.planned <= planHour'
  BY <1>1, <1>2 DEF Sound, FindingRecords
<1>4. Sound(g)'
  <2>1. f.planned <= r.at /\ r.at \in Nat /\ calm' \in Nat
    BY <1>1 DEF RunInv, PlansTypeOK
  <2>2. f.planned > calm' => r.at > calm'
    BY <1>3, <2>1
  <2> QED
    BY <1>2, <1>3, <2>2 DEF Sound
<1> QED
  BY <1>1, <1>3, <1>4 DEF Holds

LEMMA Rescan ==
  ASSUME NEW f \in FindingRecords,
         NEW scan \in {"unreadable", "unsuitable", "covered", "proposed", "unused"},
         NEW g, g = [f EXCEPT !.scan = scan]
  PROVE  /\ g \in FindingRecords /\ g.scan = scan /\ g.query = f.query /\ g.at = f.at
         /\ g.planned = f.planned /\ g.error = f.error
BY DEF FindingRecords

LEMMA SetJudging ==
  ASSUME NEW r, RunInv(r)', NEW f, AtWork(f, r), NEW s, s = [r EXCEPT !.judging = {f}]
  PROVE  RunInv(s)'
<1>1. r \in RunRecords /\ f \in FindingRecords
  BY DEF RunInv, AtWork
<1>2. /\ s \in RunRecords /\ s.judging = {f} /\ s.findings = r.findings
      /\ s.at = r.at /\ s.absent = r.absent /\ s.previous = r.previous /\ s.info = r.info
  BY <1>1 DEF RunRecords
<1>3. TableRight(s)'
  BY <1>2 DEF RunInv, TableRight
<1>4. AtWork(f, s)
  BY <1>2 DEF AtWork
<1> QED
  BY <1>2, <1>3, <1>4 DEF RunInv

LEMMA ReuseStep ==
  ASSUME PlansInv, NEW r \in run, NEW q \in Queries, Reuse(r, q)
  PROVE  PlansInv'
<1>0. UNCHANGED <<planHour, relation, planReport>> /\ NoPlanFault
  BY DEF Reuse
<1>1. GoesBy /\ calm' \in Nat /\ PlansTypeOK' /\ RunInv(r)' /\ r \in RunRecords
  BY <1>0, RunNow
<1>2. PICK f \in PreviousOf(r, q) :
       run' = {IF Rechecks(f)
               THEN Done(TableRead(r), Kept([f EXCEPT !.scan = Judged(TableRead(r).info)], r))
               ELSE Done(r, Kept(f, r))}
  BY DEF Reuse
<1>3. f \in FindingRecords
  BY <1>1 DEF PreviousOf, RunRecords
<1>4. CASE Rechecks(f)
  <2>1. PICK t : t = TableRead(r)
    OBVIOUS
  <2>2. RunInv(t)' /\ t.info # {} /\ t.at = r.at /\ t.absent = r.absent
    BY <1>0, <1>1, <2>1, ReadTable
  <2>3. PICK scan : scan = Judged(t.info)
    OBVIOUS
  <2>4. /\ scan \in {"unsuitable", "covered", "proposed"}
        /\ scan = "proposed" => t.absent
        /\ (t.at > calm /\ Needed)' => scan = "proposed"
    BY <1>0, <2>2, <2>3, JudgedSays
  <2>5. PICK g : g = [f EXCEPT !.scan = scan]
    OBVIOUS
  <2>6. /\ g \in FindingRecords /\ g.scan = scan /\ g.query = f.query /\ g.at = f.at
        /\ g.planned = f.planned /\ g.error = f.error
    BY <1>3, <2>4, <2>5, Rescan
  <2>7. Holds(g, r.at, r.absent)'
    BY <1>1, <1>2, <2>2, <2>4, <2>6, OldHolds
  <2>8. PICK s : s = Done(t, g)
    OBVIOUS
  <2>9. RunInv(s)'
    BY <2>2, <2>7, <2>8, DoneWith
  <2>10. run' = {s}
    BY <1>2, <1>4, <2>1, <2>3, <2>5, <2>8 DEF Kept
  <2> QED
    BY <1>0, <1>1, <2>9, <2>10, OneRunStep
<1>5. CASE ~Rechecks(f)
  <2>1. Holds(f, r.at, r.absent)'
    BY <1>1, <1>3, <1>5, OldHolds DEF Rechecks
  <2>2. PICK s : s = Done(r, f)
    OBVIOUS
  <2>3. RunInv(s)'
    BY <1>1, <2>1, <2>2, DoneWith
  <2>4. run' = {s}
    BY <1>2, <1>5, <2>2 DEF Kept
  <2> QED
    BY <1>0, <1>1, <2>3, <2>4, OneRunStep
<1> QED
  BY <1>4, <1>5

\* The steps that end a query with a fault: what they find is not sound for long.
LEMMA FaultEnds ==
  ASSUME PlansInv, NEW r \in run, UNCHANGED <<planHour, relation, planReport>>,
         \E fault : PlanFault(fault), NEW g \in FindingRecords, g.scan # "proposed",
         \/ g.at = r.at /\ g.planned = r.at
         \/ \E q \in Queries : \E f \in PreviousOf(r, q) :
              /\ g.query = f.query /\ g.at = f.at
              /\ g.planned = f.planned /\ g.error = f.error,
         run' = {Done(r, g)}
  PROVE  PlansInv'
<1>1. GoesBy /\ calm' \in Nat /\ PlansTypeOK' /\ RunInv(r)' /\ r \in RunRecords
  BY RunNow
<1>2. calm' = planHour /\ planHour \in Nat /\ planHour' = planHour
  BY FaultGoesBy DEF PlansTypeOK
<1>3. r.at \in Nat /\ ~(r.at > calm')
  BY <1>1, <1>2 DEF RunInv, RunRecords
<1>4. Holds(g, r.at, r.absent)'
  <2>1. CASE g.at = r.at /\ g.planned = r.at
    BY <1>1, <1>3, <2>1, NewHolds
  <2>2. CASE \E q \in Queries : \E f \in PreviousOf(r, q) :
              /\ g.query = f.query /\ g.at = f.at
              /\ g.planned = f.planned /\ g.error = f.error
    BY <1>1, <1>3, <2>2, OldHolds
  <2> QED
    BY <2>1, <2>2
<1>5. PICK s : s = Done(r, g)
  OBVIOUS
<1>6. RunInv(s)'
  BY <1>1, <1>4, <1>5, DoneWith
<1> QED
  BY <1>1, <1>5, <1>6, OneRunStep

LEMMA NewFindingType ==
  ASSUME NEW r \in RunRecords, NEW q \in Queries,
         NEW scan \in {"whole", "none", "unjudged"}, NEW f, f = NewFinding(r, q, scan)
  PROVE  /\ f \in FindingRecords /\ f.query = q /\ f.scan = scan
         /\ f.at = r.at /\ f.planned = r.at /\ ~f.error
BY DEF NewFinding, FindingRecords, RunRecords

LEMMA ExplainGenericStep ==
  ASSUME PlansInv, NEW r \in run, NEW q \in Queries, ExplainGeneric(r, q)
  PROVE  PlansInv'
<1>0. UNCHANGED <<planHour, relation, planReport>> /\ NoPlanFault
  BY DEF ExplainGeneric
<1>1. GoesBy /\ calm' \in Nat /\ PlansTypeOK' /\ RunInv(r)' /\ r \in RunRecords
  BY <1>0, RunNow
<1>2. PICK scan \in Scans(q) :
       run' = {IF scan = "unjudged" THEN [r EXCEPT !.judging = {NewFinding(r, q, scan)}]
               ELSE Done(r, NewFinding(r, q, scan))}
  BY DEF ExplainGeneric
<1>3. /\ scan \in {"whole", "none", "unjudged"}
      /\ scan = "whole" => q \notin Filtered
      /\ scan = "none" => relation.indexed
  BY DEF Scans
<1>4. PICK f : f = NewFinding(r, q, scan)
  OBVIOUS
<1>5. /\ f \in FindingRecords /\ f.query = q /\ f.scan = scan
      /\ f.at = r.at /\ f.planned = r.at /\ ~f.error
  BY <1>1, <1>3, <1>4, NewFindingType
<1>6. CASE scan = "unjudged"
  <2>1. PICK s : s = [r EXCEPT !.judging = {f}]
    OBVIOUS
  <2>2. AtWork(f, r)
    BY <1>5, <1>6 DEF AtWork
  <2>3. RunInv(s)'
    BY <1>1, <2>1, <2>2, SetJudging
  <2>4. run' = {s}
    BY <1>2, <1>4, <1>6, <2>1
  <2> QED
    BY <1>0, <1>1, <2>3, <2>4, OneRunStep
<1>7. CASE scan # "unjudged"
  <2>1. Needed' => q \notin Filtered
    BY <1>0, <1>3, <1>7 DEF Needed
  <2>2. Holds(f, r.at, r.absent)'
    BY <1>1, <1>3, <1>5, <2>1, NewHolds
  <2>3. PICK s : s = Done(r, f)
    OBVIOUS
  <2>4. RunInv(s)'
    BY <1>1, <2>2, <2>3, DoneWith
  <2>5. run' = {s}
    BY <1>2, <1>4, <1>7, <2>3
  <2> QED
    BY <1>0, <1>1, <2>4, <2>5, OneRunStep
<1> QED
  BY <1>6, <1>7

LEMMA QueryFaultStep ==
  ASSUME PlansInv, NEW r \in run, NEW q \in Queries, ExplainFails(r, q) \/ ReuseUnread(r, q)
  PROVE  PlansInv'
<1>0. UNCHANGED <<planHour, relation, planReport>> /\ \E fault : PlanFault(fault)
  BY DEF ExplainFails, ReuseUnread
<1>1. r \in RunRecords
  BY <1>0, RunNow
<1>2. CASE ExplainFails(r, q)
  <2>1. PICK f : f = NewFinding(r, q, "none")
    OBVIOUS
  <2>2. /\ f \in FindingRecords /\ f.scan = "none" /\ f.at = r.at /\ f.planned = r.at
    BY <1>1, <2>1, NewFindingType
  <2>3. PICK g : g = [f EXCEPT !.error = TRUE]
    OBVIOUS
  <2>4. g \in FindingRecords /\ g.scan = "none" /\ g.at = r.at /\ g.planned = r.at
    BY <2>2, <2>3 DEF FindingRecords
  <2>5. run' = {Done(r, g)}
    BY <1>2, <2>1, <2>3 DEF ExplainFails
  <2> QED
    BY <1>0, <2>4, <2>5, FaultEnds
<1>3. CASE ReuseUnread(r, q)
  <2>1. PICK f \in PreviousOf(r, q) :
          run' = {Done(r, Kept([f EXCEPT !.scan = "unreadable"], r))}
    BY <1>3 DEF ReuseUnread
  <2>2. f \in FindingRecords
    BY <1>1 DEF PreviousOf, RunRecords
  <2>3. PICK g : g = [f EXCEPT !.scan = "unreadable"]
    OBVIOUS
  <2>4. /\ g \in FindingRecords /\ g.scan = "unreadable" /\ g.query = f.query
        /\ g.at = f.at /\ g.planned = f.planned /\ g.error = f.error
    BY <2>2, <2>3, Rescan
  <2>5. run' = {Done(r, g)}
    BY <2>1, <2>3 DEF Kept
  <2> QED
    BY <1>0, <2>1, <2>4, <2>5, FaultEnds
<1> QED
  BY <1>2, <1>3

LEMMA JudgeStep ==
  ASSUME PlansInv, NEW r \in run, Judge(r)
  PROVE  PlansInv'
<1>0. UNCHANGED <<planHour, relation, planReport>> /\ NoPlanFault
  BY DEF Judge
<1>1. GoesBy /\ calm' \in Nat /\ PlansTypeOK' /\ RunInv(r)' /\ r \in RunRecords
  BY <1>0, RunNow
<1>2. PICK t : t = TableRead(r)
  OBVIOUS
<1>3. PICK scan : scan = Judged(t.info)
  OBVIOUS
<1>4. PICK f \in r.judging :
       run' = {IF [f EXCEPT !.scan = scan].scan = "proposed" /\ r.hypo
               THEN [t EXCEPT !.judging = {[f EXCEPT !.scan = scan]}]
               ELSE Done(t, [f EXCEPT !.scan = scan])}
  BY <1>2, <1>3 DEF Judge
<1>5. /\ RunInv(t)' /\ t.info # {} /\ t.at = r.at /\ t.absent = r.absent
  BY <1>0, <1>1, <1>2, ReadTable
<1>6. /\ scan \in {"unsuitable", "covered", "proposed"}
      /\ scan = "proposed" => t.absent
      /\ (t.at > calm /\ Needed)' => scan = "proposed"
  BY <1>0, <1>3, <1>5, JudgedSays
<1>7. AtWork(f, r)
  BY <1>1 DEF RunInv
<1>8. PICK g : g = [f EXCEPT !.scan = scan]
  OBVIOUS
<1>9. /\ g \in FindingRecords /\ g.scan = scan /\ g.at = r.at
      /\ g.planned = r.at /\ ~g.error
  BY <1>6, <1>7, <1>8, Rescan DEF AtWork
<1>10. CASE scan = "proposed" /\ r.hypo
  <2>1. PICK s : s = [t EXCEPT !.judging = {g}]
    OBVIOUS
  <2>2. AtWork(g, t)
    BY <1>5, <1>6, <1>9, <1>10 DEF AtWork
  <2>3. RunInv(s)'
    BY <1>5, <2>1, <2>2, SetJudging
  <2>4. run' = {s}
    BY <1>4, <1>8, <1>9, <1>10, <2>1
  <2> QED
    BY <1>0, <1>1, <2>3, <2>4, OneRunStep
<1>11. CASE ~(scan = "proposed" /\ r.hypo)
  <2>1. Holds(g, t.at, t.absent)'
    BY <1>1, <1>5, <1>6, <1>9, NewHolds
  <2>2. PICK s : s = Done(t, g)
    OBVIOUS
  <2>3. RunInv(s)'
    BY <1>5, <2>1, <2>2, DoneWith
  <2>4. run' = {s}
    BY <1>4, <1>8, <1>9, <1>11, <2>2
  <2> QED
    BY <1>0, <1>1, <2>3, <2>4, OneRunStep
<1> QED
  BY <1>10, <1>11

LEMMA JudgeFaultStep ==
  ASSUME PlansInv, NEW r \in run, JudgeUnread(r) \/ IndexUnused(r)
  PROVE  PlansInv'
<1>0. UNCHANGED <<planHour, relation, planReport>> /\ \E fault : PlanFault(fault)
  BY DEF JudgeUnread, IndexUnused
<1>1. PICK f \in r.judging, scan \in {"unreadable", "unused"} :
        run' = {Done(r, [f EXCEPT !.scan = scan])}
  BY DEF JudgeUnread, IndexUnused
<1>2. AtWork(f, r)
  BY <1>0, RunNow DEF RunInv
<1>3. PICK g : g = [f EXCEPT !.scan = scan]
  OBVIOUS
<1>4. /\ g \in FindingRecords /\ g.scan # "proposed" /\ g.at = r.at /\ g.planned = r.at
  BY <1>2, <1>3, Rescan DEF AtWork
<1>5. run' = {Done(r, g)}
  BY <1>1, <1>3
<1> QED
  BY <1>0, <1>4, <1>5, FaultEnds

LEMMA ValidateIndexStep ==
  ASSUME PlansInv, NEW r \in run, ValidateIndex(r)
  PROVE  PlansInv'
<1>0. UNCHANGED <<planHour, relation, planReport>>
      /\ (NoPlanFault \/ \E fault : PlanFault(fault))
  BY DEF ValidateIndex
<1>1. GoesBy /\ calm' \in Nat /\ PlansTypeOK' /\ RunInv(r)' /\ r \in RunRecords
  BY <1>0, RunNow
<1>2. PICK f \in r.judging : f.scan = "proposed" /\ run' = {Done(r, f)}
  BY DEF ValidateIndex
<1>3. AtWork(f, r)
  BY <1>1 DEF RunInv
<1>4. Holds(f, r.at, r.absent)'
  BY <1>1, <1>2, <1>3, NewHolds DEF AtWork
<1>5. PICK s : s = Done(r, f)
  OBVIOUS
<1>6. RunInv(s)'
  BY <1>1, <1>4, <1>5, DoneWith
<1> QED
  BY <1>0, <1>1, <1>2, <1>5, <1>6, OneRunStep

LEMMA PlansInvStep ==
  ASSUME PlansInv, [PlansNext]_planVars
  PROVE  PlansInv'
<1>1. CASE UNCHANGED planVars
  BY <1>1
  DEF planVars, PlansInv, PlansTypeOK, RunInv, Holds, Sound, Needed, AtWork, TableRight
<1> QED
  BY <1>1, NextHourStep, TableChangesStep, BeginPlansStep, RunEndsStep, SaveQueryPlansStep,
     ReuseStep, QueryFaultStep, ExplainGenericStep, JudgeStep, JudgeFaultStep,
     ValidateIndexStep DEF PlansNext

LEMMA PlansInvInit == PlansInit => PlansInv
  BY DEF PlansInit, PlansInv, PlansTypeOK, Relations

LEMMA PlansInvAlways == PlansSpec => []PlansInv
  BY PlansInvInit, PlansInvStep, PTL DEF PlansSpec

\* No report proposes an index that was there throughout its run, for any queries and
\* any changes of the table (Collector.Collect, recheck).
THEOREM BuiltNeverProposed == PlansSpec => []BuiltIsNotProposed
<1>1. PlansInv => BuiltIsNotProposed
  BY DEF PlansInv, BuiltIsNotProposed, Findings, Holds
<1> QED
  BY <1>1, PlansInvAlways, PTL

\* Reused plans are never older than allowed, and a large table that has had no index
\* for that long has one proposed for each query it serves, for any number of queries
\* and reports and whatever failed before (plan, recheck, judge).
THEOREM ReuseNeverLoses == PlansSpec => []ReuseLosesNothing
<1>1. PlansInv => FindingsAreRecent
  BY DEF PlansInv, FindingsAreRecent, Findings, Holds
<1>2. PlansInv => NeedIsProposed
  <2> SUFFICES ASSUME PlansInv, planReport # NoPlans, relation.large, ~relation.indexed,
                      planReport.at >= calm + ReplanAfter,
                      NEW f \in planReport.findings, f.query \in Filtered
               PROVE  f.scan = "proposed"
    BY DEF NeedIsProposed, Findings
  <2>1. Holds(f, planReport.at, planReport.absent)
    BY DEF PlansInv
  <2>2. planReport.at \in Nat /\ calm \in Nat /\ f.planned \in Nat
    BY <2>1 DEF PlansInv, PlansTypeOK, PlanReports, Holds, FindingRecords
  <2>3. f.planned > calm
    BY <2>1, <2>2, IndexPlansAssumption DEF Holds
  <2> QED
    BY <2>1, <2>3 DEF Holds, Sound, Needed
<1> QED
  BY <1>1, <1>2, PlansInvAlways, PTL DEF ReuseLosesNothing

-----------------------------------------------------------------------------
(* What collectors leave.                                                  *)

\* A run of n steps reads all it needs before it writes, and writes a table once.
ShapedBy(steps, n) ==
  /\ DOMAIN steps = 1..n /\ Len(steps) = n
  /\ \A i \in 1..n : steps[i].op \in {"fetch", "save", "current", "history"}
  /\ \A i, j \in 1..n :
       steps[i].op = steps[j].op /\ steps[i].table = steps[j].table => i = j
  /\ \A i, j \in 1..n : i < j /\ steps[j].op = "fetch" => steps[i].op = "fetch"

Shaped(steps) == \E n \in Nat : ShapedBy(steps, n)

LEMMA ShapeOfQueryStats == ShapedBy(CollectQueryStats, 3)
  BY DEF CollectQueryStats, ShapedBy, Rows, Row, GetStatStatements, SaveQueryStats,
      SaveCurrentQueryStats

LEMMA ShapeOfTableStats == ShapedBy(CollectTableStats, 3)
  BY DEF CollectTableStats, ShapedBy, Rows, Row, GetStatTables, SaveTableStats,
      SaveCurrentTableStats

LEMMA ShapeOfIndexStats == ShapedBy(CollectIndexStats, 3)
  BY DEF CollectIndexStats, ShapedBy, Rows, Row, GetStatIndexes, SaveIndexStats,
      SaveCurrentIndexStats

LEMMA ShapeOfBloat == ShapedBy(CollectBloat, 3)
  BY DEF CollectBloat, ShapedBy, Rows, Row, GetTableBloat, SaveBloatStats,
      SaveCurrentBloatStats

LEMMA ShapeOfActivity == ShapedBy(CollectActivity, 9)
  BY DEF CollectActivity, ShapedBy, Rows, Row, GetConnectionActivity,
      GetLongRunningQueries, GetIdleInTransaction, SaveConnectionActivity,
      SaveCurrentConnectionActivity, SaveLongRunningQueries,
      SaveCurrentLongRunningQueries, SaveIdleInTransaction,
      SaveCurrentIdleInTransaction

LEMMA ShapeOfLocks == ShapedBy(CollectLocks, 6)
  BY DEF CollectLocks, ShapedBy, Rows, Row, GetLockStats, GetBlockedQueries,
      SaveLockStats, SaveCurrentLockStats, SaveBlockedQueries,
      SaveCurrentBlockedQueries

LEMMA ShapeOfDatabaseStats == ShapedBy(CollectDatabaseStats, 5)
  BY DEF CollectDatabaseStats, ShapedBy, Rows, Row, GetDatabaseStats,
      GetExtendedDatabaseStats, UpdateSnapshotCacheHitRatio,
      SaveExtendedDatabaseStats, SaveCurrentDatabaseStats

LEMMA ShapeOfRisk == ShapedBy(CollectRisk, 3)
  BY DEF CollectRisk, ShapedBy, Rows, Row, GetOutageRisk, SaveOutageRisk, RecordSize

LEMMA ShapeOfSettings == ShapedBy(CollectSettings, 2)
  BY DEF CollectSettings, ShapedBy, Rows, Row, GetServerSettings, SaveServerSettings

LEMMA EveryRunShaped == \A c \in Collectors : Shaped(Collect[c])
<1> SUFFICES ASSUME NEW c \in Collectors PROVE Shaped(Collect[c])
  OBVIOUS
<1>1. c \in DOMAIN Collect
  BY CollectorsAssumption
<1>2. Collect[c] \in {CollectQueryStats, CollectTableStats, CollectIndexStats, CollectBloat,
                      CollectActivity, CollectLocks, CollectDatabaseStats, CollectRisk,
                      CollectSettings}
  BY <1>1 DEF Collect
<1> QED
  BY <1>2, ShapeOfQueryStats, ShapeOfTableStats, ShapeOfIndexStats, ShapeOfBloat,
     ShapeOfActivity, ShapeOfLocks, ShapeOfDatabaseStats, ShapeOfRisk, ShapeOfSettings
  DEF Shaped

-----------------------------------------------------------------------------
ViewsSpec == ViewsInit /\ [][ViewsNext]_viewVars

RowsIn(op) == [TablesOf(op) -> SUBSET (Nat \X Nat)]

Snapshots == [rows : RowsIn("save"), status : {"none", "success", "error"},
              covered : Nat, kept : BOOLEAN, torn : BOOLEAN]

CollectRecords == [run : Nat, snapshot : Nat, at : Nat,
                   before : RowsIn("save") \X RowsIn("current"),
                   failed : {"no", "fetch", "save"}]

ViewsTypeOK ==
  /\ collector \in Collectors
  /\ stored \in Seq(Snapshots)
  /\ current \in RowsIn("current")
  /\ collect \subseteq CollectRecords
  /\ batches \in Seq(Batches)

\* The steps of a run, and what the one that writes table Steps[i].table writes.
StepsOf(op) == {i \in 1..Len(Steps) : Steps[i].op = op}
RowsOf(i, runId) == KeysOf(Steps[i], batches[runId]) \X {runId}

OnlyFetched(c) == \A i \in 1..Len(Steps) : i < c.at => Steps[i].op = "fetch"

\* The run at work: it is the last one, in the last snapshot that has seen any; the
\* tables it has come past hold its rows, and nothing is written before all is read.
RunAtWork(c) ==
  /\ c.run = Len(batches) /\ c.run >= 1
  /\ c.snapshot \in 1..Len(stored) /\ c.at \in 1..Len(Steps) + 1
  /\ stored[c.snapshot].kept
  /\ \A s \in 1..Len(stored) : s > c.snapshot => stored[s].status = "none"
  /\ \A i \in StepsOf("save") :
       i < c.at => stored[c.snapshot].rows[Steps[i].table] = RowsOf(i, c.run)
  /\ \A i \in StepsOf("current") :
       i < c.at => Steps[i].table \in lost \/ current[Steps[i].table] = RowsOf(i, c.run)
  /\ OnlyFetched(c) => c.before = <<stored[c.snapshot].rows, current>>
  /\ c.failed = "fetch" => OnlyFetched(c)
  /\ c.failed = "save" => stored[c.snapshot].torn

\* Successes on record are those of runs, in the order of their snapshots.
Successes ==
  /\ \A s \in 1..Len(stored) :
       /\ stored[s].covered <= Len(batches)
       /\ stored[s].status = "success" => stored[s].covered >= 1
  /\ \A s, u \in 1..Len(stored) :
       s < u /\ stored[u].status = "success" => stored[s].covered <= stored[u].covered

Shown(s) == stored[s].kept /\ stored[s].status = "success"

\* A snapshot in which a run succeeded has no older rows than that run's.
FreshSince(s, first) ==
  \A i \in StepsOf("save") :
    \E runId \in first..Len(batches) : stored[s].rows[Steps[i].table] = RowsOf(i, runId)

FreshRows == \A s \in 1..Len(stored) : Shown(s) => FreshSince(s, stored[s].covered)

\* ... and those of one run only, unless a run is at work on it or a write failed.
OneRun(s) ==
  \E runId \in 1..Len(batches) : \A i \in StepsOf("save") :
    stored[s].rows[Steps[i].table] = RowsOf(i, runId)

WholeRows ==
  \A s \in 1..Len(stored) :
    Shown(s) /\ ~stored[s].torn /\ (\A c \in collect : c.snapshot = s => OnlyFetched(c))
      => OneRun(s)

\* A current table has the rows of one run, not older than any success.
CurrentRow(i) ==
  LET t == Steps[i].table IN
  \/ current[t] = {} /\ (t \in lost \/ \A s \in 1..Len(stored) : ~Shown(s))
  \/ \E runId \in 1..Len(batches) :
       /\ current[t] = RowsOf(i, runId)
       /\ t \in lost \/ \A s \in 1..Len(stored) : Shown(s) => runId >= stored[s].covered

CurrentRows == \A i \in StepsOf("current") : CurrentRow(i)

PageRows ==
  \A p \in page :
    /\ p.snapshot \in 1..Len(stored) /\ p.due \in 1..Len(batches)
    /\ stored[p.snapshot].kept => FreshSince(p.snapshot, p.due)

ViewsInv == /\ ViewsTypeOK
            /\ \A c, d \in collect : c = d
            /\ \A c \in collect : RunAtWork(c)
            /\ Successes /\ FreshRows /\ WholeRows /\ CurrentRows /\ PageRows

-----------------------------------------------------------------------------
\* The shape of the run of this behaviour's collector.
LEMMA StepsShape ==
  ASSUME collector \in Collectors
  PROVE  /\ Len(Steps) \in Nat /\ DOMAIN Steps = 1..Len(Steps)
         /\ \A i \in 1..Len(Steps) : Steps[i].op \in {"fetch", "save", "current", "history"}
         /\ \A i, j \in 1..Len(Steps) :
              Steps[i].op = Steps[j].op /\ Steps[i].table = Steps[j].table => i = j
         /\ \A i, j \in 1..Len(Steps) :
              i < j /\ Steps[j].op = "fetch" => Steps[i].op = "fetch"
BY EveryRunShaped DEF Steps, Shaped, ShapedBy

LEMMA TablesAre ==
  ASSUME collector \in Collectors, NEW op
  PROVE  TablesOf(op) = {Steps[i].table : i \in StepsOf(op)}
BY StepsShape DEF TablesOf, StepsOf

\* What a table should have from a run.
LEMMA ReadIs ==
  ASSUME collector \in Collectors, NEW op, NEW i \in StepsOf(op), NEW runId
  PROVE  Read(runId, op, Steps[i].table) = RowsOf(i, runId)
<1>1. i \in 1..Len(Steps) /\ Steps[i].op = op
  BY DEF StepsOf
<1>2. Range(Steps) = {Steps[j] : j \in 1..Len(Steps)}
  BY StepsShape DEF Range
<1>3. \A s \in Range(Steps) : s.op = op /\ s.table = Steps[i].table => s = Steps[i]
  BY <1>1, <1>2, StepsShape
<1>4. (CHOOSE s \in Range(Steps) : s.op = op /\ s.table = Steps[i].table) = Steps[i]
  BY <1>1, <1>2, <1>3
<1> QED
  BY <1>4 DEF Read, RowsOf

\* Rows are rows.
LEMMA RowsAreRows ==
  ASSUME batches \in Seq(Batches), NEW i, NEW runId \in 1..Len(batches)
  PROVE  RowsOf(i, runId) \in SUBSET (Nat \X Nat)
<1>1. batches[runId] \in Batches
  OBVIOUS
<1>2. batches[runId] \subseteq Nat /\ runId \in Nat
  BY <1>1, ViewsAssumption
<1>3. KeysOf(Steps[i], batches[runId]) \subseteq Nat
  BY <1>2 DEF KeysOf
<1> QED
  BY <1>2, <1>3 DEF RowsOf

\* The greatest of a set of positions.
LEMMA MaxOfPositions ==
  ASSUME NEW n \in Nat, NEW S \in SUBSET (1..n), S # {}
  PROVE  Max(S) \in S /\ \A y \in S : y <= Max(S)
<1> DEFINE T == {n - x : x \in S}
<1>1. T \subseteq Nat /\ T # {}
  <2>1. \A x \in S : n - x \in Nat
    OBVIOUS
  <2> QED
    BY <2>1
<1>2. PICK a \in T : \A b \in T : ~(<<b, a>> \in OpToRel(<, Nat))
  BY <1>1, NatLessThanWellFounded, WFMin
<1>3. ASSUME NEW b \in T PROVE a <= b
  <2>1. a \in Nat /\ b \in Nat
    BY <1>1
  <2>2. b < a => <<b, a>> \in OpToRel(<, Nat)
    BY <2>1, Zenon DEF OpToRel
  <2>3. ~(b < a)
    BY <1>2, <2>2, Zenon
  <2> QED
    BY <2>1, <2>3
<1>4. PICK x \in S : a = n - x
  OBVIOUS
<1>5. ASSUME NEW y \in S PROVE x >= y
  <2>1. a <= n - y
    BY <1>3
  <2> QED
    BY <1>4, <2>1
<1>6. Max(S) \in S /\ \A y \in S : Max(S) >= y
  BY <1>5 DEF Max
<1> QED
  BY <1>6

LEMMA SetAt ==
  ASSUME NEW S, NEW q \in Seq(S), NEW k \in 1..Len(q), NEW e \in S, NEW r,
         r = [q EXCEPT ![k] = e]
  PROVE  /\ r \in Seq(S) /\ Len(r) = Len(q) /\ r[k] = e
         /\ \A j \in 1..Len(q) : j # k => r[j] = q[j]
OBVIOUS

LEMMA SetLast ==
  ASSUME NEW S, NEW q \in Seq(S), NEW e \in S, NEW r, r = Append(q, e)
  PROVE  /\ r \in Seq(S) /\ Len(q) \in Nat /\ Len(r) = Len(q) + 1 /\ r[Len(q) + 1] = e
         /\ \A j \in 1..Len(q) : r[j] = q[j]
OBVIOUS

LEMMA SameCollector ==
  ASSUME collector' = collector
  PROVE  /\ Steps' = Steps
         /\ \A op : /\ StepsOf(op)' = StepsOf(op) /\ TablesOf(op)' = TablesOf(op)
                    /\ RowsIn(op)' = RowsIn(op)
         /\ Snapshots' = Snapshots /\ CollectRecords' = CollectRecords
         /\ \A c : OnlyFetched(c)' <=> OnlyFetched(c)
BY DEF Steps, StepsOf, TablesOf, RowsIn, Snapshots, CollectRecords, OnlyFetched

LEMMA ViewsFacts ==
  ASSUME ViewsInv
  PROVE  /\ collector \in Collectors
         /\ Len(stored) \in Nat /\ Len(batches) \in Nat
         /\ \A s \in 1..Len(stored) : stored[s] \in Snapshots
         /\ DOMAIN stored = 1..Len(stored) /\ DOMAIN batches = 1..Len(batches)
         /\ current \in RowsIn("current") /\ collect \subseteq CollectRecords
BY DEF ViewsInv, ViewsTypeOK

-----------------------------------------------------------------------------
\* What most steps do: runs are added, snapshots as well, a table of a snapshot stays
\* as it is or gets the last run's rows, and nothing more becomes a success.
Growing ==
  /\ collector' = collector
  /\ Len(batches') \in Nat /\ Len(batches) <= Len(batches')
  /\ \A runId \in 1..Len(batches) : batches'[runId] = batches[runId]

StaysAt(s) ==
  /\ stored'[s].covered = stored[s].covered
  /\ stored'[s].status = "success" => stored[s].status = "success"
  /\ stored'[s].kept => stored[s].kept

OldOrLast(s) ==
  \A i \in StepsOf("save") :
    \/ stored'[s].rows[Steps[i].table] = stored[s].rows[Steps[i].table]
    \/ Len(batches) >= 1 /\ stored'[s].rows[Steps[i].table] = RowsOf(i, Len(batches))

NewAt(s) == stored'[s].status = "none" /\ stored'[s].covered = 0

Tame ==
  /\ Growing
  /\ Len(stored') \in Nat /\ Len(stored) <= Len(stored')
  /\ \A s \in 1..Len(stored) : StaysAt(s) /\ (stored'[s].kept => OldOrLast(s))
  /\ \A s \in 1..Len(stored') : s > Len(stored) => NewAt(s)

LEMMA RowsStay ==
  ASSUME Growing, NEW i, NEW runId \in 1..Len(batches)
  PROVE  RowsOf(i, runId)' = RowsOf(i, runId)
BY SameCollector DEF Growing, RowsOf, KeysOf

LEMMA FreshStays ==
  ASSUME ViewsInv, Tame, NEW s \in 1..Len(stored), NEW first \in 1..Len(batches),
         stored'[s].kept, FreshSince(s, first)
  PROVE  FreshSince(s, first)'
<1> SUFFICES ASSUME NEW i \in StepsOf("save")
             PROVE  \E runId \in first..Len(batches') :
                      stored'[s].rows[Steps[i].table] = RowsOf(i, runId)'
  BY SameCollector DEF FreshSince, Tame, Growing
<1>0. Len(batches) \in Nat /\ Len(batches') \in Nat /\ Len(batches) <= Len(batches')
  BY ViewsFacts DEF Tame, Growing
<1>1. PICK runId \in first..Len(batches) : stored[s].rows[Steps[i].table] = RowsOf(i, runId)
  BY DEF FreshSince
<1>2. runId \in 1..Len(batches) /\ runId \in first..Len(batches')
  BY <1>0
<1>3. RowsOf(i, runId)' = RowsOf(i, runId)
  BY <1>2, RowsStay DEF Tame
<1>4. CASE stored'[s].rows[Steps[i].table] = stored[s].rows[Steps[i].table]
  BY <1>1, <1>2, <1>3, <1>4
<1>5. CASE stored'[s].rows[Steps[i].table] = RowsOf(i, Len(batches))
  <2>1. Len(batches) \in 1..Len(batches) /\ Len(batches) \in first..Len(batches')
    BY <1>0
  <2>2. PICK last \in first..Len(batches') : last = Len(batches)
    BY <2>1
  <2>3. RowsOf(i, last)' = RowsOf(i, last)
    BY <2>1, <2>2, RowsStay DEF Tame
  <2> QED
    BY <1>5, <2>2, <2>3
<1> QED
  BY <1>4, <1>5 DEF Tame, OldOrLast

LEMMA TameStep ==
  ASSUME ViewsInv, Tame, page' \subseteq page
  PROVE  Successes' /\ FreshRows' /\ PageRows'
<1>0. /\ Len(stored) \in Nat /\ Len(stored') \in Nat /\ Len(stored) <= Len(stored')
      /\ Len(batches) \in Nat /\ Len(batches') \in Nat /\ Len(batches) <= Len(batches')
      /\ \A s \in 1..Len(stored) : stored[s].covered \in Nat
  BY ViewsFacts DEF Tame, Growing, Snapshots
<1>1. /\ \A s \in 1..Len(stored') : s \in 1..Len(stored) \/ NewAt(s)
      /\ \A s \in 1..Len(stored) : StaysAt(s)
  BY <1>0 DEF Tame
<1>2. Successes'
  <2>1. ASSUME NEW s \in 1..Len(stored')
        PROVE  /\ stored'[s].covered <= Len(batches')
               /\ stored'[s].status = "success" => stored'[s].covered >= 1
    BY <1>0, <1>1 DEF ViewsInv, Successes, StaysAt, NewAt
  <2>2. ASSUME NEW s \in 1..Len(stored'), NEW u \in 1..Len(stored'),
               s < u, stored'[u].status = "success"
        PROVE  stored'[s].covered <= stored'[u].covered
    <3>1. u \in 1..Len(stored) /\ s \in 1..Len(stored)
      BY <1>0, <1>1, <2>2 DEF NewAt
    <3> QED
      BY <1>1, <2>2, <3>1 DEF ViewsInv, Successes, StaysAt
  <2> QED
    BY <2>1, <2>2 DEF Successes
<1>3. FreshRows'
  <2> SUFFICES ASSUME NEW s \in 1..Len(stored'), Shown(s)',
                      NEW first, first = stored'[s].covered
               PROVE  FreshSince(s, first)'
    BY DEF FreshRows, FreshSince
  <2>1. s \in 1..Len(stored) /\ Shown(s) /\ first = stored[s].covered
    BY <1>1 DEF Shown, StaysAt, NewAt
  <2>2. FreshSince(s, first)
    BY <2>1 DEF ViewsInv, FreshRows
  <2>3. first \in 1..Len(batches)
    BY <1>0, <2>1 DEF ViewsInv, Successes, Shown
  <2> QED
    BY <2>1, <2>2, <2>3, FreshStays DEF Shown
<1>4. PageRows'
  <2> SUFFICES ASSUME NEW p \in page', NEW s, s = p.snapshot, NEW first, first = p.due
               PROVE  /\ s \in 1..Len(stored') /\ first \in 1..Len(batches')
                      /\ stored'[s].kept => FreshSince(s, first)'
    BY DEF PageRows, FreshSince
  <2>1. /\ s \in 1..Len(stored) /\ first \in 1..Len(batches)
        /\ stored[s].kept => FreshSince(s, first)
    BY DEF ViewsInv, PageRows
  <2>2. stored'[s].kept => stored[s].kept
    BY <1>1, <2>1 DEF StaysAt
  <2> QED
    BY <1>0, <2>1, <2>2, FreshStays
<1> QED
  BY <1>2, <1>3, <1>4

-----------------------------------------------------------------------------
LEMMA TypeStays ==
  ASSUME ViewsInv, collector' = collector, stored' \in Seq(Snapshots),
         current' \in RowsIn("current"), collect' \subseteq CollectRecords,
         batches' \in Seq(Batches)
  PROVE  ViewsTypeOK'
<1>1. collector' \in Collectors
  BY ViewsFacts
<1> QED
  BY <1>1, SameCollector DEF ViewsTypeOK

LEMMA WholeStays ==
  ASSUME ViewsInv, Growing, NEW s \in 1..Len(stored), stored'[s].rows = stored[s].rows,
         OneRun(s)
  PROVE  OneRun(s)'
<1>1. PICK runId \in 1..Len(batches) :
        \A i \in StepsOf("save") : stored[s].rows[Steps[i].table] = RowsOf(i, runId)
  BY DEF OneRun
<1>2. runId \in 1..Len(batches')
  BY ViewsFacts DEF Growing
<1>3. ASSUME NEW i \in StepsOf("save")
      PROVE  stored'[s].rows[Steps[i].table] = RowsOf(i, runId)'
  BY <1>1, RowsStay
<1> QED
  BY <1>2, <1>3, SameCollector DEF OneRun, Growing

LEMMA CurrentStays ==
  ASSUME ViewsInv, Tame, NEW i \in StepsOf("current"),
         current'[Steps[i].table] = current[Steps[i].table],
         Steps[i].table \in lost => Steps[i].table \in lost'
  PROVE  CurrentRow(i)'
<1> DEFINE t == Steps[i].table
<1>0. Len(stored) \in Nat /\ Len(stored') \in Nat /\ Len(batches) \in Nat
  BY ViewsFacts DEF Tame
<1>1. \A s \in 1..Len(stored') :
        Shown(s)' => s \in 1..Len(stored) /\ Shown(s) /\ stored'[s].covered = stored[s].covered
  BY <1>0 DEF Tame, StaysAt, NewAt, Shown
<1>2. CurrentRow(i)
  BY DEF ViewsInv, CurrentRows
<1>3. Steps' = Steps
  BY SameCollector DEF Tame, Growing
<1>4. CASE current[t] = {} /\ (t \in lost \/ \A s \in 1..Len(stored) : ~Shown(s))
  <2>1. current'[t] = {} /\ (t \in lost' \/ \A s \in 1..Len(stored') : ~Shown(s)')
    BY <1>1, <1>4
  <2> QED
    BY <1>3, <2>1 DEF CurrentRow
<1>5. CASE \E runId \in 1..Len(batches) :
             /\ current[t] = RowsOf(i, runId)
             /\ t \in lost \/ \A s \in 1..Len(stored) : Shown(s) => runId >= stored[s].covered
  <2>1. PICK runId \in 1..Len(batches) :
             /\ current[t] = RowsOf(i, runId)
             /\ t \in lost \/ \A s \in 1..Len(stored) : Shown(s) => runId >= stored[s].covered
    BY <1>5
  <2>2. runId \in 1..Len(batches') /\ RowsOf(i, runId)' = RowsOf(i, runId)
    BY <1>0, RowsStay DEF Tame, Growing
  <2>3. t \in lost' \/ \A s \in 1..Len(stored') : Shown(s)' => runId >= stored'[s].covered
    BY <1>1, <2>1
  <2> QED
    BY <1>3, <2>1, <2>2, <2>3 DEF CurrentRow
<1> QED
  BY <1>2, <1>4, <1>5 DEF CurrentRow

LEMMA AllCurrentStay ==
  ASSUME ViewsInv, Tame, current' = current, lost \subseteq lost'
  PROVE  CurrentRows'
BY CurrentStays, SameCollector DEF CurrentRows, Tame, Growing

\* The run at work, where a step does not concern it.
LEMMA RunStays ==
  ASSUME ViewsInv, NEW c \in collect, Growing, batches' = batches,
         Len(stored') \in Nat, Len(stored) <= Len(stored'),
         stored'[c.snapshot] = stored[c.snapshot],
         \A s \in 1..Len(stored') : s > c.snapshot => stored'[s].status = "none",
         current' = current, lost' = lost
  PROVE  RunAtWork(c)'
<1>1. RunAtWork(c) /\ Len(stored) \in Nat
  BY ViewsFacts DEF ViewsInv
<1>2. /\ Steps' = Steps /\ StepsOf("save")' = StepsOf("save")
      /\ StepsOf("current")' = StepsOf("current") /\ (OnlyFetched(c)' <=> OnlyFetched(c))
  BY SameCollector DEF Growing
<1>3. \A i : RowsOf(i, c.run)' = RowsOf(i, c.run)
  BY <1>2 DEF RowsOf, KeysOf
<1>4. c.snapshot \in 1..Len(stored')
  BY <1>1 DEF RunAtWork
<1> QED
  BY <1>1, <1>2, <1>3, <1>4 DEF RunAtWork

LEMMA RunFacts ==
  ASSUME ViewsInv, NEW c \in collect
  PROVE  /\ collect = {c} /\ c \in CollectRecords /\ RunAtWork(c)
         /\ c.run = Len(batches) /\ c.run \in Nat /\ c.run >= 1 /\ c.at \in Nat
         /\ c.snapshot \in 1..Len(stored) /\ stored[c.snapshot] \in Snapshots
         /\ stored[c.snapshot].kept
BY ViewsFacts DEF ViewsInv, RunAtWork, CollectRecords

LEMMA Moved ==
  ASSUME NEW c \in CollectRecords, NEW d, d = [c EXCEPT !.at = @ + 1]
  PROVE  /\ d \in CollectRecords /\ d.run = c.run /\ d.snapshot = c.snapshot
         /\ d.at = c.at + 1 /\ d.before = c.before /\ d.failed = c.failed
BY DEF CollectRecords

LEMMA GaveUp ==
  ASSUME NEW c \in CollectRecords, NEW why \in {"fetch", "save"}, NEW d,
         d = [c EXCEPT !.failed = why]
  PROVE  /\ d \in CollectRecords /\ d.run = c.run /\ d.snapshot = c.snapshot
         /\ d.at = c.at /\ d.before = c.before /\ d.failed = why
BY DEF CollectRecords

-----------------------------------------------------------------------------
\* Steps beside the runs.
LEMMA CreateStep == ViewsInv /\ CreateSnapshot => ViewsInv'
<1> SUFFICES ASSUME ViewsInv, CreateSnapshot PROVE ViewsInv'
  OBVIOUS
<1> USE DEF CreateSnapshot
<1>u. UNCHANGED <<collector, current, collect, batches, lost, page, viewFaults>>
  OBVIOUS
<1>0. Len(stored) \in Nat /\ stored \in Seq(Snapshots)
  BY ViewsFacts DEF ViewsInv, ViewsTypeOK
<1>1. PICK e : e = [rows |-> [t \in TablesOf("save") |-> {}], status |-> "none",
                    covered |-> 0, kept |-> TRUE, torn |-> FALSE]
  OBVIOUS
<1>2. e \in Snapshots
  BY <1>1 DEF Snapshots, RowsIn
<1>3. /\ stored' \in Seq(Snapshots) /\ Len(stored') = Len(stored) + 1
      /\ stored'[Len(stored) + 1] = e
      /\ \A j \in 1..Len(stored) : stored'[j] = stored[j]
  BY <1>0, <1>1, <1>2, SetLast
<1>4. Growing
  BY ViewsFacts DEF Growing
<1>5. Tame
  <2>1. \A s \in 1..Len(stored) : StaysAt(s) /\ OldOrLast(s)
    BY <1>3 DEF StaysAt, OldOrLast
  <2>2. NewAt(Len(stored) + 1)
    BY <1>1, <1>3 DEF NewAt
  <2> QED
    BY <1>0, <1>3, <1>4, <2>1, <2>2 DEF Tame
<1>6. ViewsTypeOK'
  BY <1>3, TypeStays DEF ViewsInv, ViewsTypeOK
<1>7. ASSUME NEW c \in collect PROVE RunAtWork(c)'
  <2>1. c.snapshot \in 1..Len(stored)
    BY RunFacts
  <2>2. \A s \in 1..Len(stored') : s > c.snapshot => stored'[s].status = "none"
    BY <1>0, <1>1, <1>3 DEF ViewsInv, RunAtWork
  <2>3. stored'[c.snapshot] = stored[c.snapshot] /\ Len(stored') \in Nat
        /\ Len(stored) <= Len(stored')
    BY <1>0, <1>3, <2>1
  <2> QED
    BY <1>0, <1>3, <1>4, <1>u, <2>1, <2>2, <2>3, RunStays
<1>8. WholeRows'
  <2> SUFFICES ASSUME NEW s \in 1..Len(stored'), Shown(s)', ~stored'[s].torn,
                      \A c \in collect' : c.snapshot = s => OnlyFetched(c)'
               PROVE  OneRun(s)'
    BY DEF WholeRows
  <2>1. s \in 1..Len(stored) /\ stored'[s] = stored[s]
    BY <1>0, <1>1, <1>3 DEF Shown
  <2>2. OneRun(s)
    BY <2>1, SameCollector DEF ViewsInv, WholeRows, Shown
  <2> QED
    BY <1>4, <2>1, <2>2, WholeStays
<1>9. Successes' /\ FreshRows' /\ PageRows' /\ CurrentRows'
  BY <1>5, TameStep, AllCurrentStay
<1> QED
  BY <1>6, <1>7, <1>8, <1>9 DEF ViewsInv

LEMMA BeginStep == ViewsInv /\ BeginCollect => ViewsInv'
<1> SUFFICES ASSUME ViewsInv, BeginCollect PROVE ViewsInv'
  OBVIOUS
<1> USE DEF BeginCollect
<1>0. /\ Len(stored) \in Nat /\ stored \in Seq(Snapshots) /\ Len(batches) \in Nat
      /\ batches \in Seq(Batches) /\ collector \in Collectors
      /\ current \in RowsIn("current")
  BY ViewsFacts DEF ViewsInv, ViewsTypeOK
<1>1. PICK keys \in Batches : batches' = Append(batches, keys)
  OBVIOUS
<1>2. /\ batches' \in Seq(Batches) /\ Len(batches') = Len(batches) + 1
      /\ \A j \in 1..Len(batches) : batches'[j] = batches[j]
  BY <1>0, <1>1, SetLast
<1>3. PICK k : k = Len(stored)
  OBVIOUS
<1>4. k \in 1..Len(stored) /\ stored[k].kept /\ Last(stored) = stored[k]
  BY <1>0, <1>3 DEF Last
<1>5. PICK n : n = Len(batches')
  OBVIOUS
<1>6. PICK d : d = [run |-> n, snapshot |-> k, at |-> 1,
                    before |-> <<stored[k].rows, current>>, failed |-> "no"]
  OBVIOUS
<1>7. collect' = {d}
  BY <1>3, <1>4, <1>5, <1>6
<1>8. d \in CollectRecords
  <2>1. stored[k] \in Snapshots
    BY <1>0, <1>4
  <2>2. stored[k].rows \in RowsIn("save")
    BY <2>1 DEF Snapshots
  <2> QED
    BY <1>0, <1>2, <1>3, <1>5, <1>6, <2>2 DEF CollectRecords
<1>9. Growing
  BY <1>0, <1>2 DEF Growing
<1>10. Tame
  <2>1. \A s \in 1..Len(stored) : StaysAt(s) /\ OldOrLast(s)
    BY DEF StaysAt, OldOrLast
  <2> QED
    BY <1>0, <1>9, <2>1 DEF Tame
<1>11. ViewsTypeOK'
  BY <1>0, <1>2, <1>7, <1>8, TypeStays
<1>12. RunAtWork(d)'
  <2>1. Len(Steps') \in Nat
    BY <1>0, StepsShape, SameCollector
  <2>2. d.run = Len(batches') /\ d.run >= 1 /\ d.snapshot = k /\ d.at = 1
        /\ d.before = <<stored[k].rows, current>> /\ d.failed = "no"
    BY <1>0, <1>2, <1>5, <1>6
  <2>3. \A s \in 1..Len(stored) : ~(s > k)
    BY <1>0, <1>3
  <2>4. \A i : i \in StepsOf("save")' \/ i \in StepsOf("current")' => ~(i < 1)
    BY <2>1 DEF StepsOf
  <2> QED
    BY <1>4, <2>1, <2>2, <2>3, <2>4 DEF RunAtWork
<1>13. WholeRows'
  <2> SUFFICES ASSUME NEW s \in 1..Len(stored'), Shown(s)', ~stored'[s].torn
               PROVE  OneRun(s)'
    BY DEF WholeRows
  <2>1. OneRun(s)
    BY DEF ViewsInv, WholeRows, Shown
  <2> QED
    BY <1>9, <2>1, WholeStays
<1>14. Successes' /\ FreshRows' /\ PageRows' /\ CurrentRows'
  BY <1>10, TameStep, AllCurrentStay
<1> QED
  BY <1>7, <1>11, <1>12, <1>13, <1>14 DEF ViewsInv

LEMMA PurgeStep == ViewsInv /\ PurgeOldSnapshots => ViewsInv'
<1> SUFFICES ASSUME ViewsInv, PurgeOldSnapshots PROVE ViewsInv'
  OBVIOUS
<1>u. UNCHANGED <<collector, current, collect, batches, lost, page, viewFaults>>
  BY DEF PurgeOldSnapshots
<1>0. /\ Len(stored) \in Nat /\ stored \in Seq(Snapshots) /\ Len(batches) \in Nat
      /\ \A s \in 1..Len(stored) : stored[s] \in Snapshots
  BY ViewsFacts DEF ViewsInv, ViewsTypeOK
<1>1. PICK k \in 1..Len(stored) - 1 :
        /\ \A c \in collect : c.snapshot # k
        /\ stored' = [stored EXCEPT ![k].kept = FALSE,
                                    ![k].rows = [t \in TablesOf("save") |-> {}]]
  BY DEF PurgeOldSnapshots
<1>2. PICK e : e = [stored[k] EXCEPT !.kept = FALSE, !.rows = [t \in TablesOf("save") |-> {}]]
  OBVIOUS
<1>3. /\ k \in 1..Len(stored) /\ e \in Snapshots /\ e.kept = FALSE
      /\ e.status = stored[k].status /\ e.covered = stored[k].covered
  <2>1. k \in 1..Len(stored) /\ stored[k] \in Snapshots
    BY <1>0
  <2>2. [t \in TablesOf("save") |-> {}] \in RowsIn("save")
    BY DEF RowsIn
  <2> QED
    BY <1>2, <2>1, <2>2 DEF Snapshots
<1>4. /\ stored' \in Seq(Snapshots) /\ Len(stored') = Len(stored) /\ stored'[k] = e
      /\ \A j \in 1..Len(stored) : j # k => stored'[j] = stored[j]
  <2>1. stored' = [stored EXCEPT ![k] = e]
    BY <1>0, <1>1, <1>2, <1>3
  <2> QED
    BY <1>0, <1>3, <2>1, SetAt
<1>5. Growing
  BY <1>u, <1>0 DEF Growing
<1>6. Tame
  <2>1. \A s \in 1..Len(stored) : StaysAt(s) /\ (stored'[s].kept => OldOrLast(s))
    BY <1>3, <1>4 DEF StaysAt, OldOrLast
  <2> QED
    BY <1>0, <1>4, <1>5, <2>1 DEF Tame
<1>7. ViewsTypeOK'
  BY <1>u, <1>4, TypeStays DEF ViewsInv, ViewsTypeOK
<1>8. ASSUME NEW c \in collect PROVE RunAtWork(c)'
  <2>1. c.snapshot \in 1..Len(stored) /\ c.snapshot # k /\ RunAtWork(c)
    BY <1>1, RunFacts
  <2>2. \A s \in 1..Len(stored') : s > c.snapshot => stored'[s].status = "none"
    BY <1>3, <1>4, <2>1 DEF RunAtWork
  <2> QED
    BY <1>u, <1>0, <1>4, <1>5, <2>1, <2>2, RunStays
<1>9. WholeRows'
  <2> SUFFICES ASSUME NEW s \in 1..Len(stored'), Shown(s)', ~stored'[s].torn,
                      \A c \in collect' : c.snapshot = s => OnlyFetched(c)'
               PROVE  OneRun(s)'
    BY DEF WholeRows
  <2>1. s \in 1..Len(stored) /\ stored'[s] = stored[s]
    BY <1>0, <1>3, <1>4 DEF Shown
  <2>2. OneRun(s)
    BY <1>u, <2>1, SameCollector DEF ViewsInv, WholeRows, Shown
  <2> QED
    BY <1>5, <2>1, <2>2, WholeStays
<1>10. Successes' /\ FreshRows' /\ PageRows' /\ CurrentRows'
  BY <1>u, <1>6, TameStep, AllCurrentStay
<1> QED
  BY <1>u, <1>7, <1>8, <1>9, <1>10 DEF ViewsInv

-----------------------------------------------------------------------------
\* Steps of a run.
LEMMA RunMoves ==
  ASSUME ViewsInv, NEW c \in collect, Growing, batches' = batches,
         NEW d, d.run = c.run, d.snapshot = c.snapshot, d.at \in 1..Len(Steps) + 1,
         Len(stored') = Len(stored), stored'[c.snapshot].kept,
         \A s \in 1..Len(stored) : s # c.snapshot => stored'[s] = stored[s],
         \A i \in StepsOf("save") :
           i < d.at => stored'[c.snapshot].rows[Steps[i].table] = RowsOf(i, c.run),
         \A i \in StepsOf("current") :
           i < d.at => \/ Steps[i].table \in lost'
                       \/ current'[Steps[i].table] = RowsOf(i, c.run),
         OnlyFetched(d) => d.before = <<stored'[c.snapshot].rows, current'>>,
         d.failed = "fetch" => OnlyFetched(d),
         d.failed = "save" => stored'[c.snapshot].torn
  PROVE  RunAtWork(d)'
<1>1. RunAtWork(c) /\ Len(stored) \in Nat /\ c.snapshot \in 1..Len(stored)
  BY ViewsFacts, RunFacts
<1>2. /\ Steps' = Steps /\ StepsOf("save")' = StepsOf("save")
      /\ StepsOf("current")' = StepsOf("current") /\ (OnlyFetched(d)' <=> OnlyFetched(d))
  BY SameCollector DEF Growing
<1>3. \A i : RowsOf(i, c.run)' = RowsOf(i, c.run)
  BY <1>2 DEF RowsOf, KeysOf
<1>4. \A s \in 1..Len(stored') : s > d.snapshot => stored'[s].status = "none"
  <2>1. \A s \in 1..Len(stored) : s > c.snapshot => stored[s].status = "none"
    BY <1>1 DEF RunAtWork
  <2>2. \A s \in 1..Len(stored) : s > c.snapshot => stored'[s] = stored[s]
    BY <1>1
  <2> QED
    BY <2>1, <2>2
<1>5. d.run = Len(batches') /\ d.run >= 1 /\ d.snapshot \in 1..Len(stored')
  BY <1>1 DEF RunAtWork
<1> QED
  BY <1>2, <1>3, <1>4, <1>5 DEF RunAtWork

\* The step a run has reached.
LEMMA ReachFacts ==
  ASSUME ViewsInv, NEW c \in collect, NEW op, Reaches(c, op)
  PROVE  /\ c.at \in 1..Len(Steps) /\ c.at \in StepsOf(op) /\ c.failed = "no"
         /\ c.at + 1 \in 1..Len(Steps) + 1
         /\ op = "fetch" => OnlyFetched(c)
         /\ op # "fetch" => \A d : d.at = c.at + 1 => ~OnlyFetched(d)
<1>1. Len(Steps) \in Nat /\ c.at \in 1..Len(Steps) + 1
  BY StepsShape, ViewsFacts, RunFacts DEF RunAtWork
<1>2. c.at \in 1..Len(Steps) /\ Steps[c.at].op = op /\ c.failed = "no"
  BY <1>1 DEF Reaches
<1>3. op = "fetch" => OnlyFetched(c)
  BY <1>2, StepsShape, ViewsFacts DEF OnlyFetched
<1>4. op # "fetch" => \A d : d.at = c.at + 1 => ~OnlyFetched(d)
  BY <1>2 DEF OnlyFetched
<1> QED
  BY <1>1, <1>2, <1>3, <1>4 DEF StepsOf

\* Steps that leave the snapshots as they are.
LEMMA SameStored ==
  ASSUME ViewsInv, collector' = collector, stored' = stored, batches' = batches
  PROVE  Tame
<1>1. Len(stored) \in Nat /\ Len(batches) \in Nat
  BY ViewsFacts
<1>2. \A s \in 1..Len(stored) : StaysAt(s) /\ OldOrLast(s)
  BY DEF StaysAt, OldOrLast
<1> QED
  BY <1>1, <1>2 DEF Tame, Growing

LEMMA FetchStep ==
  ASSUME ViewsInv, NEW c \in collect, Fetch(c)
  PROVE  ViewsInv'
<1>u. UNCHANGED <<collector, stored, current, batches, lost, page, viewFaults>>
  BY DEF Fetch
<1>r. Reaches(c, "fetch")
  BY DEF Fetch
<1>1. PICK d : d = [c EXCEPT !.at = @ + 1]
  OBVIOUS
<1>2. collect' = {d}
  BY <1>1 DEF Fetch, GoesOn
<1>3. /\ d \in CollectRecords /\ d.run = c.run /\ d.snapshot = c.snapshot
      /\ d.at = c.at + 1 /\ d.before = c.before /\ d.failed = c.failed
  BY <1>1, Moved, RunFacts
<1>4. Tame
  BY <1>u, SameStored
<1>5. ViewsTypeOK'
  BY <1>u, <1>2, <1>3, TypeStays DEF ViewsInv, ViewsTypeOK
<1>6. /\ c.at \in 1..Len(Steps) /\ Steps[c.at].op = "fetch" /\ c.failed = "no"
      /\ OnlyFetched(c) /\ c.at + 1 \in 1..Len(Steps) + 1
  BY <1>r, ReachFacts DEF StepsOf
<1>7. RunAtWork(c) /\ Len(stored) \in Nat
  BY RunFacts, ViewsFacts
<1>8. RunAtWork(d)'
  <2>1. \A i \in 1..Len(Steps) : i < d.at => i < c.at \/ i = c.at
    BY <1>3, <1>6
  <2>2. \A i \in StepsOf("save") :
           i < d.at => stored'[c.snapshot].rows[Steps[i].table] = RowsOf(i, c.run)
    BY <1>u, <1>6, <1>7, <2>1 DEF RunAtWork, StepsOf
  <2>3. \A i \in StepsOf("current") :
           i < d.at => Steps[i].table \in lost' \/ current'[Steps[i].table] = RowsOf(i, c.run)
    BY <1>u, <1>6, <1>7, <2>1 DEF RunAtWork, StepsOf
  <2>4. d.before = <<stored'[c.snapshot].rows, current'>>
    BY <1>u, <1>3, <1>6, <1>7 DEF RunAtWork
  <2>5. d.at \in 1..Len(Steps) + 1 /\ stored'[c.snapshot].kept /\ Growing
        /\ d.failed # "save" /\ (d.failed = "fetch" => OnlyFetched(d))
    BY <1>u, <1>3, <1>4, <1>6, <1>7 DEF Tame, RunAtWork
  <2> QED
    BY <1>u, <1>3, <2>2, <2>3, <2>4, <2>5, RunMoves
<1>9. WholeRows'
  <2> SUFFICES ASSUME NEW s \in 1..Len(stored'), Shown(s)', ~stored'[s].torn
               PROVE  OneRun(s)'
    BY DEF WholeRows
  <2>1. OneRun(s)
    BY <1>u, <1>6, RunFacts DEF ViewsInv, WholeRows, Shown
  <2> QED
    BY <1>u, <1>4, <2>1, WholeStays DEF Tame
<1>10. Successes' /\ FreshRows' /\ PageRows' /\ CurrentRows'
  BY <1>u, <1>4, TameStep, AllCurrentStay
<1> QED
  BY <1>2, <1>5, <1>8, <1>9, <1>10 DEF ViewsInv

LEMMA FetchFailsStep ==
  ASSUME ViewsInv, NEW c \in collect, FetchFails(c)
  PROVE  ViewsInv'
<1>u. UNCHANGED <<collector, stored, current, batches, lost, page>>
  BY DEF FetchFails
<1>r. Reaches(c, "fetch")
  BY DEF FetchFails
<1>1. PICK d : d = [c EXCEPT !.failed = "fetch"]
  OBVIOUS
<1>2. collect' = {d}
  BY <1>1 DEF FetchFails, GivesUp
<1>3. /\ d \in CollectRecords /\ d.run = c.run /\ d.snapshot = c.snapshot
      /\ d.at = c.at /\ d.before = c.before /\ d.failed = "fetch"
  BY <1>1, GaveUp, RunFacts
<1>4. Tame
  BY <1>u, SameStored
<1>5. ViewsTypeOK'
  BY <1>u, <1>2, <1>3, TypeStays DEF ViewsInv, ViewsTypeOK
<1>6. c.at \in 1..Len(Steps) /\ OnlyFetched(c)
  BY <1>r, ReachFacts
<1>7. RunAtWork(c) /\ Len(stored) \in Nat /\ c.at \in 1..Len(Steps) + 1
  BY RunFacts, ViewsFacts DEF RunAtWork
<1>8. RunAtWork(d)'
  <2>1. OnlyFetched(d)
    BY <1>3, <1>6 DEF OnlyFetched
  <2>2. \A i \in StepsOf("save") :
           i < d.at => stored'[c.snapshot].rows[Steps[i].table] = RowsOf(i, c.run)
    BY <1>u, <1>3, <1>7 DEF RunAtWork
  <2>3. \A i \in StepsOf("current") :
           i < d.at => Steps[i].table \in lost' \/ current'[Steps[i].table] = RowsOf(i, c.run)
    BY <1>u, <1>3, <1>7 DEF RunAtWork
  <2>4. d.before = <<stored'[c.snapshot].rows, current'>>
    BY <1>u, <1>3, <1>6, <1>7 DEF RunAtWork
  <2>5. d.at \in 1..Len(Steps) + 1 /\ stored'[c.snapshot].kept /\ Growing
        /\ d.failed # "save" /\ (d.failed = "fetch" => OnlyFetched(d))
    BY <1>u, <1>3, <1>4, <2>1, <1>7 DEF Tame, RunAtWork
  <2> QED
    BY <1>u, <1>3, <2>2, <2>3, <2>4, <2>5, RunMoves
<1>9. WholeRows'
  <2> SUFFICES ASSUME NEW s \in 1..Len(stored'), Shown(s)', ~stored'[s].torn
               PROVE  OneRun(s)'
    BY DEF WholeRows
  <2>1. OneRun(s)
    BY <1>u, <1>6, RunFacts DEF ViewsInv, WholeRows, Shown
  <2> QED
    BY <1>u, <1>4, <2>1, WholeStays DEF Tame
<1>10. Successes' /\ FreshRows' /\ PageRows' /\ CurrentRows'
  BY <1>u, <1>4, TameStep, AllCurrentStay
<1> QED
  BY <1>2, <1>5, <1>8, <1>9, <1>10 DEF ViewsInv

\* The rows of the table at hand are those of the run.
LEMMA NewRowsAre ==
  ASSUME ViewsInv, NEW c \in collect
  PROVE  NewRows(c) = RowsOf(c.at, c.run) /\ RowsOf(c.at, c.run) \in SUBSET (Nat \X Nat)
<1>1. c.run \in 1..Len(batches) /\ batches \in Seq(Batches)
  BY RunFacts, ViewsFacts DEF ViewsInv, ViewsTypeOK
<1> QED
  BY <1>1, RowsAreRows DEF NewRows, RowsOf

\* A table of one kind is written once in a run.
LEMMA TablesDiffer ==
  ASSUME collector \in Collectors, NEW op, NEW i \in StepsOf(op), NEW j \in StepsOf(op),
         i # j
  PROVE  Steps[i].table # Steps[j].table
BY StepsShape DEF StepsOf

LEMMA SaveStep ==
  ASSUME ViewsInv, NEW c \in collect, Save(c)
  PROVE  ViewsInv'
<1>u. UNCHANGED <<collector, current, batches, lost, page, viewFaults>>
  BY DEF Save
<1>r. Reaches(c, "save")
  BY DEF Save
<1>0. /\ Len(stored) \in Nat /\ stored \in Seq(Snapshots) /\ Len(batches) \in Nat
      /\ collector \in Collectors
  BY ViewsFacts DEF ViewsInv, ViewsTypeOK
<1>1. PICK d : d = [c EXCEPT !.at = @ + 1]
  OBVIOUS
<1>2. collect' = {d}
  BY <1>1 DEF Save, GoesOn
<1>3. /\ d \in CollectRecords /\ d.run = c.run /\ d.snapshot = c.snapshot
      /\ d.at = c.at + 1 /\ d.before = c.before /\ d.failed = c.failed
  BY <1>1, Moved, RunFacts
<1>4. /\ c.at \in 1..Len(Steps) /\ c.at \in StepsOf("save") /\ c.failed = "no"
      /\ c.at + 1 \in 1..Len(Steps) + 1 /\ ~OnlyFetched(d)
  BY <1>r, <1>3, ReachFacts
<1>5. PICK k, t, new : k = c.snapshot /\ t = Steps[c.at].table /\ new = RowsOf(c.at, c.run)
  OBVIOUS
<1>6. k \in 1..Len(stored) /\ stored[k] \in Snapshots /\ stored[k].kept /\ RunAtWork(c)
  BY <1>5, RunFacts
<1>7. t \in TablesOf("save") /\ new \in SUBSET (Nat \X Nat) /\ new = NewRows(c)
  BY <1>0, <1>4, <1>5, TablesAre, NewRowsAre
<1>8. PICK e : e = [stored[k] EXCEPT !.rows[t] = new]
  OBVIOUS
<1>9. /\ e \in Snapshots /\ e.status = stored[k].status /\ e.covered = stored[k].covered
      /\ e.kept = stored[k].kept /\ e.torn = stored[k].torn /\ e.rows[t] = new
      /\ \A u \in TablesOf("save") : u # t => e.rows[u] = stored[k].rows[u]
  BY <1>6, <1>7, <1>8 DEF Snapshots, RowsIn
<1>10. /\ stored' \in Seq(Snapshots) /\ Len(stored') = Len(stored) /\ stored'[k] = e
       /\ \A j \in 1..Len(stored) : j # k => stored'[j] = stored[j]
  <2>1. stored' = [stored EXCEPT ![k].rows[t] = new]
    BY <1>5, <1>7 DEF Save, Replaces
  <2>2. stored' = [stored EXCEPT ![k] = e]
    BY <1>8, <2>1
  <2> QED
    BY <1>0, <1>6, <1>9, <2>2, SetAt
<1>11. \A i \in StepsOf("save") :
         e.rows[Steps[i].table] = IF i = c.at THEN new ELSE stored[k].rows[Steps[i].table]
  <2> SUFFICES ASSUME NEW i \in StepsOf("save")
               PROVE  e.rows[Steps[i].table] =
                        IF i = c.at THEN new ELSE stored[k].rows[Steps[i].table]
    OBVIOUS
  <2>1. CASE i = c.at
    BY <1>5, <1>9, <2>1
  <2>2. CASE i # c.at
    <3>1. Steps[i].table # t /\ Steps[i].table \in TablesOf("save")
      BY <1>0, <1>4, <1>5, <2>2, TablesDiffer, TablesAre
    <3> QED
      BY <1>9, <2>2, <3>1
  <2> QED
    BY <2>1, <2>2
<1>12. Tame
  <2>1. Growing
    BY <1>u, <1>0 DEF Growing
  <2>2. new = RowsOf(c.at, Len(batches)) /\ Len(batches) >= 1
    BY <1>5, RunFacts
  <2>3. StaysAt(k) /\ OldOrLast(k)
    BY <1>9, <1>10, <1>11, <2>2 DEF StaysAt, OldOrLast
  <2>4. \A s \in 1..Len(stored) : s # k => StaysAt(s) /\ OldOrLast(s)
    BY <1>10 DEF StaysAt, OldOrLast
  <2> QED
    BY <1>0, <1>10, <2>1, <2>3, <2>4 DEF Tame
<1>13. ViewsTypeOK'
  BY <1>u, <1>2, <1>3, <1>10, TypeStays DEF ViewsInv, ViewsTypeOK
<1>14. RunAtWork(d)'
  <2>1. \A i \in 1..Len(Steps) : i < d.at => i < c.at \/ i = c.at
    BY <1>3, <1>4
  <2>2. \A i \in StepsOf("save") :
           i < d.at => stored'[c.snapshot].rows[Steps[i].table] = RowsOf(i, c.run)
    <3> SUFFICES ASSUME NEW i \in StepsOf("save"), i < d.at
                 PROVE  stored'[c.snapshot].rows[Steps[i].table] = RowsOf(i, c.run)
      OBVIOUS
    <3>1. i \in 1..Len(Steps) /\ (i < c.at \/ i = c.at)
      BY <2>1 DEF StepsOf
    <3>2. CASE i = c.at
      BY <1>5, <1>6, <1>10, <1>11, <3>2
    <3>3. CASE i < c.at
      BY <1>5, <1>6, <1>10, <1>11, <3>3 DEF RunAtWork
    <3> QED
      BY <3>1, <3>2, <3>3
  <2>3. \A i \in StepsOf("current") :
           i < d.at => Steps[i].table \in lost' \/ current'[Steps[i].table] = RowsOf(i, c.run)
    BY <1>u, <1>4, <1>6, <2>1 DEF RunAtWork, StepsOf
  <2> QED
    BY <1>u, <1>3, <1>4, <1>5, <1>6, <1>9, <1>10, <1>12, <2>2, <2>3, RunMoves DEF Tame
<1>15. WholeRows'
  <2> SUFFICES ASSUME NEW s \in 1..Len(stored'), Shown(s)', ~stored'[s].torn,
                      \A x \in collect' : x.snapshot = s => OnlyFetched(x)'
               PROVE  OneRun(s)'
    BY DEF WholeRows
  <2>1. s # k
    BY <1>u, <1>2, <1>3, <1>4, <1>5, SameCollector
  <2>2. s \in 1..Len(stored) /\ stored'[s] = stored[s]
    BY <1>10, <2>1
  <2>3. OneRun(s)
    BY <1>5, <2>1, <2>2, RunFacts DEF ViewsInv, WholeRows, Shown
  <2> QED
    BY <1>12, <2>2, <2>3, WholeStays DEF Tame
<1>16. Successes' /\ FreshRows' /\ PageRows' /\ CurrentRows'
  BY <1>u, <1>12, TameStep, AllCurrentStay
<1> QED
  BY <1>2, <1>13, <1>14, <1>15, <1>16 DEF ViewsInv

\* A mark on the snapshot of the run at work.
LEMMA Marked ==
  ASSUME ViewsInv, NEW c \in collect, NEW e \in Snapshots,
         stored' = [stored EXCEPT ![c.snapshot] = e],
         e.rows = stored[c.snapshot].rows, e.covered = stored[c.snapshot].covered,
         e.kept = stored[c.snapshot].kept,
         e.status = "success" => stored[c.snapshot].status = "success",
         collector' = collector, batches' = batches
  PROVE  /\ Tame /\ stored' \in Seq(Snapshots) /\ Len(stored') = Len(stored)
         /\ stored'[c.snapshot] = e
         /\ \A s \in 1..Len(stored) : s # c.snapshot => stored'[s] = stored[s]
<1>0. /\ Len(stored) \in Nat /\ stored \in Seq(Snapshots) /\ Len(batches) \in Nat
      /\ c.snapshot \in 1..Len(stored)
  BY ViewsFacts, RunFacts DEF ViewsInv, ViewsTypeOK
<1>1. /\ stored' \in Seq(Snapshots) /\ Len(stored') = Len(stored)
      /\ stored'[c.snapshot] = e
      /\ \A s \in 1..Len(stored) : s # c.snapshot => stored'[s] = stored[s]
  BY <1>0, SetAt
<1>2. StaysAt(c.snapshot) /\ OldOrLast(c.snapshot)
  BY <1>1 DEF StaysAt, OldOrLast
<1>3. \A s \in 1..Len(stored) : s # c.snapshot => StaysAt(s) /\ OldOrLast(s)
  BY <1>1 DEF StaysAt, OldOrLast
<1> QED
  BY <1>0, <1>1, <1>2, <1>3 DEF Tame, Growing

LEMMA SaveFailsStep ==
  ASSUME ViewsInv, NEW c \in collect, SaveFails(c)
  PROVE  ViewsInv'
<1>u. UNCHANGED <<collector, current, batches, lost, page>>
  BY DEF SaveFails
<1>r. Reaches(c, "save")
  BY DEF SaveFails
<1>1. PICK d : d = [c EXCEPT !.failed = "save"]
  OBVIOUS
<1>2. collect' = {d}
  BY <1>1 DEF SaveFails, GivesUp
<1>3. /\ d \in CollectRecords /\ d.run = c.run /\ d.snapshot = c.snapshot
      /\ d.at = c.at /\ d.before = c.before /\ d.failed = "save"
  BY <1>1, GaveUp, RunFacts
<1>4. PICK k, e : k = c.snapshot /\ e = [stored[k] EXCEPT !.torn = TRUE]
  OBVIOUS
<1>5. k \in 1..Len(stored) /\ stored[k] \in Snapshots /\ stored[k].kept /\ RunAtWork(c)
  BY <1>4, RunFacts
<1>6. /\ e \in Snapshots /\ e.rows = stored[k].rows /\ e.status = stored[k].status
      /\ e.covered = stored[k].covered /\ e.kept = stored[k].kept /\ e.torn
  BY <1>4, <1>5 DEF Snapshots
<1>7. stored' = [stored EXCEPT ![k] = e]
  BY <1>4 DEF SaveFails
<1>8. /\ Tame /\ stored' \in Seq(Snapshots) /\ Len(stored') = Len(stored)
      /\ stored'[k] = e
      /\ \A s \in 1..Len(stored) : s # k => stored'[s] = stored[s]
  <2>1. /\ e \in Snapshots /\ stored' = [stored EXCEPT ![c.snapshot] = e]
        /\ collector' = collector /\ batches' = batches
    BY <1>u, <1>4, <1>6, <1>7
  <2>2. /\ e.rows = stored[c.snapshot].rows /\ e.covered = stored[c.snapshot].covered
        /\ e.kept = stored[c.snapshot].kept
        /\ e.status = "success" => stored[c.snapshot].status = "success"
    BY <1>4, <1>6
  <2>3. /\ Tame /\ stored' \in Seq(Snapshots) /\ Len(stored') = Len(stored)
        /\ stored'[c.snapshot] = e
        /\ \A s \in 1..Len(stored) : s # c.snapshot => stored'[s] = stored[s]
    BY <2>1, <2>2, Marked
  <2> QED
    BY <1>4, <2>3
<1>9. ViewsTypeOK'
  BY <1>u, <1>2, <1>3, <1>8, TypeStays DEF ViewsInv, ViewsTypeOK
<1>10. OnlyFetched(d) <=> OnlyFetched(c)
  BY <1>3 DEF OnlyFetched
<1>11. RunAtWork(d)'
  <2>1. \A i \in StepsOf("save") :
           i < d.at => stored'[c.snapshot].rows[Steps[i].table] = RowsOf(i, c.run)
    BY <1>3, <1>4, <1>5, <1>6, <1>8 DEF RunAtWork
  <2>2. \A i \in StepsOf("current") :
           i < d.at => Steps[i].table \in lost' \/ current'[Steps[i].table] = RowsOf(i, c.run)
    BY <1>u, <1>3, <1>5 DEF RunAtWork
  <2>3. OnlyFetched(d) => d.before = <<stored'[c.snapshot].rows, current'>>
    BY <1>u, <1>3, <1>4, <1>5, <1>6, <1>8, <1>10 DEF RunAtWork
  <2>4. d.at \in 1..Len(Steps) + 1 /\ stored'[c.snapshot].kept /\ Growing
        /\ stored'[c.snapshot].torn /\ d.failed # "fetch"
    BY <1>3, <1>4, <1>5, <1>6, <1>8 DEF Tame, RunAtWork
  <2> QED
    BY <1>u, <1>3, <1>4, <1>8, <2>1, <2>2, <2>3, <2>4, RunMoves
<1>12. WholeRows'
  <2> SUFFICES ASSUME NEW s \in 1..Len(stored'), Shown(s)', ~stored'[s].torn
               PROVE  OneRun(s)'
    BY DEF WholeRows
  <2>1. s # k /\ s \in 1..Len(stored) /\ stored'[s] = stored[s]
    BY <1>6, <1>8
  <2>2. OneRun(s)
    BY <1>4, <2>1, RunFacts DEF ViewsInv, WholeRows, Shown
  <2> QED
    BY <1>8, <2>1, <2>2, WholeStays DEF Tame
<1>13. Successes' /\ FreshRows' /\ PageRows' /\ CurrentRows'
  BY <1>u, <1>8, TameStep, AllCurrentStay
<1> QED
  BY <1>2, <1>9, <1>11, <1>12, <1>13 DEF ViewsInv

\* A current table is changed, or its save failed: a run past its reads.
LEMMA CurrentMoves ==
  ASSUME ViewsInv, NEW c \in collect, Reaches(c, "current"),
         collector' = collector, stored' = stored, batches' = batches, page' = page,
         current' \in RowsIn("current"), GoesOn(c),
         \A i \in StepsOf("current") :
           i # c.at => /\ current'[Steps[i].table] = current[Steps[i].table]
                       /\ Steps[i].table \in lost <=> Steps[i].table \in lost',
         \/ Steps[c.at].table \in lost' /\ current' = current
         \/ current'[Steps[c.at].table] = RowsOf(c.at, c.run)
  PROVE  ViewsInv'
<1>0. /\ Len(stored) \in Nat /\ Len(batches) \in Nat /\ collector \in Collectors
      /\ \A s \in 1..Len(stored) : stored[s].covered \in Nat
  BY ViewsFacts DEF Snapshots
<1>1. PICK d : d = [c EXCEPT !.at = @ + 1]
  OBVIOUS
<1>2. collect' = {d}
  BY <1>1 DEF GoesOn
<1>3. /\ d \in CollectRecords /\ d.run = c.run /\ d.snapshot = c.snapshot
      /\ d.at = c.at + 1 /\ d.before = c.before /\ d.failed = c.failed
  BY <1>1, Moved, RunFacts
<1>4. /\ c.at \in 1..Len(Steps) /\ c.at \in StepsOf("current") /\ c.failed = "no"
      /\ c.at + 1 \in 1..Len(Steps) + 1 /\ ~OnlyFetched(d)
  BY <1>3, ReachFacts
<1>5. Tame
  BY SameStored
<1>6. ViewsTypeOK'
  BY <1>2, <1>3, TypeStays DEF ViewsInv, ViewsTypeOK
<1>7. /\ RunAtWork(c) /\ c.run = Len(batches) /\ c.run >= 1 /\ stored[c.snapshot].kept
      /\ c.run \in 1..Len(batches)
  BY <1>0, RunFacts
<1>8. RunAtWork(d)'
  <2>1. \A i \in 1..Len(Steps) : i < d.at => i < c.at \/ i = c.at
    BY <1>3, <1>4
  <2>2. \A i \in StepsOf("save") :
           i < d.at => stored'[c.snapshot].rows[Steps[i].table] = RowsOf(i, c.run)
    BY <1>4, <1>7, <2>1 DEF RunAtWork, StepsOf
  <2>3. \A i \in StepsOf("current") :
           i < c.at => Steps[i].table \in lost' \/ current'[Steps[i].table] = RowsOf(i, c.run)
    BY <1>4, <1>7 DEF RunAtWork, StepsOf
  <2>4. \A i \in StepsOf("current") :
           i < d.at => Steps[i].table \in lost' \/ current'[Steps[i].table] = RowsOf(i, c.run)
    BY <2>1, <2>3 DEF StepsOf
  <2> QED
    BY <1>0, <1>3, <1>4, <1>5, <1>7, <2>2, <2>4, RunMoves DEF Tame
<1>9. WholeRows'
  <2> SUFFICES ASSUME NEW s \in 1..Len(stored'), Shown(s)', ~stored'[s].torn,
                      \A x \in collect' : x.snapshot = s => OnlyFetched(x)'
               PROVE  OneRun(s)'
    BY DEF WholeRows
  <2>1. s # c.snapshot
    BY <1>2, <1>3, <1>4, SameCollector
  <2>2. OneRun(s)
    BY <2>1, RunFacts DEF ViewsInv, WholeRows, Shown
  <2> QED
    BY <1>5, <2>2, WholeStays DEF Tame
<1>10. ASSUME NEW i \in StepsOf("current")
       PROVE  CurrentRow(i)'
  <2>1. CASE i # c.at
    BY <1>5, <2>1, CurrentStays
  <2>2. CASE i = c.at /\ current' = current /\ Steps[i].table \in lost'
    BY <1>5, <2>2, CurrentStays
  <2>3. CASE i = c.at /\ current'[Steps[i].table] = RowsOf(i, c.run)
    <3>1. PICK runId : runId = c.run
      OBVIOUS
    <3>2. runId \in 1..Len(batches') /\ current'[Steps[i].table] = RowsOf(i, runId)'
      BY <1>5, <1>7, <2>3, <3>1, RowsStay DEF Tame
    <3>3. \A s \in 1..Len(stored') : runId >= stored'[s].covered
      BY <1>0, <1>7, <3>1 DEF ViewsInv, Successes
    <3> QED
      BY <3>2, <3>3, SameCollector DEF CurrentRow
  <2> QED
    BY <2>1, <2>2, <2>3
<1>11. Successes' /\ FreshRows' /\ PageRows' /\ CurrentRows'
  BY <1>5, <1>10, TameStep, SameCollector DEF CurrentRows
<1> QED
  BY <1>2, <1>6, <1>8, <1>9, <1>11 DEF ViewsInv

LEMMA SaveCurrentStep ==
  ASSUME ViewsInv, NEW c \in collect, SaveCurrent(c)
  PROVE  ViewsInv'
<1>u. UNCHANGED <<collector, stored, batches, page, viewFaults>>
  BY DEF SaveCurrent
<1>r. Reaches(c, "current") /\ GoesOn(c)
  BY DEF SaveCurrent
<1>0. collector \in Collectors /\ current \in RowsIn("current") /\ c.at \in StepsOf("current")
  BY <1>r, ViewsFacts, ReachFacts
<1>1. PICK t, new : t = Steps[c.at].table /\ new = RowsOf(c.at, c.run)
  OBVIOUS
<1>2. t \in TablesOf("current") /\ new \in SUBSET (Nat \X Nat) /\ new = NewRows(c)
  BY <1>0, <1>1, TablesAre, NewRowsAre
<1>3. current' = [current EXCEPT ![t] = new] /\ lost' = lost \ {t}
  <2>1. Refreshes(current[t], new) = new
    BY DEF Refreshes
  <2> QED
    BY <1>1, <1>2, <2>1 DEF SaveCurrent
<1>4. /\ current' \in RowsIn("current") /\ current'[t] = new
      /\ \A u \in TablesOf("current") : u # t => current'[u] = current[u]
  BY <1>0, <1>2, <1>3 DEF RowsIn
<1>5. ASSUME NEW i \in StepsOf("current"), i # c.at
      PROVE  /\ current'[Steps[i].table] = current[Steps[i].table]
             /\ Steps[i].table \in lost <=> Steps[i].table \in lost'
  <2>1. Steps[i].table # t /\ Steps[i].table \in TablesOf("current")
    BY <1>0, <1>1, <1>5, TablesDiffer, TablesAre
  <2> QED
    BY <1>3, <1>4, <2>1
<1> QED
  BY <1>u, <1>r, <1>1, <1>4, <1>5, CurrentMoves

LEMMA SaveCurrentFailsStep ==
  ASSUME ViewsInv, NEW c \in collect, SaveCurrentFails(c)
  PROVE  ViewsInv'
<1>u. UNCHANGED <<collector, stored, current, batches, page>>
  BY DEF SaveCurrentFails
<1>r. Reaches(c, "current") /\ GoesOn(c) /\ lost' = lost \cup {Steps[c.at].table}
  BY DEF SaveCurrentFails
<1>0. collector \in Collectors /\ current \in RowsIn("current") /\ c.at \in StepsOf("current")
  BY <1>r, ViewsFacts, ReachFacts
<1>1. ASSUME NEW i \in StepsOf("current"), i # c.at
      PROVE  Steps[i].table \in lost <=> Steps[i].table \in lost'
  BY <1>r, <1>0, <1>1, TablesDiffer
<1>2. current' \in RowsIn("current")
  BY <1>u, <1>0
<1> QED
  BY <1>u, <1>r, <1>1, <1>2, CurrentMoves

LEMMA RecordHistoryStep ==
  ASSUME ViewsInv, NEW c \in collect, RecordHistory(c)
  PROVE  ViewsInv'
<1>u. UNCHANGED <<collector, stored, current, batches, lost, page, viewFaults>>
  BY DEF RecordHistory
<1>r. Reaches(c, "history")
  BY DEF RecordHistory
<1>1. PICK d : d = [c EXCEPT !.at = @ + 1]
  OBVIOUS
<1>2. collect' = {d}
  BY <1>1 DEF RecordHistory, GoesOn
<1>3. /\ d \in CollectRecords /\ d.run = c.run /\ d.snapshot = c.snapshot
      /\ d.at = c.at + 1 /\ d.before = c.before /\ d.failed = c.failed
  BY <1>1, Moved, RunFacts
<1>4. Tame
  BY <1>u, SameStored
<1>5. ViewsTypeOK'
  BY <1>u, <1>2, <1>3, TypeStays DEF ViewsInv, ViewsTypeOK
<1>6. /\ c.at \in 1..Len(Steps) /\ Steps[c.at].op = "history" /\ c.failed = "no"
      /\ ~OnlyFetched(d) /\ c.at + 1 \in 1..Len(Steps) + 1
  BY <1>r, <1>3, ReachFacts DEF StepsOf
<1>7. RunAtWork(c) /\ Len(stored) \in Nat
  BY RunFacts, ViewsFacts
<1>8. RunAtWork(d)'
  <2>1. \A i \in 1..Len(Steps) : i < d.at => i < c.at \/ i = c.at
    BY <1>3, <1>6
  <2>2. \A i \in StepsOf("save") :
           i < d.at => stored'[c.snapshot].rows[Steps[i].table] = RowsOf(i, c.run)
    BY <1>u, <1>6, <1>7, <2>1 DEF RunAtWork, StepsOf
  <2>3. \A i \in StepsOf("current") :
           i < d.at => Steps[i].table \in lost' \/ current'[Steps[i].table] = RowsOf(i, c.run)
    BY <1>u, <1>6, <1>7, <2>1 DEF RunAtWork, StepsOf
  <2>4. d.at \in 1..Len(Steps) + 1 /\ stored'[c.snapshot].kept /\ Growing /\ d.failed = "no"
    BY <1>u, <1>3, <1>4, <1>6, <1>7 DEF Tame, RunAtWork
  <2> QED
    BY <1>u, <1>3, <1>6, <2>2, <2>3, <2>4, RunMoves
<1>9. WholeRows'
  <2> SUFFICES ASSUME NEW s \in 1..Len(stored'), Shown(s)', ~stored'[s].torn,
                      \A x \in collect' : x.snapshot = s => OnlyFetched(x)'
               PROVE  OneRun(s)'
    BY DEF WholeRows
  <2>1. s # c.snapshot
    BY <1>u, <1>2, <1>3, <1>6, SameCollector
  <2>2. OneRun(s)
    BY <1>u, <2>1, RunFacts DEF ViewsInv, WholeRows, Shown
  <2> QED
    BY <1>u, <1>4, <2>2, WholeStays DEF Tame
<1>10. Successes' /\ FreshRows' /\ PageRows' /\ CurrentRows'
  BY <1>u, <1>4, TameStep, AllCurrentStay
<1> QED
  BY <1>2, <1>5, <1>8, <1>9, <1>10 DEF ViewsInv

\* A run's end: nothing of what is shown changes, and its snapshot is torn or holds
\* the rows of one run.
LEMMA RunEnds ==
  ASSUME ViewsInv, NEW c \in collect, NEW e \in Snapshots,
         collector' = collector, current' = current, batches' = batches, lost' = lost,
         page' \subseteq page, collect' = {},
         stored' = [stored EXCEPT ![c.snapshot] = e],
         e.rows = stored[c.snapshot].rows, e.covered = stored[c.snapshot].covered,
         e.kept = stored[c.snapshot].kept,
         e.status = "success" => stored[c.snapshot].status = "success",
         e.status = "success" /\ ~e.torn => OneRun(c.snapshot)
  PROVE  ViewsInv'
<1>1. /\ Tame /\ stored' \in Seq(Snapshots) /\ Len(stored') = Len(stored)
      /\ stored'[c.snapshot] = e
      /\ \A s \in 1..Len(stored) : s # c.snapshot => stored'[s] = stored[s]
  BY Marked
<1>2. ViewsTypeOK'
  BY <1>1, TypeStays DEF ViewsInv, ViewsTypeOK
<1>3. WholeRows'
  <2> SUFFICES ASSUME NEW s \in 1..Len(stored'), Shown(s)', ~stored'[s].torn
               PROVE  OneRun(s)'
    BY DEF WholeRows
  <2>1. s \in 1..Len(stored) /\ stored'[s].rows = stored[s].rows
    BY <1>1
  <2>2. CASE s = c.snapshot
    BY <1>1, <2>1, <2>2, WholeStays DEF Tame, Shown
  <2>3. CASE s # c.snapshot
    <3>1. OneRun(s)
      BY <1>1, <2>1, <2>3, RunFacts DEF ViewsInv, WholeRows, Shown
    <3> QED
      BY <1>1, <2>1, <3>1, WholeStays DEF Tame
  <2> QED
    BY <2>2, <2>3
<1>4. Successes' /\ FreshRows' /\ PageRows' /\ CurrentRows'
  BY <1>1, TameStep, AllCurrentStay
<1> QED
  BY <1>2, <1>3, <1>4 DEF ViewsInv

\* A run that has come to its end has all its rows in place.
LEMMA AllPlaced ==
  ASSUME ViewsInv, NEW c \in collect, Finished(c), Succeeded(c)
  PROVE  /\ \A i \in StepsOf("save") :
              stored[c.snapshot].rows[Steps[i].table] = RowsOf(i, c.run)
         /\ \A i \in StepsOf("current") :
              Steps[i].table \in lost \/ current[Steps[i].table] = RowsOf(i, c.run)
<1>1. RunAtWork(c) /\ c.at \in Nat /\ Len(Steps) \in Nat
  BY RunFacts, ViewsFacts, StepsShape
<1>2. \A i \in 1..Len(Steps) : i < c.at
  BY <1>1 DEF Finished, Succeeded
<1> QED
  BY <1>1, <1>2 DEF RunAtWork, StepsOf

LEMMA PlacedIsOneRun ==
  ASSUME ViewsInv, NEW c \in collect, Finished(c), Succeeded(c)
  PROVE  OneRun(c.snapshot)
<1>1. c.run \in 1..Len(batches)
  BY RunFacts, ViewsFacts
<1> QED
  BY <1>1, AllPlaced DEF OneRun

LEMMA RecordFailsStep ==
  ASSUME ViewsInv, NEW c \in collect, RecordFails(c)
  PROVE  ViewsInv'
<1>u. UNCHANGED <<collector, current, batches, lost, page>> /\ collect' = {}
  BY DEF RecordFails
<1>1. PICK k, b, e : /\ k = c.snapshot /\ b = IF Succeeded(c) THEN FALSE ELSE stored[k].torn
                     /\ e = [stored[k] EXCEPT !.torn = b]
  OBVIOUS
<1>2. k \in 1..Len(stored) /\ stored[k] \in Snapshots /\ RunAtWork(c)
  BY <1>1, RunFacts
<1>3. b \in BOOLEAN
  BY <1>1, <1>2 DEF Snapshots
<1>4. /\ e \in Snapshots /\ e.rows = stored[k].rows /\ e.status = stored[k].status
      /\ e.covered = stored[k].covered /\ e.kept = stored[k].kept /\ e.torn = b
  BY <1>1, <1>2, <1>3 DEF Snapshots
<1>5. stored' = [stored EXCEPT ![k] = e]
  BY <1>1 DEF RecordFails
<1>6. e.status = "success" /\ ~e.torn => OneRun(k)
  <2>1. CASE Succeeded(c)
    BY <1>1, <2>1, PlacedIsOneRun DEF RecordFails
  <2>2. CASE ~Succeeded(c)
    <3>1. b = stored[k].torn
      BY <1>1, <2>2
    <3>2. c.failed \in {"fetch", "save"}
      BY <2>2, RunFacts DEF Succeeded, CollectRecords
    <3>3. CASE c.failed = "save"
      BY <1>1, <1>2, <1>4, <3>1, <3>3 DEF RunAtWork
    <3>4. CASE c.failed = "fetch"
      <4>1. \A x \in collect : OnlyFetched(x)
        BY <1>2, <3>4, RunFacts DEF RunAtWork
      <4> QED
        BY <1>1, <1>2, <1>4, <3>1, <4>1, RunFacts DEF ViewsInv, WholeRows, Shown
    <3> QED
      BY <3>2, <3>3, <3>4
  <2> QED
    BY <2>1, <2>2
<1> QED
  BY <1>u, <1>1, <1>4, <1>5, <1>6, RunEnds

LEMMA CrashStep ==
  ASSUME ViewsInv, NEW c \in collect, CrashCollect(c)
  PROVE  ViewsInv'
<1>u. UNCHANGED <<collector, current, batches, lost>> /\ collect' = {} /\ page' = {}
  BY DEF CrashCollect
<1>1. PICK k, e : k = c.snapshot /\ e = [stored[k] EXCEPT !.torn = TRUE]
  OBVIOUS
<1>2. k \in 1..Len(stored) /\ stored[k] \in Snapshots
  BY <1>1, RunFacts
<1>3. /\ e \in Snapshots /\ e.rows = stored[k].rows /\ e.status = stored[k].status
      /\ e.covered = stored[k].covered /\ e.kept = stored[k].kept /\ e.torn
  BY <1>1, <1>2 DEF Snapshots
<1>4. stored' = [stored EXCEPT ![k] = e]
  BY <1>1 DEF CrashCollect
<1> QED
  BY <1>u, <1>1, <1>3, <1>4, RunEnds

LEMMA RecordStep ==
  ASSUME ViewsInv, NEW c \in collect, RecordCollectorRun(c)
  PROVE  ViewsInv'
<1>u. UNCHANGED <<collector, current, batches, lost, page, viewFaults>> /\ collect' = {}
  BY DEF RecordCollectorRun
<1>0. /\ Len(stored) \in Nat /\ stored \in Seq(Snapshots) /\ Len(batches) \in Nat
      /\ \A s \in 1..Len(stored) : stored[s] \in Snapshots /\ stored[s].covered \in Nat
  BY ViewsFacts DEF ViewsInv, ViewsTypeOK, Snapshots
<1>1. PICK k, r : k = c.snapshot /\ r = c.run
  OBVIOUS
<1>2. /\ k \in 1..Len(stored) /\ stored[k] \in Snapshots /\ stored[k].kept /\ RunAtWork(c)
      /\ r = Len(batches) /\ r >= 1 /\ r \in Nat
  BY <1>1, RunFacts
<1>3. CASE ~Succeeded(c)
  <2>1. PICK e : e = [stored[k] EXCEPT !.status = "error"]
    OBVIOUS
  <2>2. /\ e \in Snapshots /\ e.rows = stored[k].rows /\ e.status = "error"
        /\ e.covered = stored[k].covered /\ e.kept = stored[k].kept
    BY <1>2, <2>1 DEF Snapshots
  <2>3. stored' = [stored EXCEPT ![k] = e]
    BY <1>0, <1>1, <1>2, <1>3, <2>1 DEF RecordCollectorRun
  <2> QED
    BY <1>u, <1>1, <2>2, <2>3, RunEnds
<1>4. CASE Succeeded(c)
  <2>1. PICK e : e = [stored[k] EXCEPT !.status = "success", !.covered = r, !.torn = FALSE]
    OBVIOUS
  <2>2. /\ e \in Snapshots /\ e.rows = stored[k].rows /\ e.status = "success"
        /\ e.covered = r /\ e.kept
    BY <1>2, <2>1 DEF Snapshots
  <2>3. stored' = [stored EXCEPT ![k] = e]
    BY <1>0, <1>1, <1>2, <1>4, <2>1 DEF RecordCollectorRun
  <2>4. /\ stored' \in Seq(Snapshots) /\ Len(stored') = Len(stored) /\ stored'[k] = e
        /\ \A s \in 1..Len(stored) : s # k => stored'[s] = stored[s]
    BY <1>0, <1>2, <2>2, <2>3, SetAt
  <2>5. Growing
    BY <1>u, <1>0 DEF Growing
  <2>6. ViewsTypeOK'
    BY <1>u, <2>4, TypeStays DEF ViewsInv, ViewsTypeOK
  <2>7. Steps' = Steps /\ StepsOf("save")' = StepsOf("save")
        /\ StepsOf("current")' = StepsOf("current")
    BY <1>u, SameCollector
  <2>8. \A i, runId : RowsOf(i, runId)' = RowsOf(i, runId)
    BY <1>u, <2>7 DEF RowsOf, KeysOf
  <2>9. \A s \in 1..Len(stored) : stored'[s].rows = stored[s].rows
    BY <2>2, <2>4
  <2>10. /\ \A i \in StepsOf("save") : stored[k].rows[Steps[i].table] = RowsOf(i, r)
         /\ \A i \in StepsOf("current") :
              Steps[i].table \in lost \/ current[Steps[i].table] = RowsOf(i, r)
    BY <1>1, <1>4, AllPlaced DEF RecordCollectorRun
  <2>11. \A s \in 1..Len(stored) : stored'[s].covered <= r
    BY <1>0, <1>2, <2>2, <2>4 DEF ViewsInv, Successes
  <2>12. Successes'
    <3>1. ASSUME NEW s \in 1..Len(stored'), NEW u \in 1..Len(stored'),
                 s < u, stored'[u].status = "success"
          PROVE  stored'[s].covered <= stored'[u].covered
      <4>1. CASE u = k
        BY <2>2, <2>4, <2>11, <4>1
      <4>2. CASE s = k
        <5>1. stored'[u] = stored[u] /\ u > k /\ u \in 1..Len(stored)
          BY <1>0, <1>2, <2>4, <3>1, <4>2
        <5> QED
          BY <1>1, <1>2, <3>1, <5>1 DEF RunAtWork
      <4>3. CASE s # k /\ u # k
        BY <2>4, <3>1, <4>3 DEF ViewsInv, Successes
      <4> QED
        BY <4>1, <4>2, <4>3
    <3>2. ASSUME NEW s \in 1..Len(stored')
          PROVE  /\ stored'[s].covered <= Len(batches')
                 /\ stored'[s].status = "success" => stored'[s].covered >= 1
      BY <1>u, <1>2, <2>2, <2>4, <2>11 DEF ViewsInv, Successes
    <3> QED
      BY <3>1, <3>2 DEF Successes
  <2>13. FreshRows'
    <3> SUFFICES ASSUME NEW s \in 1..Len(stored'), Shown(s)',
                        NEW first, first = stored'[s].covered
                 PROVE  FreshSince(s, first)'
      BY DEF FreshRows, FreshSince
    <3>1. CASE s = k
      <4>1. r \in first..Len(batches')
        BY <1>u, <1>2, <2>2, <2>4, <3>1
      <4> QED
        BY <2>4, <2>7, <2>8, <2>9, <2>10, <3>1, <4>1 DEF FreshSince
    <3>2. CASE s # k
      <4>1. Shown(s) /\ first = stored[s].covered /\ s \in 1..Len(stored)
        BY <2>4, <3>2 DEF Shown
      <4>2. FreshSince(s, first)
        BY <4>1 DEF ViewsInv, FreshRows
      <4> QED
        BY <1>u, <2>7, <2>8, <2>9, <4>1, <4>2 DEF FreshSince
    <3> QED
      BY <3>1, <3>2
  <2>14. WholeRows'
    <3> SUFFICES ASSUME NEW s \in 1..Len(stored'), Shown(s)', ~stored'[s].torn
                 PROVE  OneRun(s)'
      BY DEF WholeRows
    <3>1. s \in 1..Len(stored) /\ stored'[s].rows = stored[s].rows
      BY <2>4, <2>9
    <3>2. CASE s = k
      BY <1>1, <1>4, <2>5, <3>1, <3>2, PlacedIsOneRun, WholeStays DEF RecordCollectorRun
    <3>3. CASE s # k
      <4>1. OneRun(s)
        BY <1>1, <2>4, <3>1, <3>3, RunFacts DEF ViewsInv, WholeRows, Shown
      <4> QED
        BY <2>5, <3>1, <4>1, WholeStays
    <3> QED
      BY <3>2, <3>3
  <2>15. ASSUME NEW i \in StepsOf("current") PROVE CurrentRow(i)'
    <3> DEFINE t == Steps[i].table
    <3>1. CASE current[t] = RowsOf(i, r)
      <4>1. r \in 1..Len(batches') /\ current'[t] = RowsOf(i, r)'
        BY <1>u, <1>2, <2>8, <3>1
      <4>2. \A s \in 1..Len(stored') : r >= stored'[s].covered
        BY <1>0, <1>2, <2>2, <2>4, <2>11
      <4> QED
        BY <2>7, <4>1, <4>2 DEF CurrentRow
    <3>2. CASE t \in lost
      <4>1. CASE current[t] = {}
        BY <1>u, <2>7, <3>2, <4>1 DEF CurrentRow
      <4>2. CASE current[t] # {}
        <5>1. PICK runId \in 1..Len(batches) : current[t] = RowsOf(i, runId)
          BY <4>2 DEF ViewsInv, CurrentRows, CurrentRow
        <5>2. runId \in 1..Len(batches') /\ current'[t] = RowsOf(i, runId)' /\ t \in lost'
          BY <1>u, <2>8, <3>2, <5>1
        <5> QED
          BY <2>7, <5>2 DEF CurrentRow
      <4> QED
        BY <4>1, <4>2
    <3> QED
      BY <2>10, <3>1, <3>2
  <2>16. PageRows'
    <3> SUFFICES ASSUME NEW p \in page, NEW s, s = p.snapshot, NEW first, first = p.due
                 PROVE  /\ s \in 1..Len(stored') /\ first \in 1..Len(batches')
                        /\ stored'[s].kept => FreshSince(s, first)'
      BY <1>u DEF PageRows, FreshSince
    <3>1. /\ s \in 1..Len(stored) /\ first \in 1..Len(batches)
          /\ stored[s].kept => FreshSince(s, first)
      BY DEF ViewsInv, PageRows
    <3>2. stored'[s].kept => stored[s].kept
      BY <1>2, <2>4, <3>1
    <3> QED
      BY <1>u, <2>4, <2>7, <2>8, <2>9, <3>1, <3>2 DEF FreshSince
  <2> QED
    BY <1>u, <2>6, <2>7, <2>12, <2>13, <2>14, <2>15, <2>16 DEF ViewsInv, CurrentRows
<1> QED
  BY <1>3, <1>4

-----------------------------------------------------------------------------
\* A list endpoint.
LEMMA RestStays ==
  ASSUME ViewsInv, PageRows', UNCHANGED <<collector, stored, current, collect, batches, lost>>
  PROVE  ViewsInv'
<1>1. Tame
  BY SameStored
<1>2. ViewsTypeOK'
  BY TypeStays DEF ViewsInv, ViewsTypeOK
<1>3. ASSUME NEW c \in collect PROVE RunAtWork(c)'
  <2>1. c.snapshot \in 1..Len(stored) /\ RunAtWork(c)
    BY RunFacts
  <2>2. \A s \in 1..Len(stored') : s > c.snapshot => stored'[s].status = "none"
    BY <2>1 DEF RunAtWork
  <2> QED
    BY <1>1, <2>2, RunStays DEF Tame
<1>4. WholeRows'
  BY <1>1, WholeStays, SameCollector DEF ViewsInv, WholeRows, Shown, Tame
<1>5. CurrentRows'
  BY <1>1, AllCurrentStay
<1>6. Successes' /\ FreshRows'
  BY SameCollector DEF ViewsInv, Successes, FreshRows, FreshSince, Shown, RowsOf, KeysOf
<1> QED
  BY <1>2, <1>3, <1>4, <1>5, <1>6 DEF ViewsInv

LEMMA ListStep == ViewsInv /\ List => ViewsInv'
<1> SUFFICES ASSUME ViewsInv, List PROVE ViewsInv'
  OBVIOUS
<1>u. UNCHANGED <<collector, stored, current, collect, batches, lost, viewFaults>>
  BY DEF List
<1>0. /\ Len(stored) \in Nat /\ Len(batches) \in Nat /\ DOMAIN stored = 1..Len(stored)
      /\ \A s \in 1..Len(stored) : stored[s].covered \in Nat
  BY ViewsFacts DEF Snapshots
<1>1. PICK S : S = Covering
  OBVIOUS
<1>2. PICK C : C = {stored[s].covered : s \in S}
  OBVIOUS
<1>3. /\ S # {} /\ S \subseteq 1..Len(stored) /\ \A s \in S : Shown(s)
  BY <1>0, <1>1 DEF List, Covering, Shown
<1>4. C \subseteq 1..Len(batches) /\ C # {}
  <2>1. ASSUME NEW s \in S PROVE stored[s].covered \in 1..Len(batches)
    BY <1>0, <1>3 DEF ViewsInv, Successes, Shown
  <2> QED
    BY <1>2, <1>3, <2>1
<1>5. Max(S) \in S /\ \A y \in S : y <= Max(S)
  BY <1>0, <1>3, MaxOfPositions
<1>6. Max(C) \in C
  BY <1>0, <1>4, MaxOfPositions
<1>7. PICK k, due : k = Max(S) /\ due = Max(C)
  OBVIOUS
<1>8. page' = {[snapshot |-> k, due |-> due]}
  BY <1>1, <1>2, <1>7 DEF List, GetLatestSnapshotWithCollector
<1>9. PICK s \in S : due = stored[s].covered
  BY <1>2, <1>6, <1>7
<1>10. k \in S /\ k \in 1..Len(stored) /\ s \in 1..Len(stored) /\ s <= k
  BY <1>3, <1>5, <1>7, <1>9
<1>11. due <= stored[k].covered
  <2>1. CASE s = k
    BY <1>0, <1>9, <1>10, <2>1
  <2>2. CASE s < k
    BY <1>3, <1>9, <1>10, <2>2 DEF ViewsInv, Successes, Shown
  <2> QED
    BY <1>10, <2>1, <2>2
<1>12. FreshSince(k, due)
  <2>1. PICK first : first = stored[k].covered
    OBVIOUS
  <2>2. FreshSince(k, first) /\ first \in Nat /\ due \in Nat
    BY <1>0, <1>3, <1>4, <1>6, <1>7, <1>10, <2>1 DEF ViewsInv, FreshRows
  <2>3. \A runId \in first..Len(batches) : runId \in due..Len(batches)
    BY <1>0, <1>11, <2>1, <2>2
  <2> QED
    BY <2>2, <2>3 DEF FreshSince
<1>13. FreshSince(k, due)'
  BY <1>u, <1>12 DEF FreshSince, StepsOf, Steps, RowsOf, KeysOf
<1>14. PageRows'
  <2> SUFFICES ASSUME NEW p \in page', NEW x, x = p.snapshot, NEW first, first = p.due
               PROVE  /\ x \in 1..Len(stored') /\ first \in 1..Len(batches')
                      /\ stored'[x].kept => FreshSince(x, first)'
    BY DEF PageRows, FreshSince
  <2>1. x = k /\ first = due
    BY <1>8
  <2> QED
    BY <1>u, <1>4, <1>6, <1>7, <1>10, <1>13, <2>1
<1> QED
  BY <1>u, <1>14, RestStays

LEMMA ListedStep == ViewsInv /\ Listed => ViewsInv'
BY RestStays DEF Listed, PageRows

LEMMA UnchangedViews == ViewsInv /\ UNCHANGED viewVars => ViewsInv'
<1> SUFFICES ASSUME ViewsInv, UNCHANGED viewVars PROVE ViewsInv'
  OBVIOUS
<1>1. PageRows'
  BY DEF ViewsInv, PageRows, viewVars, FreshSince, StepsOf, Steps, RowsOf, KeysOf
<1> QED
  BY <1>1, RestStays DEF viewVars

-----------------------------------------------------------------------------
LEMMA ViewsStart == ViewsInit => ViewsInv
<1> SUFFICES ASSUME ViewsInit PROVE ViewsInv
  OBVIOUS
<1> USE DEF ViewsInit
<1>1. ViewsTypeOK
  BY DEF ViewsTypeOK, RowsIn
<1>2. Len(stored) = 0 /\ Len(batches) = 0
  OBVIOUS
<1>3. Successes /\ FreshRows /\ WholeRows /\ PageRows
  BY <1>2 DEF Successes, FreshRows, WholeRows, PageRows
<1>4. ASSUME NEW i \in StepsOf("current") PROVE CurrentRow(i)
  <2>1. current[Steps[i].table] = {}
    BY TablesAre
  <2>2. \A s \in 1..Len(stored) : ~Shown(s)
    BY <1>2
  <2> QED
    BY <2>1, <2>2 DEF CurrentRow
<1> QED
  BY <1>1, <1>3, <1>4 DEF ViewsInv, CurrentRows

LEMMA ViewsSteps == ViewsInv /\ [ViewsNext]_viewVars => ViewsInv'
<1> SUFFICES ASSUME ViewsInv, [ViewsNext]_viewVars PROVE ViewsInv'
  OBVIOUS
<1>1. CASE CreateSnapshot \/ BeginCollect \/ PurgeOldSnapshots
  BY <1>1, CreateStep, BeginStep, PurgeStep
<1>2. CASE List \/ Listed \/ UNCHANGED viewVars
  BY <1>2, ListStep, ListedStep, UnchangedViews
<1>3. ASSUME NEW c \in collect,
             \/ Fetch(c) \/ FetchFails(c)
             \/ Save(c) \/ SaveFails(c)
             \/ SaveCurrent(c) \/ SaveCurrentFails(c) \/ RecordHistory(c)
             \/ RecordCollectorRun(c) \/ RecordFails(c) \/ CrashCollect(c)
      PROVE  ViewsInv'
  BY <1>3, FetchStep, FetchFailsStep, SaveStep, SaveFailsStep, SaveCurrentStep,
     SaveCurrentFailsStep, RecordHistoryStep, RecordStep, RecordFailsStep, CrashStep
<1> QED
  BY <1>1, <1>2, <1>3 DEF ViewsNext

\* What a snapshot shows is what its runs have read.
LEMMA WhatIsShown == ViewsInv => RunsAreWhole /\ PagesAreFresh
<1> SUFFICES ASSUME ViewsInv PROVE RunsAreWhole /\ PagesAreFresh
  OBVIOUS
<1>0. /\ Len(stored) \in Nat /\ Len(batches) \in Nat /\ DOMAIN stored = 1..Len(stored)
      /\ DOMAIN batches = 1..Len(batches) /\ collector \in Collectors
  BY ViewsFacts
<1>1. Covering = {s \in 1..Len(stored) : Shown(s)}
  BY <1>0 DEF Covering, Shown
<1>2. SuccessIsWhole
  <2> SUFFICES ASSUME NEW s \in Covering, ~stored[s].torn, \A c \in collect : c.snapshot # s
               PROVE  \E runId \in DOMAIN batches : WrittenBy(runId, s)
    BY DEF SuccessIsWhole
  <2>1. PICK runId \in 1..Len(batches) :
          \A i \in StepsOf("save") : stored[s].rows[Steps[i].table] = RowsOf(i, runId)
    BY <1>1 DEF ViewsInv, WholeRows, OneRun
  <2>2. ASSUME NEW t \in TablesOf("save") PROVE stored[s].rows[t] = Read(runId, "save", t)
    BY <1>0, <2>1, TablesAre, ReadIs
  <2> QED
    BY <1>0, <2>2 DEF WrittenBy
<1>3. FailedReadLeavesNothing
  BY RunFacts DEF FailedReadLeavesNothing, RunAtWork
<1>4. CurrentKeepsUp
  <2> SUFFICES ASSUME NEW t \in TablesOf("current")
               PROVE  \/ current[t] = {} /\ (t \in lost \/ Covering = {})
                      \/ \E runId \in DOMAIN batches :
                           /\ current[t] = Read(runId, "current", t)
                           /\ t \in lost \/ \A s \in Covering : runId >= stored[s].covered
    BY DEF CurrentKeepsUp
  <2>1. PICK i \in StepsOf("current") : t = Steps[i].table
    BY <1>0, TablesAre
  <2>2. CurrentRow(i)
    BY DEF ViewsInv, CurrentRows
  <2>3. \A runId : Read(runId, "current", t) = RowsOf(i, runId)
    BY <1>0, <2>1, ReadIs
  <2> QED
    BY <1>0, <1>1, <2>1, <2>2, <2>3 DEF CurrentRow
<1>5. ListsAreFresh
  <2> SUFFICES ASSUME NEW p \in page, stored[p.snapshot].kept, NEW t \in TablesOf("save")
               PROVE  \E runId \in p.due..Len(batches) :
                        stored[p.snapshot].rows[t] = Read(runId, "save", t)
    BY DEF ListsAreFresh
  <2>1. PICK i \in StepsOf("save") : t = Steps[i].table
    BY <1>0, TablesAre
  <2>2. PICK runId \in p.due..Len(batches) : stored[p.snapshot].rows[t] = RowsOf(i, runId)
    BY <2>1 DEF ViewsInv, PageRows, FreshSince
  <2>3. Read(runId, "save", t) = RowsOf(i, runId)
    BY <1>0, <2>1, ReadIs
  <2> QED
    BY <2>2, <2>3
<1> QED
  BY <1>2, <1>3, <1>4, <1>5 DEF RunsAreWhole, PagesAreFresh

\* A run that failed on its way is not taken for data: a snapshot in which a collector
\* succeeded, and into which no write failed, has the rows of one run in all its tables,
\* and a run that could not read all it needs changes nothing.
THEOREM RunsAlwaysWhole == ViewsSpec => []RunsAreWhole
<1>1. ViewsSpec => []ViewsInv
  BY ViewsStart, ViewsSteps, PTL DEF ViewsSpec
<1> QED
  BY <1>1, WhatIsShown, PTL

\* A page has, in each of the current tables, the rows of one run that is no older than
\* the last success on record, and a list nothing older than the last success on record
\* when it looked up its snapshot.
THEOREM PagesAlwaysFresh == ViewsSpec => []PagesAreFresh
<1>1. ViewsSpec => []ViewsInv
  BY ViewsStart, ViewsSteps, PTL DEF ViewsSpec
<1> QED
  BY <1>1, WhatIsShown, PTL

-----------------------------------------------------------------------------
(* Windows, periods and verdicts.                                          *)

LEMMA TailOf ==
  ASSUME NEW S, NEW q \in Seq(S), NEW m \in 0..Len(q), NEW r, r = SubSeq(q, m + 1, Len(q))
  PROVE  /\ r \in Seq(S) /\ Len(r) = Len(q) - m
         /\ \A j \in 1..Len(r) : r[j] = q[j + m]
OBVIOUS

LEMMA MaxFrom0 ==
  ASSUME NEW n \in Nat, NEW S \in SUBSET (0..n), S # {}
  PROVE  Max(S) \in S /\ \A y \in S : y <= Max(S)
<1> DEFINE T == {n - x : x \in S}
<1>1. T \subseteq Nat /\ T # {}
  <2>1. \A x \in S : n - x \in Nat
    OBVIOUS
  <2> QED
    BY <2>1
<1>2. PICK a \in T : \A b \in T : ~(<<b, a>> \in OpToRel(<, Nat))
  BY <1>1, NatLessThanWellFounded, WFMin
<1>3. ASSUME NEW b \in T PROVE a <= b
  <2>1. a \in Nat /\ b \in Nat
    BY <1>1
  <2>2. b < a => <<b, a>> \in OpToRel(<, Nat)
    BY <2>1, Zenon DEF OpToRel
  <2>3. ~(b < a)
    BY <1>2, <2>2, Zenon
  <2> QED
    BY <2>1, <2>3
<1>4. PICK x \in S : a = n - x
  OBVIOUS
<1>5. ASSUME NEW y \in S PROVE x >= y
  <2>1. a <= n - y
    BY <1>3
  <2> QED
    BY <1>4, <2>1
<1>6. Max(S) \in S /\ \A y \in S : Max(S) >= y
  BY <1>5 DEF Max
<1> QED
  BY <1>6

-----------------------------------------------------------------------------
(* Windows of the workload.                                                *)
WorkloadSpec == WorkloadInit /\ [][WorkloadNext]_workloadVars

Truths == [ran : Nat, spent : Nat, resets : Nat, kept : Nat, keptTime : Nat, missed : Nat]
Samples == [at : Nat, calls : Nat, total : Nat, truth : Truths]
Counters == [calls : Nat, total : Nat]

CountersTypeOK == /\ hour \in Nat /\ entries \in [1..Entries -> Counters] /\ truth \in Truths
                  /\ snapshots \subseteq Samples

\* What the statement's entries have together.
Calls == Summed(entries).calls
Total == Summed(entries).total

\* So many executions may have taken so long.
Possible(runs, time) ==
  runs \in Nat /\ time \in Nat /\ Min(Costs) * runs =< time /\ time =< Max(Costs) * runs

EntriesPossible == \A i \in 1..Entries : Possible(entries[i].calls, entries[i].total)

\* What is known of b is as much as of a, and more.
Later(a, b) ==
  /\ a.truth.ran =< b.truth.ran /\ a.truth.spent =< b.truth.spent
  /\ a.truth.resets =< b.truth.resets
  /\ a.truth.kept =< b.truth.kept /\ a.truth.keptTime =< b.truth.keptTime

\* b was sampled after a: the counters differ by what ran.  When an entry was lost they
\* grew by no more than that, and count no more than it and what the others held.
Follows(a, b) ==
  /\ Later(a, b)
  /\ Possible(b.calls, b.total)
  /\ a.truth.resets = b.truth.resets =>
       /\ b.calls - a.calls = Ran(a, b) /\ b.total - a.total = Spent(a, b)
       /\ Possible(b.calls - a.calls, b.total - a.total)
  /\ a.truth.resets # b.truth.resets =>
       /\ b.calls - a.calls =< Ran(a, b) /\ b.total - a.total =< Spent(a, b)
       /\ b.calls =< Ran(a, b) + Held(a, b) /\ b.total =< Spent(a, b) + HeldTime(a, b)

\* The history is in the order of time and has at most one sample of an hour.
InOrder ==
  /\ history \in Seq(Samples)
  /\ \A i \in 1..Len(history) :
       /\ history[i].at =< hour /\ Follows(history[i], ListedCounters)
       /\ history[i].at = hour => SampledNow
  /\ \A i, j \in 1..Len(history) :
       i < j => history[i].at < history[j].at /\ Follows(history[i], history[j])

ResolvedBefore ==
  resolution # None => resolution \in [at : 0..hour, lagging : BOOLEAN]

WorkloadInv ==
  /\ CountersTypeOK
  /\ EntriesPossible
  /\ \A s \in snapshots : s.at =< hour /\ Follows(s, ListedCounters)
  /\ \A s, t \in snapshots : s.at =< t.at => Follows(s, t)
  /\ InOrder /\ ResolvedBefore

-----------------------------------------------------------------------------
\* There is a cheapest execution and a dearest one.
LEMMA CostBounds ==
  /\ Min(Costs) \in Nat /\ Max(Costs) \in Nat
  /\ \A cost \in Costs : cost \in Nat /\ Min(Costs) =< cost /\ cost =< Max(Costs)
<1>1. PICK dearest \in Costs : \A cost \in Costs : cost =< dearest
  BY WorkloadAssumption
<1>2. Costs \subseteq Nat
  BY WorkloadAssumption
<1>3. \A x \in Costs : (\A y \in Costs : x >= y) => x = dearest
  BY <1>1, <1>2
<1>4. Max(Costs) = dearest
  BY <1>1, <1>2, <1>3 DEF Max
<1>5. PICK a \in Costs : \A b \in Costs : ~(<<b, a>> \in OpToRel(<, Nat))
  BY <1>1, <1>2, NatLessThanWellFounded, WFMin
<1>6. ASSUME NEW b \in Costs PROVE a =< b
  <2>1. a \in Nat /\ b \in Nat
    BY <1>2
  <2>2. b < a => <<b, a>> \in OpToRel(<, Nat)
    BY <2>1, Zenon DEF OpToRel
  <2>3. ~(b < a)
    BY <1>5, <2>2, Zenon
  <2> QED
    BY <2>1, <2>3
<1>7. \A x \in Costs : (\A y \in Costs : x =< y) => x = a
  BY <1>2, <1>6
<1>8. Min(Costs) = a
  BY <1>6, <1>7 DEF Min
<1> QED
  BY <1>1, <1>2, <1>4, <1>6, <1>8

LEMMA NoneIsPossible == Possible(0, 0)
BY CostBounds DEF Possible

LEMMA OneMore ==
  ASSUME NEW runs, NEW time, Possible(runs, time), NEW cost \in Costs
  PROVE  Possible(runs + 1, time + cost)
<1>1. PICK low, high : low = Min(Costs) /\ high = Max(Costs)
  OBVIOUS
<1>2. /\ low \in Nat /\ high \in Nat /\ cost \in Nat /\ low =< cost /\ cost =< high
      /\ runs \in Nat /\ time \in Nat /\ low * runs =< time /\ time =< high * runs
  BY <1>1, CostBounds DEF Possible
<1>3. low * (runs + 1) = low * runs + low /\ high * (runs + 1) = high * runs + high
  BY <1>2
<1>4. low * runs \in Nat /\ high * runs \in Nat
  BY <1>2
<1> QED
  BY <1>1, <1>2, <1>3, <1>4 DEF Possible

LEMMA PossibleSum ==
  ASSUME NEW r, NEW t, NEW u, NEW v, Possible(r, t), Possible(u, v)
  PROVE  Possible(r + u, t + v)
<1>1. PICK low, high : low = Min(Costs) /\ high = Max(Costs)
  OBVIOUS
<1>2. /\ low \in Nat /\ high \in Nat
      /\ r \in Nat /\ t \in Nat /\ low * r =< t /\ t =< high * r
      /\ u \in Nat /\ v \in Nat /\ low * u =< v /\ v =< high * u
  BY <1>1, CostBounds DEF Possible
<1>3. low * (r + u) = low * r + low * u /\ high * (r + u) = high * r + high * u
  BY <1>2
<1>4. low * r \in Nat /\ high * r \in Nat /\ low * u \in Nat /\ high * u \in Nat
  BY <1>2
<1> QED
  BY <1>1, <1>2, <1>3, <1>4 DEF Possible

-----------------------------------------------------------------------------
(* What the entries have together.                                         *)
\* What holds at a and goes on from each number to the next holds up to b.
LEMMA GoesOnTo ==
  ASSUME NEW S, NEW a \in Nat, NEW b \in Nat, a \in S,
         \A n \in a..b : n \in S /\ n < b => n + 1 \in S
  PROVE  a..b \subseteq S
<1> DEFINE T == {n \in a..b : n \notin S}
<1>1. SUFFICES ASSUME T # {} PROVE FALSE
  OBVIOUS
<1>2. T \subseteq Nat
  OBVIOUS
<1>3. PICK m \in T : \A k \in T : ~(<<k, m>> \in OpToRel(<, Nat))
  BY <1>1, <1>2, NatLessThanWellFounded, WFMin
<1>4. m \in a..b /\ m \notin S /\ m # a /\ m - 1 \in a..b /\ m - 1 < b
  OBVIOUS
<1>5. m - 1 \notin T
  <2>1. m - 1 \in Nat /\ m \in Nat /\ m - 1 < m
    BY <1>4
  <2>2. <<m - 1, m>> \in OpToRel(<, Nat)
    BY <2>1, Zenon DEF OpToRel
  <2> QED
    BY <1>3, <2>2, Zenon
<1>6. m - 1 \in S
  BY <1>4, <1>5
<1> QED
  BY <1>4, <1>6

SumAt(sum, rows, i) == IF i = 0 THEN Zero ELSE Plus(sum[i - 1], rows[i])

\* There is such a sum.
LEMMA SumExists ==
  ASSUME NEW rows, NEW n \in Nat
  PROVE  \E sum : sum = [i \in 0..n |-> SumAt(sum, rows, i)]
<1> DEFINE E == {m \in Nat : \E sum : sum = [i \in 0..m |-> SumAt(sum, rows, i)]}
<1>1. 0 \in E
  <2>1. PICK sum : sum = [i \in 0..0 |-> Zero]
    OBVIOUS
  <2>2. sum = [i \in 0..0 |-> SumAt(sum, rows, i)]
    BY <2>1 DEF SumAt
  <2> QED
    BY <2>2
<1>2. ASSUME NEW m \in 0..n, m \in E PROVE m + 1 \in E
  <2>1. PICK f : f = [i \in 0..m |-> SumAt(f, rows, i)]
    BY <1>2
  <2>2. PICK g : g = [i \in 0..m + 1 |-> SumAt(f, rows, i)]
    OBVIOUS
  <2>3. \A i \in 0..m : g[i] = f[i]
    BY <2>1, <2>2
  <2>4. \A i \in 0..m + 1 : SumAt(g, rows, i) = SumAt(f, rows, i)
    <3> SUFFICES ASSUME NEW i \in 0..m + 1
                 PROVE  SumAt(g, rows, i) = SumAt(f, rows, i)
      OBVIOUS
    <3>1. i = 0 \/ g[i - 1] = f[i - 1]
      BY <2>3
    <3> QED
      BY <3>1 DEF SumAt
  <2>5. g = [i \in 0..m + 1 |-> SumAt(g, rows, i)]
    BY <2>2, <2>4
  <2> QED
    BY <2>5
<1>3. 0..n \subseteq E
  BY <1>1, <1>2, GoesOnTo
<1> QED
  BY <1>3

LEMMA SummedIs ==
  ASSUME NEW rows
  PROVE  \E f : /\ f[0] = Zero /\ f[Entries] = Summed(rows)
                /\ \A i \in 0..Entries : i < Entries => f[i + 1] = Plus(f[i], rows[i + 1])
<1>1. Entries \in Nat \ {0}
  BY WorkloadAssumption
<1>2. PICK f : f = CHOOSE sum : sum = [i \in 0..Entries |-> SumAt(sum, rows, i)]
  OBVIOUS
<1>3. Summed(rows) = f[Entries]
  BY <1>2 DEF Summed, SumAt
<1>4. f = [i \in 0..Entries |-> SumAt(f, rows, i)]
  BY <1>1, <1>2, SumExists
<1>5. \A i \in 0..Entries : f[i] = SumAt(f, rows, i)
  BY <1>4
<1>6. f[0] = Zero
  BY <1>1, <1>5 DEF SumAt
<1>7. ASSUME NEW i \in 0..Entries, i < Entries
      PROVE  f[i + 1] = Plus(f[i], rows[i + 1])
  <2>1. i + 1 \in 0..Entries /\ i + 1 # 0 /\ (i + 1) - 1 = i
    BY <1>1, <1>7
  <2> QED
    BY <1>5, <2>1 DEF SumAt
<1> QED
  BY <1>3, <1>6, <1>7

LEMMA PlusIs ==
  ASSUME NEW x, NEW y
  PROVE  /\ Plus(x, y).calls = x.calls + y.calls /\ Plus(x, y).total = x.total + y.total
         /\ Zero.calls = 0 /\ Zero.total = 0
BY DEF Plus, Zero

LEMMA SummedPossible ==
  ASSUME NEW rows, \A i \in 1..Entries : Possible(rows[i].calls, rows[i].total)
  PROVE  Possible(Summed(rows).calls, Summed(rows).total)
<1>1. PICK f : /\ f[0] = Zero /\ f[Entries] = Summed(rows)
               /\ \A i \in 0..Entries : i < Entries => f[i + 1] = Plus(f[i], rows[i + 1])
  BY SummedIs
<1>2. Entries \in Nat
  BY WorkloadAssumption
<1>3. PICK T : T = {i \in Nat : Possible(f[i].calls, f[i].total)}
  OBVIOUS
<1>4. 0 \in T
  BY <1>1, <1>3, PlusIs, NoneIsPossible
<1>5. ASSUME NEW n \in 0..Entries, n \in T, n < Entries PROVE n + 1 \in T
  <2>1. n + 1 \in 1..Entries /\ n + 1 \in Nat
    BY <1>2, <1>5
  <2>2. Possible(f[n].calls, f[n].total) /\ Possible(rows[n + 1].calls, rows[n + 1].total)
    BY <1>3, <1>5, <2>1
  <2>3. f[n + 1] = Plus(f[n], rows[n + 1])
    BY <1>1, <1>5
  <2>4. Possible(f[n + 1].calls, f[n + 1].total)
    BY <2>2, <2>3, PlusIs, PossibleSum
  <2> QED
    BY <1>3, <2>1, <2>4
<1>6. Entries \in T
  <2>1. 0 \in Nat /\ Entries \in 0..Entries
    BY <1>2
  <2>2. 0..Entries \subseteq T
    BY <1>2, <1>4, <1>5, <2>1, GoesOnTo
  <2> QED
    BY <2>1, <2>2
<1> QED
  BY <1>1, <1>3, <1>6

\* Entries that all have less have less together.
LEMMA SummedLess ==
  ASSUME NEW rows \in [1..Entries -> Counters], NEW less \in [1..Entries -> Counters],
         \A i \in 1..Entries : less[i].calls =< rows[i].calls /\ less[i].total =< rows[i].total
  PROVE  Summed(less).calls =< Summed(rows).calls /\ Summed(less).total =< Summed(rows).total
<1>1. PICK f : /\ f[0] = Zero /\ f[Entries] = Summed(rows)
               /\ \A i \in 0..Entries : i < Entries => f[i + 1] = Plus(f[i], rows[i + 1])
  BY SummedIs
<1>2. PICK g : /\ g[0] = Zero /\ g[Entries] = Summed(less)
               /\ \A i \in 0..Entries : i < Entries => g[i + 1] = Plus(g[i], less[i + 1])
  BY SummedIs
<1>3. Entries \in Nat
  BY WorkloadAssumption
<1>4. PICK T : T = {i \in Nat : /\ f[i].calls \in Nat /\ f[i].total \in Nat
                                /\ g[i].calls \in Nat /\ g[i].total \in Nat
                                /\ g[i].calls =< f[i].calls /\ g[i].total =< f[i].total}
  OBVIOUS
<1>5. 0 \in T
  BY <1>1, <1>2, <1>4, PlusIs
<1>6. ASSUME NEW n \in 0..Entries, n \in T, n < Entries PROVE n + 1 \in T
  <2>1. n + 1 \in 1..Entries /\ n + 1 \in Nat
    BY <1>3, <1>6
  <2>2. PICK x, y : x = rows[n + 1] /\ y = less[n + 1]
    OBVIOUS
  <2>3. /\ x.calls \in Nat /\ x.total \in Nat /\ y.calls \in Nat /\ y.total \in Nat
        /\ y.calls =< x.calls /\ y.total =< x.total
    BY <2>1, <2>2 DEF Counters
  <2>4. /\ f[n + 1].calls = f[n].calls + x.calls /\ f[n + 1].total = f[n].total + x.total
        /\ g[n + 1].calls = g[n].calls + y.calls /\ g[n + 1].total = g[n].total + y.total
    BY <1>1, <1>2, <1>6, <2>2, PlusIs
  <2>5. /\ f[n].calls \in Nat /\ f[n].total \in Nat /\ g[n].calls \in Nat /\ g[n].total \in Nat
        /\ g[n].calls =< f[n].calls /\ g[n].total =< f[n].total
    BY <1>4, <1>6
  <2>6. \A k, l, u, v \in Nat : k =< l /\ u =< v => k + u \in Nat /\ l + v \in Nat /\ k + u =< l + v
    OBVIOUS
  <2>7. /\ g[n].calls + y.calls \in Nat /\ f[n].calls + x.calls \in Nat
        /\ g[n].calls + y.calls =< f[n].calls + x.calls
        /\ g[n].total + y.total \in Nat /\ f[n].total + x.total \in Nat
        /\ g[n].total + y.total =< f[n].total + x.total
    BY <2>3, <2>5, <2>6
  <2>8. /\ f[n + 1].calls \in Nat /\ g[n + 1].calls \in Nat
        /\ g[n + 1].calls =< f[n + 1].calls
        /\ f[n + 1].total \in Nat /\ g[n + 1].total \in Nat
        /\ g[n + 1].total =< f[n + 1].total
    BY <2>4, <2>7, Zenon
  <2> QED
    BY <1>4, <2>1, <2>8
<1>7. Entries \in T
  <2>1. 0 \in Nat /\ Entries \in 0..Entries
    BY <1>3
  <2>2. 0..Entries \subseteq T
    BY <1>3, <1>5, <1>6, <2>1, GoesOnTo
  <2> QED
    BY <2>1, <2>2
<1> QED
  BY <1>1, <1>2, <1>4, <1>7

\* What one entry has more they have more together.
LEMMA SummedMore ==
  ASSUME NEW rows \in [1..Entries -> Counters], NEW x \in Counters, NEW e \in 1..Entries,
         NEW more, more = [rows EXCEPT ![e] = Plus(@, x)]
  PROVE  /\ Summed(more).calls = Summed(rows).calls + x.calls
         /\ Summed(more).total = Summed(rows).total + x.total
<1>1. PICK f : /\ f[0] = Zero /\ f[Entries] = Summed(rows)
               /\ \A i \in 0..Entries : i < Entries => f[i + 1] = Plus(f[i], rows[i + 1])
  BY SummedIs
<1>2. PICK g : /\ g[0] = Zero /\ g[Entries] = Summed(more)
               /\ \A i \in 0..Entries : i < Entries => g[i + 1] = Plus(g[i], more[i + 1])
  BY SummedIs
<1>3. Entries \in Nat /\ e \in Nat /\ 0 < e /\ e =< Entries
  BY WorkloadAssumption
<1>4. PICK cs, ts : cs = x.calls /\ ts = x.total
  OBVIOUS
<1>5. cs \in Nat /\ ts \in Nat
  BY <1>4 DEF Counters
<1>6. PICK T : T = {i \in Nat : /\ f[i].calls \in Nat /\ f[i].total \in Nat
                                /\ g[i].calls = f[i].calls + (IF e =< i THEN cs ELSE 0)
                                /\ g[i].total = f[i].total + (IF e =< i THEN ts ELSE 0)}
  OBVIOUS
<1>7. 0 \in T
  <2>1. f[0].calls = 0 /\ f[0].total = 0 /\ g[0].calls = 0 /\ g[0].total = 0
    BY <1>1, <1>2, PlusIs
  <2>2. ~(e =< 0)
    BY <1>3
  <2> QED
    BY <1>6, <2>1, <2>2
<1>8. ASSUME NEW n \in 0..Entries, n \in T, n < Entries PROVE n + 1 \in T
  <2>1. n + 1 \in 1..Entries /\ n + 1 \in Nat /\ n \in Nat
    BY <1>3, <1>8
  <2>2. PICK r, s : r = rows[n + 1] /\ s = more[n + 1]
    OBVIOUS
  <2>3. /\ r.calls \in Nat /\ r.total \in Nat
        /\ s = IF n + 1 = e THEN Plus(r, x) ELSE r
    BY <2>1, <2>2 DEF Counters
  <2>4. /\ s.calls = r.calls + (IF n + 1 = e THEN cs ELSE 0)
        /\ s.total = r.total + (IF n + 1 = e THEN ts ELSE 0)
    BY <1>4, <2>3, PlusIs
  <2>5. /\ f[n + 1].calls = f[n].calls + r.calls /\ f[n + 1].total = f[n].total + r.total
        /\ g[n + 1].calls = g[n].calls + s.calls /\ g[n + 1].total = g[n].total + s.total
    BY <1>1, <1>2, <1>8, <2>2, PlusIs
  <2>6. /\ f[n].calls \in Nat /\ f[n].total \in Nat
        /\ g[n].calls = f[n].calls + (IF e =< n THEN cs ELSE 0)
        /\ g[n].total = f[n].total + (IF e =< n THEN ts ELSE 0)
    BY <1>6, <1>8
  <2>7. e =< n + 1 <=> e =< n \/ n + 1 = e
    BY <1>3, <2>1
  <2>8. ~(e =< n /\ n + 1 = e)
    BY <1>3, <2>1
  <2>9. /\ g[n + 1].calls = f[n + 1].calls + (IF e =< n + 1 THEN cs ELSE 0)
        /\ g[n + 1].total = f[n + 1].total + (IF e =< n + 1 THEN ts ELSE 0)
    BY <1>5, <2>3, <2>4, <2>5, <2>6, <2>7, <2>8
  <2>10. f[n + 1].calls \in Nat /\ f[n + 1].total \in Nat
    BY <2>3, <2>5, <2>6
  <2> QED
    BY <1>6, <2>1, <2>9, <2>10
<1>9. Entries \in T
  <2>1. 0 \in Nat /\ Entries \in 0..Entries
    BY <1>3
  <2>2. 0..Entries \subseteq T
    BY <1>3, <1>7, <1>8, <2>1, GoesOnTo
  <2> QED
    BY <2>1, <2>2
<1> QED
  BY <1>1, <1>2, <1>3, <1>4, <1>6, <1>9

-----------------------------------------------------------------------------
\* A sample the counters follow.
Sampled(s) == s \in Samples /\ Follows(s, ListedCounters)

LEMMA TruthIs ==
  ASSUME NEW t \in Truths
  PROVE  t.ran \in Nat /\ t.spent \in Nat /\ t.resets \in Nat /\ t.kept \in Nat /\ t.keptTime \in Nat
BY DEF Truths

LEMMA SampleIs ==
  ASSUME NEW s \in Samples
  PROVE  /\ s.at \in Nat /\ s.calls \in Nat /\ s.total \in Nat
         /\ s.truth.ran \in Nat /\ s.truth.spent \in Nat /\ s.truth.resets \in Nat
         /\ s.truth.kept \in Nat /\ s.truth.keptTime \in Nat
<1>1. s.at \in Nat /\ s.calls \in Nat /\ s.total \in Nat /\ s.truth \in Truths
  BY DEF Samples
<1> QED
  BY <1>1, TruthIs

LEMMA Numbers ==
  ASSUME WorkloadInv
  PROVE  /\ hour \in Nat /\ Calls \in Nat /\ Total \in Nat /\ truth \in Truths
         /\ truth.ran \in Nat /\ truth.spent \in Nat /\ truth.resets \in Nat
         /\ truth.kept \in Nat /\ truth.keptTime \in Nat
         /\ Possible(Calls, Total)
<1>1. Possible(Calls, Total)
  BY SummedPossible DEF WorkloadInv, EntriesPossible, Calls, Total
<1>2. hour \in Nat /\ truth \in Truths
  BY DEF WorkloadInv, CountersTypeOK
<1> QED
  BY <1>1, <1>2, TruthIs DEF Possible

LEMMA ListedIs ==
  /\ ListedCounters.at = hour /\ ListedCounters.calls = Calls /\ ListedCounters.total = Total
  /\ ListedCounters.truth = truth
BY DEF ListedCounters, Calls, Total

LEMMA AllSampled ==
  ASSUME WorkloadInv
  PROVE  /\ \A s \in snapshots : Sampled(s) /\ s.at \in Nat
         /\ Len(history) \in Nat /\ DOMAIN history = 1..Len(history)
         /\ history \in Seq(Samples)
         /\ \A i \in 1..Len(history) : Sampled(history[i])
<1>1. \A s \in snapshots : Sampled(s) /\ s.at \in Nat
  BY SampleIs DEF WorkloadInv, CountersTypeOK, Sampled
<1>2. history \in Seq(Samples) /\ \A i \in 1..Len(history) : Follows(history[i], ListedCounters)
  BY DEF WorkloadInv, InOrder
<1>3. Len(history) \in Nat /\ DOMAIN history = 1..Len(history)
      /\ \A i \in 1..Len(history) : history[i] \in Samples
  BY <1>2
<1> QED
  BY <1>1, <1>2, <1>3 DEF Sampled

LEMMA FollowsNow ==
  ASSUME WorkloadInv, NEW s, Sampled(s)
  PROVE  /\ s.truth.resets =< truth.resets
         /\ s.truth.ran =< truth.ran /\ s.truth.spent =< truth.spent
         /\ s.truth.kept =< truth.kept /\ s.truth.keptTime =< truth.keptTime
         /\ s.truth.resets = truth.resets =>
              /\ Calls - s.calls = truth.ran - s.truth.ran
              /\ Total - s.total = truth.spent - s.truth.spent
              /\ Possible(Calls - s.calls, Total - s.total)
         /\ s.truth.resets # truth.resets =>
              /\ Calls - s.calls =< truth.ran - s.truth.ran
              /\ Total - s.total =< truth.spent - s.truth.spent
              /\ Calls =< (truth.ran - s.truth.ran) + (truth.kept - s.truth.kept)
              /\ Total =< (truth.spent - s.truth.spent) + (truth.keptTime - s.truth.keptTime)
BY ListedIs DEF Sampled, Follows, Later, Ran, Spent, Held, HeldTime

\* Steps that sample nothing: what was sampled is followed by the new counters.
LEMMA NothingSampled ==
  ASSUME WorkloadInv, UNCHANGED <<history, snapshots, resolution>>,
         CountersTypeOK', EntriesPossible',
         hour' \in Nat, hour =< hour', hour' = hour \/ hour' = hour + 1,
         \A s : Sampled(s) => Follows(s, ListedCounters')
  PROVE  WorkloadInv'
<1>1. \A a, b : Follows(a, b)' <=> Follows(a, b)
  BY DEF Follows, Later, Ran, Spent, Held, HeldTime
<1>2. \A s \in snapshots : s.at =< hour' /\ Follows(s, ListedCounters')
  BY Numbers, AllSampled DEF WorkloadInv
<1>3. InOrder'
  <2>1. \A i \in 1..Len(history) :
          /\ history[i].at =< hour' /\ Follows(history[i], ListedCounters')
          /\ history[i].at = hour' => \E s \in snapshots : s.at = hour'
    <3> SUFFICES ASSUME NEW i \in 1..Len(history)
                 PROVE  /\ history[i].at =< hour' /\ Follows(history[i], ListedCounters')
                        /\ history[i].at = hour' => \E s \in snapshots : s.at = hour'
      OBVIOUS
    <3>1. /\ history[i].at \in Nat /\ history[i].at =< hour /\ Sampled(history[i])
          /\ history[i].at = hour => \E s \in snapshots : s.at = hour
      BY Numbers, AllSampled, SampleIs DEF WorkloadInv, InOrder, SampledNow, Sampled
    <3> QED
      BY <3>1, Numbers, AllSampled
  <2> QED
    BY <1>1, <2>1 DEF WorkloadInv, InOrder, SampledNow
<1>4. ResolvedBefore'
  BY Numbers, AllSampled DEF WorkloadInv, ResolvedBefore
<1> QED
  BY <1>1, <1>2, <1>3, <1>4 DEF WorkloadInv

\* What the entries have after a step follows a sample when this is so.
LEMMA FollowsThen ==
  ASSUME NEW s, Possible(Calls', Total'),
         /\ s.truth.ran =< truth'.ran /\ s.truth.spent =< truth'.spent
         /\ s.truth.resets =< truth'.resets
         /\ s.truth.kept =< truth'.kept /\ s.truth.keptTime =< truth'.keptTime,
         s.truth.resets = truth'.resets =>
           /\ Calls' - s.calls = truth'.ran - s.truth.ran
           /\ Total' - s.total = truth'.spent - s.truth.spent
           /\ Possible(Calls' - s.calls, Total' - s.total),
         s.truth.resets # truth'.resets =>
           /\ Calls' - s.calls =< truth'.ran - s.truth.ran
           /\ Total' - s.total =< truth'.spent - s.truth.spent
           /\ Calls' =< (truth'.ran - s.truth.ran) + (truth'.kept - s.truth.kept)
           /\ Total' =< (truth'.spent - s.truth.spent) + (truth'.keptTime - s.truth.keptTime)
  PROVE  Follows(s, ListedCounters')
<1>1. /\ ListedCounters'.calls = Calls' /\ ListedCounters'.total = Total'
      /\ ListedCounters'.truth = truth'
  BY DEF ListedCounters, Calls, Total
<1> QED
  BY <1>1 DEF Follows, Later, Ran, Spent, Held, HeldTime

LEMMA ExecuteStep == WorkloadInv /\ Execute => WorkloadInv'
<1> SUFFICES ASSUME WorkloadInv, Execute PROVE WorkloadInv'
  OBVIOUS
<1>1. PICK e \in 1..Entries, cost \in Costs :
        /\ entries' = [entries EXCEPT ![e] = Plus(@, [calls |-> 1, total |-> cost])]
        /\ truth' = [truth EXCEPT !.ran = @ + 1, !.spent = @ + cost]
  BY DEF Execute
<1>2. hour' = hour /\ UNCHANGED <<history, snapshots, resolution>>
  BY DEF Execute
<1>3. cost \in Nat /\ [calls |-> 1, total |-> cost] \in Counters
  BY CostBounds DEF Counters
<1>4. /\ truth' \in Truths /\ truth'.ran = truth.ran + 1
      /\ truth'.spent = truth.spent + cost /\ truth'.resets = truth.resets
      /\ truth'.kept = truth.kept /\ truth'.keptTime = truth.keptTime
  <2>1. truth.ran + 1 \in Nat /\ truth.spent + cost \in Nat /\ truth \in Truths
    BY <1>3, Numbers
  <2> QED
    BY <1>1, <2>1 DEF Truths
<1>5. entries \in [1..Entries -> Counters]
  BY DEF WorkloadInv, CountersTypeOK
<1>6. ASSUME NEW i \in 1..Entries
      PROVE  entries'[i] \in Counters /\ Possible(entries'[i].calls, entries'[i].total)
  <2>1. entries[i] \in Counters /\ Possible(entries[i].calls, entries[i].total)
    BY <1>5 DEF WorkloadInv, EntriesPossible
  <2>2. CASE i # e
    BY <1>1, <1>5, <2>1, <2>2
  <2>3. CASE i = e
    <3>1. entries'[i] = [calls |-> entries[i].calls + 1, total |-> entries[i].total + cost]
      BY <1>1, <1>5, <2>3 DEF Plus
    <3>2. Possible(entries[i].calls + 1, entries[i].total + cost)
      BY <2>1, OneMore
    <3> QED
      BY <3>1, <3>2 DEF Counters, Possible
  <2> QED
    BY <2>2, <2>3
<1>7. CountersTypeOK'
  <2>1. entries' \in [1..Entries -> Counters]
    BY <1>1, <1>5, <1>6
  <2> QED
    BY <1>2, <1>4, <2>1 DEF WorkloadInv, CountersTypeOK
<1>8. EntriesPossible'
  BY <1>6 DEF EntriesPossible
<1>9. Calls' = Calls + 1 /\ Total' = Total + cost
  <2>1. PICK x : x = [calls |-> 1, total |-> cost]
    OBVIOUS
  <2>2. x \in Counters /\ x.calls = 1 /\ x.total = cost
    BY <1>3, <2>1
  <2>3. entries' = [entries EXCEPT ![e] = Plus(@, x)]
    BY <1>1, <2>1
  <2>4. /\ Summed(entries').calls = Summed(entries).calls + 1
        /\ Summed(entries').total = Summed(entries).total + cost
    BY <1>5, <2>2, <2>3, SummedMore
  <2> QED
    BY <2>4 DEF Calls, Total
<1>10. Possible(Calls', Total')
  BY <1>9, Numbers, OneMore
<1>11. ASSUME NEW s, Sampled(s) PROVE Follows(s, ListedCounters')
  <2>0. /\ s.calls \in Nat /\ s.total \in Nat /\ s.truth.ran \in Nat /\ s.truth.spent \in Nat
        /\ s.truth.resets \in Nat /\ s.truth.kept \in Nat /\ s.truth.keptTime \in Nat
    BY <1>11, SampleIs DEF Sampled
  <2>1. CASE s.truth.resets = truth.resets
    <3>1. Possible((Calls - s.calls) + 1, (Total - s.total) + cost)
      BY <1>11, <2>1, FollowsNow, OneMore
    <3>2. Calls' - s.calls = (Calls - s.calls) + 1 /\ Total' - s.total = (Total - s.total) + cost
      BY <1>3, <1>9, <2>0, Numbers
    <3>3. /\ Calls' - s.calls = truth'.ran - s.truth.ran
          /\ Total' - s.total = truth'.spent - s.truth.spent
          /\ s.truth.ran =< truth'.ran /\ s.truth.spent =< truth'.spent
          /\ s.truth.kept =< truth'.kept /\ s.truth.keptTime =< truth'.keptTime
          /\ s.truth.resets = truth'.resets /\ s.truth.resets =< truth'.resets
      BY <1>3, <1>4, <1>9, <1>11, <2>0, <2>1, Numbers, FollowsNow
    <3> QED
      BY <1>10, <3>1, <3>2, <3>3, FollowsThen
  <2>2. CASE s.truth.resets # truth.resets
    <3>1. /\ Calls' - s.calls =< truth'.ran - s.truth.ran
          /\ Total' - s.total =< truth'.spent - s.truth.spent
          /\ Calls' =< (truth'.ran - s.truth.ran) + (truth'.kept - s.truth.kept)
          /\ Total' =< (truth'.spent - s.truth.spent) + (truth'.keptTime - s.truth.keptTime)
          /\ s.truth.ran =< truth'.ran /\ s.truth.spent =< truth'.spent
          /\ s.truth.kept =< truth'.kept /\ s.truth.keptTime =< truth'.keptTime
          /\ s.truth.resets # truth'.resets /\ s.truth.resets =< truth'.resets
      BY <1>3, <1>4, <1>9, <1>11, <2>0, <2>2, Numbers, FollowsNow
    <3> QED
      BY <1>10, <3>1, FollowsThen
  <2> QED
    BY <2>1, <2>2
<1> QED
  BY <1>2, <1>7, <1>8, <1>11, Numbers, NothingSampled

LEMMA LoseEntriesStep == WorkloadInv /\ LoseEntries => WorkloadInv'
<1> SUFFICES ASSUME WorkloadInv, LoseEntries PROVE WorkloadInv'
  OBVIOUS
<1>1. PICK gone : entries' = [i \in 1..Entries |-> IF i \in gone THEN Zero ELSE entries[i]]
  BY DEF LoseEntries
<1>2. /\ truth' = [truth EXCEPT !.resets = @ + 1, !.kept = @ + Calls', !.keptTime = @ + Total']
      /\ hour' = hour /\ UNCHANGED <<history, snapshots, resolution>>
  BY DEF LoseEntries, Calls, Total
<1>3. entries \in [1..Entries -> Counters]
  BY DEF WorkloadInv, CountersTypeOK
<1>4. ASSUME NEW i \in 1..Entries
      PROVE  /\ entries'[i] \in Counters /\ Possible(entries'[i].calls, entries'[i].total)
             /\ entries'[i].calls =< entries[i].calls /\ entries'[i].total =< entries[i].total
  <2>1. /\ entries[i] \in Counters /\ Possible(entries[i].calls, entries[i].total)
        /\ entries[i].calls \in Nat /\ entries[i].total \in Nat
    BY <1>3 DEF WorkloadInv, EntriesPossible, Counters
  <2>2. CASE i \in gone
    <3>1. entries'[i] = Zero
      BY <1>1, <2>2
    <3> QED
      BY <2>1, <3>1, NoneIsPossible DEF Zero, Counters
  <2>3. CASE i \notin gone
    BY <1>1, <2>1, <2>3
  <2> QED
    BY <2>2, <2>3
<1>5. entries' \in [1..Entries -> Counters]
  BY <1>1, <1>4
<1>6. EntriesPossible'
  BY <1>4 DEF EntriesPossible
<1>7. Possible(Calls', Total') /\ Calls' =< Calls /\ Total' =< Total
  <2>1. Possible(Summed(entries').calls, Summed(entries').total)
    BY <1>4, SummedPossible
  <2>2. Summed(entries').calls =< Summed(entries).calls
        /\ Summed(entries').total =< Summed(entries).total
    BY <1>3, <1>4, <1>5, SummedLess
  <2> QED
    BY <2>1, <2>2 DEF Calls, Total
<1>8. Calls' \in Nat /\ Total' \in Nat
  BY <1>7 DEF Possible
<1>9. /\ truth' \in Truths /\ truth'.ran = truth.ran
      /\ truth'.spent = truth.spent /\ truth'.resets = truth.resets + 1
      /\ truth'.kept = truth.kept + Calls' /\ truth'.keptTime = truth.keptTime + Total'
  <2>1. /\ truth \in Truths /\ truth.resets + 1 \in Nat
        /\ truth.kept + Calls' \in Nat /\ truth.keptTime + Total' \in Nat
    BY <1>8, Numbers
  <2> QED
    BY <1>2, <2>1 DEF Truths
<1>10. CountersTypeOK'
  BY <1>2, <1>5, <1>9 DEF WorkloadInv, CountersTypeOK
<1>11. ASSUME NEW s, Sampled(s) PROVE Follows(s, ListedCounters')
  <2>0. /\ s.calls \in Nat /\ s.total \in Nat /\ s.truth.ran \in Nat /\ s.truth.spent \in Nat
        /\ s.truth.resets \in Nat /\ s.truth.kept \in Nat /\ s.truth.keptTime \in Nat
    BY <1>11, SampleIs DEF Sampled
  <2>1. /\ s.truth.resets < truth'.resets /\ s.truth.resets =< truth'.resets
        /\ s.truth.resets # truth'.resets
        /\ s.truth.ran =< truth.ran /\ s.truth.spent =< truth.spent
        /\ s.truth.ran =< truth'.ran /\ s.truth.spent =< truth'.spent
        /\ s.truth.kept =< truth.kept /\ s.truth.keptTime =< truth.keptTime
        /\ s.truth.kept =< truth'.kept /\ s.truth.keptTime =< truth'.keptTime
    BY <1>8, <1>9, <1>11, <2>0, Numbers, FollowsNow
  <2>2. Calls - s.calls =< truth.ran - s.truth.ran /\ Total - s.total =< truth.spent - s.truth.spent
    <3>1. CASE s.truth.resets = truth.resets
      BY <1>11, <2>0, <3>1, Numbers, FollowsNow
    <3>2. CASE s.truth.resets # truth.resets
      BY <1>11, <3>2, FollowsNow
    <3> QED
      BY <3>1, <3>2
  <2>3. /\ Calls' - s.calls =< truth'.ran - s.truth.ran
        /\ Total' - s.total =< truth'.spent - s.truth.spent
    BY <1>7, <1>8, <1>9, <2>0, <2>2, Numbers
  <2>4. /\ Calls' =< (truth'.ran - s.truth.ran) + (truth'.kept - s.truth.kept)
        /\ Total' =< (truth'.spent - s.truth.spent) + (truth'.keptTime - s.truth.keptTime)
    BY <1>8, <1>9, <2>0, <2>1, Numbers
  <2> QED
    BY <1>7, <2>1, <2>3, <2>4, FollowsThen
<1> QED
  BY <1>2, <1>6, <1>10, <1>11, Numbers, NothingSampled

LEMMA TickStep == WorkloadInv /\ Tick => WorkloadInv'
<1> SUFFICES ASSUME WorkloadInv, Tick PROVE WorkloadInv'
  OBVIOUS
<1>1. /\ hour' = hour + 1 /\ entries' = entries
      /\ UNCHANGED <<history, snapshots, resolution>>
      /\ truth' = truth \/ truth' = [truth EXCEPT !.missed = @ + 1]
  BY DEF Tick
<1>2. /\ truth' \in Truths /\ truth'.ran = truth.ran
      /\ truth'.spent = truth.spent /\ truth'.resets = truth.resets
      /\ truth'.kept = truth.kept /\ truth'.keptTime = truth.keptTime
  BY <1>1, Numbers DEF Truths
<1>3. CountersTypeOK' /\ EntriesPossible'
  BY <1>1, <1>2 DEF WorkloadInv, CountersTypeOK, EntriesPossible
<1>4. Calls' = Calls /\ Total' = Total
  BY <1>1 DEF Calls, Total
<1>5. ASSUME NEW s, Sampled(s) PROVE Follows(s, ListedCounters')
  BY <1>2, <1>4, <1>5, Numbers, FollowsNow, FollowsThen
<1>6. hour' \in Nat /\ hour =< hour'
  BY <1>1, Numbers
<1> QED
  BY <1>1, <1>3, <1>5, <1>6, NothingSampled

LEMMA SampleStep == WorkloadInv /\ SampleQueryStats => WorkloadInv'
<1> SUFFICES ASSUME WorkloadInv, SampleQueryStats PROVE WorkloadInv'
  OBVIOUS
<1>1. PICK now : now = ListedCounters
  OBVIOUS
<1>2. /\ snapshots' = snapshots \cup {now}
      /\ UNCHANGED <<hour, entries, truth, resolution>>
      /\ \A s \in snapshots : s.at # hour
      /\ history' = history \/ history' = Append(history, now)
  BY <1>1 DEF SampleQueryStats, SampledNow
<1>3. /\ now \in Samples /\ now.at = hour /\ now.calls = Calls /\ now.total = Total
      /\ now.truth = truth
  BY <1>1, Numbers, ListedIs DEF ListedCounters, Samples, Calls, Total
<1>4. CountersTypeOK'
  BY <1>2, <1>3 DEF WorkloadInv, CountersTypeOK
<1>5. ListedCounters' = now /\ \A a, b : Follows(a, b)' <=> Follows(a, b)
  BY <1>1, <1>2 DEF ListedCounters, Follows, Later, Ran, Spent, Held, HeldTime
<1>6. \A s \in snapshots : Follows(s, now) /\ s.at < hour
  BY <1>1, <1>2, Numbers, AllSampled DEF WorkloadInv
<1>7. Follows(now, now)
  <2>1. /\ Calls - Calls = 0 /\ Total - Total = 0 /\ truth.ran - truth.ran = 0
        /\ truth.spent - truth.spent = 0
        /\ truth.resets =< truth.resets /\ truth.ran =< truth.ran /\ truth.spent =< truth.spent
        /\ truth.kept =< truth.kept /\ truth.keptTime =< truth.keptTime
    BY Numbers
  <2> QED
    BY <1>3, <2>1, Numbers, NoneIsPossible DEF Follows, Later, Ran, Spent
<1>8. \A s, t \in snapshots' : s.at =< t.at => Follows(s, t)
  BY <1>2, <1>3, <1>6, <1>7, Numbers, AllSampled DEF WorkloadInv
<1>9. \A s \in snapshots' : s.at =< hour /\ Follows(s, now)
  BY <1>2, <1>3, <1>6, <1>7, Numbers, AllSampled
<1>10. EntriesPossible' /\ ResolvedBefore'
  BY <1>2 DEF WorkloadInv, EntriesPossible, ResolvedBefore
<1>11. SampledNow'
  BY <1>2, <1>3 DEF SampledNow
<1>12. /\ Len(history) \in Nat /\ history \in Seq(Samples)
       /\ \A i \in 1..Len(history) :
            /\ history[i].at \in Nat /\ history[i].at < hour /\ Follows(history[i], now)
  <2>1. \A i \in 1..Len(history) :
            /\ history[i].at =< hour /\ Follows(history[i], now)
            /\ history[i].at # hour /\ history[i] \in Samples
    BY <1>1, <1>2, Numbers, AllSampled DEF WorkloadInv, InOrder, SampledNow, Sampled
  <2> QED
    BY <2>1, Numbers, AllSampled, SampleIs DEF WorkloadInv, InOrder
<1>13. \A i, j \in 1..Len(history) :
         i < j => history[i].at < history[j].at /\ Follows(history[i], history[j])
  BY DEF WorkloadInv, InOrder
<1>14. InOrder'
  <2>1. CASE history' = history
    BY <1>2, <1>5, <1>11, <1>12, <1>13, <2>1, Numbers, AllSampled DEF InOrder
  <2>2. CASE history' = Append(history, now)
    <3>1. /\ history' \in Seq(Samples) /\ Len(history') = Len(history) + 1
          /\ history'[Len(history) + 1] = now
          /\ \A i \in 1..Len(history) : history'[i] = history[i]
      BY <1>3, <1>12, <2>2, SetLast
    <3>2. \A i \in 1..Len(history') :
            history'[i].at =< hour /\ Follows(history'[i], now)
      BY <1>3, <1>7, <1>12, <3>1, Numbers, AllSampled
    <3>3. ASSUME NEW i \in 1..Len(history'), NEW j \in 1..Len(history'), i < j
          PROVE  history'[i].at < history'[j].at /\ Follows(history'[i], history'[j])
      <4>1. i \in 1..Len(history)
        BY <1>12, <3>1, <3>3
      <4>2. CASE j = Len(history) + 1
        BY <1>3, <1>12, <3>1, <4>1, <4>2
      <4>3. CASE j # Len(history) + 1
        BY <1>12, <1>13, <3>1, <3>3, <4>1, <4>3
      <4> QED
        BY <4>2, <4>3
    <3> QED
      BY <1>2, <1>5, <1>11, <3>1, <3>2, <3>3 DEF InOrder
  <2> QED
    BY <1>2, <2>1, <2>2
<1> QED
  BY <1>2, <1>4, <1>5, <1>8, <1>9, <1>10, <1>14 DEF WorkloadInv

\* The last sample that is too old, and what is left after it.
LEMMA PurgeLeaves ==
  ASSUME WorkloadInv, PurgeOldQueryHistory
  PROVE  \E m \in 0..Len(history) : history' = SubSeq(history, m + 1, Len(history))
<1>1. PICK aged : aged = {i \in DOMAIN history : history[i].at < hour - QueryRetention}
  OBVIOUS
<1>2. history' = SubSeq(history, Max(aged \cup {0}) + 1, Len(history))
  BY <1>1 DEF PurgeOldQueryHistory
<1>3. aged \cup {0} \in SUBSET (0..Len(history))
  BY <1>1, Numbers, AllSampled
<1>4. Max(aged \cup {0}) \in 0..Len(history)
  BY <1>3, Numbers, AllSampled, MaxFrom0
<1> QED
  BY <1>2, <1>4

LEMMA RestStep ==
  ASSUME WorkloadInv, UNCHANGED <<hour, entries, truth>>, snapshots' \subseteq snapshots,
         SampledNow => SampledNow', ResolvedBefore',
         \E m \in 0..Len(history) : history' = SubSeq(history, m + 1, Len(history))
  PROVE  WorkloadInv'
<1>1. ListedCounters' = ListedCounters /\ \A a, b : Follows(a, b)' <=> Follows(a, b)
  BY DEF ListedCounters, Follows, Later, Ran, Spent, Held, HeldTime
<1>2. PICK m \in 0..Len(history) : history' = SubSeq(history, m + 1, Len(history))
  OBVIOUS
<1>3. history \in Seq(Samples) /\ Len(history) \in Nat
  BY DEF WorkloadInv, InOrder
<1>4. /\ history' \in Seq(Samples) /\ Len(history') = Len(history) - m
      /\ \A i \in 1..Len(history') : history'[i] = history[i + m]
  <2>1. PICK r : r = history'
    OBVIOUS
  <2>2. r = SubSeq(history, m + 1, Len(history))
    BY <1>2, <2>1
  <2>3. /\ r \in Seq(Samples) /\ Len(r) = Len(history) - m
        /\ \A i \in 1..Len(r) : r[i] = history[i + m]
    BY <1>3, <2>2, TailOf
  <2> QED
    BY <2>1, <2>3
<1>5. /\ \A i \in 1..Len(history') : i + m \in 1..Len(history)
      /\ \A i, j \in 1..Len(history') : i < j => i + m < j + m
  BY <1>3, <1>4
<1>6. /\ \A i \in 1..Len(history') :
           /\ history'[i].at =< hour /\ Follows(history'[i], ListedCounters)
           /\ history'[i].at = hour => SampledNow'
      /\ \A i, j \in 1..Len(history') :
           i < j => history'[i].at < history'[j].at /\ Follows(history'[i], history'[j])
  BY <1>4, <1>5 DEF WorkloadInv, InOrder
<1>7. InOrder'
  BY <1>1, <1>4, <1>6 DEF InOrder
<1> QED
  BY <1>1, <1>7 DEF WorkloadInv, CountersTypeOK, EntriesPossible

-----------------------------------------------------------------------------
\* The newest and the oldest of some snapshots.
LEMMA NewestIs ==
  ASSUME WorkloadInv, NEW S \in SUBSET snapshots, S # {}
  PROVE  NewestOf(S) \in S /\ \A s \in S : s.at =< NewestOf(S).at
<1> DEFINE T == {hour - s.at : s \in S}
<1>1. T \subseteq Nat /\ T # {}
  <2>1. \A s \in S : hour - s.at \in Nat
    BY Numbers, AllSampled DEF WorkloadInv
  <2> QED
    BY <2>1
<1>2. PICK a \in T : \A b \in T : ~(<<b, a>> \in OpToRel(<, Nat))
  BY <1>1, NatLessThanWellFounded, WFMin
<1>3. ASSUME NEW b \in T PROVE a =< b
  <2>1. a \in Nat /\ b \in Nat
    BY <1>1
  <2>2. b < a => <<b, a>> \in OpToRel(<, Nat)
    BY <2>1, Zenon DEF OpToRel
  <2>3. ~(b < a)
    BY <1>2, <2>2, Zenon
  <2> QED
    BY <2>1, <2>3
<1>4. PICK x \in S : a = hour - x.at
  OBVIOUS
<1>5. ASSUME NEW y \in S PROVE y.at =< x.at
  <2>1. a =< hour - y.at
    BY <1>3
  <2> QED
    BY <1>4, <2>1, Numbers, AllSampled
<1> QED
  BY <1>5 DEF NewestOf

LEMMA OldestIs ==
  ASSUME WorkloadInv, NEW S \in SUBSET snapshots, S # {}
  PROVE  OldestOf(S) \in S /\ \A s \in S : OldestOf(S).at =< s.at
<1> DEFINE T == {s.at : s \in S}
<1>1. T \subseteq Nat /\ T # {}
  BY Numbers, AllSampled
<1>2. PICK a \in T : \A b \in T : ~(<<b, a>> \in OpToRel(<, Nat))
  BY <1>1, NatLessThanWellFounded, WFMin
<1>3. ASSUME NEW b \in T PROVE a =< b
  <2>1. a \in Nat /\ b \in Nat
    BY <1>1
  <2>2. b < a => <<b, a>> \in OpToRel(<, Nat)
    BY <2>1, Zenon DEF OpToRel
  <2>3. ~(b < a)
    BY <1>2, <2>2, Zenon
  <2> QED
    BY <2>1, <2>3
<1>4. PICK x \in S : a = x.at
  OBVIOUS
<1>5. \A y \in S : x.at =< y.at
  BY <1>3, <1>4
<1> QED
  BY <1>5 DEF OldestOf

\* Both ends of a window are snapshots, in the order of time.
LEMMA WindowEnds ==
  ASSUME WorkloadInv, NEW w \in Windows
  PROVE  w.from \in snapshots /\ w.to \in snapshots /\ w.from.at =< w.to.at
<1>1. CASE w \in RecentQueryStats
  <2>1. snapshots # {}
    BY <1>1 DEF RecentQueryStats
  <2>2. PICK latest : latest = Newest(hour)
    OBVIOUS
  <2>3. {s \in snapshots : s.at =< hour} # {}
    BY <2>1 DEF WorkloadInv
  <2>4. latest \in snapshots
    BY <2>2, <2>3, NewestIs DEF Newest
  <2>5. PICK older : older = {s \in snapshots : s.at =< latest.at - Window}
    OBVIOUS
  <2>6. older # {} /\ w = [from |-> NewestOf(older), to |-> latest]
    BY <1>1, <2>1, <2>2, <2>5 DEF RecentQueryStats
  <2>7. NewestOf(older) \in older
    BY <2>5, <2>6, NewestIs
  <2>8. /\ w.from \in snapshots /\ w.from.at =< latest.at - Window
        /\ w.from.at \in Nat /\ latest.at \in Nat /\ w.to = latest
    BY <2>4, <2>5, <2>6, <2>7, AllSampled
  <2> QED
    BY <2>4, <2>8, WorkloadAssumption
<1>2. ASSUME NEW since \in 0..hour, w \in TopQueries(since)
      PROVE  w.from \in snapshots /\ w.to \in snapshots /\ w.from.at =< w.to.at
  <2>1. PICK S : S = {s \in snapshots : s.at >= since}
    OBVIOUS
  <2>2. ~(Cardinality(S) < 2) /\ w = [from |-> OldestOf(S), to |-> NewestOf(S)]
    BY <1>2, <2>1 DEF TopQueries
  <2>3. S # {}
    BY <2>2, FS_EmptySet
  <2> QED
    BY <2>1, <2>2, <2>3, NewestIs, OldestIs
<1> QED
  BY <1>1, <1>2 DEF Windows

LEMMA BetweenIs ==
  ASSUME NEW a \in Samples, NEW b \in Samples, Follows(a, b)
  PROVE  /\ Ran(a, b) \in Nat /\ Spent(a, b) \in Nat
         /\ Held(a, b) \in Nat /\ HeldTime(a, b) \in Nat
         /\ b.calls - a.calls =< Ran(a, b) /\ b.total - a.total =< Spent(a, b)
         /\ ~ResetBetween(a, b) =>
              /\ b.calls - a.calls = Ran(a, b) /\ b.total - a.total = Spent(a, b)
              /\ Possible(b.calls - a.calls, b.total - a.total)
         /\ ResetBetween(a, b) =>
              /\ b.calls =< Ran(a, b) + Held(a, b) /\ b.total =< Spent(a, b) + HeldTime(a, b)
<1>1. /\ Ran(a, b) \in Nat /\ Spent(a, b) \in Nat
      /\ Held(a, b) \in Nat /\ HeldTime(a, b) \in Nat
  BY SampleIs DEF Follows, Later, Ran, Spent, Held, HeldTime
<1>2. CASE a.truth.resets = b.truth.resets
  BY <1>1, <1>2 DEF Follows, ResetBetween
<1>3. CASE a.truth.resets # b.truth.resets
  BY <1>1, <1>3 DEF Follows, ResetBetween
<1> QED
  BY <1>2, <1>3

LEMMA WindowIsReal ==
  ASSUME NEW a \in Samples, NEW b \in Samples, Follows(a, b),
         NEW d, d = GetQueryStatsDelta(a, b), NEW reset, reset = ResetBetween(a, b)
  PROVE  /\ 0 =< d.calls /\ d.calls =< Ran(a, b) + Held(a, b)
         /\ 0 =< d.total /\ d.total =< Spent(a, b) + HeldTime(a, b)
         /\ b.calls >= a.calls => d.calls =< Ran(a, b)
         /\ ~reset => d.calls = Ran(a, b) /\ d.total = Spent(a, b)
         /\ (reset => b.calls < a.calls /\ b.total < a.total) => PossibleMean(d)
<1>1. /\ a.calls \in Nat /\ a.total \in Nat /\ b.calls \in Nat /\ b.total \in Nat
  BY SampleIs
<1>2. PICK ran, spent, held, heldTime : /\ ran = Ran(a, b) /\ spent = Spent(a, b)
                                        /\ held = Held(a, b) /\ heldTime = HeldTime(a, b)
  OBVIOUS
<1>3. /\ ran \in Nat /\ spent \in Nat /\ held \in Nat /\ heldTime \in Nat
      /\ b.calls - a.calls =< ran /\ b.total - a.total =< spent
  BY <1>2, BetweenIs
<1>4. d.calls = Column(a.calls, b.calls) /\ d.total = Column(a.total, b.total)
  BY DEF GetQueryStatsDelta
<1>5. CASE ~ResetBetween(a, b)
  <2>1. /\ b.calls - a.calls = ran /\ b.total - a.total = spent
        /\ Possible(b.calls - a.calls, b.total - a.total)
    BY <1>2, <1>5, BetweenIs
  <2>2. d.calls = ran /\ d.total = spent
    BY <1>1, <1>3, <1>4, <2>1 DEF Column
  <2>3. PossibleMean(d)
    BY <2>1, <2>2 DEF Possible, PossibleMean
  <2> QED
    BY <1>2, <1>3, <1>5, <2>2, <2>3
<1>6. CASE ResetBetween(a, b)
  <2>1. b.calls =< ran + held /\ b.total =< spent + heldTime
    BY <1>2, <1>6, BetweenIs
  <2>2. /\ 0 =< d.calls /\ d.calls =< ran + held /\ 0 =< d.total /\ d.total =< spent + heldTime
        /\ b.calls >= a.calls => d.calls =< ran
    BY <1>1, <1>3, <1>4, <2>1 DEF Column
  <2>3. b.calls < a.calls /\ b.total < a.total => d.calls = b.calls /\ d.total = b.total
    BY <1>1, <1>4 DEF Column
  <2>4. b.calls < a.calls /\ b.total < a.total => PossibleMean(d)
    BY <2>3 DEF Follows, Possible, PossibleMean
  <2> QED
    BY <1>2, <1>6, <2>2, <2>4
<1> QED
  BY <1>5, <1>6

-----------------------------------------------------------------------------
LEMMA WorkloadStart == WorkloadInit => WorkloadInv
<1> SUFFICES ASSUME WorkloadInit PROVE WorkloadInv
  OBVIOUS
<1>1. entries \in [1..Entries -> Counters] /\ EntriesPossible
  BY NoneIsPossible DEF WorkloadInit, EntriesPossible, Zero, Counters
<1>2. hour \in Nat /\ truth \in Truths /\ snapshots = {} /\ history = <<>> /\ resolution = None
  BY DEF WorkloadInit, Truths
<1> QED
  BY <1>1, <1>2 DEF WorkloadInv, CountersTypeOK, InOrder, ResolvedBefore

LEMMA WorkloadSteps == WorkloadInv /\ [WorkloadNext]_workloadVars => WorkloadInv'
<1> SUFFICES ASSUME WorkloadInv, [WorkloadNext]_workloadVars PROVE WorkloadInv'
  OBVIOUS
<1>0. \E m \in 0..Len(history) : history = SubSeq(history, m + 1, Len(history))
  <2>1. history \in Seq(Samples)
    BY DEF WorkloadInv, InOrder
  <2>2. 0 \in 0..Len(history) /\ history = SubSeq(history, 0 + 1, Len(history))
    BY <2>1
  <2> QED
    BY <2>2
<1>1. CASE Maintain
  <2>1. SampledNow => SampledNow'
    BY <1>1, Numbers, AllSampled, WorkloadAssumption DEF Maintain, ForgetSnapshots, SampledNow
  <2>2. ResolvedBefore'
    BY <1>1 DEF Maintain, WorkloadInv, ResolvedBefore
  <2> QED
    BY <1>1, <2>1, <2>2, RestStep, PurgeLeaves DEF Maintain, ForgetSnapshots
<1>2. CASE ResolveFix
  <2>1. ResolvedBefore' /\ (SampledNow => SampledNow')
    BY <1>2, Numbers, AllSampled DEF ResolveFix, ResolvedBefore, SampledNow
  <2> QED
    BY <1>0, <1>2, <2>1, RestStep DEF ResolveFix
<1>3. CASE UNCHANGED workloadVars
  <2>1. ResolvedBefore' /\ (SampledNow => SampledNow')
    BY <1>3 DEF workloadVars, WorkloadInv, ResolvedBefore, SampledNow
  <2> QED
    BY <1>0, <1>3, <2>1, RestStep DEF workloadVars
<1> QED
  BY <1>1, <1>2, <1>3, ExecuteStep, LoseEntriesStep, TickStep, SampleStep DEF WorkloadNext

\* A window between two snapshots counts all that ran in it when no entry was lost
\* meanwhile.  Otherwise it never counts less than nothing, nor more than ran in it and
\* the other entries held at the loss; where the sum did not go down, no more than ran.
\* Its mean is a possible one unless a loss shows in one of the two columns at most.
THEOREM WindowsAlwaysReal == WorkloadSpec => []WindowsAreReal
<1>1. WorkloadSpec => []WorkloadInv
  BY WorkloadStart, WorkloadSteps, PTL DEF WorkloadSpec
<1>2. WorkloadInv => WindowsAreReal
  <2> SUFFICES ASSUME WorkloadInv, NEW w \in Windows, NEW d,
                      d = GetQueryStatsDelta(w.from, w.to),
                      NEW reset, reset = ResetBetween(w.from, w.to)
               PROVE  /\ 0 =< d.calls /\ d.calls =< Ran(w.from, w.to) + Held(w.from, w.to)
                      /\ 0 =< d.total /\ d.total =< Spent(w.from, w.to) + HeldTime(w.from, w.to)
                      /\ w.to.calls >= w.from.calls => d.calls =< Ran(w.from, w.to)
                      /\ ~reset => d.calls = Ran(w.from, w.to)
                                   /\ d.total = Spent(w.from, w.to)
                      /\ (reset => w.to.calls < w.from.calls /\ w.to.total < w.from.total)
                           => PossibleMean(d)
    BY DEF WindowsAreReal
  <2>1. w.from \in snapshots /\ w.to \in snapshots /\ Follows(w.from, w.to)
    BY WindowEnds DEF WorkloadInv
  <2>2. w.from \in Samples /\ w.to \in Samples
    BY <2>1, AllSampled DEF Sampled
  <2> QED
    BY <2>1, <2>2, WindowIsReal
<1> QED
  BY <1>1, <1>2, PTL

-----------------------------------------------------------------------------
(* The verdict on a fix.                                                   *)

LEMMA MinOfTwo ==
  ASSUME NEW a \in Int, NEW b \in Int, a =< b
  PROVE  Min({a, b}) = a
<1>1. a \in {a, b} /\ \A y \in {a, b} : a =< y
  OBVIOUS
<1>2. \A x \in {a, b} : (\A y \in {a, b} : x =< y) => x = a
  OBVIOUS
<1> QED
  BY <1>1, <1>2 DEF Min

LEMMA MaxOfTwo ==
  ASSUME NEW n \in Nat \ {0}
  PROVE  Max({n - 1, 1}) = IF n = 1 THEN 1 ELSE n - 1
<1> DEFINE m == IF n = 1 THEN 1 ELSE n - 1
<1>1. m \in {n - 1, 1} /\ \A y \in {n - 1, 1} : m >= y
  OBVIOUS
<1>2. \A x \in {n - 1, 1} : (\A y \in {n - 1, 1} : x >= y) => x = m
  OBVIOUS
<1> QED
  BY <1>1, <1>2 DEF Max

LEMMA MinOfNats ==
  ASSUME NEW S \in SUBSET Nat, S # {}
  PROVE  Min(S) \in S /\ \A y \in S : Min(S) =< y
<1>1. PICK a \in S : \A b \in S : ~(<<b, a>> \in OpToRel(<, Nat))
  BY NatLessThanWellFounded, WFMin
<1>2. ASSUME NEW b \in S PROVE a =< b
  <2>1. b < a => <<b, a>> \in OpToRel(<, Nat)
    BY Zenon DEF OpToRel
  <2>2. ~(b < a)
    BY <1>1, <2>1, Zenon
  <2> QED
    BY <2>2
<1> QED
  BY <1>2 DEF Min

LEMMA ResolutionFacts ==
  ASSUME WorkloadInv, resolution # None
  PROVE  resolution.at \in Nat /\ resolution.lagging \in BOOLEAN /\ Window \in Nat \ {0}
BY Numbers, WorkloadAssumption DEF WorkloadInv, ResolvedBefore

\* Once the window has passed, the samples looked at decide alone.
LEMMA SameVerdict ==
  ASSUME WorkloadInv, resolution # None, resolution' = resolution, hour' \in Nat,
         hour > resolution.at + Window, hour' > resolution.at + Window,
         VerifySamples' = VerifySamples
  PROVE  Verify' = Verify
<1>1. AfterEnd = resolution.at + Window /\ AfterEnd' = resolution.at + Window
  BY ResolutionFacts, Numbers, MinOfTwo DEF AfterEnd
<1>2. BeforeEnd' = BeforeEnd
  BY DEF BeforeEnd
<1>3. Before' = Before /\ After' = After
  BY <1>1, <1>2 DEF Before, After
<1>4. hour - resolution.at >= Window /\ hour' - resolution.at >= Window
  BY ResolutionFacts, Numbers
<1>5. PICK b, a : b = Before /\ a = After
  OBVIOUS
<1>6. Compare(b, a)' = Compare(b, a)
  BY <1>4 DEF Compare
<1> QED
  BY <1>3, <1>5, <1>6 DEF Verify

LEMMA LongerHistory ==
  ASSUME NEW S, NEW q \in Seq(S), NEW e \in S, NEW r, r = Append(q, e),
         NEW m \in Nat \ {0}, NEW n \in 0..Len(q)
  PROVE  SubSeq(r, m, n) = SubSeq(q, m, n)
OBVIOUS

LEMMA CountOfPart ==
  ASSUME NEW n \in Nat, NEW A \in SUBSET (1..n)
  PROVE  Cardinality(A) \in Nat /\ Cardinality(A) \in 0..n
<1>1. IsFiniteSet(1..n) /\ Cardinality(1..n) = IF 1 > n THEN 0 ELSE n - 1 + 1
  <2>1. 1 \in Int /\ n \in Int
    OBVIOUS
  <2> QED
    BY <2>1, FS_Interval, ZenonT(30)
<1>2. Cardinality(1..n) = n
  BY <1>1
<1>3. IsFiniteSet(A) /\ Cardinality(A) =< Cardinality(1..n)
  BY <1>1, FS_Subset, ZenonT(30)
<1>4. Cardinality(A) \in Nat
  BY <1>3, FS_CardinalityType
<1> QED
  BY <1>2, <1>3, <1>4

\* A sample that is too late for the window is not looked at.
LEMMA LateSample ==
  ASSUME WorkloadInv, NEW now \in Samples, history' = Append(history, now),
         NEW from \in Int, NEW to \in Int, from =< to, to < now.at
  PROVE  GetQueryHistory(from, to)' = GetQueryHistory(from, to)
<1>1. /\ history \in Seq(Samples) /\ Len(history) \in Nat /\ DOMAIN history = 1..Len(history)
  BY AllSampled
<1>2. /\ history' \in Seq(Samples) /\ Len(history') = Len(history) + 1
      /\ history'[Len(history) + 1] = now
      /\ \A j \in 1..Len(history) : history'[j] = history[j]
  BY <1>1, SetLast
<1>3. DOMAIN history' = 1..Len(history) + 1 /\ now.at \in Nat
  BY <1>2, SampleIs
<1>4. PICK A, B : /\ A = {i \in DOMAIN history : history[i].at < from}
                  /\ B = {i \in DOMAIN history : history[i].at =< to}
  OBVIOUS
<1>5. /\ A = {i \in DOMAIN history' : history'[i].at < from}
      /\ B = {i \in DOMAIN history' : history'[i].at =< to}
  BY <1>1, <1>2, <1>3, <1>4
<1>6. Cardinality(A) \in Nat /\ Cardinality(B) \in 0..Len(history)
  <2>1. A \in SUBSET (1..Len(history)) /\ B \in SUBSET (1..Len(history))
    BY <1>1, <1>4
  <2> QED
    BY <1>1, <2>1, CountOfPart
<1>7. PICK m, n : /\ n = Cardinality(B)
                  /\ m = IF n - Cardinality(A) > HistoryLimit
                          THEN n - HistoryLimit + 1 ELSE Cardinality(A) + 1
  OBVIOUS
<1>8. SubSeq(history', m, n) = SubSeq(history, m, n)
  <2>1. HistoryLimit \in Nat \ {0}
    BY WorkloadAssumption
  <2>2. m \in Nat \ {0} /\ n \in 0..Len(history)
    BY <1>6, <1>7, <2>1
  <2> QED
    BY <1>1, <2>2, LongerHistory
<1> QED
  BY <1>4, <1>5, <1>7, <1>8 DEF GetQueryHistory

LEMMA WholeTail ==
  ASSUME NEW S, NEW q \in Seq(S), NEW m \in 0..Len(q), NEW r,
         r = SubSeq(q, m + 1, Len(q)), Len(r) >= Len(q)
  PROVE  r = q
<1>1. m = 0
  BY TailOf
<1> QED
  BY <1>1

LEMMA SettledStays ==
  ASSUME WorkloadInv, [WorkloadNext]_workloadVars, resolution # None,
         hour > resolution.at + Window, Len(history') >= Len(history)
  PROVE  Verify' = Verify \/ UNCHANGED <<hour, history, resolution>>
<1>1. CASE UNCHANGED <<hour, history, resolution>>
  BY <1>1
<1>2. CASE ResolveFix \/ Execute \/ LoseEntries \/ UNCHANGED workloadVars
  BY <1>2 DEF ResolveFix, Execute, LoseEntries, workloadVars
<1>3. CASE Tick
  <2>1. resolution' = resolution /\ hour' = hour + 1 /\ history' = history
    BY <1>3 DEF Tick
  <2>2. AfterEnd' = AfterEnd /\ BeforeEnd' = BeforeEnd
    <3>1. AfterEnd = resolution.at + Window /\ AfterEnd' = resolution.at + Window
      BY <2>1, ResolutionFacts, Numbers, MinOfTwo DEF AfterEnd
    <3> QED
      BY <2>1, <3>1 DEF BeforeEnd
  <2>3. VerifySamples' = VerifySamples
    BY <2>1, <2>2 DEF VerifySamples, GetQueryHistory
  <2> QED
    BY <2>1, <2>3, SameVerdict, ResolutionFacts, Numbers
<1>4. CASE Maintain
  <2>1. resolution' = resolution /\ hour' = hour
    BY <1>4 DEF Maintain
  <2>2. history' = history
    BY <1>4, PurgeLeaves, AllSampled, WholeTail DEF Maintain
  <2> QED
    BY <2>1, <2>2
<1>5. CASE SampleQueryStats
  <2>1. PICK now : now = ListedCounters
    OBVIOUS
  <2>2. /\ resolution' = resolution /\ hour' = hour
        /\ history' = history \/ history' = Append(history, now)
    BY <1>5, <2>1 DEF SampleQueryStats
  <2>3. now \in Samples /\ now.at = hour
    BY <2>1, Numbers DEF ListedCounters, Samples, Calls, Total
  <2>4. CASE history' = history
    BY <2>2, <2>4
  <2>5. CASE history' = Append(history, now)
    <3>1. AfterEnd = resolution.at + Window /\ AfterEnd' = AfterEnd
      <4>1. AfterEnd = resolution.at + Window
        <5>1. resolution.at + Window \in Int /\ hour \in Int
          BY ResolutionFacts, Numbers
        <5> QED
          BY <5>1, MinOfTwo DEF AfterEnd
      <4> QED
        BY <2>2, <4>1 DEF AfterEnd
    <3>2. BeforeEnd' = BeforeEnd /\ BeforeEnd \in Int /\ BeforeEnd =< resolution.at
      BY <2>2, ResolutionFacts DEF BeforeEnd
    <3>3. PICK from, to : from = BeforeEnd - Window - BaselineLeadIn /\ to = AfterEnd
      OBVIOUS
    <3>4. from \in Int /\ to \in Int /\ from =< to /\ to < now.at
      <4>1. BaselineLeadIn \in Nat /\ Window \in Nat /\ resolution.at \in Nat /\ hour \in Nat
        BY ResolutionFacts, Numbers, WorkloadAssumption
      <4> QED
        BY <2>3, <3>1, <3>2, <3>3, <4>1
    <3>5. GetQueryHistory(from, to)' = GetQueryHistory(from, to)
      BY <2>3, <2>5, <3>4, LateSample
    <3>6. VerifySamples' = VerifySamples
      BY <3>1, <3>2, <3>3, <3>5 DEF VerifySamples
    <3> QED
      BY <2>2, <3>6, SameVerdict, Numbers
  <2> QED
    BY <2>2, <2>4, <2>5
<1> QED
  BY <1>2, <1>3, <1>4, <1>5 DEF WorkloadNext

\* Once a full window has passed the verdict on a fix does not change any more,
\* whatever runs, is reset or sampled later: only aged history can take it back.
THEOREM VerdictAlwaysSettles == WorkloadSpec => VerdictSettles
<1>1. WorkloadSpec => []WorkloadInv
  BY WorkloadStart, WorkloadSteps, PTL DEF WorkloadSpec
<1>2. WorkloadInv /\ [WorkloadNext]_workloadVars
        => [(/\ resolution # None
             /\ hour > resolution.at + Window
             /\ Len(history') >= Len(history)) => Verify' = Verify]_<<hour, history, resolution>>
  BY SettledStays
<1> QED
  BY <1>1, <1>2, PTL DEF WorkloadSpec, VerdictSettles

-----------------------------------------------------------------------------
(* Periods of the history.                                                 *)

GrowthAt(sum, series, I, i) ==
  IF i = 1 THEN Zero
  ELSE IF i \notin I THEN sum[i - 1]
  ELSE Plus(sum[i - 1], Grown(series[i - 1], series[i]))

Grows(sum, n, series, I) == sum = [i \in 1..n |-> GrowthAt(sum, series, I, i)]

\* There is such a sum.
LEMMA GrowthExists ==
  ASSUME NEW n \in Nat, NEW series, NEW I
  PROVE  \E sum : Grows(sum, n, series, I)
<1> USE DEF Grows
<1> DEFINE E == {m \in Nat : \E sum : Grows(sum, m, series, I)}
<1>1. 0 \in E
  <2>1. PICK sum : sum = [i \in 1..0 |-> Zero]
    OBVIOUS
  <2>2. sum = [i \in 1..0 |-> GrowthAt(sum, series, I, i)]
    BY <2>1
  <2> QED
    BY <2>2
<1>2. ASSUME NEW m \in 0..n, m \in E PROVE m + 1 \in E
  <2>1. PICK f : f = [i \in 1..m |-> GrowthAt(f, series, I, i)]
    BY <1>2
  <2>2. PICK g : g = [i \in 1..m + 1 |-> GrowthAt(f, series, I, i)]
    OBVIOUS
  <2>3. \A i \in 1..m : g[i] = f[i]
    BY <2>1, <2>2
  <2>4. \A i \in 1..m + 1 : GrowthAt(g, series, I, i) = GrowthAt(f, series, I, i)
    <3> SUFFICES ASSUME NEW i \in 1..m + 1
                 PROVE  GrowthAt(g, series, I, i) = GrowthAt(f, series, I, i)
      OBVIOUS
    <3>1. i = 1 \/ g[i - 1] = f[i - 1]
      BY <2>3
    <3> QED
      BY <3>1 DEF GrowthAt
  <2>5. g = [i \in 1..m + 1 |-> GrowthAt(g, series, I, i)]
    BY <2>2, <2>4
  <2> QED
    BY <2>5
<1>3. 0..n \subseteq E
  BY <1>1, <1>2, GoesOnTo
<1> QED
  BY <1>3

LEMMA GrowthIs ==
  ASSUME NEW S, NEW series \in Seq(S), NEW I, NEW g, g = Growth(series, I)
  PROVE  \A i \in 1..Len(series) : g[i] = GrowthAt(g, series, I, i)
<1>1. DOMAIN series = 1..Len(series) /\ Len(series) \in Nat
  OBVIOUS
<1>2. g = CHOOSE sum : sum = [i \in DOMAIN series |-> GrowthAt(sum, series, I, i)]
  BY DEF Growth, GrowthAt, Zero, Plus
<1>3. \E sum : sum = [i \in DOMAIN series |-> GrowthAt(sum, series, I, i)]
  <2>1. \E sum : Grows(sum, Len(series), series, I)
    BY <1>1, GrowthExists
  <2> QED
    BY <1>1, <2>1 DEF Grows
<1>4. g = [i \in DOMAIN series |-> GrowthAt(g, series, I, i)]
  BY <1>2, <1>3
<1> QED
  BY <1>1, <1>4

\* The samples inside a period are those from a first one to a last one.
LEMMA InsideIs ==
  ASSUME WorkloadInv, NEW from \in Int, NEW to \in Int, NEW I, I = Inside(history, from, to),
         I # {}, NEW a, a = Min(I), NEW b, b = Max(I)
  PROVE  /\ a \in 1..Len(history) /\ b \in 1..Len(history) /\ a =< b
         /\ I = a..b
<1>1. DOMAIN history = 1..Len(history) /\ Len(history) \in Nat
  BY AllSampled
<1>2. I \in SUBSET (0..Len(history)) /\ I \subseteq Nat /\ I \subseteq 1..Len(history)
  BY <1>1 DEF Inside
<1>3. b \in I /\ \A y \in I : y =< b
  BY <1>1, <1>2, MaxFrom0
<1>4. a \in I /\ \A y \in I : a =< y
  BY <1>2, MinOfNats
<1>5. ASSUME NEW i \in a..b PROVE i \in I
  <2>1. i \in 1..Len(history) /\ a \in 1..Len(history) /\ b \in 1..Len(history)
    BY <1>2, <1>3, <1>4
  <2>2. /\ history[a].at \in Nat /\ history[i].at \in Nat /\ history[b].at \in Nat
    BY <2>1, AllSampled, SampleIs DEF Sampled
  <2>3. from < history[a].at /\ history[b].at =< to
    BY <1>3, <1>4 DEF Inside
  <2>4. i = a \/ history[a].at < history[i].at
    BY <1>4, <2>1 DEF WorkloadInv, InOrder
  <2>5. i = b \/ history[i].at < history[b].at
    BY <1>3, <2>1 DEF WorkloadInv, InOrder
  <2>6. from < history[i].at /\ history[i].at =< to
    BY <2>2, <2>3, <2>4, <2>5
  <2> QED
    BY <1>1, <2>1, <2>6 DEF Inside
<1>6. I \subseteq a..b
  BY <1>2, <1>3, <1>4
<1>7. a..b \subseteq I
  BY <1>5
<1>8. a \in 1..Len(history) /\ b \in 1..Len(history) /\ a =< b
  BY <1>2, <1>3, <1>4
<1> QED
  BY <1>6, <1>7, <1>8

\* Nothing has grown before the first sample inside.
LEMMA NothingBefore ==
  ASSUME WorkloadInv, NEW a \in 1..Len(history), NEW b \in 1..Len(history),
         NEW g, g = Growth(history, a..b), NEW f, f = IF a = 1 THEN 1 ELSE a - 1
  PROVE  f \in 1..Len(history) /\ g[f] = Zero
<1>1. Len(history) \in Nat /\ f \in 1..Len(history)
  BY AllSampled
<1>2. \A i \in 1..Len(history) : g[i] = GrowthAt(g, history, a..b, i)
  BY AllSampled, GrowthIs
<1> DEFINE S == {i \in Nat : g[i] = Zero}
<1>3. 1 \in S
  BY <1>1, <1>2 DEF GrowthAt
<1>4. ASSUME NEW n \in 1..f, n \in S, n < f PROVE n + 1 \in S
  <2>1. n + 1 \in 1..Len(history) /\ n + 1 # 1 /\ n + 1 \notin a..b /\ (n + 1) - 1 = n
    BY <1>1, <1>4
  <2>2. g[n + 1] = g[n]
    BY <1>2, <2>1 DEF GrowthAt
  <2> QED
    BY <1>4, <2>2
<1>5. 1..f \subseteq S
  <2>1. PICK T : T = S
    OBVIOUS
  <2>2. 1 \in T /\ \A n \in 1..f : n \in T /\ n < f => n + 1 \in T
    BY <1>3, <1>4, <2>1
  <2>3. 1 \in Nat /\ f \in Nat
    BY <1>1
  <2>4. 1..f \subseteq T
    BY <2>2, <2>3, GoesOnTo
  <2> QED
    BY <2>1, <2>4
<1> QED
  BY <1>1, <1>5

Hides(i) == /\ ResetBetween(history[i - 1], history[i])
            /\ history[i].calls >= history[i - 1].calls
            /\ history[i].total >= history[i - 1].total

\* What a period counts up to sample i, where x is counted from sample f on.
Counts(x, f, i) ==
  /\ x.calls \in Nat /\ x.total \in Nat
  /\ x.calls =< Ran(history[f], history[i]) + Held(history[f], history[i])
  /\ x.total =< Spent(history[f], history[i]) + HeldTime(history[f], history[i])
  /\ ~ResetBetween(history[f], history[i]) =>
       x.calls = Ran(history[f], history[i]) /\ x.total = Spent(history[f], history[i])
  /\ (\A k \in f + 1..i : ~Hides(k)) => Possible(x.calls, x.total)

\* What one sample adds.
LEMMA GrownIs ==
  ASSUME NEW a \in Samples, NEW b \in Samples, Follows(a, b), NEW d, d = Grown(a, b)
  PROVE  /\ d.calls \in Nat /\ d.total \in Nat
         /\ d.calls =< Ran(a, b) + Held(a, b) /\ d.total =< Spent(a, b) + HeldTime(a, b)
         /\ ~ResetBetween(a, b) => d.calls = Ran(a, b) /\ d.total = Spent(a, b)
         /\ \/ ResetBetween(a, b) /\ b.calls >= a.calls /\ b.total >= a.total
            \/ Possible(d.calls, d.total)
<1>1. /\ a.calls \in Nat /\ a.total \in Nat /\ b.calls \in Nat /\ b.total \in Nat
  BY SampleIs
<1>2. PICK ran, spent, held, heldTime : /\ ran = Ran(a, b) /\ spent = Spent(a, b)
                                        /\ held = Held(a, b) /\ heldTime = HeldTime(a, b)
  OBVIOUS
<1>3. /\ ran \in Nat /\ spent \in Nat /\ held \in Nat /\ heldTime \in Nat
      /\ b.calls - a.calls =< ran /\ b.total - a.total =< spent
  BY <1>2, BetweenIs
<1>4. CASE ~ResetBetween(a, b)
  <2>1. /\ b.calls - a.calls = ran /\ b.total - a.total = spent
        /\ Possible(b.calls - a.calls, b.total - a.total)
    BY <1>2, <1>4, BetweenIs
  <2>2. ~(b.calls < a.calls \/ b.total < a.total)
    BY <1>1, <2>1 DEF Possible
  <2>3. d.calls = b.calls - a.calls /\ d.total = b.total - a.total
    BY <2>2 DEF Grown
  <2>4. d.calls = ran /\ d.total = spent /\ Possible(d.calls, d.total)
    BY <2>1, <2>3
  <2> QED
    BY <1>2, <1>3, <1>4, <2>4
<1>5. CASE ResetBetween(a, b)
  <2>1. b.calls =< ran + held /\ b.total =< spent + heldTime /\ Possible(b.calls, b.total)
    BY <1>2, <1>5, BetweenIs DEF Follows
  <2>2. CASE b.calls < a.calls \/ b.total < a.total
    <3>1. d.calls = b.calls /\ d.total = b.total
      BY <2>2 DEF Grown
    <3> QED
      BY <1>1, <1>2, <1>5, <2>1, <3>1
  <2>3. CASE ~(b.calls < a.calls \/ b.total < a.total)
    <3>1. d.calls = b.calls - a.calls /\ d.total = b.total - a.total
      BY <2>3 DEF Grown
    <3>2. /\ d.calls \in Nat /\ d.total \in Nat
          /\ d.calls =< ran + held /\ d.total =< spent + heldTime
          /\ b.calls >= a.calls /\ b.total >= a.total
      BY <1>1, <1>3, <2>3, <3>1
    <3> QED
      BY <1>2, <1>5, <3>2
  <2> QED
    BY <2>2, <2>3
<1> QED
  BY <1>4, <1>5

LEMMA CountsOn ==
  ASSUME WorkloadInv, NEW f \in 1..Len(history), NEW i \in 1..Len(history), f =< i,
         i + 1 \in 1..Len(history), NEW x, Counts(x, f, i),
         NEW d, d = Grown(history[i], history[i + 1])
  PROVE  Counts(Plus(x, d), f, i + 1)
<1>1. PICK p, q, r : p = history[f] /\ q = history[i] /\ r = history[i + 1]
  OBVIOUS
<1>2. p \in Samples /\ q \in Samples /\ r \in Samples
  BY <1>1, AllSampled DEF Sampled
<1>3. Follows(q, r) /\ (p = q \/ Follows(p, q))
  BY <1>1, AllSampled DEF WorkloadInv, InOrder
<1>4. /\ p.truth.resets \in Nat /\ q.truth.resets \in Nat /\ r.truth.resets \in Nat
      /\ p.truth.resets =< q.truth.resets /\ q.truth.resets =< r.truth.resets
  <2>1. p.truth.resets \in Nat /\ q.truth.resets \in Nat /\ r.truth.resets \in Nat
    BY <1>2, SampleIs
  <2>2. q.truth.resets =< r.truth.resets
    BY <1>3 DEF Follows, Later
  <2>3. p = q \/ p.truth.resets =< q.truth.resets
    BY <1>3 DEF Follows, Later
  <2> QED
    BY <2>1, <2>2, <2>3
<1>5. ~ResetBetween(p, r) => ~ResetBetween(p, q) /\ ~ResetBetween(q, r)
  BY <1>4 DEF ResetBetween
<1>6. PICK y : y = Plus(x, d)
  OBVIOUS
<1>7. y.calls = x.calls + d.calls /\ y.total = x.total + d.total
  BY <1>6 DEF Plus
<1>8. /\ Ran(p, r) = Ran(p, q) + Ran(q, r) /\ Spent(p, r) = Spent(p, q) + Spent(q, r)
      /\ Held(p, r) = Held(p, q) + Held(q, r)
      /\ HeldTime(p, r) = HeldTime(p, q) + HeldTime(q, r)
      /\ Ran(p, q) \in Int /\ Spent(p, q) \in Int /\ Ran(q, r) \in Int /\ Spent(q, r) \in Int
      /\ Held(p, q) \in Int /\ HeldTime(p, q) \in Int
      /\ Held(q, r) \in Int /\ HeldTime(q, r) \in Int
  <2>1. \A s \in {p, q, r} : /\ s.truth.ran \in Nat /\ s.truth.spent \in Nat
                             /\ s.truth.kept \in Nat /\ s.truth.keptTime \in Nat
    BY <1>2, SampleIs
  <2>2. \A x1, x2, x3 \in Nat : /\ x3 - x1 = (x2 - x1) + (x3 - x2)
                                /\ x2 - x1 \in Int /\ x3 - x2 \in Int
    OBVIOUS
  <2> QED
    BY <2>1, <2>2 DEF Ran, Spent, Held, HeldTime
<1>9. /\ d.calls \in Nat /\ d.total \in Nat
      /\ d.calls =< Ran(q, r) + Held(q, r) /\ d.total =< Spent(q, r) + HeldTime(q, r)
      /\ ~ResetBetween(q, r) => d.calls = Ran(q, r) /\ d.total = Spent(q, r)
      /\ \/ ResetBetween(q, r) /\ r.calls >= q.calls /\ r.total >= q.total
         \/ Possible(d.calls, d.total)
  BY <1>1, <1>2, <1>3, GrownIs
<1>10. /\ x.calls \in Nat /\ x.total \in Nat
       /\ x.calls =< Ran(p, q) + Held(p, q) /\ x.total =< Spent(p, q) + HeldTime(p, q)
       /\ ~ResetBetween(p, q) => x.calls = Ran(p, q) /\ x.total = Spent(p, q)
       /\ (\A k \in f + 1..i : ~Hides(k)) => Possible(x.calls, x.total)
  BY <1>1 DEF Counts
<1>11. /\ y.calls \in Nat /\ y.total \in Nat
       /\ y.calls =< Ran(p, r) + Held(p, r) /\ y.total =< Spent(p, r) + HeldTime(p, r)
  <2>1. \A n1, n2 \in Nat : \A m1, m2, h1, h2 \in Int :
          n1 =< m1 + h1 /\ n2 =< m2 + h2
            => n1 + n2 \in Nat /\ n1 + n2 =< (m1 + m2) + (h1 + h2)
    OBVIOUS
  <2>2. /\ x.calls + d.calls \in Nat
        /\ x.calls + d.calls =< (Ran(p, q) + Ran(q, r)) + (Held(p, q) + Held(q, r))
    BY <1>8, <1>9, <1>10, <2>1
  <2>3. /\ x.total + d.total \in Nat
        /\ x.total + d.total =< (Spent(p, q) + Spent(q, r)) + (HeldTime(p, q) + HeldTime(q, r))
    BY <1>8, <1>9, <1>10, <2>1
  <2> QED
    BY <1>7, <1>8, <2>2, <2>3
<1>12. ~ResetBetween(p, r) => y.calls = Ran(p, r) /\ y.total = Spent(p, r)
  BY <1>5, <1>7, <1>8, <1>9, <1>10
<1>13. ASSUME \A k \in f + 1..i + 1 : ~Hides(k)
       PROVE  Possible(y.calls, y.total)
  <2>1. i + 1 \in f + 1..i + 1 /\ (i + 1) - 1 = i /\ \A k \in f + 1..i : k \in f + 1..i + 1
    OBVIOUS
  <2>2. Possible(x.calls, x.total)
    BY <1>10, <1>13, <2>1
  <2>3. ~(ResetBetween(q, r) /\ r.calls >= q.calls /\ r.total >= q.total)
    BY <1>1, <1>13, <2>1 DEF Hides
  <2>4. Possible(d.calls, d.total)
    BY <1>9, <2>3
  <2> QED
    BY <1>7, <2>2, <2>4, PossibleSum
<1> QED
  BY <1>1, <1>6, <1>11, <1>12, <1>13 DEF Counts

LEMMA CountsAll ==
  ASSUME WorkloadInv, NEW a \in 1..Len(history), NEW b \in 1..Len(history), a =< b,
         NEW g, g = Growth(history, a..b), NEW f, f = IF a = 1 THEN 1 ELSE a - 1
  PROVE  Counts(g[b], f, b)
<1>1. Len(history) \in Nat /\ f \in 1..Len(history) /\ f =< b /\ g[f] = Zero
  BY AllSampled, NothingBefore
<1>2. \A i \in 1..Len(history) : g[i] = GrowthAt(g, history, a..b, i)
  BY AllSampled, GrowthIs
<1> DEFINE S == {i \in Nat : Counts(g[i], f, i)}
<1>3. f \in S
  <2>1. history[f] \in Samples
    BY <1>1, AllSampled DEF Sampled
  <2>2. /\ Ran(history[f], history[f]) = 0 /\ Spent(history[f], history[f]) = 0
        /\ Held(history[f], history[f]) = 0 /\ HeldTime(history[f], history[f]) = 0
    BY <2>1, SampleIs DEF Ran, Spent, Held, HeldTime
  <2>3. Zero.calls = 0 /\ Zero.total = 0
    BY DEF Zero
  <2>4. Counts(Zero, f, f)
    BY <2>2, <2>3, NoneIsPossible DEF Counts
  <2> QED
    BY <1>1, <2>4
<1>4. ASSUME NEW n \in f..b, n \in S, n < b PROVE n + 1 \in S
  <2>1. /\ n \in 1..Len(history) /\ f =< n
        /\ n + 1 \in 1..Len(history) /\ n + 1 # 1 /\ n + 1 \in a..b /\ (n + 1) - 1 = n
    BY <1>1, <1>4
  <2>2. g[n + 1] = Plus(g[n], Grown(history[n], history[n + 1]))
    BY <1>2, <2>1 DEF GrowthAt
  <2>3. Counts(g[n + 1], f, n + 1)
    BY <1>1, <1>4, <2>1, <2>2, CountsOn
  <2> QED
    BY <2>1, <2>3
<1>5. f..b \subseteq S
  <2>1. PICK T : T = S
    OBVIOUS
  <2>2. f \in T /\ \A n \in f..b : n \in T /\ n < b => n + 1 \in T
    BY <1>3, <1>4, <2>1
  <2>3. f \in Nat /\ b \in Nat
    BY <1>1
  <2>4. f..b \subseteq T
    BY <2>2, <2>3, GoesOnTo
  <2> QED
    BY <2>1, <2>4
<1> QED
  BY <1>1, <1>5

\* A sample of the history is found by its time.
LEMMA SampleAt ==
  ASSUME WorkloadInv, NEW i \in 1..Len(history)
  PROVE  (CHOOSE s \in Range(history) : s.at = history[i].at) = history[i]
<1>1. Range(history) = {history[j] : j \in 1..Len(history)} /\ Len(history) \in Nat
  BY AllSampled DEF Range
<1>2. ASSUME NEW j \in 1..Len(history), history[j].at = history[i].at
      PROVE  j = i
  <2>1. history[i].at \in Nat /\ history[j].at \in Nat
    BY AllSampled, SampleIs DEF Sampled
  <2>2. ~(i < j) /\ ~(j < i)
    BY <1>2, <2>1 DEF WorkloadInv, InOrder
  <2> QED
    BY <1>1, <2>2
<1> QED
  BY <1>1, <1>2

LEMMA PeriodIsReal ==
  ASSUME WorkloadInv, NEW from \in Nat, NEW to \in Nat, NEW p, p = Period(history, from, to),
         p # None,
         NEW first, first = CHOOSE s \in Range(history) : s.at = p.from,
         NEW last, last = CHOOSE s \in Range(history) : s.at = p.to
  PROVE  /\ p.calls =< Ran(first, last) + Held(first, last)
         /\ p.total =< Spent(first, last) + HeldTime(first, last)
         /\ ~ResetBetween(first, last) =>
              p.calls = Ran(first, last) /\ p.total = Spent(first, last)
         /\ (\A i \in Inside(history, from, to) \ {1} : ~Hides(i)) => PossibleMean(p)
<1>1. PICK I : I = Inside(history, from, to)
  OBVIOUS
<1>2. I # {}
  BY <1>1 DEF Period
<1>3. PICK a, b : a = Min(I) /\ b = Max(I)
  OBVIOUS
<1>4. /\ a \in 1..Len(history) /\ b \in 1..Len(history) /\ a =< b /\ I = a..b
      /\ Len(history) \in Nat
  BY <1>1, <1>2, <1>3, InsideIs, AllSampled
<1>5. PICK f, g : f = (IF a = 1 THEN 1 ELSE a - 1) /\ g = Growth(history, a..b)
  OBVIOUS
<1>6. Max({a - 1, 1}) = f
  BY <1>4, <1>5, MaxOfTwo
<1>7. p = [from |-> history[f].at, to |-> history[b].at,
           calls |-> g[b].calls, total |-> g[b].total]
  BY <1>1, <1>2, <1>3, <1>4, <1>5, <1>6 DEF Period
<1>8. f \in 1..Len(history) /\ f + 1 \in {a, 2}
  BY <1>4, <1>5
<1>9. first = history[f] /\ last = history[b]
  BY <1>4, <1>7, <1>8, SampleAt
<1>10. Counts(g[b], f, b)
  BY <1>4, <1>5, CountsAll
<1>11. \A k \in f + 1..b : k \in I \ {1}
  BY <1>4, <1>5
<1>12. (\A i \in I \ {1} : ~Hides(i)) => Possible(p.calls, p.total)
  BY <1>7, <1>10, <1>11 DEF Counts
<1> QED
  <2>1. (\A i \in Inside(history, from, to) \ {1} : ~Hides(i)) => PossibleMean(p)
    BY <1>1, <1>12 DEF Possible, PossibleMean
  <2>2. p.calls = g[b].calls /\ p.total = g[b].total
    BY <1>7
  <2> QED
    BY <1>9, <1>10, <2>1, <2>2 DEF Counts

\* A period of the history counts all executions in it when no entry was lost
\* meanwhile.  Otherwise it counts none that was not in it but those that the
\* statement's other entries held at the loss.  Its mean is between the cheapest and
\* the dearest execution unless a loss was made up for before the next sample.
THEOREM PeriodsAlwaysReal == WorkloadSpec => []PeriodsAreReal
<1>1. WorkloadSpec => []WorkloadInv
  BY WorkloadStart, WorkloadSteps, PTL DEF WorkloadSpec
<1>2. WorkloadInv => PeriodsAreReal
  <2> SUFFICES ASSUME WorkloadInv, NEW from \in 0..hour, NEW to \in from + 1..hour,
                      NEW p, p = Period(history, from, to), p # None,
                      NEW first, first = CHOOSE s \in Range(history) : s.at = p.from,
                      NEW last, last = CHOOSE s \in Range(history) : s.at = p.to
               PROVE  /\ p.calls =< Ran(first, last) + Held(first, last)
                      /\ p.total =< Spent(first, last) + HeldTime(first, last)
                      /\ ~ResetBetween(first, last) =>
                           p.calls = Ran(first, last) /\ p.total = Spent(first, last)
                      /\ (\A i \in Inside(history, from, to) \ {1} : ~Hides(i))
                           => PossibleMean(p)
    BY DEF PeriodsAreReal, Hides
  <2>1. from \in Nat /\ to \in Nat
    BY Numbers
  <2> QED
    BY <2>1, PeriodIsReal
<1> QED
  BY <1>1, <1>2, PTL
=============================================================================
