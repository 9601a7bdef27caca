------------------------------- MODULE Views -------------------------------
(***************************************************************************)
(* What a collector leaves in the store and what is shown of it.  A run    *)
(* reads from PostgreSQL, then replaces its snapshot's rows in one table   *)
(* after the other, each beside the current rows the pages show, and at    *)
(* last its outcome is recorded.  It may fail at each step, the process    *)
(* may end, and several runs may share a snapshot.  The list endpoints     *)
(* look up a snapshot and read its rows afterwards.                        *)
(*                                                                         *)
(* A row is a key and the run that read it.  A behaviour follows the runs  *)
(* of one collector.                                                       *)
(***************************************************************************)
EXTENDS Integers, Sequences, SequencesExt, FiniteSetsExt

CONSTANTS
  Collectors,        \* bound: collectors whose runs are followed
  Batches,           \* bound: sets of keys a read may return
  ViewFaults,        \* "fetch", "save", "current", "record", "crash"
  MaxSnapshots, MaxCollects, MaxViewFaults   \* bounds

ASSUME ViewsAssumption ==
  /\ \A keys \in Batches : keys \subseteq Nat
  /\ {MaxSnapshots, MaxCollects, MaxViewFaults} \subseteq Nat

VARIABLES
  collector,    \* the collector of this behaviour
  stored,       \* snapshots: rows by table, status, whether kept
  current,      \* the current tables
  collect,      \* at most one run at work
  batches,      \* history variable: the keys each run has read
  lost,         \* history variable: current tables whose last save failed
  page,         \* a list endpoint between its two reads
  viewFaults

viewVars == <<collector, stored, current, collect, batches, lost, page, viewFaults>>

-----------------------------------------------------------------------------
(* The operations a run is made of.  Saves replace the rows of their       *)
(* snapshot in one transaction, or the single one.                         *)
Rows(op, table) == [op |-> op, table |-> table, single |-> FALSE]
Row(op, table) == [op |-> op, table |-> table, single |-> TRUE]

GetStatStatements == Rows("fetch", "query_stats")
SaveQueryStats == Rows("save", "query_stats")
SaveCurrentQueryStats == Rows("current", "current_query_stats")

GetStatTables == Rows("fetch", "table_stats")
SaveTableStats == Rows("save", "table_stats")
SaveCurrentTableStats == Rows("current", "current_table_stats")

GetStatIndexes == Rows("fetch", "index_stats")
SaveIndexStats == Rows("save", "index_stats")
SaveCurrentIndexStats == Rows("current", "current_index_stats")

GetTableBloat == Rows("fetch", "bloat_stats")
SaveBloatStats == Rows("save", "bloat_stats")
SaveCurrentBloatStats == Rows("current", "current_bloat_stats")

GetConnectionActivity == Row("fetch", "connection_activity")
GetLongRunningQueries == Rows("fetch", "long_running_queries")
GetIdleInTransaction == Rows("fetch", "idle_in_transaction")
SaveConnectionActivity == Row("save", "connection_activity")
SaveLongRunningQueries == Rows("save", "long_running_queries")
SaveIdleInTransaction == Rows("save", "idle_in_transaction")
SaveCurrentConnectionActivity == Row("current", "current_connection_activity")
SaveCurrentLongRunningQueries == Rows("current", "current_long_running_queries")
SaveCurrentIdleInTransaction == Rows("current", "current_idle_in_transaction")

GetLockStats == Row("fetch", "lock_stats")
GetBlockedQueries == Rows("fetch", "blocked_queries")
SaveLockStats == Row("save", "lock_stats")
SaveBlockedQueries == Rows("save", "blocked_queries")
SaveCurrentLockStats == Row("current", "current_lock_stats")
SaveCurrentBlockedQueries == Rows("current", "current_blocked_queries")

GetDatabaseStats == Row("fetch", "snapshots")
GetExtendedDatabaseStats == Row("fetch", "extended_database_stats")
UpdateSnapshotCacheHitRatio == Row("save", "snapshots")
SaveExtendedDatabaseStats == Row("save", "extended_database_stats")
SaveCurrentDatabaseStats == Row("current", "current_database_stats")

GetOutageRisk == Row("fetch", "outage_risk")
SaveOutageRisk == Row("save", "outage_risk")
RecordSize == Row("history", "size_history")

GetServerSettings == Row("fetch", "server_settings")
SaveServerSettings == Row("save", "server_settings")

-----------------------------------------------------------------------------
(* The collectors.                                                         *)
CollectQueryStats == <<GetStatStatements, SaveQueryStats, SaveCurrentQueryStats>>
CollectTableStats == <<GetStatTables, SaveTableStats, SaveCurrentTableStats>>
CollectIndexStats == <<GetStatIndexes, SaveIndexStats, SaveCurrentIndexStats>>
CollectBloat == <<GetTableBloat, SaveBloatStats, SaveCurrentBloatStats>>

CollectActivity ==
  <<GetConnectionActivity, GetLongRunningQueries, GetIdleInTransaction,
    SaveConnectionActivity, SaveCurrentConnectionActivity,
    SaveLongRunningQueries, SaveCurrentLongRunningQueries,
    SaveIdleInTransaction, SaveCurrentIdleInTransaction>>

CollectLocks ==
  <<GetLockStats, GetBlockedQueries, SaveLockStats, SaveCurrentLockStats,
    SaveBlockedQueries, SaveCurrentBlockedQueries>>

CollectDatabaseStats ==
  <<GetDatabaseStats, GetExtendedDatabaseStats, UpdateSnapshotCacheHitRatio,
    SaveExtendedDatabaseStats, SaveCurrentDatabaseStats>>

CollectRisk == <<GetOutageRisk, SaveOutageRisk, RecordSize>>
CollectSettings == <<GetServerSettings, SaveServerSettings>>

Collect ==
  [query_stats |-> CollectQueryStats, table_stats |-> CollectTableStats,
   index_stats |-> CollectIndexStats, bloat |-> CollectBloat,
   activity |-> CollectActivity, locks |-> CollectLocks,
   database_stats |-> CollectDatabaseStats, outage_risk |-> CollectRisk,
   settings |-> CollectSettings]

ASSUME CollectorsAssumption == Collectors \subseteq DOMAIN Collect

Steps == Collect[collector]

TablesOf(op) == {Steps[i].table : i \in {j \in DOMAIN Steps : Steps[j].op = op}}

\* A single row has the key 1.
KeysOf(step, keys) == IF step.single THEN {1} ELSE keys

ViewsInit ==
  /\ collector \in Collectors
  /\ stored = <<>>
  /\ current = [t \in TablesOf("current") |-> {}]
  /\ collect = {}
  /\ batches = <<>>
  /\ lost = {}
  /\ page = {}
  /\ viewFaults = 0

-----------------------------------------------------------------------------
ViewFault(f) ==
  /\ f \in ViewFaults /\ viewFaults < MaxViewFaults
  /\ viewFaults' = viewFaults + 1

\* Other collectors cut snapshots as well.  torn is a history variable: some
\* write of the collector's into the snapshot failed or was cut short.
CreateSnapshot ==
  /\ Len(stored) < MaxSnapshots
  /\ stored' = Append(stored, [rows |-> [t \in TablesOf("save") |-> {}], status |-> "none",
                               covered |-> 0, kept |-> TRUE, torn |-> FALSE])
  /\ UNCHANGED <<collector, current, collect, batches, lost, page, viewFaults>>

\* The latest snapshot, new or reused.  before is a history variable.
BeginCollect ==
  /\ collect = {} /\ stored # <<>> /\ Len(batches) < MaxCollects
  /\ Last(stored).kept
  /\ \E keys \in Batches : batches' = Append(batches, keys)
  /\ collect' = {[run |-> Len(batches'), snapshot |-> Len(stored), at |-> 1,
                  before |-> <<Last(stored).rows, current>>, failed |-> "no"]}
  /\ UNCHANGED <<collector, stored, current, lost, page, viewFaults>>

Reaches(c, op) ==
  c.failed = "no" /\ c.at =< Len(Steps) /\ Steps[c.at].op = op

GoesOn(c) == collect' = {[c EXCEPT !.at = @ + 1]}
GivesUp(c, why) == collect' = {[c EXCEPT !.failed = why]}

Fetch(c) ==
  /\ Reaches(c, "fetch")
  /\ GoesOn(c)
  /\ UNCHANGED <<collector, stored, current, batches, lost, page, viewFaults>>

\* An error, or a single row that is missing.
FetchFails(c) ==
  /\ Reaches(c, "fetch") /\ ViewFault("fetch")
  /\ GivesUp(c, "fetch")
  /\ UNCHANGED <<collector, stored, current, batches, lost, page>>

NewRows(c) == KeysOf(Steps[c.at], batches[c.run]) \X {c.run}

\* Mutant: rows are added to those the snapshot has.
Adds(rows, new) == rows \cup new

\* The snapshot's rows are deleted before the new ones are inserted.
Replaces(rows, new) == new

Save(c) ==
  /\ Reaches(c, "save")
  /\ stored' = [stored EXCEPT ![c.snapshot].rows[Steps[c.at].table] = Replaces(@, NewRows(c))]
  /\ GoesOn(c)
  /\ UNCHANGED <<collector, current, batches, lost, page, viewFaults>>

SaveFails(c) ==
  /\ Reaches(c, "save") /\ ViewFault("save")
  /\ stored' = [stored EXCEPT ![c.snapshot].torn = TRUE]
  /\ GivesUp(c, "save")
  /\ UNCHANGED <<collector, current, batches, lost, page>>

\* The batch is upserted, and what has another batch's time is deleted.
Refreshes(rows, new) ==
  LET upserted == {r \in rows : \A n \in new : n[1] # r[1]} \cup new
  IN {r \in upserted : r \in new}

SaveCurrent(c) ==
  /\ Reaches(c, "current")
  /\ current' = [current EXCEPT ![Steps[c.at].table] = Refreshes(@, NewRows(c))]
  /\ lost' = lost \ {Steps[c.at].table}
  /\ GoesOn(c)
  /\ UNCHANGED <<collector, stored, batches, page, viewFaults>>

\* Only logged.
SaveCurrentFails(c) ==
  /\ Reaches(c, "current") /\ ViewFault("current")
  /\ lost' = lost \cup {Steps[c.at].table}
  /\ GoesOn(c)
  /\ UNCHANGED <<collector, stored, current, batches, page>>

\* A sample for a history no page or list shows.  It is left out without a size, and
\* a failure is only logged: the run goes on all the same.
RecordHistory(c) ==
  /\ Reaches(c, "history")
  /\ GoesOn(c)
  /\ UNCHANGED <<collector, stored, current, batches, lost, page, viewFaults>>

Finished(c) == c.failed # "no" \/ c.at > Len(Steps)
Succeeded(c) == c.failed = "no"

RecordCollectorRun(c) ==
  /\ Finished(c)
  /\ stored' =
       [stored EXCEPT ![c.snapshot] =
          IF Succeeded(c)
          THEN [@ EXCEPT !.status = "success", !.covered = c.run, !.torn = FALSE]
          ELSE [@ EXCEPT !.status = "error"]]
  /\ collect' = {}
  /\ UNCHANGED <<collector, current, batches, lost, page, viewFaults>>

RecordFails(c) ==
  /\ Finished(c) /\ ViewFault("record")
  /\ stored' = [stored EXCEPT ![c.snapshot].torn = IF Succeeded(c) THEN FALSE ELSE @]
  /\ collect' = {}
  /\ UNCHANGED <<collector, current, batches, lost, page>>

\* The process ends, between two of a run's writes or elsewhere.
CrashCollect(c) ==
  /\ ViewFault("crash")
  /\ stored' = [stored EXCEPT ![c.snapshot].torn = TRUE]
  /\ collect' = {}
  /\ page' = {}
  /\ UNCHANGED <<collector, current, batches, lost>>

PurgeOldSnapshots ==
  /\ \E s \in 1..Len(stored) - 1 :
       /\ \A i \in 1..s - 1 : ~stored[i].kept
       /\ stored[s].kept
       /\ \A c \in collect : c.snapshot # s
       /\ stored' = [stored EXCEPT ![s].kept = FALSE, ![s].rows = [t \in TablesOf("save") |-> {}]]
  /\ UNCHANGED <<collector, current, collect, batches, lost, page, viewFaults>>

-----------------------------------------------------------------------------
\* The newest snapshot the collector succeeded in.
Covering == {s \in DOMAIN stored : stored[s].kept /\ stored[s].status = "success"}

\* Mutant: the newest snapshot.
LatestSnapshot(S) == Max({s \in DOMAIN stored : stored[s].kept})

GetLatestSnapshotWithCollector(S) == Max(S)

\* A list endpoint: the snapshot first, its rows afterwards.  due is a history
\* variable: the last run that succeeded and still has its outcome recorded.
List ==
  /\ page = {} /\ Covering # {}
  /\ page' = {[snapshot |-> GetLatestSnapshotWithCollector(Covering),
               due |-> Max({stored[s].covered : s \in Covering})]}
  /\ UNCHANGED <<collector, stored, current, collect, batches, lost, viewFaults>>

Listed ==
  /\ page # {}
  /\ page' = {}
  /\ UNCHANGED <<collector, stored, current, collect, batches, lost, viewFaults>>

ViewsNext ==
  \/ CreateSnapshot \/ BeginCollect \/ PurgeOldSnapshots
  \/ \E c \in collect :
       \/ Fetch(c) \/ FetchFails(c)
       \/ Save(c) \/ SaveFails(c)
       \/ SaveCurrent(c) \/ SaveCurrentFails(c) \/ RecordHistory(c)
       \/ RecordCollectorRun(c) \/ RecordFails(c) \/ CrashCollect(c)
  \/ List \/ Listed

-----------------------------------------------------------------------------
\* The rows of a run in a table.
Read(run, op, table) ==
  LET step == CHOOSE s \in Range(Steps) : s.op = op /\ s.table = table
  IN KeysOf(step, batches[run]) \X {run}

WrittenBy(run, s) ==
  \A t \in TablesOf("save") : stored[s].rows[t] = Read(run, "save", t)

\* A snapshot in which a collector succeeded has the rows of one run of it in all
\* of its tables, however many runs shared the snapshot and whichever of them
\* failed, unless a write into it failed or was cut short.
SuccessIsWhole ==
  \A s \in Covering :
    (~stored[s].torn /\ \A c \in collect : c.snapshot # s)
      => \E run \in DOMAIN batches : WrittenBy(run, s)

\* A run that could not read all it needs from PostgreSQL has changed neither its
\* snapshot's rows nor the current ones.
FailedReadLeavesNothing ==
  \A c \in collect :
    c.failed = "fetch" => c.before = <<stored[c.snapshot].rows, current>>

\* The pages show the rows of exactly one run in each current table, and one that is
\* no older than the last success on record, unless the table's last save failed.
CurrentKeepsUp ==
  \A t \in TablesOf("current") :
    \/ current[t] = {} /\ (t \in lost \/ Covering = {})
    \/ \E run \in DOMAIN batches :
         /\ current[t] = Read(run, "current", t)
         /\ t \in lost \/ \A s \in Covering : run >= stored[s].covered

\* A list shows nothing older than the last success that was on record when it
\* looked up its snapshot, unless the snapshot is purged before its rows are read.
ListsAreFresh ==
  \A p \in page : stored[p.snapshot].kept =>
    \A t \in TablesOf("save") :
      \E run \in p.due..Len(batches) : stored[p.snapshot].rows[t] = Read(run, "save", t)

\* Neither a page nor a list shows old or mixed rows while newer ones are on record.
PagesAreFresh == CurrentKeepsUp /\ ListsAreFresh

\* A run that failed on its way is not taken for data, in its own snapshot or after.
RunsAreWhole == SuccessIsWhole /\ FailedReadLeavesNothing
=============================================================================
