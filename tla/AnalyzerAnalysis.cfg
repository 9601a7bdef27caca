SPECIFICATION Spec
CONSTANTS
  QueryStats = "query_stats"
  DatabaseStats = "database_stats"
  TableStats = "table_stats"
  Bloat = "bloat"
  IndexStats = "index_stats"
  RowDomains <- MCRowDomains
  WithLists <- MCWithLists
  Observed <- MCObserved
  Budget <- MCBudget
  Retention = 3
  CycleSpan = 1
  AnalysisSpan = 1
  MaxSnapshots = 2
  MaxTime = 4
  MaxErrors = 1
  MaxRuns = 2
  None = None
INVARIANTS
  RecoveryWasObserved
  HistoryStaysHistorical
CHECK_DEADLOCK FALSE
