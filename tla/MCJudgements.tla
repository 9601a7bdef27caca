---------------------------- MODULE MCJudgements ----------------------------
(* Values on both sides of each threshold, most families with all the
   measurements their rules combine.  Thresholds are the default ones. *)
EXTENDS Judgements

MCConfigured ==
  [slowQueryMs |-> 1000, slowQueryWindow |-> 86400, cacheHitRatioWarning |-> 950,
   bloatPercentWarning |-> 20, unusedIndexDays |-> 30, seqScanRatioWarning |-> 500,
   minTableSizeForIndex |-> 10000, diskCapacityMB |-> 0, serverMemoryMB |-> 0]

\* y is sorted the other way round.
Key(column) == <<column, IF column = "y" THEN "desc" ELSE "">>

Index(method, columns, include, unique, scans) ==
  [name |-> 0, method |-> method, keys |-> [n \in DOMAIN columns |-> Key(columns[n])],
   include |-> include, expr |-> "", predicate |-> "", unique |-> unique,
   backsForeignKey |-> FALSE, scans |-> scans, size |-> 8192, counted |-> 30]

\* Plain and unique, wide and narrow, scanned and not; one row without a definition.
MCIndexes ==
  <<Index("btree", <<"x">>, {}, FALSE, 0), Index("btree", <<"x">>, {}, FALSE, 1),
    Index("btree", <<"x">>, {}, TRUE, 0), Index("hash", <<"x">>, {}, FALSE, 0),
    Index("btree", <<"x">>, {"y"}, FALSE, 0), Index("btree", <<"x", "y">>, {}, FALSE, 0),
    Index("hash", <<"x", "y">>, {}, FALSE, 0), Index("btree", <<"x", "y", "z">>, {}, FALSE, 0),
    Index("btree", <<>>, {}, FALSE, 0)>>

Scan(query, read, columns, share) ==
  [query |-> query, read |-> read, columns |-> columns, share |-> share, skipped |-> FALSE]

MCScans ==
  <<<<>>, <<Scan("q1", "x", <<"x">>, 5), Scan("q3", "x", <<"x">>, 1)>>,
    <<Scan("q1", "x", <<"x">>, 60), Scan("q2", "xy", <<"x", "y">>, 4)>>,
    <<Scan("q1", "x", <<"x">>, 3), Scan("q2", "y", <<"y">>, 3),
      Scan("q3", "xzyv", <<"x", "z", "y", "v">>, 2)>>,
    <<Scan("q1", "xy", <<"x", "y">>, 60), Scan("q1", "x", <<"x">>, 60), Scan("q2", "", <<>>, 30)>>,
    <<[Scan("q1", "x", <<"x">>, 60) EXCEPT !.skipped = TRUE]>>>>

Connections(total, max) == [total |-> total, max |-> max]

MCScales ==
  [table |->
     [live |-> <<999, 1000>>, dead |-> <<1000, 1001>>, vacuum |-> <<0, 7, 8, None>>,
      autovacuum |-> <<7, 8, None>>, analyze |-> <<7, 8>>, seq |-> <<0>>, idx |-> <<1>>,
      size |-> <<10000>>, bloat |-> <<None, 19, 20, 50>>, scans |-> <<<<>>>>],
   scanning |->
     [live |-> <<9999, 10000>>, dead |-> <<0>>, vacuum |-> <<0>>, autovacuum |-> <<0>>,
      analyze |-> <<0>>, seq |-> <<99, 100, 400>>, idx |-> <<0, 100, 101>>,
      size |-> <<9999, 10000>>, bloat |-> <<None>>, scans |-> MCScans],
   indexes |-> [i1 |-> MCIndexes, i2 |-> MCIndexes,
               i3 |-> <<MCIndexes[1], MCIndexes[3], MCIndexes[6], MCIndexes[7], MCIndexes[8]>>],
   queries |->
     [mean |-> <<999, 1000, 5000>>, deltaCalls |-> <<0, 1>>,
      deltaMean |-> <<999, 1000, 5000>>],
   sessions |->
     [now |-> <<Connections(0, 0), Connections(79, 100), Connections(80, 100), Connections(95, 100)>>,
      peak |-> <<None, Connections(0, 0), Connections(40, 50), Connections(96, 100)>>,
      running |-> <<0, 59, 60, 300>>, idle |-> <<0, 59, 60, 300>>],
   database |->
     [ratio |-> <<950, 949, 900, 899>>, temp |-> <<0, 1023, 1024, 10240>>,
      deadlocks |-> <<0, 1, 4, 5>>, wait |-> <<0, 9, 10, 60>>],
   freezing |->
     [xid |-> <<0, 299999999, 300000000, 500000000, 1000000000>>,
      mxid |-> <<0, 499999999, 500000000, 600000000, 1000000000>>,
      freezeMax |-> <<0, 200000000>>, multixactFreezeMax |-> <<0, 400000000>>],
   slots |->
     [retained |-> <<0, 1023, 1024, 10240>>, active |-> <<TRUE, FALSE>>,
      wal |-> <<"reserved", "unreserved", "lost">>, xmin |-> <<0, 499999999, 500000000>>,
      lag |-> <<None, 299, 300>>],
   limits |->
     [used |-> <<0, 749, 750, 900>>, prepared |-> <<0, 3599, 3600, 86400>>],
   disk |->
     [growth |-> <<-1, 0, 1, 10, 100>>, current |-> <<90, 900, 1000>>, capacity |-> <<0, 970, 1200>>],
   vacuuming |->
     [autovacuum |-> <<"on", None, "off">>, trackCounts |-> <<"on", "off">>,
      disabledTable |-> <<None, 1023, 1024>>],
   hygiene |->
     [idleTimeout |-> <<60, 0>>, idleSessions |-> <<0, 1>>, statementTimeout |-> <<60, 0>>,
      logMinDuration |-> <<"on", "off">>, logLockWaits |-> <<"on">>,
      logTempFiles |-> <<"on">>, trackIoTiming |-> <<"on">>,
      randomPageCost |-> <<1, 4>>, pendingRestart |-> <<"off", "on">>],
   memory |->
     [sharedBuffers |-> <<None, 128, 129, 1000, 2600, 2700>>, workMem |-> <<4, 64>>,
      maxConnections |-> <<None, 100>>, cluster |-> <<2047, 2048>>, memory |-> <<0, 6500>>],
   tracking |->
     [track |-> <<"top", "none">>, entries |-> <<8, 9, 10>>, max |-> <<0, 10>>, evicted |-> <<0, 1>>]]

MCGaps ==
  [table |-> {"table_stats", "bloat"}, scanning |-> {"table_stats", "query_plans", "q1", "xy"},
   indexes |-> {"index_stats"}, queries |-> {"query_stats", "baseline"}, sessions |-> {"activity", "peak"},
   database |-> {"database_stats", "locks"}, freezing |-> {"outage_risk", "wraparound"},
   slots |-> {"outage_risk", "replication_slots", "replication"},
   limits |-> {"outage_risk", "sequences", "prepared_xacts"},
   disk |-> {"outage_risk", "size", "history"},
   vacuuming |-> {"server_settings", "settings", "autovacuum_disabled"},
   hygiene |-> {"server_settings", "settings", "activity"},
   memory |-> {"server_settings", "settings", "outage_risk", "size"},
   tracking |-> {"server_settings", "settings", "stat_statements", "baseline"}]
=============================================================================
