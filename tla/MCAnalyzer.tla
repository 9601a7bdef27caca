----------------------------- MODULE MCAnalyzer -----------------------------
(* Six domains of the ten; index_stats is read like query_stats and the other
   operational domains like activity.  The collectors of two of them work. *)
EXTENDS Analyzer

MCRowDomains == <<"activity", "database_stats", "query_plans">>
MCWithLists == {"activity"}
MCObserved ==
  {{"query_stats", "database_stats"}, {"table_stats", "bloat"},
   {"index_stats"}, {"activity"}, {"query_plans"}}
\* Plans lose their interval when the advisor is switched off.
MCBudget == [d \in Domains |-> IF d = "query_plans" THEN 0 ELSE 1]
=============================================================================
