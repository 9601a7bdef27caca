--------------------------- MODULE AnalyzerProofs ---------------------------
(***************************************************************************)
(* An analysis beside collection and maintenance, for any domains, budgets,*)
(* snapshots, failures and restarts.                                       *)
(***************************************************************************)
EXTENDS Analyzer, SequenceTheorems, NaturalsInduction, WellFoundedInduction, TLAPS

\* Somebody collects; rows are collected within a cycle after their snapshot was taken, and a success is
\* recorded over rows that are there.
StoreInv ==
  /\ working # {}
  /\ \A s \in Snapshots : captured[s] # None => s < next /\ captured[s] <= clock
  /\ \A s \in Snapshots, d \in Domains : data[s][d] # None =>
       /\ captured[s] # None
       /\ captured[s] <= data[s][d] /\ data[s][d] <= captured[s] + CycleSpan
  /\ \A s \in Snapshots, d \in Domains : outcome[s][d].status = "success" =>
       /\ data[s][d] # None
       /\ outcome[s][d].at <= captured[s] + CycleSpan
  /\ \A s \in Snapshots, d \in Domains : <<s, d>> \in saved =>
       /\ data[s][d] # None
       /\ clock <= captured[s] + CycleSpan

\* Where the analysis is, and what it has by then.
Stages ==
  /\ Running => clock <= resolvedAt + AnalysisSpan
  /\ stage = "idle" => \A d \in Domains : coverage[d].snap = 0
  /\ stage \in {"idle", "find", "lookup"} => \A d \in Domains : seen[d] = None
  /\ stage \in {"find", "lookup"} => step \in 1..Len(AllDomains)
  /\ stage = "lookup" => /\ found # 0 /\ found < next
                         /\ captured[found] # None => captured[found] <= anchor
  /\ stage = "read" => step \in 1..Len(Reads) /\ coverage[Reads[step]].snap # 0
  /\ stage = "retry" => /\ step = 3 /\ coverage[TableStats].snap # 0
                        /\ coverage[Bloat].stale
  /\ stage = "lists" => /\ step \in 1..Len(Reads) /\ step > 4
                        /\ coverage[Reads[step]].snap # 0 /\ Reads[step] \in WithLists
                        /\ seen[Reads[step]] # None

\* The snapshot a domain was resolved to has its rows, or was purged, and then it was
\* taken too long ago for the rows of a list to be usable.
Covered ==
  \A d \in Domains : coverage[d].snap # 0 =>
    /\ coverage[d].snap < next
    /\ captured[coverage[d].snap] # None =>
         /\ data[coverage[d].snap][d] # None
         /\ captured[coverage[d].snap] <= anchor
         /\ coverage[d].at <= captured[coverage[d].snap] + CycleSpan
    /\ captured[coverage[d].snap] = None => coverage[d].at + Retention < clock + CycleSpan
    /\ ~coverage[d].stale /\ Budget[d] > 0 => resolvedAt <= coverage[d].at + Budget[d]

\* What was read is of the cycle of the snapshot that was resolved.
SeenOf ==
  \A d \in Domains : seen[d] # None =>
    coverage[d].at <= seen[d] + CycleSpan /\ seen[d] <= anchor + CycleSpan

\* What is usable of the first k - 1 reads was seen.  database_stats is read twice, the
\* second time for good; bloat is read with the tables.
UsableIn(c, d) == c[d].snap # 0 /\ ~c[d].stale
SeenBefore(c, s, k) ==
  /\ \A j \in 1..Len(Reads) : j < k /\ j # 2 /\ UsableIn(c, Reads[j]) => s[Reads[j]] # None
  /\ 3 < k /\ UsableIn(c, TableStats) /\ UsableIn(c, Bloat) => s[Bloat] # None

ReadSoFar ==
  /\ stage \in {"read", "retry", "lists"} => SeenBefore(coverage, seen, step)
  /\ stage = "done" => SeenBefore(coverage, seen, Len(Reads) + 1)

AInv == AnalyzerTypeOK /\ StoreInv /\ Stages /\ Covered /\ SeenOf /\ ReadSoFar

-----------------------------------------------------------------------------
\* A sequence of four and another behind it.
LEMMA FourThenRest ==
  ASSUME NEW S, NEW f \in Seq(S), Len(f) = 4, NEW r \in Seq(S), Len(r) \in Nat
  PROVE  /\ f \o r \in Seq(S) /\ Len(f \o r) = 4 + Len(r)
         /\ \A i \in 1..4 : (f \o r)[i] = f[i] /\ i \in 1..Len(f \o r)
         /\ \A i \in 1..Len(r) : (f \o r)[4 + i] = r[i] /\ 4 + i \in 1..Len(f \o r)
<1>1. /\ f \o r \in Seq(S) /\ Len(f \o r) = Len(f) + Len(r)
      /\ \A i \in 1..Len(f) + Len(r) : (f \o r)[i] = IF i <= Len(f) THEN f[i] ELSE r[i - Len(f)]
  BY ConcatProperties
<1>2. /\ Len(f \o r) = 4 + Len(r)
      /\ \A i \in 1..4 + Len(r) : (f \o r)[i] = IF i <= 4 THEN f[i] ELSE r[i - 4]
  BY <1>1
<1>3. \A i \in 1..4 : i \in 1..4 + Len(r) /\ i <= 4
  OBVIOUS
<1>4. \A i \in 1..Len(r) : 4 + i \in 1..4 + Len(r) /\ ~(4 + i <= 4) /\ (4 + i) - 4 = i
  OBVIOUS
<1> QED
  BY <1>1, <1>2, <1>3, <1>4

\* The orders in which domains are resolved and read.
LEMMA Orders ==
  /\ RowDomains \in Seq(Domains)
  /\ ListDomains \in Seq(Domains) /\ AllDomains \in Seq(Domains)
  /\ Reads \in Seq(Domains)
  /\ Len(Reads) = 4 + Len(RowDomains) /\ Len(RowDomains) \in Nat
  /\ Reads[1] = QueryStats /\ Reads[2] = DatabaseStats
  /\ Reads[3] = TableStats /\ Reads[4] = IndexStats
  /\ \A i \in 1..Len(RowDomains) : Reads[4 + i] = RowDomains[i]
  /\ {QueryStats, DatabaseStats, TableStats, IndexStats, Bloat} \subseteq Domains
  /\ Rows \subseteq Domains
<1> DEFINE A == {QueryStats, TableStats, IndexStats, Bloat} \cup Rows
<1>1. RowDomains \in Seq(A) /\ Len(RowDomains) \in Nat
  BY DomainsAssumption
<1>2. ListDomains \in Seq(A) /\ Len(ListDomains) = 4
  BY DEF ListDomains
<1> HIDE DEF A
<1>3. /\ AllDomains \in Seq(A) /\ Len(AllDomains) = 4 + Len(RowDomains)
      /\ \A i \in 1..4 : AllDomains[i] = ListDomains[i] /\ i \in 1..Len(AllDomains)
      /\ \A i \in 1..Len(RowDomains) :
           AllDomains[4 + i] = RowDomains[i] /\ 4 + i \in 1..Len(AllDomains)
  BY <1>1, <1>2, FourThenRest DEF AllDomains
<1>5. {QueryStats, TableStats, IndexStats, Bloat} \subseteq Domains
  <2>1. AllDomains[1] = QueryStats /\ AllDomains[2] = TableStats
        /\ AllDomains[3] = IndexStats /\ AllDomains[4] = Bloat
    BY <1>3 DEF ListDomains
  <2> QED
    BY <1>3, <2>1 DEF Domains
<1>6. Rows \subseteq Domains
  <2> SUFFICES ASSUME NEW i \in 1..Len(RowDomains) PROVE RowDomains[i] \in Domains
    BY DEF Rows
  <2>1. 4 + i \in 1..Len(AllDomains) /\ AllDomains[4 + i] = RowDomains[i]
    BY <1>3
  <2> QED
    BY <2>1 DEF Domains
<1>7. DatabaseStats \in Domains
  BY <1>6, DomainsAssumption
<1>8. A \subseteq Domains
  BY <1>5, <1>6 DEF A
<1>9. RowDomains \in Seq(Domains) /\ ListDomains \in Seq(Domains) /\ AllDomains \in Seq(Domains)
  BY <1>1, <1>2, <1>3, <1>8
<1> DEFINE F == <<QueryStats, DatabaseStats, TableStats, IndexStats>>
<1>10. F \in Seq(Domains) /\ Len(F) = 4
  BY <1>5, <1>7
<1>11. /\ Reads \in Seq(Domains) /\ Len(Reads) = 4 + Len(RowDomains)
       /\ \A i \in 1..4 : Reads[i] = F[i]
       /\ \A i \in 1..Len(RowDomains) : Reads[4 + i] = RowDomains[i]
  BY <1>1, <1>9, <1>10, FourThenRest DEF Reads
<1>12. /\ Reads[1] = QueryStats /\ Reads[2] = DatabaseStats
       /\ Reads[3] = TableStats /\ Reads[4] = IndexStats
  BY <1>11
<1> QED
  BY <1>1, <1>5, <1>6, <1>7, <1>9, <1>11, <1>12

\* The least of a set of numbers.
LEMMA FirstIsLeast ==
  ASSUME NEW S, S \subseteq Nat, S # {}
  PROVE  First(S) \in S /\ \A j \in S : First(S) <= j
<1>1. PICK x \in S : \A y \in S : ~(<<y, x>> \in OpToRel(<, Nat))
  BY NatLessThanWellFounded, WFMin
<1>2. ASSUME NEW y \in S PROVE x <= y
  <2>1. x \in Nat /\ y \in Nat
    OBVIOUS
  <2>2. y < x => <<y, x>> \in OpToRel(<, Nat)
    BY <2>1, Zenon DEF OpToRel
  <2>3. ~(y < x)
    BY <1>1, <2>2, Zenon
  <2> QED
    BY <2>1, <2>3
<1> QED
  BY <1>1, <1>2 DEF First

\* The next read is of the next domain that has a snapshot.
LEMMA Proceeds ==
  ASSUME NEW c, NEW i \in Nat \ {0}, ProceedToRead(c, i)
  PROVE  \/ /\ stage' = "read" /\ step' \in i..Len(Reads)
            /\ c[Reads[step']].snap # 0
            /\ \A j \in i..Len(Reads) : j < step' => c[Reads[j]].snap = 0
         \/ /\ stage' = "done" /\ step' = 1
            /\ \A j \in i..Len(Reads) : c[Reads[j]].snap = 0
<1>1. CASE Pending(c, i) = {}
  BY <1>1 DEF ProceedToRead, Pending
<1>2. CASE Pending(c, i) # {}
  <2>1. stage' = "read" /\ step' = First(Pending(c, i))
    BY <1>2 DEF ProceedToRead
  <2>2. Pending(c, i) \subseteq Nat
    BY Orders DEF Pending
  <2>3. First(Pending(c, i)) \in Pending(c, i)
        /\ \A j \in Pending(c, i) : First(Pending(c, i)) <= j
    BY <1>2, <2>2, FirstIsLeast
  <2>4. step' \in i..Len(Reads) /\ c[Reads[step']].snap # 0
    BY <2>1, <2>3 DEF Pending
  <2>5. ASSUME NEW j \in i..Len(Reads), j < step' PROVE c[Reads[j]].snap = 0
    <3>1. j \notin Pending(c, i)
      BY <2>1, <2>3, <2>4, <2>5, Orders
    <3> QED
      BY <3>1 DEF Pending
  <2> QED
    BY <2>1, <2>4, <2>5
<1> QED
  BY <1>1, <1>2

\* The next search is for a domain that somebody collects.
LEMMA LooksUp ==
  ASSUME NEW i \in Nat \ {0}, Lookups(i) # {}
  PROVE  First(Lookups(i)) \in 1..Len(AllDomains)
<1>1. Lookups(i) \subseteq 1..Len(AllDomains) /\ Lookups(i) \subseteq Nat
  BY Orders DEF Lookups
<1> QED
  BY <1>1, FirstIsLeast

-----------------------------------------------------------------------------
\* What surrounds an analysis may change under it: snapshots are added, or purged
\* when they are old, and rows that are there stay until then.
LEMMA AnalysisKept ==
  ASSUME AInv, UNCHANGED analysis,
         clock' \in Nat, next' \in Nat, clock <= clock', next <= next',
         Running => clock' <= resolvedAt + AnalysisSpan,
         \A s \in Snapshots : s < next =>
           \/ captured'[s] = captured[s]
           \/ captured'[s] = None /\ captured[s] # None /\ captured[s] + Retention < clock',
         \A s \in Snapshots, d \in Domains :
           captured'[s] # None /\ data[s][d] # None => data'[s][d] # None
  PROVE  Stages' /\ Covered' /\ SeenOf' /\ ReadSoFar'
<1>1. UNCHANGED <<stage, step, found, anchor, coverage, seen, resolvedAt>>
  BY DEF analysis
<1>2. Stages'
  <2>1. (Running)' = Running
    BY <1>1 DEF Running
  <2>2. stage = "lookup" => found \in Snapshots
    BY DEF AInv, AnalyzerTypeOK, Stages
  <2>3. stage = "lookup" => found < next'
    BY <2>2 DEF AInv, AnalyzerTypeOK, Stages, Snapshots
  <2>4. stage = "lookup" /\ captured'[found] # None => captured'[found] <= anchor
    BY <2>2 DEF AInv, Stages
  <2> QED
    BY <1>1, <2>1, <2>3, <2>4 DEF AInv, Stages
<1>3. Covered'
  <2> SUFFICES ASSUME NEW d \in Domains, coverage[d].snap # 0
               PROVE  /\ coverage[d].snap < next'
                      /\ captured'[coverage[d].snap] # None =>
                           /\ data'[coverage[d].snap][d] # None
                           /\ captured'[coverage[d].snap] <= anchor
                           /\ coverage[d].at <= captured'[coverage[d].snap] + CycleSpan
                      /\ captured'[coverage[d].snap] = None =>
                           coverage[d].at + Retention < clock' + CycleSpan
                      /\ ~coverage[d].stale /\ Budget[d] > 0 => resolvedAt <= coverage[d].at + Budget[d]
    BY <1>1 DEF Covered
  <2> DEFINE s == coverage[d].snap
  <2>1. s \in Snapshots /\ coverage[d].at \in Nat
    BY DEF AInv, AnalyzerTypeOK
  <2>2. s \in Nat /\ next \in Nat /\ clock \in Nat
    BY <2>1 DEF AInv, AnalyzerTypeOK, Snapshots
  <2>3. captured[s] # None => captured[s] \in Nat
    BY <2>1 DEF AInv, AnalyzerTypeOK
  <2>4. /\ s < next
        /\ captured[s] # None =>
             /\ data[s][d] # None
             /\ captured[s] <= anchor
             /\ coverage[d].at <= captured[s] + CycleSpan
        /\ captured[s] = None => coverage[d].at + Retention < clock + CycleSpan
        /\ ~coverage[d].stale /\ Budget[d] > 0 => resolvedAt <= coverage[d].at + Budget[d]
    BY DEF AInv, Covered
  <2>5. \/ captured'[s] = captured[s]
        \/ captured'[s] = None /\ captured[s] # None /\ captured[s] + Retention < clock'
    BY <2>1, <2>4
  <2>6. captured'[s] # None => data'[s][d] # None
    BY <2>1, <2>4, <2>5
  <2> HIDE DEF s
  <2>7. captured'[s] = None => coverage[d].at + Retention < clock' + CycleSpan
    BY <2>1, <2>2, <2>3, <2>4, <2>5, AnalyzerAssumption
  <2>8. captured'[s] # None => captured'[s] = captured[s]
    BY <2>5
  <2>9. s < next'
    BY <2>2, <2>4
  <2> QED
    BY <2>4, <2>6, <2>7, <2>8, <2>9 DEF s
<1>4. SeenOf'
  BY <1>1 DEF AInv, SeenOf
<1>5. ReadSoFar'
  BY <1>1 DEF AInv, ReadSoFar, SeenBefore, UsableIn
<1> QED
  BY <1>2, <1>3, <1>4, <1>5

LEMMA SnapshotsAreNumbers == Snapshots \subseteq Nat /\ 0 \notin Snapshots
  BY DEF Snapshots

LEMMA CreateStep ==
  ASSUME AInv, CreateSnapshot PROVE AInv'
<1>1. /\ next \in Snapshots /\ next' = next + 1
      /\ captured' = [captured EXCEPT ![next] = clock]
      /\ UNCHANGED <<clock, working, runs, saved, data, outcome>> /\ UNCHANGED analysis
  BY DEF CreateSnapshot
<1>2. AnalyzerTypeOK'
  <2>1. next' \in Nat /\ captured' \in [Snapshots -> Nat \cup {None}]
    BY <1>1 DEF AInv, AnalyzerTypeOK
  <2>2. \A s \in Snapshots, d \in Domains :
          captured'[s] = None => data[s][d] = None /\ outcome[s][d] = NotRun
    BY <1>1, AnalyzerAssumption DEF AInv, AnalyzerTypeOK
  <2> QED
    BY <1>1, <2>1, <2>2 DEF AInv, AnalyzerTypeOK, analysis
<1>3. captured[next] = None
  BY <1>1, SnapshotsAreNumbers DEF AInv, StoreInv
<1>4. \A s \in Snapshots : captured'[s] = IF s = next THEN clock ELSE captured[s]
  BY <1>1 DEF AInv, AnalyzerTypeOK
<1>5. \A d \in Domains : data[next][d] = None /\ outcome[next][d].status # "success"
  BY <1>1, <1>3 DEF AInv, AnalyzerTypeOK, NotRun
<1>6. StoreInv'
  <2>1. ASSUME NEW s \in Snapshots, captured'[s] # None
        PROVE  s < next' /\ captured'[s] <= clock'
    BY <1>1, <1>4, <2>1, SnapshotsAreNumbers DEF AInv, StoreInv, AnalyzerTypeOK
  <2>2. ASSUME NEW s \in Snapshots, NEW d \in Domains, data[s][d] # None
        PROVE  captured'[s] = captured[s]
    BY <1>4, <1>5, <2>2
  <2>3. ASSUME NEW s \in Snapshots, NEW d \in Domains,
               outcome[s][d].status = "success" \/ <<s, d>> \in saved
        PROVE  captured'[s] = captured[s]
    BY <2>2, <2>3 DEF AInv, StoreInv
  <2> QED
    BY <1>1, <2>1, <2>2, <2>3 DEF AInv, StoreInv
<1>7. Running => clock' <= resolvedAt + AnalysisSpan
  BY <1>1 DEF AInv, Stages
<1>8. Stages' /\ Covered' /\ SeenOf' /\ ReadSoFar'
  <2>1. clock' \in Nat /\ next' \in Nat /\ clock <= clock' /\ next <= next'
    BY <1>1, <1>2, SnapshotsAreNumbers DEF AnalyzerTypeOK
  <2>2. \A s \in Snapshots : s < next => captured'[s] = captured[s]
    BY <1>1, <1>4, SnapshotsAreNumbers
  <2>3. \A s \in Snapshots, d \in Domains : data[s][d] # None => data'[s][d] # None
    BY <1>1
  <2> QED
    BY <1>1, <1>7, <2>1, <2>2, <2>3, AnalysisKept
<1> QED
  BY <1>2, <1>6, <1>8 DEF AInv

LEMMA SaveStep ==
  ASSUME AInv, NEW s \in Snapshots, NEW d \in Domains, SaveRows(s, d) PROVE AInv'
<1>1. /\ captured[s] # None /\ clock <= captured[s] + CycleSpan
      /\ runs < MaxRuns /\ runs' = runs + 1
      /\ data' = [data EXCEPT ![s][d] = clock]
      /\ saved' = saved \cup {<<s, d>>}
      /\ UNCHANGED <<clock, working, next, captured, outcome>> /\ UNCHANGED analysis
  BY DEF SaveRows, Writable, Stored
<1>2. \A t \in Snapshots, e \in Domains :
        data'[t][e] = IF t = s /\ e = d THEN clock ELSE data[t][e]
  BY <1>1 DEF AInv, AnalyzerTypeOK
<1>3. AnalyzerTypeOK'
  <2>1. data' \in [Snapshots -> [Domains -> Nat \cup {None}]]
    BY <1>1 DEF AInv, AnalyzerTypeOK
  <2>2. runs' \in 0..MaxRuns /\ saved' \subseteq Snapshots \X Domains
    BY <1>1, AnalyzerAssumption DEF AInv, AnalyzerTypeOK
  <2>3. \A t \in Snapshots, e \in Domains :
          captured[t] = None => data'[t][e] = None /\ outcome[t][e] = NotRun
    BY <1>1, <1>2 DEF AInv, AnalyzerTypeOK
  <2> QED
    BY <1>1, <2>1, <2>2, <2>3 DEF AInv, AnalyzerTypeOK, analysis
<1>4. clock \in Nat /\ clock # None /\ captured[s] <= clock
  BY <1>1, AnalyzerAssumption DEF AInv, AnalyzerTypeOK, StoreInv
<1>5. \A t \in Snapshots, e \in Domains : data[t][e] # None => data'[t][e] # None
  BY <1>2, <1>4
<1>6. StoreInv'
  <2>1. ASSUME NEW t \in Snapshots, NEW e \in Domains, data'[t][e] # None
        PROVE  /\ captured[t] # None
               /\ captured[t] <= data'[t][e] /\ data'[t][e] <= captured[t] + CycleSpan
    BY <1>1, <1>2, <1>4, <2>1 DEF AInv, StoreInv
  <2>2. ASSUME NEW t \in Snapshots, NEW e \in Domains, <<t, e>> \in saved'
        PROVE  data'[t][e] # None /\ clock <= captured[t] + CycleSpan
    BY <1>1, <1>2, <1>4, <1>5, <2>2 DEF AInv, StoreInv
  <2> QED
    BY <1>1, <1>5, <2>1, <2>2 DEF AInv, StoreInv
<1>7. Stages' /\ Covered' /\ SeenOf' /\ ReadSoFar'
  <2>1. clock' \in Nat /\ next' \in Nat /\ clock <= clock' /\ next <= next'
    BY <1>1 DEF AInv, AnalyzerTypeOK
  <2>2. Running => clock' <= resolvedAt + AnalysisSpan
    BY <1>1 DEF AInv, Stages
  <2> QED
    BY <1>1, <1>5, <2>1, <2>2, AnalysisKept
<1> QED
  BY <1>3, <1>6, <1>7 DEF AInv

\* An outcome is only recorded; a success after its rows.
LEMMA RecordStep ==
  ASSUME AInv, NEW s \in Snapshots, NEW d \in Domains,
         NEW run \in [status : {"none", "success", "error"}, at : Nat],
         RecordRun(s, d, run), runs' \in 0..MaxRuns,
         run.status = "success" => data[s][d] # None /\ run.at <= captured[s] + CycleSpan
  PROVE  AInv'
<1>1. /\ captured[s] # None
      /\ outcome' = [outcome EXCEPT ![s][d] = run]
      /\ saved' = saved \ {<<s, d>>}
      /\ UNCHANGED <<clock, working, next, captured, data>> /\ UNCHANGED analysis
  BY DEF RecordRun, Stored
<1>2. \A t \in Snapshots, e \in Domains :
        outcome'[t][e] = IF t = s /\ e = d THEN run ELSE outcome[t][e]
  BY <1>1 DEF AInv, AnalyzerTypeOK
<1>3. AnalyzerTypeOK'
  <2>1. outcome' \in [Snapshots -> [Domains -> [status : {"none", "success", "error"}, at : Nat]]]
    BY <1>1 DEF AInv, AnalyzerTypeOK
  <2>2. \A t \in Snapshots, e \in Domains :
          captured[t] = None => data[t][e] = None /\ outcome'[t][e] = NotRun
    BY <1>1, <1>2 DEF AInv, AnalyzerTypeOK
  <2> QED
    BY <1>1, <2>1, <2>2 DEF AInv, AnalyzerTypeOK, analysis
<1>4. StoreInv'
  BY <1>1, <1>2 DEF AInv, StoreInv
<1>5. Stages' /\ Covered' /\ SeenOf' /\ ReadSoFar'
  <2>1. clock' \in Nat /\ next' \in Nat /\ clock <= clock' /\ next <= next'
    BY <1>1 DEF AInv, AnalyzerTypeOK
  <2>2. Running => clock' <= resolvedAt + AnalysisSpan
    BY <1>1 DEF AInv, Stages
  <2> QED
    BY <1>1, <2>1, <2>2, AnalysisKept
<1> QED
  BY <1>3, <1>4, <1>5 DEF AInv

LEMMA SuccessStep ==
  ASSUME AInv, NEW s \in Snapshots, NEW d \in Domains, RecordSuccess(s, d) PROVE AInv'
<1> DEFINE run == [status |-> "success", at |-> clock]
<1>1. RecordRun(s, d, run) /\ <<s, d>> \in saved /\ runs' = runs
  BY DEF RecordSuccess
<1>2. run \in [status : {"none", "success", "error"}, at : Nat] /\ runs' \in 0..MaxRuns
  BY <1>1 DEF AInv, AnalyzerTypeOK
<1>3. data[s][d] # None /\ run.at <= captured[s] + CycleSpan
  BY <1>1 DEF AInv, StoreInv
<1> QED
  BY <1>1, <1>2, <1>3, RecordStep

LEMMA ErrorStep ==
  ASSUME AInv, NEW s \in Snapshots, NEW d \in Domains, RecordError(s, d) PROVE AInv'
<1> DEFINE run == [status |-> "error", at |-> 0]
<1>1. RecordRun(s, d, run)
  BY DEF RecordError
<1>2. run \in [status : {"none", "success", "error"}, at : Nat] /\ run.status # "success"
  OBVIOUS
<1>3. runs' \in 0..MaxRuns
  BY AnalyzerAssumption DEF RecordError, AInv, AnalyzerTypeOK
<1> QED
  BY <1>1, <1>2, <1>3, RecordStep

LEMMA PurgeStep ==
  ASSUME AInv, PurgeOldSnapshots PROVE AInv'
<1> DEFINE old == {s \in Snapshots : captured[s] # None /\ captured[s] + Retention < clock}
<1>1. /\ captured' = [s \in Snapshots |-> IF s \in old THEN None ELSE captured[s]]
      /\ data' = [s \in Snapshots |-> IF s \in old THEN [d \in Domains |-> None] ELSE data[s]]
      /\ outcome' = [s \in Snapshots |-> IF s \in old THEN [d \in Domains |-> NotRun] ELSE outcome[s]]
      /\ saved' = {x \in saved : x[1] \notin old}
      /\ UNCHANGED <<clock, working, next, runs>> /\ UNCHANGED analysis
  BY DEF PurgeOldSnapshots, Forget, Stored
<1>2. \A s \in Snapshots : captured'[s] = IF s \in old THEN None ELSE captured[s]
  BY <1>1
<1>3. \A s \in Snapshots, d \in Domains :
        /\ s \in old => data'[s][d] = None /\ outcome'[s][d] = NotRun
        /\ s \notin old => data'[s][d] = data[s][d] /\ outcome'[s][d] = outcome[s][d]
  BY <1>1
<1>4. AnalyzerTypeOK'
  <2>1. captured' \in [Snapshots -> Nat \cup {None}]
    BY <1>1 DEF AInv, AnalyzerTypeOK
  <2>2. data' \in [Snapshots -> [Domains -> Nat \cup {None}]]
    BY <1>1 DEF AInv, AnalyzerTypeOK
  <2>3. outcome' \in [Snapshots -> [Domains -> [status : {"none", "success", "error"}, at : Nat]]]
    BY <1>1 DEF AInv, AnalyzerTypeOK, NotRun
  <2>4. saved' \subseteq Snapshots \X Domains
    BY <1>1 DEF AInv, AnalyzerTypeOK
  <2>5. \A s \in Snapshots, d \in Domains :
          captured'[s] = None => data'[s][d] = None /\ outcome'[s][d] = NotRun
    BY <1>2, <1>3 DEF AInv, AnalyzerTypeOK
  <2> QED
    BY <1>1, <2>1, <2>2, <2>3, <2>4, <2>5 DEF AInv, AnalyzerTypeOK, analysis
<1> HIDE DEF old
<1>5. StoreInv'
  <2>1. ASSUME NEW s \in Snapshots, captured'[s] # None
        PROVE  s < next' /\ captured'[s] <= clock'
    BY <1>1, <1>2, <2>1 DEF AInv, StoreInv
  <2>2. ASSUME NEW s \in Snapshots, NEW d \in Domains, data'[s][d] # None
        PROVE  /\ captured'[s] # None
               /\ captured'[s] <= data'[s][d] /\ data'[s][d] <= captured'[s] + CycleSpan
    BY <1>2, <1>3, <2>2 DEF AInv, StoreInv
  <2>3. ASSUME NEW s \in Snapshots, NEW d \in Domains, outcome'[s][d].status = "success"
        PROVE  data'[s][d] # None /\ outcome'[s][d].at <= captured'[s] + CycleSpan
    <3>1. s \notin old
      BY <1>3, <2>3 DEF NotRun
    <3> QED
      BY <1>2, <1>3, <2>3, <3>1 DEF AInv, StoreInv
  <2>4. ASSUME NEW s \in Snapshots, NEW d \in Domains, <<s, d>> \in saved'
        PROVE  data'[s][d] # None /\ clock' <= captured'[s] + CycleSpan
    BY <1>1, <1>2, <1>3, <2>4 DEF AInv, StoreInv
  <2> QED
    BY <1>1, <2>1, <2>2, <2>3, <2>4 DEF AInv, StoreInv
<1>6. Stages' /\ Covered' /\ SeenOf' /\ ReadSoFar'
  <2>1. clock' \in Nat /\ next' \in Nat /\ clock <= clock' /\ next <= next'
    BY <1>1 DEF AInv, AnalyzerTypeOK
  <2>2. Running => clock' <= resolvedAt + AnalysisSpan
    BY <1>1 DEF AInv, Stages
  <2>3. \A s \in Snapshots :
           \/ captured'[s] = captured[s]
           \/ captured'[s] = None /\ captured[s] # None /\ captured[s] + Retention < clock'
    BY <1>1, <1>2 DEF old
  <2>4. \A s \in Snapshots, d \in Domains :
           captured'[s] # None /\ data[s][d] # None => data'[s][d] # None
    BY <1>2, <1>3
  <2> QED
    BY <1>1, <2>1, <2>2, <2>3, <2>4, AnalysisKept
<1> QED
  BY <1>4, <1>5, <1>6 DEF AInv

LEMMA TickStep ==
  ASSUME AInv, Tick PROVE AInv'
<1>1. /\ clock' = clock + 1
      /\ \A x \in saved : clock < captured[x[1]] + CycleSpan
      /\ Running => clock < resolvedAt + AnalysisSpan
      /\ UNCHANGED <<working, next, runs, saved, captured, data, outcome>> /\ UNCHANGED analysis
  BY DEF Tick, store
<1>2. AnalyzerTypeOK'
  BY <1>1 DEF AInv, AnalyzerTypeOK, analysis
<1>3. StoreInv'
  <2>1. ASSUME NEW s \in Snapshots, captured[s] # None PROVE captured[s] <= clock + 1
    <3>1. captured[s] \in Nat /\ clock \in Nat /\ captured[s] <= clock
      BY <2>1 DEF AInv, AnalyzerTypeOK, StoreInv
    <3> QED
      BY <3>1
  <2>2. ASSUME NEW s \in Snapshots, NEW d \in Domains, <<s, d>> \in saved
        PROVE  clock + 1 <= captured[s] + CycleSpan
    <3>1. clock < captured[s] + CycleSpan
      BY <1>1, <2>2
    <3>2. data[s][d] # None => captured[s] # None
      BY DEF AInv, StoreInv
    <3>3. captured[s] \in Nat /\ clock \in Nat
      BY <2>2, <3>2 DEF AInv, AnalyzerTypeOK, StoreInv
    <3> QED
      BY <3>1, <3>3, AnalyzerAssumption
  <2> QED
    BY <1>1, <2>1, <2>2 DEF AInv, StoreInv
<1>4. Stages' /\ Covered' /\ SeenOf' /\ ReadSoFar'
  <2>1. clock' \in Nat /\ next' \in Nat /\ clock <= clock' /\ next <= next'
    BY <1>1 DEF AInv, AnalyzerTypeOK
  <2>2. Running => clock' <= resolvedAt + AnalysisSpan
    BY <1>1, AnalyzerAssumption DEF AInv, AnalyzerTypeOK
  <2> QED
    BY <1>1, <2>1, <2>2, AnalysisKept
<1> QED
  BY <1>2, <1>3, <1>4 DEF AInv

-----------------------------------------------------------------------------
\* The analysis changes nothing of the store.
LEMMA StoreKept ==
  ASSUME AInv, UNCHANGED world PROVE StoreInv'
BY DEF AInv, StoreInv, world, store

Coverage == [Domains -> [snap : Snapshots \cup {0}, at : Nat, stale : BOOLEAN]]

LEMMA TypesKept ==
  ASSUME AInv, UNCHANGED world,
         stage' \in {"idle", "find", "lookup", "read", "retry", "lists", "done", "dead"},
         step' \in Nat, found' \in Snapshots \cup {0}, anchor' \in Nat,
         coverage' \in Coverage, seen' \in [Domains -> Nat \cup {None}],
         resolvedAt' \in Nat, errors' \in 0..MaxErrors,
         \A d \in Domains : seen'[d] # None => coverage'[d].snap # 0
  PROVE  AnalyzerTypeOK'
<1>1. UNCHANGED <<clock, working, next, runs, saved, captured, data, outcome>>
  BY DEF world, store
<1> QED
  BY <1>1 DEF AInv, AnalyzerTypeOK, Coverage

LEMMA StartStep ==
  ASSUME AInv, NEW s \in Snapshots, StartAnalysis(s) PROVE AInv'
<1>1. /\ stage = "idle" /\ captured[s] # None
      /\ stage' = "find" /\ step' = First(Lookups(1)) /\ anchor' = captured[s]
      /\ resolvedAt' = clock
      /\ UNCHANGED world /\ UNCHANGED <<found, coverage, seen, errors>>
  BY DEF StartAnalysis, Stored
<1>2. Lookups(1) # {}
  <2>1. PICK d \in Domains : d \in working
    BY DEF AInv, StoreInv, AnalyzerTypeOK
  <2>2. PICK i \in 1..Len(AllDomains) : AllDomains[i] = d
    BY DEF Domains
  <2> QED
    BY <2>1, <2>2 DEF Lookups
<1>3. step' \in 1..Len(AllDomains)
  BY <1>1, <1>2, LooksUp
<1>4. anchor' \in Nat /\ clock \in Nat
  BY <1>1 DEF AInv, AnalyzerTypeOK
<1>5. AnalyzerTypeOK'
  <2>1. step' \in Nat
    BY <1>3, Orders
  <2> QED
    BY <1>1, <1>4, <2>1, TypesKept DEF AInv, AnalyzerTypeOK, Coverage
<1>6. Stages'
  <2>1. clock' <= resolvedAt' + AnalysisSpan
    BY <1>1, <1>4, AnalyzerAssumption DEF world
  <2> QED
    BY <1>1, <1>3, <2>1 DEF AInv, Stages
<1>7. Covered' /\ SeenOf' /\ ReadSoFar'
  BY <1>1 DEF AInv, Stages, Covered, SeenOf, ReadSoFar
<1> QED
  BY <1>1, <1>5, <1>6, <1>7, StoreKept DEF AInv

\* Coverage as it must be while the store is as it is.
CoveredBy(c) ==
  \A d \in Domains : c[d].snap # 0 =>
    /\ c[d].snap < next
    /\ captured[c[d].snap] # None =>
         /\ data[c[d].snap][d] # None
         /\ captured[c[d].snap] <= anchor
         /\ c[d].at <= captured[c[d].snap] + CycleSpan
    /\ captured[c[d].snap] = None => c[d].at + Retention < clock + CycleSpan
    /\ ~c[d].stale /\ Budget[d] > 0 => resolvedAt <= c[d].at + Budget[d]

LEMMA CoveredStays ==
  ASSUME UNCHANGED <<world, anchor, resolvedAt>>, CoveredBy(coverage')
  PROVE  Covered'
<1>1. UNCHANGED <<clock, next, captured, data, anchor, resolvedAt>>
  BY DEF world, store
<1> QED
  BY <1>1 DEF Covered, CoveredBy

LEMMA CoveredNow == ASSUME AInv PROVE CoveredBy(coverage)
BY DEF AInv, Covered, CoveredBy

\* With a domain resolved, or not, the next one is, or reading begins.
LEMMA NextDomainStep ==
  ASSUME AInv, stage \in {"find", "lookup"}, NEW c \in Coverage, CoveredBy(c), NextDomain(c),
         UNCHANGED <<world, anchor, seen, resolvedAt>>, errors' \in 0..MaxErrors
  PROVE  AInv'
<1>1. coverage' = c /\ found' = 0 /\ UNCHANGED <<anchor, seen, resolvedAt>> /\ UNCHANGED world
  BY DEF NextDomain
<1>2. step \in Nat /\ step + 1 \in Nat \ {0}
  BY DEF AInv, AnalyzerTypeOK
<1>3. \/ stage' = "find" /\ step' \in 1..Len(AllDomains)
      \/ ProceedToRead(c, 1)
  BY <1>2, LooksUp DEF NextDomain
<1>4. \A d \in Domains : seen[d] = None
  BY DEF AInv, Stages
<1>5. \/ stage' = "find" /\ step' \in 1..Len(AllDomains)
      \/ /\ stage' = "read" /\ step' \in 1..Len(Reads)
         /\ c[Reads[step']].snap # 0
         /\ \A j \in 1..Len(Reads) : j < step' => c[Reads[j]].snap = 0
      \/ /\ stage' = "done" /\ step' = 1
         /\ \A j \in 1..Len(Reads) : c[Reads[j]].snap = 0
  BY <1>3, Proceeds
<1>6. AnalyzerTypeOK'
  <2>1. step' \in Nat /\ stage' \in {"find", "read", "done"}
    BY <1>5, Orders
  <2>2. /\ anchor' \in Nat /\ resolvedAt' \in Nat /\ seen' \in [Domains -> Nat \cup {None}]
        /\ \A d \in Domains : seen'[d] = None
    BY <1>1, <1>4 DEF AInv, AnalyzerTypeOK
  <2> QED
    BY <1>1, <2>1, <2>2, TypesKept
<1>7. Stages'
  <2>1. clock' <= resolvedAt' + AnalysisSpan
    BY <1>1 DEF AInv, Stages, Running, world
  <2> QED
    BY <1>1, <1>4, <1>5, <2>1 DEF Stages
<1>8. Covered' /\ SeenOf'
  BY <1>1, <1>4, CoveredStays DEF SeenOf
<1>9. ReadSoFar'
  <2>1. 3 \in 1..Len(Reads) /\ Len(Reads) \in Nat /\ Reads[3] = TableStats
    BY Orders
  <2>2. ASSUME stage' = "read" PROVE SeenBefore(c, seen, step')
    <3>1. /\ step' \in 1..Len(Reads)
          /\ \A j \in 1..Len(Reads) : j < step' => c[Reads[j]].snap = 0
      BY <1>5, <2>2
    <3> QED
      BY <2>1, <3>1 DEF SeenBefore, UsableIn
  <2>3. ASSUME stage' = "done" PROVE SeenBefore(c, seen, Len(Reads) + 1)
    <3>1. \A j \in 1..Len(Reads) : c[Reads[j]].snap = 0
      BY <1>5, <2>3
    <3> QED
      BY <2>1, <3>1 DEF SeenBefore, UsableIn
  <2> QED
    BY <1>1, <1>5, <2>2, <2>3 DEF ReadSoFar
<1> QED
  BY <1>1, <1>6, <1>7, <1>8, <1>9, StoreKept DEF AInv

LEMMA FindStep == ASSUME AInv, FindSnapshot PROVE AInv'
<1> DEFINE candidates == GetLatestSnapshotWithCollector(AllDomains[step], anchor)
<1>1. /\ stage = "find" /\ UNCHANGED <<world, anchor, seen, resolvedAt>>
      /\ \/ found' \in candidates /\ stage' = "lookup" /\ UNCHANGED <<step, coverage, errors>>
         \/ NextDomain(coverage) /\ UNCHANGED errors
         \/ NextDomain(coverage) /\ errors < MaxErrors /\ errors' = errors + 1
  BY DEF FindSnapshot
<1>2. CASE found' \in candidates /\ stage' = "lookup" /\ UNCHANGED <<step, coverage, errors>>
  <2>1. found' \in Snapshots /\ captured[found'] # None /\ captured[found'] <= anchor
    BY <1>2 DEF GetLatestSnapshotWithCollector, Stored
  <2>2. found' # 0 /\ found' < next
    BY <2>1, SnapshotsAreNumbers DEF AInv, StoreInv
  <2>3. AnalyzerTypeOK'
    BY <1>1, <1>2, <2>1, TypesKept DEF AInv, AnalyzerTypeOK, Coverage
  <2>4. Stages'
    <3>1. clock' <= resolvedAt' + AnalysisSpan /\ captured' = captured /\ next' = next
      BY <1>1 DEF AInv, Stages, Running, world, store
    <3> QED
      BY <1>1, <1>2, <2>1, <2>2, <3>1 DEF AInv, Stages
  <2>5. Covered'
    BY <1>1, <1>2, CoveredNow, CoveredStays
  <2>6. SeenOf' /\ ReadSoFar'
    BY <1>1, <1>2 DEF AInv, SeenOf, ReadSoFar
  <2> QED
    BY <1>1, <2>3, <2>4, <2>5, <2>6, StoreKept DEF AInv
<1>3. CASE NextDomain(coverage)
  <2>1. coverage \in Coverage /\ errors' \in 0..MaxErrors
    BY <1>1, <1>2, <1>3, AnalyzerAssumption DEF AInv, AnalyzerTypeOK, Coverage
  <2> QED
    BY <1>1, <1>3, <2>1, CoveredNow, NextDomainStep
<1> QED
  BY <1>1, <1>2, <1>3

LEMMA LookupStep == ASSUME AInv, LookupRun PROVE AInv'
<1> DEFINE d == AllDomains[step]
           r == outcome[found][d]
           covered == [snap |-> found, at |-> r.at, stale |-> IsStale(d, r.at)]
           c == [coverage EXCEPT ![d] = covered]
<1>1. /\ stage = "lookup" /\ UNCHANGED <<world, anchor, seen, resolvedAt>>
      /\ \/ r.status = "success" /\ NextDomain(c) /\ UNCHANGED errors
         \/ /\ NextDomain(coverage)
            /\ UNCHANGED errors \/ (errors < MaxErrors /\ errors' = errors + 1)
  BY DEF LookupRun
<1>2. coverage \in Coverage
  BY DEF AInv, AnalyzerTypeOK, Coverage
<1>3. CASE r.status = "success" /\ NextDomain(c) /\ UNCHANGED errors
  <2>1. d \in Domains
    BY <1>1, Orders DEF AInv, Stages
  <2>2. found \in Snapshots /\ found < next /\ found # 0
    BY <1>1 DEF AInv, Stages, AnalyzerTypeOK
  <2> HIDE DEF d
  <2>3. /\ data[found][d] # None /\ captured[found] # None /\ captured[found] <= anchor
        /\ r.at <= captured[found] + CycleSpan /\ r.at \in Nat
    BY <1>1, <1>3, <2>1, <2>2 DEF AInv, StoreInv, Stages, AnalyzerTypeOK
  <2>4. IsStale(d, r.at) \in BOOLEAN
    BY DEF IsStale
  <2>5. c \in Coverage
    BY <1>2, <2>1, <2>2, <2>3, <2>4 DEF Coverage
  <2>6. ~IsStale(d, r.at) /\ Budget[d] > 0 => resolvedAt <= r.at + Budget[d]
    BY <2>1, <2>3, BudgetAssumption DEF IsStale, AInv, AnalyzerTypeOK
  <2> HIDE DEF r
  <2>7. CoveredBy(c)
    <3> SUFFICES ASSUME NEW e \in Domains, c[e].snap # 0
                 PROVE  /\ c[e].snap < next
                        /\ captured[c[e].snap] # None =>
                             /\ data[c[e].snap][e] # None
                             /\ captured[c[e].snap] <= anchor
                             /\ c[e].at <= captured[c[e].snap] + CycleSpan
                        /\ captured[c[e].snap] = None => c[e].at + Retention < clock + CycleSpan
                        /\ ~c[e].stale /\ Budget[e] > 0 => resolvedAt <= c[e].at + Budget[e]
      BY DEF CoveredBy
    <3>1. CASE e = d
      <4>1. c[e] = covered
        BY <1>2, <2>1, <3>1 DEF Coverage
      <4> QED
        BY <2>2, <2>3, <2>6, <3>1, <4>1
    <3>2. CASE e # d
      <4>1. c[e] = coverage[e]
        BY <1>2, <3>2 DEF Coverage
      <4> QED
        BY <4>1, CoveredNow DEF CoveredBy
    <3> QED
      BY <3>1, <3>2
  <2>8. errors' \in 0..MaxErrors
    BY <1>3 DEF AInv, AnalyzerTypeOK
  <2> QED
    BY <1>1, <1>3, <2>5, <2>7, <2>8, NextDomainStep
<1>4. CASE /\ NextDomain(coverage)
           /\ UNCHANGED errors \/ (errors < MaxErrors /\ errors' = errors + 1)
  <2>1. errors' \in 0..MaxErrors
    BY <1>4, AnalyzerAssumption DEF AInv, AnalyzerTypeOK
  <2> QED
    BY <1>1, <1>2, <1>4, <2>1, CoveredNow, NextDomainStep
<1> HIDE DEF c, r
<1> QED
  BY <1>1, <1>3, <1>4

-----------------------------------------------------------------------------
\* Usable lists cannot have been purged before they are read.
LEMMA RowsThere ==
  ASSUME AInv, Running, NEW d \in {QueryStats, TableStats, IndexStats, Bloat} \cup WithLists,
         UsableIn(coverage, d)
  PROVE  RowsOf(d) # None
<1>1. d \in Domains
  BY Orders, DomainsAssumption
<1>2. Budget[d] > 0 /\ Budget[d] + CycleSpan + AnalysisSpan <= Retention /\ Budget[d] \in Nat
  BY <1>1, BudgetAssumption
<1>3. coverage[d].snap # 0 /\ ~coverage[d].stale
  BY DEF UsableIn
<1>4. /\ captured[coverage[d].snap] # None => data[coverage[d].snap][d] # None
      /\ captured[coverage[d].snap] = None => coverage[d].at + Retention < clock + CycleSpan
      /\ resolvedAt <= coverage[d].at + Budget[d]
  BY <1>1, <1>2, <1>3 DEF AInv, Covered
<1>5. clock <= resolvedAt + AnalysisSpan
  BY DEF AInv, Stages
<1>6. coverage[d].at \in Nat /\ clock \in Nat /\ resolvedAt \in Nat
  BY <1>1 DEF AInv, AnalyzerTypeOK
<1>7. ~(coverage[d].at + Retention < clock + CycleSpan)
  BY <1>2, <1>4, <1>5, <1>6, AnalyzerAssumption
<1> QED
  BY <1>4, <1>7 DEF RowsOf

\* Rows are of the cycle of their snapshot.
LEMMA RowsFit ==
  ASSUME AInv, NEW d \in Domains, coverage[d].snap # 0, RowsOf(d) # None
  PROVE  /\ RowsOf(d) \in Nat
         /\ coverage[d].at <= RowsOf(d) + CycleSpan
         /\ RowsOf(d) <= anchor + CycleSpan
<1> DEFINE s == coverage[d].snap
<1>1. s \in Snapshots /\ coverage[d].at \in Nat /\ anchor \in Nat
  BY DEF AInv, AnalyzerTypeOK
<1>2. /\ captured[s] # None /\ captured[s] <= data[s][d] /\ data[s][d] <= captured[s] + CycleSpan
      /\ captured[s] \in Nat /\ data[s][d] \in Nat
  BY <1>1 DEF AInv, AnalyzerTypeOK, StoreInv, RowsOf
<1>3. captured[s] <= anchor /\ coverage[d].at <= captured[s] + CycleSpan
  BY <1>2 DEF AInv, Covered
<1> QED
  BY <1>1, <1>2, <1>3, AnalyzerAssumption DEF RowsOf

\* A read only makes coverage stale, and sees what is stored.
ReadChange ==
  /\ AnalysisStep
  /\ coverage' \in Coverage
  /\ \A d \in Domains :
       /\ coverage'[d].snap = coverage[d].snap /\ coverage'[d].at = coverage[d].at
       /\ coverage[d].stale => coverage'[d].stale
  /\ seen' \in [Domains -> Nat \cup {None}]
  /\ \A d \in Domains :
       seen'[d] = seen[d] \/ seen'[d] = None \/ (coverage[d].snap # 0 /\ seen'[d] = RowsOf(d))
  /\ errors' \in 0..MaxErrors

LEMMA ReadKeeps ==
  ASSUME AInv, ReadChange,
         stage' \in {"read", "retry", "lists", "done", "dead"}, step' \in Nat
  PROVE  AnalyzerTypeOK' /\ StoreInv' /\ Covered' /\ SeenOf'
<1>1. UNCHANGED <<found, anchor, resolvedAt>> /\ UNCHANGED world
  BY DEF ReadChange, AnalysisStep
<1>2. AnalyzerTypeOK'
  <2>1. found' \in Snapshots \cup {0} /\ anchor' \in Nat /\ resolvedAt' \in Nat
    BY <1>1 DEF AInv, AnalyzerTypeOK
  <2>2. \A d \in Domains : seen'[d] # None => coverage'[d].snap # 0
    BY DEF ReadChange, AInv, AnalyzerTypeOK
  <2> QED
    BY <1>1, <2>1, <2>2, TypesKept DEF ReadChange
<1>3. Covered'
  <2>1. CoveredBy(coverage')
    BY CoveredNow DEF CoveredBy, ReadChange
  <2> QED
    BY <1>1, <2>1, CoveredStays
<1>4. SeenOf'
  <2> SUFFICES ASSUME NEW d \in Domains, seen'[d] # None
               PROVE  coverage'[d].at <= seen'[d] + CycleSpan /\ seen'[d] <= anchor + CycleSpan
    BY <1>1 DEF SeenOf
  <2>1. coverage'[d].at = coverage[d].at
    BY DEF ReadChange
  <2>2. CASE seen'[d] = seen[d]
    BY <2>1, <2>2 DEF AInv, SeenOf
  <2>3. CASE coverage[d].snap # 0 /\ seen'[d] = RowsOf(d)
    BY <2>1, <2>3, RowsFit
  <2> QED
    BY <2>2, <2>3 DEF ReadChange
<1> QED
  BY <1>1, <1>2, <1>3, <1>4, StoreKept

LEMMA ReadsOn ==
  ASSUME AInv, ReadChange, stage \in {"read", "retry", "lists"}, NextRead,
         SeenBefore(coverage', seen', step + 1)
  PROVE  AInv'
<1>1. step \in 1..Len(Reads) /\ Len(Reads) \in Nat /\ 3 \in 1..Len(Reads) /\ Reads[3] = TableStats
  BY Orders DEF AInv, Stages
<1>2. step + 1 \in Nat \ {0}
  BY <1>1
<1>3. \A j \in 1..Len(Reads) : Reads[j] \in Domains
  BY Orders
<1>4. \/ /\ stage' = "read" /\ step' \in step + 1..Len(Reads)
         /\ coverage[Reads[step']].snap # 0
         /\ \A j \in step + 1..Len(Reads) : j < step' => coverage[Reads[j]].snap = 0
      \/ /\ stage' = "done" /\ step' = 1
         /\ \A j \in step + 1..Len(Reads) : coverage[Reads[j]].snap = 0
  BY <1>2, Proceeds DEF NextRead
<1>5. stage' \in {"read", "done"} /\ step' \in Nat
  BY <1>1, <1>4
<1>6. Stages'
  <2>1. clock' <= resolvedAt' + AnalysisSpan
    BY DEF AInv, Stages, Running, ReadChange, AnalysisStep, world
  <2>2. stage' = "read" => step' \in 1..Len(Reads) /\ coverage'[Reads[step']].snap # 0
    BY <1>1, <1>3, <1>4 DEF ReadChange
  <2> QED
    BY <1>5, <2>1, <2>2 DEF Stages
<1>7. ASSUME NEW j \in 1..Len(Reads), coverage[Reads[j]].snap = 0
      PROVE  ~UsableIn(coverage', Reads[j])
  BY <1>3, <1>7 DEF ReadChange, UsableIn
<1>8. ASSUME NEW k \in Nat, \A j \in step + 1..Len(Reads) : j < k => coverage[Reads[j]].snap = 0
      PROVE  SeenBefore(coverage', seen', k)
  <2>1. ASSUME NEW j \in 1..Len(Reads), j < k, j # 2, UsableIn(coverage', Reads[j])
        PROVE  seen'[Reads[j]] # None
    <3>1. j < step + 1
      BY <1>1, <1>7, <1>8, <2>1
    <3> QED
      BY <2>1, <3>1 DEF SeenBefore
  <2>2. ASSUME 3 < k, UsableIn(coverage', TableStats), UsableIn(coverage', Bloat)
        PROVE  seen'[Bloat] # None
    <3>1. 3 < step + 1
      BY <1>1, <1>7, <1>8, <2>2
    <3> QED
      BY <2>2, <3>1 DEF SeenBefore
  <2> QED
    BY <2>1, <2>2 DEF SeenBefore
<1>9. ReadSoFar'
  <2>1. stage' = "read" => SeenBefore(coverage', seen', step')
    BY <1>4, <1>5, <1>8
  <2>2. stage' = "done" => SeenBefore(coverage', seen', Len(Reads) + 1)
    BY <1>1, <1>4, <1>8
  <2> QED
    BY <1>5, <2>1, <2>2 DEF ReadSoFar
<1>10. AnalyzerTypeOK' /\ StoreInv' /\ Covered' /\ SeenOf'
  BY <1>5, ReadKeeps
<1> QED
  BY <1>6, <1>9, <1>10 DEF AInv

\* The forms a read's change takes.
LEMMA Changes ==
  ASSUME AInv, AnalysisStep, NEW d \in Domains
  PROVE  /\ Invalidate(d) =>
              /\ coverage' \in Coverage /\ ~UsableIn(coverage', d) /\ coverage'[d].stale
              /\ \A e \in Domains :
                   /\ coverage'[e].snap = coverage[e].snap /\ coverage'[e].at = coverage[e].at
                   /\ coverage[e].stale => coverage'[e].stale
                   /\ UsableIn(coverage', e) => UsableIn(coverage, e)
         /\ UNCHANGED coverage =>
              /\ coverage' \in Coverage
              /\ \A e \in Domains :
                   /\ coverage'[e].snap = coverage[e].snap /\ coverage'[e].at = coverage[e].at
                   /\ coverage[e].stale => coverage'[e].stale
                   /\ UsableIn(coverage', e) => UsableIn(coverage, e)
         /\ seen' = [seen EXCEPT ![d] = RowsOf(d)] /\ coverage[d].snap # 0 =>
              /\ seen' \in [Domains -> Nat \cup {None}]
              /\ \A e \in Domains : seen'[e] = IF e = d THEN RowsOf(d) ELSE seen[e]
         /\ UNCHANGED seen => seen' \in [Domains -> Nat \cup {None}]
<1>1. coverage \in Coverage /\ seen \in [Domains -> Nat \cup {None}]
  BY DEF AInv, AnalyzerTypeOK, Coverage
<1>2. coverage[d].snap # 0 => RowsOf(d) \in Nat \cup {None}
  BY RowsFit
<1>3. ASSUME Invalidate(d)
      PROVE  /\ coverage' \in Coverage /\ coverage'[d].stale
             /\ \A e \in Domains :
                  /\ coverage'[e].snap = coverage[e].snap /\ coverage'[e].at = coverage[e].at
                  /\ coverage[e].stale => coverage'[e].stale
  BY <1>1, <1>3 DEF Invalidate, Coverage
<1>4. UNCHANGED coverage => coverage' \in Coverage
  BY <1>1
<1>5. ASSUME seen' = [seen EXCEPT ![d] = RowsOf(d)], coverage[d].snap # 0
      PROVE  /\ seen' \in [Domains -> Nat \cup {None}]
             /\ \A e \in Domains : seen'[e] = IF e = d THEN RowsOf(d) ELSE seen[e]
  BY <1>1, <1>2, <1>5
<1> QED
  BY <1>1, <1>3, <1>4, <1>5 DEF UsableIn

LEMMA ErrorsCount ==
  ASSUME AInv, UNCHANGED errors \/ (errors < MaxErrors /\ errors' = errors + 1)
  PROVE  errors' \in 0..MaxErrors
BY AnalyzerAssumption DEF AInv, AnalyzerTypeOK

\* Which read is at which position.
LEMMA Positions ==
  ASSUME NEW j \in 1..Len(Reads)
  PROVE  /\ j \in Nat /\ Reads[j] \in Domains
         /\ Reads[j] = TableStats <=> j = 3
         /\ Reads[j] = QueryStats <=> j = 1
         /\ Reads[j] = IndexStats <=> j = 4
         /\ Reads[j] \in Rows <=> j = 2 \/ j > 4
         /\ Reads[j] # Bloat
<1>1. j \in Nat /\ Reads[j] \in Domains
  BY Orders
<1>2. j > 4 => Reads[j] \in Rows
  <2> HAVE j > 4
  <2>1. j - 4 \in 1..Len(RowDomains) /\ 4 + (j - 4) = j
    BY <1>1, Orders
  <2>2. Reads[j] = RowDomains[j - 4]
    BY <2>1, Orders
  <2> QED
    BY <2>1, <2>2 DEF Rows
<1>3. j \in {1, 2, 3, 4} \/ j > 4
  BY <1>1
<1> QED
  BY <1>1, <1>2, <1>3, Orders, DomainsAssumption

\* What was seen stays seen, and the domain just read was seen when it is usable.
LEMMA SeenOn ==
  ASSUME AInv, stage \in {"read", "lists"},
         step # 3, \A e \in Domains :
           UsableIn(coverage', e) => UsableIn(coverage, e) /\ (seen[e] # None => seen'[e] # None),
         step # 2 /\ UsableIn(coverage', Reads[step]) => seen'[Reads[step]] # None
  PROVE  SeenBefore(coverage', seen', step + 1)
<1>1. SeenBefore(coverage, seen, step) /\ step \in 1..Len(Reads) /\ step \in Nat
  BY Positions DEF AInv, ReadSoFar, Stages
<1>2. ASSUME NEW j \in 1..Len(Reads), j < step + 1, j # 2, UsableIn(coverage', Reads[j])
      PROVE  seen'[Reads[j]] # None
  <2>1. CASE j = step
    BY <1>2, <2>1
  <2>2. CASE j # step
    <3>1. j < step /\ Reads[j] \in Domains
      BY <1>1, <1>2, <2>2, Positions
    <3>2. UsableIn(coverage, Reads[j])
      BY <1>2, <3>1
    <3>3. seen[Reads[j]] # None
      BY <1>1, <1>2, <3>1, <3>2 DEF SeenBefore
    <3> QED
      BY <1>2, <3>1, <3>3
  <2> QED
    BY <2>1, <2>2
<1>3. ASSUME 3 < step + 1, UsableIn(coverage', TableStats), UsableIn(coverage', Bloat)
      PROVE  seen'[Bloat] # None
  <2>1. 3 < step /\ TableStats \in Domains /\ Bloat \in Domains
    BY <1>1, <1>3, Orders
  <2>2. UsableIn(coverage, TableStats) /\ UsableIn(coverage, Bloat)
    BY <1>3, <2>1
  <2>3. seen[Bloat] # None
    BY <1>1, <2>1, <2>2 DEF SeenBefore
  <2> QED
    BY <1>3, <2>1, <2>3
<1> QED
  BY <1>2, <1>3 DEF SeenBefore

LEMMA ReadListStep == ASSUME AInv, NEW d \in Domains, ReadList(d) PROVE AInv'
<1>1. /\ d \in {QueryStats, IndexStats} /\ stage = "read" /\ Reads[step] = d /\ AnalysisStep
      /\ seen' = [seen EXCEPT ![d] = RowsOf(d)] /\ UNCHANGED <<coverage, errors>> /\ NextRead
  BY DEF ReadList, Reading
<1>2. step \in 1..Len(Reads) /\ coverage[d].snap # 0
  BY <1>1 DEF AInv, Stages
<1>3. step # 3
  BY <1>1, <1>2, Positions, DomainsAssumption
<1>4. /\ coverage' \in Coverage /\ seen' \in [Domains -> Nat \cup {None}]
      /\ \A e \in Domains : seen'[e] = IF e = d THEN RowsOf(d) ELSE seen[e]
  BY <1>1, <1>2, Changes
<1>5. ReadChange
  BY <1>1, <1>2, <1>4, ErrorsCount DEF ReadChange
<1>6. UsableIn(coverage, d) => RowsOf(d) # None
  BY <1>1, RowsThere DEF Running
<1>7. SeenBefore(coverage', seen', step + 1)
  BY <1>1, <1>3, <1>4, <1>6, SeenOn DEF UsableIn
<1> QED
  BY <1>1, <1>5, <1>7, ReadsOn

LEMMA ReadFailsStep == ASSUME AInv, NEW d \in Domains, ReadFails(d) PROVE AInv'
<1>1. /\ d # TableStats /\ stage = "read" /\ Reads[step] = d /\ AnalysisStep
      /\ Invalidate(d) /\ UNCHANGED seen /\ NextRead
      /\ errors < MaxErrors /\ errors' = errors + 1
  BY DEF ReadFails, Reading
<1>2. step \in 1..Len(Reads)
  BY <1>1 DEF AInv, Stages
<1>3. step # 3
  BY <1>1, <1>2, Positions
<1>4. /\ coverage' \in Coverage /\ ~UsableIn(coverage', d) /\ seen' \in [Domains -> Nat \cup {None}]
      /\ \A e \in Domains :
           /\ coverage'[e].snap = coverage[e].snap /\ coverage'[e].at = coverage[e].at
           /\ coverage[e].stale => coverage'[e].stale
           /\ UsableIn(coverage', e) => UsableIn(coverage, e)
  BY <1>1, Changes
<1>5. ReadChange
  BY <1>1, <1>4, ErrorsCount DEF ReadChange
<1>6. SeenBefore(coverage', seen', step + 1)
  BY <1>1, <1>3, <1>4, SeenOn
<1> QED
  BY <1>1, <1>5, <1>6, ReadsOn

\* A row that has lists is not through with before they are read.
LEMMA RowHalfRead ==
  ASSUME AInv, ReadChange, stage = "read", step > 4, Reads[step] \in WithLists,
         UNCHANGED coverage, stage' = "lists", UNCHANGED step, seen'[Reads[step]] # None,
         \A e \in Domains : seen[e] # None => seen'[e] # None
  PROVE  AInv'
<1>1. /\ step \in 1..Len(Reads) /\ coverage[Reads[step]].snap # 0
      /\ SeenBefore(coverage, seen, step)
  BY DEF AInv, Stages, ReadSoFar
<1>2. step' \in Nat
  BY DEF AInv, AnalyzerTypeOK
<1>3. AnalyzerTypeOK' /\ StoreInv' /\ Covered' /\ SeenOf'
  BY <1>2, ReadKeeps
<1>4. Stages'
  <2>1. clock' <= resolvedAt' + AnalysisSpan
    BY DEF AInv, Stages, Running, ReadChange, AnalysisStep, world
  <2> QED
    BY <1>1, <2>1 DEF Stages
<1>5. SeenBefore(coverage', seen', step')
  BY <1>1, Positions, Orders DEF SeenBefore
<1> QED
  BY <1>3, <1>4, <1>5 DEF AInv, ReadSoFar

LEMMA ReadRowStep == ASSUME AInv, NEW d \in Domains, ReadRow(d) PROVE AInv'
<1>1. /\ step > 4 /\ stage = "read" /\ Reads[step] = d /\ AnalysisStep
      /\ UseRow(d) /\ UNCHANGED errors
      /\ \/ d \in WithLists /\ RowsOf(d) # None /\ stage' = "lists" /\ UNCHANGED step
         \/ NextRead
  BY DEF ReadRow, Reading
<1>2. step \in 1..Len(Reads) /\ coverage[d].snap # 0 /\ step # 3
  BY <1>1, Positions DEF AInv, Stages
<1>3. CASE RowsOf(d) = None
  <2>1. Invalidate(d) /\ UNCHANGED seen
    BY <1>1, <1>3 DEF UseRow
  <2>2. /\ coverage' \in Coverage /\ ~UsableIn(coverage', d) /\ seen' \in [Domains -> Nat \cup {None}]
        /\ \A e \in Domains :
             /\ coverage'[e].snap = coverage[e].snap /\ coverage'[e].at = coverage[e].at
             /\ coverage[e].stale => coverage'[e].stale
             /\ UsableIn(coverage', e) => UsableIn(coverage, e)
    BY <1>1, <2>1, Changes
  <2>3. ReadChange
    BY <1>1, <2>1, <2>2, ErrorsCount DEF ReadChange
  <2>4. SeenBefore(coverage', seen', step + 1)
    BY <1>1, <1>2, <2>1, <2>2, SeenOn
  <2> QED
    BY <1>1, <1>3, <2>3, <2>4, ReadsOn
<1>4. CASE RowsOf(d) # None
  <2>1. seen' = [seen EXCEPT ![d] = RowsOf(d)] /\ UNCHANGED coverage
    BY <1>1, <1>4 DEF UseRow
  <2>2. /\ coverage' \in Coverage /\ seen' \in [Domains -> Nat \cup {None}]
        /\ \A e \in Domains : seen'[e] = IF e = d THEN RowsOf(d) ELSE seen[e]
    BY <1>1, <1>2, <2>1, Changes
  <2>3. ReadChange
    BY <1>1, <1>2, <2>1, <2>2, ErrorsCount DEF ReadChange
  <2>4. SeenBefore(coverage', seen', step + 1)
    BY <1>1, <1>2, <1>4, <2>1, <2>2, SeenOn DEF UsableIn
  <2>5. CASE NextRead
    BY <1>1, <2>3, <2>4, <2>5, ReadsOn
  <2>6. CASE d \in WithLists /\ stage' = "lists" /\ UNCHANGED step
    BY <1>1, <1>4, <2>1, <2>2, <2>3, <2>6, RowHalfRead
  <2> QED
    BY <1>1, <2>5, <2>6
<1> QED
  BY <1>3, <1>4

\* The lists are still there while their domain is usable, whatever was written over them.
LEMMA ReadListsStep == ASSUME AInv, NEW d \in Domains, ReadLists(d) PROVE AInv'
<1>1. /\ stage = "lists" /\ Reads[step] = d /\ AnalysisStep /\ NextRead
      /\ \/ /\ \E rows \in {seen[d], RowsOf(d)} : seen' = [seen EXCEPT ![d] = rows]
            /\ UNCHANGED coverage /\ UNCHANGED errors
         \/ errors < MaxErrors /\ errors' = errors + 1 /\ Invalidate(d) /\ UNCHANGED seen
  BY DEF ReadLists
<1>2. /\ step \in 1..Len(Reads) /\ coverage[d].snap # 0 /\ step > 4 /\ d \in WithLists
      /\ step # 3 /\ step # 2 /\ Running
  BY <1>1, Positions DEF AInv, Stages, Running
<1>3. errors' \in 0..MaxErrors
  BY <1>1, ErrorsCount
<1>4. CASE /\ \E rows \in {seen[d], RowsOf(d)} : seen' = [seen EXCEPT ![d] = rows]
           /\ UNCHANGED coverage
  <2>1. PICK rows \in {seen[d], RowsOf(d)} : seen' = [seen EXCEPT ![d] = rows]
    BY <1>4
  <2>2. seen \in [Domains -> Nat \cup {None}] /\ rows \in Nat \cup {None}
    BY <1>2, RowsFit DEF AInv, AnalyzerTypeOK
  <2>3. /\ seen' \in [Domains -> Nat \cup {None}]
        /\ \A e \in Domains : seen'[e] = IF e = d THEN rows ELSE seen[e]
    BY <2>1, <2>2
  <2>4. /\ coverage' \in Coverage
        /\ \A e \in Domains :
             /\ coverage'[e].snap = coverage[e].snap /\ coverage'[e].at = coverage[e].at
             /\ coverage[e].stale => coverage'[e].stale
             /\ UsableIn(coverage', e) => UsableIn(coverage, e)
    BY <1>1, <1>4, Changes
  <2>5. ReadChange
    BY <1>1, <1>2, <1>3, <2>1, <2>3, <2>4 DEF ReadChange
  <2>6. UsableIn(coverage, d) => rows # None
    <3>1. UsableIn(coverage, d) => RowsOf(d) # None
      BY <1>2, RowsThere
    <3> QED
      BY <1>1, <2>1, <3>1 DEF AInv, Stages
  <2>7. SeenBefore(coverage', seen', step + 1)
    <3>1. \A e \in Domains : UsableIn(coverage', e) /\ seen[e] # None => seen'[e] # None
      BY <2>3, <2>4, <2>6
    <3>2. UsableIn(coverage', d) => seen'[d] # None
      BY <2>3, <2>4, <2>6
    <3> QED
      BY <1>1, <1>2, <2>4, <3>1, <3>2, SeenOn
  <2> QED
    BY <1>1, <2>5, <2>7, ReadsOn
<1>5. CASE Invalidate(d) /\ UNCHANGED seen
  <2>1. /\ coverage' \in Coverage /\ ~UsableIn(coverage', d) /\ seen' \in [Domains -> Nat \cup {None}]
        /\ \A e \in Domains :
             /\ coverage'[e].snap = coverage[e].snap /\ coverage'[e].at = coverage[e].at
             /\ coverage[e].stale => coverage'[e].stale
             /\ UsableIn(coverage', e) => UsableIn(coverage, e)
    BY <1>1, <1>5, Changes
  <2>2. ReadChange
    BY <1>1, <1>3, <1>5, <2>1 DEF ReadChange
  <2>3. SeenBefore(coverage', seen', step + 1)
    BY <1>1, <1>2, <1>5, <2>1, SeenOn
  <2> QED
    BY <1>1, <2>2, <2>3, ReadsOn
<1> QED
  BY <1>1, <1>4, <1>5

\* An analysis that is over in one way or the other reads no more.
LEMMA DiesStep == ASSUME AInv, ReadChange, stage' = "dead", UNCHANGED step PROVE AInv'
<1>1. AnalyzerTypeOK' /\ StoreInv' /\ Covered' /\ SeenOf'
  BY ReadKeeps DEF AInv, AnalyzerTypeOK
<1>2. Stages' /\ ReadSoFar'
  BY DEF Stages, ReadSoFar, Running
<1> QED
  BY <1>1, <1>2 DEF AInv

LEMMA ReadCacheStep == ASSUME AInv, ReadCache PROVE AInv'
<1> DEFINE D == DatabaseStats
           saw == seen' = [seen EXCEPT ![D] = RowsOf(D)]
<1>1. /\ step = 2 /\ stage = "read" /\ Reads[step] = D /\ AnalysisStep
      /\ \/ saw /\ NextRead /\ UNCHANGED coverage /\ UNCHANGED errors
         \/ NextRead /\ UNCHANGED <<coverage, errors, seen>>
         \/ stage' = "dead" /\ UNCHANGED <<step, coverage, errors, seen>>
         \/ /\ errors < MaxErrors /\ errors' = errors + 1
            /\ Invalidate(QueryStats) /\ saw /\ NextRead
  BY DEF ReadCache, Reading
<1>2. /\ coverage[D].snap # 0 /\ D \in Domains /\ QueryStats \in Domains /\ QueryStats # D
      /\ Reads[1] = QueryStats /\ Len(Reads) \in Nat
  BY <1>1, Orders, DomainsAssumption DEF AInv, Stages
<1>3. saw => /\ seen' \in [Domains -> Nat \cup {None}]
             /\ \A e \in Domains : seen'[e] = IF e = D THEN RowsOf(D) ELSE seen[e]
  BY <1>1, <1>2, Changes
<1>4. UNCHANGED seen => /\ seen' \in [Domains -> Nat \cup {None}]
                        /\ \A e \in Domains : seen'[e] = seen[e]
  BY <1>1, <1>2, Changes
<1>5. Invalidate(QueryStats) \/ UNCHANGED coverage =>
        /\ coverage' \in Coverage
        /\ \A e \in Domains :
             /\ coverage'[e].snap = coverage[e].snap /\ coverage'[e].at = coverage[e].at
             /\ coverage[e].stale => coverage'[e].stale
             /\ UsableIn(coverage', e) => UsableIn(coverage, e)
  BY <1>1, <1>2, Changes
<1>6. errors' \in 0..MaxErrors
  BY <1>1, ErrorsCount
<1>7. saw \/ UNCHANGED seen
  BY <1>1
<1>8. Invalidate(QueryStats) \/ UNCHANGED coverage
  BY <1>1
<1>9. ReadChange
  <2>1. \A e \in Domains :
          seen'[e] = seen[e] \/ seen'[e] = None \/ (coverage[e].snap # 0 /\ seen'[e] = RowsOf(e))
    BY <1>2, <1>3, <1>4, <1>7
  <2> HIDE DEF saw
  <2> QED
    BY <1>1, <1>3, <1>4, <1>5, <1>6, <1>7, <1>8, <2>1 DEF ReadChange
<1>10. SeenBefore(coverage', seen', step + 1)
  <2>1. seen'[QueryStats] = seen[QueryStats]
    BY <1>2, <1>3, <1>4, <1>7
  <2>2. UsableIn(coverage', QueryStats) => seen[QueryStats] # None
    <3>1. SeenBefore(coverage, seen, step) /\ 1 \in 1..Len(Reads)
      BY <1>1, Orders DEF AInv, ReadSoFar
    <3>2. UsableIn(coverage', QueryStats) => UsableIn(coverage, QueryStats)
      BY <1>2, <1>5, <1>8
    <3> QED
      BY <1>1, <1>2, <3>1, <3>2 DEF SeenBefore
  <2>3. \A j \in 1..Len(Reads) : j < step + 1 /\ j # 2 => j = 1
    BY <1>1, <1>2
  <2> QED
    BY <1>1, <1>2, <2>1, <2>2, <2>3 DEF SeenBefore
<1>11. CASE NextRead
  BY <1>1, <1>9, <1>10, <1>11, ReadsOn
<1>12. CASE stage' = "dead" /\ UNCHANGED step
  BY <1>9, <1>12, DiesStep
<1> QED
  BY <1>1, <1>11, <1>12

\* The tables are the third read.
LEMMA TablesThird ==
  ASSUME AInv, \/ Reading(TableStats)
               \/ stage = "retry"
  PROVE  /\ step = 3 /\ coverage[TableStats].snap # 0 /\ SeenBefore(coverage, seen, 3)
         /\ stage \in {"read", "retry"}
<1>1. CASE Reading(TableStats)
  <2>1. step \in 1..Len(Reads) /\ coverage[TableStats].snap # 0 /\ stage = "read"
    BY <1>1 DEF Reading, AInv, Stages
  <2>2. step = 3
    BY <1>1, <2>1, Positions DEF Reading
  <2> QED
    BY <2>1, <2>2 DEF AInv, ReadSoFar
<1>2. CASE stage = "retry"
  BY <1>2 DEF AInv, Stages, ReadSoFar
<1> QED
  BY <1>1, <1>2

\* After the third read the first and the third were seen, and bloat with them.
LEMMA TablesSeen ==
  ASSUME AInv, SeenBefore(coverage, seen, 3), step = 3,
         UsableIn(coverage', QueryStats) => UsableIn(coverage, QueryStats),
         seen'[QueryStats] = seen[QueryStats],
         UsableIn(coverage', TableStats) => seen'[TableStats] # None,
         UsableIn(coverage', TableStats) /\ UsableIn(coverage', Bloat) => seen'[Bloat] # None
  PROVE  SeenBefore(coverage', seen', step + 1)
<1>1. Len(Reads) \in Nat /\ 1 \in 1..Len(Reads) /\ Reads[1] = QueryStats /\ Reads[3] = TableStats
  BY Orders
<1>2. UsableIn(coverage', QueryStats) => seen'[QueryStats] # None
  BY <1>1 DEF SeenBefore
<1>3. \A j \in 1..Len(Reads) : j < step + 1 /\ j # 2 => j = 1 \/ j = 3
  BY <1>1
<1> QED
  BY <1>1, <1>2, <1>3 DEF SeenBefore

LEMMA ReadTablesStep == ASSUME AInv, ReadTables PROVE AInv'
<1> DEFINE bloat == IF coverage[Bloat].snap = 0 THEN None ELSE RowsOf(Bloat)
           saw == seen' = [seen EXCEPT ![TableStats] = RowsOf(TableStats), ![Bloat] = bloat]
<1>1. /\ Reading(TableStats) /\ AnalysisStep
      /\ \/ saw /\ NextRead /\ UNCHANGED coverage /\ UNCHANGED errors
         \/ /\ errors < MaxErrors /\ errors' = errors + 1
            /\ Invalidate(Bloat) /\ stage' = "retry" /\ UNCHANGED <<step, seen>>
  BY DEF ReadTables
<1>2. /\ step = 3 /\ coverage[TableStats].snap # 0 /\ SeenBefore(coverage, seen, 3)
      /\ stage = "read" /\ Running
  BY <1>1, TablesThird DEF Reading, Running
<1>3. /\ {TableStats, Bloat, QueryStats} \subseteq Domains
      /\ TableStats # Bloat /\ QueryStats \notin {TableStats, Bloat}
  BY Orders, DomainsAssumption
<1>4. errors' \in 0..MaxErrors
  BY <1>1, ErrorsCount
<1>5. CASE saw /\ NextRead /\ UNCHANGED coverage
  <2>1. seen \in [Domains -> Nat \cup {None}]
    BY DEF AInv, AnalyzerTypeOK
  <2>2. RowsOf(TableStats) \in Nat \cup {None} /\ bloat \in Nat \cup {None}
    BY <1>2, <1>3, RowsFit
  <2> HIDE DEF bloat
  <2>3. /\ seen' \in [Domains -> Nat \cup {None}]
        /\ seen'[TableStats] = RowsOf(TableStats) /\ seen'[Bloat] = bloat
        /\ \A e \in Domains \ {TableStats, Bloat} : seen'[e] = seen[e]
    BY <1>3, <1>5, <2>1, <2>2
  <2>4. coverage' \in Coverage /\ coverage' = coverage
    BY <1>1, <1>3, <1>5, Changes
  <2>5. ReadChange
    <3>1. bloat = None \/ (coverage[Bloat].snap # 0 /\ bloat = RowsOf(Bloat))
      BY DEF bloat
    <3>2. \A e \in Domains :
            seen'[e] = seen[e] \/ seen'[e] = None \/ (coverage[e].snap # 0 /\ seen'[e] = RowsOf(e))
      BY <1>2, <2>3, <3>1
    <3> QED
      BY <1>1, <1>4, <2>3, <2>4, <3>2 DEF ReadChange
  <2>6. UsableIn(coverage, Bloat) => bloat # None
    BY <1>2, RowsThere DEF bloat, UsableIn
  <2>7. UsableIn(coverage, TableStats) => RowsOf(TableStats) # None
    BY <1>2, RowsThere
  <2>8. SeenBefore(coverage', seen', step + 1)
    BY <1>2, <1>3, <2>3, <2>4, <2>6, <2>7, TablesSeen
  <2> QED
    BY <1>2, <1>5, <2>5, <2>8, ReadsOn
<1>6. CASE Invalidate(Bloat) /\ stage' = "retry" /\ UNCHANGED <<step, seen>>
  <2>1. /\ coverage' \in Coverage /\ coverage'[Bloat].stale /\ seen' \in [Domains -> Nat \cup {None}]
        /\ \A e \in Domains :
             /\ coverage'[e].snap = coverage[e].snap /\ coverage'[e].at = coverage[e].at
             /\ coverage[e].stale => coverage'[e].stale
             /\ UsableIn(coverage', e) => UsableIn(coverage, e)
    BY <1>1, <1>3, <1>6, Changes
  <2>2. ReadChange
    BY <1>1, <1>4, <1>6, <2>1 DEF ReadChange
  <2>3. AnalyzerTypeOK' /\ StoreInv' /\ Covered' /\ SeenOf'
    BY <1>2, <1>6, <2>2, ReadKeeps
  <2>4. Stages'
    <3>1. clock' <= resolvedAt' + AnalysisSpan
      BY <1>1, <1>2 DEF AInv, Stages, AnalysisStep, world
    <3>2. coverage'[TableStats].snap # 0
      BY <1>2, <1>3, <2>1
    <3> QED
      BY <1>2, <1>6, <2>1, <3>1, <3>2 DEF Stages
  <2>5. ReadSoFar'
    <3>1. SeenBefore(coverage', seen, 3)
      BY <1>2, <1>3, <2>1, Positions DEF SeenBefore
    <3> QED
      BY <1>2, <1>6, <3>1 DEF ReadSoFar
  <2> QED
    BY <2>3, <2>4, <2>5 DEF AInv
<1> QED
  BY <1>1, <1>5, <1>6

LEMMA RetryStep == ASSUME AInv, RetryTables PROVE AInv'
<1>1. /\ stage = "retry" /\ AnalysisStep /\ NextRead
      /\ \/ /\ seen' = [seen EXCEPT ![TableStats] = RowsOf(TableStats)]
            /\ UNCHANGED coverage /\ UNCHANGED errors
         \/ errors < MaxErrors /\ errors' = errors + 1 /\ Invalidate(TableStats) /\ UNCHANGED seen
  BY DEF RetryTables
<1>2. /\ step = 3 /\ coverage[TableStats].snap # 0 /\ SeenBefore(coverage, seen, 3)
      /\ Running /\ coverage[Bloat].stale
  BY <1>1, TablesThird DEF Running, AInv, Stages
<1>3. /\ TableStats \in Domains /\ Bloat \in Domains /\ QueryStats \in Domains
      /\ TableStats # Bloat /\ QueryStats # TableStats
  BY Orders, DomainsAssumption
<1>4. errors' \in 0..MaxErrors
  BY <1>1, ErrorsCount
<1>5. CASE seen' = [seen EXCEPT ![TableStats] = RowsOf(TableStats)] /\ UNCHANGED coverage
  <2>1. /\ seen' \in [Domains -> Nat \cup {None}] /\ coverage' \in Coverage
        /\ \A e \in Domains : seen'[e] = IF e = TableStats THEN RowsOf(TableStats) ELSE seen[e]
    BY <1>1, <1>2, <1>3, <1>5, Changes
  <2>2. ReadChange
    BY <1>1, <1>2, <1>4, <1>5, <2>1 DEF ReadChange
  <2>3. UsableIn(coverage, TableStats) => RowsOf(TableStats) # None
    BY <1>2, RowsThere
  <2>4. SeenBefore(coverage', seen', step + 1)
    BY <1>2, <1>3, <1>5, <2>1, <2>3, TablesSeen DEF UsableIn
  <2> QED
    BY <1>1, <2>2, <2>4, ReadsOn
<1>6. CASE Invalidate(TableStats) /\ UNCHANGED seen
  <2>1. /\ coverage' \in Coverage /\ ~UsableIn(coverage', TableStats)
        /\ seen' \in [Domains -> Nat \cup {None}]
        /\ \A e \in Domains :
             /\ coverage'[e].snap = coverage[e].snap /\ coverage'[e].at = coverage[e].at
             /\ coverage[e].stale => coverage'[e].stale
             /\ UsableIn(coverage', e) => UsableIn(coverage, e)
    BY <1>1, <1>3, <1>6, Changes
  <2>2. ReadChange
    BY <1>1, <1>4, <1>6, <2>1 DEF ReadChange
  <2>3. SeenBefore(coverage', seen', step + 1)
    BY <1>2, <1>3, <1>6, <2>1, TablesSeen
  <2> QED
    BY <1>1, <2>2, <2>3, ReadsOn
<1> QED
  BY <1>1, <1>5, <1>6

-----------------------------------------------------------------------------
\* An analysis that was delivered, or lost with its process, leaves nothing behind.
LEMMA Afresh ==
  ASSUME AInv, stage' = "idle", step' = 1, anchor' = 0, resolvedAt' = 0, errors' = 0,
         found' \in Snapshots \cup {0},
         coverage' = [d \in Domains |-> Uncovered], seen' = [d \in Domains |-> None],
         UNCHANGED <<clock, working, next, runs, store>>, saved' \in {saved, {}}
  PROVE  AInv'
<1>1. \A d \in Domains : coverage'[d].snap = 0 /\ seen'[d] = None
  BY DEF Uncovered
<1>2. coverage' \in Coverage /\ seen' \in [Domains -> Nat \cup {None}]
  BY DEF Uncovered, Coverage
<1>3. UNCHANGED <<clock, working, next, runs, captured, data, outcome>>
  BY DEF store
<1>4. AnalyzerTypeOK'
  <2>1. errors' \in 0..MaxErrors /\ saved' \subseteq Snapshots \X Domains
    BY AnalyzerAssumption DEF AInv, AnalyzerTypeOK
  <2> QED
    BY <1>1, <1>2, <1>3, <2>1 DEF AInv, AnalyzerTypeOK, Coverage
<1>5. StoreInv'
  BY <1>3 DEF AInv, StoreInv
<1>6. Stages' /\ Covered' /\ SeenOf' /\ ReadSoFar'
  BY <1>1 DEF Stages, Covered, SeenOf, ReadSoFar, Running
<1> QED
  BY <1>4, <1>5, <1>6 DEF AInv

LEMMA Initially == Init => AInv
<1> SUFFICES ASSUME Init PROVE AInv
  OBVIOUS
<1>1. \A d \in Domains : coverage[d].snap = 0 /\ seen[d] = None
  BY DEF Init, Uncovered
<1>2. \A s \in Snapshots : captured[s] = None /\ \A d \in Domains :
        data[s][d] = None /\ outcome[s][d] = NotRun
  BY DEF Init
<1>3. AnalyzerTypeOK
  <2>1. /\ data \in [Snapshots -> [Domains -> Nat \cup {None}]]
        /\ captured \in [Snapshots -> Nat \cup {None}]
        /\ seen \in [Domains -> Nat \cup {None}]
    BY DEF Init
  <2>2. outcome \in [Snapshots -> [Domains -> [status : {"none", "success", "error"}, at : Nat]]]
    BY DEF Init, NotRun
  <2>3. coverage \in [Domains -> [snap : Snapshots \cup {0}, at : Nat, stale : BOOLEAN]]
    BY DEF Init, Uncovered
  <2>4. working \subseteq Domains
    BY DomainsAssumption DEF Init
  <2>5. runs \in 0..MaxRuns /\ errors \in 0..MaxErrors
    BY AnalyzerAssumption DEF Init
  <2> QED
    BY <1>1, <1>2, <2>1, <2>2, <2>3, <2>4, <2>5 DEF Init, AnalyzerTypeOK
<1>4. StoreInv
  <2>1. working # {} /\ saved = {}
    BY DomainsAssumption DEF Init
  <2>2. NotRun.status # "success"
    BY DEF NotRun
  <2> QED
    BY <1>2, <2>1, <2>2 DEF StoreInv
<1>5. Stages /\ Covered /\ SeenOf /\ ReadSoFar
  BY <1>1 DEF Init, Stages, Covered, SeenOf, ReadSoFar, Running
<1> QED
  BY <1>3, <1>4, <1>5 DEF AInv

LEMMA Steps == ASSUME AInv, [Next]_vars PROVE AInv'
<1>1. CASE UNCHANGED vars
  BY <1>1 DEF vars, world, store, analysis, AInv, AnalyzerTypeOK, StoreInv, Stages, Covered,
              SeenOf, ReadSoFar, SeenBefore, UsableIn, Running
<1>2. CASE CreateSnapshot
  BY <1>2, CreateStep
<1>3. ASSUME NEW s \in Snapshots, NEW d \in Domains,
             SaveRows(s, d) \/ RecordSuccess(s, d) \/ RecordError(s, d)
      PROVE  AInv'
  BY <1>3, SaveStep, SuccessStep, ErrorStep
<1>4. CASE PurgeOldSnapshots
  BY <1>4, PurgeStep
<1>5. CASE Tick
  BY <1>5, TickStep
<1>6. ASSUME NEW s \in Snapshots, StartAnalysis(s) PROVE AInv'
  BY <1>6, StartStep
<1>7. CASE FindSnapshot \/ LookupRun
  BY <1>7, FindStep, LookupStep
<1>8. CASE ReadCache \/ ReadTables \/ RetryTables
  BY <1>8, ReadCacheStep, ReadTablesStep, RetryStep
<1>9. ASSUME NEW d \in Domains, ReadList(d) \/ ReadRow(d) \/ ReadLists(d) \/ ReadFails(d)
      PROVE  AInv'
  BY <1>9, ReadListStep, ReadRowStep, ReadListsStep, ReadFailsStep
<1>10. CASE Deliver
  <2>1. /\ stage' = "idle" /\ step' = 1 /\ anchor' = 0 /\ resolvedAt' = 0 /\ errors' = 0
        /\ coverage' = [d \in Domains |-> Uncovered] /\ seen' = [d \in Domains |-> None]
        /\ UNCHANGED <<clock, working, next, runs, store>> /\ saved' = saved
        /\ found' \in Snapshots \cup {0}
    BY <1>10 DEF Deliver, world, AInv, AnalyzerTypeOK
  <2> QED
    BY <2>1, Afresh
<1>11. CASE Restart
  <2>1. /\ stage' = "idle" /\ step' = 1 /\ anchor' = 0 /\ resolvedAt' = 0 /\ errors' = 0
        /\ coverage' = [d \in Domains |-> Uncovered] /\ seen' = [d \in Domains |-> None]
        /\ UNCHANGED <<clock, working, next, runs, store>> /\ saved' = {} /\ found' = 0
    BY <1>11 DEF Restart
  <2> QED
    BY <2>1, Afresh
<1> QED
  BY <1>1, <1>2, <1>3, <1>4, <1>5, <1>6, <1>7, <1>8, <1>9, <1>10, <1>11
  DEF Next, Collecting, Analyzing

LEMMA Always == Spec => []AInv
<1>1. Init => AInv
  BY Initially
<1>2. AInv /\ [Next]_vars => AInv'
  BY Steps
<1> QED
  BY <1>1, <1>2, PTL DEF Spec

\* Values keep their types, rows and coverage belong to snapshots.
THEOREM AnalyzerTypeCorrect == Spec => []AnalyzerTypeOK
<1>1. AInv => AnalyzerTypeOK
  BY DEF AInv
<1> QED
  BY <1>1, Always, PTL

\* An analysis of a snapshot reads nothing that was collected after the cycle of that
\* snapshot, whatever is collected, purged or lost meanwhile.
THEOREM HistoryAlwaysHistorical == Spec => []HistoryStaysHistorical
<1>1. AInv => HistoryStaysHistorical
  BY DEF AInv, SeenOf, HistoryStaysHistorical
<1> QED
  BY <1>1, Always, PTL

\* Every domain but bloat is read by itself; database_stats in its second read.
LEMMA EveryDomainIsRead ==
  ASSUME NEW d \in Domains, d # Bloat
  PROVE  \E j \in 1..Len(Reads) : j # 2 /\ Reads[j] = d
<1> DEFINE A == {QueryStats, TableStats, IndexStats, Bloat} \cup Rows
<1>1. RowDomains \in Seq(A) /\ Len(RowDomains) \in Nat
  BY DomainsAssumption
<1>2. ListDomains \in Seq(A) /\ Len(ListDomains) = 4
  BY DEF ListDomains
<1> HIDE DEF A
<1>3. /\ Len(AllDomains) = 4 + Len(RowDomains)
      /\ \A i \in 1..4 : AllDomains[i] = ListDomains[i]
      /\ \A i \in 1..Len(RowDomains) : AllDomains[4 + i] = RowDomains[i]
  BY <1>1, <1>2, FourThenRest DEF AllDomains
<1>4. PICK i \in 1..Len(AllDomains) : AllDomains[i] = d
  BY DEF Domains
<1>5. CASE i <= 4
  <2>1. i \in 1..4
    BY <1>5
  <2>2. d \in {QueryStats, TableStats, IndexStats}
    BY <1>3, <1>4, <2>1 DEF ListDomains
  <2> QED
    BY <2>2, Orders
<1>6. CASE i > 4
  <2>1. i - 4 \in 1..Len(RowDomains) /\ 4 + (i - 4) = i
    BY <1>1, <1>3, <1>6
  <2>2. Reads[i] = d /\ i \in 1..Len(Reads)
    BY <1>3, <1>4, <2>1, Orders
  <2> QED
    BY <1>6, <2>2
<1> QED
  BY <1>1, <1>3, <1>5, <1>6

\* An issue is only concluded to be gone from data that was there and was read, and
\* that is no older than its budget and a cycle.
THEOREM RecoveryAlwaysObserved == Spec => []RecoveryWasObserved
<1>1. ASSUME AInv PROVE RecoveryWasObserved
  <2> SUFFICES ASSUME NEW ds \in Required, Resolves(ds), NEW d \in ds
               PROVE  /\ seen[d] # None
                      /\ Budget[d] > 0 => resolvedAt <= seen[d] + Budget[d] + CycleSpan
    BY DEF RecoveryWasObserved
  <2>1. d \in Domains
    BY Orders DEF Required
  <2>2. SeenBefore(coverage, seen, Len(Reads) + 1) /\ \A e \in ds : UsableIn(coverage, e)
    BY <1>1 DEF AInv, ReadSoFar, Resolves, Usable, UsableIn
  <2>3. seen[d] # None
    <3>1. CASE d # Bloat
      <4>1. PICK j \in 1..Len(Reads) : j # 2 /\ Reads[j] = d
        BY <2>1, <3>1, EveryDomainIsRead
      <4>2. j < Len(Reads) + 1
        BY Orders
      <4> QED
        BY <2>2, <4>1, <4>2 DEF SeenBefore
    <3>2. CASE d = Bloat
      <4>1. TableStats \in ds /\ Bloat \in ds
        BY <3>2 DEF Required
      <4>2. 3 < Len(Reads) + 1
        BY Orders
      <4> QED
        BY <2>2, <3>2, <4>1, <4>2 DEF SeenBefore
    <3> QED
      BY <3>1, <3>2
  <2>4. ASSUME Budget[d] > 0 PROVE resolvedAt <= seen[d] + Budget[d] + CycleSpan
    <3>1. resolvedAt <= coverage[d].at + Budget[d]
      BY <1>1, <2>1, <2>2, <2>4 DEF AInv, Covered, UsableIn
    <3>2. coverage[d].at <= seen[d] + CycleSpan
      BY <1>1, <2>1, <2>3 DEF AInv, SeenOf
    <3>3. /\ coverage[d].at \in Nat /\ seen[d] \in Nat /\ resolvedAt \in Nat
          /\ Budget[d] \in Nat /\ CycleSpan \in Nat
      BY <1>1, <2>1, <2>3, AnalyzerAssumption, BudgetAssumption DEF AInv, AnalyzerTypeOK
    <3> QED
      BY <3>1, <3>2, <3>3
  <2> QED
    BY <2>3, <2>4
<1> QED
  BY <1>1, Always, PTL
=============================================================================
