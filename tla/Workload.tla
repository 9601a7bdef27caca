------------------------------ MODULE Workload ------------------------------
(***************************************************************************)
(* One statement's execution as it can be told from counters.             *)
(* pg_stat_statements counts calls and time in one entry per role and      *)
(* nesting, each up to its eviction or reset; collection samples their sum *)
(* into snapshots and into a history that is kept for another time;        *)
(* windows, periods and verdicts about a fix are differences of samples.   *)
(* What really ran is kept beside each sample.                             *)
(*                                                                         *)
(* Time is counted in hours, cost in milliseconds.                         *)
(***************************************************************************)
EXTENDS Integers, Sequences, SequencesExt, FiniteSetsExt

CONSTANTS
  None,
  Entries,           \* of pg_stat_statements with this queryid, (role, toplevel) each
  Costs,             \* what an execution may take
  Window,            \* SlowQueryWindow
  MinAfterSpan, MinCalls, BaselineLeadIn,
  HistoryLimit,      \* maxSamples of a verification
  QueryRetention, SnapshotRetention,
  MaxHour, MaxRuns, MaxResets, MaxMissed   \* bounds

ASSUME WorkloadAssumption ==
  /\ Costs \subseteq Nat \ {0}
  /\ \E dearest \in Costs : \A cost \in Costs : cost =< dearest
  /\ {MinAfterSpan, BaselineLeadIn, MaxHour, MaxRuns, MaxResets, MaxMissed} \subseteq Nat
  /\ {Entries, HistoryLimit, Window, MinCalls, QueryRetention, SnapshotRetention} \subseteq Nat \ {0}
  /\ None \notin Nat

VARIABLES
  hour,
  entries,           \* the counters of each of the statement's entries
  truth,             \* history variable: what ran, for how long, losses of entries, what the
                     \* other entries held at each loss, missed samples
  history,           \* query_history
  snapshots,         \* snapshots with query_stats and the statement's row in them, a set
  resolution         \* [at, lagging] of a resolved suggestion, or None

workloadVars == <<hour, entries, truth, history, snapshots, resolution>>

\* Calls and time, as each entry and their sum have them.
Zero == [calls |-> 0, total |-> 0]
Plus(x, y) == [calls |-> x.calls + y.calls, total |-> x.total + y.total]

WorkloadInit ==
  /\ hour = 0
  /\ entries = [i \in 1..Entries |-> Zero]
  /\ truth = [ran |-> 0, spent |-> 0, resets |-> 0, kept |-> 0, keptTime |-> 0, missed |-> 0]
  /\ history = <<>> /\ snapshots = {}
  /\ resolution = None

-----------------------------------------------------------------------------
\* PostgreSQL.  What runs after an hour's sample is left to the next hour.
SampledNow == \E s \in snapshots : s.at = hour

Execute ==
  /\ ~SampledNow /\ truth.ran < MaxRuns
  /\ \E i \in 1..Entries, cost \in Costs :
       /\ entries' = [entries EXCEPT ![i] = Plus(@, [calls |-> 1, total |-> cost])]
       /\ truth' = [truth EXCEPT !.ran = @ + 1, !.spent = @ + cost]
  /\ UNCHANGED <<hour, history, snapshots, resolution>>

\* GetStatStatements sums the entries of one queryid.
Summed(rows) ==
  LET sum[i \in 0..Entries] == IF i = 0 THEN Zero ELSE Plus(sum[i - 1], rows[i])
  IN sum[Entries]

\* All entries are reset, or some of them are or make room for other statements.
LoseEntries ==
  /\ ~SampledNow /\ truth.resets < MaxResets
  /\ \E lost \in SUBSET {i \in 1..Entries : entries[i].calls > 0} :
       /\ lost # {}
       /\ entries' = [i \in 1..Entries |-> IF i \in lost THEN Zero ELSE entries[i]]
  /\ truth' = [truth EXCEPT !.resets = @ + 1, !.kept = @ + Summed(entries').calls,
                            !.keptTime = @ + Summed(entries').total]
  /\ UNCHANGED <<hour, history, snapshots, resolution>>

\* An hour may end without a sample: the collector failed or did not run.
Tick ==
  /\ hour < MaxHour
  /\ hour' = hour + 1
  /\ SampledNow \/ truth.missed < MaxMissed
  /\ truth' = IF SampledNow THEN truth ELSE [truth EXCEPT !.missed = @ + 1]
  /\ UNCHANGED <<entries, history, snapshots, resolution>>

\* The row of the statement; one without entries since a reset is not listed.
ListedCounters ==
  [at |-> hour, calls |-> Summed(entries).calls, total |-> Summed(entries).total, truth |-> truth]

\* The snapshot's rows and the history are written in one transaction.
SampleQueryStats ==
  /\ ~SampledNow
  /\ snapshots' = snapshots \cup {ListedCounters}
  /\ history' = IF ListedCounters.calls > 0 THEN Append(history, ListedCounters) ELSE history
  /\ UNCHANGED <<hour, entries, truth, resolution>>

ForgetSnapshots == snapshots' = {s \in snapshots : s.at >= hour - SnapshotRetention}

\* The history is in the order of time: what has aged comes first.
PurgeOldQueryHistory ==
  LET aged == {i \in DOMAIN history : history[i].at < hour - QueryRetention}
  IN history' = SubSeq(history, Max(aged \cup {0}) + 1, Len(history))

Maintain ==
  /\ ForgetSnapshots /\ PurgeOldQueryHistory
  /\ <<snapshots, history>>' # <<snapshots, history>>
  /\ UNCHANGED <<hour, entries, truth, resolution>>

-----------------------------------------------------------------------------
(* A recent window reaches from the newest snapshot that is at least a     *)
(* window older than the latest one up to that one.                        *)
NewestOf(S) == CHOOSE s \in S : \A other \in S : other.at =< s.at
OldestOf(S) == CHOOSE s \in S : \A other \in S : s.at =< other.at

Newest(before) == NewestOf({s \in snapshots : s.at =< before})

RecentQueryStats ==
  IF snapshots = {} THEN {}
  ELSE LET latest == Newest(hour)
           older == {s \in snapshots : s.at =< latest.at - Window}
       IN IF older = {} THEN {} ELSE {[from |-> NewestOf(older), to |-> latest]}

\* The digest takes all that is inside its period instead.
TopQueries(since) ==
  LET S == {s \in snapshots : s.at >= since}
  IN IF Cardinality(S) < 2 THEN {} ELSE {[from |-> OldestOf(S), to |-> NewestOf(S)]}

Windows == RecentQueryStats \cup UNION {TopQueries(since) : since \in 0..hour}

\* Mutant: a counter that went down is subtracted all the same.
Difference(from, to) == to - from

\* Each column is judged for itself.
Column(from, to) == IF to - from < 0 THEN to ELSE to - from

\* The statement's change between two snapshots; no row counts as zero.
GetQueryStatsDelta(from, to) ==
  [calls |-> Column(from.calls, to.calls), total |-> Column(from.total, to.total)]

-----------------------------------------------------------------------------
(* Verification of a fix.                                                  *)
\* The newest samples of a range, which are next to each other.
GetQueryHistory(from, to) ==
  LET older == Cardinality({i \in DOMAIN history : history[i].at < from})
      last  == Cardinality({i \in DOMAIN history : history[i].at =< to})
  IN SubSeq(history, IF last - older > HistoryLimit THEN last - HistoryLimit + 1 ELSE older + 1, last)

\* Mutant: like the windows, a reset shows in each column by itself.
GrownByColumn(prev, s) ==
  [calls |-> Column(prev.calls, s.calls), total |-> Column(prev.total, s.total)]

\* What a sample adds to the one before; a reset shows in either counter.
Grown(prev, s) ==
  IF s.calls < prev.calls \/ s.total < prev.total
  THEN [calls |-> s.calls, total |-> s.total]
  ELSE [calls |-> s.calls - prev.calls, total |-> s.total - prev.total]

Inside(samples, from, to) ==
  {i \in DOMAIN samples : from < samples[i].at /\ samples[i].at =< to}

\* The execution up to each sample, from the first of those in I on.
Growth(samples, I) ==
  LET sum[i \in DOMAIN samples] ==
        IF i = 1 THEN Zero
        ELSE IF i \notin I THEN sum[i - 1]
        ELSE Plus(sum[i - 1], Grown(samples[i - 1], samples[i]))
  IN sum

\* The execution between two times, or None without a sample between them.
\* A sample without one before it is only a baseline.
Period(samples, from, to) ==
  LET I == Inside(samples, from, to)
      grown == Growth(samples, I)[Max(I)]
  IN IF I = {} THEN None
     ELSE [from |-> samples[Max({Min(I) - 1, 1})].at, to |-> samples[Max(I)].at,
           calls |-> grown.calls, total |-> grown.total]

\* Mutant: everything known about the time after the resolution.
AfterUntilNow == hour

\* The time after the resolution ends a window later.
AfterEnd == Min({resolution.at + Window, hour})

\* 0.8 and 1.2 of the mean before.
Ratio(b, a) ==
  IF 10 * a.total * b.calls =< 8 * b.total * a.calls THEN "improved"
  ELSE IF 10 * a.total * b.calls >= 12 * b.total * a.calls THEN "regressed"
  ELSE "unchanged"

Compare(b, a) ==
  CASE b = None \/ (b # None /\ b.calls = 0) -> "no_data"
    [] OTHER ->
       IF a = None \/ (a # None /\ a.calls = 0)
       THEN IF hour - resolution.at >= Window THEN "stopped" ELSE "pending"
       ELSE IF a.to - a.from < MinAfterSpan \/ a.calls < MinCalls THEN "pending"
            ELSE Ratio(b, a)

\* A slow query resolves up to a window after the fix.
BeforeEnd == IF resolution.lagging THEN resolution.at - Window ELSE resolution.at

VerifySamples == GetQueryHistory(BeforeEnd - Window - BaselineLeadIn, AfterEnd)

Before == Period(VerifySamples, BeforeEnd - Window, BeforeEnd)
After == Period(VerifySamples, resolution.at, AfterEnd)

Verify == IF resolution = None THEN "none" ELSE Compare(Before, After)

ResolveFix ==
  /\ resolution = None /\ SampledNow
  /\ \E lagging \in BOOLEAN : resolution' = [at |-> hour, lagging |-> lagging]
  /\ UNCHANGED <<hour, entries, truth, history, snapshots>>

-----------------------------------------------------------------------------
WorkloadNext ==
  \/ Execute \/ LoseEntries \/ Tick
  \/ SampleQueryStats \/ Maintain
  \/ ResolveFix

-----------------------------------------------------------------------------
Ran(a, b) == b.truth.ran - a.truth.ran
Spent(a, b) == b.truth.spent - a.truth.spent
ResetBetween(a, b) == a.truth.resets # b.truth.resets

\* What the statement's other entries had when one was lost; nothing if all were.
Held(a, b) == b.truth.kept - a.truth.kept
HeldTime(a, b) == b.truth.keptTime - a.truth.keptTime

PossibleMean(p) ==
  p.calls > 0 => /\ p.total >= Min(Costs) * p.calls
                 /\ p.total =< Max(Costs) * p.calls

\* A period of the history counts all executions in it when no entry was lost
\* meanwhile.  Otherwise it counts none that was not in it but those that the
\* statement's other entries held at the loss: the sum went down, and what is left
\* of it is taken for new.  Its mean is between the cheapest and the dearest
\* execution unless a loss was made up for before the next sample.
PeriodsAreReal ==
  \A from \in 0..hour : \A to \in from + 1..hour :
    LET p == Period(history, from, to)
        At(t) == CHOOSE s \in Range(history) : s.at = t
        first == At(p.from)
        last == At(p.to)
        Hides(i) == /\ ResetBetween(history[i - 1], history[i])
                    /\ history[i].calls >= history[i - 1].calls
                    /\ history[i].total >= history[i - 1].total
    IN p # None =>
         /\ p.calls =< Ran(first, last) + Held(first, last)
         /\ p.total =< Spent(first, last) + HeldTime(first, last)
         /\ ~ResetBetween(first, last) =>
              p.calls = Ran(first, last) /\ p.total = Spent(first, last)
         /\ (\A i \in Inside(history, from, to) \ {1} : ~Hides(i)) => PossibleMean(p)

\* A window of snapshots counts all that ran in it when no entry was lost meanwhile.
\* Otherwise it never counts less than nothing, nor more than ran in it and the other
\* entries held at the loss; where the sum did not go down, no more than ran in it.
\* Its mean is a possible one unless a loss shows in one of the two columns at most.
WindowsAreReal ==
  \A w \in Windows : w.to.calls > 0 =>
    LET d == GetQueryStatsDelta(w.from, w.to)
        reset == ResetBetween(w.from, w.to)
    IN /\ 0 =< d.calls /\ d.calls =< Ran(w.from, w.to) + Held(w.from, w.to)
       /\ 0 =< d.total /\ d.total =< Spent(w.from, w.to) + HeldTime(w.from, w.to)
       /\ w.to.calls >= w.from.calls => d.calls =< Ran(w.from, w.to)
       /\ ~reset => d.calls = Ran(w.from, w.to) /\ d.total = Spent(w.from, w.to)
       /\ (reset => w.to.calls < w.from.calls /\ w.to.total < w.from.total)
            => PossibleMean(d)

\* Once a full window has passed the verdict on a fix does not change any more,
\* whatever runs, is reset or sampled later: only aged history can take it back.
VerdictSettles ==
  [][(/\ resolution # None
      /\ hour > resolution.at + Window
      /\ Len(history') >= Len(history)) => Verify' = Verify]_<<hour, history, resolution>>
=============================================================================
