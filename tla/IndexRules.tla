----------------------------- MODULE IndexRules -----------------------------
(***************************************************************************)
(* Unused and duplicate indexes (analyzer/indexes.go) of one table, and    *)
(* the rules that suggest to drop them.  An index is a record: its name    *)
(* (a number, ordered as names are), access method, keys in order, each a  *)
(* column and its options (operator class, collation, sort), included      *)
(* columns, expressions and predicate ("" for none), whether it enforces   *)
(* uniqueness, primary keys included, or backs a foreign key, its scans,   *)
(* its size in bytes and the days scans have been counted, None when that  *)
(* is unknown.                                                             *)
(***************************************************************************)
EXTENDS Thresholds, Sequences, FiniteSets, SequencesExt

LargeUnusedIndexBytes == 104857600

\* detectUnusedIndexes
Unused(i) ==
  /\ ~i.unique /\ i.scans = 0 /\ ~i.backsForeignKey
  /\ i.size >= 8192
  /\ i.counted # None /\ i.counted >= A.unusedIndexDays

Columns(i) == {key[1] : key \in ToSet(i.keys)} \cup i.include

\* redundantWith: retained serves every lookup of candidate.
SameShape(i, j) ==
  i.method = j.method /\ i.expr = j.expr /\ i.predicate = j.predicate

\* Of two identical plain indexes the less scanned one is redundant.
Outranks(i, j) == i.scans > j.scans \/ (i.scans = j.scans /\ i.name < j.name)

Exact(candidate, retained) ==
  candidate.keys = retained.keys /\ candidate.include = retained.include

RedundantWith(candidate, retained) ==
  /\ ~candidate.unique
  /\ SameShape(candidate, retained)
  /\ IsPrefix(candidate.keys, retained.keys)
  /\ candidate.include \subseteq Columns(retained)
  /\ \/ candidate.keys = retained.keys
     \/ candidate.method = "btree" /\ candidate.expr = ""
  /\ Exact(candidate, retained) /\ ~retained.unique => ~Outranks(candidate, retained)

\* Most scanned first, then by name: the order candidates are paired in.
KeepOrder(i, j) == i.scans > j.scans \/ (i.scans = j.scans /\ i.name < j.name)

\* Rows without a definition, None, cannot be compared.
Comparable(indexes) == {i \in indexes : i.keys # <<>>}

Redundant(indexes) ==
  {i \in Comparable(indexes) : \E j \in Comparable(indexes) \ {i} : RedundantWith(i, j)}

\* Mutant: a candidate is paired with any index that serves it.
KeptOfAll(indexes) == Comparable(indexes)

\* An index that is itself redundant is nobody's replacement.
KeptIndexes(indexes) == Comparable(indexes) \ Redundant(indexes)

Cover(kept, i) == {j \in kept \ {i} : RedundantWith(i, j)}

\* detectDuplicateIndexes: each redundant index with the best one that covers it.
Duplicates(indexes) ==
  LET kept  == KeptIndexes(indexes)
      cover == [i \in Redundant(indexes) |-> Cover(kept, i)]
  IN {[candidate |-> i,
       retained  |-> CHOOSE j \in cover[i] : \A k \in cover[i] \ {j} : KeepOrder(j, k)] :
      i \in {i \in DOMAIN cover : cover[i] # {}}}

UnusedIndexRule(indexes) ==
  {Finding("unused_index", <<"index", i.name>>,
           IF i.size >= LargeUnusedIndexBytes THEN "warning" ELSE "info") :
   i \in {i \in indexes : Unused(i)}}

DuplicateIndexRule(indexes) ==
  {Finding("duplicate_index", <<"index", d.candidate.name>>,
           IF Exact(d.candidate, d.retained) THEN "warning" ELSE "info") :
   d \in Duplicates(indexes)}
=============================================================================
