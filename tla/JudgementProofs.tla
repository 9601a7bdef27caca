-------------------------- MODULE JudgementProofs --------------------------
(***************************************************************************)
(* What the rules of an analysis promise, for every threshold the          *)
(* configuration accepts and every scale of measurements: Judgements says  *)
(* what is measured and reported, and each theorem here is one of the four *)
(* properties its run checks on chosen values.                             *)
(*                                                                         *)
(* A state of Judgements is a family of measurements, a level of each, the *)
(* checks that failed and the suggestions that are open. LevelsOK is the   *)
(* typing of the levels; from it follows what a measurement is (WorldIs),  *)
(* and the rest is about the rules, family by family.                      *)
(***************************************************************************)
EXTENDS Judgements, FiniteSetTheorems, NaturalsInduction, WellFoundedInduction, TLAPS

-----------------------------------------------------------------------------
(* Numbers and sequences.                                                  *)

\* A set of numbers has a least one.
LEMMA LeastOf ==
  ASSUME NEW S, S # {}, S \subseteq Nat
  PROVE  \E m \in S : \A k \in S : m =< k
<1>1. PICK m \in S : \A k \in S : ~(<<k, m>> \in OpToRel(<, Nat))
  BY NatLessThanWellFounded, WFMin
<1>2. ASSUME NEW k \in S PROVE m =< k
  <2>1. m \in Nat /\ k \in Nat
    OBVIOUS
  <2>2. k < m => <<k, m>> \in OpToRel(<, Nat)
    BY <2>1, Zenon DEF OpToRel
  <2>3. ~(k < m)
    BY <1>1, <2>2, Zenon
  <2> QED
    BY <2>1, <2>3
<1> QED
  BY <1>2

\* What holds of 0 and goes on from each number to the next holds up to n.
LEMMA GoesOnTo ==
  ASSUME NEW n \in Nat, NEW S, 0 \in S,
         \A m \in 0..n : m \in S /\ m < n => m + 1 \in S
  PROVE  0..n \subseteq S
<1> DEFINE B == {m \in 0..n : m \notin S}
<1>1. SUFFICES ASSUME B # {} PROVE FALSE
  OBVIOUS
<1>2. PICK T : T = B
  OBVIOUS
<1>3. PICK m \in T : \A k \in T : m =< k
  BY <1>1, <1>2, LeastOf
<1>4. m \in 0..n /\ m \notin S /\ m # 0 /\ m - 1 \in 0..n /\ m - 1 < n
  BY <1>2, <1>3
<1>5. m - 1 \notin T
  BY <1>3, <1>4
<1>6. m - 1 \in S
  BY <1>2, <1>4, <1>5
<1>7. (m - 1) + 1 \in S /\ (m - 1) + 1 = m
  BY <1>4, <1>6
<1> QED
  BY <1>4, <1>7

\* A prefix is no longer than what it is a prefix of, and the same up to its end.
LEMMA PrefixIs ==
  ASSUME NEW S, NEW s \in Seq(S), NEW t \in Seq(S)
  PROVE  /\ Len(s) \in Nat /\ Len(t) \in Nat
         /\ IsPrefix(s, t) <=> /\ Len(s) =< Len(t)
                               /\ \A i \in 1..Len(s) : s[i] = t[i]
<1>1. Len(s) \in Nat /\ Len(t) \in Nat
  OBVIOUS
<1>2. ASSUME Len(s) =< Len(t)
      PROVE  SubSeq(s, 1, Len(s)) = SubSeq(t, 1, Len(s)) <=> \A i \in 1..Len(s) : s[i] = t[i]
  <2>1. PICK p, q : p = SubSeq(s, 1, Len(s)) /\ q = SubSeq(t, 1, Len(s))
    OBVIOUS
  <2>2. /\ p \in Seq(S) /\ q \in Seq(S) /\ Len(p) = Len(s) /\ Len(q) = Len(s)
        /\ \A i \in 1..Len(s) : p[i] = s[i] /\ q[i] = t[i]
    BY <1>1, <1>2, <2>1
  <2>3. p = q <=> \A i \in 1..Len(s) : p[i] = q[i]
    BY <2>2
  <2> QED
    BY <2>1, <2>2, <2>3
<1> QED
  BY <1>1, <1>2 DEF IsPrefix

\* A sequence that is no shorter than one it is a prefix of is that one.
LEMMA PrefixOfShorter ==
  ASSUME NEW S, NEW s \in Seq(S), NEW t \in Seq(S), IsPrefix(s, t), Len(t) =< Len(s)
  PROVE  s = t
<1>1. Len(s) = Len(t) /\ \A i \in 1..Len(s) : s[i] = t[i]
  BY PrefixIs
<1> QED
  BY <1>1

-----------------------------------------------------------------------------
(* Recommended indexes.                                                    *)

\* What RecommendIndexes returns for an index.
Recommended == [columns : Seq(STRING), queries : SUBSET STRING, share : Int]

\* Of n columns or more, and none a prefix of another.
Apart(recs, n) ==
  /\ recs \in Seq(Recommended)
  /\ \A k \in DOMAIN recs : Len(recs[k].columns) >= n
  /\ \A k, l \in DOMAIN recs : k # l => ~IsPrefix(recs[k].columns, recs[l].columns)

\* The fields of a scan.
LEMMA ScannedIs ==
  ASSUME NEW p \in Scanned
  PROVE  p.columns \in Seq(STRING) /\ p.query \in STRING /\ p.share \in Int
<1>1. p.columns \in Seq(STRING)
  BY DEF Scanned
<1>2. p.query \in STRING
  BY DEF Scanned
<1>3. p.share \in Percent
  BY DEF Scanned
<1>4. p.share \in Int
  BY <1>3 DEF Percent
<1> QED
  BY <1>1, <1>2, <1>4

\* Some recommended index has the columns of p first and names its query.
Served(recs, p) ==
  \E k \in DOMAIN recs : IsPrefix(p.columns, recs[k].columns) /\ p.query \in recs[k].queries

\* A proposal finds an index it is a prefix of, or becomes one.
LEMMA AbsorbServes ==
  ASSUME NEW n \in Nat, NEW recs, Apart(recs, n), NEW p \in Scanned, Len(p.columns) = n,
         NEW new, new = Absorb(recs, p)
  PROVE  /\ Apart(new, n) /\ Served(new, p)
         /\ \A q \in Scanned : Served(recs, q) => Served(new, q)
         /\ \A k \in DOMAIN new : \/ new[k].columns = p.columns
                                 \/ \E l \in DOMAIN recs : new[k].columns = recs[l].columns
<1> DEFINE Covering == {i \in DOMAIN recs : IsPrefix(p.columns, recs[i].columns)}
<1>1. recs \in Seq(Recommended) /\ DOMAIN recs = 1..Len(recs) /\ Len(recs) \in Nat
  BY DEF Apart
<1>2. p.columns \in Seq(STRING) /\ p.query \in STRING /\ p.share \in Int
  BY ScannedIs
<1>3. \A k \in DOMAIN recs : recs[k] \in Recommended
  BY <1>1
<1>4. IsPrefix(p.columns, p.columns)
  BY <1>2, PrefixIs
<1>5. CASE Covering = {}
  <2>1. PICK r : r = [columns |-> p.columns, queries |-> {p.query}, share |-> p.share]
    OBVIOUS
  <2>2. r \in Recommended
    BY <1>2, <2>1 DEF Recommended
  <2>3. new = Append(recs, r)
    BY <1>5, <2>1 DEF Absorb
  <2>4. /\ new \in Seq(Recommended) /\ DOMAIN new = 1..Len(recs) + 1
        /\ new[Len(recs) + 1] = r /\ \A k \in DOMAIN recs : new[k] = recs[k]
    BY <1>1, <2>2, <2>3
  <2>5. ASSUME NEW k \in DOMAIN recs
        PROVE  ~IsPrefix(r.columns, recs[k].columns) /\ ~IsPrefix(recs[k].columns, r.columns)
    <3>1. ~IsPrefix(p.columns, recs[k].columns)
      BY <1>5
    <3>2. recs[k].columns \in Seq(STRING)
      BY <1>3 DEF Recommended
    <3>3. Len(recs[k].columns) >= n
      BY DEF Apart
    <3>4. Len(recs[k].columns) \in Nat
      BY <3>2
    <3>5. IsPrefix(recs[k].columns, p.columns) => recs[k].columns = p.columns
      BY <1>2, <3>2, <3>3, <3>4, PrefixOfShorter
    <3> QED
      BY <1>4, <2>1, <3>1, <3>5
  <2>6. Apart(new, n)
    <3>1. \A k \in DOMAIN new : k \in DOMAIN recs \/ k = Len(recs) + 1
      BY <1>1, <2>4
    <3>2. r.columns = p.columns /\ n >= n
      BY <2>1
    <3>3. \A k \in DOMAIN new : Len(new[k].columns) >= n
      BY <2>4, <3>1, <3>2 DEF Apart
    <3>4. ASSUME NEW k \in DOMAIN new, NEW l \in DOMAIN new, k # l
          PROVE  ~IsPrefix(new[k].columns, new[l].columns)
      BY <2>4, <2>5, <3>1, <3>4 DEF Apart
    <3> QED
      BY <2>4, <3>3, <3>4 DEF Apart
  <2>7. Served(new, p)
    BY <1>1, <1>4, <2>1, <2>4 DEF Served
  <2>8. ASSUME NEW q \in Scanned, Served(recs, q) PROVE Served(new, q)
    <3>1. PICK k \in DOMAIN recs : IsPrefix(q.columns, recs[k].columns) /\ q.query \in recs[k].queries
      BY <2>8 DEF Served
    <3>2. k \in DOMAIN new /\ new[k] = recs[k]
      BY <1>1, <2>4
    <3> QED
      BY <3>1, <3>2 DEF Served
  <2>9. \A k \in DOMAIN new : new[k].columns = p.columns \/ k \in DOMAIN recs
    BY <1>1, <2>1, <2>4
  <2> QED
    BY <2>4, <2>6, <2>7, <2>8, <2>9
<1>6. CASE Covering # {}
  <2>1. PICK I : I = Covering
    OBVIOUS
  <2>2. I # {} /\ I \subseteq Nat
    BY <1>1, <1>6, <2>1
  <2>3. \E i \in I : \A j \in I : i <= j
    BY <2>2, LeastOf
  <2>4. PICK target : target = CHOOSE i \in Covering : \A j \in Covering : i <= j
    OBVIOUS
  <2>5. target \in I
    BY <2>1, <2>3, <2>4
  <2>6. target \in DOMAIN recs /\ IsPrefix(p.columns, recs[target].columns)
    BY <2>1, <2>5
  <2>7. new = IF p.query \in recs[target].queries THEN recs
              ELSE [recs EXCEPT ![target].queries = @ \cup {p.query}, ![target].share = @ + p.share]
    <3>1. PICK a, b : /\ a = Append(recs, [columns |-> p.columns, queries |-> {p.query}, share |-> p.share])
                      /\ b = [recs EXCEPT ![target].queries = @ \cup {p.query},
                                          ![target].share = @ + p.share]
      OBVIOUS
    <3>2. new = IF Covering = {} THEN a ELSE IF p.query \in recs[target].queries THEN recs ELSE b
      BY <2>4, <3>1, SMTT(30) DEF Absorb
    <3> QED
      BY <1>6, <3>1, <3>2
  <2>8. CASE p.query \in recs[target].queries
    <3>1. new = recs
      BY <2>7, <2>8
    <3> QED
      BY <2>6, <2>8, <3>1 DEF Served
  <2>9. CASE p.query \notin recs[target].queries
    <3>1. PICK r : r = recs[target]
      OBVIOUS
    <3>2. r \in Recommended
      BY <1>3, <2>6, <3>1
    <3>3. PICK s : s = [r EXCEPT !.queries = @ \cup {p.query}, !.share = @ + p.share]
      OBVIOUS
    <3>4. /\ s \in Recommended /\ s.columns = r.columns /\ s.queries = r.queries \cup {p.query}
      <4>1. r.queries \cup {p.query} \in SUBSET STRING /\ r.share + p.share \in Int
        BY <1>2, <3>2 DEF Recommended
      <4> QED
        BY <3>2, <3>3, <4>1 DEF Recommended
    <3>5. new = [recs EXCEPT ![target] = s]
      BY <1>1, <2>6, <2>7, <2>9, <3>1, <3>2, <3>3 DEF Recommended
    <3>6. /\ new \in Seq(Recommended) /\ DOMAIN new = DOMAIN recs /\ new[target] = s
          /\ \A k \in DOMAIN recs : k # target => new[k] = recs[k]
      BY <1>1, <2>6, <3>4, <3>5
    <3>7. \A k \in DOMAIN recs : /\ new[k].columns = recs[k].columns
                                /\ recs[k].queries \subseteq new[k].queries
      BY <3>1, <3>4, <3>6
    <3>8. Apart(new, n)
      BY <3>6, <3>7 DEF Apart
    <3>9. Served(new, p)
      BY <2>6, <3>4, <3>6, <3>7 DEF Served
    <3>10. \A q \in Scanned : Served(recs, q) => Served(new, q)
      BY <3>6, <3>7 DEF Served
    <3> QED
      BY <3>6, <3>7, <3>8, <3>9, <3>10
  <2> QED
    BY <2>8, <2>9
<1> QED
  BY <1>5, <1>6

-----------------------------------------------------------------------------
\* The sequences of recommendations while the proposals of n columns come in.
AbsorbAt(after, recs, scans, n, i) ==
  IF i = 0 THEN recs
  ELSE IF Proposed(scans[i]) /\ Len(scans[i].columns) = n THEN Absorb(after[i - 1], scans[i])
  ELSE after[i - 1]

\* What is recommended after each scan of those of a table.
Absorbs(after, m, recs, scans, n) == after = [i \in 0..m |-> AbsorbAt(after, recs, scans, n, i)]

\* There is such a sequence.
LEMMA AbsorbsExists ==
  ASSUME NEW m \in Nat, NEW recs, NEW scans, NEW n
  PROVE  \E after : Absorbs(after, m, recs, scans, n)
<1> USE DEF Absorbs
<1> DEFINE E == {k \in Nat : \E after : Absorbs(after, k, recs, scans, n)}
<1>1. 0 \in E
  <2>1. PICK f : f = [i \in 0..0 |-> recs]
    OBVIOUS
  <2>2. f = [i \in 0..0 |-> AbsorbAt(f, recs, scans, n, i)]
    BY <2>1 DEF AbsorbAt
  <2> QED
    BY <2>2
<1>2. ASSUME NEW k \in 0..m, k \in E PROVE k + 1 \in E
  <2>1. PICK f : f = [i \in 0..k |-> AbsorbAt(f, recs, scans, n, i)]
    BY <1>2
  <2>2. PICK g : g = [i \in 0..k + 1 |-> AbsorbAt(f, recs, scans, n, i)]
    OBVIOUS
  <2>3. \A i \in 0..k : g[i] = f[i]
    BY <2>1, <2>2
  <2>4. \A i \in 0..k + 1 : AbsorbAt(g, recs, scans, n, i) = AbsorbAt(f, recs, scans, n, i)
    <3> SUFFICES ASSUME NEW i \in 0..k + 1
                 PROVE  AbsorbAt(g, recs, scans, n, i) = AbsorbAt(f, recs, scans, n, i)
      OBVIOUS
    <3>1. i = 0 \/ g[i - 1] = f[i - 1]
      BY <2>3
    <3> QED
      BY <3>1 DEF AbsorbAt
  <2>5. g = [i \in 0..k + 1 |-> AbsorbAt(g, recs, scans, n, i)]
    BY <2>2, <2>4
  <2> QED
    BY <2>5
<1>3. 0..m \subseteq E
  BY <1>1, <1>2, GoesOnTo
<1> QED
  BY <1>3

\* What is recommended after the last scan.
LEMMA OfLengthIs ==
  ASSUME NEW S, NEW scans \in Seq(S), NEW recs, NEW n
  PROVE  \E after : /\ OfLength(recs, scans, n) = after[Len(scans)]
                    /\ \A i \in 0..Len(scans) : after[i] = AbsorbAt(after, recs, scans, n, i)
<1>1. Len(scans) \in Nat
  OBVIOUS
<1>2. PICK f : f = CHOOSE after : after = [i \in 0..Len(scans) |-> AbsorbAt(after, recs, scans, n, i)]
  OBVIOUS
<1>3. OfLength(recs, scans, n) = f[Len(scans)]
  BY <1>2 DEF OfLength, AbsorbAt
<1>4. \E after : after = [i \in 0..Len(scans) |-> AbsorbAt(after, recs, scans, n, i)]
  <2>1. \E after : Absorbs(after, Len(scans), recs, scans, n)
    BY <1>1, AbsorbsExists
  <2> QED
    BY <2>1 DEF Absorbs
<1>5. f = [i \in 0..Len(scans) |-> AbsorbAt(f, recs, scans, n, i)]
  BY <1>2, <1>4
<1> QED
  BY <1>3, <1>5

\* The proposals of n columns are served.
ServesAll(recs, scans, n) ==
  \A j \in DOMAIN scans :
    Proposed(scans[j]) /\ Len(scans[j].columns) = n => Served(recs, scans[j])

\* What the old recommendations serve the new ones do.
StillServes(new, old) == \A q \in Scanned : Served(old, q) => Served(new, q)

\* Each recommended index has the columns of a proposal.
Drawn(recs, scans) ==
  \A k \in DOMAIN recs :
    \E j \in DOMAIN scans : Proposed(scans[j]) /\ scans[j].columns = recs[k].columns

\* Each proposal of that length is served in the end, and what was is; only
\* proposals are recommended.
LEMMA OfLengthServes ==
  ASSUME NEW n \in Nat, NEW recs, Apart(recs, n), NEW scans \in Seq(Scanned), Drawn(recs, scans),
         NEW new, new = OfLength(recs, scans, n)
  PROVE  Apart(new, n) /\ ServesAll(new, scans, n) /\ StillServes(new, recs) /\ Drawn(new, scans)
<1>1. PICK after : /\ new = after[Len(scans)]
                   /\ \A i \in 0..Len(scans) : after[i] = AbsorbAt(after, recs, scans, n, i)
  BY OfLengthIs
<1>2. DOMAIN scans = 1..Len(scans) /\ Len(scans) \in Nat /\ \A j \in DOMAIN scans : scans[j] \in Scanned
  OBVIOUS
<1> DEFINE Done(i) == /\ Apart(after[i], n) /\ Drawn(after[i], scans)
                      /\ \A j \in 1..i : Proposed(scans[j]) /\ Len(scans[j].columns) = n
                                           => Served(after[i], scans[j])
                      /\ \A q \in Scanned : Served(recs, q) => Served(after[i], q)
           D == {i \in 0..Len(scans) : Done(i)}
<1>3. 0 \in D
  <2>1. after[0] = recs
    BY <1>1, <1>2 DEF AbsorbAt
  <2> QED
    BY <1>2, <2>1
<1>4. ASSUME NEW i \in 0..Len(scans), i \in D, i < Len(scans) PROVE i + 1 \in D
  <2>1. PICK k : k = i + 1
    OBVIOUS
  <2>2. k \in 1..Len(scans) /\ k \in 0..Len(scans) /\ k # 0 /\ k - 1 = i
    BY <1>2, <1>4, <2>1
  <2>3. scans[k] \in Scanned
    BY <1>2, <2>2
  <2>4. \A j \in 1..k : j \in 1..i \/ j = k
    BY <2>2
  <2>5. /\ \A j \in 1..i : Proposed(scans[j]) /\ Len(scans[j].columns) = n
                             => Served(after[i], scans[j])
        /\ Apart(after[i], n) /\ Drawn(after[i], scans)
        /\ \A q \in Scanned : Served(recs, q) => Served(after[i], q)
        /\ \A j \in 1..i : scans[j] \in Scanned
    BY <1>2, <1>4
  <2>6. CASE Proposed(scans[k]) /\ Len(scans[k].columns) = n
    <3>1. after[k] = Absorb(after[i], scans[k])
      BY <1>1, <2>2, <2>6 DEF AbsorbAt
    <3>2. /\ Apart(after[k], n) /\ Served(after[k], scans[k])
          /\ \A q \in Scanned : Served(after[i], q) => Served(after[k], q)
          /\ \A m \in DOMAIN after[k] :
               \/ after[k][m].columns = scans[k].columns
               \/ \E l \in DOMAIN after[i] : after[k][m].columns = after[i][l].columns
      BY <2>3, <2>5, <2>6, <3>1, AbsorbServes
    <3>3. Drawn(after[k], scans)
      <4>1. k \in DOMAIN scans
        BY <1>2, <2>2
      <4> QED
        BY <2>5, <2>6, <3>2, <4>1 DEF Drawn
    <3>4. Done(k)
      BY <2>4, <2>5, <3>2, <3>3
    <3> QED
      BY <2>1, <2>2, <3>4
  <2>7. CASE ~(Proposed(scans[k]) /\ Len(scans[k].columns) = n)
    <3>1. after[k] = after[i]
      BY <1>1, <2>2, <2>7 DEF AbsorbAt
    <3>2. Done(k)
      BY <2>4, <2>5, <2>7, <3>1
    <3> QED
      BY <2>1, <2>2, <3>2
  <2> QED
    BY <2>6, <2>7
<1>5. 0..Len(scans) \subseteq D
  <2> HIDE DEF D
  <2> QED
    BY <1>2, <1>3, <1>4, GoesOnTo
<1>6. Done(Len(scans))
  BY <1>2, <1>5
<1> QED
  BY <1>1, <1>2, <1>6 DEF ServesAll, StillServes

\* The recursion of RecommendIndexes unfolded: four columns first, one column last.
LEMMA RecommendIndexesIs ==
  ASSUME NEW scans
  PROVE  \E r4, r3, r2 : /\ r4 = OfLength(<<>>, scans, 4) /\ r3 = OfLength(r4, scans, 3)
                         /\ r2 = OfLength(r3, scans, 2)
                         /\ RecommendIndexes(scans) = OfLength(r2, scans, 1)
<1> DEFINE At(recs, n) == IF n > MaxIndexColumns THEN <<>> ELSE OfLength(recs[n + 1], scans, n)
<1>1. PICK f : f = CHOOSE recs : recs = [n \in 1..MaxIndexColumns + 1 |-> At(recs, n)]
  OBVIOUS
<1>2. RecommendIndexes(scans) = f[1]
  BY <1>1 DEF RecommendIndexes
<1>3. \E recs : recs = [n \in 1..MaxIndexColumns + 1 |-> At(recs, n)]
  <2>1. PICK r4, r3, r2, r1 :
          /\ r4 = OfLength(<<>>, scans, 4) /\ r3 = OfLength(r4, scans, 3)
          /\ r2 = OfLength(r3, scans, 2) /\ r1 = OfLength(r2, scans, 1)
    OBVIOUS
  <2>2. PICK g : g = [n \in 1..5 |-> IF n = 5 THEN <<>> ELSE IF n = 4 THEN r4 ELSE IF n = 3 THEN r3
                                      ELSE IF n = 2 THEN r2 ELSE r1]
    OBVIOUS
  <2>3. g[5] = <<>> /\ g[4] = r4 /\ g[3] = r3 /\ g[2] = r2 /\ g[1] = r1
    BY <2>2
  <2>4. \A n \in 1..5 : n = 1 \/ n = 2 \/ n = 3 \/ n = 4 \/ n = 5
    OBVIOUS
  <2>5. \A n \in 1..5 : g[n] = IF n > 4 THEN <<>> ELSE OfLength(g[n + 1], scans, n)
    BY <2>1, <2>3, <2>4
  <2>6. g = [n \in 1..5 |-> IF n > 4 THEN <<>> ELSE OfLength(g[n + 1], scans, n)]
    BY <2>2, <2>5
  <2> QED
    BY <2>6 DEF MaxIndexColumns
<1>4. f = [n \in 1..MaxIndexColumns + 1 |-> At(f, n)]
  BY <1>1, <1>3
<1>5. \A n \in 1..5 : f[n] = IF n > 4 THEN <<>> ELSE OfLength(f[n + 1], scans, n)
  BY <1>4 DEF MaxIndexColumns
<1>6. /\ f[5] = <<>> /\ f[4] = OfLength(f[5], scans, 4) /\ f[3] = OfLength(f[4], scans, 3)
      /\ f[2] = OfLength(f[3], scans, 2) /\ f[1] = OfLength(f[2], scans, 1)
  BY <1>5
<1> QED
  BY <1>2, <1>6

\* Apart for n columns is apart for fewer.
LEMMA ApartFewer ==
  ASSUME NEW recs, NEW n \in Nat, NEW m \in Nat, m =< n, Apart(recs, n)
  PROVE  Apart(recs, m)
<1>1. \A k \in DOMAIN recs : Len(recs[k].columns) \in Nat
  <2>1. \A k \in DOMAIN recs : recs[k] \in Recommended
    BY DEF Apart
  <2> QED
    BY <2>1 DEF Recommended
<1> QED
  BY <1>1 DEF Apart

\* Every proposal of up to four columns is served.
LEMMA AllServed ==
  ASSUME NEW scans \in Seq(Scanned), NEW recs, recs = RecommendIndexes(scans),
         \A i \in DOMAIN scans : Len(scans[i].columns) <= MaxIndexColumns
  PROVE  /\ Apart(recs, 1) /\ Drawn(recs, scans)
         /\ \A i \in DOMAIN scans : Proposed(scans[i]) => Served(recs, scans[i])
<1>1. PICK r4, r3, r2 : /\ r4 = OfLength(<<>>, scans, 4) /\ r3 = OfLength(r4, scans, 3)
                        /\ r2 = OfLength(r3, scans, 2) /\ recs = OfLength(r2, scans, 1)
  BY RecommendIndexesIs
<1>2. Apart(<<>>, 4) /\ Drawn(<<>>, scans) /\ 1 \in Nat /\ 2 \in Nat /\ 3 \in Nat /\ 4 \in Nat
  BY DEF Apart, Drawn
<1>3. Apart(r4, 4) /\ ServesAll(r4, scans, 4) /\ Drawn(r4, scans)
  BY <1>1, <1>2, OfLengthServes
<1>4. Apart(r4, 3)
  BY <1>3, ApartFewer
<1>5. Apart(r3, 3) /\ ServesAll(r3, scans, 3) /\ StillServes(r3, r4) /\ Drawn(r3, scans)
  BY <1>1, <1>2, <1>3, <1>4, OfLengthServes
<1>6. Apart(r3, 2)
  BY <1>5, ApartFewer
<1>7. Apart(r2, 2) /\ ServesAll(r2, scans, 2) /\ StillServes(r2, r3) /\ Drawn(r2, scans)
  BY <1>1, <1>2, <1>5, <1>6, OfLengthServes
<1>8. Apart(r2, 1)
  BY <1>7, ApartFewer
<1>9. Apart(recs, 1) /\ ServesAll(recs, scans, 1) /\ StillServes(recs, r2) /\ Drawn(recs, scans)
  BY <1>1, <1>2, <1>7, <1>8, OfLengthServes
<1>10. ASSUME NEW i \in DOMAIN scans, Proposed(scans[i]) PROVE Served(recs, scans[i])
  <2>1. scans[i] \in Scanned
    OBVIOUS
  <2>2. scans[i].columns \in Seq(STRING) /\ scans[i].columns # <<>>
    BY <1>10, <2>1 DEF Scanned, Proposed
  <2>3. Len(scans[i].columns) \in Nat /\ Len(scans[i].columns) # 0 /\ Len(scans[i].columns) <= 4
    BY <2>2 DEF MaxIndexColumns
  <2>4. PICK n : n = Len(scans[i].columns)
    OBVIOUS
  <2>5. n \in Nat /\ n # 0 /\ n <= 4
    BY <2>3, <2>4
  <2>6. n = 1 \/ n = 2 \/ n = 3 \/ n = 4
    BY <2>5
  <2> QED
    BY <1>3, <1>5, <1>7, <1>9, <1>10, <2>1, <2>4, <2>6 DEF ServesAll, StillServes
<1> QED
  BY <1>9, <1>10

-----------------------------------------------------------------------------
(* What is measured.                                                       *)

\* Each measurement of the family is at a level of its scale: what the theorems need of a state.
LevelsOK ==
  /\ family \in Families
  /\ DOMAIN level = DOMAIN Scales[family]
  /\ \A x \in DOMAIN level : level[x] \in DOMAIN Scales[family][x]

\* LevelsOK holds in the beginning.
LEMMA LevelsInit == Init => LevelsOK
<1> SUFFICES ASSUME Init PROVE LevelsOK
  OBVIOUS
<1>1. family \in Families /\ level = [x \in DOMAIN Scales[family] |-> 1]
  BY DEF Init
<1>2. ASSUME NEW x \in DOMAIN Scales[family] PROVE 1 \in DOMAIN Scales[family][x]
  <2>1. Scales[family][x] \in Seq(Measures[family][x]) /\ Scales[family][x] # <<>>
    BY <1>1, <1>2, ScalesAssumption DEF Families
  <2> QED
    BY <2>1
<1> QED
  BY <1>1, <1>2 DEF LevelsOK

\* Every step keeps LevelsOK.
LEMMA LevelsStep == LevelsOK /\ [Next]_vars => LevelsOK'
<1> SUFFICES ASSUME LevelsOK, [Next]_vars PROVE LevelsOK'
  OBVIOUS
<1>1. ASSUME NEW x \in DOMAIN level, Change(x) PROVE LevelsOK'
  <2>1. PICK v \in DOMAIN Scales[family][x] : level' = [level EXCEPT ![x] = v]
    BY <1>1 DEF Change
  <2>2. family' = family
    BY <1>1 DEF Change
  <2> QED
    BY <2>1, <2>2 DEF LevelsOK
<1>2. ASSUME NEW g \in SUBSET Gaps[family], Analyze(g) PROVE LevelsOK'
  BY <1>2 DEF Analyze, LevelsOK
<1>3. CASE UNCHANGED vars
  BY <1>3 DEF vars, LevelsOK
<1> QED
  BY <1>1, <1>2, <1>3 DEF Next

\* LevelsOK holds in every state of every behaviour.
LEMMA LevelsAlways == Spec => []LevelsOK
<1> QED
  BY LevelsInit, LevelsStep, PTL DEF Spec

\* A measurement is one of the values of its scale.
LEMMA WorldIs ==
  ASSUME LevelsOK
  PROVE  /\ family \in DOMAIN Measures
         /\ DOMAIN World = DOMAIN Measures[family]
         /\ \A x \in DOMAIN World :
              /\ World[x] \in Measures[family][x]
              /\ \E i \in DOMAIN Scales[family][x] : World[x] = Scales[family][x][i]
<1>1. family \in DOMAIN Scales /\ family \in DOMAIN Measures
  BY ScalesAssumption DEF LevelsOK, Families
<1>2. DOMAIN Scales[family] = DOMAIN Measures[family]
  BY <1>1, ScalesAssumption
<1>3. World = [x \in DOMAIN Scales[family] |-> Scales[family][x][level[x]]]
  BY DEF World, Observe
<1>4. ASSUME NEW x \in DOMAIN Scales[family]
      PROVE  /\ level[x] \in DOMAIN Scales[family][x]
             /\ Scales[family][x][level[x]] \in Measures[family][x]
  <2>1. level[x] \in DOMAIN Scales[family][x]
    BY <1>4 DEF LevelsOK
  <2>2. Scales[family][x] \in Seq(Measures[family][x])
    BY <1>1, <1>4, ScalesAssumption
  <2> QED
    BY <2>1, <2>2
<1> QED
  BY <1>1, <1>2, <1>3, <1>4

-----------------------------------------------------------------------------
(* Advice about indexes.                                                   *)

\* No scan filters on more columns than an index may have.
Fit(scans) ==
  scans \in Seq(Scanned) /\ \A i \in DOMAIN scans : Len(scans[i].columns) <= MaxIndexColumns

\* The scans of a table do.
LEMMA ScansFit ==
  ASSUME LevelsOK, family \in {"table", "scanning"}
  PROVE  Fit(World.scans)
<1>1. Measures["table"] = TableMeasures /\ Measures["scanning"] = TableMeasures
  BY DEF Measures
<1>2. DOMAIN TableMeasures = {"live", "dead", "vacuum", "autovacuum", "analyze", "seq", "idx",
                              "size", "bloat", "scans"}
      /\ TableMeasures["scans"] = Seq(Scanned)
  BY DEF TableMeasures
<1>3. World.scans \in Seq(Scanned)
  BY <1>1, <1>2, WorldIs
<1>4. PICK n \in DOMAIN Scales[family].scans : World.scans = Scales[family].scans[n]
  BY <1>1, <1>2, WorldIs
<1>5. family \in DOMAIN Scales
  BY DEF LevelsOK, Families
<1>6. \A i \in DOMAIN World.scans : Len(World.scans[i].columns) <= MaxIndexColumns
  BY <1>4, <1>5, ScalesAssumption
<1> QED
  BY <1>3, <1>6 DEF Fit

\* What could not be planned or read is skipped, and is the only thing that is.
LEMMA PlannedIs ==
  ASSUME NEW scans, Fit(scans), NEW g, NEW plans, plans = Planned(scans, g)
  PROVE  /\ Fit(plans) /\ DOMAIN plans = DOMAIN scans
         /\ \A i \in DOMAIN scans :
              /\ plans[i].columns = scans[i].columns /\ plans[i].query = scans[i].query
              /\ Proposed(plans[i]) <=> Proposed(scans[i]) /\ ~Unread(scans[i], g)
<1>1. /\ DOMAIN scans = 1..Len(scans) /\ Len(scans) \in Nat
      /\ \A i \in DOMAIN scans : scans[i] \in Scanned
  BY DEF Fit
<1>2. ASSUME NEW p \in Scanned, NEW q, q = [p EXCEPT !.skipped = TRUE]
      PROVE  q \in Scanned /\ q.columns = p.columns /\ q.query = p.query /\ q.skipped = TRUE
  BY <1>2 DEF Scanned
<1>3. \A i \in DOMAIN scans : plans[i] = IF Unread(scans[i], g) THEN [scans[i] EXCEPT !.skipped = TRUE]
                                         ELSE scans[i]
  BY DEF Planned
<1>4. ASSUME NEW i \in DOMAIN scans
      PROVE  /\ plans[i] \in Scanned
             /\ plans[i].columns = scans[i].columns /\ plans[i].query = scans[i].query
             /\ Proposed(plans[i]) <=> Proposed(scans[i]) /\ ~Unread(scans[i], g)
  <2>1. CASE Unread(scans[i], g)
    <3>1. PICK q : q = [scans[i] EXCEPT !.skipped = TRUE]
      OBVIOUS
    <3>2. q \in Scanned /\ q.columns = scans[i].columns /\ q.query = scans[i].query /\ q.skipped = TRUE
      BY <1>1, <1>2, <3>1
    <3>3. plans[i] = q
      BY <1>3, <2>1, <3>1
    <3> QED
      BY <2>1, <3>2, <3>3 DEF Proposed
  <2>2. CASE ~Unread(scans[i], g)
    BY <1>1, <1>3, <2>2
  <2> QED
    BY <2>1, <2>2
<1>5. DOMAIN plans = DOMAIN scans
  BY DEF Planned
<1>6. plans \in Seq(Scanned)
  <2>1. plans = [i \in 1..Len(scans) |-> plans[i]]
    BY <1>1 DEF Planned
  <2> QED
    BY <1>1, <1>4, <2>1
<1> QED
  BY <1>4, <1>5, <1>6 DEF Fit

\* What is recommended for the scans of a table, seen with or without a gap.
LEMMA ScansApart ==
  ASSUME NEW scans, Fit(scans), NEW g, NEW recs, recs = RecommendIndexes(Planned(scans, g))
  PROVE  /\ Apart(recs, 1)
         /\ \A i \in DOMAIN scans : Proposed(scans[i]) /\ ~Unread(scans[i], g) =>
              \E k \in DOMAIN recs : /\ IsPrefix(scans[i].columns, recs[k].columns)
                                     /\ scans[i].query \in recs[k].queries
         /\ \A k \in DOMAIN recs : \E j \in DOMAIN scans :
              Proposed(scans[j]) /\ ~Unread(scans[j], g) /\ scans[j].columns = recs[k].columns
<1>1. PICK plans : plans = Planned(scans, g)
  OBVIOUS
<1>2. /\ Fit(plans) /\ DOMAIN plans = DOMAIN scans
      /\ \A i \in DOMAIN scans :
           /\ plans[i].columns = scans[i].columns /\ plans[i].query = scans[i].query
           /\ Proposed(plans[i]) <=> Proposed(scans[i]) /\ ~Unread(scans[i], g)
  BY <1>1, PlannedIs
<1>3. /\ Apart(recs, 1) /\ Drawn(recs, plans)
      /\ \A i \in DOMAIN plans : Proposed(plans[i]) => Served(recs, plans[i])
  BY <1>1, <1>2, AllServed DEF Fit
<1> QED
  BY <1>2, <1>3 DEF Drawn, Served

\* The first conjunct of AdviceServes, about recommendations of new indexes.
LEMMA RecommendationsAlwaysServe ==
  ASSUME LevelsOK
  PROVE  RecommendationsServe
<1> SUFFICES ASSUME family = "scanning",
                    NEW recs, recs = RecommendIndexes(World.scans)
             PROVE  /\ \A i \in DOMAIN World.scans :
                         World.scans[i].columns # <<>> /\ ~World.scans[i].skipped =>
                           \E k \in DOMAIN recs : /\ IsPrefix(World.scans[i].columns, recs[k].columns)
                                                  /\ World.scans[i].query \in recs[k].queries
                    /\ \A k, l \in DOMAIN recs : k # l => ~IsPrefix(recs[k].columns, recs[l].columns)
  BY DEF RecommendationsServe
<1>1. PICK scans : scans = World.scans
  OBVIOUS
<1>2. Fit(scans)
  BY <1>1, ScansFit
<1>3. /\ Apart(recs, 1)
      /\ \A i \in DOMAIN scans : Proposed(scans[i]) => Served(recs, scans[i])
  BY <1>1, <1>2, AllServed DEF Fit
<1> QED
  BY <1>1, <1>3 DEF Apart, Proposed, Served

\* The three indexes that are judged are three.
LEMMA IndexesAre ==
  ASSUME LevelsOK, family = "indexes"
  PROVE  \E a, b, c : /\ IndexSet(World) = {a, b, c}
                      /\ a \in Indexes /\ b \in Indexes /\ c \in Indexes
                      /\ a.name = 1 /\ b.name = 2 /\ c.name = 3
<1>1. PICK m : m = Measures["indexes"]
  OBVIOUS
<1>2. m = [i1 |-> Indexes, i2 |-> Indexes, i3 |-> Indexes]
  BY <1>1 DEF Measures
<1>3. DOMAIN m = {"i1", "i2", "i3"} /\ m["i1"] = Indexes /\ m["i2"] = Indexes /\ m["i3"] = Indexes
  BY <1>2
<1>4. PICK w : w = World
  OBVIOUS
<1>5. w["i1"] \in Indexes /\ w["i2"] \in Indexes /\ w["i3"] \in Indexes
  BY <1>1, <1>3, <1>4, WorldIs
<1>6. PICK a, b, c : /\ a = [w["i1"] EXCEPT !.name = 1] /\ b = [w["i2"] EXCEPT !.name = 2]
                     /\ c = [w["i3"] EXCEPT !.name = 3]
  OBVIOUS
<1>7. \A i \in Indexes, n \in Nat : [i EXCEPT !.name = n] \in Indexes /\ [i EXCEPT !.name = n].name = n
  <2>1. ASSUME NEW i \in Indexes, NEW n \in Nat
        PROVE  [i EXCEPT !.name = n] \in Indexes
    BY DEF Indexes
  <2>2. ASSUME NEW i \in Indexes, NEW n \in Nat
        PROVE  [i EXCEPT !.name = n].name = n
    BY DEF Indexes
  <2> QED
    BY <2>1, <2>2
<1>8. /\ DOMAIN IndexName = {"i1", "i2", "i3"}
      /\ IndexName["i1"] = 1 /\ IndexName["i2"] = 2 /\ IndexName["i3"] = 3
  BY DEF IndexName
<1>9. IndexSet(w) = {a, b, c}
  BY <1>6, <1>8 DEF IndexSet
<1>10. /\ a \in Indexes /\ b \in Indexes /\ c \in Indexes
       /\ a.name = 1 /\ b.name = 2 /\ c.name = 3
  <2>1. 1 \in Nat /\ 2 \in Nat /\ 3 \in Nat
    OBVIOUS
  <2> QED
    BY <1>5, <1>6, <1>7, <2>1, Zenon
<1> QED
  BY <1>4, <1>9, <1>10

\* Of some of three indexes one is kept before all others.
LEMMA BestIndex ==
  ASSUME NEW a \in Indexes, NEW b \in Indexes, NEW c \in Indexes,
         a.name = 1, b.name = 2, c.name = 3,
         NEW T, T \subseteq {a, b, c}, T # {}
  PROVE  \E j \in T : \A k \in T \ {j} : KeepOrder(j, k)
<1>1. a.scans \in Nat /\ b.scans \in Nat /\ c.scans \in Nat
  BY DEF Indexes
<1>2. KeepOrder(a, b) \/ KeepOrder(b, a)
  BY <1>1 DEF KeepOrder
<1>3. KeepOrder(a, c) \/ KeepOrder(c, a)
  BY <1>1 DEF KeepOrder
<1>4. KeepOrder(b, c) \/ KeepOrder(c, b)
  BY <1>1 DEF KeepOrder
<1>5. \A i, j, k \in {a, b, c} : KeepOrder(i, j) /\ KeepOrder(j, k) => KeepOrder(i, k)
  BY <1>1 DEF KeepOrder
<1> QED
  BY <1>2, <1>3, <1>4, <1>5

\* The second conjunct of AdviceServes, about duplicates that are to be dropped.
LEMMA DropsAlwaysLeaveCover ==
  ASSUME LevelsOK
  PROVE  DropsLeaveCover
<1> SUFFICES ASSUME family = "indexes",
                    NEW d \in Duplicates(IndexSet(World))
             PROVE  /\ ~d.candidate.unique /\ Serves(d.retained, d.candidate)
                    /\ \A e \in Duplicates(IndexSet(World)) : d.retained # e.candidate
  BY DEF DropsLeaveCover
<1>1. PICK a, b, c : /\ IndexSet(World) = {a, b, c}
                     /\ a \in Indexes /\ b \in Indexes /\ c \in Indexes
                     /\ a.name = 1 /\ b.name = 2 /\ c.name = 3
  BY IndexesAre
<1>2. PICK I : I = IndexSet(World)
  OBVIOUS
<1>3. PICK cover : cover = [i \in Redundant(I) |-> Cover(KeptIndexes(I), i)]
  OBVIOUS
<1>4. Duplicates(I) =
        {[candidate |-> i,
          retained  |-> CHOOSE j \in cover[i] : \A k \in cover[i] \ {j} : KeepOrder(j, k)] :
         i \in {i \in DOMAIN cover : cover[i] # {}}}
  BY <1>3 DEF Duplicates
<1>5. ASSUME NEW e \in Duplicates(I) PROVE e.candidate \in Redundant(I)
  BY <1>3, <1>4
<1>6. PICK i \in Redundant(I) :
        /\ cover[i] # {} /\ d.candidate = i
        /\ d.retained = CHOOSE j \in cover[i] : \A k \in cover[i] \ {j} : KeepOrder(j, k)
  BY <1>2, <1>3, <1>4
<1>7. cover[i] = {j \in KeptIndexes(I) \ {i} : RedundantWith(i, j)}
  BY <1>3, <1>6 DEF Cover
<1>8. KeptIndexes(I) = Comparable(I) \ Redundant(I) /\ Comparable(I) \subseteq I
  BY DEF KeptIndexes, Comparable
<1>9. \E j \in cover[i] : \A k \in cover[i] \ {j} : KeepOrder(j, k)
  <2>1. PICK T : T = cover[i]
    OBVIOUS
  <2>2. T \subseteq {a, b, c} /\ T # {}
    BY <1>1, <1>2, <1>6, <1>7, <1>8, <2>1
  <2> QED
    BY <1>1, <2>1, <2>2, BestIndex
<1>10. PICK r : r = d.retained
  OBVIOUS
<1>11. r \in cover[i]
  BY <1>6, <1>9, <1>10
<1>12. r # i /\ RedundantWith(i, r) /\ r \notin Redundant(I)
  BY <1>7, <1>8, <1>11
<1>13. ~i.unique /\ Serves(r, i)
  BY <1>12 DEF RedundantWith, Serves
<1> QED
  BY <1>2, <1>5, <1>6, <1>10, <1>12, <1>13

\* In every state of the table and of its indexes, the columns of each proposal are the prefix of a
\* recommended index, none of which is a prefix of another, and an index that is called a duplicate
\* has another that covers it and is called none: RecommendIndexes and KeptIndexes, for every
\* threshold and every measurement. It is about duplicates among themselves, as unused_index may
\* still propose to drop the one that covers them.
THEOREM AdviceAlwaysServes == Spec => []AdviceServes
<1>1. LevelsOK => AdviceServes
  BY DropsAlwaysLeaveCover, RecommendationsAlwaysServe DEF AdviceServes
<1> QED
  BY <1>1, LevelsAlways, PTL

-----------------------------------------------------------------------------
(* What an analysis with a gap reports.                                    *)

\* Equal pairs have equal parts.
LEMMA PairEqual ==
  ASSUME NEW a, NEW b, NEW c, <<a, b>> = <<a, c>>
  PROVE  b = c
<1>1. <<a, b>>[2] = b /\ <<a, c>>[2] = c
  OBVIOUS
<1> QED
  BY <1>1

\* The prefixes of a pair.
LEMMA PairPrefix ==
  ASSUME NEW a, NEW b
  PROVE  IsPrefix(<<a>>, <<a, b>>) /\ IsPrefix(<<a, b>>, <<a, b>>)
<1>1. PICK S : S = {a, b}
  OBVIOUS
<1>2. PICK p, q : p = <<a>> /\ q = <<a, b>>
  OBVIOUS
<1>3. /\ p \in Seq(S) /\ q \in Seq(S) /\ Len(p) = 1 /\ Len(q) = 2
      /\ p[1] = a /\ q[1] = a /\ q[2] = b
  BY <1>1, <1>2
<1>4. IsPrefix(p, q)
  <2>1. Len(p) =< Len(q) /\ \A i \in 1..Len(p) : p[i] = q[i]
    BY <1>3
  <2> QED
    BY <1>3, <2>1, PrefixIs
<1>5. IsPrefix(q, q)
  BY <1>3, PrefixIs
<1> QED
  BY <1>2, <1>4, <1>5

\* A check that failed hides its prefix.
LEMMA Hidden ==
  ASSUME NEW g, NEW prefixes, NEW check \in DOMAIN prefixes, check \in g
  PROVE  prefixes[check] \in UnobservedTargets(g, prefixes)
<1> QED
  BY DEF UnobservedTargets

\* Still reported, or hidden, or one of the six exceptions.
Stays(s, f, w, g) ==
  \/ s \in Report(f, w, g)
  \/ \E prefix \in Unobserved(s.rule, f, w, g) : IsPrefix(prefix, s.target)
  \/ Unprotected(<<s.rule, s.target>>, w, g)

\* The fields of a finding.
FindingIs == \A rule, target, severity :
               /\ Finding(rule, target, severity).rule = rule
               /\ Finding(rule, target, severity).target = target

\* A finding has the rule, target and severity it is made of.
LEMMA FindingFields == FindingIs
<1> QED
  BY DEF FindingIs, Finding

\* A graded finding is of its rule and target.
LEMMA GradedIs ==
  ASSUME NEW rule, NEW target, NEW value, NEW warning, NEW critical,
         NEW s \in Graded(rule, target, value, warning, critical)
  PROVE  s.rule = rule /\ s.target = target
<1> QED
  BY FindingFields DEF Graded, FindingIs

\* And so is a note.
LEMMA NoteIs ==
  ASSUME NEW name, NEW severity, NEW s \in Note(name, severity)
  PROVE  s.rule = "configuration" /\ s.target = <<"setting", name>>
<1> QED
  BY FindingFields DEF Note, FindingIs

\* What each family is judged by.
LEMMA JudgedIs ==
  ASSUME NEW w, NEW g
  PROVE  /\ \A f \in {"table", "scanning"} :
              Judged(f, w, g) =
                BloatRule(w, w.bloat) \cup VacuumRule(w, w.bloat)
                \cup MissingIndexRule(w, w.bloat, UsablePlans(w, g))
                \cup IndexRecommendationRule(RecommendIndexes(Planned(w.scans, g)))
         /\ Judged("indexes", w, g) = UnusedIndexRule(IndexSet(w)) \cup DuplicateIndexRule(IndexSet(w))
         /\ Judged("queries", w, g) = SlowQueryRule(w, g)
         /\ Judged("sessions", w, g) =
              ConnectionSaturationRule(w, g) \cup LongRunningQueryRule(w) \cup IdleInTransactionRule(w)
         /\ Judged("database", w, g) =
              CacheRule(w) \cup HighTempUsageRule(w) \cup HighDeadlocksRule(w) \cup LockContentionRule(w)
         /\ Judged("freezing", w, g) = WraparoundRule(w, g)
         /\ Judged("slots", w, g) = ReplicationSlotRule(w, g)
         /\ Judged("limits", w, g) = SequenceExhaustionRule(w, g) \cup PreparedTransactionRule(w, g)
         /\ Judged("disk", w, g) = DiskGrowthRule(w, g, w.capacity)
         /\ Judged("vacuuming", w, g) = AutovacuumReview(w, g)
         /\ Judged("hygiene", w, g) = HygieneReview(w, g)
         /\ Judged("memory", w, g) = MemoryReview(w, g, w.memory)
         /\ Judged("tracking", w, g) = StatStatementsRule(w, g)
<1> QED
  BY DEF Judged

\* What each family could not see.
LEMMA UnobservedIs ==
  ASSUME NEW f, NEW w, NEW g
  PROVE  /\ Unobserved("xid_wraparound", f, w, g) = WraparoundUnobserved(g)
         /\ Unobserved("multixact_wraparound", f, w, g) = WraparoundUnobserved(g)
         /\ Unobserved("replication_slot", f, w, g) = ReplicationUnobserved(g)
         /\ Unobserved("sequence_exhaustion", f, w, g) = SequenceUnobserved(g)
         /\ Unobserved("prepared_transaction", f, w, g) = PreparedUnobserved(g)
         /\ Unobserved("disk_growth", f, w, g) = DiskUnobserved(g)
         /\ Unobserved("configuration", f, w, g) =
              ConfigurationUnobserved(g, IF f = "memory" THEN w.memory ELSE 0)
         /\ Unobserved("stat_statements_capacity", f, w, g) = StatStatementsUnobserved(g)
<1> QED
  BY DEF Unobserved

\* A gap hides nothing of the indexes and the database.
LEMMA IndexesStay ==
  ASSUME NEW f \in {"indexes", "database"}, NEW w, NEW g, NEW s \in Report(f, w, {}),
         Evaluated(s.rule, g)
  PROVE  Stays(s, f, w, g)
<1> QED
  BY JudgedIs DEF Report, Stays

\* Queries: as reported, or judged by their lifetime.
LEMMA QueriesStay ==
  ASSUME NEW w, NEW g, NEW s \in Report("queries", w, {}), Evaluated(s.rule, g)
  PROVE  Stays(s, "queries", w, g)
<1>1. s \in SlowQueryRule(w, {})
  BY JudgedIs DEF Report
<1>2. CASE "baseline" \in g
  <2>1. s.rule = "slow_query"
    BY <1>1, GradedIs DEF SlowQueryRule
  <2> QED
    BY <1>2, <2>1 DEF Stays, Unprotected
<1>3. CASE "baseline" \notin g
  <2>1. SlowMeans(w, {}) = SlowMeans(w, g)
    BY <1>3 DEF SlowMeans
  <2>2. SlowQueryRule(w, {}) = SlowQueryRule(w, g)
    BY <2>1 DEF SlowQueryRule
  <2> QED
    BY <1>1, <2>2, JudgedIs DEF Report, Stays
<1> QED
  BY <1>2, <1>3

\* Sessions: as reported, or unobserved.
LEMMA SessionsStay ==
  ASSUME NEW w, NEW g, NEW s \in Report("sessions", w, {}), Evaluated(s.rule, g)
  PROVE  Stays(s, "sessions", w, g)
<1>1. CASE "peak" \in g /\ s \in ConnectionSaturationRule(w, {})
  <2>1. s.rule = "connection_saturation"
    BY <1>1, GradedIs DEF ConnectionSaturationRule
  <2> QED
    BY <1>1, <2>1 DEF Stays, Unprotected
<1>2. CASE "peak" \notin g
  <2>1. JudgedSample(w, g) = JudgedSample(w, {})
    BY <1>2 DEF JudgedSample, Peak
  <2>2. ConnectionSaturationRule(w, {}) = ConnectionSaturationRule(w, g)
    BY <2>1 DEF ConnectionSaturationRule
  <2> QED
    BY <2>2, JudgedIs DEF Report, Stays
<1>3. CASE s \notin ConnectionSaturationRule(w, {})
  BY <1>3, JudgedIs DEF Report, Stays
<1> QED
  BY <1>1, <1>2, <1>3

\* Ages of transactions: as reported, or unobserved.
LEMMA FreezingStays ==
  ASSUME NEW w, NEW g, NEW s \in Report("freezing", w, {}), Evaluated(s.rule, g)
  PROVE  Stays(s, "freezing", w, g)
<1>1. CASE "wraparound" \in g
  <2>1. <<"database">> \in WraparoundUnobserved(g)
    BY <1>1 DEF WraparoundUnobserved, UnobservedTargets
  <2>2. s \in WraparoundRule(w, {})
    BY JudgedIs DEF Report
  <2>3. s.rule \in {"xid_wraparound", "multixact_wraparound"} /\ s.target = <<"database", "d">>
    BY <2>2, GradedIs DEF WraparoundRule
  <2> QED
    BY <2>1, <2>3, PairPrefix, UnobservedIs DEF Stays
<1>2. CASE "wraparound" \notin g
  <2>1. WraparoundRule(w, {}) = WraparoundRule(w, g)
    BY <1>2 DEF WraparoundRule, RowsRead
  <2> QED
    BY <2>1, JudgedIs DEF Report, Stays
<1> QED
  BY <1>1, <1>2

\* Replication slots: as reported, or unobserved.
LEMMA SlotsStay ==
  ASSUME NEW w, NEW g, NEW s \in Report("slots", w, {}), Evaluated(s.rule, g)
  PROVE  Stays(s, "slots", w, g)
<1> DEFINE Slots(h) == {Finding("replication_slot", <<"slot", "s">>, Worst(SlotSeverities(r)))
                          : r \in {r \in RowsRead("replication_slots", h, {w}) : SlotSeverities(r) # {}}}
           Replicas(h) == {Finding("replication_slot", <<"replica", "r">>, "warning")
                             : r \in {r \in RowsRead("replication", h, {w}) :
                                        r.lag # None /\ r.lag >= C.replicaLagWarningSeconds}}
<1>1. \A h : ReplicationSlotRule(w, h) = Slots(h) \cup Replicas(h)
  BY DEF ReplicationSlotRule
<1>2. s \in ReplicationSlotRule(w, {})
  BY JudgedIs DEF Report
<1>3. CASE s \in Slots({})
  <2>1. s.rule = "replication_slot" /\ s.target = <<"slot", "s">>
    BY <1>3, FindingFields DEF FindingIs
  <2>2. CASE "replication_slots" \in g
    <3>1. <<"slot">> \in ReplicationUnobserved(g)
      BY <2>2 DEF ReplicationUnobserved, UnobservedTargets
    <3> QED
      BY <2>1, <3>1, PairPrefix, UnobservedIs DEF Stays
  <2>3. CASE "replication_slots" \notin g
    <3>1. Slots({}) = Slots(g)
      BY <2>3 DEF RowsRead
    <3>2. s \in ReplicationSlotRule(w, g)
      BY <1>1, <1>3, <3>1
    <3> QED
      BY <3>2, JudgedIs DEF Report, Stays
  <2> QED
    BY <2>2, <2>3
<1>4. CASE s \in Replicas({})
  <2>1. s.rule = "replication_slot" /\ s.target = <<"replica", "r">>
    BY <1>4, FindingFields DEF FindingIs
  <2>2. CASE "replication" \in g
    <3>1. <<"replica">> \in ReplicationUnobserved(g)
      BY <2>2 DEF ReplicationUnobserved, UnobservedTargets
    <3> QED
      BY <2>1, <3>1, PairPrefix, UnobservedIs DEF Stays
  <2>3. CASE "replication" \notin g
    <3>1. Replicas({}) = Replicas(g)
      BY <2>3 DEF RowsRead
    <3>2. s \in ReplicationSlotRule(w, g)
      BY <1>1, <1>4, <3>1
    <3> QED
      BY <3>2, JudgedIs DEF Report, Stays
  <2> QED
    BY <2>2, <2>3
<1> QED
  BY <1>1, <1>2, <1>3, <1>4

\* Connections and sequences: as reported, or unobserved.
LEMMA LimitsStay ==
  ASSUME NEW w, NEW g, NEW s \in Report("limits", w, {}), Evaluated(s.rule, g)
  PROVE  Stays(s, "limits", w, g)
<1>1. s \in SequenceExhaustionRule(w, {}) \/ s \in PreparedTransactionRule(w, {})
  BY JudgedIs DEF Report
<1>2. CASE s \in SequenceExhaustionRule(w, {})
  <2>1. s.rule = "sequence_exhaustion" /\ s.target = <<"sequence", "s">>
    BY <1>2, GradedIs DEF SequenceExhaustionRule
  <2>2. CASE "sequences" \in g
    <3>1. <<"sequence">> \in SequenceUnobserved(g)
      BY <2>2 DEF SequenceUnobserved, UnobservedTargets
    <3> QED
      BY <2>1, <3>1, PairPrefix, UnobservedIs DEF Stays
  <2>3. CASE "sequences" \notin g
    <3>1. SequenceExhaustionRule(w, {}) = SequenceExhaustionRule(w, g)
      BY <2>3 DEF SequenceExhaustionRule, RowsRead
    <3> QED
      BY <1>2, <3>1, JudgedIs DEF Report, Stays
  <2> QED
    BY <2>2, <2>3
<1>3. CASE s \in PreparedTransactionRule(w, {})
  <2>1. s.rule = "prepared_transaction" /\ s.target = <<"prepared", "p">>
    BY <1>3, GradedIs DEF PreparedTransactionRule
  <2>2. CASE "prepared_xacts" \in g
    <3>1. <<"prepared">> \in PreparedUnobserved(g)
      BY <2>2 DEF PreparedUnobserved, UnobservedTargets
    <3> QED
      BY <2>1, <3>1, PairPrefix, UnobservedIs DEF Stays
  <2>3. CASE "prepared_xacts" \notin g
    <3>1. PreparedTransactionRule(w, {}) = PreparedTransactionRule(w, g)
      BY <2>3 DEF PreparedTransactionRule, RowsRead
    <3> QED
      BY <1>3, <3>1, JudgedIs DEF Report, Stays
  <2> QED
    BY <2>2, <2>3
<1> QED
  BY <1>1, <1>2, <1>3

\* Temporary files and checkpoints: as reported, or unobserved.
LEMMA DiskStays ==
  ASSUME NEW w, NEW g, NEW s \in Report("disk", w, {}), Evaluated(s.rule, g)
  PROVE  Stays(s, "disk", w, g)
<1>1. s \in DiskGrowthRule(w, {}, w.capacity)
  BY JudgedIs DEF Report
<1>2. CASE "history" \in g
  <2>1. s.rule = "disk_growth"
    BY <1>1, FindingFields DEF DiskGrowthRule, FindingIs
  <2> QED
    BY <1>2, <2>1 DEF Stays, Unprotected
<1>3. CASE "history" \notin g
  <2>1. SizeTrend(w, {}) = SizeTrend(w, g)
    BY <1>3 DEF SizeTrend
  <2>2. DiskGrowthRule(w, {}, w.capacity) = DiskGrowthRule(w, g, w.capacity)
    BY <2>1 DEF DiskGrowthRule
  <2> QED
    BY <1>1, <2>2, JudgedIs DEF Report, Stays
<1> QED
  BY <1>2, <1>3

-----------------------------------------------------------------------------
\* Settings that could not be read hide all that is said about them.
LEMMA SettingsHidden ==
  ASSUME NEW f, NEW w, NEW g, "settings" \in g, NEW s, NEW name,
         s.rule \in {"configuration", "stat_statements_capacity"}, s.target = <<"setting", name>>
  PROVE  Stays(s, f, w, g)
<1>1. <<"setting">> \in ConfigurationUnobserved(g, IF f = "memory" THEN w.memory ELSE 0)
  BY DEF ConfigurationUnobserved, UnobservedTargets
<1>2. <<"setting">> \in StatStatementsUnobserved(g)
  BY DEF StatStatementsUnobserved, UnobservedTargets
<1> QED
  BY <1>1, <1>2, PairPrefix, UnobservedIs DEF Stays

\* A setting that could be read is what it is without the gap.
LEMMA SettingsRead ==
  ASSUME NEW w, NEW g, "settings" \notin g
  PROVE  \A name : Get(w, g, name) = Get(w, {}, name)
<1> QED
  BY DEF Get

\* Autovacuum: as reported, or unobserved.
LEMMA VacuumingStays ==
  ASSUME NEW w, NEW g, NEW s \in Report("vacuuming", w, {}), Evaluated(s.rule, g)
  PROVE  Stays(s, "vacuuming", w, g)
<1>1. s \in Autovacuum(w, {}) \/ s \in AutovacuumDisabled(w, {})
  BY JudgedIs DEF Report, AutovacuumReview
<1>2. CASE s \in Autovacuum(w, {})
  <2>1. s.rule = "configuration" /\ s.target = <<"setting", "autovacuum">>
    BY <1>2, NoteIs DEF Autovacuum
  <2>2. CASE "settings" \in g
    BY <2>1, <2>2, SettingsHidden
  <2>3. CASE "settings" \notin g
    <3>1. s \in Autovacuum(w, g)
      BY <1>2, <2>3, SettingsRead DEF Autovacuum
    <3> QED
      BY <3>1, JudgedIs DEF Report, Stays, AutovacuumReview
  <2> QED
    BY <2>2, <2>3
<1>3. CASE s \in AutovacuumDisabled(w, {})
  <2>1. s.rule = "configuration" /\ s.target = <<"autovacuum_disabled", "t">>
    BY <1>3, FindingFields DEF AutovacuumDisabled, FindingIs
  <2>2. CASE "autovacuum_disabled" \in g
    <3>1. <<"autovacuum_disabled">> \in ConfigurationUnobserved(g, 0)
      BY <2>2 DEF ConfigurationUnobserved, UnobservedTargets
    <3> QED
      BY <2>1, <3>1, PairPrefix, UnobservedIs DEF Stays
  <2>3. CASE "autovacuum_disabled" \notin g
    <3>1. AutovacuumDisabled(w, {}) = AutovacuumDisabled(w, g)
      BY <2>3 DEF AutovacuumDisabled, RowsRead
    <3> QED
      BY <1>3, <3>1, JudgedIs DEF Report, Stays, AutovacuumReview
  <2> QED
    BY <2>2, <2>3
<1> QED
  BY <1>1, <1>2, <1>3

\* The same target, whatever the severity.
Says(s, f, w, g) ==
  \/ \E t \in Report(f, w, g) : t.rule = s.rule /\ t.target = s.target
  \/ \E prefix \in Unobserved(s.rule, f, w, g) : IsPrefix(prefix, s.target)
  \/ Unprotected(<<s.rule, s.target>>, w, g)

\* A family that is as reported or unobserved says what a complete analysis says.
LEMMA StaysSays ==
  ASSUME NEW s, NEW f, NEW w, NEW g, Stays(s, f, w, g)
  PROVE  Says(s, f, w, g)
<1> QED
  BY DEF Stays, Says

\* A recommended index is still recommended when one of the proposals of its columns could be checked.
LEMMA StillRecommended ==
  ASSUME NEW scans, Fit(scans), NEW g,
         NEW recs, recs = RecommendIndexes(Planned(scans, {})),
         NEW left, left = RecommendIndexes(Planned(scans, g)),
         NEW k \in DOMAIN recs,
         NEW i \in DOMAIN scans, Proposed(scans[i]), ~Unread(scans[i], g),
         scans[i].columns = recs[k].columns
  PROVE  \E l \in DOMAIN left : left[l].columns = recs[k].columns
<1>1. /\ Apart(recs, 1)
      /\ \A j \in DOMAIN scans : Proposed(scans[j]) /\ ~Unread(scans[j], {}) =>
           \E m \in DOMAIN recs : IsPrefix(scans[j].columns, recs[m].columns)
  BY ScansApart
<1>2. \A p : ~Unread(p, {})
  BY DEF Unread
<1>3. PICK l \in DOMAIN left : IsPrefix(scans[i].columns, left[l].columns)
  BY ScansApart
<1>4. PICK j \in DOMAIN scans : Proposed(scans[j]) /\ scans[j].columns = left[l].columns
  BY ScansApart
<1>5. PICK m \in DOMAIN recs : IsPrefix(left[l].columns, recs[m].columns)
  BY <1>1, <1>2, <1>4
<1>6. PICK a, b, c : a = recs[k].columns /\ b = left[l].columns /\ c = recs[m].columns
  OBVIOUS
<1>7. a \in Seq(STRING) /\ b \in Seq(STRING) /\ c \in Seq(STRING)
  <2>1. Apart(left, 1)
    BY ScansApart
  <2>2. recs[k] \in Recommended /\ recs[m] \in Recommended /\ left[l] \in Recommended
    BY <1>1, <2>1 DEF Apart
  <2> QED
    BY <1>6, <2>2 DEF Recommended
<1>8. IsPrefix(a, b) /\ IsPrefix(b, c)
  BY <1>3, <1>5, <1>6
<1>9. IsPrefix(a, c)
  <2>1. Len(a) <= Len(b) /\ Len(b) <= Len(c) /\ Len(a) \in Nat /\ Len(b) \in Nat /\ Len(c) \in Nat
    BY <1>7, <1>8, PrefixIs
  <2>2. \A n \in 1..Len(a) : n \in 1..Len(b) /\ a[n] = b[n] /\ b[n] = c[n]
    BY <1>7, <1>8, <2>1, PrefixIs
  <2> QED
    BY <1>7, <2>1, <2>2, PrefixIs
<1>10. k = m
  BY <1>1, <1>6, <1>9 DEF Apart
<1>11. a = b
  <2>1. Len(b) =< Len(a)
    BY <1>6, <1>7, <1>8, <1>10, PrefixIs
  <2> QED
    BY <1>7, <1>8, <2>1, PrefixOfShorter
<1> QED
  BY <1>6, <1>11

\* A gap hides nothing of a table but the indexes whose proposals it lost.
LEMMA TableSays ==
  ASSUME NEW f \in {"table", "scanning"}, NEW w, Fit(w.scans),
         NEW g, NEW s \in Report(f, w, {}), Evaluated(s.rule, g)
  PROVE  Says(s, f, w, g)
<1>1. PICK scans, recs, left : /\ scans = w.scans /\ recs = RecommendIndexes(Planned(scans, {}))
                               /\ left = RecommendIndexes(Planned(scans, g))
  OBVIOUS
<1>2. Fit(scans)
  BY <1>1
<1>3. CASE s \in BloatRule(w, w.bloat) \/ s \in VacuumRule(w, w.bloat)
  <2>1. s \in Judged(f, w, g)
    BY <1>3, JudgedIs
  <2>2. s \in Report(f, w, g)
    BY <2>1 DEF Report
  <2> QED
    BY <2>2 DEF Says
<1>4. CASE s \in MissingIndexRule(w, w.bloat, UsablePlans(w, {}))
  <2>1. recs = <<>> => left = <<>>
    <3>1. SUFFICES ASSUME recs = <<>>, left # <<>> PROVE FALSE
      OBVIOUS
    <3>2. Apart(left, 1)
      BY <1>1, <1>2, ScansApart
    <3>3. PICK l \in DOMAIN left : TRUE
      <4>1. left \in Seq(Recommended)
        BY <3>2 DEF Apart
      <4>2. 1 \in DOMAIN left
        BY <3>1, <4>1
      <4> QED
        BY <4>2
    <3>4. PICK j \in DOMAIN scans : Proposed(scans[j]) /\ scans[j].columns = left[l].columns
      BY <1>1, <1>2, ScansApart
    <3>5. \E m \in DOMAIN recs : IsPrefix(scans[j].columns, recs[m].columns)
      <4>1. ~Unread(scans[j], {})
        BY DEF Unread
      <4> QED
        BY <1>1, <1>2, <3>4, <4>1, ScansApart
    <3> QED
      BY <3>1, <3>5
  <2>2. UsablePlans(w, {}) = recs /\ (UsablePlans(w, g) = left \/ UsablePlans(w, g) = <<>>)
    BY <1>1 DEF UsablePlans
  <2>3. s \in MissingIndexRule(w, w.bloat, UsablePlans(w, g))
    BY <1>4, <2>1, <2>2 DEF MissingIndexRule
  <2>4. s \in Judged(f, w, g)
    BY <2>3, JudgedIs
  <2>5. s \in Report(f, w, g)
    BY <2>4 DEF Report
  <2> QED
    BY <2>5 DEF Says
<1>5. CASE s \in IndexRecommendationRule(recs)
  <2>1. PICK k \in DOMAIN recs : \E severity :
          s = Finding("index_recommendation", <<"index", recs[k].columns>>, severity)
    BY <1>5 DEF IndexRecommendationRule
  <2>2. s.rule = "index_recommendation" /\ s.target = <<"index", recs[k].columns>>
    BY <2>1, FindingFields DEF FindingIs
  <2>3. CASE \E i \in DOMAIN scans : /\ Proposed(scans[i]) /\ ~Unread(scans[i], g)
                                     /\ scans[i].columns = recs[k].columns
    <3>1. PICK l \in DOMAIN left : left[l].columns = recs[k].columns
      BY <1>1, <1>2, <2>3, StillRecommended
    <3>2. PICK t \in IndexRecommendationRule(left) : t.rule = s.rule /\ t.target = s.target
      <4>1. PICK t : t = Finding("index_recommendation", <<"index", left[l].columns>>,
                                 IF left[l].share >= WarningShare THEN "warning" ELSE "info")
        OBVIOUS
      <4>2. t \in IndexRecommendationRule(left)
        BY <4>1 DEF IndexRecommendationRule
      <4>3. t.rule = "index_recommendation" /\ t.target = <<"index", left[l].columns>>
        BY <4>1, FindingFields DEF FindingIs
      <4> QED
        BY <2>2, <3>1, <4>2, <4>3
    <3>3. t \in Report(f, w, g)
      BY <1>1, <3>2, JudgedIs DEF Report
    <3> QED
      BY <3>2, <3>3 DEF Says
  <2>4. CASE ~ \E i \in DOMAIN scans : /\ Proposed(scans[i]) /\ ~Unread(scans[i], g)
                                       /\ scans[i].columns = recs[k].columns
    <3>1. ASSUME NEW i \in DOMAIN scans, Proposed(scans[i]), s.target = <<"index", scans[i].columns>>
          PROVE  Unread(scans[i], g)
      <4>1. <<"index", scans[i].columns>> = <<"index", recs[k].columns>>
        BY <2>2, <3>1
      <4>2. scans[i].columns = recs[k].columns
        BY <4>1, PairEqual
      <4> QED
        BY <2>4, <3>1, <4>2
    <3>2. PICK o : o = <<s.rule, s.target>>
      OBVIOUS
    <3>3. o[1] = "index_recommendation" /\ o[2] = s.target
      BY <2>2, <3>2
    <3>4. Unprotected(o, w, g)
      BY <1>1, <3>1, <3>3 DEF Unprotected
    <3> QED
      BY <3>2, <3>4 DEF Says
  <2> QED
    BY <2>3, <2>4
<1> QED
  BY <1>1, <1>3, <1>4, <1>5, JudgedIs DEF Report

\* Timeouts and logging: what a complete analysis says, or unobserved.
LEMMA HygieneSays ==
  ASSUME NEW w, NEW g, NEW s \in Report("hygiene", w, {}), Evaluated(s.rule, g)
  PROVE  Says(s, "hygiene", w, g)
<1>1. \/ s \in IdleInTransactionTimeout(w, {}) \/ s \in StatementTimeout(w, {})
      \/ s \in Observability(w, {}) \/ s \in RandomPageCost(w, {}) \/ s \in PendingRestart(w, {})
  BY JudgedIs DEF Report, HygieneReview
<1>2. \E name : s.rule = "configuration" /\ s.target = <<"setting", name>>
  <2>1. CASE s \in IdleInTransactionTimeout(w, {})
    BY <2>1, NoteIs DEF IdleInTransactionTimeout
  <2>2. CASE s \in StatementTimeout(w, {})
    BY <2>2, NoteIs DEF StatementTimeout
  <2>3. CASE s \in Observability(w, {})
    BY <2>3, NoteIs DEF Observability
  <2>4. CASE s \in RandomPageCost(w, {})
    BY <2>4, NoteIs DEF RandomPageCost
  <2>5. CASE s \in PendingRestart(w, {})
    BY <2>5, NoteIs DEF PendingRestart
  <2> QED
    BY <1>1, <2>1, <2>2, <2>3, <2>4, <2>5
<1>3. CASE "settings" \in g
  BY <1>2, <1>3, SettingsHidden, StaysSays
<1>4. CASE "settings" \notin g
  <2>1. \A name : Get(w, g, name) = Get(w, {}, name)
    BY <1>4, SettingsRead
  <2>2. CASE s \in IdleInTransactionTimeout(w, {})
    <3>1. s.rule = "configuration" /\ s.target = <<"setting", "idle_in_transaction_session_timeout">>
      BY <2>2, NoteIs DEF IdleInTransactionTimeout
    <3>2. PICK severity :
            IdleInTransactionTimeout(w, g) = Note("idle_in_transaction_session_timeout", severity)
      BY <2>1, <2>2 DEF IdleInTransactionTimeout
    <3>3. PICK t \in IdleInTransactionTimeout(w, g) : t.rule = s.rule /\ t.target = s.target
      BY <3>1, <3>2, FindingFields DEF Note, FindingIs
    <3>4. t \in Report("hygiene", w, g)
      BY <3>3, JudgedIs DEF Report, HygieneReview
    <3> QED
      BY <3>3, <3>4 DEF Says
  <2>3. CASE s \in StatementTimeout(w, {}) \/ s \in Observability(w, {})
             \/ s \in RandomPageCost(w, {}) \/ s \in PendingRestart(w, {})
    <3>1. \/ s \in StatementTimeout(w, g) \/ s \in Observability(w, g)
          \/ s \in RandomPageCost(w, g) \/ s \in PendingRestart(w, g)
      BY <2>1, <2>3 DEF StatementTimeout, Observability, RandomPageCost, PendingRestart
    <3>2. s \in Report("hygiene", w, g)
      BY <3>1, JudgedIs DEF Report, HygieneReview
    <3> QED
      BY <3>2 DEF Says
  <2> QED
    BY <1>1, <2>2, <2>3
<1> QED
  BY <1>3, <1>4

\* Memory settings: as reported, or unobserved.
LEMMA MemoryStays ==
  ASSUME NEW w, w.memory \in Nat, NEW g, NEW s \in Report("memory", w, {}), Evaluated(s.rule, g)
  PROVE  Stays(s, "memory", w, g)
<1>1. s \in SharedBuffers(w, {}, w.memory) \/ s \in WorkMem(w, {}, w.memory)
  BY JudgedIs DEF Report, MemoryReview
<1>2. \E name : s.rule = "configuration" /\ s.target = <<"setting", name>>
  BY <1>1, NoteIs DEF SharedBuffers, WorkMem
<1>3. CASE "settings" \in g
  BY <1>2, <1>3, SettingsHidden
<1>4. CASE "settings" \notin g
  <2>1. \A name : Get(w, g, name) = Get(w, {}, name)
    BY <1>4, SettingsRead
  <2>2. CASE s \in WorkMem(w, {}, w.memory)
    <3>1. s \in WorkMem(w, g, w.memory)
      BY <2>1, <2>2 DEF WorkMem
    <3> QED
      BY <3>1, JudgedIs DEF Report, Stays, MemoryReview
  <2>3. CASE s \in SharedBuffers(w, {}, w.memory)
    <3>1. s.rule = "configuration" /\ s.target = <<"setting", "shared_buffers">>
      BY <2>3, NoteIs DEF SharedBuffers
    <3>2. CASE "size" \in g
      BY <3>1, <3>2 DEF Stays, Unprotected
    <3>3. CASE ~(w.memory > 0) /\ "outage_risk" \in g
      <4>1. w.memory <= 0
        BY <3>3
      <4>2. <<"setting", "shared_buffers">> \in ConfigurationUnobserved(g, w.memory)
        BY <3>3, <4>1 DEF ConfigurationUnobserved
      <4> QED
        BY <3>1, <4>2, PairPrefix, UnobservedIs DEF Stays
    <3>4. CASE w.memory > 0 \/ ("size" \notin g /\ "outage_risk" \notin g)
      <4>1. w.memory > 0 \/ ClusterSize(w, g) = ClusterSize(w, {})
        BY <3>4 DEF ClusterSize
      <4>2. s \in SharedBuffers(w, g, w.memory)
        BY <2>1, <2>3, <4>1 DEF SharedBuffers
      <4> QED
        BY <4>2, JudgedIs DEF Report, Stays, MemoryReview
    <3> QED
      BY <3>2, <3>3, <3>4
  <2> QED
    BY <1>1, <2>2, <2>3
<1> QED
  BY <1>3, <1>4

\* Statistics settings: as reported, or unobserved.
LEMMA TrackingStays ==
  ASSUME NEW w, NEW g, NEW s \in Report("tracking", w, {}), Evaluated(s.rule, g)
  PROVE  Stays(s, "tracking", w, g)
<1> DEFINE Off(h) == IF Get(w, h, "track") = "none"
                     THEN {Finding("stat_statements_capacity",
                                   <<"setting", "pg_stat_statements.track">>, "warning")}
                     ELSE {}
           Full(h) == {Finding("stat_statements_capacity",
                               <<"setting", "pg_stat_statements.max">>, "warning")
                         : u \in {u \in RowsRead("stat_statements", h, {w}) :
                                    u.max > 0 /\ (Filling(u) \/ Evictions(u, h) # 0)}}
<1>1. \A h : StatStatementsRule(w, h) = Off(h) \cup Full(h)
  BY DEF StatStatementsRule
<1>2. s \in StatStatementsRule(w, {})
  BY JudgedIs DEF Report
<1>3. CASE s \in Off({})
  <2>1. s.rule = "stat_statements_capacity" /\ s.target = <<"setting", "pg_stat_statements.track">>
    BY <1>3, FindingFields DEF FindingIs
  <2>2. CASE "settings" \in g
    BY <2>1, <2>2, SettingsHidden
  <2>3. CASE "settings" \notin g
    <3>1. s \in Off(g)
      BY <1>3, <2>3, SettingsRead
    <3>2. s \in StatStatementsRule(w, g)
      BY <1>1, <3>1
    <3> QED
      BY <3>2, JudgedIs DEF Report, Stays
  <2> QED
    BY <2>2, <2>3
<1>4. CASE s \in Full({})
  <2>1. s.rule = "stat_statements_capacity" /\ s.target = <<"setting", "pg_stat_statements.max">>
    BY <1>4, FindingFields DEF FindingIs
  <2>2. CASE "stat_statements" \in g
    <3>1. <<"setting", "pg_stat_statements.max">> \in StatStatementsUnobserved(g)
      BY <2>2 DEF StatStatementsUnobserved, UnobservedTargets
    <3>2. IsPrefix(<<"setting", "pg_stat_statements.max">>, s.target)
      BY <2>1, PairPrefix
    <3> QED
      BY <2>1, <3>1, <3>2, UnobservedIs DEF Stays
  <2>3. CASE "baseline" \in g
    BY <2>1, <2>3 DEF Stays, Unprotected
  <2>4. CASE "stat_statements" \notin g /\ "baseline" \notin g
    <3>1. \A u : Evictions(u, g) = Evictions(u, {})
      BY <2>4 DEF Evictions
    <3>2. RowsRead("stat_statements", g, {w}) = RowsRead("stat_statements", {}, {w})
      BY <2>4 DEF RowsRead
    <3>3. s \in Full(g)
      BY <1>4, <3>1, <3>2
    <3>4. s \in StatStatementsRule(w, g)
      BY <1>1, <3>3
    <3> QED
      BY <3>4, JudgedIs DEF Report, Stays
  <2> QED
    BY <2>2, <2>3, <2>4
<1> QED
  BY <1>1, <1>2, <1>3, <1>4

\* Of every family, whatever the gap.
LEMMA AllSay ==
  ASSUME NEW f \in DOMAIN Measures, NEW w, f = "memory" => w.memory \in Nat,
         f \in {"table", "scanning"} => Fit(w.scans), NEW g, NEW s \in Report(f, w, {}), Evaluated(s.rule, g)
  PROVE  Says(s, f, w, g)
<1>1. f \in {"table", "scanning", "indexes", "queries", "sessions", "database", "freezing", "slots",
             "limits", "disk", "vacuuming", "hygiene", "memory", "tracking"}
  BY DEF Measures
<1> QED
  BY <1>1, TableSays, IndexesStay, QueriesStay, SessionsStay, FreezingStays, SlotsStay, LimitsStay, DiskStays,
     VacuumingStays, HygieneSays, MemoryStays, TrackingStays, StaysSays

\* What an incomplete analysis closes, a complete one would not report.
LEMMA GapCloses ==
  ASSUME LevelsOK, NEW g, Analyze(g), NEW o \in (open \ open') \cap Subjects(Findings(family, World))
  PROVE  Unprotected(o, World, gap')
<1>1. PICK w : w = World
  OBVIOUS
<1>2. PICK s \in Report(family, w, {}) : o = <<s.rule, s.target>>
  BY <1>1 DEF Subjects, Findings
<1>3. gap' = g /\ open' = Subjects(Report(family, w, g)) \cup Kept(g)
  BY <1>1 DEF Analyze
<1>4. o \notin Kept(g) /\ o \notin Subjects(Report(family, w, g))
  BY <1>3
<1>5. o[1] = s.rule /\ o[2] = s.target
  BY <1>2
<1>6. Evaluated(s.rule, g)
  BY <1>4, <1>5 DEF Kept
<1>7. ~ \E prefix \in Unobserved(s.rule, family, w, g) : IsPrefix(prefix, s.target)
  BY <1>1, <1>4, <1>5 DEF Kept
<1>8. ~ \E t \in Report(family, w, g) : t.rule = s.rule /\ t.target = s.target
  BY <1>2, <1>4 DEF Subjects
<1>9. family = "memory" => w.memory \in Nat
  <2>1. SUFFICES ASSUME family = "memory" PROVE w.memory \in Nat
    OBVIOUS
  <2>2. "memory" \in DOMAIN Measures["memory"] /\ Measures["memory"]["memory"] = Nat
    BY DEF Measures
  <2> QED
    BY <1>1, <2>1, <2>2, WorldIs
<1>10. family \in {"table", "scanning"} => Fit(w.scans)
  BY <1>1, ScansFit
<1>11. Says(s, family, w, g)
  BY <1>2, <1>6, <1>9, <1>10, WorldIs, AllSay
<1> QED
  BY <1>1, <1>2, <1>3, <1>7, <1>8, <1>11 DEF Says

\* An analysis that lacks domains, checks, baselines, plans or reads of tables closes a suggestion
\* only when a complete analysis of the same server would not have reported it, or in one of the six
\* cases of Unprotected: what else a failed check could have found is kept open by Unobserved, for
\* every family, measurement and gap.
THEOREM GapIsNeverRecovery == Spec => GapIsNotRecovery
<1>1. LevelsOK /\ [Next]_vars =>
        [gap' # None /\ open \ open' # {} =>
           \A o \in (open \ open') \cap Subjects(Findings(family, World)) : Unprotected(o, World, gap')]_vars
  <2> SUFFICES ASSUME LevelsOK, [Next]_vars, gap' # None,
                      NEW o \in (open \ open') \cap Subjects(Findings(family, World))
               PROVE  Unprotected(o, World, gap')
    OBVIOUS
  <2>1. ASSUME NEW x \in DOMAIN level, Change(x) PROVE FALSE
    BY <2>1 DEF Change
  <2>2. ~UNCHANGED vars
    BY DEF vars
  <2>3. PICK g \in SUBSET Gaps[family] : Analyze(g)
    BY <2>1, <2>2 DEF Next
  <2> QED
    BY <2>3, GapCloses
<1> QED
  BY <1>1, LevelsAlways, PTL DEF Spec, GapIsNotRecovery

-----------------------------------------------------------------------------
(* A complete analysis.                                                    *)

\* Finitely many findings, no two of the same rule and target.
Distinct(F) ==
  /\ IsFiniteSet(F)
  /\ \A s, t \in F : s.rule = t.rule /\ s.target = t.target => s = t

\* Nothing reported in both.
Disjoint(F, G) == \A s \in F, t \in G : s.rule # t.rule \/ s.target # t.target

\* Distinct findings of distinct subjects are distinct together.
LEMMA DistinctUnion ==
  ASSUME NEW F, NEW G, Distinct(F), Distinct(G), Disjoint(F, G)
  PROVE  Distinct(F \cup G)
<1>1. IsFiniteSet(F \cup G)
  BY FS_Union DEF Distinct
<1> QED
  BY <1>1 DEF Distinct, Disjoint

\* One finding, or none, is distinct.
LEMMA DistinctAlone ==
  ASSUME NEW F, \A s, t \in F : s = t
  PROVE  Distinct(F)
<1>1. CASE F = {}
  BY <1>1, FS_EmptySet DEF Distinct
<1>2. CASE F # {}
  <2>1. PICK s \in F : TRUE
    BY <1>2
  <2>2. F = {s}
    BY <2>1
  <2>3. IsFiniteSet(F)
    BY <2>2, FS_Singleton
  <2> QED
    BY <2>3 DEF Distinct
<1> QED
  BY <1>1, <1>2

\* Some of distinct findings are distinct.
LEMMA DistinctSubset ==
  ASSUME NEW F, Distinct(F), NEW G \in SUBSET F
  PROVE  Distinct(G)
<1>1. IsFiniteSet(G)
  BY FS_Subset DEF Distinct
<1> QED
  BY <1>1 DEF Distinct

\* A graded finding is one, or none.
LEMMA GradedDistinct ==
  ASSUME NEW rule, NEW target, NEW value, NEW warning, NEW critical
  PROVE  Distinct(Graded(rule, target, value, warning, critical))
<1> QED
  BY DistinctAlone DEF Graded

\* As many subjects as findings.
LEMMA DistinctSubjects ==
  ASSUME NEW F, Distinct(F)
  PROVE  Cardinality(Subjects(F)) = Cardinality(F)
<1>1. PICK f : f = [s \in F |-> <<s.rule, s.target>>]
  OBVIOUS
<1>2. f \in [F -> Subjects(F)]
  BY <1>1 DEF Subjects
<1>3. \A s, t \in F : f[s] = f[t] => s = t
  BY <1>1 DEF Distinct
<1>4. \A o \in Subjects(F) : \E s \in F : f[s] = o
  BY <1>1 DEF Subjects
<1>5. f \in Bijection(F, Subjects(F))
  BY <1>2, <1>3, <1>4 DEF Bijection, Injection, Surjection, IsInjective
<1>6. ExistsBijection(F, Subjects(F))
  BY <1>5 DEF ExistsBijection
<1> QED
  BY <1>6, FS_Bijection DEF Distinct

-----------------------------------------------------------------------------
\* The findings of each family are distinct.
LEMMA TableDistinct ==
  ASSUME LevelsOK, family \in {"table", "scanning"}
  PROVE  Distinct(Report(family, World, {}))
<1>1. PICK w : w = World
  OBVIOUS
<1>2. PICK F, G, H, I : /\ F = BloatRule(w, w.bloat) /\ G = VacuumRule(w, w.bloat)
                        /\ H = MissingIndexRule(w, w.bloat, UsablePlans(w, {}))
                        /\ I = IndexRecommendationRule(RecommendIndexes(Planned(w.scans, {})))
  OBVIOUS
<1>3. Distinct(F) /\ \A s \in F : s.rule = "bloat"
  BY <1>2, GradedDistinct, GradedIs, DistinctAlone DEF BloatRule
<1>4. Distinct(G) /\ \A s \in G : s.rule = "vacuum"
  BY <1>2, DistinctAlone, FindingFields DEF VacuumRule, FindingIs
<1>5. Distinct(H) /\ \A s \in H : s.rule = "missing_index"
  BY <1>2, DistinctAlone, FindingFields DEF MissingIndexRule, FindingIs
<1>6. \A s \in I : s.rule = "index_recommendation"
  <2>1. PICK recs : recs = RecommendIndexes(Planned(w.scans, {}))
    OBVIOUS
  <2>2. ASSUME NEW s \in I PROVE s.rule = "index_recommendation"
    <3>1. \E i \in DOMAIN recs : \E severity :
            s = Finding("index_recommendation", <<"index", recs[i].columns>>, severity)
      BY <1>2, <2>1 DEF IndexRecommendationRule
    <3> QED
      BY <3>1 DEF Finding
  <2> QED
    BY <2>2
<1>7. Distinct(I)
  <2>1. PICK recs : recs = RecommendIndexes(Planned(w.scans, {}))
    OBVIOUS
  <2>2. Apart(recs, 1)
    BY <1>1, <2>1, ScansFit, ScansApart
  <2>3. DOMAIN recs = 1..Len(recs) /\ Len(recs) \in Nat
    BY <2>2 DEF Apart
  <2>4. IsFiniteSet(DOMAIN recs)
    <3>1. 1 \in Int /\ Len(recs) \in Int
      BY <2>3
    <3> QED
      BY <2>3, <3>1, FS_Interval, ZenonT(30)
  <2>5. PICK f : f = [i \in DOMAIN recs |->
                       Finding("index_recommendation", <<"index", recs[i].columns>>,
                               IF recs[i].share >= WarningShare THEN "warning" ELSE "info")]
    OBVIOUS
  <2>6. I = {f[i] : i \in DOMAIN recs}
    BY <1>2, <2>1, <2>5 DEF IndexRecommendationRule
  <2>7. f \in Surjection(DOMAIN recs, I)
    BY <2>5, <2>6 DEF Surjection
  <2>8. IsFiniteSet(I)
    BY <2>4, <2>7, FS_Surjection
  <2>9. ASSUME NEW k \in DOMAIN recs, NEW l \in DOMAIN recs, f[k].target = f[l].target
        PROVE  k = l
    <3>1. recs[k].columns = recs[l].columns
      <4>1. f[k].target = <<"index", recs[k].columns>> /\ f[l].target = <<"index", recs[l].columns>>
        BY <2>5, FindingFields DEF FindingIs
      <4>2. <<"index", recs[k].columns>> = <<"index", recs[l].columns>>
        BY <2>9, <4>1
      <4> QED
        BY <4>2, PairEqual
    <3>2. recs[k] \in Recommended
      BY <2>2 DEF Apart
    <3>3. recs[k].columns \in Seq(STRING)
      BY <3>2 DEF Recommended
    <3>4. IsPrefix(recs[k].columns, recs[l].columns)
      BY <3>1, <3>3, PrefixIs
    <3> QED
      BY <2>2, <3>4 DEF Apart
  <2> QED
    BY <2>6, <2>8, <2>9 DEF Distinct
<1>8. Distinct(F \cup G)
  BY <1>3, <1>4, DistinctUnion DEF Disjoint
<1>9. Distinct((F \cup G) \cup H)
  BY <1>3, <1>4, <1>5, <1>8, DistinctUnion DEF Disjoint
<1>10. Distinct(((F \cup G) \cup H) \cup I)
  BY <1>3, <1>4, <1>5, <1>6, <1>7, <1>9, DistinctUnion DEF Disjoint
<1>11. Report(family, w, {}) \in SUBSET (((F \cup G) \cup H) \cup I)
  BY <1>2, JudgedIs DEF Report
<1> QED
  BY <1>1, <1>10, <1>11, DistinctSubset

\* The indexes of a table: a duplicate and an unused index are of different rules or names.
LEMMA IndexesDistinct ==
  ASSUME LevelsOK, family = "indexes"
  PROVE  Distinct(Report(family, World, {}))
<1>1. PICK a, b, c : /\ IndexSet(World) = {a, b, c}
                     /\ a \in Indexes /\ b \in Indexes /\ c \in Indexes
                     /\ a.name = 1 /\ b.name = 2 /\ c.name = 3
  BY IndexesAre
<1>2. PICK I : I = IndexSet(World)
  OBVIOUS
<1>3. \A i, j \in I : i.name = j.name => i = j
  BY <1>1, <1>2
<1>4. IsFiniteSet(I)
  <2>1. IsFiniteSet({a} \cup {b})
    BY FS_Singleton, FS_Union
  <2>2. IsFiniteSet(({a} \cup {b}) \cup {c})
    BY <2>1, FS_Singleton, FS_Union
  <2>3. I = ({a} \cup {b}) \cup {c}
    BY <1>1, <1>2
  <2> QED
    BY <2>2, <2>3
<1>5. PICK F, G : F = UnusedIndexRule(I) /\ G = DuplicateIndexRule(I)
  OBVIOUS
<1>6. \A s \in F : \E i \in I : /\ s.rule = "unused_index" /\ s.target = <<"index", i.name>>
                                /\ s = Finding("unused_index", <<"index", i.name>>,
                                               IF i.size >= LargeUnusedIndexBytes THEN "warning" ELSE "info")
  BY <1>5, FindingFields DEF UnusedIndexRule, FindingIs
<1>7. PICK D : D = Duplicates(I)
  OBVIOUS
<1>8. /\ \A d \in D : d.candidate \in I
      /\ \A d, e \in D : d.candidate = e.candidate => d = e
  <2>1. PICK cover : cover = [i \in Redundant(I) |-> Cover(KeptIndexes(I), i)]
    OBVIOUS
  <2>2. ASSUME NEW d \in D
        PROVE  /\ d.candidate \in Redundant(I)
               /\ d = [candidate |-> d.candidate,
                       retained  |-> CHOOSE j \in cover[d.candidate] :
                                       \A k \in cover[d.candidate] \ {j} : KeepOrder(j, k)]
    <3>1. PICK i \in Redundant(I) :
            d = [candidate |-> i,
                 retained  |-> CHOOSE j \in cover[i] : \A k \in cover[i] \ {j} : KeepOrder(j, k)]
      BY <1>7, <2>1 DEF Duplicates
    <3>2. d.candidate = i
      BY <3>1
    <3> QED
      BY <3>1, <3>2
  <2>3. Redundant(I) \subseteq I
    BY DEF Redundant, Comparable
  <2>4. ASSUME NEW d \in D, NEW e \in D, d.candidate = e.candidate PROVE d = e
    <3>1. PICK i : i = d.candidate
      OBVIOUS
    <3>2. PICK r : r = CHOOSE j \in cover[i] : \A k \in cover[i] \ {j} : KeepOrder(j, k)
      OBVIOUS
    <3>3. d = [candidate |-> i, retained |-> r]
      BY <2>2, <3>1, <3>2
    <3>4. e = [candidate |-> i, retained |-> r]
      BY <2>2, <2>4, <3>1, <3>2
    <3> QED
      BY <3>3, <3>4
  <2> QED
    BY <2>2, <2>3, <2>4
<1>9. \A s \in G : \E d \in D : /\ s.rule = "duplicate_index" /\ s.target = <<"index", d.candidate.name>>
                                /\ s = Finding("duplicate_index", <<"index", d.candidate.name>>,
                                               IF Exact(d.candidate, d.retained) THEN "warning" ELSE "info")
  <2>1. ASSUME NEW s \in G
        PROVE  \E d \in D : s = Finding("duplicate_index", <<"index", d.candidate.name>>,
                                         IF Exact(d.candidate, d.retained) THEN "warning" ELSE "info")
    BY <1>5, <1>7 DEF DuplicateIndexRule
  <2>2. ASSUME NEW s \in G
        PROVE  \E d \in D : /\ s.rule = "duplicate_index" /\ s.target = <<"index", d.candidate.name>>
                            /\ s = Finding("duplicate_index", <<"index", d.candidate.name>>,
                                           IF Exact(d.candidate, d.retained) THEN "warning" ELSE "info")
    <3>1. PICK d \in D : s = Finding("duplicate_index", <<"index", d.candidate.name>>,
                                    IF Exact(d.candidate, d.retained) THEN "warning" ELSE "info")
      BY <2>1
    <3>2. s.rule = "duplicate_index" /\ s.target = <<"index", d.candidate.name>>
      BY <3>1 DEF Finding
    <3> QED
      BY <3>1, <3>2
  <2> QED
    BY <2>2
<1>10. ASSUME NEW s \in F, NEW t \in F, s.target = t.target PROVE s = t
  <2>1. PICK i \in I : /\ s.target = <<"index", i.name>>
                       /\ s = Finding("unused_index", <<"index", i.name>>,
                                      IF i.size >= LargeUnusedIndexBytes THEN "warning" ELSE "info")
    BY <1>6
  <2>2. PICK j \in I : /\ t.target = <<"index", j.name>>
                       /\ t = Finding("unused_index", <<"index", j.name>>,
                                      IF j.size >= LargeUnusedIndexBytes THEN "warning" ELSE "info")
    BY <1>6
  <2>3. <<"index", i.name>> = <<"index", j.name>>
    BY <1>10, <2>1, <2>2
  <2>4. i.name = j.name
    BY <2>3, PairEqual
  <2>5. i = j
    BY <1>3, <2>4
  <2> QED
    BY <2>1, <2>2, <2>5
<1>11. ASSUME NEW s \in G, NEW t \in G, s.target = t.target PROVE s = t
  <2>1. PICK d \in D : /\ s.target = <<"index", d.candidate.name>>
                       /\ s = Finding("duplicate_index", <<"index", d.candidate.name>>,
                                      IF Exact(d.candidate, d.retained) THEN "warning" ELSE "info")
    BY <1>9
  <2>2. PICK e \in D : /\ t.target = <<"index", e.candidate.name>>
                       /\ t = Finding("duplicate_index", <<"index", e.candidate.name>>,
                                      IF Exact(e.candidate, e.retained) THEN "warning" ELSE "info")
    BY <1>9
  <2>3. <<"index", d.candidate.name>> = <<"index", e.candidate.name>>
    BY <1>11, <2>1, <2>2
  <2>4. d.candidate.name = e.candidate.name
    BY <2>3, PairEqual
  <2>5. d = e
    BY <1>3, <1>8, <2>4
  <2> QED
    BY <2>1, <2>2, <2>5
<1>12. IsFiniteSet(F)
  <2>2. PICK f : f = [s \in F |-> CHOOSE i \in I : s.target = <<"index", i.name>>]
    OBVIOUS
  <2>3. \A s \in F : f[s] \in I /\ s.target = <<"index", f[s].name>>
    BY <1>6, <2>2
  <2>4. f \in Injection(F, I)
    <3>1. f \in [F -> I]
      BY <2>2, <2>3
    <3>2. ASSUME NEW s \in F, NEW t \in F, f[s] = f[t] PROVE s = t
      BY <1>10, <2>3, <3>2
    <3> QED
      BY <3>1, <3>2 DEF Injection, IsInjective
  <2> QED
    BY <1>4, <2>4, FS_Injection
<1>13. IsFiniteSet(G)
  <2>2. PICK f : f = [s \in G |-> CHOOSE i \in I : s.target = <<"index", i.name>>]
    OBVIOUS
  <2>3. \A s \in G : f[s] \in I /\ s.target = <<"index", f[s].name>>
    BY <1>8, <1>9, <2>2
  <2>4. f \in Injection(G, I)
    <3>1. f \in [G -> I]
      BY <2>2, <2>3
    <3>2. ASSUME NEW s \in G, NEW t \in G, f[s] = f[t] PROVE s = t
      BY <1>11, <2>3, <3>2
    <3> QED
      BY <3>1, <3>2 DEF Injection, IsInjective
  <2> QED
    BY <1>4, <2>4, FS_Injection
<1>14. Distinct(F) /\ Distinct(G)
  BY <1>10, <1>11, <1>12, <1>13 DEF Distinct
<1>15. Distinct(F \cup G)
  BY <1>6, <1>9, <1>14, DistinctUnion DEF Disjoint
<1>16. Report(family, World, {}) \in SUBSET (F \cup G)
  BY <1>2, <1>5, JudgedIs DEF Report
<1> QED
  BY <1>15, <1>16, DistinctSubset

\* A query: its share and its time are of different rules.
LEMMA QueriesDistinct ==
  ASSUME NEW w
  PROVE  Distinct(Report("queries", w, {}))
<1>1. \A m, n \in SlowMeans(w, {}) : m = n
  BY DEF SlowMeans
<1>2. \A s, t \in SlowQueryRule(w, {}) : s = t
  BY <1>1 DEF SlowQueryRule, Graded
<1>3. Report("queries", w, {}) \in SUBSET SlowQueryRule(w, {})
  BY JudgedIs DEF Report
<1> QED
  BY <1>2, <1>3, DistinctAlone, DistinctSubset

\* Sessions: one finding per session and rule.
LEMMA SessionsDistinct ==
  ASSUME NEW w
  PROVE  Distinct(Report("sessions", w, {}))
<1>1. PICK F, G, H : /\ F = ConnectionSaturationRule(w, {}) /\ G = LongRunningQueryRule(w)
                     /\ H = IdleInTransactionRule(w)
  OBVIOUS
<1>2. Distinct(F) /\ \A s \in F : s.rule = "connection_saturation"
  BY <1>1, GradedDistinct, GradedIs, DistinctAlone DEF ConnectionSaturationRule
<1>3. Distinct(G) /\ \A s \in G : s.rule = "long_running_query"
  BY <1>1, GradedDistinct, GradedIs DEF LongRunningQueryRule
<1>4. Distinct(H) /\ \A s \in H : s.rule = "idle_in_transaction"
  BY <1>1, GradedDistinct, GradedIs DEF IdleInTransactionRule
<1>5. Distinct(F \cup G)
  BY <1>2, <1>3, DistinctUnion DEF Disjoint
<1>6. Distinct((F \cup G) \cup H)
  BY <1>2, <1>3, <1>4, <1>5, DistinctUnion DEF Disjoint
<1>7. Report("sessions", w, {}) \in SUBSET ((F \cup G) \cup H)
  BY <1>1, JudgedIs DEF Report
<1> QED
  BY <1>6, <1>7, DistinctSubset

\* The database: one finding per rule.
LEMMA DatabaseDistinct ==
  ASSUME NEW w
  PROVE  Distinct(Report("database", w, {}))
<1>1. PICK F, G, H, I : /\ F = CacheRule(w) /\ G = HighTempUsageRule(w)
                        /\ H = HighDeadlocksRule(w) /\ I = LockContentionRule(w)
  OBVIOUS
<1>2. Distinct(F) /\ \A s \in F : s.rule = "cache"
  <2>1. \A s, t \in F : s = t
    BY <1>1 DEF CacheRule
  <2>2. \A s \in F : s.rule = "cache"
    <3>1. PICK target : target = <<"database", "">>
      OBVIOUS
    <3>2. ASSUME NEW s \in F PROVE \E severity : s = Finding("cache", target, severity)
      BY <1>1, <3>1 DEF CacheRule
    <3> QED
      BY <3>2 DEF Finding
  <2> QED
    BY <2>1, <2>2, DistinctAlone
<1>3. Distinct(G) /\ \A s \in G : s.rule = "high_temp_usage"
  BY <1>1, GradedDistinct, GradedIs DEF HighTempUsageRule
<1>4. Distinct(H) /\ \A s \in H : s.rule = "high_deadlocks"
  BY <1>1, GradedDistinct, GradedIs DEF HighDeadlocksRule
<1>5. Distinct(I) /\ \A s \in I : s.rule = "lock_contention"
  BY <1>1, GradedDistinct, GradedIs DEF LockContentionRule
<1>6. Distinct(F \cup G)
  BY <1>2, <1>3, DistinctUnion DEF Disjoint
<1>7. Distinct((F \cup G) \cup H)
  BY <1>2, <1>3, <1>4, <1>6, DistinctUnion DEF Disjoint
<1>8. Distinct(((F \cup G) \cup H) \cup I)
  BY <1>2, <1>3, <1>4, <1>5, <1>7, DistinctUnion DEF Disjoint
<1>9. Report("database", w, {}) \in SUBSET (((F \cup G) \cup H) \cup I)
  BY <1>1, JudgedIs DEF Report
<1> QED
  BY <1>8, <1>9, DistinctSubset

\* Ages of transactions: one finding per database and table.
LEMMA FreezingDistinct ==
  ASSUME NEW w
  PROVE  Distinct(Report("freezing", w, {}))
<1>1. PICK F, G : /\ F = Graded("xid_wraparound", <<"database", "d">>, w.xid,
                                 WarnAt(w.freezeMax), C.xidAgeCritical)
                  /\ G = Graded("multixact_wraparound", <<"database", "d">>, w.mxid,
                                WarnAt(w.multixactFreezeMax), C.xidAgeCritical)
  OBVIOUS
<1>2. Distinct(F) /\ \A s \in F : s.rule = "xid_wraparound"
  BY <1>1, GradedDistinct, GradedIs
<1>3. Distinct(G) /\ \A s \in G : s.rule = "multixact_wraparound"
  BY <1>1, GradedDistinct, GradedIs
<1>4. Distinct(F \cup G)
  BY <1>2, <1>3, DistinctUnion DEF Disjoint
<1>5. WraparoundRule(w, {}) = F \cup G
  BY <1>1 DEF WraparoundRule, RowsRead
<1>6. Report("freezing", w, {}) \in SUBSET (F \cup G)
  BY <1>5, JudgedIs DEF Report
<1> QED
  BY <1>4, <1>6, DistinctSubset

\* Replication slots: one finding per slot and rule.
LEMMA SlotsDistinct ==
  ASSUME NEW w
  PROVE  Distinct(Report("slots", w, {}))
<1>1. PICK F, G : /\ F = {Finding("replication_slot", <<"slot", "s">>, Worst(SlotSeverities(s)))
                            : s \in {s \in RowsRead("replication_slots", {}, {w}) : SlotSeverities(s) # {}}}
                  /\ G = {Finding("replication_slot", <<"replica", "r">>, "warning")
                            : r \in {r \in RowsRead("replication", {}, {w}) :
                                       r.lag # None /\ r.lag >= C.replicaLagWarningSeconds}}
  OBVIOUS
<1>2. \A s, t \in F : s = t
  BY <1>1 DEF RowsRead
<1>3. \A s, t \in G : s = t
  BY <1>1
<1>4. \A s \in F : s.target = <<"slot", "s">>
  BY <1>1, FindingFields DEF FindingIs
<1>5. \A s \in G : s.target = <<"replica", "r">>
  BY <1>1, FindingFields DEF FindingIs
<1>6. <<"slot", "s">> # <<"replica", "r">>
  OBVIOUS
<1>7. Distinct(F) /\ Distinct(G)
  BY <1>2, <1>3, DistinctAlone
<1>8. Disjoint(F, G)
  BY <1>4, <1>5, <1>6 DEF Disjoint
<1>9. Distinct(F \cup G)
  BY <1>7, <1>8, DistinctUnion
<1>10. ReplicationSlotRule(w, {}) = F \cup G
  BY <1>1 DEF ReplicationSlotRule
<1>11. Report("slots", w, {}) \in SUBSET (F \cup G)
  BY <1>10, JudgedIs DEF Report
<1> QED
  BY <1>9, <1>11, DistinctSubset

\* Connections and sequences: one finding per subject.
LEMMA LimitsDistinct ==
  ASSUME NEW w
  PROVE  Distinct(Report("limits", w, {}))
<1>1. PICK F, G : /\ F = Graded("sequence_exhaustion", <<"sequence", "s">>, w.used,
                                C.sequenceUsageWarning, C.sequenceUsageCritical)
                  /\ G = Graded("prepared_transaction", <<"prepared", "p">>, w.prepared,
                                C.preparedXactWarning, C.preparedXactCritical)
  OBVIOUS
<1>2. Distinct(F) /\ \A s \in F : s.rule = "sequence_exhaustion"
  BY <1>1, GradedDistinct, GradedIs
<1>3. Distinct(G) /\ \A s \in G : s.rule = "prepared_transaction"
  BY <1>1, GradedDistinct, GradedIs
<1>4. Distinct(F \cup G)
  BY <1>2, <1>3, DistinctUnion DEF Disjoint
<1>5. SequenceExhaustionRule(w, {}) = F /\ PreparedTransactionRule(w, {}) = G
  BY <1>1 DEF SequenceExhaustionRule, PreparedTransactionRule, RowsRead
<1>6. Report("limits", w, {}) \in SUBSET (F \cup G)
  BY <1>5, JudgedIs DEF Report
<1> QED
  BY <1>4, <1>6, DistinctSubset

\* A forecast is of one severity.
LEMMA DiskDistinct ==
  ASSUME NEW w
  PROVE  Distinct(Report("disk", w, {}))
<1>1. \A trend, capacity : \A s, t \in Forecast(trend, capacity) : s = t
  BY DEF Forecast
<1>2. \A s, t \in DiskGrowthRule(w, {}, w.capacity) : s = t
  BY <1>1 DEF DiskGrowthRule
<1>3. Report("disk", w, {}) \in SUBSET DiskGrowthRule(w, {}, w.capacity)
  BY JudgedIs DEF Report
<1> QED
  BY <1>2, <1>3, DistinctAlone, DistinctSubset

\* A note is one finding, or none.
LEMMA NoteDistinct ==
  ASSUME NEW F, NEW name, \E severity : F \subseteq Note(name, severity)
  PROVE  Distinct(F) /\ \A s \in F : s.rule = "configuration" /\ s.target = <<"setting", name>>
<1> QED
  BY NoteIs, DistinctAlone DEF Note

\* Autovacuum: one finding per subject.
LEMMA VacuumingDistinct ==
  ASSUME NEW w
  PROVE  Distinct(Report("vacuuming", w, {}))
<1>1. PICK F, G : F = Autovacuum(w, {}) /\ G = AutovacuumDisabled(w, {})
  OBVIOUS
<1>2. Distinct(F) /\ \A s \in F : s.target = <<"setting", "autovacuum">>
  BY <1>1, NoteDistinct DEF Autovacuum
<1>3. \A s \in G : s.target = <<"autovacuum_disabled", "t">>
  BY <1>1, FindingFields DEF AutovacuumDisabled, FindingIs
<1>4. \A s, t \in G : s = t
  BY <1>1 DEF AutovacuumDisabled, RowsRead
<1>5. <<"setting", "autovacuum">> # <<"autovacuum_disabled", "t">>
  OBVIOUS
<1>6. Distinct(F \cup G)
  BY <1>2, <1>3, <1>4, <1>5, DistinctAlone, DistinctUnion DEF Disjoint
<1>7. Report("vacuuming", w, {}) \in SUBSET (F \cup G)
  BY <1>1, JudgedIs DEF Report, AutovacuumReview
<1> QED
  BY <1>6, <1>7, DistinctSubset

\* Timeouts and logging: one finding per setting.
LEMMA HygieneDistinct ==
  ASSUME NEW w
  PROVE  Distinct(Report("hygiene", w, {}))
<1>1. PICK F, G, H, I, J : /\ F = IdleInTransactionTimeout(w, {}) /\ G = StatementTimeout(w, {})
                           /\ H = Observability(w, {}) /\ I = RandomPageCost(w, {})
                           /\ J = PendingRestart(w, {})
  OBVIOUS
<1>2. Distinct(F) /\ \A s \in F : s.target = <<"setting", "idle_in_transaction_session_timeout">>
  BY <1>1, NoteDistinct DEF IdleInTransactionTimeout
<1>3. Distinct(G) /\ \A s \in G : s.target = <<"setting", "statement_timeout">>
  BY <1>1, NoteDistinct DEF StatementTimeout
<1>4. Distinct(H) /\ \A s \in H : s.target = <<"setting", "observability">>
  BY <1>1, NoteDistinct DEF Observability
<1>5. Distinct(I) /\ \A s \in I : s.target = <<"setting", "random_page_cost">>
  BY <1>1, NoteDistinct DEF RandomPageCost
<1>6. Distinct(J) /\ \A s \in J : s.target = <<"setting", "pending_restart">>
  BY <1>1, NoteDistinct DEF PendingRestart
<1>7. \A a, b : <<"setting", a>> = <<"setting", b>> => a = b
  OBVIOUS
<1>8. Distinct(F \cup G)
  BY <1>2, <1>3, <1>7, DistinctUnion DEF Disjoint
<1>9. Distinct((F \cup G) \cup H)
  BY <1>2, <1>3, <1>4, <1>7, <1>8, DistinctUnion DEF Disjoint
<1>10. Distinct(((F \cup G) \cup H) \cup I)
  BY <1>2, <1>3, <1>4, <1>5, <1>7, <1>9, DistinctUnion DEF Disjoint
<1>11. Distinct((((F \cup G) \cup H) \cup I) \cup J)
  BY <1>2, <1>3, <1>4, <1>5, <1>6, <1>7, <1>10, DistinctUnion DEF Disjoint
<1>12. Report("hygiene", w, {}) \in SUBSET ((((F \cup G) \cup H) \cup I) \cup J)
  BY <1>1, JudgedIs DEF Report, HygieneReview
<1> QED
  BY <1>11, <1>12, DistinctSubset

\* Memory settings: one finding per setting.
LEMMA MemoryDistinct ==
  ASSUME NEW w
  PROVE  Distinct(Report("memory", w, {}))
<1>1. PICK F, G : F = SharedBuffers(w, {}, w.memory) /\ G = WorkMem(w, {}, w.memory)
  OBVIOUS
<1>2. Distinct(F) /\ \A s \in F : s.target = <<"setting", "shared_buffers">>
  BY <1>1, NoteDistinct DEF SharedBuffers
<1>3. Distinct(G) /\ \A s \in G : s.target = <<"setting", "work_mem">>
  BY <1>1, NoteDistinct DEF WorkMem
<1>4. <<"setting", "shared_buffers">> # <<"setting", "work_mem">>
  OBVIOUS
<1>5. Distinct(F \cup G)
  BY <1>2, <1>3, <1>4, DistinctUnion DEF Disjoint
<1>6. Report("memory", w, {}) \in SUBSET (F \cup G)
  BY <1>1, JudgedIs DEF Report, MemoryReview
<1> QED
  BY <1>5, <1>6, DistinctSubset

\* Statistics settings: one finding per setting.
LEMMA TrackingDistinct ==
  ASSUME NEW w
  PROVE  Distinct(Report("tracking", w, {}))
<1>1. PICK F, G :
        /\ F = IF Get(w, {}, "track") = "none"
               THEN {Finding("stat_statements_capacity", <<"setting", "pg_stat_statements.track">>,
                             "warning")}
               ELSE {}
        /\ G = {Finding("stat_statements_capacity", <<"setting", "pg_stat_statements.max">>, "warning")
                  : u \in {u \in RowsRead("stat_statements", {}, {w}) :
                             u.max > 0 /\ (Filling(u) \/ Evictions(u, {}) # 0)}}
  OBVIOUS
<1>2. \A s \in F : s.target = <<"setting", "pg_stat_statements.track">>
  BY <1>1, FindingFields DEF FindingIs
<1>3. \A s \in G : s.target = <<"setting", "pg_stat_statements.max">>
  BY <1>1, FindingFields DEF FindingIs
<1>4. <<"setting", "pg_stat_statements.track">> # <<"setting", "pg_stat_statements.max">>
  OBVIOUS
<1>5. (\A s, t \in F : s = t) /\ (\A s, t \in G : s = t)
  BY <1>1
<1>6. Distinct(F \cup G)
  BY <1>2, <1>3, <1>4, <1>5, DistinctAlone, DistinctUnion DEF Disjoint
<1>7. StatStatementsRule(w, {}) = F \cup G
  BY <1>1 DEF StatStatementsRule
<1>8. Report("tracking", w, {}) \in SUBSET (F \cup G)
  BY <1>7, JudgedIs DEF Report
<1> QED
  BY <1>6, <1>8, DistinctSubset

\* Of every family.
LEMMA FindingsDistinct ==
  ASSUME LevelsOK
  PROVE  Distinct(Report(family, World, {}))
<1>1. family \in DOMAIN Measures
  BY WorldIs
<1>2. family \in {"table", "scanning", "indexes", "queries", "sessions", "database", "freezing", "slots",
                  "limits", "disk", "vacuuming", "hygiene", "memory", "tracking"}
  BY <1>1 DEF Measures
<1> QED
  BY <1>2, TableDistinct, IndexesDistinct, QueriesDistinct, SessionsDistinct, DatabaseDistinct,
     FreezingDistinct, SlotsDistinct, LimitsDistinct, DiskDistinct, VacuumingDistinct, HygieneDistinct,
     MemoryDistinct, TrackingDistinct

-----------------------------------------------------------------------------
\* An analysis without a gap keeps nothing of what it does not report.
LEMMA NothingKept ==
  ASSUME LevelsOK
  PROVE  Kept({}) = {}
<1>1. \A prefixes : UnobservedTargets({}, prefixes) = {}
  BY DEF UnobservedTargets
<1>2. \A memory : ConfigurationUnobserved({}, memory) = {}
  BY <1>1 DEF ConfigurationUnobserved
<1>3. \A rule : Unobserved(rule, family, World, {}) = {}
  BY <1>1, <1>2 DEF Unobserved, WraparoundUnobserved, ReplicationUnobserved, SequenceUnobserved,
     PreparedUnobserved, DiskUnobserved, StatStatementsUnobserved
<1>4. \A rule : Evaluated(rule, {})
  BY DEF Evaluated
<1> QED
  BY <1>3, <1>4 DEF Kept

\* After a complete analysis the open suggestions are the findings.
OpenIsFound == gap = {} => open = Subjects(Report(family, World, {}))

\* Every step keeps OpenIsFound.
LEMMA OpenStep == LevelsOK /\ OpenIsFound /\ [Next]_vars => OpenIsFound'
<1> SUFFICES ASSUME LevelsOK, OpenIsFound, [Next]_vars PROVE OpenIsFound'
  OBVIOUS
<1>1. ASSUME NEW x \in DOMAIN level, Change(x) PROVE OpenIsFound'
  BY <1>1, ScalesAssumption DEF Change, OpenIsFound
<1>2. ASSUME NEW g \in SUBSET Gaps[family], Analyze(g) PROVE OpenIsFound'
  <2>1. /\ gap' = g /\ family' = family /\ level' = level
        /\ open' = Subjects(Report(family, World, g)) \cup Kept(g)
    BY <1>2 DEF Analyze
  <2>2. World' = World
    BY <2>1 DEF World
  <2>3. g = {} => open' = Subjects(Report(family, World, {}))
    BY <2>1, NothingKept
  <2> QED
    BY <2>1, <2>2, <2>3 DEF OpenIsFound
<1>3. CASE UNCHANGED vars
  BY <1>3 DEF vars, OpenIsFound, World
<1> QED
  BY <1>1, <1>2, <1>3 DEF Next

\* After a complete analysis the open suggestions are those it reported, one for each rule and
\* target, whatever was open before: Reconcile closes all that is not reported and no two findings of
\* an analysis are about the same subject.
THEOREM CompleteAnalysisAlwaysResolves == Spec => []CompleteAnalysisResolves
<1>1. Init => OpenIsFound
  BY ScalesAssumption DEF Init, OpenIsFound
<1>2. LevelsOK /\ OpenIsFound => CompleteAnalysisResolves
  BY FindingsDistinct, DistinctSubjects DEF OpenIsFound, CompleteAnalysisResolves, Findings
<1> QED
  BY <1>1, <1>2, OpenStep, LevelsAlways, PTL DEF Spec

-----------------------------------------------------------------------------
(* A server that gets worse.                                               *)

\* The thresholds the rules compare with are numbers.
LEMMA ConfiguredIs ==
  /\ Configured.slowQueryMs \in Int /\ Configured.cacheHitRatioWarning \in Int
  /\ Configured.bloatPercentWarning \in Int /\ Configured.seqScanRatioWarning \in Int
  /\ Configured.minTableSizeForIndex \in Int
<1> QED
  BY ConfiguredAssumption DEF ThresholdsConfig

\* The thresholds of the analyzer.
LEMMA AnalyzerConfigIs ==
  /\ A.slowQueryMs \in Int /\ A.cacheHitRatioWarning \in Int /\ A.bloatPercentWarning \in Int
  /\ A.minTableSizeForIndex \in Int /\ A.vacuumStaleDays = 7
  /\ A.seqScanRatioWarning \in Int /\ A.seqScanRatioWarning <= 1000
<1>1. Configured.seqScanRatioWarning <= 1000
  BY ConfiguredAssumption DEF ThresholdsConfig, ValidThresholds
<1> QED
  BY <1>1, ConfiguredIs DEF A, AnalyzerConfig

\* WithDefaults changes no threshold that is set.
LEMMA DefaultsKept ==
  /\ C.longRunningQuerySeconds = 60 /\ C.longRunningCriticalSeconds = 300
  /\ C.idleInTxSeconds = 60 /\ C.idleInTxCriticalSeconds = 300
  /\ C.blockedQuerySeconds = 10 /\ C.blockedQueryCriticalSeconds = 60
  /\ C.tempWarning = 1024 /\ C.tempCritical = 10240 /\ C.deadlocksWarning = 1
  /\ C.xidAgeWarning = 500000000 /\ C.xidAgeCritical = 1000000000
  /\ C.freezeMaxAgeFactor = <<3, 2>>
  /\ C.slotRetainedWarning = 1024 /\ C.slotRetainedCritical = 10240
  /\ C.replicaLagWarningSeconds = 300
  /\ C.sequenceUsageWarning = 750 /\ C.sequenceUsageCritical = 900
  /\ C.preparedXactWarning = 3600 /\ C.preparedXactCritical = 86400
  /\ C.diskFullWarningDays = 30 /\ C.diskFullCriticalDays = 7
  /\ C.statStatementsFullFraction = 900
<1> QED
  BY DEF C, ConfigFromThresholds, DefaultConfig

\* The thresholds the suggester compares with.
LEMMA ConfigIs ==
  /\ C.slowQueryCriticalMs \in Int /\ C.cacheHitRatioCritical \in Int
  /\ C.bloatPercentCritical \in Int /\ C.minTableSizeForIndex \in Int
  /\ C.seqScanRatioCritical \in Int /\ C.seqScanRatioCritical <= 1000
<1>1. Configured.seqScanRatioWarning <= 1000
  BY ConfiguredAssumption DEF ThresholdsConfig, ValidThresholds
<1> QED
  BY <1>1, ConfiguredIs DEF C, ConfigFromThresholds, DefaultConfig, AtLeast, AtMost

-----------------------------------------------------------------------------
\* Everything said in F is said in G, and no milder.
NoMilder(F, G) ==
  \A s \in F : \E t \in G :
    s.rule = t.rule /\ s.target = t.target /\ Rank(s.severity) <= Rank(t.severity)

\* Severities are ranked.
LEMMA Ranks == Rank("info") = 1 /\ Rank("warning") = 2 /\ Rank("critical") = 3
<1> QED
  BY DEF Rank

\* A graded severity.
LEMMA SeverityIs ==
  \A rule, target, severity : Finding(rule, target, severity).severity = severity
<1> QED
  BY DEF Finding

\* A finding is no milder than itself made worse.
LEMMA NoMilderOne ==
  ASSUME NEW rule, NEW target, NEW p \in {"info", "warning", "critical"},
         NEW q \in {"info", "warning", "critical"}, Rank(p) <= Rank(q),
         NEW F, NEW G, F \subseteq {Finding(rule, target, p)}, F # {} => Finding(rule, target, q) \in G
  PROVE  NoMilder(F, G)
<1> SUFFICES ASSUME NEW s \in F
             PROVE  \E t \in G : /\ s.rule = t.rule /\ s.target = t.target
                                 /\ Rank(s.severity) <= Rank(t.severity)
  BY DEF NoMilder
<1>1. PICK t \in G : t = Finding(rule, target, q)
  OBVIOUS
<1>2. s = Finding(rule, target, p)
  OBVIOUS
<1> QED
  BY <1>1, <1>2, FindingFields, SeverityIs DEF FindingIs

\* Findings are no milder than themselves.
LEMMA NoMilderSame ==
  ASSUME NEW F, NEW G, F \subseteq G, \A s \in F : s.severity \in {"info", "warning", "critical"}
  PROVE  NoMilder(F, G)
<1> SUFFICES ASSUME NEW s \in F PROVE Rank(s.severity) <= Rank(s.severity)
  BY DEF NoMilder
<1> QED
  BY Ranks

\* NoMilder of the parts is NoMilder of the whole.
LEMMA NoMilderUnion ==
  ASSUME NEW F, NEW G, NEW H, NEW I, NoMilder(F, H), NoMilder(G, I)
  PROVE  NoMilder(F \cup G, H \cup I)
<1> QED
  BY DEF NoMilder

\* A graded finding whose conditions still hold is no milder.
LEMMA NoMilderGraded ==
  ASSUME NEW rule, NEW target, NEW a \in Int, NEW b \in Int, a <= b,
         NEW warning \in Int, NEW critical \in Int
  PROVE  NoMilder(Graded(rule, target, a, warning, critical), Graded(rule, target, b, warning, critical))
<1>1. CASE a < warning
  BY <1>1 DEF Graded, NoMilder
<1>2. CASE ~(a < warning)
  <2>1. ~(b < warning) /\ (a >= critical => b >= critical)
    BY <1>2
  <2>2. PICK p, q : /\ p = IF a >= critical THEN "critical" ELSE "warning"
                    /\ q = IF b >= critical THEN "critical" ELSE "warning"
    OBVIOUS
  <2>3. /\ p \in {"info", "warning", "critical"} /\ q \in {"info", "warning", "critical"}
        /\ Rank(p) <= Rank(q)
    BY <2>1, <2>2, Ranks
  <2>4. PICK F, G : /\ F = Graded(rule, target, a, warning, critical)
                    /\ G = Graded(rule, target, b, warning, critical)
    OBVIOUS
  <2>5. F = {Finding(rule, target, p)} /\ G = {Finding(rule, target, q)}
    BY <1>2, <2>1, <2>2, <2>4 DEF Graded
  <2>6. NoMilder(F, G)
    BY <2>3, <2>5, NoMilderOne
  <2> QED
    BY <2>4, <2>6
<1> QED
  BY <1>1, <1>2

\* A note whose condition still holds is no milder.
LEMMA NoMilderNote ==
  ASSUME NEW name, NEW severity \in {"info", "warning", "critical"}, NEW F, NEW G,
         F \subseteq Note(name, severity), F # {} => G = Note(name, severity)
  PROVE  NoMilder(F, G)
<1>1. Rank(severity) <= Rank(severity)
  BY Ranks
<1>2. PICK target : target = <<"setting", name>>
  OBVIOUS
<1>3. Note(name, severity) = {Finding("configuration", target, severity)}
  BY <1>2 DEF Note
<1> QED
  BY <1>1, <1>3, NoMilderOne

\* v is w, or worse in what is Ordered.
Worsens(f, w, v) ==
  \A x \in DOMAIN Measures[f] :
    /\ w[x] \in Measures[f][x] /\ v[x] \in Measures[f][x]
    /\ v[x] = w[x] \/ (x \in Ordered[f] /\ NoBetter(f, x, w[x], v[x]))

\* A complete analysis evaluates all rules.
LEMMA CompleteIs ==
  ASSUME NEW f, NEW w
  PROVE  Report(f, w, {}) = Judged(f, w, {})
<1> QED
  BY DEF Report, Evaluated

-----------------------------------------------------------------------------
\* Two rows of table statistics, the second no better than the first.
WorseTable(w, v) ==
  /\ w.live \in Nat /\ v.live \in Nat /\ w.live <= v.live
  /\ w.dead \in Nat /\ v.dead \in Nat /\ w.dead <= v.dead
  /\ w.seq \in Nat /\ v.seq \in Nat /\ w.seq <= v.seq
  /\ w.size \in Nat /\ v.size \in Nat /\ w.size <= v.size
  /\ w.idx \in Nat /\ v.idx = w.idx /\ v.scans = w.scans
  /\ w.vacuum \in Nat \cup {None} /\ v.vacuum \in Nat \cup {None} /\ Older(w.vacuum, v.vacuum)
  /\ w.autovacuum \in Nat \cup {None} /\ v.autovacuum \in Nat \cup {None}
  /\ Older(w.autovacuum, v.autovacuum)
  /\ w.bloat \in Nat \cup {None} /\ v.bloat \in Nat \cup {None} /\ Higher(w.bloat, v.bloat)

\* An unknown measurement is no number.
LEMMA NoneIsNoNumber == None \notin Int
<1> QED
  BY ScalesAssumption

\* A table that got worse, measurement by measurement.
LEMMA TableWorsens ==
  ASSUME NEW f \in {"table", "scanning"}, NEW w, NEW v, Worsens(f, w, v)
  PROVE  WorseTable(w, v)
<1>1. Measures[f] = TableMeasures
  BY DEF Measures
<1>2. /\ DOMAIN TableMeasures = {"live", "dead", "vacuum", "autovacuum", "analyze", "seq", "idx",
                                 "size", "bloat", "scans"}
      /\ TableMeasures["live"] = Nat /\ TableMeasures["dead"] = Nat /\ TableMeasures["seq"] = Nat
      /\ TableMeasures["idx"] = Nat /\ TableMeasures["size"] = Nat
      /\ TableMeasures["vacuum"] = Nat \cup {None} /\ TableMeasures["autovacuum"] = Nat \cup {None}
      /\ TableMeasures["bloat"] = (0..100) \cup {None}
  BY DEF TableMeasures, Maybe, Percent
<1>3. "idx" \notin Ordered[f] /\ "scans" \notin Ordered[f]
  BY DEF Ordered
<1>4. f # "table" => "vacuum" \notin Ordered[f] /\ "autovacuum" \notin Ordered[f]
  BY DEF Ordered
<1>5. \A x \in {"live", "dead", "seq", "size", "idx"} :
        w[x] \in Nat /\ v[x] \in Nat /\ (v[x] = w[x] \/ NoBetter(f, x, w[x], v[x]))
  BY <1>1, <1>2 DEF Worsens
<1>6. \A x \in {"live", "dead", "seq", "size", "idx"} : w[x] <= v[x]
  BY <1>5, NoneIsNoNumber DEF NoBetter, Higher
<1>7. \A x \in {"vacuum", "autovacuum"} :
        /\ w[x] \in Nat \cup {None} /\ v[x] \in Nat \cup {None}
        /\ v[x] = w[x] \/ (f = "table" /\ NoBetter(f, x, w[x], v[x]))
  BY <1>1, <1>2, <1>4 DEF Worsens
<1>8. \A x \in {"vacuum", "autovacuum"} : Older(w[x], v[x])
  BY <1>7 DEF NoBetter, Older
<1>9. /\ w.bloat \in (0..100) \cup {None} /\ v.bloat \in (0..100) \cup {None}
      /\ v.bloat = w.bloat \/ NoBetter(f, "bloat", w.bloat, v.bloat)
  BY <1>1, <1>2 DEF Worsens
<1>10. Higher(w.bloat, v.bloat)
  BY <1>9 DEF NoBetter, Higher
<1>11. v.idx = w.idx /\ v.scans = w.scans
  BY <1>1, <1>2, <1>3 DEF Worsens
<1> QED
  BY <1>5, <1>6, <1>7, <1>8, <1>9, <1>10, <1>11 DEF WorseTable

\* The problems of a table that are graded.
LEMMA IssuesAre ==
  ASSUME NEW s, NEW bloat
  PROVE  /\ "high_bloat" \in TableIssues(s, bloat) <=> HighBloat(bloat)
         /\ "stale_vacuum" \in TableIssues(s, bloat) <=> StaleVacuum(s)
         /\ "missing_index" \in TableIssues(s, bloat) <=> MissingIndex(s)
<1> QED
  BY DEF TableIssues

\* More scans and as many index scans: no smaller share.
LEMMA RatioGrows ==
  ASSUME NEW r \in Int, r <= 1000, NEW a \in Nat, NEW b \in Nat, NEW i \in Nat, a <= b,
         a * 1000 >= r * (a + i)
  PROVE  b * 1000 >= r * (b + i)
<1>1. PICK d \in Nat : b = a + d
  <2>1. b - a \in Nat /\ b = a + (b - a)
    OBVIOUS
  <2> QED
    BY <2>1
<1>2. r * (b + i) = r * (a + i) + r * d
  BY <1>1
<1>3. r * d <= 1000 * d
  OBVIOUS
<1>4. r * (a + i) \in Int /\ r * d \in Int
  OBVIOUS
<1> QED
  BY <1>1, <1>2, <1>3, <1>4

\* A worse table is reported no milder.
LEMMA WorseTableSays ==
  ASSUME NEW f \in {"table", "scanning"}, NEW w, NEW v, WorseTable(w, v)
  PROVE  NoMilder(Report(f, w, {}), Report(f, v, {}))
<1>1. NoMilder(BloatRule(w, w.bloat), BloatRule(v, v.bloat))
  <2>1. CASE ~HighBloat(w.bloat)
    BY <2>1, IssuesAre DEF BloatRule, NoMilder
  <2>2. CASE HighBloat(w.bloat)
    <3>1. /\ w.bloat \in Int /\ v.bloat \in Int /\ v.bloat # None /\ w.bloat <= v.bloat
      BY <2>2 DEF HighBloat, WorseTable, Higher
    <3>2. HighBloat(v.bloat)
      BY <2>2, <3>1, AnalyzerConfigIs DEF HighBloat
    <3>3. /\ BloatRule(w, w.bloat) = Graded("bloat", Table, w.bloat, 0, C.bloatPercentCritical)
          /\ BloatRule(v, v.bloat) = Graded("bloat", Table, v.bloat, 0, C.bloatPercentCritical)
      BY <2>2, <3>2, IssuesAre DEF BloatRule
    <3>4. 0 \in Int /\ C.bloatPercentCritical \in Int
      BY ConfigIs
    <3> QED
      BY <3>1, <3>3, <3>4, NoMilderGraded
  <2> QED
    BY <2>1, <2>2
<1>2. NoMilder(VacuumRule(w, w.bloat), VacuumRule(v, v.bloat))
  <2>1. StaleVacuum(w) => StaleVacuum(v)
    <3>1. PICK a, b, c, d : a = w.vacuum /\ b = w.autovacuum /\ c = v.vacuum /\ d = v.autovacuum
      OBVIOUS
    <3>2. /\ a \in Nat \cup {None} /\ b \in Nat \cup {None} /\ c \in Nat \cup {None}
          /\ d \in Nat \cup {None} /\ Older(a, c) /\ Older(b, d)
      BY <3>1 DEF WorseTable
    <3>3. /\ LastVacuum(w) = IF a = None THEN b ELSE IF b = None THEN a ELSE AtMost(a, b)
          /\ LastVacuum(v) = IF c = None THEN d ELSE IF d = None THEN c ELSE AtMost(c, d)
      BY <3>1 DEF LastVacuum
    <3>4. LastVacuum(w) = None \/ LastVacuum(w) > 7 => LastVacuum(v) = None \/ LastVacuum(v) > 7
      BY <3>2, <3>3, NoneIsNoNumber DEF Older, AtMost
    <3>5. w.live >= 1000 /\ w.dead > 1000 => v.live >= 1000 /\ v.dead > 1000
      BY DEF WorseTable
    <3> QED
      BY <3>4, <3>5, AnalyzerConfigIs DEF StaleVacuum
  <2>2. VacuumRule(w, w.bloat) \subseteq VacuumRule(v, v.bloat)
    BY <2>1, IssuesAre DEF VacuumRule
  <2>3. \A s \in VacuumRule(w, w.bloat) : s.severity \in {"info", "warning", "critical"}
    BY SeverityIs DEF VacuumRule
  <2> QED
    BY <2>2, <2>3, NoMilderSame
<1>3. PICK recs : recs = RecommendIndexes(Planned(w.scans, {})) /\ recs = RecommendIndexes(Planned(v.scans, {}))
  BY DEF WorseTable
<1>4. NoMilder(MissingIndexRule(w, w.bloat, recs), MissingIndexRule(v, v.bloat, recs))
  <2>1. ASSUME NEW r \in Int, r <= 1000, ScannedAtRatio(w, r) PROVE ScannedAtRatio(v, r)
    <3>1. /\ w.seq \in Nat /\ v.seq \in Nat /\ w.idx \in Nat /\ w.seq <= v.seq /\ v.idx = w.idx
      BY DEF WorseTable
    <3>2. w.seq * 1000 >= r * (w.seq + w.idx)
      BY <2>1 DEF ScannedAtRatio
    <3>3. v.seq * 1000 >= r * (v.seq + w.idx)
      BY <2>1, <3>1, <3>2, RatioGrows
    <3> QED
      BY <3>1, <3>3 DEF ScannedAtRatio
  <2>2. MissingIndex(w) => MissingIndex(v)
    <3>1. w.live >= A.minTableSizeForIndex => v.live >= A.minTableSizeForIndex
      BY AnalyzerConfigIs DEF WorseTable
    <3>2. w.seq + w.idx > 0 /\ w.seq >= 100 => v.seq + v.idx > 0 /\ v.seq >= 100
      BY DEF WorseTable
    <3>3. ScannedAtRatio(w, A.seqScanRatioWarning) => ScannedAtRatio(v, A.seqScanRatioWarning)
      BY <2>1, AnalyzerConfigIs
    <3> QED
      BY <3>1, <3>2, <3>3 DEF MissingIndex
  <2>3. w.size >= C.minTableSizeForIndex => v.size >= C.minTableSizeForIndex
    BY ConfigIs DEF WorseTable
  <2>4. ScannedAtRatio(w, C.seqScanRatioCritical) => ScannedAtRatio(v, C.seqScanRatioCritical)
    BY <2>1, ConfigIs
  <2>5. PICK p, q : /\ p = IF ScannedAtRatio(w, C.seqScanRatioCritical) THEN "warning" ELSE "info"
                    /\ q = IF ScannedAtRatio(v, C.seqScanRatioCritical) THEN "warning" ELSE "info"
    OBVIOUS
  <2>6. /\ p \in {"info", "warning", "critical"} /\ q \in {"info", "warning", "critical"}
        /\ Rank(p) <= Rank(q)
    BY <2>4, <2>5, Ranks
  <2>7. PICK F, G : F = MissingIndexRule(w, w.bloat, recs) /\ G = MissingIndexRule(v, v.bloat, recs)
    OBVIOUS
  <2>8. F \subseteq {Finding("missing_index", Table, p)}
    BY <2>5, <2>7 DEF MissingIndexRule
  <2>9. F # {} => Finding("missing_index", Table, q) \in G
    BY <2>2, <2>3, <2>5, <2>7, IssuesAre DEF MissingIndexRule
  <2>10. NoMilder(F, G)
    BY <2>6, <2>8, <2>9, NoMilderOne
  <2> QED
    BY <2>7, <2>10
<1>5. NoMilder(IndexRecommendationRule(recs), IndexRecommendationRule(recs))
  <2>1. ASSUME NEW s \in IndexRecommendationRule(recs)
        PROVE  s.severity \in {"info", "warning", "critical"}
    <3>1. PICK severity \in {"info", "warning"} :
            \E target : s = Finding("index_recommendation", target, severity)
      BY DEF IndexRecommendationRule
    <3> QED
      BY <3>1, SeverityIs
  <2> QED
    BY <2>1, NoMilderSame
<1>6. NoMilder(BloatRule(w, w.bloat) \cup VacuumRule(w, w.bloat),
               BloatRule(v, v.bloat) \cup VacuumRule(v, v.bloat))
  BY <1>1, <1>2, NoMilderUnion
<1>7. NoMilder(BloatRule(w, w.bloat) \cup VacuumRule(w, w.bloat) \cup MissingIndexRule(w, w.bloat, recs),
               BloatRule(v, v.bloat) \cup VacuumRule(v, v.bloat) \cup MissingIndexRule(v, v.bloat, recs))
  BY <1>4, <1>6, NoMilderUnion
<1>8. NoMilder(BloatRule(w, w.bloat) \cup VacuumRule(w, w.bloat) \cup MissingIndexRule(w, w.bloat, recs)
                 \cup IndexRecommendationRule(recs),
               BloatRule(v, v.bloat) \cup VacuumRule(v, v.bloat) \cup MissingIndexRule(v, v.bloat, recs)
                 \cup IndexRecommendationRule(recs))
  BY <1>5, <1>7, NoMilderUnion
<1>9. UsablePlans(w, {}) = recs /\ UsablePlans(v, {}) = recs
  BY <1>3 DEF UsablePlans
<1>10. NoMilder(Judged(f, w, {}), Judged(f, v, {}))
  <2>1. ASSUME NEW u, UsablePlans(u, {}) = recs
        PROVE  Judged(f, u, {}) = BloatRule(u, u.bloat) \cup VacuumRule(u, u.bloat)
                                   \cup MissingIndexRule(u, u.bloat, recs)
                                   \cup IndexRecommendationRule(RecommendIndexes(Planned(u.scans, {})))
    BY <2>1, JudgedIs
  <2>2. RecommendIndexes(Planned(w.scans, {})) = recs /\ RecommendIndexes(Planned(v.scans, {})) = recs
    BY <1>3
  <2> QED
    BY <1>8, <1>9, <2>1, <2>2
<1> QED
  BY <1>10, CompleteIs

-----------------------------------------------------------------------------
\* The order of a measurement of which more is worse.
LEMMA MoreIsWorse ==
  ASSUME NEW f, NEW w, NEW v, Worsens(f, w, v), NEW x \in DOMAIN Measures[f],
         x \notin {"vacuum", "autovacuum", "ratio", "active", "track", "trackCounts", "logMinDuration",
                   "logLockWaits", "logTempFiles", "trackIoTiming", "pendingRestart", "idleTimeout",
                   "statementTimeout"}
  PROVE  /\ Measures[f][x] \subseteq Int => w[x] \in Int /\ v[x] \in Int /\ w[x] <= v[x]
         /\ Measures[f][x] \subseteq Int \cup {None} =>
              /\ w[x] \in Int \cup {None} /\ v[x] \in Int \cup {None}
              /\ w[x] # None => v[x] # None /\ w[x] <= v[x]
         /\ x \notin Ordered[f] => v[x] = w[x]
<1>1. /\ w[x] \in Measures[f][x] /\ v[x] \in Measures[f][x]
      /\ v[x] = w[x] \/ (x \in Ordered[f] /\ NoBetter(f, x, w[x], v[x]))
  BY DEF Worsens
<1>2. CASE v[x] = w[x]
  BY <1>1, <1>2
<1>3. CASE x \in Ordered[f] /\ NoBetter(f, x, w[x], v[x])
  <2>1. f = "vacuuming" => x = "disabledTable"
    BY <1>3 DEF Ordered
  <2>2. Higher(w[x], v[x])
    BY <1>3, <2>1 DEF NoBetter
  <2> QED
    BY <1>1, <1>3, <2>2, NoneIsNoNumber DEF Higher
<1> QED
  BY <1>1, <1>2, <1>3

\* And a worse query.
LEMMA QueriesSay ==
  ASSUME NEW w, NEW v, Worsens("queries", w, v)
  PROVE  NoMilder(SlowQueryRule(w, {}), SlowQueryRule(v, {}))
<1>1. PICK m : m = Measures["queries"]
  OBVIOUS
<1>2. m = [mean |-> Nat, deltaCalls |-> Nat, deltaMean |-> Nat]
  BY <1>1 DEF Measures
<1>3. /\ DOMAIN m = {"mean", "deltaCalls", "deltaMean"}
      /\ m["mean"] = Nat /\ m["deltaCalls"] = Nat /\ m["deltaMean"] = Nat
  BY <1>2
<1>4. /\ w.mean \in Int /\ v.mean \in Int /\ w.mean <= v.mean
      /\ w.deltaMean \in Int /\ v.deltaMean \in Int /\ w.deltaMean <= v.deltaMean
      /\ w.deltaCalls \in Nat /\ v.deltaCalls \in Nat /\ w.deltaCalls <= v.deltaCalls
  <2>1. w.mean \in Int /\ v.mean \in Int /\ w.mean <= v.mean
    BY <1>1, <1>3, MoreIsWorse
  <2>2. w.deltaMean \in Int /\ v.deltaMean \in Int /\ w.deltaMean <= v.deltaMean
    BY <1>1, <1>3, MoreIsWorse
  <2>3. w.deltaCalls \in Int /\ v.deltaCalls \in Int /\ w.deltaCalls <= v.deltaCalls
    BY <1>1, <1>3, MoreIsWorse
  <2>4. w.deltaCalls \in Nat /\ v.deltaCalls \in Nat
    BY <1>1, <1>3 DEF Worsens
  <2> QED
    BY <2>1, <2>2, <2>3, <2>4
<1>5. PICK target : target = <<"queryid", "q">>
  OBVIOUS
<1>6. PICK F, G : F = SlowQueryRule(w, {}) /\ G = SlowQueryRule(v, {})
  OBVIOUS
<1>7. /\ F = UNION {Graded("slow_query", target, k, 0, C.slowQueryCriticalMs) : k \in SlowMeans(w, {})}
      /\ G = UNION {Graded("slow_query", target, k, 0, C.slowQueryCriticalMs) : k \in SlowMeans(v, {})}
  BY <1>5, <1>6 DEF SlowQueryRule
<1>8. ASSUME NEW k \in SlowMeans(w, {})
      PROVE  \E l \in SlowMeans(v, {}) : k \in Int /\ l \in Int /\ k <= l
  BY <1>4, AnalyzerConfigIs DEF SlowMeans
<1>9. ASSUME NEW s \in F
       PROVE  \E t \in G : s.rule = t.rule /\ s.target = t.target /\ Rank(s.severity) <= Rank(t.severity)
  <2>1. PICK k \in SlowMeans(w, {}) : s \in Graded("slow_query", target, k, 0, C.slowQueryCriticalMs)
    BY <1>7
  <2>2. PICK l \in SlowMeans(v, {}) : k \in Int /\ l \in Int /\ k <= l
    BY <1>8
  <2>3. PICK H, I : /\ H = Graded("slow_query", target, k, 0, C.slowQueryCriticalMs)
                    /\ I = Graded("slow_query", target, l, 0, C.slowQueryCriticalMs)
    OBVIOUS
  <2>4. 0 \in Int /\ C.slowQueryCriticalMs \in Int
    BY ConfigIs
  <2>5. NoMilder(H, I)
    BY <2>2, <2>3, <2>4, NoMilderGraded
  <2>6. I \subseteq G
    BY <1>7, <2>3
  <2> QED
    BY <2>1, <2>3, <2>5, <2>6 DEF NoMilder
<1> QED
  BY <1>6, <1>9 DEF NoMilder

\* Worse sessions.
LEMMA SessionsSay ==
  ASSUME NEW w, NEW v, Worsens("sessions", w, v)
  PROVE  NoMilder(ConnectionSaturationRule(w, {}) \cup LongRunningQueryRule(w) \cup IdleInTransactionRule(w),
                  ConnectionSaturationRule(v, {}) \cup LongRunningQueryRule(v) \cup IdleInTransactionRule(v))
<1>1. PICK m : m = Measures["sessions"]
  OBVIOUS
<1>2. m = [now |-> Samples, peak |-> Maybe(Samples), running |-> Nat, idle |-> Nat]
  BY <1>1 DEF Measures
<1>3. DOMAIN m = {"now", "peak", "running", "idle"} /\ m["running"] = Nat /\ m["idle"] = Nat
  BY <1>2
<1>4. "now" \notin Ordered["sessions"] /\ "peak" \notin Ordered["sessions"]
  BY DEF Ordered
<1>5. v.now = w.now /\ v.peak = w.peak
  BY <1>1, <1>3, <1>4 DEF Worsens
<1>6. w.running \in Int /\ v.running \in Int /\ w.running <= v.running
  BY <1>1, <1>3, MoreIsWorse
<1>7. w.idle \in Int /\ v.idle \in Int /\ w.idle <= v.idle
  BY <1>1, <1>3, MoreIsWorse
<1>8. NoMilder(ConnectionSaturationRule(w, {}), ConnectionSaturationRule(v, {}))
  <2>1. JudgedSample(w, {}) = JudgedSample(v, {})
    BY <1>5 DEF JudgedSample, Peak
  <2>2. ConnectionSaturationRule(w, {}) = ConnectionSaturationRule(v, {})
    BY <2>1 DEF ConnectionSaturationRule
  <2>3. \A s \in ConnectionSaturationRule(w, {}) : s.severity \in {"info", "warning", "critical"}
    BY SeverityIs DEF ConnectionSaturationRule, Graded
  <2> QED
    BY <2>2, <2>3, NoMilderSame
<1>9. NoMilder(LongRunningQueryRule(w), LongRunningQueryRule(v))
  <2>1. 60 \in Int /\ 300 \in Int
    OBVIOUS
  <2> QED
    BY <1>6, <2>1, DefaultsKept, NoMilderGraded DEF LongRunningQueryRule
<1>10. NoMilder(IdleInTransactionRule(w), IdleInTransactionRule(v))
  <2>1. 60 \in Int /\ 300 \in Int
    OBVIOUS
  <2> QED
    BY <1>7, <2>1, DefaultsKept, NoMilderGraded DEF IdleInTransactionRule
<1>11. NoMilder(ConnectionSaturationRule(w, {}) \cup LongRunningQueryRule(w),
                ConnectionSaturationRule(v, {}) \cup LongRunningQueryRule(v))
  BY <1>8, <1>9, NoMilderUnion
<1> QED
  BY <1>10, <1>11, NoMilderUnion

\* A worse database.
LEMMA DatabaseSays ==
  ASSUME NEW w, NEW v, Worsens("database", w, v)
  PROVE  NoMilder(CacheRule(w) \cup HighTempUsageRule(w) \cup HighDeadlocksRule(w) \cup LockContentionRule(w),
                  CacheRule(v) \cup HighTempUsageRule(v) \cup HighDeadlocksRule(v) \cup LockContentionRule(v))
<1>1. PICK m : m = Measures["database"]
  OBVIOUS
<1>2. m = [ratio |-> 0..1000, temp |-> Nat, deadlocks |-> Nat, wait |-> Nat]
  BY <1>1 DEF Measures
<1>3. /\ DOMAIN m = {"ratio", "temp", "deadlocks", "wait"}
      /\ m["ratio"] = 0..1000 /\ m["temp"] = Nat /\ m["deadlocks"] = Nat /\ m["wait"] = Nat
  BY <1>2
<1>4. w.ratio \in Int /\ v.ratio \in Int /\ v.ratio <= w.ratio
  <2>1. PICK a, b : a = w.ratio /\ b = v.ratio
    OBVIOUS
  <2>2. a \in 0..1000 /\ b \in 0..1000 /\ (b = a \/ NoBetter("database", "ratio", a, b))
    BY <1>1, <1>3, <2>1 DEF Worsens
  <2>3. NoBetter("database", "ratio", a, b) <=> b <= a
    BY DEF NoBetter
  <2>4. a \in Int /\ b \in Int /\ b <= a
    BY <2>2, <2>3
  <2> QED
    BY <2>1, <2>4
<1>5. w.temp \in Int /\ v.temp \in Int /\ w.temp <= v.temp
  BY <1>1, <1>3, MoreIsWorse
<1>6. w.deadlocks \in Int /\ v.deadlocks \in Int /\ w.deadlocks <= v.deadlocks
  BY <1>1, <1>3, MoreIsWorse
<1>7. w.wait \in Int /\ v.wait \in Int /\ w.wait <= v.wait
  BY <1>1, <1>3, MoreIsWorse
<1>8. NoMilder(CacheRule(w), CacheRule(v))
  <2>1. PICK target : target = <<"database", "">>
    OBVIOUS
  <2>2. PICK p, q : /\ p = IF w.ratio < C.cacheHitRatioCritical THEN "critical" ELSE "warning"
                    /\ q = IF v.ratio < C.cacheHitRatioCritical THEN "critical" ELSE "warning"
    OBVIOUS
  <2>3. w.ratio < C.cacheHitRatioCritical => v.ratio < C.cacheHitRatioCritical
    BY <1>4, ConfigIs
  <2>4. /\ p \in {"info", "warning", "critical"} /\ q \in {"info", "warning", "critical"}
        /\ Rank(p) <= Rank(q)
    BY <2>2, <2>3, Ranks
  <2>5. BelowThreshold(w.ratio) => BelowThreshold(v.ratio)
    BY <1>4, AnalyzerConfigIs DEF BelowThreshold
  <2>6. PICK F, G : F = CacheRule(w) /\ G = CacheRule(v)
    OBVIOUS
  <2>7. F \subseteq {Finding("cache", target, p)} /\ (F # {} => Finding("cache", target, q) \in G)
    BY <2>1, <2>2, <2>5, <2>6 DEF CacheRule
  <2>8. NoMilder(F, G)
    BY <2>4, <2>7, NoMilderOne
  <2> QED
    BY <2>6, <2>8
<1>9. 1024 \in Int /\ 10240 \in Int /\ 1 \in Int /\ 5 \in Int /\ 10 \in Int /\ 60 \in Int
  OBVIOUS
<1>10. NoMilder(HighTempUsageRule(w), HighTempUsageRule(v))
  BY <1>5, <1>9, DefaultsKept, NoMilderGraded DEF HighTempUsageRule
<1>11. NoMilder(HighDeadlocksRule(w), HighDeadlocksRule(v))
  BY <1>6, <1>9, DefaultsKept, NoMilderGraded DEF HighDeadlocksRule
<1>12. NoMilder(LockContentionRule(w), LockContentionRule(v))
  BY <1>7, <1>9, DefaultsKept, NoMilderGraded DEF LockContentionRule
<1>13. NoMilder(CacheRule(w) \cup HighTempUsageRule(w), CacheRule(v) \cup HighTempUsageRule(v))
  BY <1>8, <1>10, NoMilderUnion
<1>14. NoMilder(CacheRule(w) \cup HighTempUsageRule(w) \cup HighDeadlocksRule(w),
                CacheRule(v) \cup HighTempUsageRule(v) \cup HighDeadlocksRule(v))
  BY <1>11, <1>13, NoMilderUnion
<1> QED
  BY <1>12, <1>14, NoMilderUnion

\* Older transactions.
LEMMA FreezingSays ==
  ASSUME NEW w, NEW v, Worsens("freezing", w, v)
  PROVE  NoMilder(WraparoundRule(w, {}), WraparoundRule(v, {}))
<1>1. PICK m : m = Measures["freezing"]
  OBVIOUS
<1>2. m = [xid |-> Nat, mxid |-> Nat, freezeMax |-> Nat, multixactFreezeMax |-> Nat]
  BY <1>1 DEF Measures
<1>3. /\ DOMAIN m = {"xid", "mxid", "freezeMax", "multixactFreezeMax"}
      /\ m["xid"] = Nat /\ m["mxid"] = Nat /\ m["freezeMax"] = Nat /\ m["multixactFreezeMax"] = Nat
  BY <1>2
<1>4. "freezeMax" \notin Ordered["freezing"] /\ "multixactFreezeMax" \notin Ordered["freezing"]
  BY DEF Ordered
<1>5. w.xid \in Int /\ v.xid \in Int /\ w.xid <= v.xid
  BY <1>1, <1>3, MoreIsWorse
<1>6. w.mxid \in Int /\ v.mxid \in Int /\ w.mxid <= v.mxid
  BY <1>1, <1>3, MoreIsWorse
<1>7. /\ v.freezeMax = w.freezeMax /\ v.multixactFreezeMax = w.multixactFreezeMax
      /\ w.freezeMax \in Nat /\ w.multixactFreezeMax \in Nat
  BY <1>1, <1>3, <1>4 DEF Worsens
<1>8. \A n \in Nat : WarnAt(n) \in Int
  <2>1. C.freezeMaxAgeFactor[1] = 3 /\ C.freezeMaxAgeFactor[2] = 2 /\ C.xidAgeWarning \in Int
    BY DefaultsKept
  <2>2. \A n \in Nat : (n * 3) \div 2 \in Int
    OBVIOUS
  <2> QED
    BY <2>1, <2>2 DEF WarnAt, AtMost
<1>9. C.xidAgeCritical \in Int
  BY DefaultsKept
<1>10. PICK target : target = <<"database", "d">>
  OBVIOUS
<1>11. PICK a, b : a = WarnAt(w.freezeMax) /\ b = WarnAt(w.multixactFreezeMax)
  OBVIOUS
<1>12. a \in Int /\ b \in Int
  BY <1>7, <1>8, <1>11
<1>13. NoMilder(Graded("xid_wraparound", target, w.xid, a, C.xidAgeCritical),
                Graded("xid_wraparound", target, v.xid, a, C.xidAgeCritical))
  BY <1>5, <1>9, <1>12, NoMilderGraded
<1>14. NoMilder(Graded("multixact_wraparound", target, w.mxid, b, C.xidAgeCritical),
                Graded("multixact_wraparound", target, v.mxid, b, C.xidAgeCritical))
  BY <1>6, <1>9, <1>12, NoMilderGraded
<1>15. WraparoundRule(w, {}) = Graded("xid_wraparound", target, w.xid, a, C.xidAgeCritical)
                               \cup Graded("multixact_wraparound", target, w.mxid, b, C.xidAgeCritical)
  BY <1>10, <1>11 DEF WraparoundRule, RowsRead
<1>16. WraparoundRule(v, {}) = Graded("xid_wraparound", target, v.xid, a, C.xidAgeCritical)
                               \cup Graded("multixact_wraparound", target, v.mxid, b, C.xidAgeCritical)
  BY <1>7, <1>10, <1>11 DEF WraparoundRule, RowsRead
<1> QED
  BY <1>13, <1>14, <1>15, <1>16, NoMilderUnion

\* Slots that retain more.
LEMMA SlotsSay ==
  ASSUME NEW w, NEW v, Worsens("slots", w, v)
  PROVE  NoMilder(ReplicationSlotRule(w, {}), ReplicationSlotRule(v, {}))
<1>1. PICK m : m = Measures["slots"]
  OBVIOUS
<1>2. m = [retained |-> Nat, active |-> BOOLEAN, wal |-> STRING, xmin |-> Nat, lag |-> Maybe(Nat)]
  BY <1>1 DEF Measures
<1>3. /\ DOMAIN m = {"retained", "active", "wal", "xmin", "lag"}
      /\ m["retained"] = Nat /\ m["active"] = BOOLEAN /\ m["xmin"] = Nat /\ m["lag"] = Nat \cup {None}
  BY <1>2 DEF Maybe
<1>4. "wal" \notin Ordered["slots"]
  BY DEF Ordered
<1>5. w.retained \in Int /\ v.retained \in Int /\ w.retained <= v.retained
  BY <1>1, <1>3, MoreIsWorse
<1>6. w.xmin \in Int /\ v.xmin \in Int /\ w.xmin <= v.xmin
  BY <1>1, <1>3, MoreIsWorse
<1>7. /\ w.lag \in Int \cup {None} /\ v.lag \in Int \cup {None}
      /\ w.lag # None => v.lag # None /\ w.lag <= v.lag
  BY <1>1, <1>3, MoreIsWorse
<1>8. v.wal = w.wal
  BY <1>1, <1>3, <1>4 DEF Worsens
<1>9. v.active => w.active
  <2>1. v.active = w.active \/ NoBetter("slots", "active", w.active, v.active)
    BY <1>1, <1>3 DEF Worsens
  <2> QED
    BY <2>1 DEF NoBetter
<1>10. SlotSeverities(w) \subseteq SlotSeverities(v)
  <2>1. /\ w.retained >= C.slotRetainedCritical => v.retained >= C.slotRetainedCritical
        /\ w.retained >= C.slotRetainedWarning => v.retained >= C.slotRetainedWarning
        /\ w.xmin >= C.xidAgeWarning => v.xmin >= C.xidAgeWarning
    BY <1>5, <1>6, DefaultsKept
  <2> QED
    BY <1>8, <1>9, <2>1, Zenon DEF SlotSeverities
<1>11. PICK F, G : /\ F = {Finding("replication_slot", <<"slot", "s">>, Worst(SlotSeverities(s)))
                             : s \in {s \in RowsRead("replication_slots", {}, {w}) : SlotSeverities(s) # {}}}
                   /\ G = {Finding("replication_slot", <<"slot", "s">>, Worst(SlotSeverities(s)))
                             : s \in {s \in RowsRead("replication_slots", {}, {v}) : SlotSeverities(s) # {}}}
  OBVIOUS
<1>12. NoMilder(F, G)
  <2>1. PICK p, q : p = Worst(SlotSeverities(w)) /\ q = Worst(SlotSeverities(v))
    OBVIOUS
  <2>2. /\ p \in {"info", "warning", "critical"} /\ q \in {"info", "warning", "critical"}
        /\ Rank(p) <= Rank(q)
    BY <1>10, <2>1, Ranks DEF Worst
  <2>3. PICK target : target = <<"slot", "s">>
    OBVIOUS
  <2>4. F \subseteq {Finding("replication_slot", target, p)}
    BY <1>11, <2>1, <2>3 DEF RowsRead
  <2>5. F # {} => Finding("replication_slot", target, q) \in G
    BY <1>10, <1>11, <2>1, <2>3 DEF RowsRead
  <2> QED
    BY <2>2, <2>4, <2>5, NoMilderOne
<1>13. PICK H, I : /\ H = {Finding("replication_slot", <<"replica", "r">>, "warning")
                             : r \in {r \in RowsRead("replication", {}, {w}) :
                                        r.lag # None /\ r.lag >= C.replicaLagWarningSeconds}}
                   /\ I = {Finding("replication_slot", <<"replica", "r">>, "warning")
                             : r \in {r \in RowsRead("replication", {}, {v}) :
                                        r.lag # None /\ r.lag >= C.replicaLagWarningSeconds}}
  OBVIOUS
<1>14. NoMilder(H, I)
  <2>1. w.lag # None /\ w.lag >= C.replicaLagWarningSeconds
          => v.lag # None /\ v.lag >= C.replicaLagWarningSeconds
    BY <1>7, DefaultsKept
  <2>2. H \subseteq I
    BY <1>13, <2>1 DEF RowsRead
  <2>3. \A s \in H : s.severity \in {"info", "warning", "critical"}
    BY <1>13, SeverityIs
  <2> QED
    BY <2>2, <2>3, NoMilderSame
<1>15. ReplicationSlotRule(w, {}) = F \cup H /\ ReplicationSlotRule(v, {}) = G \cup I
  BY <1>11, <1>13 DEF ReplicationSlotRule
<1> QED
  BY <1>12, <1>14, <1>15, NoMilderUnion

\* More connections, a fuller sequence.
LEMMA LimitsSay ==
  ASSUME NEW w, NEW v, Worsens("limits", w, v)
  PROVE  NoMilder(SequenceExhaustionRule(w, {}) \cup PreparedTransactionRule(w, {}),
                  SequenceExhaustionRule(v, {}) \cup PreparedTransactionRule(v, {}))
<1>1. PICK m : m = Measures["limits"]
  OBVIOUS
<1>2. m = [used |-> Nat, prepared |-> Nat]
  BY <1>1 DEF Measures
<1>3. DOMAIN m = {"used", "prepared"} /\ m["used"] = Nat /\ m["prepared"] = Nat
  BY <1>2
<1>4. w.used \in Int /\ v.used \in Int /\ w.used <= v.used
  BY <1>1, <1>3, MoreIsWorse
<1>5. w.prepared \in Int /\ v.prepared \in Int /\ w.prepared <= v.prepared
  BY <1>1, <1>3, MoreIsWorse
<1>6. 750 \in Int /\ 900 \in Int /\ 3600 \in Int /\ 86400 \in Int
  OBVIOUS
<1>7. PICK s, p : s = <<"sequence", "s">> /\ p = <<"prepared", "p">>
  OBVIOUS
<1>8. NoMilder(Graded("sequence_exhaustion", s, w.used, 750, 900),
               Graded("sequence_exhaustion", s, v.used, 750, 900))
  BY <1>4, <1>6, NoMilderGraded
<1>9. NoMilder(Graded("prepared_transaction", p, w.prepared, 3600, 86400),
               Graded("prepared_transaction", p, v.prepared, 3600, 86400))
  BY <1>5, <1>6, NoMilderGraded
<1>10. \A u : /\ SequenceExhaustionRule(u, {}) = Graded("sequence_exhaustion", s, u.used, 750, 900)
              /\ PreparedTransactionRule(u, {}) = Graded("prepared_transaction", p, u.prepared, 3600, 86400)
  BY <1>7, DefaultsKept DEF SequenceExhaustionRule, PreparedTransactionRule, RowsRead
<1> QED
  BY <1>8, <1>9, <1>10, NoMilderUnion

\* More temporary files and requested checkpoints.
LEMMA DiskSays ==
  ASSUME NEW w, NEW v, Worsens("disk", w, v)
  PROVE  NoMilder(DiskGrowthRule(w, {}, w.capacity), DiskGrowthRule(v, {}, v.capacity))
<1>1. PICK m : m = Measures["disk"]
  OBVIOUS
<1>2. m = [growth |-> Int, current |-> Nat, capacity |-> Nat]
  BY <1>1 DEF Measures
<1>3. /\ DOMAIN m = {"growth", "current", "capacity"}
      /\ m["growth"] = Int /\ m["current"] = Nat /\ m["capacity"] = Nat
  BY <1>2
<1>4. "current" \notin Ordered["disk"] /\ "capacity" \notin Ordered["disk"]
  BY DEF Ordered
<1>5. w.growth \in Int /\ v.growth \in Int /\ w.growth <= v.growth
  BY <1>1, <1>3, MoreIsWorse
<1>6. /\ v.current = w.current /\ v.capacity = w.capacity
      /\ w.current \in Nat /\ w.capacity \in Nat
  BY <1>1, <1>3, <1>4 DEF Worsens
<1>7. PICK a, b, current, capacity : /\ a = w.growth /\ b = v.growth
                                     /\ current = w.current /\ capacity = w.capacity
  OBVIOUS
<1>8. /\ SizeTrend(w, {}) = [growth |-> a, current |-> current]
      /\ SizeTrend(v, {}) = [growth |-> b, current |-> current]
  BY <1>6, <1>7 DEF SizeTrend
<1> DEFINE Foretold(g) == IF capacity > 0 THEN Forecast([growth |-> g, current |-> current], capacity)
                      ELSE IF g * 90 >= current THEN {"info"} ELSE {}
<1>9. ASSUME NEW p \in Foretold(a), a > 0
      PROVE  \E q \in Foretold(b) : /\ p \in {"info", "warning", "critical"}
                                   /\ q \in {"info", "warning", "critical"}
                                /\ Rank(p) <= Rank(q)
  <2>1. a \in Int /\ b \in Int /\ a <= b /\ current \in Nat /\ capacity \in Nat
    BY <1>5, <1>6, <1>7
  <2>2. CASE capacity > 0
    <3>1. PICK free : free = AtLeast(capacity - current, 0) /\ free \in Int
      <4>1. capacity - current \in Int
        BY <2>1
      <4> QED
        BY <4>1 DEF AtLeast
    <3>2. /\ free < 7 * a => free < 7 * b
          /\ free < 30 * a => free < 30 * b
      BY <2>1, <3>1
    <3>3. \A g \in {a, b} :
            Forecast([growth |-> g, current |-> current], capacity) =
              IF free < 7 * g THEN {"critical"}
              ELSE IF free < 30 * g THEN {"warning"} ELSE {}
      <4>1. \A g \in {a, b} : free >= 7 * g <=> ~(free < 7 * g)
        BY <2>1, <3>1
      <4> QED
        BY <3>1, <4>1, DefaultsKept DEF Forecast
    <3> QED
      BY <1>9, <2>2, <3>2, <3>3, Ranks
  <2>3. CASE ~(capacity > 0)
    <3>1. a * 90 >= current => b * 90 >= current
      BY <2>1
    <3> QED
      BY <1>9, <2>3, <3>1, Ranks
  <2> QED
    BY <2>2, <2>3
<1>10. PICK target : target = <<"instance", "disk">>
  OBVIOUS
<1>11. PICK F, G : F = DiskGrowthRule(w, {}, w.capacity) /\ G = DiskGrowthRule(v, {}, v.capacity)
  OBVIOUS
<1>12. ASSUME NEW s \in F PROVE a > 0 /\ \E p \in Foretold(a) : s = Finding("disk_growth", target, p)
  <2>1. a \in Int /\ (a > 0 <=> ~(a <= 0))
    BY <1>5, <1>7
  <2>2. F = IF [growth |-> a, current |-> current] = None \/ a <= 0 THEN {}
            ELSE {Finding("disk_growth", target, p) : p \in Foretold(a)}
    BY <1>7, <1>8, <1>10, <1>11 DEF DiskGrowthRule
  <2> QED
    BY <2>1, <2>2
<1>13. ASSUME NEW q \in Foretold(b), b > 0, [growth |-> b, current |-> current] # None
       PROVE  Finding("disk_growth", target, q) \in G
  <2>1. ~(b <= 0)
    BY <1>5, <1>7, <1>13
  <2>2. G = IF [growth |-> b, current |-> current] = None \/ b <= 0 THEN {}
            ELSE {Finding("disk_growth", target, p) : p \in Foretold(b)}
    BY <1>6, <1>7, <1>8, <1>10, <1>11 DEF DiskGrowthRule
  <2> QED
    BY <1>13, <2>1, <2>2
<1>14. ASSUME NEW s \in F
       PROVE  \E t \in G : s.rule = t.rule /\ s.target = t.target /\ Rank(s.severity) <= Rank(t.severity)
  <2>1. a > 0 /\ b > 0
    BY <1>5, <1>7, <1>12
  <2>2. PICK p \in Foretold(a) : s = Finding("disk_growth", target, p)
    BY <1>12
  <2>3. PICK q \in Foretold(b) : Rank(p) <= Rank(q)
    BY <1>9, <2>1
  <2>4. [growth |-> b, current |-> current] # None
    <3>1. [growth |-> b, current |-> current] \in [growth : Int, current : Int]
      BY <1>5, <1>6, <1>7
    <3> QED
      BY <3>1, ScalesAssumption
  <2>5. PICK t \in G : t = Finding("disk_growth", target, q)
    BY <1>13, <2>1, <2>4
  <2> QED
    BY <2>2, <2>3, <2>5, FindingFields, SeverityIs DEF FindingIs
<1> QED
  BY <1>11, <1>14 DEF NoMilder

-----------------------------------------------------------------------------
\* A complete analysis reads every setting.
LEMMA AllRead ==
  ASSUME NEW w, NEW name
  PROVE  Get(w, {}, name) = w[name]
<1> QED
  BY DEF Get

\* Autovacuum that does less.
LEMMA VacuumingSays ==
  ASSUME NEW w, NEW v, Worsens("vacuuming", w, v)
  PROVE  NoMilder(AutovacuumReview(w, {}), AutovacuumReview(v, {}))
<1>1. PICK m : m = Measures["vacuuming"]
  OBVIOUS
<1>2. m = [autovacuum |-> Maybe(Switch), trackCounts |-> Maybe(Switch), disabledTable |-> Maybe(Nat)]
  BY <1>1 DEF Measures
<1>3. DOMAIN m = {"autovacuum", "trackCounts", "disabledTable"} /\ m["disabledTable"] = Nat \cup {None}
  BY <1>2 DEF Maybe
<1>4. /\ w.disabledTable \in Int \cup {None} /\ v.disabledTable \in Int \cup {None}
      /\ w.disabledTable # None => v.disabledTable # None /\ w.disabledTable <= v.disabledTable
  BY <1>1, <1>3, MoreIsWorse
<1>5. ASSUME NEW x \in {"autovacuum", "trackCounts"} PROVE w[x] = "off" => v[x] = "off"
  <2>1. v[x] = w[x] \/ NoBetter("vacuuming", x, w[x], v[x])
    BY <1>1, <1>3 DEF Worsens
  <2>2. NoBetter("vacuuming", x, w[x], v[x]) => (w[x] = "off" => v[x] = "off")
    BY DEF NoBetter
  <2> QED
    BY <2>1, <2>2
<1>6. NoMilder(Autovacuum(w, {}), Autovacuum(v, {}))
  <2>1. PICK F, G : F = Autovacuum(w, {}) /\ G = Autovacuum(v, {})
    OBVIOUS
  <2>2. F \subseteq Note("autovacuum", "critical") /\ (F # {} => G = Note("autovacuum", "critical"))
    BY <1>5, <2>1, AllRead DEF Autovacuum
  <2>3. NoMilder(F, G)
    BY <2>2, NoMilderNote
  <2> QED
    BY <2>1, <2>3
<1>7. NoMilder(AutovacuumDisabled(w, {}), AutovacuumDisabled(v, {}))
  <2>1. PICK a, b, target : /\ a = w.disabledTable /\ b = v.disabledTable
                            /\ target = <<"autovacuum_disabled", "t">>
    OBVIOUS
  <2>2. PICK F, G : F = AutovacuumDisabled(w, {}) /\ G = AutovacuumDisabled(v, {})
    OBVIOUS
  <2>3. PICK p, q : /\ p = IF a >= LargeAutovacuumDisabledTable THEN "critical" ELSE "warning"
                    /\ q = IF b >= LargeAutovacuumDisabledTable THEN "critical" ELSE "warning"
    OBVIOUS
  <2>4. F = IF a = None THEN {} ELSE {Finding("configuration", target, p)}
    BY <2>1, <2>2, <2>3 DEF AutovacuumDisabled, RowsRead
  <2>5. G = IF b = None THEN {} ELSE {Finding("configuration", target, q)}
    BY <2>1, <2>2, <2>3 DEF AutovacuumDisabled, RowsRead
  <2>6. CASE a = None
    BY <2>2, <2>4, <2>6 DEF NoMilder
  <2>7. CASE a # None
    <3>1. a \in Int /\ b \in Int /\ b # None /\ a <= b
      BY <1>4, <2>1, <2>7
    <3>2. a >= LargeAutovacuumDisabledTable => b >= LargeAutovacuumDisabledTable
      BY <3>1 DEF LargeAutovacuumDisabledTable
    <3>3. /\ p \in {"info", "warning", "critical"} /\ q \in {"info", "warning", "critical"}
          /\ Rank(p) <= Rank(q)
      BY <2>3, <3>2, Ranks
    <3>4. NoMilder(F, G)
      BY <2>4, <2>5, <3>1, <3>3, NoMilderOne
    <3> QED
      BY <2>2, <3>4
  <2> QED
    BY <2>6, <2>7
<1> QED
  BY <1>6, <1>7, NoMilderUnion DEF AutovacuumReview

\* Worse timeouts and logging, setting by setting.
LEMMA HygieneWorsens ==
  ASSUME NEW w, NEW v, Worsens("hygiene", w, v)
  PROVE  NoMilder(HygieneReview(w, {}), HygieneReview(v, {}))
<1>1. PICK m : m = Measures["hygiene"]
  OBVIOUS
<1>2. m = [idleTimeout |-> Maybe(Nat), idleSessions |-> Nat, statementTimeout |-> Maybe(Nat),
           logMinDuration |-> Maybe(Switch), logLockWaits |-> Maybe(Switch),
           logTempFiles |-> Maybe(Switch), trackIoTiming |-> Maybe(Switch),
           randomPageCost |-> Maybe(Nat), pendingRestart |-> Maybe(Switch)]
  BY <1>1 DEF Measures
<1>3. /\ DOMAIN m = {"idleTimeout", "idleSessions", "statementTimeout", "logMinDuration", "logLockWaits",
                     "logTempFiles", "trackIoTiming", "randomPageCost", "pendingRestart"}
      /\ m["idleSessions"] = Nat /\ m["randomPageCost"] = Nat \cup {None}
  BY <1>2 DEF Maybe
<1>4. ASSUME NEW x \in {"logMinDuration", "logLockWaits", "logTempFiles", "trackIoTiming"}
      PROVE  w[x] = "off" => v[x] = "off"
  <2>1. v[x] = w[x] \/ NoBetter("hygiene", x, w[x], v[x])
    BY <1>1, <1>3 DEF Worsens
  <2>2. NoBetter("hygiene", x, w[x], v[x]) => (w[x] = "off" => v[x] = "off")
    BY DEF NoBetter
  <2> QED
    BY <2>1, <2>2
<1>5. ASSUME NEW x \in {"idleTimeout", "statementTimeout"} PROVE w[x] = 0 => v[x] = 0
  <2>1. v[x] = w[x] \/ NoBetter("hygiene", x, w[x], v[x])
    BY <1>1, <1>3 DEF Worsens
  <2>2. NoBetter("hygiene", x, w[x], v[x]) => (w[x] = 0 => v[x] = 0)
    BY DEF NoBetter
  <2> QED
    BY <2>1, <2>2
<1>6. w.pendingRestart = "on" => v.pendingRestart = "on"
  <2>1. PICK a, b : a = w.pendingRestart /\ b = v.pendingRestart
    OBVIOUS
  <2>2. b = a \/ NoBetter("hygiene", "pendingRestart", a, b)
    BY <1>1, <1>3, <2>1 DEF Worsens
  <2>3. NoBetter("hygiene", "pendingRestart", a, b) => (a = "on" => b = "on")
    BY DEF NoBetter
  <2> QED
    BY <2>1, <2>2, <2>3
<1>7. w.idleSessions \in Int /\ v.idleSessions \in Int /\ w.idleSessions <= v.idleSessions
  BY <1>1, <1>3, MoreIsWorse
<1>8. /\ w.randomPageCost \in Int \cup {None} /\ v.randomPageCost \in Int \cup {None}
      /\ w.randomPageCost # None => v.randomPageCost # None /\ w.randomPageCost <= v.randomPageCost
  BY <1>1, <1>3, MoreIsWorse
<1>9. NoMilder(IdleInTransactionTimeout(w, {}), IdleInTransactionTimeout(v, {}))
  <2>1. PICK p, q : /\ p = IF w.idleSessions > 0 THEN "warning" ELSE "info"
                    /\ q = IF v.idleSessions > 0 THEN "warning" ELSE "info"
    OBVIOUS
  <2>2. /\ p \in {"info", "warning", "critical"} /\ q \in {"info", "warning", "critical"}
        /\ Rank(p) <= Rank(q)
    BY <1>7, <2>1, Ranks
  <2>3. PICK name, target : /\ name = "idle_in_transaction_session_timeout"
                            /\ target = <<"setting", name>>
    OBVIOUS
  <2>4. PICK F, G : F = IdleInTransactionTimeout(w, {}) /\ G = IdleInTransactionTimeout(v, {})
    OBVIOUS
  <2>5. /\ F = IF w.idleTimeout # 0 THEN {} ELSE Note(name, p)
        /\ G = IF v.idleTimeout # 0 THEN {} ELSE Note(name, q)
    BY <2>1, <2>3, <2>4, AllRead DEF IdleInTransactionTimeout
  <2>6. /\ Note(name, p) = {Finding("configuration", target, p)}
        /\ Note(name, q) = {Finding("configuration", target, q)}
    BY <2>3 DEF Note
  <2>7. /\ F \subseteq {Finding("configuration", target, p)}
        /\ (F # {} => Finding("configuration", target, q) \in G)
    BY <1>5, <2>5, <2>6
  <2>8. NoMilder(F, G)
    BY <2>2, <2>7, NoMilderOne
  <2> QED
    BY <2>4, <2>8
<1>10. NoMilder(StatementTimeout(w, {}), StatementTimeout(v, {}))
  <2>1. PICK F, G : F = StatementTimeout(w, {}) /\ G = StatementTimeout(v, {})
    OBVIOUS
  <2>2. /\ F \subseteq Note("statement_timeout", "info")
        /\ (F # {} => G = Note("statement_timeout", "info"))
    BY <1>5, <2>1, AllRead DEF StatementTimeout
  <2>3. NoMilder(F, G)
    BY <2>2, NoMilderNote
  <2> QED
    BY <2>1, <2>3
<1>11. NoMilder(Observability(w, {}), Observability(v, {}))
  <2>1. PICK F, G : F = Observability(w, {}) /\ G = Observability(v, {})
    OBVIOUS
  <2>2. F \subseteq Note("observability", "info") /\ (F # {} => G = Note("observability", "info"))
    BY <1>4, <2>1, AllRead DEF Observability
  <2>3. NoMilder(F, G)
    BY <2>2, NoMilderNote
  <2> QED
    BY <2>1, <2>3
<1>12. NoMilder(RandomPageCost(w, {}), RandomPageCost(v, {}))
  <2>1. PICK F, G : F = RandomPageCost(w, {}) /\ G = RandomPageCost(v, {})
    OBVIOUS
  <2>2. w.randomPageCost # None /\ w.randomPageCost >= 4
          => v.randomPageCost # None /\ v.randomPageCost >= 4
    BY <1>8
  <2>3. F \subseteq Note("random_page_cost", "info") /\ (F # {} => G = Note("random_page_cost", "info"))
    BY <2>1, <2>2, AllRead DEF RandomPageCost
  <2>4. NoMilder(F, G)
    BY <2>3, NoMilderNote
  <2> QED
    BY <2>1, <2>4
<1>13. NoMilder(PendingRestart(w, {}), PendingRestart(v, {}))
  <2>1. PICK F, G : F = PendingRestart(w, {}) /\ G = PendingRestart(v, {})
    OBVIOUS
  <2>2. F \subseteq Note("pending_restart", "info") /\ (F # {} => G = Note("pending_restart", "info"))
    BY <1>6, <2>1, AllRead DEF PendingRestart
  <2>3. NoMilder(F, G)
    BY <2>2, NoMilderNote
  <2> QED
    BY <2>1, <2>3
<1>14. NoMilder(IdleInTransactionTimeout(w, {}) \cup StatementTimeout(w, {}),
                IdleInTransactionTimeout(v, {}) \cup StatementTimeout(v, {}))
  BY <1>9, <1>10, NoMilderUnion
<1>15. NoMilder(IdleInTransactionTimeout(w, {}) \cup StatementTimeout(w, {}) \cup Observability(w, {}),
                IdleInTransactionTimeout(v, {}) \cup StatementTimeout(v, {}) \cup Observability(v, {}))
  BY <1>11, <1>14, NoMilderUnion
<1>16. NoMilder(IdleInTransactionTimeout(w, {}) \cup StatementTimeout(w, {}) \cup Observability(w, {})
                  \cup RandomPageCost(w, {}),
                IdleInTransactionTimeout(v, {}) \cup StatementTimeout(v, {}) \cup Observability(v, {})
                  \cup RandomPageCost(v, {}))
  BY <1>12, <1>15, NoMilderUnion
<1> QED
  BY <1>13, <1>16, NoMilderUnion DEF HygieneReview

\* Products of larger numbers are larger.
LEMMA ProductGrows ==
  ASSUME NEW a \in Nat, NEW b \in Nat, NEW c \in Nat, NEW d \in Nat, a <= c, b <= d
  PROVE  a * b <= c * d
<1>1. a * b <= c * b
  OBVIOUS
<1>2. c * b <= c * d
  OBVIOUS
<1>3. a * b \in Nat /\ c * b \in Nat /\ c * d \in Nat
  OBVIOUS
<1> QED
  BY <1>1, <1>2, <1>3

\* Worse memory settings.
LEMMA MemoryWorsens ==
  ASSUME NEW w, NEW v, Worsens("memory", w, v)
  PROVE  NoMilder(MemoryReview(w, {}, w.memory), MemoryReview(v, {}, v.memory))
<1>1. PICK m : m = Measures["memory"]
  OBVIOUS
<1>2. m = [sharedBuffers |-> Maybe(Nat), workMem |-> Maybe(Nat), maxConnections |-> Maybe(Nat),
           cluster |-> Nat, memory |-> Nat]
  BY <1>1 DEF Measures
<1>3. /\ DOMAIN m = {"sharedBuffers", "workMem", "maxConnections", "cluster", "memory"}
      /\ m["sharedBuffers"] = Nat \cup {None} /\ m["workMem"] = Nat \cup {None}
      /\ m["maxConnections"] = Nat \cup {None} /\ m["cluster"] = Nat /\ m["memory"] = Nat
  BY <1>2 DEF Maybe
<1>4. "sharedBuffers" \notin Ordered["memory"] /\ "memory" \notin Ordered["memory"]
  BY DEF Ordered
<1>5. /\ v.sharedBuffers = w.sharedBuffers /\ v.memory = w.memory
      /\ w.sharedBuffers \in Nat \cup {None} /\ w.memory \in Nat
      /\ w.workMem \in Nat \cup {None} /\ v.workMem \in Nat \cup {None}
      /\ w.maxConnections \in Nat \cup {None} /\ v.maxConnections \in Nat \cup {None}
  BY <1>1, <1>3, <1>4 DEF Worsens
<1>6. w.cluster \in Int /\ v.cluster \in Int /\ w.cluster <= v.cluster
  BY <1>1, <1>3, MoreIsWorse
<1>7. w.workMem # None => v.workMem # None /\ w.workMem <= v.workMem
  BY <1>1, <1>3, MoreIsWorse
<1>8. w.maxConnections # None => v.maxConnections # None /\ w.maxConnections <= v.maxConnections
  BY <1>1, <1>3, MoreIsWorse
<1>9. NoMilder(SharedBuffers(w, {}, w.memory), SharedBuffers(v, {}, v.memory))
  <2>1. PICK F, G : F = SharedBuffers(w, {}, w.memory) /\ G = SharedBuffers(v, {}, v.memory)
    OBVIOUS
  <2>2. ClusterSize(w, {}) = w.cluster /\ ClusterSize(v, {}) = v.cluster
    BY DEF ClusterSize
  <2>3. w.cluster >= UntunedClusterSize => v.cluster >= UntunedClusterSize
    BY <1>6 DEF UntunedClusterSize
  <2>4. /\ F \subseteq Note("shared_buffers", "warning")
        /\ (F # {} => G = Note("shared_buffers", "warning"))
    BY <1>5, <2>1, <2>2, <2>3, AllRead DEF SharedBuffers
  <2>5. NoMilder(F, G)
    BY <2>4, NoMilderNote
  <2> QED
    BY <2>1, <2>5
<1>10. NoMilder(WorkMem(w, {}, w.memory), WorkMem(v, {}, v.memory))
  <2>1. PICK F, G : F = WorkMem(w, {}, w.memory) /\ G = WorkMem(v, {}, v.memory)
    OBVIOUS
  <2>2. PICK a, b, c, d, sb, memory : /\ a = w.maxConnections /\ b = w.workMem
                                      /\ c = v.maxConnections /\ d = v.workMem
                                      /\ sb = w.sharedBuffers /\ memory = w.memory
    OBVIOUS
  <2>3. F = IF memory > 0 /\ None \notin {b, a, sb} /\ a * b + sb > memory
            THEN Note("work_mem", "warning") ELSE {}
    BY <2>1, <2>2, AllRead DEF WorkMem
  <2>4. G = IF memory > 0 /\ None \notin {d, c, sb} /\ c * d + sb > memory
            THEN Note("work_mem", "warning") ELSE {}
    BY <1>5, <2>1, <2>2, AllRead DEF WorkMem
  <2>5. None \notin {b, a, sb} /\ a * b + sb > memory => None \notin {d, c, sb} /\ c * d + sb > memory
    <3>1. SUFFICES ASSUME None \notin {b, a, sb}, a * b + sb > memory
                   PROVE  None \notin {d, c, sb} /\ c * d + sb > memory
      OBVIOUS
    <3>2. /\ a \in Nat /\ b \in Nat /\ c \in Nat /\ d \in Nat /\ sb \in Nat /\ memory \in Nat
          /\ d # None /\ c # None /\ a <= c /\ b <= d
      BY <1>5, <1>7, <1>8, <2>2, <3>1
    <3>3. a * b <= c * d /\ a * b \in Nat /\ c * d \in Nat
      BY <3>2, ProductGrows
    <3>4. c * d + sb > memory
      BY <3>1, <3>2, <3>3
    <3> QED
      BY <3>1, <3>2, <3>4
  <2>6. F \subseteq Note("work_mem", "warning") /\ (F # {} => G = Note("work_mem", "warning"))
    BY <2>3, <2>4, <2>5
  <2>7. NoMilder(F, G)
    BY <2>6, NoMilderNote
  <2> QED
    BY <2>1, <2>7
<1> QED
  BY <1>9, <1>10, NoMilderUnion DEF MemoryReview

\* Fewer statistics.
LEMMA TrackingWorsens ==
  ASSUME NEW w, NEW v, Worsens("tracking", w, v)
  PROVE  NoMilder(StatStatementsRule(w, {}), StatStatementsRule(v, {}))
<1>1. PICK m : m = Measures["tracking"]
  OBVIOUS
<1>2. m = [track |-> Maybe(STRING), entries |-> Nat, max |-> Nat, evicted |-> Nat]
  BY <1>1 DEF Measures
<1>3. /\ DOMAIN m = {"track", "entries", "max", "evicted"}
      /\ m["entries"] = Nat /\ m["max"] = Nat /\ m["evicted"] = Nat
  BY <1>2
<1>4. "max" \notin Ordered["tracking"]
  BY DEF Ordered
<1>5. w.entries \in Int /\ v.entries \in Int /\ w.entries <= v.entries
  BY <1>1, <1>3, MoreIsWorse
<1>6. w.evicted \in Int /\ v.evicted \in Int /\ w.evicted <= v.evicted
  BY <1>1, <1>3, MoreIsWorse
<1>7. v.max = w.max /\ w.max \in Nat /\ w.evicted \in Nat
  BY <1>1, <1>3, <1>4 DEF Worsens
<1>8. w.track = "none" => v.track = "none"
  <2>1. PICK a, b : a = w.track /\ b = v.track
    OBVIOUS
  <2>2. b = a \/ NoBetter("tracking", "track", a, b)
    BY <1>1, <1>3, <2>1 DEF Worsens
  <2>3. NoBetter("tracking", "track", a, b) => (a = "none" => b = "none")
    BY DEF NoBetter
  <2> QED
    BY <2>1, <2>2, <2>3
<1>9. Filling(w) => Filling(v)
  BY <1>5, <1>7, DefaultsKept DEF Filling
<1>10. w.evicted # 0 => v.evicted # 0
  BY <1>6, <1>7
<1>11. PICK off, full :
         /\ off = Finding("stat_statements_capacity", <<"setting", "pg_stat_statements.track">>, "warning")
         /\ full = Finding("stat_statements_capacity", <<"setting", "pg_stat_statements.max">>, "warning")
  OBVIOUS
<1>12. \A u : StatStatementsRule(u, {}) = (IF u.track = "none" THEN {off} ELSE {})
                 \cup (IF u.max > 0 /\ (Filling(u) \/ u.evicted # 0) THEN {full} ELSE {})
  BY <1>11, AllRead DEF StatStatementsRule, RowsRead, Evictions
<1>13. StatStatementsRule(w, {}) \subseteq StatStatementsRule(v, {})
  BY <1>7, <1>8, <1>9, <1>10, <1>12
<1>14. off.severity = "warning" /\ full.severity = "warning"
  BY <1>11, SeverityIs
<1>15. \A s \in StatStatementsRule(w, {}) : s.severity \in {"info", "warning", "critical"}
  BY <1>12, <1>14
<1> QED
  BY <1>13, <1>15, NoMilderSame

-----------------------------------------------------------------------------
\* Of every family.
LEMMA WorseSaysMore ==
  ASSUME NEW f \in DOMAIN Measures, f # "indexes", NEW w, NEW v, Worsens(f, w, v)
  PROVE  NoMilder(Report(f, w, {}), Report(f, v, {}))
<1>1. f \in {"table", "scanning", "queries", "sessions", "database", "freezing", "slots",
             "limits", "disk", "vacuuming", "hygiene", "memory", "tracking"}
  BY DEF Measures
<1>2. CASE f \in {"table", "scanning"}
  BY <1>2, TableWorsens, WorseTableSays
<1>3. CASE f \notin {"table", "scanning"}
  <2>1. NoMilder(Judged(f, w, {}), Judged(f, v, {}))
    <3>1. CASE f = "queries"
      BY <3>1, QueriesSay, JudgedIs
    <3>2. CASE f = "sessions"
      BY <3>2, SessionsSay, JudgedIs
    <3>3. CASE f = "database"
      BY <3>3, DatabaseSays, JudgedIs
    <3>4. CASE f = "freezing"
      BY <3>4, FreezingSays, JudgedIs
    <3>5. CASE f = "slots"
      BY <3>5, SlotsSay, JudgedIs
    <3>6. CASE f = "limits"
      BY <3>6, LimitsSay, JudgedIs
    <3>7. CASE f = "disk"
      BY <3>7, DiskSays, JudgedIs
    <3>8. CASE f = "vacuuming"
      BY <3>8, VacuumingSays, JudgedIs
    <3>9. CASE f = "hygiene"
      BY <3>9, HygieneWorsens, JudgedIs
    <3>10. CASE f = "memory"
      BY <3>10, MemoryWorsens, JudgedIs
    <3>11. CASE f = "tracking"
      BY <3>11, TrackingWorsens, JudgedIs
    <3> QED
      BY <1>1, <1>3, <3>1, <3>2, <3>3, <3>4, <3>5, <3>6, <3>7, <3>8, <3>9, <3>10, <3>11
  <2> QED
    BY <2>1, CompleteIs
<1> QED
  BY <1>2, <1>3

\* A measurement that is ordered is measured.
LEMMA OrderedMeasured ==
  ASSUME NEW f \in DOMAIN Measures
  PROVE  Ordered[f] \subseteq DOMAIN Measures[f]
<1>1. f \in {"table", "scanning", "indexes", "queries", "sessions", "database", "freezing", "slots",
             "limits", "disk", "vacuuming", "hygiene", "memory", "tracking"}
  BY DEF Measures
<1>2. CASE f \in {"table", "scanning", "indexes", "queries", "sessions", "database", "freezing"}
  BY <1>2 DEF Ordered, Measures, TableMeasures
<1>3. CASE f \in {"slots", "limits", "disk", "vacuuming", "hygiene", "memory", "tracking"}
  BY <1>3 DEF Ordered, Measures
<1> QED
  BY <1>1, <1>2, <1>3

\* A step in which an ordered measurement moves up its scale makes the server worse.
LEMMA StepWorsens ==
  ASSUME LevelsOK, LevelsOK', [Next]_vars, NEW x \in Ordered[family], level'[x] > level[x],
         NEW w, w = World, NEW v, v = World'
  PROVE  family \in DOMAIN Measures /\ Worsens(family, w, v)
<1>1. /\ family \in DOMAIN Measures /\ DOMAIN w = DOMAIN Measures[family]
      /\ \A y \in DOMAIN w : w[y] \in Measures[family][y]
  BY WorldIs
<1>2. /\ x \in DOMAIN Scales[family] /\ DOMAIN Scales[family] = DOMAIN Measures[family]
      /\ family \in DOMAIN Scales
  BY <1>1, OrderedMeasured, ScalesAssumption DEF LevelsOK, Families
<1>3. \A y \in DOMAIN Scales[family] : /\ level[y] \in DOMAIN Scales[family][y]
                                       /\ DOMAIN Scales[family][y] \subseteq Nat
  BY <1>2, ScalesAssumption DEF LevelsOK
<1>4. PICK y \in DOMAIN level : Change(y)
  <2>1. level' # level
    BY <1>2, <1>3
  <2> QED
    BY <2>1 DEF Next, Analyze, vars
<1>5. PICK k \in DOMAIN Scales[family][y] : level' = [level EXCEPT ![y] = k]
  BY <1>4 DEF Change
<1>6. family' = family /\ DOMAIN level = DOMAIN Scales[family]
  BY <1>4 DEF Change, LevelsOK
<1>7. x = y /\ k > level[x]
  BY <1>2, <1>3, <1>5, <1>6
<1>8. w = [z \in DOMAIN Scales[family] |-> Scales[family][z][level[z]]]
  BY DEF World, Observe
<1>9. v = [z \in DOMAIN Scales[family] |-> Scales[family][z][level'[z]]]
  BY <1>6 DEF World, Observe
<1>10. \A z \in DOMAIN Scales[family] : z # x => v[z] = w[z]
  BY <1>5, <1>6, <1>7, <1>8, <1>9
<1>11. v[x] = Scales[family][x][k] /\ w[x] = Scales[family][x][level[x]]
  BY <1>2, <1>5, <1>6, <1>7, <1>8, <1>9
<1>12. NoBetter(family, x, w[x], v[x])
  <2>1. level[x] \in DOMAIN Scales[family][x] /\ k \in DOMAIN Scales[family][x] /\ level[x] < k
    BY <1>2, <1>3, <1>5, <1>7
  <2> QED
    BY <1>2, <1>11, <2>1, ScalesAssumption
<1>13. v[x] \in Measures[family][x]
  <2>1. Scales[family][x] \in Seq(Measures[family][x])
    BY <1>2, ScalesAssumption
  <2> QED
    BY <1>5, <1>7, <1>11, <2>1
<1> QED
  BY <1>1, <1>2, <1>10, <1>12, <1>13 DEF Worsens

\* When nothing but one measurement changes and that one gets worse, a complete analysis reports
\* every finding it reported before, at no milder severity: no rule has a threshold that is crossed
\* backwards.
THEOREM WorseIsNeverBetter == Spec => WorseIsNoBetter
<1>1. LevelsOK /\ LevelsOK' /\ [Next]_vars =>
        [(\E x \in Ordered[family] : level'[x] > level[x]) =>
           LET after == Findings(family, World')
           IN \A s \in Findings(family, World) : \E t \in after :
              s.rule = t.rule /\ s.target = t.target /\ Rank(s.severity) <= Rank(t.severity)]_vars
  <2> SUFFICES ASSUME LevelsOK, LevelsOK', [Next]_vars, NEW x \in Ordered[family], level'[x] > level[x]
               PROVE  NoMilder(Findings(family, World), Findings(family, World'))
    BY DEF NoMilder
  <2>1. PICK w, v : w = World /\ v = World'
    OBVIOUS
  <2>2. family \in DOMAIN Measures /\ Worsens(family, w, v)
    BY <2>1, StepWorsens
  <2>3. family # "indexes"
    BY DEF Ordered
  <2>4. NoMilder(Report(family, w, {}), Report(family, v, {}))
    BY <2>2, <2>3, WorseSaysMore
  <2> QED
    BY <2>1, <2>4 DEF Findings
<1> QED
  BY <1>1, LevelsAlways, PTL DEF Spec, WorseIsNoBetter

=============================================================================
