--------------------------- MODULE NotifierProofs ---------------------------
(***************************************************************************)
(* Alerts, for any number of issues, severities, failures and crashes, and *)
(* any grace and reminder periods.                                         *)
(***************************************************************************)
EXTENDS Notifier, TLAPS

\* A verdict stays what its issue's row calls for until that row is written.
Judged ==
  \A k \in Keys :
    /\ verdict[k] # "none" => verdict[k] = Verdict(k)
    /\ pc \in {"idle", "active", "resolved"} => verdict[k] = "none"

\* What is being recorded was sent.
Sending ==
  pc = "recording" => \A k \in Keys :
    verdict[k] \in Announced \ Ends => told[k] = active[k]

Pending(k) == pc = "recording" /\ verdict[k] \in Announced

\* A row is no older than the message it records.
NotifiedLate ==
  \A k \in Keys \ stale :
    sent[k] # None /\ ~Pending(k) => notified[k] <= toldAge[k]

\* An issue was not seen since its row says it is gone.
Returning(k) == (pc = "silent" /\ verdict[k] = "back") \/ verdict[k] = "escalated"

QuietSince ==
  \A k \in Keys \ (stale \cup missed) :
    cleared[k] # None /\ ~Returning(k) => cleared[k] <= quiet[k]

NInv == /\ NotifierTypeOK /\ Judged /\ Sending
        /\ LedgerIsTold /\ NotifiedLate /\ QuietSince

-----------------------------------------------------------------------------
\* What a verdict tells of the issue.
LEMMA VerdictFacts ==
  ASSUME NotifierTypeOK, NEW k \in Keys
  PROVE  /\ Verdict(k) \in Silent \cup Announced \cup {"none"}
         /\ Alertable(k) <=> active[k] # None /\ active[k] >= MinRank
         /\ Verdict(k) \in {"opened", "escalated", "back", "reminder", "lowered"}
              => Alertable(k)
         /\ Verdict(k) = "escalated" => sent[k] # None
         /\ Verdict(k) \in {"back", "reminder", "lowered"}
              => sent[k] # None /\ active[k] <= sent[k]
         /\ Verdict(k) \in {"reminder", "lowered", "cleared"} => cleared[k] = None
         /\ Verdict(k) = "reminder" => notified[k] >= Renotify
         /\ Verdict(k) \in {"cleared", "dropped"} \cup Ends
              => sent[k] # None /\ ~Alertable(k)
         /\ Verdict(k) \in {"dropped"} \cup Ends
              => cleared[k] # None /\ cleared[k] >= Grace
         /\ Alertable(k) /\ Verdict(k) = "none" => cleared[k] = None
<1>1. /\ active[k] \in Nat \cup {None} /\ sent[k] \in Nat \cup {None}
      /\ cleared[k] \in Nat \cup {None} /\ notified[k] \in Nat
      /\ MinRank \in Nat /\ Grace \in Nat /\ Renotify \in Nat /\ None \notin Nat
      /\ sent[k] = None => cleared[k] = None
  <2>1. /\ MinRank \in Nat /\ Grace \in Nat /\ Renotify \in Nat /\ None \notin Nat
        /\ Severities \subseteq Nat
    BY NotifierAssumption
  <2>2. active[k] \in Nat \cup {None} /\ sent[k] \in Nat \cup {None}
    BY <2>1 DEF NotifierTypeOK
  <2>3. cleared[k] \in 0..Grace \cup {None} /\ notified[k] \in 0..Renotify
    BY DEF NotifierTypeOK
  <2>4. sent[k] = None => cleared[k] = None
    BY DEF NotifierTypeOK
  <2> QED
    BY <2>1, <2>2, <2>3, <2>4
<1>2. CASE Alertable(k)
  <2>1. Verdict(k) = Present(k)
    BY <1>2 DEF Verdict
  <2> QED
    BY <1>1, <1>2, <2>1 DEF Present, Alertable, Silent, Announced, Ends
<1>3. CASE ~Alertable(k) /\ sent[k] # None
  <2>1. Verdict(k) = Absent(k)
    BY <1>3 DEF Verdict
  <2> QED
    BY <1>1, <1>3, <2>1 DEF Absent, Alertable, Silent, Announced, Ends
<1>4. CASE ~Alertable(k) /\ sent[k] = None
  <2>1. Verdict(k) = "none"
    BY <1>4 DEF Verdict
  <2> QED
    BY <1>1, <1>4, <2>1 DEF Alertable, Silent, Announced, Ends
<1> QED
  BY <1>2, <1>3, <1>4

\* Whether a verdict stands depends on what its issue's row and the reads say.
LEMMA VerdictFrame ==
  ASSUME NEW k \in Keys,
         active'[k] = active[k], sent'[k] = sent[k], cleared'[k] = cleared[k],
         notified'[k] = notified[k], resolved' = resolved
  PROVE  Verdict(k)' = Verdict(k)
BY DEF Verdict, Present, Absent, Alertable

LEMMA InitN == Init => NInv
<1> SUFFICES ASSUME Init PROVE NInv
  OBVIOUS
<1>1. NotifierTypeOK
  BY NotifierAssumption
  DEF Init, LifecycleInit, NotifierTypeOK, Statuses, Silent, Announced, NoSilent
<1> QED
  BY <1>1
  DEF Init, NInv, Judged, Sending, LedgerIsTold, NotifiedLate, QuietSince, Announced

-----------------------------------------------------------------------------
\* The suggestions change.
LEMMA SuggestionsN ==
  ASSUME NInv, Suggestions
  PROVE  NInv'
<1> USE DEF NInv
<1>1. /\ UNCHANGED <<sent, notified, cleared, pc, active, resolved, verdict>>
      /\ UNCHANGED <<told, toldAge, quiet, stale, missed, faults>>
  BY DEF Suggestions, ledger, reads, history
<1>2. status' \in [Keys -> Statuses] /\ severity' \in [Keys -> Severities \cup {None}]
  <2>1. PICK k \in Keys :
          (\E s \in Severities : Report(k, s)) \/ Resolve(k) \/ Dismiss(k)
    BY DEF Suggestions, LifecycleNext
  <2> QED
    BY <2>1 DEF Report, Resolve, Dismiss, NotifierTypeOK, Statuses
<1>3. NotifierTypeOK'
  BY <1>1, <1>2 DEF NotifierTypeOK, NoSilent
<1>4. Judged'
  BY <1>1, VerdictFrame DEF Judged
<1>5. Sending' /\ LedgerIsTold' /\ NotifiedLate' /\ QuietSince'
  BY <1>1 DEF Sending, LedgerIsTold, NotifiedLate, QuietSince, Pending, Returning
<1> QED
  BY <1>3, <1>4, <1>5

\* The reads.
LEMMA ReadsN ==
  ASSUME NInv, ReadActive \/ ReadResolved
  PROVE  NInv'
<1> USE DEF NInv
<1>1. /\ UNCHANGED <<status, severity, sent, notified, cleared, verdict>>
      /\ UNCHANGED <<told, toldAge, quiet, stale, missed, faults>>
      /\ pc \in {"idle", "active"} /\ pc' \in {"active", "resolved"}
  BY DEF ReadActive, ReadResolved, rowVars, ledger, reads, history
<1>2. active' \in [Keys -> Severities \cup {None}] /\ resolved' \subseteq Keys
  BY DEF ReadActive, ReadResolved, NotifierTypeOK
<1>3. NotifierTypeOK'
  BY <1>1, <1>2 DEF NotifierTypeOK
<1>4. \A k \in Keys : verdict[k] = "none"
  BY <1>1 DEF Judged
<1>5. Judged'
  BY <1>1, <1>4 DEF Judged
<1>6. Sending' /\ LedgerIsTold' /\ NotifiedLate' /\ QuietSince'
  BY <1>1 DEF Sending, LedgerIsTold, NotifiedLate, QuietSince, Pending, Returning
<1> QED
  BY <1>3, <1>5, <1>6

\* The decisions: only here quiet is looked at again.
LEMMA EvaluateN ==
  ASSUME NInv, Evaluate
  PROVE  NInv'
<1> USE DEF NInv
<1>1. /\ UNCHANGED <<status, severity, sent, notified, cleared, active, resolved>>
      /\ UNCHANGED <<told, toldAge, stale, missed, faults>>
      /\ pc = "resolved" /\ pc' = "silent"
      /\ verdict' = [k \in Keys |-> Verdict(k)]
      /\ quiet' = [k \in Keys |-> IF Alertable(k) THEN 0 ELSE quiet[k]]
  BY DEF Evaluate, rowVars, ledger, reads
<1>2. \A k \in Keys : Verdict(k) \in Silent \cup Announced \cup {"none"}
  BY VerdictFacts
<1>3. quiet' \in [Keys -> 0..Grace]
  BY <1>1, NotifierAssumption DEF NotifierTypeOK
<1>4. NotifierTypeOK'
  BY <1>1, <1>2, <1>3 DEF NotifierTypeOK
<1>5. Judged'
  BY <1>1, VerdictFrame DEF Judged
<1>6. Sending' /\ LedgerIsTold' /\ NotifiedLate'
  BY <1>1 DEF Sending, LedgerIsTold, NotifiedLate, Pending
<1>7. QuietSince'
  <2> SUFFICES ASSUME NEW k \in Keys, k \notin stale \cup missed, cleared[k] # None,
                      Verdict(k) \notin {"back", "escalated"}
               PROVE  cleared[k] <= quiet'[k]
    BY <1>1 DEF QuietSince, Returning
  <2>1. cleared[k] <= quiet[k]
    BY <1>1 DEF QuietSince, Returning, Judged
  <2>2. sent[k] # None
    BY DEF NotifierTypeOK
  <2>3. Verdict(k) # "opened"
    <3>1. CASE Alertable(k)
      BY <2>2, <3>1 DEF Verdict, Present
    <3>2. CASE ~Alertable(k)
      BY <3>2, VerdictFacts
    <3> QED
      BY <3>1, <3>2
  <2>4. ~Alertable(k)
    BY <2>3, VerdictFacts DEF Silent, Announced, Ends
  <2> QED
    BY <1>1, <2>1, <2>4
<1> QED
  BY <1>4, <1>5, <1>6, <1>7

-----------------------------------------------------------------------------
\* The tick ends: every message of it is recorded, or its row is known as stale.
LEMMA RestN ==
  ASSUME NInv, Rest,
         stale' \in SUBSET Keys, missed' \in SUBSET Keys, faults' \in 0..MaxFaults,
         \A k \in Keys \ stale' : k \notin stale /\ ~Pending(k),
         \A k \in Keys \ (stale' \cup missed') : k \notin missed /\ ~Returning(k)
  PROVE  NInv'
<1> USE DEF NInv
<1>1. /\ UNCHANGED <<status, severity, sent, notified, cleared, told, toldAge, quiet>>
      /\ pc' = "idle" /\ active' = [k \in Keys |-> None]
      /\ resolved' = {} /\ verdict' = [k \in Keys |-> "none"]
  BY DEF Rest, rowVars, ledger
<1>2. NotifierTypeOK'
  BY <1>1 DEF NotifierTypeOK
<1>3. Judged' /\ Sending'
  BY <1>1 DEF Judged, Sending
<1>4. LedgerIsTold'
  BY <1>1 DEF LedgerIsTold, Pending
<1>5. NotifiedLate'
  BY <1>1 DEF NotifiedLate
<1>6. QuietSince'
  BY <1>1 DEF QuietSince
<1> QED
  BY <1>2, <1>3, <1>4, <1>5, <1>6

LEMMA DoneN ==
  ASSUME NInv, Done
  PROVE  NInv'
<1>1. Rest /\ stale' = stale /\ missed' = missed /\ faults' = faults
  BY DEF Done
<1>2. stale' \in SUBSET Keys /\ missed' \in SUBSET Keys /\ faults' \in 0..MaxFaults
  BY <1>1 DEF NInv, NotifierTypeOK
<1>3. \A k \in Keys : ~Pending(k) /\ ~Returning(k)
  BY DEF Done, Pending, Returning, Announced
<1> QED
  BY <1>1, <1>2, <1>3, RestN

LEMMA FaultT ==
  ASSUME NotifierTypeOK, NEW f, Fault(f)
  PROVE  faults' \in 0..MaxFaults
BY NotifierAssumption DEF NotifierTypeOK, Fault

LEMMA ReadFailsN ==
  ASSUME NInv, ReadFails
  PROVE  NInv'
<1>1. Rest /\ stale' = stale /\ missed' = missed /\ Fault("read")
  BY DEF ReadFails
<1>2. stale' \in SUBSET Keys /\ missed' \in SUBSET Keys
  BY <1>1 DEF NInv, NotifierTypeOK
<1>3. faults' \in 0..MaxFaults
  BY <1>1, FaultT DEF NInv
<1>4. \A k \in Keys : ~Pending(k) /\ ~Returning(k)
  BY DEF ReadFails, Pending, Returning, NInv, Judged
<1> QED
  BY <1>1, <1>2, <1>3, <1>4, RestN

LEMMA DeliveryFailsN ==
  ASSUME NInv, DeliveryFails
  PROVE  NInv'
<1>1. /\ Rest /\ stale' = stale /\ Fault("deliver") /\ pc = "silent" /\ NoSilent
      /\ missed' = missed \cup {k \in Keys : verdict[k] = "escalated"}
  BY DEF DeliveryFails, Miss
<1>2. stale' \in SUBSET Keys /\ missed' \in SUBSET Keys
  BY <1>1 DEF NInv, NotifierTypeOK
<1>3. faults' \in 0..MaxFaults
  BY <1>1, FaultT DEF NInv
<1>4. \A k \in Keys : ~Pending(k) /\ (Returning(k) => k \in missed')
  BY <1>1 DEF Pending, Returning, NoSilent, Silent
<1> QED
  BY <1>1, <1>2, <1>3, <1>4, RestN

LEMMA CrashN ==
  ASSUME NInv, Crash
  PROVE  NInv'
<1>1. /\ Rest /\ Fault("crash") /\ Miss
      /\ stale' = stale \cup {k \in Keys :
                     \/ verdict[k] \in Silent
                     \/ pc = "recording" /\ verdict[k] \in Announced}
  BY DEF Crash
<1>2. /\ stale' \in SUBSET Keys /\ missed' \in SUBSET Keys
      /\ missed \subseteq missed' /\ stale \subseteq stale'
  BY <1>1 DEF NInv, NotifierTypeOK, Miss
<1>3. faults' \in 0..MaxFaults
  BY <1>1, FaultT DEF NInv
<1>4. \A k \in Keys : Pending(k) => k \in stale'
  BY <1>1 DEF Pending
<1>5. ASSUME NEW k \in Keys, Returning(k)
      PROVE  k \in stale' \cup missed'
  <2>1. CASE verdict[k] = "back"
    BY <1>1, <2>1 DEF Silent
  <2>2. CASE verdict[k] = "escalated" /\ pc = "silent"
    BY <1>1, <2>2 DEF Miss
  <2>3. CASE verdict[k] = "escalated" /\ pc = "recording"
    BY <1>1, <2>3 DEF Announced
  <2>4. CASE verdict[k] = "escalated" /\ pc \notin {"silent", "recording"}
    BY <2>4 DEF NInv, NotifierTypeOK, Judged
  <2> QED
    BY <1>5, <2>1, <2>2, <2>3, <2>4 DEF Returning
<1> QED
  BY <1>1, <1>2, <1>3, <1>4, <1>5, RestN

-----------------------------------------------------------------------------
\* The row of one issue is written: its own conditions, and nobody else's change.
LEMMA WriteN ==
  ASSUME NInv, NEW k \in Keys, verdict[k] # "none",
         Write(k), Settled(k), UNCHANGED <<rowVars, reads>>
  PROVE  /\ sent' \in [Keys -> Severities \cup {None}]
         /\ notified' \in [Keys -> 0..Renotify]
         /\ cleared' \in [Keys -> 0..Grace \cup {None}]
         /\ verdict' \in [Keys -> Silent \cup Announced \cup {"none"}]
         /\ \A x \in Keys : sent'[x] = None => cleared'[x] = None /\ notified'[x] = 0
         /\ \A x \in Keys \ {k} :
              /\ sent'[x] = sent[x] /\ notified'[x] = notified[x]
              /\ cleared'[x] = cleared[x] /\ verdict'[x] = verdict[x]
              /\ verdict[x] # "none" => verdict'[x] = Verdict(x)'
         /\ verdict'[k] = "none"
         /\ sent'[k] = NextSent(k) /\ notified'[k] = NextNotified(k)
         /\ cleared'[k] = NextCleared(k)
         /\ verdict[k] = Verdict(k)
<1> USE DEF NInv
<1>1. verdict[k] = Verdict(k)
  BY DEF Judged
<1>2. /\ NextSent(k) \in Severities \cup {None}
      /\ NextNotified(k) \in 0..Renotify /\ NextCleared(k) \in 0..Grace \cup {None}
  BY NotifierAssumption DEF NextSent, NextNotified, NextCleared, NotifierTypeOK
<1>3. /\ sent' = [sent EXCEPT ![k] = NextSent(k)]
      /\ notified' = [notified EXCEPT ![k] = NextNotified(k)]
      /\ cleared' = [cleared EXCEPT ![k] = NextCleared(k)]
      /\ verdict' = [verdict EXCEPT ![k] = "none"]
  BY DEF Write, Settled
<1>4. /\ sent' \in [Keys -> Severities \cup {None}]
      /\ notified' \in [Keys -> 0..Renotify]
      /\ cleared' \in [Keys -> 0..Grace \cup {None}]
      /\ verdict' \in [Keys -> Silent \cup Announced \cup {"none"}]
      /\ verdict'[k] = "none"
      /\ sent'[k] = NextSent(k) /\ notified'[k] = NextNotified(k)
      /\ cleared'[k] = NextCleared(k)
  BY <1>2, <1>3 DEF NotifierTypeOK
<1>5. \A x \in Keys \ {k} :
        /\ sent'[x] = sent[x] /\ notified'[x] = notified[x]
        /\ cleared'[x] = cleared[x] /\ verdict'[x] = verdict[x]
  BY <1>3 DEF NotifierTypeOK
<1>6. active' = active /\ resolved' = resolved
  BY DEF reads
<1>7. ASSUME NEW x \in Keys \ {k}, verdict[x] # "none"
      PROVE  verdict'[x] = Verdict(x)'
  <2>1. Verdict(x)' = Verdict(x)
    BY <1>5, <1>6, VerdictFrame
  <2> QED
    BY <1>5, <1>7, <2>1 DEF Judged
<1>8. NextSent(k) = None => NextCleared(k) = None /\ NextNotified(k) = 0
  <2>1. verdict[k] \in {"opened", "escalated", "back", "reminder", "lowered"}
          => active[k] # None
    BY <1>1, VerdictFacts
  <2>2. verdict[k] = "cleared" => sent[k] # None
    BY <1>1, VerdictFacts
  <2>3. verdict[k] \in Silent \cup Announced
    BY DEF NotifierTypeOK
  <2> QED
    BY <2>1, <2>2, <2>3
    DEF NextSent, NextCleared, NextNotified, Silent, Announced, Ends
<1>9. \A x \in Keys : sent'[x] = None => cleared'[x] = None /\ notified'[x] = 0
  BY <1>4, <1>5, <1>8 DEF NotifierTypeOK
<1> QED
  BY <1>1, <1>4, <1>5, <1>7, <1>9

\* Silent bookkeeping: a row never gets more severe or younger by it.
LEMMA KeepN ==
  ASSUME NInv, NEW k \in Keys, Keep(k)
  PROVE  NInv'
<1> USE DEF NInv
<1>1. /\ UNCHANGED <<status, severity, pc, active, resolved, told, toldAge, quiet>>
      /\ UNCHANGED <<stale, faults>>
      /\ pc = "silent" /\ verdict[k] \in Silent /\ missed' = missed \ {k}
      /\ Write(k) /\ Settled(k) /\ UNCHANGED <<rowVars, reads>>
  BY DEF Keep, rowVars, reads
<1>2. verdict[k] # "none"
  BY <1>1 DEF Silent
<1>3. NotifierTypeOK'
  BY <1>1, <1>2, WriteN DEF NotifierTypeOK
<1>4. Judged'
  BY <1>1, <1>2, WriteN DEF Judged
<1>5. Sending'
  BY <1>1 DEF Sending
<1>6. verdict[k] = Verdict(k) /\ sent'[k] = NextSent(k)
      /\ notified'[k] = NextNotified(k) /\ cleared'[k] = NextCleared(k)
  BY <1>1, <1>2, WriteN
<1>7. \A x \in Keys \ {k} :
        /\ sent'[x] = sent[x] /\ notified'[x] = notified[x]
        /\ cleared'[x] = cleared[x] /\ verdict'[x] = verdict[x]
  BY <1>1, <1>2, WriteN
<1>8. /\ verdict[k] \in {"back", "lowered"}
           => sent[k] # None /\ active[k] # None /\ active[k] <= sent[k]
      /\ verdict[k] = "cleared" => sent[k] # None
  BY <1>6, VerdictFacts
<1>9. /\ sent[k] \in Nat \cup {None} /\ active[k] \in Nat \cup {None}
      /\ told[k] \in Nat \cup {None} /\ None \notin Nat
  BY NotifierAssumption DEF NotifierTypeOK
<1>10. LedgerIsTold'
  <2>1. ASSUME k \notin stale, sent'[k] # None
        PROVE  told[k] # None /\ told[k] >= sent'[k]
    <3>1. verdict[k] \in {"back", "lowered", "cleared"}
      BY <1>1, <1>6, <2>1 DEF NextSent, Silent
    <3>2. told[k] # None /\ told[k] >= sent[k]
      BY <1>1, <1>8, <2>1, <3>1 DEF LedgerIsTold
    <3>3. \/ sent'[k] = sent[k]
          \/ sent'[k] = active[k] /\ verdict[k] \in {"back", "lowered"}
      BY <1>6, <3>1 DEF NextSent, Ends
    <3> QED
      BY <1>8, <1>9, <3>1, <3>2, <3>3
  <2> QED
    BY <1>1, <1>7, <2>1 DEF LedgerIsTold
<1>11. NotifiedLate'
  <2>1. ASSUME k \notin stale, sent'[k] # None
        PROVE  notified'[k] <= toldAge[k]
    <3>1. verdict[k] \in {"back", "lowered", "cleared"}
      BY <1>1, <1>6, <2>1 DEF NextSent, Silent
    <3> QED
      BY <1>1, <1>6, <1>8, <2>1, <3>1 DEF NotifiedLate, Pending, NextNotified
  <2> QED
    BY <1>1, <1>7, <2>1 DEF NotifiedLate, Pending
<1>12. QuietSince'
  <2>1. cleared'[k] = None \/ cleared'[k] = 0
    BY <1>6 DEF NextCleared
  <2>2. quiet[k] >= 0
    BY NotifierAssumption DEF NotifierTypeOK
  <2> QED
    BY <1>1, <1>7, <2>1, <2>2 DEF QuietSince, Returning
<1> QED
  BY <1>3, <1>4, <1>5, <1>10, <1>11, <1>12

\* The message: what it says is pending until it is recorded.
LEMMA DeliverN ==
  ASSUME NInv, Deliver
  PROVE  NInv'
<1> USE DEF NInv
<1>1. /\ UNCHANGED <<status, severity, sent, notified, cleared, active, resolved>>
      /\ UNCHANGED <<verdict, quiet, stale, missed, faults>>
      /\ pc = "silent" /\ pc' = "recording" /\ NoSilent
      /\ told' = [k \in Keys |-> IF verdict[k] \in Ends THEN None
                                 ELSE IF verdict[k] \in Announced THEN active[k]
                                 ELSE told[k]]
      /\ toldAge' = [k \in Keys |-> IF verdict[k] \in Announced THEN 0 ELSE toldAge[k]]
  BY DEF Deliver, rowVars, ledger, reads
<1>2. told' \in [Keys -> Severities \cup {None}]
  BY <1>1 DEF NotifierTypeOK
<1>3. toldAge' \in [Keys -> 0..Renotify]
  BY <1>1, NotifierAssumption DEF NotifierTypeOK
<1>4. NotifierTypeOK'
  BY <1>1, <1>2, <1>3 DEF NotifierTypeOK, NoSilent
<1>5. Judged'
  BY <1>1, VerdictFrame DEF Judged
<1>6. Sending'
  BY <1>1 DEF Sending
<1>7. \A k \in Keys : verdict[k] \notin Announced =>
        told'[k] = told[k] /\ toldAge'[k] = toldAge[k]
  BY <1>1 DEF Announced, Ends
<1>8. LedgerIsTold'
  BY <1>1, <1>7 DEF LedgerIsTold
<1>9. NotifiedLate'
  BY <1>1, <1>7 DEF NotifiedLate, Pending
<1>10. QuietSince'
  BY <1>1 DEF QuietSince, Returning, NoSilent, Silent
<1> QED
  BY <1>4, <1>5, <1>6, <1>8, <1>9, <1>10

LEMMA RecordN ==
  ASSUME NInv, NEW k \in Keys, Record(k)
  PROVE  NInv'
<1> USE DEF NInv
<1>1. /\ UNCHANGED <<status, severity, pc, active, resolved, told, toldAge, quiet, faults>>
      /\ pc = "recording" /\ verdict[k] \in Announced
      /\ stale' = stale \ {k} /\ missed' = missed \ {k}
      /\ Write(k) /\ Settled(k) /\ UNCHANGED <<rowVars, reads>>
  BY DEF Record, rowVars, reads
<1>2. verdict[k] # "none"
  BY <1>1 DEF Announced
<1>3. /\ verdict[k] = Verdict(k) /\ verdict'[k] = "none" /\ sent'[k] = NextSent(k)
      /\ notified'[k] = NextNotified(k) /\ cleared'[k] = NextCleared(k)
  BY <1>1, <1>2, WriteN
<1>4. \A x \in Keys \ {k} :
        /\ sent'[x] = sent[x] /\ notified'[x] = notified[x]
        /\ cleared'[x] = cleared[x] /\ verdict'[x] = verdict[x]
  BY <1>1, <1>2, WriteN
<1>5. NotifierTypeOK'
  <2>1. NoSilent'
    BY <1>1, <1>3, <1>4 DEF NotifierTypeOK, NoSilent, Silent
  <2> QED
    BY <1>1, <1>2, <2>1, WriteN DEF NotifierTypeOK
<1>6. Judged'
  BY <1>1, <1>2, WriteN DEF Judged
<1>7. Sending'
  BY <1>1, <1>3, <1>4 DEF Sending, Announced
<1>8. LedgerIsTold'
  <2>1. ASSUME sent'[k] # None
        PROVE  told[k] # None /\ told[k] >= sent'[k]
    <3>1. verdict[k] \notin Ends /\ sent'[k] = active[k]
      BY <1>1, <1>3, <2>1 DEF NextSent, Announced, Ends
    <3>2. told[k] = active[k]
      BY <1>1, <3>1 DEF Sending
    <3>3. active[k] \in Nat
      BY <2>1, <3>1, NotifierAssumption DEF NotifierTypeOK
    <3> QED
      BY <2>1, <3>1, <3>2, <3>3
  <2> QED
    BY <1>1, <1>4, <2>1 DEF LedgerIsTold
<1>9. NotifiedLate'
  <2>1. notified'[k] = 0
    BY <1>1, <1>3 DEF NextNotified, Announced
  <2>2. toldAge[k] >= 0
    BY NotifierAssumption DEF NotifierTypeOK
  <2> QED
    BY <1>1, <1>4, <2>1, <2>2 DEF NotifiedLate, Pending
<1>10. QuietSince'
  <2>1. cleared'[k] = None
    BY <1>1, <1>3 DEF NextCleared, Announced
  <2> QED
    BY <1>1, <1>4, <2>1 DEF QuietSince, Returning
<1> QED
  BY <1>5, <1>6, <1>7, <1>8, <1>9, <1>10

LEMMA RecordFailsN ==
  ASSUME NInv, NEW k \in Keys, RecordFails(k)
  PROVE  NInv'
<1> USE DEF NInv
<1>1. /\ UNCHANGED <<status, severity, pc, active, resolved, told, toldAge, quiet>>
      /\ UNCHANGED <<sent, notified, cleared, missed>>
      /\ stale' = stale \cup {k} /\ Fault("record")
      /\ verdict' = [verdict EXCEPT ![k] = "none"]
  BY DEF RecordFails, Settled, rowVars, ledger, reads
<1>2. faults' \in 0..MaxFaults
  BY <1>1, FaultT
<1>3. verdict'[k] = "none" /\ \A x \in Keys \ {k} : verdict'[x] = verdict[x]
  BY <1>1 DEF NotifierTypeOK
<1>4. verdict' \in [Keys -> Silent \cup Announced \cup {"none"}]
  BY <1>1 DEF NotifierTypeOK
<1>5. pc = "recording" => NoSilent'
  BY <1>3 DEF NotifierTypeOK, NoSilent, Silent
<1>6. NotifierTypeOK'
  BY <1>1, <1>2, <1>4, <1>5 DEF NotifierTypeOK
<1>7. Judged'
  BY <1>1, <1>3, VerdictFrame DEF Judged
<1>8. Sending'
  BY <1>1, <1>3 DEF Sending, Announced
<1>9. LedgerIsTold' /\ NotifiedLate'
  BY <1>1, <1>3 DEF LedgerIsTold, NotifiedLate, Pending
<1>10. QuietSince'
  BY <1>1, <1>3 DEF QuietSince, Returning
<1> QED
  BY <1>6, <1>7, <1>8, <1>9, <1>10

-----------------------------------------------------------------------------
LEMMA ClockN ==
  ASSUME NInv, Clock
  PROVE  NInv'
<1> USE DEF NInv
<1>1. /\ UNCHANGED <<status, severity, sent, pc, active, resolved, verdict, told>>
      /\ UNCHANGED <<stale, missed, faults>>
      /\ pc = "idle"
      /\ notified' = [k \in Keys |-> IF sent[k] = None THEN 0
                                     ELSE Older(notified[k], Renotify)]
      /\ cleared' = [k \in Keys |-> IF cleared[k] = None THEN None
                                    ELSE Older(cleared[k], Grace)]
      /\ toldAge' = [k \in Keys |-> Older(toldAge[k], Renotify)]
      /\ quiet' = [k \in Keys |-> Older(quiet[k], Grace)]
  BY DEF Clock, rowVars, reads
<1>2. Renotify \in Nat /\ Grace \in Nat /\ None \notin Nat
  BY NotifierAssumption
<1>3. ASSUME NEW k \in Keys
      PROVE  /\ Older(notified[k], Renotify) \in 0..Renotify
             /\ Older(toldAge[k], Renotify) \in 0..Renotify
             /\ Older(quiet[k], Grace) \in 0..Grace
             /\ cleared[k] # None => Older(cleared[k], Grace) \in 0..Grace
             /\ notified[k] <= toldAge[k] =>
                  Older(notified[k], Renotify) <= Older(toldAge[k], Renotify)
             /\ cleared[k] # None /\ cleared[k] <= quiet[k] =>
                  Older(cleared[k], Grace) <= Older(quiet[k], Grace)
  <2>1. /\ notified[k] \in 0..Renotify /\ toldAge[k] \in 0..Renotify
        /\ quiet[k] \in 0..Grace /\ cleared[k] \in 0..Grace \cup {None}
    BY DEF NotifierTypeOK
  <2>2. /\ Older(notified[k], Renotify) \in 0..Renotify
        /\ Older(toldAge[k], Renotify) \in 0..Renotify
        /\ Older(quiet[k], Grace) \in 0..Grace
    BY <1>2, <2>1 DEF Older
  <2>3. cleared[k] # None => Older(cleared[k], Grace) \in 0..Grace
    BY <1>2, <2>1 DEF Older
  <2>4. notified[k] <= toldAge[k] =>
          Older(notified[k], Renotify) <= Older(toldAge[k], Renotify)
    BY <1>2, <2>1 DEF Older
  <2>5. cleared[k] # None /\ cleared[k] <= quiet[k] =>
          Older(cleared[k], Grace) <= Older(quiet[k], Grace)
    BY <1>2, <2>1 DEF Older
  <2> QED
    BY <2>2, <2>3, <2>4, <2>5
<1>4. NotifierTypeOK'
  <2>1. notified' \in [Keys -> 0..Renotify] /\ toldAge' \in [Keys -> 0..Renotify]
    BY <1>1, <1>2, <1>3
  <2>2. quiet' \in [Keys -> 0..Grace] /\ cleared' \in [Keys -> 0..Grace \cup {None}]
    BY <1>1, <1>2, <1>3
  <2>3. \A k \in Keys : sent'[k] = None => cleared'[k] = None /\ notified'[k] = 0
    BY <1>1 DEF NotifierTypeOK
  <2> QED
    BY <1>1, <2>1, <2>2, <2>3 DEF NotifierTypeOK
<1>5. Judged'
  BY <1>1 DEF Judged
<1>6. Sending' /\ LedgerIsTold'
  BY <1>1 DEF Sending, LedgerIsTold
<1>7. NotifiedLate'
  BY <1>1, <1>3 DEF NotifiedLate, Pending
<1>8. QuietSince'
  BY <1>1, <1>3, NotifierAssumption DEF QuietSince, Returning
<1> QED
  BY <1>4, <1>5, <1>6, <1>7, <1>8

LEMMA StutterN ==
  ASSUME NInv, UNCHANGED vars
  PROVE  NInv'
<1> USE DEF NInv
<1>1. /\ UNCHANGED <<status, severity, sent, notified, cleared, pc, active, resolved>>
      /\ UNCHANGED <<verdict, told, toldAge, quiet, stale, missed, faults>>
  BY DEF vars, rowVars, ledger, reads, history
<1>2. NotifierTypeOK'
  BY <1>1 DEF NotifierTypeOK, NoSilent
<1>3. Judged'
  BY <1>1, VerdictFrame DEF Judged
<1>4. Sending' /\ LedgerIsTold' /\ NotifiedLate' /\ QuietSince'
  BY <1>1 DEF Sending, LedgerIsTold, NotifiedLate, QuietSince, Pending, Returning
<1> QED
  BY <1>2, <1>3, <1>4

LEMMA StepN == NInv /\ [Next]_vars => NInv'
<1> SUFFICES ASSUME NInv, [Next]_vars PROVE NInv'
  OBVIOUS
<1>1. CASE Tick
  BY <1>1, ReadsN, EvaluateN, KeepN, RecordN, DeliverN, DoneN DEF Tick
<1>2. CASE ReadFails \/ DeliveryFails \/ Crash \/ \E k \in Keys : RecordFails(k)
  BY <1>2, ReadFailsN, DeliveryFailsN, CrashN, RecordFailsN
<1>3. CASE Clock
  BY <1>3, ClockN
<1>4. CASE Suggestions
  BY <1>4, SuggestionsN
<1>5. CASE UNCHANGED vars
  BY <1>5, StutterN
<1> QED
  BY <1>1, <1>2, <1>3, <1>4, <1>5 DEF Next

LEMMA NInvariant == Spec => []NInv
BY InitN, StepN, PTL DEF Spec

-----------------------------------------------------------------------------
\* Every reachable state is well typed: a row is whole or absent, and silent
\* bookkeeping is done before anything is recorded as sent.
THEOREM NotifierTypeCorrect == Spec => []NotifierTypeOK
<1>1. NInv => NotifierTypeOK
  BY DEF NInv
<1> QED
  BY <1>1, NInvariant, PTL

\* What is recorded as sent was sent, whatever fails and wherever the process dies.
THEOREM LedgerAlwaysTold == Spec => []LedgerIsTold
<1>1. NInv => LedgerIsTold
  BY DEF NInv
<1> QED
  BY <1>1, NInvariant, PTL

\* No reminder before its time, unless the record of the last message was lost.
THEOREM NeverNags == Spec => []NoNagging
<1>1. NInv => NoNagging
  <2> SUFFICES ASSUME NInv, pc = "silent", NEW k \in Keys, k \notin stale,
                      verdict[k] = "reminder"
               PROVE  toldAge[k] = Renotify
    BY DEF NoNagging
  <2>1. sent[k] # None /\ notified[k] >= Renotify
    BY VerdictFacts DEF NInv, Judged
  <2>2. notified[k] <= toldAge[k]
    BY <2>1 DEF NInv, NotifiedLate, Pending
  <2>3. notified[k] \in 0..Renotify /\ toldAge[k] \in 0..Renotify
    BY DEF NInv, NotifierTypeOK
  <2> QED
    BY <2>1, <2>2, <2>3, NotifierAssumption
<1> QED
  BY <1>1, NInvariant, PTL

\* The end of an issue waits for the grace period, unless a write or the message
\* that it came back worse was lost.
THEOREM GraceIsKept == Spec => []EndsAfterGrace
<1>1. NInv => EndsAfterGrace
  <2> SUFFICES ASSUME NInv, pc = "silent", NEW k \in Keys, k \notin stale \cup missed,
                      verdict[k] \in Ends
               PROVE  quiet[k] = Grace
    BY DEF EndsAfterGrace
  <2>1. cleared[k] # None /\ cleared[k] >= Grace
    BY VerdictFacts DEF NInv, Judged, Ends
  <2>2. cleared[k] <= quiet[k]
    BY <2>1 DEF NInv, QuietSince, Returning, Ends
  <2>3. cleared[k] \in 0..Grace /\ quiet[k] \in 0..Grace
    BY <2>1 DEF NInv, NotifierTypeOK
  <2> QED
    BY <2>1, <2>2, <2>3, NotifierAssumption
<1> QED
  BY <1>1, NInvariant, PTL

\* Neither an end nor a reminder is announced too early (evaluateSuggestions).
THEOREM NeverTooEarly == Spec => []NothingTooEarly
  BY GraceIsKept, NeverNags, PTL DEF NothingTooEarly
=============================================================================
