------------------------------ MODULE Notifier ------------------------------
(***************************************************************************)
(* Alerts.  Once a minute the notifier compares the suggestions with what  *)
(* it has recorded as sent, sends one message with everything that changed *)
(* and records it.  The suggestions are SuggestionLifecycle, which the     *)
(* Suggester implements; they change while the notifier is at work.        *)
(*                                                                         *)
(* Times are ages in units of the clock, counted up to the longest that is *)
(* asked for.  A tick of the notifier takes less than one unit.            *)
(***************************************************************************)
EXTENDS SuggestionLifecycle, Integers, FiniteSets

CONSTANTS
  MinRank,         \* MinSeverity; severities are their ranks
  Grace,           \* ResolveGrace
  Renotify,        \* RenotifyAfter; 0 never repeats
  NotifyResolved,
  Faults,          \* "read", "deliver", "record", "crash"
  MaxFaults        \* bound

ASSUME NotifierAssumption ==
  /\ Severities \subseteq Nat
  /\ None \notin Nat
  /\ {MinRank, Grace, Renotify, MaxFaults} \subseteq Nat
  /\ NotifyResolved \in BOOLEAN

VARIABLES
  sent,        \* the state row: sent[k]: its severity, or None without a row
  notified,    \* notified[k]: age of notified_at
  cleared,     \* cleared[k]: age of cleared_at, or None
  pc,          \* where evaluateSuggestions is
  active,      \* active[k]: severity of the active suggestion read, or None
  resolved,    \* the resolved suggestions read
  verdict,     \* verdict[k]: what is to be done about k
  told,        \* history: told[k]: severity announced last, None once ended
  toldAge,     \* history: toldAge[k]: how long ago
  quiet,       \* history: quiet[k]: how long no tick has seen k as alertable
  stale,       \* history: a write about k was lost since k was announced
  missed,      \* history: k got worse, nobody was told, k's row is unchanged
  faults

ledger == <<sent, notified, cleared>>
reads == <<active, resolved>>
history == <<told, toldAge, quiet, stale, missed>>
vars == <<rowVars, ledger, pc, reads, verdict, history, faults>>

Silent == {"back", "lowered", "cleared", "dropped"}
Announced == {"opened", "escalated", "reminder", "resolved", "downgraded"}
Ends == {"resolved", "downgraded"}

Init ==
  /\ LifecycleInit
  /\ sent = [k \in Keys |-> None]
  /\ notified = [k \in Keys |-> 0]
  /\ cleared = [k \in Keys |-> None]
  /\ pc = "idle"
  /\ active = [k \in Keys |-> None]
  /\ resolved = {}
  /\ verdict = [k \in Keys |-> "none"]
  /\ told = [k \in Keys |-> None]
  /\ toldAge = [k \in Keys |-> 0]
  /\ quiet = [k \in Keys |-> Grace]
  /\ stale = {}
  /\ missed = {}
  /\ faults = 0

-----------------------------------------------------------------------------
\* The two reads of the suggestions.
ReadActive ==
  /\ pc = "idle"
  /\ pc' = "active"
  /\ active' = [k \in Keys |-> IF status[k] = "active" THEN severity[k] ELSE None]
  /\ UNCHANGED <<rowVars, ledger, resolved, verdict, history, faults>>

Alertable(k) == active[k] # None /\ active[k] >= MinRank

ReadResolved ==
  /\ pc = "active"
  /\ pc' = "resolved"
  /\ resolved' = {k \in Keys : status[k] = "resolved"}
  /\ UNCHANGED <<rowVars, ledger, active, verdict, history, faults>>

\* Mutant: no reminders, on which a lost record depends.
PresentOnce(k) ==
  CASE sent[k] = None                            -> "opened"
    [] sent[k] # None /\ active[k] > sent[k]     -> "escalated"
    [] OTHER ->
       IF cleared[k] # None THEN "back"
       ELSE IF active[k] # sent[k] THEN "lowered" ELSE "none"

\* An issue that can alert: new, worse, back, due again or milder.
Present(k) ==
  CASE sent[k] = None                            -> "opened"
    [] sent[k] # None /\ active[k] > sent[k]     -> "escalated"
    [] OTHER ->
       CASE cleared[k] # None                         -> "back"
         [] cleared[k] = None /\ Renotify > 0
              /\ notified[k] >= Renotify              -> "reminder"
         [] OTHER -> IF active[k] # sent[k] THEN "lowered" ELSE "none"

\* One that was announced and cannot alert any more.
Absent(k) ==
  CASE cleared[k] = None -> "cleared"
    [] cleared[k] # None /\ cleared[k] < Grace -> "none"
    [] OTHER ->
       CASE NotifyResolved /\ active[k] # None -> "downgraded"
         [] NotifyResolved /\ active[k] = None /\ k \in resolved -> "resolved"
         [] OTHER -> "dropped"

Verdict(k) ==
  IF Alertable(k) THEN Present(k)
  ELSE IF sent[k] # None THEN Absent(k) ELSE "none"

\* The state rows are read last; nobody else writes them.
Evaluate ==
  /\ pc = "resolved"
  /\ pc' = "silent"
  /\ verdict' = [k \in Keys |-> Verdict(k)]
  /\ quiet' = [k \in Keys |-> IF Alertable(k) THEN 0 ELSE quiet[k]]
  /\ UNCHANGED <<rowVars, ledger, reads, told, toldAge, stale, missed, faults>>

\* Mutant: an issue that is back keeps its clearing time.
ClearedOfBack(k) ==
  IF verdict[k] = "cleared" THEN 0
  ELSE IF verdict[k] = "back" THEN cleared[k] ELSE None

\* The row that goes with a verdict, and its write.
NextSent(k) ==
  IF verdict[k] \in Ends \cup {"dropped"} THEN None
  ELSE IF verdict[k] = "cleared" THEN sent[k] ELSE active[k]

NextNotified(k) ==
  IF verdict[k] \in {"back", "lowered", "cleared"} THEN notified[k] ELSE 0

NextCleared(k) == IF verdict[k] = "cleared" THEN 0 ELSE None

Write(k) ==
  /\ sent' = [sent EXCEPT ![k] = NextSent(k)]
  /\ notified' = [notified EXCEPT ![k] = NextNotified(k)]
  /\ cleared' = [cleared EXCEPT ![k] = NextCleared(k)]

Settled(k) == verdict' = [verdict EXCEPT ![k] = "none"]

\* Silent bookkeeping comes first and happens in any case.
Keep(k) ==
  /\ pc = "silent" /\ verdict[k] \in Silent
  /\ Write(k) /\ Settled(k)
  /\ missed' = missed \ {k}
  /\ UNCHANGED <<rowVars, pc, reads, told, toldAge, quiet, stale, faults>>

NoSilent == \A k \in Keys : verdict[k] \notin Silent

\* Some channel accepts the message.
Deliver ==
  /\ pc = "silent" /\ NoSilent
  /\ \E k \in Keys : verdict[k] \in Announced
  /\ pc' = "recording"
  /\ told' = [k \in Keys |-> IF verdict[k] \in Ends THEN None
                             ELSE IF verdict[k] \in Announced THEN active[k]
                             ELSE told[k]]
  /\ toldAge' = [k \in Keys |-> IF verdict[k] \in Announced THEN 0 ELSE toldAge[k]]
  /\ UNCHANGED <<rowVars, ledger, reads, verdict, quiet, stale, missed, faults>>

Record(k) ==
  /\ pc = "recording" /\ verdict[k] \in Announced
  /\ Write(k) /\ Settled(k)
  /\ stale' = stale \ {k} /\ missed' = missed \ {k}
  /\ UNCHANGED <<rowVars, pc, reads, told, toldAge, quiet, faults>>

\* The tick is over.
Rest ==
  /\ pc' = "idle"
  /\ active' = [k \in Keys |-> None]
  /\ resolved' = {}
  /\ verdict' = [k \in Keys |-> "none"]
  /\ UNCHANGED <<rowVars, ledger, told, toldAge, quiet>>

Done ==
  /\ pc \in {"silent", "recording"}
  /\ \A k \in Keys : verdict[k] = "none"
  /\ Rest
  /\ UNCHANGED <<stale, missed, faults>>

-----------------------------------------------------------------------------
\* Failures.
Fault(f) == f \in Faults /\ faults < MaxFaults /\ faults' = faults + 1

ReadFails ==
  /\ Fault("read") /\ pc \in {"active", "resolved"}
  /\ Rest
  /\ UNCHANGED <<stale, missed>>

Miss ==
  missed' = IF pc = "silent" THEN missed \cup {k \in Keys : verdict[k] = "escalated"}
            ELSE missed

\* Mutant: a message that no channel accepted is recorded as sent.
RecordAnyway ==
  /\ Fault("deliver") /\ pc = "silent" /\ NoSilent
  /\ \E k \in Keys : verdict[k] \in Announced
  /\ pc' = "recording"
  /\ UNCHANGED <<rowVars, ledger, reads, verdict, history>>

\* No channel accepts the message: nothing is recorded, the next tick retries.
DeliveryFails ==
  /\ Fault("deliver") /\ pc = "silent" /\ NoSilent
  /\ \E k \in Keys : verdict[k] \in Announced
  /\ Rest
  /\ Miss
  /\ UNCHANGED stale

RecordFails(k) ==
  /\ Fault("record")
  /\ \/ pc = "silent" /\ verdict[k] \in Silent
     \/ pc = "recording" /\ verdict[k] \in Announced
  /\ Settled(k)
  /\ stale' = stale \cup {k}
  /\ UNCHANGED <<rowVars, ledger, pc, reads, told, toldAge, quiet, missed>>

\* The process dies, or its context ends during the delivery.
Crash ==
  /\ Fault("crash") /\ pc # "idle"
  /\ Rest
  /\ Miss
  /\ stale' = stale \cup {k \in Keys :
                 \/ verdict[k] \in Silent
                 \/ pc = "recording" /\ verdict[k] \in Announced}

-----------------------------------------------------------------------------
Older(age, limit) == IF age < limit THEN age + 1 ELSE age

Clock ==
  /\ pc = "idle"
  /\ notified' = [k \in Keys |-> IF sent[k] = None THEN 0
                                 ELSE Older(notified[k], Renotify)]
  /\ cleared' = [k \in Keys |-> IF cleared[k] = None THEN None
                                ELSE Older(cleared[k], Grace)]
  /\ toldAge' = [k \in Keys |-> Older(toldAge[k], Renotify)]
  /\ quiet' = [k \in Keys |-> Older(quiet[k], Grace)]
  /\ UNCHANGED <<rowVars, sent, pc, reads, verdict, told, stale, missed, faults>>

Suggestions ==
  /\ LifecycleNext
  /\ UNCHANGED <<ledger, pc, reads, verdict, history, faults>>

Tick ==
  \/ ReadActive \/ ReadResolved \/ Evaluate
  \/ \E k \in Keys : Keep(k) \/ Record(k)
  \/ Deliver \/ Done

Next ==
  \/ Tick
  \/ ReadFails \/ DeliveryFails \/ Crash \/ \E k \in Keys : RecordFails(k)
  \/ Clock
  \/ Suggestions

Spec == Init /\ [][Next]_vars

\* Time passes and the ticker ticks; a tick that began goes on.
FairSpec == Spec /\ WF_vars(Tick) /\ SF_vars(Clock)

-----------------------------------------------------------------------------
\* Properties.
NotifierTypeOK ==
  /\ status \in [Keys -> Statuses]
  /\ severity \in [Keys -> Severities \cup {None}]
  /\ sent \in [Keys -> Severities \cup {None}]
  /\ notified \in [Keys -> 0..Renotify]
  /\ cleared \in [Keys -> 0..Grace \cup {None}]
  /\ pc \in {"idle", "active", "resolved", "silent", "recording"}
  /\ active \in [Keys -> Severities \cup {None}]
  /\ resolved \subseteq Keys
  /\ verdict \in [Keys -> Silent \cup Announced \cup {"none"}]
  /\ told \in [Keys -> Severities \cup {None}]
  /\ toldAge \in [Keys -> 0..Renotify]
  /\ quiet \in [Keys -> 0..Grace]
  /\ stale \subseteq Keys
  /\ missed \subseteq Keys
  /\ faults \in 0..MaxFaults
  /\ \A k \in Keys : sent[k] = None => cleared[k] = None /\ notified[k] = 0
  /\ pc = "recording" => NoSilent

\* What is recorded as sent was sent: whoever reads the messages believes that
\* the issue is open, and no less severe than recorded (but for the messages
\* that are just being recorded, and rows whose writes were lost).
LedgerIsTold ==
  \A k \in Keys \ stale :
    sent[k] # None /\ ~(pc = "recording" /\ verdict[k] \in Announced) =>
      told[k] # None /\ told[k] >= sent[k]

\* The end of an issue is announced only when no tick has seen the issue for
\* ResolveGrace, whatever came in between (a tick with a failed read sees
\* nothing).  Excepted are rows whose writes were lost or overtaken: see
\* AnnouncedAfterGrace.
EndsAfterGrace ==
  pc = "silent" => \A k \in Keys \ (stale \cup missed) :
    verdict[k] \in Ends => quiet[k] = Grace

\* "When it stops being alertable it is announced only after ResolveGrace, and
\* only if it has not come back in the meantime", as the comment has it, without
\* exceptions.  An issue that came back worse, which could not be delivered,
\* keeps the time at which it was cleared before.
AnnouncedAfterGrace ==
  pc = "silent" => \A k \in Keys : verdict[k] \in Ends => quiet[k] = Grace

\* An issue that only stays as it is is not announced again before
\* RenotifyAfter, even if it got milder or left and came back in between.
NoNagging ==
  pc = "silent" => \A k \in Keys \ stale :
    verdict[k] = "reminder" => toldAge[k] = Renotify

\* An issue that stays alertable is known to the readers in the end, at least
\* as severe as it is, although deliveries and records may fail and the process
\* may die.
IssueIsTold ==
  \A k \in Keys, s \in Severities :
    s >= MinRank /\ <>[](status[k] = "active" /\ severity[k] = s) =>
      <>[](told[k] # None /\ told[k] >= s)

\* Nothing is announced too early: neither an end nor a reminder.
NothingTooEarly == EndsAfterGrace /\ NoNagging
=============================================================================
