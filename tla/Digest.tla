------------------------------- MODULE Digest -------------------------------
(***************************************************************************)
(* The notifier's other two checks.  Each tick first looks whether         *)
(* collection still succeeds, which it remembers in memory, and then       *)
(* whether a digest is due, which is remembered in the store.  Delivery    *)
(* and storage may fail, and the process may end anywhere.                 *)
(*                                                                         *)
(* Times are counted from a slot on, a digest is due every Day units.      *)
(***************************************************************************)
EXTENDS Integers, FiniteSets, FiniteSetsExt

CONSTANTS
  NoTime,            \* neither a time nor a slot
  Day,               \* a day or a week
  StaleAfter,        \* CollectionStaleAfter
  RenotifyAfter,     \* 0 never repeats
  DigestFaults,      \* "deliver", "record", "crash"
  MaxClock, MaxDigestFaults   \* bounds

ASSUME DigestAssumption ==
  /\ {StaleAfter, RenotifyAfter, MaxClock, MaxDigestFaults} \subseteq Nat
  /\ Day \in Nat \ {0} /\ StaleAfter > 0
  /\ NoTime \notin Nat

VARIABLES
  clock,
  lastSuccess,    \* of collection, as the scheduler remembers it; NoTime
  started,        \* the notifier's start
  alerted,        \* collectionAlertedAt, or NoTime
  lastSlot,       \* digestSlotKey in the store, or NoTime
  tick,           \* where the tick is
  slot,           \* the digest at work: its slot, or NoTime
  announced,      \* history: what the last health message said, and when
  mailed,         \* history of the digests: slots delivered, and delivered again,
                  \* slots whose record was lost, times covered, slots attended
  installed,      \* history: when the first slot was stored, or NoTime
  broken,         \* history: the last check could not deliver; an alert forgotten
  digestFaults

digestVars == <<clock, lastSuccess, started, alerted, lastSlot, tick, slot,
                announced, mailed, installed, broken, digestFaults>>

DigestInit ==
  /\ clock = 0
  /\ lastSuccess = NoTime
  /\ started = 0
  /\ alerted = NoTime
  /\ lastSlot = NoTime
  /\ tick = "idle"
  /\ slot = NoTime
  /\ announced = [failing |-> FALSE, at |-> 0]
  /\ mailed = [sent |-> {}, again |-> {}, lost |-> {}, covered |-> {}, attended |-> {}]
  /\ installed = NoTime
  /\ broken = {}
  /\ digestFaults = 0

DigestFault(f) ==
  /\ f \in DigestFaults /\ digestFaults < MaxDigestFaults
  /\ digestFaults' = digestFaults + 1

\* Time passes between ticks; the notifier may be down or late for any time.
Pass ==
  /\ clock < MaxClock /\ tick = "idle"
  /\ clock' = clock + 1
  /\ UNCHANGED <<lastSuccess, started, alerted, lastSlot, tick, slot, announced,
                 mailed, installed, broken, digestFaults>>

\* A success during a tick is as one after it: the status is read once, at first.
Collected ==
  /\ tick = "idle"
  /\ lastSuccess # clock
  /\ lastSuccess' = clock
  /\ UNCHANGED <<clock, started, alerted, lastSlot, tick, slot, announced,
                 mailed, installed, broken, digestFaults>>

\* Scheduler and notifier start afresh.
Restart ==
  /\ DigestFault("crash")
  /\ lastSuccess' = NoTime /\ started' = clock /\ alerted' = NoTime
  /\ tick' = "idle" /\ slot' = NoTime
  /\ mailed' = IF tick = "recording" THEN [mailed EXCEPT !.lost = @ \cup {slot}] ELSE mailed
  /\ broken' = IF announced.failing THEN {"forgotten"} ELSE {}
  /\ UNCHANGED <<clock, lastSlot, announced, installed>>

-----------------------------------------------------------------------------
(* checkCollection.                                                        *)
\* Before the first success, measured from the start.
Down == clock - Max({started, IF lastSuccess = NoTime THEN 0 ELSE lastSuccess})

Failing == Down >= StaleAfter

\* Mutant: every tick tells the failure.
AlertedEveryTick == TRUE

AlertDue ==
  IF alerted = NoTime THEN TRUE
  ELSE RenotifyAfter > 0 /\ clock - alerted >= RenotifyAfter

Says(failing) == announced' = [failing |-> failing, at |-> clock]

CollectionFailing ==
  /\ tick = "idle" /\ Failing /\ AlertDue
  /\ tick' = "checked"
  /\ Says(TRUE)
  /\ alerted' = clock
  /\ broken' = {}
  /\ UNCHANGED <<clock, lastSuccess, started, lastSlot, slot, mailed,
                 installed, digestFaults>>

CollectionRecovered ==
  /\ tick = "idle" /\ ~Failing /\ alerted # NoTime
  /\ tick' = "checked"
  /\ Says(FALSE)
  /\ alerted' = NoTime
  /\ broken' = {}
  /\ UNCHANGED <<clock, lastSuccess, started, lastSlot, slot, mailed,
                 installed, digestFaults>>

NothingToSay ==
  /\ tick = "idle"
  /\ IF Failing THEN ~AlertDue ELSE alerted = NoTime
  /\ tick' = "checked"
  /\ broken' = broken \ {"delivery"}
  /\ UNCHANGED <<clock, lastSuccess, started, alerted, lastSlot, slot, announced,
                 mailed, installed, digestFaults>>

\* No channel accepts the message: the next tick tries again.
HealthUndelivered ==
  /\ tick = "idle"
  /\ IF Failing THEN AlertDue ELSE alerted # NoTime
  /\ DigestFault("deliver")
  /\ tick' = "checked"
  /\ broken' = broken \cup {"delivery"}
  /\ UNCHANGED <<clock, lastSuccess, started, alerted, lastSlot, slot, announced, mailed,
                 installed>>

-----------------------------------------------------------------------------
(* maybeSendDigest.                                                        *)
\* The scheduled time at or before now; slots are the multiples of Day.
LastDigestSlot == (clock \div Day) * Day

\* Mutant: a digest covers what comes after its slot.
FromSlot(s) == s

PreviousSlot(s) == s - Day

SlotPassed == LastDigestSlot > lastSlot

\* The first start only stores the slot.
FirstStart ==
  /\ lastSlot = NoTime
  /\ lastSlot' = LastDigestSlot /\ installed' = clock
  /\ tick' = "idle" /\ UNCHANGED slot

StoreFirstSlot ==
  /\ tick = "checked"
  /\ FirstStart
  /\ UNCHANGED <<clock, lastSuccess, started, alerted, announced, mailed,
                 broken, digestFaults>>

\* The slot is not stored; the next tick is a first start again.
FirstSlotFails ==
  /\ tick = "checked" /\ lastSlot = NoTime /\ DigestFault("record")
  /\ tick' = "idle"
  /\ UNCHANGED <<clock, lastSuccess, started, alerted, lastSlot, slot, announced,
                 mailed, installed, broken>>

Attended == [mailed EXCEPT !.attended = @ \cup {LastDigestSlot}]

NoDigestDue ==
  /\ tick = "checked" /\ lastSlot # NoTime /\ ~SlotPassed
  /\ tick' = "idle"
  /\ mailed' = Attended
  /\ UNCHANGED <<clock, lastSuccess, started, alerted, lastSlot, slot, announced,
                 installed, broken, digestFaults>>

BuildDigest ==
  /\ tick = "checked" /\ lastSlot # NoTime /\ SlotPassed
  /\ tick' = "sending"
  /\ slot' = LastDigestSlot
  /\ UNCHANGED <<clock, lastSuccess, started, alerted, lastSlot, announced, mailed,
                 installed, broken, digestFaults>>

DeliverDigest ==
  /\ tick = "sending"
  /\ tick' = "recording"
  /\ mailed' = [mailed EXCEPT !.sent = @ \cup {slot},
                              !.again = @ \cup ({slot} \cap mailed.sent),
                              !.covered = @ \cup PreviousSlot(slot)..clock]
  /\ UNCHANGED <<clock, lastSuccess, started, alerted, lastSlot, slot, announced,
                 installed, broken, digestFaults>>

DigestUndelivered ==
  /\ tick = "sending" /\ DigestFault("deliver")
  /\ tick' = "idle" /\ slot' = NoTime
  /\ UNCHANGED <<clock, lastSuccess, started, alerted, lastSlot, announced, mailed,
                 installed, broken>>

SetNotifierTime ==
  /\ tick = "recording"
  /\ tick' = "idle" /\ slot' = NoTime
  /\ lastSlot' = slot
  /\ mailed' = Attended
  /\ UNCHANGED <<clock, lastSuccess, started, alerted, announced, installed, broken,
                 digestFaults>>

SlotUnrecorded ==
  /\ tick = "recording" /\ DigestFault("record")
  /\ tick' = "idle" /\ slot' = NoTime
  /\ mailed' = [mailed EXCEPT !.lost = @ \cup {slot}]
  /\ UNCHANGED <<clock, lastSuccess, started, alerted, lastSlot, announced, installed,
                 broken>>

DigestNext ==
  \/ Pass \/ Collected \/ Restart
  \/ CollectionFailing \/ CollectionRecovered \/ NothingToSay \/ HealthUndelivered
  \/ StoreFirstSlot \/ FirstSlotFails \/ NoDigestDue
  \/ BuildDigest \/ DeliverDigest \/ DigestUndelivered
  \/ SetNotifierTime \/ SlotUnrecorded

-----------------------------------------------------------------------------
\* After each check the last health message says what is the case, through failed
\* deliveries and repeats.  A restart forgets an announced failure: if collection
\* works by the next check its recovery is never announced.
HealthIsTold ==
  (tick = "checked" /\ "delivery" \notin broken) =>
    \/ announced.failing <=> Failing
    \/ "forgotten" \in broken /\ announced.failing

\* A failure that was announced is announced again only after the time to repeat it,
\* except once after a restart.
FailureIsNotRepeated ==
  [][(announced.failing /\ announced'.failing /\ announced' # announced)
       => \/ "forgotten" \in broken
          \/ RenotifyAfter > 0 /\ clock - announced.at >= RenotifyAfter]_digestVars

\* Each slot's digest goes out once, unless its record was lost after delivery, and
\* none goes out for a slot before the notifier was first at work.
DigestOncePerSlot ==
  /\ mailed.again \subseteq mailed.lost
  /\ \A s \in mailed.sent : installed # NoTime /\ s > installed

\* If the notifier has completed a tick in the period after a slot, however late and
\* after however many failures, the whole period before the slot has been in some
\* digest.  A period in which no tick was completed is lost for good.
AttendedIsCovered ==
  \A s \in mailed.attended :
    (installed # NoTime /\ s > installed) => (s - Day..s) \subseteq mailed.covered

\* Digests leave no gap behind a notifier that is at work and say nothing twice.
DigestsCover == DigestOncePerSlot /\ AttendedIsCovered

\* Health messages are true, and few.
HealthMessagesAreTrue == []HealthIsTold /\ FailureIsNotRepeated
=============================================================================
