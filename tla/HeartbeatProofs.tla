-------------------------- MODULE HeartbeatProofs --------------------------
(***************************************************************************)
(* Proofs about HeartbeatMonitor for every threshold and check interval.   *)
(***************************************************************************)
EXTENDS HeartbeatMonitor, TLAPS

(* What _check_silence holds between its reading and its acting: it reads  *)
(* when its sleep is over, the flags cannot change under it, and an event  *)
(* in between only makes the last event younger than the age read, and     *)
(* ends the silence if there was one.                                      *)
ReadingOK ==
  seen # Asleep =>
    /\ clock = wake
    /\ seen.eventAge \in Nat
    /\ seen.eventAge >= clock - lastEvent
    /\ seen.eventSilenced = eventSilenced
    /\ seen.eventAge > Threshold =>
         seen.eventAge = clock - lastEvent \/ resumed = clock

Times == /\ clock \in Nat /\ lastEvent \in Nat /\ wake \in Nat
         /\ resumed \in Nat
         /\ lastEvent <= clock
         /\ clock <= wake /\ wake <= clock + CheckInterval

(* When there is no alarm, the last event was young enough at the last     *)
(* check.                                                                  *)
QuietWasChecked ==
  ~eventSilenced => (wake - CheckInterval) - lastEvent <= Threshold

(* When there is one, the events are still missing or came back since the  *)
(* last check.                                                             *)
AlarmIsRecent ==
  eventSilenced => \/ clock - lastEvent > Threshold
                   \/ resumed >= wake - CheckInterval

IInv ==
  /\ Times /\ eventSilenced \in BOOLEAN /\ ReadingOK
  /\ QuietWasChecked /\ AlarmIsRecent

LEMMA InitInv == Init => IInv
<1> SUFFICES ASSUME Init PROVE IInv
  OBVIOUS
<1>1. Times /\ QuietWasChecked /\ AlarmIsRecent
  BY HeartbeatAssumption
  DEF HeartbeatAssumption, Init, Times, QuietWasChecked, AlarmIsRecent
<1>2. ReadingOK /\ eventSilenced \in BOOLEAN
  BY DEF Init, ReadingOK
<1> QED
  BY <1>1, <1>2 DEF IInv

(* An event only makes the last event younger; one that ends a silence is  *)
(* noted as that.                                                          *)
LEMMA RecordEventInv == IInv /\ RecordEvent => IInv'
<1> SUFFICES ASSUME IInv, RecordEvent PROVE IInv'
  OBVIOUS
<1>1. /\ UNCHANGED <<clock, wake, eventSilenced, seen>>
      /\ lastEvent' = clock
      /\ resumed' = IF clock - lastEvent > Threshold THEN clock ELSE resumed
  BY DEF RecordEvent, timeVars, flagVars
<1>2. Times' /\ QuietWasChecked'
  BY <1>1, HeartbeatAssumption
  DEF HeartbeatAssumption, IInv, Times, QuietWasChecked
<1>3. ReadingOK'
  BY <1>1, HeartbeatAssumption DEF HeartbeatAssumption, IInv, Times, ReadingOK
<1>4. AlarmIsRecent'
  BY <1>1, HeartbeatAssumption DEF HeartbeatAssumption, IInv, Times, AlarmIsRecent
<1> QED
  BY <1>1, <1>2, <1>3, <1>4 DEF IInv

(* The reading holds the age of the last event and the flag as they are.   *)
LEMMA ReadAgesInv == IInv /\ ReadAges => IInv'
<1> SUFFICES ASSUME IInv, ReadAges PROVE IInv'
  OBVIOUS
<1>1. lastEvent # None /\ Age(lastEvent) = clock - lastEvent
  BY HeartbeatAssumption DEF HeartbeatAssumption, IInv, Times, Age
<1> QED
  BY <1>1, HeartbeatAssumption
  DEF HeartbeatAssumption, ReadAges, IInv, Times, ReadingOK, QuietWasChecked,
      AlarmIsRecent, timeVars, noteVars, flagVars

(* Acting raises the alarm for an old event, and without alarm the event   *)
(* was young when it was read.                                             *)
LEMMA ActInv == IInv /\ Act => IInv'
<1> SUFFICES ASSUME IInv, Act PROVE IInv'
  OBVIOUS
<1>1. /\ seen # Asleep /\ seen' = Asleep
      /\ wake' = clock + CheckInterval
      /\ clock' = clock /\ lastEvent' = lastEvent /\ resumed' = resumed
  BY DEF Act, noteVars
<1>2. /\ clock = wake
      /\ seen.eventAge \in Nat /\ seen.eventAge >= clock - lastEvent
      /\ seen.eventSilenced = eventSilenced
  BY <1>1 DEF IInv, ReadingOK
<1>3. Times' /\ ReadingOK'
  BY <1>1, <1>2, HeartbeatAssumption DEF HeartbeatAssumption, IInv, Times, ReadingOK
<1>4. /\ eventSilenced' \in BOOLEAN
      /\ ~eventSilenced' => seen.eventAge <= Threshold
  <2>1. \/ EventsMissing /\ eventSilenced' = TRUE
        \/ ~EventsMissing /\ eventSilenced' = FALSE
        \/ (EventsMissing <=> eventSilenced) /\ eventSilenced' = eventSilenced
    BY <1>2 DEF Act, JudgeEvents
  <2>2. ~EventsMissing => seen.eventAge <= Threshold
    BY <1>2, HeartbeatAssumption DEF HeartbeatAssumption, EventsMissing
  <2>3. CASE EventsMissing /\ eventSilenced' = TRUE
    BY <2>3
  <2>4. CASE ~EventsMissing /\ eventSilenced' = FALSE
    BY <2>2, <2>4
  <2>5. CASE (EventsMissing <=> eventSilenced) /\ eventSilenced' = eventSilenced
    <3>1. eventSilenced \in BOOLEAN
      BY DEF IInv
    <3>2. CASE EventsMissing
      BY <2>5, <3>1, <3>2
    <3>3. CASE ~EventsMissing
      BY <2>2, <2>5, <3>1, <3>3
    <3> QED
      BY <3>2, <3>3
  <2> QED
    BY <2>1, <2>3, <2>4, <2>5
<1>5. QuietWasChecked'
  BY <1>1, <1>2, <1>4, HeartbeatAssumption
  DEF HeartbeatAssumption, QuietWasChecked, IInv, Times
<1>6. AlarmIsRecent'
  <2>1. eventSilenced' => seen.eventAge > Threshold
    <3>1. \/ EventsMissing /\ eventSilenced' = TRUE
          \/ ~EventsMissing /\ eventSilenced' = FALSE
          \/ (EventsMissing <=> eventSilenced) /\ eventSilenced' = eventSilenced
      BY <1>2 DEF Act, JudgeEvents
    <3>2. eventSilenced' => EventsMissing
      BY <3>1
    <3> QED
      BY <3>2 DEF EventsMissing
  <2>2. seen.eventAge > Threshold =>
          seen.eventAge = clock - lastEvent \/ resumed = clock
    BY <1>1 DEF IInv, ReadingOK
  <2> QED
    BY <1>1, <1>2, <2>1, <2>2, HeartbeatAssumption
    DEF HeartbeatAssumption, AlarmIsRecent, IInv, Times
<1> QED
  BY <1>3, <1>4, <1>5, <1>6 DEF IInv

LEMMA NextInv == IInv /\ [Next]_vars => IInv'
<1> SUFFICES ASSUME IInv, [Next]_vars PROVE IInv'
  OBVIOUS
<1>1. CASE RecordEvent
  BY <1>1, RecordEventInv
<1>2. ASSUME NEW status \in FalcoStatus, RecordWatchdog(status) PROVE IInv'
  BY <1>2 DEF RecordWatchdog, IInv, Times, ReadingOK, QuietWasChecked,
              AlarmIsRecent, timeVars, flagVars
<1>3. CASE ReadAges
  BY <1>3, ReadAgesInv
<1>4. CASE Act
  BY <1>4, ActInv
<1>5. CASE Tick
  BY <1>5, HeartbeatAssumption
  DEF HeartbeatAssumption, Tick, IInv, Times, ReadingOK, QuietWasChecked,
      AlarmIsRecent, noteVars, flagVars
<1>6. CASE UNCHANGED vars
  BY <1>6 DEF vars, timeVars, noteVars, flagVars, IInv, Times, ReadingOK, QuietWasChecked,
              AlarmIsRecent
<1> QED
  BY <1>1, <1>2, <1>3, <1>4, <1>5, <1>6 DEF Next

(* A silence is noticed within one check interval of the threshold, for    *)
(* every threshold and interval, although a check acts on ages it read     *)
(* before (heartbeat.py:127-159).                                          *)
THEOREM SilenceNoticed == Spec => []SilenceIsNoticed
<1>1. IInv => SilenceIsNoticed
  BY HeartbeatAssumption
  DEF HeartbeatAssumption, IInv, Times, QuietWasChecked, SilenceIsNoticed
<1> QED
  BY <1>1, InitInv, NextInv, PTL DEF Spec

(* An alarm does not outlast the check after the events came back, even    *)
(* one raised on a reading that an event had overtaken                     *)
(* (heartbeat.py:127-159).                                                 *)
THEOREM AlarmEnds == Spec => []AlarmEndsWithSilence
<1>1. IInv => AlarmEndsWithSilence
  BY HeartbeatAssumption
  DEF HeartbeatAssumption, IInv, Times, AlarmIsRecent, AlarmEndsWithSilence
<1> QED
  BY <1>1, InitInv, NextInv, PTL DEF Spec

-----------------------------------------------------------------------------
(* The types, which need no more than the times in their order.            *)

LEMMA TypeInit == Init => TypeOK
<1> SUFFICES ASSUME Init PROVE TypeOK
  OBVIOUS
<1>1. /\ clock \in 0..MaxTime /\ lastEvent \in 0..clock
      /\ resumed \in 0..clock /\ reported \in 0..clock
      /\ wake \in clock..(clock + CheckInterval)
      /\ silenceTotal \in Nat /\ stops \in 0..MaxStops
  BY HeartbeatAssumption DEF HeartbeatAssumption, Init
<1>2. /\ lastWatchdog \in (0..clock) \cup {None} /\ falcoStatus \in FalcoStatus
      /\ eventSilenced \in BOOLEAN /\ watchdogSilenced \in BOOLEAN
  BY DEF Init, FalcoStatus
<1> QED
  BY <1>1, <1>2 DEF TypeOK

LEMMA TypeNext ==
  ASSUME TypeOK, IInv, [Next]_vars
  PROVE  TypeOK'
<1> USE HeartbeatAssumption DEF HeartbeatAssumption
<1>1. CASE RecordEvent
  BY <1>1 DEF RecordEvent, TypeOK, timeVars, flagVars, countVars
<1>2. ASSUME NEW status \in FalcoStatus, RecordWatchdog(status) PROVE TypeOK'
  <2>1. stops' \in 0..MaxStops /\ silenceTotal' \in Nat
    BY <1>2 DEF RecordWatchdog, TypeOK
  <2> QED
    BY <1>2, <2>1 DEF RecordWatchdog, TypeOK, timeVars, flagVars
<1>3. CASE ReadAges
  BY <1>3 DEF ReadAges, TypeOK, timeVars, noteVars, flagVars, countVars
<1>4. CASE Act
  <2>1. /\ eventSilenced' \in {TRUE, FALSE, eventSilenced}
        /\ silenceTotal' \in {silenceTotal, silenceTotal + 1}
    BY <1>4, Zenon DEF Act, JudgeEvents
  <2>4. eventSilenced' \in BOOLEAN
    BY <2>1 DEF TypeOK
  <2>5. silenceTotal' \in Nat
    BY <2>1 DEF TypeOK
  <2>2. watchdogSilenced' \in BOOLEAN
    BY <1>4 DEF Act, JudgeWatchdog, TypeOK
  <2>3. wake' \in clock'..(clock' + CheckInterval)
    BY <1>4 DEF Act, TypeOK
  <2> QED
    BY <1>4, <2>2, <2>3, <2>4, <2>5 DEF Act, TypeOK, noteVars
<1>5. CASE Tick
  BY <1>5 DEF Tick, TypeOK, noteVars, flagVars, countVars
<1>6. CASE UNCHANGED vars
  BY <1>6 DEF vars, timeVars, noteVars, flagVars, countVars, TypeOK
<1> QED
  BY <1>1, <1>2, <1>3, <1>4, <1>5, <1>6 DEF Next

LEMMA TypesAndInv == Spec => [](TypeOK /\ IInv)
  BY TypeInit, TypeNext, InitInv, NextInv, PTL DEF Spec

(* Nothing is noted for a time that has not come, and the monitor always   *)
(* has a next wake-up (heartbeat.py:43-52, 122-125).                       *)
THEOREM TypeCorrect == Spec => []TypeOK
  BY TypesAndInv, PTL

-----------------------------------------------------------------------------
(* The watchdog half of the check.                                         *)

(* Before the first report, or with a reading of before it, there is no    *)
(* alarm; after it, a report in between makes the gap smaller than the one *)
(* read, and ends the gap if there was one.                                *)
GapReadingOK ==
  seen # Asleep =>
    /\ clock = wake
    /\ seen.watchdogAge = None =>
         ~watchdogSilenced /\ (lastWatchdog = None \/ lastWatchdog = clock)
    /\ seen.watchdogAge # None =>
         /\ seen.watchdogAge \in Nat
         /\ lastWatchdog # None
         /\ seen.watchdogAge >= clock - lastWatchdog
         /\ seen.watchdogAge > 2 * Threshold =>
              seen.watchdogAge = clock - lastWatchdog \/ reported = clock

NoAlarmBeforeReports ==
  lastWatchdog = None =>
    ~watchdogSilenced /\ (seen # Asleep => seen.watchdogAge = None)

NoGapWasChecked ==
  lastWatchdog # None /\ ~watchdogSilenced =>
    (wake - CheckInterval) - lastWatchdog <= 2 * Threshold

GapAlarmIsRecent ==
  lastWatchdog # None /\ watchdogSilenced =>
    \/ clock - lastWatchdog > 2 * Threshold
    \/ reported >= wake - CheckInterval

GapInv == GapReadingOK /\ NoAlarmBeforeReports /\ NoGapWasChecked /\ GapAlarmIsRecent

LEMMA GapInit == Init => GapInv
  BY HeartbeatAssumption
  DEF HeartbeatAssumption, Init, GapInv, GapReadingOK, NoAlarmBeforeReports,
      NoGapWasChecked, GapAlarmIsRecent

(* TypeOK as the provers take it.                                          *)
LEMMA WatchdogTimes ==
  ASSUME TypeOK
  PROVE  /\ clock \in Nat /\ wake \in Nat /\ reported \in Nat /\ reported <= clock
         /\ clock <= wake /\ wake <= clock + CheckInterval
         /\ lastWatchdog # None => lastWatchdog \in Nat /\ lastWatchdog <= clock
         /\ None \notin Int /\ Threshold \in Nat /\ CheckInterval \in Nat \ {0}
         /\ watchdogSilenced \in BOOLEAN
  BY HeartbeatAssumption DEF HeartbeatAssumption, TypeOK

LEMMA RecordWatchdogGap ==
  ASSUME TypeOK, GapInv, NEW status \in FalcoStatus, RecordWatchdog(status)
  PROVE  GapInv'
<1>1. /\ lastWatchdog' = clock
      /\ reported' = IF lastWatchdog # None /\ clock - lastWatchdog > 2 * Threshold
                     THEN clock ELSE reported
      /\ UNCHANGED <<clock, wake, watchdogSilenced, seen>>
  BY DEF RecordWatchdog, timeVars, flagVars
<1>2. GapReadingOK'
  BY <1>1, WatchdogTimes DEF GapInv, GapReadingOK
<1>3. NoAlarmBeforeReports' /\ NoGapWasChecked'
  BY <1>1, WatchdogTimes DEF NoAlarmBeforeReports, NoGapWasChecked
<1>4. GapAlarmIsRecent'
  BY <1>1, WatchdogTimes DEF GapInv, NoAlarmBeforeReports, GapAlarmIsRecent
<1> QED
  BY <1>2, <1>3, <1>4 DEF GapInv

LEMMA ReadAgesGap ==
  ASSUME TypeOK, GapInv, ReadAges
  PROVE  GapInv'
<1>1. /\ clock = wake /\ seen'.watchdogAge = Age(lastWatchdog)
      /\ UNCHANGED <<clock, wake, lastWatchdog, reported, watchdogSilenced>>
  BY DEF ReadAges, timeVars, noteVars, flagVars
<1>2. /\ lastWatchdog = None => Age(lastWatchdog) = None
      /\ lastWatchdog # None => Age(lastWatchdog) = clock - lastWatchdog
                                /\ clock - lastWatchdog \in Nat
                                /\ clock - lastWatchdog # None
  BY WatchdogTimes DEF Age
<1>3. GapReadingOK' /\ NoAlarmBeforeReports'
  BY <1>1, <1>2, WatchdogTimes DEF GapInv, GapReadingOK, NoAlarmBeforeReports
<1>4. NoGapWasChecked' /\ GapAlarmIsRecent'
  BY <1>1 DEF GapInv, NoGapWasChecked, GapAlarmIsRecent
<1> QED
  BY <1>3, <1>4 DEF GapInv

LEMMA ActGap ==
  ASSUME TypeOK, GapInv, Act
  PROVE  GapInv'
<1>1. /\ seen # Asleep /\ seen' = Asleep /\ wake' = clock + CheckInterval
      /\ UNCHANGED <<clock, lastWatchdog, reported>>
      /\ JudgeWatchdog
  BY DEF Act, noteVars
<1>2. GapReadingOK' /\ (seen' # Asleep => seen'.watchdogAge = None)
  BY <1>1 DEF GapReadingOK
<1>3. CASE seen.watchdogAge = None
  <2>1. ~watchdogSilenced' /\ (lastWatchdog = None \/ lastWatchdog = clock)
    BY <1>1, <1>3 DEF GapInv, GapReadingOK, JudgeWatchdog, WatchdogMissing
  <2>2. NoGapWasChecked'
    BY <1>1, <2>1, WatchdogTimes DEF NoGapWasChecked
  <2> QED
    BY <1>1, <1>2, <2>1, <2>2 DEF GapInv, NoAlarmBeforeReports, GapAlarmIsRecent
<1>4. CASE seen.watchdogAge # None
  <2>1. /\ watchdogSilenced' <=> WatchdogMissing
        /\ lastWatchdog # None
    BY <1>1, <1>4 DEF JudgeWatchdog, GapInv, GapReadingOK
  <2>2. /\ seen.watchdogAge \in Nat /\ seen.watchdogAge >= clock - lastWatchdog
        /\ seen.watchdogAge > 2 * Threshold =>
              seen.watchdogAge = clock - lastWatchdog \/ reported = clock
    BY <1>1, <1>4 DEF GapInv, GapReadingOK
  <2>3. ~WatchdogMissing => (wake' - CheckInterval) - lastWatchdog <= 2 * Threshold
    BY <1>1, <1>4, <2>1, <2>2, WatchdogTimes DEF WatchdogMissing
  <2>4. WatchdogMissing => \/ clock - lastWatchdog > 2 * Threshold
                           \/ reported >= wake' - CheckInterval
    BY <1>1, <2>1, <2>2, WatchdogTimes DEF WatchdogMissing
  <2>5. NoGapWasChecked' /\ GapAlarmIsRecent'
    BY <1>1, <2>1, <2>3, <2>4 DEF NoGapWasChecked, GapAlarmIsRecent
  <2> QED
    BY <1>1, <1>2, <2>1, <2>5 DEF GapInv, NoAlarmBeforeReports
<1> QED
  BY <1>3, <1>4

LEMMA GapNext ==
  ASSUME TypeOK, GapInv, [Next]_vars
  PROVE  GapInv'
<1> USE DEF GapInv, GapReadingOK, NoAlarmBeforeReports, NoGapWasChecked, GapAlarmIsRecent
<1>1. CASE RecordEvent
  BY <1>1 DEF RecordEvent, timeVars, flagVars
<1>2. CASE Tick
  BY <1>2, WatchdogTimes DEF Tick, noteVars, flagVars
<1>3. CASE UNCHANGED vars
  BY <1>3 DEF vars, timeVars, noteVars, flagVars
<1> QED
  BY <1>1, <1>2, <1>3, RecordWatchdogGap, ReadAgesGap, ActGap DEF Next

(* A gap in the watchdog's reports is noticed at the next check, and its   *)
(* alarm ends at the check after the next report, also when a report       *)
(* arrives between the reading of the ages and the acting on them          *)
(* (heartbeat.py:127-174).                                                 *)
THEOREM GapNoticed == Spec => []WatchdogGapIsNoticed
<1>1. TypeOK /\ GapInv => WatchdogGapIsNoticed
  <2> SUFFICES ASSUME TypeOK, GapInv PROVE WatchdogGapIsNoticed
    OBVIOUS
  <2> QED
    BY WatchdogTimes DEF GapInv, NoGapWasChecked, GapAlarmIsRecent, WatchdogGapIsNoticed
<1> QED
  BY <1>1, GapInit, GapNext, TypesAndInv, PTL DEF Spec

-----------------------------------------------------------------------------
(* The silence counter.                                                    *)

Alarms == silenceTotal - stops

(* The time the alarms so far account for.                                 *)
Spent == Alarms * (Threshold + 1)

(* Without alarm that was over when the last event came; with one, unless  *)
(* an event has come since, the event is missing.  A reading knows the     *)
(* event of its own time, or one came after it.                            *)
SpentOK ==
  /\ Spent \in Int /\ Spent <= clock
  /\ Spent <= lastEvent \/ (eventSilenced /\ clock - lastEvent > Threshold)
  /\ seen # Asleep =>
       /\ ~eventSilenced => Spent <= clock - seen.eventAge
       /\ seen.eventAge <= Threshold => Spent <= lastEvent
       /\ lastEvent = clock \/ lastEvent = clock - seen.eventAge

LEMMA OneMore ==
  ASSUME NEW n \in Int, NEW k \in Int
  PROVE  (n + 1) * k = n * k + k /\ n * k \in Int
  BY SMT

LEMMA SpentInt == TypeOK => Alarms \in Int /\ Spent \in Int /\ Threshold \in Nat
<1> SUFFICES ASSUME TypeOK PROVE Alarms \in Int /\ Spent \in Int /\ Threshold \in Nat
  OBVIOUS
<1>1. Alarms \in Int /\ Threshold \in Nat
  BY HeartbeatAssumption DEF HeartbeatAssumption, TypeOK, Alarms
<1> QED
  BY <1>1, OneMore DEF Spent

LEMMA SpentInit == Init => SpentOK
  BY HeartbeatAssumption DEF HeartbeatAssumption, Init, Alarms, Spent, SpentOK

LEMMA RecordEventSpent ==
  ASSUME TypeOK, IInv, SpentOK, RecordEvent
  PROVE  SpentOK'
<1>1. /\ lastEvent' = clock
      /\ UNCHANGED <<clock, seen, eventSilenced, silenceTotal, stops>>
  BY DEF RecordEvent, timeVars, flagVars, countVars
<1>2. Spent' = Spent
  BY <1>1 DEF Spent, Alarms
<1> QED
  BY <1>1, <1>2 DEF SpentOK

LEMMA RecordWatchdogSpent ==
  ASSUME TypeOK, IInv, SpentOK, NEW status \in FalcoStatus, RecordWatchdog(status)
  PROVE  SpentOK'
<1>1. UNCHANGED <<clock, lastEvent, seen, eventSilenced>>
  BY DEF RecordWatchdog, timeVars, flagVars
<1>2. Alarms' = Alarms
  BY DEF RecordWatchdog, TypeOK, Alarms
<1> QED
  BY <1>1, <1>2 DEF SpentOK, Spent

LEMMA ReadAgesSpent ==
  ASSUME TypeOK, IInv, SpentOK, ReadAges
  PROVE  SpentOK'
<1>1. /\ seen'.eventAge = clock - lastEvent /\ clock \in Nat /\ lastEvent \in Nat
      /\ UNCHANGED <<clock, lastEvent, eventSilenced, silenceTotal, stops>>
  BY HeartbeatAssumption
  DEF HeartbeatAssumption, ReadAges, Age, IInv, Times, timeVars, noteVars, flagVars, countVars
<1>2. Spent' = Spent
  BY <1>1 DEF Spent, Alarms
<1>3. Threshold \in Nat
  BY HeartbeatAssumption DEF HeartbeatAssumption
<1> QED
  BY <1>1, <1>2, <1>3 DEF SpentOK

LEMMA ActSpent ==
  ASSUME TypeOK, IInv, SpentOK, Act
  PROVE  SpentOK'
<1>1. /\ seen # Asleep /\ seen' = Asleep /\ JudgeEvents
      /\ UNCHANGED <<clock, lastEvent, stops>>
  BY DEF Act, noteVars
<1>2. /\ seen.eventAge \in Nat /\ seen.eventSilenced = eventSilenced
      /\ clock \in Nat /\ lastEvent \in Nat /\ Threshold \in Nat
  BY <1>1, HeartbeatAssumption DEF HeartbeatAssumption, IInv, Times, ReadingOK
<1>3. CASE EventsMissing /\ ~eventSilenced /\ eventSilenced' = TRUE
           /\ silenceTotal' = silenceTotal + 1
  <2>1. Alarms' = Alarms + 1
    BY <1>1, <1>3 DEF Alarms, TypeOK
  <2>2. Spent' = Spent + (Threshold + 1) /\ Spent \in Int
    BY <2>1, SpentInt, OneMore, <1>2 DEF Spent
  <2>3. Spent <= clock - seen.eventAge /\ seen.eventAge > Threshold
    BY <1>1, <1>3 DEF SpentOK, EventsMissing
  <2>4. Spent' <= clock /\ Spent' \in Int
    BY <1>2, <2>2, <2>3
  <2>5. lastEvent = clock \/ clock - lastEvent > Threshold
    BY <1>1, <1>2, <2>3 DEF SpentOK
  <2> QED
    BY <1>1, <1>3, <2>4, <2>5 DEF SpentOK
<1>4. CASE ~EventsMissing /\ eventSilenced' = FALSE /\ silenceTotal' = silenceTotal
  <2>1. Spent' = Spent
    BY <1>1, <1>4 DEF Spent, Alarms
  <2>2. Spent <= lastEvent
    BY <1>1, <1>2, <1>4 DEF SpentOK, EventsMissing
  <2> QED
    BY <1>1, <2>1, <2>2 DEF SpentOK
<1>5. CASE eventSilenced' = eventSilenced /\ silenceTotal' = silenceTotal
  <2>1. Spent' = Spent
    BY <1>1, <1>5 DEF Spent, Alarms
  <2> QED
    BY <1>1, <1>5, <2>1 DEF SpentOK
<1> QED
  BY <1>1, <1>2, <1>3, <1>4, <1>5 DEF JudgeEvents

LEMMA SpentNext ==
  ASSUME TypeOK, IInv, SpentOK, [Next]_vars
  PROVE  SpentOK'
<1>1. CASE Tick
  <2>1. /\ clock' = clock + 1 /\ seen = Asleep /\ Spent' = Spent
        /\ UNCHANGED <<lastEvent, seen, eventSilenced>>
    BY <1>1 DEF Tick, IInv, ReadingOK, Times, noteVars, flagVars, countVars, Spent, Alarms
  <2>2. clock \in Nat /\ lastEvent \in Nat /\ Threshold \in Nat
    BY HeartbeatAssumption DEF HeartbeatAssumption, IInv, Times
  <2> QED
    BY <2>1, <2>2 DEF SpentOK
<1>2. CASE UNCHANGED vars
  BY <1>2 DEF vars, timeVars, noteVars, flagVars, countVars, SpentOK, Spent, Alarms
<1> QED
  BY <1>1, <1>2, RecordEventSpent, RecordWatchdogSpent, ReadAgesSpent, ActSpent DEF Next

(* One silence raises one alarm, however often it is checked: the alarms   *)
(* raised never account for more time than has passed                      *)
(* (heartbeat.py:139-159).                                                 *)
THEOREM AlarmsArePaidFor == Spec => []OneAlarmPerSilence
<1>1. SpentOK => OneAlarmPerSilence
  BY DEF SpentOK, Spent, Alarms, OneAlarmPerSilence
<1> QED
  BY <1>1, SpentInit, SpentNext, TypesAndInv, PTL DEF Spec
=============================================================================
