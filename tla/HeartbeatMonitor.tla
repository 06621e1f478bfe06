-------------------------- MODULE HeartbeatMonitor --------------------------
(***************************************************************************)
(* Silence detection                                                       *)
(* (runtime-detection/response-server/core/heartbeat.py): processing       *)
(* threads note each event, the HTTP thread each report of the watchdog,   *)
(* and a background thread wakes every CheckInterval and compares their    *)
(* ages with the threshold. It reads under the lock and acts after it, so  *)
(* an event can arrive in between.                                         *)
(*                                                                         *)
(* The gauge falco_is_silenced is set with _event_silenced and not         *)
(* modelled apart. The clock counts units of which the periods are         *)
(* multiples; a check takes no time compared to them.                      *)
(***************************************************************************)
EXTENDS Integers

CONSTANTS
  Threshold,       \* HEARTBEAT_SILENCE_THRESHOLD
  CheckInterval,   \* HEARTBEAT_CHECK_INTERVAL
  MaxTime,         \* bound on the clock
  MaxStops,        \* bound on the reports of a stopped Falco
  None             \* "no watchdog report yet"

ASSUME HeartbeatAssumption ==
  /\ Threshold \in Nat
  /\ CheckInterval \in Nat \ {0}
  /\ MaxTime \in Nat
  /\ MaxStops \in Nat
  /\ None \notin Int

VARIABLES
  clock,
  lastEvent,          \* _last_event_time
  lastWatchdog,       \* _last_watchdog_time
  falcoStatus,        \* _last_watchdog_falco_status
  eventSilenced,      \* _event_silenced
  watchdogSilenced,   \* _watchdog_silenced
  wake,               \* when the monitor thread's sleep ends
  seen,               \* what _check_silence read under the lock, or Asleep
  silenceTotal,       \* metrics.falco_silence_total
  resumed,            \* history: when an event last ended a silence
  reported,           \* history: when a report last ended a watchdog gap
  stops               \* history: reports of a stopped Falco

timeVars  == <<clock, wake>>
noteVars  == <<lastEvent, lastWatchdog, falcoStatus, resumed, reported>>
flagVars  == <<eventSilenced, watchdogSilenced>>
countVars == <<silenceTotal, stops>>
vars == <<timeVars, noteVars, flagVars, seen, countVars>>

Asleep == [asleep |-> TRUE]

FalcoStatus == {"running", "stopped", "unknown"}

Age(time) == IF time = None THEN None ELSE clock - time

Init ==
  /\ clock = 0
  /\ lastEvent = 0
  /\ lastWatchdog = None
  /\ falcoStatus = "unknown"
  /\ eventSilenced = FALSE
  /\ watchdogSilenced = FALSE
  /\ wake = CheckInterval
  /\ seen = Asleep
  /\ silenceTotal = 0
  /\ resumed = 0
  /\ reported = 0
  /\ stops = 0

-----------------------------------------------------------------------------
RecordEvent ==
  /\ lastEvent' = clock
  /\ resumed' = IF clock - lastEvent > Threshold THEN clock ELSE resumed
  /\ UNCHANGED <<timeVars, lastWatchdog, falcoStatus, reported, flagVars, seen,
                 countVars>>

(* POST /api/v1/heartbeat. *)
RecordWatchdog(status) ==
  /\ status = "stopped" => stops < MaxStops
  /\ lastWatchdog' = clock
  /\ falcoStatus' = status
  /\ reported' = IF lastWatchdog # None /\ clock - lastWatchdog > 2 * Threshold
                 THEN clock ELSE reported
  /\ IF status = "stopped"
     THEN silenceTotal' = silenceTotal + 1 /\ stops' = stops + 1
     ELSE UNCHANGED <<silenceTotal, stops>>
  /\ UNCHANGED <<timeVars, lastEvent, resumed, flagVars, seen>>

(* _check_silence up to the end of its lock. *)
ReadAges ==
  /\ clock = wake /\ seen = Asleep
  /\ seen' = [eventAge |-> Age(lastEvent), watchdogAge |-> Age(lastWatchdog),
              eventSilenced |-> eventSilenced, watchdogSilenced |-> watchdogSilenced]
  /\ UNCHANGED <<timeVars, noteVars, flagVars, countVars>>

(* Fault: twice the threshold for events, too. *)
EventsMissingLate == seen.eventAge > 2 * Threshold

EventsMissing == seen.eventAge > Threshold

(* Fault: the threshold counted three times. *)
WatchdogMissingLate == seen.watchdogAge # None /\ seen.watchdogAge > 3 * Threshold

WatchdogMissing == seen.watchdogAge # None /\ seen.watchdogAge > 2 * Threshold

(* Fault: the alarm is raised again at every check of one silence. *)
JudgeEventsEachTime ==
  \/ /\ EventsMissing
     /\ eventSilenced' = TRUE
     /\ silenceTotal' = silenceTotal + 1
  \/ /\ ~EventsMissing
     /\ eventSilenced' = FALSE
     /\ UNCHANGED silenceTotal

(* Fault: the alarm never ends. *)
JudgeEventsSticky ==
  IF EventsMissing /\ ~seen.eventSilenced
  THEN eventSilenced' = TRUE /\ silenceTotal' = silenceTotal + 1
  ELSE UNCHANGED <<eventSilenced, silenceTotal>>

(* The event half of the check: raise or end the alarm on a change only. *)
JudgeEvents ==
  \/ /\ EventsMissing /\ ~seen.eventSilenced
     /\ eventSilenced' = TRUE
     /\ silenceTotal' = silenceTotal + 1
  \/ /\ ~EventsMissing /\ seen.eventSilenced
     /\ eventSilenced' = FALSE
     /\ UNCHANGED silenceTotal
  \/ /\ EventsMissing <=> seen.eventSilenced
     /\ UNCHANGED <<eventSilenced, silenceTotal>>

(* The watchdog half; without any report so far nothing happens. *)
JudgeWatchdog ==
  watchdogSilenced' = IF WatchdogMissing THEN TRUE
                      ELSE IF seen.watchdogAge # None THEN FALSE
                      ELSE watchdogSilenced

(* The rest of the check, and the next sleep. *)
Act ==
  /\ seen # Asleep
  /\ JudgeEvents
  /\ JudgeWatchdog
  /\ seen' = Asleep
  /\ wake' = clock + CheckInterval
  /\ UNCHANGED <<clock, noteVars, stops>>

Tick ==
  /\ clock < MaxTime /\ clock < wake
  /\ clock' = clock + 1
  /\ UNCHANGED <<wake, noteVars, flagVars, seen, countVars>>

Next ==
  \/ RecordEvent
  \/ \E status \in FalcoStatus : RecordWatchdog(status)
  \/ ReadAges \/ Act
  \/ Tick

Spec == Init /\ [][Next]_vars

-----------------------------------------------------------------------------
(* Properties.                                                             *)

(* Nothing is noted for a time that has not come, and the monitor always   *)
(* has a next wake-up (heartbeat.py:43-52, 122-125).                       *)
TypeOK ==
  /\ clock \in 0..MaxTime
  /\ lastEvent \in 0..clock
  /\ resumed \in 0..clock /\ reported \in 0..clock
  /\ lastWatchdog \in (0..clock) \cup {None}
  /\ falcoStatus \in FalcoStatus
  /\ eventSilenced \in BOOLEAN /\ watchdogSilenced \in BOOLEAN
  /\ wake \in clock..(clock + CheckInterval)
  /\ silenceTotal \in Nat /\ stops \in 0..MaxStops

(* A silence is noticed within one check interval of the threshold, even   *)
(* if the check that should see it read its ages just before an event      *)
(* (heartbeat.py:127-150).                                                 *)
SilenceIsNoticed ==
  clock - lastEvent > Threshold + CheckInterval => eventSilenced

(* An alarm raised on a stale reading, or over when events came back, does *)
(* not outlast the next check (heartbeat.py:155-159).                      *)
AlarmEndsWithSilence ==
  eventSilenced => \/ clock - lastEvent > Threshold
                   \/ clock - resumed <= CheckInterval

(* The silence counter counts silences, not checks: besides the reports of *)
(* a stopped Falco there are no more counts than silences of that length   *)
(* fit into the time (heartbeat.py:139-154).                               *)
OneAlarmPerSilence == (silenceTotal - stops) * (Threshold + 1) <= clock

(* A watchdog that has reported once and then stays away for twice the     *)
(* threshold is noticed at the next check, and the alarm ends once it      *)
(* reports again (heartbeat.py:163-174).                                   *)
WatchdogGapIsNoticed ==
  lastWatchdog # None =>
    /\ clock - lastWatchdog > 2 * Threshold + CheckInterval => watchdogSilenced
    /\ watchdogSilenced => \/ clock - lastWatchdog > 2 * Threshold
                           \/ clock - reported <= CheckInterval
=============================================================================
