------------------------ MODULE FalsePositiveFilter ------------------------
(***************************************************************************)
(* The second false-positive layer                                         *)
(* (runtime-detection/response-server/core/false_positive_filter.py):      *)
(* weights for the marks of an event add up to a score that suppresses the *)
(* event, lowers its severity, or leaves it alone. Scores are in           *)
(* hundredths; the code rounds to three decimals, so nothing is lost.      *)
(***************************************************************************)
EXTENDS Integers

CONSTANTS
  SuppressThreshold,    \* FP_SUPPRESS_THRESHOLD, hundredths
  DowngradeThreshold    \* FP_DOWNGRADE_THRESHOLD, hundredths

ASSUME ThresholdAssumption ==
  /\ SuppressThreshold \in Int
  /\ DowngradeThreshold \in Int

(* The marks check() looks for. isHost: container_id is "host" or empty;   *)
(* sysProc, sysPname: the process or its parent is a host system process;  *)
(* daemonUid: the loginuid of a daemon; normalWrite: a process writing     *)
(* where it normally does; infraImage: a known infrastructure image.       *)
HostMarks == {"sysProc", "sysPname", "daemonUid", "normalWrite"}

Weight(mark) ==
  CASE mark = "sysProc"     -> 50
    [] mark = "sysPname"    -> 30
    [] mark = "daemonUid"   -> 25
    [] mark = "normalWrite" -> 35

WeightIf(mark, marks) == IF mark \in marks THEN Weight(mark) ELSE 0

HostScore(marks) ==
  10 + WeightIf("sysProc", marks) + WeightIf("sysPname", marks)
     + WeightIf("daemonUid", marks) + WeightIf("normalWrite", marks)

(* Fault: the host marks count for container events too. *)
FpScoreAnywhere(isHost, marks, infraImage) == HostScore(marks)

FpScore(isHost, marks, infraImage) ==
  LET s == IF isHost THEN HostScore(marks)
                     ELSE IF infraImage THEN 20 ELSE 0
  IN IF s > 100 THEN 100 ELSE s

IsSuppressed(score) == score >= SuppressThreshold

IsDowngraded(score) == ~IsSuppressed(score) /\ score >= DowngradeThreshold

=============================================================================
