---------------------------- MODULE EventVerdict ----------------------------
(***************************************************************************)
(* Verdict as a machine that judges one event after another, so that TLC   *)
(* can compare the verdict on every event with those on its neighbours.    *)
(***************************************************************************)
EXTENDS Verdict

VARIABLES subject, score, severity

verdictVars == <<subject, score, severity>>

NoSubject == [isHost |-> FALSE, marks |-> {}, infraImage |-> FALSE,
              benign |-> TRUE, base |-> "low", boosts |-> {}, signals |-> {}]

VerdictInit ==
  /\ subject = NoSubject
  /\ score = 0
  /\ severity = "low"

Judge(e) ==
  /\ subject = NoSubject
  /\ subject' = e
  /\ score' = Score(e)
  /\ severity' = FinalSeverity(Rated(e), Score(e))

(* The next event comes in. *)
Forget ==
  /\ subject' = NoSubject
  /\ score' = 0
  /\ severity' = "low"

VerdictNext == Forget \/ \E e \in Evidence : Judge(e)

VerdictSpec == VerdictInit /\ [][VerdictNext]_verdictVars

-----------------------------------------------------------------------------
AtLeast(a, b) == SeverityOrder[a] >= SeverityOrder[b]

(* More evidence of an attack never makes the answer milder: adding a      *)
(* context signal, matching one more rule pattern, or a higher Falco       *)
(* priority never lowers the severity. It could fail because the           *)
(* confidence, and with it the downgrade, depends on whether the severity  *)
(* moved away from the base (classifier.py:225-289).                       *)
EvidenceNeverLowers ==
  LET now == Rated(subject) IN
  /\ \A s \in Signals :
       AtLeast(Rated([subject EXCEPT !.signals = @ \cup {s}]), now)
  /\ \A b \in {"medium", "high"} :
       AtLeast(Rated([subject EXCEPT !.boosts = @ \cup {b}]), now)
  /\ \A p \in Severity :
       AtLeast(p, subject.base) => AtLeast(Rated([subject EXCEPT !.base = p]), now)

(* The classifier's own downgrade never takes a suspicious process below   *)
(* what Falco's priority said: lowering is left to the false-positive      *)
(* filter (classifier.py:281-289, processor.py:84-91).                     *)
NotBelowPriority ==
  /\ ~subject.benign => AtLeast(Rated(subject), subject.base)
  /\ ~subject.benign /\ ~AtLeast(severity, subject.base) => IsDowngraded(score)

(* An event from a container is never suppressed nor lowered by the        *)
(* filter, whatever its image; and one mark alone never suppresses a host  *)
(* event (false_positive_filter.py:142-174 with the default thresholds).   *)
OnlyHostEventsAreSuppressed ==
  /\ ~subject.isHost => ~IsSuppressed(score) /\ ~IsDowngraded(score)
  /\ IsSuppressed(score) => Cardinality(subject.marks) >= 2
=============================================================================
