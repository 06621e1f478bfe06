------------------------------ MODULE Verdict ------------------------------
(***************************************************************************)
(* The pure part of EventProcessor.process                                 *)
(* (runtime-detection/response-server/core/processor.py): what the         *)
(* false-positive filter and the rule-based classifier together make of    *)
(* the evidence in one event.                                              *)
(***************************************************************************)
EXTENDS FalsePositiveFilter, ThreatClassifier

(* Severity after the filter had its say; a suppressed event keeps the     *)
(* severity it was given, only its action changes.                         *)
FinalSeverity(sev, score) ==
  IF IsDowngraded(score) THEN DowngradeSeverity(sev) ELSE sev

(* One event as the filter and the classifier see it.                      *)
Evidence == [isHost : BOOLEAN, marks : SUBSET HostMarks, infraImage : BOOLEAN,
             benign : BOOLEAN, base : Severity,
             boosts : SUBSET {"medium", "high"}, signals : SUBSET Signals]

Score(e) == FpScore(e.isHost, e.marks, e.infraImage)

Rated(e) == ClassifyFallback(e.benign, e.base, e.boosts, e.signals)
=============================================================================
