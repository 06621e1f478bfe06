-------------------------- MODULE ThreatClassifier --------------------------
(***************************************************************************)
(* Rule-based severity                                                     *)
(* (runtime-detection/response-server/core/classifier.py): the answer when *)
(* no AI endpoint is configured, or when it fails or is unsure. Confidence *)
(* is in hundredths. The AI call itself has side effects and is modelled   *)
(* where it happens, in ResponsePipeline.                                  *)
(***************************************************************************)
EXTENDS Integers, FiniteSets

CONSTANT FallbackThreshold    \* FALLBACK_CONFIDENCE_THRESHOLD, hundredths

ASSUME FallbackAssumption == FallbackThreshold \in Int

Severity == {"low", "medium", "high"}

SeverityOrder == [low |-> 0, medium |-> 1, high |-> 2]

MaxSeverity(a, b) == IF SeverityOrder[a] >= SeverityOrder[b] THEN a ELSE b

DowngradeSeverity(s) == IF s = "high" THEN "medium" ELSE "low"

(* The context signals and what each adds to the score. *)
Signals == {"root", "prodNs", "attackerTool", "multiSignal"}

SignalIf(signal, signals) ==
  IF signal \notin signals THEN 0 ELSE IF signal = "attackerTool" THEN 2 ELSE 1

ContextScore(signals) ==
  SignalIf("root", signals) + SignalIf("prodNs", signals)
    + SignalIf("attackerTool", signals) + SignalIf("multiSignal", signals)

(* Fault: the last matching pattern wins, not the highest. *)
BoostedByLast(base, boosts) ==
  IF "medium" \in boosts THEN "medium" ELSE IF "high" \in boosts THEN "high" ELSE base

(* base: the severity of Falco's priority; boosts: the target severities   *)
(* of the rule-name patterns that match.                                   *)
Boosted(base, boosts) ==
  LET withHigh == IF "high" \in boosts THEN MaxSeverity(base, "high") ELSE base
  IN IF "medium" \in boosts THEN MaxSeverity(withHigh, "medium") ELSE withHigh

Contextual(sev, score) ==
  CASE score >= 3 -> MaxSeverity(sev, "high")
    [] score \in 1..2 -> MaxSeverity(sev, "medium")
    [] OTHER -> sev

FallbackConfidence(score, unchanged) ==
  LET c == 30 + 15 * score + (IF unchanged THEN 20 ELSE 0)
  IN IF c > 95 THEN 95 ELSE c

(* Fault: the confidence bonus goes to the severity that moved. *)
ClassifyBonusSwapped(benign, base, boosts, signals) ==
  LET score == ContextScore(signals)
      raised == Contextual(Boosted(base, boosts), score)
  IN IF benign THEN "low"
     ELSE IF FallbackConfidence(score, raised # base) < FallbackThreshold
          THEN DowngradeSeverity(raised)
          ELSE raised

ClassifyFallback(benign, base, boosts, signals) ==
  LET score == ContextScore(signals)
      raised == Contextual(Boosted(base, boosts), score)
  IN IF benign THEN "low"
     ELSE IF FallbackConfidence(score, raised = base) < FallbackThreshold
          THEN DowngradeSeverity(raised)
          ELSE raised

=============================================================================
