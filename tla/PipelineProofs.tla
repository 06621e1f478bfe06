--------------------------- MODULE PipelineProofs ---------------------------
(***************************************************************************)
(* Proofs about EventVerdict and ResponsePipeline, for any thresholds, any *)
(* number of threads, pods and events, any store size and any number of    *)
(* restarts: the verdict, the types, and the invariants of isolation.      *)
(***************************************************************************)
EXTENDS ResponsePipeline, EventVerdict, SequenceTheorems, FiniteSetTheorems, TLAPS

(* The verdict.                                                            *)

Rank(s) == SeverityOrder[s]

VerdictInv ==
  /\ subject \in Evidence
  /\ score = Score(subject)
  /\ severity = FinalSeverity(Rated(subject), score)

LEMMA Ranks ==
  /\ Rank("low") = 0 /\ Rank("medium") = 1 /\ Rank("high") = 2
  /\ \A s \in Severity : Rank(s) \in 0..2
  /\ \A s \in Severity : DowngradeSeverity(s) \in Severity
                         /\ Rank(DowngradeSeverity(s)) = IF Rank(s) = 0 THEN 0 ELSE Rank(s) - 1
  /\ \A a, b \in Severity : Rank(a) = Rank(b) => a = b
  /\ \A a, b \in Severity : AtLeast(a, b) <=> Rank(a) >= Rank(b)
BY DEF Rank, SeverityOrder, Severity, DowngradeSeverity, AtLeast

LEMMA Maxima ==
  ASSUME NEW a \in Severity, NEW b \in Severity
  PROVE  /\ MaxSeverity(a, b) \in Severity
         /\ Rank(MaxSeverity(a, b)) = IF Rank(a) >= Rank(b) THEN Rank(a) ELSE Rank(b)
BY DEF MaxSeverity, Rank

Raised(e) == Contextual(Boosted(e.base, e.boosts), ContextScore(e.signals))

LEMMA ScoresAreSmall ==
  ASSUME NEW S \in SUBSET Signals  PROVE ContextScore(S) \in 0..5
BY DEF ContextScore, SignalIf

(* What the boosts and the context make of the base severity.              *)
LEMMA BoostedRank ==
  ASSUME NEW base \in Severity, NEW boosts \in SUBSET {"medium", "high"}
  PROVE  /\ Boosted(base, boosts) \in Severity
         /\ Rank(Boosted(base, boosts)) =
              IF "high" \in boosts THEN 2
              ELSE IF "medium" \in boosts /\ Rank(base) = 0 THEN 1 ELSE Rank(base)
<1>1. "low" \in Severity /\ "medium" \in Severity /\ "high" \in Severity
  BY DEF Severity
<1> QED
  BY <1>1, Maxima, Ranks DEF Boosted

LEMMA ContextualRank ==
  ASSUME NEW s \in Severity, NEW n \in 0..5
  PROVE  /\ Contextual(s, n) \in Severity
         /\ Rank(Contextual(s, n)) =
              IF n >= 3 THEN 2 ELSE IF n >= 1 /\ Rank(s) = 0 THEN 1 ELSE Rank(s)
<1>1. "low" \in Severity /\ "medium" \in Severity /\ "high" \in Severity
  BY DEF Severity
<1> QED
  BY <1>1, Maxima, Ranks DEF Contextual

(* Neither ever takes it below the base, and more of either never lowers.  *)
LEMMA RaisedGrows ==
  ASSUME NEW d \in Evidence, NEW e \in Evidence,
         Rank(d.base) <= Rank(e.base), d.boosts \subseteq e.boosts,
         ContextScore(d.signals) <= ContextScore(e.signals)
  PROVE  /\ Raised(d) \in Severity /\ Raised(e) \in Severity
         /\ Rank(d.base) <= Rank(Raised(d))
         /\ Rank(Raised(d)) <= Rank(Raised(e))
<1>1. ASSUME NEW x \in Evidence
      PROVE  /\ x.base \in Severity /\ x.boosts \in SUBSET {"medium", "high"}
             /\ x.signals \in SUBSET Signals
  BY <1>1 DEF Evidence
<1>2. ASSUME NEW x \in Evidence
      PROVE  /\ ContextScore(x.signals) \in 0..5
             /\ Rank(x.base) \in 0..2
             /\ Rank(Boosted(x.base, x.boosts)) =
                  IF "high" \in x.boosts THEN 2
                  ELSE IF "medium" \in x.boosts /\ Rank(x.base) = 0 THEN 1 ELSE Rank(x.base)
             /\ Boosted(x.base, x.boosts) \in Severity
  BY <1>1, <1>2, ScoresAreSmall, BoostedRank, Ranks
<1>3. ASSUME NEW x \in Evidence
      PROVE  /\ Raised(x) \in Severity
             /\ Rank(Raised(x)) =
                  IF ContextScore(x.signals) >= 3 THEN 2
                  ELSE IF ContextScore(x.signals) >= 1 /\ Rank(Boosted(x.base, x.boosts)) = 0
                       THEN 1 ELSE Rank(Boosted(x.base, x.boosts))
  BY <1>2, <1>3, ContextualRank DEF Raised
<1> QED
  BY <1>2, <1>3

(* The rules' answer in terms of the raised severity.                      *)
Unsure(e) ==
  FallbackConfidence(ContextScore(e.signals), Raised(e) = e.base) < FallbackThreshold

LEMMA RatedIs ==
  ASSUME NEW e \in Evidence
  PROVE  Rated(e) = IF e.benign THEN "low"
                    ELSE IF Unsure(e) THEN DowngradeSeverity(Raised(e)) ELSE Raised(e)
BY DEF Rated, ClassifyFallback, Unsure, Raised

(* A severity that stays where it was is held with more confidence the     *)
(* more the context says, and the unchanged severity with more than any.   *)
LEMMA ConfidenceGrows ==
  ASSUME NEW m \in 0..5, NEW n \in 0..5, m <= n, NEW p \in BOOLEAN, NEW q \in BOOLEAN, p => q
  PROVE  FallbackConfidence(m, p) \in Int /\ FallbackConfidence(n, q) \in Int
         /\ FallbackConfidence(m, p) <= FallbackConfidence(n, q)
<1>1. CASE p
  BY <1>1 DEF FallbackConfidence
<1>2. CASE ~p /\ q
  BY <1>2 DEF FallbackConfidence
<1>3. CASE ~p /\ ~q
  BY <1>3 DEF FallbackConfidence
<1> QED
  BY <1>1, <1>2, <1>3

(* More evidence, one kind or several at once, never makes the rules'      *)
(* answer milder, for any threshold: if the raised severity moves up, one  *)
(* step down cannot take it below the other; if it does not, the           *)
(* confidence only grew.                                                   *)
LEMMA RatedGrows ==
  ASSUME NEW d \in Evidence, NEW e \in Evidence, d.benign = e.benign,
         Rank(d.base) <= Rank(e.base), d.boosts \subseteq e.boosts,
         ContextScore(d.signals) <= ContextScore(e.signals)
  PROVE  Rated(d) \in Severity /\ Rated(e) \in Severity /\ AtLeast(Rated(e), Rated(d))
<1>1. /\ Raised(d) \in Severity /\ Raised(e) \in Severity
      /\ Rank(d.base) <= Rank(Raised(d)) /\ Rank(e.base) <= Rank(Raised(e))
      /\ Rank(Raised(d)) <= Rank(Raised(e))
  <2>1. d.boosts \subseteq d.boosts /\ e.boosts \subseteq e.boosts
    OBVIOUS
  <2>2. d.base \in Severity /\ e.base \in Severity
    BY DEF Evidence
  <2>3. Rank(e.base) <= Rank(e.base) /\ ContextScore(e.signals) <= ContextScore(e.signals)
    <3>1. e.signals \in SUBSET Signals
      BY DEF Evidence
    <3> QED
      BY <2>2, <3>1, Ranks, ScoresAreSmall
  <2> QED
    BY <2>1, <2>3, RaisedGrows
<1>2. /\ d.base \in Severity /\ e.base \in Severity /\ d.benign \in BOOLEAN
      /\ ContextScore(d.signals) \in 0..5 /\ ContextScore(e.signals) \in 0..5
      /\ "low" \in Severity
  <2>1. d.signals \in SUBSET Signals /\ e.signals \in SUBSET Signals
    BY DEF Evidence
  <2> QED
    BY <2>1, ScoresAreSmall DEF Evidence, Severity
<1>3. CASE Raised(d) = Raised(e)
  <2>1. Raised(d) = d.base => Raised(e) = e.base
    BY <1>1, <1>2, <1>3, Ranks
  <2>2. Unsure(e) => Unsure(d)
    <3> DEFINE p == Raised(d) = d.base
               q == Raised(e) = e.base
    <3>1. p \in BOOLEAN /\ q \in BOOLEAN /\ (p => q)
      BY <2>1
    <3>2. /\ FallbackConfidence(ContextScore(d.signals), p) \in Int
          /\ FallbackConfidence(ContextScore(e.signals), q) \in Int
          /\ FallbackConfidence(ContextScore(d.signals), p)
               <= FallbackConfidence(ContextScore(e.signals), q)
      <4> HIDE DEF p, q
      <4> QED
        BY <3>1, <1>2, ConfidenceGrows
    <3> QED
      BY <3>2, FallbackAssumption DEF Unsure, FallbackAssumption
  <2> QED
    BY <1>1, <1>2, <1>3, <2>2, RatedIs, Ranks
<1>4. CASE Raised(d) # Raised(e)
  <2>1. Rank(Raised(d)) < Rank(Raised(e))
    BY <1>1, <1>4, Ranks
  <2> QED
    BY <1>1, <1>2, <2>1, RatedIs, Ranks
<1> QED
  BY <1>3, <1>4

LEMMA SignalsAdd ==
  ASSUME NEW S \in SUBSET Signals, NEW s \in Signals
  PROVE  ContextScore(S) <= ContextScore(S \cup {s})
<1>1. ASSUME NEW x PROVE /\ SignalIf(x, S) \in 0..2 /\ SignalIf(x, S \cup {s}) \in 0..2
                         /\ SignalIf(x, S) <= SignalIf(x, S \cup {s})
  BY DEF SignalIf
<1> QED
  BY <1>1 DEF ContextScore

LEMMA EvidenceLemma ==
  ASSUME VerdictInv PROVE EvidenceNeverLowers
<1> DEFINE e == subject
<1>1. e \in Evidence /\ e.signals \in SUBSET Signals /\ e.base \in Severity
      /\ ContextScore(e.signals) \in 0..5 /\ ContextScore(e.signals) <= ContextScore(e.signals)
      /\ Rank(e.base) <= Rank(e.base)
  BY ScoresAreSmall, Ranks DEF VerdictInv, Evidence
<1>2. ASSUME NEW s \in Signals
      PROVE  AtLeast(Rated([e EXCEPT !.signals = @ \cup {s}]), Rated(e))
  <2> DEFINE f == [e EXCEPT !.signals = @ \cup {s}]
  <2>1. f \in Evidence /\ f.signals = e.signals \cup {s} /\ f.base = e.base
        /\ f.boosts = e.boosts /\ f.benign = e.benign
    BY <1>1 DEF Evidence
  <2>2. ContextScore(e.signals) <= ContextScore(f.signals)
    BY <2>1, <1>1, SignalsAdd
  <2> HIDE DEF f
  <2>3. AtLeast(Rated(f), Rated(e))
    BY <2>1, <2>2, <1>1, RatedGrows
  <2> QED
    BY <2>3 DEF f
<1>3. ASSUME NEW b \in {"medium", "high"}
      PROVE  AtLeast(Rated([e EXCEPT !.boosts = @ \cup {b}]), Rated(e))
  <2> DEFINE f == [e EXCEPT !.boosts = @ \cup {b}]
  <2>1. f \in Evidence /\ f.signals = e.signals /\ f.base = e.base
        /\ f.boosts = e.boosts \cup {b} /\ f.benign = e.benign
    BY <1>1 DEF Evidence
  <2> HIDE DEF f
  <2>3. AtLeast(Rated(f), Rated(e))
    BY <2>1, <1>1, RatedGrows
  <2> QED
    BY <2>3 DEF f
<1>4. ASSUME NEW p \in Severity, AtLeast(p, e.base)
      PROVE  AtLeast(Rated([e EXCEPT !.base = p]), Rated(e))
  <2> DEFINE f == [e EXCEPT !.base = p]
  <2>1. f \in Evidence /\ f.signals = e.signals /\ f.base = p
        /\ f.boosts = e.boosts /\ f.benign = e.benign
    BY <1>1 DEF Evidence
  <2>2. Rank(e.base) <= Rank(p)
    BY <1>1, <1>4, Ranks
  <2> HIDE DEF f
  <2>3. AtLeast(Rated(f), Rated(e))
    BY <2>1, <2>2, <1>1, RatedGrows
  <2> QED
    BY <2>3 DEF f
<1> QED
  BY <1>2, <1>3, <1>4 DEF EvidenceNeverLowers

(* A severity nothing raised has a confidence of at least 50.              *)
LEMMA PriorityLemma ==
  ASSUME VerdictInv, FallbackThreshold <= 50  PROVE NotBelowPriority
<1> DEFINE e == subject
<1>1. e \in Evidence /\ e.signals \in SUBSET Signals /\ e.base \in Severity
      /\ ContextScore(e.signals) \in 0..5 /\ ContextScore(e.signals) <= ContextScore(e.signals)
      /\ Rank(e.base) <= Rank(e.base)
  BY ScoresAreSmall, Ranks DEF VerdictInv, Evidence
<1>2. Raised(e) \in Severity /\ Rank(e.base) <= Rank(Raised(e))
  <2>1. e.boosts \subseteq e.boosts
    OBVIOUS
  <2> QED
    BY <1>1, <2>1, RaisedGrows
<1>3. Raised(e) = e.base => ~Unsure(e)
  <2>1. ASSUME NEW n \in 0..5 PROVE FallbackConfidence(n, TRUE) \in Int
                                    /\ FallbackConfidence(n, TRUE) >= 50
    BY DEF FallbackConfidence
  <2>2. ASSUME Raised(e) = e.base PROVE ~Unsure(e)
    <3>1. (Raised(e) = e.base) = TRUE
      BY <2>2
    <3>2. FallbackConfidence(ContextScore(e.signals), Raised(e) = e.base)
            = FallbackConfidence(ContextScore(e.signals), TRUE)
      BY <3>1
    <3> DEFINE c == FallbackConfidence(ContextScore(e.signals), Raised(e) = e.base)
    <3>3. c \in Int /\ c >= 50
      BY <3>2, <2>1, <1>1, Zenon
    <3>4. ~(c < FallbackThreshold)
      <4> HIDE DEF c
      <4> QED
        BY <3>3, FallbackAssumption DEF FallbackAssumption
    <3> QED
      BY <3>4, Zenon DEF Unsure
  <2> QED
    BY <2>2
<1>4. ~e.benign => Rated(e) \in Severity /\ AtLeast(Rated(e), e.base)
  BY <1>1, <1>2, <1>3, RatedIs, Ranks
<1>5. ~e.benign /\ ~AtLeast(severity, e.base) => IsDowngraded(score)
  BY <1>4 DEF VerdictInv, FinalSeverity
<1> QED
  BY <1>4, <1>5 DEF NotBelowPriority

(* The marks of a host event are worth at most 60 when there is one.       *)
LEMMA FilterLemma ==
  ASSUME VerdictInv, SuppressThreshold > 60, DowngradeThreshold > 20
  PROVE  OnlyHostEventsAreSuppressed
<1>1. subject \in Evidence /\ subject.marks \in SUBSET HostMarks
  BY DEF VerdictInv, Evidence
<1>2. ~subject.isHost => score \in {0, 20}
  BY DEF VerdictInv, Score, FpScore
<1>3. ~subject.isHost => ~IsSuppressed(score) /\ ~IsDowngraded(score)
  BY <1>2, ThresholdAssumption DEF ThresholdAssumption, IsSuppressed, IsDowngraded
<1>4. IsFiniteSet(subject.marks)
  <2>1. IsFiniteSet({"sysProc"})
    BY FS_Singleton
  <2>2. IsFiniteSet({"sysProc"} \cup {"sysPname"})
    BY <2>1, FS_AddElement
  <2>3. IsFiniteSet(({"sysProc"} \cup {"sysPname"}) \cup {"daemonUid"})
    BY <2>2, FS_AddElement
  <2>4. IsFiniteSet((({"sysProc"} \cup {"sysPname"}) \cup {"daemonUid"}) \cup {"normalWrite"})
    BY <2>3, FS_AddElement
  <2>5. HostMarks = (({"sysProc"} \cup {"sysPname"}) \cup {"daemonUid"}) \cup {"normalWrite"}
    BY DEF HostMarks
  <2> QED
    BY <1>1, <2>4, <2>5, FS_Subset
<1>5. ASSUME IsSuppressed(score)
      PROVE  \E m, n \in subject.marks : m # n
  <2>1. subject.isHost
    BY <1>3, <1>5
  <2>2. SUFFICES ASSUME \A m, n \in subject.marks : m = n  PROVE FALSE
    OBVIOUS
  <2>3. HostScore(subject.marks) \in 10..60
    BY <2>2 DEF HostScore, WeightIf, Weight
  <2>4. score <= 60 /\ score \in Int
    BY <2>1, <2>3 DEF VerdictInv, Score, FpScore
  <2> QED
    BY <1>5, <2>4, ThresholdAssumption DEF ThresholdAssumption, IsSuppressed
<1>6. ASSUME IsSuppressed(score)  PROVE Cardinality(subject.marks) >= 2
  <2>1. PICK m \in subject.marks, n \in subject.marks : m # n
    BY <1>5, <1>6
  <2>2. Cardinality({m, n}) = 2
    <3>1. IsFiniteSet({m}) /\ Cardinality({m}) = 1
      BY FS_Singleton
    <3>2. {m, n} = {m} \cup {n} /\ n \notin {m}
      BY <2>1
    <3>3. Cardinality({m} \cup {n}) = Cardinality({m}) + 1
      BY <3>1, <3>2, FS_AddElement, Zenon
    <3> QED
      BY <3>1, <3>2, <3>3
  <2>3. Cardinality({m, n}) <= Cardinality(subject.marks)
    BY <1>4, FS_Subset
  <2>4. Cardinality(subject.marks) \in Nat
    BY <1>4, FS_CardinalityType
  <2> QED
    BY <2>2, <2>3, <2>4
<1> QED
  BY <1>3, <1>6 DEF OnlyHostEventsAreSuppressed

LEMMA VerdictStep == VerdictInv /\ [VerdictNext]_verdictVars => VerdictInv'
<1>1. /\ NoSubject \in Evidence /\ Score(NoSubject) = 0
      /\ FinalSeverity(Rated(NoSubject), 0) = "low"
  BY DEF NoSubject, Evidence, Severity, Score, FpScore, Rated, ClassifyFallback,
         FinalSeverity, DowngradeSeverity
<1>2. ASSUME VerdictInv, Forget PROVE VerdictInv'
  BY <1>1, <1>2 DEF Forget, VerdictInv
<1>3. ASSUME VerdictInv, NEW e \in Evidence, Judge(e) PROVE VerdictInv'
  BY <1>3 DEF Judge, VerdictInv
<1>4. ASSUME VerdictInv, UNCHANGED verdictVars PROVE VerdictInv'
  BY <1>4 DEF verdictVars, VerdictInv
<1> QED
  BY <1>2, <1>3, <1>4 DEF VerdictNext

LEMMA VerdictStart == VerdictInit => VerdictInv
BY DEF VerdictInit, VerdictInv, NoSubject, Evidence, Severity, Score, FpScore, Rated,
       ClassifyFallback, FinalSeverity, DowngradeSeverity

(* Whatever the thresholds, the score and the severity the machine holds are*)
(* those of the event it judged last (processor.py:71-91).                 *)
THEOREM VerdictInvariant == VerdictSpec => []VerdictInv
BY VerdictStart, VerdictStep, PTL DEF VerdictSpec

(* For every threshold of the filter and of the fallback: one more sign of *)
(* an attack, in the process, the path or the context, never makes the     *)
(* classification milder (classifier.py:225-289).                          *)
THEOREM MoreEvidenceNeverLowers == VerdictSpec => []EvidenceNeverLowers
BY VerdictInvariant, EvidenceLemma, PTL

(* Where the fallback doubts nothing it holds with half its confidence, its*)
(* answer is not below the severity Falco's priority stands for, except    *)
(* where the filter downgrades (classifier.py:225-289, processor.py:84-91).*)
THEOREM PriorityIsAFloor ==
  ASSUME FallbackThreshold <= 50  PROVE VerdictSpec => []NotBelowPriority
<1>1. VerdictInv => NotBelowPriority
  BY PriorityLemma
<1> QED
  BY <1>1, VerdictInvariant, PTL

(* Where one mark alone does not suppress, nor the weakest downgrade, the  *)
(* filter suppresses only the events of the host                           *)
(* (false_positive_filter.py:142-174).                                     *)
THEOREM FilterSparesContainers ==
  ASSUME SuppressThreshold > 60, DowngradeThreshold > 20
  PROVE  VerdictSpec => []OnlyHostEventsAreSuppressed
<1>1. VerdictInv => OnlyHostEventsAreSuppressed
  BY FilterLemma
<1> QED
  BY <1>1, VerdictInvariant, PTL

-----------------------------------------------------------------------------
(* The types.                                                              *)

(* TypeOK in four parts: the threads, the store, the counters, the rest.   *)
Locals ==
  /\ pc \in [Threads -> {"idle"} \cup Steps \cup Ended]
  /\ event \in [Threads -> Events \cup {NoEvent}]
  /\ target \in [Threads -> Pods \cup {NoPod}]
  /\ raw \in [Threads -> Severity]
  /\ hasLabels \in [Threads -> BOOLEAN]
  /\ action \in [Threads -> Actions \cup {"none"}]
  /\ policy \in [Threads -> PolicyName \cup {NoPolicy}]

Stored ==
  /\ events \in Seq([id : Nat \ {0}, rec : Record]) /\ Len(events) <= MaxSize
  /\ idCounter \in Nat

Counters == [events : [Severity -> Nat], actions : [Actions -> Nat],
             isolations : Nat, isolationErrors : Nat, fpSuppressed : Nat,
             fpDowngraded : Nat, aiRequests : Nat, aiErrors : Nat,
             aiFallbacks : Nat]

Around ==
  /\ cacheReady \in BOOLEAN
  /\ policies \subseteq Policy
  /\ created \subseteq [by : Threads, policy : Policy]
  /\ second \in 0..MaxSecond
  /\ restarts \in 0..MaxRestarts

(* What a thread knows at a step because of the steps before it.           *)
Known ==
  \A t \in Threads :
    /\ pc[t] # "idle" => event[t] \in Events
    /\ pc[t] = "isolate" =>
         target[t] \in Pods /\ (hasLabels[t] => Labels[target[t]] # {})
    /\ pc[t] \in {"countIsolation", "countDowngrade", "store", "countEvent",
                  "countAction"} => action[t] \in Actions

TInv == Locals /\ Stored /\ metrics \in Counters /\ Around /\ Known

LEMMA TInvTypes == TInv => TypeOK
BY DEF TInv, Locals, Stored, Counters, Around, TypeOK

LEMMA InitTypes == Init => TInv
<1> SUFFICES ASSUME Init PROVE TInv
  OBVIOUS
<1>1. Locals /\ Known
  BY DEF Init, Locals, Known, Severity
<1>2. Stored
  BY PipelineAssumption DEF PipelineAssumption, Init, Stored, Store!Init
<1>3. metrics \in Counters
  BY DEF Init, ZeroMetrics, Counters
<1>4. Around
  <2>1. /\ cacheReady = FALSE /\ policies = {} /\ created = {}
        /\ second = 0 /\ restarts = 0
    BY DEF Init
  <2>2. 0 \in 0..MaxSecond /\ 0 \in 0..MaxRestarts
    BY PipelineAssumption DEF PipelineAssumption
  <2> QED
    BY <2>1, <2>2, Zenon DEF Around
<1> QED
  BY <1>1, <1>2, <1>3, <1>4 DEF TInv

-----------------------------------------------------------------------------
(* What the helpers of the pipeline return.                                *)

(* The rules answer with a severity whatever the evidence is               *)
(* (classifier.py:203-296).                                                *)
LEMMA RulesRate ==
  ASSUME NEW t \in Threads, event[t] \in Events  PROVE FallbackSeverity(t) \in Severity
<1>1. event[t].base \in Severity
  BY EventAssumption DEF EventAssumption
<1>2. ASSUME NEW a \in Severity, NEW b \in Severity  PROVE MaxSeverity(a, b) \in Severity
  BY DEF MaxSeverity
<1>3. "low" \in Severity /\ "medium" \in Severity /\ "high" \in Severity
  BY DEF Severity
<1>4. ASSUME NEW boosts  PROVE Boosted(event[t].base, boosts) \in Severity
  BY <1>1, <1>2, <1>3 DEF Boosted
<1>5. ASSUME NEW s \in Severity, NEW n  PROVE Contextual(s, n) \in Severity
  BY <1>2, <1>3 DEF Contextual
<1>6. ASSUME NEW s  PROVE DowngradeSeverity(s) \in Severity
  BY <1>3 DEF DowngradeSeverity
<1> QED
  BY <1>3, <1>4, <1>5, <1>6 DEF FallbackSeverity, ClassifyFallback

(* The filter leaves a severity a severity (processor.py:79-91).           *)
LEMMA FinalRates ==
  ASSUME NEW t, raw[t] \in Severity  PROVE FinalSeverityOf(t) \in Severity
BY DEF FinalSeverityOf, FinalSeverity, DowngradeSeverity, Severity

(* What selects the pod: one of its labels, or the pair made up for it     *)
(* (client.py:203-222).                                                    *)
LEMMA SelectorIsOne ==
  ASSUME NEW t \in Threads, target[t] \in Pods,
         hasLabels[t] => Labels[target[t]] # {}
  PROVE  SelectorOf(t) \in Selectors
<1> DEFINE p == target[t]
           preferred == { k \in DOMAIN PreferredKeys :
                            \E l \in Labels[p] : l[1] = PreferredKeys[k] }
           first == CHOOSE k \in preferred : \A j \in preferred : k <= j
<1>1. Labels[p] \subseteq Selectors /\ <<"compliance-isolate", p>> \in Selectors
  BY DEF Selectors
<1>2. CASE ~hasLabels[t]
  BY <1>1, <1>2 DEF SelectorOf
<1>3. CASE hasLabels[t] /\ preferred = {}
  <2>1. SelectorOf(t) = CHOOSE l \in Labels[p] : TRUE
    BY <1>3 DEF SelectorOf
  <2> QED
    BY <1>1, <1>3, <2>1
<1>4. CASE hasLabels[t] /\ preferred # {}
  <2>1. SelectorOf(t) = CHOOSE l \in Labels[p] : l[1] = PreferredKeys[first]
    BY <1>4 DEF SelectorOf
  <2>2. preferred \subseteq 1..4
    BY DEF PreferredKeys
  <2>3. \A k \in preferred : \E l \in Labels[p] : l[1] = PreferredKeys[k]
    OBVIOUS
  <2> HIDE DEF preferred
  <2>4. \E k \in preferred : \A j \in preferred : k <= j
    <3>1. PICK k \in preferred : TRUE
      BY <1>4
    <3>2. \A j \in preferred : j = 1 \/ j = 2 \/ j = 3 \/ j = 4
      BY <2>2
    <3>3. CASE 1 \in preferred
      BY <3>2, <3>3
    <3>4. CASE 1 \notin preferred /\ 2 \in preferred
      BY <3>2, <3>4
    <3>5. CASE 1 \notin preferred /\ 2 \notin preferred /\ 3 \in preferred
      BY <3>2, <3>5
    <3>6. CASE 1 \notin preferred /\ 2 \notin preferred /\ 3 \notin preferred
      BY <3>1, <3>2, <3>6
    <3> QED
      BY <3>3, <3>4, <3>5, <3>6
  <2>5. first \in preferred
    BY <2>4
  <2> HIDE DEF first
  <2>6. \E l \in Labels[p] : l[1] = PreferredKeys[first]
    BY <2>3, <2>5
  <2> QED
    BY <1>1, <2>1, <2>6
<1> QED
  BY <1>2, <1>3, <1>4

-----------------------------------------------------------------------------
(* What a step leaves alone keeps its type.                                *)
LEMMA RestStays ==
  /\ Stored /\ UNCHANGED storeVars => Stored'
  /\ metrics \in Counters /\ UNCHANGED metrics => (metrics \in Counters)'
  /\ Around /\ UNCHANGED <<cacheReady, clusterVars, second, restarts>> => Around'
BY DEF Stored, Around, Counters, storeVars, clusterVars, Record, Policy, PolicyName,
       Selectors

(* A thread that moves on touches its own locals and nobody else's.        *)
LEMMA MoveTypes ==
  ASSUME Locals, Known,
         NEW t \in Threads, NEW step \in Steps \cup Ended, Goto(t, step),
         pc[t] # "idle", event' = event,
         target' \in [Threads -> Pods \cup {NoPod}],
         raw' \in [Threads -> Severity],
         hasLabels' \in [Threads -> BOOLEAN],
         action' \in [Threads -> Actions \cup {"none"}],
         policy' \in [Threads -> PolicyName \cup {NoPolicy}],
         \A u \in Threads \ {t} :
           target'[u] = target[u] /\ hasLabels'[u] = hasLabels[u] /\ action'[u] = action[u],
         step = "isolate" =>
           target'[t] \in Pods /\ (hasLabels'[t] => Labels[target'[t]] # {}),
         step \in {"countIsolation", "countDowngrade", "store", "countEvent",
                   "countAction"} => action'[t] \in Actions
  PROVE  Locals' /\ Known'
<1>1. Locals'
  BY DEF Locals, Goto
<1>2. \A u \in Threads : pc'[u] = IF u = t THEN step ELSE pc[u]
  BY DEF Locals, Goto
<1>3. Known'
  BY <1>2 DEF Known
<1> QED
  BY <1>1, <1>3

(* A counter that moves stays a counter (metrics.py:61-101).               *)
LEMMA CountersGrow ==
  ASSUME metrics \in Counters
  PROVE  /\ \A e, f \in BOOLEAN : IncAi(metrics, e, f) \in Counters
         /\ [metrics EXCEPT !.isolations = @ + 1] \in Counters
         /\ [metrics EXCEPT !.isolationErrors = @ + 1] \in Counters
         /\ [metrics EXCEPT !.fpSuppressed = @ + 1] \in Counters
         /\ [metrics EXCEPT !.fpDowngraded = @ + 1] \in Counters
         /\ \A s \in Severity : [metrics EXCEPT !.events[s] = @ + 1] \in Counters
         /\ \A a \in Actions : [metrics EXCEPT !.actions[a] = @ + 1] \in Counters
<1>1. ASSUME NEW e \in BOOLEAN, NEW f \in BOOLEAN  PROVE IncAi(metrics, e, f) \in Counters
  <2> DEFINE errors    == IF e THEN metrics.aiErrors + 1 ELSE metrics.aiErrors
             fallbacks == IF f THEN metrics.aiFallbacks + 1 ELSE metrics.aiFallbacks
             m == [metrics EXCEPT !.aiRequests = @ + 1]
             n == [m EXCEPT !.aiErrors = errors]
  <2>1. errors \in Nat /\ fallbacks \in Nat
    BY DEF Counters
  <2>2. m \in Counters
    BY DEF Counters
  <2>3. IncAi(metrics, e, f) = [n EXCEPT !.aiFallbacks = fallbacks]
    BY DEF IncAi
  <2> HIDE DEF errors, fallbacks, m
  <2>4. n \in Counters
    BY <2>1, <2>2 DEF Counters
  <2> HIDE DEF n
  <2> QED
    BY <2>1, <2>3, <2>4 DEF Counters
<1>2. /\ [metrics EXCEPT !.isolations = @ + 1] \in Counters
      /\ [metrics EXCEPT !.isolationErrors = @ + 1] \in Counters
      /\ [metrics EXCEPT !.fpSuppressed = @ + 1] \in Counters
      /\ [metrics EXCEPT !.fpDowngraded = @ + 1] \in Counters
  BY DEF Counters
<1>3. \A s \in Severity : [metrics EXCEPT !.events[s] = @ + 1] \in Counters
  BY DEF Counters
<1>4. \A a \in Actions : [metrics EXCEPT !.actions[a] = @ + 1] \in Counters
  BY DEF Counters
<1> QED
  BY <1>1, <1>2, <1>3, <1>4

(* The store takes a record and stays within its size                      *)
(* (core/__init__.py:26-32).                                               *)
LEMMA AddTypes ==
  ASSUME Stored, NEW r \in Record, Store!Add(r)  PROVE Stored'
<1> DEFINE E == [id : Nat \ {0}, rec : Record]
           e == [id |-> idCounter + 1, rec |-> r]
           s == Append(events, e)
<1>1. e \in E /\ idCounter' \in Nat
  BY DEF Stored, Store!Add
<1>2. events \in Seq(E) /\ Len(events) <= MaxSize /\ MaxSize \in Nat
  BY PipelineAssumption DEF Stored, PipelineAssumption
<1>3. events' = IF Len(s) > MaxSize THEN Tail(s) ELSE s
  BY DEF Store!Add, Store!Bounded
<1> HIDE DEF E, e
<1>4. s \in Seq(E) /\ Len(s) = Len(events) + 1
  BY <1>1, <1>2
<1> HIDE DEF s
<1>5. Len(s) > MaxSize => Tail(s) \in Seq(E) /\ Len(Tail(s)) = Len(s) - 1
  <2>1. Len(s) > MaxSize => s # <<>>
    BY <1>2, <1>4
  <2> QED
    BY <1>2, <1>4, <2>1, HeadTailProperties
<1>6. events' \in Seq(E) /\ Len(events') <= MaxSize
  BY <1>2, <1>3, <1>4, <1>5
<1> QED
  BY <1>1, <1>6 DEF Stored, E

(* The record of a thread that reached the store is a record.              *)
LEMMA RecordTypes ==
  ASSUME Locals, Known, NEW t \in Threads, pc[t] = "store"
  PROVE  RecordOf(t) \in Record
<1>1. FinalSeverityOf(t) \in Severity
  BY FinalRates DEF Locals
<1>2. Suppressed(t) \in BOOLEAN
  BY DEF Suppressed, IsSuppressed
<1>3. action[t] \in Actions /\ policy[t] \in PolicyName \cup {NoPolicy}
  BY DEF Locals, Known
<1>4. (IF target[t] = NoPod THEN "" ELSE PodNamespace[target[t]])
        \in {PodNamespace[p] : p \in Pods} \cup {""}
  BY DEF Locals
<1> QED
  BY <1>1, <1>2, <1>3, <1>4 DEF RecordOf, Record

-----------------------------------------------------------------------------
(* The steps of a thread, one after another.                               *)

LEMMA AcceptTypes ==
  ASSUME TInv, NEW t \in Threads, NEW e \in Events, AcceptWebhook(t, e)
  PROVE  TInv'
<1>1. Locals'
  BY DEF TInv, Locals, AcceptWebhook, Goto, Steps
<1>2. Known'
  BY DEF TInv, Locals, Known, AcceptWebhook, Goto
<1> QED
  BY <1>1, <1>2, RestStays DEF TInv, AcceptWebhook

LEMMA BeforeVerdictTypes ==
  ASSUME TInv, NEW t \in Threads, Parse(t) \/ Enrich(t) \/ LookupRaises(t)
  PROVE  TInv'
<1>1. event[t] \in Events
  BY DEF TInv, Known, Parse, Enrich, LookupRaises
<1>2. event[t].pod \in Pods \cup {NoPod}
  BY <1>1, EventAssumption DEF EventAssumption
<1>3. CASE Parse(t)
  <2>1. PICK step \in {"badEvent", "canary", "enrich"} : Goto(t, step)
    BY <1>3 DEF Parse
  <2>2. Locals' /\ Known'
    BY <1>2, <1>3, <2>1, MoveTypes DEF TInv, Locals, Parse, Steps, Ended, Dropped
  <2> QED
    BY <1>3, <2>2, RestStays DEF TInv, Parse
<1>4. CASE Enrich(t)
  <2>1. /\ target' \in [Threads -> Pods \cup {NoPod}]
        /\ \A u \in Threads \ {t} : target'[u] = target[u]
    BY <1>2, <1>4 DEF TInv, Locals, Enrich
  <2>2. Locals' /\ Known'
    BY <1>4, <2>1, MoveTypes DEF TInv, Locals, Enrich, Steps
  <2>3. Around'
    BY <1>4 DEF TInv, Around, Enrich, clusterVars, NeedsLookup, Policy, PolicyName,
                Selectors
  <2> QED
    BY <1>4, <2>2, <2>3, RestStays DEF TInv, Enrich
<1>5. CASE LookupRaises(t)
  <2>1. Locals' /\ Known'
    BY <1>5, MoveTypes DEF TInv, Locals, LookupRaises, Ended, Dropped
  <2> QED
    BY <1>5, <2>1, RestStays DEF TInv, LookupRaises
<1> QED
  BY <1>3, <1>4, <1>5

LEMMA ClassifyTypes ==
  ASSUME TInv, NEW t \in Threads,
         \/ ClassifyByRules(t) \/ AskAi(t) \/ AiAnswers(t)
         \/ AiFallsBack(t) \/ AiAnswersBadly(t)
  PROVE  TInv'
<1>1. event[t] \in Events
  BY DEF TInv, Known, ClassifyByRules, AskAi, AiAnswers, AiFallsBack, AiAnswersBadly
<1>2. FallbackSeverity(t) \in Severity
  BY <1>1, RulesRate
<1>3. CASE ClassifyByRules(t)
  <2>1. raw' \in [Threads -> Severity]
    BY <1>2, <1>3 DEF TInv, Locals, ClassifyByRules
  <2>2. Locals' /\ Known'
    BY <1>3, <2>1, MoveTypes DEF TInv, Locals, ClassifyByRules, Steps
  <2> QED
    BY <1>3, <2>2, RestStays DEF TInv, ClassifyByRules
<1>4. CASE AskAi(t)
  <2>1. Locals' /\ Known'
    BY <1>4, MoveTypes DEF TInv, Locals, AskAi, Steps
  <2>2. metrics' \in Counters
    BY <1>4, CountersGrow DEF TInv, AskAi
  <2> QED
    BY <1>4, <2>1, <2>2, RestStays DEF TInv, AskAi
<1>5. CASE AiAnswers(t)
  <2>1. raw' \in [Threads -> Severity]
    BY <1>5 DEF TInv, Locals, AiAnswers
  <2>2. Locals' /\ Known'
    BY <1>5, <2>1, MoveTypes DEF TInv, Locals, AiAnswers, Steps
  <2> QED
    BY <1>5, <2>2, RestStays DEF TInv, AiAnswers
<1>6. CASE AiFallsBack(t)
  <2>1. raw' \in [Threads -> Severity]
    BY <1>2, <1>6 DEF TInv, Locals, AiFallsBack
  <2>2. Locals' /\ Known'
    BY <1>6, <2>1, MoveTypes DEF TInv, Locals, AiFallsBack, Steps
  <2>3. metrics' \in Counters
    BY <1>6, CountersGrow DEF TInv, AiFallsBack
  <2> QED
    BY <1>6, <2>2, <2>3, RestStays DEF TInv, AiFallsBack
<1>7. CASE AiAnswersBadly(t)
  <2>1. Locals' /\ Known'
    BY <1>7, MoveTypes DEF TInv, Locals, AiAnswersBadly, Ended, Dropped
  <2> QED
    BY <1>7, <2>1, RestStays DEF TInv, AiAnswersBadly
<1> QED
  BY <1>3, <1>4, <1>5, <1>6, <1>7

LEMMA RespondTypes ==
  ASSUME TInv, NEW t \in Threads, Suppress(t) \/ RespondPlainly(t) \/ ReadLabels(t)
  PROVE  TInv'
<1>1. CASE Suppress(t)
  <2>1. /\ action' \in [Threads -> Actions \cup {"none"}] /\ action'[t] \in Actions
        /\ \A u \in Threads \ {t} : action'[u] = action[u]
    BY <1>1 DEF TInv, Locals, Suppress, Actions
  <2>2. Locals' /\ Known'
    BY <1>1, <2>1, MoveTypes DEF TInv, Locals, Suppress, Steps
  <2>3. metrics' \in Counters
    BY <1>1, CountersGrow DEF TInv, Suppress
  <2> QED
    BY <1>1, <2>2, <2>3, RestStays DEF TInv, Suppress
<1>2. CASE RespondPlainly(t)
  <2>1. PlainAction(t) \in Actions
    BY DEF PlainAction, Actions
  <2>2. /\ action' \in [Threads -> Actions \cup {"none"}] /\ action'[t] \in Actions
        /\ \A u \in Threads \ {t} : action'[u] = action[u]
    BY <1>2, <2>1 DEF TInv, Locals, RespondPlainly
  <2>3. Locals' /\ Known'
    BY <1>2, <2>2, MoveTypes DEF TInv, Locals, RespondPlainly, Steps
  <2> QED
    BY <1>2, <2>3, RestStays DEF TInv, RespondPlainly
<1>3. CASE ReadLabels(t)
  <2>1. target[t] \in Pods
    BY <1>3 DEF TInv, Locals, ReadLabels, ToIsolate
  <2>2. PICK found \in BOOLEAN : /\ found => Labels[target[t]] # {}
                                 /\ hasLabels' = [hasLabels EXCEPT ![t] = found]
    BY <1>3 DEF ReadLabels
  <2>3. /\ hasLabels' \in [Threads -> BOOLEAN] /\ hasLabels'[t] = found
        /\ \A u \in Threads \ {t} : hasLabels'[u] = hasLabels[u]
    BY <2>2 DEF TInv, Locals
  <2>4. Locals' /\ Known'
    BY <1>3, <2>1, <2>2, <2>3, MoveTypes DEF TInv, Locals, ReadLabels, Steps
  <2> QED
    BY <1>3, <2>4, RestStays DEF TInv, ReadLabels
<1> QED
  BY <1>1, <1>2, <1>3

LEMMA IsolateTypes ==
  ASSUME TInv, NEW t \in Threads, Isolate(t) \/ IsolateFails(t)  PROVE TInv'
<1>1. target[t] \in Pods /\ (hasLabels[t] => Labels[target[t]] # {})
  BY DEF TInv, Known, Isolate, IsolateFails
<1>2. CASE Isolate(t)
  <2> DEFINE n == PolicyNameOf(t)
             q == [name |-> n, pod |-> target[t], selector |-> SelectorOf(t)]
  <2>1. n \in PolicyName
    BY <1>1 DEF TInv, Around, PolicyNameOf, PolicyName
  <2>2. SelectorOf(t) \in Selectors
    BY <1>1, SelectorIsOne
  <2>3. policies' = policies \cup {q} /\ created' = created \cup {[by |-> t, policy |-> q]}
    BY <1>2 DEF Isolate
  <2> HIDE DEF n
  <2>4. q \in Policy
    BY <1>1, <2>1, <2>2 DEF Policy
  <2> HIDE DEF q
  <2>5. Around'
    BY <1>2, <2>3, <2>4 DEF TInv, Around, Isolate, Policy, PolicyName, Selectors
  <2>6. PICK done \in {"auto_isolate", "auto_isolate_failed"} :
          action' = [action EXCEPT ![t] = done]
    BY <1>2 DEF Isolate
  <2>7. /\ action' \in [Threads -> Actions \cup {"none"}] /\ action'[t] \in Actions
        /\ \A u \in Threads \ {t} : action'[u] = action[u]
    BY <2>6 DEF TInv, Locals, Actions
  <2>8. policy' = [policy EXCEPT ![t] = n] \/ policy' = policy
    BY <1>2 DEF Isolate, n
  <2>9. policy' \in [Threads -> PolicyName \cup {NoPolicy}]
    BY <2>1, <2>8 DEF TInv, Locals
  <2>10. Locals' /\ Known'
    BY <1>2, <2>7, <2>9, MoveTypes DEF TInv, Locals, Isolate, Steps
  <2> QED
    BY <1>2, <2>5, <2>10, RestStays DEF TInv, Isolate
<1>3. CASE IsolateFails(t)
  <2>1. /\ action' \in [Threads -> Actions \cup {"none"}] /\ action'[t] \in Actions
        /\ \A u \in Threads \ {t} : action'[u] = action[u]
    BY <1>3 DEF TInv, Locals, IsolateFails, Actions
  <2>2. Locals' /\ Known'
    BY <1>3, <2>1, MoveTypes DEF TInv, Locals, IsolateFails, Steps
  <2> QED
    BY <1>3, <2>2, RestStays DEF TInv, IsolateFails
<1> QED
  BY <1>2, <1>3

LEMMA CountTypes ==
  ASSUME TInv, NEW t \in Threads,
         \/ CountIsolation(t) \/ CountDowngrade(t) \/ StoreRecord(t)
         \/ CountEvent(t) \/ CountAction(t)
  PROVE  TInv'
<1>1. action[t] \in Actions
  BY DEF TInv, Known, CountIsolation, CountDowngrade, StoreRecord, CountEvent, CountAction
<1>2. FinalSeverityOf(t) \in Severity
  BY FinalRates DEF TInv, Locals
<1>3. CASE CountIsolation(t)
  <2>1. Locals' /\ Known'
    BY <1>1, <1>3, MoveTypes DEF TInv, Locals, CountIsolation, Steps
  <2>2. metrics' \in Counters
    BY <1>3, CountersGrow DEF TInv, CountIsolation
  <2> QED
    BY <1>3, <2>1, <2>2, RestStays DEF TInv, CountIsolation
<1>4. CASE CountDowngrade(t)
  <2>1. Locals' /\ Known'
    BY <1>1, <1>4, MoveTypes DEF TInv, Locals, CountDowngrade, Steps
  <2>2. metrics' \in Counters
    BY <1>4, CountersGrow DEF TInv, CountDowngrade
  <2> QED
    BY <1>4, <2>1, <2>2, RestStays DEF TInv, CountDowngrade
<1>5. CASE StoreRecord(t)
  <2>1. Locals' /\ Known'
    BY <1>1, <1>5, MoveTypes DEF TInv, Locals, StoreRecord, Steps
  <2>2. RecordOf(t) \in Record
    BY <1>5, RecordTypes DEF TInv, StoreRecord
  <2>3. Stored'
    BY <1>5, <2>2, AddTypes DEF TInv, StoreRecord
  <2> QED
    BY <1>5, <2>1, <2>3, RestStays DEF TInv, StoreRecord
<1>6. CASE CountEvent(t)
  <2>1. Locals' /\ Known'
    BY <1>1, <1>6, MoveTypes DEF TInv, Locals, CountEvent, Steps
  <2>2. metrics' \in Counters
    BY <1>2, <1>6, CountersGrow DEF TInv, CountEvent
  <2> QED
    BY <1>6, <2>1, <2>2, RestStays DEF TInv, CountEvent
<1>7. CASE CountAction(t)
  <2>1. Locals' /\ Known'
    BY <1>7, MoveTypes DEF TInv, Locals, CountAction, Ended
  <2>2. metrics' \in Counters
    BY <1>1, <1>7, CountersGrow DEF TInv, CountAction
  <2> QED
    BY <1>7, <2>1, <2>2, RestStays DEF TInv, CountAction
<1> QED
  BY <1>3, <1>4, <1>5, <1>6, <1>7

-----------------------------------------------------------------------------
(* The steps around the threads.                                           *)

LEMMA LocalsStay == TInv /\ UNCHANGED threadVars => Locals' /\ Known'
BY DEF TInv, Locals, Known, threadVars, PolicyName

LEMMA AroundTypes ==
  ASSUME TInv, (\E q \in policies : DeleteIsolation(q)) \/ Tick \/ Restart
  PROVE  TInv'
<1>1. CASE \E q \in policies : DeleteIsolation(q)
  <2>1. Around'
    BY <1>1 DEF TInv, Around, DeleteIsolation, Policy, PolicyName, Selectors
  <2> QED
    BY <1>1, <2>1, LocalsStay, RestStays DEF TInv, DeleteIsolation
<1>2. CASE Tick
  <2>1. second' \in 0..MaxSecond
    BY <1>2, PipelineAssumption DEF TInv, Around, Tick, PipelineAssumption
  <2>2. Around'
    BY <1>2, <2>1 DEF TInv, Around, Tick, clusterVars, Policy, PolicyName, Selectors
  <2> QED
    BY <1>2, <2>2, LocalsStay, RestStays DEF TInv, Tick
<1>3. CASE Restart
  <2>1. Locals'
    BY <1>3 DEF TInv, Locals, Restart, PolicyName, Ended
  <2>2. Known'
    BY <1>3 DEF TInv, Known, Restart
  <2>3. Stored'
    BY <1>3, PipelineAssumption
    DEF Restart, Store!Clear, Stored, PipelineAssumption
  <2>4. metrics' \in Counters
    BY <1>3 DEF Restart, ZeroMetrics, Counters
  <2>5. restarts' \in 0..MaxRestarts
    BY <1>3, PipelineAssumption DEF TInv, Around, Restart, PipelineAssumption
  <2>6. Around'
    BY <1>3, <2>5 DEF TInv, Around, Restart, clusterVars, Policy, PolicyName, Selectors
  <2> QED
    BY <2>1, <2>2, <2>3, <2>4, <2>6 DEF TInv
<1> QED
  BY <1>1, <1>2, <1>3

LEMMA NextTypes == TInv /\ [Next]_vars => TInv'
<1> SUFFICES ASSUME TInv, [Next]_vars  PROVE TInv'
  OBVIOUS
<1>1. CASE UNCHANGED vars
  BY <1>1, LocalsStay, RestStays DEF TInv, vars, threadVars, storeVars, clusterVars
<1>2. ASSUME NEW t \in Threads, Proceed(t)  PROVE TInv'
  BY <1>2, BeforeVerdictTypes, ClassifyTypes, RespondTypes, IsolateTypes, CountTypes
  DEF Proceed
<1>3. ASSUME NEW t \in Threads, NEW e \in Events, AcceptWebhook(t, e)  PROVE TInv'
  BY <1>3, AcceptTypes
<1> QED
  BY <1>1, <1>2, <1>3, AroundTypes DEF Next

(* Every variable of the pipeline keeps its shape in every run, with any   *)
(* number of threads, any store size and any number of restarts: what is   *)
(* stored is a complete record, the store stays within EVENT_STORE_SIZE,   *)
(* every counter is a count, and every policy sent to the cluster has a    *)
(* name and one selector (processor.py:45-153, client.py:96-180).          *)
THEOREM PipelineTypeCorrect == Spec => []TypeOK
<1>1. Init => TInv
  BY InitTypes
<1>2. TInv /\ [Next]_vars => TInv'
  BY NextTypes
<1>3. TInv => TypeOK
  BY TInvTypes
<1> QED
  BY <1>1, <1>2, <1>3, PTL DEF Spec

-----------------------------------------------------------------------------
(* The isolations.                                                         *)

(* A variable that holds something for each thread. *)
PerThread(f) == f = [t \in Threads |-> f[t]]

Shape ==
  /\ PerThread(pc) /\ PerThread(event) /\ PerThread(target) /\ PerThread(raw)
  /\ \A c \in created : c.by \in Threads

(* Where a thread can be that has created an isolation. *)
AfterIsolate == PastResponse \cup {"lost"}

(* A thread that has isolated is past doing so, and does not read or write *)
(* its verdict again.                                                      *)
IsolatedIsPast == \A c \in created : pc[c.by] \in AfterIsolate

(* A thread is about to isolate only for a reason. *)
AboutToIsolate ==
  \A t \in Threads : pc[t] = "isolate" => ~Suppressed(t) /\ ToIsolate(t)

IInv ==
  /\ Shape /\ IsolatedIsPast /\ AboutToIsolate
  /\ IsolationJustified /\ OneIsolationPerEvent

LEMMA InitInv == Init => IInv
BY DEF Init, IInv, Shape, PerThread, IsolatedIsPast, AboutToIsolate,
       IsolationJustified, OneIsolationPerEvent

(* The verdict on an event depends on what its own thread knows, and on    *)
(* nothing else.                                                           *)
LEMMA VerdictStays ==
  ASSUME NEW t, event'[t] = event[t], target'[t] = target[t], raw'[t] = raw[t]
  PROVE  /\ Suppressed(t)' <=> Suppressed(t)
         /\ FinalSeverityOf(t)' = FinalSeverityOf(t)
         /\ ToIsolate(t)' <=> ToIsolate(t)
<1>1. FpScoreOf(t)' = FpScoreOf(t)
  BY DEF FpScoreOf
<1>2. FinalSeverityOf(t)' = FinalSeverityOf(t)
  BY <1>1 DEF FinalSeverityOf
<1>3. Suppressed(t)' <=> Suppressed(t)
  BY <1>1 DEF Suppressed
<1> QED
  BY <1>2, <1>3 DEF ToIsolate

(* A step of thread t that creates nothing: the others keep what they      *)
(* know, and t itself does if it has isolated.                             *)
LEMMA QuietStep ==
  ASSUME IInv, NEW t \in Threads, NEW step,
         pc' = [pc EXCEPT ![t] = step], step # "isolate",
         UNCHANGED clusterVars,
         PerThread(event)', PerThread(target)', PerThread(raw)',
         \A u \in Threads \ {t} :
           event'[u] = event[u] /\ target'[u] = target[u] /\ raw'[u] = raw[u],
         pc[t] \in AfterIsolate =>
           /\ step \in AfterIsolate
           /\ event'[t] = event[t] /\ target'[t] = target[t] /\ raw'[t] = raw[t]
  PROVE  IInv'
<1>1. Shape'
  BY DEF IInv, Shape, PerThread, clusterVars
<1>2. \A u \in Threads : pc'[u] = IF u = t THEN step ELSE pc[u]
  BY DEF IInv, Shape, PerThread
<1>3. IsolatedIsPast'
  BY <1>2 DEF IInv, Shape, IsolatedIsPast, clusterVars
<1>4. AboutToIsolate'
  <2>1. SUFFICES ASSUME NEW u \in Threads, pc'[u] = "isolate"
                 PROVE  Suppressed(u)' = FALSE /\ ToIsolate(u)'
    BY DEF AboutToIsolate
  <2>2. u # t /\ pc[u] = "isolate"
    BY <1>2, <2>1
  <2> QED
    BY <2>2, VerdictStays DEF IInv, AboutToIsolate
<1>5. IsolationJustified'
  <2>1. SUFFICES ASSUME NEW c \in created
                 PROVE  /\ AutoIsolate
                        /\ c.policy.pod = target'[c.by]
                        /\ c.policy.name.namespace \notin SystemNamespaces
                        /\ ~Suppressed(c.by)'
                        /\ FinalSeverityOf(c.by)' = "high"
    BY DEF IsolationJustified, clusterVars
  <2>2. /\ event'[c.by] = event[c.by] /\ target'[c.by] = target[c.by]
        /\ raw'[c.by] = raw[c.by]
    BY DEF IInv, Shape, IsolatedIsPast
  <2> QED
    BY <2>2, VerdictStays DEF IInv, IsolationJustified
<1>6. OneIsolationPerEvent'
  BY DEF IInv, OneIsolationPerEvent, clusterVars
<1> QED
  BY <1>1, <1>3, <1>4, <1>5, <1>6 DEF IInv

-----------------------------------------------------------------------------
(* The steps of a thread, one after another.                               *)

LEMMA AcceptInv ==
  ASSUME IInv, NEW t \in Threads, NEW e, AcceptWebhook(t, e)  PROVE IInv'
BY QuietStep, "parse" # "isolate"
DEF AcceptWebhook, Goto, IInv, Shape, PerThread, AfterIsolate, PastResponse,
    PastCountIsolation, PastCountDowngrade, PastStore

LEMMA BeforeVerdictInv ==
  ASSUME IInv, NEW t \in Threads, Parse(t) \/ Enrich(t) \/ LookupRaises(t)
  PROVE  IInv'
<1> USE DEF Goto, IInv, Shape, PerThread, AfterIsolate, PastResponse,
            PastCountIsolation, PastCountDowngrade, PastStore
<1>1. CASE Parse(t)
  BY <1>1, QuietStep DEF Parse
<1>2. CASE Enrich(t)
  BY <1>2, QuietStep DEF Enrich
<1>3. CASE LookupRaises(t)
  BY <1>3, QuietStep DEF LookupRaises
<1> QED
  BY <1>1, <1>2, <1>3

LEMMA ClassifyInv ==
  ASSUME IInv, NEW t \in Threads,
         \/ ClassifyByRules(t) \/ AskAi(t) \/ AiAnswers(t)
         \/ AiFallsBack(t) \/ AiAnswersBadly(t)
  PROVE  IInv'
<1> USE DEF Goto, IInv, Shape, PerThread, AfterIsolate, PastResponse,
            PastCountIsolation, PastCountDowngrade, PastStore
<1>1. CASE ClassifyByRules(t)
  BY <1>1, QuietStep DEF ClassifyByRules
<1>2. CASE AskAi(t)
  BY <1>2, QuietStep DEF AskAi
<1>3. CASE AiAnswers(t)
  BY <1>3, QuietStep DEF AiAnswers
<1>4. CASE AiFallsBack(t)
  BY <1>4, QuietStep DEF AiFallsBack
<1>5. CASE AiAnswersBadly(t)
  BY <1>5, QuietStep DEF AiAnswersBadly
<1> QED
  BY <1>1, <1>2, <1>3, <1>4, <1>5

LEMMA RecordInv ==
  ASSUME IInv, NEW t \in Threads,
         \/ Suppress(t) \/ RespondPlainly(t) \/ IsolateFails(t)
         \/ CountIsolation(t) \/ CountDowngrade(t) \/ StoreRecord(t)
         \/ CountEvent(t) \/ CountAction(t)
  PROVE  IInv'
<1> USE DEF Goto, IInv, Shape, PerThread, AfterIsolate, PastResponse,
            PastCountIsolation, PastCountDowngrade, PastStore
<1>1. CASE Suppress(t)
  BY <1>1, QuietStep DEF Suppress
<1>2. CASE RespondPlainly(t)
  BY <1>2, QuietStep DEF RespondPlainly
<1>3. CASE IsolateFails(t)
  BY <1>3, QuietStep DEF IsolateFails
<1>4. CASE CountIsolation(t)
  BY <1>4, QuietStep DEF CountIsolation
<1>5. CASE CountDowngrade(t)
  BY <1>5, QuietStep DEF CountDowngrade
<1>6. CASE StoreRecord(t)
  BY <1>6, QuietStep DEF StoreRecord
<1>7. CASE CountEvent(t)
  BY <1>7, QuietStep DEF CountEvent
<1>8. CASE CountAction(t)
  BY <1>8, QuietStep DEF CountAction
<1> QED
  BY <1>1, <1>2, <1>3, <1>4, <1>5, <1>6, <1>7, <1>8

(* A thread that goes on to isolate has just read its verdict.             *)
LEMMA ReadLabelsInv ==
  ASSUME IInv, NEW t \in Threads, ReadLabels(t)  PROVE IInv'
<1>1. /\ pc[t] = "respond" /\ ~Suppressed(t) /\ ToIsolate(t)
      /\ pc' = [pc EXCEPT ![t] = "isolate"]
      /\ UNCHANGED <<event, target, raw, clusterVars>>
  BY DEF ReadLabels, Goto
<1>2. \A u \in Threads : pc'[u] = IF u = t THEN "isolate" ELSE pc[u]
  BY <1>1 DEF IInv, Shape, PerThread
<1>3. Shape'
  BY <1>1 DEF IInv, Shape, PerThread, clusterVars
<1>4. IsolatedIsPast'
  BY <1>1, <1>2
  DEF IInv, Shape, IsolatedIsPast, clusterVars, AfterIsolate, PastResponse,
      PastCountIsolation, PastCountDowngrade, PastStore
<1>5. AboutToIsolate'
  BY <1>1, <1>2, VerdictStays DEF IInv, AboutToIsolate
<1>6. IsolationJustified' /\ OneIsolationPerEvent'
  BY <1>1, VerdictStays DEF IInv, IsolationJustified, OneIsolationPerEvent, clusterVars
<1> QED
  BY <1>3, <1>4, <1>5, <1>6 DEF IInv

(* The one step that creates a policy: its thread has created none so far, *)
(* and the API server has no policy of that name.                          *)
LEMMA IsolateInv ==
  ASSUME IInv, NEW t \in Threads, Isolate(t)  PROVE IInv'
<1> DEFINE q == [name |-> PolicyNameOf(t), pod |-> target[t], selector |-> SelectorOf(t)]
           d == [by |-> t, policy |-> q]
<1>1. /\ pc[t] = "isolate" /\ ~Protected(t)
      /\ \A r \in policies : r.name # PolicyNameOf(t)
      /\ policies' = policies \cup {q}
      /\ created' = created \cup {d}
      /\ pc' = [pc EXCEPT ![t] = "countIsolation"]
      /\ UNCHANGED <<event, target, raw>>
  BY DEF Isolate, Goto
<1>2. /\ q.name = PolicyNameOf(t) /\ q.pod = target[t] /\ d.by = t /\ d.policy = q
      /\ q.name.namespace = PodNamespace[target[t]]
  BY DEF PolicyNameOf
<1>3. \A c \in created : c.by # t
  BY <1>1
  DEF IInv, IsolatedIsPast, AfterIsolate, PastResponse, PastCountIsolation,
      PastCountDowngrade, PastStore
<1> HIDE DEF q, d
<1>4. \A u \in Threads : pc'[u] = IF u = t THEN "countIsolation" ELSE pc[u]
  BY <1>1 DEF IInv, Shape, PerThread
<1>5. Shape'
  BY <1>1, <1>2 DEF IInv, Shape, PerThread
<1>6. IsolatedIsPast'
  BY <1>1, <1>2, <1>4 DEF IInv, Shape, IsolatedIsPast, AfterIsolate, PastResponse
<1>7. AboutToIsolate'
  BY <1>1, <1>4, VerdictStays DEF IInv, AboutToIsolate
<1>8. IsolationJustified'
  <2>1. ~Suppressed(t) /\ ToIsolate(t)
    BY <1>1 DEF IInv, AboutToIsolate
  <2>2. AutoIsolate /\ FinalSeverityOf(t) = "high"
    BY <2>1 DEF ToIsolate
  <2>3. q.name.namespace \notin SystemNamespaces
    BY <1>1, <1>2 DEF Protected
  <2> QED
    BY <1>1, <1>2, <2>1, <2>2, <2>3, VerdictStays DEF IInv, IsolationJustified
<1>9. OneIsolationPerEvent'
  BY <1>1, <1>2, <1>3 DEF IInv, OneIsolationPerEvent
<1> QED
  BY <1>5, <1>6, <1>7, <1>8, <1>9 DEF IInv

-----------------------------------------------------------------------------
(* The death of the process takes every running thread with it, wherever   *)
(* it is; what it isolated stays isolated.                                 *)
LEMMA RestartInv == ASSUME IInv, Restart  PROVE IInv'
<1>1. /\ pc' = [t \in Threads |-> IF pc[t] = "idle" THEN "idle" ELSE "lost"]
      /\ UNCHANGED <<event, target, raw, clusterVars>>
  BY DEF Restart
<1>2. Shape' /\ AboutToIsolate' /\ OneIsolationPerEvent'
  BY <1>1 DEF IInv, Shape, PerThread, AboutToIsolate, OneIsolationPerEvent, clusterVars
<1>3. IsolatedIsPast'
  BY <1>1
  DEF IInv, Shape, IsolatedIsPast, AfterIsolate, PastResponse, PastCountIsolation,
      PastCountDowngrade, PastStore, clusterVars
<1>4. IsolationJustified'
  BY <1>1, VerdictStays DEF IInv, IsolationJustified, clusterVars
<1> QED
  BY <1>2, <1>3, <1>4 DEF IInv

LEMMA NextInv == IInv /\ [Next]_vars => IInv'
<1> SUFFICES ASSUME IInv, [Next]_vars PROVE IInv'
  OBVIOUS
<1>1. ASSUME NEW t \in Threads, Proceed(t) PROVE IInv'
  BY <1>1, BeforeVerdictInv, ClassifyInv, RecordInv, ReadLabelsInv, IsolateInv
  DEF Proceed
<1>2. ASSUME NEW t \in Threads, NEW e \in Events, AcceptWebhook(t, e) PROVE IInv'
  BY <1>2, AcceptInv
<1>3. CASE \/ \E q \in policies : DeleteIsolation(q)
           \/ Tick \/ UNCHANGED vars
  <2>1. /\ UNCHANGED <<pc, event, target, raw, created>>
        /\ policies' \subseteq policies
    BY <1>3 DEF DeleteIsolation, Tick, vars, threadVars, clusterVars
  <2>2. Shape' /\ IsolatedIsPast'
    BY <2>1 DEF IInv, Shape, PerThread, IsolatedIsPast
  <2>3. AboutToIsolate' /\ IsolationJustified' /\ OneIsolationPerEvent'
    BY <2>1, VerdictStays DEF IInv, AboutToIsolate, IsolationJustified, OneIsolationPerEvent
  <2> QED
    BY <2>2, <2>3 DEF IInv
<1>4. CASE Restart
  BY <1>4, RestartInv
<1> QED
  BY <1>1, <1>2, <1>3, <1>4 DEF Next

(* No pod is ever cut off the network without cause, for any number of     *)
(* threads and whatever the thresholds and namespaces are                  *)
(* (processor.py:123-223, client.py:103).                                  *)
THEOREM IsolationsAreJustified == Spec => []IsolationJustified
<1>1. IInv => IsolationJustified
  BY DEF IInv
<1> QED
  BY <1>1, InitInv, NextInv, PTL DEF Spec

(* One event isolates at most once, and the policies in the cluster are    *)
(* the server's own doing with one name each (processor.py:186-223,        *)
(* client.py:97-151).                                                      *)
THEOREM EventsIsolateOnce == Spec => []OneIsolationPerEvent
<1>1. IInv => OneIsolationPerEvent
  BY DEF IInv
<1> QED
  BY <1>1, InitInv, NextInv, PTL DEF Spec
=============================================================================
