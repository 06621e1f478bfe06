--------------------------- MODULE IncidentProofs ---------------------------
(***************************************************************************)
(* What ResponsePipeline owes to those who read its records: the records   *)
(* tell what was done, the counters agree with them, and the pipeline      *)
(* implements IncidentResponse, for any number of threads and restarts and *)
(* every size of the store.                                                *)
(***************************************************************************)
EXTENDS PipelineProofs

(* What the record says of the response.                                   *)

IsolatedBy(t) == \E c \in created : c.by = t

(* Before its response was executed a thread has no policy to name.        *)
Early == {"idle"} \cup (Steps \ PastResponse)

Attempted == {"auto_isolate", "auto_isolate_failed"}

(* What the action and the policy name of a thread say at each step.       *)
Outcome(t) ==
  /\ pc[t] \in Early => policy[t] = NoPolicy
  /\ pc[t] \in {"isolate", "countIsolation", "countDowngrade"} => ~Suppressed(t)
  /\ pc[t] = "countIsolation" => action[t] \in Attempted
  /\ pc[t] \in PastResponse =>
       /\ policy[t] # NoPolicy <=> action[t] = "auto_isolate"
       /\ action[t] = "auto_isolate" =>
            \E c \in created : c.by = t /\ c.policy.name = policy[t]
       /\ IsolatedBy(t) => action[t] \in Attempted
       /\ Suppressed(t) <=> action[t] = "fp_suppressed"

OutcomeKnown == \A t \in Threads : Outcome(t)

(* A stored record is what its thread still holds.                         *)
CopyOf(r) ==
  /\ r.cause \in Threads /\ pc[r.cause] \in PastStore
  /\ r.policy = policy[r.cause] /\ r.action = action[r.cause]
  /\ r.suppressed <=> Suppressed(r.cause)

RecordsAreCopies == \A i \in DOMAIN events : CopyOf(events[i].rec)

RInv == OutcomeKnown /\ RecordsAreCopies /\ StoredOnceInOrder

LEMMA RecordsTell == RInv => RecordTellsWhatHappened
<1> SUFFICES ASSUME RInv, NEW i \in DOMAIN events
             PROVE  LET r == events[i].rec
                        isolations == { c \in created : c.by = r.cause }
                    IN /\ r.policy # NoPolicy <=> r.action = "auto_isolate"
                       /\ r.action = "auto_isolate" =>
                            \E c \in isolations : c.policy.name = r.policy
                       /\ isolations # {} => r.action \in Attempted
                       /\ r.suppressed <=> r.action = "fp_suppressed"
  BY DEF RecordTellsWhatHappened, Attempted
<1> DEFINE r == events[i].rec
<1>1. CopyOf(r) /\ Outcome(r.cause)
  BY DEF RInv, RecordsAreCopies, OutcomeKnown, CopyOf
<1> HIDE DEF r
<1>2. pc[r.cause] \in PastResponse
  BY <1>1 DEF CopyOf, PastResponse, PastCountIsolation, PastCountDowngrade
<1>3. /\ r.policy # NoPolicy <=> r.action = "auto_isolate"
      /\ r.action = "auto_isolate" =>
           \E c \in created : c.by = r.cause /\ c.policy.name = r.policy
      /\ IsolatedBy(r.cause) => r.action \in Attempted
      /\ r.suppressed <=> r.action = "fp_suppressed"
  BY <1>1, <1>2 DEF Outcome, CopyOf
<1> QED
  BY <1>3 DEF r, IsolatedBy

LEMMA InitRecords == Init => RInv
<1> SUFFICES ASSUME Init PROVE RInv
  OBVIOUS
<1>1. OutcomeKnown
  BY DEF Init, OutcomeKnown, Outcome, PastResponse, PastCountIsolation,
         PastCountDowngrade, PastStore
<1>2. events = <<>> /\ idCounter = 0 /\ DOMAIN events = {} /\ Len(events) = 0
  BY DEF Init, Store!Init
<1>3. RecordsAreCopies /\ StoredOnceInOrder
  BY <1>2, PipelineAssumption
  DEF RecordsAreCopies, StoredOnceInOrder, Store!IdsAreAWindow, PipelineAssumption
<1> QED
  BY <1>1, <1>3 DEF RInv

(* A thread's own locals, and what it has isolated, are what Outcome reads *)
(* of the state.                                                           *)
Kept(t) ==
  /\ event'[t] = event[t] /\ target'[t] = target[t] /\ raw'[t] = raw[t]
  /\ action'[t] = action[t] /\ policy'[t] = policy[t]
  /\ \A c : c.by = t => (c \in created' <=> c \in created)

LEMMA OutcomeStays ==
  ASSUME NEW t \in Threads, Kept(t), pc'[t] = pc[t], Outcome(t)  PROVE Outcome(t)'
<1>1. Suppressed(t)' <=> Suppressed(t)
  BY VerdictStays DEF Kept
<1>2. IsolatedBy(t)' <=> IsolatedBy(t)
  BY DEF Kept, IsolatedBy
<1>3. (\E c \in created : c.by = t /\ c.policy.name = policy[t])
        => \E c \in created' : c.by = t /\ c.policy.name = policy'[t]
  BY DEF Kept
<1> QED
  BY <1>1, <1>2, <1>3 DEF Outcome, Kept

(* The late steps of a thread count what was done and change none of it.   *)
LEMMA LateStep ==
  ASSUME NEW t \in Threads, Kept(t), Outcome(t), pc[t] \in PastResponse,
         pc'[t] \in PastCountIsolation,
         pc'[t] = "countDowngrade" => pc[t] = "countIsolation"
  PROVE  Outcome(t)'
<1>1. Suppressed(t)' <=> Suppressed(t)
  BY VerdictStays DEF Kept
<1>2. IsolatedBy(t)' <=> IsolatedBy(t)
  BY DEF Kept, IsolatedBy
<1>3. (\E c \in created : c.by = t /\ c.policy.name = policy[t])
        => \E c \in created' : c.by = t /\ c.policy.name = policy'[t]
  BY DEF Kept
<1>4. /\ pc'[t] \notin Early /\ pc'[t] \in PastResponse
      /\ pc'[t] \notin {"isolate", "countIsolation"}
  BY DEF Early, PastResponse, PastCountIsolation, PastCountDowngrade, PastStore
<1>5. pc'[t] = "countDowngrade" => ~Suppressed(t)
  BY DEF Outcome
<1> QED
  BY <1>1, <1>2, <1>3, <1>4, <1>5 DEF Outcome, Kept

(* The early ones have not answered yet.                                   *)
LEMMA EarlyStep ==
  ASSUME NEW t \in Threads, Outcome(t), pc[t] \in Early, policy'[t] = policy[t],
         pc'[t] \notin PastResponse,
         pc'[t] = "isolate" => ~Suppressed(t)'
  PROVE  Outcome(t)'
<1>1. policy'[t] = NoPolicy
  BY DEF Outcome
<1>2. pc'[t] \notin {"countIsolation", "countDowngrade"}
  BY DEF PastResponse, PastCountIsolation
<1> QED
  BY <1>1, <1>2 DEF Outcome

(* The step that executes the response.                                    *)
LEMMA SuppressTells ==
  ASSUME TInv, IInv, OutcomeKnown, NEW t \in Threads, Suppress(t)  PROVE Outcome(t)'
<1>1. /\ pc[t] = "respond" /\ Suppressed(t)
      /\ pc'[t] = "store" /\ action'[t] = "fp_suppressed"
      /\ UNCHANGED <<event, target, raw, policy, created>>
  BY DEF Suppress, Goto, TInv, Locals, clusterVars
<1>2. policy[t] = NoPolicy /\ ~IsolatedBy(t)
  BY <1>1 DEF OutcomeKnown, Outcome, Early, Steps, IInv, IsolatedIsPast, IsolatedBy,
              AfterIsolate, PastResponse, PastCountIsolation, PastCountDowngrade, PastStore
<1>3. Suppressed(t)' /\ ~IsolatedBy(t)'
  BY <1>1, <1>2, VerdictStays DEF IsolatedBy
<1>4. "store" \notin Early
  BY DEF Early, PastResponse, PastCountIsolation, PastCountDowngrade
<1> QED
  BY <1>1, <1>2, <1>3, <1>4 DEF Outcome

LEMMA RespondPlainlyTells ==
  ASSUME TInv, IInv, OutcomeKnown, NEW t \in Threads, RespondPlainly(t)  PROVE Outcome(t)'
<1>1. /\ pc[t] = "respond" /\ ~Suppressed(t)
      /\ pc'[t] = "countDowngrade" /\ action'[t] = PlainAction(t)
      /\ UNCHANGED <<event, target, raw, policy, created>>
  BY DEF RespondPlainly, Goto, TInv, Locals, clusterVars
<1>2. policy[t] = NoPolicy /\ ~IsolatedBy(t)
  BY <1>1 DEF OutcomeKnown, Outcome, Early, Steps, IInv, IsolatedIsPast, IsolatedBy,
              AfterIsolate, PastResponse, PastCountIsolation, PastCountDowngrade, PastStore
<1>3. ~Suppressed(t)' /\ ~IsolatedBy(t)'
  BY <1>1, <1>2, VerdictStays DEF IsolatedBy
<1>4. "countDowngrade" \notin Early
  BY DEF Early, PastResponse, PastCountIsolation
<1>5. action'[t] \notin {"auto_isolate", "auto_isolate_failed", "fp_suppressed"}
  BY <1>1 DEF PlainAction
<1> QED
  BY <1>1, <1>2, <1>3, <1>4, <1>5 DEF Outcome

LEMMA IsolateTells ==
  ASSUME TInv, IInv, OutcomeKnown, NEW t \in Threads, Isolate(t)  PROVE Outcome(t)'
<1> DEFINE q == [name |-> PolicyNameOf(t), pod |-> target[t], selector |-> SelectorOf(t)]
           d == [by |-> t, policy |-> q]
<1>1. /\ pc[t] = "isolate" /\ pc'[t] = "countIsolation"
      /\ created' = created \cup {d}
      /\ UNCHANGED <<event, target, raw>>
      /\ \/ action'[t] = "auto_isolate" /\ policy'[t] = PolicyNameOf(t)
         \/ action'[t] = "auto_isolate_failed" /\ policy'[t] = policy[t]
  BY DEF Isolate, Goto, TInv, Locals
<1>2. d \in created' /\ d.by = t /\ d.policy.name = PolicyNameOf(t)
  BY <1>1
<1> HIDE DEF d
<1>3. policy[t] = NoPolicy /\ ~Suppressed(t)
  BY <1>1 DEF OutcomeKnown, Outcome, Early, Steps, PastResponse, PastCountIsolation,
              PastCountDowngrade, PastStore
<1>4. ~Suppressed(t)'
  BY <1>1, <1>3, VerdictStays
<1>5. PolicyNameOf(t) # NoPolicy
  <2>1. target[t] \in Pods /\ second \in 0..MaxSecond
    BY <1>1 DEF TInv, Known, Around
  <2> QED
    BY <2>1, NameAssumption DEF NameAssumption, PolicyNameOf, PolicyName
<1>6. "countIsolation" \notin Early
  BY DEF Early, PastResponse
<1> QED
  BY <1>1, <1>2, <1>3, <1>4, <1>5, <1>6 DEF Outcome, Attempted

LEMMA IsolateFailsTells ==
  ASSUME TInv, IInv, OutcomeKnown, NEW t \in Threads, IsolateFails(t)  PROVE Outcome(t)'
<1>1. /\ pc[t] = "isolate" /\ pc'[t] = "countIsolation"
      /\ action'[t] = "auto_isolate_failed"
      /\ UNCHANGED <<event, target, raw, policy, created>>
  BY DEF IsolateFails, Goto, TInv, Locals, clusterVars
<1>2. policy[t] = NoPolicy /\ ~Suppressed(t)
  BY <1>1 DEF OutcomeKnown, Outcome, Early, Steps, PastResponse, PastCountIsolation,
              PastCountDowngrade, PastStore
<1>3. ~Suppressed(t)'
  BY <1>1, <1>2, VerdictStays
<1>4. "countIsolation" \notin Early
  BY DEF Early, PastResponse
<1> QED
  BY <1>1, <1>2, <1>3, <1>4 DEF Outcome, Attempted

-----------------------------------------------------------------------------
(* Thread by thread: a step is the matter of its own thread.               *)

Earlier(t) == \/ Parse(t) \/ Enrich(t) \/ LookupRaises(t) \/ ClassifyByRules(t)
              \/ AskAi(t) \/ AiAnswers(t) \/ AiFallsBack(t) \/ AiAnswersBadly(t)

Responds(t) == \/ Suppress(t) \/ RespondPlainly(t) \/ ReadLabels(t)
               \/ Isolate(t) \/ IsolateFails(t)

Later(t) == \/ CountIsolation(t) \/ CountDowngrade(t) \/ StoreRecord(t)
            \/ CountEvent(t) \/ CountAction(t)

LEMMA ThreeStages == \A t : Proceed(t) <=> Earlier(t) \/ Responds(t) \/ Later(t)
BY DEF Proceed, Earlier, Responds, Later

Moves(t) == \/ Proceed(t) \/ \E e \in Events : AcceptWebhook(t, e)

LEMMA OthersKeep ==
  ASSUME TInv, NEW t \in Threads, Moves(t), NEW u \in Threads \ {t}
  PROVE  Kept(u) /\ pc'[u] = pc[u]
<1> USE DEF Kept, Goto, TInv, Locals, clusterVars
<1>1. ASSUME NEW e \in Events, AcceptWebhook(t, e)  PROVE Kept(u) /\ pc'[u] = pc[u]
  BY <1>1 DEF AcceptWebhook
<1>2. CASE Parse(t) \/ Enrich(t) \/ LookupRaises(t)
  BY <1>2 DEF Parse, Enrich, LookupRaises
<1>3. CASE \/ ClassifyByRules(t) \/ AskAi(t) \/ AiAnswers(t) \/ AiFallsBack(t)
           \/ AiAnswersBadly(t)
  BY <1>3 DEF ClassifyByRules, AskAi, AiAnswers, AiFallsBack, AiAnswersBadly
<1>4. CASE Suppress(t) \/ RespondPlainly(t) \/ ReadLabels(t) \/ IsolateFails(t)
  BY <1>4 DEF Suppress, RespondPlainly, ReadLabels, IsolateFails
<1>5. CASE Isolate(t)
  <2> DEFINE d == [by |-> t, policy |-> [name |-> PolicyNameOf(t), pod |-> target[t],
                                         selector |-> SelectorOf(t)]]
  <2>1. /\ created' = created \cup {d} /\ d.by = t /\ pc'[u] = pc[u]
        /\ UNCHANGED <<event, target, raw>>
        /\ action'[u] = action[u] /\ policy'[u] = policy[u]
    BY <1>5 DEF Isolate
  <2> HIDE DEF d
  <2> QED
    BY <2>1
<1>6. CASE Later(t)
  BY <1>6 DEF Later, CountIsolation, CountDowngrade, StoreRecord, CountEvent, CountAction
<1> QED
  BY <1>1, <1>2, <1>3, <1>4, <1>5, <1>6 DEF Moves, Proceed, Later

LEMMA EarlierMoves ==
  ASSUME TInv, NEW t \in Threads, Earlier(t) \/ \E e \in Events : AcceptWebhook(t, e)
  PROVE  /\ pc[t] \in {"idle", "parse", "enrich", "classify", "aiWait"}
         /\ pc'[t] \in {"parse", "badEvent", "canary", "enrich", "badLookup", "classify",
                        "aiWait", "badAnswer", "respond"}
         /\ pc[t] = "aiWait" => pc'[t] \in {"badAnswer", "respond"}
         /\ UNCHANGED <<action, policy, created, events, idCounter>>
<1> USE DEF Goto, TInv, Locals, clusterVars, storeVars
<1>1. CASE \E e \in Events : AcceptWebhook(t, e)
  BY <1>1 DEF AcceptWebhook
<1>2. CASE Parse(t) \/ Enrich(t) \/ LookupRaises(t)
  BY <1>2 DEF Parse, Enrich, LookupRaises
<1>3. CASE \/ ClassifyByRules(t) \/ AskAi(t) \/ AiAnswers(t) \/ AiFallsBack(t)
           \/ AiAnswersBadly(t)
  BY <1>3 DEF ClassifyByRules, AskAi, AiAnswers, AiFallsBack, AiAnswersBadly
<1> QED
  BY <1>1, <1>2, <1>3 DEF Earlier

LEMMA LaterMoves ==
  ASSUME TInv, NEW t \in Threads, Later(t)
  PROVE  /\ Kept(t)
         /\ \/ pc[t] = "countIsolation" /\ pc'[t] = "countDowngrade"
            \/ pc[t] = "countDowngrade" /\ pc'[t] = "store"
            \/ pc[t] = "store" /\ pc'[t] = "countEvent"
            \/ pc[t] = "countEvent" /\ pc'[t] = "countAction"
            \/ pc[t] = "countAction" /\ pc'[t] = "done"
BY DEF Later, CountIsolation, CountDowngrade, StoreRecord, CountEvent, CountAction,
       Kept, Goto, TInv, Locals, clusterVars

LEMMA OwnOutcome ==
  ASSUME TInv, IInv, OutcomeKnown, NEW t \in Threads, Moves(t)  PROVE Outcome(t)'
<1>1. Outcome(t)
  BY DEF OutcomeKnown
<1>2. CASE Earlier(t) \/ \E e \in Events : AcceptWebhook(t, e)
  <2>1. /\ pc[t] \in {"idle", "parse", "enrich", "classify", "aiWait"}
        /\ pc'[t] \in {"parse", "badEvent", "canary", "enrich", "badLookup", "classify",
                       "aiWait", "badAnswer", "respond"}
        /\ policy' = policy
    BY <1>2, EarlierMoves
  <2>2. pc[t] \in Early /\ pc'[t] \notin PastResponse /\ pc'[t] # "isolate"
    BY <2>1 DEF Early, Steps, PastResponse, PastCountIsolation, PastCountDowngrade,
                PastStore
  <2> QED
    BY <1>1, <2>1, <2>2, EarlyStep
<1>3. CASE ReadLabels(t)
  <2>1. /\ pc[t] = "respond" /\ ~Suppressed(t) /\ pc'[t] = "isolate"
        /\ UNCHANGED <<event, target, raw, policy>>
    BY <1>3 DEF ReadLabels, Goto, TInv, Locals
  <2>2. pc[t] \in Early /\ pc'[t] \notin PastResponse
    BY <2>1 DEF Early, Steps, PastResponse, PastCountIsolation, PastCountDowngrade,
                PastStore
  <2>3. ~Suppressed(t)'
    BY <2>1, VerdictStays
  <2> QED
    BY <1>1, <2>1, <2>2, <2>3, EarlyStep
<1>4. CASE Suppress(t) \/ RespondPlainly(t) \/ Isolate(t) \/ IsolateFails(t)
  BY <1>4, SuppressTells, RespondPlainlyTells, IsolateTells, IsolateFailsTells
<1>5. CASE Later(t)
  <2>1. /\ Kept(t) /\ pc[t] \in PastResponse /\ pc'[t] \in PastCountIsolation
        /\ pc'[t] = "countDowngrade" => pc[t] = "countIsolation"
    BY <1>5, LaterMoves DEF PastResponse, PastCountIsolation, PastCountDowngrade, PastStore
  <2> QED
    BY <1>1, <2>1, LateStep
<1> QED
  BY <1>2, <1>3, <1>4, <1>5, ThreeStages DEF Moves, Responds

LEMMA OutcomeStep ==
  ASSUME TInv, IInv, OutcomeKnown, NEW t \in Threads, Moves(t)  PROVE OutcomeKnown'
<1>1. ASSUME NEW u \in Threads \ {t}  PROVE Outcome(u)'
  BY OthersKeep, OutcomeStays DEF OutcomeKnown
<1>2. Outcome(t)'
  BY OwnOutcome
<1> QED
  BY <1>1, <1>2 DEF OutcomeKnown

-----------------------------------------------------------------------------
(* What the store holds.                                                   *)

(* Appending to the ring buffer keeps its entries but the oldest, which    *)
(* goes when the buffer is full (deque.append with a maxlen).              *)
LEMMA RingAppend ==
  ASSUME NEW S, NEW s \in Seq(S), NEW e \in S, Len(s) <= MaxSize
  PROVE  LET b == Store!Bounded(Append(s, e))
             d == IF Len(s) < MaxSize THEN 0 ELSE 1
         IN /\ Len(b) = Len(s) + 1 - d /\ DOMAIN b = 1..Len(b)
            /\ \A i \in 1..Len(b) : b[i] = IF i + d = Len(s) + 1 THEN e ELSE s[i + d]
<1> DEFINE a == Append(s, e)
           b == Store!Bounded(a)
           d == IF Len(s) < MaxSize THEN 0 ELSE 1
<1>1. MaxSize \in Nat
  BY PipelineAssumption DEF PipelineAssumption
<1>2. /\ a \in Seq(S) /\ Len(a) = Len(s) + 1 /\ Len(s) \in Nat /\ DOMAIN a = 1..Len(a)
      /\ \A i \in 1..Len(s) : a[i] = s[i]
      /\ a[Len(s) + 1] = e
  BY AppendProperties, LenProperties
<1>3. CASE Len(s) < MaxSize
  <2>1. b = a /\ d = 0
    BY <1>1, <1>2, <1>3 DEF Store!Bounded
  <2> HIDE DEF a, b, d
  <2>2. \A i \in 1..Len(b) : b[i] = IF i + d = Len(s) + 1 THEN e ELSE s[i + d]
    BY <1>2, <2>1
  <2> QED
    BY <1>2, <2>1, <2>2 DEF a, b, d
<1>4. CASE Len(s) = MaxSize
  <2>1. b = Tail(a) /\ d = 1
    BY <1>1, <1>2, <1>4 DEF Store!Bounded
  <2>2. a # <<>>
    BY <1>2
  <2>3. /\ Tail(a) \in Seq(S) /\ Len(Tail(a)) = Len(a) - 1
        /\ \A i \in 1..Len(Tail(a)) : Tail(a)[i] = a[i + 1]
    BY <1>2, <2>2, HeadTailProperties
  <2>4. DOMAIN Tail(a) = 1..Len(Tail(a))
    BY <2>3, LenProperties
  <2> HIDE DEF a, b, d
  <2>5. \A i \in 1..Len(b) : b[i] = IF i + d = Len(s) + 1 THEN e ELSE s[i + d]
    BY <1>2, <2>1, <2>3
  <2>6. Len(b) = Len(s) + 1 - d /\ DOMAIN b = 1..Len(b)
    BY <1>2, <2>1, <2>3, <2>4
  <2> QED
    BY <2>5, <2>6 DEF a, b, d
<1> QED
  BY <1>1, <1>2, <1>3, <1>4

LEMMA CopyStays ==
  ASSUME NEW r, CopyOf(r), Kept(r.cause), pc'[r.cause] \in PastStore  PROVE CopyOf(r)'
<1>1. Suppressed(r.cause)' <=> Suppressed(r.cause)
  BY VerdictStays DEF Kept
<1> QED
  BY <1>1 DEF CopyOf, Kept

(* A record outlives every step of every thread, its own among them.       *)
LEMMA CopiesStay ==
  ASSUME TInv, NEW t \in Threads, Moves(t), NEW r, CopyOf(r)  PROVE CopyOf(r)'
<1>1. r.cause \in Threads /\ pc[r.cause] \in PastStore
  BY DEF CopyOf
<1>2. CASE r.cause # t
  BY <1>1, <1>2, OthersKeep, CopyStays
<1>3. CASE r.cause = t
  <2>1. pc[t] \in {"countEvent", "countAction", "done"}
    BY <1>1, <1>3 DEF PastStore
  <2>2. ~(Earlier(t) \/ \E e \in Events : AcceptWebhook(t, e))
    BY <2>1, EarlierMoves
  <2>3. ~Responds(t)
    BY <2>1 DEF Responds, Suppress, RespondPlainly, ReadLabels, Isolate, IsolateFails
  <2>4. Later(t)
    BY <2>2, <2>3, ThreeStages DEF Moves
  <2>5. Kept(t) /\ pc'[t] \in PastStore
    BY <2>1, <2>4, LaterMoves DEF PastStore
  <2> QED
    BY <1>3, <2>5, CopyStays
<1> QED
  BY <1>2, <1>3

(* The fields of a record that tell of the response.                       *)
LEMMA RecordFields ==
  ASSUME NEW t
  PROVE  /\ RecordOf(t).cause = t
         /\ RecordOf(t).policy = policy[t] /\ RecordOf(t).action = action[t]
         /\ RecordOf(t).suppressed <=> Suppressed(t)
BY DEF RecordOf, Suppressed, IsSuppressed

LEMMA StoreRecordTells ==
  ASSUME TInv, RecordsAreCopies, StoredOnceInOrder, NEW t \in Threads, StoreRecord(t)
  PROVE  RecordsAreCopies' /\ StoredOnceInOrder'
<1>1. PICK s, e, id, n, d :
        /\ s = events /\ id = idCounter /\ n = Len(events)
        /\ e = [id |-> idCounter + 1, rec |-> RecordOf(t)]
        /\ d = IF Len(events) < MaxSize THEN 0 ELSE 1
  OBVIOUS
<1>2. /\ pc[t] = "store" /\ pc'[t] = "countEvent"
      /\ events' = Store!Bounded(Append(s, e))
      /\ idCounter' = id + 1
      /\ Kept(t)
  BY <1>1 DEF StoreRecord, Store!Add, Goto, TInv, Locals, Kept, clusterVars
<1>3. /\ e.id = id + 1 /\ e.rec.cause = t
      /\ e.rec.policy = policy[t] /\ e.rec.action = action[t]
      /\ e.rec.suppressed <=> Suppressed(t)
  <2>1. e.id = id + 1 /\ e.rec = RecordOf(t)
    BY <1>1
  <2> QED
    BY <2>1, RecordFields
<1>4. /\ MaxSize \in Nat /\ id \in Nat /\ n \in Nat /\ n <= MaxSize
      /\ s \in Seq([id : Nat \ {0}, rec : Record]) /\ DOMAIN s = 1..n
  <2>1. MaxSize \in Nat
    BY PipelineAssumption DEF PipelineAssumption
  <2>2. /\ s \in Seq([id : Nat \ {0}, rec : Record]) /\ n = Len(s) /\ n <= MaxSize
        /\ id \in Nat
    BY <1>1 DEF TInv, Stored
  <2>3. n \in Nat /\ DOMAIN s = 1..n
    BY <2>2, LenProperties
  <2> QED
    BY <2>1, <2>2, <2>3
<1>5. d \in {0, 1} /\ (d = 0 <=> n < MaxSize) /\ n + 1 - d \in Nat
  BY <1>1, <1>4
<1>6. /\ Len(events') = n + 1 - d /\ DOMAIN events' = 1..(n + 1 - d)
      /\ \A i \in 1..(n + 1 - d) : events'[i] = IF i + d = n + 1 THEN e ELSE s[i + d]
  <2> DEFINE T == [id : Nat \ {0}, rec : Record]
  <2>1. s \in Seq(T \cup {e}) /\ e \in T \cup {e} /\ Len(s) = n /\ Len(s) <= MaxSize
    <3>1. s \in Seq(T) /\ Len(s) = n /\ n <= MaxSize
      BY <1>1, <1>4
    <3> HIDE DEF T
    <3> QED
      BY <3>1
  <2>2. d = IF Len(s) < MaxSize THEN 0 ELSE 1
    BY <1>1
  <2> DEFINE b == Store!Bounded(Append(s, e))
  <2>3. /\ Len(b) = Len(s) + 1 - d /\ DOMAIN b = 1..Len(b)
        /\ \A i \in 1..Len(b) : b[i] = IF i + d = Len(s) + 1 THEN e ELSE s[i + d]
    <3> HIDE DEF T
    <3> QED
      BY <2>1, <2>2, RingAppend
  <2>4. events' = b
    BY <1>2
  <2> HIDE DEF b, T
  <2> QED
    BY <2>1, <2>3, <2>4
<1>7. \A i \in 1..n : CopyOf(s[i].rec) /\ s[i].rec.cause # t
  BY <1>1, <1>2, <1>4 DEF RecordsAreCopies, CopyOf, PastStore
<1>8. \A i \in 1..(n + 1 - d) : i + d = n + 1 \/ i + d \in 1..n
  BY <1>4, <1>5
<1>9. RecordsAreCopies'
  <2>1. CopyOf(e.rec)'
    <3>1. Suppressed(t)' <=> Suppressed(t)
      BY <1>2, VerdictStays DEF Kept
    <3> QED
      BY <1>2, <1>3, <3>1 DEF CopyOf, Kept, PastStore
  <2>2. ASSUME NEW i \in 1..n  PROVE CopyOf(s[i].rec)'
    <3>1. CopyOf(s[i].rec) /\ Moves(t)
      BY <1>7, <2>2 DEF Moves, Proceed
    <3> QED
      BY <3>1, CopiesStay
  <2>3. ASSUME NEW i \in 1..(n + 1 - d)  PROVE CopyOf(events[i].rec)'
    <3>1. CASE i + d = n + 1
      <4>1. events'[i] = e
        BY <1>6, <3>1
      <4> QED
        BY <2>1, <4>1 DEF CopyOf
    <3>2. CASE i + d # n + 1
      <4>1. events'[i] = s[i + d] /\ i + d \in 1..n
        BY <1>6, <1>8, <3>2
      <4>2. CopyOf(s[i + d].rec)'
        BY <2>2, <4>1
      <4> QED
        BY <4>1, <4>2 DEF CopyOf
    <3> QED
      BY <3>1, <3>2
  <2> QED
    BY <1>6, <2>3 DEF RecordsAreCopies
<1>10. \A i, j \in DOMAIN events' : events'[i].rec.cause = events'[j].rec.cause => i = j
  <2>1. \A i, j \in 1..n : s[i].rec.cause = s[j].rec.cause => i = j
    BY <1>1, <1>4 DEF StoredOnceInOrder
  <2> SUFFICES ASSUME NEW i \in 1..(n + 1 - d), NEW j \in 1..(n + 1 - d),
                      events'[i].rec.cause = events'[j].rec.cause
               PROVE  i = j
    BY <1>6
  <2>2. CASE i + d = n + 1 /\ j + d = n + 1
    BY <1>4, <1>5, <2>2
  <2>3. CASE i + d = n + 1 /\ j + d # n + 1
    BY <1>3, <1>6, <1>7, <1>8, <2>3
  <2>4. CASE i + d # n + 1 /\ j + d = n + 1
    BY <1>3, <1>6, <1>7, <1>8, <2>4
  <2>5. CASE i + d # n + 1 /\ j + d # n + 1
    <3>1. i + d = j + d
      BY <1>6, <1>8, <2>1, <2>5
    <3> QED
      BY <1>5, <3>1
  <2> QED
    BY <2>2, <2>3, <2>4, <2>5
<1>11. Store!IdsAreAWindow'
  <2>1. /\ n = IF id < MaxSize THEN id ELSE MaxSize
        /\ \A i \in 1..n : s[i].id = id - n + i
    BY <1>1, <1>4 DEF StoredOnceInOrder, Store!IdsAreAWindow
  <2>2. n + 1 - d = IF id + 1 < MaxSize THEN id + 1 ELSE MaxSize
    BY <1>4, <1>5, <2>1
  <2>3. ASSUME NEW i \in 1..(n + 1 - d)
        PROVE  events'[i].id = id + 1 - (n + 1 - d) + i
    <3>1. CASE i + d = n + 1
      <4>1. events'[i] = e /\ e.id = id + 1
        BY <1>3, <1>6, <3>1
      <4>2. n + 1 - d = i
        BY <1>4, <1>5, <3>1
      <4> QED
        BY <1>4, <4>1, <4>2
    <3>2. CASE i + d # n + 1
      <4>1. events'[i] = s[i + d] /\ s[i + d].id = id - n + (i + d)
        BY <1>6, <1>8, <2>1, <3>2
      <4> QED
        BY <1>4, <1>5, <4>1
    <3> QED
      BY <3>1, <3>2
  <2>4. Len(events') = IF idCounter' < MaxSize THEN idCounter' ELSE MaxSize
    BY <1>2, <1>6, <2>2
  <2>5. ASSUME NEW i \in DOMAIN events'
        PROVE  events'[i].id = idCounter' - Len(events') + i
    <3>1. i \in 1..(n + 1 - d)
      BY <1>6
    <3>2. events'[i].id = id + 1 - (n + 1 - d) + i
      BY <2>3, <3>1
    <3>3. idCounter' = id + 1 /\ Len(events') = n + 1 - d
      BY <1>2, <1>6
    <3> QED
      BY <1>4, <1>5, <3>1, <3>2, <3>3
  <2> QED
    BY <2>4, <2>5 DEF Store!IdsAreAWindow
<1> QED
  BY <1>9, <1>10, <1>11 DEF StoredOnceInOrder

LEMMA RecordsStep ==
  ASSUME TInv, RecordsAreCopies, StoredOnceInOrder, NEW t \in Threads, Moves(t)
  PROVE  RecordsAreCopies' /\ StoredOnceInOrder'
<1>1. CASE StoreRecord(t)
  BY <1>1, StoreRecordTells
<1>2. CASE ~StoreRecord(t)
  <2>1. UNCHANGED <<events, idCounter>>
    <3>1. CASE Earlier(t) \/ \E e \in Events : AcceptWebhook(t, e)
      BY <3>1, EarlierMoves
    <3>2. CASE Responds(t)
      BY <3>2 DEF Responds, Suppress, RespondPlainly, ReadLabels, Isolate, IsolateFails,
                  storeVars
    <3>3. CASE Later(t)
      BY <1>2, <3>3
      DEF Later, CountIsolation, CountDowngrade, CountEvent, CountAction, storeVars
    <3> QED
      BY <3>1, <3>2, <3>3, ThreeStages DEF Moves
  <2>2. RecordsAreCopies'
    BY <2>1, CopiesStay DEF RecordsAreCopies
  <2>3. StoredOnceInOrder'
    BY <2>1 DEF StoredOnceInOrder, Store!IdsAreAWindow
  <2> QED
    BY <2>2, <2>3
<1> QED
  BY <1>1, <1>2

(* A restart empties the store, and what was lost tells nothing.           *)
LEMMA RestartTells == ASSUME TInv, RInv, Restart  PROVE RInv'
<1>1. /\ pc' = [t \in Threads |-> IF pc[t] = "idle" THEN "idle" ELSE "lost"]
      /\ policy' = policy /\ events' = <<>> /\ idCounter' = 0
  BY DEF Restart, Store!Clear
<1>2. OutcomeKnown'
  <2>1. "idle" \in Early /\ "idle" \notin PastResponse
        /\ "lost" \notin Early /\ "lost" \notin PastResponse
    BY DEF Early, Steps, PastResponse, PastCountIsolation, PastCountDowngrade, PastStore
  <2> QED
    BY <1>1, <2>1 DEF RInv, OutcomeKnown, Outcome
<1>3. DOMAIN events' = {} /\ Len(events') = 0
  BY <1>1
<1>4. RecordsAreCopies' /\ StoredOnceInOrder'
  BY <1>1, <1>3, PipelineAssumption
  DEF RecordsAreCopies, StoredOnceInOrder, Store!IdsAreAWindow, PipelineAssumption
<1> QED
  BY <1>2, <1>4 DEF RInv

LEMMA NextRecords == TInv /\ IInv /\ RInv /\ [Next]_vars => RInv'
<1> SUFFICES ASSUME TInv, IInv, RInv, [Next]_vars PROVE RInv'
  OBVIOUS
<1>1. ASSUME NEW t \in Threads, Moves(t)  PROVE RInv'
  BY <1>1, OutcomeStep, RecordsStep DEF RInv
<1>2. CASE \/ \E q \in policies : DeleteIsolation(q)
           \/ Tick \/ UNCHANGED vars
  <2>1. UNCHANGED <<pc, event, target, raw, action, policy, created, events, idCounter>>
    BY <1>2 DEF DeleteIsolation, Tick, vars, threadVars, clusterVars, storeVars
  <2>2. \A t : Kept(t)
    BY <2>1 DEF Kept
  <2>3. OutcomeKnown'
    BY <2>1, <2>2, OutcomeStays DEF RInv, OutcomeKnown
  <2>4. RecordsAreCopies'
    BY <2>1, <2>2, CopyStays DEF RInv, RecordsAreCopies, CopyOf
  <2>5. StoredOnceInOrder'
    BY <2>1 DEF RInv, StoredOnceInOrder, Store!IdsAreAWindow
  <2> QED
    BY <2>3, <2>4, <2>5 DEF RInv
<1>3. CASE Restart
  BY <1>3, RestartTells
<1> QED
  BY <1>1, <1>2, <1>3 DEF Next, Moves

LEMMA PipelineInvariants == Spec => [](TInv /\ IInv /\ RInv)
<1>1. Init => TInv /\ IInv /\ RInv
  BY InitTypes, InitInv, InitRecords
<1>2. TInv /\ IInv /\ RInv /\ [Next]_vars => (TInv /\ IInv /\ RInv)'
  BY NextTypes, NextInv, NextRecords
<1> QED
  BY <1>1, <1>2, PTL DEF Spec

(* The audit record tells what was done: it names a policy exactly when it *)
(* says auto_isolate, and then that policy was created for this event; it  *)
(* says nothing milder than auto_isolate_failed when a policy was created; *)
(* and a suppressed event is recorded as such (processor.py:116-139).      *)
THEOREM RecordsAreTrue == Spec => []RecordTellsWhatHappened
<1>1. RInv => RecordTellsWhatHappened
  BY RecordsTell
<1> QED
  BY <1>1, PipelineInvariants, PTL

(* An event is stored once, under the next number, and the store keeps the *)
(* newest, in whatever order threads finish (core/__init__.py:26-32).      *)
THEOREM EventsAreStoredOnce == Spec => []StoredOnceInOrder
<1>1. RInv => StoredOnceInOrder
  BY DEF RInv
<1> QED
  BY <1>1, PipelineInvariants, PTL

-----------------------------------------------------------------------------
(* The counters. Whom each of them has counted:                            *)

RatedAs(s)  == { t \in At({"countAction", "done"}) : FinalSeverityOf(t) = s }
Answered(a) == { t \in At({"done"}) : action[t] = a }
Isolated    == { t \in At(PastCountIsolation) : policy[t] # NoPolicy }
Failed      == { t \in At(PastCountIsolation) : action[t] = "auto_isolate_failed" }
Filtered    == { t \in At(PastCountDowngrade) : Suppressed(t) }
Eased       == { t \in At(PastCountDowngrade) : Lowered(t) }
Asked       == IF AiEnabled THEN At(PastAsking) ELSE {}

(* The threads of this process or an earlier one.                          *)
Begun == { t \in Threads : pc[t] # "idle" }

(* Only finitely many can have begun, so that there is a number of them.   *)
CInv == IsFiniteSet(Begun) /\ CountersAgree

LEMMA AgreeMeans ==
  CountersAgree <=>
    /\ idCounter = Cardinality(At(PastStore))
    /\ \A s \in Severity : metrics.events[s] = Cardinality(RatedAs(s))
    /\ \A a \in Actions : metrics.actions[a] = Cardinality(Answered(a))
    /\ metrics.isolations = Cardinality(Isolated)
    /\ metrics.isolationErrors = Cardinality(Failed)
    /\ metrics.fpSuppressed = Cardinality(Filtered)
    /\ metrics.fpDowngraded = Cardinality(Eased)
    /\ metrics.aiRequests = metrics.aiFallbacks + Cardinality(Asked)
    /\ metrics.aiErrors <= metrics.aiFallbacks
<1>1. Cardinality(Asked) = IF AiEnabled THEN Cardinality(At(PastAsking)) ELSE 0
  <2>1. Cardinality({}) = 0
    BY FS_EmptySet
  <2> QED
    BY <2>1 DEF Asked
<1> QED
  BY <1>1 DEF CountersAgree, RatedAs, Answered, Isolated, Failed, Filtered, Eased

(* The same of the state after a step.                                     *)
LEMMA AgreeThen ==
  CountersAgree' <=>
    /\ idCounter' = Cardinality(At(PastStore)')
    /\ \A s \in Severity : metrics'.events[s] = Cardinality(RatedAs(s)')
    /\ \A a \in Actions : metrics'.actions[a] = Cardinality(Answered(a)')
    /\ metrics'.isolations = Cardinality(Isolated')
    /\ metrics'.isolationErrors = Cardinality(Failed')
    /\ metrics'.fpSuppressed = Cardinality(Filtered')
    /\ metrics'.fpDowngraded = Cardinality(Eased')
    /\ metrics'.aiRequests = metrics'.aiFallbacks + Cardinality(Asked')
    /\ metrics'.aiErrors <= metrics'.aiFallbacks
<1>1. Cardinality(Asked') = IF AiEnabled THEN Cardinality(At(PastAsking)') ELSE 0
  <2>1. Cardinality({}) = 0
    BY FS_EmptySet
  <2> QED
    BY <2>1 DEF Asked
<1> QED
  BY <1>1 DEF CountersAgree, RatedAs, Answered, Isolated, Failed, Filtered, Eased

(* How much a step of thread t adds to a set it alone can enter.           *)
Gain(X, Y, t) == IF t \in Y /\ t \notin X THEN 1 ELSE 0

LEMMA Counting ==
  ASSUME NEW B, IsFiniteSet(B), NEW X \in SUBSET B, NEW Y, NEW t,
         t \in X => t \in Y,
         \A u : u # t => (u \in Y <=> u \in X)
  PROVE  /\ Cardinality(X) \in Nat /\ Cardinality(Y) = Cardinality(X) + Gain(X, Y, t)
<1>1. IsFiniteSet(X) /\ Cardinality(X) \in Nat
  BY FS_Subset, FS_CardinalityType
<1>2. CASE t \in Y /\ t \notin X
  <2>1. Y = X \cup {t}
    BY <1>2
  <2>2. Cardinality(X \cup {t}) = Cardinality(X) + 1
    BY <1>1, <1>2, FS_AddElement
  <2> QED
    BY <1>1, <1>2, <2>1, <2>2 DEF Gain
<1>3. CASE ~(t \in Y /\ t \notin X)
  <2>1. Y = X
    BY <1>3
  <2> QED
    BY <1>1, <1>3, <2>1 DEF Gain
<1> QED
  BY <1>2, <1>3

(* A step of thread t enters or leaves no set for another thread, and      *)
(* leaves none for itself.                                                 *)
LEMMA OthersAreCounted ==
  ASSUME TInv, NEW t \in Threads, Moves(t), NEW u, u # t
  PROVE  /\ u \in At(PastStore)' <=> u \in At(PastStore)
         /\ \A s : u \in RatedAs(s)' <=> u \in RatedAs(s)
         /\ \A a : u \in Answered(a)' <=> u \in Answered(a)
         /\ u \in Isolated' <=> u \in Isolated
         /\ u \in Failed' <=> u \in Failed
         /\ u \in Filtered' <=> u \in Filtered
         /\ u \in Eased' <=> u \in Eased
         /\ u \in Asked' <=> u \in Asked
         /\ u \in Begun' <=> u \in Begun
<1>1. CASE u \notin Threads
  BY <1>1 DEF At, RatedAs, Answered, Isolated, Failed, Filtered, Eased, Asked, Begun
<1>2. CASE u \in Threads
  <2>1. Kept(u) /\ pc'[u] = pc[u]
    BY <1>2, OthersKeep
  <2>2. /\ FinalSeverityOf(u)' = FinalSeverityOf(u)
        /\ Suppressed(u)' <=> Suppressed(u)
        /\ Lowered(u)' <=> Lowered(u)
    BY <2>1, VerdictStays DEF Kept, Lowered, FpScoreOf
  <2> QED
    BY <2>1, <2>2
    DEF Kept, At, RatedAs, Answered, Isolated, Failed, Filtered, Eased, Asked, Begun
<1> QED
  BY <1>1, <1>2

LEMMA RespondsMoves ==
  ASSUME TInv, NEW t \in Threads, Responds(t)
  PROVE  /\ pc[t] \in {"respond", "isolate"}
         /\ pc'[t] \in {"store", "countDowngrade", "isolate", "countIsolation"}
BY DEF Responds, Suppress, RespondPlainly, ReadLabels, Isolate, IsolateFails, Goto,
       TInv, Locals

LEMMA NobodyLeaves ==
  ASSUME TInv, NEW t \in Threads, Moves(t)
  PROVE  /\ t \in At(PastStore) => t \in At(PastStore)'
         /\ \A s : t \in RatedAs(s) => t \in RatedAs(s)'
         /\ \A a : t \in Answered(a) => t \in Answered(a)'
         /\ t \in Isolated => t \in Isolated'
         /\ t \in Failed => t \in Failed'
         /\ t \in Filtered => t \in Filtered'
         /\ t \in Eased => t \in Eased'
         /\ t \in Asked => t \in Asked'
         /\ pc'[t] # "idle"
<1> USE DEF At, RatedAs, Answered, Isolated, Failed, Filtered, Eased, Asked, PastAsking,
            PastResponse, PastCountIsolation, PastCountDowngrade, PastStore
<1>1. CASE Earlier(t) \/ \E e \in Events : AcceptWebhook(t, e)
  BY <1>1, EarlierMoves
<1>2. CASE Responds(t)
  BY <1>2, RespondsMoves
<1>3. CASE Later(t)
  <2>1. /\ FinalSeverityOf(t)' = FinalSeverityOf(t)
        /\ Suppressed(t)' <=> Suppressed(t)
        /\ Lowered(t)' <=> Lowered(t)
    BY <1>3, LaterMoves, VerdictStays DEF Kept, Lowered, FpScoreOf
  <2> QED
    BY <1>3, <2>1, LaterMoves DEF Kept
<1> QED
  BY <1>1, <1>2, <1>3, ThreeStages DEF Moves

LEMMA BegunStays ==
  ASSUME TInv, IsFiniteSet(Begun), NEW t \in Threads, Moves(t)
  PROVE  IsFiniteSet(Begun)'
<1>1. Begun' = Begun \cup {t}
  <2>1. \A u : u # t => (u \in Begun' <=> u \in Begun)
    BY OthersAreCounted
  <2>2. t \in Begun'
    BY NobodyLeaves DEF Begun
  <2> QED
    BY <2>1, <2>2
<1> QED
  BY <1>1, FS_AddElement

(* If every counter moves by what the step adds to the set it counts, the  *)
(* counters agree after it.                                                *)
LEMMA CountsMove ==
  ASSUME TInv, CInv, NEW t \in Threads, Moves(t),
         metrics' \in Counters,
         idCounter' = idCounter + Gain(At(PastStore), At(PastStore)', t),
         \A s \in Severity :
           metrics'.events[s] = metrics.events[s] + Gain(RatedAs(s), RatedAs(s)', t),
         \A a \in Actions :
           metrics'.actions[a] = metrics.actions[a] + Gain(Answered(a), Answered(a)', t),
         metrics'.isolations = metrics.isolations + Gain(Isolated, Isolated', t),
         metrics'.isolationErrors = metrics.isolationErrors + Gain(Failed, Failed', t),
         metrics'.fpSuppressed = metrics.fpSuppressed + Gain(Filtered, Filtered', t),
         metrics'.fpDowngraded = metrics.fpDowngraded + Gain(Eased, Eased', t),
         metrics'.aiRequests + metrics.aiFallbacks
           = metrics.aiRequests + metrics'.aiFallbacks + Gain(Asked, Asked', t),
         metrics'.aiErrors <= metrics'.aiFallbacks
  PROVE  CInv'
<1> USE DEF CInv
<1>1. IsFiniteSet(Begun)'
  BY BegunStays
<1>2. ASSUME NEW X \in SUBSET Begun, NEW Y, t \in X => t \in Y,
             \A u : u # t => (u \in Y <=> u \in X)
      PROVE  Cardinality(X) \in Nat /\ Cardinality(Y) = Cardinality(X) + Gain(X, Y, t)
  BY <1>2, Counting
<1>3. /\ At(PastStore) \subseteq Begun
      /\ \A s : RatedAs(s) \subseteq Begun
      /\ \A a : Answered(a) \subseteq Begun
      /\ Isolated \subseteq Begun /\ Failed \subseteq Begun
      /\ Filtered \subseteq Begun /\ Eased \subseteq Begun /\ Asked \subseteq Begun
  BY DEF Begun, At, RatedAs, Answered, Isolated, Failed, Filtered, Eased, Asked, PastAsking,
         PastResponse, PastCountIsolation, PastCountDowngrade, PastStore
<1>4. Cardinality(At(PastStore)')
        = Cardinality(At(PastStore)) + Gain(At(PastStore), At(PastStore)', t)
  BY <1>2, <1>3, NobodyLeaves, OthersAreCounted
<1>5. ASSUME NEW s
      PROVE  Cardinality(RatedAs(s)')
               = Cardinality(RatedAs(s)) + Gain(RatedAs(s), RatedAs(s)', t)
  BY <1>2, <1>3, NobodyLeaves, OthersAreCounted
<1>6. ASSUME NEW a
      PROVE  Cardinality(Answered(a)')
               = Cardinality(Answered(a)) + Gain(Answered(a), Answered(a)', t)
  BY <1>2, <1>3, NobodyLeaves, OthersAreCounted
<1>7. Cardinality(Isolated') = Cardinality(Isolated) + Gain(Isolated, Isolated', t)
  BY <1>2, <1>3, NobodyLeaves, OthersAreCounted
<1>8. Cardinality(Failed') = Cardinality(Failed) + Gain(Failed, Failed', t)
  BY <1>2, <1>3, NobodyLeaves, OthersAreCounted
<1>9. Cardinality(Filtered') = Cardinality(Filtered) + Gain(Filtered, Filtered', t)
  BY <1>2, <1>3, NobodyLeaves, OthersAreCounted
<1>10. Cardinality(Eased') = Cardinality(Eased) + Gain(Eased, Eased', t)
  BY <1>2, <1>3, NobodyLeaves, OthersAreCounted
<1>11. /\ Cardinality(Asked) \in Nat
       /\ Cardinality(Asked') = Cardinality(Asked) + Gain(Asked, Asked', t)
  BY <1>2, <1>3, NobodyLeaves, OthersAreCounted
<1>12. metrics'.aiRequests = metrics'.aiFallbacks + Cardinality(Asked')
  <2>1. /\ metrics.aiRequests \in Nat /\ metrics.aiFallbacks \in Nat
        /\ metrics'.aiRequests \in Nat /\ metrics'.aiFallbacks \in Nat
    BY DEF TInv, Counters
  <2>2. metrics.aiRequests = metrics.aiFallbacks + Cardinality(Asked)
    BY AgreeMeans
  <2>3. Gain(Asked, Asked', t) \in {0, 1}
    BY DEF Gain
  <2> QED
    BY <1>11, <2>1, <2>2, <2>3
<1>13. CountersAgree'
  <2>1. idCounter' = Cardinality(At(PastStore)')
    BY <1>4, AgreeMeans
  <2>2. \A s \in Severity : metrics'.events[s] = Cardinality(RatedAs(s)')
    BY <1>5, AgreeMeans
  <2>3. \A a \in Actions : metrics'.actions[a] = Cardinality(Answered(a)')
    BY <1>6, AgreeMeans
  <2>4. /\ metrics'.isolations = Cardinality(Isolated')
        /\ metrics'.isolationErrors = Cardinality(Failed')
    BY <1>7, <1>8, AgreeMeans
  <2>5. /\ metrics'.fpSuppressed = Cardinality(Filtered')
        /\ metrics'.fpDowngraded = Cardinality(Eased')
    BY <1>9, <1>10, AgreeMeans
  <2> QED
    BY <1>12, <2>1, <2>2, <2>3, <2>4, <2>5, AgreeThen
<1> QED
  BY <1>1, <1>13

CounterTypes ==
  /\ idCounter \in Nat
  /\ \A s \in Severity : metrics.events[s] \in Nat
  /\ \A a \in Actions : metrics.actions[a] \in Nat
  /\ metrics.isolations \in Nat /\ metrics.isolationErrors \in Nat
  /\ metrics.fpSuppressed \in Nat /\ metrics.fpDowngraded \in Nat
  /\ metrics.aiRequests \in Nat /\ metrics.aiErrors \in Nat /\ metrics.aiFallbacks \in Nat
  /\ metrics.aiErrors <= metrics.aiFallbacks

LEMMA CountersAreTyped == TInv /\ CInv => CounterTypes
BY AgreeMeans DEF TInv, CInv, Stored, Counters, CounterTypes

(* Before the answer: only the AI's own counters move, by the requests     *)
(* made (classifier.py:134-198).                                           *)
LEMMA EarlierCounts ==
  ASSUME TInv, TInv', CInv, NEW t \in Threads,
         Earlier(t) \/ \E e \in Events : AcceptWebhook(t, e)
  PROVE  CInv'
<1>1. Moves(t)
  BY ThreeStages DEF Moves
<1>2. /\ pc[t] \in {"idle", "parse", "enrich", "classify", "aiWait"}
      /\ pc'[t] \in {"parse", "badEvent", "canary", "enrich", "badLookup", "classify",
                     "aiWait", "badAnswer", "respond"}
      /\ idCounter' = idCounter
  BY EarlierMoves
<1>3. /\ Gain(At(PastStore), At(PastStore)', t) = 0
      /\ \A s : Gain(RatedAs(s), RatedAs(s)', t) = 0
      /\ \A a : Gain(Answered(a), Answered(a)', t) = 0
      /\ Gain(Isolated, Isolated', t) = 0 /\ Gain(Failed, Failed', t) = 0
      /\ Gain(Filtered, Filtered', t) = 0 /\ Gain(Eased, Eased', t) = 0
  BY <1>2 DEF Gain, At, RatedAs, Answered, Isolated, Failed, Filtered, Eased,
              PastCountIsolation, PastCountDowngrade, PastStore
<1>4. metrics \in Counters /\ metrics' \in Counters
  BY DEF TInv
<1>5. CounterTypes
  BY CountersAreTyped
<1> USE DEF CounterTypes
<1>6. /\ metrics'.events = metrics.events /\ metrics'.actions = metrics.actions
      /\ metrics'.isolations = metrics.isolations
      /\ metrics'.isolationErrors = metrics.isolationErrors
      /\ metrics'.fpSuppressed = metrics.fpSuppressed
      /\ metrics'.fpDowngraded = metrics.fpDowngraded
      /\ metrics'.aiRequests + metrics.aiFallbacks
           = metrics.aiRequests + metrics'.aiFallbacks + Gain(Asked, Asked', t)
      /\ metrics'.aiErrors <= metrics'.aiFallbacks
  <2>1. CASE \/ \E e \in Events : AcceptWebhook(t, e)
             \/ Parse(t) \/ Enrich(t) \/ LookupRaises(t) \/ ClassifyByRules(t)
             \/ AiAnswers(t) \/ AiAnswersBadly(t)
    <3>1. metrics' = metrics
      BY <2>1 DEF AcceptWebhook, Parse, Enrich, LookupRaises, ClassifyByRules, AiAnswers,
                  AiAnswersBadly
    <3>2. Gain(Asked, Asked', t) = 0
      <4>1. CASE ~AiEnabled
        BY <4>1 DEF Asked, Gain
      <4>2. CASE AiEnabled
        <5>1. pc[t] = "aiWait" \/ pc'[t] \in {"parse", "badEvent", "canary", "enrich",
                                              "badLookup", "classify"}
          BY <2>1, <4>2
          DEF AcceptWebhook, Parse, Enrich, LookupRaises, ClassifyByRules, AiAnswers,
              AiAnswersBadly, Goto, TInv, Locals
        <5> QED
          BY <5>1 DEF Asked, Gain, At, PastAsking, PastResponse, PastCountIsolation,
                      PastCountDowngrade, PastStore
      <4> QED
        BY <4>1, <4>2
    <3> QED
      BY <1>4, <1>5, <3>1, <3>2
  <2>2. CASE AskAi(t)
    <3>1. /\ metrics' = IncAi(metrics, FALSE, FALSE) /\ AiEnabled
          /\ pc[t] = "classify" /\ pc'[t] = "aiWait"
      BY <2>2 DEF AskAi, Goto, TInv, Locals
    <3>2. Gain(Asked, Asked', t) = 1
      BY <3>1 DEF Asked, Gain, At, PastAsking, PastResponse, PastCountIsolation,
                  PastCountDowngrade, PastStore
    <3>3. /\ metrics'.aiRequests = metrics.aiRequests + 1
          /\ metrics'.aiErrors = metrics.aiErrors
          /\ metrics'.aiFallbacks = metrics.aiFallbacks
          /\ metrics'.events = metrics.events /\ metrics'.actions = metrics.actions
          /\ metrics'.isolations = metrics.isolations
          /\ metrics'.isolationErrors = metrics.isolationErrors
          /\ metrics'.fpSuppressed = metrics.fpSuppressed
          /\ metrics'.fpDowngraded = metrics.fpDowngraded
      BY <1>4, <3>1 DEF IncAi, Counters
    <3> QED
      BY <1>4, <1>5, <3>2, <3>3
  <2>3. CASE AiFallsBack(t)
    <3>1. PICK failed \in BOOLEAN : metrics' = IncAi(metrics, failed, TRUE)
      BY <2>3 DEF AiFallsBack
    <3>2. pc[t] = "aiWait"
      BY <2>3 DEF AiFallsBack
    <3>3. Gain(Asked, Asked', t) = 0
      BY <3>2 DEF Asked, Gain, At, PastAsking
    <3>4. /\ metrics'.aiRequests = metrics.aiRequests + 1
          /\ metrics'.aiErrors = IF failed THEN metrics.aiErrors + 1 ELSE metrics.aiErrors
          /\ metrics'.aiFallbacks = metrics.aiFallbacks + 1
          /\ metrics'.events = metrics.events /\ metrics'.actions = metrics.actions
          /\ metrics'.isolations = metrics.isolations
          /\ metrics'.isolationErrors = metrics.isolationErrors
          /\ metrics'.fpSuppressed = metrics.fpSuppressed
          /\ metrics'.fpDowngraded = metrics.fpDowngraded
      BY <1>4, <3>1 DEF IncAi, Counters
    <3> QED
      BY <1>4, <1>5, <3>3, <3>4
  <2> QED
    BY <2>1, <2>2, <2>3 DEF Earlier
<1> QED
  BY <1>1, <1>2, <1>3, <1>4, <1>5, <1>6, CountsMove

(* The answer: a suppressed event is counted with it                       *)
(* (processor.py:116-139).                                                 *)
LEMMA RespondsCounts ==
  ASSUME TInv, TInv', IInv, OutcomeKnown, CInv, NEW t \in Threads, Responds(t)
  PROVE  CInv'
<1>1. Moves(t)
  BY ThreeStages DEF Moves
<1>2. /\ pc[t] \in {"respond", "isolate"}
      /\ pc'[t] \in {"store", "countDowngrade", "isolate", "countIsolation"}
  BY RespondsMoves
<1>3. /\ metrics \in Counters /\ metrics' \in Counters /\ CounterTypes
      /\ idCounter' = idCounter
  BY CountersAreTyped
  DEF TInv, Responds, Suppress, RespondPlainly, ReadLabels, Isolate, IsolateFails, storeVars
<1>4. /\ Gain(At(PastStore), At(PastStore)', t) = 0
      /\ \A s : Gain(RatedAs(s), RatedAs(s)', t) = 0
      /\ \A a : Gain(Answered(a), Answered(a)', t) = 0
      /\ Gain(Asked, Asked', t) = 0
  BY <1>2 DEF Gain, At, RatedAs, Answered, Asked, PastAsking, PastResponse,
              PastCountIsolation, PastCountDowngrade, PastStore
<1> USE DEF CounterTypes
<1>5. CASE ReadLabels(t) \/ Isolate(t) \/ IsolateFails(t)
  <2>1. metrics' = metrics /\ pc'[t] \in {"isolate", "countIsolation"}
    BY <1>5 DEF ReadLabels, Isolate, IsolateFails, Goto, TInv, Locals
  <2>2. /\ Gain(Isolated, Isolated', t) = 0 /\ Gain(Failed, Failed', t) = 0
        /\ Gain(Filtered, Filtered', t) = 0 /\ Gain(Eased, Eased', t) = 0
    BY <2>1 DEF Gain, At, Isolated, Failed, Filtered, Eased, PastCountIsolation,
                PastCountDowngrade, PastStore
  <2> QED
    BY <1>1, <1>3, <1>4, <2>1, <2>2, CountsMove
<1>6. CASE RespondPlainly(t)
  <2>1. /\ metrics' = metrics /\ pc[t] = "respond" /\ pc'[t] = "countDowngrade"
        /\ policy'[t] = policy[t] /\ action'[t] = PlainAction(t)
    BY <1>6 DEF RespondPlainly, Goto, TInv, Locals
  <2>2. policy'[t] = NoPolicy /\ action'[t] # "auto_isolate_failed"
    BY <2>1 DEF PlainAction, OutcomeKnown, Outcome, Early, Steps, PastResponse,
                PastCountIsolation, PastCountDowngrade, PastStore
  <2>3. /\ Gain(Isolated, Isolated', t) = 0 /\ Gain(Failed, Failed', t) = 0
        /\ Gain(Filtered, Filtered', t) = 0 /\ Gain(Eased, Eased', t) = 0
    BY <2>1, <2>2 DEF Gain, At, Isolated, Failed, Filtered, Eased, PastCountDowngrade,
                      PastStore
  <2> QED
    BY <1>1, <1>3, <1>4, <2>1, <2>3, CountsMove
<1>7. CASE Suppress(t)
  <2>1. /\ metrics' = [metrics EXCEPT !.fpSuppressed = @ + 1]
        /\ pc[t] = "respond" /\ pc'[t] = "store" /\ Suppressed(t)
        /\ policy'[t] = policy[t] /\ action'[t] = "fp_suppressed"
        /\ UNCHANGED <<event, target, raw>>
    BY <1>7 DEF Suppress, Goto, TInv, Locals
  <2>2. policy'[t] = NoPolicy
    BY <2>1 DEF OutcomeKnown, Outcome, Early, Steps, PastResponse, PastCountIsolation,
                PastCountDowngrade, PastStore
  <2>3. Suppressed(t)' /\ ~Lowered(t)'
    BY <2>1 DEF Suppressed, Lowered, FpScoreOf, IsDowngraded
  <2>4. /\ Gain(Isolated, Isolated', t) = 0 /\ Gain(Failed, Failed', t) = 0
        /\ Gain(Filtered, Filtered', t) = 1 /\ Gain(Eased, Eased', t) = 0
    BY <2>1, <2>2, <2>3
    DEF Gain, At, Isolated, Failed, Filtered, Eased, PastCountDowngrade, PastStore
  <2>5. /\ metrics'.fpSuppressed = metrics.fpSuppressed + 1
        /\ metrics'.events = metrics.events /\ metrics'.actions = metrics.actions
        /\ metrics'.isolations = metrics.isolations
        /\ metrics'.isolationErrors = metrics.isolationErrors
        /\ metrics'.fpDowngraded = metrics.fpDowngraded
        /\ metrics'.aiRequests = metrics.aiRequests
        /\ metrics'.aiErrors = metrics.aiErrors
        /\ metrics'.aiFallbacks = metrics.aiFallbacks
    BY <1>3, <2>1 DEF Counters
  <2> QED
    BY <1>1, <1>3, <1>4, <2>4, <2>5, CountsMove
<1> QED
  BY <1>5, <1>6, <1>7 DEF Responds

(* After it: each step counts its thread in one place                      *)
(* (processor.py:132-223).                                                 *)
LEMMA LaterCounts ==
  ASSUME TInv, TInv', OutcomeKnown, CInv, NEW t \in Threads, Later(t)
  PROVE  CInv'
<1>1. Moves(t)
  BY ThreeStages DEF Moves
<1>2. /\ Kept(t)
      /\ metrics \in Counters /\ metrics' \in Counters /\ CounterTypes
  BY CountersAreTyped, LaterMoves DEF TInv
<1>3. /\ FinalSeverityOf(t)' = FinalSeverityOf(t)
      /\ Suppressed(t)' <=> Suppressed(t)
      /\ Lowered(t)' <=> Lowered(t)
      /\ action'[t] = action[t] /\ policy'[t] = policy[t]
  BY <1>2, VerdictStays DEF Kept, Lowered, FpScoreOf
<1> USE DEF CounterTypes
<1>4. CASE CountIsolation(t)
  <2>1. /\ pc[t] = "countIsolation" /\ pc'[t] = "countDowngrade" /\ idCounter' = idCounter
        /\ metrics' = IF policy[t] # NoPolicy
                      THEN [metrics EXCEPT !.isolations = @ + 1]
                      ELSE [metrics EXCEPT !.isolationErrors = @ + 1]
    BY <1>4 DEF CountIsolation, Goto, TInv, Locals, storeVars
  <2>2. policy[t] = NoPolicy <=> action[t] = "auto_isolate_failed"
    BY <2>1 DEF OutcomeKnown, Outcome, Attempted, PastResponse
  <2>3. /\ Gain(At(PastStore), At(PastStore)', t) = 0
        /\ \A s : Gain(RatedAs(s), RatedAs(s)', t) = 0
        /\ \A a : Gain(Answered(a), Answered(a)', t) = 0
        /\ Gain(Isolated, Isolated', t) = IF policy[t] # NoPolicy THEN 1 ELSE 0
        /\ Gain(Failed, Failed', t) = IF policy[t] # NoPolicy THEN 0 ELSE 1
        /\ Gain(Filtered, Filtered', t) = 0 /\ Gain(Eased, Eased', t) = 0
        /\ Gain(Asked, Asked', t) = 0
    BY <1>3, <2>1, <2>2
    DEF Gain, At, RatedAs, Answered, Isolated, Failed, Filtered, Eased, Asked, PastAsking,
        PastResponse, PastCountIsolation, PastCountDowngrade, PastStore
  <2>4. /\ metrics'.isolations = metrics.isolations
             + IF policy[t] # NoPolicy THEN 1 ELSE 0
        /\ metrics'.isolationErrors = metrics.isolationErrors
             + IF policy[t] # NoPolicy THEN 0 ELSE 1
        /\ metrics'.events = metrics.events /\ metrics'.actions = metrics.actions
        /\ metrics'.fpSuppressed = metrics.fpSuppressed
        /\ metrics'.fpDowngraded = metrics.fpDowngraded
        /\ metrics'.aiRequests = metrics.aiRequests
        /\ metrics'.aiErrors = metrics.aiErrors
        /\ metrics'.aiFallbacks = metrics.aiFallbacks
    BY <1>2, <2>1 DEF Counters
  <2> QED
    BY <1>1, <1>2, <2>1, <2>3, <2>4, CountsMove
<1>5. CASE CountDowngrade(t)
  <2>1. /\ pc[t] = "countDowngrade" /\ pc'[t] = "store" /\ idCounter' = idCounter
        /\ metrics' = IF Lowered(t) THEN [metrics EXCEPT !.fpDowngraded = @ + 1] ELSE metrics
    BY <1>5 DEF CountDowngrade, Goto, TInv, Locals, storeVars
  <2>2. ~Suppressed(t)
    BY <2>1 DEF OutcomeKnown, Outcome
  <2>3. /\ Gain(At(PastStore), At(PastStore)', t) = 0
        /\ \A s : Gain(RatedAs(s), RatedAs(s)', t) = 0
        /\ \A a : Gain(Answered(a), Answered(a)', t) = 0
        /\ Gain(Isolated, Isolated', t) = 0 /\ Gain(Failed, Failed', t) = 0
        /\ Gain(Filtered, Filtered', t) = 0
        /\ Gain(Eased, Eased', t) = IF Lowered(t) THEN 1 ELSE 0
        /\ Gain(Asked, Asked', t) = 0
    BY <1>3, <2>1, <2>2
    DEF Gain, At, RatedAs, Answered, Isolated, Failed, Filtered, Eased, Asked, PastAsking,
        PastResponse, PastCountIsolation, PastCountDowngrade, PastStore
  <2>4. /\ metrics'.fpDowngraded = metrics.fpDowngraded + IF Lowered(t) THEN 1 ELSE 0
        /\ metrics'.events = metrics.events /\ metrics'.actions = metrics.actions
        /\ metrics'.isolations = metrics.isolations
        /\ metrics'.isolationErrors = metrics.isolationErrors
        /\ metrics'.fpSuppressed = metrics.fpSuppressed
        /\ metrics'.aiRequests = metrics.aiRequests
        /\ metrics'.aiErrors = metrics.aiErrors
        /\ metrics'.aiFallbacks = metrics.aiFallbacks
    BY <1>2, <2>1 DEF Counters
  <2> QED
    BY <1>1, <1>2, <2>1, <2>3, <2>4, CountsMove
<1>6. CASE StoreRecord(t)
  <2>1. /\ pc[t] = "store" /\ pc'[t] = "countEvent" /\ idCounter' = idCounter + 1
        /\ metrics' = metrics
    BY <1>6 DEF StoreRecord, Store!Add, Goto, TInv, Locals
  <2>2. /\ Gain(At(PastStore), At(PastStore)', t) = 1
        /\ \A s : Gain(RatedAs(s), RatedAs(s)', t) = 0
        /\ \A a : Gain(Answered(a), Answered(a)', t) = 0
        /\ Gain(Isolated, Isolated', t) = 0 /\ Gain(Failed, Failed', t) = 0
        /\ Gain(Filtered, Filtered', t) = 0 /\ Gain(Eased, Eased', t) = 0
        /\ Gain(Asked, Asked', t) = 0
    BY <1>3, <2>1
    DEF Gain, At, RatedAs, Answered, Isolated, Failed, Filtered, Eased, Asked, PastAsking,
        PastResponse, PastCountIsolation, PastCountDowngrade, PastStore
  <2> QED
    BY <1>1, <1>2, <2>1, <2>2, CountsMove
<1>7. CASE CountEvent(t)
  <2>1. PICK rated \in Severity : rated = FinalSeverityOf(t)
    BY FinalRates DEF TInv, Locals
  <2>2. /\ pc[t] = "countEvent" /\ pc'[t] = "countAction" /\ idCounter' = idCounter
        /\ metrics' = [metrics EXCEPT !.events[rated] = @ + 1]
    BY <1>7, <2>1 DEF CountEvent, Goto, TInv, Locals, storeVars
  <2>3. /\ Gain(At(PastStore), At(PastStore)', t) = 0
        /\ \A s : Gain(RatedAs(s), RatedAs(s)', t) = IF s = rated THEN 1 ELSE 0
        /\ \A a : Gain(Answered(a), Answered(a)', t) = 0
        /\ Gain(Isolated, Isolated', t) = 0 /\ Gain(Failed, Failed', t) = 0
        /\ Gain(Filtered, Filtered', t) = 0 /\ Gain(Eased, Eased', t) = 0
        /\ Gain(Asked, Asked', t) = 0
    BY <1>3, <2>1, <2>2
    DEF Gain, At, RatedAs, Answered, Isolated, Failed, Filtered, Eased, Asked, PastAsking,
        PastResponse, PastCountIsolation, PastCountDowngrade, PastStore
  <2>4. /\ \A s \in Severity :
             metrics'.events[s] = metrics.events[s] + IF s = rated THEN 1 ELSE 0
        /\ metrics'.actions = metrics.actions
        /\ metrics'.isolations = metrics.isolations
        /\ metrics'.isolationErrors = metrics.isolationErrors
        /\ metrics'.fpSuppressed = metrics.fpSuppressed
        /\ metrics'.fpDowngraded = metrics.fpDowngraded
        /\ metrics'.aiRequests = metrics.aiRequests
        /\ metrics'.aiErrors = metrics.aiErrors
        /\ metrics'.aiFallbacks = metrics.aiFallbacks
    BY <1>2, <2>2 DEF Counters
  <2> QED
    BY <1>1, <1>2, <2>2, <2>3, <2>4, CountsMove
<1>8. CASE CountAction(t)
  <2>1. PICK taken \in Actions : taken = action[t]
    BY <1>8 DEF CountAction, TInv, Known
  <2>2. /\ pc[t] = "countAction" /\ pc'[t] = "done" /\ idCounter' = idCounter
        /\ metrics' = [metrics EXCEPT !.actions[taken] = @ + 1]
    BY <1>8, <2>1 DEF CountAction, Goto, TInv, Locals, storeVars
  <2>3. /\ Gain(At(PastStore), At(PastStore)', t) = 0
        /\ \A s : Gain(RatedAs(s), RatedAs(s)', t) = 0
        /\ \A a : Gain(Answered(a), Answered(a)', t) = IF a = taken THEN 1 ELSE 0
        /\ Gain(Isolated, Isolated', t) = 0 /\ Gain(Failed, Failed', t) = 0
        /\ Gain(Filtered, Filtered', t) = 0 /\ Gain(Eased, Eased', t) = 0
        /\ Gain(Asked, Asked', t) = 0
    BY <1>3, <2>1, <2>2
    DEF Gain, At, RatedAs, Answered, Isolated, Failed, Filtered, Eased, Asked, PastAsking,
        PastResponse, PastCountIsolation, PastCountDowngrade, PastStore
  <2>4. /\ \A a \in Actions :
             metrics'.actions[a] = metrics.actions[a] + IF a = taken THEN 1 ELSE 0
        /\ metrics'.events = metrics.events
        /\ metrics'.isolations = metrics.isolations
        /\ metrics'.isolationErrors = metrics.isolationErrors
        /\ metrics'.fpSuppressed = metrics.fpSuppressed
        /\ metrics'.fpDowngraded = metrics.fpDowngraded
        /\ metrics'.aiRequests = metrics.aiRequests
        /\ metrics'.aiErrors = metrics.aiErrors
        /\ metrics'.aiFallbacks = metrics.aiFallbacks
    BY <1>2, <2>2 DEF Counters
  <2> QED
    BY <1>1, <1>2, <2>2, <2>3, <2>4, CountsMove
<1> QED
  BY <1>4, <1>5, <1>6, <1>7, <1>8 DEF Later

(* Where nobody is counted, zeros agree: at the start and after a restart, *)
(* whatever was under way when the process died.                           *)
LEMMA InitCounts == Init => CInv
<1> SUFFICES ASSUME Init PROVE CInv
  OBVIOUS
<1>1. metrics = ZeroMetrics /\ idCounter = 0 /\ \A t \in Threads : pc[t] = "idle"
  BY DEF Init, Store!Init
<1>2. /\ At(PastStore) = {} /\ Isolated = {} /\ Failed = {} /\ Filtered = {}
      /\ Eased = {} /\ Asked = {} /\ Begun = {}
      /\ \A s : RatedAs(s) = {}
      /\ \A a : Answered(a) = {}
  BY <1>1 DEF At, RatedAs, Answered, Isolated, Failed, Filtered, Eased, Asked, Begun,
              PastAsking, PastResponse, PastCountIsolation, PastCountDowngrade, PastStore
<1>3. IsFiniteSet({}) /\ Cardinality({}) = 0
  BY FS_EmptySet
<1>4. /\ \A s \in Severity : metrics.events[s] = 0
      /\ \A a \in Actions : metrics.actions[a] = 0
      /\ metrics.isolations = 0 /\ metrics.isolationErrors = 0 /\ metrics.fpSuppressed = 0
      /\ metrics.fpDowngraded = 0 /\ metrics.aiRequests = 0 /\ metrics.aiErrors = 0
      /\ metrics.aiFallbacks = 0
  BY <1>1 DEF ZeroMetrics
<1>5. CountersAgree
  BY <1>1, <1>2, <1>3, <1>4, AgreeMeans
<1> QED
  BY <1>2, <1>3, <1>5 DEF CInv

LEMMA RestartCounts == ASSUME CInv, Restart  PROVE CInv'
<1>1. /\ metrics' = ZeroMetrics /\ idCounter' = 0
      /\ pc' = [t \in Threads |-> IF pc[t] = "idle" THEN "idle" ELSE "lost"]
  BY DEF Restart, Store!Clear
<1>2. \A t \in Threads : pc'[t] \in {"idle", "lost"}
  BY <1>1
<1>3. /\ At(PastStore)' = {} /\ Isolated' = {} /\ Failed' = {} /\ Filtered' = {}
      /\ Eased' = {} /\ Asked' = {}
      /\ \A s : RatedAs(s)' = {}
      /\ \A a : Answered(a)' = {}
  BY <1>2 DEF At, RatedAs, Answered, Isolated, Failed, Filtered, Eased, Asked, PastAsking,
              PastResponse, PastCountIsolation, PastCountDowngrade, PastStore
<1>4. Begun' = Begun
  BY <1>1 DEF Begun
<1>5. Cardinality({}) = 0
  BY FS_EmptySet
<1>6. /\ \A s \in Severity : metrics'.events[s] = 0
      /\ \A a \in Actions : metrics'.actions[a] = 0
      /\ metrics'.isolations = 0 /\ metrics'.isolationErrors = 0 /\ metrics'.fpSuppressed = 0
      /\ metrics'.fpDowngraded = 0 /\ metrics'.aiRequests = 0 /\ metrics'.aiErrors = 0
      /\ metrics'.aiFallbacks = 0
  BY <1>1 DEF ZeroMetrics
<1>7. CountersAgree'
  <2>1. /\ Cardinality(At(PastStore)') = 0 /\ Cardinality(Isolated') = 0
        /\ Cardinality(Failed') = 0 /\ Cardinality(Filtered') = 0
        /\ Cardinality(Eased') = 0 /\ Cardinality(Asked') = 0
    BY <1>3, <1>5
  <2>2. \A s \in Severity : metrics'.events[s] = Cardinality(RatedAs(s)')
    BY <1>3, <1>5, <1>6
  <2>3. \A a \in Actions : metrics'.actions[a] = Cardinality(Answered(a)')
    BY <1>3, <1>5, <1>6
  <2>4. metrics'.aiRequests = metrics'.aiFallbacks + Cardinality(Asked')
    BY <1>6, <2>1
  <2> QED
    BY <1>1, <1>6, <2>1, <2>2, <2>3, <2>4, AgreeThen
<1> QED
  BY <1>4, <1>7 DEF CInv

LEMMA NextCounts ==
  TInv /\ TInv' /\ IInv /\ RInv /\ CInv /\ [Next]_vars => CInv'
<1> SUFFICES ASSUME TInv, TInv', IInv, OutcomeKnown, CInv, [Next]_vars PROVE CInv'
  BY DEF RInv
<1>1. ASSUME NEW t \in Threads, Proceed(t)  PROVE CInv'
  BY <1>1, EarlierCounts, RespondsCounts, LaterCounts, ThreeStages
<1>2. ASSUME NEW t \in Threads, NEW e \in Events, AcceptWebhook(t, e)  PROVE CInv'
  BY <1>2, EarlierCounts
<1>3. CASE \/ \E q \in policies : DeleteIsolation(q)
           \/ Tick \/ UNCHANGED vars
  <2>1. UNCHANGED <<pc, event, target, raw, action, policy, metrics, idCounter>>
    BY <1>3 DEF DeleteIsolation, Tick, vars, threadVars, clusterVars, storeVars
  <2>2. \A t : /\ FinalSeverityOf(t)' = FinalSeverityOf(t)
               /\ Suppressed(t)' <=> Suppressed(t)
               /\ Lowered(t)' <=> Lowered(t)
    BY <2>1, VerdictStays DEF Lowered, FpScoreOf
  <2>3. /\ UNCHANGED <<At(PastStore), Isolated, Failed, Filtered, Eased, Asked, Begun>>
        /\ \A s : RatedAs(s)' = RatedAs(s)
        /\ \A a : Answered(a)' = Answered(a)
    BY <2>1, <2>2 DEF At, RatedAs, Answered, Isolated, Failed, Filtered, Eased, Asked, Begun
  <2>4. CountersAgree'
    BY <2>1, <2>3, AgreeMeans, AgreeThen DEF CInv
  <2> QED
    BY <2>3, <2>4 DEF CInv
<1>4. CASE Restart
  BY <1>4, RestartCounts
<1> QED
  BY <1>1, <1>2, <1>3, <1>4 DEF Next

(* The counters agree with the store and with each other at every moment,  *)
(* for any number of threads and restarts, lagging by exactly the threads  *)
(* between two updates (processor.py:130-151, classifier.py:134-198,       *)
(* metrics.py:61-130).                                                     *)
THEOREM CountersTellTheSame == Spec => []CountersAgree
<1>1. CInv => CountersAgree
  BY DEF CInv
<1> QED
  BY <1>1, PipelineInvariants, InitCounts, NextCounts, PTL DEF Spec

-----------------------------------------------------------------------------
(* The promise of IncidentResponse.                                        *)

(* What the refinement mapping makes of the pipeline's state.              *)
OneStatus(p) == CASE p = "idle" -> "waiting"
                  [] p \in Ended \cup PastStore -> "closed"
                  [] OTHER -> "open"

Status == [t \in Threads |-> OneStatus(pc[t])]

CutOffBy == { c.by : c \in created }

Causes(s) == [i \in DOMAIN s |-> s[i].rec.cause]

(* The store holds a sequence, of whatever.                                *)
StoredSeq == \E S : events \in Seq(S)

-----------------------------------------------------------------------------
(* Appending to the ring buffer appends to the causes, and drops the       *)
(* oldest of both or of none (core/__init__.py:26-32).                     *)
LEMMA CausesOfAppend ==
  ASSUME NEW S, NEW s \in Seq(S), NEW e \in S
  PROVE  /\ Store!Bounded(Append(s, e)) \in Seq(S)
         /\ Causes(Store!Bounded(Append(s, e)))
              = Incident!Newest(Append(Causes(s), e.rec.cause))
<1> DEFINE a == Append(s, e)
           T == { x.rec.cause : x \in S }
<1>1. /\ a \in Seq(S) /\ Len(a) = Len(s) + 1 /\ Len(s) \in Nat
      /\ \A i \in 1..Len(s) : a[i] = s[i]
      /\ a[Len(s) + 1] = e
      /\ DOMAIN s = 1..Len(s) /\ DOMAIN a = 1..(Len(s) + 1)
  BY AppendProperties, LenProperties
<1>2. Causes(s) \in Seq(T) /\ Len(Causes(s)) = Len(s)
  BY <1>1 DEF Causes
<1>3. Causes(a) \in Seq(T) /\ Len(Causes(a)) = Len(a)
  BY <1>1 DEF Causes
<1>4. Causes(a) = Append(Causes(s), e.rec.cause)
  <2> DEFINE b == Append(Causes(s), e.rec.cause)
  <2>1. e.rec.cause \in T
    OBVIOUS
  <2>2. /\ b \in Seq(T) /\ Len(b) = Len(s) + 1
        /\ \A i \in 1..Len(s) : b[i] = Causes(s)[i]
        /\ b[Len(s) + 1] = e.rec.cause
    BY <1>2, <2>1, AppendProperties
  <2>3. \A i \in 1..Len(s) : Causes(s)[i] = s[i].rec.cause
    BY <1>1 DEF Causes
  <2>4. \A i \in 1..(Len(s) + 1) : Causes(a)[i] = a[i].rec.cause
    BY <1>1 DEF Causes
  <2> HIDE DEF a, b
  <2>5. \A i \in 1..(Len(s) + 1) : Causes(a)[i] = b[i]
    <3> SUFFICES ASSUME NEW i \in 1..(Len(s) + 1) PROVE Causes(a)[i] = b[i]
      OBVIOUS
    <3>1. CASE i = Len(s) + 1
      BY <1>1, <2>2, <2>4, <3>1
    <3>2. CASE i \in 1..Len(s)
      BY <1>1, <2>2, <2>3, <2>4, <3>2
    <3> QED
      BY <1>1, <3>1, <3>2
  <2> QED
    BY <1>1, <1>3, <2>2, <2>5, SeqEqual DEF b
<1>5. CASE Len(a) > MaxSize
  <2>1. Store!Bounded(a) = Tail(a) /\ a # <<>>
    BY <1>1, <1>5 DEF Store!Bounded
  <2>2. /\ Tail(a) \in Seq(S) /\ Len(Tail(a)) = Len(s)
        /\ \A i \in 1..Len(s) : Tail(a)[i] = a[i + 1]
        /\ DOMAIN Tail(a) = 1..Len(s)
    BY <1>1, <2>1, HeadTailProperties
  <2>3. Incident!Newest(Causes(a)) = Tail(Causes(a)) /\ Causes(a) # <<>>
    BY <1>1, <1>3, <1>5 DEF Incident!Newest
  <2>4. /\ Tail(Causes(a)) \in Seq(T) /\ Len(Tail(Causes(a))) = Len(s)
        /\ \A i \in 1..Len(s) : Tail(Causes(a))[i] = Causes(a)[i + 1]
    BY <1>1, <1>3, <2>3, HeadTailProperties
  <2>5. /\ Causes(Tail(a)) \in Seq(T) /\ Len(Causes(Tail(a))) = Len(s)
        /\ \A i \in 1..Len(s) : Causes(Tail(a))[i] = Tail(a)[i].rec.cause
    BY <1>1, <2>2 DEF Causes
  <2>6. \A i \in 1..(Len(s) + 1) : Causes(a)[i] = a[i].rec.cause
    BY <1>1 DEF Causes
  <2> HIDE DEF a
  <2>7. \A i \in 1..Len(s) : Causes(Tail(a))[i] = Tail(Causes(a))[i]
    BY <1>1, <2>2, <2>4, <2>5, <2>6
  <2>8. Causes(Tail(a)) = Tail(Causes(a))
    BY <1>1, <2>4, <2>5, <2>7, SeqEqual
  <2> QED
    BY <1>4, <2>1, <2>2, <2>3, <2>8 DEF a
<1>6. CASE ~(Len(a) > MaxSize)
  BY <1>1, <1>3, <1>4, <1>6 DEF Store!Bounded, Incident!Newest
<1> QED
  BY <1>5, <1>6

-----------------------------------------------------------------------------
LEMMA Statuses ==
  /\ OneStatus("idle") = "waiting"
  /\ \A p \in Ended \cup PastStore : OneStatus(p) = "closed"
  /\ \A p \in Steps \ PastStore : OneStatus(p) = "open"
BY DEF OneStatus, Ended, Dropped, PastStore, Steps

(* What one thread's move does to the status of its delivery.              *)
LEMMA StatusMoves ==
  ASSUME PerThread(pc), NEW t \in Threads, NEW step, pc' = [pc EXCEPT ![t] = step]
  PROVE  Status' = [Status EXCEPT ![t] = OneStatus(step)]
BY DEF PerThread, Status

(* Most steps of a thread leave its delivery open, or closed as it was.    *)
LEMMA Unseen ==
  ASSUME IInv, NEW t \in Threads, NEW step, pc' = [pc EXCEPT ![t] = step],
         OneStatus(step) = OneStatus(pc[t]),
         UNCHANGED <<created, events>>
  PROVE  UNCHANGED Incident!vars
<1>1. Status' = [Status EXCEPT ![t] = OneStatus(pc[t])]
  BY StatusMoves DEF IInv, Shape
<1>2. Status' = Status
  BY <1>1 DEF Status
<1>3. UNCHANGED <<Status, CutOffBy, Causes(events)>>
  BY <1>2 DEF CutOffBy, Causes
<1> QED
  BY <1>3 DEF Incident!vars, Status, OneStatus, CutOffBy, Causes

(* An event is dropped only by a thread that has not isolated.             *)
LEMMA Drops ==
  ASSUME IInv, NEW t \in Threads, NEW step, pc' = [pc EXCEPT ![t] = step],
         step \in Ended, pc[t] \in Steps \ (PastStore \cup AfterIsolate),
         UNCHANGED <<created, events>>
  PROVE  Incident!Next
<1>1. Status[t] = "open" /\ Status' = [Status EXCEPT ![t] = "closed"]
  BY StatusMoves, Statuses DEF IInv, Shape, Status
<1>2. t \notin CutOffBy
  BY DEF IInv, IsolatedIsPast, CutOffBy
<1>3. UNCHANGED <<CutOffBy, Causes(events)>>
  BY DEF CutOffBy, Causes
<1>4. Incident!Drop(t)
  BY <1>1, <1>2, <1>3
  DEF Incident!Drop, Incident!Move, Status, OneStatus, CutOffBy, Causes
<1> QED
  BY <1>4 DEF Incident!Next

LEMMA IsolateCutsOff ==
  ASSUME IInv, NEW t \in Threads, Isolate(t)  PROVE Incident!Next
<1> DEFINE d == [by |-> t, policy |-> [name |-> PolicyNameOf(t), pod |-> target[t],
                                       selector |-> SelectorOf(t)]]
<1>1. /\ pc[t] = "isolate" /\ pc' = [pc EXCEPT ![t] = "countIsolation"]
      /\ created' = created \cup {d} /\ d.by = t
      /\ events' = events
  BY DEF Isolate, Goto, storeVars
<1> HIDE DEF d
<1>2. OneStatus("isolate") = "open" /\ OneStatus("countIsolation") = "open"
  BY Statuses DEF Steps, PastStore
<1>3. Status[t] = "open" /\ Status' = Status
  BY <1>1, <1>2, StatusMoves DEF IInv, Shape, Status
<1>4. t \notin CutOffBy
  BY <1>1 DEF IInv, IsolatedIsPast, CutOffBy, AfterIsolate, PastResponse,
              PastCountIsolation, PastCountDowngrade, PastStore
<1>5. CutOffBy' = CutOffBy \cup {t}
  BY <1>1 DEF CutOffBy
<1>6. UNCHANGED Causes(events)
  BY <1>1 DEF Causes
<1>7. Incident!CutOff(t)
  BY <1>3, <1>4, <1>5, <1>6 DEF Incident!CutOff, Status, OneStatus, CutOffBy, Causes
<1> QED
  BY <1>7 DEF Incident!Next

(* Storing the record closes the delivery.                                 *)
LEMMA StoreCloses ==
  ASSUME IInv, StoredSeq, NEW t \in Threads, StoreRecord(t)
  PROVE  Incident!Next /\ StoredSeq'
<1> DEFINE e == [id |-> idCounter + 1, rec |-> RecordOf(t)]
<1>1. /\ pc[t] = "store" /\ pc' = [pc EXCEPT ![t] = "countEvent"]
      /\ UNCHANGED created
      /\ events' = Store!Bounded(Append(events, e))
  BY DEF StoreRecord, Store!Add, Goto, clusterVars
<1>2. e.rec.cause = t
  BY DEF RecordOf
<1> HIDE DEF e
<1>3. PICK S : events \in Seq(S)
  BY DEF StoredSeq
<1>4. events \in Seq(S \cup {e})
  BY <1>3
<1>5. /\ events' \in Seq(S \cup {e})
      /\ Causes(events)' = Incident!Newest(Append(Causes(events), t))
  <2>1. e \in S \cup {e}
    OBVIOUS
  <2>2. /\ Store!Bounded(Append(events, e)) \in Seq(S \cup {e})
        /\ Causes(Store!Bounded(Append(events, e)))
             = Incident!Newest(Append(Causes(events), e.rec.cause))
    BY <1>4, <2>1, CausesOfAppend
  <2>3. Causes(events)' = Causes(Store!Bounded(Append(events, e)))
    BY <1>1 DEF Causes
  <2> QED
    BY <1>1, <1>2, <2>2, <2>3
<1>6. Status[t] = "open" /\ Status' = [Status EXCEPT ![t] = "closed"]
  <2>1. OneStatus("store") = "open" /\ OneStatus("countEvent") = "closed"
    BY Statuses DEF Steps, PastStore
  <2> QED
    BY <1>1, <2>1, StatusMoves DEF IInv, Shape, Status
<1>7. UNCHANGED CutOffBy
  BY <1>1 DEF CutOffBy
<1>8. Incident!Close(t)
  BY <1>5, <1>6, <1>7
  DEF Incident!Close, Incident!Move, Status, OneStatus, CutOffBy, Causes
<1>9. StoredSeq'
  BY <1>5 DEF StoredSeq
<1> QED
  BY <1>8, <1>9 DEF Incident!Next

(* The other steps of a thread: those that drop its event, and those that  *)
(* nobody outside sees.                                                    *)
LEMMA ProceedRefines ==
  ASSUME IInv, StoredSeq, NEW t \in Threads, Proceed(t)
  PROVE  [Incident!Next]_(Incident!vars) /\ StoredSeq'
<1>1. CASE Isolate(t)
  <2>1. StoredSeq'
    BY <1>1 DEF Isolate, StoredSeq, storeVars
  <2> QED
    BY <1>1, <2>1, IsolateCutsOff
<1>2. CASE StoreRecord(t)
  BY <1>2, StoreCloses
<1>3. CASE Parse(t) \/ LookupRaises(t) \/ AiAnswersBadly(t)
  <2>1. UNCHANGED <<created, events>>
    BY <1>3 DEF Parse, LookupRaises, AiAnswersBadly, clusterVars, storeVars
  <2>2. /\ pc[t] \in {"parse", "enrich", "aiWait"}
        /\ \E step \in {"badEvent", "canary", "badLookup", "badAnswer", "enrich"} :
             pc' = [pc EXCEPT ![t] = step]
    BY <1>3 DEF Parse, LookupRaises, AiAnswersBadly, Goto
  <2>3. PICK step \in {"badEvent", "canary", "badLookup", "badAnswer", "enrich"} :
          pc' = [pc EXCEPT ![t] = step]
    BY <2>2
  <2>4. CASE step = "enrich"
    <3>1. OneStatus(pc[t]) = "open" /\ OneStatus("enrich") = "open"
      BY <2>2, Statuses DEF Steps, PastStore
    <3> QED
      BY <2>1, <2>3, <2>4, <3>1, Unseen DEF StoredSeq
  <2>5. CASE step # "enrich"
    <3>1. step \in Ended
      BY <2>5 DEF Ended, Dropped
    <3>2. pc[t] \in Steps \ (PastStore \cup AfterIsolate)
      BY <2>2 DEF Steps, AfterIsolate, PastResponse, PastCountIsolation,
                  PastCountDowngrade, PastStore
    <3> QED
      BY <2>1, <2>3, <3>1, <3>2, Drops DEF StoredSeq
  <2> QED
    BY <2>4, <2>5
<1>4. CASE \/ Enrich(t) \/ ClassifyByRules(t) \/ AskAi(t) \/ AiAnswers(t)
           \/ AiFallsBack(t) \/ Suppress(t) \/ RespondPlainly(t) \/ ReadLabels(t)
           \/ IsolateFails(t) \/ CountIsolation(t) \/ CountDowngrade(t)
           \/ CountEvent(t) \/ CountAction(t)
  <2>1. UNCHANGED <<created, events>>
    BY <1>4
    DEF Enrich, ClassifyByRules, AskAi, AiAnswers, AiFallsBack, Suppress, RespondPlainly,
        ReadLabels, IsolateFails, CountIsolation, CountDowngrade, CountEvent, CountAction,
        clusterVars, storeVars
  <2>2. \E step :
          /\ pc' = [pc EXCEPT ![t] = step]
          /\ \/ pc[t] \in Steps \ PastStore /\ step \in Steps \ PastStore
             \/ pc[t] \in PastStore /\ step \in PastStore
    BY <1>4
    DEF Enrich, ClassifyByRules, AskAi, AiAnswers, AiFallsBack, Suppress, RespondPlainly,
        ReadLabels, IsolateFails, CountIsolation, CountDowngrade, CountEvent, CountAction,
        Goto, Steps, PastStore
  <2>3. PICK step :
          /\ pc' = [pc EXCEPT ![t] = step]
          /\ \/ pc[t] \in Steps \ PastStore /\ step \in Steps \ PastStore
             \/ pc[t] \in PastStore /\ step \in PastStore
    BY <2>2
  <2>4. OneStatus(step) = OneStatus(pc[t])
    BY <2>3, Statuses
  <2> QED
    BY <2>1, <2>3, <2>4, Unseen DEF StoredSeq
<1> QED
  BY <1>1, <1>2, <1>3, <1>4 DEF Proceed

LEMMA AcceptOpens ==
  ASSUME IInv, NEW t \in Threads, NEW e, AcceptWebhook(t, e)
  PROVE  Incident!Next
<1>1. /\ pc[t] = "idle" /\ pc' = [pc EXCEPT ![t] = "parse"]
      /\ UNCHANGED <<created, events>>
  BY DEF AcceptWebhook, Goto, clusterVars, storeVars
<1>2. Status[t] = "waiting" /\ Status' = [Status EXCEPT ![t] = "open"]
  <2>1. OneStatus("idle") = "waiting" /\ OneStatus("parse") = "open"
    BY Statuses DEF Steps, PastStore
  <2> QED
    <3>1. Status' = [Status EXCEPT ![t] = OneStatus("parse")]
      BY <1>1, StatusMoves DEF IInv, Shape
    <3>2. Status[t] = OneStatus("idle")
      BY <1>1 DEF Status
    <3> QED
      BY <2>1, <3>1, <3>2
<1>3. UNCHANGED <<CutOffBy, Causes(events)>>
  BY <1>1 DEF CutOffBy, Causes
<1>4. Incident!Open(t)
  BY <1>2, <1>3
  DEF Incident!Open, Incident!Move, Status, OneStatus, CutOffBy, Causes
<1> QED
  BY <1>4 DEF Incident!Next

(* A restart is a crash as IncidentResponse allows it.                     *)
LEMMA RestartIsCrash ==
  ASSUME IInv, Restart  PROVE Incident!Next /\ StoredSeq'
<1>1. /\ pc' = [t \in Threads |-> IF pc[t] = "idle" THEN "idle" ELSE "lost"]
      /\ created' = created /\ events' = <<>>
  BY DEF Restart, Store!Clear, clusterVars
<1>2. Status' = [t \in Threads |-> IF Status[t] = "waiting" THEN "waiting" ELSE "closed"]
  <2>1. OneStatus("lost") = "closed" /\ OneStatus("idle") = "waiting"
    BY Statuses DEF Ended, Dropped
  <2>2. ASSUME NEW p PROVE OneStatus(p) = "waiting" <=> p = "idle"
    <3>1. CASE p = "idle"
      BY <2>1, <3>1
    <3>2. CASE p # "idle"
      <4>1. OneStatus(p) = IF p \in Ended \cup PastStore THEN "closed" ELSE "open"
        BY <3>2 DEF OneStatus
      <4> QED
        BY <3>2, <4>1
    <3> QED
      BY <3>1, <3>2
  <2> QED
    BY <1>1, <2>1, <2>2 DEF Status
<1>3. Causes(events)' = <<>> /\ CutOffBy' = CutOffBy
  BY <1>1 DEF Causes, CutOffBy
<1>4. Incident!Crash
  BY <1>2, <1>3 DEF Incident!Crash, Status, OneStatus, CutOffBy, Causes
<1>5. StoredSeq'
  BY <1>1 DEF StoredSeq
<1> QED
  BY <1>4, <1>5 DEF Incident!Next

LEMMA StepRefines ==
  IInv /\ StoredSeq /\ [Next]_vars => [Incident!Next]_(Incident!vars) /\ StoredSeq'
<1> SUFFICES ASSUME IInv, StoredSeq, [Next]_vars
             PROVE  [Incident!Next]_(Incident!vars) /\ StoredSeq'
  OBVIOUS
<1>1. ASSUME NEW t \in Threads, Proceed(t)
      PROVE  [Incident!Next]_(Incident!vars) /\ StoredSeq'
  BY <1>1, ProceedRefines
<1>2. ASSUME NEW t \in Threads, NEW e \in Events, AcceptWebhook(t, e)
      PROVE  Incident!Next /\ StoredSeq'
  BY <1>2, AcceptOpens DEF AcceptWebhook, StoredSeq, storeVars
<1>3. CASE \/ \E q \in policies : DeleteIsolation(q)
           \/ Tick \/ UNCHANGED vars
  <2>1. UNCHANGED <<pc, created, events>>
    BY <1>3 DEF DeleteIsolation, Tick, vars, threadVars, clusterVars, storeVars
  <2> QED
    BY <2>1 DEF Incident!vars, StoredSeq
<1>4. CASE Restart
  BY <1>4, RestartIsCrash
<1> QED
  BY <1>1, <1>2, <1>3, <1>4 DEF Next

(* The threads together keep the promise of IncidentResponse: however they *)
(* interleave and whenever the process dies, an event is recorded once,    *)
(* isolates once and before it is recorded, and is dropped by an exception *)
(* only before it isolated anything (processor.py:45-153, http.py:164-170).*)
THEOREM PipelineKeepsPromise == Spec => ImplementsIncidentResponse
<1>1. Init => Incident!Init /\ StoredSeq
  <2> SUFFICES ASSUME Init PROVE Incident!Init /\ StoredSeq
    OBVIOUS
  <2>1. pc = [t \in Threads |-> "idle"] /\ created = {} /\ events = <<>>
    BY DEF Init, Store!Init
  <2>2. <<>> \in Seq({}) /\ Causes(<<>>) = <<>>
    BY DEF Causes
  <2>3. Status = [t \in Threads |-> "waiting"]
    BY <2>1, Statuses DEF Status
  <2>4. StoredSeq
    BY <2>1, <2>2 DEF StoredSeq
  <2>5. CutOffBy = {} /\ Causes(events) = <<>>
    BY <2>1, <2>2 DEF CutOffBy
  <2>6. Incident!Init
    BY <2>3, <2>5 DEF Incident!Init, Status, OneStatus, CutOffBy, Causes
  <2> QED
    BY <2>4, <2>6
<1> QED
  BY <1>1, InitInv, NextInv, StepRefines, PTL
  DEF Spec, ImplementsIncidentResponse, Incident!Spec
=============================================================================
