-------------------------- MODULE ResponsePipeline --------------------------
(***************************************************************************)
(* The event pipeline of the runtime response server                       *)
(* (runtime-detection/response-server): an accepted webhook starts a       *)
(* daemon thread that runs EventProcessor.process to its end, beside any   *)
(* number of others. A thread is named by the delivery it handles, so it   *)
(* runs once. A step of a thread ends where another thread, the Kubernetes *)
(* API or the AI endpoint can interfere: at a lock-protected update of the *)
(* store or the metrics, and at a network call.                            *)
(*                                                                         *)
(* The store and the metrics live in memory and die with the process; the  *)
(* NetworkPolicies live in the cluster and stay.                           *)
(***************************************************************************)
EXTENDS Verdict, Sequences

CONSTANTS
  Threads,            \* processing threads, one per accepted webhook
  Events,             \* the events Falco may deliver
  Pods,               \* pods events can be about
  PodNamespace,       \* [Pods -> namespaces]
  NamePrefix,         \* [Pods -> pod names cut to 45 characters]
  Labels,             \* [Pods -> set of <<key, value>> label pairs]
  InfraPods,          \* pods whose image is a known infrastructure image
  SystemNamespaces,   \* client.py SYSTEM_NAMESPACES
  ProdNamespaces,     \* namespaces whose name says production
  AutoIsolate,        \* AUTO_ISOLATE
  AiEnabled,          \* AI_ENDPOINT is set
  MaxSize,            \* EVENT_STORE_SIZE
  MaxSecond,          \* bound: how often the wall clock ticks
  MaxRestarts,        \* bound: how often the server process is replaced
  NoEvent, NoPod, NoPolicy

ASSUME PipelineAssumption ==
  /\ MaxSize \in Nat
  /\ MaxSecond \in Nat
  /\ MaxRestarts \in Nat
  /\ AutoIsolate \in BOOLEAN
  /\ AiEnabled \in BOOLEAN
  /\ NoPod \notin Pods

(* An event is about a pod, or about the host or a container of no pod;    *)
(* its priority maps to a severity.                                        *)
ASSUME EventAssumption ==
  \A e \in Events : e.pod \in Pods \cup {NoPod} /\ e.base \in Severity

(* An isolation policy is named for the pod and the second; the name is    *)
(* never empty, and an empty name in a record means that there is none.    *)
PolicyName == [namespace : {PodNamespace[p] : p \in Pods},
               prefix : {NamePrefix[p] : p \in Pods}, second : 0..MaxSecond]

ASSUME NameAssumption == NoPolicy \notin PolicyName

VARIABLES
  pc,          \* where each thread is
  event,       \* the event it handles
  target,      \* the pod it is about, once known (namespace and pod name)
  raw,         \* severity the classifier gave, before the filter's downgrade
  hasLabels,   \* whether get_pod_labels returned any label
  action,      \* record.action_taken
  policy,      \* record.isolation_policy_name
  cacheReady,  \* the container cache has been initialised in this process
  events,      \* EventStore._events
  idCounter,   \* EventStore._id_counter
  metrics,     \* MetricsStore counters
  policies,    \* isolation NetworkPolicies in the cluster
  created,     \* history: every isolation ever created, and by which thread
  second,      \* wall clock, seconds
  restarts

threadVars  == <<pc, event, target, raw, hasLabels, action, policy>>
storeVars   == <<events, idCounter>>
clusterVars == <<policies, created>>
vars == <<threadVars, cacheReady, storeVars, metrics, clusterVars, second, restarts>>

Actions == {"log_only", "alert_and_monitor", "fp_suppressed", "auto_isolate",
            "auto_isolate_failed", "auto_isolate_disabled", "auto_isolate_no_target"}

(* Where a thread that began can still be, in pipeline order. *)
Steps == {"parse", "enrich", "classify", "aiWait", "respond", "isolate",
"countIsolation", "countDowngrade", "store", "countEvent", "countAction"}

(* Where it can end: a stored record, a heartbeat canary, an exception     *)
(* swallowed by _safe_process, or a thread that died with its process.     *)
Dropped == {"badEvent", "badLookup", "badAnswer"}
Ended   == {"done", "canary", "lost"} \cup Dropped

Selectors ==
  (UNION { Labels[p] : p \in Pods }) \cup { <<"compliance-isolate", p>> : p \in Pods }

Policy == [name : PolicyName, pod : Pods, selector : Selectors]

(* A stored ResponseRecord; cause stands for the fields copied from the    *)
(* event.                                                                  *)
Record == [cause : Threads, severity : Severity, suppressed : BOOLEAN,
           namespace : {PodNamespace[p] : p \in Pods} \cup {""},
           action : Actions, policy : PolicyName \cup {NoPolicy}]

Store == INSTANCE EventStore
           WITH Records <- Record, MaxAdds <- Cardinality(Threads)

-----------------------------------------------------------------------------
(* What the filter and the classifier see of the event of thread t: the    *)
(* payload plus the namespace and image the enrichment found.              *)

FpScoreOf(t) ==
  FpScore(event[t].cid # "container", event[t].marks,
          event[t].infraImage \/ target[t] \in InfraPods)

Suppressed(t) == IsSuppressed(FpScoreOf(t))

Lowered(t) == IsDowngraded(FpScoreOf(t))

SignalsOf(t) ==
  event[t].signals \cup
    (IF target[t] # NoPod /\ PodNamespace[target[t]] \in ProdNamespaces
     THEN {"prodNs"} ELSE {})

FallbackSeverity(t) ==
  ClassifyFallback(event[t].benign, event[t].base, event[t].boosts, SignalsOf(t))

FinalSeverityOf(t) == FinalSeverity(raw[t], FpScoreOf(t))

ZeroMetrics ==
  [events |-> [s \in Severity |-> 0], actions |-> [a \in Actions |-> 0],
   isolations |-> 0, isolationErrors |-> 0, fpSuppressed |-> 0, fpDowngraded |-> 0,
   aiRequests |-> 0, aiErrors |-> 0, aiFallbacks |-> 0]

(* MetricsStore.inc_ai counts a request whatever else it counts. *)
IncAi(m, error, fallback) ==
  [m EXCEPT !.aiRequests  = @ + 1,
            !.aiErrors    = IF error THEN @ + 1 ELSE @,
            !.aiFallbacks = IF fallback THEN @ + 1 ELSE @]

Goto(t, step) == pc' = [pc EXCEPT ![t] = step]

Init ==
  /\ pc = [t \in Threads |-> "idle"]
  /\ event = [t \in Threads |-> NoEvent]
  /\ target = [t \in Threads |-> NoPod]
  /\ raw = [t \in Threads |-> "low"]
  /\ hasLabels = [t \in Threads |-> FALSE]
  /\ action = [t \in Threads |-> "none"]
  /\ policy = [t \in Threads |-> NoPolicy]
  /\ cacheReady = FALSE
  /\ Store!Init
  /\ metrics = ZeroMetrics
  /\ policies = {}
  /\ created = {}
  /\ second = 0
  /\ restarts = 0

-----------------------------------------------------------------------------
(* handlers/http.py: the webhook handler answers 200 and starts the        *)
(* thread. Its rejections change nothing here.                             *)
AcceptWebhook(t, e) ==
  /\ pc[t] = "idle"
  /\ event' = [event EXCEPT ![t] = e]
  /\ Goto(t, "parse")
  /\ UNCHANGED <<target, raw, hasLabels, action, policy, cacheReady, storeVars,
                 metrics, clusterVars, second, restarts>>

(* FalcoEvent.from_webhook raises on a payload of the wrong shape; a       *)
(* heartbeat canary leaves the pipeline here.                              *)
Parse(t) ==
  /\ pc[t] = "parse"
  /\ Goto(t, IF ~event[t].parses THEN "badEvent"
             ELSE IF event[t].canary THEN "canary" ELSE "enrich")
  /\ target' = [target EXCEPT ![t] =
                  IF event[t].parses /\ event[t].meta THEN event[t].pod ELSE NoPod]
  /\ UNCHANGED <<event, raw, hasLabels, action, policy, cacheReady, storeVars,
                 metrics, clusterVars, second, restarts>>

NeedsLookup(t) == ~event[t].meta /\ event[t].cid = "container"

(* _enrich_k8s_metadata: nothing to look up, or resolve_container_to_pod   *)
(* finds the pod or does not (unknown container, failed API call).         *)
Enrich(t) ==
  /\ pc[t] = "enrich"
  /\ target' \in { [target EXCEPT ![t] = p] :
                     p \in IF NeedsLookup(t) THEN {event[t].pod, NoPod} ELSE {target[t]} }
  /\ cacheReady' = (cacheReady \/ NeedsLookup(t))
  /\ Goto(t, "classify")
  /\ UNCHANGED <<event, raw, hasLabels, action, policy, storeVars, metrics,
                 clusterVars, second, restarts>>

(* The container cache comes into being attribute by attribute: a thread   *)
(* that looks while another is creating it fails (see ContainerCache).     *)
LookupRaises(t) ==
  /\ pc[t] = "enrich" /\ NeedsLookup(t)
  /\ ~cacheReady
  /\ \E u \in Threads \ {t} : pc[u] = "enrich" /\ NeedsLookup(u)
  /\ Goto(t, "badLookup")
  /\ UNCHANGED <<event, target, raw, hasLabels, action, policy, cacheReady,
                 storeVars, metrics, clusterVars, second, restarts>>

(* ThreatClassifier.classify without an AI endpoint. *)
ClassifyByRules(t) ==
  /\ pc[t] = "classify" /\ ~AiEnabled
  /\ raw' = [raw EXCEPT ![t] = FallbackSeverity(t)]
  /\ Goto(t, "respond")
  /\ UNCHANGED <<event, target, hasLabels, action, policy, cacheReady, storeVars,
                 metrics, clusterVars, second, restarts>>

AskAi(t) ==
  /\ pc[t] = "classify" /\ AiEnabled
  /\ metrics' = IncAi(metrics, FALSE, FALSE)
  /\ Goto(t, "aiWait")
  /\ UNCHANGED <<event, target, raw, hasLabels, action, policy, cacheReady,
                 storeVars, clusterVars, second, restarts>>

(* A confident answer; an unknown severity in it becomes medium. *)
AiAnswers(t) ==
  /\ pc[t] = "aiWait"
  /\ \E s \in Severity : raw' = [raw EXCEPT ![t] = s]
  /\ Goto(t, "respond")
  /\ UNCHANGED <<event, target, hasLabels, action, policy, cacheReady, storeVars,
                 metrics, clusterVars, second, restarts>>

(* No answer, or one below AI_CONFIDENCE_THRESHOLD: the rules decide. *)
AiFallsBack(t) ==
  /\ pc[t] = "aiWait"
  /\ \E failed \in BOOLEAN : metrics' = IncAi(metrics, failed, TRUE)
  /\ raw' = [raw EXCEPT ![t] = FallbackSeverity(t)]
  /\ Goto(t, "respond")
  /\ UNCHANGED <<event, target, hasLabels, action, policy, cacheReady, storeVars,
                 clusterVars, second, restarts>>

(* An answer whose confidence is no number passes _classify_ai and raises  *)
(* in classify's comparison, outside its try block.                        *)
AiAnswersBadly(t) ==
  /\ pc[t] = "aiWait"
  /\ Goto(t, "badAnswer")
  /\ UNCHANGED <<event, target, raw, hasLabels, action, policy, cacheReady,
                 storeVars, metrics, clusterVars, second, restarts>>

ToIsolate(t) ==
  /\ FinalSeverityOf(t) = "high"
  /\ AutoIsolate
  /\ target[t] # NoPod

(* What _execute_response answers without touching the cluster. *)
PlainAction(t) ==
  CASE FinalSeverityOf(t) = "low"    -> "log_only"
    [] FinalSeverityOf(t) = "medium" -> "alert_and_monitor"
    [] OTHER -> IF AutoIsolate THEN "auto_isolate_no_target"
                               ELSE "auto_isolate_disabled"

RecordOf(t) ==
  [cause |-> t, severity |-> FinalSeverityOf(t), suppressed |-> Suppressed(t),
   namespace |-> IF target[t] = NoPod THEN "" ELSE PodNamespace[target[t]],
   action |-> action[t], policy |-> policy[t]]

(* Fault: a suppressed event is stored at once, and at the end again. *)
SuppressStoring(t) ==
  /\ pc[t] = "respond" /\ Suppressed(t)
  /\ action' = [action EXCEPT ![t] = "fp_suppressed"]
  /\ metrics' = [metrics EXCEPT !.fpSuppressed = @ + 1]
  /\ Store!Add([RecordOf(t) EXCEPT !.action = "fp_suppressed"])
  /\ Goto(t, "store")
  /\ UNCHANGED <<event, target, raw, hasLabels, policy, cacheReady, clusterVars,
                 second, restarts>>

Suppress(t) ==
  /\ pc[t] = "respond" /\ Suppressed(t)
  /\ action' = [action EXCEPT ![t] = "fp_suppressed"]
  /\ metrics' = [metrics EXCEPT !.fpSuppressed = @ + 1]
  /\ Goto(t, "store")
  /\ UNCHANGED <<event, target, raw, hasLabels, policy, cacheReady, storeVars,
                 clusterVars, second, restarts>>

RespondPlainly(t) ==
  /\ pc[t] = "respond" /\ ~Suppressed(t) /\ ~ToIsolate(t)
  /\ action' = [action EXCEPT ![t] = PlainAction(t)]
  /\ Goto(t, "countDowngrade")
  /\ UNCHANGED <<event, target, raw, hasLabels, policy, cacheReady, storeVars,
                 metrics, clusterVars, second, restarts>>

(* get_pod_labels: an empty answer also when the call fails or the pod is  *)
(* gone by now.                                                            *)
ReadLabels(t) ==
  /\ pc[t] = "respond" /\ ~Suppressed(t) /\ ToIsolate(t)
  /\ \E found \in BOOLEAN :
       /\ found => Labels[target[t]] # {}
       /\ hasLabels' = [hasLabels EXCEPT ![t] = found]
  /\ Goto(t, "isolate")
  /\ UNCHANGED <<event, target, raw, action, policy, cacheReady, storeVars, metrics,
                 clusterVars, second, restarts>>

(* _select_match_labels: a preferred key if there is one, else any label;  *)
(* without labels a pair no pod carries.                                   *)
PreferredKeys == <<"app", "app.kubernetes.io/name", "app.kubernetes.io/instance", "name">>

SelectorOf(t) ==
  LET p == target[t]
      preferred == { k \in DOMAIN PreferredKeys :
                       \E l \in Labels[p] : l[1] = PreferredKeys[k] }
  IN IF ~hasLabels[t] THEN <<"compliance-isolate", p>>
     ELSE IF preferred = {} THEN CHOOSE l \in Labels[p] : TRUE
     ELSE CHOOSE l \in Labels[p] :
            l[1] = PreferredKeys[CHOOSE k \in preferred : \A j \in preferred : k <= j]

PolicyNameOf(t) ==
  [namespace |-> PodNamespace[target[t]], prefix |-> NamePrefix[target[t]],
   second |-> second]

(* Fault: no namespace is protected. *)
ProtectedNever(t) == FALSE

Protected(t) == PodNamespace[target[t]] \in SystemNamespaces

(* Fault: after a lost reply the thread tries again. *)
IsolateRetrying(t) ==
  /\ pc[t] = "isolate" /\ ~Protected(t)
  /\ \A q \in policies : q.name # PolicyNameOf(t)
  /\ LET q == [name |-> PolicyNameOf(t), pod |-> target[t], selector |-> SelectorOf(t)]
     IN /\ policies' = policies \cup {q}
        /\ created' = created \cup {[by |-> t, policy |-> q]}
  /\ \/ /\ action' = [action EXCEPT ![t] = "auto_isolate"]
        /\ policy' = [policy EXCEPT ![t] = PolicyNameOf(t)]
        /\ Goto(t, "countIsolation")
     \/ UNCHANGED <<action, policy, pc>>
  /\ UNCHANGED <<event, target, raw, hasLabels, cacheReady, storeVars, metrics,
                 second, restarts>>

(* Fault: the name of the policy is not noted in the record. *)
IsolateUnnamed(t) ==
  /\ pc[t] = "isolate" /\ ~Protected(t)
  /\ \A q \in policies : q.name # PolicyNameOf(t)
  /\ LET q == [name |-> PolicyNameOf(t), pod |-> target[t], selector |-> SelectorOf(t)]
     IN /\ policies' = policies \cup {q}
        /\ created' = created \cup {[by |-> t, policy |-> q]}
  /\ action' = [action EXCEPT ![t] = "auto_isolate"]
  /\ Goto(t, "countIsolation")
  /\ UNCHANGED <<event, target, raw, hasLabels, policy, cacheReady, storeVars,
                 metrics, second, restarts>>

(* create_isolation_policy: the API server creates the policy unless one   *)
(* of that name exists. When the reply is lost the code takes the call for *)
(* a failure.                                                              *)
Isolate(t) ==
  /\ pc[t] = "isolate" /\ ~Protected(t)
  /\ \A q \in policies : q.name # PolicyNameOf(t)
  /\ LET q == [name |-> PolicyNameOf(t), pod |-> target[t], selector |-> SelectorOf(t)]
     IN /\ policies' = policies \cup {q}
        /\ created' = created \cup {[by |-> t, policy |-> q]}
  /\ \/ /\ action' = [action EXCEPT ![t] = "auto_isolate"]
        /\ policy' = [policy EXCEPT ![t] = PolicyNameOf(t)]
     \/ /\ action' = [action EXCEPT ![t] = "auto_isolate_failed"]
        /\ UNCHANGED policy
  /\ Goto(t, "countIsolation")
  /\ UNCHANGED <<event, target, raw, hasLabels, cacheReady, storeVars, metrics,
                 second, restarts>>

(* Fault: a failed isolation is tried again without end. *)
IsolateFailsForever(t) ==
  /\ pc[t] = "isolate"
  /\ Goto(t, "respond")
  /\ UNCHANGED <<event, target, raw, hasLabels, action, policy, cacheReady,
                 storeVars, metrics, clusterVars, second, restarts>>

(* A system namespace, a name already taken, an API error: all one answer. *)
IsolateFails(t) ==
  /\ pc[t] = "isolate"
  /\ action' = [action EXCEPT ![t] = "auto_isolate_failed"]
  /\ Goto(t, "countIsolation")
  /\ UNCHANGED <<event, target, raw, hasLabels, policy, cacheReady, storeVars,
                 metrics, clusterVars, second, restarts>>

(* Fault: every attempt counts as an isolation. *)
CountIsolationAlways(t) ==
  /\ pc[t] = "countIsolation"
  /\ metrics' = [metrics EXCEPT !.isolations = @ + 1]
  /\ Goto(t, "countDowngrade")
  /\ UNCHANGED <<event, target, raw, hasLabels, action, policy, cacheReady,
                 storeVars, clusterVars, second, restarts>>

CountIsolation(t) ==
  /\ pc[t] = "countIsolation"
  /\ metrics' = IF policy[t] # NoPolicy
                THEN [metrics EXCEPT !.isolations = @ + 1]
                ELSE [metrics EXCEPT !.isolationErrors = @ + 1]
  /\ Goto(t, "countDowngrade")
  /\ UNCHANGED <<event, target, raw, hasLabels, action, policy, cacheReady,
                 storeVars, clusterVars, second, restarts>>

CountDowngrade(t) ==
  /\ pc[t] = "countDowngrade"
  /\ metrics' = IF Lowered(t) THEN [metrics EXCEPT !.fpDowngraded = @ + 1] ELSE metrics
  /\ Goto(t, "store")
  /\ UNCHANGED <<event, target, raw, hasLabels, action, policy, cacheReady,
                 storeVars, clusterVars, second, restarts>>

(* Fault: the record is stored again. *)
StoreRecordAgain(t) ==
  /\ pc[t] = "store"
  /\ Store!Add(RecordOf(t))
  /\ UNCHANGED <<threadVars, cacheReady, metrics, clusterVars, second, restarts>>

StoreRecord(t) ==
  /\ pc[t] = "store"
  /\ Store!Add(RecordOf(t))
  /\ Goto(t, "countEvent")
  /\ UNCHANGED <<event, target, raw, hasLabels, action, policy, cacheReady, metrics,
                 clusterVars, second, restarts>>

CountEvent(t) ==
  /\ pc[t] = "countEvent"
  /\ metrics' = [metrics EXCEPT !.events[FinalSeverityOf(t)] = @ + 1]
  /\ Goto(t, "countAction")
  /\ UNCHANGED <<event, target, raw, hasLabels, action, policy, cacheReady,
                 storeVars, clusterVars, second, restarts>>

CountAction(t) ==
  /\ pc[t] = "countAction"
  /\ metrics' = [metrics EXCEPT !.actions[action[t]] = @ + 1]
  /\ Goto(t, "done")
  /\ UNCHANGED <<event, target, raw, hasLabels, action, policy, cacheReady,
                 storeVars, clusterVars, second, restarts>>

-----------------------------------------------------------------------------
(* Around the threads. *)

(* DELETE /api/v1/isolations/:ns/:name, or kubectl. *)
DeleteIsolation(q) ==
  /\ q \in policies
  /\ policies' = policies \ {q}
  /\ UNCHANGED <<threadVars, cacheReady, storeVars, metrics, created, second, restarts>>

Tick ==
  /\ second < MaxSecond
  /\ second' = second + 1
  /\ UNCHANGED <<threadVars, cacheReady, storeVars, metrics, clusterVars, restarts>>

(* Fault: counters that outlive the process that counted. *)
RestartKeepingMetrics ==
  /\ restarts < MaxRestarts
  /\ restarts' = restarts + 1
  /\ pc' = [t \in Threads |-> IF pc[t] = "idle" THEN "idle" ELSE "lost"]
  /\ cacheReady' = FALSE
  /\ Store!Clear
  /\ UNCHANGED <<event, target, raw, hasLabels, action, policy, metrics,
                 clusterVars, second>>

(* Fault: deliveries under way are replayed from the beginning. *)
RestartReplaying ==
  /\ restarts < MaxRestarts
  /\ restarts' = restarts + 1
  /\ pc' = [t \in Threads |-> IF pc[t] = "idle" THEN "idle" ELSE "parse"]
  /\ cacheReady' = FALSE
  /\ Store!Clear
  /\ metrics' = ZeroMetrics
  /\ UNCHANGED <<event, target, raw, hasLabels, action, policy, clusterVars, second>>

(* The process dies (deploy, OOM kill, node loss) and another starts: the  *)
(* threads, being daemons, and everything in memory are gone.              *)
Restart ==
  /\ restarts < MaxRestarts
  /\ restarts' = restarts + 1
  /\ pc' = [t \in Threads |-> IF pc[t] = "idle" THEN "idle" ELSE "lost"]
  /\ cacheReady' = FALSE
  /\ Store!Clear
  /\ metrics' = ZeroMetrics
  /\ UNCHANGED <<event, target, raw, hasLabels, action, policy, clusterVars, second>>

(* A step of thread t's own; each ends by itself or by a timeout. *)
Proceed(t) ==
  \/ Parse(t) \/ Enrich(t) \/ LookupRaises(t)
  \/ ClassifyByRules(t) \/ AskAi(t) \/ AiAnswers(t) \/ AiFallsBack(t) \/ AiAnswersBadly(t)
  \/ Suppress(t) \/ RespondPlainly(t) \/ ReadLabels(t) \/ Isolate(t) \/ IsolateFails(t)
  \/ CountIsolation(t) \/ CountDowngrade(t) \/ StoreRecord(t)
  \/ CountEvent(t) \/ CountAction(t)

Next ==
  \/ \E t \in Threads : Proceed(t) \/ \E e \in Events : AcceptWebhook(t, e)
  \/ \E q \in policies : DeleteIsolation(q)
  \/ Tick
  \/ Restart

Spec == Init /\ [][Next]_vars

(* Threads are scheduled by the operating system and every network call    *)
(* they make has a timeout (10 s, 5 s, AI_TIMEOUT).                        *)
FairSpec == Spec /\ \A t \in Threads : WF_vars(Proceed(t))

-----------------------------------------------------------------------------
(* Properties.                                                             *)

At(S) == { t \in Threads : pc[t] \in S }

(* Steps at or after which a thread of this process has done something. *)
PastStore          == {"countEvent", "countAction", "done"}
PastCountDowngrade == {"store"} \cup PastStore
PastCountIsolation == {"countDowngrade"} \cup PastCountDowngrade
PastResponse       == {"countIsolation"} \cup PastCountIsolation
PastAsking         == {"aiWait", "badAnswer", "respond", "isolate"} \cup PastResponse

(* Every variable keeps its shape; in particular the counters stay         *)
(* counters and the store never outgrows EVENT_STORE_SIZE.                 *)
TypeOK ==
  /\ pc \in [Threads -> {"idle"} \cup Steps \cup Ended]
  /\ event \in [Threads -> Events \cup {NoEvent}]
  /\ target \in [Threads -> Pods \cup {NoPod}]
  /\ raw \in [Threads -> Severity]
  /\ hasLabels \in [Threads -> BOOLEAN]
  /\ action \in [Threads -> Actions \cup {"none"}]
  /\ policy \in [Threads -> PolicyName \cup {NoPolicy}]
  /\ cacheReady \in BOOLEAN
  /\ events \in Seq([id : Nat \ {0}, rec : Record]) /\ Len(events) <= MaxSize
  /\ idCounter \in Nat
  /\ metrics \in [events : [Severity -> Nat], actions : [Actions -> Nat],
                  isolations : Nat, isolationErrors : Nat, fpSuppressed : Nat,
                  fpDowngraded : Nat, aiRequests : Nat, aiErrors : Nat,
                  aiFallbacks : Nat]
  /\ policies \subseteq Policy
  /\ created \subseteq [by : Threads, policy : Policy]
  /\ second \in 0..MaxSecond
  /\ restarts \in 0..MaxRestarts

(* No pod is ever cut off the network without cause: an isolation was      *)
(* created by a thread whose event was rated high and not suppressed, with *)
(* auto-isolation on, for the pod that event is about, outside the system  *)
(* namespaces. It holds long after, whatever other threads, restarts and   *)
(* operators do in between (processor.py:123-223, client.py:103).          *)
IsolationJustified ==
  \A c \in created :
    /\ AutoIsolate
    /\ c.policy.pod = target[c.by]
    /\ c.policy.name.namespace \notin SystemNamespaces
    /\ ~Suppressed(c.by)
    /\ FinalSeverityOf(c.by) = "high"

(* One event isolates at most once, however its thread interleaves with    *)
(* others, and the policies in the cluster are all the server's own doing  *)
(* with one name each (client.py:110).                                     *)
OneIsolationPerEvent ==
  /\ \A c, d \in created : c.by = d.by => c = d
  /\ \A q \in policies : \E c \in created : c.policy = q
  /\ \A q, r \in policies : q.name = r.name => q = r

(* The audit record tells what was done: it names a policy exactly when it *)
(* says auto_isolate, and then that policy was created for this event; it  *)
(* says nothing milder than auto_isolate_failed when a policy was created; *)
(* and a suppressed event is recorded as such (processor.py:116-139).      *)
RecordTellsWhatHappened ==
  \A i \in DOMAIN events :
    LET r == events[i].rec
        isolations == { c \in created : c.by = r.cause }
    IN /\ r.policy # NoPolicy <=> r.action = "auto_isolate"
       /\ r.action = "auto_isolate" => \E c \in isolations : c.policy.name = r.policy
       /\ isolations # {} => r.action \in {"auto_isolate", "auto_isolate_failed"}
       /\ r.suppressed <=> r.action = "fp_suppressed"

(* An event is stored once, under the next number, and the store keeps the *)
(* newest: threads that finish in any order never share or skip an id,     *)
(* also after a restart (core/__init__.py:26-32).                          *)
StoredOnceInOrder ==
  /\ Store!IdsAreAWindow
  /\ \A i, j \in DOMAIN events : events[i].rec.cause = events[j].rec.cause => i = j

(* The counters agree with the store and with each other at every moment,  *)
(* lagging by exactly the threads still between the two updates; so when   *)
(* no thread is running they are equal, also after a restart. What the     *)
(* code calls AI requests are the events asked about plus the fallbacks,   *)
(* for inc_ai counts a request at each call                                *)
(* (processor.py:130-151, classifier.py:134-198, metrics.py:61-130).       *)
CountersAgree ==
  /\ idCounter = Cardinality(At(PastStore))
  /\ \A s \in Severity : metrics.events[s] =
       Cardinality({ t \in At({"countAction", "done"}) : FinalSeverityOf(t) = s })
  /\ \A a \in Actions : metrics.actions[a] =
       Cardinality({ t \in At({"done"}) : action[t] = a })
  /\ metrics.isolations =
       Cardinality({ t \in At(PastCountIsolation) : policy[t] # NoPolicy })
  /\ metrics.isolationErrors =
       Cardinality({ t \in At(PastCountIsolation) : action[t] = "auto_isolate_failed" })
  /\ metrics.fpSuppressed =
       Cardinality({ t \in At(PastCountDowngrade) : Suppressed(t) })
  /\ metrics.fpDowngraded =
       Cardinality({ t \in At(PastCountDowngrade) : Lowered(t) })
  /\ metrics.aiRequests = metrics.aiFallbacks +
       (IF AiEnabled THEN Cardinality(At(PastAsking)) ELSE 0)
  /\ metrics.aiErrors <= metrics.aiFallbacks

(* The threads together implement the promise of IncidentResponse: however *)
(* they interleave and whenever the process dies, an event is recorded     *)
(* once, isolates once and before it is recorded, and is dropped by an     *)
(* exception only before it isolated anything (processor.py:45-153,        *)
(* http.py:164-170).                                                       *)
Incident ==
  INSTANCE IncidentResponse
    WITH Deliveries <- Threads, Keep <- MaxSize,
         status <- [t \in Threads |-> CASE pc[t] = "idle" -> "waiting"
                                        [] pc[t] \in Ended \cup PastStore -> "closed"
                                        [] OTHER -> "open"],
         cutOff <- { c.by : c \in created },
         trail  <- [i \in DOMAIN events |-> events[i].rec.cause]

ImplementsIncidentResponse == Incident!Spec

(* Whatever is accepted comes to an end: a record, a canary, a logged      *)
(* exception, or the death of the process; no thread waits on another for  *)
(* ever (http.py:164-170).                                                 *)
AcceptedEventsEnd == \A t \in Threads : pc[t] = "parse" ~> pc[t] \in Ended

-----------------------------------------------------------------------------
(* What the repository says of the program and the code does not do.       *)

(* "Create a deny-all NetworkPolicy to isolate a pod" (client.py:100): the *)
(* policy's selector matches the pod it is for.                            *)
IsolationSelectsItsPod == \A q \in policies : q.selector \in Labels[q.pod]
=============================================================================
