---------------------------- MODULE ServerProofs ----------------------------
(***************************************************************************)
(* Proofs about handlers of the ai-server: the Slack notices               *)
(* (SlackNotifier), the application of a policy (PolicyApply), the         *)
(* provisioning of Grafana (GrafanaProvisioning), the scoping of queries   *)
(* by the Prometheus proxy (PromQLScope), the Gatekeeper collector         *)
(* (GatekeeperCollector), and all of them and the accounts side by side    *)
(* (MCServices), for any number of ingests, calls, clusters and users, any *)
(* cooldown, any violations, and manifests and queries of any length.      *)
(***************************************************************************)
EXTENDS ClusterProofs, MCServices, FiniteSetTheorems, SequenceTheorems,
        WellFoundedInduction, TLAPS

-----------------------------------------------------------------------------
(* SlackNotifier. *)

(* Where an ingest can be. *)
NotifierType == [step: {"idle", "enabled", "configured", "posting"}, seen: 0..MaxSeen,
                 notice: NoticesOf(0..MaxEvents)]

LEMMA NoNoticeType == NoNotice \in NoticesOf(0..MaxEvents) /\ AtRest \in NotifierType
BY SlackAssumption DEF SlackAssumption, NoNotice, NoticesOf, AtRest, NotifierType

LEMMA SlackInitTypes == SlackInit => SlackTypeOK
<1> SUFFICES ASSUME SlackInit PROVE SlackTypeOK
  OBVIOUS
<1>1. slackOn \in BOOLEAN /\ webhook \in BOOLEAN
  BY DEF SlackInit
<1>2. repeats \in [count: Nat, notifiedAt: 0..MaxSeen]
  BY SlackAssumption DEF SlackAssumption, SlackInit, NoRepeats
<1>3. notifiers \in [Notifiers -> NotifierType]
  BY NoNoticeType DEF SlackInit
<1>4. registered \in 0..MaxEvents /\ delivered \cup lost \subseteq NoticesOf(1..MaxEvents)
  BY SlackAssumption DEF SlackAssumption, SlackInit
<1> QED
  BY <1>1, <1>2, <1>3, <1>4 DEF SlackTypeOK, NotifierType

(* An event counted, and the notice it may lead to.                        *)
LEMMA RegisterEventTypes ==
  ASSUME SlackTypeOK, NEW n \in Notifiers, RegisterEvent(n)
  PROVE  SlackTypeOK'
<1> DEFINE seen == notifiers[n].seen
           notice == [event |-> registered + 1, count |-> repeats.count + 1, at |-> seen]
<1>1. /\ seen \in 0..MaxSeen /\ repeats.count \in Nat /\ registered \in 0..MaxEvents
      /\ registered + 1 \in 0..MaxEvents /\ repeats.count + 1 \in Nat
  <2>1. seen \in 0..MaxSeen /\ repeats.count \in Nat /\ registered \in 0..MaxEvents
    BY DEF SlackTypeOK
  <2> QED
    BY <2>1, SlackAssumption DEF RegisterEvent, SlackAssumption
<1>2. notice \in NoticesOf(0..MaxEvents)
  BY <1>1 DEF NoticesOf
<1>3. notifiers \in [Notifiers -> NotifierType]
  BY DEF SlackTypeOK, NotifierType
<1>4. CASE ShouldNotify(repeats, seen)
  <2>1. notifiers' = [notifiers EXCEPT ![n] =
                        [step |-> "posting", seen |-> seen, notice |-> notice]]
        /\ repeats' = [count |-> 1, notifiedAt |-> seen]
    BY <1>4 DEF RegisterEvent, CountAfterNotice
  <2>2. [step |-> "posting", seen |-> seen, notice |-> notice] \in NotifierType
    BY <1>1, <1>2 DEF NotifierType
  <2>3. notifiers' \in [Notifiers -> NotifierType]
    BY <1>3, <2>1, <2>2
  <2> QED
    BY <1>1, <2>1, <2>3 DEF RegisterEvent, SlackTypeOK, NotifierType
<1>5. CASE ~ShouldNotify(repeats, seen)
  <2>1. notifiers' = [notifiers EXCEPT ![n] = AtRest]
        /\ repeats' = [repeats EXCEPT !.count = repeats.count + 1]
    BY <1>5 DEF RegisterEvent, Leave
  <2>2. notifiers' \in [Notifiers -> NotifierType]
    BY <1>3, <2>1, NoNoticeType
  <2> QED
    BY <1>1, <2>1, <2>2 DEF RegisterEvent, SlackTypeOK, NotifierType
<1> QED
  BY <1>4, <1>5

(* A notice posted is about an event registered: its number is not 0.      *)
NoticesAreNumbered ==
  \A n \in Notifiers : notifiers[n].step = "posting" => notifiers[n].notice.event \in 1..MaxEvents

LEMMA PostNoticeTypes ==
  ASSUME SlackTypeOK, NoticesAreNumbered, NEW n \in Notifiers, NEW ok \in BOOLEAN,
         PostNotice(n, ok)
  PROVE  SlackTypeOK'
<1>1. notifiers' \in [Notifiers -> NotifierType]
  BY NoNoticeType DEF PostNotice, Leave, SlackTypeOK, NotifierType
<1>2. notifiers[n].notice \in NoticesOf(1..MaxEvents)
  BY DEF PostNotice, SlackTypeOK, NoticesOf, NoticesAreNumbered
<1>3. (delivered \cup lost)' \subseteq NoticesOf(1..MaxEvents)
  BY <1>2 DEF PostNotice, SlackTypeOK
<1> QED
  BY <1>1, <1>3 DEF PostNotice, SlackTypeOK, NotifierType

LEMMA SlackNextTypes ==
  SlackTypeOK /\ NoticesAreNumbered /\ [SlackNext]_slackVars => SlackTypeOK'
<1> SUFFICES ASSUME SlackTypeOK, NoticesAreNumbered, [SlackNext]_slackVars PROVE SlackTypeOK'
  OBVIOUS
<1>1. CASE ToggleSlack
  BY <1>1 DEF ToggleSlack, SlackTypeOK
<1>2. ASSUME NEW configured \in BOOLEAN, SaveSlackSettings(configured) PROVE SlackTypeOK'
  BY <1>2 DEF SaveSlackSettings, SlackTypeOK
<1>3. ASSUME NEW n \in Notifiers, NEW seen \in 0..MaxSeen, BeginNotice(n, seen)
      PROVE  SlackTypeOK'
  BY <1>3, NoNoticeType DEF BeginNotice, SlackTypeOK
<1>4. ASSUME NEW n \in Notifiers, ReadWebhook(n) PROVE SlackTypeOK'
  <2>1. CASE webhook
    BY <1>4, <2>1 DEF ReadWebhook, SlackTypeOK
  <2>2. CASE ~webhook
    BY <1>4, <2>2, NoNoticeType DEF ReadWebhook, SlackTypeOK, Leave, NotifierType
  <2> QED
    BY <2>1, <2>2
<1>5. ASSUME NEW n \in Notifiers, RegisterEvent(n) PROVE SlackTypeOK'
  BY <1>5, RegisterEventTypes
<1>6. ASSUME NEW n \in Notifiers, NEW ok \in BOOLEAN, PostNotice(n, ok) PROVE SlackTypeOK'
  BY <1>6, PostNoticeTypes
<1>7. CASE UNCHANGED slackVars
  BY <1>7 DEF slackVars, SlackTypeOK
<1> QED
  BY <1>1, <1>2, <1>3, <1>4, <1>5, <1>6, <1>7 DEF SlackNext

(* Every step but the one that decides on a notice leaves the notices and  *)
(* the row as they are, posting included: the notice has a new place.      *)
LEMMA OthersKeepTheNotices ==
  ASSUME SlackTypeOK, [SlackNext]_slackVars, \A n \in Notifiers : ~RegisterEvent(n)
  PROVE  UNCHANGED <<repeats, registered, Notices>>
<1> USE DEF SlackTypeOK, Notices, UnderWay
<1>1. ASSUME NEW n \in Notifiers, NEW seen \in 0..MaxSeen, BeginNotice(n, seen)
      PROVE  UNCHANGED <<repeats, registered, Notices>>
  BY <1>1 DEF BeginNotice
<1>2. ASSUME NEW n \in Notifiers, ReadWebhook(n)
      PROVE  UNCHANGED <<repeats, registered, Notices>>
  <2>1. \A m \in Notifiers : notifiers[m].step = "posting" <=> notifiers'[m].step = "posting"
    BY <1>2 DEF ReadWebhook, Leave, AtRest
  <2>2. \A m \in Notifiers : notifiers[m].step = "posting" => notifiers'[m] = notifiers[m]
    BY <1>2 DEF ReadWebhook, Leave, AtRest
  <2> QED
    BY <1>2, <2>1, <2>2 DEF ReadWebhook
<1>3. ASSUME NEW n \in Notifiers, NEW ok \in BOOLEAN, PostNotice(n, ok)
      PROVE  UNCHANGED <<repeats, registered, Notices>>
  <2>1. /\ notifiers[n].step = "posting" /\ notifiers'[n].step # "posting"
        /\ \A m \in Notifiers : m # n => notifiers'[m] = notifiers[m]
    BY <1>3 DEF PostNotice, Leave, AtRest
  <2>2. (delivered \cup lost)' = delivered \cup lost \cup {notifiers[n].notice}
    BY <1>3 DEF PostNotice
  <2> QED
    BY <1>3, <2>1, <2>2 DEF PostNotice
<1>4. CASE ToggleSlack \/ (\E configured \in BOOLEAN : SaveSlackSettings(configured))
           \/ UNCHANGED slackVars
  BY <1>4 DEF ToggleSlack, SaveSlackSettings, slackVars
<1> QED
  BY <1>1, <1>2, <1>3, <1>4 DEF SlackNext

(* The notices are about events in their order, and each counts from the   *)
(* event of the one before.                                                *)
NoticesFollow ==
  \A m, l \in Notices :
    /\ m.event = l.event => m = l
    /\ m.event < l.event => m.event <= l.event - l.count + 1 /\ l.at - m.at >= Cooldown

(* The row counts from the event of the last notice, whose time it has.    *)
RowFollows ==
  /\ repeats.count <= registered
  /\ repeats.count = 0 => registered = 0
  /\ \A m \in Notices :
       /\ m.event \in 1..MaxEvents /\ m.count \in Nat /\ m.at \in 0..MaxSeen
       /\ m.event <= registered - repeats.count + 1 /\ m.event <= registered
       /\ m.at <= repeats.notifiedAt

AllCounted ==
  \A e \in 1..registered :
    \/ registered - repeats.count + 1 <= e
    \/ \E m \in Notices : m.event - m.count + 1 <= e /\ e <= m.event

SlackInv == SlackTypeOK /\ NoticesFollow /\ RowFollows /\ AllCounted

(* What the invariant says of the notices under way. *)
LEMMA NoticesNumbered == SlackInv => NoticesAreNumbered
BY DEF SlackInv, RowFollows, NoticesAreNumbered, Notices, UnderWay

(* The event that decides on a notice. *)
LEMMA NoticeKeepsOrder ==
  ASSUME SlackInv, NEW n \in Notifiers, RegisterEvent(n),
         ShouldNotify(repeats, notifiers[n].seen)
  PROVE  NoticesFollow' /\ RowFollows' /\ AllCounted'
<1> DEFINE seen == notifiers[n].seen
           notice == [event |-> registered + 1, count |-> repeats.count + 1, at |-> seen]
<1>1. /\ seen \in 0..MaxSeen /\ seen \in Nat /\ repeats.count \in Nat /\ registered \in Nat
      /\ repeats.notifiedAt \in Nat /\ Cooldown \in Nat /\ MaxSeen \in Nat /\ MaxEvents \in Nat
  BY SlackAssumption DEF SlackAssumption, SlackInv, SlackTypeOK
<1>2. /\ repeats' = [count |-> 1, notifiedAt |-> seen]
      /\ registered' = registered + 1 /\ registered < MaxEvents
      /\ UNCHANGED <<delivered, lost>>
      /\ notifiers[n].step = "configured"
      /\ notifiers' = [notifiers EXCEPT ![n] =
                         [step |-> "posting", seen |-> seen, notice |-> notice]]
  BY DEF RegisterEvent, CountAfterNotice
<1>3. Notices' = Notices \cup {notice}
  <2> HIDE DEF notice
  <2>1. notifiers'[n].step = "posting" /\ notifiers'[n].notice = notice
    BY <1>2 DEF SlackInv, SlackTypeOK
  <2>2. \A m \in Notifiers : m # n => notifiers'[m] = notifiers[m]
    BY <1>2 DEF SlackInv, SlackTypeOK
  <2> QED
    BY <1>2, <2>1, <2>2 DEF Notices, UnderWay
<1>4. /\ notice.event = registered + 1 /\ notice.count = repeats.count + 1 /\ notice.at = seen
      /\ repeats'.count = 1 /\ repeats'.notifiedAt = seen
  BY <1>2
<1> HIDE DEF notice
<1>5. \A m \in Notices :
        /\ m.event \in 1..MaxEvents /\ m.count \in Nat /\ m.at \in 0..MaxSeen
        /\ m.event <= registered - repeats.count + 1 /\ m.event <= registered
        /\ m.at <= seen /\ seen - m.at >= Cooldown
  <2> TAKE m \in Notices
  <2>1. /\ m.event \in 1..MaxEvents /\ m.count \in Nat /\ m.at \in 0..MaxSeen
        /\ m.event <= registered - repeats.count + 1 /\ m.event <= registered
        /\ m.at <= repeats.notifiedAt /\ repeats.count # 0
    BY <1>1 DEF SlackInv, RowFollows
  <2>2. seen - repeats.notifiedAt >= Cooldown
    BY <2>1 DEF ShouldNotify
  <2> QED
    BY <1>1, <2>1, <2>2
<1>6. NoticesFollow'
  <2> SUFFICES ASSUME NEW m \in Notices \cup {notice}, NEW l \in Notices \cup {notice}
               PROVE  /\ m.event = l.event => m = l
                      /\ m.event < l.event =>
                           m.event <= l.event - l.count + 1 /\ l.at - m.at >= Cooldown
    BY <1>3 DEF NoticesFollow
  <2>1. CASE m \in Notices /\ l \in Notices
    BY <2>1 DEF SlackInv, NoticesFollow
  <2>2. CASE m \in Notices /\ l = notice
    BY <1>1, <1>4, <1>5, <2>2
  <2>3. CASE m = notice /\ l \in Notices
    BY <1>1, <1>4, <1>5, <2>3
  <2>4. CASE m = notice /\ l = notice
    BY <1>1, <1>4, <2>4
  <2> QED
    BY <2>1, <2>2, <2>3, <2>4
<1>7. RowFollows'
  <2> SUFFICES ASSUME NEW m \in Notices \cup {notice}
               PROVE  /\ m.event \in 1..MaxEvents /\ m.count \in Nat /\ m.at \in 0..MaxSeen
                      /\ m.event <= registered + 1 /\ m.at <= seen
    BY <1>1, <1>2, <1>3, <1>4 DEF RowFollows
  <2> QED
    BY <1>1, <1>2, <1>4, <1>5
<1>8. AllCounted'
  <2> SUFFICES ASSUME NEW e \in 1..(registered + 1), e < registered + 1
               PROVE  \E m \in Notices \cup {notice} : m.event - m.count + 1 <= e /\ e <= m.event
    BY <1>1, <1>2, <1>3, <1>4 DEF AllCounted
  <2>1. CASE registered - repeats.count + 1 <= e
    <3>1. notice.event - notice.count + 1 <= e /\ e <= notice.event
      BY <1>1, <1>4, <2>1
    <3> QED
      BY <3>1
  <2>2. CASE ~(registered - repeats.count + 1 <= e)
    <3>1. e \in 1..registered
      BY <1>1
    <3> QED
      BY <2>2, <3>1 DEF SlackInv, AllCounted
  <2> QED
    BY <2>1, <2>2
<1> QED
  BY <1>6, <1>7, <1>8

(* The event that is held back. *)
LEMMA SuppressionKeepsOrder ==
  ASSUME SlackInv, NEW n \in Notifiers, RegisterEvent(n),
         ~ShouldNotify(repeats, notifiers[n].seen)
  PROVE  NoticesFollow' /\ RowFollows' /\ AllCounted'
<1>1. repeats.count \in Nat /\ registered \in Nat /\ repeats.notifiedAt \in Nat
  BY SlackAssumption DEF SlackAssumption, SlackInv, SlackTypeOK
<1>2. /\ repeats'.count = repeats.count + 1 /\ repeats'.notifiedAt = repeats.notifiedAt
      /\ registered' = registered + 1
  BY DEF RegisterEvent, SlackInv, SlackTypeOK
<1>3. UNCHANGED Notices
  <2>1. /\ notifiers[n].step = "configured" /\ notifiers'[n].step = "idle"
        /\ \A m \in Notifiers : m # n => notifiers'[m] = notifiers[m]
        /\ UNCHANGED <<delivered, lost>>
    BY DEF RegisterEvent, Leave, AtRest, SlackInv, SlackTypeOK
  <2> QED
    BY <2>1 DEF Notices, UnderWay
<1>4. NoticesFollow'
  BY <1>3 DEF SlackInv, NoticesFollow
<1>5. RowFollows'
  <2>1. \A m \in Notices : m.event \in Nat
    BY SlackAssumption DEF SlackAssumption, SlackInv, RowFollows
  <2> QED
    BY <1>1, <1>2, <1>3, <2>1 DEF SlackInv, RowFollows
<1>6. AllCounted'
  <2> SUFFICES ASSUME NEW e \in 1..(registered + 1),
                      ~(registered - repeats.count + 1 <= e)
               PROVE  \E m \in Notices : m.event - m.count + 1 <= e /\ e <= m.event
    BY <1>1, <1>2, <1>3 DEF AllCounted
  <2>1. e \in 1..registered
    BY <1>1 DEF SlackInv, RowFollows
  <2> QED
    BY <2>1 DEF SlackInv, AllCounted
<1> QED
  BY <1>4, <1>5, <1>6

LEMMA SlackInvariant == SlackSpec => []SlackInv
<1>1. SlackInit => SlackInv
  <2> SUFFICES ASSUME SlackInit PROVE SlackInv
    OBVIOUS
  <2>1. Notices = {} /\ registered = 0 /\ repeats.count = 0
    BY DEF SlackInit, Notices, UnderWay, AtRest, NoRepeats
  <2> QED
    BY <2>1, SlackInitTypes DEF SlackInv, NoticesFollow, RowFollows, AllCounted
<1>2. SlackInv /\ [SlackNext]_slackVars => SlackInv'
  <2> SUFFICES ASSUME SlackInv, [SlackNext]_slackVars PROVE SlackInv'
    OBVIOUS
  <2>1. SlackTypeOK'
    BY SlackNextTypes, NoticesNumbered DEF SlackInv
  <2>2. CASE \E n \in Notifiers : RegisterEvent(n)
    BY <2>1, <2>2, NoticeKeepsOrder, SuppressionKeepsOrder DEF SlackInv
  <2>3. CASE \A n \in Notifiers : ~RegisterEvent(n)
    <3>1. UNCHANGED <<repeats, registered, Notices>>
      BY <2>3, OthersKeepTheNotices DEF SlackInv
    <3> QED
      BY <2>1, <3>1 DEF SlackInv, NoticesFollow, RowFollows, AllCounted
  <2> QED
    BY <2>2, <2>3
<1> QED
  BY <1>1, <1>2, PTL DEF SlackSpec

(* Whatever the order of the events and whichever posts fail, the counts   *)
(* reported and the row cover every event, and only the event of a notice  *)
(* twice (app/storage.py, register_slack_notification_event).              *)
THEOREM EventsAreCounted == SlackSpec => []SuppressedEventsAreCounted
<1>1. SlackInv => SuppressedEventsAreCounted
  <2> SUFFICES ASSUME SlackInv PROVE SuppressedEventsAreCounted
    OBVIOUS
  <2>1. /\ registered \in Nat /\ repeats.count \in Nat
        /\ \A m \in Notices : m.event \in Nat /\ m.count \in Nat
    BY SlackAssumption DEF SlackAssumption, SlackInv, SlackTypeOK, RowFollows
  <2>2. \A e \in 1..registered : e \in CountedInRow \/ \E m \in Notices : e \in CountedBy(m)
    BY <2>1 DEF SlackInv, AllCounted, CountedInRow, CountedBy
  <2>3. \A m \in Notices : \A e \in CountedBy(m) \cap CountedInRow : e = m.event
    BY <2>1 DEF SlackInv, RowFollows, CountedInRow, CountedBy
  <2>4. \A m \in Notices : \A l \in Notices \ {m} : \A e \in CountedBy(m) \cap CountedBy(l) :
          e \in {m.event, l.event}
    <3> TAKE m \in Notices
    <3> TAKE l \in Notices \ {m}
    <3> TAKE e \in CountedBy(m) \cap CountedBy(l)
    <3>1. CASE m.event < l.event
      BY <2>1, <3>1 DEF SlackInv, NoticesFollow, CountedBy
    <3>2. CASE l.event < m.event
      BY <2>1, <3>2 DEF SlackInv, NoticesFollow, CountedBy
    <3>3. m.event # l.event
      BY DEF SlackInv, NoticesFollow
    <3> QED
      BY <2>1, <3>1, <3>2, <3>3
  <2> QED
    BY <2>2, <2>3, <2>4 DEF SuppressedEventsAreCounted
<1> QED
  BY <1>1, SlackInvariant, PTL

(* Any two events that notify are a cooldown apart, in whatever order the  *)
(* events arrive (app/storage.py, register_slack_notification_event).      *)
THEOREM NoticesAreApart == SlackSpec => []NoticesKeepTheCooldown
<1>1. SlackInv => NoticesKeepTheCooldown
  BY DEF SlackInv, NoticesFollow, NoticesKeepTheCooldown
<1> QED
  BY <1>1, SlackInvariant, PTL

-----------------------------------------------------------------------------
(* GatekeeperCollector. *)

(* The id of a row is the violation it is about, and rows differ in it.    *)
IdsTellViolations ==
  /\ \A r \in rows : r.id = r.violation
  /\ \A r, s \in rows : r.id = s.id => r = s

LEMMA SavedKeepsIds ==
  ASSUME IdsTellViolations, NEW v, rows' = Saved(Event(v))
  PROVE  IdsTellViolations'
  BY DEF IdsTellViolations, Saved, Event, RowId

(* However often a violation is posted, by repeated rounds, after lost     *)
(* answers or restarts, it has one row (app/main.py, collect_once;         *)
(* app/storage.py, save_event).                                            *)
THEOREM ViolationsHaveOneRow == CollectorSpec => []OneRowPerViolation
<1>1. CollectorInit => IdsTellViolations
  BY DEF CollectorInit, IdsTellViolations
<1>2. IdsTellViolations /\ [CollectorNext]_collectorVars => IdsTellViolations'
  <2> SUFFICES ASSUME IdsTellViolations, [CollectorNext]_collectorVars
               PROVE  IdsTellViolations'
    OBVIOUS
  <2>1. ASSUME NEW v \in Range(Violations), PostNext(v) PROVE IdsTellViolations'
    BY <2>1, SavedKeepsIds DEF PostNext
  <2>2. ASSUME NEW arrived \in BOOLEAN, PostFails(arrived) PROVE IdsTellViolations'
    <3>1. CASE rows' = rows
      BY <3>1 DEF IdsTellViolations
    <3>2. CASE rows' = Saved(Event(Head(round.left)))
      BY <3>2, SavedKeepsIds
    <3> QED
      BY <2>2, <3>1, <3>2 DEF PostFails
  <2>3. CASE rows' = rows
    BY <2>3 DEF IdsTellViolations
  <2> QED
    BY <2>1, <2>2, <2>3 DEF CollectorNext, AuditFinds, AuditClears, StartRound, EndRound,
                            ListKind, collectorVars
<1>3. IdsTellViolations => OneRowPerViolation
  BY DEF IdsTellViolations, OneRowPerViolation
<1> QED
  BY <1>1, <1>2, <1>3, PTL DEF CollectorSpec

-----------------------------------------------------------------------------
(* PolicyApply. *)

Tried == [dryRun |-> "success", apply |-> "pending"]
Refused == [dryRun |-> "failed", apply |-> "skipped"]
Applied == [dryRun |-> "success", apply |-> "success"]
NotApplied == [dryRun |-> "success", apply |-> "failed"]

\* The results at the positions are among those.
Hold(positions, values) == \A i \in positions : results[i] \in values

Rest == DOMAIN manifest \ Ahead

\* Where the call is tells what it has found out and done so far.
BeforeTheTries ==
    call.phase \in {"idle", "received", "gatekeeper"} =>
        /\ inCluster = {} /\ Hold(DOMAIN manifest, {Untried})
        /\ call.phase = "gatekeeper" => DOMAIN manifest # {}

TryingTemplates ==
    call.phase = "templateDryRun" =>
        /\ call.todo # {} /\ call.todo \subseteq Ahead
        /\ inCluster = {}
        /\ Hold(Rest \cup call.todo, {Untried})
        /\ Hold(Ahead \ call.todo, {Tried, Refused})

ApplyingTemplates ==
    call.phase = "templateApply" =>
        /\ call.todo # {} /\ call.todo \subseteq Ahead
        /\ inCluster \subseteq Ahead \ call.todo
        /\ Hold(Rest, {Untried})
        /\ Hold(call.todo, {Tried})
        /\ Hold(Ahead \ call.todo, {Applied, NotApplied})
        /\ \A i \in Ahead : results[i] = Applied => i \in inCluster

Waiting ==
    call.phase = "wait" =>
        /\ Ahead # {} /\ inCluster = Ahead
        /\ Hold(Ahead, {Applied}) /\ Hold(Rest, {Untried})

TryingTheRest ==
    call.phase = "dryRun" =>
        /\ call.todo # {} /\ call.todo \subseteq Rest
        /\ inCluster = Ahead
        /\ Hold(Ahead, {Applied})
        /\ Hold(call.todo, {Untried})
        /\ Hold(Rest \ call.todo, {Tried, Refused})

ApplyingTheRest ==
    call.phase = "apply" =>
        /\ call.todo # {} /\ call.todo \subseteq Rest
        /\ Ahead \subseteq inCluster /\ inCluster \cap call.todo = {}
        /\ Hold(Ahead, {Applied})
        /\ Hold(call.todo, {Tried})
        /\ Hold(Rest \ call.todo, {Applied, NotApplied})
        /\ \A i \in Rest : results[i] = Applied => i \in inCluster

Progress ==
    /\ BeforeTheTries /\ TryingTemplates /\ ApplyingTemplates /\ Waiting
    /\ TryingTheRest /\ ApplyingTheRest

PolicyInv == PolicyTypeOK /\ Progress /\ AnswerMatchesCluster

-----------------------------------------------------------------------------
(* Positions. *)

LEMMA FirstIsIn ==
  ASSUME NEW positions, positions \subseteq Nat, positions # {}
  PROVE  First(positions) \in positions
<1>1. \E i \in positions : \A j \in positions : ~(<<j, i>> \in OpToRel(<, Nat))
  BY NatLessThanWellFounded, WFMin
<1>2. \A i, j \in Nat : i < j => <<i, j>> \in OpToRel(<, Nat)
  BY Zenon DEF OpToRel
<1>3. \E i \in positions : \A j \in positions : ~(j < i)
  BY <1>1, <1>2
<1>4. \E i \in positions : \A j \in positions : i <= j
  BY <1>3
<1> QED
  BY <1>4 DEF First

LEMMA PositionsAreNat ==
  ASSUME PolicyTypeOK
  PROVE  /\ DOMAIN manifest \subseteq Nat
         /\ manifest # <<>> <=> DOMAIN manifest # {}
         /\ Ahead \subseteq Templates /\ Templates \subseteq DOMAIN manifest
         /\ Constraints \subseteq DOMAIN manifest /\ Constraints \cap Templates = {}
         /\ Ahead = {} \/ (Ahead = Templates /\ Constraints # {})
<1>1. PICK n \in Nat : manifest \in [1..n -> Classes]
  BY PolicyApplyAssumption DEF PolicyApplyAssumption, PolicyTypeOK, Manifests
<1>2. DOMAIN manifest \subseteq Nat
  BY <1>1
<1>3. manifest # <<>> <=> DOMAIN manifest # {}
  <2>1. manifest \in Seq(Classes) /\ Len(manifest) = n /\ DOMAIN manifest = 1..n
    BY <1>1
  <2>2. CASE manifest = <<>>
    BY <2>1, <2>2
  <2>3. CASE manifest # <<>>
    <3>1. n \in Nat \ {0}
      BY <2>1, <2>3, EmptySeq
    <3>2. 1 \in DOMAIN manifest
      BY <2>1, <3>1
    <3> QED
      BY <2>3, <3>2
  <2> QED
    BY <2>2, <2>3
<1> QED
  BY <1>2, <1>3 DEF Ahead, Templates, Constraints, Positions

LEMMA PositionsStay ==
  ASSUME manifest' = manifest
  PROVE  Ahead' = Ahead /\ Rest' = Rest /\ Templates' = Templates /\ Constraints' = Constraints
BY DEF Ahead, Rest, Templates, Constraints, Positions

LEMMA ResultsDiffer ==
  /\ Untried # Tried /\ Untried # Refused /\ Untried # Applied /\ Untried # NotApplied
  /\ Tried # Refused /\ Tried # Applied /\ Tried # NotApplied
  /\ Refused # Applied /\ Refused # NotApplied /\ Applied # NotApplied
BY DEF Untried, Tried, Refused, Applied, NotApplied

(* The next state is held to the part of the invariant of its phase only. *)
LEMMA PhaseTells ==
  ASSUME \/ call'.phase \in {"idle", "received", "gatekeeper"} /\ BeforeTheTries'
         \/ call'.phase = "templateDryRun" /\ TryingTemplates'
         \/ call'.phase = "templateApply" /\ ApplyingTemplates'
         \/ call'.phase = "wait" /\ Waiting'
         \/ call'.phase = "dryRun" /\ TryingTheRest'
         \/ call'.phase = "apply" /\ ApplyingTheRest'
         \/ call'.phase = "answered" /\ AnswerMatchesCluster'
  PROVE  Progress' /\ AnswerMatchesCluster'
BY DEF Progress, BeforeTheTries, TryingTemplates, ApplyingTemplates, Waiting, TryingTheRest,
   ApplyingTheRest, AnswerMatchesCluster

(* The positions are those ahead and the rest. *)
LEMMA TwoParts ==
  ASSUME PolicyTypeOK, manifest' = manifest
  PROVE  /\ Ahead' = Ahead /\ Rest' = Rest
         /\ Ahead \cup Rest = DOMAIN manifest /\ Ahead \cap Rest = {}
         /\ Constraints \subseteq Rest
BY PositionsAreNat, PositionsStay DEF Rest

ResultRecords == [dryRun: {"skipped", "success", "failed"},
                  apply: {"skipped", "pending", "success", "failed"}]

LEMMA ResultTypes == {Untried, Tried, Refused, Applied, NotApplied} \subseteq ResultRecords
BY DEF Untried, Tried, Refused, Applied, NotApplied, ResultRecords

-----------------------------------------------------------------------------
(* The steps before the first try. *)

LEMMA ReceiveInv == ASSUME PolicyInv, NEW m \in Manifests, Receive(m) PROVE PolicyInv'
<1>1. PICK p \in Bijection(DOMAIN m, DOMAIN m) : manifest' = [i \in DOMAIN m |-> m[p[i]]]
  BY DEF Receive, Orderings
<1>2. p \in [DOMAIN m -> DOMAIN m]
  BY <1>1 DEF Bijection, Injection
<1>3. PICK n \in 0..MaxResources : m \in [1..n -> Classes]
  BY DEF Manifests
<1>4. manifest' \in [1..n -> Classes] /\ DOMAIN manifest' = DOMAIN m
  BY <1>1, <1>2, <1>3
<1>5. manifest' \in Manifests
  BY <1>3, <1>4 DEF Manifests
<1>6. /\ results' = [i \in DOMAIN m |-> Untried]
      /\ call' = [phase |-> "received", todo |-> {}]
      /\ inCluster = {} /\ UNCHANGED <<inCluster, answer>>
  BY DEF Receive, Enter, PolicyInv, Progress, BeforeTheTries
<1>7. PolicyTypeOK'
  BY <1>4, <1>5, <1>6 DEF PolicyInv, PolicyTypeOK, Phases, Untried
<1>8. Progress'
  BY <1>4, <1>6 DEF Progress, BeforeTheTries, TryingTemplates, ApplyingTemplates, Waiting,
     TryingTheRest, ApplyingTheRest, Hold
<1>9. AnswerMatchesCluster'
  BY <1>6 DEF AnswerMatchesCluster
<1> QED
  BY <1>7, <1>8, <1>9 DEF PolicyInv

(* An answer before the first try: nothing has been done. *)
LEMMA EarlyAnswerInv ==
  ASSUME PolicyInv, call.phase \in {"received", "gatekeeper"},
         NEW status \in {"unconfirmed", "invalid_manifest", "not_configured"},
         AnswerWith(status), UNCHANGED <<manifest, results, inCluster>>
  PROVE  PolicyInv'
<1>1. inCluster = {} /\ \A i \in DOMAIN results : results[i] = Untried
  BY DEF PolicyInv, PolicyTypeOK, Progress, BeforeTheTries, Hold
<1>2. /\ call' = [phase |-> "answered", todo |-> {}]
      /\ answer' = [status |-> status, denies |-> FALSE]
  BY DEF AnswerWith, Respond
<1>3. PolicyTypeOK'
  BY <1>2 DEF PolicyInv, PolicyTypeOK, Phases, Answers
<1>4. Progress'
  BY <1>2 DEF Progress, BeforeTheTries, TryingTemplates, ApplyingTemplates, Waiting,
     TryingTheRest, ApplyingTheRest
<1>5. ~(results # <<>> /\ \A i \in DOMAIN results : results[i].apply = "success")
  <2>1. \E n \in 0..MaxResources : results \in [1..n -> {Untried}]
    BY <1>1 DEF PolicyInv, PolicyTypeOK, Manifests
  <2>2. results # <<>> => DOMAIN results # {}
    BY <2>1
  <2> QED
    BY <1>1, <2>2 DEF Untried
<1>6. AnswerMatchesCluster'
  BY <1>1, <1>2, <1>5 DEF AnswerMatchesCluster, Untried
<1> QED
  BY <1>3, <1>4, <1>6 DEF PolicyInv

(* The tries begin. *)
LEMMA BeginInv ==
  ASSUME PolicyInv, call.phase \in {"received", "gatekeeper"}, DOMAIN manifest # {},
         Begin, UNCHANGED <<manifest, results, inCluster>>
  PROVE  PolicyInv'
<1> USE PositionsAreNat, PositionsStay
<1>1. inCluster = {} /\ Hold(DOMAIN manifest, {Untried})
  BY DEF PolicyInv, Progress, BeforeTheTries
<1>2. /\ call'.phase # "answered"
      /\ PolicyTypeOK'
  BY DEF Begin, Enter, PolicyInv, PolicyTypeOK, Phases
<1>3. CASE Ahead # {}
  <2>1. call' = [phase |-> "templateDryRun", todo |-> Ahead]
    BY <1>3 DEF Begin, Enter
  <2>2. TryingTemplates'
    BY <1>1, <1>3, <2>1 DEF TryingTemplates, Hold, Rest, PolicyInv
  <2> QED
    BY <1>2, <2>1, <2>2 DEF PolicyInv, Progress, BeforeTheTries, ApplyingTemplates, Waiting,
       TryingTheRest, ApplyingTheRest, AnswerMatchesCluster
<1>4. CASE Ahead = {}
  <2>1. call' = [phase |-> "dryRun", todo |-> DOMAIN manifest]
    BY <1>4 DEF Begin, Enter
  <2>2. TryingTheRest'
    BY <1>1, <1>4, <2>1 DEF TryingTheRest, Hold, Rest, PolicyInv
  <2> QED
    BY <1>2, <2>1, <2>2 DEF PolicyInv, Progress, BeforeTheTries, ApplyingTemplates, Waiting,
       TryingTemplates, ApplyingTheRest, AnswerMatchesCluster
<1> QED
  BY <1>3, <1>4

LEMMA ScreenInv == ASSUME PolicyInv, Screen PROVE PolicyInv'
<1>1. CASE \E status \in {"unconfirmed", "invalid_manifest", "not_configured"} :
              AnswerWith(status)
  BY <1>1, EarlyAnswerInv DEF Screen
<1>2. CASE manifest # <<>> /\ Positions(Gatekeeper) # {} /\ Enter("gatekeeper", {})
  <2>1. DOMAIN manifest # {}
    BY <1>2, PositionsAreNat DEF PolicyInv
  <2>2. call' = [phase |-> "gatekeeper", todo |-> {}] /\ UNCHANGED answer
    BY <1>2 DEF Enter
  <2>3. UNCHANGED <<manifest, results, inCluster>> /\ call.phase = "received"
    BY DEF Screen
  <2> QED
    BY <2>1, <2>2, <2>3 DEF PolicyInv, PolicyTypeOK, Phases, Progress, BeforeTheTries,
       TryingTemplates, ApplyingTemplates, Waiting, TryingTheRest, ApplyingTheRest,
       AnswerMatchesCluster, Hold
<1>3. CASE manifest # <<>> /\ Begin
  BY <1>3, BeginInv, PositionsAreNat DEF Screen, PolicyInv
<1> QED
  BY <1>1, <1>2, <1>3 DEF Screen

LEMMA CheckGatekeeperInv == ASSUME PolicyInv, CheckGatekeeper PROVE PolicyInv'
<1>1. CASE AnswerWith("not_configured")
  BY <1>1, EarlyAnswerInv DEF CheckGatekeeper
<1>2. CASE Begin
  BY <1>2, BeginInv DEF CheckGatekeeper, PolicyInv, Progress, BeforeTheTries
<1> QED
  BY <1>1, <1>2 DEF CheckGatekeeper

-----------------------------------------------------------------------------
(* A dry run. *)

LEMMA DryRunInv == ASSUME PolicyInv, NEW ok \in BOOLEAN, DryRunNext(ok) PROVE PolicyInv'
<1> DEFINE i  == First(call.todo)
           rs == [results EXCEPT ![i] = IF ok THEN Tried ELSE Refused]
           last == call.todo = {i}
<1>1. UNCHANGED <<manifest, inCluster>> /\ call.phase \in {"templateDryRun", "dryRun"}
  BY DEF DryRunNext
<1>2. call.todo \subseteq DOMAIN manifest /\ i \in call.todo
  <2>1. call.todo # {} /\ call.todo \subseteq DOMAIN manifest
    BY <1>1 DEF PolicyInv, PolicyTypeOK, Progress, TryingTemplates, TryingTheRest
  <2> QED
    BY <2>1, FirstIsIn, PositionsAreNat DEF PolicyInv
<1>3. /\ DOMAIN results = DOMAIN manifest /\ DOMAIN rs = DOMAIN manifest
      /\ rs[i] \in {Tried, Refused}
      /\ \A j \in DOMAIN manifest : j # i => rs[j] = results[j]
  BY <1>2 DEF PolicyInv, PolicyTypeOK
<1>4. /\ results' = IF last /\ Failed(rs) /\ call.phase # "templateDryRun" THEN Dropped(rs) ELSE rs
      /\ \/ ~last /\ Enter(call.phase, call.todo \ {i})
         \/ last /\ Failed(rs) /\ DenyApplying
         \/ last /\ ~Failed(rs) /\
               IF call.phase = "templateDryRun" THEN Enter("templateApply", Templates)
               ELSE Enter("apply", DOMAIN manifest \ Ahead)
  BY DEF DryRunNext, Tried, Refused
<1> HIDE DEF i, rs, last
<1>5. rs \in [DOMAIN manifest -> ResultRecords]
  BY <1>2, <1>3, ResultTypes DEF PolicyInv, PolicyTypeOK, ResultRecords, rs
<1>6. Failed(rs) <=> \E j \in DOMAIN manifest : "failed" \in {rs[j].dryRun, rs[j].apply}
  BY <1>3 DEF Failed
<1>7. /\ Ahead' = Ahead /\ Rest' = Rest
      /\ Ahead \cup Rest = DOMAIN manifest /\ Ahead \cap Rest = {}
  BY <1>1, TwoParts DEF PolicyInv
<1>8. CASE ~last
  <2>1. /\ call' = [phase |-> call.phase, todo |-> call.todo \ {i}]
        /\ results' = rs /\ UNCHANGED answer
    BY <1>4, <1>8 DEF Enter
  <2>2. call.todo \ {i} # {}
    BY <1>2, <1>8 DEF last
  <2>3. PolicyTypeOK'
    BY <1>1, <1>2, <1>5, <2>1 DEF PolicyInv, PolicyTypeOK, ResultRecords
  <2>4. CASE call.phase = "templateDryRun"
    <3>1. /\ call.todo \subseteq Ahead /\ inCluster = {}
          /\ \A j \in Rest \cup call.todo : results[j] = Untried
          /\ \A j \in Ahead \ call.todo : results[j] \in {Tried, Refused}
      BY <2>4 DEF PolicyInv, Progress, TryingTemplates, Hold
    <3>2. /\ \A j \in Rest \cup (call.todo \ {i}) : rs[j] = Untried
          /\ \A j \in Ahead \ (call.todo \ {i}) : rs[j] \in {Tried, Refused}
      BY <1>2, <1>3, <1>7, <3>1
    <3>3. TryingTemplates'
      BY <1>1, <1>7, <2>1, <2>2, <3>1, <3>2 DEF TryingTemplates, Hold
    <3>4. call'.phase = "templateDryRun"
      BY <2>1, <2>4
    <3> QED
      BY <2>3, <3>3, <3>4, PhaseTells DEF PolicyInv
  <2>5. CASE call.phase = "dryRun"
    <3>1. /\ call.todo \subseteq Rest /\ inCluster = Ahead
          /\ \A j \in Ahead : results[j] = Applied
          /\ \A j \in call.todo : results[j] = Untried
          /\ \A j \in Rest \ call.todo : results[j] \in {Tried, Refused}
      BY <2>5 DEF PolicyInv, Progress, TryingTheRest, Hold
    <3>2. /\ \A j \in Ahead : rs[j] = Applied
          /\ \A j \in call.todo \ {i} : rs[j] = Untried
          /\ \A j \in Rest \ (call.todo \ {i}) : rs[j] \in {Tried, Refused}
      BY <1>2, <1>3, <1>7, <3>1
    <3>3. TryingTheRest'
      BY <1>1, <1>7, <2>1, <2>2, <3>1, <3>2 DEF TryingTheRest, Hold
    <3>4. call'.phase = "dryRun"
      BY <2>1, <2>5
    <3> QED
      BY <2>3, <3>3, <3>4, PhaseTells DEF PolicyInv
  <2> QED
    BY <1>1, <2>4, <2>5
<1>9. CASE last /\ Failed(rs)
  <2>1. /\ call' = [phase |-> "answered", todo |-> {}]
        /\ answer' = [status |-> "dry_run_failed", denies |-> TRUE]
    BY <1>4, <1>9 DEF DenyApplying, Respond
  <2>2. PICK j \in DOMAIN manifest : "failed" \in {rs[j].dryRun, rs[j].apply}
    BY <1>6, <1>9
  <2>3. CASE call.phase = "templateDryRun"
    <3>1. /\ call.todo \subseteq Ahead /\ inCluster = {}
          /\ \A k \in Rest \cup call.todo : results[k] = Untried
          /\ \A k \in Ahead \ call.todo : results[k] \in {Tried, Refused}
      BY <2>3 DEF PolicyInv, Progress, TryingTemplates, Hold
    <3>2. /\ \A k \in Rest : rs[k] = Untried
          /\ \A k \in Ahead : rs[k] \in {Tried, Refused}
      BY <1>2, <1>3, <1>7, <1>9, <3>1 DEF last
    <3>3. results' = rs
      BY <1>4, <2>3
    <3>4. PolicyTypeOK'
      BY <1>1, <1>5, <2>1, <3>3 DEF PolicyInv, PolicyTypeOK, ResultRecords, Phases, Answers
    <3>5. AnswerMatchesCluster'
      BY <1>1, <1>2, <1>3, <1>7, <2>1, <3>1, <3>2, <3>3
      DEF AnswerMatchesCluster, Untried, Tried, Refused
    <3> QED
      BY <2>1, <3>4, <3>5, PhaseTells DEF PolicyInv
  <2>4. CASE call.phase = "dryRun"
    <3>1. /\ call.todo \subseteq Rest /\ inCluster = Ahead
          /\ \A k \in Ahead : results[k] = Applied
          /\ \A k \in Rest \ call.todo : results[k] \in {Tried, Refused}
      BY <2>4 DEF PolicyInv, Progress, TryingTheRest, Hold
    <3>2. /\ \A k \in Ahead : rs[k] = Applied
          /\ \A k \in Rest : rs[k] \in {Tried, Refused}
      BY <1>2, <1>3, <1>7, <1>9, <3>1 DEF last
    <3>3. results' = Dropped(rs)
      BY <1>4, <1>9, <2>4
    <3>4. /\ DOMAIN results' = DOMAIN manifest
          /\ \A k \in Ahead : results'[k] = Applied
          /\ \A k \in Rest :
                /\ results'[k] \in ResultRecords
                /\ results'[k].apply = "skipped"
      BY <1>3, <1>5, <1>7, <3>2, <3>3 DEF Dropped, Applied, Tried, Refused, ResultRecords
    <3>5. PolicyTypeOK'
      <4>1. results' \in [DOMAIN manifest -> ResultRecords]
        BY <1>3, <1>7, <3>3, <3>4, ResultTypes DEF Dropped
      <4> QED
        BY <1>1, <2>1, <4>1 DEF PolicyInv, PolicyTypeOK, ResultRecords, Phases, Answers
    <3>6. j \in Rest /\ Constraints' \subseteq Rest /\ Templates' = Templates
      BY <1>1, <1>7, <2>2, <3>2, TwoParts, PositionsStay DEF Applied, PolicyInv
    <3>7. AnswerMatchesCluster'
      BY <1>1, <1>7, <2>1, <3>1, <3>4, <3>6 DEF AnswerMatchesCluster, Applied
    <3> QED
      BY <2>1, <3>5, <3>7, PhaseTells DEF PolicyInv
  <2> QED
    BY <1>1, <2>3, <2>4
<1>10. CASE last /\ ~Failed(rs)
  <2>1. results' = rs /\ UNCHANGED answer
    BY <1>4, <1>10 DEF Enter
  <2>2. CASE call.phase = "templateDryRun"
    <3>1. /\ call.todo \subseteq Ahead /\ inCluster = {}
          /\ \A k \in Rest \cup call.todo : results[k] = Untried
          /\ \A k \in Ahead \ call.todo : results[k] \in {Tried, Refused}
      BY <2>2 DEF PolicyInv, Progress, TryingTemplates, Hold
    <3>2. /\ \A k \in Rest : rs[k] = Untried
          /\ \A k \in Ahead : rs[k] = Tried
      BY <1>2, <1>3, <1>6, <1>7, <1>10, <3>1 DEF last, Refused
    <3>3. Ahead # {} /\ Templates = Ahead
      BY <1>2, <3>1, PositionsAreNat DEF PolicyInv
    <3>4. call' = [phase |-> "templateApply", todo |-> Ahead]
      BY <1>4, <1>10, <2>2, <3>3 DEF Enter
    <3>5. PolicyTypeOK'
      BY <1>1, <1>5, <1>7, <2>1, <3>4 DEF PolicyInv, PolicyTypeOK, ResultRecords, Phases
    <3>6. ApplyingTemplates'
      BY <1>1, <1>7, <2>1, <3>1, <3>2, <3>3, <3>4, ResultsDiffer DEF ApplyingTemplates, Hold
    <3>7. call'.phase = "templateApply"
      BY <3>4
    <3> QED
      BY <3>5, <3>6, <3>7, PhaseTells DEF PolicyInv
  <2>3. CASE call.phase = "dryRun"
    <3>1. /\ call.todo \subseteq Rest /\ inCluster = Ahead
          /\ \A k \in Ahead : results[k] = Applied
          /\ \A k \in Rest \ call.todo : results[k] \in {Tried, Refused}
      BY <2>3 DEF PolicyInv, Progress, TryingTheRest, Hold
    <3>2. /\ \A k \in Ahead : rs[k] = Applied
          /\ \A k \in Rest : rs[k] = Tried
      BY <1>2, <1>3, <1>6, <1>7, <1>10, <3>1 DEF last, Refused
    <3>3. Rest # {}
      BY <1>2, <3>1
    <3>4. call' = [phase |-> "apply", todo |-> Rest]
      BY <1>4, <1>10, <2>3 DEF Enter, Rest
    <3>5. PolicyTypeOK'
      BY <1>1, <1>5, <1>7, <2>1, <3>4 DEF PolicyInv, PolicyTypeOK, ResultRecords, Phases
    <3>6. ApplyingTheRest'
      BY <1>1, <1>7, <2>1, <3>1, <3>2, <3>3, <3>4, ResultsDiffer DEF ApplyingTheRest, Hold
    <3>7. call'.phase = "apply"
      BY <3>4
    <3> QED
      BY <3>5, <3>6, <3>7, PhaseTells DEF PolicyInv
  <2> QED
    BY <1>1, <2>2, <2>3
<1> QED
  BY <1>8, <1>9, <1>10

-----------------------------------------------------------------------------
(* A real apply. *)

LEMMA ApplyInv ==
  ASSUME PolicyInv, NEW outcome \in PatchOutcomes, ApplyNext(outcome)
  PROVE  PolicyInv'
<1> DEFINE i  == First(call.todo)
           rs == [results EXCEPT ![i].apply = IF outcome = "ok" THEN "success" ELSE "failed"]
           last == call.todo = {i}
<1>1. UNCHANGED manifest /\ call.phase \in {"templateApply", "apply"}
  BY DEF ApplyNext
<1>2. call.todo \subseteq DOMAIN manifest /\ i \in call.todo
  <2>1. call.todo # {} /\ call.todo \subseteq DOMAIN manifest
    BY <1>1 DEF PolicyInv, PolicyTypeOK, Progress, ApplyingTemplates, ApplyingTheRest
  <2> QED
    BY <2>1, FirstIsIn, PositionsAreNat DEF PolicyInv
<1>3. results[i] = Tried
  BY <1>1, <1>2 DEF PolicyInv, Progress, ApplyingTemplates, ApplyingTheRest, Hold
<1>4. /\ DOMAIN results = DOMAIN manifest /\ DOMAIN rs = DOMAIN manifest
      /\ rs[i] \in {Applied, NotApplied}
      /\ rs[i] = Applied => outcome = "ok"
      /\ \A j \in DOMAIN manifest : j # i => rs[j] = results[j]
  BY <1>2, <1>3 DEF PolicyInv, PolicyTypeOK, Tried, Applied, NotApplied
<1>5. /\ results' = rs
      /\ inCluster' = IF outcome = "refused" THEN inCluster ELSE inCluster \cup {i}
      /\ \/ ~last /\ Enter(call.phase, call.todo \ {i})
         \/ last /\ Failed(rs) /\ AnswerWith("apply_failed")
         \/ last /\ ~Failed(rs) /\
               IF call.phase = "templateApply" THEN Enter("wait", Constraints)
               ELSE AnswerWith("applied")
  BY DEF ApplyNext
<1> HIDE DEF i, rs, last
<1>6. /\ rs \in [DOMAIN manifest -> ResultRecords]
      /\ inCluster' \in SUBSET DOMAIN manifest
      /\ inCluster \subseteq inCluster' /\ inCluster' \subseteq inCluster \cup {i}
      /\ rs[i] = Applied => i \in inCluster'
  BY <1>2, <1>4, <1>5, ResultTypes DEF PolicyInv, PolicyTypeOK, ResultRecords, rs
<1>7. Failed(rs) <=> \E j \in DOMAIN manifest : "failed" \in {rs[j].dryRun, rs[j].apply}
  BY <1>4 DEF Failed
<1>8. /\ Ahead' = Ahead /\ Rest' = Rest
      /\ Ahead \cup Rest = DOMAIN manifest /\ Ahead \cap Rest = {}
      /\ Constraints \subseteq Rest
      /\ Constraints' = Constraints /\ Templates' = Templates
      /\ Constraints # {} => Ahead = Templates
      /\ Ahead # {} => Constraints # {}
  BY <1>1, TwoParts, PositionsStay DEF PolicyInv, Ahead
<1>9. CASE call.phase = "templateApply"
  <2>1. /\ call.todo \subseteq Ahead /\ inCluster \subseteq Ahead \ call.todo
        /\ \A j \in Rest : results[j] = Untried
        /\ \A j \in call.todo : results[j] = Tried
        /\ \A j \in Ahead \ call.todo : results[j] \in {Applied, NotApplied}
        /\ \A j \in Ahead : results[j] = Applied => j \in inCluster
    BY <1>9 DEF PolicyInv, Progress, ApplyingTemplates, Hold
  <2>2. /\ inCluster' \subseteq Ahead \ (call.todo \ {i})
        /\ \A j \in Rest : rs[j] = Untried
        /\ \A j \in call.todo \ {i} : rs[j] = Tried
        /\ \A j \in Ahead \ (call.todo \ {i}) : rs[j] \in {Applied, NotApplied}
        /\ \A j \in Ahead : rs[j] = Applied => j \in inCluster'
    BY <1>2, <1>4, <1>6, <1>8, <2>1
  <2>3. CASE ~last
    <3>1. call' = [phase |-> "templateApply", todo |-> call.todo \ {i}] /\ UNCHANGED answer
      BY <1>5, <1>9, <2>3 DEF Enter
    <3>2. PolicyTypeOK'
      BY <1>1, <1>2, <1>5, <1>6, <3>1 DEF PolicyInv, PolicyTypeOK, ResultRecords, Phases
    <3>3. call'.phase = "templateApply" /\ call'.todo = call.todo \ {i} /\ call'.todo # {}
      BY <1>2, <2>3, <3>1 DEF last
    <3>4. ApplyingTemplates'
      BY <1>5, <1>8, <2>1, <2>2, <3>3 DEF ApplyingTemplates, Hold
    <3> QED
      BY <3>2, <3>3, <3>4, PhaseTells DEF PolicyInv
  <2>4. CASE last /\ Failed(rs)
    <3>1. /\ call' = [phase |-> "answered", todo |-> {}]
          /\ answer' = [status |-> "apply_failed", denies |-> FALSE]
      BY <1>5, <2>4 DEF AnswerWith, Respond
    <3>2. PolicyTypeOK'
      BY <1>1, <1>5, <1>6, <3>1 DEF PolicyInv, PolicyTypeOK, ResultRecords, Phases, Answers
    <3>3. PICK j \in Ahead : rs[j] = NotApplied
      BY <1>4, <1>7, <1>8, <2>2, <2>4 DEF last, Applied, Untried
    <3>4. call.todo \ {i} = {}
      BY <2>4 DEF last
    <3>5. AnswerMatchesCluster'
      BY <1>4, <1>5, <1>8, <2>2, <3>1, <3>3, <3>4
      DEF AnswerMatchesCluster, Untried, Applied, NotApplied
    <3> QED
      BY <3>1, <3>2, <3>5, PhaseTells DEF PolicyInv
  <2>5. CASE last /\ ~Failed(rs)
    <3>1. call' = [phase |-> "wait", todo |-> Constraints] /\ UNCHANGED answer
      BY <1>5, <1>9, <2>5 DEF Enter
    <3>2. PolicyTypeOK'
      BY <1>1, <1>5, <1>6, <1>8, <3>1 DEF PolicyInv, PolicyTypeOK, ResultRecords, Phases
    <3>3. \A j \in Ahead : rs[j] = Applied
      BY <1>4, <1>7, <1>8, <2>2, <2>5 DEF last, NotApplied
    <3>4. Ahead # {} /\ inCluster' = Ahead
      BY <1>2, <2>1, <2>2, <3>3
    <3>5. call'.phase = "wait"
      BY <3>1
    <3>6. Waiting'
      BY <1>5, <1>8, <2>2, <3>3, <3>4 DEF Waiting, Hold
    <3> QED
      BY <3>2, <3>5, <3>6, PhaseTells DEF PolicyInv
  <2> QED
    BY <2>3, <2>4, <2>5
<1>10. CASE call.phase = "apply"
  <2>1. /\ call.todo \subseteq Rest /\ Ahead \subseteq inCluster
        /\ inCluster \cap call.todo = {}
        /\ \A j \in Ahead : results[j] = Applied
        /\ \A j \in call.todo : results[j] = Tried
        /\ \A j \in Rest \ call.todo : results[j] \in {Applied, NotApplied}
        /\ \A j \in Rest : results[j] = Applied => j \in inCluster
    BY <1>10 DEF PolicyInv, Progress, ApplyingTheRest, Hold
  <2>2. /\ Ahead \subseteq inCluster' /\ inCluster' \cap (call.todo \ {i}) = {}
        /\ \A j \in Ahead : rs[j] = Applied
        /\ \A j \in call.todo \ {i} : rs[j] = Tried
        /\ \A j \in Rest \ (call.todo \ {i}) : rs[j] \in {Applied, NotApplied}
        /\ \A j \in Rest : rs[j] = Applied => j \in inCluster'
    BY <1>2, <1>4, <1>6, <1>8, <2>1
  <2>3. CASE ~last
    <3>1. call' = [phase |-> "apply", todo |-> call.todo \ {i}] /\ UNCHANGED answer
      BY <1>5, <1>10, <2>3 DEF Enter
    <3>2. PolicyTypeOK'
      BY <1>1, <1>2, <1>5, <1>6, <3>1 DEF PolicyInv, PolicyTypeOK, ResultRecords, Phases
    <3>3. call'.phase = "apply" /\ call'.todo = call.todo \ {i} /\ call'.todo # {}
      BY <1>2, <2>3, <3>1 DEF last
    <3>4. ApplyingTheRest'
      BY <1>5, <1>8, <2>1, <2>2, <3>3 DEF ApplyingTheRest, Hold
    <3> QED
      BY <3>2, <3>3, <3>4, PhaseTells DEF PolicyInv
  <2>4. CASE last
    <3>1. PICK status \in {"apply_failed", "applied"} :
            /\ call' = [phase |-> "answered", todo |-> {}]
            /\ answer' = [status |-> status, denies |-> FALSE]
            /\ status = "applied" <=> ~Failed(rs)
      BY <1>5, <1>10, <2>4 DEF AnswerWith, Respond
    <3>2. PolicyTypeOK'
      BY <1>1, <1>5, <1>6, <3>1 DEF PolicyInv, PolicyTypeOK, ResultRecords, Phases, Answers
    <3>3. \A j \in DOMAIN manifest :
            /\ rs[j] \in {Applied, NotApplied}
            /\ rs[j] = Applied => j \in inCluster'
      BY <1>8, <2>2, <2>4 DEF last
    <3>4. Failed(rs) <=> \E j \in DOMAIN manifest : rs[j].apply # "success"
      BY <1>7, <3>3 DEF Applied, NotApplied
    <3>5. rs # <<>>
      BY <1>2, <1>4
    <3>6. answer'.status = "applied" <=>
            results' # <<>> /\ \A j \in DOMAIN results' : results'[j].apply = "success"
      BY <1>4, <1>5, <3>1, <3>4, <3>5
    <3>7. AnswerMatchesCluster'
      BY <1>4, <1>5, <1>8, <2>2, <3>1, <3>3, <3>6 DEF AnswerMatchesCluster, Applied, NotApplied
    <3> QED
      BY <3>1, <3>2, <3>7, PhaseTells DEF PolicyInv
  <2> QED
    BY <2>3, <2>4
<1> QED
  BY <1>1, <1>9, <1>10

-----------------------------------------------------------------------------
(* The wait for the kinds of the constraints. *)

LEMMA AwaitInv ==
  ASSUME PolicyInv, NEW found \in SUBSET call.todo, NEW timedOut \in BOOLEAN,
         AwaitKinds(found, timedOut)
  PROVE  PolicyInv'
<1>1. UNCHANGED <<manifest, inCluster>> /\ call.phase = "wait"
  BY DEF AwaitKinds
<1>2. /\ Ahead' = Ahead /\ Rest' = Rest
      /\ Ahead \cup Rest = DOMAIN manifest /\ Ahead \cap Rest = {}
      /\ Constraints \subseteq Rest
      /\ Constraints' = Constraints /\ Templates' = Templates
      /\ Ahead # {} => Constraints # {}
  BY <1>1, TwoParts, PositionsStay DEF PolicyInv, Ahead
<1>3. /\ Ahead # {} /\ inCluster = Ahead
      /\ \A j \in Ahead : results[j] = Applied
      /\ \A j \in Rest : results[j] = Untried
  BY <1>1 DEF PolicyInv, Progress, Waiting, Hold
<1>4. CASE Enter("dryRun", DOMAIN manifest \ Ahead) /\ UNCHANGED results
  <2>1. call' = [phase |-> "dryRun", todo |-> Rest] /\ UNCHANGED answer
    BY <1>4 DEF Enter, Rest
  <2>2. PolicyTypeOK'
    BY <1>1, <1>2, <1>4, <2>1 DEF PolicyInv, PolicyTypeOK, Phases
  <2>3. call'.phase = "dryRun" /\ call'.todo = Rest
    BY <2>1
  <2>4. TryingTheRest'
    BY <1>1, <1>2, <1>3, <1>4, <2>3 DEF TryingTheRest, Hold
  <2> QED
    BY <2>2, <2>3, <2>4, PhaseTells DEF PolicyInv
<1>5. CASE Enter("wait", call.todo \ found) /\ UNCHANGED results
  <2>1. call' = [phase |-> "wait", todo |-> call.todo \ found] /\ UNCHANGED answer
    BY <1>5 DEF Enter
  <2>2. PolicyTypeOK'
    BY <1>1, <1>5, <2>1 DEF PolicyInv, PolicyTypeOK, Phases
  <2>3. call'.phase = "wait"
    BY <2>1
  <2>4. Waiting'
    BY <1>1, <1>2, <1>3, <1>5 DEF Waiting, Hold
  <2> QED
    BY <2>2, <2>3, <2>4, PhaseTells DEF PolicyInv
<1>6. CASE /\ AnswerWith("dry_run_failed")
           /\ results' = [j \in DOMAIN results |->
                  IF j \in Constraints THEN [dryRun |-> "failed", apply |-> "skipped"]
                  ELSE results[j]]
  <2>1. /\ call' = [phase |-> "answered", todo |-> {}]
        /\ answer' = [status |-> "dry_run_failed", denies |-> FALSE]
    BY <1>6 DEF AnswerWith, Respond
  <2>2. results \in [DOMAIN manifest -> ResultRecords]
    BY DEF PolicyInv, PolicyTypeOK, ResultRecords
  <2>3. /\ DOMAIN results' = DOMAIN manifest
        /\ \A j \in Constraints : results'[j] = Refused
        /\ \A j \in DOMAIN manifest \ Constraints : results'[j] = results[j]
    BY <1>2, <1>6, <2>2 DEF Refused
  <2>4. PolicyTypeOK'
    <3>1. results' \in [DOMAIN manifest -> ResultRecords]
      BY <1>2, <1>6, <2>2, ResultTypes DEF Refused
    <3> QED
      BY <1>1, <2>1, <3>1 DEF PolicyInv, PolicyTypeOK, ResultRecords, Phases, Answers
  <2>5. PICK j \in Constraints : results'[j] = Refused
    BY <1>2, <1>3, <2>3
  <2>6. AnswerMatchesCluster'
    BY <1>1, <1>2, <1>3, <2>1, <2>3, <2>5
    DEF AnswerMatchesCluster, Applied, Untried, Refused
  <2> QED
    BY <2>1, <2>4, <2>6, PhaseTells DEF PolicyInv
<1> QED
  BY <1>4, <1>5, <1>6 DEF AwaitKinds

-----------------------------------------------------------------------------
LEMMA PolicyAlways == PolicySpec => []PolicyInv
<1>1. PolicyInit => PolicyInv
  <2> SUFFICES ASSUME PolicyInit PROVE PolicyInv
    OBVIOUS
  <2>1. \A S : <<>> \in [1..0 -> S]
    OBVIOUS
  <2>2. \A S : \A f \in [1..0 -> S] : f \in [DOMAIN f -> S] /\ DOMAIN f = {}
    OBVIOUS
  <2>3. DOMAIN manifest = {} /\ manifest \in Manifests
    <3>1. manifest \in [1..0 -> Classes]
      BY <2>1 DEF PolicyInit
    <3>2. 0 \in 0..MaxResources
      BY PolicyApplyAssumption DEF PolicyApplyAssumption
    <3> QED
      BY <2>2, <3>1, <3>2, Zenon DEF Manifests
  <2>4. results \in [DOMAIN manifest -> ResultRecords]
    BY <2>1, <2>2 DEF PolicyInit
  <2>5. PolicyTypeOK
    BY <2>3, <2>4 DEF PolicyInit, PolicyTypeOK, ResultRecords, Phases, Answers
  <2> QED
    BY <2>3, <2>5 DEF PolicyInit, PolicyInv, Progress, BeforeTheTries, TryingTemplates,
       ApplyingTemplates, Waiting, TryingTheRest, ApplyingTheRest, AnswerMatchesCluster, Hold
<1>2. PolicyInv /\ [PolicyNext]_policyVars => PolicyInv'
  <2> SUFFICES ASSUME PolicyInv, [PolicyNext]_policyVars PROVE PolicyInv'
    OBVIOUS
  <2>1. CASE UNCHANGED policyVars
    BY <2>1 DEF policyVars, PolicyInv, PolicyTypeOK, Progress, BeforeTheTries, TryingTemplates,
       ApplyingTemplates, Waiting, TryingTheRest, ApplyingTheRest, AnswerMatchesCluster, Hold,
       Ahead, Rest, Templates, Constraints, Positions
  <2> QED
    BY <2>1, ReceiveInv, ScreenInv, CheckGatekeeperInv, DryRunInv, ApplyInv, AwaitInv
    DEF PolicyNext
<1> QED
  BY <1>1, <1>2, PTL DEF PolicySpec

(* What the user is told is what happened to the cluster, for a manifest   *)
(* of any length and whatever the API server refuses or loses              *)
(* (app/runtime_client.py, apply_policy_manifest).                         *)
THEOREM PolicyAnswersMatch == PolicySpec => []AnswerMatchesCluster
<1>1. PolicyInv => AnswerMatchesCluster
  BY DEF PolicyInv
<1> QED
  BY <1>1, PolicyAlways, PTL

-----------------------------------------------------------------------------
(* GrafanaProvisioning. *)

CallStates == [step: Steps, cluster: Owned \cup {NoCluster}, org: Calls \cup {NoOrg}]
Mappings == [org: Calls \cup {NoOrg}, by: Calls \cup {NoOrg}]

Early == {"idle", "lookUp", "create"}
Inside == {"switch", "findSource", "postSource", "putSource", "dashboards", "member", "save",
           "readBack"}

-----------------------------------------------------------------------------
(* Types, and what the step of a call tells.                               *)

\* A call that is past its look-up has the organisation it works in; one that
\* is to roll back has created it.
StepTells ==
    \A c \in Calls :
        /\ calls[c].step # "idle" => calls[c].cluster \in Owned
        /\ calls[c].step \in Early => calls[c].org = NoOrg
        /\ calls[c].step \in Inside => calls[c].org \in Calls
        /\ calls[c].step = "rollback" => calls[c].org = c

Types == GrafanaTypeOK /\ StepTells

LEMMA StepNames ==
  /\ Early \subseteq Steps /\ Inside \subseteq Steps
  /\ "rollback" \in Steps /\ "done" \in Steps
  BY DEF Early, Inside, Steps

LEMMA MoveOnTypes ==
  ASSUME Types, NEW c \in Calls, NEW step \in Steps, NEW org \in Calls \cup {NoOrg},
         MoveOn(c, step, org), calls[c].cluster \in Owned,
         step \in Early => org = NoOrg,
         step \in Inside => org \in Calls,
         step = "rollback" => org = c
  PROVE  /\ calls' \in [Calls -> CallStates]
         /\ StepTells'
<1>1. calls' \in [Calls -> CallStates]
  BY DEF MoveOn, Types, GrafanaTypeOK, CallStates
<1>2. /\ calls'[c] = [step |-> step, cluster |-> calls[c].cluster, org |-> org]
      /\ \A d \in Calls \ {c} : calls'[d] = calls[d]
  BY DEF MoveOn, Types, GrafanaTypeOK
<1>3. StepTells'
  BY <1>2 DEF Types, StepTells
<1> QED
  BY <1>1, <1>3

\* What an action of the call c, after its start, does to the call: it goes on
\* within its organisation, or, with the organisation it created, to the
\* rollback, or ends.
StepWithin(c) ==
    \/ \E step \in Inside : MoveOn(c, step, calls[c].org)
    \/ calls[c].org = c /\ MoveOn(c, "rollback", c)
    \/ calls[c].org # c /\ MoveOn(c, "done", calls[c].org)

LEMMA RequestWithin ==
  ASSUME Types, NEW c \in Calls, NEW outcome \in Outcomes, NEW step \in Inside,
         Request(c, outcome, step)
  PROVE  /\ StepWithin(c)
         /\ outcome # "refused" => Exists(calls[c].org)
  BY DEF Request, Go, AfterFailure, Created, StepWithin

LEMMA WithinTypes ==
  ASSUME Types, NEW c \in Calls, calls[c].step \in Inside, StepWithin(c)
  PROVE  /\ calls' \in [Calls -> CallStates]
         /\ StepTells'
<1>1. calls[c].cluster \in Owned /\ calls[c].org \in Calls
  BY DEF Types, StepTells, Inside
<1>2. ASSUME NEW step \in Inside, MoveOn(c, step, calls[c].org)
      PROVE  calls' \in [Calls -> CallStates] /\ StepTells'
  <2>1. step \notin Early /\ step # "rollback"
    BY DEF Inside, Early
  <2> QED
    BY <1>1, <1>2, <2>1, StepNames, MoveOnTypes
<1>3. CASE calls[c].org = c /\ MoveOn(c, "rollback", c)
  BY <1>1, <1>3, StepNames, MoveOnTypes DEF Inside, Early
<1>4. CASE MoveOn(c, "done", calls[c].org)
  BY <1>1, <1>4, StepNames, MoveOnTypes DEF Inside, Early
<1> QED
  BY <1>2, <1>3, <1>4 DEF StepWithin

\* What each action does, as far as the call and the tables are concerned.
Starts(c) ==
    /\ calls[c].step = "idle"
    /\ \E cluster \in Owned :
          calls' = [calls EXCEPT ![c] = [step |-> "lookUp", cluster |-> cluster, org |-> NoOrg]]
    /\ UNCHANGED <<orgs, datasources, mappings, abandoned, rolledBack, forgotten, unread>>

LooksUp(c) ==
    /\ calls[c].step = "lookUp"
    /\ \/ MoveOn(c, "create", NoOrg) \/ MoveOn(c, "done", NoOrg)
       \/ \E o \in OrgsOf(Owner(c)) : MoveOn(c, "switch", o.id)
    /\ UNCHANGED <<orgs, datasources, mappings, abandoned, rolledBack, forgotten, unread>>

Creates(c) ==
    /\ calls[c].step = "create"
    /\ OrgsOf(Owner(c)) = {}
    /\ orgs' = orgs \cup {[id |-> c, owner |-> Owner(c)]}
    /\ \/ MoveOn(c, "switch", c) /\ abandoned' = abandoned
       \/ MoveOn(c, "done", NoOrg) /\ abandoned' = abandoned \cup {c}
    /\ UNCHANGED <<datasources, mappings, rolledBack, forgotten, unread>>

GivesUp(c) ==
    /\ calls[c].step = "create"
    /\ MoveOn(c, "done", NoOrg)
    /\ UNCHANGED <<orgs, datasources, mappings, abandoned, rolledBack, forgotten, unread>>

Works(c) ==
    /\ calls[c].step \in Inside \ {"readBack"}
    /\ StepWithin(c)
    /\ \/ datasources' = datasources
       \/ /\ Exists(calls[c].org)
          /\ datasources' = datasources \cup {[org |-> calls[c].org, cluster |-> calls[c].cluster]}
    /\ UNCHANGED <<orgs, mappings, abandoned, rolledBack, forgotten, unread>>

Saves(c) ==
    /\ calls[c].step = "save"
    /\ mappings' = [mappings EXCEPT ![calls[c].cluster] = [org |-> calls[c].org, by |-> c]]
    /\ MoveOn(c, "readBack", calls[c].org)
    /\ UNCHANGED <<orgs, datasources, abandoned, rolledBack, forgotten, unread>>

\* Only the creator leaves a mark when it cannot read its mapping.
Doubts(c) ==
    /\ calls[c].step = "readBack"
    /\ \/ calls[c].org = c /\ MoveOn(c, "rollback", c) /\ unread' = unread \cup {c}
       \/ calls[c].org # c /\ MoveOn(c, "done", calls[c].org) /\ unread' = unread
    /\ UNCHANGED <<orgs, datasources, mappings, abandoned, rolledBack, forgotten>>

Ends(c) ==
    /\ calls[c].step = "readBack"
    /\ mappings[calls[c].cluster].org # NoOrg
    /\ MoveOn(c, "done", calls[c].org)
    /\ UNCHANGED <<orgs, datasources, mappings, abandoned, rolledBack, forgotten, unread>>

Keeps(c) ==
    /\ calls[c].step = "rollback"
    /\ MoveOn(c, "done", c)
    /\ abandoned' = abandoned \cup {c}
    /\ UNCHANGED <<orgs, datasources, mappings, rolledBack, forgotten, unread>>

RollsBack(c) ==
    /\ calls[c].step = "rollback"
    /\ MoveOn(c, "done", c)
    /\ orgs' = {o \in orgs : o.id # c}
    /\ datasources' = {d \in datasources : d.org # c}
    /\ rolledBack' = rolledBack \cup {[org |-> c, by |-> c]}
    /\ UNCHANGED <<mappings, abandoned, forgotten, unread>>

Step(c) ==
    \/ Starts(c) \/ LooksUp(c) \/ Creates(c) \/ GivesUp(c) \/ Works(c) \/ Saves(c)
    \/ Doubts(c) \/ Ends(c) \/ Keeps(c) \/ RollsBack(c)

LEMMA NextCases ==
  ASSUME Types, GrafanaNext, \A user \in Owners : ~RemoveMappings(user)
  PROVE  \E c \in Calls : Step(c)
<1> USE DEF Step
<1>1. PICK c \in Calls :
        \/ \E cluster \in Owned : StartCall(c, cluster)
        \/ \E ok \in BOOLEAN :
              \/ LookUpOrg(c, ok) \/ FindDatasource(c, ok)
              \/ ImportDashboards(c, ok) \/ AddViewer(c, ok) \/ SaveMapping(c, ok)
              \/ ReadBack(c, ok)
        \/ \E outcome \in Outcomes :
              \/ CreateOrg(c, outcome) \/ SwitchOrg(c, outcome)
              \/ WriteDatasource(c, outcome) \/ RollBack(c, outcome)
  BY DEF GrafanaNext
<1>2. /\ calls[c].step \in Early => calls[c].org = NoOrg
      /\ calls[c].step = "rollback" => calls[c].org = c
  BY DEF Types, StepTells
<1>3. ASSUME NEW cluster \in Owned, StartCall(c, cluster) PROVE Starts(c)
  BY <1>3 DEF StartCall, At, Starts
<1>4. ASSUME NEW ok \in BOOLEAN, LookUpOrg(c, ok) PROVE LooksUp(c)
  BY <1>2, <1>4 DEF LookUpOrg, At, Go, LooksUp, Early
<1>5. ASSUME NEW outcome \in Outcomes, CreateOrg(c, outcome) PROVE Creates(c) \/ GivesUp(c)
  <2>1. CASE outcome = "refused"
    BY <1>2, <1>5, <2>1 DEF CreateOrg, At, Go, GivesUp, Early
  <2>2. CASE outcome = "ok"
    BY <1>2, <1>5, <2>2 DEF CreateOrg, At, Go, Creates, Early
  <2>3. CASE outcome = "lost"
    BY <1>2, <1>5, <2>3 DEF CreateOrg, At, Go, Creates, Early
  <2> QED
    BY <2>1, <2>2, <2>3 DEF Outcomes
<1>6. ASSUME NEW outcome \in Outcomes, SwitchOrg(c, outcome) PROVE Works(c)
  BY <1>6, RequestWithin DEF SwitchOrg, At, Works, Inside
<1>7. ASSUME NEW ok \in BOOLEAN,
             FindDatasource(c, ok) \/ ImportDashboards(c, ok) \/ AddViewer(c, ok)
      PROVE  Works(c)
  <2>1. "ok" \in Outcomes /\ "refused" \in Outcomes
    BY DEF Outcomes
  <2>2. CASE FindDatasource(c, ok)
    BY <2>1, <2>2, RequestWithin DEF FindDatasource, At, Works, Inside
  <2>3. CASE ImportDashboards(c, ok)
    BY <2>1, <2>3, RequestWithin DEF ImportDashboards, At, Works, Inside
  <2>4. CASE AddViewer(c, ok)
    BY <2>1, <2>4, RequestWithin DEF AddViewer, At, Works, Inside
  <2> QED
    BY <1>7, <2>2, <2>3, <2>4
<1>8. ASSUME NEW outcome \in Outcomes, WriteDatasource(c, outcome) PROVE Works(c)
  <2>1. StepWithin(c) /\ (outcome # "refused" => Exists(calls[c].org))
    BY <1>8, RequestWithin DEF WriteDatasource, Inside
  <2> QED
    BY <1>8, <2>1 DEF WriteDatasource, Source, TargetOrg, Works, Inside
<1>9. ASSUME NEW ok \in BOOLEAN, SaveMapping(c, ok) PROVE Works(c) \/ Saves(c)
  <2>1. CASE ok
    BY <1>9, <2>1 DEF SaveMapping, At, Go, Saves
  <2>2. CASE ~ok
    BY <1>9, <2>2 DEF SaveMapping, At, Go, AfterFailure, Created, StepWithin, Works, Inside
  <2> QED
    BY <2>1, <2>2
<1>10. ASSUME NEW outcome \in Outcomes, RollBack(c, outcome) PROVE Keeps(c) \/ RollsBack(c)
  BY <1>2, <1>10 DEF RollBack, At, Go, Keeps, RollsBack
<1>11. ASSUME NEW ok \in BOOLEAN, ReadBack(c, ok) PROVE Doubts(c) \/ Ends(c)
  BY <1>2, <1>11 DEF ReadBack, At, Go, AfterFailure, Created, Doubts, Ends
<1> QED
  BY <1>1, <1>3, <1>4, <1>5, <1>6, <1>7, <1>8, <1>9, <1>10, <1>11

LEMMA MappingType ==
  ASSUME NEW org \in Calls, NEW by \in Calls
  PROVE  [org |-> org, by |-> by] \in Mappings
  BY DEF Mappings

\* Deleting an account takes the rows of its user and nothing else.
LEMMA RemovalEffects ==
  ASSUME Types, NEW user \in Owners, RemoveMappings(user)
  PROVE  /\ Types'
         /\ \A k \in Owned : mappings'[k] = IF OwnerOf[k] = user THEN NoMapping ELSE mappings[k]
         /\ UNCHANGED <<orgs, datasources, calls, abandoned, rolledBack, unread>>
         /\ forgotten' = forgotten \cup {o.id : o \in OrgsOf(user)}
<1>1. /\ mappings' = [k \in Owned |-> IF OwnerOf[k] = user THEN NoMapping ELSE mappings[k]]
      /\ UNCHANGED <<orgs, currentOrg, datasources, calls, abandoned, rolledBack, unread>>
      /\ forgotten' = forgotten \cup {o.id : o \in OrgsOf(user)}
  BY DEF RemoveMappings
<1>2. NoMapping \in Mappings /\ mappings \in [Owned -> Mappings]
  BY DEF NoMapping, Mappings, Types, GrafanaTypeOK
<1>3. mappings' \in [Owned -> Mappings]
  BY <1>1, <1>2
<1>4. forgotten' \subseteq Calls
  BY <1>1 DEF OrgsOf, Types, GrafanaTypeOK
<1>5. Types'
  BY <1>1, <1>3, <1>4 DEF Types, GrafanaTypeOK, StepTells, Mappings
<1> QED
  BY <1>1, <1>5

LEMMA InitTypes == GrafanaInit => Types
<1> SUFFICES ASSUME GrafanaInit PROVE Types
  OBVIOUS
<1>1. GrafanaTypeOK
  BY DEF GrafanaInit, GrafanaTypeOK, NoMapping, Steps
<1>2. StepTells
  BY DEF GrafanaInit, StepTells, Early, Inside
<1> QED
  BY <1>1, <1>2 DEF Types

LEMMA CallsTypes ==
  ASSUME Types, NEW c \in Calls, Step(c)
  PROVE  calls' \in [Calls -> CallStates] /\ StepTells'
<1> USE StepNames DEF Early, Inside
<1>1. /\ calls[c].step # "idle" => calls[c].cluster \in Owned
      /\ calls[c].org \in Calls \cup {NoOrg}
      /\ calls[c].step = "save" => calls[c].org \in Calls
  BY DEF Types, StepTells, GrafanaTypeOK
<1>2. CASE Starts(c)
  <2>1. PICK cluster \in Owned :
          calls' = [calls EXCEPT ![c] = [step |-> "lookUp", cluster |-> cluster, org |-> NoOrg]]
    BY <1>2 DEF Starts
  <2>2. calls' \in [Calls -> CallStates]
    BY <2>1 DEF Types, GrafanaTypeOK, CallStates
  <2>3. StepTells'
    BY <2>1 DEF Types, GrafanaTypeOK, StepTells
  <2> QED
    BY <2>2, <2>3
<1>3. CASE LooksUp(c)
  <2>1. ASSUME NEW o \in OrgsOf(Owner(c)), MoveOn(c, "switch", o.id)
        PROVE  calls' \in [Calls -> CallStates] /\ StepTells'
    <3>1. o.id \in Calls
      BY DEF OrgsOf, Types, GrafanaTypeOK
    <3> QED
      BY <1>1, <1>3, <2>1, <3>1, MoveOnTypes DEF LooksUp
  <2>2. CASE MoveOn(c, "create", NoOrg)
    BY <1>1, <1>3, <2>2, MoveOnTypes DEF LooksUp
  <2>3. CASE MoveOn(c, "done", NoOrg)
    BY <1>1, <1>3, <2>3, MoveOnTypes DEF LooksUp
  <2> QED
    BY <1>3, <2>1, <2>2, <2>3 DEF LooksUp
<1>4. CASE Creates(c) \/ GivesUp(c)
  <2>1. CASE MoveOn(c, "switch", c)
    BY <1>1, <1>4, <2>1, MoveOnTypes DEF Creates, GivesUp
  <2>2. CASE MoveOn(c, "done", NoOrg)
    BY <1>1, <1>4, <2>2, MoveOnTypes DEF Creates, GivesUp
  <2> QED
    BY <1>4, <2>1, <2>2 DEF Creates, GivesUp
<1>5. CASE Works(c)
  BY <1>5, WithinTypes DEF Works
<1>6. CASE Saves(c)
  BY <1>1, <1>6, MoveOnTypes DEF Saves
<1>8. CASE Doubts(c) \/ Ends(c)
  BY <1>1, <1>8, MoveOnTypes DEF Doubts, Ends
<1>7. CASE Keeps(c) \/ RollsBack(c)
  BY <1>1, <1>7, MoveOnTypes DEF Keeps, RollsBack
<1> QED
  BY <1>2, <1>3, <1>4, <1>5, <1>6, <1>7, <1>8 DEF Step

\* The current organisation is nobody's business but the administrator's.
LEMMA CurrentOrgType ==
  ASSUME Types, GrafanaNext
  PROVE  currentOrg' \in Calls \cup {NoOrg}
<1>1. currentOrg' = currentOrg \/ \E c \in Calls : currentOrg' = calls[c].org
  BY DEF GrafanaNext, StartCall, LookUpOrg, FindDatasource, ImportDashboards, AddViewer,
     SaveMapping, ReadBack, CreateOrg, SwitchOrg, WriteDatasource, RollBack, RemoveMappings
<1> QED
  BY <1>1 DEF Types, GrafanaTypeOK

LEMMA NextTypes ==
  ASSUME Types, GrafanaNext, \A user \in Owners : ~RemoveMappings(user)
  PROVE  Types'
<1>1. PICK c \in Calls : Step(c)
  BY NextCases
<1>2. calls' \in [Calls -> CallStates] /\ StepTells'
  BY <1>1, CallsTypes
<1>3. currentOrg' \in Calls \cup {NoOrg}
  BY CurrentOrgType
<1>4. calls[c].step # "idle" => calls[c].cluster \in Owned
  BY DEF Types, StepTells
<1>5. orgs' \subseteq [id: Calls, owner: Owners]
  BY <1>1, <1>4
  DEF Step, Starts, LooksUp, Creates, GivesUp, Works, Saves, Doubts, Ends, Keeps, RollsBack, Types,
      GrafanaTypeOK, Owner, Owners
<1>6. datasources' \subseteq [org: Calls, cluster: Owned]
  <2>1. calls[c].step \in Inside => calls[c].cluster \in Owned /\ calls[c].org \in Calls
    BY DEF Types, StepTells, Inside
  <2> QED
    BY <1>1, <2>1
    DEF Step, Starts, LooksUp, Creates, GivesUp, Works, Saves,
        Doubts, Ends, Keeps, RollsBack, Types,
        GrafanaTypeOK
<1>7. mappings' \in [Owned -> Mappings]
  <2>1. mappings \in [Owned -> Mappings]
    BY DEF Types, GrafanaTypeOK, Mappings
  <2>2. calls[c].step = "save" => calls[c].org \in Calls
    BY DEF Types, StepTells, Inside
  <2>3. CASE Saves(c)
    BY <1>4, <2>1, <2>2, <2>3, MappingType DEF Saves
  <2> QED
    BY <1>1, <2>1, <2>3
    DEF Step, Starts, LooksUp, Creates, GivesUp, Works, Doubts, Ends, Keeps, RollsBack
<1>8. /\ abandoned' \subseteq Calls /\ rolledBack' \subseteq [org: Calls, by: Calls]
      /\ forgotten' \subseteq Calls /\ unread' \subseteq Calls
  BY <1>1
  DEF Step, Starts, LooksUp, Creates, GivesUp, Works, Saves, Doubts, Ends, Keeps, RollsBack, Types,
      GrafanaTypeOK
<1> QED
  BY <1>2, <1>3, <1>5, <1>6, <1>7, <1>8 DEF Types, GrafanaTypeOK, CallStates, Mappings

-----------------------------------------------------------------------------
(* Whose the organisations are.  An organisation is known by the call that *)
(* created it, and that call is for a cluster of its owner.                *)

OrgOwner(org) == OwnerOf[calls[org].cluster]

\* The organisation has been created, by a call for a cluster of the user u.
OrgFor(org, u) == org \in Calls /\ calls[org].step \notin Early /\ OrgOwner(org) = u

\* The same of the next state, also for an organisation read there.
OrgForNext(org, u) ==
    org \in Calls /\ calls'[org].step \notin Early /\ OwnerOf[calls'[org].cluster] = u

OrgsOwned == \A o \in orgs : OrgFor(o.id, o.owner)
CallsOwned == \A c \in Calls : calls[c].org # NoOrg => OrgFor(calls[c].org, Owner(c))
MappingsOwned == \A k \in Owned : mappings[k].org # NoOrg => OrgFor(mappings[k].org, OwnerOf[k])
SourcesOwned ==
    \A d \in datasources : OrgFor(d.org, OwnerOf[d.cluster]) /\ Exists(d.org)

OwnedInv == OrgsOwned /\ CallsOwned /\ MappingsOwned /\ SourcesOwned

\* No call changes its cluster after its start, or goes back before its look-up.
LEMMA OrgForStays ==
  ASSUME Types, NEW c \in Calls, Step(c), NEW org, NEW u, OrgFor(org, u)
  PROVE  OrgForNext(org, u)
<1>1. calls'[org].cluster = calls[org].cluster /\ calls'[org].step \notin Early
  <2>1. CASE org # c
    BY <2>1 DEF Step, Starts, LooksUp, Creates, GivesUp, Works, Saves,
       Doubts, Ends, Keeps, RollsBack,
       StepWithin, MoveOn, OrgFor, Types, GrafanaTypeOK
  <2>2. CASE org = c
    <3>1. calls[c].step \notin Early /\ c \in Calls
      BY <2>2 DEF OrgFor
    <3>2. \E step \in Inside \cup {"rollback", "done"} : \E x : MoveOn(c, step, x)
      <4>1. CASE Doubts(c) \/ Ends(c)
        BY <4>1 DEF Doubts, Ends
      <4>2. CASE Works(c)
        BY <4>2 DEF Works, StepWithin
      <4>3. CASE Saves(c)
        BY <4>3 DEF Saves, Inside
      <4>4. CASE Keeps(c) \/ RollsBack(c)
        BY <4>4 DEF Keeps, RollsBack
      <4> QED
        BY <3>1, <4>1, <4>2, <4>3, <4>4 DEF Step, Starts, LooksUp, Creates, GivesUp, Early
    <3>3. \A step \in Inside \cup {"rollback", "done"} : step \notin Early
      BY DEF Inside, Early
    <3> QED
      BY <2>2, <3>2, <3>3 DEF MoveOn, Types, GrafanaTypeOK
  <2> QED
    BY <2>1, <2>2
<1> QED
  BY <1>1 DEF OrgFor, OrgForNext, OrgOwner

\* The call keeps its cluster, and has the organisation it had, or created, or
\* found by its owner.
LEMMA CallOrgs ==
  ASSUME Types, NEW c \in Calls, Step(c), NEW d \in Calls, calls'[d].org # NoOrg
  PROVE  /\ calls'[d].cluster = calls[d].cluster
         /\ \/ calls'[d].org = calls[d].org
            \/ d = c /\ calls'[d].org = c /\ Creates(c)
            \/ d = c /\ \E o \in OrgsOf(Owner(c)) : calls'[d].org = o.id
<1>1. CASE d # c
  BY <1>1 DEF Step, Starts, LooksUp, Creates, GivesUp, Works, Saves, Doubts, Ends, Keeps, RollsBack,
     StepWithin, MoveOn, Types, GrafanaTypeOK
<1>2. CASE d = c
  <2>1. CASE Starts(c)
    BY <1>2, <2>1 DEF Starts, Types, GrafanaTypeOK
  <2>2. ASSUME NEW step, NEW org, MoveOn(c, step, org)
        PROVE  calls'[c].cluster = calls[c].cluster /\ calls'[c].org = org
    BY <2>2 DEF MoveOn, Types, GrafanaTypeOK
  <2>3. CASE LooksUp(c)
    BY <1>2, <2>2, <2>3 DEF LooksUp
  <2>4. CASE Creates(c)
    BY <1>2, <2>2, <2>4 DEF Creates
  <2>5. CASE GivesUp(c)
    BY <1>2, <2>2, <2>5 DEF GivesUp
  <2>6. CASE Works(c)
    BY <1>2, <2>2, <2>6 DEF Works, StepWithin
  <2>7. CASE Saves(c)
    BY <1>2, <2>2, <2>7 DEF Saves
  <2>9. CASE Doubts(c) \/ Ends(c)
    BY <1>2, <2>2, <2>9 DEF Doubts, Ends
  <2>8. CASE Keeps(c) \/ RollsBack(c)
    BY <1>2, <2>2, <2>8 DEF Keeps, RollsBack, Types, StepTells
  <2> QED
    BY <2>1, <2>3, <2>4, <2>5, <2>6, <2>7, <2>8, <2>9 DEF Step
<1> QED
  BY <1>1, <1>2

LEMMA CreatedFor ==
  ASSUME Types, NEW c \in Calls, Creates(c)
  PROVE  OrgForNext(c, Owner(c))
<1>1. \E step \in {"switch", "done"} : \E org : MoveOn(c, step, org)
  BY DEF Creates
<1>2. calls'[c].step \notin Early /\ calls'[c].cluster = calls[c].cluster
  BY <1>1 DEF MoveOn, Early, Types, GrafanaTypeOK
<1> QED
  BY <1>2 DEF OrgForNext, Owner

LEMMA OwnedStep ==
  ASSUME Types, OwnedInv, NEW c \in Calls, Step(c)
  PROVE  OwnedInv'
<1>1. OrgsOwned'
  <2>1. ASSUME NEW o \in orgs' PROVE OrgForNext(o.id, o.owner)
    <3>1. CASE o \in orgs
      BY <3>1, OrgForStays DEF OwnedInv, OrgsOwned
    <3>2. CASE o \notin orgs
      <4>1. Creates(c) /\ o = [id |-> c, owner |-> Owner(c)]
        BY <3>2 DEF Step, Starts, LooksUp, Creates, GivesUp, Works, Saves,
           Doubts, Ends, Keeps, RollsBack
      <4> QED
        BY <4>1, CreatedFor
    <3> QED
      BY <3>1, <3>2
  <2> QED
    BY <2>1 DEF OrgsOwned, OrgFor, OrgForNext, OrgOwner
<1>2. CallsOwned'
  <2>1. ASSUME NEW d \in Calls, calls'[d].org # NoOrg
        PROVE  OrgForNext(calls'[d].org, OwnerOf[calls'[d].cluster])
    <3>1. calls'[d].cluster = calls[d].cluster
      BY <2>1, CallOrgs
    <3>2. CASE calls'[d].org = calls[d].org
      <4>1. OrgFor(calls[d].org, Owner(d))
        BY <2>1, <3>2 DEF OwnedInv, CallsOwned
      <4> QED
        BY <3>1, <3>2, <4>1, OrgForStays DEF Owner
    <3>3. CASE d = c /\ calls'[d].org = c /\ Creates(c)
      BY <3>1, <3>3, CreatedFor DEF Owner
    <3>4. ASSUME d = c, NEW o \in OrgsOf(Owner(c)), calls'[d].org = o.id
          PROVE  OrgForNext(calls'[d].org, OwnerOf[calls'[d].cluster])
      <4>1. OrgFor(o.id, Owner(c))
        BY DEF OrgsOf, OwnedInv, OrgsOwned
      <4> QED
        BY <3>1, <3>4, <4>1, OrgForStays DEF Owner
    <3> QED
      BY <2>1, <3>2, <3>3, <3>4, CallOrgs
  <2> QED
    BY <2>1 DEF CallsOwned, Owner, OrgFor, OrgForNext, OrgOwner
<1>3. MappingsOwned'
  <2>1. ASSUME NEW k \in Owned, mappings'[k].org # NoOrg
        PROVE  OrgForNext(mappings'[k].org, OwnerOf[k])
    <3>1. CASE mappings'[k] = mappings[k]
      BY <2>1, <3>1, OrgForStays DEF OwnedInv, MappingsOwned
    <3>2. CASE mappings'[k] # mappings[k]
      <4>1. Saves(c)
        BY <3>2 DEF Step, Starts, LooksUp, Creates, GivesUp, Works, Doubts, Ends, Keeps,
           RollsBack
      <4>2. k = calls[c].cluster /\ mappings'[k].org = calls[c].org
        BY <3>2, <4>1 DEF Saves, Types, GrafanaTypeOK
      <4>3. OrgFor(calls[c].org, OwnerOf[k])
        BY <2>1, <4>2 DEF OwnedInv, CallsOwned, Owner
      <4> QED
        BY <4>2, <4>3, OrgForStays
    <3> QED
      BY <3>1, <3>2
  <2> QED
    BY <2>1 DEF MappingsOwned, OrgFor, OrgForNext, OrgOwner
<1>4. SourcesOwned'
  <2>1. ASSUME NEW d \in datasources'
        PROVE  OrgFor(d.org, OwnerOf[d.cluster]) /\ \E o \in orgs' : o.id = d.org
    <3>1. CASE RollsBack(c)
      BY <2>1, <3>1 DEF RollsBack, Exists, OwnedInv, SourcesOwned
    <3>2. CASE ~RollsBack(c)
      <4>1. orgs \subseteq orgs'
        BY <3>2 DEF Step, Starts, LooksUp, Creates, GivesUp, Works, Saves, Doubts, Ends, Keeps
      <4>2. CASE d \in datasources
        BY <4>1, <4>2 DEF Exists, OwnedInv, SourcesOwned
      <4>3. CASE d \notin datasources
        <5>1. /\ calls[c].step \in Inside /\ Exists(calls[c].org)
              /\ d = [org |-> calls[c].org, cluster |-> calls[c].cluster]
          BY <2>1, <3>2, <4>3 DEF Step, Starts, LooksUp, Creates, GivesUp, Works, Saves,
             Doubts, Ends, Keeps
        <5>2. calls[c].org \in Calls
          BY <5>1 DEF Types, StepTells
        <5>3. calls[c].org # NoOrg
          BY <5>2, ProvisioningAssumption DEF ProvisioningAssumption
        <5>4. OrgFor(calls[c].org, Owner(c))
          BY <5>3 DEF OwnedInv, CallsOwned
        <5> QED
          BY <4>1, <5>1, <5>4 DEF Exists, Owner
      <4> QED
        BY <4>2, <4>3
    <3> QED
      BY <3>1, <3>2
  <2>2. ASSUME NEW d \in datasources' PROVE OrgForNext(d.org, OwnerOf[d.cluster])
    BY <2>1, OrgForStays
  <2> QED
    BY <2>1, <2>2 DEF SourcesOwned, OrgFor, OrgForNext, OrgOwner, Exists
<1> QED
  BY <1>1, <1>2, <1>3, <1>4 DEF OwnedInv

LEMMA OwnedRemoval ==
  ASSUME Types, OwnedInv, NEW user \in Owners, RemoveMappings(user)
  PROVE  OwnedInv'
<1>1. /\ \A k \in Owned : mappings'[k].org = NoOrg \/ mappings'[k] = mappings[k]
      /\ UNCHANGED <<orgs, datasources, calls>>
  BY RemovalEffects DEF NoMapping
<1> QED
  BY <1>1 DEF OwnedInv, OrgsOwned, CallsOwned, MappingsOwned, SourcesOwned, OrgFor, OrgOwner,
     Owner, Exists

LEMMA OwnedAlways == GrafanaSpec => [](Types /\ OwnedInv)
<1>1. GrafanaInit => Types /\ OwnedInv
  <2>1. ASSUME GrafanaInit PROVE OwnedInv
    BY <2>1 DEF GrafanaInit, NoMapping, OwnedInv, OrgsOwned, CallsOwned, MappingsOwned, SourcesOwned
  <2> QED
    BY <2>1, InitTypes
<1>2. Types /\ OwnedInv /\ [GrafanaNext]_grafanaVars => (Types /\ OwnedInv)'
  <2>1. ASSUME Types, OwnedInv, GrafanaNext PROVE (Types /\ OwnedInv)'
    BY <2>1, NextCases, NextTypes, OwnedStep, RemovalEffects, OwnedRemoval
  <2>2. ASSUME Types, OwnedInv, UNCHANGED grafanaVars PROVE (Types /\ OwnedInv)'
    BY <2>2 DEF grafanaVars, Types, GrafanaTypeOK, StepTells, OwnedInv, OrgsOwned, CallsOwned,
       MappingsOwned, SourcesOwned, OrgFor, OrgOwner, Owner, Exists
  <2> QED
    BY <2>1, <2>2
<1> QED
  BY <1>1, <1>2, PTL DEF GrafanaSpec

\* Whatever the calls of different users do in whatever order, and whichever
\* request fails, no data source and no mapping is ever in an organisation of
\* another user (app/grafana/provisioning.py, provision_user).
THEOREM TenantsAreApart == GrafanaSpec => []TenantsStayApart
<1>1. Types /\ OwnedInv => TenantsStayApart
  <2> SUFFICES ASSUME Types, OwnedInv PROVE TenantsStayApart
    OBVIOUS
  <2>1. ASSUME NEW d \in datasources
        PROVE  \E o \in orgs : o.id = d.org /\ o.owner = OwnerOf[d.cluster]
    BY <2>1 DEF OwnedInv, SourcesOwned, OrgsOwned, OrgFor, Exists
  <2>2. ASSUME NEW k \in Owned, NEW o \in orgs, mappings[k].org = o.id
        PROVE  o.owner = OwnerOf[k]
    <3>1. o.id # NoOrg
      BY ProvisioningAssumption DEF ProvisioningAssumption, Types, GrafanaTypeOK
    <3> QED
      BY <2>2, <3>1 DEF OwnedInv, MappingsOwned, OrgsOwned, OrgFor
  <2> QED
    BY <2>1, <2>2 DEF TenantsStayApart
<1> QED
  BY <1>1, OwnedAlways, PTL

-----------------------------------------------------------------------------
(* What becomes of the organisations.                                      *)

\* A call finds the organisation of its owner, if there is one, before it
\* creates one: an owner never has two.
OneOrgEach == \A o \in orgs, p \in orgs : o.owner = p.owner => o = p

\* An organisation a call or a mapping still names is there, or was rolled back
\* by the call that created it.
RolledBackBySelf(org) == [org |-> org, by |-> org] \in rolledBack
CallsNameReal == \A c \in Calls : calls[c].org # NoOrg => Exists(calls[c].org) \/ RolledBackBySelf(calls[c].org)
MappingsNameReal ==
    \A k \in Owned :
        mappings[k].org # NoOrg => Exists(mappings[k].org) \/ RolledBackBySelf(mappings[k].org)

\* A call that saved a mapping to the organisation it created, and did not fail
\* to read it, has kept it; one that is not over has it still.
Retains(c) == calls[c].org = c /\ calls[c].step \in {"readBack", "done"}
CreatorsKeep ==
    /\ \A c \in Calls : calls[c].org = c /\ calls[c].step # "done" => Exists(c)
    /\ \A k \in Owned :
          mappings[k].org # NoOrg /\ mappings[k].by = mappings[k].org =>
              \/ mappings[k].org \in unread
              \/ Exists(mappings[k].org) /\ Retains(mappings[k].org)

\* As OrgsAreAccountedFor, where of the calls only the creator counts.
Settled(o) ==
    \/ \E k \in Owned : mappings[k].org = o.id
    \/ calls[o.id].org = o.id /\ calls[o.id].step # "done"
    \/ \E k \in Owned : OwnerOf[k] = o.owner /\ Dangling(k)
    \/ o.id \in abandoned \cup forgotten

AccountInv ==
    /\ OneOrgEach /\ CallsNameReal /\ MappingsNameReal /\ CreatorsKeep
    /\ \A o \in orgs : Settled(o)

LEMMA AccountedFromInv ==
  ASSUME Types, AccountInv
  PROVE  OrgsAreAccountedFor
<1>1. ASSUME NEW k \in Owned, Dangling(k)
      PROVE  /\ mappings[k].by = mappings[k].org => mappings[k].by \in unread
             /\ [org |-> mappings[k].org, by |-> mappings[k].org] \in rolledBack
  BY <1>1 DEF AccountInv, Dangling, MappingsNameReal, CreatorsKeep, RolledBackBySelf
<1>2. ASSUME NEW o \in orgs
      PROVE  \/ \E k \in Owned : mappings[k].org = o.id
             \/ \E c \in Calls : calls[c].org = o.id /\ ~At(c, "done")
             \/ \E k \in Owned : OwnerOf[k] = o.owner /\ Dangling(k)
             \/ o.id \in abandoned \cup forgotten
  <2>1. o.id \in Calls
    BY DEF Types, GrafanaTypeOK
  <2> QED
    BY <2>1 DEF AccountInv, Settled, At
<1> QED
  BY <1>1, <1>2 DEF OrgsAreAccountedFor

\* What a step of the call c leaves of the other calls, and makes of c.
LEMMA StepEffects ==
  ASSUME Types, NEW c \in Calls, Step(c)
  PROVE  /\ \A d \in Calls \ {c} : calls'[d] = calls[d]
         /\ Starts(c) => calls'[c].org = NoOrg
         /\ LooksUp(c) => calls'[c].org = NoOrg \/ \E o \in orgs : calls'[c].org = o.id
         /\ Creates(c) => \/ calls'[c].org = c /\ calls'[c].step # "done"
                          \/ calls'[c].org = NoOrg /\ abandoned' = abandoned \cup {c}
         /\ GivesUp(c) => calls'[c].org = NoOrg
         /\ Works(c) => /\ calls'[c].org = calls[c].org
                        /\ calls[c].org = c => calls'[c].step # "done"
         /\ Saves(c) => calls'[c].org = calls[c].org /\ calls'[c].step = "readBack"
         /\ Doubts(c) =>
               /\ calls'[c].org = calls[c].org
               /\ calls[c].org = c => calls'[c].step # "done" /\ c \in unread'
         /\ Ends(c) => calls'[c].org = calls[c].org /\ calls'[c].step = "done"
         /\ Keeps(c) \/ RollsBack(c) => calls'[c].org = c /\ calls'[c].step = "done"
<1>1. ASSUME NEW step, NEW org, MoveOn(c, step, org)
      PROVE  calls'[c].step = step /\ calls'[c].org = org
  BY <1>1 DEF MoveOn, Types, GrafanaTypeOK
<1>2. \A d \in Calls \ {c} : calls'[d] = calls[d]
  BY DEF Step, Starts, LooksUp, Creates, GivesUp, Works, Saves,
     Doubts, Ends, Keeps, RollsBack, StepWithin,
     MoveOn, Types, GrafanaTypeOK
<1>3. Starts(c) => calls'[c].org = NoOrg
  BY DEF Starts, Types, GrafanaTypeOK
<1>4. LooksUp(c) => calls'[c].org = NoOrg \/ \E o \in orgs : calls'[c].org = o.id
  BY <1>1 DEF LooksUp, OrgsOf
<1>5. Creates(c) => \/ calls'[c].org = c /\ calls'[c].step # "done"
                    \/ calls'[c].org = NoOrg /\ abandoned' = abandoned \cup {c}
  BY <1>1 DEF Creates
<1>6. GivesUp(c) => calls'[c].org = NoOrg
  BY <1>1 DEF GivesUp
<1>7. Works(c) => /\ calls'[c].org = calls[c].org
                  /\ calls[c].org = c => calls'[c].step # "done"
  BY <1>1 DEF Works, StepWithin, Inside
<1>8. Saves(c) => calls'[c].org = calls[c].org /\ calls'[c].step = "readBack"
  BY <1>1 DEF Saves
<1>10. Doubts(c) => /\ calls'[c].org = calls[c].org
                    /\ calls[c].org = c => calls'[c].step # "done" /\ c \in unread'
  BY <1>1 DEF Doubts
<1>11. Ends(c) => calls'[c].org = calls[c].org /\ calls'[c].step = "done"
  BY <1>1 DEF Ends
<1>9. Keeps(c) \/ RollsBack(c) => calls'[c].org = c /\ calls'[c].step = "done"
  BY <1>1 DEF Keeps, RollsBack
<1> QED
  BY <1>2, <1>3, <1>4, <1>5, <1>6, <1>7, <1>8, <1>9, <1>10, <1>11

\* A step that changes no organisation and no mapping.
LEMMA QuietAccount ==
  ASSUME Types, OwnedInv, AccountInv, NEW c \in Calls,
         Starts(c) \/ LooksUp(c) \/ GivesUp(c) \/ Works(c) \/ Doubts(c) \/ Keeps(c)
  PROVE  AccountInv'
<1>1. /\ Step(c) /\ UNCHANGED <<orgs, mappings, rolledBack, forgotten>>
      /\ abandoned \subseteq abandoned' /\ unread \subseteq unread'
  BY DEF Step, Starts, LooksUp, GivesUp, Works, Doubts, Keeps
<1>2. OneOrgEach'
  BY <1>1 DEF AccountInv, OneOrgEach
<1>3. CallsNameReal'
  BY <1>1, StepEffects DEF AccountInv, CallsNameReal, Exists, RolledBackBySelf, Keeps, Types, StepTells
<1>4. MappingsNameReal'
  BY <1>1 DEF AccountInv, MappingsNameReal, Exists, RolledBackBySelf
<1>5. calls[c].step # "done"
  BY DEF Starts, LooksUp, GivesUp, Works, Doubts, Keeps, Inside
<1>6. ASSUME NEW d \in Calls, calls'[d].org = d, calls'[d].step # "done" PROVE Exists(d)'
  <2>1. CASE d # c
    BY <1>1, <1>6, <2>1, StepEffects DEF AccountInv, CreatorsKeep, Exists
  <2>2. CASE d = c
    <3>1. d # NoOrg
      BY ProvisioningAssumption DEF ProvisioningAssumption
    <3>2. CASE LooksUp(c)
      BY <1>1, <1>6, <2>2, <3>1, <3>2, StepEffects DEF Exists
    <3>3. CASE Works(c) \/ Doubts(c)
      BY <1>1, <1>5, <1>6, <2>2, <3>3, StepEffects DEF AccountInv, CreatorsKeep, Exists
    <3> QED
      BY <1>1, <1>6, <2>2, <3>1, <3>2, <3>3, StepEffects
  <2> QED
    BY <2>1, <2>2
<1>7. ASSUME NEW k \in Owned, mappings'[k].org # NoOrg, mappings'[k].by = mappings'[k].org
      PROVE  \/ mappings[k].org \in unread'
             \/ Exists(mappings[k].org) /\ Retains(mappings[k].org)'
  <2>1. CASE mappings[k].org \in unread
    BY <1>1, <2>1
  <2>2. CASE Exists(mappings[k].org) /\ Retains(mappings[k].org) /\ mappings[k].org # c
    <3>1. mappings[k].org \in Calls
      BY <2>2 DEF Exists, Types, GrafanaTypeOK
    <3> QED
      BY <1>1, <2>2, <3>1, StepEffects DEF Retains
  <2>3. CASE Retains(mappings[k].org) /\ mappings[k].org = c
    <3>1. calls[c].step = "readBack"
      BY <1>5, <2>3 DEF Retains
    <3>2. Doubts(c)
      BY <3>1 DEF Starts, LooksUp, GivesUp, Works, Keeps
    <3> QED
      BY <1>1, <2>3, <3>2, StepEffects DEF Retains
  <2> QED
    BY <1>1, <1>7, <2>1, <2>2, <2>3 DEF AccountInv, CreatorsKeep
<1>8. CreatorsKeep'
  BY <1>1, <1>6, <1>7 DEF CreatorsKeep, Exists
<1>9. ASSUME NEW o \in orgs' PROVE Settled(o)'
  <2>1. Settled(o) /\ o \in orgs /\ o.id \in Calls /\ calls[o.id].step \notin Early
    BY <1>1 DEF AccountInv, OwnedInv, OrgsOwned, OrgFor
  <2>2. CASE calls[o.id].org = o.id /\ calls[o.id].step # "done"
    <3>1. CASE o.id # c
      BY <1>1, <2>1, <2>2, <3>1, StepEffects DEF Settled
    <3>2. CASE o.id = c /\ (Works(c) \/ Doubts(c))
      BY <1>1, <2>2, <3>2, StepEffects DEF Settled
    <3>3. CASE o.id = c /\ Keeps(c)
      BY <3>3 DEF Settled, Keeps
    <3>4. o.id = c => Works(c) \/ Doubts(c) \/ Keeps(c)
      BY <2>1 DEF Starts, LooksUp, GivesUp, Early
    <3> QED
      BY <3>1, <3>2, <3>3, <3>4
  <2>3. CASE ~(calls[o.id].org = o.id /\ calls[o.id].step # "done")
    BY <1>1, <2>1, <2>3 DEF Settled, Dangling, Exists
  <2> QED
    BY <2>2, <2>3
<1> QED
  BY <1>2, <1>3, <1>4, <1>8, <1>9 DEF AccountInv

LEMMA CreatesAccount ==
  ASSUME Types, OwnedInv, AccountInv, NEW c \in Calls, Creates(c)
  PROVE  AccountInv'
<1> DEFINE new == [id |-> c, owner |-> Owner(c)]
<1>1. /\ orgs' = orgs \cup {new} /\ UNCHANGED <<mappings, rolledBack, forgotten>>
      /\ abandoned \subseteq abandoned' /\ Step(c) /\ calls[c].step = "create"
  BY DEF Creates, Step
<1>9. unread' = unread
  BY DEF Creates
<1>2. OneOrgEach'
  <2>1. \A o \in orgs : o.owner # Owner(c)
    BY DEF Creates, OrgsOf
  <2> QED
    BY <1>1, <2>1 DEF AccountInv, OneOrgEach
<1>3. Exists(c)'
  <2>1. new \in orgs' /\ new.id = c
    BY <1>1
  <2> QED
    BY <2>1, Zenon DEF Exists
<1>4. CallsNameReal'
  BY <1>1, <1>3, StepEffects DEF AccountInv, CallsNameReal, Exists, RolledBackBySelf
<1>5. MappingsNameReal'
  BY <1>1 DEF AccountInv, MappingsNameReal, Exists, RolledBackBySelf
<1>6. ASSUME NEW k \in Owned, mappings[k].org # NoOrg PROVE mappings[k].org \in Calls \ {c}
  BY <1>1, <1>6 DEF OwnedInv, MappingsOwned, OrgFor, Early
<1>7. CreatorsKeep'
  <2>1. \A d \in Calls : calls'[d].org = d /\ calls'[d].step # "done" => \E o \in orgs' : o.id = d
    BY <1>1, <1>3, StepEffects DEF AccountInv, CreatorsKeep, Exists
  <2>2. ASSUME NEW k \in Owned, mappings[k].org # NoOrg, mappings[k].by = mappings[k].org,
               mappings[k].org \notin unread
        PROVE  (\E o \in orgs' : o.id = mappings[k].org) /\ Retains(mappings[k].org)'
    <3>1. Exists(mappings[k].org) /\ Retains(mappings[k].org)
      BY <2>2 DEF AccountInv, CreatorsKeep
    <3> QED
      BY <1>1, <1>6, <2>2, <3>1, StepEffects DEF Exists, Retains
  <2> QED
    BY <1>1, <1>9, <2>1, <2>2 DEF CreatorsKeep, Exists
<1>8. ASSUME NEW o \in orgs' PROVE Settled(o)'
  <2>1. CASE o \in orgs
    <3>1. Settled(o) /\ o.id \in Calls \ {c}
      BY <1>1, <2>1 DEF AccountInv, OwnedInv, OrgsOwned, OrgFor, Early
    <3>2. \A k \in Owned : Dangling(k) => Dangling(k)'
      BY <1>1, <1>6 DEF Dangling, Exists
    <3> QED
      BY <1>1, <3>1, <3>2, StepEffects DEF Settled
  <2>2. CASE o = new
    BY <1>1, <2>2, StepEffects DEF Settled, Creates
  <2> QED
    BY <1>1, <2>1, <2>2
<1> QED
  BY <1>2, <1>4, <1>5, <1>7, <1>8 DEF AccountInv

LEMMA SavesAccount ==
  ASSUME Types, OwnedInv, AccountInv, NEW c \in Calls, Saves(c)
  PROVE  AccountInv'
<1> DEFINE k0 == calls[c].cluster
           g == calls[c].org
<1>1. /\ UNCHANGED <<orgs, rolledBack, abandoned, forgotten>>
      /\ Step(c) /\ calls[c].step = "save"
      /\ mappings' = [mappings EXCEPT ![k0] = [org |-> g, by |-> c]]
  BY DEF Saves, Step
<1>13. unread' = unread
  BY DEF Saves
<1>2. k0 \in Owned /\ g \in Calls /\ g # NoOrg
  BY <1>1, ProvisioningAssumption
  DEF ProvisioningAssumption, Types, StepTells, Inside
<1>3. /\ mappings'[k0].org = g /\ mappings'[k0].by = c
      /\ \A k \in Owned \ {k0} : mappings'[k] = mappings[k]
  BY <1>1, <1>2 DEF Types, GrafanaTypeOK
<1>4. Exists(g) \/ RolledBackBySelf(g)
  BY <1>2 DEF AccountInv, CallsNameReal
<1>5. OneOrgEach'
  BY <1>1 DEF AccountInv, OneOrgEach
<1>6. CallsNameReal'
  <2>1. calls'[c].org = calls[c].org /\ \A d \in Calls \ {c} : calls'[d] = calls[d]
    BY <1>1, StepEffects
  <2>2. \A d \in Calls : calls'[d].org = calls[d].org
    BY <2>1
  <2> QED
    BY <1>1, <2>2 DEF AccountInv, CallsNameReal, Exists, RolledBackBySelf
<1>7. MappingsNameReal'
  BY <1>1, <1>3, <1>4 DEF AccountInv, MappingsNameReal, Exists, RolledBackBySelf
<1>8. CreatorsKeep'
  <2>1. ASSUME NEW d \in Calls, calls'[d].org = d, calls'[d].step # "done" PROVE Exists(d)
    <3>1. calls[d].org = d /\ calls[d].step # "done"
      BY <1>1, <2>1, StepEffects
    <3> QED
      BY <3>1 DEF AccountInv, CreatorsKeep
  <2>2. ASSUME NEW k \in Owned, mappings'[k].org # NoOrg, mappings'[k].by = mappings'[k].org,
               mappings'[k].org \notin unread
        PROVE  Exists(mappings'[k].org) /\ Retains(mappings[k].org)'
    <3>1. CASE k = k0
      <4>1. g = c /\ mappings'[k].org = c
        BY <1>3, <2>2, <3>1
      <4> QED
        BY <1>1, <4>1, StepEffects DEF AccountInv, CreatorsKeep, Retains
    <3>2. CASE k # k0
      <4>1. Exists(mappings[k].org) /\ Retains(mappings[k].org)
        BY <1>3, <2>2, <3>2 DEF AccountInv, CreatorsKeep
      <4>2. mappings[k].org \in Calls /\ mappings[k].org # c
        BY <1>1, <4>1 DEF Exists, Retains, Types, GrafanaTypeOK
      <4> QED
        BY <1>1, <1>3, <3>2, <4>1, <4>2, StepEffects DEF Retains
    <3> QED
      BY <3>1, <3>2
  <2> QED
    BY <1>1, <1>13, <2>1, <2>2 DEF CreatorsKeep, Exists
<1>9. ASSUME NEW o \in orgs, o.owner = OwnerOf[k0]
      PROVE  mappings'[k0].org = o.id \/ (g # NoOrg /\ ~Exists(g))
  <2>1. CASE Exists(g)
    <3>1. PICK p \in orgs : p.id = g
      BY <2>1 DEF Exists
    <3>2. p.owner = OwnerOf[k0]
      BY <1>2, <3>1 DEF OwnedInv, OrgsOwned, CallsOwned, OrgFor, Owner
    <3>3. p = o
      BY <1>9, <3>2 DEF AccountInv, OneOrgEach
    <3> QED
      BY <1>3, <3>1, <3>3
  <2> QED
    BY <1>2, <2>1
<1>10. ASSUME NEW o \in orgs, o.owner = OwnerOf[k0] PROVE Settled(o)'
  <2>1. CASE mappings'[k0].org = o.id
    BY <1>2, <2>1 DEF Settled
  <2>2. CASE g # NoOrg /\ ~Exists(g)
    <3>1. ASSUME NEW k \in Owned, k = k0 PROVE OwnerOf[k] = o.owner /\ Dangling(k)'
      BY <1>1, <1>3, <1>10, <2>2, <3>1 DEF Dangling, Exists
    <3> QED
      BY <1>2, <3>1 DEF Settled
  <2> QED
    BY <1>9, <1>10, <2>1, <2>2
<1>11. ASSUME NEW o \in orgs, o.owner # OwnerOf[k0] PROVE Settled(o)'
  <2>1. Settled(o) /\ o.id \in Calls
    BY DEF AccountInv, Types, GrafanaTypeOK
  <2>2. ASSUME NEW k \in Owned, mappings[k].org = o.id PROVE mappings'[k].org = o.id
    <3>1. o.id # NoOrg
      BY <2>1, ProvisioningAssumption DEF ProvisioningAssumption
    <3>2. o.owner = OwnerOf[k]
      BY <2>2, <3>1 DEF OwnedInv, MappingsOwned, OrgsOwned, OrgFor
    <3> QED
      BY <1>3, <1>11, <2>2, <3>2
  <2>3. ASSUME NEW k \in Owned, OwnerOf[k] = o.owner, Dangling(k) PROVE Dangling(k)'
    BY <1>1, <1>3, <1>11, <2>3 DEF Dangling, Exists
  <2>4. ASSUME calls[o.id].org = o.id, calls[o.id].step # "done", o.id = c PROVE FALSE
    BY <1>2, <1>11, <2>4 DEF OwnedInv, OrgsOwned, CallsOwned, OrgFor, Owner
  <2> QED
    BY <1>1, <2>1, <2>2, <2>3, <2>4, StepEffects DEF Settled
<1>12. \A o \in orgs' : Settled(o)'
  BY <1>1, <1>10, <1>11
<1> QED
  BY <1>5, <1>6, <1>7, <1>8, <1>12 DEF AccountInv

\* A creator that ends has a mapping of its user, which is to its organisation
\* if it is to one that is there.
LEMMA EndsAccount ==
  ASSUME Types, OwnedInv, AccountInv, NEW c \in Calls, Ends(c)
  PROVE  AccountInv'
<1> DEFINE k0 == calls[c].cluster
<1>1. /\ UNCHANGED <<orgs, mappings, rolledBack, abandoned, forgotten, unread>>
      /\ Step(c) /\ calls[c].step = "readBack" /\ mappings[k0].org # NoOrg
  BY DEF Ends, Step
<1>2. k0 \in Owned
  BY <1>1 DEF Types, StepTells
<1>3. /\ calls'[c].org = calls[c].org /\ calls'[c].step = "done"
      /\ \A d \in Calls \ {c} : calls'[d] = calls[d]
  BY <1>1, StepEffects
<1>4. OneOrgEach' /\ MappingsNameReal'
  BY <1>1 DEF AccountInv, OneOrgEach, MappingsNameReal, Exists, RolledBackBySelf
<1>5. \A d \in Calls : calls'[d].org = calls[d].org
  BY <1>3
<1>6. CallsNameReal'
  BY <1>1, <1>5 DEF AccountInv, CallsNameReal, Exists, RolledBackBySelf
<1>7. CreatorsKeep'
  <2>1. \A d \in Calls : calls'[d].step # "done" => calls[d].step # "done"
    BY <1>1, <1>3
  <2>2. \A x \in Calls : Retains(x) => Retains(x)'
    BY <1>3 DEF Retains
  <2>3. \A x : Exists(x) => x \in Calls
    BY DEF Exists, Types, GrafanaTypeOK
  <2> QED
    BY <1>1, <1>5, <2>1, <2>2, <2>3 DEF AccountInv, CreatorsKeep, Exists
<1>8. ASSUME NEW o \in orgs PROVE Settled(o)'
  <2>1. Settled(o) /\ o.id \in Calls /\ OrgFor(o.id, o.owner)
    BY DEF AccountInv, OwnedInv, OrgsOwned, Types, GrafanaTypeOK
  <2>2. CASE o.id = c
    <3>1. o.owner = OwnerOf[k0]
      BY <2>1, <2>2 DEF OrgFor, OrgOwner
    <3>2. CASE Exists(mappings[k0].org)
      <4>1. PICK p \in orgs : p.id = mappings[k0].org
        BY <3>2 DEF Exists
      <4>2. p.owner = OwnerOf[k0]
        BY <1>1, <1>2, <4>1 DEF OwnedInv, OrgsOwned, MappingsOwned, OrgFor
      <4>3. p = o
        BY <3>1, <4>2 DEF AccountInv, OneOrgEach
      <4> QED
        BY <1>1, <1>2, <4>1, <4>3 DEF Settled
    <3>3. CASE ~Exists(mappings[k0].org)
      <4>1. ASSUME NEW k \in Owned, k = k0 PROVE OwnerOf[k] = o.owner /\ Dangling(k)'
        BY <1>1, <3>1, <3>3, <4>1 DEF Dangling, Exists
      <4> QED
        BY <1>2, <4>1 DEF Settled
    <3> QED
      BY <3>2, <3>3
  <2>3. CASE o.id # c
    BY <1>1, <1>3, <2>1, <2>3 DEF Settled, Dangling, Exists
  <2> QED
    BY <2>2, <2>3
<1>9. \A o \in orgs' : Settled(o)'
  BY <1>1, <1>8
<1> QED
  BY <1>4, <1>6, <1>7, <1>9 DEF AccountInv

LEMMA RollsBackAccount ==
  ASSUME Types, OwnedInv, AccountInv, NEW c \in Calls, RollsBack(c)
  PROVE  AccountInv'
<1>1. /\ orgs' = {o \in orgs : o.id # c} /\ UNCHANGED <<mappings, abandoned, forgotten>>
      /\ Step(c)
      /\ rolledBack' = rolledBack \cup {[org |-> c, by |-> c]} /\ calls[c].step = "rollback"
  BY DEF RollsBack, Step
<1>9. unread' = unread
  BY DEF RollsBack
<1>2. OneOrgEach'
  BY <1>1 DEF AccountInv, OneOrgEach
<1>3. \A x : Exists(x) \/ RolledBackBySelf(x) => (\E o \in orgs' : o.id = x)
                                                  \/ [org |-> x, by |-> x] \in rolledBack'
  BY <1>1 DEF Exists, RolledBackBySelf
<1>4. \A d \in Calls : calls'[d].org = calls[d].org
  BY <1>1, StepEffects DEF Types, StepTells
<1>5. CallsNameReal'
  BY <1>3, <1>4 DEF AccountInv, CallsNameReal, Exists, RolledBackBySelf
<1>6. MappingsNameReal'
  BY <1>1, <1>3 DEF AccountInv, MappingsNameReal, Exists, RolledBackBySelf
<1>7. CreatorsKeep'
  <2>1. ASSUME NEW d \in Calls, calls'[d].org = d, calls'[d].step # "done"
        PROVE  \E o \in orgs' : o.id = d
    BY <1>1, <2>1, StepEffects DEF AccountInv, CreatorsKeep, Exists
  <2>2. ASSUME NEW k \in Owned, mappings[k].org # NoOrg, mappings[k].by = mappings[k].org,
               mappings[k].org \notin unread
        PROVE  (\E o \in orgs' : o.id = mappings[k].org) /\ Retains(mappings[k].org)'
    <3>1. Exists(mappings[k].org) /\ Retains(mappings[k].org)
      BY <2>2 DEF AccountInv, CreatorsKeep
    <3>2. mappings[k].org \in Calls /\ mappings[k].org # c
      BY <1>1, <3>1 DEF Exists, Types, GrafanaTypeOK, Retains
    <3> QED
      BY <1>1, <3>1, <3>2, StepEffects DEF Exists, Retains
  <2> QED
    BY <1>1, <1>9, <2>1, <2>2 DEF CreatorsKeep, Exists
<1>8. ASSUME NEW o \in orgs' PROVE Settled(o)'
  <2>1. o \in orgs /\ o.id # c /\ Settled(o) /\ o.id \in Calls
    BY <1>1 DEF AccountInv, Types, GrafanaTypeOK
  <2>2. \A k \in Owned : Dangling(k) => Dangling(k)'
    BY <1>1 DEF Dangling, Exists
  <2> QED
    BY <1>1, <2>1, <2>2, StepEffects DEF Settled
<1> QED
  BY <1>2, <1>5, <1>6, <1>7, <1>8 DEF AccountInv

\* A removal leaves the organisations of the user without mappings, and says so.
LEMMA RemovalAccount ==
  ASSUME Types, OwnedInv, AccountInv, NEW user \in Owners, RemoveMappings(user)
  PROVE  AccountInv'
<1>1. /\ \A k \in Owned : mappings'[k] = IF OwnerOf[k] = user THEN NoMapping ELSE mappings[k]
      /\ UNCHANGED <<orgs, calls, abandoned, rolledBack, unread>>
      /\ forgotten' = forgotten \cup {o.id : o \in OrgsOf(user)}
  BY RemovalEffects
<1>2. \A k \in Owned : mappings'[k].org # NoOrg => mappings'[k] = mappings[k]
  BY <1>1 DEF NoMapping
<1>3. OneOrgEach' /\ CallsNameReal' /\ MappingsNameReal' /\ CreatorsKeep'
  BY <1>1, <1>2 DEF AccountInv, OneOrgEach, CallsNameReal, MappingsNameReal, CreatorsKeep,
     Exists, RolledBackBySelf, Retains
<1>4. ASSUME NEW o \in orgs, o.owner = user PROVE Settled(o)'
  BY <1>1, <1>4 DEF Settled, OrgsOf
<1>5. ASSUME NEW o \in orgs, o.owner # user PROVE Settled(o)'
  <2>1. Settled(o) /\ o.id # NoOrg
    BY ProvisioningAssumption DEF ProvisioningAssumption, AccountInv, Types, GrafanaTypeOK
  <2>2. ASSUME NEW k \in Owned, mappings[k].org = o.id PROVE mappings'[k].org = o.id
    BY <1>1, <1>5, <2>1, <2>2 DEF OwnedInv, MappingsOwned, OrgsOwned, OrgFor
  <2>3. ASSUME NEW k \in Owned, OwnerOf[k] = o.owner, Dangling(k) PROVE Dangling(k)'
    BY <1>1, <1>5, <2>3 DEF Dangling, Exists
  <2> QED
    BY <1>1, <2>1, <2>2, <2>3 DEF Settled
<1> QED
  BY <1>1, <1>3, <1>4, <1>5 DEF AccountInv

\* Every organisation in Grafana is mapped or still worked on, or lost its
\* mapping to a late save or with its user's account, or was never answered or
\* rolled back; and a mapping without organisation comes from such a late save,
\* or from a creator that rolled back what it saved and could not read (app/grafana/provisioning.py, provision_user, _rollback_org;
\* app/storage.py, delete_user_account).
THEOREM OrgsAccountedFor == GrafanaSpec => []OrgsAreAccountedFor
<1>1. GrafanaInit => AccountInv
  <2> SUFFICES ASSUME GrafanaInit PROVE AccountInv
    OBVIOUS
  <2>1. \A c \in Calls : c # NoOrg
    BY ProvisioningAssumption DEF ProvisioningAssumption
  <2> QED
    BY <2>1 DEF GrafanaInit, NoMapping, AccountInv, OneOrgEach, CallsNameReal, MappingsNameReal, CreatorsKeep
<1>2. (Types /\ OwnedInv) /\ AccountInv /\ [GrafanaNext]_grafanaVars => AccountInv'
  <2>1. ASSUME Types, OwnedInv, AccountInv, GrafanaNext PROVE AccountInv'
    BY <2>1, NextCases, QuietAccount, CreatesAccount, SavesAccount, EndsAccount, RollsBackAccount,
       RemovalAccount DEF Step
  <2>2. ASSUME AccountInv, UNCHANGED grafanaVars PROVE AccountInv'
    BY <2>2 DEF grafanaVars, AccountInv, OneOrgEach, CallsNameReal, MappingsNameReal,
       CreatorsKeep, Retains, Settled, Dangling, Exists, RolledBackBySelf
  <2> QED
    BY <2>1, <2>2
<1>3. (Types /\ OwnedInv) /\ AccountInv => OrgsAreAccountedFor
  BY AccountedFromInv
<1> QED
  BY <1>1, <1>2, <1>3, OwnedAlways, PTL DEF GrafanaSpec

-----------------------------------------------------------------------------
(* PromQLScope. *)

LEMMA LeastOf ==
  ASSUME NEW S, S \subseteq Nat, S # {}
  PROVE  Min(S) \in S /\ \A i \in S : Min(S) <= i
<1>1. \E i \in S : \A j \in S : ~(<<j, i>> \in OpToRel(<, Nat))
  BY NatLessThanWellFounded, WFMin
<1>2. \A i, j \in Nat : i < j => <<i, j>> \in OpToRel(<, Nat)
  BY Zenon DEF OpToRel
<1>3. \E i \in S : \A j \in S : ~(j < i)
  BY <1>1, <1>2
<1>4. \E i \in S : \A j \in S : i <= j
  BY <1>3
<1> QED
  BY <1>4 DEF Min

LEMMA LeastIs ==
  ASSUME NEW S, S \subseteq Nat, NEW m \in S, \A i \in S : m <= i
  PROVE  Min(S) = m
<1>1. Min(S) \in S /\ Min(S) <= m
  BY LeastOf
<1>2. Min(S) \in Nat /\ m \in Nat /\ m <= Min(S)
  BY <1>1
<1> QED
  BY <1>1, <1>2

(* t is a followed by b.                                                   *)
IsJoin(t, a, b) ==
  /\ Len(a) \in Nat /\ Len(b) \in Nat /\ Len(t) = Len(a) + Len(b)
  /\ DOMAIN a = 1..Len(a) /\ DOMAIN b = 1..Len(b) /\ DOMAIN t = 1..(Len(a) + Len(b))
  /\ \A i \in 1..Len(a) : t[i] = a[i]
  /\ \A i \in 1..Len(b) : t[Len(a) + i] = b[i]

LEMMA JoinOf ==
  ASSUME NEW S, NEW a \in Seq(S), NEW b \in Seq(S)
  PROVE  IsJoin(a \o b, a, b) /\ a \o b \in Seq(S)
<1> DEFINE t == a \o b
<1>1. /\ t \in Seq(S) /\ Len(t) = Len(a) + Len(b)
      /\ \A i \in 1..(Len(a) + Len(b)) : t[i] = IF i <= Len(a) THEN a[i] ELSE b[i - Len(a)]
  BY ConcatProperties
<1>2. Len(a) \in Nat /\ Len(b) \in Nat /\ DOMAIN a = 1..Len(a) /\ DOMAIN b = 1..Len(b)
  OBVIOUS
<1> HIDE DEF t
<1>3. DOMAIN t = 1..(Len(a) + Len(b))
  BY <1>1, <1>2
<1>4. \A i \in 1..Len(a) : t[i] = a[i]
  BY <1>1, <1>2
<1>5. \A i \in 1..Len(b) : t[Len(a) + i] = b[i]
  <2> TAKE i \in 1..Len(b)
  <2>1. /\ Len(a) + i \in 1..(Len(a) + Len(b)) /\ ~(Len(a) + i <= Len(a))
        /\ (Len(a) + i) - Len(a) = i
    BY <1>2
  <2> QED
    BY <1>1, <2>1
<1> QED
  BY <1>1, <1>2, <1>3, <1>4, <1>5 DEF IsJoin, t

CountOf(q, v, i, j) == Cardinality({n \in i..j : q[n].value = v})

LEMMA BalancesIs ==
  ASSUME NEW q, NEW i, NEW open, NEW close
  PROVE  Balances(q, i, open, close) = {j \in i..Len(q) : CountOf(q, open, i, j) = CountOf(q, close, i, j)}
BY DEF Balances, CountOf

LEMMA CountLeft ==
  ASSUME NEW t, NEW a, NEW b, IsJoin(t, a, b), NEW i \in 1..Len(a), NEW j \in i..Len(a), NEW v
  PROVE  CountOf(t, v, i, j) = CountOf(a, v, i, j)
<1>1. \A n \in i..j : t[n] = a[n]
  BY DEF IsJoin
<1>2. {n \in i..j : t[n].value = v} = {n \in i..j : a[n].value = v}
  BY <1>1
<1> QED
  BY <1>2 DEF CountOf

LEMMA CountRight ==
  ASSUME NEW t, NEW a, NEW b, IsJoin(t, a, b), NEW i \in 1..Len(b), NEW j \in i..Len(b), NEW v
  PROVE  CountOf(t, v, Len(a) + i, Len(a) + j) = CountOf(b, v, i, j)
<1> DEFINE k == Len(a)
           B == {n \in i..j : b[n].value = v}
           T == {n \in (k + i)..(k + j) : t[n].value = v}
           shift == [n \in B |-> k + n]
<1>1. k \in Nat /\ (\A n \in 1..Len(b) : t[k + n] = b[n]) /\ Len(b) \in Nat
  BY DEF IsJoin
<1> HIDE DEF k
<1>2. \A n \in B : k + n \in T
  BY <1>1
<1>3. \A n \in T : n - k \in B /\ k + (n - k) = n
  <2> TAKE n \in T
  <2>1. n - k \in i..j /\ n - k \in 1..Len(b) /\ k + (n - k) = n
    BY <1>1
  <2> QED
    BY <1>1, <2>1
<1>4. IsFiniteSet(B)
  <2>1. IsFiniteSet(i..j) /\ B \in SUBSET (i..j)
    BY FS_Interval
  <2> QED
    BY <2>1, FS_Subset
<1>5. \A n \in B : n \in Nat
  BY <1>1
<1> HIDE DEF B, T
<1>6. shift \in [B -> T]
  BY <1>2
<1>7. \A m, n \in B : shift[m] = shift[n] => m = n
  BY <1>1, <1>5
<1>8. \A n \in T : \E m \in B : shift[m] = n
  <2> TAKE n \in T
  <2>1. n - k \in B /\ shift[n - k] = n
    BY <1>3
  <2> QED
    BY <2>1
<1> HIDE DEF shift
<1>9. shift \in Bijection(B, T)
  BY <1>6, <1>7, <1>8 DEF Bijection, Injection, Surjection, IsInjective
<1>10. Cardinality(T) = Cardinality(B)
  BY <1>4, <1>9, FS_Bijection DEF ExistsBijection
<1> QED
  BY <1>10 DEF CountOf, B, T, k

LEMMA MatchLeft ==
  ASSUME NEW t, NEW a, NEW b, IsJoin(t, a, b), NEW i \in 1..Len(a), NEW open, NEW close,
         Balances(a, i, open, close) # {}
  PROVE  /\ Balances(t, i, open, close) # {}
         /\ Matching(t, i, open, close) = Matching(a, i, open, close)
         /\ Matching(a, i, open, close) \in i..Len(a)
<1> DEFINE A == Balances(a, i, open, close)
           T == Balances(t, i, open, close)
<1>1. Len(a) \in Nat /\ Len(b) \in Nat /\ Len(t) = Len(a) + Len(b)
  BY DEF IsJoin
<1>2. \A j \in i..Len(a) : j \in A <=> j \in T
  <2> TAKE j \in i..Len(a)
  <2>1. j \in i..Len(t)
    BY <1>1
  <2>2. /\ CountOf(t, open, i, j) = CountOf(a, open, i, j)
        /\ CountOf(t, close, i, j) = CountOf(a, close, i, j)
    BY CountLeft
  <2> QED
    BY <2>1, <2>2, BalancesIs
<1>3. A \subseteq i..Len(a) /\ T \subseteq i..Len(t)
  BY BalancesIs
<1> HIDE DEF A, T
<1>4. A \subseteq Nat /\ T \subseteq Nat
  BY <1>1, <1>3
<1>5. A # {}
  BY DEF A
<1>6. Min(A) \in A /\ \A j \in A : Min(A) <= j
  BY <1>4, <1>5, LeastOf
<1>7. Min(A) \in T
  BY <1>2, <1>3, <1>6
<1>8. \A j \in T : Min(A) <= j
  <2> SUFFICES ASSUME NEW j \in T PROVE Min(A) <= j
    OBVIOUS
  <2>1. CASE j <= Len(a)
    <3>1. j \in i..Len(a)
      BY <1>1, <1>3, <2>1
    <3> QED
      BY <1>2, <1>6, <3>1
  <2>2. CASE ~(j <= Len(a))
    <3>1. Min(A) \in i..Len(a) /\ j \in i..Len(t)
      BY <1>3, <1>6
    <3> QED
      BY <1>1, <2>2, <3>1
  <2> QED
    BY <2>1, <2>2
<1>9. Min(T) = Min(A)
  BY <1>4, <1>7, <1>8, LeastIs
<1> QED
  BY <1>3, <1>6, <1>7, <1>9 DEF Matching, A, T

LEMMA MatchRight ==
  ASSUME NEW t, NEW a, NEW b, IsJoin(t, a, b), NEW i \in 1..Len(b), NEW open, NEW close,
         Balances(b, i, open, close) # {}
  PROVE  /\ Balances(t, Len(a) + i, open, close) # {}
         /\ Matching(t, Len(a) + i, open, close) = Len(a) + Matching(b, i, open, close)
         /\ Matching(b, i, open, close) \in i..Len(b)
<1> DEFINE k == Len(a)
           B == Balances(b, i, open, close)
           T == Balances(t, k + i, open, close)
<1>1. k \in Nat /\ Len(b) \in Nat /\ Len(t) = k + Len(b)
  BY DEF IsJoin
<1>2. \A j \in i..Len(b) : j \in B <=> k + j \in T
  <2> TAKE j \in i..Len(b)
  <2>1. k + j \in (k + i)..Len(t)
    BY <1>1
  <2>2. /\ CountOf(t, open, k + i, k + j) = CountOf(b, open, i, j)
        /\ CountOf(t, close, k + i, k + j) = CountOf(b, close, i, j)
    BY CountRight
  <2> QED
    BY <2>1, <2>2, BalancesIs
<1>3. B \subseteq i..Len(b) /\ T \subseteq (k + i)..Len(t)
  BY BalancesIs
<1>4. B # {}
  OBVIOUS
<1> HIDE DEF B, T, k
<1>5. B \subseteq Nat /\ T \subseteq Nat
  BY <1>1, <1>3
<1>6. Min(B) \in B /\ \A j \in B : Min(B) <= j
  BY <1>4, <1>5, LeastOf
<1>7. k + Min(B) \in T
  BY <1>2, <1>3, <1>6
<1>8. \A j \in T : k + Min(B) <= j
  <2> SUFFICES ASSUME NEW j \in T PROVE k + Min(B) <= j
    OBVIOUS
  <2>1. j - k \in i..Len(b) /\ k + (j - k) = j
    BY <1>1, <1>3
  <2>2. j - k \in B
    BY <1>2, <2>1
  <2>3. Min(B) <= j - k /\ Min(B) \in Nat /\ j \in Nat
    BY <1>5, <1>6, <2>2
  <2> QED
    BY <1>1, <2>3
<1>9. Min(T) = k + Min(B)
  BY <1>5, <1>7, <1>8, LeastIs
<1> QED
  BY <1>3, <1>6, <1>7, <1>9 DEF Matching, B, T, k

-----------------------------------------------------------------------------
(* The selectors of a text that is put together.                           *)

Shifted(k, spans) == {<<k + s[1], k + s[2]>> : s \in spans}

(* Nothing is read across the place where two texts meet.                  *)
Meets(a, b) == EndsFree(a) \/ StartsFree(b)

(* Spans that lie in the first n tokens.                                   *)
LieIn(n, spans) == \A s \in spans : s[1] \in 1..n /\ s[2] \in 1..n

Braces(q) == {i \in DOMAIN q : q[i].value = "{"}
Closed(q) ==
  /\ \A i \in DOMAIN q : q[i].value = "{" => Balances(q, i, "{", "}") # {}
  /\ \A i \in DOMAIN q : OpensList(q, i) => Balances(q, i + 1, "(", ")") # {}

(* t is the closed text a followed by the closed text b.                   *)
Composed(t, a, b) ==
  IsJoin(t, a, b) /\ Closed(a) /\ Closed(b) /\ Len(a) > 0 /\ Len(b) > 0 /\ Meets(a, b)

LEMMA BraceSpanLeft ==
  ASSUME NEW t, NEW a, NEW b, Composed(t, a, b), NEW i \in Braces(a)
  PROVE  /\ i \in Braces(t)
         /\ BraceStart(t, i) = BraceStart(a, i) /\ BraceStart(a, i) \in 1..Len(a)
         /\ Matching(t, i, "{", "}") = Matching(a, i, "{", "}")
         /\ Matching(a, i, "{", "}") \in 1..Len(a)
<1> USE DEF Composed
<1>1. i \in DOMAIN a /\ a[i].value = "{"
  BY DEF Braces
<1>2. i \in 1..Len(a) /\ Len(a) \in Nat /\ t[i] = a[i] /\ i \in DOMAIN t
  <2>1. i \in 1..Len(a) /\ Len(a) \in Nat
    BY <1>1 DEF IsJoin
  <2> QED
    BY <2>1 DEF IsJoin
<1>3. i > 1 => i - 1 \in 1..Len(a) /\ t[i - 1] = a[i - 1]
  BY <1>2 DEF IsJoin
<1>4. Balances(a, i, "{", "}") # {}
  BY <1>1 DEF Closed
<1>5. /\ Matching(t, i, "{", "}") = Matching(a, i, "{", "}")
      /\ Matching(a, i, "{", "}") \in i..Len(a)
  <2> DEFINE o == "{"
             c == "}"
  <2>1. Balances(a, i, o, c) # {}
    BY <1>4
  <2> HIDE DEF o, c
  <2>2. /\ Matching(t, i, o, c) = Matching(a, i, o, c)
        /\ Matching(a, i, o, c) \in i..Len(a)
    BY <1>2, <2>1, MatchLeft
  <2> QED
    BY <2>2 DEF o, c
<1>6. BraceStart(t, i) = BraceStart(a, i) /\ BraceStart(a, i) \in 1..Len(a)
  BY <1>2, <1>3 DEF BraceStart
<1>7. i \in Braces(t)
  BY <1>1, <1>2 DEF Braces
<1>8. \A m \in i..Len(a) : m \in 1..Len(a)
  BY <1>2
<1> QED
  BY <1>5, <1>6, <1>7, <1>8

(* The brace at i of b is found where it stands now.                       *)
BraceCarried(t, a, b, i) ==
  /\ Len(a) + i \in Braces(t)
  /\ BraceStart(t, Len(a) + i) = Len(a) + BraceStart(b, i) /\ BraceStart(b, i) \in 1..Len(b)
  /\ Matching(t, Len(a) + i, "{", "}") = Len(a) + Matching(b, i, "{", "}")
  /\ Matching(b, i, "{", "}") \in 1..Len(b)

LEMMA BraceSpanRight ==
  ASSUME NEW t, NEW a, NEW b, Composed(t, a, b), NEW i \in Braces(b)
  PROVE  BraceCarried(t, a, b, i)
<1> DEFINE k == Len(a)
<1> USE DEF Composed, BraceCarried
<1>1. i \in DOMAIN b /\ b[i].value = "{"
  BY DEF Braces
<1>2. /\ i \in 1..Len(b) /\ k \in Nat /\ k > 0 /\ Len(b) \in Nat
      /\ t[k + i] = b[i] /\ k + i \in DOMAIN t
  <2>1. i \in 1..Len(b) /\ Len(b) \in Nat /\ k \in Nat
    BY <1>1 DEF IsJoin
  <2>2. k + i \in 1..(k + Len(b))
    BY <2>1
  <2> QED
    BY <2>1, <2>2 DEF IsJoin
<1>3. Balances(b, i, "{", "}") # {}
  BY <1>1 DEF Closed
<1>4. /\ Matching(t, k + i, "{", "}") = k + Matching(b, i, "{", "}")
      /\ Matching(b, i, "{", "}") \in i..Len(b)
  <2> DEFINE o == "{"
             c == "}"
  <2>1. Balances(b, i, o, c) # {}
    BY <1>3
  <2> HIDE DEF o, c
  <2>2. /\ Matching(t, k + i, o, c) = k + Matching(b, i, o, c)
        /\ Matching(b, i, o, c) \in i..Len(b)
    BY <1>2, <2>1, MatchRight
  <2> QED
    BY <2>2 DEF o, c
<1>5. k + i \in Braces(t) /\ Matching(b, i, "{", "}") \in 1..Len(b)
  <2>1. \A m \in i..Len(b) : m \in 1..Len(b)
    BY <1>2
  <2> QED
    BY <1>1, <1>2, <1>4, <2>1 DEF Braces
<1>6. CASE i > 1
  <2>1. (k + i) - 1 = k + (i - 1) /\ i - 1 \in 1..Len(b) /\ k + i > 1
    BY <1>2, <1>6
  <2>2. t[(k + i) - 1] = b[i - 1]
    BY <2>1 DEF IsJoin
  <2>3. BraceStart(t, k + i) = k + BraceStart(b, i) /\ BraceStart(b, i) \in 1..Len(b)
    BY <1>2, <1>6, <2>1, <2>2 DEF BraceStart
  <2> QED
    BY <1>4, <1>5, <2>3
<1>7. CASE ~(i > 1)
  <2>1. i = 1 /\ (k + i) - 1 = k /\ k \in 1..Len(a)
    BY <1>2, <1>7
  <2>2. t[k] = a[k]
    BY <2>1 DEF IsJoin
  <2>3. ~(t[k].kind = "IDENT" /\ t[k + i].glued /\ t[k].value \notin Keywords)
    <3>1. CASE EndsFree(a)
      BY <2>1, <2>2, <3>1 DEF EndsFree
    <3>2. CASE StartsFree(b)
      BY <1>2, <2>1, <3>2 DEF StartsFree
    <3> QED
      BY <3>1, <3>2 DEF Meets
  <2>4. BraceStart(t, k + i) = k + i /\ BraceStart(b, i) = i
    BY <1>7, <2>1, <2>3 DEF BraceStart
  <2> QED
    BY <1>2, <1>4, <1>5, <2>1, <2>4
<1> QED
  BY <1>6, <1>7

(* The positions of a joined text are those of its parts.                  *)
LEMMA JoinedPositions ==
  ASSUME NEW t, NEW a, NEW b, IsJoin(t, a, b), NEW i \in DOMAIN t
  PROVE  \/ i \in DOMAIN a
         \/ i - Len(a) \in DOMAIN b /\ i = Len(a) + (i - Len(a))
<1>1. i \in 1..(Len(a) + Len(b)) /\ Len(a) \in Nat /\ Len(b) \in Nat
  BY DEF IsJoin
<1>2. CASE i <= Len(a)
  BY <1>1, <1>2 DEF IsJoin
<1>3. CASE ~(i <= Len(a))
  <2>1. i - Len(a) \in 1..Len(b) /\ i = Len(a) + (i - Len(a))
    BY <1>1, <1>3
  <2> QED
    BY <2>1 DEF IsJoin
<1> QED
  BY <1>2, <1>3

LEMMA BraceSpansJoin ==
  ASSUME NEW t, NEW a, NEW b, Composed(t, a, b)
  PROVE  /\ BraceSpans(t) = BraceSpans(a) \cup Shifted(Len(a), BraceSpans(b))
         /\ LieIn(Len(a), BraceSpans(a)) /\ LieIn(Len(b), BraceSpans(b))
<1> DEFINE M(q, i) == Matching(q, i, "{", "}")
<1>1. \A q : BraceSpans(q) = {<<BraceStart(q, i), M(q, i)>> : i \in Braces(q)}
  BY DEF BraceSpans, Braces
<1>2. \A i \in Braces(a) : /\ i \in Braces(t) /\ BraceStart(t, i) = BraceStart(a, i)
                           /\ BraceStart(a, i) \in 1..Len(a)
                           /\ M(t, i) = M(a, i) /\ M(a, i) \in 1..Len(a)
  BY BraceSpanLeft
<1>3. \A i \in Braces(b) : /\ Len(a) + i \in Braces(t)
                           /\ BraceStart(t, Len(a) + i) = Len(a) + BraceStart(b, i)
                           /\ BraceStart(b, i) \in 1..Len(b)
                           /\ M(t, Len(a) + i) = Len(a) + M(b, i) /\ M(b, i) \in 1..Len(b)
  <2> TAKE i \in Braces(b)
  <2>1. BraceCarried(t, a, b, i)
    BY BraceSpanRight
  <2> QED
    BY <2>1 DEF BraceCarried
<1> HIDE DEF M
<1>4. LieIn(Len(a), BraceSpans(a)) /\ LieIn(Len(b), BraceSpans(b))
  BY <1>1, <1>2, <1>3 DEF LieIn
<1>5. ASSUME NEW i \in Braces(t)
      PROVE  i \in Braces(a) \/ (i - Len(a) \in Braces(b) /\ i = Len(a) + (i - Len(a)))
  <2>1. i \in DOMAIN t /\ t[i].value = "{"
    BY DEF Braces
  <2>2. CASE i \in DOMAIN a
    BY <2>1, <2>2 DEF Braces, IsJoin, Composed
  <2>3. ASSUME NEW j \in DOMAIN b, i = Len(a) + j PROVE j \in Braces(b)
    BY <2>1, <2>3 DEF Braces, IsJoin, Composed
  <2>4. i \in DOMAIN a \/ (i - Len(a) \in DOMAIN b /\ i = Len(a) + (i - Len(a)))
    BY <2>1, JoinedPositions DEF Composed
  <2> QED
    BY <2>2, <2>3, <2>4
<1>6. ASSUME NEW s \in BraceSpans(t) PROVE s \in BraceSpans(a) \cup Shifted(Len(a), BraceSpans(b))
  <2>1. PICK i \in Braces(t) : s = <<BraceStart(t, i), M(t, i)>>
    BY <1>1
  <2>2. CASE i \in Braces(a)
    BY <1>1, <1>2, <2>1, <2>2
  <2>3. ASSUME NEW j \in Braces(b), i = Len(a) + j PROVE s \in Shifted(Len(a), BraceSpans(b))
    <3> DEFINE r == <<BraceStart(b, j), M(b, j)>>
    <3>1. r \in BraceSpans(b)
      BY <1>1
    <3>2. s = <<Len(a) + r[1], Len(a) + r[2]>>
      BY <1>3, <2>1, <2>3
    <3> HIDE DEF r
    <3> QED
      BY <3>1, <3>2 DEF Shifted
  <2> QED
    BY <1>5, <2>2, <2>3
<1>7. ASSUME NEW s \in BraceSpans(a) PROVE s \in BraceSpans(t)
  <2>1. PICK i \in Braces(a) : s = <<BraceStart(a, i), M(a, i)>>
    BY <1>1
  <2> QED
    BY <1>1, <1>2, <2>1
<1>8. ASSUME NEW s \in Shifted(Len(a), BraceSpans(b)) PROVE s \in BraceSpans(t)
  <2>1. PICK r \in BraceSpans(b) : s = <<Len(a) + r[1], Len(a) + r[2]>>
    BY DEF Shifted
  <2>2. PICK j \in Braces(b) : r = <<BraceStart(b, j), M(b, j)>>
    BY <1>1
  <2>3. s = <<BraceStart(t, Len(a) + j), M(t, Len(a) + j)>>
    BY <1>3, <2>1, <2>2
  <2> QED
    BY <1>1, <1>3, <2>3
<1>9. BraceSpans(t) = BraceSpans(a) \cup Shifted(Len(a), BraceSpans(b))
  BY <1>6, <1>7, <1>8
<1> QED
  BY <1>4, <1>9

(* What comes after a token of the first text.                             *)
NextInLeft(t, a, i) == ValueAt(t, i + 1) = ValueAt(a, i + 1)
NextIsRight(t, a, b, i) == ValueAt(t, i + 1) = b[1].value /\ ValueAt(a, i + 1) = ""

LEMMA ValueAtLeft ==
  ASSUME NEW t, NEW a, NEW b, Composed(t, a, b), NEW i \in 1..Len(a)
  PROVE  /\ i # Len(a) => NextInLeft(t, a, i)
         /\ i = Len(a) => NextIsRight(t, a, b, i)
<1> USE DEF Composed
<1>1. Len(a) \in Nat /\ Len(b) \in Nat /\ Len(a) > 0 /\ Len(b) > 0
  BY DEF IsJoin
<1>2. ASSUME i # Len(a) PROVE ValueAt(t, i + 1) = ValueAt(a, i + 1)
  <2>1. i + 1 \in 1..Len(a)
    BY <1>1, <1>2
  <2>2. i + 1 \in DOMAIN a /\ i + 1 \in DOMAIN t /\ t[i + 1] = a[i + 1]
    BY <2>1 DEF IsJoin
  <2> QED
    BY <2>2 DEF ValueAt
<1>3. ASSUME i = Len(a) PROVE ValueAt(t, i + 1) = b[1].value /\ ValueAt(a, i + 1) = ""
  <2>1. 1 \in 1..Len(b) /\ Len(a) + 1 \in 1..(Len(a) + Len(b)) /\ Len(a) + 1 \notin 1..Len(a)
    BY <1>1
  <2>2. Len(a) + 1 \in DOMAIN t /\ t[Len(a) + 1] = b[1] /\ Len(a) + 1 \notin DOMAIN a
    BY <2>1 DEF IsJoin
  <2> QED
    BY <1>3, <2>2 DEF ValueAt
<1> QED
  BY <1>2, <1>3 DEF NextInLeft, NextIsRight

LEMMA ValueAtRight ==
  ASSUME NEW t, NEW a, NEW b, Composed(t, a, b), NEW i \in 1..Len(b)
  PROVE  ValueAt(t, (Len(a) + i) + 1) = ValueAt(b, i + 1)
<1> USE DEF Composed
<1>1. Len(a) \in Nat /\ Len(b) \in Nat
  BY DEF IsJoin
<1>2. (Len(a) + i) + 1 = Len(a) + (i + 1)
  BY <1>1
<1>3. CASE i + 1 \in 1..Len(b)
  <2>1. Len(a) + (i + 1) \in 1..(Len(a) + Len(b))
    BY <1>1, <1>3
  <2>2. /\ i + 1 \in DOMAIN b /\ Len(a) + (i + 1) \in DOMAIN t
        /\ t[Len(a) + (i + 1)] = b[i + 1]
    BY <1>3, <2>1 DEF IsJoin
  <2> QED
    BY <1>2, <2>2 DEF ValueAt
<1>4. CASE i + 1 \notin 1..Len(b)
  <2>1. Len(a) + (i + 1) \notin 1..(Len(a) + Len(b))
    BY <1>1, <1>4
  <2>2. i + 1 \notin DOMAIN b /\ Len(a) + (i + 1) \notin DOMAIN t
    BY <1>4, <2>1 DEF IsJoin
  <2> QED
    BY <1>2, <2>2 DEF ValueAt
<1> QED
  BY <1>3, <1>4

Opens(q) == {i \in DOMAIN q : OpensList(q, i)}

LEMMA ListLeft ==
  ASSUME NEW t, NEW a, NEW b, Composed(t, a, b), NEW i \in 1..Len(a)
  PROVE  /\ i \in Opens(t) <=> i \in Opens(a)
         /\ i \in Opens(a) =>
              /\ i + 1 \in 1..Len(a)
              /\ Matching(t, i + 1, "(", ")") = Matching(a, i + 1, "(", ")")
              /\ Matching(a, i + 1, "(", ")") \in 1..Len(a)
<1>1. /\ IsJoin(t, a, b) /\ Closed(a) /\ Meets(a, b)
      /\ Len(a) \in Nat /\ i \in DOMAIN a /\ i \in DOMAIN t /\ t[i] = a[i]
  <2>1. Len(a) \in Nat /\ Len(b) \in Nat /\ i \in 1..(Len(a) + Len(b))
    BY DEF Composed, IsJoin
  <2> QED
    BY <2>1 DEF Composed, IsJoin
<1>2. CASE i = Len(a)
  <2>1. ValueAt(t, i + 1) = b[1].value /\ ValueAt(a, i + 1) = ""
    <3>1. NextIsRight(t, a, b, i)
      BY <1>2, ValueAtLeft
    <3> QED
      BY <3>1 DEF NextIsRight
  <2>2. ~OpensList(a, i)
    BY <2>1 DEF OpensList
  <2>3. ~OpensList(t, i)
    <3>1. CASE EndsFree(a)
      BY <1>1, <1>2, <3>1 DEF OpensList, EndsFree
    <3>2. CASE StartsFree(b)
      BY <2>1, <3>2 DEF OpensList, StartsFree
    <3> QED
      BY <1>1, <3>1, <3>2 DEF Meets
  <2> QED
    BY <2>2, <2>3 DEF Opens
<1>3. CASE i # Len(a)
  <2>1. ValueAt(t, i + 1) = ValueAt(a, i + 1) /\ i + 1 \in 1..Len(a)
    <3>1. NextInLeft(t, a, i)
      BY <1>3, ValueAtLeft
    <3>2. i + 1 \in 1..Len(a)
      BY <1>1, <1>3
    <3> QED
      BY <3>1, <3>2 DEF NextInLeft
  <2>2. i \in Opens(t) <=> i \in Opens(a)
    BY <1>1, <2>1 DEF Opens, OpensList
  <2>3. ASSUME i \in Opens(a)
        PROVE  /\ Matching(t, i + 1, "(", ")") = Matching(a, i + 1, "(", ")")
               /\ Matching(a, i + 1, "(", ")") \in 1..Len(a)
    <3> DEFINE o == "("
               c == ")"
               k == i + 1
    <3>1. Balances(a, k, o, c) # {} /\ k \in 1..Len(a)
      BY <1>1, <2>1, <2>3 DEF Closed, Opens
    <3> HIDE DEF o, c, k
    <3>2. /\ Matching(t, k, o, c) = Matching(a, k, o, c)
          /\ Matching(a, k, o, c) \in k..Len(a)
      BY <1>1, <3>1, MatchLeft
    <3>3. \A m \in k..Len(a) : m \in 1..Len(a)
      BY <3>1
    <3> QED
      BY <3>2, <3>3 DEF o, c, k
  <2> QED
    BY <2>1, <2>2, <2>3
<1> QED
  BY <1>2, <1>3

ListCarried(t, a, b, i) ==
  /\ Len(a) + i \in Opens(t) <=> i \in Opens(b)
  /\ i \in Opens(b) =>
       /\ i + 1 \in 1..Len(b) /\ (Len(a) + i) + 1 = Len(a) + (i + 1)
       /\ Matching(t, (Len(a) + i) + 1, "(", ")") = Len(a) + Matching(b, i + 1, "(", ")")
       /\ Matching(b, i + 1, "(", ")") \in 1..Len(b)

LEMMA ListRight ==
  ASSUME NEW t, NEW a, NEW b, Composed(t, a, b), NEW i \in 1..Len(b)
  PROVE  ListCarried(t, a, b, i)
<1>1. /\ IsJoin(t, a, b) /\ Closed(b)
      /\ Len(a) \in Nat /\ Len(b) \in Nat /\ i \in DOMAIN b /\ Len(a) + i \in DOMAIN t /\ t[Len(a) + i] = b[i]
  <2>1. Len(a) \in Nat /\ Len(b) \in Nat
    BY DEF Composed, IsJoin
  <2>2. Len(a) + i \in 1..(Len(a) + Len(b))
    BY <2>1
  <2> QED
    BY <2>1, <2>2 DEF Composed, IsJoin
<1>2. ValueAt(t, (Len(a) + i) + 1) = ValueAt(b, i + 1)
  BY ValueAtRight
<1>3. Len(a) + i \in Opens(t) <=> i \in Opens(b)
  BY <1>1, <1>2 DEF Opens, OpensList
<1>4. ASSUME i \in Opens(b)
      PROVE  /\ i + 1 \in 1..Len(b) /\ (Len(a) + i) + 1 = Len(a) + (i + 1)
             /\ Matching(t, (Len(a) + i) + 1, "(", ")") = Len(a) + Matching(b, i + 1, "(", ")")
             /\ Matching(b, i + 1, "(", ")") \in 1..Len(b)
  <2> DEFINE o == "("
             c == ")"
             k == i + 1
  <2>1. ValueAt(b, k) = "("
    BY <1>4 DEF Opens, OpensList
  <2>2. k \in DOMAIN b
    BY <2>1 DEF ValueAt
  <2>3. Balances(b, k, o, c) # {} /\ k \in 1..Len(b)
    BY <1>1, <1>4, <2>2 DEF Closed, Opens, IsJoin
  <2>4. (Len(a) + i) + 1 = Len(a) + k
    BY <1>1
  <2> HIDE DEF o, c, k
  <2>5. /\ Matching(t, Len(a) + k, o, c) = Len(a) + Matching(b, k, o, c)
        /\ Matching(b, k, o, c) \in k..Len(b)
    BY <1>1, <2>3, MatchRight
  <2>6. \A m \in k..Len(b) : m \in 1..Len(b)
    BY <2>3
  <2> QED
    BY <2>3, <2>4, <2>5, <2>6 DEF o, c, k
<1> QED
  BY <1>3, <1>4 DEF ListCarried

LEMMA LabelListsJoin ==
  ASSUME NEW t, NEW a, NEW b, Composed(t, a, b)
  PROVE  /\ LabelLists(t) = LabelLists(a) \cup Shifted(Len(a), LabelLists(b))
         /\ LieIn(Len(a), LabelLists(a)) /\ LieIn(Len(b), LabelLists(b))
<1> DEFINE M(q, i) == Matching(q, i, "(", ")")
<1>1. \A q : LabelLists(q) = {<<i + 1, M(q, i + 1)>> : i \in Opens(q)}
  BY DEF LabelLists, Opens
<1>2. /\ DOMAIN a = 1..Len(a) /\ DOMAIN b = 1..Len(b) /\ Opens(a) \subseteq DOMAIN a
      /\ Opens(b) \subseteq DOMAIN b /\ Opens(t) \subseteq DOMAIN t
  BY DEF Composed, IsJoin, Opens
<1>3. \A i \in 1..Len(a) : /\ i \in Opens(t) <=> i \in Opens(a)
                           /\ i \in Opens(a) => /\ i + 1 \in 1..Len(a) /\ M(t, i + 1) = M(a, i + 1)
                                                /\ M(a, i + 1) \in 1..Len(a)
  BY ListLeft
<1>4. \A i \in 1..Len(b) :
        /\ Len(a) + i \in Opens(t) <=> i \in Opens(b)
        /\ i \in Opens(b) =>
             /\ i + 1 \in 1..Len(b) /\ (Len(a) + i) + 1 = Len(a) + (i + 1)
             /\ M(t, (Len(a) + i) + 1) = Len(a) + M(b, i + 1)
             /\ M(b, i + 1) \in 1..Len(b)
  <2> TAKE i \in 1..Len(b)
  <2>1. ListCarried(t, a, b, i)
    BY ListRight
  <2> QED
    BY <2>1 DEF ListCarried
<1> HIDE DEF M
<1>5. LieIn(Len(a), LabelLists(a)) /\ LieIn(Len(b), LabelLists(b))
  BY <1>1, <1>2, <1>3, <1>4 DEF LieIn
<1>6. ASSUME NEW s \in LabelLists(t)
      PROVE  s \in LabelLists(a) \cup Shifted(Len(a), LabelLists(b))
  <2>1. PICK i \in Opens(t) : s = <<i + 1, M(t, i + 1)>>
    BY <1>1
  <2>2. CASE i \in DOMAIN a
    BY <1>1, <1>2, <1>3, <2>1, <2>2
  <2>3. ASSUME NEW j \in DOMAIN b, i = Len(a) + j PROVE s \in Shifted(Len(a), LabelLists(b))
    <3> DEFINE r == <<j + 1, M(b, j + 1)>>
    <3>1. j \in Opens(b) /\ r \in LabelLists(b)
      BY <1>1, <1>2, <1>4, <2>3
    <3>2. s = <<Len(a) + r[1], Len(a) + r[2]>>
      BY <1>2, <1>4, <2>1, <2>3, <3>1
    <3> HIDE DEF r
    <3> QED
      BY <3>1, <3>2 DEF Shifted
  <2>4. i \in DOMAIN a \/ (i - Len(a) \in DOMAIN b /\ i = Len(a) + (i - Len(a)))
    BY <1>2, <2>1, JoinedPositions DEF Composed
  <2> QED
    BY <2>2, <2>3, <2>4
<1>7. ASSUME NEW s \in LabelLists(a) PROVE s \in LabelLists(t)
  <2>1. PICK i \in Opens(a) : s = <<i + 1, M(a, i + 1)>>
    BY <1>1
  <2> QED
    BY <1>1, <1>2, <1>3, <2>1
<1>8. ASSUME NEW s \in Shifted(Len(a), LabelLists(b)) PROVE s \in LabelLists(t)
  <2>1. PICK r \in LabelLists(b) : s = <<Len(a) + r[1], Len(a) + r[2]>>
    BY DEF Shifted
  <2>2. PICK j \in Opens(b) : r = <<j + 1, M(b, j + 1)>>
    BY <1>1
  <2>3. Len(a) + j \in Opens(t) /\ s = <<(Len(a) + j) + 1, M(t, (Len(a) + j) + 1)>>
    BY <1>2, <1>4, <2>1, <2>2
  <2> QED
    BY <1>1, <2>3
<1>9. LabelLists(t) = LabelLists(a) \cup Shifted(Len(a), LabelLists(b))
  BY <1>6, <1>7, <1>8
<1> QED
  BY <1>5, <1>9

LEMMA WithinJoin ==
  ASSUME NEW n \in Nat, NEW m \in Nat, NEW A, NEW B, LieIn(n, A), LieIn(m, B)
  PROVE  /\ \A i \in 1..n : Within(i, A \cup Shifted(n, B)) <=> Within(i, A)
         /\ \A i \in 1..m : Within(n + i, A \cup Shifted(n, B)) <=> Within(i, B)
<1>1. \A r \in B : <<n + r[1], n + r[2]>> \in Shifted(n, B)
  BY DEF Shifted
<1>2. \A s \in Shifted(n, B) : \E r \in B : s[1] = n + r[1] /\ s[2] = n + r[2]
  BY DEF Shifted
<1>3. ASSUME NEW i \in 1..n, Within(i, A \cup Shifted(n, B)) PROVE Within(i, A)
  <2>1. PICK s \in A \cup Shifted(n, B) : i \in s[1]..s[2]
    BY <1>3 DEF Within
  <2>2. CASE s \in Shifted(n, B)
    <3>1. PICK r \in B : s[1] = n + r[1] /\ s[2] = n + r[2]
      BY <1>2, <2>2
    <3>2. r[1] \in 1..m /\ r[2] \in 1..m
      BY DEF LieIn
    <3> QED
      BY <2>1, <3>1, <3>2
  <2> QED
    BY <2>1, <2>2 DEF Within
<1>4. ASSUME NEW i \in 1..m, Within(n + i, A \cup Shifted(n, B)) PROVE Within(i, B)
  <2>1. PICK s \in A \cup Shifted(n, B) : n + i \in s[1]..s[2]
    BY <1>4 DEF Within
  <2>2. CASE s \in Shifted(n, B)
    <3>1. PICK r \in B : s[1] = n + r[1] /\ s[2] = n + r[2]
      BY <1>2, <2>2
    <3>2. r[1] \in 1..m /\ r[2] \in 1..m
      BY DEF LieIn
    <3>3. i \in r[1]..r[2]
      BY <2>1, <3>1, <3>2
    <3> QED
      BY <3>3 DEF Within
  <2>3. CASE s \in A
    <3>1. s[1] \in 1..n /\ s[2] \in 1..n
      BY <2>3 DEF LieIn
    <3> QED
      BY <2>1, <3>1
  <2> QED
    BY <2>2, <2>3
<1>5. ASSUME NEW i \in 1..n, Within(i, A) PROVE Within(i, A \cup Shifted(n, B))
  BY <1>5 DEF Within
<1>6. ASSUME NEW i \in 1..m, Within(i, B) PROVE Within(n + i, A \cup Shifted(n, B))
  <2>1. PICK r \in B : i \in r[1]..r[2]
    BY <1>6 DEF Within
  <2>2. r[1] \in 1..m /\ r[2] \in 1..m
    BY DEF LieIn
  <2> DEFINE s == <<n + r[1], n + r[2]>>
  <2>3. s[1] = n + r[1] /\ s[2] = n + r[2] /\ s \in Shifted(n, B)
    BY <1>1
  <2> HIDE DEF s
  <2>4. n + i \in s[1]..s[2]
    BY <2>1, <2>2, <2>3
  <2> QED
    BY <2>3, <2>4 DEF Within
<1> QED
  BY <1>3, <1>4, <1>5, <1>6

LoneNames(q) == {i \in DOMAIN q : IsLoneName(q, i, BraceSpans(q), LabelLists(q))}

LEMMA LoneLeft ==
  ASSUME NEW t, NEW a, NEW b, Composed(t, a, b), NEW i \in 1..Len(a)
  PROVE  i \in LoneNames(t) <=> i \in LoneNames(a)
<1> DEFINE tb == Within(i, BraceSpans(t))
           tl == Within(i, LabelLists(t))
           ab == Within(i, BraceSpans(a))
           al == Within(i, LabelLists(a))
<1>1. /\ IsJoin(t, a, b) /\ Meets(a, b) /\ Len(a) \in Nat /\ Len(b) \in Nat
      /\ i \in DOMAIN a /\ i \in DOMAIN t /\ t[i] = a[i]
  <2>1. Len(a) \in Nat /\ Len(b) \in Nat /\ i \in 1..(Len(a) + Len(b))
    BY DEF Composed, IsJoin
  <2> QED
    BY <2>1 DEF Composed, IsJoin
<1>2. tb <=> ab
  <2> DEFINE A == BraceSpans(a)
             B == BraceSpans(b)
             T == BraceSpans(t)
             n == Len(a)
             m == Len(b)
  <2>1. T = A \cup Shifted(n, B) /\ LieIn(n, A) /\ LieIn(m, B) /\ n \in Nat /\ m \in Nat
    BY <1>1, BraceSpansJoin
  <2> HIDE DEF A, B, T, n, m
  <2>2. Within(i, A \cup Shifted(n, B)) <=> Within(i, A)
    <3>1. i \in 1..n
      BY DEF n
    <3> QED
      BY <2>1, <3>1, WithinJoin
  <2> QED
    BY <2>1, <2>2 DEF A, B, T, n
<1>3. tl <=> al
  <2> DEFINE A == LabelLists(a)
             B == LabelLists(b)
             T == LabelLists(t)
             n == Len(a)
             m == Len(b)
  <2>1. T = A \cup Shifted(n, B) /\ LieIn(n, A) /\ LieIn(m, B) /\ n \in Nat /\ m \in Nat
    BY <1>1, LabelListsJoin
  <2> HIDE DEF A, B, T, n, m
  <2>2. Within(i, A \cup Shifted(n, B)) <=> Within(i, A)
    <3>1. i \in 1..n
      BY DEF n
    <3> QED
      BY <2>1, <3>1, WithinJoin
  <2> QED
    BY <2>1, <2>2 DEF A, B, T, n
<1>4. IsDurationUnit(t, i) <=> IsDurationUnit(a, i)
  <2>1. i > 1 => i - 1 \in 1..Len(a) /\ t[i - 1] = a[i - 1]
    BY <1>1 DEF IsJoin
  <2> QED
    BY <1>1, <2>1 DEF IsDurationUnit
<1> DEFINE name == a[i].kind = "IDENT" /\ a[i].value \notin Keywords
<1>5. name => (IsFunctionOrAggregator(t, i) <=> IsFunctionOrAggregator(a, i))
  <2>1. CASE i # Len(a)
    <3>1. NextInLeft(t, a, i)
      BY <2>1, ValueAtLeft
    <3> QED
      BY <1>1, <3>1 DEF IsFunctionOrAggregator, NextInLeft
  <2>2. CASE i = Len(a)
    <3>1. ValueAt(t, i + 1) = b[1].value /\ ValueAt(a, i + 1) = ""
      <4>1. NextIsRight(t, a, b, i)
        BY <2>2, ValueAtLeft
      <4> QED
        BY <4>1 DEF NextIsRight
    <3>2. ~IsFunctionOrAggregator(a, i)
      BY <3>1 DEF IsFunctionOrAggregator
    <3>3. CASE EndsFree(a)
      BY <2>2, <3>3 DEF EndsFree
    <3>4. CASE StartsFree(b)
      BY <3>1, <3>2, <3>4 DEF StartsFree, IsFunctionOrAggregator
    <3> QED
      BY <1>1, <3>3, <3>4 DEF Meets
  <2> QED
    BY <2>1, <2>2
<1>6. i \in LoneNames(t) <=> /\ name /\ ~tb /\ ~tl
                             /\ ~IsFunctionOrAggregator(t, i) /\ ~IsDurationUnit(t, i)
  BY <1>1 DEF LoneNames, IsLoneName
<1>7. i \in LoneNames(a) <=> /\ name /\ ~ab /\ ~al
                             /\ ~IsFunctionOrAggregator(a, i) /\ ~IsDurationUnit(a, i)
  BY <1>1 DEF LoneNames, IsLoneName
<1> HIDE DEF tb, tl, ab, al, name
<1> QED
  BY <1>2, <1>3, <1>4, <1>5, <1>6, <1>7

LEMMA LoneRight ==
  ASSUME NEW t, NEW a, NEW b, Composed(t, a, b), NEW i \in 1..Len(b)
  PROVE  Len(a) + i \in LoneNames(t) <=> i \in LoneNames(b)
<1> DEFINE k == Len(a) + i
           tb == Within(k, BraceSpans(t))
           tl == Within(k, LabelLists(t))
           bb == Within(i, BraceSpans(b))
           bl == Within(i, LabelLists(b))
<1>1. /\ IsJoin(t, a, b) /\ Meets(a, b) /\ Len(a) \in Nat /\ Len(b) \in Nat /\ Len(a) > 0
      /\ i \in DOMAIN b /\ k \in DOMAIN t /\ t[k] = b[i]
  <2>1. Len(a) \in Nat /\ Len(b) \in Nat
    BY DEF Composed, IsJoin
  <2>2. k \in 1..(Len(a) + Len(b))
    BY <2>1
  <2> QED
    BY <2>1, <2>2 DEF Composed, IsJoin
<1>2. tb <=> bb
  <2> DEFINE A == BraceSpans(a)
             B == BraceSpans(b)
             T == BraceSpans(t)
             n == Len(a)
             m == Len(b)
  <2>1. T = A \cup Shifted(n, B) /\ LieIn(n, A) /\ LieIn(m, B) /\ n \in Nat /\ m \in Nat
    BY <1>1, BraceSpansJoin
  <2> HIDE DEF A, B, T, n, m
  <2>2. Within(n + i, A \cup Shifted(n, B)) <=> Within(i, B)
    <3>1. i \in 1..m
      BY DEF m
    <3> QED
      BY <2>1, <3>1, WithinJoin
  <2> QED
    BY <2>1, <2>2 DEF A, B, T, n
<1>3. tl <=> bl
  <2> DEFINE A == LabelLists(a)
             B == LabelLists(b)
             T == LabelLists(t)
             n == Len(a)
             m == Len(b)
  <2>1. T = A \cup Shifted(n, B) /\ LieIn(n, A) /\ LieIn(m, B) /\ n \in Nat /\ m \in Nat
    BY <1>1, LabelListsJoin
  <2> HIDE DEF A, B, T, n, m
  <2>2. Within(n + i, A \cup Shifted(n, B)) <=> Within(i, B)
    <3>1. i \in 1..m
      BY DEF m
    <3> QED
      BY <2>1, <3>1, WithinJoin
  <2> QED
    BY <2>1, <2>2 DEF A, B, T, n
<1>4. IsDurationUnit(t, k) <=> IsDurationUnit(b, i)
  <2>1. CASE i > 1
    <3>1. k - 1 = Len(a) + (i - 1) /\ i - 1 \in 1..Len(b) /\ k > 1
      BY <1>1, <2>1
    <3>2. t[k - 1] = b[i - 1]
      BY <1>1, <3>1 DEF IsJoin
    <3> HIDE DEF k
    <3> QED
      BY <1>1, <2>1, <3>1, <3>2 DEF IsDurationUnit
  <2>2. CASE ~(i > 1)
    <3>1. i = 1 /\ k - 1 = Len(a) /\ Len(a) \in 1..Len(a)
      BY <1>1, <2>2
    <3>2. t[k - 1] = a[Len(a)]
      BY <1>1, <3>1 DEF IsJoin
    <3> HIDE DEF k
    <3>3. ~IsDurationUnit(b, i)
      BY <2>2 DEF IsDurationUnit
    <3>4. CASE EndsFree(a)
      BY <3>2, <3>3, <3>4 DEF IsDurationUnit, EndsFree
    <3>5. CASE StartsFree(b)
      BY <1>1, <3>1, <3>3, <3>5 DEF IsDurationUnit, StartsFree
    <3> QED
      BY <1>1, <3>4, <3>5 DEF Meets
  <2> QED
    BY <2>1, <2>2
<1>5. IsFunctionOrAggregator(t, k) <=> IsFunctionOrAggregator(b, i)
  BY <1>1, ValueAtRight DEF IsFunctionOrAggregator
<1> DEFINE name == b[i].kind = "IDENT" /\ b[i].value \notin Keywords
<1>6. k \in LoneNames(t) <=> /\ name /\ ~tb /\ ~tl
                             /\ ~IsFunctionOrAggregator(t, k) /\ ~IsDurationUnit(t, k)
  BY <1>1 DEF LoneNames, IsLoneName
<1>7. i \in LoneNames(b) <=> /\ name /\ ~bb /\ ~bl
                             /\ ~IsFunctionOrAggregator(b, i) /\ ~IsDurationUnit(b, i)
  BY <1>1 DEF LoneNames, IsLoneName
<1>8. Len(a) + i = k
  OBVIOUS
<1> HIDE DEF k, tb, tl, bb, bl, name
<1> QED
  BY <1>2, <1>3, <1>4, <1>5, <1>6, <1>7, <1>8

LEMMA SelectorsJoin ==
  ASSUME NEW t, NEW a, NEW b, Composed(t, a, b)
  PROVE  /\ Selectors(t) = Selectors(a) \cup Shifted(Len(a), Selectors(b))
         /\ LieIn(Len(a), Selectors(a)) /\ LieIn(Len(b), Selectors(b))
<1>1. \A q : Selectors(q) = BraceSpans(q) \cup {<<i, i>> : i \in LoneNames(q)}
  BY DEF Selectors, LoneNames
<1>2. /\ BraceSpans(t) = BraceSpans(a) \cup Shifted(Len(a), BraceSpans(b))
      /\ LieIn(Len(a), BraceSpans(a)) /\ LieIn(Len(b), BraceSpans(b))
  BY BraceSpansJoin
<1>3. /\ DOMAIN a = 1..Len(a) /\ DOMAIN b = 1..Len(b) /\ LoneNames(a) \subseteq DOMAIN a
      /\ LoneNames(b) \subseteq DOMAIN b /\ LoneNames(t) \subseteq DOMAIN t
  BY DEF Composed, IsJoin, LoneNames
<1>4. LieIn(Len(a), Selectors(a)) /\ LieIn(Len(b), Selectors(b))
  BY <1>1, <1>2, <1>3 DEF LieIn
<1>5. ASSUME NEW s \in Selectors(t) PROVE s \in Selectors(a) \cup Shifted(Len(a), Selectors(b))
  <2>1. CASE s \in BraceSpans(t)
    BY <1>1, <1>2, <2>1 DEF Shifted
  <2>2. ASSUME NEW i \in LoneNames(t), s = <<i, i>>
        PROVE  s \in Selectors(a) \cup Shifted(Len(a), Selectors(b))
    <3>1. CASE i \in DOMAIN a
      BY <1>1, <1>3, <2>2, <3>1, LoneLeft
    <3>2. ASSUME NEW j \in DOMAIN b, i = Len(a) + j PROVE s \in Shifted(Len(a), Selectors(b))
      <4> DEFINE r == <<j, j>>
      <4>1. j \in LoneNames(b)
        BY <1>3, <3>2, LoneRight
      <4>2. r \in Selectors(b) /\ s = <<Len(a) + r[1], Len(a) + r[2]>>
        BY <1>1, <2>2, <3>2, <4>1
      <4> HIDE DEF r
      <4> QED
        BY <4>2 DEF Shifted
    <3>3. i \in DOMAIN a \/ (i - Len(a) \in DOMAIN b /\ i = Len(a) + (i - Len(a)))
      BY <1>3, JoinedPositions DEF Composed
    <3> QED
      BY <3>1, <3>2, <3>3
  <2> QED
    BY <1>1, <2>1, <2>2
<1>6. ASSUME NEW s \in Selectors(a) PROVE s \in Selectors(t)
  <2>1. CASE s \in BraceSpans(a)
    BY <1>1, <1>2, <2>1
  <2>2. ASSUME NEW i \in LoneNames(a), s = <<i, i>> PROVE s \in Selectors(t)
    BY <1>1, <1>3, <2>2, LoneLeft
  <2> QED
    BY <1>1, <2>1, <2>2
<1>7. ASSUME NEW s \in Shifted(Len(a), Selectors(b)) PROVE s \in Selectors(t)
  <2>1. PICK r \in Selectors(b) : s = <<Len(a) + r[1], Len(a) + r[2]>>
    BY DEF Shifted
  <2>2. CASE r \in BraceSpans(b)
    BY <1>1, <1>2, <2>1, <2>2 DEF Shifted
  <2>3. ASSUME NEW i \in LoneNames(b), r = <<i, i>> PROVE s \in Selectors(t)
    BY <1>1, <1>3, <2>1, <2>3, LoneRight
  <2> QED
    BY <1>1, <2>1, <2>2, <2>3
<1>8. Selectors(t) = Selectors(a) \cup Shifted(Len(a), Selectors(b))
  BY <1>5, <1>6, <1>7
<1> QED
  BY <1>4, <1>8

(* A text and its scoped form are put together piece by piece.             *)
UpToRight(a, x, j) == SubSeq(a \o x, 1, Len(a) + j) = a \o SubSeq(x, 1, j)
InsideRight(a, x, i, j) == SubSeq(a \o x, Len(a) + i, Len(a) + j) = SubSeq(x, i, j)

LEMMA SubSeqJoin ==
  ASSUME NEW S, NEW a \in Seq(S), NEW x \in Seq(S), NEW i \in 1..(Len(x) + 1), NEW j \in 0..Len(x)
  PROVE  UpToRight(a, x, j) /\ InsideRight(a, x, i, j)
<1> DEFINE n == Len(a)
           m == Len(x)
           t == a \o x
           p == SubSeq(x, 1, j)
           l == SubSeq(t, 1, n + j)
           r == a \o p
           c == SubSeq(t, n + i, n + j)
           d == SubSeq(x, i, j)
<1>1. /\ n \in Nat /\ m \in Nat /\ (\A k \in 1..n : a[k] \in S) /\ (\A k \in 1..m : x[k] \in S)
      /\ t \in Seq(S) /\ Len(t) = n + m
      /\ (\A k \in 1..(n + m) : t[k] = IF k <= n THEN a[k] ELSE x[k - n])
      /\ \A k \in 1..(n + m) : t[k] \in S
  BY ConcatProperties
<1> HIDE DEF n, m, t
<1>2. p \in Seq(S) /\ Len(p) = j /\ \A k \in 1..j : p[k] = x[k]
  <2>1. \A k \in 1..j : x[k] \in S
    BY <1>1
  <2>2. /\ p \in Seq(S) /\ Len(p) = IF 1 <= j THEN j - 1 + 1 ELSE 0
        /\ \A k \in 1..(j - 1 + 1) : p[k] = x[1 + k - 1]
    BY <1>1, <2>1, SubSeqProperties
  <2> HIDE DEF p
  <2>3. j \in Nat /\ j - 1 + 1 = j
    BY <1>1 DEF m
  <2>4. \A k \in 1..j : 1 + k - 1 = k
    OBVIOUS
  <2> QED
    BY <2>2, <2>3, <2>4
<1> HIDE DEF p
<1>3. l \in Seq(S) /\ Len(l) = n + j /\ \A k \in 1..(n + j) : l[k] = t[k]
  <2>1. j \in 0..m
    BY DEF m
  <2>2. \A k \in 1..(n + j) : t[k] \in S
    BY <1>1, <2>1
  <2>3. /\ l \in Seq(S) /\ Len(l) = IF 1 <= n + j THEN n + j - 1 + 1 ELSE 0
        /\ \A k \in 1..(n + j - 1 + 1) : l[k] = t[1 + k - 1]
    BY <1>1, <2>2, SubSeqProperties
  <2> HIDE DEF l
  <2>4. n + j \in Nat /\ n + j - 1 + 1 = n + j
    BY <1>1, <2>1
  <2>5. \A k \in 1..(n + j) : 1 + k - 1 = k
    BY <2>4
  <2> QED
    BY <2>3, <2>4, <2>5
<1>4. r \in Seq(S) /\ Len(r) = n + j /\ \A k \in 1..(n + j) : r[k] = IF k <= n THEN a[k] ELSE p[k - n]
  BY <1>2, ConcatProperties DEF n
<1> HIDE DEF l, r
<1>5. l = r
  <2>1. j \in 0..m
    BY DEF m
  <2>2. ASSUME NEW k \in 1..(n + j) PROVE l[k] = r[k]
    <3>1. k \in 1..(n + m) /\ (~(k <= n) => k - n \in 1..j)
      BY <1>1, <2>1
    <3> QED
      BY <1>1, <1>2, <1>3, <1>4, <3>1
  <2> QED
    BY <1>3, <1>4, <2>2, SeqEqual
<1>6. c = d
  <2>1. i \in 1..(m + 1) /\ j \in 0..m
    BY DEF m
  <2>2. CASE i > j
    <3>1. n + i \in Int /\ n + j \in Int /\ n + j < n + i
      BY <1>1, <2>1, <2>2
    <3>2. c = <<>>
      BY <3>1, SubSeqEmpty
    <3>3. d = <<>>
      BY <2>1, <2>2, SubSeqEmpty
    <3> QED
      BY <3>2, <3>3
  <2>3. CASE i <= j
    <3>1. \A k \in i..j : x[k] \in S
      BY <1>1, <2>1
    <3>2. \A k \in (n + i)..(n + j) : t[k] \in S
      BY <1>1, <2>1
    <3>3. /\ d \in Seq(S) /\ Len(d) = IF i <= j THEN j - i + 1 ELSE 0
          /\ \A k \in 1..(j - i + 1) : d[k] = x[i + k - 1]
      BY <2>1, <3>1, SubSeqProperties
    <3>4. n + i \in Int /\ n + j \in Int /\ (n + j) - (n + i) + 1 = j - i + 1 /\ n + i <= n + j
      BY <1>1, <2>1, <2>3
    <3>5. /\ c \in Seq(S) /\ Len(c) = j - i + 1
          /\ \A k \in 1..(j - i + 1) : c[k] = t[(n + i) + k - 1]
      <4>1. /\ c \in Seq(S) /\ Len(c) = IF n + i <= n + j THEN (n + j) - (n + i) + 1 ELSE 0
            /\ \A k \in 1..((n + j) - (n + i) + 1) : c[k] = t[(n + i) + k - 1]
        <5> DEFINE first == n + i
                   last == n + j
        <5>1. first \in Int /\ last \in Int /\ \A k \in first..last : t[k] \in S
          BY <3>2, <3>4
        <5> HIDE DEF first, last
        <5>2. /\ SubSeq(t, first, last) \in Seq(S)
              /\ Len(SubSeq(t, first, last)) = IF first <= last THEN last - first + 1 ELSE 0
              /\ \A k \in 1..(last - first + 1) : SubSeq(t, first, last)[k] = t[first + k - 1]
          BY <5>1, SubSeqProperties
        <5> QED
          BY <5>2 DEF first, last
      <4> QED
        BY <3>4, <4>1
    <3> HIDE DEF c, d
    <3>6. ASSUME NEW k \in 1..(j - i + 1) PROVE c[k] = d[k]
      <4>1. /\ (n + i) + k - 1 \in 1..(n + m) /\ ~((n + i) + k - 1 <= n)
            /\ (n + i) + k - 1 - n = i + k - 1
        BY <1>1, <2>1
      <4>2. t[(n + i) + k - 1] = x[i + k - 1]
        BY <1>1, <4>1
      <4> QED
        BY <3>3, <3>5, <4>2
    <3> QED
      BY <2>3, <3>3, <3>5, <3>6, SeqEqual
  <2> HIDE DEF c, d
  <2> QED
    BY <1>1, <2>1, <2>2, <2>3
<1>7. SubSeq(a \o x, 1, Len(a) + j) = a \o SubSeq(x, 1, j)
  BY <1>5 DEF l, r, p, n, t
<1>8. SubSeq(a \o x, Len(a) + i, Len(a) + j) = SubSeq(x, i, j)
  BY <1>6 DEF c, d, n, t
<1> QED
  BY <1>7, <1>8 DEF UpToRight, InsideRight

(* p is what stands from m to n in s.                                      *)
IsSubSeq(p, S, s, m, n) ==
  p \in Seq(S) /\ Len(p) = n - m + 1 /\ \A k \in 1..(n - m + 1) : p[k] = s[m + k - 1]

LEMMA SubSeqIs ==
  ASSUME NEW S, NEW s, NEW m \in Nat, NEW n \in Nat, m <= n + 1, \A k \in m..n : s[k] \in S
  PROVE  IsSubSeq(SubSeq(s, m, n), S, s, m, n)
<1> DEFINE p == SubSeq(s, m, n)
<1>1. /\ p \in Seq(S) /\ Len(p) = IF m <= n THEN n - m + 1 ELSE 0
      /\ \A k \in 1..(n - m + 1) : p[k] = s[m + k - 1]
  BY SubSeqProperties
<1> HIDE DEF p
<1>2. (IF m <= n THEN n - m + 1 ELSE 0) = n - m + 1
  OBVIOUS
<1>3. IsSubSeq(p, S, s, m, n)
  BY <1>1, <1>2 DEF IsSubSeq
<1> QED
  BY <1>3 DEF p

LEMMA SubSeqBefore ==
  ASSUME NEW S, NEW x \in Seq(S), NEW b \in Seq(S), NEW i \in 1..(Len(x) + 1), NEW j \in 0..Len(x)
  PROVE  /\ SubSeq(x \o b, i, j) = SubSeq(x, i, j)
         /\ SubSeq(x \o b, i, Len(x) + Len(b)) = SubSeq(x, i, Len(x)) \o b
<1> DEFINE n == Len(x)
           m == Len(b)
           t == x \o b
           p == SubSeq(x, i, n)
           l == SubSeq(t, i, n + m)
           r == p \o b
<1>1. /\ n \in Nat /\ m \in Nat /\ (\A k \in 1..n : x[k] \in S) /\ (\A k \in 1..m : b[k] \in S)
      /\ t \in Seq(S) /\ Len(t) = n + m
      /\ (\A k \in 1..(n + m) : t[k] = IF k <= n THEN x[k] ELSE b[k - n])
      /\ \A k \in 1..(n + m) : t[k] \in S
  BY ConcatProperties
<1>2. SubSeq(t, i, j) = SubSeq(x, i, j)
  <2>1. CASE i > j
    <3>1. SubSeq(t, i, j) = <<>>
      BY <1>1, <2>1, SubSeqEmpty
    <3>2. SubSeq(x, i, j) = <<>>
      BY <1>1, <2>1, SubSeqEmpty
    <3> QED
      BY <3>1, <3>2
  <2>2. CASE i <= j
    <3>1. i \in 1..n /\ j \in 1..n
      BY <1>1, <2>2
    <3> QED
      BY <3>1, SubSeqOfConcat1
  <2> QED
    BY <1>1, <2>1, <2>2
<1> HIDE DEF n, m, t
<1>3. i \in 1..(n + 1)
  BY DEF n
<1>4. p \in Seq(S) /\ Len(p) = n - i + 1 /\ \A k \in 1..(n - i + 1) : p[k] = x[i + k - 1]
  <2>1. \A k \in i..n : x[k] \in S
    BY <1>1, <1>3
  <2>2. i \in Nat /\ n \in Nat /\ i <= n + 1
    BY <1>1, <1>3
  <2>3. IsSubSeq(p, S, x, i, n)
    BY <2>1, <2>2, SubSeqIs
  <2> HIDE DEF p
  <2> QED
    BY <2>3 DEF IsSubSeq
<1> HIDE DEF p
<1>5. /\ l \in Seq(S) /\ Len(l) = (n + m) - i + 1
      /\ \A k \in 1..((n + m) - i + 1) : l[k] = t[i + k - 1]
  <2>1. \A k \in i..(n + m) : t[k] \in S
    BY <1>1, <1>3
  <2>2. i \in Nat /\ n + m \in Nat /\ i <= (n + m) + 1
    BY <1>1, <1>3
  <2>3. IsSubSeq(l, S, t, i, n + m)
    BY <2>1, <2>2, SubSeqIs
  <2> DEFINE e == n + m
  <2> HIDE DEF l, e
  <2>4. IsSubSeq(l, S, t, i, e)
    BY <2>3 DEF e
  <2>5. l \in Seq(S) /\ Len(l) = e - i + 1 /\ \A k \in 1..(e - i + 1) : l[k] = t[i + k - 1]
    BY <2>4 DEF IsSubSeq
  <2> QED
    BY <2>5 DEF e
<1>6. /\ r \in Seq(S) /\ Len(r) = (n - i + 1) + m
      /\ \A k \in 1..((n - i + 1) + m) : r[k] = IF k <= n - i + 1 THEN p[k] ELSE b[k - (n - i + 1)]
  <2>1. /\ r \in Seq(S) /\ Len(r) = Len(p) + Len(b)
        /\ \A k \in 1..(Len(p) + Len(b)) : r[k] = IF k <= Len(p) THEN p[k] ELSE b[k - Len(p)]
    BY <1>4, ConcatProperties
  <2> HIDE DEF r
  <2> QED
    BY <1>4, <2>1 DEF m
<1> HIDE DEF l, r
<1>7. l = r
  <2>1. (n + m) - i + 1 = (n - i + 1) + m
    BY <1>1, <1>3
  <2>2. ASSUME NEW k \in 1..((n + m) - i + 1) PROVE l[k] = r[k]
    <3>1. l[k] = t[i + k - 1] /\ i + k - 1 \in 1..(n + m)
      BY <1>1, <1>3, <1>5
    <3>2. CASE k <= n - i + 1
      <4>1. k \in 1..(n - i + 1) /\ i + k - 1 <= n /\ k \in 1..((n - i + 1) + m)
        BY <1>1, <1>3, <3>2
      <4>2. r[k] = p[k] /\ p[k] = x[i + k - 1]
        BY <1>4, <1>6, <3>2, <4>1
      <4>3. t[i + k - 1] = x[i + k - 1]
        BY <1>1, <3>1, <4>1
      <4> QED
        BY <3>1, <4>2, <4>3
    <3>3. CASE ~(k <= n - i + 1)
      <4>1. ~(i + k - 1 <= n) /\ i + k - 1 - n = k - (n - i + 1) /\ k \in 1..((n - i + 1) + m)
        BY <1>1, <1>3, <3>3
      <4>2. t[i + k - 1] = b[i + k - 1 - n] /\ r[k] = b[k - (n - i + 1)]
        BY <1>1, <1>6, <3>1, <3>3, <4>1
      <4> QED
        BY <3>1, <4>1, <4>2
    <3> QED
      BY <3>2, <3>3
  <2> QED
    BY <1>5, <1>6, <2>1, <2>2, SeqEqual
<1> QED
  BY <1>2, <1>7 DEF l, r, p, n, m, t

(* What holds at the end, and of a place when it holds of the next, holds  *)
(* everywhere.                                                             *)
LEMMA FromTheEnd ==
  ASSUME NEW n \in Nat, NEW T, n + 1 \in T, \A i \in 1..n : i + 1 \in T => i \in T
  PROVE  \A i \in 1..(n + 1) : i \in T
<1> SUFFICES ASSUME NEW i \in 1..(n + 1), i \notin T PROVE FALSE
  OBVIOUS
<1> DEFINE D == {(n + 1) - k : k \in {k \in 1..(n + 1) : k \notin T}}
<1>1. D \subseteq Nat /\ D # {}
  OBVIOUS
<1>2. Min(D) \in D /\ \A d \in D : Min(D) <= d
  BY <1>1, LeastOf
<1>3. PICK k \in 1..(n + 1) : k \notin T /\ Min(D) = (n + 1) - k
  BY <1>2
<1>4. k \in 1..n /\ k + 1 \in 1..(n + 1) /\ k + 1 \notin T
  BY <1>3
<1>5. (n + 1) - (k + 1) \in D
  BY <1>4
<1> HIDE DEF D
<1> QED
  BY <1>2, <1>3, <1>5

-----------------------------------------------------------------------------
(* The loop of inject_cluster_label, from the last selector to the first.  *)

HereOf(q, i) == {s \in Selectors(q) : s[1] = i}
RewriteStep(q, i, text) ==
  IF HereOf(q, i) = {} THEN text ELSE Replaced(text, q, CHOOSE s \in HereOf(q, i) : TRUE)

(* f[i] is the text with the selectors from i on replaced.                 *)
IsRewriting(q, f) ==
  /\ f[Len(q) + 1] = q
  /\ \A i \in 1..Len(q) : f[i] = RewriteStep(q, i, f[i + 1])

LEMMA RewritingIsDefined ==
  ASSUME NEW q, Len(q) \in Nat
  PROVE  \E f : IsRewriting(q, f) /\ InjectClusterLabel(q) = f[1]
<1> DEFINE n == Len(q)
           Part(k, g) == g[n + 1] = q /\ \A i \in k..n : g[i] = RewriteStep(q, i, g[i + 1])
           G == {k \in 1..(n + 1) : \E g : Part(k, g)}
           Loop(f) == [i \in 1..(n + 1) |->
                         IF i > n THEN q
                         ELSE IF HereOf(q, i) = {} THEN f[i + 1]
                         ELSE Replaced(f[i + 1], q, CHOOSE s \in HereOf(q, i) : TRUE)]
           the == CHOOSE f : f = Loop(f)
<1>1. n \in Nat
  OBVIOUS
<1>2. InjectClusterLabel(q) = the[1]
  BY DEF InjectClusterLabel, HereOf
<1> HIDE DEF n
<1>3. n + 1 \in G
  <2> DEFINE g == [i \in 1..(n + 1) |-> q]
  <2>1. n + 1 \in 1..(n + 1) /\ (n + 1)..n = {}
    BY <1>1
  <2>2. g[n + 1] = q
    BY <2>1
  <2> HIDE DEF g
  <2>3. Part(n + 1, g)
    BY <2>1, <2>2
  <2> QED
    BY <2>1, <2>3
<1>4. ASSUME NEW k \in 1..n, k + 1 \in G PROVE k \in G
  <2>1. PICK g : Part(k + 1, g)
    BY <1>4
  <2> DEFINE h == [i \in 1..(n + 1) |-> IF i = k THEN RewriteStep(q, k, g[k + 1]) ELSE g[i]]
  <2>2. /\ k \in 1..(n + 1) /\ k + 1 \in 1..(n + 1) /\ n + 1 \in 1..(n + 1)
        /\ k + 1 # k /\ n + 1 # k
    BY <1>1
  <2>3. h[n + 1] = q
    BY <2>1, <2>2
  <2>4. ASSUME NEW i \in k..n PROVE h[i] = RewriteStep(q, i, h[i + 1])
    <3>1. i \in 1..(n + 1) /\ i + 1 \in 1..(n + 1) /\ i + 1 # k
      BY <1>1
    <3>2. h[i + 1] = g[i + 1]
      BY <3>1
    <3>3. CASE i = k
      BY <3>1, <3>2, <3>3
    <3>4. CASE i # k
      <4>1. i \in (k + 1)..n
        BY <3>4
      <4> QED
        BY <2>1, <3>1, <3>2, <3>4, <4>1
    <3> QED
      BY <3>3, <3>4
  <2> HIDE DEF h
  <2>5. Part(k, h)
    BY <2>3, <2>4
  <2> QED
    BY <2>2, <2>5
<1> HIDE DEF Part
<1>5. 1 \in G
  <2> HIDE DEF G
  <2>1. \A i \in 1..(n + 1) : i \in G
    BY <1>1, <1>3, <1>4, FromTheEnd
  <2> QED
    BY <1>1, <2>1
<1>6. PICK g : Part(1, g)
  BY <1>5
<1> DEFINE h == [i \in 1..(n + 1) |-> g[i]]
<1>7. h = Loop(h)
  <2>1. ASSUME NEW i \in 1..(n + 1) PROVE h[i] = Loop(h)[i]
    <3>1. CASE i > n
      <4>1. i = n + 1
        BY <1>1, <3>1
      <4> QED
        BY <1>6, <3>1, <4>1 DEF Part
    <3>2. CASE ~(i > n)
      <4>1. i \in 1..n /\ i + 1 \in 1..(n + 1)
        BY <1>1, <3>2
      <4>2. g[i] = RewriteStep(q, i, g[i + 1])
        BY <1>6, <4>1 DEF Part
      <4>3. h[i] = g[i] /\ h[i + 1] = g[i + 1]
        BY <4>1
      <4> HIDE DEF h
      <4> QED
        BY <3>2, <4>2, <4>3 DEF RewriteStep
    <3> QED
      BY <3>1, <3>2
  <2> QED
    BY <2>1
<1> HIDE DEF h
<1>8. the = Loop(the)
  <2> HIDE DEF Loop
  <2> QED
    BY <1>7
<1> HIDE DEF the
<1>9. the[n + 1] = q
  <2>1. n + 1 \in 1..(n + 1) /\ n + 1 > n
    BY <1>1
  <2> QED
    BY <1>8, <2>1
<1>10. \A i \in 1..n : the[i] = RewriteStep(q, i, the[i + 1])
  <2> TAKE i \in 1..n
  <2>1. i \in 1..(n + 1) /\ ~(i > n)
    BY <1>1
  <2> QED
    BY <1>8, <2>1 DEF RewriteStep
<1> QED
  BY <1>2, <1>9, <1>10 DEF IsRewriting, n

(* At most one selector of a whole text starts at a place.                 *)
LEMMA OneSelector ==
  ASSUME NEW q, Whole(q), NEW i, NEW s \in HereOf(q, i)
  PROVE  /\ HereOf(q, i) = {s} /\ (CHOOSE r \in HereOf(q, i) : TRUE) = s
         /\ s \in Selectors(q) /\ s[1] = i
<1>1. s \in Selectors(q) /\ s[1] = i
  BY DEF HereOf
<1>2. Len(q) \in Nat /\ DOMAIN q = 1..Len(q)
  <2>1. q \in Seq(Token)
    BY DEF Whole
  <2> QED
    BY <2>1, LenProperties
<1>3. ASSUME NEW r \in HereOf(q, i) PROVE r = s
  <2>1. r \in Selectors(q) /\ r[1] = i
    BY DEF HereOf
  <2>2. s[1] \in DOMAIN q /\ s[2] \in DOMAIN q /\ s[1] <= s[2]
    BY <1>1 DEF Whole
  <2>3. r[2] \in DOMAIN q /\ r[1] <= r[2]
    BY <2>1 DEF Whole
  <2>4. r = s \/ r[2] < s[1] \/ s[2] < r[1]
    BY <1>1, <2>1 DEF Whole
  <2> QED
    BY <1>1, <1>2, <2>1, <2>2, <2>3, <2>4
<1> QED
  BY <1>1, <1>3

(* What the loop leaves for its next steps: the text before the place it   *)
(* is at is still that of the query.                                       *)
Left(q, f, i) ==
  /\ f[i] \in Seq(Token) /\ Len(f[i]) >= i - 1
  /\ \A r \in Selectors(q) : r[1] < i => r[2] <= Len(f[i])

LEMMA ReplacedIsText ==
  ASSUME NEW q, NEW text \in Seq(Token), NEW s,
         NEW S1 \in Nat \ {0}, NEW S2 \in Nat, s[1] = S1, s[2] = S2, S1 <= S2, S2 <= Len(text),
         InjectSelector(SubSeq(q, S1, S2)) \in Seq(Token)
  PROVE  /\ Replaced(text, q, s) \in Seq(Token)
         /\ Len(Replaced(text, q, s)) >= S1 - 1
<1> DEFINE x == SubSeq(text, 1, S1 - 1)
           y == InjectSelector(SubSeq(q, S1, S2))
           z == SubSeq(text, S2 + 1, Len(text))
<1>1. Len(text) \in Nat /\ \A k \in 1..Len(text) : text[k] \in Token
  OBVIOUS
<1>2. x \in Seq(Token) /\ Len(x) = S1 - 1
  <2>1. \A k \in 1..(S1 - 1) : text[k] \in Token
    BY <1>1
  <2>2. x \in Seq(Token) /\ Len(x) = IF 1 <= S1 - 1 THEN (S1 - 1) - 1 + 1 ELSE 0
    BY <2>1, SubSeqProperties
  <2> HIDE DEF x
  <2> QED
    BY <2>2
<1>3. z \in Seq(Token)
  <2>1. \A k \in (S2 + 1)..Len(text) : text[k] \in Token
    BY <1>1
  <2> QED
    BY <1>1, <2>1, SubSeqProperties
<1>4. Replaced(text, q, s) = (x \o y) \o z
  BY DEF Replaced
<1> HIDE DEF x, y, z
<1>5. y \in Seq(Token)
  BY DEF y
<1> DEFINE xy == x \o y
<1>6. xy \in Seq(Token) /\ Len(xy) = Len(x) + Len(y)
  <2>1. x \in Seq(Token)
    BY <1>2
  <2> QED
    BY <1>5, <2>1, ConcatProperties
<1>7. xy \o z \in Seq(Token) /\ Len(xy \o z) = Len(xy) + Len(z)
  <2>1. xy \in Seq(Token)
    BY <1>6
  <2> HIDE DEF xy
  <2> QED
    BY <1>3, <2>1, ConcatProperties
<1>8. Len(x) \in Nat /\ Len(y) \in Nat /\ Len(z) \in Nat
  BY <1>2, <1>3, <1>5
<1> QED
  BY <1>2, <1>4, <1>6, <1>7, <1>8

LEMMA RewritingKeepsPlaces ==
  ASSUME NEW q, Whole(q), NEW f, IsRewriting(q, f)
  PROVE  \A i \in 1..(Len(q) + 1) : Left(q, f, i)
<1> DEFINE n == Len(q)
           G == {i \in 1..(n + 1) : Left(q, f, i)}
<1>1. /\ q \in Seq(Token) /\ n \in Nat /\ DOMAIN q = 1..n
      /\ \A s \in Selectors(q) :
           /\ s[1] \in 1..n /\ s[2] \in 1..n /\ s[1] <= s[2]
           /\ InjectSelector(SubSeq(q, s[1], s[2])) \in Seq(Token)
           /\ \A r \in Selectors(q) : r = s \/ r[2] < s[1] \/ s[2] < r[1]
  <2>1. q \in Seq(Token)
    BY DEF Whole
  <2>2. n \in Nat /\ DOMAIN q = 1..n
    BY <2>1, LenProperties
  <2> HIDE DEF n
  <2>3. ASSUME NEW s \in Selectors(q)
        PROVE  /\ s[1] \in DOMAIN q /\ s[2] \in DOMAIN q /\ s[1] <= s[2]
               /\ InjectSelector(SubSeq(q, s[1], s[2])) \in Seq(Token)
               /\ \A r \in Selectors(q) : r = s \/ r[2] < s[1] \/ s[2] < r[1]
    BY DEF Whole
  <2> QED
    BY <2>1, <2>2, <2>3
<1>2. f[n + 1] = q /\ \A i \in 1..n : f[i] = RewriteStep(q, i, f[i + 1])
  BY DEF IsRewriting
<1>3. n + 1 \in G
  <2>1. n + 1 \in 1..(n + 1)
    BY <1>1
  <2>2. Len(f[n + 1]) = n
    BY <1>2
  <2> HIDE DEF n
  <2>3. Len(f[n + 1]) >= (n + 1) - 1
    BY <1>1, <2>2
  <2>4. \A r \in Selectors(q) : r[2] <= Len(f[n + 1])
    BY <1>1, <2>2
  <2> QED
    BY <1>1, <1>2, <2>1, <2>3, <2>4 DEF Left
<1> HIDE DEF n
<1>4. ASSUME NEW i \in 1..n, i + 1 \in G PROVE i \in G
  <2>1. /\ f[i + 1] \in Seq(Token) /\ Len(f[i + 1]) >= i
        /\ \A r \in Selectors(q) : r[1] < i + 1 => r[2] <= Len(f[i + 1])
    <3>1. (i + 1) - 1 = i /\ Left(q, f, i + 1)
      BY <1>4
    <3> QED
      BY <3>1 DEF Left
  <2>2. f[i] = RewriteStep(q, i, f[i + 1])
    BY <1>2
  <2>3. i \in 1..(n + 1)
    BY <1>1
  <2>4. CASE HereOf(q, i) = {}
    <3>1. f[i] = f[i + 1]
      BY <2>2, <2>4 DEF RewriteStep
    <3>2. Len(f[i]) \in Nat
      BY <2>1, <3>1
    <3>3. Len(f[i]) >= i - 1
      BY <2>1, <3>1, <3>2
    <3>4. \A r \in Selectors(q) : r[1] < i => r[2] <= Len(f[i])
      BY <1>1, <2>1, <3>1
    <3> QED
      BY <2>1, <2>3, <3>1, <3>3, <3>4 DEF Left
  <2>5. ASSUME NEW s \in HereOf(q, i) PROVE i \in G
    <3>1. HereOf(q, i) # {} /\ (CHOOSE r \in HereOf(q, i) : TRUE) = s /\ s \in Selectors(q) /\ s[1] = i
      BY <2>5, OneSelector
    <3>2. f[i] = Replaced(f[i + 1], q, s)
      BY <2>2, <3>1 DEF RewriteStep
    <3>3. /\ s[1] \in Nat \ {0} /\ s[2] \in Nat /\ s[1] <= s[2] /\ s[2] <= Len(f[i + 1])
          /\ InjectSelector(SubSeq(q, s[1], s[2])) \in Seq(Token)
      BY <1>1, <2>1, <3>1
    <3>4. f[i] \in Seq(Token) /\ Len(f[i]) >= i - 1
      BY <2>1, <3>1, <3>2, <3>3, ReplacedIsText
    <3>5. ASSUME NEW r \in Selectors(q), r[1] < i PROVE r[2] <= Len(f[i])
      <4>1. r[1] \in 1..n /\ r[2] \in 1..n /\ s[2] \in 1..n /\ (r = s \/ r[2] < s[1] \/ s[2] < r[1])
        BY <1>1, <3>1
      <4>2. r[2] <= i - 1
        BY <3>1, <3>3, <3>5, <4>1
      <4>3. Len(f[i]) \in Nat
        BY <3>4
      <4> QED
        BY <3>4, <4>1, <4>2, <4>3
    <3> QED
      BY <2>3, <3>4, <3>5 DEF Left
  <2> QED
    BY <2>4, <2>5
<1>5. \A i \in 1..(n + 1) : i \in G
  <2> HIDE DEF G
  <2> QED
    BY <1>1, <1>3, <1>4, FromTheEnd
<1> QED
  BY <1>5 DEF n

-----------------------------------------------------------------------------
(* Two texts that meet where no name ends or starts are read, and scoped,  *)
(* each by itself.                                                         *)

LEMMA WholeText ==
  ASSUME NEW q, Whole(q)
  PROVE  q \in Seq(Token) /\ Len(q) \in Nat /\ Len(q) > 0 /\ DOMAIN q = 1..Len(q)
<1>1. q \in Seq(Token) /\ q # <<>>
  BY DEF Whole
<1>2. Len(q) \in Nat /\ DOMAIN q = 1..Len(q)
  BY <1>1, LenProperties
<1>3. Len(q) \in Nat \ {0}
  BY <1>1, EmptySeq
<1> QED
  BY <1>1, <1>2, <1>3

LEMMA SelectorFacts ==
  ASSUME NEW q, Whole(q), NEW s \in Selectors(q)
  PROVE  /\ s[1] \in 1..Len(q) /\ s[2] \in 1..Len(q) /\ s[1] <= s[2]
         /\ InjectSelector(SubSeq(q, s[1], s[2])) \in Seq(Token)
         /\ \A r \in Selectors(q) : r = s \/ r[2] < s[1] \/ s[2] < r[1]
<1>1. DOMAIN q = 1..Len(q)
  BY WholeText
<1>2. /\ s[1] \in DOMAIN q /\ s[2] \in DOMAIN q /\ s[1] <= s[2]
      /\ InjectSelector(SubSeq(q, s[1], s[2])) \in Seq(Token)
      /\ \A r \in Selectors(q) : r = s \/ r[2] < s[1] \/ s[2] < r[1]
  BY DEF Whole
<1> QED
  BY <1>1, <1>2

LEMMA ComposedOf ==
  ASSUME NEW a, NEW b, Whole(a), Whole(b), Meets(a, b)
  PROVE  Composed(a \o b, a, b) /\ a \o b \in Seq(Token)
<1>1. a \in Seq(Token) /\ b \in Seq(Token) /\ Len(a) > 0 /\ Len(b) > 0
  BY WholeText
<1>2. Closed(a) /\ Closed(b)
  BY DEF Whole, Closed
<1>3. IsJoin(a \o b, a, b) /\ a \o b \in Seq(Token)
  BY <1>1, JoinOf
<1> QED
  BY <1>1, <1>2, <1>3 DEF Composed

(* The text of each selector is the same in the joined text.               *)
LEMMA SelectorLeft ==
  ASSUME NEW a, NEW b, Whole(a), Whole(b), NEW s \in Selectors(a)
  PROVE  SubSeq(a \o b, s[1], s[2]) = SubSeq(a, s[1], s[2])
<1>1. a \in Seq(Token) /\ b \in Seq(Token) /\ Len(a) \in Nat
  BY WholeText
<1>2. s[1] \in 1..Len(a) /\ s[2] \in 1..Len(a)
  BY SelectorFacts
<1>3. s[1] \in 1..(Len(a) + 1) /\ s[2] \in 0..Len(a)
  BY <1>1, <1>2
<1> QED
  BY <1>1, <1>3, SubSeqBefore

LEMMA SelectorRight ==
  ASSUME NEW a, NEW b, Whole(a), Whole(b), NEW s \in Selectors(b)
  PROVE  SubSeq(a \o b, Len(a) + s[1], Len(a) + s[2]) = SubSeq(b, s[1], s[2])
<1>1. a \in Seq(Token) /\ b \in Seq(Token) /\ Len(b) \in Nat
  BY WholeText
<1>2. s[1] \in 1..Len(b) /\ s[2] \in 1..Len(b)
  BY SelectorFacts
<1>3. s[1] \in 1..(Len(b) + 1) /\ s[2] \in 0..Len(b)
  BY <1>1, <1>2
<1>4. InsideRight(a, b, s[1], s[2])
  BY <1>1, <1>3, SubSeqJoin
<1> QED
  BY <1>4 DEF InsideRight

LEMMA BracesClose ==
  ASSUME NEW t, NEW a, NEW b, Composed(t, a, b), NEW i \in DOMAIN t, t[i].value = "{"
  PROVE  Balances(t, i, "{", "}") # {}
<1> DEFINE o == "{"
           c == "}"
<1>1. IsJoin(t, a, b) /\ Len(a) \in Nat /\ DOMAIN a = 1..Len(a) /\ DOMAIN b = 1..Len(b)
  BY DEF Composed, IsJoin
<1>2. CASE i \in DOMAIN a
  <2>1. a[i].value = "{"
    BY <1>1, <1>2 DEF IsJoin
  <2>2. Balances(a, i, o, c) # {} /\ i \in 1..Len(a)
    BY <1>1, <1>2, <2>1 DEF Composed, Closed
  <2> HIDE DEF o, c
  <2>3. Balances(t, i, o, c) # {}
    BY <1>1, <2>2, MatchLeft
  <2> QED
    BY <2>3 DEF o, c
<1>3. ASSUME NEW j \in DOMAIN b, i = Len(a) + j PROVE Balances(t, i, "{", "}") # {}
  <2>1. b[j].value = "{"
    BY <1>1, <1>3 DEF IsJoin
  <2>2. Balances(b, j, o, c) # {} /\ j \in 1..Len(b)
    BY <1>1, <2>1 DEF Composed, Closed
  <2> DEFINE k == j
  <2>3. Balances(b, k, o, c) # {} /\ k \in 1..Len(b)
    BY <2>2
  <2>4. i = Len(a) + k
    BY <1>3
  <2> HIDE DEF o, c, k
  <2>5. /\ Balances(t, Len(a) + k, o, c) # {}
        /\ Matching(t, Len(a) + k, o, c) = Len(a) + Matching(b, k, o, c)
        /\ Matching(b, k, o, c) \in k..Len(b)
    BY <1>1, <2>3, MatchRight
  <2> QED
    BY <2>4, <2>5 DEF o, c
<1>4. i \in DOMAIN a \/ (i - Len(a) \in DOMAIN b /\ i = Len(a) + (i - Len(a)))
  BY <1>1, JoinedPositions
<1> QED
  BY <1>2, <1>3, <1>4

LEMMA ListsClose ==
  ASSUME NEW t, NEW a, NEW b, Composed(t, a, b), NEW i \in DOMAIN t, OpensList(t, i)
  PROVE  Balances(t, i + 1, "(", ")") # {}
<1> DEFINE o == "("
           c == ")"
<1>1. /\ IsJoin(t, a, b) /\ Len(a) \in Nat /\ DOMAIN a = 1..Len(a) /\ DOMAIN b = 1..Len(b)
      /\ i \in Opens(t)
  BY DEF Composed, IsJoin, Opens
<1>2. CASE i \in DOMAIN a
  <2>1. i \in Opens(a) /\ i + 1 \in 1..Len(a)
    BY <1>1, <1>2, ListLeft
  <2> DEFINE k == i + 1
  <2>2. Balances(a, k, o, c) # {} /\ k \in 1..Len(a)
    BY <2>1 DEF Composed, Closed, Opens
  <2> HIDE DEF o, c, k
  <2>3. Balances(t, k, o, c) # {}
    BY <1>1, <2>2, MatchLeft
  <2> QED
    BY <2>3 DEF o, c, k
<1>3. ASSUME NEW j \in DOMAIN b, i = Len(a) + j PROVE Balances(t, i + 1, "(", ")") # {}
  <2> DEFINE k == j + 1
  <2>1. ListCarried(t, a, b, j)
    BY <1>1, ListRight
  <2>2. j \in Opens(b) /\ k \in 1..Len(b) /\ i + 1 = Len(a) + k
    BY <1>1, <1>3, <2>1 DEF ListCarried
  <2>3. Balances(b, k, o, c) # {}
    BY <2>2 DEF Composed, Closed, Opens
  <2> HIDE DEF o, c, k
  <2>4. Balances(t, Len(a) + k, o, c) # {}
    BY <1>1, <2>2, <2>3, MatchRight
  <2> QED
    BY <2>2, <2>4 DEF o, c
<1>4. i \in DOMAIN a \/ (i - Len(a) \in DOMAIN b /\ i = Len(a) + (i - Len(a)))
  BY <1>1, JoinedPositions
<1> QED
  BY <1>2, <1>3, <1>4

LEMMA WholeJoin ==
  ASSUME NEW a, NEW b, Whole(a), Whole(b), Meets(a, b)
  PROVE  Whole(a \o b)
<1> DEFINE t == a \o b
           n == Len(a)
           m == Len(b)
<1>1. Composed(t, a, b) /\ t \in Seq(Token)
  BY ComposedOf
<1>2. n \in Nat /\ m \in Nat /\ n > 0 /\ Len(t) = n + m /\ DOMAIN t = 1..(n + m)
  <2>1. IsJoin(t, a, b) /\ Len(a) > 0
    BY <1>1 DEF Composed
  <2> QED
    BY <2>1 DEF IsJoin
<1>3. t # <<>>
  BY <1>1, <1>2, EmptySeq
<1>4. \A s \in Selectors(a) : SubSeq(t, s[1], s[2]) = SubSeq(a, s[1], s[2])
  BY SelectorLeft
<1>5. \A s \in Selectors(b) : SubSeq(t, n + s[1], n + s[2]) = SubSeq(b, s[1], s[2])
  BY SelectorRight
<1>6. Selectors(t) = Selectors(a) \cup Shifted(n, Selectors(b))
  BY <1>1, SelectorsJoin
<1>7. \A i \in DOMAIN t : t[i].value = "{" => Balances(t, i, "{", "}") # {}
  BY <1>1, BracesClose
<1>8. \A i \in DOMAIN t : OpensList(t, i) => Balances(t, i + 1, "(", ")") # {}
  BY <1>1, ListsClose
<1> HIDE DEF t, n, m
<1>9. \A s \in Selectors(a) : s[1] \in 1..n /\ s[2] \in 1..n /\ s[1] <= s[2]
  BY SelectorFacts DEF n
<1>10. \A s \in Selectors(b) : s[1] \in 1..m /\ s[2] \in 1..m /\ s[1] <= s[2]
  BY SelectorFacts DEF m
<1> DEFINE Good(s) == /\ s[1] \in DOMAIN t /\ s[2] \in DOMAIN t /\ s[1] <= s[2]
                      /\ InjectSelector(SubSeq(t, s[1], s[2])) \in Seq(Token)
<1>11. ASSUME NEW s \in Selectors(a)
       PROVE  Good(s) /\ \A r \in Selectors(t) : r = s \/ r[2] < s[1] \/ s[2] < r[1]
  <2>1. Good(s)
    <3>1. s[1] \in DOMAIN t /\ s[2] \in DOMAIN t /\ s[1] <= s[2]
      BY <1>2, <1>9
    <3>2. InjectSelector(SubSeq(t, s[1], s[2])) \in Seq(Token)
      BY <1>4, SelectorFacts
    <3> QED
      BY <3>1, <3>2
  <2>2. ASSUME NEW r \in Selectors(t) PROVE r = s \/ r[2] < s[1] \/ s[2] < r[1]
    <3>1. CASE r \in Selectors(a)
      BY <3>1, SelectorFacts
    <3>2. CASE r \in Shifted(n, Selectors(b))
      <4>1. PICK u \in Selectors(b) : r = <<n + u[1], n + u[2]>>
        BY <3>2 DEF Shifted
      <4>2. r[1] = n + u[1]
        BY <4>1
      <4> QED
        BY <1>2, <1>9, <1>10, <4>2
    <3> QED
      BY <1>6, <3>1, <3>2
  <2> QED
    BY <2>1, <2>2
<1>12. ASSUME NEW s \in Shifted(n, Selectors(b))
       PROVE  Good(s) /\ \A r \in Selectors(t) : r = s \/ r[2] < s[1] \/ s[2] < r[1]
  <2>1. PICK u \in Selectors(b) : s = <<n + u[1], n + u[2]>>
    BY DEF Shifted
  <2>2. s[1] = n + u[1] /\ s[2] = n + u[2]
    BY <2>1
  <2>3. u[1] \in 1..m /\ u[2] \in 1..m /\ u[1] <= u[2]
    BY <1>10
  <2>4. Good(s)
    <3>1. s[1] \in DOMAIN t /\ s[2] \in DOMAIN t /\ s[1] <= s[2]
      BY <1>2, <2>2, <2>3
    <3>2. InjectSelector(SubSeq(t, s[1], s[2])) \in Seq(Token)
      BY <1>5, <2>2, SelectorFacts
    <3> QED
      BY <3>1, <3>2
  <2>5. ASSUME NEW r \in Selectors(t) PROVE r = s \/ r[2] < s[1] \/ s[2] < r[1]
    <3>1. CASE r \in Selectors(a)
      BY <1>2, <1>9, <2>2, <2>3, <3>1
    <3>2. CASE r \in Shifted(n, Selectors(b))
      <4>1. PICK v \in Selectors(b) : r = <<n + v[1], n + v[2]>>
        BY <3>2 DEF Shifted
      <4>2. r[1] = n + v[1] /\ r[2] = n + v[2]
        BY <4>1
      <4>3. v = u \/ v[2] < u[1] \/ u[2] < v[1]
        BY SelectorFacts
      <4>4. v[1] \in 1..m /\ v[2] \in 1..m
        BY <1>10
      <4>5. CASE v = u
        BY <2>1, <4>1, <4>5
      <4>6. CASE v[2] < u[1] \/ u[2] < v[1]
        BY <1>2, <2>2, <2>3, <4>2, <4>4, <4>6
      <4> QED
        BY <4>3, <4>5, <4>6
    <3> QED
      BY <1>6, <3>1, <3>2
  <2> QED
    BY <2>4, <2>5
<1>13. \A s \in Selectors(t) : Good(s) /\ \A r \in Selectors(t) : r = s \/ r[2] < s[1] \/ s[2] < r[1]
  <2> HIDE DEF Good
  <2> QED
    BY <1>6, <1>11, <1>12
<1>14. Whole(t)
  BY <1>1, <1>3, <1>7, <1>8, <1>13 DEF Whole
<1> QED
  BY <1>14 DEF t

(* What is put together when the selector s of q is replaced in the text.  *)
IsReplaced(text, q, s, x, y, z) ==
  /\ x \in Seq(Token) /\ y \in Seq(Token) /\ z \in Seq(Token)
  /\ x = SubSeq(text, 1, s[1] - 1)
  /\ y = InjectSelector(SubSeq(q, s[1], s[2]))
  /\ z = SubSeq(text, s[2] + 1, Len(text))
  /\ Replaced(text, q, s) = (x \o y) \o z

LEMMA Pieces ==
  ASSUME NEW q, Whole(q), NEW s \in Selectors(q), NEW text \in Seq(Token), s[2] <= Len(text)
  PROVE  \E x, y, z : IsReplaced(text, q, s, x, y, z)
<1> DEFINE x == SubSeq(text, 1, s[1] - 1)
           y == InjectSelector(SubSeq(q, s[1], s[2]))
           z == SubSeq(text, s[2] + 1, Len(text))
<1>1. Len(text) \in Nat /\ \A k \in 1..Len(text) : text[k] \in Token
  OBVIOUS
<1>2. /\ s[1] \in Nat \ {0} /\ s[2] \in Nat /\ s[1] <= s[2]
      /\ InjectSelector(SubSeq(q, s[1], s[2])) \in Seq(Token)
  BY SelectorFacts, WholeText
<1>3. x \in Seq(Token)
  <2>1. \A k \in 1..(s[1] - 1) : text[k] \in Token
    BY <1>1, <1>2
  <2> QED
    BY <1>2, <2>1, SubSeqProperties
<1>4. z \in Seq(Token)
  <2>1. \A k \in (s[2] + 1)..Len(text) : text[k] \in Token
    BY <1>1, <1>2
  <2> QED
    BY <1>1, <1>2, <2>1, SubSeqProperties
<1>5. IsReplaced(text, q, s, x, y, z)
  BY <1>2, <1>3, <1>4 DEF Replaced, IsReplaced
<1> HIDE DEF x, y, z
<1> QED
  BY <1>5

Cat(p, q) == p \o q

LEMMA CatAssociates ==
  ASSUME NEW p \in Seq(Token), NEW q \in Seq(Token), NEW r \in Seq(Token)
  PROVE  Cat(p, q) \in Seq(Token) /\ Cat(Cat(p, q), r) = Cat(p, Cat(q, r))
BY ConcatProperties, ConcatAssociative DEF Cat

LEMMA ReplacedLeft ==
  ASSUME NEW a, NEW b, Whole(a), Whole(b), NEW s \in Selectors(a),
         NEW text \in Seq(Token), NEW rest \in Seq(Token), s[2] <= Len(text)
  PROVE  Replaced(text \o rest, a \o b, s) = Replaced(text, a, s) \o rest
<1> DEFINE S1 == s[1]
           S2 == s[2]
           n == Len(text)
           m == Len(rest)
           both == text \o rest
<1>1. /\ S1 \in Nat \ {0} /\ S2 \in Nat \ {0} /\ S1 <= S2 /\ S2 <= n
      /\ InjectSelector(SubSeq(a, S1, S2)) \in Seq(Token)
  BY SelectorFacts, WholeText
<1>2. /\ SubSeq(a \o b, S1, S2) = SubSeq(a, S1, S2)
      /\ n \in Nat /\ m \in Nat /\ both \in Seq(Token) /\ Len(both) = n + m
  <2>1. SubSeq(a \o b, S1, S2) = SubSeq(a, S1, S2)
    BY SelectorLeft
  <2>2. n \in Nat /\ m \in Nat
    BY LenProperties
  <2>3. both \in Seq(Token) /\ Len(both) = n + m
    BY ConcatProperties
  <2> QED
    BY <2>1, <2>2, <2>3
<1>3. s[1] = S1 /\ s[2] = S2
  OBVIOUS
<1>4. SubSeq(both, 1, S1 - 1) = SubSeq(text, 1, S1 - 1)
  <2> HIDE DEF S1, S2
  <2>1. 1 \in 1..(n + 1) /\ S1 - 1 \in 0..n
    BY <1>1, <1>2
  <2> QED
    BY <2>1, SubSeqBefore
<1>5. SubSeq(both, S2 + 1, n + m) = SubSeq(text, S2 + 1, n) \o rest
  <2> HIDE DEF S1, S2
  <2>1. S2 + 1 \in 1..(n + 1) /\ n \in 0..n
    BY <1>1, <1>2
  <2> QED
    BY <2>1, SubSeqBefore
<1> HIDE DEF S1, S2, both, n, m
<1>6. PICK x, y, z : IsReplaced(text, a, s, x, y, z)
  BY Pieces, <1>1 DEF S2, n
<1>7. /\ x \in Seq(Token) /\ y \in Seq(Token) /\ z \in Seq(Token)
      /\ x = SubSeq(text, 1, S1 - 1) /\ z = SubSeq(text, S2 + 1, n)
      /\ y = InjectSelector(SubSeq(a \o b, S1, S2))
      /\ Replaced(text, a, s) = (x \o y) \o z
  BY <1>2, <1>3, <1>6 DEF IsReplaced, n
<1>8. Replaced(both, a \o b, s) = (x \o y) \o (z \o rest)
  BY <1>2, <1>3, <1>4, <1>5, <1>7 DEF Replaced
<1>9. (x \o y) \o (z \o rest) = ((x \o y) \o z) \o rest
  <2>1. x \in Seq(Token) /\ y \in Seq(Token) /\ z \in Seq(Token)
    BY <1>7
  <2>2. Cat(Cat(x, y), Cat(z, rest)) = Cat(Cat(Cat(x, y), z), rest)
    BY <2>1, CatAssociates
  <2> QED
    BY <2>2 DEF Cat
<1> QED
  BY <1>7, <1>8, <1>9 DEF both

(* A selector of the second text is replaced where it stands in both.      *)
CarriedOver(a, b, s, text) ==
  Replaced(a \o text, a \o b, <<Len(a) + s[1], Len(a) + s[2]>>) = a \o Replaced(text, b, s)

LEMMA ReplacedRight ==
  ASSUME NEW a, NEW b, Whole(a), Whole(b), NEW s \in Selectors(b),
         NEW text \in Seq(Token), s[2] <= Len(text)
  PROVE  CarriedOver(a, b, s, text)
<1> DEFINE S1 == s[1]
           S2 == s[2]
           k == Len(a)
           n == Len(text)
           both == a \o text
           r == <<k + S1, k + S2>>
<1>1. /\ S1 \in Nat \ {0} /\ S2 \in Nat \ {0} /\ S1 <= S2 /\ S2 <= n
      /\ InjectSelector(SubSeq(b, S1, S2)) \in Seq(Token)
  BY SelectorFacts, WholeText
<1>2. /\ SubSeq(a \o b, k + S1, k + S2) = SubSeq(b, S1, S2)
      /\ a \in Seq(Token) /\ k \in Nat /\ n \in Nat /\ both \in Seq(Token) /\ Len(both) = k + n
  <2>1. SubSeq(a \o b, k + S1, k + S2) = SubSeq(b, S1, S2)
    BY SelectorRight
  <2>2. a \in Seq(Token) /\ k \in Nat /\ n \in Nat
    BY WholeText, LenProperties
  <2>3. both \in Seq(Token) /\ Len(both) = k + n
    BY <2>2, ConcatProperties
  <2> QED
    BY <2>1, <2>2, <2>3
<1>3. s[1] = S1 /\ s[2] = S2
  OBVIOUS
<1>4. r[1] = k + S1 /\ r[2] = k + S2
  OBVIOUS
<1>5. SubSeq(both, 1, k + (S1 - 1)) = a \o SubSeq(text, 1, S1 - 1)
  <2> HIDE DEF S1, S2
  <2>1. 1 \in 1..(n + 1) /\ S1 - 1 \in 0..n
    BY <1>1, <1>2
  <2> DEFINE j == S1 - 1
  <2> HIDE DEF j
  <2>2. j \in 0..Len(text) /\ 1 \in 1..(Len(text) + 1)
    BY <2>1 DEF j
  <2>3. a \in Seq(Token)
    BY <1>2
  <2>4. UpToRight(a, text, j)
    BY <2>2, <2>3, SubSeqJoin
  <2> QED
    BY <2>4 DEF j, UpToRight
<1>6. SubSeq(both, k + (S2 + 1), k + n) = SubSeq(text, S2 + 1, n)
  <2> HIDE DEF S1, S2
  <2> DEFINE i == S2 + 1
             j == n
  <2>1. i \in 1..(Len(text) + 1) /\ j \in 0..Len(text)
    BY <1>1, <1>2
  <2> HIDE DEF i, j
  <2>2. a \in Seq(Token)
    BY <1>2
  <2>3. InsideRight(a, text, i, j)
    BY <2>1, <2>2, SubSeqJoin
  <2> QED
    BY <2>3 DEF i, j, InsideRight
<1> HIDE DEF S1, S2, k, n, both, r
<1>7. k + S1 - 1 = k + (S1 - 1) /\ k + S2 + 1 = k + (S2 + 1)
  BY <1>1, <1>2
<1>8. PICK x, y, z : IsReplaced(text, b, s, x, y, z)
  BY Pieces, <1>1 DEF S2, n
<1>9. /\ x \in Seq(Token) /\ y \in Seq(Token) /\ z \in Seq(Token)
      /\ x = SubSeq(text, 1, S1 - 1) /\ z = SubSeq(text, S2 + 1, n)
      /\ y = InjectSelector(SubSeq(a \o b, k + S1, k + S2))
      /\ Replaced(text, b, s) = (x \o y) \o z
  BY <1>2, <1>3, <1>8 DEF IsReplaced, n
<1>10. Replaced(both, a \o b, r) = ((a \o x) \o y) \o z
  <2>1. SubSeq(both, 1, r[1] - 1) = a \o x
    <3>1. r[1] - 1 = k + (S1 - 1)
      BY <1>1, <1>2, <1>4
    <3> QED
      BY <1>5, <1>9, <3>1
  <2>2. InjectSelector(SubSeq(a \o b, r[1], r[2])) = y
    BY <1>4, <1>9
  <2>3. SubSeq(both, r[2] + 1, Len(both)) = z
    BY <1>2, <1>4, <1>6, <1>7, <1>9
  <2> QED
    BY <2>1, <2>2, <2>3 DEF Replaced
<1>11. ((a \o x) \o y) \o z = a \o ((x \o y) \o z)
  <2>1. x \in Seq(Token) /\ y \in Seq(Token) /\ z \in Seq(Token) /\ a \in Seq(Token)
    BY <1>2, <1>9
  <2>2. Cat(Cat(Cat(a, x), y), z) = Cat(a, Cat(Cat(x, y), z))
    BY <2>1, CatAssociates
  <2> QED
    BY <2>2 DEF Cat
<1> QED
  BY <1>9, <1>10, <1>11 DEF both, r, k, S1, S2, CarriedOver

LEMMA RewritingRight ==
  ASSUME NEW a, NEW b, Whole(a), Whole(b), Meets(a, b),
         NEW ft, NEW fb, IsRewriting(a \o b, ft), IsRewriting(b, fb)
  PROVE  \A j \in 1..(Len(b) + 1) : ft[Len(a) + j] = a \o fb[j]
<1> DEFINE t == a \o b
           n == Len(a)
           m == Len(b)
           G == {j \in 1..(m + 1) : ft[n + j] = a \o fb[j]}
<1>1. Composed(t, a, b) /\ Whole(t) /\ n \in Nat /\ m \in Nat /\ Len(t) = n + m
  <2>1. Composed(t, a, b)
    BY ComposedOf
  <2>2. Whole(t)
    BY WholeJoin
  <2>3. IsJoin(t, a, b)
    BY <2>1 DEF Composed
  <2> QED
    BY <2>1, <2>2, <2>3 DEF IsJoin
<1>2. /\ Selectors(t) = Selectors(a) \cup Shifted(n, Selectors(b))
      /\ LieIn(n, Selectors(a)) /\ LieIn(m, Selectors(b))
  BY <1>1, SelectorsJoin
<1>3. \A s \in Selectors(b), text \in Seq(Token) :
        s[2] <= Len(text) => Replaced(a \o text, t, <<n + s[1], n + s[2]>>) = a \o Replaced(text, b, s)
  <2>1. \A s \in Selectors(b), text \in Seq(Token) : s[2] <= Len(text) => CarriedOver(a, b, s, text)
    BY ReplacedRight
  <2> QED
    BY <2>1 DEF CarriedOver
<1>4. ft[(n + m) + 1] = a \o b /\ \A i \in 1..(n + m) : ft[i] = RewriteStep(t, i, ft[i + 1])
  BY <1>1 DEF IsRewriting
<1>5. fb[m + 1] = b /\ \A i \in 1..m : fb[i] = RewriteStep(b, i, fb[i + 1])
  BY DEF IsRewriting
<1>6. \A i \in 1..(m + 1) : Left(b, fb, i)
  BY RewritingKeepsPlaces
<1>7. m + 1 \in G
  <2> HIDE DEF n, m, t
  <2>1. m + 1 \in 1..(m + 1) /\ (n + m) + 1 = n + (m + 1)
    BY <1>1
  <2> QED
    BY <1>4, <1>5, <2>1
<1> HIDE DEF n, m, t
<1>8. ASSUME NEW j \in 1..m, j + 1 \in G PROVE j \in G
  <2>1. /\ j \in 1..(m + 1) /\ j + 1 \in 1..(m + 1) /\ n + j \in 1..(n + m)
        /\ (n + j) + 1 = n + (j + 1) /\ j < j + 1
    BY <1>1
  <2>2. ft[(n + j) + 1] = a \o fb[j + 1]
    BY <1>8, <2>1
  <2>3. /\ ft[n + j] = RewriteStep(t, n + j, a \o fb[j + 1])
        /\ fb[j] = RewriteStep(b, j, fb[j + 1])
    BY <1>4, <1>5, <2>1, <2>2
  <2>4. ASSUME NEW r \in HereOf(t, n + j)
        PROVE  \E s \in HereOf(b, j) : r = <<n + s[1], n + s[2]>>
    <3>1. r \in Selectors(t) /\ r[1] = n + j
      BY DEF HereOf
    <3>2. r \notin Selectors(a)
      <4>1. ~(n + j \in 1..n)
        BY <1>1
      <4> QED
        BY <1>2, <3>1, <4>1 DEF LieIn
    <3>3. PICK s \in Selectors(b) : r = <<n + s[1], n + s[2]>>
      BY <1>2, <3>1, <3>2 DEF Shifted
    <3>4. s[1] \in 1..m /\ r[1] = n + s[1]
      BY <1>2, <3>3 DEF LieIn
    <3>5. s[1] = j
      BY <1>1, <3>1, <3>4
    <3> QED
      BY <3>3, <3>5 DEF HereOf
  <2>5. CASE HereOf(b, j) = {}
    <3>1. HereOf(t, n + j) = {}
      BY <2>4, <2>5
    <3> QED
      BY <2>1, <2>3, <2>5, <3>1 DEF RewriteStep
  <2>6. ASSUME NEW s \in HereOf(b, j) PROVE j \in G
    <3> DEFINE r == <<n + s[1], n + s[2]>>
    <3>1. HereOf(b, j) # {} /\ (CHOOSE u \in HereOf(b, j) : TRUE) = s /\ s \in Selectors(b) /\ s[1] = j
      BY <2>6, OneSelector
    <3>2. r \in HereOf(t, n + j)
      <4>1. r[1] = n + j
        BY <3>1
      <4>2. r \in Shifted(n, Selectors(b))
        BY <3>1 DEF Shifted
      <4> HIDE DEF r
      <4> QED
        BY <1>2, <4>1, <4>2 DEF HereOf
    <3> HIDE DEF r
    <3>3. HereOf(t, n + j) # {} /\ (CHOOSE u \in HereOf(t, n + j) : TRUE) = r
      <4> DEFINE i == n + j
      <4> HIDE DEF i
      <4>1. r \in HereOf(t, i)
        BY <3>2 DEF i
      <4>2. HereOf(t, i) # {} /\ (CHOOSE u \in HereOf(t, i) : TRUE) = r
        BY <1>1, <4>1, OneSelector
      <4> QED
        BY <4>2 DEF i
    <3>4. ft[n + j] = Replaced(a \o fb[j + 1], t, r)
      BY <2>3, <3>3 DEF RewriteStep
    <3>5. fb[j] = Replaced(fb[j + 1], b, s)
      BY <2>3, <3>1 DEF RewriteStep
    <3>6. fb[j + 1] \in Seq(Token) /\ s[2] <= Len(fb[j + 1])
      <4>1. Left(b, fb, j + 1)
        BY <1>6, <2>1
      <4> QED
        BY <2>1, <3>1, <4>1 DEF Left
    <3>7. Replaced(a \o fb[j + 1], t, r) = a \o Replaced(fb[j + 1], b, s)
      BY <1>3, <3>1, <3>6 DEF r
    <3>8. ft[n + j] = a \o fb[j]
      BY <3>4, <3>5, <3>7
    <3> QED
      BY <2>1, <3>8
  <2> QED
    BY <2>5, <2>6
<1>9. \A j \in 1..(m + 1) : j \in G
  <2> HIDE DEF G
  <2> QED
    BY <1>1, <1>7, <1>8, FromTheEnd
<1> QED
  BY <1>9 DEF n, m

(* The texts g[i], each followed by the rest.                              *)
Followed(f, g, n, rest) == \A i \in 1..(n + 1) : f[i] = g[i] \o rest

LEMMA RewritingLeft ==
  ASSUME NEW a, NEW b, Whole(a), Whole(b), Meets(a, b),
         NEW ft, NEW fa, IsRewriting(a \o b, ft), IsRewriting(a, fa),
         NEW rest \in Seq(Token), ft[Len(a) + 1] = Cat(a, rest)
  PROVE  Followed(ft, fa, Len(a), rest)
<1> DEFINE t == a \o b
           n == Len(a)
           m == Len(b)
           G == {i \in 1..(n + 1) : ft[i] = fa[i] \o rest}
<1>1. Composed(t, a, b) /\ Whole(t) /\ n \in Nat /\ m \in Nat /\ Len(t) = n + m
  <2>1. Composed(t, a, b)
    BY ComposedOf
  <2>2. Whole(t)
    BY WholeJoin
  <2>3. IsJoin(t, a, b)
    BY <2>1 DEF Composed
  <2> QED
    BY <2>1, <2>2, <2>3 DEF IsJoin
<1>2. /\ Selectors(t) = Selectors(a) \cup Shifted(n, Selectors(b))
      /\ LieIn(n, Selectors(a)) /\ LieIn(m, Selectors(b))
  BY <1>1, SelectorsJoin
<1>3. \A s \in Selectors(a), text \in Seq(Token) :
        s[2] <= Len(text) => Replaced(text \o rest, t, s) = Replaced(text, a, s) \o rest
  BY ReplacedLeft
<1>4. \A i \in 1..(n + m) : ft[i] = RewriteStep(t, i, ft[i + 1])
  BY <1>1 DEF IsRewriting
<1>5. fa[n + 1] = a /\ \A i \in 1..n : fa[i] = RewriteStep(a, i, fa[i + 1])
  BY DEF IsRewriting
<1>6. \A i \in 1..(n + 1) : Left(a, fa, i)
  BY RewritingKeepsPlaces
<1>7. n + 1 \in G
  <2>1. n + 1 \in 1..(n + 1)
    BY <1>1
  <2> QED
    BY <1>5, <2>1 DEF Cat
<1> HIDE DEF n, m, t
<1>8. ASSUME NEW i \in 1..n, i + 1 \in G PROVE i \in G
  <2>1. i \in 1..(n + 1) /\ i + 1 \in 1..(n + 1) /\ i \in 1..(n + m) /\ i < i + 1
    BY <1>1
  <2>2. ft[i + 1] = fa[i + 1] \o rest
    BY <1>8
  <2>3. /\ ft[i] = RewriteStep(t, i, fa[i + 1] \o rest)
        /\ fa[i] = RewriteStep(a, i, fa[i + 1])
    BY <1>4, <1>5, <2>1, <2>2
  <2>4. HereOf(t, i) = HereOf(a, i)
    <3>1. ASSUME NEW r \in Shifted(n, Selectors(b)) PROVE r[1] # i
      <4>1. PICK s \in Selectors(b) : r = <<n + s[1], n + s[2]>>
        BY DEF Shifted
      <4>2. s[1] \in 1..m /\ r[1] = n + s[1]
        BY <1>2, <4>1 DEF LieIn
      <4> QED
        BY <1>1, <4>2
    <3> QED
      BY <1>2, <3>1 DEF HereOf
  <2>5. CASE HereOf(a, i) = {}
    BY <2>1, <2>3, <2>4, <2>5 DEF RewriteStep
  <2>6. ASSUME NEW s \in HereOf(a, i) PROVE i \in G
    <3>1. HereOf(a, i) # {} /\ (CHOOSE u \in HereOf(a, i) : TRUE) = s /\ s \in Selectors(a) /\ s[1] = i
      BY <2>6, OneSelector
    <3>2. ft[i] = Replaced(fa[i + 1] \o rest, t, s) /\ fa[i] = Replaced(fa[i + 1], a, s)
      BY <2>3, <2>4, <3>1 DEF RewriteStep
    <3>3. fa[i + 1] \in Seq(Token) /\ s[2] <= Len(fa[i + 1])
      <4>1. Left(a, fa, i + 1)
        BY <1>6, <2>1
      <4> QED
        BY <2>1, <3>1, <4>1 DEF Left
    <3>4. Replaced(fa[i + 1] \o rest, t, s) = Replaced(fa[i + 1], a, s) \o rest
      BY <1>3, <3>1, <3>3
    <3>5. ft[i] = fa[i] \o rest
      BY <3>2, <3>4
    <3> QED
      BY <2>1, <3>5
  <2> QED
    BY <2>5, <2>6
<1>9. \A i \in 1..(n + 1) : i \in G
  <2> HIDE DEF G
  <2> QED
    BY <1>1, <1>7, <1>8, FromTheEnd
<1> QED
  BY <1>9 DEF n, Followed

(* Scoping a text is scoping what it is put together from.                 *)
LEMMA InjectJoin ==
  ASSUME NEW a, NEW b, Whole(a), Whole(b), Meets(a, b)
  PROVE  InjectClusterLabel(Cat(a, b)) = Cat(InjectClusterLabel(a), InjectClusterLabel(b))
<1>1. Len(a) \in Nat /\ Len(b) \in Nat /\ Len(a \o b) \in Nat
  BY WholeText, WholeJoin
<1>2. PICK fa : IsRewriting(a, fa) /\ InjectClusterLabel(a) = fa[1]
  BY <1>1, RewritingIsDefined
<1>3. PICK fb : IsRewriting(b, fb) /\ InjectClusterLabel(b) = fb[1]
  BY <1>1, RewritingIsDefined
<1>4. PICK ft : IsRewriting(a \o b, ft) /\ InjectClusterLabel(a \o b) = ft[1]
  BY <1>1, RewritingIsDefined
<1>5. 1 \in 1..(Len(a) + 1) /\ 1 \in 1..(Len(b) + 1)
  BY <1>1
<1>6. fb[1] \in Seq(Token)
  BY <1>3, <1>5, RewritingKeepsPlaces DEF Left
<1>7. ft[Len(a) + 1] = a \o fb[1]
  BY <1>3, <1>4, <1>5, RewritingRight
<1>8. ft[1] = fa[1] \o fb[1]
  <2> DEFINE r == fb[1]
  <2>1. r \in Seq(Token) /\ ft[Len(a) + 1] = Cat(a, r)
    BY <1>6, <1>7 DEF Cat
  <2> HIDE DEF r
  <2>2. Followed(ft, fa, Len(a), r)
    BY <1>2, <1>4, <2>1, RewritingLeft
  <2> QED
    BY <1>5, <2>2 DEF r, Followed
<1> QED
  BY <1>2, <1>3, <1>4, <1>8 DEF Cat

LEMMA InjectBare ==
  ASSUME NEW q, Bare(q)
  PROVE  InjectClusterLabel(q) = q
<1> DEFINE n == Len(q)
<1>1. n \in Nat /\ Selectors(q) = {}
  BY WholeText DEF Bare
<1>2. PICK f : IsRewriting(q, f) /\ InjectClusterLabel(q) = f[1]
  BY <1>1, RewritingIsDefined
<1> DEFINE G == {i \in 1..(n + 1) : f[i] = q}
<1> HIDE DEF n
<1>3. n + 1 \in G
  <2>1. n + 1 \in 1..(n + 1)
    BY <1>1
  <2> QED
    BY <1>2, <2>1 DEF IsRewriting, n
<1>4. ASSUME NEW i \in 1..n, i + 1 \in G PROVE i \in G
  <2>1. i \in 1..(n + 1)
    BY <1>1
  <2>2. f[i] = f[i + 1]
    BY <1>1, <1>2 DEF IsRewriting, RewriteStep, HereOf, n
  <2> QED
    BY <1>4, <2>1, <2>2
<1>5. \A i \in 1..(n + 1) : i \in G
  <2> HIDE DEF G
  <2> QED
    BY <1>1, <1>3, <1>4, FromTheEnd
<1> QED
  BY <1>1, <1>2, <1>5

(* Two queries that meet where no name ends or starts, in either form.     *)
LEMMA ScopedJoin ==
  ASSUME NEW q, NEW v, Scoped(q), Scoped(v),
         Meets(q.text, v.text), Meets(q.scoped, v.scoped)
  PROVE  Scoped(Query(q.text \o v.text, q.scoped \o v.scoped))
<1> DEFINE T == q.text \o v.text
           S == q.scoped \o v.scoped
<1>1. /\ Whole(q.text) /\ Whole(q.scoped) /\ Whole(v.text) /\ Whole(v.scoped)
      /\ InjectClusterLabel(q.text) = q.scoped /\ InjectClusterLabel(q.scoped) = q.scoped
      /\ InjectClusterLabel(v.text) = v.scoped /\ InjectClusterLabel(v.scoped) = v.scoped
  BY DEF Scoped
<1>2. Whole(T) /\ Whole(S)
  BY <1>1, WholeJoin
<1>3. InjectClusterLabel(T) = S
  <2>1. InjectClusterLabel(Cat(q.text, v.text)) = Cat(q.scoped, v.scoped)
    BY <1>1, InjectJoin
  <2> QED
    BY <2>1 DEF Cat
<1>4. InjectClusterLabel(S) = S
  <2>1. InjectClusterLabel(Cat(q.scoped, v.scoped)) = Cat(q.scoped, v.scoped)
    BY <1>1, InjectJoin
  <2> QED
    BY <2>1 DEF Cat
<1>5. Query(T, S).text = T /\ Query(T, S).scoped = S
  BY DEF Query
<1> HIDE DEF T, S
<1>6. Scoped(Query(T, S))
  BY <1>2, <1>3, <1>4, <1>5 DEF Scoped
<1> QED
  BY <1>6 DEF T, S

LEMMA BareIsScoped ==
  ASSUME NEW p, Bare(p)
  PROVE  Scoped(Query(p, p)) /\ Query(p, p).text = p /\ Query(p, p).scoped = p
<1>1. Query(p, p).text = p /\ Query(p, p).scoped = p
  BY DEF Query
<1> QED
  BY <1>1, InjectBare DEF Scoped, Bare

LEMMA ScopedThenAfter ==
  ASSUME NEW q, Scoped(q), NEW p, After(p)
  PROVE  Scoped(Query(q.text \o p, q.scoped \o p))
<1>1. CASE p = <<>>
  <2>1. q.text \in Seq(Token) /\ q.scoped \in Seq(Token)
    BY WholeText DEF Scoped
  <2>2. q.text \o p = q.text
    BY <1>1, <2>1, ConcatEmptySeq
  <2>3. q.scoped \o p = q.scoped
    BY <1>1, <2>1, ConcatEmptySeq
  <2>4. Query(q.text, q.scoped).text = q.text /\ Query(q.text, q.scoped).scoped = q.scoped
    BY DEF Query
  <2>5. Scoped(Query(q.text, q.scoped))
    BY <2>4 DEF Scoped
  <2> QED
    BY <2>2, <2>3, <2>5
<1>2. CASE Bare(p) /\ StartsFree(p)
  <2> DEFINE v == Query(p, p)
  <2>1. Scoped(v) /\ v.text = p /\ v.scoped = p
    BY <1>2, BareIsScoped
  <2> HIDE DEF v
  <2>2. Meets(q.text, v.text) /\ Meets(q.scoped, v.scoped)
    BY <1>2, <2>1 DEF Meets
  <2>3. Scoped(Query(q.text \o v.text, q.scoped \o v.scoped))
    BY <2>1, <2>2, ScopedJoin
  <2> QED
    BY <2>1, <2>3
<1> QED
  BY <1>1, <1>2 DEF After

LEMMA BeforeThenScoped ==
  ASSUME NEW q, Scoped(q), NEW p, Before(p)
  PROVE  Scoped(Query(p \o q.text, p \o q.scoped))
<1>1. CASE p = <<>>
  <2>1. q.text \in Seq(Token) /\ q.scoped \in Seq(Token)
    BY WholeText DEF Scoped
  <2>2. p \o q.text = q.text
    BY <1>1, <2>1, ConcatEmptySeq
  <2>3. p \o q.scoped = q.scoped
    BY <1>1, <2>1, ConcatEmptySeq
  <2>4. Query(q.text, q.scoped).text = q.text /\ Query(q.text, q.scoped).scoped = q.scoped
    BY DEF Query
  <2>5. Scoped(Query(q.text, q.scoped))
    BY <2>4 DEF Scoped
  <2> QED
    BY <2>2, <2>3, <2>5
<1>2. CASE Bare(p) /\ EndsFree(p)
  <2> DEFINE v == Query(p, p)
  <2>1. Scoped(v) /\ v.text = p /\ v.scoped = p
    BY <1>2, BareIsScoped
  <2> HIDE DEF v
  <2>2. Meets(v.text, q.text) /\ Meets(v.scoped, q.scoped)
    BY <1>2, <2>1 DEF Meets
  <2>3. Scoped(Query(v.text \o q.text, v.scoped \o q.scoped))
    BY <2>1, <2>2, ScopedJoin
  <2> QED
    BY <2>1, <2>3
<1> QED
  BY <1>1, <1>2 DEF Before

LEMMA AroundIsScoped ==
  ASSUME NEW q, Scoped(q), NEW w, Before(w.before), After(w.after)
  PROVE  Scoped(Around(w, q))
<1> DEFINE p == Query(w.before \o q.text, w.before \o q.scoped)
<1>1. Scoped(p)
  BY BeforeThenScoped
<1>2. p.text = w.before \o q.text /\ p.scoped = w.before \o q.scoped
  BY DEF Query
<1> HIDE DEF p
<1>3. Scoped(Query(p.text \o w.after, p.scoped \o w.after))
  BY <1>1, ScopedThenAfter
<1> QED
  BY <1>2, <1>3 DEF Around

LEMMA EndsLikeTheLast ==
  ASSUME NEW a, NEW b, Whole(a), Whole(b), EndsFree(b)
  PROVE  EndsFree(a \o b)
<1>1. a \in Seq(Token) /\ b \in Seq(Token) /\ Len(b) > 0 /\ Len(a) \in Nat /\ Len(b) \in Nat
  BY WholeText
<1>2. IsJoin(a \o b, a, b)
  BY <1>1, JoinOf
<1> DEFINE t == a \o b
<1> HIDE DEF t
<1>3. t[Len(t)] = b[Len(b)]
  <2>1. Len(b) \in 1..Len(b)
    BY <1>1
  <2> QED
    BY <1>2, <2>1 DEF IsJoin, t
<1>4. EndsFree(t)
  BY <1>3 DEF EndsFree
<1> QED
  BY <1>4 DEF t

LEMMA OperatorIsScoped ==
  ASSUME NEW q, Scoped(q), NEW v, Scoped(v), NEW op, op # <<>>, Before(op), After(op)
  PROVE  Scoped(Query(q.text \o op \o v.text, q.scoped \o op \o v.scoped))
<1>1. Bare(op) /\ EndsFree(op) /\ Whole(op)
  BY DEF Before, Bare
<1> DEFINE p == Query(q.text \o op, q.scoped \o op)
<1>2. Scoped(p)
  BY ScopedThenAfter
<1>3. p.text = q.text \o op /\ p.scoped = q.scoped \o op
  BY DEF Query
<1> HIDE DEF p
<1>4. EndsFree(p.text) /\ EndsFree(p.scoped)
  <2>1. Whole(q.text) /\ Whole(q.scoped)
    BY DEF Scoped
  <2>2. EndsFree(q.text \o op)
    BY <1>1, <2>1, EndsLikeTheLast
  <2>3. EndsFree(q.scoped \o op)
    BY <1>1, <2>1, EndsLikeTheLast
  <2> QED
    BY <1>3, <2>2, <2>3
<1>5. Meets(p.text, v.text) /\ Meets(p.scoped, v.scoped)
  BY <1>4 DEF Meets
<1>6. Scoped(Query(p.text \o v.text, p.scoped \o v.scoped))
  BY <1>2, <1>5, ScopedJoin
<1> QED
  BY <1>3, <1>6

(* A query is asked, and grows, only before it is forwarded.               *)
ScopeInv ==
  /\ query = NoQuery => forwarded = NoRequest
  /\ query # NoQuery => Scoped(query)
  /\ EverySelectorIsScoped

(* What the proxy rewrites is scoped.                                      *)
LEMMA RewrittenIsScoped ==
  ASSUME Scoped(query), NEW keys
  PROVE  ScopedIn(RewriteParams(Params(keys)))
<1> DEFINE params == Params(keys)
           result == RewriteParams(params)
<1>1. InjectClusterLabel(query.text) = query.scoped
      /\ InjectClusterLabel(query.scoped) = query.scoped
  BY DEF Scoped
<1>2. /\ DOMAIN params = DOMAIN keys
      /\ \A n \in DOMAIN keys :
           /\ params[n].key = keys[n] /\ "value" \in DOMAIN params[n]
           /\ keys[n] \in Rewritten => params[n].value = query.text
  BY DEF Params
<1> HIDE DEF params
<1>3. DOMAIN result = DOMAIN keys
  BY <1>2 DEF RewriteParams
<1>4. ASSUME NEW n \in DOMAIN keys, result[n].key \in Rewritten
      PROVE  result[n].value = query.scoped
  <2> DEFINE P == params[n]
  <2>1. result[n] = IF P.key \in Rewritten
                    THEN [P EXCEPT !.value = InjectClusterLabel(P.value)] ELSE P
    BY <1>2 DEF RewriteParams
  <2>2. "value" \in DOMAIN P /\ (P.key \in Rewritten => P.value = query.text)
    BY <1>2
  <2> HIDE DEF P
  <2>3. P.key \in Rewritten
    BY <1>4, <2>1
  <2>4. result[n].value = InjectClusterLabel(P.value)
    BY <2>1, <2>2, <2>3
  <2> QED
    BY <1>1, <2>2, <2>3, <2>4
<1> HIDE DEF result
<1>5. ScopedIn(result)
  BY <1>1, <1>3, <1>4 DEF ScopedIn
<1> QED
  BY <1>5 DEF result, params

(* It is the form of a request that has one, else the URL.                 *)
LEMMA ForwardedIsScoped ==
  ASSUME ScopeInv, NEW type \in RequestTypes, NEW url, NEW body, Forward(type, url, body)
  PROVE  ScopeInv'
<1>1. query # NoQuery /\ UNCHANGED query /\ Scoped(query)
  BY DEF Forward, ScopeInv
<1>2. /\ ScopedIn(RewriteParams(Params(url)))
      /\ ScopedIn(RewriteParams(Params(body)))
  BY <1>1, RewrittenIsScoped
<1>3. /\ forwarded'.type = type
      /\ type = "form" => forwarded'.body = RewriteParams(Params(body))
      /\ type # "form" => forwarded'.url = RewriteParams(Params(url))
  BY DEF Forward, RequestTypes
<1>4. EverySelectorIsScoped'
  BY <1>1, <1>2, <1>3 DEF EverySelectorIsScoped, ScopedIn
<1> QED
  BY <1>1, <1>4 DEF ScopeInv

(* A query that grows before it is forwarded stays one the proxy scopes.   *)
LEMMA GrownIsScoped ==
  ASSUME Scoped(query'), forwarded = NoRequest, forwarded' = forwarded
  PROVE  ScopeInv'
<1>1. DOMAIN forwarded'.url = {} /\ forwarded'.type = "none"
  BY DEF NoRequest
<1>2. EverySelectorIsScoped'
  BY <1>1 DEF EverySelectorIsScoped, ScopedIn
<1> QED
  BY <1>2 DEF ScopeInv

(* Whatever the selectors, functions, aggregations, operators and          *)
(* modifiers that queries are built from, as long as each of them is       *)
(* scoped by itself and does not run into its neighbours: a query of any   *)
(* size, in the form or in the URL of a request without one, leaves        *)
(* prometheus_proxy with the matcher of the cluster in each selector and   *)
(* otherwise unchanged.  The URL beside a form, and a body of another type *)
(* leave as they came; nothing is shown of them (proxy.py:67-82).          *)
THEOREM QueriesAreScoped == PromSpec => []EverySelectorIsScoped
<1>1. PromInit => ScopeInv
  BY DEF PromInit, ScopeInv, EverySelectorIsScoped, ScopedIn, NoRequest
<1>2. ScopeInv /\ [PromNext]_promVars => ScopeInv'
  <2> SUFFICES ASSUME ScopeInv, [PromNext]_promVars PROVE ScopeInv'
    OBVIOUS
  <2>1. CASE Ask
    <3>1. forwarded = NoRequest /\ query' \in Atoms /\ forwarded' = forwarded
      BY <2>1 DEF Ask, ScopeInv
    <3>2. Scoped(query')
      <4>1. CASE query' \in Vectors
        BY <4>1, GrammarAssumption
      <4>2. ASSUME NEW w \in Modifiers, NEW v \in Vectors, query' = Around(w, v)
            PROVE  Scoped(query')
        BY <4>2, GrammarAssumption, AroundIsScoped
      <4> QED
        BY <3>1, <4>1, <4>2 DEF Atoms
    <3> QED
      BY <3>1, <3>2, GrownIsScoped
  <2>2. CASE Grow
    <3>1. /\ query # NoQuery /\ forwarded = NoRequest
          /\ query' \in Grown(query) /\ forwarded' = forwarded
      BY <2>2 DEF Grow
    <3>2. Scoped(query)
      BY <3>1 DEF ScopeInv
    <3>3. Scoped(query')
      <4>1. ASSUME NEW w \in Constructs, query' = Around(w, query) PROVE Scoped(query')
        BY <3>2, <4>1, GrammarAssumption, AroundIsScoped
      <4>2. ASSUME NEW op \in Operators, NEW v \in Vectors,
                   query' = Query(query.text \o op \o v.text, query.scoped \o op \o v.scoped)
            PROVE  Scoped(query')
        BY <3>2, <4>2, GrammarAssumption, OperatorIsScoped
      <4> QED
        BY <3>1, <4>1, <4>2 DEF Grown
    <3> QED
      BY <3>1, <3>3, GrownIsScoped
  <2>3. ASSUME NEW type \in RequestTypes, NEW url, NEW body, Forward(type, url, body)
        PROVE  ScopeInv'
    BY <2>3, ForwardedIsScoped
  <2>4. CASE UNCHANGED promVars
    BY <2>4 DEF ScopeInv, EverySelectorIsScoped, ScopedIn, promVars
  <2> QED
    BY <2>1, <2>2, <2>3, <2>4 DEF PromNext
<1>3. ScopeInv => EverySelectorIsScoped
  BY DEF ScopeInv
<1> QED
  BY <1>1, <1>2, <1>3, PTL DEF PromSpec
-----------------------------------------------------------------------------
(* GatekeeperCollector: types. *)

KeptOf(k, i, list) ==
  IF Violations[i] \in audit /\ KindOf[Violations[i]] = Kinds[k]
  THEN Append(list, Violations[i]) ELSE list

(* f[i] is what the loop lists of the first i violations.                  *)
IsListing(k, f) ==
  /\ f[0] = <<>>
  /\ \A i \in 1..Len(Violations) : f[i] = KeptOf(k, i, f[i - 1])

LEMMA ListingIsDefined ==
  ASSUME NEW k
  PROVE  \E f : IsListing(k, f) /\ Listed(k) = f[Len(Violations)]
<1> DEFINE n == Len(Violations)
           Upto(j, g) == g[0] = <<>> /\ \A i \in 1..j : g[i] = KeptOf(k, i, g[i - 1])
           G == {j \in 1..(n + 1) : \E g : Upto((n + 1) - j, g)}
           Loop(f) == [i \in 0..n |->
                         IF i = 0 THEN <<>>
                         ELSE IF Violations[i] \in audit /\ KindOf[Violations[i]] = Kinds[k]
                              THEN Append(f[i - 1], Violations[i]) ELSE f[i - 1]]
           the == CHOOSE f : f = Loop(f)
<1>1. n \in Nat
  BY CollectorAssumption DEF CollectorAssumption
<1>2. Listed(k) = the[n]
  BY DEF Listed
<1> HIDE DEF n
<1>3. n + 1 \in G
  <2> DEFINE g == [i \in 0..0 |-> <<>>]
  <2>1. n + 1 \in 1..(n + 1) /\ (n + 1) - (n + 1) = 0 /\ 1..0 = {}
    BY <1>1
  <2>2. g[0] = <<>>
    OBVIOUS
  <2> HIDE DEF g
  <2>3. Upto((n + 1) - (n + 1), g)
    BY <2>1, <2>2
  <2> QED
    BY <2>1, <2>3
<1>4. ASSUME NEW j \in 1..n, j + 1 \in G PROVE j \in G
  <2> DEFINE m == (n + 1) - j
  <2>1. m \in 1..n /\ (n + 1) - (j + 1) = m - 1 /\ j \in 1..(n + 1)
    BY <1>1
  <2> HIDE DEF m
  <2>2. PICK g : Upto(m - 1, g)
    <3> HIDE DEF Upto
    <3> QED
      BY <1>4, <2>1
  <2> DEFINE h == [i \in 0..m |-> IF i = m THEN KeptOf(k, m, g[m - 1]) ELSE g[i]]
  <2>3. h[0] = <<>>
    BY <2>1, <2>2
  <2>4. ASSUME NEW i \in 1..m PROVE h[i] = KeptOf(k, i, h[i - 1])
    <3>1. i \in 0..m /\ i - 1 \in 0..m /\ i - 1 # m
      BY <1>1, <2>1
    <3>2. h[i - 1] = g[i - 1]
      BY <3>1
    <3>3. CASE i = m
      BY <3>1, <3>2, <3>3
    <3>4. CASE i # m
      <4>1. i \in 1..(m - 1)
        BY <2>1, <3>4
      <4> QED
        BY <2>2, <3>1, <3>2, <3>4, <4>1
    <3> QED
      BY <3>3, <3>4
  <2> HIDE DEF h
  <2>5. Upto(m, h)
    BY <2>3, <2>4
  <2> HIDE DEF Upto
  <2>6. \E f : Upto((n + 1) - j, f)
    BY <2>5 DEF m
  <2> QED
    BY <2>1, <2>6
<1>5. PICK g : Upto(n, g)
  <2> HIDE DEF Upto
  <2>1. \A i \in 1..(n + 1) : i \in G
    <3> HIDE DEF G
    <3> QED
      BY <1>1, <1>3, <1>4, FromTheEnd
  <2>2. 1 \in 1..(n + 1) /\ (n + 1) - 1 = n
    BY <1>1
  <2>3. 1 \in G
    BY <2>1, <2>2
  <2> QED
    BY <2>2, <2>3
<1> DEFINE h == [i \in 0..n |-> g[i]]
<1>6. h = Loop(h)
  <2>1. ASSUME NEW i \in 0..n PROVE h[i] = Loop(h)[i]
    <3>1. CASE i = 0
      BY <1>5, <3>1
    <3>2. CASE i # 0
      <4>1. i \in 1..n /\ i - 1 \in 0..n
        BY <1>1, <3>2
      <4>2. g[i] = KeptOf(k, i, g[i - 1])
        BY <1>5, <4>1
      <4>3. h[i] = g[i] /\ h[i - 1] = g[i - 1]
        BY <4>1
      <4> HIDE DEF h
      <4> QED
        BY <3>2, <4>2, <4>3 DEF KeptOf
    <3> QED
      BY <3>1, <3>2
  <2> QED
    BY <2>1
<1> HIDE DEF h
<1>7. the = Loop(the)
  <2> HIDE DEF Loop
  <2> QED
    BY <1>6
<1> HIDE DEF the
<1>8. the[0] = <<>>
  <2>1. 0 \in 0..n
    BY <1>1
  <2> QED
    BY <1>7, <2>1
<1>9. \A i \in 1..n : the[i] = KeptOf(k, i, the[i - 1])
  <2> TAKE i \in 1..n
  <2>1. i \in 0..n /\ i # 0
    BY <1>1
  <2> QED
    BY <1>7, <2>1 DEF KeptOf
<1> QED
  BY <1>2, <1>8, <1>9 DEF IsListing, n

LEMMA ListedIsList ==
  ASSUME NEW k
  PROVE  Listed(k) \in Seq(Range(Violations))
<1> DEFINE n == Len(Violations)
           R == Range(Violations)
<1>1. n \in Nat /\ \A i \in 1..n : Violations[i] \in R
  BY CollectorAssumption DEF CollectorAssumption
<1>2. PICK f : IsListing(k, f) /\ Listed(k) = f[n]
  BY ListingIsDefined
<1>3. f[0] = <<>> /\ \A i \in 1..n : f[i] = KeptOf(k, i, f[i - 1])
  BY <1>2 DEF IsListing
<1> DEFINE G == {j \in 1..(n + 1) : f[(n + 1) - j] \in Seq(R)}
<1> HIDE DEF n, R
<1>4. n + 1 \in G
  <2>1. n + 1 \in 1..(n + 1) /\ (n + 1) - (n + 1) = 0
    BY <1>1
  <2>2. f[0] \in Seq(R)
    BY <1>3
  <2> QED
    BY <2>1, <2>2
<1>5. ASSUME NEW j \in 1..n, j + 1 \in G PROVE j \in G
  <2> DEFINE m == (n + 1) - j
  <2>1. m \in 1..n /\ (n + 1) - (j + 1) = m - 1 /\ j \in 1..(n + 1)
    BY <1>1
  <2>2. f[m - 1] \in Seq(R)
    BY <1>5, <2>1
  <2> HIDE DEF m
  <2>3. f[m] = KeptOf(k, m, f[m - 1])
    BY <1>3, <2>1
  <2>4. Append(f[m - 1], Violations[m]) \in Seq(R)
    BY <1>1, <2>1, <2>2, AppendProperties
  <2>5. f[m] \in Seq(R)
    BY <2>2, <2>3, <2>4 DEF KeptOf
  <2> QED
    BY <2>1, <2>5 DEF m
<1>6. \A j \in 1..(n + 1) : j \in G
  <2> HIDE DEF G
  <2> QED
    BY <1>1, <1>4, <1>5, FromTheEnd
<1>7. 1 \in 1..(n + 1) /\ (n + 1) - 1 = n
  BY <1>1
<1>8. f[n] \in Seq(R)
  BY <1>6, <1>7
<1> QED
  BY <1>2, <1>8 DEF R

LEMMA OnwardTypes ==
  ASSUME NEW at \in 0..Len(Kinds), NEW left \in Seq(Range(Violations))
  PROVE  Onward(at, left) \in [at: 0..Len(Kinds), left: Seq(Range(Violations))]
<1>1. Len(Kinds) \in Nat
  BY CollectorAssumption DEF CollectorAssumption
<1>2. 0 \in 0..Len(Kinds) /\ (at < Len(Kinds) => at + 1 \in 0..Len(Kinds))
  BY <1>1
<1>3. <<>> \in Seq(Range(Violations))
  OBVIOUS
<1> QED
  BY <1>2, <1>3 DEF Onward, Asleep

LEMMA CollectorInitTypes == CollectorInit => CollectorTypeOK
<1>1. MaxRounds \in Nat /\ Len(Kinds) \in Nat
  BY CollectorAssumption DEF CollectorAssumption
<1>2. 0 \in 0..Len(Kinds) /\ 0 \in 0..MaxRounds /\ <<>> \in Seq(Range(Violations))
  BY <1>1
<1> QED
  BY <1>2 DEF CollectorInit, CollectorTypeOK, Asleep

LEMMA CollectorNextTypes ==
  ASSUME CollectorTypeOK, [CollectorNext]_collectorVars
  PROVE  CollectorTypeOK'
<1> DEFINE R == Range(Violations)
           Rounds == [at: 0..Len(Kinds), left: Seq(R)]
           Row == [id: R, violation: R, time: 0..MaxRounds]
<1>1. MaxRounds \in Nat /\ Len(Kinds) \in Nat /\ DOMAIN Kinds = 1..Len(Kinds)
  BY CollectorAssumption DEF CollectorAssumption
<1>2. audit \subseteq R /\ round \in Rounds /\ rounds \in 0..MaxRounds /\ rows \subseteq Row
  BY DEF CollectorTypeOK
<1> DEFINE Goal == /\ audit' \subseteq R /\ round' \in Rounds
                   /\ rounds' \in 0..MaxRounds /\ rows' \subseteq Row
<1>3. SUFFICES Goal
  BY DEF CollectorTypeOK
<1>4. \A at \in 0..Len(Kinds), left \in Seq(R) : Onward(at, left) \in Rounds
  BY OnwardTypes
<1>5. Asleep \in Rounds /\ 0 \in 0..Len(Kinds) /\ <<>> \in Seq(R)
  BY <1>1 DEF Asleep
<1>6. ASSUME NEW v \in R PROVE Saved(Event(v)) \subseteq Row
  BY <1>2, <1>6 DEF Saved, Event, RowId
<1>7. round.at \in 0..Len(Kinds) /\ round.left \in Seq(R)
  BY <1>2
<1>8. round.left # <<>> => Head(round.left) \in R /\ Tail(round.left) \in Seq(R)
  BY <1>7, HeadTailProperties
<1> HIDE DEF R, Rounds, Row
<1>9. ASSUME NEW v \in R, AuditFinds(v) \/ AuditClears(v) PROVE Goal
  BY <1>2, <1>9 DEF AuditFinds, AuditClears
<1>10. ASSUME NEW v \in R, PostNext(v) PROVE Goal
  BY <1>2, <1>4, <1>6, <1>7, <1>8, <1>10 DEF PostNext, AfterPost
<1>11. CASE StartRound
  <2>1. Onward(0, <<>>) \in Rounds
    BY <1>4, <1>5
  <2>2. rounds < MaxRounds => rounds + 1 \in 0..MaxRounds
    BY <1>1, <1>2
  <2> QED
    BY <1>2, <1>11, <2>1, <2>2 DEF StartRound
<1>12. CASE EndRound
  BY <1>2, <1>5, <1>12 DEF EndRound
<1>13. ASSUME NEW k \in DOMAIN Kinds, ListKind(k) PROVE Goal
  <2>1. k \in 0..Len(Kinds)
    BY <1>1
  <2>2. Listed(k) \in Seq(R)
    BY ListedIsList DEF R
  <2> QED
    BY <1>2, <1>4, <1>13, <2>1, <2>2 DEF ListKind
<1>14. ASSUME NEW arrived \in BOOLEAN, PostFails(arrived) PROVE Goal
  BY <1>2, <1>5, <1>6, <1>8, <1>14 DEF PostFails
<1>15. CASE UNCHANGED collectorVars
  BY <1>2, <1>15 DEF collectorVars
<1> QED
  BY <1>9, <1>10, <1>11, <1>12, <1>13, <1>14, <1>15 DEF CollectorNext, R

LEMMA CollectorTypesAlways == CollectorSpec => []CollectorTypeOK
  BY CollectorInitTypes, CollectorNextTypes, PTL DEF CollectorSpec

-----------------------------------------------------------------------------
(* MCServices. *)

(* A step of one handler is a step of its own specification, and a stutter *)
(* of the others'.                                                         *)
LEMMA ServicesSteps ==
  ASSUME [ServicesNext]_servicesVars
  PROVE  /\ [AccountsNext]_accountVars /\ [SlackNext]_slackVars
         /\ [PolicyNext]_policyVars /\ [GrafanaNext]_grafanaVars
         /\ [CollectorNext]_collectorVars /\ [PromNext]_promVars
         /\ UNCHANGED component
  BY DEF ServicesNext, servicesVars

(* Checked together, the handlers behave as each does alone: the results   *)
(* about accounts, notices, policies, organisations, violations and        *)
(* queries hold of the composition as well.                                *)
THEOREM ServicesAreIndependent ==
    ServicesSpec => /\ AccountsSpec /\ SlackSpec /\ PolicySpec
                    /\ GrafanaSpec /\ CollectorSpec /\ PromSpec
<1>1. ServicesInit => /\ AccountsInit /\ SlackInit /\ PolicyInit
                      /\ GrafanaInit /\ CollectorInit /\ PromInit
  BY DEF ServicesInit
<1> QED
  BY <1>1, ServicesSteps, PTL DEF ServicesSpec, AccountsSpec, SlackSpec, PolicySpec,
     GrafanaSpec, CollectorSpec, PromSpec

(* Every table and every handler of the services keeps its type            *)
(* (app/storage.py, app/runtime_client.py, app/grafana/provisioning.py,    *)
(* the collector's manifest in app/main.py).                               *)
THEOREM ServicesTypesCorrect == ServicesSpec => []ServicesTypeOK
<1> DEFINE Known == component \in {"slack", "policy", "grafana", "collector", "prometheus",
                                   "accounts"}
<1>1. AccountsSpec => []AccountsTypeOK
  <2>1. RevocationInv => AccountsTypeOK
    BY DEF RevocationInv, AccountTypes
  <2> QED
    BY <2>1, RevocationAlways, PTL
<1>2. SlackSpec => []SlackTypeOK
  <2>1. SlackInv => SlackTypeOK
    BY DEF SlackInv
  <2> QED
    BY <2>1, SlackInvariant, PTL
<1>3. PolicySpec => []PolicyTypeOK
  <2>1. PolicyInv => PolicyTypeOK
    BY DEF PolicyInv
  <2> QED
    BY <2>1, PolicyAlways, PTL
<1>4. GrafanaSpec => []GrafanaTypeOK
  <2>1. Types => GrafanaTypeOK
    BY DEF Types
  <2> QED
    BY <2>1, OwnedAlways, PTL
<1>5. ServicesSpec => []Known
  <2>1. ServicesInit => Known
    BY DEF ServicesInit
  <2>2. Known /\ [ServicesNext]_servicesVars => Known'
    BY ServicesSteps
  <2> QED
    BY <2>1, <2>2, PTL DEF ServicesSpec
<1>6. AccountsTypeOK /\ SlackTypeOK /\ PolicyTypeOK /\ GrafanaTypeOK /\ CollectorTypeOK /\ Known
          => ServicesTypeOK
  BY DEF ServicesTypeOK
<1> QED
  BY <1>1, <1>2, <1>3, <1>4, <1>5, <1>6, CollectorTypesAlways, ServicesAreIndependent, PTL
=============================================================================
