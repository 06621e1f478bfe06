---------------------------- MODULE SlackNotifier ----------------------------
(***************************************************************************)
(* What an ingest does after the event is saved: decide whether to tell    *)
(* the cluster's owner on Slack (app/main.py, _notify_slack_for_event) and *)
(* count repeats of one fingerprint under a cooldown (app/storage.py,      *)
(* register_slack_notification_event).  The cluster row, with its Slack    *)
(* switch, is the one the token lookup returned; the webhook is read       *)
(* later; registering is one transaction, posting comes after it.  Time is *)
(* the timestamp the event carries, and events arrive in any order.        *)
(* One owner, one cluster and one fingerprint: rows do not interact.       *)
(***************************************************************************)
EXTENDS Integers

CONSTANTS
    Notifiers, \* ingests in flight
    Cooldown,  \* SLACK_NOTIFICATION_COOLDOWN_SECONDS
    MaxSeen,   \* timestamps are 0..MaxSeen
    MaxEvents  \* bound on the events registered

ASSUME SlackAssumption ==
    Cooldown \in Nat /\ MaxSeen \in Nat /\ MaxEvents \in Nat

VARIABLES
    slackOn,    \* clusters.slack_enabled
    webhook,    \* a webhook URL is saved for the owner
    repeats,    \* row of slack_notification_state
    notifiers,  \* where each ingest is
    registered, \* history: events registered
    delivered,  \* history: notices Slack took
    lost        \* history: notices whose post failed

slackVars == <<slackOn, webhook, repeats, notifiers, registered, delivered, lost>>

\* A notice reports a count.  Which event, in the order of registering, it is
\* about and that event's timestamp are kept for the properties.
NoticesOf(events) == [event: events, count: Nat, at: 0..MaxSeen]

NoRepeats == [count |-> 0, notifiedAt |-> 0]
NoNotice == [event |-> 0, count |-> 0, at |-> 0]
AtRest == [step |-> "idle", seen |-> 0, notice |-> NoNotice]

SlackTypeOK ==
    /\ slackOn \in BOOLEAN /\ webhook \in BOOLEAN
    /\ repeats \in [count: Nat, notifiedAt: 0..MaxSeen]
    /\ notifiers \in [Notifiers ->
           [step: {"idle", "enabled", "configured", "posting"}, seen: 0..MaxSeen,
            notice: NoticesOf(0..MaxEvents)]]
    /\ registered \in 0..MaxEvents
    /\ delivered \cup lost \subseteq NoticesOf(1..MaxEvents)

SlackInit ==
    /\ slackOn = TRUE /\ webhook = FALSE
    /\ repeats = NoRepeats
    /\ notifiers = [n \in Notifiers |-> AtRest]
    /\ registered = 0
    /\ delivered = {} /\ lost = {}

\* set_cluster_slack_enabled
ToggleSlack ==
    /\ slackOn' = ~slackOn
    /\ UNCHANGED <<webhook, repeats, notifiers, registered, delivered, lost>>

\* save_slack_settings, with a URL or an empty one; deleting the account of
\* the owner removes the URL as well.
SaveSlackSettings(configured) ==
    /\ webhook' = configured
    /\ UNCHANGED <<slackOn, repeats, notifiers, registered, delivered, lost>>

Leave(n) == notifiers' = [notifiers EXCEPT ![n] = AtRest]

\* A high or critical event of the cluster, looked up with its switch on.
BeginNotice(n, seen) ==
    /\ notifiers[n].step = "idle" /\ slackOn
    /\ notifiers' = [notifiers EXCEPT ![n] =
                        [step |-> "enabled", seen |-> seen, notice |-> NoNotice]]
    /\ UNCHANGED <<slackOn, webhook, repeats, registered, delivered, lost>>

\* get_slack_settings
ReadWebhook(n) ==
    /\ notifiers[n].step = "enabled"
    /\ IF webhook THEN notifiers' = [notifiers EXCEPT ![n].step = "configured"] ELSE Leave(n)
    /\ UNCHANGED <<slackOn, webhook, repeats, registered, delivered, lost>>

\* Fault: the distance is measured in either direction.
ShouldNotifyEitherWay(row, seen) ==
    \/ row.count = 0
    \/ seen - row.notifiedAt >= Cooldown
    \/ row.notifiedAt - seen >= Cooldown

\* The first event of a fingerprint notifies; a later one does once the
\* cooldown since the last notifying event is over.
ShouldNotify(row, seen) == row.count = 0 \/ seen - row.notifiedAt >= Cooldown

\* Fault: the count goes on after it was reported.
CountAfterNoticeGoesOn(row) == row.count + 1

\* The row after a notifying event counts that event alone.
CountAfterNotice(row) == 1

\* The count reported is the row's and this event, 1 for the first.
RegisterEvent(n) ==
    LET seen == notifiers[n].seen
        count == repeats.count + 1
    IN  /\ notifiers[n].step = "configured"
        /\ registered < MaxEvents
        /\ registered' = registered + 1
        /\ \/ /\ ShouldNotify(repeats, seen)
              /\ repeats' = [count |-> CountAfterNotice(repeats), notifiedAt |-> seen]
              /\ notifiers' = [notifiers EXCEPT ![n] =
                     [step |-> "posting", seen |-> seen,
                      notice |-> [event |-> registered + 1, count |-> count, at |-> seen]]]
           \/ /\ ~ShouldNotify(repeats, seen)
              /\ repeats' = [repeats EXCEPT !.count = count]
              /\ Leave(n)
        /\ UNCHANGED <<slackOn, webhook, delivered, lost>>

\* A failed post is logged and forgotten.
PostNotice(n, ok) ==
    LET notice == notifiers[n].notice
    IN  /\ notifiers[n].step = "posting"
        /\ delivered' = IF ok THEN delivered \cup {notice} ELSE delivered
        /\ lost' = IF ok THEN lost ELSE lost \cup {notice}
        /\ Leave(n)
        /\ UNCHANGED <<slackOn, webhook, repeats, registered>>

SlackNext ==
    \/ ToggleSlack
    \/ \E configured \in BOOLEAN : SaveSlackSettings(configured)
    \/ \E n \in Notifiers :
          \/ \E seen \in 0..MaxSeen : BeginNotice(n, seen)
          \/ ReadWebhook(n) \/ RegisterEvent(n)
          \/ \E ok \in BOOLEAN : PostNotice(n, ok)

SlackSpec == SlackInit /\ [][SlackNext]_slackVars

-----------------------------------------------------------------------------
\* The notices decided on: taken by Slack, lost, or on their way.
UnderWay == {notifiers[n].notice : n \in {m \in Notifiers : notifiers[m].step = "posting"}}
Notices == delivered \cup lost \cup UnderWay

\* The events a notice counts end with its own, those the row counts with
\* the last one registered.
CountedBy(m) == (m.event - m.count + 1)..m.event
CountedInRow == (registered - repeats.count + 1)..registered

\* No event is forgotten by the suppression: each one is counted in the row or
\* in a notice, which Slack took unless its post failed.  None that was held
\* back is counted twice: a notice, and the row, begin with the event of the
\* notice before, which has been told of already (storage.py:554-578).
SuppressedEventsAreCounted ==
    /\ \A e \in 1..registered : e \in CountedInRow \/ \E m \in Notices : e \in CountedBy(m)
    /\ \A m \in Notices :
          /\ \A e \in CountedBy(m) \cap CountedInRow : e = m.event
          /\ \A l \in Notices \ {m} : \A e \in CountedBy(m) \cap CountedBy(l) :
                e \in {m.event, l.event}

\* Of any two notices the later one is about an event at least the cooldown
\* after the other's, in whatever order the events arrive.
NoticesKeepTheCooldown ==
    \A m, l \in Notices : m.event < l.event => l.at - m.at >= Cooldown
=============================================================================
