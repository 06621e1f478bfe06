------------------------- MODULE GatekeeperCollector -------------------------
(***************************************************************************)
(* The collector an installed cluster runs (the script in the manifest of  *)
(* app/main.py, _gatekeeper_collector_manifest) and what the server keeps  *)
(* of its posts (gatekeeper_events; app/runtime_client.py,                 *)
(* record_gatekeeper_event; app/storage.py, save_event).                   *)
(*                                                                         *)
(* A round lists the constraints kind by kind and posts the violations of  *)
(* a kind before it lists the next.  Any exception, and a restart of the   *)
(* container, ends the round; nothing is kept from round to round.  A post *)
(* may reach the server although its answer is lost.  Gatekeeper's audit   *)
(* is external: it finds and clears violations at any time.                *)
(***************************************************************************)
EXTENDS Integers, Sequences, Functions

CONSTANTS
    Kinds,      \* kinds of constraints, in the order of the discovery
    Violations, \* sequence of the violations there can be, in list order
    KindOf,     \* the kind of each
    MaxRounds   \* rounds are told apart up to this one

ASSUME CollectorAssumption ==
    /\ MaxRounds \in Nat
    /\ Kinds \in Seq(Range(Kinds)) /\ Violations \in Seq(Range(Violations))
    /\ \A i \in DOMAIN Violations : \E k \in DOMAIN Kinds : Kinds[k] = KindOf[Violations[i]]

VARIABLES
    audit,  \* violations in the status of the constraints
    round,  \* the collector: the kind it is at (0: asleep), what is left to post
    rounds, \* rounds started, which stands for the time a round reads
    rows    \* rows of the events table

collectorVars == <<audit, round, rounds, rows>>

CollectorTypeOK ==
    /\ audit \subseteq Range(Violations)
    /\ round \in [at: 0..Len(Kinds), left: Seq(Range(Violations))]
    /\ rounds \in 0..MaxRounds
    /\ rows \subseteq [id: Range(Violations), violation: Range(Violations), time: 0..MaxRounds]

Asleep == [at |-> 0, left |-> <<>>]

CollectorInit == audit = {} /\ round = Asleep /\ rounds = 0 /\ rows = {}

AuditFinds(v) == audit' = audit \cup {v} /\ UNCHANGED <<round, rounds, rows>>
AuditClears(v) == audit' = audit \ {v} /\ UNCHANGED <<round, rounds, rows>>

\* Where the loops are with the violations left of the kind at.
Onward(at, left) ==
    IF left # <<>> \/ at < Len(Kinds)
    THEN [at |-> IF left = <<>> THEN at + 1 ELSE at, left |-> left] ELSE Asleep

\* The sleep is over and the discovery answers.  One that fails, or knows no
\* constraints API, leaves the collector asleep for another interval.
StartRound ==
    /\ round = Asleep
    /\ round' = Onward(0, <<>>)
    /\ rounds' = IF rounds < MaxRounds THEN rounds + 1 ELSE rounds
    /\ UNCHANGED <<audit, rows>>

\* The violations in the status of the constraints of kind k.
Listed(k) ==
    LET upTo[i \in 0..Len(Violations)] ==
            IF i = 0 THEN <<>>
            ELSE LET v == Violations[i]
                 IN  IF v \in audit /\ KindOf[v] = Kinds[k]
                     THEN Append(upTo[i - 1], v) ELSE upTo[i - 1]
    IN  upTo[Len(Violations)]

ListKind(k) ==
    /\ round = [at |-> k, left |-> <<>>]
    /\ round' = Onward(k, Listed(k))
    /\ UNCHANGED <<audit, rounds, rows>>

\* Fault: the time of the round is hashed as well.
RowIdOfRound(v, time) == <<v, time>>

\* The id is a hash of the violation: constraint, object and message.
RowId(v, time) == v

\* record_gatekeeper_event: the id and the time come with the post.
Event(v) == [id |-> RowId(v, rounds), violation |-> v, time |-> rounds]

\* save_event: INSERT OR REPLACE.
Saved(event) == {r \in rows : r.id # event.id} \cup {event}

\* Fault: the loop over the violations of a kind stops after the first.
AfterPostStops(left) == <<>>

\* What is left to post after the head was posted.
AfterPost(left) == Tail(left)

PostNext(v) ==
    /\ round.left # <<>> /\ Head(round.left) = v
    /\ rows' = Saved(Event(v))
    /\ round' = Onward(round.at, AfterPost(round.left))
    /\ UNCHANGED <<audit, rounds>>

\* The post raises, and may have reached the server.
PostFails(arrived) ==
    /\ round.left # <<>>
    /\ rows' = IF arrived THEN Saved(Event(Head(round.left))) ELSE rows
    /\ round' = Asleep
    /\ UNCHANGED <<audit, rounds>>

\* A listing fails, or the container is restarted.
EndRound ==
    /\ round # Asleep
    /\ round' = Asleep
    /\ UNCHANGED <<audit, rounds, rows>>

CollectorNext ==
    \/ \E v \in Range(Violations) : AuditFinds(v) \/ AuditClears(v) \/ PostNext(v)
    \/ StartRound \/ EndRound
    \/ \E k \in DOMAIN Kinds : ListKind(k)
    \/ \E arrived \in BOOLEAN : PostFails(arrived)

\* The loop goes on, and a request that is made again and again works some
\* time: the discovery, each listing and the post of each violation.
CollectorFairness ==
    /\ WF_collectorVars(StartRound)
    /\ \A k \in DOMAIN Kinds : SF_collectorVars(ListKind(k))
    /\ \A v \in Range(Violations) : SF_collectorVars(PostNext(v))

CollectorSpec == CollectorInit /\ [][CollectorNext]_collectorVars /\ CollectorFairness

-----------------------------------------------------------------------------
\* Posting again, in the next round or after a lost answer, adds no row: the
\* server counts a violation once however often it hears of it.
OneRowPerViolation == \A r, s \in rows : r.violation = s.violation => r = s

\* A violation that stays is recorded, whatever rounds end early before it.
\* It takes that the posts ahead of it work some time as well.
StandingViolationsAreRecorded ==
    \A v \in Range(Violations) :
        <>[](v \in audit) => <>(\E r \in rows : r.violation = v)
=============================================================================
