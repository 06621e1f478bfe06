# A specification of the k8s-compliance-platform

TLA+ modules, TLC configurations and TLAPS proofs for the parts of the platform
whose behaviour over time is hard to get right: threads that share state, a
cluster that fails, a process that is replaced. Paths are relative to the
repository; `response-server/` is `runtime-detection/response-server/`.

## The system

The platform watches Kubernetes clusters. Falco sees system calls and posts
events; the **response server** rates each one and cuts pods off the network
when it must; **Gatekeeper** policies refuse bad objects at admission; the
**ai-server** collects events of many clusters for their owners, explains them
and proposes policies. A watchdog, a signing proxy, dashboards, scripts and a
compliance agent surround them.

### Response server: parts, state, operations

| part | state | operations | what makes it correct |
|---|---|---|---|
| event store (`core/__init__.py`) | deque with a maxlen, id counter, lock | add, clear, six readers | keeps and numbers exactly the newest records |
| event pipeline (`core/processor.py`) | none of its own; one daemon thread per accepted webhook | process | isolates only with cause, once per event; the record says what happened |
| false-positive filter (`core/false_positive_filter.py`) | none | check | suppresses host noise, never a container's event |
| classifier (`core/classifier.py`) | none; calls the AI endpoint | classify | more evidence never gives a milder answer |
| metrics (`core/metrics.py`) | counters, lock | inc_*, render | agree with the store and each other |
| silence monitor (`core/heartbeat.py`) | last times, two alarm flags, lock | record_event, record_watchdog, monitor loop | silence noticed in time, alarm over in time, counted once |
| Kubernetes client (`k8s/client.py`) | container-to-pod cache, no lock | isolate, delete, list, resolve | bounded staleness; policies name one event's isolation |
| webhook security (`middleware/security.py`) | a token bucket per address | validate | no window exceeds burst plus rate |
| HTTP handler (`handlers/http.py`) | none | webhook, events, isolations, heartbeat | accepts, then starts the thread |
| process (`server.py`) | the single-threaded HTTP server | main, shutdown_handler | serves; ends when told to |

How they meet: the HTTP server answers one request at a time in the main
thread. A webhook passes WebhookSecurity, starts a thread and is answered 200.
The thread runs the pipeline, which notes the event with the monitor, asks the
client for the pod, the filter and the classifier for a verdict, the client for
an isolation, and writes the store and the metrics. The monitor thread wakes by
itself. All of it is memory; only the NetworkPolicies outlive the process.

### ai-server: parts, state, operations

`ai-server/` is `ai-observability/ai-server/app/`. Its state is a SQLite
database (`storage.py`); a function of `storage.py` that writes holds one
module lock and one transaction, and a handler of `main.py` is a sequence of
such calls with other requests, and calls of other services, in between.

| part | state | operations | what makes it correct |
|---|---|---|---|
| accounts (`storage.py`, `main.py`) | users, sessions, login records | sign in, authenticate, log out, disable, enable, delete, restore, clean up | revoking an account ends its sessions, for good |
| clusters (`storage.py`, `main.py`) | clusters with a token, a status and two times; events; apply records | create, rotate, disable, trash, restore, erase, purge; ingest; record an apply | a revoked token is dead; the trash keeps its retention; no event or apply record outlives its cluster but a late write; last seen does not go back, as text |
| Slack notices (`main.py`, `storage.py`) | switch, webhook, one row per fingerprint | register an event, post | notices are a cooldown apart; the suppressed are counted |
| policy apply (`runtime_client.py`) | the call's results; the cluster | order, dry run, apply, wait for kinds | the answer is what happened to the cluster |
| Grafana provisioning (`grafana/provisioning.py`) | organisations and data sources in Grafana; saved mappings | a saga of eight requests and its rollback | tenants stay apart; a mapping without an organisation, or one without a mapping, has one of the causes `OrgsAreAccountedFor` lists |
| Prometheus proxy (`grafana/promql_inject.py`, `grafana/proxy.py`) | none | scope a query, forward | every selector in what it rewrites is confined to the token's cluster |
| Gatekeeper collector (a script in `main.py`, `runtime_client.py`) | events rows | list, post | a violation is one row, and gets it in the end |

Where they meet: the row of a cluster is read by ingest, apply and Slack before
they write; deleting an account trashes its clusters and removes its sessions,
its Slack webhook and its Grafana mappings; provisioning is asked for by the
owner of a cluster. The Slack notice is decided on the row the ingest looked
up, so a switch turned off meanwhile is not seen.

The rest: `analyzer.py`, `classifier.py`, `llm_client.py`,
`policy_generator.py` (stateless work around a language model), the UI proxy
and the pages, `k8s-policy-engine/` (Rego predicates on one object),
`compliance-agent/`, manifests, scripts and dashboards.

`PROJECT.json` lists every part with its status, and every hazard with its
line.

## Modules

| module | models | composes |
|---|---|---|
| `AuditWindow` | what a bounded audit trail promises | |
| `EventStore` | the ring buffer; readers as operators | refines `AuditWindow` |
| `FalsePositiveFilter`, `ThreatClassifier` | the two pure algorithms | |
| `Verdict`, `EventVerdict` | the two together; the same as a machine judging one event after another | both |
| `IncidentResponse` | what the pipeline promises: at most one isolation per delivery, before its record; one record; drop only without an isolation; a crash closes what is open and empties the trail | |
| `ResponsePipeline` | the threads, cluster, AI endpoint, clock and restarts | `Verdict`, `EventStore`; refines `IncidentResponse` |
| `ContainerCache` | `resolve_container_to_pod` attribute by attribute | |
| `HeartbeatMonitor` | the silence monitor with a discrete clock | |
| `RateLimit` | a limit credited continuously | |
| `WebhookGate` | the checks before the pipeline | refines `RateLimit` |
| `ServerLifecycle` | main thread, signal handler, clients | |
| `Accounts` | users, sessions and sign-ins of the ai-server | |
| `Clusters` | clusters, tokens, trash; events, apply records and Grafana mappings | `Accounts`; implements `AccountsSpec` |
| `SlackNotifier` | notices under a cooldown | |
| `PolicyApply` | one call of `apply_policy_manifest` and the cluster it changes | |
| `GrafanaProvisioning` | calls of `provision_user`, Grafana, accounts deleted meanwhile | |
| `GatekeeperCollector` | the collector's loop, the audit it reads, the rows it leaves | |
| `PromQLScope` | the rewriting of queries, with a reference to compare it with, and what of a request is rewritten | |
| `MCServices` | six of these: a behaviour exercises one, named by `component`; the grammar of the queries | `Accounts`, `SlackNotifier`, `PolicyApply`, `GrafanaProvisioning`, `GatekeeperCollector`, `PromQLScope`; implements each of them |

`MC*` modules and configurations instantiate them. The theorems are in eight
modules: `EventStoreProofs`; `HeartbeatProofs`; `CacheProofs` about
`ContainerCache`; `GateProofs` about `WebhookGate`; `PipelineProofs` about
`EventVerdict` and the types and isolations of `ResponsePipeline`, and
`IncidentProofs`, which extends it, about its records, its counters and its
refinement; `ClusterProofs` about `Accounts` and `Clusters`; `ServerProofs`
about `SlackNotifier`, `GatekeeperCollector`, `PolicyApply`,
`GrafanaProvisioning`, `PromQLScope` and their composition in `MCServices`.
Definitions whose comment begins with "Fault:" are broken
variants of the definition below them; each property is known to fail when one
of them takes its place, which shows that the property can tell the difference.

### How state and actions correspond to the code

**EventStore.** `events` is `_events` oldest first, `idCounter` is
`_id_counter`. Each method holds the lock for its whole body and is one step.
`SliceFromEnd` is Python's `s[-n:]`, with its readings of zero and of negative
numbers. `Picked` and `Tally` are the loops of the filtering readers and of the
summary, as functions of how far the loop has come. Records have one of the
three severities, which is all the classifier can answer
(`core/classifier.py`, 170-190).

**Verdict.** Scores are in hundredths; the code rounds to three decimals and
all weights have two, so nothing is lost. An event is the set of marks the code
finds in it. Which process name or path gave the mark is data.

**ResponsePipeline.** A thread is named by the delivery it handles and runs
once. `pc` gives its place; `target`, `raw`, `action`, `policy`, `hasLabels`
are the local variables that survive from one step to the next. A step ends at
a lock-protected update and at a network call: parse, enrich, classify, wait
for the AI, respond, read labels, create the policy, count the isolation, count
the downgrade, store, count the event, count the action. Every call may fail;
the creation of a policy may also succeed with its reply lost, which the code
takes for a failure. `Restart` ends all threads and empties store and counters,
and leaves `policies` alone. `created` remembers every isolation with its
thread and is never read by an action. `FinalSeverityOf` is recomputed from
what the thread knows instead of being kept.

**ContainerCache.** A lookup is split at each access to `_container_cache` and
`_cache_timestamp` and at the list call, because nothing locks them. Time
passes only while a list call is under way or nobody looks; `began` says when a
call started, for it lasts at most `FetchMax`. Ids are matched exactly: the
prefix rule of the code only undoes the shortening Falco applied. The modelled
list reply contains the running containers; the code also skips containers
without an id. A thread that found no cache creates one even when another has
filled it since: `emptied` remembers when that last happened.

**HeartbeatMonitor.** `ReadAges` is the part of `_check_silence` under the lock
and `Act` the rest. Times are multiples of a unit; a check takes none.
`resumed` and `reported` remember when a silence last ended. The canary's time
is only reported, never judged, and left out, as is the age gauge.

**WebhookGate.** One request is one step because the server handles one at a
time. Tokens are counted in fractions so that every quantity is a whole number.
The order of the refusals is the code's: body size, rate, address, signature,
JSON. A body that is not JSON costs a token. `passed` and `before` are
histories: how many requests of a client the limit has let through, and how
many it had at each earlier time.

**ServerLifecycle.** Python runs a signal handler in the main thread between
two instructions. `shutdown()` is socketserver's: set a flag, wait for
`serve_forever` to return. `LeaveLoop` and `Exit` are written down and never
enabled together with the flag; that is what the run shows.

**Accounts.** A sign-in is five steps: the limit check, the user row, the read
of the status (outside the lock), the session row, the login record. `stage` is
where it is. `requests` holds the user `require_user` returned to a handler
that has not acted yet, so that an account may be disabled under it.
`overtaken` and `raced` remember which sign-ins a revocation followed, and
which of those had no session row to delete yet; no action reads them.

**Clusters.** A token is the number of its drawing: `issued` counts them,
`NoToken` is the empty hash the trash leaves. `revoked` and `trashedAt` are
histories. A handler that writes records is `found` between its lookup and its
save and, if it is an ingest, `saved` before it marks the cluster seen; any
other step may come in between, so `late` says of an event or apply record that
its cluster was gone when it was written, and of a mapping that its user was.
Deleting or purging a cluster leaves its mapping, deleting the account of the
user removes it. The purge is an action of its own although the code runs it
inside the listings: listing changes nothing else, and anyone may list at any
time. The owner's and the administrator's routes differ in their guards, as in
the code: `trash_cluster` asks for no status, `admin_trash_cluster` does. A
timestamp has three sides: its place among strings (`text`), the instant it
stands for (`time`) and how it is written (`format`: offset, fractions). The
code compares the text; the two orders agree between timestamps of one format
(`StampsAssumption`). `MCStamps` has two in UTC and one with an offset, of an
earlier instant and greater as text.

**SlackNotifier.** One owner, cluster and fingerprint, whose rows no other
touches. A notice reports the row's count and its own event, 1 for the first;
the row then begins with that event, so that the next notice counts it once
more. `delivered`, `lost` and `UnderWay` are the notices Slack took, those whose
post failed, and those on their way; each knows the number of its event and its
timestamp, so that `CountedBy` gives the events it tells of. Timestamps are
parsed here, and one that is no time is taken for now.

**PolicyApply.** `call.phase` is where the call is, `todo` what its loop has
left. The manifest is put in the code's order first. The code sorts by a
priority and the name of the kind; `Orderings` allows every order that respects
the priority, for the names are not modelled, except that mutations sort ahead
of network policies by their names. Templates go ahead only when there are
constraints. An apply may take effect and its answer be lost. Of the texts of
an answer the model keeps one fact: whether it denies that anything was applied
(`denies`).

**GrafanaProvisioning.** `step` is the next request of a call. Each request
works, is refused, or works and is not answered. Organisations carry the id of
the call that made them; the name the code looks up is `owner`. `currentOrg` is
what the administrator was switched to, by whichever call came last. The saved
mapping is read back in a transaction of its own (`ReadBack`), which fails like
a request when the row has been removed. `RemoveMappings` is what deleting an
account does to it. `abandoned`, `rolledBack`, `forgotten` and `unread` are
histories.

**GatekeeperCollector.** `at` is the kind the round has listed, `left` what of
it is not posted yet. `rounds` stands for the time a round reads. The audit is
Gatekeeper's and may change at any step. `Listed` is the loop over the
violations of a kind.

**PromQLScope.** A request is a GET, a POST with a form or a POST with another
body, each with parameters in its URL: `Forward` rewrites the form where there
is one and the URL otherwise, and passes the rest on as it came. Queries are
sequences of tokens and the lexer is left out. The reference builds a query and
its scoped form side by side out of selectors (`Vectors`), what stands around a
selector (`Modifiers`: ranges, offsets) or around any expression (`Constructs`:
functions, aggregations), and what stands between an expression and a selector
(`Operators`); the code, which looks at neighbouring tokens only, has to arrive
at the same. These pieces are constants, for which `MCServices` gives an
instance. `InjectClusterLabel` replaces the selectors from the last to the
first, as the code does, so that the places of those ahead stay good.

`GrammarAssumption` says what of the pieces the construction needs: each
selector, by itself, is rewritten to the scoped form it should get, and that
form to itself; what stands around or between them closes the braces and lists
it opens and contains no selector; and no piece ends or begins in the middle of
what its neighbour could be read with (`EndsFree`, `StartsFree`: no name next to
`(`, `by`, `without` or a glued brace). TLC evaluates it on the grammar of
`MCServices`. Pieces the code gets wrong are not among them: `1h30m`, `[1h:5m]`
and `1e5` are taken for selectors.

## Runs

All bounds are constants in the configurations.

| run | question | result |
|---|---|---|
| `event_store` | does the ring buffer keep and number the newest, and do its readers agree? | holds; it implements `AuditWindow` |
| `event_verdict` | what does the verdict do over all 24,576 combinations of evidence, default thresholds? | monotone; never below Falco's priority; suppresses host events only |
| `pipeline` | two threads, AI on, every failure, deletions, one tick of the clock | isolations are justified and happen once, records and counters are true; it implements `IncidentResponse` |
| `pipeline_restart` | the same, AI off, a store of two records, one restart anywhere, fair threads | ids follow the order of storing; counters restart with the store; accepted events end |
| `container_cache` | how stale can an answer be? | at most `Ttl + FetchMax` after the pod's end; a lone lookup misses only what is younger than `MissTtl`; after racing first lookups anything may be missed, for one lifetime |
| `heartbeat` | when is silence noticed, when is an alarm over? | within one check interval each |
| `webhook_gate` | can a window exceed burst plus rate? | no; it implements `RateLimit` |
| `clusters` | do tokens, trash, purge and late handlers keep apart what is gone from what is there? | yes: tokens stay dead, retention is kept, orphaned events and apply records come from overtaken handlers only, last seen does not go back as text; but mappings outlive their clusters |
| `services` | sign-in against revocation; Slack; apply; provisioning; collector; query scoping | all hold; the exceptions they allow are stated in them |
| `isolation_selects_pod` | does an isolation policy select its pod? | **no**, after a failed label read |
| `container_cache_raises` | is a lookup thread-safe? | **no**: a second first lookup raises |
| `server_shutdown` | does a signalled server exit by itself? | **no**: it waits for itself |

Bounds and why they suffice. Two threads meet in every pair of steps, and no
action involves three. In `pipeline` the store keeps one record, so that the
second drops the first; in `pipeline_restart` it keeps two, so that what is
stored has an order. The clock ticks once, so that names both collide and
differ. Pods share a name prefix and lie in several namespaces, one of them
protected, one carrying no labels. Three records and five additions fill,
overflow and, with a clear, refill the event store. `container_cache` uses a
lifetime of one unit, a miss limit of zero and calls of at most one: the
smallest values at which a lifetime, a call and the overlap of two calls
differ, and time enough for two refreshes after one another. It starts with a
cache, without one, and without one and a single thread; of several threads
that find none it takes those that look at once (`FirstLookupsAtOnce`), for
those that look later find the same after containers came and went. `heartbeat`
has a clock long enough for a silence, its end and a second one. `clusters` has
one account, sign-in, request and cluster: rows of different clusters and users
never meet, except that deleting an account trashes all of its own. Two alike
writers (symmetry) meet around one row; three ticks cover a trashing, a
restore, a second trashing and a retention of one; two tokens are one rotation;
three stamps in two formats order differently as text and as time. A sign-in
overtaken by a revocation, which `services` follows, goes no further here
(`SignInsUndisturbed`), and of the handlers that save a mapping, which all
write one row, there is one at a time (`OneMappingAtATime`). `services` takes,
for each part, the smallest instance in which its hard case occurs: two users
and two sign-ins under a limit of one; two notifiers, a cooldown of two within
four timestamps, three events and so up to three notices; all manifests of up
to three resources of four classes; three provisioning calls, so that one can
create, one join and one come late, for two clusters of one user and one of
another; two violations of one kind ahead of one of another; one construct
around a query, which for binary operators adds a second selector. The calls of
provisioning are interchangeable, and `CallsInOrder` keeps the assignments of
calls to clusters that are not renamings of one another; there are two calls
where an account with organisations is deleted or a mapping cannot be read back
(`TwoCallsThen`). The events of a run are chosen so that each branch of the
pipeline is taken; the runs together fire every action.

Deadlock is not checked where the system may stop: pipelines whose threads have
ended, and the container cache when the run asks only for the raise. In
`clusters` and `services` everything may come to rest: nobody has to send a
request, a clock stops at its bound, a call of `provision_user` runs once.

### Fairness

`FairSpec` of the pipeline asks that a thread that can step does: the operating
system schedules threads, and each network call has a timeout (10 s, 5 s,
`AI_TIMEOUT`), so waiting ends. Nothing is asked of the clock, of operators or
of senders. `Spec` of `ServerLifecycle` asks that the main thread runs and that
clients complete the request they began; without the latter a slow client alone
would explain a server that does not exit. The safety of the monitor rests on
timing instead: `Tick` cannot pass the end of the monitor's sleep, that is, the
thread wakes on time.

`CollectorFairness` says that the loop goes on (`while True` with a catch-all,
restarted by its deployment) and that a request made again and again works some
time: weak fairness of the start of a round, strong fairness of each listing
and each post, for a round that fails disables them again. Nothing is asked of
the audit. Strong fairness of each post is needed: a post that always fails
starves all violations behind it. In `MCServices` this is the only fairness,
and it selects behaviours of the collector; the invariants are checked on the
reachable states of all parts.

## Proofs

TLAPS proves for every value of the constants (within the named assumptions:
`StoreAssumption`, `HeartbeatAssumption`, `CacheAssumption`, `GateAssumption`,
`ThresholdAssumption`, `FallbackAssumption`, `PipelineAssumption`,
`EventAssumption`, `NameAssumption`, `AccountsAssumption`,
`ClustersAssumption`, `StampsAssumption`, `SlackAssumption`,
`CollectorAssumption`, `ProvisioningAssumption`, `PolicyApplyAssumption`,
`GrammarAssumption`):

- `EventStoreProofs`: `TypeCorrect`, `WindowOfIds`, `StoreImplementsTrail` and
  `ReadersTellOneStory`.
  The window of ids is inductive together with the types. For the refinement
  the position of an id in the deque is computed from the counter, and a drop
  of the head shifts every position by one. `RecentAreNewest` is the first part
  of `ReadersAgree`, on which `ReadersTellOneStory` builds: the loop of a
  filtering reader keeps exactly what it should, in order and as often as the
  summary counts it, after any number of rounds; and because every record has
  one of three severities, the three counts add up to the length.
- `HeartbeatProofs`: `TypeCorrect`, `SilenceNoticed`, `AlarmEnds`, `GapNoticed`
  and `AlarmsArePaidFor`. The properties are not inductive: they speak of the
  clock, while alarms are set from ages read earlier. The invariant adds that
  what was read is exact while it is kept (the clock stands still at `wake`),
  except that events may have come since, and that after each check the flag is
  right up to the event noted meanwhile; `GapInv` says the same of the
  watchdog. For the count of alarms `SpentOK` keeps an account: each alarm
  counted has used up a threshold of time that no other alarm can claim, and
  what an open silence has used so far is known from the flag.
- `CacheProofs`: `HitsFresh`, `MissesNew` and `LookupsReturn`. The clock stands
  still while any thread is at a step that takes no time, so what a thread
  wrote or found there can be dated by the clock, whichever other thread
  overwrote the cache in between. `FreshInv` dates the cache, each reply and
  what a thread is about to answer by the start of a list call; `MissInv` says
  that they leave out nothing that has been up longer (`Complete`), and that a
  thread that is alone finds the cache as it left it (`LeftAsItWas`). A cache
  that was emptied by a late first lookup is excepted from `MissesNew` for one
  lifetime; that a thread alone never finds itself there is
  `CreatedAloneStays`. `LookupsReturn` is the other half of the run
  `container_cache_raises`: with a cache at the start, or one thread alone when
  there is none, no lookup ever raises (`StampInv`: a cache without its time
  belongs to a thread that is about to set it, and nobody else is there).
- `GateProofs`: `WindowsKeepTheRate` and `GateImplementsRateLimit`, from
  `GateInvariant`: for every window, what a client got through in it and what
  its bucket would hold now, topped up, are together within burst plus rate.
  Topping up in one go is topping up unit by unit (`TopUpUnitByUnit`), so a
  tick of the clock adds to both sides alike, and the buckets, read topped up,
  are the allowance of `RateLimit`.
- `PipelineProofs` on the verdict: `MoreEvidenceNeverLowers` for any
  thresholds. The severity after boosts and context only grows with the
  evidence (`RaisedGrows`); if it grows, one step down cannot take it below
  what it was; if it stays, the confidence has grown (`ConfidenceGrows`).
  `PriorityIsAFloor` supposes `FallbackThreshold <= 50`, the confidence in a
  severity nothing raised; `FilterSparesContainers` supposes
  `SuppressThreshold > 60` and `DowngradeThreshold > 20`, what a host event with
  one mark and a container of an infrastructure image score at most. The
  defaults are 35, 75 and 45; beyond these bounds the statements are false.
- `PipelineProofs` on the types: `PipelineTypeCorrect`. The type invariant is
  not inductive: what a thread may store or send depends on the step it is at.
  `Known` adds that a thread that began has an event, that one about to isolate
  has a pod, and a label to choose from if it read any, and that one past the
  response has an action; one lemma per kind of step keeps it (`MoveTypes`).
- `PipelineProofs` on the isolations: `IsolationsAreJustified` and
  `EventsIsolateOnce`. The inductive invariant `IInv` adds to the two
  properties the shape of the variables, that a thread in `created` is past the
  creation (`IsolatedIsPast`) and that a thread about to create a policy still
  has the verdict that sent it there (`AboutToIsolate`). `VerdictStays` says
  that no step changes the verdict on an event between the two.
- `IncidentProofs` on the records: `RecordsAreTrue` and `EventsAreStoredOnce`,
  from `RInv`: a thread knows the outcome of its own isolation from the
  creation to the record (`OutcomeKnown`), and a record is a copy of what its
  thread, past the store, knows (`RecordsAreCopies`). `NameAssumption` keeps
  the name of a policy apart from "no policy".
- `IncidentProofs` on the counters: `CountersTellTheSame`. Each counter is the
  cardinality of a set of threads, which a step of a thread enters or leaves
  for that thread alone; the threads begun are finitely many, so the counter
  moves by one exactly when the set does (`Counting`, `OthersAreCounted`).
  Before the response only the AI's counters move; a restart empties all the
  sets.
- `IncidentProofs` on the promise: `PipelineKeepsPromise`, the refinement of
  `IncidentResponse`, from `IInv` and one lemma per kind of step; most steps
  stutter (`ProceedRefines`), the creation of a policy is the cut-off, the
  store is the record, a dropped event closes its delivery, a restart is the
  crash.
- `ClusterProofs`: `RevocationsEndSessions` for the accounts alone, from
  `RevocationInv`: a session belongs to the sign-in it is named after, a
  sign-in that was overtaken has read its status, and a session of an overtaken
  sign-in is of a raced one. `ClustersKeepAccounts` is the refinement: each
  step of the clusters is a step of the accounts or leaves them alone, so what
  holds of accounts holds beside any clusters. `ClusterTypesCorrect`,
  `RevokedTokensAreDead`, `PurgesWait`, `OnlyLateWritesAreOrphans` and
  `LastSeenAdvances` share one classification of the steps by what they do to a
  row (`StepCases`). `TokensOK` adds that the token in a row and the revoked
  ones are among those issued, `TrashOK` that a row in the trash holds the time
  it went there or a later one.
- `ServerProofs` on provisioning: `TenantsAreApart` from `StepTells` (which
  step has an organisation) and `OwnedInv`: whatever names an organisation, a
  call, a mapping or a data source, the call that created it worked for the
  same user.
  `OrgsAccountedFor` from `AccountInv`: a user has one organisation at a time;
  an organisation somebody names exists or was rolled back by its creator, who
  is then done, and if it saved a mapping could not read it back (`unread`); a
  creator that is not through keeps its organisation; a deleted account leaves
  its organisations in `forgotten`.
- `ServerProofs` on queries: `QueriesAreScoped`, for every grammar that meets
  `GrammarAssumption` and queries of any size. Its core is that reading and
  rewriting a text made of two pieces is reading and rewriting each: brackets
  are matched within a piece (`MatchLeft`, `MatchRight`), so braces, label lists
  and lone names of the whole are those of the pieces, the second ones moved by
  the length of the first (`BraceSpansJoin`, `LabelListsJoin`,
  `SelectorsJoin`); the loop over the selectors, which starts at the end, works
  off the second piece while the first is untouched (`RewritingRight`) and then
  the first with the second behind it (`RewritingLeft`); together `InjectJoin`.
  `ScopeInv` then says that whatever was built so far is scoped in both forms.
  It is a theorem about putting queries together: that single selectors are
  scoped is its hypothesis, which TLC evaluates on those of `MCServices`.
- `ServerProofs` on the composition: `ServicesAreIndependent`, `MCServices`
  implements the specification of each of its parts, and from it
  `ServicesTypesCorrect`, the type invariant of all of them. The types of
  accounts, provisioning and policy apply are part of the invariants above;
  those of the collector need that what its loop lists is a list of violations
  (`ListedIsList`).
- `ServerProofs` on Slack: `EventsAreCounted` from `SlackInv`: each notice
  tells of the events from where the one before it ended (`NoticesFollow`), the
  row begins with the event of the last notice (`RowFollows`), and the events
  are numbered without a gap (`AllCounted`). `NoticesAreApart`: the row
  remembers the latest of the notices.
- `ServerProofs` on the rest: `ViolationsHaveOneRow` (an id tells its
  violation) and `PolicyAnswersMatch`, whose invariant says at each phase which
  resources have been tried, which are in the cluster, and which of them the
  loop still has before it.

Only model-checked:

- liveness (`AcceptedEventsEnd`, `StandingViolationsAreRecorded`) and anything
  with ENABLED, which TLAPS does not handle;
- that a single selector is rewritten as it should (`GrammarAssumption` on the
  grammar of `MCServices`): `Kept` and `Braced` filter and fold matchers by
  operators of the community modules, whose definitions the prover does not
  expand;
- the three properties the code violates.

Every invariant and every action property that holds is proved. No module a
theorem rests on declares a RECURSIVE operator. The induction theorems of the
library take an operator as a parameter and cannot be used; loops, which are
recursive functions here, are reasoned about without them: a place nearest to
the end where a claim fails would be next to one where it holds (`LeastOf`,
`FromTheEnd`), and the function a definition chooses is shown to exist by
building it up one place at a time (`RewritingIsDefined`, `ListingIsDefined`).

## Where code and words differ

The three violated properties above, listed with their lines in `PROJECT.json`.
Seen on the way, and not the subject of a run:

- `core/classifier.py:131`: an AI answer whose confidence is not a number
  raises outside the try block and the event is dropped, where
  `runtime-detection/README.md:165` describes a fallback. `AiAnswersBadly`
  models it.
- `core/metrics.py:126`: a fallback is counted as another AI request
  (`CountersAgree` states the sum the code keeps); an answer whose body cannot
  be read is observed twice in the latency histogram, whose buckets are
  cumulated twice (191-204).
- `core/processor.py:135`: `fp_downgraded` counts events already low, which
  nothing lowered.
- `core/__init__.py:42`: `limit=0` answers with every event.
- `core/heartbeat.py:163`: a watchdog that never reports is never missed.
- `k8s/client.py:209`: the preferred label `app` usually selects all replicas
  of a workload, so isolating one pod isolates its siblings.
- `storage.py:1452`: trashing a cluster that is in the trash starts its
  retention again; `delete_user_account` keeps the time (COALESCE).
  `PurgedOnlyAfterRetention` therefore counts from the first trashing.
- `storage.py:1488`, `1503`, `1527`: deleting or purging a cluster removes its
  events and apply records and leaves the row of its Grafana mapping, which goes
  with the account (668). `OrphansAreLateWrites` says of mappings only that
  their user is there or was gone when they were saved.
- `storage.py:1591`: last seen is the greatest of the events' timestamps as
  text, which the ingest does not normalise (`main.py:807`); an event with
  another offset, or a text that is no time, can hold it back or pin it.
  `LastSeenNeverGoesBack` is about the text, and about time where the formats
  are the same.
- `storage.py:607`: a sign-in whose status read precedes a disable and whose
  insert follows it leaves a session that works again once the account is
  enabled; `RevocationEndsSessions` excepts exactly these.
- `static/docs.html:1122`: the page promises that a sign-in with more than five
  accounts in 24 hours is blocked; blocked attempts are themselves recorded and
  count as accounts seen, so the blocked account is let in when it tries again.
- `runtime_client.py:149`: when a template fails its dry run, the templates
  that passed are answered as "pending", although nothing is pending.
- `runtime_client.py:215`: when a later dry run fails the answer denies that
  anything was applied, although the templates ahead of it were (153) and are in
  the cluster. `AnswerMatchesCluster` holds of the results; of the text it says
  that a denial is true but for these templates.
- `grafana/provisioning.py:421`: the rollback goes to `GRAFANA_URL` and all
  other requests (52) to `CLIENT_GRAFANA_URL`; where the two are configured
  apart it undoes nothing, which the model has as a refused rollback.
- `grafana/provisioning.py:94`: a call that found the organisation of another
  that later rolls it back can still save it, over a good mapping
  (`OrgsAreAccountedFor`).
- `storage.py:668`: deleting an account removes its Grafana mappings and leaves
  the organisations in Grafana, where nothing points to them any more.
- `storage.py:488`: the saved mapping is read back in a transaction of its own;
  when that fails the organisation is rolled back and the row, which was
  committed, points to an organisation that is gone.
- `grafana/proxy.py:67`: of a POST with a form only the form is rewritten and
  the parameters of the URL go on as they came; a body of another type goes on
  raw (82). `EverySelectorIsScoped` is about what is rewritten.
- `k8s/client.py:238`: a first lookup that found no cache creates an empty one
  even when another has filled it meanwhile; until its lifetime is over, running
  containers are missed (`MissesAreNew` excepts this lifetime).
- `main.py:2199`: the cooldown starts with the decision to notify; a post that
  fails is not repeated, the next notice is a cooldown away, and of the events
  the lost one counted, its own is the only one another notice tells.
- `storage.py:554`: a notice counts its own event and the row begins with that
  event again, so the next notice counts it once more.
- `main.py:2130`: the id of a violation leaves out the kind of the object; two
  objects of one name, namespace and message share a row.
- `grafana/promql_inject.py:156`: compound durations (`1h30m`) are taken for
  selectors; the class comment (80-84) does not speak of them.

## Not modelled

- `analyzer.py`, `classifier.py`, `llm_client.py`, `policy_generator.py` and
  the reports: one request, one answer of a language model with a fallback,
  generated YAML. What is right about them is in texts. The pipeline models the
  answers the response server gets.
- The web UI and the UI proxy: pages, headers and HTML.
- `k8s-policy-engine/`: Rego predicates and mutations of one object, with unit
  tests of their own; no behaviour over time.
- `compliance-agent/`, manifests, scripts, dashboards, Falco's rules: installed
  or evaluated elsewhere.
- The audit log and the policy history (only appended and listed), the kinds of
  clusters, listings and summaries, the round trip to Google, signature
  arithmetic, the latency histogram, the lexer of PromQL.

What could follow: a refinement of the policy apply's saga by an abstract
all-or-templates-only apply, and matchers of any number in a selector, which
would make the assumption about single selectors a theorem too.
