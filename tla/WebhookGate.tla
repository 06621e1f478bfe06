---------------------------- MODULE WebhookGate ----------------------------
(***************************************************************************)
(* What stands before the event pipeline: the webhook handler              *)
(* (runtime-detection/response-server/handlers/http.py) and the            *)
(* WebhookSecurity it asks (middleware/security.py): size limits, a token  *)
(* bucket per client address, the address list, the signature, the JSON.   *)
(* The HTTP server runs one handler at a time, so a request is one step.   *)
(*                                                                         *)
(* Tokens are counted in fractions so that Capacity, Refill and Cost are   *)
(* whole numbers.                                                          *)
(***************************************************************************)
EXTENDS Integers

CONSTANTS
  Clients,      \* client addresses
  Listed,       \* those in WEBHOOK_IP_WHITELIST
  UseList,      \* a whitelist is configured
  HmacEnabled,  \* WEBHOOK_SECRET is set
  HmacRequired, \* and WEBHOOK_HMAC_REQUIRED
  Capacity,     \* RATE_LIMIT_CAPACITY, in fractions of a token
  Refill,       \* tokens a bucket gains per unit of time
  Cost,         \* one token
  MaxTime,      \* bound on the clock
  MaxRequests   \* bound on the requests

ASSUME GateAssumption ==
  /\ Listed \subseteq Clients
  /\ UseList \in BOOLEAN /\ HmacEnabled \in BOOLEAN /\ HmacRequired \in BOOLEAN
  /\ HmacRequired => HmacEnabled
  /\ Capacity \in Nat /\ Refill \in Nat /\ Cost \in Nat
  /\ MaxTime \in Nat /\ MaxRequests \in Nat

VARIABLES
  clock,
  buckets,    \* _buckets: client -> [tokens, lastRefill], a bucket once it is used
  rejected,   \* metrics.webhook_rejected
  requests,   \* history: requests received
  passed,     \* history: requests of each client that the limit let through
  before      \* history: [client -> [time -> those it let through before]]

history == <<passed, before>>
vars    == <<clock, buckets, rejected, requests, history>>

Bodies     == {"empty", "tooLarge", "event", "notJson"}
Signatures == {"valid", "invalid", "none"}
Statuses   == {401, 403, 413, 429}

Init ==
  /\ clock = 0
  /\ buckets = [c \in {} |-> 0]
  /\ rejected = [s \in Statuses |-> 0]
  /\ requests = 0
  /\ passed = [c \in Clients |-> 0]
  /\ before = [c \in Clients |-> [t \in 0..MaxTime |-> 0]]

-----------------------------------------------------------------------------
Least(a, b) == IF a < b THEN a ELSE b

Elapsed(c) == clock - buckets[c].lastRefill

(* Fault: a bucket may overflow. *)
ToppedUpUncapped(c) ==
  IF c \in DOMAIN buckets THEN buckets[c].tokens + Elapsed(c) * Refill ELSE Capacity

(* The tokens of a client's bucket once the elapsed time is credited; a    *)
(* bucket starts full.                                                     *)
ToppedUp(c) ==
  IF c \in DOMAIN buckets
  THEN Least(Capacity, buckets[c].tokens + Elapsed(c) * Refill)
  ELSE Capacity

(* Fault: a bucket that gave no token keeps its old time, though topped up.*)
SetBucketKeepingTime(c, tokens) ==
  buckets' = [d \in DOMAIN buckets \cup {c} |->
                IF d = c THEN [tokens |-> tokens,
                               lastRefill |-> IF c \in DOMAIN buckets /\ tokens = ToppedUp(c)
                                              THEN buckets[c].lastRefill ELSE clock]
                ELSE buckets[d]]

SetBucket(c, tokens) ==
  buckets' = [d \in DOMAIN buckets \cup {c} |->
                IF d = c THEN [tokens |-> tokens, lastRefill |-> clock] ELSE buckets[d]]

CountRejection(status) ==
  rejected' = IF status \in Statuses THEN [rejected EXCEPT ![status] = @ + 1]
                                     ELSE rejected

(* The body is missing or over the limit: answered before anything else.   *)
RefuseBody(body) ==
  /\ requests < MaxRequests
  /\ body \in {"empty", "tooLarge"}
  /\ requests' = requests + 1
  /\ CountRejection(IF body = "tooLarge" THEN 413 ELSE 400)
  /\ UNCHANGED <<clock, buckets, history>>

(* _check_rate_limit refuses; the bucket has been topped up all the same.  *)
RefuseRate(c) ==
  /\ requests < MaxRequests
  /\ ToppedUp(c) < Cost
  /\ requests' = requests + 1
  /\ SetBucket(c, ToppedUp(c))
  /\ CountRejection(429)
  /\ UNCHANGED <<clock, history>>

SignatureRefused(signature) ==
  IF HmacRequired THEN signature # "valid" ELSE HmacEnabled /\ signature = "invalid"

Status(c, body, signature) ==
  CASE UseList /\ c \notin Listed  -> 403
    [] SignatureRefused(signature) -> 401
    [] body = "notJson"            -> 400
    [] OTHER                       -> 200

(* Past the limit a token is gone, whatever the answer. *)
Answer(c, body, signature) ==
  /\ requests < MaxRequests
  /\ body \notin {"empty", "tooLarge"}
  /\ ToppedUp(c) >= Cost
  /\ requests' = requests + 1
  /\ SetBucket(c, ToppedUp(c) - Cost)
  /\ CountRejection(Status(c, body, signature))
  /\ passed' = [passed EXCEPT ![c] = @ + 1]
  /\ UNCHANGED <<clock, before>>

Tick ==
  /\ clock < MaxTime
  /\ clock' = clock + 1
  /\ before' = [c \in Clients |-> [before[c] EXCEPT ![clock + 1] = passed[c]]]
  /\ UNCHANGED <<buckets, rejected, requests, passed>>

Next ==
  \/ \E body \in Bodies : RefuseBody(body)
  \/ \E c \in Clients :
       RefuseRate(c) \/ \E body \in Bodies, s \in Signatures : Answer(c, body, s)
  \/ Tick

Spec == Init /\ [][Next]_vars

-----------------------------------------------------------------------------
(* Properties.                                                             *)

(* However a client spaces its requests, in no window of time do more pass *)
(* than the burst and what the window refills: topping up only at requests *)
(* must not credit any time twice (security.py:33-38, 49-62).              *)
NoWindowExceedsTheRate ==
  \A c \in Clients : \A from \in 0..clock :
    (passed[c] - before[c][from]) * Cost <= Capacity + Refill * (clock - from)

(* The buckets implement the limit as it is meant: a client is refused     *)
(* exactly when its allowance is used up, and a bucket not yet made, or    *)
(* not touched for long, is as good as one topped up all the time          *)
(* (security.py:49-62, 230-237).                                           *)
Limit ==
  INSTANCE RateLimit
    WITH allowance <- [c \in Clients |-> ToppedUp(c)],
         refusals <- rejected[429],
         time <- clock

ImplementsRateLimit == Limit!Spec
=============================================================================
