----------------------------- MODULE GateProofs -----------------------------
(***************************************************************************)
(* Proofs about WebhookGate: its buckets implement the rate limit as it is *)
(* meant, and no window of time exceeds the rate, for every capacity,      *)
(* refill, price and any number of clients.                                *)
(***************************************************************************)
EXTENDS WebhookGate, TLAPS

GateTypeOK ==
  /\ clock \in 0..MaxTime
  /\ rejected \in [Statuses -> Nat]
  /\ requests \in 0..MaxRequests
  /\ passed \in [Clients -> Nat]
  /\ before \in [Clients -> [0..MaxTime -> Nat]]
  /\ DOMAIN buckets \subseteq Clients

(* What a bucket holds: an amount in bounds, and a time that has been. *)
BucketsOK ==
  \A c \in DOMAIN buckets :
    /\ buckets[c].tokens \in 0..Capacity
    /\ buckets[c].lastRefill \in 0..clock

(* What passed since a time and what could pass now are together no more   *)
(* than the burst and what was refilled since.                             *)
SpentAndLeft ==
  \A c \in Clients : \A from \in 0..clock :
    (passed[c] - before[c][from]) * Cost + ToppedUp(c)
      <= Capacity + Refill * (clock - from)

IInv == GateTypeOK /\ BucketsOK /\ SpentAndLeft

-----------------------------------------------------------------------------
(* Arithmetic. *)

LEMMA Numbers == /\ Capacity \in Nat /\ Refill \in Nat /\ Cost \in Nat
                 /\ MaxTime \in Nat /\ MaxRequests \in Nat
BY GateAssumption DEF GateAssumption

LEMMA OneMore == ASSUME NEW n \in Int, NEW k \in Int
                 PROVE  n * k \in Int /\ (n + 1) * k = n * k + k
OBVIOUS

(* Credit is never negative. *)
LEMMA CreditIsNat == ASSUME NEW n \in Nat, NEW k \in Nat PROVE n * k \in Nat
OBVIOUS

(* Topping up in one go is topping up unit by unit. *)
LEMMA TopUpUnitByUnit ==
  ASSUME NEW cap \in Nat, NEW tokens \in 0..cap, NEW credit \in Nat, NEW unit \in Nat
  PROVE  Least(cap, tokens + (credit + unit)) = Least(cap, Least(cap, tokens + credit) + unit)
BY DEF Least

-----------------------------------------------------------------------------
(* Buckets. *)

(* What a client could use now. *)
LEMMA ToppedUpBounds ==
  ASSUME GateTypeOK, BucketsOK, NEW c \in Clients
  PROVE  ToppedUp(c) \in 0..Capacity
<1>1. CASE c \notin DOMAIN buckets
  BY <1>1, Numbers DEF ToppedUp
<1>2. CASE c \in DOMAIN buckets
  <2>1. Elapsed(c) \in Nat
    BY <1>2 DEF GateTypeOK, BucketsOK, Elapsed
  <2>2. Elapsed(c) * Refill \in Nat
    BY <2>1, CreditIsNat, Numbers
  <2>3. buckets[c].tokens \in 0..Capacity
    BY <1>2 DEF BucketsOK
  <2>4. buckets[c].tokens + Elapsed(c) * Refill \in Nat
    BY <2>2, <2>3
  <2> QED
    BY <1>2, <2>4, Numbers DEF ToppedUp, Least
<1> QED
  BY <1>1, <1>2

(* A bucket set now holds what it was set to; the others are as they were. *)
LEMMA BucketSet ==
  ASSUME GateTypeOK, BucketsOK, NEW c \in Clients, NEW tokens \in 0..Capacity,
         SetBucket(c, tokens), UNCHANGED clock
  PROVE  /\ DOMAIN buckets' \subseteq Clients /\ BucketsOK'
         /\ ToppedUp(c)' = tokens
         /\ \A d \in Clients : d # c => ToppedUp(d)' = ToppedUp(d)
<1>1. /\ buckets'[c] = [tokens |-> tokens, lastRefill |-> clock]
      /\ DOMAIN buckets' = DOMAIN buckets \cup {c}
      /\ \A d \in DOMAIN buckets : d # c => buckets'[d] = buckets[d]
  BY DEF SetBucket
<1>2. BucketsOK' /\ DOMAIN buckets' \subseteq Clients
  BY <1>1 DEF BucketsOK, GateTypeOK
<1>3. ToppedUp(c)' = tokens
  <2>1. Elapsed(c)' * Refill = 0
    BY <1>1, Numbers DEF Elapsed, GateTypeOK
  <2> QED
    BY <1>1, <2>1, Numbers DEF ToppedUp, Least
<1>4. \A d \in Clients : d # c => ToppedUp(d)' = ToppedUp(d)
  BY <1>1 DEF ToppedUp, Elapsed
<1> QED
  BY <1>2, <1>3, <1>4

(* A unit of time tops every bucket up by one refill. *)
LEMMA TickTopsUp ==
  ASSUME GateTypeOK, BucketsOK, Tick, NEW c \in Clients
  PROVE  ToppedUp(c)' = Least(Capacity, ToppedUp(c) + Refill)
<1>1. buckets' = buckets /\ clock' = clock + 1
  BY DEF Tick
<1>2. CASE c \notin DOMAIN buckets
  BY <1>1, <1>2, Numbers DEF ToppedUp, Least
<1>3. CASE c \in DOMAIN buckets
  <2>1. Elapsed(c) \in Nat /\ Elapsed(c)' = Elapsed(c) + 1
    <3>1. clock \in Nat /\ buckets[c].lastRefill \in 0..clock
      BY <1>3, Numbers DEF GateTypeOK, BucketsOK
    <3>2. Elapsed(c)' = clock' - buckets[c].lastRefill
      BY <1>1 DEF Elapsed
    <3> QED
      BY <1>1, <3>1, <3>2 DEF Elapsed
  <2>2. /\ Elapsed(c)' * Refill = Elapsed(c) * Refill + Refill
        /\ Elapsed(c) * Refill \in Nat
    BY <2>1, OneMore, CreditIsNat, Numbers
  <2>3. buckets[c].tokens \in 0..Capacity
    BY <1>3 DEF BucketsOK
  <2>4. Least(Capacity, buckets[c].tokens + (Elapsed(c) * Refill + Refill))
          = Least(Capacity, Least(Capacity, buckets[c].tokens + Elapsed(c) * Refill) + Refill)
    BY <2>2, <2>3, TopUpUnitByUnit, Numbers
  <2> QED
    BY <1>1, <1>3, <2>2, <2>4 DEF ToppedUp
<1> QED
  BY <1>2, <1>3

-----------------------------------------------------------------------------
(* The inductive invariant. *)

LEMMA GateInit == Init => IInv
<1> SUFFICES ASSUME Init PROVE IInv
  OBVIOUS
<1>1. GateTypeOK /\ BucketsOK
  BY Numbers DEF Init, GateTypeOK, BucketsOK
<1>2. SpentAndLeft
  BY Numbers DEF Init, SpentAndLeft, ToppedUp
<1> QED
  BY <1>1, <1>2 DEF IInv

(* A refusal only puts down what the bucket holds by now. *)
LEMMA RefuseRateInv == ASSUME IInv, NEW c \in Clients, RefuseRate(c) PROVE IInv'
<1>1. ToppedUp(c) \in 0..Capacity
  BY ToppedUpBounds DEF IInv
<1>2. \A d \in Clients : ToppedUp(d)' = ToppedUp(d)
  BY <1>1, BucketSet DEF IInv, RefuseRate
<1>3. GateTypeOK' /\ BucketsOK'
  <2>1. BucketsOK' /\ DOMAIN buckets' \subseteq Clients
    BY <1>1, BucketSet DEF IInv, RefuseRate
  <2>2. requests' \in 0..MaxRequests /\ clock' = clock /\ before' = before /\ passed' = passed
    BY Numbers DEF IInv, RefuseRate, GateTypeOK, history
  <2>3. rejected' \in [Statuses -> Nat]
    BY DEF IInv, RefuseRate, GateTypeOK, CountRejection
  <2> QED
    BY <2>1, <2>2, <2>3 DEF IInv, GateTypeOK
<1>4. SpentAndLeft'
  BY <1>2 DEF IInv, SpentAndLeft, RefuseRate, history
<1> QED
  BY <1>3, <1>4 DEF IInv

(* A request that passes adds its price to what was spent, and takes it    *)
(* from what is left.                                                      *)
LEMMA AnswerInv ==
  ASSUME IInv, NEW c \in Clients, NEW body, NEW signature, Answer(c, body, signature)
  PROVE  IInv'
<1>1. /\ ToppedUp(c) \in 0..Capacity
      /\ ToppedUp(c) - Cost \in 0..Capacity
  BY ToppedUpBounds, Numbers DEF IInv, Answer
<1>2. /\ ToppedUp(c)' = ToppedUp(c) - Cost
      /\ \A d \in Clients : d # c => ToppedUp(d)' = ToppedUp(d)
  BY <1>1, BucketSet DEF IInv, Answer
<1>3. GateTypeOK' /\ BucketsOK'
  <2>1. BucketsOK' /\ DOMAIN buckets' \subseteq Clients
    BY <1>1, BucketSet DEF IInv, Answer
  <2>2. requests' \in 0..MaxRequests /\ clock' = clock /\ before' = before
    BY Numbers DEF IInv, Answer, GateTypeOK
  <2>3. rejected' \in [Statuses -> Nat] /\ passed' \in [Clients -> Nat]
    BY DEF IInv, Answer, GateTypeOK, CountRejection
  <2> QED
    BY <2>1, <2>2, <2>3 DEF IInv, GateTypeOK
<1>4. ASSUME NEW d \in Clients, NEW from \in 0..clock
      PROVE  (passed'[d] - before[d][from]) * Cost + ToppedUp(d)'
               <= Capacity + Refill * (clock - from)
  <2>1. (passed[d] - before[d][from]) * Cost + ToppedUp(d) <= Capacity + Refill * (clock - from)
    BY DEF IInv, SpentAndLeft
  <2>2. CASE d # c
    BY <1>2, <2>1, <2>2 DEF Answer, IInv, GateTypeOK
  <2>3. CASE d = c
    <3> DEFINE spent == passed[c] - before[c][from]
    <3>1. spent \in Int /\ passed'[c] - before[c][from] = spent + 1
      <4>1. from \in 0..MaxTime /\ passed[c] \in Nat
        BY Numbers DEF IInv, GateTypeOK
      <4>2. before[c][from] \in Nat
        BY <4>1 DEF IInv, GateTypeOK
      <4>3. passed'[c] = passed[c] + 1
        BY DEF Answer, IInv, GateTypeOK
      <4> QED
        BY <4>1, <4>2, <4>3
    <3>2. spent * Cost + ToppedUp(c) <= Capacity + Refill * (clock - from)
      BY <2>1, <2>3
    <3> HIDE DEF spent
    <3>3. (spent + 1) * Cost = spent * Cost + Cost /\ spent * Cost \in Int
      BY <3>1, OneMore, Numbers
    <3>4. Refill * (clock - from) \in Int
      BY Numbers DEF IInv, GateTypeOK
    <3> QED
      BY <1>1, <1>2, <2>3, <3>1, <3>2, <3>3, <3>4, Numbers
  <2> QED
    BY <2>2, <2>3
<1>5. SpentAndLeft'
  BY <1>4 DEF SpentAndLeft, Answer
<1> QED
  BY <1>3, <1>5 DEF IInv

(* A unit of time adds a refill to what any window allows, and no more to  *)
(* what is left; the window that begins now allows the burst.              *)
LEMMA TickInv == ASSUME IInv, Tick PROVE IInv'
<1>1. /\ clock < MaxTime /\ clock' = clock + 1
      /\ UNCHANGED <<buckets, rejected, passed>>
      /\ before' = [c \in Clients |-> [before[c] EXCEPT ![clock + 1] = passed[c]]]
  BY DEF Tick
<1>2. /\ clock \in 0..MaxTime /\ clock + 1 \in 0..MaxTime
      /\ passed \in [Clients -> Nat]
      /\ before \in [Clients -> [0..MaxTime -> Nat]]
  BY <1>1, Numbers DEF IInv, GateTypeOK
<1>3. ASSUME NEW c \in Clients
      PROVE  /\ before'[c] \in [0..MaxTime -> Nat]
             /\ before'[c][clock + 1] = passed[c]
             /\ \A from \in 0..clock : before'[c][from] = before[c][from]
  <2>1. before'[c] = [before[c] EXCEPT ![clock + 1] = passed[c]]
    BY <1>1
  <2>2. before[c] \in [0..MaxTime -> Nat] /\ passed[c] \in Nat
    BY <1>2
  <2> QED
    BY <1>2, <2>1, <2>2, Numbers
<1>4. GateTypeOK'
  BY <1>1, <1>2, <1>3, Numbers DEF IInv, GateTypeOK, Tick
<1>5. BucketsOK'
  BY <1>1, <1>2 DEF IInv, BucketsOK
<1>6. ASSUME NEW c \in Clients, NEW from \in 0..clock'
      PROVE  (passed'[c] - before'[c][from]) * Cost + ToppedUp(c)'
               <= Capacity + Refill * (clock' - from)
  <2>1. ToppedUp(c) \in 0..Capacity
    BY ToppedUpBounds DEF IInv
  <2>2. ToppedUp(c)' = Least(Capacity, ToppedUp(c) + Refill)
    BY TickTopsUp DEF IInv
  <2>3. CASE from = clock + 1
    <3>1. passed'[c] - before'[c][from] = 0 /\ clock' - from = 0
      BY <1>1, <1>2, <1>3, <2>3
    <3>2. ToppedUp(c)' <= Capacity /\ ToppedUp(c)' \in Int
      BY <2>1, <2>2, Numbers DEF Least
    <3> QED
      BY <3>1, <3>2, Numbers
  <2>4. CASE from \in 0..clock
    <3> DEFINE spent  == passed[c] - before[c][from]
               window == clock - from
    <3>1. passed'[c] - before'[c][from] = spent /\ spent \in Int
      BY <1>1, <1>2, <1>3, <2>4, Numbers
    <3>2. clock' - from = window + 1 /\ window \in Int
      BY <1>1, <1>2, <2>4
    <3>3. spent * Cost + ToppedUp(c) <= Capacity + Refill * window
      BY <2>4 DEF IInv, SpentAndLeft
    <3>4. ToppedUp(c)' <= ToppedUp(c) + Refill /\ ToppedUp(c)' \in Int
      BY <2>1, <2>2, Numbers DEF Least
    <3> HIDE DEF spent, window
    <3>5. Refill * (window + 1) = Refill * window + Refill /\ Refill * window \in Int
      BY <3>2, OneMore, Numbers
    <3>6. spent * Cost \in Int
      BY <3>1, OneMore, Numbers
    <3>7. spent * Cost + ToppedUp(c)' <= Capacity + (Refill * window + Refill)
      BY <2>1, <3>3, <3>4, <3>5, <3>6, Numbers
    <3> QED
      BY <3>1, <3>2, <3>5, <3>7
  <2> QED
    BY <1>1, <1>2, <2>3, <2>4
<1>7. SpentAndLeft'
  BY <1>6, Zenon DEF SpentAndLeft
<1> QED
  BY <1>4, <1>5, <1>7 DEF IInv

LEMMA GateInductive == IInv /\ [Next]_vars => IInv'
<1> SUFFICES ASSUME IInv, [Next]_vars PROVE IInv'
  OBVIOUS
<1>1. ASSUME NEW body \in Bodies, RefuseBody(body) PROVE IInv'
  BY <1>1, Numbers DEF RefuseBody, CountRejection, IInv, GateTypeOK, BucketsOK, SpentAndLeft,
     ToppedUp, Elapsed, history
<1>2. ASSUME UNCHANGED vars PROVE IInv'
  BY <1>2 DEF vars, IInv, GateTypeOK, BucketsOK, SpentAndLeft, ToppedUp, Elapsed, history
<1> QED
  BY <1>1, <1>2, RefuseRateInv, AnswerInv, TickInv DEF Next

(* For every rate and burst, no bucket holds more than the burst, and what a *)
(* client got through in a window and what is left to it now are together   *)
(* within burst plus rate (middleware/security.py, _TokenBucket).           *)
THEOREM GateInvariant == Spec => []IInv
BY GateInit, GateInductive, PTL DEF Spec

-----------------------------------------------------------------------------
(* The results. *)

(* In no window of time do more requests of a client pass than the burst   *)
(* and what the window refills (security.py:33-38, 49-62).                 *)
THEOREM WindowsKeepTheRate == Spec => []NoWindowExceedsTheRate
<1>1. IInv => NoWindowExceedsTheRate
  <2> SUFFICES ASSUME IInv, NEW c \in Clients, NEW from \in 0..clock
               PROVE  (passed[c] - before[c][from]) * Cost
                        <= Capacity + Refill * (clock - from)
    BY DEF NoWindowExceedsTheRate
  <2>1. /\ (passed[c] - before[c][from]) * Cost \in Int
        /\ Refill * (clock - from) \in Int /\ Capacity \in Int
    BY Numbers DEF IInv, GateTypeOK
  <2>2. ToppedUp(c) \in 0..Capacity
    BY ToppedUpBounds DEF IInv
  <2>3. (passed[c] - before[c][from]) * Cost + ToppedUp(c) <= Capacity + Refill * (clock - from)
    BY DEF IInv, SpentAndLeft
  <2> QED
    BY <2>1, <2>2, <2>3
<1> QED
  BY <1>1, GateInvariant, PTL

(* The buckets, made and topped up only when a request comes in, implement *)
(* the limit as it is meant (security.py:49-62, 230-237).                  *)
THEOREM GateImplementsRateLimit == Spec => ImplementsRateLimit
<1>1. Init => Limit!Init
  BY DEF Init, Limit!Init, ToppedUp, Statuses
<1>2. IInv /\ [Next]_vars => [Limit!Next]_(Limit!vars)
  <2> SUFFICES ASSUME IInv, [Next]_vars PROVE Limit!Next \/ UNCHANGED Limit!vars
    OBVIOUS
  <2>1. ASSUME NEW c \in Clients, RefuseRate(c) PROVE Limit!Refuse(c)
    <3>1. ToppedUp(c) \in 0..Capacity
      BY ToppedUpBounds DEF IInv
    <3>2. \A d \in Clients : ToppedUp(d)' = ToppedUp(d)
      BY <2>1, <3>1, BucketSet DEF IInv, RefuseRate
    <3> QED
      BY <2>1, <3>2 DEF RefuseRate, CountRejection, Statuses, IInv, GateTypeOK, Limit!Refuse
  <2>2. ASSUME NEW c \in Clients, NEW body, NEW signature, Answer(c, body, signature)
        PROVE  Limit!Pass(c)
    <3>1. /\ ToppedUp(c) \in 0..Capacity
          /\ ToppedUp(c) - Cost \in 0..Capacity
      BY <2>2, ToppedUpBounds, Numbers DEF IInv, Answer
    <3>2. /\ ToppedUp(c)' = ToppedUp(c) - Cost
          /\ \A d \in Clients : d # c => ToppedUp(d)' = ToppedUp(d)
      BY <2>2, <3>1, BucketSet DEF IInv, Answer
    <3>3. Status(c, body, signature) # 429
      BY DEF Status
    <3>4. rejected'[429] = rejected[429]
      BY <2>2, <3>3 DEF Answer, CountRejection, Statuses, IInv, GateTypeOK
    <3>5. [d \in Clients |-> ToppedUp(d)]'
            = [[d \in Clients |-> ToppedUp(d)] EXCEPT ![c] = @ - Cost]
      BY <3>2
    <3> QED
      BY <2>2, <3>4, <3>5 DEF Answer, Limit!Pass
  <2>3. CASE Tick
    BY <2>3, TickTopsUp DEF IInv, Tick, Limit!Next, Limit!Elapse, Limit!Least, Least
  <2>4. ASSUME NEW body \in Bodies, RefuseBody(body) PROVE UNCHANGED Limit!vars
    BY <2>4 DEF RefuseBody, CountRejection, Statuses, IInv, GateTypeOK, ToppedUp, Elapsed,
       Limit!vars
  <2>5. CASE UNCHANGED vars
    BY <2>5 DEF vars, ToppedUp, Elapsed, Limit!vars
  <2> QED
    BY <2>1, <2>2, <2>3, <2>4, <2>5 DEF Next, Limit!Next
<1> QED
  BY <1>1, <1>2, GateInvariant, PTL DEF Spec, ImplementsRateLimit, Limit!Spec
=============================================================================
