----------------------------- MODULE RateLimit -----------------------------
(***************************************************************************)
(* The rate limit as it is meant: every client has an allowance of at most *)
(* Capacity that grows by Refill with every unit of time, whether or not   *)
(* the client is heard of, and a request needs Cost of it.                 *)
(*                                                                         *)
(* WebhookGate implements this specification with buckets that are made    *)
(* and topped up only when a request comes in.                             *)
(***************************************************************************)
EXTENDS Integers

CONSTANTS Clients, Capacity, Refill, Cost

VARIABLES
  allowance,   \* of each client
  refusals,    \* how many requests have been refused
  time

vars == <<allowance, refusals, time>>

Least(a, b) == IF a < b THEN a ELSE b

Init ==
  /\ allowance = [c \in Clients |-> Capacity]
  /\ refusals = 0
  /\ time = 0

Pass(c) ==
  /\ allowance[c] >= Cost
  /\ allowance' = [allowance EXCEPT ![c] = @ - Cost]
  /\ UNCHANGED <<refusals, time>>

Refuse(c) ==
  /\ allowance[c] < Cost
  /\ refusals' = refusals + 1
  /\ UNCHANGED <<allowance, time>>

Elapse ==
  /\ time' = time + 1
  /\ allowance' = [c \in Clients |-> Least(Capacity, allowance[c] + Refill)]
  /\ UNCHANGED refusals

Next == Elapse \/ \E c \in Clients : Pass(c) \/ Refuse(c)

Spec == Init /\ [][Next]_vars
=============================================================================
