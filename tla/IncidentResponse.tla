-------------------------- MODULE IncidentResponse --------------------------
(***************************************************************************)
(* What the response server promises about the events delivered to it,     *)
(* whatever its threads do: an event is dealt with at most once; a pod is  *)
(* cut off at most once for it, and only while it is being dealt with;     *)
(* and an event that cut a pod off leaves a record, unless the server      *)
(* itself dies, which also loses the records it kept.                      *)
(*                                                                         *)
(* ResponsePipeline implements this specification.                         *)
(***************************************************************************)
EXTENDS Integers, Sequences

CONSTANTS
  Deliveries,   \* the events delivered, each delivery its own
  Keep          \* how many records are kept

VARIABLES
  status,       \* each delivery: "waiting", "open" or "closed"
  cutOff,       \* the deliveries that cut a pod off the network
  trail         \* the deliveries whose records are kept, oldest first

vars == <<status, cutOff, trail>>

Init ==
  /\ status = [d \in Deliveries |-> "waiting"]
  /\ cutOff = {}
  /\ trail = <<>>

Newest(s) == IF Len(s) > Keep THEN Tail(s) ELSE s

Move(d, from, to) ==
  /\ status[d] = from
  /\ status' = [status EXCEPT ![d] = to]

Open(d) == Move(d, "waiting", "open") /\ UNCHANGED <<cutOff, trail>>

CutOff(d) ==
  /\ status[d] = "open" /\ d \notin cutOff
  /\ cutOff' = cutOff \cup {d}
  /\ UNCHANGED <<status, trail>>

Close(d) ==
  /\ Move(d, "open", "closed")
  /\ trail' = Newest(Append(trail, d))
  /\ UNCHANGED cutOff

(* Not every event ends in a record, but then nothing was done for it. *)
Drop(d) ==
  /\ d \notin cutOff
  /\ Move(d, "open", "closed")
  /\ UNCHANGED <<cutOff, trail>>

Crash ==
  /\ status' = [d \in Deliveries |-> IF status[d] = "waiting" THEN "waiting" ELSE "closed"]
  /\ trail' = <<>>
  /\ UNCHANGED cutOff

Next ==
  \/ \E d \in Deliveries : Open(d) \/ CutOff(d) \/ Close(d) \/ Drop(d)
  \/ Crash

Spec == Init /\ [][Next]_vars
=============================================================================
