---------------------------- MODULE AuditWindow ----------------------------
(***************************************************************************)
(* What a bounded audit trail promises to the people who read it: every    *)
(* record gets the next number, a number names one record for as long as   *)
(* it is kept, and what is kept is exactly the newest MaxSize numbers.     *)
(*                                                                         *)
(* EventStore implements this specification with a ring buffer.            *)
(***************************************************************************)
EXTENDS Integers

CONSTANTS
  Records,   \* what can be recorded
  MaxSize    \* how many records are kept

VARIABLES
  total,     \* records numbered since the trail was last cleared
  window     \* number -> record, for the numbers still kept

vars == <<total, window>>

(* The numbers kept when n records have been numbered. *)
Kept(n) == { i \in 1..n : i > n - MaxSize }

Init ==
  /\ total = 0
  /\ window = [i \in Kept(0) |-> 0]

Record(r) ==
  /\ total' = total + 1
  /\ window' = [i \in Kept(total + 1) |->
                   IF i = total + 1 THEN r ELSE window[i]]

Reset ==
  /\ total' = 0
  /\ window' = [i \in Kept(0) |-> 0]

Next == Reset \/ \E r \in Records : Record(r)

Spec == Init /\ [][Next]_vars
=============================================================================
