----------------------------- MODULE EventStore -----------------------------
(***************************************************************************)
(* The in-memory event store of the response server                        *)
(* (runtime-detection/response-server/core/__init__.py): a ring buffer of  *)
(* the last MaxSize response records behind one lock. Every method takes   *)
(* the lock for its whole body, so a call is one step; the readers are     *)
(* operators, for they change nothing.                                     *)
(***************************************************************************)
EXTENDS Integers, Sequences, SequencesExt

Severities == {"low", "medium", "high"}

CONSTANTS
  Records,    \* response records: [severity, namespace, ...]
  MaxSize,    \* EVENT_STORE_SIZE, the deque's maxlen
  MaxAdds     \* bound: how many records are added between two clears

ASSUME StoreAssumption ==
  /\ MaxSize \in Nat
  /\ MaxAdds \in Nat
  /\ \A r \in Records : r.severity \in Severities

VARIABLES
  events,     \* _events, oldest first
  idCounter   \* _id_counter

vars == <<events, idCounter>>

(* What the deque holds: the record and the id it was given. *)
Entry == [id : Nat \ {0}, rec : Records]

-----------------------------------------------------------------------------
Init ==
  /\ events = <<>>
  /\ idCounter = 0

(* Fault: a size check that lets one more record in. *)
BoundedLate(s) == IF Len(s) > MaxSize + 1 THEN Tail(s) ELSE s

(* Fault: the newest record is dropped instead of the oldest. *)
BoundedWrongEnd(s) == IF Len(s) > MaxSize THEN SubSeq(s, 1, MaxSize) ELSE s

(* append() on a deque with a maxlen drops from the other end once full. *)
Bounded(s) == IF Len(s) > MaxSize THEN Tail(s) ELSE s

(* Fault: the id handed out is read before the counter moves. *)
AddBeforeCounting(r) ==
  /\ idCounter' = idCounter + 1
  /\ events' = Bounded(Append(events, [id |-> idCounter, rec |-> r]))

(* The counter moves and the record enters under one lock. *)
Add(r) ==
  /\ idCounter' = idCounter + 1
  /\ events' = Bounded(Append(events, [id |-> idCounter + 1, rec |-> r]))

Clear ==
  /\ events' = <<>>
  /\ idCounter' = 0

Next == Clear \/ (idCounter < MaxAdds /\ \E r \in Records : Add(r))

Spec == Init /\ [][Next]_vars

-----------------------------------------------------------------------------
(* The readers.                                                            *)

(* Fault: the oldest n instead of the newest n. *)
SliceFromStart(s, n) == SubSeq(s, 1, IF n > Len(s) THEN Len(s) ELSE n)

(* Python's s[-n:], with its reading of zero and of negative n. *)
SliceFromEnd(s, n) ==
  CASE n > 0 -> SubSeq(s, IF n > Len(s) THEN 1 ELSE Len(s) - n + 1, Len(s))
    [] n = 0 -> s
    [] OTHER -> SubSeq(s, 1 - n, Len(s))

GetAll == Reverse(events)

GetRecent(n) == Reverse(SliceFromEnd(events, n))

(* What a loop over s keeps of it, in order, and how much that is. *)
Picked(s, Kept) ==
  LET upTo[n \in 0..Len(s)] ==
        IF n = 0 THEN <<>>
        ELSE IF s[n] \in Kept THEN Append(upTo[n - 1], s[n]) ELSE upTo[n - 1]
  IN upTo[Len(s)]

Tally(s, Kept) ==
  LET upTo[n \in 0..Len(s)] ==
        IF n = 0 THEN 0
        ELSE IF s[n] \in Kept THEN upTo[n - 1] + 1 ELSE upTo[n - 1]
  IN upTo[Len(s)]

OfSeverity(sev) == {e \in Range(events) : e.rec.severity = sev}
OfNamespace(ns) == {e \in Range(events) : e.rec.namespace = ns}

GetBySeverity(sev) == Picked(GetAll, OfSeverity(sev))

GetByNamespace(ns) == Picked(GetAll, OfNamespace(ns))

(* The first entry with that id, or none. *)
GetById(id) ==
  LET i == SelectInSeq(events, LAMBDA e : e.id = id)
  IN IF i = 0 THEN <<>> ELSE <<events[i]>>

Summary ==
  [total_events |-> Len(events),
   by_severity  |-> [s \in {e.rec.severity : e \in Range(events)} |-> Tally(events, OfSeverity(s))],
   by_namespace |-> [n \in {e.rec.namespace : e \in Range(events)} \ {""}
                       |-> Tally(events, OfNamespace(n))],
   recent_high  |-> SliceFromEnd(Picked(events, OfSeverity("high")), 10)]

-----------------------------------------------------------------------------
(* Properties.                                                             *)

(* The buffer never exceeds the size it was built with, and the counter    *)
(* that numbers the records never goes negative (EventStore.__init__, add).*)
TypeOK ==
  /\ events \in Seq(Entry)
  /\ Len(events) <= MaxSize
  /\ idCounter \in 0..MaxAdds

(* The store holds exactly the newest records and numbers them without a   *)
(* gap or a repeat: position i from the end carries the id idCounter less  *)
(* i. Any dropped, duplicated or renumbered record breaks it, also across  *)
(* a clear() (core/__init__.py add and clear).                             *)
IdsAreAWindow ==
  /\ Len(events) = IF idCounter < MaxSize THEN idCounter ELSE MaxSize
  /\ \A i \in DOMAIN events : events[i].id = idCounter - Len(events) + i

(* Asking for the newest n gives the n largest ids, newest first           *)
(* (get_recent).                                                           *)
RecentIsNewest ==
  \A n \in 1..(MaxSize + 1) :
    LET r == GetRecent(n) IN
      /\ Len(r) = IF n < Len(events) THEN n ELSE Len(events)
      /\ \A i \in DOMAIN r : r[i].id = idCounter - i + 1

(* Looking up an id finds its record exactly when the store still holds it *)
(* (get_by_id).                                                            *)
IdsAreFound ==
  \A id \in 1..MaxAdds :
    GetById(id) = IF id \in (idCounter - Len(events) + 1)..idCounter
                  THEN <<events[id - (idCounter - Len(events))]>> ELSE <<>>

NewestFirst(list) ==
  \A i \in DOMAIN list, j \in DOMAIN list : i < j => list[i].id > list[j].id

(* The list of a severity or of a namespace is what the store holds of it, *)
(* newest first, and as long as the summary says; and no record is left    *)
(* out of the summary or counted twice (get_by_severity, get_by_namespace, *)
(* get_summary).                                                           *)
ListsMatchSummary ==
  LET s == Summary
      Counted(sev) == IF sev \in DOMAIN s.by_severity THEN s.by_severity[sev] ELSE 0
  IN
  /\ \A sev \in DOMAIN s.by_severity :
       LET list == GetBySeverity(sev) IN
         /\ Len(list) = s.by_severity[sev]
         /\ NewestFirst(list) /\ Range(list) = OfSeverity(sev)
  /\ \A ns \in DOMAIN s.by_namespace :
       LET list == GetByNamespace(ns) IN
         /\ Len(list) = s.by_namespace[ns]
         /\ NewestFirst(list) /\ Range(list) = OfNamespace(ns)
  /\ s.total_events = Counted("low") + Counted("medium") + Counted("high")

(* The readers tell one story of the store: the newest records, the record *)
(* of an id, the records of a severity or a namespace and the summary      *)
(* (get_recent, get_by_id, get_by_severity, get_by_namespace, get_summary).*)
ReadersAgree == RecentIsNewest /\ IdsAreFound /\ ListsMatchSummary

(* The abstract audit trail, read off the ring buffer by id. *)
Trail == INSTANCE AuditWindow
           WITH total  <- idCounter,
                window <- [i \in {k \in 1..idCounter : k > idCounter - MaxSize} |->
                             events[Len(events) - (idCounter - i)].rec]

(* The ring buffer implements the audit trail: the slice of the deque that *)
(* survives an append is the window the trail promises (add, clear).       *)
ImplementsAuditWindow == Trail!Spec
=============================================================================
