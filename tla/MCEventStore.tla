---------------------------- MODULE MCEventStore ----------------------------
(* A small event store for TLC: three severities over two namespaces and   *)
(* the empty one that host events carry.                                   *)
EXTENDS EventStore

MCRecords == { [severity |-> s, namespace |-> n] :
                  s \in {"low", "high"}, n \in {"", "default"} }
=============================================================================
