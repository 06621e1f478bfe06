-------------------------- MODULE MCContainerCache --------------------------
(* A few threads and containers for TLC. *)
EXTENDS ContainerCache, TLC

Symmetry == Permutations(Threads) \cup Permutations(Containers)

(* Several threads that find no cache look at once; later would be the     *)
(* same, but for containers that come up and go before.                    *)
FirstLookupsAtOnce == ~hasCache /\ Present = Threads => clock = 0
=============================================================================
