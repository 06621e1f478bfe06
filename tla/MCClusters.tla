------------------------------ MODULE MCClusters ------------------------------
\* A small instance of Clusters.  The handlers that write records are alike.
EXTENDS Clusters, TLC

\* Two timestamps in UTC, and one of an earlier instant that is greater as text.
MCStamps ==
    {[text |-> 1, time |-> 2, format |-> "Z"], [text |-> 2, time |-> 3, format |-> "Z"],
     [text |-> 3, time |-> 1, format |-> "+09:00"]}

\* A sign-in overtaken by a revocation is checked in MCServices; here it goes no
\* further.
SignInsUndisturbed == \A s \in overtaken : signIns[s].stage = "done"

\* Two handlers that save a mapping save the same row: one at a time.
OneMappingAtATime == Cardinality({w \in Writers : writers[w].table = "mappings"}) < 2

Alike == Permutations(Writers)
=============================================================================
