----------------------------- MODULE MCHandoff ------------------------------
\* Instances of HandoffLifecycle for TLC.
EXTENDS HandoffLifecycle, TLC

\* Ids, messages, requests and visitors are interchangeable.
MCSymmetry ==
  Permutations(Packages) \cup Permutations(Msgs) \cup Permutations(Requests)
    \cup Permutations(Visitors)

\* Two packages of any lineages, or three versions of one lineage that nobody has
\* visited; no message out of scope, which matters to no property of this run.
MCBound ==
  LET ps == {p \in Packages : pkg[p].status # "absent"}
  IN  /\ Cardinality(ps) > 2 =>
           /\ Cardinality({pkg[p].lineage : p \in ps}) = 1
           /\ \A p \in ps : ~grant[p].consumed /\ ~grant[p].expired
      /\ \A p \in ps : scope[p] = Msgs
=============================================================================
