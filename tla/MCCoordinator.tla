--------------------------- MODULE MCCoordinator ---------------------------
(* Instances of Coordinator for TLC.                                       *)
EXTENDS Coordinator, TLC

\* Peers, cohorts, requests and declared regions are interchangeable: nothing compares them but
\* for equality.
Symm ==
    Permutations(Peers) \cup Permutations(Cohorts) \cup Permutations(Requests)
    \cup Permutations(Regions \ {NoRegion})
=============================================================================
