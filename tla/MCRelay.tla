------------------------------ MODULE MCRelay ------------------------------
(* Instances of Relay for TLC.                                             *)
EXTENDS Relay, TLC

\* Within each role the names are interchangeable.
Symm == Permutations(Clients) \cup Permutations(Forwarders) \cup Permutations(Exits)
        \cup Permutations(Chains)
=============================================================================
