------------------------------- MODULE MCFront -------------------------------
EXTENDS Front, TLC
MCRegions == {<<"us", "east">>, <<"de">>}
MCDatabases == {[i \in Ips |-> "de"], [i \in Ips |-> "error"]}
MCIpQuota == [r \in Routes |-> IF r = "match" THEN 2 ELSE 1]
MCPeerQuota == [r \in {"match", "heartbeat"} |-> 1]
Symmetric ==
    Permutations(Handlers) \cup Permutations(Salts) \cup Permutations(Peers) \cup Permutations(Ips)
=============================================================================
