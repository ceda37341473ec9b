------------------------------- MODULE MCNode -------------------------------
(* Values for the constants of Node are given in node.cfg.                  *)
EXTENDS Node

\* cohort_ws.rs: the delays are within the bounds its constants name, they do not shrink from one
\* attempt to the next, and they stay at the cap, also where the shift would overflow.
ASSUME BackoffBounded ==
    \A attempt \in 1..70 :
        /\ ComputeBackoff(attempt) \subseteq 500..MaxBackoff
        /\ \A d \in ComputeBackoff(attempt), e \in ComputeBackoff(attempt + 1) : d <= e
        /\ attempt >= 8 => ComputeBackoff(attempt) = {MaxBackoff}

\* http.rs and ws.rs: a URL that makes a client of the pool also makes a WebSocket endpoint, so
\* that no upgrade of a configured coordinator fails on its URL.
ASSUME PoolUrlsUpgrade == \A url \in Url : ClientAccepts(url) => WsEndpoint(url).scheme = "wss"
=============================================================================
