-------------------------- MODULE CoordinatorPool ---------------------------
(***************************************************************************)
(* Round-robin failover over the configured coordinators                   *)
(* (bibeam-discovery/src/failover.rs, error.rs).  Callers share the pool's *)
(* cursor: each call of try_each takes a start from it and then sweeps the *)
(* coordinators from there, one request at a time, while other calls and   *)
(* outages go on.                                                          *)
(***************************************************************************)
EXTENDS Integers

CONSTANTS
    Callers,  \* tasks that use the pool
    Sockets,  \* those whose operation is the WebSocket upgrade; the others speak HTTP
    PoolLen,  \* coordinators.len()
    Span      \* values the cursor takes before it wraps (2^64 in the code)

ASSUME PoolAssumption == PoolLen \in Nat \ {0} /\ Span \in Nat \ {0}
ASSUME SocketsAssumption == Sockets \subseteq Callers

VARIABLES
    cursor,  \* the shared AtomicUsize
    state,   \* what a request to a coordinator meets
    call     \* per caller: the call of try_each it awaits, and whom the sweep has asked

poolVars == <<cursor, state, call>>

Coordinators == 0..PoolLen - 1

\* An "up" coordinator answers, with what was asked for or with a refusal; a "down" one is
\* unreachable, answers 5xx or stops in the middle; a "silent" one takes the request and answers
\* nothing, and no timeout is set on a request.
Conditions == {"up", "down", "silent"}

\* DiscoveryError, as far as it decides on a retry.
HttpErrors == {"http_transport", "http_body", "http_4xx", "http_5xx", "json"}
WsErrors == {"ws_io", "ws_tls", "ws_http", "ws_protocol", "json"}

\* send_json and send_no_content: the status is looked at before the body.
HttpOutcomes(condition) ==
    CASE condition = "up" -> {"ok", "http_4xx", "http_body", "json"}
      [] condition = "down" -> {"http_transport", "http_5xx", "http_body"}
      [] condition = "silent" -> {}

\* CoordinatorWs::connect: tungstenite reports every status but 101 as an HTTP error, a 5xx too.
UpgradeOutcomes(condition) ==
    CASE condition = "up" -> {"ok", "ws_http", "ws_protocol"}
      [] condition = "down" -> {"ws_io", "ws_tls", "ws_http"}
      [] condition = "silent" -> {}

Answers(c, i) == IF c \in Sockets THEN UpgradeOutcomes(state[i]) ELSE HttpOutcomes(state[i])

Results == {"ok", "refused", "exhausted"}
NoCall == [pc |-> "idle", start |-> 0, offset |-> 0, asked |-> {}]
Call == [pc : {"idle", "trying"} \cup Results, start : Coordinators,
         offset : Coordinators, asked : SUBSET Coordinators]

-----------------------------------------------------------------------------
(* The coordinators' URLs                                                  *)

Url == [scheme : {"http", "https", "wss"}, base : BOOLEAN, slash : BOOLEAN]
NoUrl == [scheme |-> "none", base |-> FALSE, slash |-> FALSE]

\* CoordinatorClient::new.
ClientAccepts(url) == url.scheme = "https" /\ url.base /\ url.slash

\* derive_ws_endpoint, or NoUrl where it is a Url error; the path is joined to the base.
WsEndpoint(url) ==
    IF url.scheme = "https" /\ url.slash THEN [url EXCEPT !.scheme = "wss", !.slash = FALSE] ELSE NoUrl

-----------------------------------------------------------------------------
(* try_each.  XMutant is a deliberately wrong X for the mutation runs;     *)
(* nothing else uses it.                                                   *)

StartAtMutant == cursor
StartAt == cursor % PoolLen

\* fetch_add, and the modulus of what it returned.
StartCall(c) ==
    /\ call[c].pc = "idle"
    /\ cursor' = (cursor + 1) % Span
    /\ call' = [call EXCEPT ![c] = [NoCall EXCEPT !.pc = "trying", !.start = StartAt]]
    /\ UNCHANGED state

IsRetriable(error) == error \in {"http_transport", "http_5xx", "ws_io", "ws_tls"}

IndexMutant(c) == (cursor + call[c].offset) % PoolLen
Index(c) == (call[c].start + call[c].offset) % PoolLen

LastMutant(c) == TRUE
Last(c) == call[c].offset + 1 = PoolLen

Becomes(c, next) == call' = [call EXCEPT ![c] = next]

\* One request of the sweep ends: with a result for the caller, or the next one is due.
Attempt(c) ==
    /\ call[c].pc = "trying"
    /\ \E answer \in Answers(c, Index(c)), asked \in {call[c].asked \cup {Index(c)}} :
        \/ answer = "ok" /\ Becomes(c, [NoCall EXCEPT !.pc = "ok"])
        \/ answer # "ok" /\ ~IsRetriable(answer) /\ Becomes(c, [NoCall EXCEPT !.pc = "refused"])
        \/ /\ IsRetriable(answer) /\ Last(c)
           /\ Becomes(c, [NoCall EXCEPT !.pc = "exhausted", !.asked = asked])
        \/ /\ IsRetriable(answer) /\ ~Last(c)
           /\ Becomes(c, [call[c] EXCEPT !.offset = @ + 1, !.asked = asked])
    /\ UNCHANGED <<cursor, state>>

\* The caller has its result, or a select! has dropped the call.
EndCall(c) ==
    /\ call[c].pc # "idle"
    /\ call' = [call EXCEPT ![c] = NoCall]
    /\ UNCHANGED <<cursor, state>>

Return(c, result) == call[c].pc = result /\ EndCall(c)

\* Coordinators fail and come back.
Turn ==
    /\ \E i \in Coordinators, s \in Conditions : state' = [state EXCEPT ![i] = s]
    /\ UNCHANGED <<cursor, call>>

PoolInit ==
    /\ cursor = 0
    /\ state \in [Coordinators -> Conditions]
    /\ call = [c \in Callers |-> NoCall]

PoolNext == Turn \/ \E c \in Callers : StartCall(c) \/ Attempt(c) \/ EndCall(c)
PoolSpec == PoolInit /\ [][PoolNext]_poolVars

-----------------------------------------------------------------------------
(* Properties                                                              *)

\* Type invariant.
PoolTypeOK ==
    /\ cursor \in 0..Span - 1
    /\ state \in [Coordinators -> Conditions]
    /\ call \in [Callers -> Call]

\* A call that gives up has asked every coordinator, also when other calls moved the cursor
\* under it and when the cursor wrapped.
SweepIsComplete ==
    \A c \in Callers : call[c].pc = "exhausted" => call[c].asked = Coordinators
=============================================================================
