---------------------------- MODULE CohortSocket ----------------------------
(***************************************************************************)
(* The node's receiver of cohort events (bibeam-node/src/cohort_ws.rs): it *)
(* opens a WebSocket session through the coordinator pool, hands each      *)
(* event to the CohortHandler, and opens the next session when one ends.   *)
(* What the coordinator and the network do to a session is a choice.       *)
(***************************************************************************)
EXTENDS CoordinatorPool

CONSTANTS Receiver

ASSUME ReceiverAssumption == Receiver \in Sockets

VARIABLES
    rx,        \* where CohortWsReceiver::run is
    cancelled  \* the cancellation token

socketVars == <<poolVars, rx, cancelled>>

RX == {"opening", "session", "handling", "leaving", "backoff", "ended", "failed"}
Stopped == rx \in {"ended", "failed"}

-----------------------------------------------------------------------------
(* run.  XMutant is a deliberately wrong X for the mutation runs; nothing  *)
(* else uses it.                                                           *)

Goto(from, to) == rx = from /\ rx' = to

OpenSession == rx = "opening" /\ StartCall(Receiver) /\ UNCHANGED <<rx, cancelled>>

\* step_after_connect.
SessionOpens == Goto("opening", "session") /\ Return(Receiver, "ok") /\ UNCHANGED cancelled
OpenFails == Goto("opening", "backoff") /\ Return(Receiver, "exhausted") /\ UNCHANGED cancelled
OpenRefused == Goto("opening", "failed") /\ Return(Receiver, "refused") /\ UNCHANGED cancelled

\* What a session delivers: texts that parse as an event and others, the closing handshake, the
\* end of the stream, an I/O error, an end without the closing handshake.  Binary frames, pings
\* and pongs are passed over.
CoordinatorEvents == {"assigned", "rotated", "disconnect"}
Frames == CoordinatorEvents \cup {"garbled", "close", "end", "ws_io", "ws_protocol"}

\* next_event: an event, an error or, for Ok(None), "none".
NextEvent(frame) ==
    CASE frame = "garbled" -> "json"
      [] frame \in {"close", "end"} -> "none"
      [] OTHER -> frame

\* drive_session: an event goes to its on_* method; after on_disconnect the session is over.
RouteEvent(event) == IF event = "disconnect" THEN "leaving" ELSE "handling"
Event ==
    /\ \E frame \in Frames :
        NextEvent(frame) \in CoordinatorEvents /\ Goto("session", RouteEvent(NextEvent(frame)))
    /\ UNCHANGED <<poolVars, cancelled>>

\* A session that the coordinator closes, or that an I/O error ends, is opened again at once;
\* another stream error ends the receiver.
ClassifyStreamEnd(result) == IF result = "none" \/ IsRetriable(result) THEN "opening" ELSE "failed"
StreamEnds ==
    /\ \E result \in {"none"} \cup WsErrors :
        /\ \E frame \in Frames : NextEvent(frame) = result
        /\ Goto("session", ClassifyStreamEnd(result))
    /\ UNCHANGED <<poolVars, cancelled>>

\* The on_* method is done: an error of it ends the receiver.
AfterHandler(result) ==
    CASE result = "error" -> "failed"
      [] result = "consumed" -> "session"
      [] result = "disconnect requested" -> "opening"
Handled ==
    /\ \/ \E result \in {"consumed", "error"} : Goto("handling", AfterHandler(result))
       \/ \E result \in {"disconnect requested", "error"} : Goto("leaving", AfterHandler(result))
    /\ UNCHANGED <<poolVars, cancelled>>

\* compute_backoff of the attempt-th failed sweep in a row: the delays in ms, over the jitter.
Least(a, b) == IF a < b THEN a ELSE b
MaxBackoff == 60000
ComputeBackoff(attempt) ==
    LET exponent == Least(attempt - 1, 20)
        capped == Least(500 * 2 ^ exponent, MaxBackoff)
    IN {Least(capped + jitter, MaxBackoff) : jitter \in 0..249}

\* How long a backoff takes is left open.
BackoffOver == Goto("backoff", "opening") /\ UNCHANGED <<poolVars, cancelled>>

AtSelectMutant == rx \in {"opening", "backoff"}
\* Where a select! looks at the token: never while a handler runs.
AtSelect == rx \in {"opening", "session", "backoff"}

ReceiverCancelled ==
    /\ AtSelect /\ cancelled
    /\ rx' = "ended"
    /\ IF call[Receiver].pc = "idle" THEN UNCHANGED poolVars ELSE EndCall(Receiver)
    /\ UNCHANGED cancelled

\* Shutdown::trigger_and_wait, first half.
Trigger == ~cancelled /\ cancelled' = TRUE /\ UNCHANGED <<poolVars, rx>>

Opening ==
    \/ OpenSession \/ SessionOpens \/ OpenFails \/ OpenRefused
    \/ rx = "opening" /\ Attempt(Receiver) /\ UNCHANGED <<rx, cancelled>>

SocketInit == PoolInit /\ rx = "opening" /\ cancelled = FALSE

SocketNext ==
    \/ Opening \/ Event \/ StreamEnds \/ Handled \/ BackoffOver \/ ReceiverCancelled \/ Trigger
    \/ Turn /\ UNCHANGED <<rx, cancelled>>

-----------------------------------------------------------------------------
(* Properties                                                              *)

\* Type invariant.
SocketTypeOK == PoolTypeOK /\ rx \in RX /\ cancelled \in BOOLEAN
=============================================================================
