----------------------------- MODULE QuicServer -----------------------------
(***************************************************************************)
(* The node's QUIC accept loop (bibeam-node/src/quic_server.rs): every     *)
(* accepted connection gets a permit and a task of its own; the loop stops *)
(* when the shared token is cancelled, the tasks are told by a child token *)
(* and give their permit back when they end, however they end.             *)
(***************************************************************************)
EXTENDS Integers

CONSTANTS
    MaxConns  \* max_concurrent_connections

VARIABLES
    cancelled,    \* the cancellation token
    loop,         \* where run is
    handshaking,  \* tasks that drive a handshake
    handling,     \* tasks whose handler runs
    permits,      \* available permits of connection_budget
    late          \* connections spawned after the cancellation

serverVars == <<loop, handshaking, handling, permits, late>>

\* run returns Ok, or the error that its endpoint was closed by somebody else.
RunResults == {"ended", "failed"}
LoopStates == {"accepting", "waiting", "spawning"} \cup RunResults

-----------------------------------------------------------------------------
(* run.  XMutant is a deliberately wrong X for the mutation runs; nothing  *)
(* else uses it.                                                           *)

NotCancelledMutant == TRUE
\* Both select!s are biased: they look at the token first.
NotCancelled == ~cancelled

Goto(from, to) == loop = from /\ loop' = to

\* A connection comes in whenever the loop is ready for one ...
Accept ==
    /\ Goto("accepting", "waiting")
    /\ NotCancelled
    /\ UNCHANGED <<cancelled, handshaking, handling, permits, late>>

\* ... and waits for a permit before it gets a task.
Acquire ==
    /\ Goto("waiting", "spawning")
    /\ NotCancelled
    /\ permits > 0
    /\ permits' = permits - 1
    /\ UNCHANGED <<cancelled, handshaking, handling, late>>

Spawn ==
    /\ Goto("spawning", "accepting")
    /\ handshaking' = handshaking + 1
    /\ late' = IF cancelled THEN late + 1 ELSE late
    /\ UNCHANGED <<cancelled, handling, permits>>

\* A connection that waits for a permit is dropped.
LoopCancelled ==
    /\ Goto("accepting", "ended") \/ Goto("waiting", "ended")
    /\ cancelled
    /\ UNCHANGED <<cancelled, handshaking, handling, permits, late>>

\* endpoint.accept() returns None.
EndpointCloses ==
    /\ Goto("accepting", "failed")
    /\ NotCancelled
    /\ UNCHANGED <<cancelled, handshaking, handling, permits, late>>

-----------------------------------------------------------------------------
(* drive_handshake_then_handler                                            *)

HandshakeDone ==
    /\ handshaking > 0
    /\ handshaking' = handshaking - 1
    /\ handling' = handling + 1
    /\ UNCHANGED <<cancelled, loop, permits, late>>

HandshakeFails ==
    /\ handshaking > 0
    /\ handshaking' = handshaking - 1
    /\ permits' = permits + 1
    /\ UNCHANGED <<cancelled, loop, handling, late>>

\* AcceptHandler::handle: at any time, with Ok or with an error that is logged and no more.
HandlerResults == {"ok", "error"}

ReturnedMutant(result) == IF result = "error" THEN 0 ELSE 1
\* The permit goes with the task, whatever the handler returned.
Returned(result) == 1

HandlerReturns ==
    /\ handling > 0
    /\ handling' = handling - 1
    /\ \E result \in HandlerResults : permits' = permits + Returned(result)
    /\ UNCHANGED <<cancelled, loop, handshaking, late>>

Init ==
    /\ loop = "accepting"
    /\ handshaking = 0 /\ handling = 0
    /\ permits = MaxConns
    /\ late = 0

Loop == Acquire \/ Spawn \/ LoopCancelled
Tasks == HandshakeDone \/ HandshakeFails \/ HandlerReturns
\* What AcceptHandler asks of a handler: told by its token, it ends.
ToldTasks == cancelled /\ Tasks
Next == Accept \/ Loop \/ Tasks \/ EndpointCloses

-----------------------------------------------------------------------------
(* Properties                                                              *)

\* Type invariant.
TypeOK ==
    /\ loop \in LoopStates
    /\ {handshaking, handling, permits} \subseteq 0..MaxConns
    /\ late \in Nat

Running == handshaking + handling

\* No permit is leaked or returned twice: together with the tasks that run and the one about
\* to be spawned, the semaphore always accounts for its whole budget.
PermitsConserved == permits + Running + (IF loop = "spawning" THEN 1 ELSE 0) = MaxConns

\* Once the token is cancelled, at most the connection whose permit was already granted is
\* still started.
AtMostOneLate == late <= 1
=============================================================================
