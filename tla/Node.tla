-------------------------------- MODULE Node --------------------------------
(***************************************************************************)
(* A relay node: the registrar and the cohort receiver share one           *)
(* coordinator pool; the receiver, the QUIC accept loop and the            *)
(* connections' tasks share one cancellation token.  The supervisor that   *)
(* drives register and heartbeat is left to the daemon's wiring; here it   *)
(* repeats them in any order the types allow.                              *)
(***************************************************************************)
EXTENDS CohortSocket

CONSTANTS Registrar, MaxConns

ASSUME RegistrarAssumption == Registrar \in Callers \ Sockets
ASSUME BudgetAssumption == MaxConns \in Nat \ {0}

VARIABLES
    registrar,  \* what the node knows of its registration
    loop, handshaking, handling, permits, late

Quic == INSTANCE QuicServer
quicVars == <<loop, handshaking, handling, permits, late>>
nodeVars == <<socketVars, registrar, quicVars>>

-----------------------------------------------------------------------------
(* NodeRegistrar: one operation at a time.  XMutant is a deliberately      *)
(* wrong X for the mutation runs; nothing else uses it.                    *)

\* No token, a register call, a token that no one has verified, one whose signature and subject
\* are verified, and a heartbeat, which takes none but the last.
RegistrarStates == {"out", "registering", "unverified", "registered", "beating"}

Operation(pc) == IF pc = "registering" THEN "register" ELSE "heartbeat"

Begin ==
    /\ \/ registrar = "out" /\ registrar' = "registering"
       \/ registrar = "registered" /\ registrar' = "beating"
    /\ StartCall(Registrar)
    /\ UNCHANGED <<rx, cancelled, quicVars>>

\* What the pool's error says to the registrar: a failed sweep, a status, or something else.
Failures(result) ==
    CASE result = "ok" -> {}
      [] result = "exhausted" -> {"retriable"}
      [] result = "refused" -> {"401", "401 expired", "403", "4xx", "codec"}

\* RegistrationError::classify: the text of a 401 tells an expired token from a refused invite,
\* and only where a token was sent.
Classify(failure, op) ==
    IF failure = "retriable" THEN "network"
    ELSE IF failure = "401 expired" /\ op = "heartbeat" THEN "token expired"
    ELSE IF failure \in {"401", "401 expired", "403"} THEN "invite rejected"
    ELSE "other"

\* The token survives a heartbeat that failed without a word about it: the type leaves the
\* supervisor free to beat again or, as it advises after an outage, to register afresh.
KeepsToken(error, op) == op = "heartbeat" /\ error \in {"network", "other"}

\* token_from_ack: an acknowledgement whose token is no UTF-8 is an error of the call.
Acknowledged(op) == IF op = "register" THEN {"unverified", "out"} ELSE {"registered"}

Finish ==
    /\ registrar \in {"registering", "beating"}
    /\ \E result \in Results :
        /\ Return(Registrar, result)
        /\ \/ result = "ok" /\ registrar' \in Acknowledged(Operation(registrar))
           \/ \E failure \in Failures(result) :
                \/ registrar' = "out"
                \/ KeepsToken(Classify(failure, Operation(registrar)), Operation(registrar))
                   /\ registrar' = "registered"
    /\ UNCHANGED <<rx, cancelled, quicVars>>

\* What verify can meet: a seal that is not the coordinator's, a subject that is another peer.
AckToken == [sealed : {"trusted", "foreign"}, sub : {"self", "other"}]

\* UnverifiedRegistrationToken::verify consumes the token, whether it verifies or not.
Verify ==
    /\ registrar = "unverified"
    /\ \E token \in AckToken :
        registrar' = IF token = [sealed |-> "trusted", sub |-> "self"] THEN "registered" ELSE "out"
    /\ UNCHANGED <<socketVars, quicVars>>

Ask == Attempt(Registrar) /\ UNCHANGED <<rx, cancelled, registrar, quicVars>>

-----------------------------------------------------------------------------

NodeInit == SocketInit /\ Quic!Init /\ registrar = "out"

NodeNext ==
    \/ Begin \/ Ask \/ Finish \/ Verify
    \/ SocketNext /\ UNCHANGED <<registrar, quicVars>>
    \/ Quic!Next /\ UNCHANGED <<poolVars, rx, registrar>>

Receives(A) == A /\ UNCHANGED <<registrar, quicVars>>
Serves(A) == A /\ UNCHANGED <<poolVars, rx, registrar>>

\* A select! without "biased" polls its arms in random order, so a cancelled token cannot be
\* passed over for ever.  Requests that are answered, on_* methods and backoffs end; handshakes
\* time out and an AcceptHandler returns once its token is cancelled, as its contract asks.
NodeSpec ==
    /\ NodeInit /\ [][NodeNext]_nodeVars
    /\ WF_nodeVars(Receives(Opening))
    /\ WF_nodeVars(Receives(Handled))
    /\ WF_nodeVars(Receives(BackoffOver))
    /\ SF_nodeVars(Receives(ReceiverCancelled))
    /\ WF_nodeVars(Serves(Quic!Loop))
    /\ WF_nodeVars(Serves(Quic!ToldTasks))

-----------------------------------------------------------------------------
(* Properties                                                              *)

\* Type invariant.
NodeTypeOK == SocketTypeOK /\ Quic!TypeOK /\ registrar \in RegistrarStates

\* See CoordinatorPool: a call that gives up has asked every coordinator.
EveryCoordinatorAsked == SweepIsComplete

\* See QuicServer.
PermitsConserved == Quic!PermitsConserved
AtMostOneLate == Quic!AtMostOneLate

\* From the time on that one coordinator stays up and none is silent, the receiver has a
\* session again and again, whatever the registrar does to the cursor they share, unless it
\* stops (cancelled, or on a failure it does not retry).
StaysInTouch ==
    (\E i \in Coordinators : <>[](state[i] = "up")) /\ <>[](\A i \in Coordinators : state[i] # "silent")
        => []<>(rx \in {"session", "handling", "leaving"} \/ Stopped)

\* A cancelled token drains the node: the receiver, the accept loop and every started
\* connection task end, also with a silent coordinator and with the permits used up.
DrainsOnCancel ==
    cancelled ~> (Stopped /\ loop \in Quic!RunResults /\ Quic!Running = 0)
=============================================================================
