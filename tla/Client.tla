------------------------------- MODULE Client -------------------------------
(***************************************************************************)
(* A client daemon: its rotation loop (ClientRotation) drives what it      *)
(* keeps on disk (SessionState).  The loop's callback, which the           *)
(* repository leaves to the daemon's wiring, gets a new session token and  *)
(* persists it, as rotation.rs says it will.  Rotator is the daemon that   *)
(* runs the loop; the others are started beside it under the same          *)
(* configuration directory, say during a restart.                          *)
(***************************************************************************)
EXTENDS ClientRotation

CONSTANTS Daemons, None, MaxTokens, Rotator

ASSUME RotatorAssumption == Rotator \in Daemons
ASSUME NoneAssumption == None \notin Daemons /\ {"absent", "short"} \cap Daemons = {}
ASSUME TokensAssumption == MaxTokens \in Nat /\ None \notin 1..MaxTokens

VARIABLES
    keyFile, blob, daemon, issued, kept,
    running,  \* Rotator has entered rotation_loop
    saved     \* the callback has persisted this rotation's token

Disk == INSTANCE SessionState
diskVars == <<keyFile, blob, daemon, issued, kept>>
clientVars == <<vars, diskVars, running, saved>>

Writing == daemon[Rotator].pc = "truncated"

\* Before the loop: the key, and the stored session or a new one.
Setup ==
    /\ ~running
    /\ Disk!Keys(Rotator) \/ Disk!LoadSession(Rotator) \/ Disk!Persist(Rotator)
    /\ UNCHANGED <<vars, running, saved>>

StartLoop ==
    /\ ~running /\ ~Writing
    /\ daemon[Rotator].token # None
    /\ running' = TRUE
    /\ UNCHANGED <<vars, diskVars, saved>>

LoopRuns ==
    /\ running
    /\ Carry \/ Cancel \/ PassTime \/ Loop
    /\ saved' = (saved /\ pc # "select")
    /\ UNCHANGED <<diskVars, running>>

\* The callback persists its token, once, and returns what came of it.
CallbackPersists ==
    /\ running
    /\ pc = "rotating"
    /\ ~saved
    /\ Disk!Persist(Rotator)
    /\ saved' = (kept' # kept)
    /\ UNCHANGED <<vars, running>>

CallbackReturns ==
    /\ running
    /\ ~Writing
    /\ \/ saved /\ Rotated
       \/ ~saved /\ RotateFails
    /\ UNCHANGED <<diskVars, running, saved>>

\* The process ends, by a crash, an error or a clean exit, and with it the loop's state.
Stop ==
    /\ Disk!Crash(Rotator)
    /\ running' = FALSE
    /\ saved' = FALSE
    /\ pc' = "select" /\ cancelled' = FALSE
    /\ tickIn' = Interval /\ pollIn' = 0
    /\ counter' = 0 /\ observed' = 0 /\ current' = 0
    /\ carried' = 0 /\ charged' = 0

Others ==
    /\ \E d \in Daemons \ {Rotator} :
        Disk!Keys(d) \/ Disk!LoadSession(d) \/ Disk!Persist(d) \/ Disk!Crash(d)
    /\ UNCHANGED <<vars, running, saved>>

ClientInit == Init /\ Disk!Init /\ running = FALSE /\ saved = FALSE
ClientNext ==
    Setup \/ StartLoop \/ LoopRuns \/ CallbackPersists \/ CallbackReturns \/ Stop \/ Others

\* Time passes, the loop's task is scheduled, the callback and a write under way end, and a
\* weak compare-exchange does not fail for ever.
ClientSpec ==
    /\ ClientInit /\ [][ClientNext]_clientVars
    /\ WF_clientVars(running /\ PassTime /\ UNCHANGED <<diskVars, running, saved>>)
    /\ WF_clientVars(LoopRuns /\ Loop)
    /\ SF_clientVars(LoopRuns /\ Swap)
    /\ WF_clientVars(CallbackPersists /\ Writing)
    /\ WF_clientVars(CallbackReturns)

-----------------------------------------------------------------------------
(* Properties                                                              *)

\* Type invariant.
ClientTypeOK == TypeOK /\ Disk!TypeOK /\ running \in BOOLEAN /\ saved \in BOOLEAN

\* Daemons that start together never run with different keys (create_new).
KeysAgree == Disk!KeysAgree

\* What a daemon has persisted is there for its next start.
SessionRemembered == Disk!SessionRemembered

\* A rotation takes its bytes off the counter only after its token is on disk, so a failed
\* or interrupted rotation leaves them to be counted again.
ChargedWhenSaved == [][charged' > charged => saved]_clientVars

\* A cancelled loop ends, also one that was cancelled while its callback ran or while the data
\* plane raced its compare-exchange, unless the process ends first.
LoopCancels == (running /\ cancelled) ~> (pc = "ended" \/ ~running)
=============================================================================
