--------------------------- MODULE ClientRotation ---------------------------
(***************************************************************************)
(* The client's rotation loop (bibeam-cli/src/rotation.rs): a wall-clock   *)
(* tick and a byte cap race for the next rotation while the data plane     *)
(* keeps adding to the shared byte counter.  The counter is only ever      *)
(* touched by atomic operations, one per action below; timers count down,  *)
(* so time needs no bound.                                                 *)
(***************************************************************************)
EXTENDS Integers

CONSTANTS
    Interval,    \* ROTATION_INTERVAL
    PollEvery,   \* BYTE_CAP_POLL_INTERVAL
    Cap,         \* ROTATION_BYTE_CAP
    Sizes,       \* what the data plane adds in one go
    MaxBytes     \* bound on the bytes a session carries

ASSUME TimersAssumption == Interval \in Nat \ {0} /\ PollEvery \in Nat \ {0}
ASSUME BytesAssumption == Cap \in Nat \ {0} /\ Sizes \subseteq Nat /\ MaxBytes \in Nat

VARIABLES
    pc,         \* where rotation_loop is
    cancelled,  \* the cancellation token
    tickIn,     \* time until tick is ready
    pollIn,     \* time until wait_for_bytes_cap looks again
    counter,    \* bytes_counter
    observed,   \* the value the rotation was decided on
    current,    \* what saturating_subtract last read
    carried,    \* bytes the data plane has reported so far
    charged     \* bytes that rotations have accounted for

loopVars == <<pc, tickIn, pollIn, observed, current>>
vars == <<pc, cancelled, tickIn, pollIn, counter, observed, current, carried, charged>>

PC == {"select", "rotating", "loading", "swapping", "ended"}

-----------------------------------------------------------------------------
(* The surroundings                                                        *)

\* The data plane adds to the counter at any time, without asking the loop.
Carry ==
    \E n \in Sizes :
        /\ carried + n <= MaxBytes
        /\ counter' = counter + n
        /\ carried' = carried + n
        /\ UNCHANGED <<loopVars, cancelled, charged>>

Cancel ==
    /\ ~cancelled
    /\ cancelled' = TRUE
    /\ UNCHANGED <<loopVars, counter, carried, charged>>

CountDown(n) == IF n = 0 THEN 0 ELSE n - 1

PassTime ==
    /\ tickIn > 0 \/ pollIn > 0
    /\ tickIn' = CountDown(tickIn)
    /\ pollIn' = CountDown(pollIn)
    /\ UNCHANGED <<pc, cancelled, counter, observed, current, carried, charged>>

-----------------------------------------------------------------------------
(* rotation_loop: select! looks at its arms in order.  XMutant is a        *)
(* deliberately wrong X for the mutation runs; nothing else uses it.       *)

CancelWins ==
    /\ pc = "select"
    /\ cancelled
    /\ pc' = "ended"
    /\ UNCHANGED <<cancelled, tickIn, pollIn, counter, observed, current, carried, charged>>

\* fire begins: the callback runs, and the sampled value is kept for the subtraction.
FireMutant ==
    /\ pc' = "loading"
    /\ observed' = counter
    /\ UNCHANGED <<cancelled, counter, current, carried, charged>>
Fire ==
    /\ pc' = "rotating"
    /\ observed' = counter
    /\ UNCHANGED <<cancelled, counter, current, carried, charged>>

\* MissedTickBehavior::Delay: the next tick is a whole interval after this one.
WallClock ==
    /\ pc = "select"
    /\ ~cancelled
    /\ tickIn = 0
    /\ tickIn' = Interval
    /\ pollIn' = pollIn
    /\ Fire

AtPoll == pc = "select" /\ ~cancelled /\ tickIn > 0 /\ pollIn = 0

OverCap(bytes) == bytes >= Cap

ByteCap ==
    /\ AtPoll
    /\ OverCap(counter)
    /\ UNCHANGED <<tickIn, pollIn>>
    /\ Fire

PollAgain ==
    /\ AtPoll
    /\ ~OverCap(counter)
    /\ pollIn' = PollEvery
    /\ UNCHANGED <<pc, cancelled, tickIn, counter, observed, current, carried, charged>>

\* The callback returned: an error ends the loop, else saturating_subtract follows.
Rotated ==
    /\ pc = "rotating"
    /\ pc' = "loading"
    /\ UNCHANGED <<cancelled, tickIn, pollIn, counter, observed, current, carried, charged>>

RotateFails ==
    /\ pc = "rotating"
    /\ pc' = "ended"
    /\ UNCHANGED <<cancelled, tickIn, pollIn, counter, observed, current, carried, charged>>

Load ==
    /\ pc = "loading"
    /\ current' = counter
    /\ pc' = "swapping"
    /\ UNCHANGED <<cancelled, tickIn, pollIn, counter, observed, carried, charged>>

SaturatingSub(left, right) == IF left < right THEN 0 ELSE left - right

SameMutant(seen) == TRUE
Same(seen) == counter = seen

\* compare_exchange_weak succeeds; the next select! polls the counter at once.
Swap ==
    /\ pc = "swapping"
    /\ Same(current)
    /\ counter' = SaturatingSub(current, observed)
    /\ charged' = charged + observed
    /\ pc' = "select"
    /\ pollIn' = 0
    /\ UNCHANGED <<cancelled, tickIn, observed, current, carried>>

ReloadMutant(seen) == seen
Reload(seen) == counter

\* It fails: the counter moved, or for no reason at all.
SwapFails ==
    /\ pc = "swapping"
    /\ current' = Reload(current)
    /\ UNCHANGED <<pc, cancelled, tickIn, pollIn, counter, observed, carried, charged>>

Init ==
    /\ pc = "select"
    /\ cancelled = FALSE
    /\ tickIn = Interval
    /\ pollIn = 0
    /\ counter = 0 /\ observed = 0 /\ current = 0
    /\ carried = 0 /\ charged = 0

Callback == Rotated \/ RotateFails
Loop == CancelWins \/ WallClock \/ ByteCap \/ PollAgain \/ Load \/ Swap \/ SwapFails
Next == Carry \/ Cancel \/ PassTime \/ Callback \/ Loop

Spec == Init /\ [][Next]_vars

-----------------------------------------------------------------------------
(* Properties                                                              *)

\* Type invariant.
TypeOK ==
    /\ pc \in PC /\ cancelled \in BOOLEAN
    /\ tickIn \in 0..Interval /\ pollIn \in 0..PollEvery
    /\ counter \in Nat /\ observed \in Nat /\ current \in Nat
    /\ carried \in Nat /\ charged \in Nat

\* No byte is lost or counted twice, however the data plane's increments fall between the
\* sample, the callback and the compare-exchange: what rotations have not accounted for is
\* in the counter.
BytesConserved == counter + charged = carried
=============================================================================
