----------------------------- MODULE LossyPipe -----------------------------
(***************************************************************************)
(* What a data plane promises of one direction of traffic: packets may be  *)
(* lost and overtaken, but every packet that comes out went in and comes   *)
(* out once.                                                               *)
(***************************************************************************)
EXTENDS Sequences, Functions

CONSTANT Packets

VARIABLES
    entered,  \* packets that went in
    left      \* packets that came out, in order

pipeVars == <<entered, left>>

Init == entered = {} /\ left = <<>>

Enter ==
    /\ \E p \in Packets \ entered : entered' = entered \cup {p}
    /\ UNCHANGED left

Leave ==
    /\ \E p \in entered \ Range(left) : left' = Append(left, p)
    /\ UNCHANGED entered

Spec == Init /\ [][Enter \/ Leave]_pipeVars
=============================================================================
