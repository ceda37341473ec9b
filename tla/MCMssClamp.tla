----------------------------- MODULE MCMssClamp -----------------------------
(* Option lists for TLC: every short list over the bytes the walk tells    *)
(* apart, and longer ones with something before the MSS option or a second *)
(* one after it.                                                           *)
EXTENDS MssClamp

Bytes == {0, 1, 2, 3, 4, 255}
Before == {<<>>, <<1>>, <<1, 1>>, <<3, 3, 7>>, <<8, 2>>, <<8, 0>>, <<9, 40>>, <<0>>}
Values == {<<5, 180>>, <<5, 0>>, <<4, 255>>, <<255, 255>>, <<0, 0>>}
Padded(list) == [i \in 1..8 |-> IF i <= Len(list) THEN list[i] ELSE NOP]

Announced == {<<MSS, MssLen>> \o value : value \in Values}

MCOptions ==
    {<<>>} \cup [1..4 -> Bytes]
    \cup {Padded(prefix \o option) : prefix \in Before, option \in Announced}
    \cup {first \o second : first \in Announced, second \in Announced}
MCDataOffsets == {0, 4, 5, 6, 7, 8}
MCChecks == {0, 43981, 65535}
MCTargets == {0, 1280, 1459}
=============================================================================
