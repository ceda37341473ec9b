----------------------------- MODULE MCInvites -----------------------------
(* Instances of Invites for TLC.                                           *)
EXTENDS Invites, TLC

\* Codes and calls are only compared for equality.
Symm == Permutations(Codes) \cup Permutations(Calls)
=============================================================================
