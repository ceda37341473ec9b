---------------------------- MODULE MCExitTables ----------------------------
(* Instances of ExitTables for TLC.                                        *)
EXTENDS ExitTables, TLC

TaskSymmetry == Permutations(Tasks)
=============================================================================
