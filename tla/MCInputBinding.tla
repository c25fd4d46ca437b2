--------------------------- MODULE MCInputBinding ---------------------------
(* An instance of InputBinding. *)
EXTENDS InputBinding, TLC

CONSTANTS p1, p2, p3, m1

AllKinds == Kinds
=============================================================================
