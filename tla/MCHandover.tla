----------------------------- MODULE MCHandover -----------------------------
(* Instances of Handover. *)
EXTENDS Handover

CONSTANTS p1, p2, p3

Times(crash, failure, write, shutdown, any) ==
    [crash |-> crash, failure |-> failure, write |-> write,
     shutdown |-> shutdown, any |-> any]

(* Any two of: two processes die, a write fails, a request writes, a     *)
(* daemon is told to shut down; each at any step of one handover after     *)
(* another.                                                                *)
DyingBudget == Times(2, 1, 1, 1, 2)

(* A crash and nothing else. *)
OrphanBudget == Times(1, 0, 0, 0, 1)
=============================================================================
