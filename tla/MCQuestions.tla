---------------------------- MODULE MCQuestions ----------------------------
(***************************************************************************)
(* Small instances of Questions for TLC: an agent asks a person, who may   *)
(* answer, hold what the agent sends, or let the question run out.         *)
(***************************************************************************)
EXTENDS Questions, TLC

CONSTANTS a1, h, q1, q2, m1, m2, d1, d2

Put(wide, waits, stales) ==
    {[from |-> a1, to |-> {h}, wide |-> wide, waits |-> waits, stale |-> st] : st \in stales}

MCDefault == (q1 :> d1) @@ (q2 :> d2)

(* An ask that goes stale each way, beside a post or a card. *)
AskShapes ==
    (q1 :> Put(FALSE, TRUE, {"default", "withdraw"}) \cup Put(TRUE, TRUE, {"keep"}))
        @@ (q2 :> Put(FALSE, FALSE, {"never"}))
AskKinds == Kinds

(* A single question, put as a card. *)
CardDefault == q1 :> d1
CardShapes  == q1 :> Put(FALSE, FALSE, {"never"})
CardKinds   == {}
=============================================================================
