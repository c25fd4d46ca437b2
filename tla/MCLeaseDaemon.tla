--------------------------- MODULE MCLeaseDaemon ---------------------------
(***************************************************************************)
(* Small instances of LeaseDaemon for TLC.  Each run names the claims its  *)
(* agents make and how often each disturbance may happen; a disturbance    *)
(* not named does not happen in it.                                        *)
(***************************************************************************)
EXTENDS LeaseDaemon, TLC

CONSTANTS a1, a2, a3, dir, file, other, third, c1, c2, c3, l1, l2, l3

(* A directory, a file below it, and resources apart from both. *)
MCOverlap == {<<dir, dir>>, <<file, file>>, <<other, other>>, <<third, third>>,
              <<dir, file>>, <<file, dir>>} \cap (Resources \X Resources)

Ask(a, r, m, p, w) ==
    [agent |-> a, resource |-> r, mode |-> m, automatic |-> FALSE,
     priority |-> p, wait |-> w]

Quiet == [d \in Disturbances |-> 0]

(* Sound where every connection may carry the same claims. *)
Symmetry == Permutations(Claims) \cup Permutations(LeaseIds)

-----------------------------------------------------------------------------
(* The daemon has loaded a lease of each agent, there is one connection    *)
(* per agent, and each claims what another has: rings of two and of three, *)
(* at unequal priorities.                                                  *)
RingAsks ==
    [c \in Claims |->
        CASE c = c1 -> {Ask(a1, other, "exclusive", 1, TRUE)}
          [] c = c2 -> {Ask(a2, third, "exclusive", 0, TRUE),
                        Ask(a2, file, "shared", 0, TRUE)}
          [] c = c3 -> {Ask(a3, file, "exclusive", 1, TRUE)}]

RingLeases == [i \in LeaseIds |->
    CASE i = l1 -> NewLease(Ask(a1, dir, "exclusive", 0, FALSE))
      [] i = l2 -> NewLease(Ask(a2, other, "shared", 0, FALSE))
      [] i = l3 -> NewLease(Ask(a3, third, "exclusive", 0, FALSE))]

RingBudget == [Quiet EXCEPT !["claim"] = 3]

RingInit == stored = RingLeases /\ Started

RingSpec == RingInit /\ [][Next]_vars

(* Two agents, a handoff between them, failing storage, a restart and a    *)
(* transfer.                                                               *)
StorageAsks == [c \in Claims |->
    {Ask(a1, dir, "exclusive", 0, TRUE), Ask(a1, file, "shared", 0, FALSE),
     Ask(a2, file, "exclusive", 0, FALSE)}]

StorageBudget == [Quiet EXCEPT !["claim"] = 3, !["exit"] = 1, !["failure"] = 1,
                               !["restart"] = 1, !["transfer"] = 1]

(* Patient waiters on a directory and on a file in it that a reader has,   *)
(* with an exit and a return, and a pause: no deadline needs to fire.      *)
ServedAsks == [c \in Claims |->
    {Ask(a1, dir, "exclusive", 0, TRUE), Ask(a2, file, "exclusive", 1, TRUE)}]

ServedLeases == [i \in LeaseIds |->
    IF i = l1 THEN NewLease(Ask(a3, file, "shared", 0, FALSE)) ELSE None]

ServedBudget == [Quiet EXCEPT !["claim"] = 2, !["exit"] = 2, !["lag"] = 1,
                              !["pause"] = 1]

ServedInit == stored = ServedLeases /\ Started

ServedSpec == ServedInit /\ [][Next]_vars /\ Fairness

-----------------------------------------------------------------------------
(* An instance that shows where the code and what is said of it part.      *)

(* The sender of a handoff claims again before the recipient accepts. *)
HandoffAsks == [c \in Claims |->
    {Ask(a1, file, "shared", 0, FALSE), Ask(a1, dir, "exclusive", 0, FALSE)}]

HandoffBudget == [Quiet EXCEPT !["claim"] = 2]
=============================================================================
