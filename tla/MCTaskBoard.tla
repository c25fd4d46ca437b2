---------------------------- MODULE MCTaskBoard ----------------------------
(* Two cards, two lease ids and two agents on a board that may change its  *)
(* shape, with rules that start agents, send back, clear away and comment. *)
EXTENDS TaskBoard, TLC

Identity == {<<c, c>> : c \in Resources}

Plain == [lanes |-> {"ready", "in_progress", "done"}, first |-> "ready"]
Wide  == [lanes |-> Columns, first |-> "backlog"]

TwoBoards == {Plain, Wide}

On(trigger, lane, action, to, max) ==
    [trigger |-> trigger, lane |-> lane, action |-> action, to |-> to,
     max |-> max]

FourRules == <<On("enter", "ready", "start", "ready", 1),
               On("idle", "review", "move", "ready", 0),
               On("idle", "done", "archive", "done", 0),
               On("enter", "blocked", "comment", "blocked", 0)>>

(* Any three changes, the filing included. *)
BoardBudget ==
    [file |-> 2, move |-> 2, edit |-> 2, archive |-> 2, reshape |-> 1,
     hand |-> 2, lapse |-> 1, exit |-> 1, restart |-> 1, start |-> 1,
     any |-> 3]

Symmetry == Permutations(Agents) \cup Permutations(Cards)
                \cup Permutations(LeaseIds)
=============================================================================
