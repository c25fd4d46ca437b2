----------------------------- MODULE TaskBoard -----------------------------
(***************************************************************************)
(* The board of work (crates/core/src/task.rs, board.rs and rule.rs,       *)
(* crates/agentd/src/daemon/tasks.rs and tasks/rules.rs): cards pulled by  *)
(* agents and moved by them or by the person, the lease that holds a card, *)
(* the board's rules, and agents started on cards.                         *)
(*                                                                         *)
(* The key `task:<id>' of a card is a resource of the lease table, so a    *)
(* resource here is a card.  Every request holds the daemon's mutex once   *)
(* and commits the card with the leases it takes and ends; starting an     *)
(* agent takes several holds with a launch in between.  A lane stands for  *)
(* its category: a board has at most one lane of each, the Ready lane is   *)
(* its pull source and the In progress lane its pull target.  Ranks are    *)
(* left out, so the first card of a lane may be any of them.               *)
(***************************************************************************)
EXTENDS LeaseTable, Sequences, FiniteSets

CONSTANTS
    Person, \* the person, or somebody speaking as `user'
    Boards, \* the shapes the board may be given
    Rules,  \* its rules, in the order the store lists them
    Filing, \* the lanes that filings ask for
    Budget  \* how often each kind of change may happen, and any of them

Cards == Resources

Columns == {"backlog", "ready", "in_progress", "review", "done", "blocked",
            "cancelled"}

(* Column::working, terminal and waiting *)
Working(k)  == k.column \in {"in_progress", "review"}
Terminal(k) == k.column \in {"done", "cancelled"}
Waiting(k)  == k.column \in {"backlog", "ready"}

(* What Board::check asks of a board, its first lane being `first'. *)
Board == {b \in [lanes : SUBSET Columns, first : Columns] :
            /\ b.first \in b.lanes
            /\ {"ready", "in_progress", "done"} \subseteq b.lanes}

RuleIds == 1 .. Len(Rules)

Rule == [trigger : {"enter", "idle"}, lane : Columns,
         action : {"comment", "move", "archive", "start"},
         to : Columns, max : Nat]

Changes == {"file", "move", "edit", "archive", "reshape", "hand", "lapse",
            "exit", "restart", "start", "any"}

ASSUME PersonAssumption == Person \notin Agents

ASSUME BoardsAssumption == Boards # {} /\ Boards \subseteq Board

ASSUME RulesAssumption ==
    /\ Rules \in Seq(Rule)
    /\ \A r \in RuleIds : Rules[r].action = "start" =>
          Rules[r].lane \notin {"done", "cancelled"}

ASSUME FilingAssumption == Filing \subseteq Columns

ASSUME BudgetAssumption == Budget \in [Changes -> Nat]

ASSUME FiniteAssumption == IsFiniteSet(Cards) /\ IsFiniteSet(Agents)

VARIABLES
    card,   \* the task documents, None for a card not filed
    leases, \* State::leases, the leases on cards
    byHand, \* the leases on cards claimed or handed on as such
    board,  \* the board document
    status, \* registry: whether an agent runs
    label,  \* STARTED_BY_LABEL: the rule that started an agent, or 0
    start,  \* State::starting_cards, and how far each start is
    left    \* what is left of Budget

vars == <<card, leases, byHand, board, status, label, start, left>>

holding == <<leases, byHand>>
agents  == <<status, label>>

Task == [column : Columns, assignee : Agents \cup {None}, archived : BOOLEAN,
         outside : BOOLEAN, parent : Cards \cup {None},
         blocked_by : SUBSET Cards, fired : SUBSET RuleIds]

Start == [rule : RuleIds \cup {0}, agent : Agents \cup {None},
          stage : {"inventory", "launching", "up"}]

ASSUME BoardNoneAssumption == None \notin Task \cup Start \cup Agents \cup Cards

(* The board's types. *)
TypeOK ==
    /\ card \in [Cards -> Task \cup {None}]
    /\ leases \in Tables
    /\ byHand \in SUBSET LeaseIds
    /\ board \in Boards
    /\ status \in [Agents -> {"unborn", "live", "ended"}]
    /\ label \in [Agents -> RuleIds \cup {0}]
    /\ start \in [Cards -> Start \cup {None}]
    /\ left \in [Changes -> Nat]

Filed == {c \in Cards : card[c] # None}

Init ==
    /\ card = [c \in Cards |-> None]
    /\ leases = EmptyTable
    /\ byHand = {}
    /\ board \in Boards
    /\ status = [a \in Agents |-> "unborn"]
    /\ label = [a \in Agents |-> 0]
    /\ start = [c \in Cards |-> None]
    /\ left = Budget

Spend(kind) ==
    /\ left[kind] > 0
    /\ left["any"] > 0
    /\ left' = [left EXCEPT ![kind] = @ - 1, !["any"] = @ - 1]

Live(a) == a \in Agents /\ status[a] = "live"

Human(by) == by = Person

-----------------------------------------------------------------------------
(* Cards, and the lanes they are drawn in.                                 *)

(* Task::open *)
Open(k) == ~k.archived /\ ~Terminal(k)

(* Board::lane_of: a column the board has no lane for is drawn in its      *)
(* first lane.                                                             *)
LaneOf(k) == IF k.column \in board.lanes THEN k.column ELSE board.first

InSource(k) == LaneOf(k) = "ready"

(* It waits on an open card, or on something off the board. *)
Awaits(k) == \E d \in k.blocked_by : card[d] # None /\ Open(card[d])

Blocked(k) == k.outside \/ Awaits(k)

(* A plausible slip: a card that somebody has is started on all the same. *)
StartableAnyway(k) == Open(k) /\ ~Blocked(k)

(* rule::startable, and start_refusal *)
Startable(k) == k.assignee = None /\ Open(k) /\ ~Blocked(k)

(* Task::place *)
Place(k, lane) == [k EXCEPT !.column = lane, !.fired = {}]

(* Task::move_to, for a card that is elsewhere and may be moved: the       *)
(* person's move back to a waiting lane takes it from whoever has it.      *)
MoveTo(k, human, lane) ==
    [Place(k, lane) EXCEPT
        !.assignee = IF human /\ lane \in {"backlog", "ready"}
                     THEN None ELSE @]

(* The cards a card is part of or waits on. *)
Edges(k) == k.blocked_by \cup ({k.parent} \ {None})

(* What the edges of a project's cards reach from some of them. *)
Reached(edges, from) ==
    LET within[n \in 0 .. Cardinality(Cards)] ==
          IF n = 0 THEN from
          ELSE within[n - 1] \cup UNION {edges[d] : d \in within[n - 1]}
    IN  within[Cardinality(Cards)]

(* A plausible slip: only the cards named are looked at. *)
ClosesShortCycle(edges, c, to) == c \in to

(* closes_cycle *)
ClosesCycle(edges, c, to) == c \in Reached(edges, to)

EdgesNow == [c \in Cards |-> IF card[c] = None THEN {} ELSE Edges(card[c])]

-----------------------------------------------------------------------------
(* The lease that holds a card.                                            *)

HoldersOf(t, c) == {i \in Held(t) : t[i].resource = c}

(* task_hold: a shared claim is no hold. *)
TaskHold(t, c, a) ==
    {i \in HoldersOf(t, c) : t[i].holder = a /\ t[i].mode = "exclusive"}

(* A plausible slip: nothing is ended as long as the work goes on. *)
HoldsEndedOff(t, c, k) ==
    {i \in HoldersOf(t, c) : ~(Working(k) /\ ~k.archived)}

(* holds_ended: everybody's, once the card is not worked on, and otherwise *)
(* those of whoever it does not name.                                      *)
HoldsEnded(t, c, k) ==
    {i \in HoldersOf(t, c) :
        \/ ~(Working(k) /\ ~k.archived)
        \/ t[i].holder # k.assignee}

Wanted(c, a, mode) ==
    [agent |-> a, resource |-> c, mode |-> mode, automatic |-> FALSE]

(* take_hold, from the leases the change leaves, and the half of           *)
(* commit_task that moves them.                                            *)
TakeHold(t, c, a) ==
    LET q == Wanted(c, a, "exclusive")
    IN  /\ ~Conflicts(t, q)
        /\ \E g \in ClaimAs(t, q, LeaseIds \ Held(t)) :
              /\ leases' = Restore(t, g)
              /\ byHand' = (byHand \cap Held(t)) \ {g.id}

(* A commit that takes no lease. *)
Leave(t) == leases' = t /\ byHand' = byHand \cap Held(t)

-----------------------------------------------------------------------------
(* Rules.                                                                  *)

LiveOf(r) == {a \in Agents : status[a] = "live" /\ label[a] = r}

StartingOf(marks, r) == {c \in Cards : marks[c] # None /\ marks[c].rule = r}

(* A plausible slip: an agent still being started is not counted. *)
StartedOnly(marks, r) == Cardinality(LiveOf(r))

(* started_by *)
StartedBy(marks, r) ==
    Cardinality(LiveOf(r)) + Cardinality(StartingOf(marks, r))

Begun(r) == [rule |-> r, agent |-> None, stage |-> "inventory"]

(* What a change of one card leaves of the cards and of the leases. *)
Changed(st, c, k) ==
    [st EXCEPT !.card[c] = k, !.leases = Remove(@, HoldsEnded(@, c, k))]

(* apply_rule.  A start only marks the card; the launch comes later. *)
ApplyRule(r, c, st) ==
    LET rule == Rules[r]
        k    == st.card[c]
    IN  CASE rule.action = "comment" ->
                [st EXCEPT !.card[c].fired = @ \cup {r}]
          [] rule.action = "move" ->
                IF rule.to \in board.lanes /\ rule.to # k.column
                THEN Changed(st, c, MoveTo(k, TRUE, rule.to)) ELSE st
          [] rule.action = "archive" ->
                Changed(st, c, [k EXCEPT !.archived = TRUE])
          [] rule.action = "start" ->
                IF /\ Startable(k)
                   /\ st.start[c] = None
                   /\ StartedBy(st.start, r) < rule.max
                THEN [st EXCEPT !.start[c] = Begun(r)] ELSE st

(* rules_on_enter: the rules of the lane a card came into act on it in     *)
(* turn, for as long as it stays there.                                    *)
Entered(c, st) ==
    LET lane == st.card[c].column
        after[n \in 0 .. Len(Rules)] ==
          IF n = 0 THEN st
          ELSE IF /\ Rules[n].trigger = "enter"
                  /\ Rules[n].lane = lane
                  /\ after[n - 1].card[c].column = lane
                  /\ ~after[n - 1].card[c].archived
               THEN ApplyRule(n, c, after[n - 1])
               ELSE after[n - 1]
    IN  after[Len(Rules)]

Now(t) == [card |-> card, leases |-> t, start |-> start]

Become(st) == card' = st.card /\ Leave(st.leases) /\ start' = st.start

(* sweep_rules, one rule on one card: a rule whose days are over, or a     *)
(* start rule that finds a card waiting in its lane.                       *)
SweepRule(c, r) ==
    /\ c \in Filed
    /\ ~card[c].archived
    /\ LaneOf(card[c]) = Rules[r].lane
    /\ r \notin card[c].fired
    /\ \/ Rules[r].trigger = "idle"
       \/ Rules[r].action = "start" /\ Startable(card[c])
    /\ Become(ApplyRule(r, c, Now(leases)))
    /\ UNCHANGED <<board, agents, left>>

-----------------------------------------------------------------------------
(* Requests about cards.  Those that look at holds expire leases first.    *)

NewCard(lane, edges) ==
    [column |-> lane, assignee |-> None, archived |-> FALSE,
     outside |-> FALSE, parent |-> edges.parent,
     blocked_by |-> edges.blocked_by, fired |-> {}]

EdgeSets(known) == [parent : known \cup {None}, blocked_by : SUBSET known]

AllEdges(e) == e.blocked_by \cup ({e.parent} \ {None})

(* task_file: one card or two, all or none.  The cards of a batch may name *)
(* each other; each is checked against those before it.  What is off the   *)
(* board comes to block a card by an edit.                                 *)
TaskFile(batch, lanes, edges) ==
    LET new   == {batch[n] : n \in DOMAIN batch}
        first == batch[1]
        last  == batch[Len(batch)]
        known == Filed \cup new
        later == [EdgesNow EXCEPT ![first] = AllEdges(edges[first])]
        filed == [c \in Cards |-> IF c \in new THEN NewCard(lanes[c], edges[c])
                                  ELSE card[c]]
        st    == Entered(first, [Now(leases) EXCEPT !.card = filed])
    IN  /\ Spend("file")
        /\ \A c \in new : /\ lanes[c] \in board.lanes
                          /\ AllEdges(edges[c]) \subseteq known \ {c}
        /\ ~ClosesCycle(EdgesNow, first, AllEdges(edges[first]))
        /\ last # first => ~ClosesCycle(later, last, AllEdges(edges[last]))
        /\ Become(IF last = first THEN st ELSE Entered(last, st))
        /\ UNCHANGED <<board, agents>>

(* The card as a pull reads it: named, a waiting card is free of an agent  *)
(* that has ended.                                                         *)
PullRead(c, named) ==
    IF named /\ Waiting(card[c]) /\ ~Live(card[c].assignee)
    THEN [card[c] EXCEPT !.assignee = None] ELSE card[c]

(* Nobody's, or the hold of whoever it names is gone. *)
Lapsed(t, c, k) == k.assignee # None /\ TaskHold(t, c, k.assignee) = {}

(* No lease of anybody but the caller and whoever the card names. *)
NoClaimByHand(t, c, k, a) ==
    \A i \in HoldersOf(t, c) : t[i].holder \in {a, k.assignee}

(* A plausible slip: a named card is not asked whether it has ended. *)
PullableEnded(k, a, named) ==
    /\ ~k.archived
    /\ InSource(k) \/ named
    /\ k.assignee = None \/ (k.assignee = a /\ InSource(k))
    /\ ~k.outside

(* Task::pull *)
Pullable(k, a, named) ==
    /\ ~k.archived
    /\ InSource(k) \/ (named /\ Open(k))
    /\ k.assignee = None \/ (k.assignee = a /\ InSource(k))
    /\ ~k.outside

Pulled(k, a) ==
    [(IF InSource(k) \/ ~Working(k) THEN Place(k, "in_progress") ELSE k)
        EXCEPT !.assignee = a]

(* Board::next_ready: the cards a pull that names none may come to. *)
NextReady(k, a) ==
    ~k.archived /\ InSource(k) /\ k.assignee \in {None, a} /\ ~Blocked(k)

(* task_pull of a card that is not the caller's to renew. *)
TaskPull(a, c, named) ==
    /\ Live(a)
    /\ c \in Filed
    /\ LET t == Expire(leases)
           k == PullRead(c, named)
       IN  /\ named \/ NextReady(card[c], a)
           /\ NoClaimByHand(t, c, k, a)
           /\ k.assignee = a => Lapsed(t, c, k)
           /\ ~Awaits(k)
           /\ Pullable(k, a, named)
           /\ card' = [card EXCEPT ![c] = Pulled(k, a)]
           /\ TakeHold(t, c, a)
    /\ UNCHANGED <<board, agents, start, left>>

(* task_pull of its own held card: the lease is renewed, and the card      *)
(* stays where it is even if that is a lane where nobody works.            *)
TaskPullAgain(a, c) ==
    /\ Live(a)
    /\ c \in Filed
    /\ LET t == Expire(leases)
       IN  /\ card[c].assignee = a
           /\ ~Lapsed(t, c, card[c])
           /\ NoClaimByHand(t, c, card[c], a)
           /\ Leave(t)
    /\ UNCHANGED <<card, board, agents, start, left>>

(* task_pull with take_over_from: a card whose hold lapsed, from whom it   *)
(* names.                                                                  *)
TakeOver(a, c, from) ==
    /\ Live(a)
    /\ c \in Filed
    /\ LET t == Expire(leases)
           k == card[c]
       IN  /\ NoClaimByHand(t, c, k, a)
           /\ Lapsed(t, c, k)
           /\ Working(k)
           /\ k.assignee = from
           /\ ~k.archived
           /\ card' = [card EXCEPT ![c].assignee = a]
           /\ TakeHold(t, c, a)
    /\ UNCHANGED <<board, agents, start, left>>

(* agent_hold: an agent changes a card it works on only under its hold. *)
HoldStands(t, c, by) ==
    (~Human(by) /\ Working(card[c]) /\ card[c].assignee = by) =>
        ~Lapsed(t, c, card[c])

May(by, k) == Human(by) \/ k.assignee = by

(* task_move to another lane. *)
TaskMove(by, c, lane) ==
    /\ Spend("move")
    /\ c \in Filed
    /\ lane \in board.lanes
    /\ lane # card[c].column
    /\ ~card[c].archived
    /\ May(by, card[c])
    /\ LET t == Expire(leases)
       IN  /\ HoldStands(t, c, by)
           /\ LET k == MoveTo(card[c], Human(by), lane)
              IN  Become(Entered(c, Changed(Now(t), c, k)))
    /\ UNCHANGED <<board, agents>>

(* task_move within its lane, or with words only: no rule acts, but leases *)
(* of anybody the card does not name end here too.                         *)
TaskRerank(by, c) ==
    /\ Spend("move")
    /\ c \in Filed
    /\ ~card[c].archived
    /\ May(by, card[c])
    /\ LET t == Expire(leases)
       IN  HoldStands(t, c, by) /\ Become(Changed(Now(t), c, card[c]))
    /\ UNCHANGED <<board, agents>>

(* task_update of what a card waits on. *)
TaskEdit(by, c, edges, outside) ==
    LET k == [card[c] EXCEPT !.parent = edges.parent, !.outside = outside,
                             !.blocked_by = edges.blocked_by]
        t == Expire(leases)
    IN  /\ Spend("edit")
        /\ c \in Filed
        /\ ~card[c].archived
        /\ May(by, card[c])
        /\ HoldStands(t, c, by)
        /\ AllEdges(edges) \subseteq Filed \ {c}
        /\ ~ClosesCycle(EdgesNow, c, AllEdges(edges))
        /\ k # card[c]
        /\ Become(Changed(Now(t), c, k))
        /\ UNCHANGED <<board, agents>>

(* task_update by the person of who has a card: a running agent that is    *)
(* handed a card in progress holds it from now on.                         *)
TaskAssign(c, to) ==
    LET k == [card[c] EXCEPT !.assignee = to]
        t == Expire(leases)
        rest == Remove(t, HoldsEnded(t, c, k))
    IN  /\ Spend("edit")
        /\ c \in Filed
        /\ ~card[c].archived
        /\ to # card[c].assignee
        /\ to # None => status[to] # "unborn"
        /\ card' = [card EXCEPT ![c] = k]
        /\ IF Live(to) /\ Working(k) THEN TakeHold(rest, c, to)
                                     ELSE Leave(rest)
        /\ UNCHANGED <<board, agents, start>>

(* task_archive, by the person or by the assignee of an ended card. *)
TaskArchive(by, c) ==
    /\ Spend("archive")
    /\ c \in Filed
    /\ ~card[c].archived
    /\ Human(by) \/ (Terminal(card[c]) /\ card[c].assignee = by)
    /\ LET k == [card[c] EXCEPT !.archived = TRUE]
       IN  Become(Changed(Now(Expire(leases)), c, k))
    /\ UNCHANGED <<board, agents>>

(* task_archive_lane: the cards drawn in a lane, together. *)
TaskArchiveLane(lane) ==
    LET going == {c \in Filed : ~card[c].archived /\ LaneOf(card[c]) = lane}
        t     == Expire(leases)
    IN  /\ Spend("archive")
        /\ going # {}
        /\ card' = [c \in Cards |-> IF c \in going
                                    THEN [card[c] EXCEPT !.archived = TRUE]
                                    ELSE card[c]]
        /\ Leave(Remove(t, UNION {HoldersOf(t, c) : c \in going}))
        /\ UNCHANGED <<board, agents, start>>

(* task_unarchive: back where it was, and in nobody's hold. *)
TaskUnarchive(c) ==
    /\ Spend("archive")
    /\ c \in Filed
    /\ card[c].archived
    /\ card' = [card EXCEPT ![c].archived = FALSE]
    /\ UNCHANGED <<holding, board, agents, start>>

(* board_update: any shape that checks, whatever is on the board. *)
BoardUpdate(b) ==
    /\ Spend("reshape")
    /\ b # board
    /\ board' = b
    /\ UNCHANGED <<card, holding, agents, start>>

-----------------------------------------------------------------------------
(* An agent started on a card.                                             *)

(* task_start, by the person. *)
TaskStart(c) ==
    /\ Spend("start")
    /\ c \in Filed
    /\ Startable(card[c])
    /\ start[c] = None
    /\ start' = [start EXCEPT ![c] = Begun(0)]
    /\ UNCHANGED <<card, holding, board, agents>>

(* start_on_card_command: looked at again once the inventory is read. *)
StartLaunch(c) ==
    /\ start[c] # None
    /\ start[c].stage = "inventory"
    /\ Startable(card[c])
    /\ start' = [start EXCEPT ![c].stage = "launching"]
    /\ UNCHANGED <<card, holding, board, agents, left>>

(* No such runtime, no checkout, a card taken or blocked since, a launch   *)
(* that failed: the mark is removed.                                       *)
StartFails(c) ==
    /\ start[c] # None
    /\ start[c].stage # "up"
    /\ start' = [start EXCEPT ![c] = None]
    /\ UNCHANGED <<card, holding, board, agents, left>>

(* Daemon::run: the agent is registered under the rule's label. *)
StartRuns(c, a) ==
    /\ start[c] # None
    /\ start[c].stage = "launching"
    /\ status[a] = "unborn"
    /\ status' = [status EXCEPT ![a] = "live"]
    /\ label' = [label EXCEPT ![a] = start[c].rule]
    /\ start' = [start EXCEPT ![c].stage = "up", ![c].agent = a]
    /\ UNCHANGED <<card, holding, board, left>>

(* A plausible slip: a start by the person is noted as a rule's. *)
StartedByAny(k, a, r) ==
    [(IF Working(k) THEN k ELSE Place(k, "in_progress")) EXCEPT
        !.assignee = a, !.fired = @ \cup {r}]

Started(k, a, r) ==
    [(IF Working(k) THEN k ELSE Place(k, "in_progress")) EXCEPT
        !.assignee = a, !.fired = @ \cup ({r} \ {0})]

(* The rest of start_on_card_command: the card is handed to the agent that *)
(* runs, unless it was taken or blocked meanwhile, or a claim by hand is   *)
(* in the way.                                                             *)
StartHands(c) ==
    /\ start[c] # None
    /\ start[c].stage = "up"
    /\ LET t == Expire(leases)
           a == start[c].agent
           k == Started(card[c], a, start[c].rule)
           free == /\ Startable(card[c])
                   /\ ~Conflicts(t, Wanted(c, a, "exclusive"))
       IN  IF free
           THEN /\ card' = [card EXCEPT ![c] = k]
                /\ TakeHold(t, c, a)
           ELSE Leave(t) /\ UNCHANGED card
    /\ start' = [start EXCEPT ![c] = None]
    /\ UNCHANGED <<board, agents, left>>

-----------------------------------------------------------------------------
(* Agents and leases.                                                      *)

Register(a) ==
    /\ status[a] = "unborn"
    /\ status' = [status EXCEPT ![a] = "live"]
    /\ UNCHANGED <<card, holding, board, label, start, left>>

(* mark_exited: what the agent holds is released with its record. *)
Exit(a) ==
    /\ Spend("exit")
    /\ Live(a)
    /\ status' = [status EXCEPT ![a] = "ended"]
    /\ Leave(Remove(leases, ByHolder(leases, a)))
    /\ UNCHANGED <<card, board, label, start>>

(* A lease's time is over; and maintenance expires it. *)
FallDue(i) ==
    /\ Spend("lapse")
    /\ leases[i] # None
    /\ ~leases[i].due
    /\ leases' = [leases EXCEPT ![i].due = TRUE]
    /\ UNCHANGED <<card, byHand, board, agents, start>>

ExpireLeases ==
    /\ Due(leases) # {}
    /\ Leave(Expire(leases))
    /\ UNCHANGED <<card, board, agents, start, left>>

(* A claim of the card's key by hand, and its release. *)
ClaimByHand(a, c, mode) ==
    LET t == Expire(leases)
        q == Wanted(c, a, mode)
    IN  /\ Spend("hand")
        /\ Live(a)
        /\ c \in Filed
        /\ Same(t, q) = {}
        /\ ~Conflicts(t, q)
        /\ \E g \in ClaimAs(t, q, LeaseIds \ Held(t)) :
              /\ leases' = Restore(t, g)
              /\ byHand' = (byHand \cap Held(t)) \cup {g.id}
        /\ UNCHANGED <<card, board, agents, start>>

Release(i) ==
    /\ Spend("hand")
    /\ leases[i] # None
    /\ Live(leases[i].holder)
    /\ Leave(Remove(leases, {i}))
    /\ UNCHANGED <<card, board, agents, start>>

(* A handoff accepted: the lease passes, the card names who it named. *)
HandOn(i, to) ==
    /\ Spend("hand")
    /\ leases[i] # None
    /\ ~leases[i].due
    /\ Live(to)
    /\ to # leases[i].holder
    /\ leases' = [leases EXCEPT ![i].holder = to, ![i].handed = TRUE]
    /\ byHand' = byHand \cup {i}
    /\ UNCHANGED <<card, board, agents, start>>

(* The daemon stops and another one loads the database: cards and leases   *)
(* are there, the marks of starts under way are not.                       *)
Restart ==
    /\ Spend("restart")
    /\ start' = [c \in Cards |-> None]
    /\ UNCHANGED <<card, holding, board, agents>>

-----------------------------------------------------------------------------
Unfiled == Cards \ Filed

Batches ==
    {<<c>> : c \in Unfiled} \cup {p \in Unfiled \X Unfiled : p[1] # p[2]}

Actors == Agents \cup {Person}

CardStep(c) ==
    \/ \E r \in RuleIds : SweepRule(c, r)
    \/ \E a \in Agents, named \in BOOLEAN : TaskPull(a, c, named)
    \/ \E a \in Agents : TaskPullAgain(a, c)
    \/ \E a, from \in Agents : TakeOver(a, c, from)
    \/ \E by \in Actors, lane \in Columns : TaskMove(by, c, lane)
    \/ \E by \in Actors : TaskRerank(by, c)
    \/ \E by \in Actors, edges \in EdgeSets(Filed), outside \in BOOLEAN :
          TaskEdit(by, c, edges, outside)
    \/ \E to \in Agents \cup {None} : TaskAssign(c, to)
    \/ \E by \in Actors : TaskArchive(by, c)
    \/ TaskUnarchive(c)
    \/ TaskStart(c)
    \/ StartLaunch(c)
    \/ StartFails(c)
    \/ \E a \in Agents : StartRuns(c, a)
    \/ StartHands(c)
    \/ \E a \in Agents, mode \in Modes : ClaimByHand(a, c, mode)

BoardStep ==
    \/ \E batch \in Batches :
          LET new == {batch[n] : n \in DOMAIN batch}
          IN  \E lanes \in [new -> Filing], edges \in [new -> EdgeSets(Cards)] :
                 TaskFile(batch, lanes, edges)
    \/ \E lane \in Columns : TaskArchiveLane(lane)
    \/ \E b \in Boards : BoardUpdate(b)

AgentStep ==
    \/ \E a \in Agents : Register(a) \/ Exit(a)
    \/ \E i \in LeaseIds : FallDue(i) \/ Release(i)
    \/ \E i \in LeaseIds, to \in Agents : HandOn(i, to)
    \/ ExpireLeases
    \/ Restart

Next == (\E c \in Cards : CardStep(c)) \/ BoardStep \/ AgentStep

Spec == Init /\ [][Next]_vars

-----------------------------------------------------------------------------
(* Properties.                                                             *)

(* A lease that the board took on a card is the hold of the agent the card *)
(* names, and the card is worked on: no move, edit, archive, rule, start,  *)
(* take-over or exit leaves a hold behind that would keep everybody else   *)
(* from the card (holds_ended and commit_task in every one of them).       *)
HoldIsAssignees ==
    \A i \in Held(leases) \ byHand :
        LET k == card[leases[i].resource]
        IN  /\ k # None
            /\ k.assignee = leases[i].holder
            /\ Working(k)
            /\ ~k.archived

(* A card passes from one agent to another without the person only from an *)
(* agent that ended before it began, or by a take-over of a hold that      *)
(* lapsed.  An agent started on a card never takes it from whoever took it *)
(* while the agent was being launched (task_pull, start_on_card_command).  *)
NoSteal ==
    [][\A c \in Filed :
          LET had == card[c].assignee
              has == card'[c].assignee
          IN  (had # None /\ has \notin {None, had} /\ left' = left) =>
                 /\ start' = start
                 /\ \/ Waiting(card[c]) /\ ~Live(had)
                    \/ /\ Working(card[c])
                       /\ TaskHold(Expire(leases), c, had) = {}]_vars

(* No card waits for itself, over any chain of parents and blockers:       *)
(* filings, batches that name each other and edits of different cards      *)
(* together never close a ring in which every card waits for good          *)
(* (card_edges, closes_cycle).                                             *)
NoWaitRing == \A c \in Filed : c \notin Reached(EdgesNow, Edges(card[c]))

(* A start rule has at most `max' agents running, however its cards come   *)
(* in, its starts overlap, fail or run into a pull (started_by).           *)
RuleBound ==
    \A r \in RuleIds :
        Rules[r].action = "start" => Cardinality(LiveOf(r)) <= Rules[r].max

(* A card that ended, in a lane the board has, is taken by no pull, take-  *)
(* over or start: only a move, by the person, a rule or whom it names,     *)
(* brings it back (Task::pull, Board::next_ready, rule::startable).        *)
EndedStays ==
    [][\A c \in Filed :
          ( /\ Terminal(card[c])
            /\ card[c].column \in board.lanes
            /\ card'[c].assignee \notin {None, card[c].assignee})
          => left'["edit"] < left["edit"]]_vars
=============================================================================
