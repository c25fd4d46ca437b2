------------------------------ MODULE WaitQueue ------------------------------
(***************************************************************************)
(* The queue of claims that wait (crates/core/src/wait.rs): the order they *)
(* are served in, whose turn it is, the rings of waits, and the wait a     *)
(* ring is broken at.                                                      *)
(*                                                                         *)
(* A queue maps each claim to its waiter, None where it has no ticket (a   *)
(* claim holds at most one, in its Waiting guard).  The code keeps the     *)
(* waiters in a Vec sorted by ahead_of; the order is all that is used of   *)
(* it, so it is stated as a relation here.                                 *)
(***************************************************************************)
EXTENDS LeaseTable, Sequences, FiniteSets

CONSTANTS
    Claims,      \* claim requests that can be in progress at once
    Priorities   \* the priorities claims ask for

ASSUME PriorityAssumption == Priorities \subseteq Int

ASSUME ClaimsAssumption == None \notin Claims

(* The registry is a map of agents; only so many are ever in it. *)
ASSUME AgentsAssumption == IsFiniteSet(Agents)

Waiter == [ticket : Nat, agent : Agents, resource : Resources,
           mode : Modes, priority : Priorities]

ASSUME WaiterAssumption == None \notin Waiter

Queues == [Claims -> Waiter \cup {None}]

EmptyQueue == [c \in Claims |-> None]

(* A plausible slip: the priority negated, as if the lowest went first. *)
WaiterOfNegated(n, q) ==
    [ticket |-> n, agent |-> q.agent, resource |-> q.resource,
     mode |-> q.mode, priority |-> -q.priority]

WaiterOf(n, q) == [ticket |-> n, agent |-> q.agent, resource |-> q.resource,
                   mode |-> q.mode, priority |-> q.priority]

Queued(w) == {c \in Claims : w[c] # None}

(* Waiter::ahead_of: higher priority first, then arrival. *)
AheadOf(x, y) ==
    \/ x.priority > y.priority
    \/ x.priority = y.priority /\ x.ticket < y.ticket

(* WaitQueue::join, leave, and the removal in break_ring. *)
Join(w, c, x) == [w EXCEPT ![c] = x]

Leave(w, gone) == [c \in Claims |-> IF c \in gone THEN None ELSE w[c]]

(* wait::blocks: who asks does not matter here, only what for. *)
StandsInWay(other, mine) ==
    /\ Overlaps(other.resource, mine.resource)
    /\ Conflicting(other.mode, mine.mode)

(* WaitQueue::position counts these; is_next is that there are none. *)
Ahead(w, c) ==
    {d \in Queued(w) : AheadOf(w[d], w[c]) /\ StandsInWay(w[d], w[c])}

IsNext(w, c) == c \in Queued(w) /\ Ahead(w, c) = {}

(* The last of some queued claims in the order of service. *)
LastOf(w, S) == CHOOSE c \in S : \A d \in S : d = c \/ AheadOf(w[d], w[c])

WaitsOf(w, a) == {c \in Queued(w) : w[c].agent = a}

(* The HashMap of waits that wait::deadlock builds keeps one wait per      *)
(* agent, the last one inserted.                                           *)
Wants(w, a) == w[LastOf(w, WaitsOf(w, a))].resource

(* A plausible slip: a wait is met only by a lease on the very same key. *)
HoldsExactly(t, a, r) == \E i \in ByHolder(t, a) : t[i].resource = r

Holds(t, a, r) == \E i \in ByHolder(t, a) : Overlaps(t[i].resource, r)

(* wait::deadlock and walk: the rings through `requester' that its waiting *)
(* for `resource' would close, each the sequence of the agents in it.      *)
(* Every agent but the requester is already waiting, and each wants what   *)
(* the next one holds, whatever the modes.  The search returns the first   *)
(* ring in lease order; which one that is, is left open here.              *)
Ring(t, w, requester, resource, p) ==
    LET n == Len(p)
        want(i) == IF i = 1 THEN resource ELSE Wants(w, p[i])
        next(i) == IF i = n THEN requester ELSE p[i + 1]
    IN  /\ n > 1
        /\ p[1] = requester
        /\ \A i, j \in 1..n : p[i] = p[j] => i = j
        /\ \A i \in 2..n : WaitsOf(w, p[i]) # {}
        /\ \A i \in 1..n : Holds(t, next(i), want(i))

Rings(t, w, requester, resource) ==
    {p \in UNION {[1..n -> Agents] : n \in 2..Cardinality(Agents)} :
        Ring(t, w, requester, resource, p)}

(* wait::victim: the lowest priority, the youngest among equals, the       *)
(* newcomer (None) counting as the youngest of all.                        *)
Victim(w, p, priority) ==
    LET waits == {c \in Queued(w) : \E k \in 2..Len(p) :
                    /\ w[c].agent = p[k]
                    /\ w[c].resource = Wants(w, p[k])}
        last  == LastOf(w, waits)
    IN  IF waits # {} /\ w[last].priority < priority THEN last ELSE None

Victims(t, w, q) ==
    {Victim(w, p, q.priority) : p \in Rings(t, w, q.agent, q.resource)}

(* State::break_rings: break the rings that waiting would close one after  *)
(* another until none is left, or the newcomer is the victim.  `ended' are *)
(* the waits ended on the way.                                             *)
Breaking(t, w, q, vs) ==
    \A i \in DOMAIN vs :
        vs[i] \in Victims(t, Leave(w, {vs[j] : j \in 1..(i - 1)}), q) \ {None}

BreakRings(t, w, q) ==
    {o \in [ended : SUBSET Queued(w), refused : BOOLEAN] :
        /\ \E vs \in [1..Cardinality(o.ended) -> o.ended] :
              {vs[i] : i \in DOMAIN vs} = o.ended /\ Breaking(t, w, q, vs)
        /\ IF o.refused
           THEN None \in Victims(t, Leave(w, o.ended), q)
           ELSE Victims(t, Leave(w, o.ended), q) = {}}
=============================================================================
