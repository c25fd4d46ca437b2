-------------------------- MODULE TaskBoardProofs --------------------------
(***************************************************************************)
(* Proofs about TaskBoard, for all cards, agents, leases, boards, rules    *)
(* and budgets.                                                            *)
(*                                                                         *)
(* A lease of the board's is exclusive (Holds), or a take-over could leave *)
(* a shared one of the card's former agent behind.  A rule's agents are    *)
(* bounded together with the starts that no agent runs for yet (Bounded):  *)
(* a start counts once, as a mark until its agent is up and as an agent    *)
(* from then on.  That no ring of waits closes rests on Reached being the  *)
(* least set of cards that holds the first ones and what their edges lead  *)
(* to, which the recursion has after as many steps as there are cards.     *)
(*                                                                         *)
(* A request changes cards, leases and marks more than once (a move, and   *)
(* each rule of the lane it leads to), so the invariant is said of any     *)
(* such three, and Tamed of what one change makes of them.  Recursive      *)
(* functions are reasoned about by induction over a set of numbers.        *)
(***************************************************************************)
EXTENDS TaskBoard, FiniteSetTheorems, WellFoundedInduction, TLAPS

-----------------------------------------------------------------------------
(* Recursion and induction over numbers.                                   *)

(* Induction, over a set of numbers instead of a predicate. *)
LEMMA Induction ==
    ASSUME NEW T \in SUBSET Nat, 0 \in T, \A n \in T : n + 1 \in T
    PROVE  T = Nat
<1> SUFFICES ASSUME Nat \ T # {} PROVE FALSE
  OBVIOUS
<1>1. PICK n \in Nat \ T : \A k \in Nat \ T : <<k, n>> \notin OpToRel(<, Nat)
  BY NatLessThanWellFounded, WFMin
<1>2. n # 0
  OBVIOUS
<1>3. n - 1 \in Nat /\ n - 1 < n /\ (n - 1) + 1 = n
  BY <1>2
<1>4. <<n - 1, n>> \in OpToRel(<, Nat)
  BY <1>3 DEF OpToRel
<1>5. n - 1 \in T
  BY <1>1, <1>3, <1>4
<1> QED  BY <1>3, <1>5

(* The values a step makes of a first one, one after the other. *)
Iterates(f, x, F, n) ==
    /\ f = [i \in 0 .. n |-> f[i]]
    /\ f[0] = x
    /\ \A i \in 1 .. n : f[i] = F[<<i, f[i - 1]>>]

(* They stay where the step does. *)
LEMMA IteratesIn ==
    ASSUME NEW S, NEW x \in S, NEW F \in [Nat \X S -> S], NEW n \in Nat,
           NEW f, Iterates(f, x, F, n)
    PROVE  \A i \in 0 .. n : f[i] \in S
<1> DEFINE T == {i \in Nat : i <= n => f[i] \in S}
<1>1. 0 \in T
  BY DEF Iterates
<1>2. ASSUME NEW i \in T PROVE i + 1 \in T
  <2> SUFFICES ASSUME i + 1 <= n PROVE f[i + 1] \in S
    OBVIOUS
  <2>1. i \in Nat /\ f[i] \in S /\ i + 1 \in 1 .. n /\ (i + 1) - 1 = i
    OBVIOUS
  <2>2. f[i + 1] = F[<<i + 1, f[i]>>]
    BY <2>1 DEF Iterates
  <2> QED  BY <2>1, <2>2
<1> HIDE DEF T
<1>3. T = Nat
  <2>1. T \in SUBSET Nat
    BY DEF T
  <2> QED  BY <1>1, <1>2, <2>1, Induction
<1> QED  BY <1>3 DEF T

(* There are as many of them as are asked for. *)
LEMMA IteratesExist ==
    ASSUME NEW S, NEW x \in S, NEW F \in [Nat \X S -> S], NEW n \in Nat
    PROVE  \E f : Iterates(f, x, F, n)
<1> DEFINE T == {k \in Nat : \E f : Iterates(f, x, F, k)}
<1>1. 0 \in T
  <2> DEFINE f == [i \in 0 .. 0 |-> x]
  <2>1. Iterates(f, x, F, 0)
    BY DEF Iterates
  <2> QED  BY <2>1
<1>2. ASSUME NEW k \in T PROVE k + 1 \in T
  <2>1. k \in Nat
    OBVIOUS
  <2>2. PICK f : Iterates(f, x, F, k)
    OBVIOUS
  <2> DEFINE g == [i \in 0 .. (k + 1) |-> IF i = k + 1 THEN F[<<k + 1, f[k]>>] ELSE f[i]]
  <2>3. /\ \A i \in 0 .. k : g[i] = f[i] /\ i # k + 1
        /\ g[k + 1] = F[<<k + 1, f[k]>>]
        /\ g = [i \in 0 .. (k + 1) |-> g[i]]
    BY <2>1
  <2> HIDE DEF g
  <2>4. g[0] = x
    <3>1. 0 \in 0 .. k
      BY <2>1
    <3>2. f[0] = x
      BY <2>2 DEF Iterates
    <3> QED  BY <2>3, <3>1, <3>2
  <2>5. ASSUME NEW i \in 1 .. (k + 1) PROVE g[i] = F[<<i, g[i - 1]>>]
    <3>1. CASE i = k + 1
      <4>1. i - 1 = k /\ k \in 0 .. k
        BY <2>1, <3>1
      <4> QED  BY <2>3, <3>1, <4>1
    <3>2. CASE i # k + 1
      <4>1. i \in 1 .. k /\ i \in 0 .. k /\ i - 1 \in 0 .. k
        BY <2>1, <3>2
      <4> QED  BY <2>2, <2>3, <4>1 DEF Iterates
    <3> QED  BY <3>1, <3>2
  <2>6. Iterates(g, x, F, k + 1)
    BY <2>3, <2>4, <2>5 DEF Iterates
  <2> QED  BY <2>1, <2>6
<1> HIDE DEF T
<1>3. T = Nat
  <2>1. T \in SUBSET Nat
    BY DEF T
  <2> QED  BY <1>1, <1>2, <2>1, Induction
<1> QED  BY <1>3 DEF T

-----------------------------------------------------------------------------
(* What the edges reach.                                                   *)

(* The edges of cards lead to cards. *)
Nets == [Cards -> SUBSET Cards]

Beyond(e, S) == S \cup UNION {e[d] : d \in S}

Closed(e, S) == \A d \in S : e[d] \subseteq S

(* The recursion of Reached. *)
Within(f, e, from, n) ==
    f = [i \in 0 .. n |-> IF i = 0 THEN from
                          ELSE f[i - 1] \cup UNION {e[d] : d \in f[i - 1]}]

(* That recursion has a solution. *)
LEMMA WithinExists ==
    ASSUME NEW e \in Nets, NEW from \in SUBSET Cards, NEW n \in Nat
    PROVE  \E f : Within(f, e, from, n)
<1> DEFINE S == SUBSET Cards
           F == [p \in Nat \X S |-> Beyond(e, p[2])]
<1>1. \A X \in S : Beyond(e, X) \in S
  BY DEF Beyond, Nets
<1>2. F \in [Nat \X S -> S] /\ \A i \in Nat, X \in S : F[<<i, X>>] = Beyond(e, X)
  BY <1>1
<1> HIDE DEF S, F
<1>3. from \in S
  BY DEF S
<1>4. PICK f : Iterates(f, from, F, n)
  BY <1>2, <1>3, IteratesExist
<1>5. \A i \in 0 .. n : f[i] \in S
  BY <1>2, <1>3, <1>4, IteratesIn
<1>6. ASSUME NEW i \in 0 .. n
      PROVE  f[i] = IF i = 0 THEN from ELSE f[i - 1] \cup UNION {e[d] : d \in f[i - 1]}
  <2>1. CASE i = 0
    BY <1>4, <2>1 DEF Iterates
  <2>2. CASE i # 0
    <3>1. i \in 1 .. n /\ i - 1 \in 0 .. n /\ i \in Nat
      BY <2>2
    <3>2. f[i] = F[<<i, f[i - 1]>>]
      BY <1>4, <3>1 DEF Iterates
    <3> QED  BY <1>2, <1>5, <2>2, <3>1, <3>2 DEF Beyond
  <2> QED  BY <2>1, <2>2
<1>7. f = [i \in 0 .. n |-> f[i]]
  BY <1>4 DEF Iterates
<1>8. Within(f, e, from, n)
  BY <1>6, <1>7 DEF Within
<1> QED  BY <1>8

(* A set that each step of the recursion leaves or makes larger is closed  *)
(* at the latest after as many steps as there are cards, so that Reached   *)
(* is the least closed set that the edges lead to.                         *)
LEMMA ReachedIs ==
    ASSUME NEW e \in Nets, NEW from \in SUBSET Cards
    PROVE  /\ Reached(e, from) \subseteq Cards /\ from \subseteq Reached(e, from)
           /\ Closed(e, Reached(e, from))
           /\ \A S : from \subseteq S /\ Closed(e, S) => Reached(e, from) \subseteq S
<1> DEFINE N == Cardinality(Cards)
           f == CHOOSE f : Within(f, e, from, N)
<1>1. N \in Nat /\ IsFiniteSet(Cards)
  BY FiniteAssumption, FS_CardinalityType
<1>2. Within(f, e, from, N)
  <2>1. \E g : Within(g, e, from, N)
    BY <1>1, WithinExists
  <2> QED  BY <2>1
<1>3. Reached(e, from) = f[N]
  BY DEF Reached, Within
<1> HIDE DEF f, N
<1>4. f[0] = from /\ \A i \in 0 .. N : i + 1 <= N => f[i + 1] = f[i] \cup UNION {e[d] : d \in f[i]}
  <2>1. f[0] = from
    BY <1>1, <1>2 DEF Within
  <2>2. ASSUME NEW i \in 0 .. N, i + 1 <= N
        PROVE  f[i + 1] = f[i] \cup UNION {e[d] : d \in f[i]}
    <3>1. i + 1 \in 0 .. N /\ i + 1 # 0 /\ (i + 1) - 1 = i
      BY <1>1, <2>2
    <3> QED  BY <1>2, <3>1 DEF Within
  <2> QED  BY <2>1, <2>2
<1>5. \A i \in 0 .. N : f[i] \in SUBSET Cards /\ from \subseteq f[i]
  <2> DEFINE T == {i \in Nat : i <= N => f[i] \in SUBSET Cards /\ from \subseteq f[i]}
  <2>1. 0 \in T
    BY <1>4
  <2>2. ASSUME NEW i \in T PROVE i + 1 \in T
    <3> SUFFICES ASSUME i + 1 <= N
                 PROVE  f[i + 1] \in SUBSET Cards /\ from \subseteq f[i + 1]
      OBVIOUS
    <3>1. i \in 0 .. N /\ f[i] \in SUBSET Cards /\ from \subseteq f[i]
      BY <1>1
    <3>2. f[i + 1] = f[i] \cup UNION {e[d] : d \in f[i]}
      BY <1>4, <3>1
    <3> QED  BY <3>1, <3>2 DEF Nets
  <2> HIDE DEF T
  <2>3. T = Nat
    <3>1. T \in SUBSET Nat
      BY DEF T
    <3> QED  BY <2>1, <2>2, <3>1, Induction
  <2> QED  BY <2>3 DEF T
<1>6. ASSUME NEW S, from \subseteq S, Closed(e, S) PROVE f[N] \subseteq S
  <2> DEFINE T == {i \in Nat : i <= N => f[i] \subseteq S}
  <2>1. 0 \in T
    BY <1>4, <1>6
  <2>2. ASSUME NEW i \in T PROVE i + 1 \in T
    <3> SUFFICES ASSUME i + 1 <= N PROVE f[i + 1] \subseteq S
      OBVIOUS
    <3>1. i \in 0 .. N /\ f[i] \subseteq S
      BY <1>1
    <3>2. f[i + 1] = f[i] \cup UNION {e[d] : d \in f[i]}
      BY <1>4, <3>1
    <3> QED  BY <1>6, <3>1, <3>2 DEF Closed
  <2> HIDE DEF T
  <2>3. T = Nat
    <3>1. T \in SUBSET Nat
      BY DEF T
    <3> QED  BY <2>1, <2>2, <3>1, Induction
  <2> QED  BY <1>1, <2>3 DEF T
(* By step i the set is closed or has i cards. *)
<1>7. \A i \in 0 .. N : Closed(e, f[i]) \/ i <= Cardinality(f[i])
  <2> DEFINE T == {i \in Nat : i <= N => Closed(e, f[i]) \/ i <= Cardinality(f[i])}
  <2>1. 0 \in T
    <3>1. IsFiniteSet(f[0])
      BY <1>1, <1>4, FS_Subset
    <3>2. Cardinality(f[0]) \in Nat
      BY <3>1, FS_CardinalityType
    <3> QED  BY <3>2
  <2>2. ASSUME NEW i \in T PROVE i + 1 \in T
    <3> SUFFICES ASSUME i + 1 <= N
                 PROVE  Closed(e, f[i + 1]) \/ i + 1 <= Cardinality(f[i + 1])
      OBVIOUS
    <3>1. i \in 0 .. N /\ i + 1 \in 0 .. N
      BY <1>1
    <3>2. Closed(e, f[i]) \/ i <= Cardinality(f[i])
      BY <3>1
    <3>3. f[i + 1] = f[i] \cup UNION {e[d] : d \in f[i]}
      BY <1>4, <3>1
    <3>4. CASE Closed(e, f[i])
      <4>1. f[i + 1] = f[i]
        BY <3>3, <3>4 DEF Closed
      <4> QED  BY <3>4, <4>1
    <3>5. CASE ~Closed(e, f[i])
      <4>1. f[i] \subseteq f[i + 1] /\ f[i] # f[i + 1]
        BY <3>3, <3>5 DEF Closed
      <4>2. IsFiniteSet(f[i]) /\ IsFiniteSet(f[i + 1])
        BY <1>1, <1>5, <3>1, FS_Subset
      <4>3. /\ Cardinality(f[i]) \in Nat /\ Cardinality(f[i + 1]) \in Nat
            /\ Cardinality(f[i]) < Cardinality(f[i + 1])
        <5>1. Cardinality(f[i]) <= Cardinality(f[i + 1])
          BY <4>1, <4>2, FS_Subset
        <5>2. Cardinality(f[i]) # Cardinality(f[i + 1])
          BY <4>1, <4>2, FS_Subset
        <5> QED  BY <4>2, <5>1, <5>2, FS_CardinalityType
      <4>4. i <= Cardinality(f[i]) /\ i \in Nat
        BY <3>2, <3>5
      <4> QED  BY <4>3, <4>4
    <3> QED  BY <3>4, <3>5
  <2> HIDE DEF T
  <2>3. T = Nat
    <3>1. T \in SUBSET Nat
      BY DEF T
    <3> QED  BY <2>1, <2>2, <3>1, Induction
  <2> QED  BY <2>3 DEF T
<1>8. Closed(e, f[N])
  <2>1. N \in 0 .. N
    BY <1>1
  <2>2. CASE N <= Cardinality(f[N])
    <3>1. f[N] \subseteq Cards
      BY <1>5, <2>1
    <3>2. Cardinality(f[N]) <= N /\ Cardinality(f[N]) \in Nat /\ (Cardinality(f[N]) = N => f[N] = Cards)
      BY <1>1, <3>1, FS_Subset, FS_CardinalityType DEF N
    <3>3. f[N] = Cards
      BY <1>1, <2>2, <3>2
    <3> QED  BY <3>3 DEF Closed, Nets
  <2> QED  BY <1>7, <2>1, <2>2
<1>9. f[N] \subseteq Cards /\ from \subseteq f[N]
  <2>1. N \in 0 .. N
    BY <1>1
  <2> QED  BY <1>5, <2>1
<1> QED  BY <1>3, <1>6, <1>8, <1>9

(* No card reaches itself. *)
Acyclic(e) == \A d \in Cards : d \notin Reached(e, e[d])

(* New edges of a card that do not lead back to it close no ring. *)
LEMMA NoNewRing ==
    ASSUME NEW e \in Nets, Acyclic(e), NEW c \in Cards, NEW to \in SUBSET Cards,
           ~ClosesCycle(e, c, to)
    PROVE  [e EXCEPT ![c] = to] \in Nets /\ Acyclic([e EXCEPT ![c] = to])
<1> DEFINE new == [e EXCEPT ![c] = to]
           T == Reached(e, to)
<1>1. new \in Nets /\ new[c] = to /\ \A d \in Cards \ {c} : new[d] = e[d]
  BY DEF Nets
<1>2. T \subseteq Cards /\ to \subseteq T /\ Closed(e, T) /\ c \notin T
  BY ReachedIs DEF ClosesCycle
<1> HIDE DEF new, T
<1>3. Closed(new, T)
  BY <1>1, <1>2 DEF Closed
<1>4. c \notin Reached(new, new[c])
  <2>1. Reached(new, to) \subseteq T
    BY <1>1, <1>2, <1>3, ReachedIs
  <2> QED  BY <1>1, <1>2, <2>1
<1>5. ASSUME NEW d \in Cards \ {c} PROVE d \notin Reached(new, new[d])
  <2> DEFINE S == Reached(e, e[d])
  <2>1. e[d] \in SUBSET Cards
    BY DEF Nets
  <2>2. S \subseteq Cards /\ e[d] \subseteq S /\ Closed(e, S) /\ d \notin S
    BY <2>1, ReachedIs DEF Acyclic
  <2>3. \A X : e[d] \subseteq X /\ Closed(e, X) => S \subseteq X
    BY <2>1, ReachedIs
  <2>4. \A X : e[d] \subseteq X /\ Closed(new, X) => Reached(new, e[d]) \subseteq X
    BY <1>1, <2>1, ReachedIs
  <2> HIDE DEF S
  <2>5. CASE c \notin S
    <3>1. Closed(new, S)
      BY <1>1, <2>2, <2>5 DEF Closed
    <3> QED  BY <1>1, <2>2, <2>4, <3>1
  <2>6. CASE c \in S
    <3>1. d \notin T
      <4> SUFFICES ASSUME d \in T PROVE FALSE
        OBVIOUS
      <4>1. e[d] \subseteq T
        BY <1>2 DEF Closed
      <4> QED  BY <1>2, <2>3, <2>6, <4>1
    <3>2. Closed(new, S \cup T)
      BY <1>1, <1>2, <1>3, <2>2 DEF Closed
    <3> QED  BY <1>1, <2>2, <2>4, <3>1, <3>2
  <2> QED  BY <2>5, <2>6
<1>6. Acyclic(new)
  BY <1>4, <1>5 DEF Acyclic
<1> QED  BY <1>1, <1>6 DEF new

-----------------------------------------------------------------------------
(* The invariant, said of cards, leases and marks that need not be the     *)
(* state's, for a request makes its changes one after the other.           *)

States == [card : [Cards -> Task \cup {None}], leases : Tables,
           start : [Cards -> Start \cup {None}]]

(* A lease of the board's is the exclusive one of whoever has the card. *)
Holds(kc, t, hand) ==
    \A i \in Held(t) \ hand :
        /\ t[i].mode = "exclusive"
        /\ kc[t[i].resource] # None
        /\ kc[t[i].resource].assignee = t[i].holder
        /\ Working(kc[t[i].resource])
        /\ ~kc[t[i].resource].archived

(* The cards a rule has marked and no agent runs for yet. *)
Underway(marks, r) ==
    {c \in Cards : marks[c] # None /\ marks[c].rule = r /\ marks[c].stage # "up"}

(* They count with the agents that run. *)
Bounded(marks) ==
    \A r \in RuleIds : Rules[r].action = "start" =>
        Cardinality(LiveOf(r)) + Cardinality(Underway(marks, r)) <= Rules[r].max

(* Only a card that was filed is marked, and what runs is an agent. *)
Marked(kc, marks) ==
    \A c \in Cards : marks[c] # None =>
        /\ kc[c] # None
        /\ marks[c].stage = "up" => marks[c].agent \in Agents

(* An agent that was not born was started by nobody. *)
Unlabelled == \A a \in Agents : status[a] = "unborn" => label[a] = 0

EdgesOf(kc) == [c \in Cards |-> IF kc[c] = None THEN {} ELSE Edges(kc[c])]

IInv ==
    /\ TypeOK /\ Unlabelled
    /\ Holds(card, leases, byHand)
    /\ Bounded(start)
    /\ Marked(card, start)
    /\ Acyclic(EdgesNow)

(* What a step on card c makes of st: it takes nothing but what it ends    *)
(* with.                                                                   *)
Tamed(st, u, c) ==
    /\ u \in States
    /\ \A d \in Cards \ {c} : u.card[d] = st.card[d]
    /\ u.card[c] # None /\ u.card[c].assignee \in {None, st.card[c].assignee}
    /\ \A hand : Holds(st.card, st.leases, hand) => Holds(u.card, u.leases, hand)
    /\ Bounded(st.start) => Bounded(u.start)
    /\ Marked(st.card, st.start) => Marked(u.card, u.start)

-----------------------------------------------------------------------------
(* What the operations on a table and on a card return.                    *)

(* A lease under an id is a lease. *)
LEMMA LeaseIs ==
    ASSUME NEW t \in Tables, NEW i \in Held(t)
    PROVE  /\ i \in LeaseIds /\ t[i] \in Lease /\ t[i] # None
           /\ t[i].holder \in Agents /\ t[i].resource \in Cards /\ t[i].mode \in Modes
BY DEF Held, Tables, Lease, Cards

(* What is left of a table is what it was. *)
LEMMA RemoveIs ==
    ASSUME NEW t \in Tables, NEW ids
    PROVE  /\ Remove(t, ids) \in Tables
           /\ \A i \in LeaseIds : i \in Held(Remove(t, ids)) <=> i \in Held(t) /\ i \notin ids
           /\ \A i \in Held(Remove(t, ids)) : i \in Held(t) /\ Remove(t, ids)[i] = t[i]
BY DEF Remove, Tables, Held

(* Fewer leases hold as the more did. *)
LEMMA FewerHold ==
    ASSUME NEW t, NEW u, NEW kc, NEW hand, Holds(kc, t, hand),
           \A i \in Held(u) : i \in Held(t) /\ u[i] = t[i]
    PROVE  Holds(kc, u, hand)
BY DEF Holds

(* So for what is left when leases expire. *)
LEMMA ExpireIs ==
    ASSUME NEW t \in Tables
    PROVE  /\ Expire(t) \in Tables
           /\ \A i \in Held(Expire(t)) : i \in Held(t) /\ Expire(t)[i] = t[i]
BY RemoveIs DEF Expire

(* The claim of a hold is answered with a lease that is just that. *)
LEMMA ClaimIs ==
    ASSUME NEW t \in Tables, NEW c \in Cards, NEW a \in Agents, NEW mode \in Modes,
           NEW g \in ClaimAs(t, Wanted(c, a, mode), LeaseIds \ Held(t))
    PROVE  /\ g.id \in LeaseIds /\ g.lease \in Lease
           /\ g.lease.holder = a /\ g.lease.resource = c /\ g.lease.mode = mode
<1> DEFINE q == Wanted(c, a, mode)
<1>1. q.agent = a /\ q.resource = c /\ q.mode = mode /\ q.automatic = FALSE
  BY DEF Wanted
<1> HIDE DEF q
<1>2. g \in ClaimAs(t, q, LeaseIds \ Held(t))
  BY DEF q
<1>3. CASE Same(t, q) # {}
  <2>1. PICK i \in Same(t, q) : g = [id |-> i, lease |-> Reclaimed(t[i], q)]
    BY <1>2, <1>3 DEF ClaimAs
  <2>2. /\ i \in Held(t) /\ t[i].holder = a /\ t[i].resource = c /\ t[i].mode = mode
    BY <1>1 DEF Same
  <2>3. i \in LeaseIds /\ t[i] \in Lease
    BY <2>2, LeaseIs
  <2>4. /\ Reclaimed(t[i], q) \in Lease /\ Reclaimed(t[i], q).holder = t[i].holder
        /\ Reclaimed(t[i], q).resource = t[i].resource /\ Reclaimed(t[i], q).mode = t[i].mode
    BY <1>1, <2>3 DEF Reclaimed, Lease
  <2> QED  BY <2>1, <2>2, <2>3, <2>4
<1>4. CASE Same(t, q) = {}
  <2>1. PICK i \in LeaseIds \ Held(t) : g = [id |-> i, lease |-> NewLease(q)]
    BY <1>2, <1>4 DEF ClaimAs
  <2>2. /\ NewLease(q) \in Lease /\ NewLease(q).holder = a
        /\ NewLease(q).resource = c /\ NewLease(q).mode = mode
    BY <1>1 DEF NewLease, Lease, Cards
  <2> QED  BY <2>1, <2>2
<1> QED  BY <1>3, <1>4

(* A lease put into a table. *)
LEMMA RestoreIs ==
    ASSUME NEW t \in Tables, NEW g, g.id \in LeaseIds, g.lease \in Lease
    PROVE  /\ Restore(t, g) \in Tables
           /\ g.id \in Held(Restore(t, g)) /\ Restore(t, g)[g.id] = g.lease
           /\ \A i \in Held(Restore(t, g)) \ {g.id} : i \in Held(t) /\ Restore(t, g)[i] = t[i]
BY NoneAssumption DEF Restore, Tables, Held

(* A card that an agent takes with its hold, nobody else holding it. *)
LEMMA TakeHoldIs ==
    ASSUME NEW t \in Tables, NEW c \in Cards, NEW a \in Agents, TakeHold(t, c, a),
           byHand \in SUBSET LeaseIds,
           NEW kc, kc[c] # None, kc[c].assignee = a, Working(kc[c]), ~kc[c].archived,
           NEW old, Holds(old, t, byHand), \A d \in Cards \ {c} : kc[d] = old[d],
           \A i \in Held(t) \ byHand : t[i].resource = c => t[i].holder = a
    PROVE  leases' \in Tables /\ byHand' \in SUBSET LeaseIds /\ Holds(kc, leases', byHand')
<1>1. PICK g \in ClaimAs(t, Wanted(c, a, "exclusive"), LeaseIds \ Held(t)) :
         leases' = Restore(t, g) /\ byHand' = (byHand \cap Held(t)) \ {g.id}
  BY DEF TakeHold
<1>2. /\ g.id \in LeaseIds /\ g.lease \in Lease
      /\ g.lease.holder = a /\ g.lease.resource = c /\ g.lease.mode = "exclusive"
  BY ClaimIs DEF Modes
<1>3. /\ leases' \in Tables /\ leases'[g.id] = g.lease
      /\ \A i \in Held(leases') \ {g.id} : i \in Held(t) /\ leases'[i] = t[i]
  BY <1>1, <1>2, RestoreIs
<1>4. ASSUME NEW i \in Held(leases') \ byHand'
      PROVE  /\ leases'[i].mode = "exclusive"
             /\ kc[leases'[i].resource] # None
             /\ kc[leases'[i].resource].assignee = leases'[i].holder
             /\ Working(kc[leases'[i].resource])
             /\ ~kc[leases'[i].resource].archived
  <2>1. CASE i = g.id
    BY <1>2, <1>3, <2>1
  <2>2. CASE i # g.id
    <3>1. i \in Held(t) \ byHand /\ leases'[i] = t[i]
      BY <1>1, <1>3, <2>2
    <3>2. t[i].resource \in Cards
      BY <3>1, LeaseIs
    <3>3. CASE t[i].resource = c
      BY <3>1, <3>3 DEF Holds
    <3>4. CASE t[i].resource # c
      BY <3>1, <3>2, <3>4 DEF Holds
    <3> QED  BY <3>3, <3>4
  <2> QED  BY <2>1, <2>2
<1>5. byHand' \in SUBSET LeaseIds
  BY <1>1
<1> QED  BY <1>3, <1>4, <1>5 DEF Holds

(* What the changes to a card make of its fields. *)
LEMMA PlaceIs ==
    ASSUME NEW k \in Task, NEW lane \in Columns
    PROVE  /\ Place(k, lane) \in Task /\ Place(k, lane).column = lane
           /\ Place(k, lane).assignee = k.assignee /\ Place(k, lane).archived = k.archived
           /\ Edges(Place(k, lane)) = Edges(k)
<1>1. {} \in SUBSET RuleIds
  OBVIOUS
<1> QED  BY <1>1 DEF Place, Task, Edges

(* A move takes the card from nobody but whoever has it. *)
LEMMA MoveToIs ==
    ASSUME NEW k \in Task, NEW lane \in Columns, NEW human
    PROVE  /\ MoveTo(k, human, lane) \in Task
           /\ MoveTo(k, human, lane).assignee \in {None, k.assignee}
           /\ Edges(MoveTo(k, human, lane)) = Edges(k)
<1> DEFINE p == Place(k, lane)
<1>1. p \in Task /\ p.assignee = k.assignee /\ Edges(p) = Edges(k)
  BY PlaceIs
<1> HIDE DEF p
<1>2. MoveTo(k, human, lane) = [p EXCEPT !.assignee =
          IF human /\ lane \in {"backlog", "ready"} THEN None ELSE @]
  BY DEF MoveTo, p
<1> QED  BY <1>1, <1>2 DEF Task, Edges

(* Archiving changes nothing else. *)
LEMMA ArchivedIs ==
    ASSUME NEW k \in Task, NEW b \in BOOLEAN
    PROVE  /\ [k EXCEPT !.archived = b] \in Task
           /\ [k EXCEPT !.archived = b].assignee = k.assignee
           /\ [k EXCEPT !.archived = b].column = k.column
           /\ [k EXCEPT !.archived = b].archived = b
           /\ Edges([k EXCEPT !.archived = b]) = Edges(k)
BY DEF Task, Edges

-----------------------------------------------------------------------------
(* Rules, and what becomes of a card and its leases together.              *)

(* The leases that a change does not end are those of whoever has the card *)
(* after it.                                                               *)
LEMMA EndedHold ==
    ASSUME NEW kc, NEW t \in Tables, NEW hand, Holds(kc, t, hand), NEW c \in Cards,
           NEW new, \A d \in Cards \ {c} : new[d] = kc[d], new[c] # None
    PROVE  /\ Remove(t, HoldsEnded(t, c, new[c])) \in Tables
           /\ Holds(new, Remove(t, HoldsEnded(t, c, new[c])), hand)
<1> DEFINE u == Remove(t, HoldsEnded(t, c, new[c]))
<1>1. u \in Tables /\ \A i \in Held(u) : i \in Held(t) /\ u[i] = t[i]
                                    /\ i \notin HoldsEnded(t, c, new[c])
  BY RemoveIs DEF Held
<1> HIDE DEF u
<1>2. ASSUME NEW i \in Held(u), t[i].resource = c
      PROVE  Working(new[c]) /\ ~new[c].archived /\ t[i].holder = new[c].assignee
  BY <1>1, <1>2 DEF HoldsEnded, HoldersOf
<1>3. Holds(new, u, hand)
  <2> SUFFICES ASSUME NEW i \in Held(u) \ hand
               PROVE  /\ t[i].mode = "exclusive"
                      /\ new[t[i].resource] # None
                      /\ new[t[i].resource].assignee = t[i].holder
                      /\ Working(new[t[i].resource])
                      /\ ~new[t[i].resource].archived
    BY <1>1 DEF Holds
  <2>1. i \in Held(t) \ hand /\ t[i].resource \in Cards
    BY <1>1, LeaseIs
  <2>2. t[i].mode = "exclusive"
    BY <2>1 DEF Holds
  <2>3. CASE t[i].resource = c
    BY <1>2, <2>2, <2>3
  <2>4. CASE t[i].resource # c
    BY <2>1, <2>4 DEF Holds
  <2> QED  BY <2>3, <2>4
<1> QED  BY <1>1, <1>2, <1>3 DEF u

(* What a change of one card makes of the three. *)
LEMMA ChangedIs ==
    ASSUME NEW st \in States, NEW c \in Cards, st.card[c] # None, NEW k \in Task
    PROVE  /\ Changed(st, c, k) \in States
           /\ Changed(st, c, k).card = [st.card EXCEPT ![c] = k]
           /\ Changed(st, c, k).leases = Remove(st.leases, HoldsEnded(st.leases, c, k))
           /\ Changed(st, c, k).start = st.start
           /\ \A hand : Holds(st.card, st.leases, hand) =>
                 Holds(Changed(st, c, k).card, Changed(st, c, k).leases, hand)
           /\ Marked(st.card, st.start) =>
                 Marked(Changed(st, c, k).card, Changed(st, c, k).start)
<1> DEFINE u == Changed(st, c, k)
           new == [st.card EXCEPT ![c] = k]
<1>1. /\ st.card \in [Cards -> Task \cup {None}] /\ st.leases \in Tables
      /\ st.start \in [Cards -> Start \cup {None}]
  BY DEF States
<1>2. new \in [Cards -> Task \cup {None}] /\ new[c] = k /\ \A d \in Cards \ {c} : new[d] = st.card[d]
  BY <1>1
<1>3. k # None
  BY BoardNoneAssumption
<1>4. Remove(st.leases, HoldsEnded(st.leases, c, k)) \in Tables
  BY <1>1, RemoveIs
<1>5. /\ u.card = new /\ u.leases = Remove(st.leases, HoldsEnded(st.leases, c, k))
      /\ u.start = st.start /\ u \in States
  <2> DEFINE t == Remove(st.leases, HoldsEnded(st.leases, c, k))
  <2>1. u = [st EXCEPT !.card[c] = k, !.leases = t]
    BY DEF Changed, States
  <2>2. t \in Tables
    BY <1>4
  <2> HIDE DEF t, u
  <2>3. u.card = new /\ u.leases = t /\ u.start = st.start /\ u \in States
    BY <2>1, <2>2 DEF States
  <2> QED  BY <2>3 DEF t
<1> HIDE DEF new, u
<1>7. ASSUME NEW hand, Holds(st.card, st.leases, hand)
      PROVE  Holds(new, Remove(st.leases, HoldsEnded(st.leases, c, k)), hand)
  BY <1>1, <1>2, <1>3, <1>7, EndedHold
<1>8. Marked(st.card, st.start) => Marked(new, st.start)
  BY <1>2, <1>3 DEF Marked
<1> QED  BY <1>5, <1>7, <1>8 DEF new, u

(* A change that leaves the card to whoever has it is tame. *)
LEMMA ChangedTamed ==
    ASSUME NEW st \in States, NEW c \in Cards, st.card[c] # None, NEW k \in Task,
           k.assignee \in {None, st.card[c].assignee}
    PROVE  /\ Tamed(st, Changed(st, c, k), c)
           /\ Edges(k) = Edges(st.card[c]) => EdgesOf(Changed(st, c, k).card) = EdgesOf(st.card)
<1> DEFINE u == Changed(st, c, k)
<1>1. /\ u \in States /\ u.card = [st.card EXCEPT ![c] = k] /\ u.start = st.start
      /\ \A hand : Holds(st.card, st.leases, hand) => Holds(u.card, u.leases, hand)
      /\ Marked(st.card, st.start) => Marked(u.card, u.start)
  BY ChangedIs
<1> HIDE DEF u
<1>2. u.card[c] = k /\ k # None /\ \A d \in Cards \ {c} : u.card[d] = st.card[d]
  BY <1>1, BoardNoneAssumption DEF States
<1>3. Tamed(st, u, c)
  BY <1>1, <1>2 DEF Tamed
<1>4. Edges(k) = Edges(st.card[c]) => EdgesOf(u.card) = EdgesOf(st.card)
  <2> SUFFICES ASSUME Edges(k) = Edges(st.card[c])
               PROVE  \A d \in Cards : (IF u.card[d] = None THEN {} ELSE Edges(u.card[d]))
                                      = (IF st.card[d] = None THEN {} ELSE Edges(st.card[d]))
    BY DEF EdgesOf
  <2> QED  BY <1>2
<1> QED  BY <1>3, <1>4 DEF u

(* The fields of a rule. *)
LEMMA RuleIs ==
    ASSUME NEW r \in RuleIds
    PROVE  /\ Rules[r].action \in {"comment", "move", "archive", "start"}
           /\ Rules[r].to \in Columns /\ Rules[r].lane \in Columns /\ Rules[r].max \in Nat
<1>1. Rules[r] \in Rule
  BY RulesAssumption DEF RuleIds
<1> QED  BY <1>1 DEF Rule

(* A rule marks one card more than it has. *)
LEMMA OneMore ==
    ASSUME TypeOK, NEW marks \in [Cards -> Start \cup {None}], Bounded(marks), NEW c \in Cards,
           NEW r \in RuleIds, marks[c] = None, StartedBy(marks, r) < Rules[r].max
    PROVE  Bounded([marks EXCEPT ![c] = Begun(r)])
<1> DEFINE new == [marks EXCEPT ![c] = Begun(r)]
<1>1. /\ Begun(r).rule = r /\ Begun(r).stage = "inventory" /\ Begun(r) \in Start
  BY DEF Begun, Start
<1>2. Begun(r) # None
  BY <1>1, BoardNoneAssumption
<1>3. new[c] = Begun(r) /\ \A d \in Cards \ {c} : new[d] = marks[d]
  OBVIOUS
<1> HIDE DEF new
<1>4. ASSUME NEW s \in RuleIds, Rules[s].action = "start"
      PROVE  Cardinality(LiveOf(s)) + Cardinality(Underway(new, s)) <= Rules[s].max
  <2>1. CASE s # r
    <3>1. Underway(new, s) = Underway(marks, s)
      BY <1>1, <1>3, <2>1 DEF Underway
    <3> QED  BY <1>4, <3>1 DEF Bounded
  <2>2. CASE s = r
    <3>1. Underway(new, r) \subseteq StartingOf(marks, r) \cup {c}
      BY <1>3 DEF Underway, StartingOf
    <3>2. StartingOf(marks, r) \in SUBSET Cards /\ LiveOf(r) \in SUBSET Agents
      BY DEF StartingOf, LiveOf
    <3>3. IsFiniteSet(StartingOf(marks, r)) /\ IsFiniteSet(LiveOf(r))
      BY <3>2, FiniteAssumption, FS_Subset
    <3>4. /\ IsFiniteSet(StartingOf(marks, r) \cup {c})
          /\ Cardinality(StartingOf(marks, r) \cup {c}) \in
                {Cardinality(StartingOf(marks, r)), Cardinality(StartingOf(marks, r)) + 1}
      BY <3>3, FS_AddElement
    <3>5. /\ IsFiniteSet(Underway(new, r))
          /\ Cardinality(Underway(new, r)) <= Cardinality(StartingOf(marks, r) \cup {c})
      BY <3>1, <3>4, FS_Subset
    <3>6. /\ Cardinality(LiveOf(r)) \in Nat /\ Cardinality(StartingOf(marks, r)) \in Nat
          /\ Cardinality(Underway(new, r)) \in Nat
      BY <3>3, <3>5, FS_CardinalityType
    <3>7. Cardinality(LiveOf(r)) + Cardinality(StartingOf(marks, r)) < Rules[r].max
      BY DEF StartedBy
    <3>8. Rules[r].max \in Nat
      BY RuleIs
    <3> QED  BY <2>2, <3>4, <3>5, <3>6, <3>7, <3>8
  <2> QED  BY <2>1, <2>2
<1> QED  BY <1>4 DEF Bounded, new

(* A rule leaves a card with whoever has it or takes it away, ends the     *)
(* leases that are nobody's any more, and keeps its bound.                 *)
LEMMA ApplyRuleTamed ==
    ASSUME TypeOK, NEW st \in States, NEW c \in Cards, st.card[c] # None, NEW r \in RuleIds
    PROVE  Tamed(st, ApplyRule(r, c, st), c) /\ EdgesOf(ApplyRule(r, c, st).card) = EdgesOf(st.card)
<1> DEFINE u == ApplyRule(r, c, st)
           k == st.card[c]
<1>1. k \in Task /\ k # None
  BY DEF States
<1>2. st \in States /\ Tamed(st, st, c)
  BY DEF Tamed
<1>3. CASE Rules[r].action = "comment"
  <2> DEFINE n == [k EXCEPT !.fired = @ \cup {r}]
  <2>1. n \in Task /\ n.assignee = k.assignee /\ n.column = k.column /\ n.archived = k.archived
        /\ Edges(n) = Edges(k)
    BY <1>1 DEF Task, Edges
  <2>2. u = [st EXCEPT !.card[c].fired = @ \cup {r}]
    BY <1>3 DEF ApplyRule
  <2>3. u.card = [st.card EXCEPT ![c] = n] /\ u.leases = st.leases /\ u.start = st.start /\ u \in States
    BY <2>1, <2>2 DEF States
  <2> HIDE DEF n, u
  <2>4. u.card[c] = n /\ n # None /\ \A d \in Cards \ {c} : u.card[d] = st.card[d]
    BY <2>1, <2>3, BoardNoneAssumption DEF States
  <2>5. ASSUME NEW hand, Holds(st.card, st.leases, hand) PROVE Holds(u.card, u.leases, hand)
    <3> SUFFICES ASSUME NEW i \in Held(st.leases) \ hand
                 PROVE  /\ st.leases[i].mode = "exclusive"
                        /\ u.card[st.leases[i].resource] # None
                        /\ u.card[st.leases[i].resource].assignee = st.leases[i].holder
                        /\ Working(u.card[st.leases[i].resource])
                        /\ ~u.card[st.leases[i].resource].archived
      BY <2>3 DEF Holds
    <3>1. st.leases[i].resource \in Cards
      BY LeaseIs DEF States
    <3>2. /\ st.leases[i].mode = "exclusive"
          /\ st.card[st.leases[i].resource] # None
          /\ st.card[st.leases[i].resource].assignee = st.leases[i].holder
          /\ Working(st.card[st.leases[i].resource])
          /\ ~st.card[st.leases[i].resource].archived
      BY <2>5 DEF Holds
    <3> QED  BY <2>1, <2>4, <3>1, <3>2 DEF Working
  <2>6. Marked(st.card, st.start) => Marked(u.card, u.start)
    BY <2>3, <2>4 DEF Marked
  <2>7. EdgesOf(u.card) = EdgesOf(st.card)
    <3> SUFFICES \A d \in Cards : (IF u.card[d] = None THEN {} ELSE Edges(u.card[d]))
                                = (IF st.card[d] = None THEN {} ELSE Edges(st.card[d]))
      BY DEF EdgesOf
    <3> QED  BY <2>1, <2>4
  <2> QED  BY <2>1, <2>3, <2>4, <2>5, <2>6, <2>7 DEF Tamed, u
<1>4. CASE Rules[r].action = "move"
  <2>1. u = IF Rules[r].to \in board.lanes /\ Rules[r].to # k.column
            THEN Changed(st, c, MoveTo(k, TRUE, Rules[r].to)) ELSE st
    BY <1>4 DEF ApplyRule
  <2> DEFINE n == MoveTo(k, TRUE, Rules[r].to)
  <2>2. n \in Task /\ n.assignee \in {None, k.assignee} /\ Edges(n) = Edges(k)
    BY <1>1, RuleIs, MoveToIs
  <2> HIDE DEF n
  <2>3. Tamed(st, Changed(st, c, n), c) /\ EdgesOf(Changed(st, c, n).card) = EdgesOf(st.card)
    BY <2>2, ChangedTamed
  <2> QED  BY <1>2, <2>1, <2>3 DEF n
<1>5. CASE Rules[r].action = "archive"
  <2> DEFINE n == [k EXCEPT !.archived = TRUE]
  <2>1. u = Changed(st, c, n)
    BY <1>5 DEF ApplyRule
  <2>2. n \in Task /\ n.assignee \in {None, k.assignee} /\ Edges(n) = Edges(k)
    BY <1>1, ArchivedIs
  <2> HIDE DEF n
  <2>3. Tamed(st, Changed(st, c, n), c) /\ EdgesOf(Changed(st, c, n).card) = EdgesOf(st.card)
    BY <2>2, ChangedTamed
  <2> QED  BY <2>1, <2>3
<1>6. CASE Rules[r].action = "start"
  <2>1. u = st \/ (/\ st.start[c] = None /\ StartedBy(st.start, r) < Rules[r].max
                   /\ u = [st EXCEPT !.start[c] = Begun(r)])
    BY <1>6 DEF ApplyRule
  <2>2. CASE u = st
    BY <1>2, <2>2
  <2>3. CASE /\ st.start[c] = None /\ StartedBy(st.start, r) < Rules[r].max
             /\ u = [st EXCEPT !.start[c] = Begun(r)]
    <3>1. Begun(r) \in Start /\ Begun(r).stage # "up"
      BY DEF Begun, Start
    <3> DEFINE new == [st.start EXCEPT ![c] = Begun(r)]
    <3>2. st.start \in [Cards -> Start \cup {None}]
      BY DEF States
    <3>3. /\ new \in [Cards -> Start \cup {None}] /\ new[c] = Begun(r)
          /\ \A d \in Cards \ {c} : new[d] = st.start[d]
      BY <3>1, <3>2
    <3>4. u.start = new /\ u.card = st.card /\ u.leases = st.leases /\ u \in States
      BY <2>3, <3>3 DEF States
    <3>5. Bounded(st.start) => Bounded(new)
      BY <2>3, <3>2, OneMore
    <3> HIDE DEF new, u
    <3>6. Marked(st.card, st.start) => Marked(u.card, u.start)
      BY <1>1, <3>1, <3>3, <3>4 DEF Marked
    <3>7. Tamed(st, u, c)
      BY <1>1, <3>4, <3>5, <3>6 DEF Tamed
    <3> QED  BY <3>4, <3>7 DEF u
  <2> QED  BY <2>1, <2>2, <2>3
<1> QED  BY <1>3, <1>4, <1>5, <1>6, RuleIs

(* One change after another is a change. *)
LEMMA TamedTwice ==
    ASSUME NEW st, NEW u, NEW w, NEW c, Tamed(st, u, c), Tamed(u, w, c)
    PROVE  Tamed(st, w, c)
BY DEF Tamed

(* Whether the n-th rule acts on what the others left of a card. *)
Acts(n, c, lane, u) ==
    /\ Rules[n].trigger = "enter"
    /\ Rules[n].lane = lane
    /\ u.card[c].column = lane
    /\ ~u.card[c].archived

(* The recursion of Entered. *)
Enters(f, c, st) ==
    f = [n \in 0 .. Len(Rules) |->
           IF n = 0 THEN st
           ELSE IF Acts(n, c, st.card[c].column, f[n - 1]) THEN ApplyRule(n, c, f[n - 1])
           ELSE f[n - 1]]

(* The rules of a lane act one after the other, and the recursion ends. *)
LEMMA EntersExists ==
    ASSUME TypeOK, NEW c \in Cards, NEW st \in States, st.card[c] # None
    PROVE  \E f : Enters(f, c, st)
<1> DEFINE S == {u \in States : u.card[c] # None}
           lane == st.card[c].column
           Step(n, u) == IF n \in RuleIds /\ Acts(n, c, lane, u) THEN ApplyRule(n, c, u) ELSE u
           F == [p \in Nat \X S |-> Step(p[1], p[2])]
<1>1. \A n \in Nat, u \in S : Step(n, u) \in S
  <2> SUFFICES ASSUME NEW n \in RuleIds, NEW u \in S PROVE ApplyRule(n, c, u) \in S
    OBVIOUS
  <2>1. Tamed(u, ApplyRule(n, c, u), c)
    BY ApplyRuleTamed
  <2> QED  BY <2>1 DEF Tamed
<1>2. F \in [Nat \X S -> S] /\ \A n \in Nat, u \in S : F[<<n, u>>] = Step(n, u)
  <2> HIDE DEF S, Step
  <2> QED  BY <1>1
<1>3. st \in S
  OBVIOUS
<1>4. Len(Rules) \in Nat
  BY RulesAssumption
<1> HIDE DEF S, F, Step
<1>5. PICK f : Iterates(f, st, F, Len(Rules))
  BY <1>2, <1>3, <1>4, IteratesExist
<1>6. \A i \in 0 .. Len(Rules) : f[i] \in S
  BY <1>2, <1>3, <1>4, <1>5, IteratesIn
<1>7. ASSUME NEW n \in 0 .. Len(Rules)
      PROVE  f[n] = IF n = 0 THEN st
                    ELSE IF Acts(n, c, lane, f[n - 1]) THEN ApplyRule(n, c, f[n - 1])
                    ELSE f[n - 1]
  <2>1. CASE n = 0
    BY <1>5, <2>1 DEF Iterates
  <2>2. CASE n # 0
    <3>1. n \in 1 .. Len(Rules) /\ n - 1 \in 0 .. Len(Rules) /\ n \in Nat /\ n \in RuleIds
      BY <1>4, <2>2 DEF RuleIds
    <3>2. f[n] = F[<<n, f[n - 1]>>]
      BY <1>5, <3>1 DEF Iterates
    <3>3. f[n] = Step(n, f[n - 1])
      BY <1>2, <1>6, <3>1, <3>2
    <3> QED  BY <2>2, <3>1, <3>3 DEF Step
  <2> QED  BY <2>1, <2>2
<1>8. f = [i \in 0 .. Len(Rules) |-> f[i]]
  BY <1>5 DEF Iterates
<1>9. Enters(f, c, st)
  BY <1>7, <1>8 DEF Enters
<1> QED  BY <1>9

(* However many rules act on a card that comes into a lane. *)
LEMMA EnteredTamed ==
    ASSUME TypeOK, NEW c \in Cards, NEW st \in States, st.card[c] # None
    PROVE  Tamed(st, Entered(c, st), c) /\ EdgesOf(Entered(c, st).card) = EdgesOf(st.card)
<1> DEFINE f == CHOOSE f : Enters(f, c, st)
<1>1. Enters(f, c, st)
  <2>1. \E g : Enters(g, c, st)
    BY EntersExists
  <2> QED  BY <2>1
<1>2. Entered(c, st) = f[Len(Rules)]
  BY DEF Entered, Enters, Acts
<1> HIDE DEF f
<1>3. Len(Rules) \in Nat
  BY RulesAssumption
<1> DEFINE P(u) == Tamed(st, u, c) /\ EdgesOf(u.card) = EdgesOf(st.card)
           T == {n \in Nat : n <= Len(Rules) => P(f[n])}
<1>4. 0 \in T
  <2>1. f[0] = st
    BY <1>1, <1>3 DEF Enters
  <2>2. Tamed(st, st, c)
    BY DEF Tamed
  <2> QED  BY <2>1, <2>2
<1>5. ASSUME NEW n \in T PROVE n + 1 \in T
  <2> SUFFICES ASSUME n + 1 <= Len(Rules) PROVE P(f[n + 1])
    OBVIOUS
  <2>1. n \in Nat /\ Tamed(st, f[n], c) /\ EdgesOf(f[n].card) = EdgesOf(st.card)
    BY <1>3
  <2>2. /\ n + 1 \in RuleIds /\ n + 1 \in 0 .. Len(Rules) /\ n + 1 # 0 /\ (n + 1) - 1 = n
    BY <1>3, <2>1 DEF RuleIds
  <2>3. f[n + 1] = ApplyRule(n + 1, c, f[n]) \/ f[n + 1] = f[n]
    BY <1>1, <2>2 DEF Enters
  <2>4. f[n] \in States /\ f[n].card[c] # None
    BY <2>1 DEF Tamed
  <2> DEFINE w == ApplyRule(n + 1, c, f[n])
  <2>5. Tamed(f[n], w, c) /\ EdgesOf(w.card) = EdgesOf(f[n].card)
    BY <2>2, <2>4, ApplyRuleTamed
  <2> HIDE DEF w
  <2>6. P(w)
    BY <2>1, <2>5, TamedTwice
  <2> QED  BY <2>1, <2>3, <2>6 DEF w
<1> HIDE DEF T, P
<1>6. T = Nat
  <2>1. T \in SUBSET Nat
    BY DEF T
  <2> QED  BY <1>4, <1>5, <2>1, Induction
<1> QED  BY <1>2, <1>3, <1>6 DEF T, P

-----------------------------------------------------------------------------
(* The steps.                                                              *)

(* What a change costs. *)
LEMMA SpendIs ==
    ASSUME TypeOK, NEW kind \in Changes, Spend(kind)
    PROVE  left' \in [Changes -> Nat] /\ left'[kind] < left[kind]
<1>1. left \in [Changes -> Nat] /\ "any" \in Changes
  BY DEF TypeOK, Changes
<1> QED  BY <1>1 DEF Spend

(* A card that has somebody after a step had him before, was given to him  *)
(* by the person, was nobody's and not ended, or passed as NoSteal says.   *)
Passes(c) ==
    \/ card'[c].assignee \in {None, card[c].assignee}
    \/ left'["edit"] < left["edit"]
    \/ /\ card[c].assignee = None
       /\ Terminal(card[c]) => card[c].column \notin board.lanes
    \/ /\ start' = start
       /\ \/ Waiting(card[c]) /\ ~Live(card[c].assignee)
          \/ /\ Working(card[c])
             /\ TaskHold(Expire(leases), c, card[c].assignee) = {}

(* Both at every step. *)
Sound == IInv' /\ \A c \in Filed : Passes(c)

(* The edges of the cards after a step are the edges there are then. *)
LEMMA AcyclicNext ==
    ASSUME Acyclic(EdgesOf(card'))
    PROVE  Acyclic(EdgesNow)'
<1>1. EdgesNow' = EdgesOf(card')
  BY DEF EdgesNow, EdgesOf, Edges
<1> QED  BY <1>1 DEF Acyclic, Reached

(* No change of an agent disturbs what is counted of agents. *)
LEMMA Settles ==
    ASSUME IInv, TypeOK', UNCHANGED agents, Holds(card', leases', byHand'),
           Bounded(start'), Marked(card', start'), Acyclic(EdgesOf(card'))
    PROVE  IInv'
<1>1. Holds(card, leases, byHand)' /\ Marked(card, start)'
  BY DEF Holds, Marked, Held, Working
<1>2. status' = status /\ label' = label
  BY DEF agents
<1>3. Bounded(start)' /\ Unlabelled'
  BY <1>2 DEF Bounded, Underway, LiveOf, Unlabelled, IInv
<1> QED  BY <1>1, <1>3, AcyclicNext DEF IInv

(* What becomes of the state. *)
LEMMA BecomeStep ==
    ASSUME IInv, NEW u \in States, Holds(u.card, u.leases, byHand), Bounded(u.start),
           Marked(u.card, u.start), Acyclic(EdgesOf(u.card)), Become(u),
           UNCHANGED <<board, agents>>, left' \in [Changes -> Nat]
    PROVE  IInv'
<1>1. card' = u.card /\ leases' = u.leases /\ byHand' = byHand \cap Held(u.leases) /\ start' = u.start
  BY DEF Become, Leave
<1>2. Holds(u.card, u.leases, byHand \cap Held(u.leases))
  BY DEF Holds
<1>3. u.card \in [Cards -> Task \cup {None}] /\ u.leases \in Tables /\ u.start \in [Cards -> Start \cup {None}]
  BY DEF States
<1>4. TypeOK'
  BY <1>1, <1>3 DEF TypeOK, IInv, agents
<1> QED  BY <1>1, <1>2, <1>4, Settles

(* A step that changes one card, gives it to nobody and takes no lease. *)
LEMMA TamedStep ==
    ASSUME IInv, NEW t \in Tables, \A i \in Held(t) : i \in Held(leases) /\ t[i] = leases[i],
           NEW c \in Cards, NEW u, Tamed(Now(t), u, c), Acyclic(EdgesOf(u.card)), Become(u),
           UNCHANGED <<board, agents>>, left' \in [Changes -> Nat]
    PROVE  Sound
<1> DEFINE st == Now(t)
<1>1. st.card = card /\ st.leases = t /\ st.start = start
  BY DEF Now
<1> HIDE DEF st
<1>2. card' = u.card
  BY DEF Become
<1>3. Holds(card, t, byHand)
  BY FewerHold DEF IInv
<1>4. /\ u \in States /\ Holds(u.card, u.leases, byHand) /\ Bounded(u.start) /\ Marked(u.card, u.start)
      /\ \A d \in Cards \ {c} : u.card[d] = card[d]
      /\ u.card[c].assignee \in {None, card[c].assignee}
  BY <1>1, <1>3 DEF Tamed, IInv, st
<1>5. IInv'
  BY <1>4, BecomeStep
<1>6. \A d \in Filed : Passes(d)
  BY <1>2, <1>4 DEF Passes, Filed
<1> QED  BY <1>5, <1>6 DEF Sound

(* What a request that gives a card to an agent comes to, k being what it  *)
(* makes of the card and t the leases it finds.                            *)
Taking(t, c, a, k) ==
    /\ t \in Tables
    /\ \A i \in Held(t) : i \in Held(leases) /\ t[i] = leases[i]
    /\ TakeHold(t, c, a)
    /\ card' = [card EXCEPT ![c] = k]
    /\ k \in Task /\ k.assignee = a /\ Working(k) /\ ~k.archived
    /\ card[c] # None /\ Edges(k) = Edges(card[c])
    /\ \A i \in Held(t) \ byHand : t[i].resource = c => t[i].holder = a
    /\ start' \in [Cards -> Start \cup {None}] /\ Bounded(start')
    /\ \A d \in Cards : start'[d] # None => start'[d] = start[d]
    /\ UNCHANGED <<board, agents>>
    /\ left' \in [Changes -> Nat]
    /\ Passes(c)

(* Such a request keeps the invariant. *)
LEMMA TakingStep ==
    ASSUME IInv, NEW t, NEW c \in Cards, NEW a \in Agents, NEW k, Taking(t, c, a, k)
    PROVE  Sound
<1>a. /\ t \in Tables /\ (\A i \in Held(t) : i \in Held(leases) /\ t[i] = leases[i])
      /\ TakeHold(t, c, a) /\ card' = [card EXCEPT ![c] = k]
      /\ k \in Task /\ k.assignee = a /\ Working(k) /\ ~k.archived
      /\ card[c] # None /\ Edges(k) = Edges(card[c])
      /\ \A i \in Held(t) \ byHand : t[i].resource = c => t[i].holder = a
  BY DEF Taking
<1>b. /\ start' \in [Cards -> Start \cup {None}] /\ Bounded(start')
      /\ (\A d \in Cards : start'[d] # None => start'[d] = start[d])
      /\ UNCHANGED <<board, agents>> /\ left' \in [Changes -> Nat] /\ Passes(c)
  BY DEF Taking
<1>1. /\ card \in [Cards -> Task \cup {None}] /\ byHand \in SUBSET LeaseIds
  BY DEF IInv, TypeOK
<1>2. /\ card' \in [Cards -> Task \cup {None}] /\ card'[c] = k
      /\ \A d \in Cards \ {c} : card'[d] = card[d]
  BY <1>a, <1>1
<1>3. k # None
  BY <1>a, BoardNoneAssumption
<1>4. Holds(card, t, byHand)
  BY <1>a, FewerHold DEF IInv
<1>5. leases' \in Tables /\ byHand' \in SUBSET LeaseIds /\ Holds(card', leases', byHand')
  <2>1. PICK new : new = card'
    OBVIOUS
  <2>2. /\ new[c] # None /\ new[c].assignee = a /\ Working(new[c]) /\ ~new[c].archived
        /\ \A d \in Cards \ {c} : new[d] = card[d]
    BY <1>a, <1>2, <1>3, <2>1
  <2>3. leases' \in Tables /\ byHand' \in SUBSET LeaseIds /\ Holds(new, leases', byHand')
    BY <1>a, <1>1, <1>4, <2>2, TakeHoldIs
  <2> QED  BY <2>1, <2>3
<1>6. EdgesOf(card') = EdgesNow
  <2> SUFFICES \A d \in Cards : (IF card'[d] = None THEN {} ELSE Edges(card'[d]))
                                = (IF card[d] = None THEN {} ELSE Edges(card[d]))
    BY DEF EdgesOf, EdgesNow
  <2> QED  BY <1>a, <1>2, <1>3
<1>7. Marked(card', start')
  BY <1>2, <1>3, <1>b DEF Marked, IInv
<1>8. TypeOK'
  BY <1>2, <1>5, <1>b DEF TypeOK, IInv, agents
<1>9. IInv'
  <2>1. Acyclic(EdgesOf(card'))
    BY <1>6 DEF IInv
  <2> QED  BY <1>5, <1>7, <1>8, <1>b, <2>1, Settles
<1>10. \A d \in Filed : Passes(d)
  BY <1>2, <1>b DEF Passes, Filed
<1> QED  BY <1>9, <1>10 DEF Sound

(* What a request starts from. *)
LEMMA NowIs ==
    ASSUME IInv, NEW t \in Tables
    PROVE  Now(t) \in States /\ Now(t).card = card /\ Now(t).leases = t /\ Now(t).start = start
BY DEF Now, States, IInv, TypeOK

(* The leases a request leaves after it expired them. *)
LEMMA ExpiredIs ==
    ASSUME IInv
    PROVE  /\ leases \in Tables /\ Expire(leases) \in Tables
           /\ \A i \in Held(Expire(leases)) : i \in Held(leases) /\ Expire(leases)[i] = leases[i]
BY ExpireIs DEF IInv, TypeOK

(* A card that was filed is a task. *)
LEMMA FiledIs ==
    ASSUME IInv, NEW c \in Filed
    PROVE  c \in Cards /\ card[c] \in Task /\ card[c] # None
BY DEF IInv, TypeOK, Filed

(* A rule of the sweep. *)
LEMMA SweepRuleStep ==
    ASSUME IInv, NEW c \in Cards, NEW r \in RuleIds, SweepRule(c, r)
    PROVE  Sound
<1> DEFINE st == Now(leases)
           u == ApplyRule(r, c, st)
<1>1. c \in Filed /\ Become(u) /\ UNCHANGED <<board, agents, left>>
  BY DEF SweepRule
<1>2. leases \in Tables /\ TypeOK
  BY DEF IInv, TypeOK
<1>3. st \in States /\ st.card = card
  BY <1>2, NowIs
<1>4. st.card[c] # None
  BY <1>1, <1>3, FiledIs
<1> HIDE DEF st
<1>5. Tamed(st, u, c) /\ EdgesOf(u.card) = EdgesOf(st.card)
  BY <1>2, <1>3, <1>4, ApplyRuleTamed
<1> HIDE DEF u
<1>6. Acyclic(EdgesOf(u.card))
  BY <1>3, <1>5 DEF IInv, EdgesNow, EdgesOf
<1>7. left' \in [Changes -> Nat]
  BY <1>1, <1>2 DEF TypeOK
<1> QED  BY <1>1, <1>2, <1>5, <1>6, <1>7, TamedStep DEF st

(* A change of one card that leaves it to whoever has it. *)
LEMMA ChangedStep ==
    ASSUME IInv, NEW c \in Filed, NEW k \in Task,
           k.assignee \in {None, card[c].assignee}, Acyclic([EdgesNow EXCEPT ![c] = Edges(k)]),
           Become(Changed(Now(Expire(leases)), c, k)),
           UNCHANGED <<board, agents>>, left' \in [Changes -> Nat]
    PROVE  Sound
<1> DEFINE t == Expire(leases)
           st == Now(t)
           u == Changed(st, c, k)
<1>1. t \in Tables /\ \A i \in Held(t) : i \in Held(leases) /\ t[i] = leases[i]
  BY ExpiredIs
<1>2. c \in Cards /\ card[c] # None
  BY FiledIs
<1>3. Become(u)
  OBVIOUS
<1> HIDE DEF t
<1>4. st \in States /\ st.card = card
  BY <1>1, NowIs
<1> HIDE DEF st
<1>5. Tamed(st, u, c)
  BY <1>2, <1>4, ChangedTamed
<1>6. u.card = [card EXCEPT ![c] = k]
  BY <1>2, <1>4, ChangedIs
<1> HIDE DEF u
<1>7. EdgesOf(u.card) = [EdgesNow EXCEPT ![c] = Edges(k)]
  <2>1. u.card[c] = k /\ \A d \in Cards \ {c} : u.card[d] = card[d]
    BY <1>2, <1>6 DEF IInv, TypeOK
  <2>2. k # None
    BY BoardNoneAssumption
  <2>3. \A d \in Cards : (IF u.card[d] = None THEN {} ELSE Edges(u.card[d]))
                       = IF d = c THEN Edges(k) ELSE IF card[d] = None THEN {} ELSE Edges(card[d])
    BY <2>1, <2>2
  <2> QED  BY <2>3 DEF EdgesOf, EdgesNow
<1>8. Acyclic(EdgesOf(u.card))
  BY <1>7
<1> QED  BY <1>1, <1>2, <1>3, <1>5, <1>8, TamedStep DEF st

(* The edges of a card that stay its edges. *)
LEMMA SameEdges ==
    ASSUME IInv, NEW c \in Filed, NEW k, Edges(k) = Edges(card[c])
    PROVE  Acyclic([EdgesNow EXCEPT ![c] = Edges(k)])
<1>1. c \in Cards /\ card[c] # None
  BY FiledIs
<1>2. EdgesNow[c] = Edges(k) /\ EdgesNow = [d \in Cards |-> EdgesNow[d]]
  BY <1>1 DEF EdgesNow
<1>3. [EdgesNow EXCEPT ![c] = Edges(k)] = EdgesNow
  BY <1>2
<1> QED  BY <1>3 DEF IInv

(* A move within a lane. *)
LEMMA TaskRerankStep ==
    ASSUME IInv, NEW c \in Cards, NEW by, TaskRerank(by, c)
    PROVE  Sound
<1>1. /\ c \in Filed /\ Spend("move") /\ Become(Changed(Now(Expire(leases)), c, card[c]))
      /\ UNCHANGED <<board, agents>>
  BY DEF TaskRerank
<1>2. left' \in [Changes -> Nat]
  BY <1>1, SpendIs DEF IInv, Changes
<1>3. card[c] \in Task
  BY <1>1, FiledIs
<1> QED  BY <1>1, <1>2, <1>3, SameEdges, ChangedStep

(* A card is archived. *)
LEMMA TaskArchiveStep ==
    ASSUME IInv, NEW c \in Cards, NEW by, TaskArchive(by, c)
    PROVE  Sound
<1> DEFINE k == [card[c] EXCEPT !.archived = TRUE]
<1>1. /\ c \in Filed /\ Spend("archive") /\ Become(Changed(Now(Expire(leases)), c, k))
      /\ UNCHANGED <<board, agents>>
  BY DEF TaskArchive
<1>2. left' \in [Changes -> Nat]
  BY <1>1, SpendIs DEF IInv, Changes
<1>3. k \in Task /\ k.assignee = card[c].assignee /\ Edges(k) = Edges(card[c])
  BY <1>1, FiledIs, ArchivedIs
<1> HIDE DEF k
<1> QED  BY <1>1, <1>2, <1>3, SameEdges, ChangedStep

(* A move to another lane, and the rules that act there. *)
LEMMA TaskMoveStep ==
    ASSUME IInv, NEW c \in Cards, NEW by, NEW lane \in Columns, TaskMove(by, c, lane)
    PROVE  Sound
<1> DEFINE t == Expire(leases)
           st == Now(t)
           k == MoveTo(card[c], Human(by), lane)
           w == Changed(st, c, k)
           u == Entered(c, w)
<1>1. c \in Filed /\ Spend("move") /\ Become(u) /\ UNCHANGED <<board, agents>>
  BY DEF TaskMove
<1>2. left' \in [Changes -> Nat]
  BY <1>1, SpendIs DEF IInv, Changes
<1>3. t \in Tables /\ \A i \in Held(t) : i \in Held(leases) /\ t[i] = leases[i]
  BY ExpiredIs
<1>4. card[c] \in Task /\ card[c] # None
  BY <1>1, FiledIs
<1> HIDE DEF t
<1>5. st \in States /\ st.card = card
  BY <1>3, NowIs
<1> HIDE DEF st
<1>6. k \in Task /\ k.assignee \in {None, card[c].assignee} /\ Edges(k) = Edges(card[c])
  BY <1>4, MoveToIs
<1> HIDE DEF k
<1>7. Tamed(st, w, c) /\ EdgesOf(w.card) = EdgesOf(st.card)
  BY <1>4, <1>5, <1>6, ChangedTamed
<1>8. w \in States /\ w.card[c] # None
  BY <1>7 DEF Tamed
<1> HIDE DEF w
<1>9. Tamed(w, u, c) /\ EdgesOf(u.card) = EdgesOf(w.card)
  BY <1>8, EnteredTamed DEF IInv
<1> HIDE DEF u
<1>10. Tamed(st, u, c)
  BY <1>7, <1>9, TamedTwice
<1>11. Acyclic(EdgesOf(u.card))
  BY <1>5, <1>7, <1>9 DEF IInv, EdgesNow, EdgesOf
<1> QED  BY <1>1, <1>2, <1>3, <1>10, <1>11, TamedStep DEF st

(* The edges of cards are edges between cards. *)
LEMMA EdgesIn ==
    ASSUME NEW kc \in [Cards -> Task \cup {None}]
    PROVE  EdgesOf(kc) \in Nets
<1>1. ASSUME NEW d \in Cards PROVE (IF kc[d] = None THEN {} ELSE Edges(kc[d])) \in SUBSET Cards
  <2>1. CASE kc[d] = None
    BY <2>1
  <2>2. CASE kc[d] # None
    <3>1. kc[d] \in Task
      BY <2>2
    <3>2. kc[d].parent \in Cards \cup {None} /\ kc[d].blocked_by \in SUBSET Cards
      BY <3>1 DEF Task
    <3> QED  BY <2>2, <3>2 DEF Edges
  <2> QED  BY <2>1, <2>2
<1> QED  BY <1>1 DEF EdgesOf, Nets

(* What is asked of the edges a request names. *)
LEMMA AllEdgesIn ==
    ASSUME NEW known \in SUBSET Cards, NEW e \in EdgeSets(known)
    PROVE  /\ e.parent \in Cards \cup {None} /\ e.blocked_by \in SUBSET Cards
           /\ AllEdges(e) \in SUBSET Cards
<1>1. e.parent \in known \cup {None} /\ e.blocked_by \in SUBSET known
  BY DEF EdgeSets
<1> QED  BY <1>1 DEF AllEdges

(* An edit of what a card waits on. *)
LEMMA TaskEditStep ==
    ASSUME IInv, NEW c \in Cards, NEW by, NEW edges \in EdgeSets(Filed), NEW outside \in BOOLEAN,
           TaskEdit(by, c, edges, outside)
    PROVE  Sound
<1> DEFINE k == [card[c] EXCEPT !.parent = edges.parent, !.outside = outside,
                                !.blocked_by = edges.blocked_by]
<1>1. /\ c \in Filed /\ Spend("edit") /\ Become(Changed(Now(Expire(leases)), c, k))
      /\ ~ClosesCycle(EdgesNow, c, AllEdges(edges)) /\ UNCHANGED <<board, agents>>
  BY DEF TaskEdit
<1>2. left' \in [Changes -> Nat]
  BY <1>1, SpendIs DEF IInv, Changes
<1>3. /\ edges.parent \in Cards \cup {None} /\ edges.blocked_by \in SUBSET Cards
      /\ AllEdges(edges) \in SUBSET Cards
  BY AllEdgesIn DEF Filed
<1>4. card[c] \in Task
  BY <1>1, FiledIs
<1>5. /\ k \in Task /\ k.assignee = card[c].assignee
      /\ k.parent = edges.parent /\ k.blocked_by = edges.blocked_by
  BY <1>3, <1>4 DEF Task
<1> HIDE DEF k
<1>6. Edges(k) = AllEdges(edges)
  BY <1>5 DEF Edges, AllEdges
<1>7. EdgesNow \in Nets
  <2>1. card \in [Cards -> Task \cup {None}] /\ EdgesNow = EdgesOf(card)
    BY DEF IInv, TypeOK, EdgesNow, EdgesOf
  <2> QED  BY <2>1, EdgesIn
<1>8. Acyclic([EdgesNow EXCEPT ![c] = Edges(k)])
  BY <1>1, <1>3, <1>6, <1>7, NoNewRing DEF IInv
<1> QED  BY <1>1, <1>2, <1>5, <1>8, ChangedStep

(* The cards of a batch. *)
LEMMA BatchIs ==
    ASSUME NEW batch \in Batches
    PROVE  /\ batch[1] \in Cards \ Filed /\ batch[Len(batch)] \in Cards \ Filed
           /\ {batch[n] : n \in DOMAIN batch} = {batch[1], batch[Len(batch)]}
<1>1. CASE batch \in {<<d>> : d \in Unfiled}
  <2>1. PICK d \in Unfiled : batch = <<d>>
    BY <1>1
  <2>2. Len(batch) = 1 /\ batch[1] = d /\ DOMAIN batch = {1}
    BY <2>1
  <2> QED  BY <2>2 DEF Unfiled
<1>2. CASE batch \in {p \in Unfiled \X Unfiled : p[1] # p[2]}
  <2>1. PICK d \in Unfiled, e \in Unfiled : batch = <<d, e>>
    BY <1>2
  <2>2. Len(batch) = 2 /\ batch[1] = d /\ batch[2] = e /\ DOMAIN batch = {1, 2}
    BY <2>1
  <2> QED  BY <2>2 DEF Unfiled
<1> QED  BY <1>1, <1>2 DEF Batches

(* A card as it is filed. *)
LEMMA NewCardIs ==
    ASSUME NEW lane \in Columns, NEW e \in EdgeSets(Cards)
    PROVE  /\ NewCard(lane, e) \in Task /\ NewCard(lane, e) # None
           /\ Edges(NewCard(lane, e)) = AllEdges(e) /\ AllEdges(e) \in SUBSET Cards
<1>1. /\ e.parent \in Cards \cup {None} /\ e.blocked_by \in SUBSET Cards
      /\ AllEdges(e) \in SUBSET Cards
  BY AllEdgesIn
<1>2. {} \in SUBSET RuleIds
  OBVIOUS
<1>3. NewCard(lane, e) \in Task
  BY <1>1, <1>2 DEF NewCard, Task
<1>4. Edges(NewCard(lane, e)) = AllEdges(e)
  BY DEF NewCard, Edges, AllEdges
<1> QED  BY <1>1, <1>3, <1>4, BoardNoneAssumption

(* A filing, and the rules that act on what was filed. *)
LEMMA TaskFileStep ==
    ASSUME IInv, NEW batch \in Batches,
           NEW lanes \in [{batch[n] : n \in DOMAIN batch} -> Filing],
           NEW edges \in [{batch[n] : n \in DOMAIN batch} -> EdgeSets(Cards)],
           TaskFile(batch, lanes, edges)
    PROVE  Sound
<1> DEFINE new   == {batch[n] : n \in DOMAIN batch}
           first == batch[1]
           last  == batch[Len(batch)]
           A(c)  == AllEdges(edges[c])
           later == [EdgesNow EXCEPT ![first] = A(first)]
           filed == [c \in Cards |-> IF c \in new THEN NewCard(lanes[c], edges[c]) ELSE card[c]]
           st    == [Now(leases) EXCEPT !.card = filed]
           u     == Entered(first, st)
           w     == Entered(last, u)
<1>1. /\ Spend("file") /\ UNCHANGED <<board, agents>>
      /\ ~ClosesCycle(EdgesNow, first, A(first))
      /\ last # first => ~ClosesCycle(later, last, A(last))
      /\ Become(IF last = first THEN u ELSE w)
  BY DEF TaskFile
<1>2. first \in Cards \ Filed /\ last \in Cards \ Filed /\ new = {first, last}
  BY BatchIs
<1>3. lanes \in [new -> Filing] /\ edges \in [new -> EdgeSets(Cards)]
  OBVIOUS
<1> HIDE DEF new, first, last
<1>4. left' \in [Changes -> Nat]
  BY <1>1, SpendIs DEF IInv, Changes
<1>5. /\ TypeOK /\ card \in [Cards -> Task \cup {None}] /\ leases \in Tables
      /\ Holds(card, leases, byHand) /\ Marked(card, start) /\ Bounded(start) /\ Acyclic(EdgesNow)
  BY DEF IInv, TypeOK
<1>6. /\ \A c \in new : NewCard(lanes[c], edges[c]) \in Task /\ NewCard(lanes[c], edges[c]) # None
      /\ \A c \in new : Edges(NewCard(lanes[c], edges[c])) = A(c) /\ A(c) \in SUBSET Cards
  <2> SUFFICES ASSUME NEW c \in new
               PROVE  /\ NewCard(lanes[c], edges[c]) \in Task /\ NewCard(lanes[c], edges[c]) # None
                      /\ Edges(NewCard(lanes[c], edges[c])) = A(c) /\ A(c) \in SUBSET Cards
    OBVIOUS
  <2>1. lanes[c] \in Columns /\ edges[c] \in EdgeSets(Cards)
    BY <1>3, FilingAssumption
  <2> QED  BY <2>1, NewCardIs
<1>7. /\ filed \in [Cards -> Task \cup {None}]
      /\ \A c \in new : filed[c] = NewCard(lanes[c], edges[c])
      /\ \A c \in Cards \ new : filed[c] = card[c]
      /\ \A c \in new : filed[c] # None /\ card[c] = None
  BY <1>2, <1>5, <1>6 DEF Filed
<1>8. Holds(filed, leases, byHand)
  <2> SUFFICES ASSUME NEW i \in Held(leases) \ byHand
               PROVE  filed[leases[i].resource] = card[leases[i].resource]
    BY <1>5 DEF Holds
  <2>1. leases[i].resource \in Cards /\ card[leases[i].resource] # None
    BY <1>5, LeaseIs DEF Holds
  <2> HIDE DEF filed
  <2> QED  BY <1>7, <2>1
<1>9. Marked(filed, start)
  <2> HIDE DEF filed
  <2> QED  BY <1>2, <1>5, <1>7 DEF Marked
<1>10. Acyclic(EdgesOf(filed))
  <2>1. EdgesNow \in Nets
    <3>1. EdgesNow = EdgesOf(card)
      BY DEF EdgesNow, EdgesOf
    <3> QED  BY <1>5, <3>1, EdgesIn
  <2>2. A(first) \in SUBSET Cards /\ A(last) \in SUBSET Cards
    BY <1>2, <1>6
  <2>3. later \in Nets /\ Acyclic(later)
    <3> HIDE DEF A
    <3> QED  BY <1>1, <1>2, <1>5, <2>1, <2>2, NoNewRing
  <2>4. \A d \in Cards : (IF filed[d] = None THEN {} ELSE Edges(filed[d]))
                       = IF d = last THEN A(last) ELSE IF d = first THEN A(first)
                         ELSE IF card[d] = None THEN {} ELSE Edges(card[d])
    <3> HIDE DEF filed, A
    <3> QED  BY <1>2, <1>6, <1>7
  <2>5. EdgesOf(filed) = [later EXCEPT ![last] = A(last)]
    <3>1. \A d \in Cards : later[d] = IF d = first THEN A(first)
                                      ELSE IF card[d] = None THEN {} ELSE Edges(card[d])
      BY <1>2 DEF EdgesNow
    <3>2. later = [d \in Cards |-> later[d]]
      BY DEF EdgesNow
    <3>3. [later EXCEPT ![last] = A(last)] = [d \in Cards |-> IF d = last THEN A(last) ELSE later[d]]
      <4> HIDE DEF later, A
      <4> QED  BY <3>2
    <3>4. EdgesOf(filed) = [d \in Cards |-> IF d = last THEN A(last) ELSE later[d]]
      <4> HIDE DEF later, A, filed
      <4>1. \A d \in Cards : (IF filed[d] = None THEN {} ELSE Edges(filed[d]))
                           = IF d = last THEN A(last) ELSE later[d]
        BY <2>4, <3>1
      <4> QED  BY <4>1 DEF EdgesOf
    <3> QED  BY <3>3, <3>4
  <2>6. CASE last # first
    <3> HIDE DEF A, later, filed
    <3>1. Acyclic([later EXCEPT ![last] = A(last)])
      BY <1>1, <1>2, <2>2, <2>3, <2>6, NoNewRing
    <3> QED  BY <2>5, <3>1
  <2>7. CASE last = first
    <3>1. [later EXCEPT ![last] = A(last)] = later
      BY <2>7
    <3> QED  BY <2>3, <2>5, <3>1
  <2> QED  BY <2>6, <2>7
<1>11. st \in States /\ st.card = filed /\ st.leases = leases /\ st.start = start
  <2>1. /\ Now(leases) \in States /\ Now(leases).leases = leases /\ Now(leases).start = start
    BY <1>5, NowIs
  <2> HIDE DEF filed
  <2> QED  BY <1>7, <2>1 DEF States
<1> HIDE DEF filed, st, later, A
<1>12. Tamed(st, u, first) /\ EdgesOf(u.card) = EdgesOf(filed)
  BY <1>2, <1>5, <1>7, <1>11, EnteredTamed
<1> HIDE DEF u
<1>13. /\ u \in States /\ Holds(u.card, u.leases, byHand) /\ Bounded(u.start)
       /\ Marked(u.card, u.start) /\ Acyclic(EdgesOf(u.card))
       /\ \A d \in Filed : u.card[d] = card[d]
  <2>1. Acyclic(EdgesOf(u.card))
    BY <1>10, <1>12
  <2> QED  BY <1>2, <1>5, <1>7, <1>8, <1>9, <1>11, <1>12, <2>1 DEF Tamed, Filed
<1>14. u.card[last] # None
  BY <1>2, <1>7, <1>11, <1>12 DEF Tamed
<1>15. Tamed(u, w, last) /\ EdgesOf(w.card) = EdgesOf(u.card)
  BY <1>2, <1>5, <1>13, <1>14, EnteredTamed
<1> HIDE DEF w
<1>16. /\ w \in States /\ Holds(w.card, w.leases, byHand) /\ Bounded(w.start)
       /\ Marked(w.card, w.start) /\ Acyclic(EdgesOf(w.card))
       /\ \A d \in Filed : w.card[d] = card[d]
  <2>1. Acyclic(EdgesOf(w.card))
    BY <1>13, <1>15
  <2> QED  BY <1>2, <1>13, <1>15, <2>1 DEF Tamed, Filed
<1>17. PICK v \in {u, w} : Become(v)
  BY <1>1
<1>18. /\ v \in States /\ Holds(v.card, v.leases, byHand) /\ Bounded(v.start)
       /\ Marked(v.card, v.start) /\ Acyclic(EdgesOf(v.card))
       /\ \A d \in Filed : v.card[d] = card[d]
  BY <1>13, <1>16, <1>17
<1>19. IInv'
  BY <1>1, <1>4, <1>17, <1>18, BecomeStep
<1>20. \A d \in Filed : Passes(d)
  BY <1>17, <1>18 DEF Become, Passes
<1> QED  BY <1>19, <1>20 DEF Sound

(* Marks that a request leaves alone. *)
LEMMA SameMarks ==
    ASSUME IInv, start' = start
    PROVE  /\ start' \in [Cards -> Start \cup {None}] /\ Bounded(start')
           /\ \A d \in Cards : start'[d] # None => start'[d] = start[d]
BY DEF IInv, TypeOK

(* Whose a lease of the board's is after leases expired. *)
LEMMA HoldOf ==
    ASSUME IInv, NEW i \in Held(Expire(leases)) \ byHand
    PROVE  LET l == Expire(leases)[i] IN
           /\ l.holder \in Agents /\ l.mode = "exclusive"
           /\ card[l.resource].assignee = l.holder /\ Working(card[l.resource])
<1>1. i \in Held(leases) /\ Expire(leases)[i] = leases[i] /\ leases \in Tables
  BY ExpiredIs
<1> QED  BY <1>1, LeaseIs DEF IInv, Holds

(* A pull. *)
LEMMA TaskPullStep ==
    ASSUME IInv, NEW c \in Cards, NEW a \in Agents, NEW named \in BOOLEAN, TaskPull(a, c, named)
    PROVE  Sound
<1> DEFINE t == Expire(leases)
           k == PullRead(c, named)
           n == Pulled(k, a)
<1>1. /\ c \in Filed /\ Pullable(k, a, named) /\ card' = [card EXCEPT ![c] = n]
      /\ TakeHold(t, c, a) /\ UNCHANGED <<board, agents, start, left>>
  BY DEF TaskPull
<1>2. card[c] \in Task /\ card[c] # None
  BY <1>1, FiledIs
<1>3. None \notin Agents /\ "in_progress" \in Columns
  BY BoardNoneAssumption DEF Columns
<1>4. /\ k \in Task /\ k.column = card[c].column /\ Edges(k) = Edges(card[c])
      /\ \/ k = card[c]
         \/ k.assignee = None /\ Waiting(card[c]) /\ ~Live(card[c].assignee)
  BY <1>2 DEF PullRead, Task, Edges
<1>5. /\ ~k.archived /\ k.assignee \in {None, a}
      /\ InSource(k) \/ Open(k)
  BY <1>1 DEF Pullable
<1> HIDE DEF k
<1>6. /\ n \in Task /\ n.assignee = a /\ Working(n) /\ ~n.archived /\ Edges(n) = Edges(k)
  <2> DEFINE p == IF InSource(k) \/ ~Working(k) THEN Place(k, "in_progress") ELSE k
  <2>1. /\ p \in Task /\ p.archived = k.archived /\ Working(p) /\ Edges(p) = Edges(k)
    BY <1>3, <1>4, PlaceIs DEF Working
  <2>2. n = [p EXCEPT !.assignee = a]
    BY DEF Pulled
  <2> HIDE DEF p
  <2> QED  BY <1>5, <2>1, <2>2 DEF Task, Edges, Working
<1> HIDE DEF n
<1>7. t \in Tables /\ \A i \in Held(t) : i \in Held(leases) /\ t[i] = leases[i]
  BY ExpiredIs
<1>8. \A i \in Held(t) \ byHand : t[i].resource = c => t[i].holder = a
  <2> SUFFICES ASSUME NEW i \in Held(t) \ byHand, t[i].resource = c PROVE t[i].holder = a
    OBVIOUS
  <2>1. t[i].holder \in Agents /\ card[c].assignee = t[i].holder /\ Working(card[c])
    BY HoldOf
  <2>2. ~Waiting(card[c])
    BY <2>1 DEF Working, Waiting
  <2> QED  BY <1>3, <1>4, <1>5, <2>1, <2>2
<1> HIDE DEF t
<1>9. left' \in [Changes -> Nat] /\ UNCHANGED <<board, agents>>
  BY <1>1 DEF IInv, TypeOK
<1>10. start' = start
  BY <1>1
<1>11. Passes(c)
  <2>1. card'[c].assignee = a
    BY <1>1, <1>6 DEF IInv, TypeOK
  <2>2. Terminal(card[c]) => card[c].column \notin board.lanes
    <3>1. CASE Open(k)
      BY <1>4, <3>1 DEF Open, Terminal
    <3>2. CASE InSource(k)
      BY <1>4, <3>2 DEF InSource, LaneOf, Terminal
    <3> QED  BY <1>5, <3>1, <3>2
  <2>3. CASE k = card[c]
    BY <1>5, <2>1, <2>2, <2>3 DEF Passes
  <2>4. CASE Waiting(card[c]) /\ ~Live(card[c].assignee)
    BY <1>10, <2>4 DEF Passes
  <2> QED  BY <1>4, <2>3, <2>4
<1>12. Edges(n) = Edges(card[c])
  BY <1>4, <1>6
<1>13. /\ start' \in [Cards -> Start \cup {None}] /\ Bounded(start')
       /\ \A d \in Cards : start'[d] # None => start'[d] = start[d]
  BY <1>10, SameMarks
<1>14. Taking(t, c, a, n)
  BY <1>1, <1>2, <1>6, <1>7, <1>8, <1>9, <1>11, <1>12, <1>13 DEF Taking
<1> QED  BY <1>14, TakingStep

(* A take-over: the hold that lapsed was the only lease the board had on   *)
(* the card.                                                               *)
LEMMA TakeOverStep ==
    ASSUME IInv, NEW c \in Cards, NEW a \in Agents, NEW from \in Agents, TakeOver(a, c, from)
    PROVE  Sound
<1> DEFINE t == Expire(leases)
           n == [card[c] EXCEPT !.assignee = a]
<1>1. /\ c \in Filed /\ Lapsed(t, c, card[c]) /\ Working(card[c]) /\ ~card[c].archived
      /\ card' = [card EXCEPT ![c].assignee = a]
      /\ TakeHold(t, c, a) /\ UNCHANGED <<board, agents, start, left>>
  BY DEF TakeOver
<1>2. card[c] \in Task /\ card[c] # None
  BY <1>1, FiledIs
<1>3. card' = [card EXCEPT ![c] = n]
  BY <1>1
<1>4. /\ n \in Task /\ n.assignee = a /\ Working(n) /\ ~n.archived /\ Edges(n) = Edges(card[c])
  BY <1>1, <1>2 DEF Task, Edges, Working
<1> HIDE DEF n
<1>5. t \in Tables /\ \A i \in Held(t) : i \in Held(leases) /\ t[i] = leases[i]
  BY ExpiredIs
<1>6. TaskHold(t, c, card[c].assignee) = {}
  BY <1>1 DEF Lapsed
<1>7. \A i \in Held(t) \ byHand : t[i].resource # c
  <2> SUFFICES ASSUME NEW i \in Held(t) \ byHand, t[i].resource = c PROVE FALSE
    OBVIOUS
  <2>1. card[c].assignee = t[i].holder /\ t[i].mode = "exclusive"
    BY HoldOf
  <2>2. i \in TaskHold(t, c, card[c].assignee)
    BY <2>1 DEF TaskHold, HoldersOf
  <2> QED  BY <1>6, <2>2
<1>8. left' \in [Changes -> Nat] /\ UNCHANGED <<board, agents>>
  BY <1>1 DEF IInv, TypeOK
<1>9. start' = start
  BY <1>1
<1>10. Passes(c)
  BY <1>1, <1>6, <1>9 DEF Passes
<1> HIDE DEF t
<1>11. /\ start' \in [Cards -> Start \cup {None}] /\ Bounded(start')
       /\ \A d \in Cards : start'[d] # None => start'[d] = start[d]
  BY <1>9, SameMarks
<1>12. Taking(t, c, a, n)
  BY <1>1, <1>2, <1>3, <1>4, <1>5, <1>7, <1>8, <1>10, <1>11 DEF Taking
<1> QED  BY <1>12, TakingStep

(* Leases left by a request that takes none. *)
LEMMA LeftHold ==
    ASSUME byHand \in SUBSET LeaseIds, NEW t \in Tables, Leave(t), NEW kc, Holds(kc, t, byHand)
    PROVE  leases' \in Tables /\ byHand' \in SUBSET LeaseIds /\ Holds(kc, leases', byHand')
BY DEF Leave, Holds

(* Steps that give no card to anybody and leave the agents alone. *)
Leaving(t, kc) ==
    /\ t \in Tables
    /\ Leave(t)
    /\ Holds(kc, t, byHand)
    /\ kc \in [Cards -> Task \cup {None}]
    /\ card' = kc
    /\ start' \in [Cards -> Start \cup {None}] /\ Bounded(start') /\ Marked(kc, start')
    /\ EdgesOf(kc) = EdgesNow
    /\ UNCHANGED <<board, agents>>
    /\ left' \in [Changes -> Nat]
    /\ \A c \in Filed : Passes(c)

(* They keep the invariant. *)
LEMMA LeavingStep ==
    ASSUME IInv, NEW t, NEW kc, Leaving(t, kc)
    PROVE  Sound
<1>1. /\ t \in Tables /\ Leave(t) /\ Holds(kc, t, byHand) /\ EdgesOf(kc) = EdgesNow
      /\ UNCHANGED agents
  BY DEF Leaving
<1>2. leases' \in Tables /\ byHand' \in SUBSET LeaseIds /\ Holds(kc, leases', byHand')
  <2>1. byHand \in SUBSET LeaseIds
    BY DEF IInv, TypeOK
  <2> QED  BY <1>1, <2>1, LeftHold
<1>3. TypeOK'
  BY <1>2 DEF Leaving, TypeOK, IInv, agents
<1>4. Acyclic(EdgesOf(kc))
  BY <1>1 DEF IInv
<1>5. card' = kc /\ Bounded(start') /\ Marked(kc, start')
  BY DEF Leaving
<1>6. IInv'
  <2>1. /\ Holds(card', leases', byHand') /\ Acyclic(EdgesOf(card')) /\ Bounded(start')
        /\ Marked(card', start')
    BY <1>2, <1>4, <1>5
  <2> QED  BY <1>1, <1>3, <2>1, Settles
<1> QED  BY <1>6 DEF Sound, Leaving

(* Marks that only go. *)
LEMMA FewerMarks ==
    ASSUME IInv, NEW marks, \A d \in Cards : marks[d] # None => marks[d] = start[d]
    PROVE  Bounded(marks) /\ Marked(card, marks)
<1>1. ASSUME NEW r \in RuleIds, Rules[r].action = "start"
      PROVE  Cardinality(LiveOf(r)) + Cardinality(Underway(marks, r)) <= Rules[r].max
  <2>1. Underway(marks, r) \subseteq Underway(start, r) /\ Underway(start, r) \subseteq Cards
    BY DEF Underway
  <2>2. LiveOf(r) \subseteq Agents
    BY DEF LiveOf
  <2>3. IsFiniteSet(Underway(start, r)) /\ IsFiniteSet(LiveOf(r))
    BY <2>1, <2>2, FiniteAssumption, FS_Subset
  <2>4. /\ IsFiniteSet(Underway(marks, r))
        /\ Cardinality(Underway(marks, r)) <= Cardinality(Underway(start, r))
    BY <2>1, <2>3, FS_Subset
  <2>5. /\ Cardinality(LiveOf(r)) \in Nat /\ Cardinality(Underway(start, r)) \in Nat
        /\ Cardinality(Underway(marks, r)) \in Nat
    BY <2>3, <2>4, FS_CardinalityType
  <2>6. Cardinality(LiveOf(r)) + Cardinality(Underway(start, r)) <= Rules[r].max
    BY <1>1 DEF IInv, Bounded
  <2>7. Rules[r].max \in Nat
    BY RuleIs
  <2> QED  BY <2>4, <2>5, <2>6, <2>7
<1>2. Marked(card, marks)
  BY DEF Marked, IInv
<1> QED  BY <1>1, <1>2 DEF Bounded

(* The person gives a card to somebody, or to nobody. *)
LEMMA TaskAssignStep ==
    ASSUME IInv, NEW c \in Cards, NEW to \in Agents \cup {None}, TaskAssign(c, to)
    PROVE  Sound
<1> DEFINE k == [card[c] EXCEPT !.assignee = to]
           t == Expire(leases)
           rest == Remove(t, HoldsEnded(t, c, k))
           new == [card EXCEPT ![c] = k]
<1>1. /\ Spend("edit") /\ c \in Filed /\ ~card[c].archived /\ card' = new
      /\ IF Live(to) /\ Working(k) THEN TakeHold(rest, c, to) ELSE Leave(rest)
      /\ UNCHANGED <<board, agents, start>>
  BY DEF TaskAssign
<1>2. left' \in [Changes -> Nat] /\ left'["edit"] < left["edit"]
  BY <1>1, SpendIs DEF IInv, Changes
<1>3. card[c] \in Task /\ card[c] # None
  BY <1>1, FiledIs
<1>4. k \in Task /\ k.assignee = to /\ ~k.archived /\ Edges(k) = Edges(card[c])
  BY <1>1, <1>3 DEF Task, Edges
<1>5. k # None
  BY <1>4, BoardNoneAssumption
<1> HIDE DEF k
<1>6. card \in [Cards -> Task \cup {None}]
  BY DEF IInv, TypeOK
<1>7. new \in [Cards -> Task \cup {None}] /\ new[c] = k /\ \A d \in Cards \ {c} : new[d] = card[d]
  BY <1>4, <1>6
<1> HIDE DEF new
<1>8. t \in Tables /\ \A i \in Held(t) : i \in Held(leases) /\ t[i] = leases[i]
  BY ExpiredIs
<1> HIDE DEF t
<1>9. Holds(card, t, byHand)
  BY <1>8, FewerHold DEF IInv
<1>10. /\ rest \in Tables /\ Holds(new, rest, byHand)
       /\ \A i \in Held(rest) : rest[i].resource = c => rest[i].holder = to
  <2>1. rest = Remove(t, HoldsEnded(t, c, new[c])) /\ new[c] # None /\ new[c].assignee = to
    BY <1>4, <1>5, <1>7
  <2> DEFINE u == Remove(t, HoldsEnded(t, c, new[c]))
  <2>2. /\ u \in Tables /\ Holds(new, u, byHand)
        /\ \A i \in Held(u) : u[i].resource = c => u[i].holder = new[c].assignee
    <3>1. \A d \in Cards \ {c} : new[d] = card[d]
      BY <1>7
    <3>2. new[c] # None
      BY <2>1
    <3>3. u \in Tables
      BY <1>8, <1>9, <3>1, <3>2, EndedHold
    <3>4. Holds(new, u, byHand)
      BY <1>8, <1>9, <3>1, <3>2, EndedHold
    <3>5. \A i \in Held(u) : u[i].resource = c => u[i].holder = new[c].assignee
      <4> SUFFICES ASSUME NEW i \in Held(u), u[i].resource = c PROVE u[i].holder = new[c].assignee
        OBVIOUS
      <4>1. i \in Held(t) /\ u[i] = t[i] /\ i \notin HoldsEnded(t, c, new[c])
        BY <1>8, RemoveIs DEF Held
      <4> QED  BY <4>1 DEF HoldsEnded, HoldersOf
    <3> QED  BY <3>3, <3>4, <3>5
  <2> QED  BY <2>1, <2>2
<1>11. \A i \in Held(rest) : i \in Held(leases) /\ rest[i] = leases[i]
  BY <1>8, RemoveIs
<1> HIDE DEF rest
<1>12. \A d \in Filed : Passes(d)
  BY <1>2 DEF Passes
<1>13. /\ start' \in [Cards -> Start \cup {None}] /\ Bounded(start')
       /\ (\A d \in Cards : start'[d] # None => start'[d] = start[d]) /\ start' = start
  BY <1>1, SameMarks
<1>14. CASE Live(to) /\ Working(k)
  <2>1. to \in Agents /\ TakeHold(rest, c, to)
    BY <1>1, <1>14 DEF Live
  <2>2. card' = [card EXCEPT ![c] = k]
    BY <1>1 DEF new
  <2>3. Taking(rest, c, to, k)
    BY <1>1, <1>2, <1>3, <1>4, <1>10, <1>11, <1>12, <1>13, <1>14, <2>1, <2>2 DEF Taking
  <2> QED  BY <2>1, <2>3, TakingStep
<1>15. CASE ~(Live(to) /\ Working(k))
  <2>1. EdgesOf(new) = EdgesNow
    <3> SUFFICES \A d \in Cards : (IF new[d] = None THEN {} ELSE Edges(new[d]))
                                  = (IF card[d] = None THEN {} ELSE Edges(card[d]))
      BY DEF EdgesOf, EdgesNow
    <3> QED  BY <1>3, <1>4, <1>5, <1>7
  <2>2. Marked(new, start')
    BY <1>5, <1>7, <1>13 DEF Marked, IInv
  <2>3. Leaving(rest, new)
    BY <1>1, <1>2, <1>7, <1>10, <1>12, <1>13, <1>15, <2>1, <2>2 DEF Leaving
  <2> QED  BY <2>3, LeavingStep
<1> QED  BY <1>14, <1>15

(* The marks of a card whose start is over are gone. *)
LEMMA Unmarked ==
    ASSUME IInv, NEW c \in Cards, start' = [start EXCEPT ![c] = None]
    PROVE  /\ start' \in [Cards -> Start \cup {None}]
           /\ \A d \in Cards : start'[d] # None => start'[d] = start[d]
           /\ Bounded(start') /\ Marked(card, start')
<1>1. start \in [Cards -> Start \cup {None}]
  BY DEF IInv, TypeOK
<1>2. /\ start' \in [Cards -> Start \cup {None}]
      /\ \A d \in Cards : start'[d] # None => start'[d] = start[d]
  BY <1>1
<1>3. PICK marks : marks = start'
  OBVIOUS
<1>4. Bounded(marks) /\ Marked(card, marks)
  BY <1>2, <1>3, FewerMarks
<1> QED  BY <1>2, <1>3, <1>4

(* A card that passes to nobody. *)
LEMMA SameCards ==
    ASSUME card' = card
    PROVE  \A c \in Filed : Passes(c)
BY DEF Passes

(* A start hands its card over, or finds that it may not. *)
LEMMA StartHandsStep ==
    ASSUME IInv, NEW c \in Cards, StartHands(c)
    PROVE  Sound
<1> DEFINE t == Expire(leases)
           a == start[c].agent
           r == start[c].rule
           k == Started(card[c], a, r)
           free == Startable(card[c]) /\ ~Conflicts(t, Wanted(c, a, "exclusive"))
<1>1. /\ start[c] # None /\ start[c].stage = "up"
      /\ start' = [start EXCEPT ![c] = None]
      /\ IF free THEN card' = [card EXCEPT ![c] = k] /\ TakeHold(t, c, a)
                 ELSE Leave(t) /\ card' = card
      /\ UNCHANGED <<board, agents, left>>
  BY DEF StartHands
<1>2. card[c] # None /\ a \in Agents
  BY <1>1 DEF IInv, Marked
<1>3. card \in [Cards -> Task \cup {None}] /\ card[c] \in Task /\ start[c] \in Start
  BY <1>1, <1>2 DEF IInv, TypeOK
<1>4. r \in RuleIds \cup {0}
  BY <1>3 DEF Start
<1>5. t \in Tables /\ \A i \in Held(t) : i \in Held(leases) /\ t[i] = leases[i]
  BY ExpiredIs
<1>6. /\ start' \in [Cards -> Start \cup {None}]
      /\ (\A d \in Cards : start'[d] # None => start'[d] = start[d])
      /\ Bounded(start') /\ Marked(card, start')
  BY <1>1, Unmarked
<1>7. left' \in [Changes -> Nat] /\ UNCHANGED <<board, agents>>
  BY <1>1 DEF IInv, TypeOK
<1>8. CASE free
  <2> HIDE DEF a, r
  <2>1. card[c].assignee = None /\ ~card[c].archived /\ ~Terminal(card[c])
    BY <1>8 DEF Startable, Open
  <2>2. k \in Task /\ k.assignee = a /\ Working(k) /\ ~k.archived /\ Edges(k) = Edges(card[c])
    <3> DEFINE p == IF Working(card[c]) THEN card[c] ELSE Place(card[c], "in_progress")
    <3>1. "in_progress" \in Columns
      BY DEF Columns
    <3>2. /\ p \in Task /\ p.archived = card[c].archived /\ Working(p)
          /\ Edges(p) = Edges(card[c])
      BY <1>3, <3>1, PlaceIs DEF Working
    <3>3. k = [p EXCEPT !.assignee = a, !.fired = @ \cup ({r} \ {0})]
      BY DEF Started
    <3>4. p.fired \cup ({r} \ {0}) \in SUBSET RuleIds
      <4> HIDE DEF p
      <4>1. p.fired \in SUBSET RuleIds
        BY <3>2 DEF Task
      <4> QED  BY <1>4, <4>1
    <3> HIDE DEF p, k
    <3> QED  BY <1>2, <2>1, <3>2, <3>3, <3>4 DEF Task, Edges, Working
  <2> HIDE DEF k
  <2>3. \A i \in Held(t) \ byHand : t[i].resource # c
    <3> SUFFICES ASSUME NEW i \in Held(t) \ byHand, t[i].resource = c PROVE FALSE
      OBVIOUS
    <3>1. t[i].holder \in Agents /\ card[c].assignee = t[i].holder
      BY HoldOf
    <3> QED  BY <2>1, <3>1, BoardNoneAssumption
  <2>4. Passes(c)
    BY <2>1 DEF Passes
  <2>5. card' = [card EXCEPT ![c] = k] /\ TakeHold(t, c, a)
    BY <1>1, <1>8
  <2> HIDE DEF t, free
  <2>6. Taking(t, c, a, k)
    BY <1>2, <1>5, <1>6, <1>7, <2>2, <2>3, <2>4, <2>5 DEF Taking
  <2> QED  BY <1>2, <2>6, TakingStep
<1>9. CASE ~free
  <2>1. Leave(t) /\ card' = card
    BY <1>1, <1>9
  <2>2. Holds(card, t, byHand)
    BY <1>5, FewerHold DEF IInv
  <2>3. EdgesOf(card) = EdgesNow
    BY DEF EdgesOf, EdgesNow
  <2> HIDE DEF t, free
  <2>4. Leaving(t, card)
    BY <1>3, <1>5, <1>6, <1>7, <2>1, <2>2, <2>3, SameCards DEF Leaving
  <2> QED  BY <2>4, LeavingStep
<1> QED  BY <1>8, <1>9

(* Leases that go, while cards and marks stay. *)
LEMMA FewerLeases ==
    ASSUME IInv, NEW t \in Tables, \A i \in Held(t) : i \in Held(leases) /\ t[i] = leases[i],
           Leave(t), card' = card, start' = start, UNCHANGED <<board, agents>>,
           left' \in [Changes -> Nat]
    PROVE  Sound
<1>1. card \in [Cards -> Task \cup {None}] /\ Marked(card, start)
  BY DEF IInv, TypeOK
<1>2. Holds(card, t, byHand)
  BY FewerHold DEF IInv
<1>3. EdgesOf(card) = EdgesNow
  BY DEF EdgesOf, EdgesNow
<1>4. start' \in [Cards -> Start \cup {None}] /\ Bounded(start') /\ Marked(card, start')
  BY <1>1, SameMarks
<1>5. Leaving(t, card)
  BY <1>1, <1>2, <1>3, <1>4, SameCards DEF Leaving
<1> QED  BY <1>5, LeavingStep

(* A pull of its own card. *)
LEMMA TaskPullAgainStep ==
    ASSUME IInv, NEW c \in Cards, NEW a \in Agents, TaskPullAgain(a, c)
    PROVE  Sound
<1>1. Leave(Expire(leases)) /\ UNCHANGED <<card, board, agents, start, left>>
  BY DEF TaskPullAgain
<1>2. left' \in [Changes -> Nat]
  BY <1>1 DEF IInv, TypeOK
<1> QED  BY <1>1, <1>2, ExpiredIs, FewerLeases

(* Maintenance expires leases. *)
LEMMA ExpireLeasesStep ==
    ASSUME IInv, ExpireLeases
    PROVE  Sound
<1>1. Leave(Expire(leases)) /\ UNCHANGED <<card, board, agents, start, left>>
  BY DEF ExpireLeases
<1>2. left' \in [Changes -> Nat]
  BY <1>1 DEF IInv, TypeOK
<1> QED  BY <1>1, <1>2, ExpiredIs, FewerLeases

(* A lease is released. *)
LEMMA ReleaseStep ==
    ASSUME IInv, NEW i \in LeaseIds, Release(i)
    PROVE  Sound
<1> DEFINE ids == {i}
           t == Remove(leases, ids)
<1>1. Leave(t) /\ Spend("hand") /\ UNCHANGED <<card, board, agents, start>>
  BY DEF Release
<1> HIDE DEF ids
<1>2. t \in Tables /\ \A j \in Held(t) : j \in Held(leases) /\ t[j] = leases[j]
  BY RemoveIs DEF IInv, TypeOK
<1>3. left' \in [Changes -> Nat]
  BY <1>1, SpendIs DEF IInv, Changes
<1> HIDE DEF t
<1> QED  BY <1>1, <1>2, <1>3, FewerLeases

(* A lane is cleared: every lease on its cards ends with them. *)
LEMMA TaskArchiveLaneStep ==
    ASSUME IInv, NEW lane \in Columns, TaskArchiveLane(lane)
    PROVE  Sound
<1> DEFINE going == {c \in Filed : ~card[c].archived /\ LaneOf(card[c]) = lane}
           t     == Expire(leases)
           ended == UNION {HoldersOf(t, c) : c \in going}
           rest  == Remove(t, ended)
           new   == [c \in Cards |-> IF c \in going THEN [card[c] EXCEPT !.archived = TRUE]
                                     ELSE card[c]]
<1>1. Spend("archive") /\ card' = new /\ Leave(rest) /\ UNCHANGED <<board, agents, start>>
  BY DEF TaskArchiveLane
<1>2. left' \in [Changes -> Nat]
  BY <1>1, SpendIs DEF IInv, Changes
<1>3. card \in [Cards -> Task \cup {None}] /\ Marked(card, start) /\ going \subseteq Filed
  BY DEF IInv, TypeOK
<1> HIDE DEF going
<1>4. ASSUME NEW c \in Cards
      PROVE  /\ new[c] \in Task \cup {None}
             /\ c \notin going => new[c] = card[c]
             /\ (new[c] = None) <=> (card[c] = None)
             /\ c \in going => new[c].assignee = card[c].assignee /\ Edges(new[c]) = Edges(card[c])
  <2>1. CASE c \in going
    <3>1. card[c] \in Task /\ card[c] # None
      BY <1>3, <2>1, FiledIs
    <3> DEFINE k == [card[c] EXCEPT !.archived = TRUE]
    <3>2. k \in Task /\ k.assignee = card[c].assignee /\ Edges(k) = Edges(card[c])
      BY <3>1, ArchivedIs
    <3>3. new[c] = k
      BY <2>1
    <3> HIDE DEF k, new
    <3> QED  BY <2>1, <3>1, <3>2, <3>3, BoardNoneAssumption
  <2>2. CASE c \notin going
    <3>1. new[c] = card[c]
      BY <2>2
    <3> HIDE DEF new
    <3> QED  BY <1>3, <2>2, <3>1
  <2> QED  BY <2>1, <2>2
<1>5. new = [c \in Cards |-> new[c]]
  OBVIOUS
<1> HIDE DEF new
<1>6. new \in [Cards -> Task \cup {None}]
  BY <1>4, <1>5
<1>7. t \in Tables /\ \A i \in Held(t) : i \in Held(leases) /\ t[i] = leases[i]
  BY ExpiredIs
<1>8. Holds(card, t, byHand)
  BY <1>7, FewerHold DEF IInv
<1> HIDE DEF t
<1>9. /\ rest \in Tables
      /\ \A i \in Held(rest) : i \in Held(t) /\ rest[i] = t[i] /\ i \notin ended
  <2> HIDE DEF ended
  <2> QED  BY <1>7, RemoveIs DEF Held
<1>10. \A i \in Held(rest) : t[i].resource \in Cards \ going
  <2> SUFFICES ASSUME NEW i \in Held(rest) PROVE t[i].resource \in Cards /\ t[i].resource \notin going
    OBVIOUS
  <2>1. i \in Held(t) /\ i \notin ended /\ t[i].resource \in Cards
    BY <1>7, <1>9, LeaseIs
  <2>2. i \in HoldersOf(t, t[i].resource)
    BY <2>1 DEF HoldersOf
  <2> QED  BY <2>1, <2>2
<1> HIDE DEF ended, rest
<1>11. Holds(new, rest, byHand)
  BY <1>4, <1>8, <1>9, <1>10 DEF Holds
<1>12. Marked(new, start)
  BY <1>3, <1>4 DEF Marked
<1>13. EdgesOf(new) = EdgesNow
  <2> SUFFICES \A d \in Cards : (IF new[d] = None THEN {} ELSE Edges(new[d]))
                                = (IF card[d] = None THEN {} ELSE Edges(card[d]))
    BY DEF EdgesOf, EdgesNow
  <2> QED  BY <1>4
<1>14. start' \in [Cards -> Start \cup {None}] /\ Bounded(start') /\ start' = start
  BY <1>1, SameMarks
<1>15. \A c \in Filed : Passes(c)
  <2> SUFFICES ASSUME NEW c \in Filed PROVE Passes(c)
    OBVIOUS
  <2>1. c \in Cards
    BY FiledIs
  <2>2. card'[c].assignee = card[c].assignee
    BY <1>1, <1>4, <2>1
  <2> QED  BY <2>2 DEF Passes
<1>16. Leaving(rest, new)
  BY <1>1, <1>2, <1>6, <1>9, <1>11, <1>12, <1>13, <1>14, <1>15 DEF Leaving
<1> QED  BY <1>16, LeavingStep

(* Steps that leave the leases alone, and the agents. *)
LEMMA SameLeases ==
    ASSUME IInv, NEW kc \in [Cards -> Task \cup {None}], card' = kc, UNCHANGED <<holding, agents>>,
           Holds(kc, leases, byHand), EdgesOf(kc) = EdgesNow, board' \in Boards,
           start' \in [Cards -> Start \cup {None}], Bounded(start'), Marked(kc, start'),
           left' \in [Changes -> Nat]
    PROVE  IInv'
<1>1. TypeOK'
  BY DEF TypeOK, IInv, agents, holding
<1>2. Acyclic(EdgesOf(card'))
  BY DEF IInv
<1>3. leases' = leases /\ byHand' = byHand
  BY DEF holding
<1>4. Holds(card', leases', byHand') /\ Marked(card', start')
  BY <1>3
<1> QED  BY <1>1, <1>2, <1>4, Settles

(* A card comes back in nobody's hold. *)
LEMMA TaskUnarchiveStep ==
    ASSUME IInv, NEW c \in Cards, TaskUnarchive(c)
    PROVE  Sound
<1> DEFINE k == [card[c] EXCEPT !.archived = FALSE]
           new == [card EXCEPT ![c] = k]
<1>1. /\ Spend("archive") /\ c \in Filed /\ card[c].archived /\ card' = new
      /\ UNCHANGED <<holding, board, agents, start>>
  BY DEF TaskUnarchive
<1>2. left' \in [Changes -> Nat]
  BY <1>1, SpendIs DEF IInv, Changes
<1>3. /\ card \in [Cards -> Task \cup {None}] /\ Marked(card, start)
      /\ Holds(card, leases, byHand) /\ leases \in Tables /\ board \in Boards
  BY DEF IInv, TypeOK
<1>4. card[c] \in Task /\ card[c] # None
  BY <1>1, FiledIs
<1>5. k \in Task /\ k.assignee = card[c].assignee /\ Edges(k) = Edges(card[c])
  BY <1>4, ArchivedIs
<1>6. k # None
  BY <1>5, BoardNoneAssumption
<1> HIDE DEF k
<1>7. new \in [Cards -> Task \cup {None}] /\ new[c] = k /\ \A d \in Cards \ {c} : new[d] = card[d]
  BY <1>3, <1>5
<1> HIDE DEF new
<1>8. Holds(new, leases, byHand)
  <2> SUFFICES ASSUME NEW i \in Held(leases) \ byHand
               PROVE  new[leases[i].resource] = card[leases[i].resource]
    BY <1>3 DEF Holds
  <2>1. leases[i].resource \in Cards /\ ~card[leases[i].resource].archived
    BY <1>3, LeaseIs DEF Holds
  <2> QED  BY <1>1, <1>7, <2>1
<1>9. EdgesOf(new) = EdgesNow
  <2> SUFFICES \A d \in Cards : (IF new[d] = None THEN {} ELSE Edges(new[d]))
                                = (IF card[d] = None THEN {} ELSE Edges(card[d]))
    BY DEF EdgesOf, EdgesNow
  <2> QED  BY <1>4, <1>5, <1>6, <1>7
<1>10. start' \in [Cards -> Start \cup {None}] /\ Bounded(start') /\ Marked(new, start')
  BY <1>1, <1>3, <1>6, <1>7, SameMarks DEF Marked
<1>11. board' \in Boards /\ card' = new /\ UNCHANGED <<holding, agents>>
  BY <1>1, <1>3
<1>12. IInv'
  BY <1>2, <1>7, <1>8, <1>9, <1>10, <1>11, SameLeases
<1>13. \A d \in Filed : Passes(d)
  BY <1>5, <1>7, <1>11 DEF Passes, Filed
<1> QED  BY <1>12, <1>13 DEF Sound

(* Steps that touch neither cards nor leases nor agents. *)
LEMMA MarksStep ==
    ASSUME IInv, UNCHANGED <<card, holding, agents>>, board' \in Boards,
           start' \in [Cards -> Start \cup {None}], Bounded(start'), Marked(card, start'),
           left' \in [Changes -> Nat]
    PROVE  Sound
<1>1. card \in [Cards -> Task \cup {None}] /\ Holds(card, leases, byHand) /\ card' = card
  BY DEF IInv, TypeOK
<1>2. EdgesOf(card) = EdgesNow
  BY DEF EdgesOf, EdgesNow
<1>3. IInv'
  BY <1>1, <1>2, SameLeases
<1> QED  BY <1>1, <1>3, SameCards DEF Sound

(* The board is given another shape. *)
LEMMA BoardUpdateStep ==
    ASSUME IInv, NEW b \in Boards, BoardUpdate(b)
    PROVE  Sound
<1>1. Spend("reshape") /\ board' = b /\ UNCHANGED <<card, holding, agents, start>>
  BY DEF BoardUpdate
<1>2. left' \in [Changes -> Nat]
  BY <1>1, SpendIs DEF IInv, Changes
<1>3. start' \in [Cards -> Start \cup {None}] /\ Bounded(start') /\ Marked(card, start')
  BY <1>1, SameMarks DEF IInv
<1> QED  BY <1>1, <1>2, <1>3, MarksStep

(* A start by the person counts for no rule. *)
LEMMA TaskStartStep ==
    ASSUME IInv, NEW c \in Cards, TaskStart(c)
    PROVE  Sound
<1> DEFINE new == [start EXCEPT ![c] = Begun(0)]
<1>1. /\ Spend("start") /\ c \in Filed /\ start[c] = None /\ start' = new
      /\ UNCHANGED <<card, holding, board, agents>>
  BY DEF TaskStart
<1>2. left' \in [Changes -> Nat]
  BY <1>1, SpendIs DEF IInv, Changes
<1>3. /\ Begun(0) \in Start /\ Begun(0).rule = 0 /\ Begun(0).stage # "up"
  BY DEF Begun, Start
<1>4. start \in [Cards -> Start \cup {None}] /\ board \in Boards
  BY DEF IInv, TypeOK
<1>5. /\ new \in [Cards -> Start \cup {None}] /\ new[c] = Begun(0)
      /\ \A d \in Cards \ {c} : new[d] = start[d]
  BY <1>3, <1>4
<1> HIDE DEF new
<1>6. ASSUME NEW r \in RuleIds PROVE Underway(new, r) = Underway(start, r)
  <2>1. r # 0
    BY RulesAssumption DEF RuleIds
  <2> QED  BY <1>1, <1>3, <1>5, <2>1 DEF Underway
<1>7. Bounded(new)
  BY <1>6 DEF Bounded, IInv
<1>8. Marked(card, new)
  BY <1>1, <1>3, <1>5, FiledIs DEF Marked, IInv
<1>9. /\ start' \in [Cards -> Start \cup {None}] /\ Bounded(start') /\ Marked(card, start')
      /\ board' \in Boards /\ UNCHANGED <<card, holding, agents>>
  BY <1>1, <1>4, <1>5, <1>7, <1>8
<1> QED  BY <1>2, <1>9, MarksStep

(* A launch that begins is still under way. *)
LEMMA StartLaunchStep ==
    ASSUME IInv, NEW c \in Cards, StartLaunch(c)
    PROVE  Sound
<1> DEFINE m == [start[c] EXCEPT !.stage = "launching"]
           new == [start EXCEPT ![c] = m]
<1>1. /\ start[c] # None /\ start[c].stage = "inventory" /\ start' = new
      /\ UNCHANGED <<card, holding, board, agents, left>>
  BY DEF StartLaunch
<1>2. /\ start \in [Cards -> Start \cup {None}] /\ board \in Boards
      /\ left' \in [Changes -> Nat] /\ start[c] \in Start
  BY <1>1 DEF IInv, TypeOK
<1>3. m \in Start /\ m.rule = start[c].rule /\ m.stage = "launching"
  BY <1>2 DEF Start
<1>4. m # None
  BY <1>3, BoardNoneAssumption
<1> HIDE DEF m
<1>5. /\ new \in [Cards -> Start \cup {None}] /\ new[c] = m
      /\ \A d \in Cards \ {c} : new[d] = start[d]
  BY <1>2, <1>3
<1> HIDE DEF new
<1>6. ASSUME NEW r \in RuleIds PROVE Underway(new, r) = Underway(start, r)
  BY <1>1, <1>3, <1>4, <1>5 DEF Underway
<1>7. Bounded(new)
  BY <1>6 DEF Bounded, IInv
<1>8. Marked(card, new)
  BY <1>1, <1>3, <1>5 DEF Marked, IInv
<1>9. /\ start' \in [Cards -> Start \cup {None}] /\ Bounded(start') /\ Marked(card, start')
      /\ board' \in Boards /\ UNCHANGED <<card, holding, agents>>
  BY <1>1, <1>2, <1>5, <1>7, <1>8
<1> QED  BY <1>2, <1>9, MarksStep

(* A start that fails leaves no mark. *)
LEMMA StartFailsStep ==
    ASSUME IInv, NEW c \in Cards, StartFails(c)
    PROVE  Sound
<1>1. start' = [start EXCEPT ![c] = None] /\ UNCHANGED <<card, holding, board, agents, left>>
  BY DEF StartFails
<1>2. start' \in [Cards -> Start \cup {None}] /\ Bounded(start') /\ Marked(card, start')
  BY <1>1, Unmarked
<1>3. left' \in [Changes -> Nat] /\ board' \in Boards /\ UNCHANGED <<card, holding, agents>>
  BY <1>1 DEF IInv, TypeOK
<1> QED  BY <1>2, <1>3, MarksStep

(* The marks do not outlive the daemon. *)
LEMMA RestartStep ==
    ASSUME IInv, Restart
    PROVE  Sound
<1> DEFINE new == [c \in Cards |-> None]
<1>1. Spend("restart") /\ start' = new /\ UNCHANGED <<card, holding, board, agents>>
  BY DEF Restart
<1>2. left' \in [Changes -> Nat]
  BY <1>1, SpendIs DEF IInv, Changes
<1>3. new \in [Cards -> Start \cup {None}] /\ \A d \in Cards : new[d] = None
  OBVIOUS
<1> HIDE DEF new
<1>4. Bounded(new) /\ Marked(card, new)
  BY <1>3, FewerMarks
<1>5. /\ start' \in [Cards -> Start \cup {None}] /\ Bounded(start') /\ Marked(card, start')
      /\ board' \in Boards /\ UNCHANGED <<card, holding, agents>>
  BY <1>1, <1>3, <1>4 DEF IInv, TypeOK
<1> QED  BY <1>2, <1>5, MarksStep

(* Steps of agents: cards stay, and leases hold as they did. *)
LEMMA AgentsStep ==
    ASSUME IInv, UNCHANGED <<card, board>>, leases' \in Tables, byHand' \in SUBSET LeaseIds,
           Holds(card, leases', byHand'),
           status' \in [Agents -> {"unborn", "live", "ended"}],
           label' \in [Agents -> RuleIds \cup {0}], Unlabelled',
           start' \in [Cards -> Start \cup {None}], Marked(card, start'),
           Bounded(start)', left' \in [Changes -> Nat]
    PROVE  Sound
<1>1. TypeOK'
  BY DEF TypeOK, IInv
<1>2. Holds(card, leases, byHand)' /\ Marked(card, start)'
  BY DEF Holds, Marked, Held, Working
<1>3. EdgesOf(card') = EdgesNow
  BY DEF EdgesNow, EdgesOf
<1>4. Acyclic(EdgesOf(card'))
  BY <1>3 DEF IInv
<1>5. IInv'
  BY <1>1, <1>2, <1>4, AcyclicNext DEF IInv
<1> QED  BY <1>5, SameCards DEF Sound

(* The agent of a launch comes to run: the rule has one more of those and  *)
(* one less under way.                                                     *)
LEMMA StartRunsStep ==
    ASSUME IInv, NEW c \in Cards, NEW a \in Agents, StartRuns(c, a)
    PROVE  Sound
<1> DEFINE m == [start[c] EXCEPT !.stage = "up", !.agent = a]
           s == start[c].rule
<1>1. /\ start[c] # None /\ start[c].stage = "launching" /\ status[a] = "unborn"
      /\ status' = [status EXCEPT ![a] = "live"] /\ label' = [label EXCEPT ![a] = s]
      /\ start' = [start EXCEPT ![c] = m] /\ UNCHANGED <<card, holding, board, left>>
  <2>1. StartRuns(c, a)
    OBVIOUS
  <2>2. [start EXCEPT ![c].stage = "up", ![c].agent = a] = [start EXCEPT ![c] = m]
    BY DEF IInv, TypeOK
  <2> QED  BY <2>1, <2>2 DEF StartRuns
<1>2. /\ start \in [Cards -> Start \cup {None}] /\ start[c] \in Start
      /\ status \in [Agents -> {"unborn", "live", "ended"}]
      /\ label \in [Agents -> RuleIds \cup {0}]
  BY <1>1 DEF IInv, TypeOK
<1>3. m \in Start /\ m.rule = s /\ m.stage = "up" /\ m.agent = a /\ s \in RuleIds \cup {0}
  BY <1>2 DEF Start
<1> HIDE DEF m, s
<1>4. m # None
  BY <1>3, BoardNoneAssumption
<1>5. /\ start' \in [Cards -> Start \cup {None}] /\ start'[c] = m
      /\ \A d \in Cards \ {c} : start'[d] = start[d]
  BY <1>1, <1>2, <1>3
<1>6. /\ status' \in [Agents -> {"unborn", "live", "ended"}] /\ label' \in [Agents -> RuleIds \cup {0}]
      /\ status'[a] = "live" /\ label'[a] = s
      /\ \A b \in Agents \ {a} : status'[b] = status[b] /\ label'[b] = label[b]
  <2>1. /\ status' \in [Agents -> {"unborn", "live", "ended"}] /\ status'[a] = "live"
        /\ \A b \in Agents \ {a} : status'[b] = status[b]
    BY <1>1, <1>2
  <2>2. /\ label' \in [Agents -> RuleIds \cup {0}] /\ label'[a] = s
        /\ \A b \in Agents \ {a} : label'[b] = label[b]
    BY <1>1, <1>2, <1>3
  <2> QED  BY <2>1, <2>2
<1>7. ASSUME NEW r \in RuleIds, Rules[r].action = "start"
      PROVE  Cardinality(LiveOf(r)') + Cardinality(Underway(start', r)) <= Rules[r].max
  <2>1. Cardinality(LiveOf(r)) + Cardinality(Underway(start, r)) <= Rules[r].max
    BY <1>7 DEF IInv, Bounded
  <2>2. CASE r # s
    <3>1. LiveOf(r)' = LiveOf(r)
      BY <1>1, <1>6, <2>2 DEF LiveOf
    <3>2. Underway(start', r) = Underway(start, r)
      BY <1>3, <1>5, <2>2 DEF Underway, s
    <3> QED  BY <2>1, <3>1, <3>2
  <2>3. CASE r = s
    <3>1. LiveOf(r)' = LiveOf(r) \cup {a} /\ a \notin LiveOf(r)
      BY <1>1, <1>6, <2>3 DEF LiveOf
    <3>2. Underway(start', r) = Underway(start, r) \ {c} /\ c \in Underway(start, r)
      BY <1>1, <1>3, <1>5, <2>3 DEF Underway, s
    <3>3. IsFiniteSet(LiveOf(r)) /\ IsFiniteSet(Underway(start, r))
      <4>1. LiveOf(r) \in SUBSET Agents /\ Underway(start, r) \in SUBSET Cards
        BY DEF LiveOf, Underway
      <4> QED  BY <4>1, FiniteAssumption, FS_Subset
    <3>4. Cardinality(LiveOf(r)) \in Nat /\ Cardinality(Underway(start, r)) \in Nat
      BY <3>3, FS_CardinalityType
    <3>5. Cardinality(LiveOf(r)') = Cardinality(LiveOf(r)) + 1
      BY <3>1, <3>3, FS_AddElement
    <3>6. Cardinality(Underway(start', r)) = Cardinality(Underway(start, r)) - 1
      BY <3>2, <3>3, FS_RemoveElement
    <3>7. Rules[r].max \in Nat
      BY RuleIs
    <3> QED  BY <2>1, <3>4, <3>5, <3>6, <3>7
  <2> QED  BY <2>2, <2>3
<1>8. Bounded(start)'
  BY <1>7 DEF Bounded, Underway
<1>9. Marked(card, start')
  BY <1>1, <1>3, <1>5 DEF Marked, IInv
<1>10. Unlabelled'
  BY <1>6 DEF Unlabelled, IInv
<1>11. /\ leases' \in Tables /\ byHand' \in SUBSET LeaseIds /\ Holds(card, leases', byHand')
       /\ UNCHANGED <<card, board>> /\ left' \in [Changes -> Nat]
  BY <1>1 DEF holding, IInv, TypeOK
<1> QED  BY <1>5, <1>6, <1>8, <1>9, <1>10, <1>11, AgentsStep

(* An agent that registers was started by no rule. *)
LEMMA RegisterStep ==
    ASSUME IInv, NEW a \in Agents, Register(a)
    PROVE  Sound
<1>1. /\ status[a] = "unborn" /\ status' = [status EXCEPT ![a] = "live"]
      /\ UNCHANGED <<card, holding, board, label, start, left>>
  BY DEF Register
<1>2. /\ status \in [Agents -> {"unborn", "live", "ended"}] /\ Unlabelled
      /\ label \in [Agents -> RuleIds \cup {0}] /\ start \in [Cards -> Start \cup {None}]
      /\ Marked(card, start)
  BY DEF IInv, TypeOK
<1>3. /\ status' \in [Agents -> {"unborn", "live", "ended"}] /\ status'[a] = "live"
      /\ \A b \in Agents \ {a} : status'[b] = status[b]
  BY <1>1, <1>2
<1>4. \A r \in RuleIds : LiveOf(r)' = LiveOf(r)
  <2> SUFFICES ASSUME NEW r \in RuleIds PROVE LiveOf(r)' = LiveOf(r)
    OBVIOUS
  <2>1. r # 0
    BY RulesAssumption DEF RuleIds
  <2>2. label[a] = 0 /\ label' = label
    BY <1>1, <1>2 DEF Unlabelled
  <2> QED  BY <1>1, <1>3, <2>1, <2>2 DEF LiveOf
<1>5. Bounded(start)'
  BY <1>1, <1>4 DEF Bounded, Underway, IInv
<1>6. Unlabelled' /\ label' \in [Agents -> RuleIds \cup {0}]
  BY <1>1, <1>2, <1>3 DEF Unlabelled
<1>7. /\ leases' \in Tables /\ byHand' \in SUBSET LeaseIds /\ Holds(card, leases', byHand')
      /\ UNCHANGED <<card, board>> /\ left' \in [Changes -> Nat]
  BY <1>1 DEF holding, IInv, TypeOK
<1>8. start' \in [Cards -> Start \cup {None}] /\ Marked(card, start')
  BY <1>1, <1>2
<1> QED  BY <1>3, <1>5, <1>6, <1>7, <1>8, AgentsStep

(* An exit takes the agent's leases along. *)
LEMMA ExitStep ==
    ASSUME IInv, NEW a \in Agents, Exit(a)
    PROVE  Sound
<1> DEFINE ids == ByHolder(leases, a)
           t == Remove(leases, ids)
<1>1. /\ Spend("exit") /\ status' = [status EXCEPT ![a] = "ended"] /\ Leave(t)
      /\ UNCHANGED <<card, board, label, start>>
  BY DEF Exit
<1>2. left' \in [Changes -> Nat]
  BY <1>1, SpendIs DEF IInv, Changes
<1>3. /\ status \in [Agents -> {"unborn", "live", "ended"}] /\ Unlabelled
      /\ label \in [Agents -> RuleIds \cup {0}] /\ start \in [Cards -> Start \cup {None}]
      /\ Marked(card, start) /\ leases \in Tables /\ byHand \in SUBSET LeaseIds
  BY DEF IInv, TypeOK
<1>4. /\ status' \in [Agents -> {"unborn", "live", "ended"}] /\ status'[a] = "ended"
      /\ \A b \in Agents \ {a} : status'[b] = status[b]
  BY <1>1, <1>3
<1> HIDE DEF ids
<1>5. t \in Tables /\ \A i \in Held(t) : i \in Held(leases) /\ t[i] = leases[i]
  BY <1>3, RemoveIs
<1> HIDE DEF t
<1>6. Holds(card, t, byHand)
  BY <1>5, FewerHold DEF IInv
<1>7. leases' \in Tables /\ byHand' \in SUBSET LeaseIds /\ Holds(card, leases', byHand')
  BY <1>1, <1>3, <1>5, <1>6, LeftHold
<1>8. ASSUME NEW r \in RuleIds, Rules[r].action = "start"
      PROVE  Cardinality(LiveOf(r)') + Cardinality(Underway(start, r)) <= Rules[r].max
  <2>1. Cardinality(LiveOf(r)) + Cardinality(Underway(start, r)) <= Rules[r].max
    BY <1>8 DEF IInv, Bounded
  <2>2. LiveOf(r)' \subseteq LiveOf(r)
    BY <1>1, <1>4 DEF LiveOf
  <2>3. IsFiniteSet(LiveOf(r)) /\ IsFiniteSet(Underway(start, r))
    <3>1. LiveOf(r) \in SUBSET Agents /\ Underway(start, r) \in SUBSET Cards
      BY DEF LiveOf, Underway
    <3> QED  BY <3>1, FiniteAssumption, FS_Subset
  <2>4. IsFiniteSet(LiveOf(r)') /\ Cardinality(LiveOf(r)') <= Cardinality(LiveOf(r))
    <3>1. PICK L : L = LiveOf(r)'
      OBVIOUS
    <3>2. IsFiniteSet(L) /\ Cardinality(L) <= Cardinality(LiveOf(r))
      BY <2>2, <2>3, <3>1, FS_Subset
    <3> QED  BY <3>1, <3>2
  <2>5. /\ Cardinality(LiveOf(r)) \in Nat /\ Cardinality(Underway(start, r)) \in Nat
        /\ Cardinality(LiveOf(r)') \in Nat
    BY <2>3, <2>4, FS_CardinalityType
  <2>6. Rules[r].max \in Nat
    BY RuleIs
  <2> QED  BY <2>1, <2>4, <2>5, <2>6
<1>9. Bounded(start)'
  BY <1>1, <1>8 DEF Bounded, Underway
<1>10. Unlabelled' /\ label' \in [Agents -> RuleIds \cup {0}]
  BY <1>1, <1>3, <1>4 DEF Unlabelled
<1>11. /\ start' \in [Cards -> Start \cup {None}] /\ Marked(card, start') /\ UNCHANGED <<card, board>>
  BY <1>1, <1>3
<1> QED  BY <1>2, <1>4, <1>7, <1>9, <1>10, <1>11, AgentsStep

(* Steps of leases alone. *)
LEMMA LeasesStep ==
    ASSUME IInv, UNCHANGED <<card, board, agents, start>>, leases' \in Tables,
           byHand' \in SUBSET LeaseIds, Holds(card, leases', byHand'), left' \in [Changes -> Nat]
    PROVE  Sound
<1>1. TypeOK'
  BY DEF TypeOK, IInv, agents
<1>2. EdgesNow = EdgesOf(card)
  BY DEF EdgesNow, EdgesOf
<1>3. /\ Holds(card', leases', byHand') /\ Bounded(start') /\ Marked(card', start')
      /\ Acyclic(EdgesOf(card'))
  BY <1>2 DEF IInv
<1>4. IInv'
  BY <1>1, <1>3, Settles
<1> QED  BY <1>4, SameCards DEF Sound

(* Time passes for a lease. *)
LEMMA FallDueStep ==
    ASSUME IInv, NEW i \in LeaseIds, FallDue(i)
    PROVE  Sound
<1> DEFINE l == [leases[i] EXCEPT !.due = TRUE]
           t == [leases EXCEPT ![i] = l]
<1>1. /\ Spend("lapse") /\ leases[i] # None /\ leases' = t
      /\ UNCHANGED <<card, byHand, board, agents, start>>
  BY DEF FallDue
<1>2. left' \in [Changes -> Nat]
  BY <1>1, SpendIs DEF IInv, Changes
<1>3. leases \in Tables /\ byHand \in SUBSET LeaseIds /\ Holds(card, leases, byHand)
  BY DEF IInv, TypeOK
<1>4. i \in Held(leases) /\ leases[i] \in Lease
  BY <1>1, <1>3 DEF Held, Tables
<1>5. /\ l \in Lease /\ l.holder = leases[i].holder /\ l.resource = leases[i].resource
      /\ l.mode = leases[i].mode
  BY <1>4 DEF Lease
<1> HIDE DEF l
<1>6. /\ t \in Tables /\ t[i] = l /\ \A j \in LeaseIds \ {i} : t[j] = leases[j]
  BY <1>3, <1>5 DEF Tables
<1> HIDE DEF t
<1>7. \A j \in Held(t) : /\ j \in Held(leases) /\ t[j].holder = leases[j].holder
                         /\ t[j].resource = leases[j].resource /\ t[j].mode = leases[j].mode
  BY <1>4, <1>5, <1>6 DEF Held
<1>8. Holds(card, t, byHand)
  BY <1>3, <1>7 DEF Holds
<1> QED  BY <1>1, <1>2, <1>3, <1>6, <1>8, LeasesStep

(* A lease that passes by a handoff is by hand from then on. *)
LEMMA HandOnStep ==
    ASSUME IInv, NEW i \in LeaseIds, NEW to \in Agents, HandOn(i, to)
    PROVE  Sound
<1> DEFINE l == [leases[i] EXCEPT !.holder = to, !.handed = TRUE]
           t == [leases EXCEPT ![i] = l]
<1>1. leases \in Tables /\ byHand \in SUBSET LeaseIds /\ Holds(card, leases, byHand)
  BY DEF IInv, TypeOK
<1>2. [leases EXCEPT ![i].holder = to, ![i].handed = TRUE] = t
  BY <1>1 DEF Tables
<1>3. /\ Spend("hand") /\ leases[i] # None /\ leases' = t /\ byHand' = byHand \cup {i}
      /\ UNCHANGED <<card, board, agents, start>>
  BY <1>2 DEF HandOn
<1>4. left' \in [Changes -> Nat]
  BY <1>3, SpendIs DEF IInv, Changes
<1>5. leases[i] \in Lease
  BY <1>1, <1>3 DEF Tables
<1>6. l \in Lease
  BY <1>5 DEF Lease
<1> HIDE DEF l
<1>7. /\ t \in Tables /\ \A j \in LeaseIds \ {i} : t[j] = leases[j]
  BY <1>1, <1>6 DEF Tables
<1> HIDE DEF t
<1>8. Holds(card, t, byHand \cup {i})
  BY <1>1, <1>7 DEF Holds, Held
<1>9. leases' \in Tables /\ byHand' \in SUBSET LeaseIds /\ Holds(card, leases', byHand')
  BY <1>1, <1>3, <1>7, <1>8
<1> QED  BY <1>3, <1>4, <1>9, LeasesStep

(* What is claimed by hand is no hold of the board's. *)
LEMMA ClaimByHandStep ==
    ASSUME IInv, NEW c \in Cards, NEW a \in Agents, NEW mode \in Modes, ClaimByHand(a, c, mode)
    PROVE  Sound
<1> DEFINE t == Expire(leases)
           q == Wanted(c, a, mode)
<1>1. /\ Spend("hand") /\ UNCHANGED <<card, board, agents, start>>
      /\ \E g \in ClaimAs(t, q, LeaseIds \ Held(t)) :
            leases' = Restore(t, g) /\ byHand' = (byHand \cap Held(t)) \cup {g.id}
  BY DEF ClaimByHand
<1>2. left' \in [Changes -> Nat]
  BY <1>1, SpendIs DEF IInv, Changes
<1>3. t \in Tables /\ \A i \in Held(t) : i \in Held(leases) /\ t[i] = leases[i]
  BY ExpiredIs
<1> HIDE DEF t
<1>4. PICK g \in ClaimAs(t, q, LeaseIds \ Held(t)) :
         leases' = Restore(t, g) /\ byHand' = (byHand \cap Held(t)) \cup {g.id}
  BY <1>1
<1>5. g.id \in LeaseIds /\ g.lease \in Lease
  BY <1>3, <1>4, ClaimIs
<1>6. /\ leases' \in Tables
      /\ \A i \in Held(leases') \ {g.id} : i \in Held(t) /\ leases'[i] = t[i]
  BY <1>3, <1>4, <1>5, RestoreIs
<1>7. byHand' \in SUBSET LeaseIds
  BY <1>4, <1>5 DEF IInv, TypeOK
<1>8. Holds(card, t, byHand)
  BY <1>3, FewerHold DEF IInv
<1>9. Holds(card, leases', byHand')
  BY <1>4, <1>6, <1>8 DEF Holds
<1> QED  BY <1>1, <1>2, <1>6, <1>7, <1>9, LeasesStep

-----------------------------------------------------------------------------
(* The specification.                                                      *)

(* The empty board. *)
LEMMA IInvInit == Init => IInv
<1> SUFFICES ASSUME Init PROVE IInv
  OBVIOUS
<1>1. TypeOK
  <2>1. leases \in Tables /\ byHand \in SUBSET LeaseIds
    BY DEF Init, EmptyTable, Tables
  <2>2. /\ card \in [Cards -> Task \cup {None}] /\ start \in [Cards -> Start \cup {None}]
        /\ board \in Boards /\ left \in [Changes -> Nat]
    BY BudgetAssumption DEF Init
  <2>3. /\ status \in [Agents -> {"unborn", "live", "ended"}]
        /\ label \in [Agents -> RuleIds \cup {0}]
    BY DEF Init
  <2> QED  BY <2>1, <2>2, <2>3 DEF TypeOK
<1>2. Unlabelled /\ Marked(card, start) /\ Holds(card, leases, byHand)
  BY DEF Init, Unlabelled, Marked, Holds, Held, EmptyTable
<1>3. Bounded(start)
  <2> SUFFICES ASSUME NEW r \in RuleIds
               PROVE  Cardinality(LiveOf(r)) + Cardinality(Underway(start, r)) <= Rules[r].max
    BY DEF Bounded
  <2>1. LiveOf(r) = {} /\ Underway(start, r) = {}
    BY DEF Init, LiveOf, Underway
  <2>2. Cardinality(LiveOf(r)) = 0 /\ Cardinality(Underway(start, r)) = 0
    BY <2>1, FS_EmptySet
  <2> QED  BY <2>2, RuleIs
<1>4. Acyclic(EdgesNow)
  <2> SUFFICES ASSUME NEW d \in Cards PROVE d \notin Reached(EdgesNow, EdgesNow[d])
    BY DEF Acyclic
  <2> DEFINE S == {}
  <2>1. EdgesNow[d] = S
    BY DEF Init, EdgesNow
  <2>2. EdgesNow \in Nets
    <3>1. EdgesNow = EdgesOf(card)
      BY DEF EdgesNow, EdgesOf
    <3>2. card \in [Cards -> Task \cup {None}]
      BY <1>1 DEF TypeOK
    <3> QED  BY <3>1, <3>2, EdgesIn
  <2>3. S \in SUBSET Cards /\ S \subseteq S /\ Closed(EdgesNow, S)
    BY DEF Closed
  <2> HIDE DEF S
  <2>4. Reached(EdgesNow, S) \subseteq S
    BY <2>2, <2>3, ReachedIs
  <2> QED  BY <2>1, <2>4 DEF S
<1> QED  BY <1>1, <1>2, <1>3, <1>4 DEF IInv

(* Every step keeps the invariant and passes cards on as it may. *)
LEMMA NextStep ==
    ASSUME IInv, Next
    PROVE  Sound
<1>1. ASSUME NEW c \in Cards, CardStep(c) PROVE Sound
  <2>1. ASSUME NEW r \in RuleIds, SweepRule(c, r) PROVE Sound
    BY <2>1, SweepRuleStep
  <2>2. ASSUME NEW a \in Agents, NEW named \in BOOLEAN, TaskPull(a, c, named) PROVE Sound
    BY <2>2, TaskPullStep
  <2>3. ASSUME NEW a \in Agents, TaskPullAgain(a, c) PROVE Sound
    BY <2>3, TaskPullAgainStep
  <2>4. ASSUME NEW a \in Agents, NEW from \in Agents, TakeOver(a, c, from) PROVE Sound
    BY <2>4, TakeOverStep
  <2>5. ASSUME NEW by \in Actors, NEW lane \in Columns, TaskMove(by, c, lane) PROVE Sound
    BY <2>5, TaskMoveStep
  <2>6. ASSUME NEW by \in Actors, TaskRerank(by, c) PROVE Sound
    BY <2>6, TaskRerankStep
  <2>7. ASSUME NEW by \in Actors, NEW edges \in EdgeSets(Filed), NEW outside \in BOOLEAN,
               TaskEdit(by, c, edges, outside)
        PROVE  Sound
    BY <2>7, TaskEditStep
  <2>8. ASSUME NEW to \in Agents \cup {None}, TaskAssign(c, to) PROVE Sound
    BY <2>8, TaskAssignStep
  <2>9. ASSUME NEW by \in Actors, TaskArchive(by, c) PROVE Sound
    BY <2>9, TaskArchiveStep
  <2>10. CASE TaskUnarchive(c) \/ TaskStart(c)
    BY <2>10, TaskUnarchiveStep, TaskStartStep
  <2>11. CASE StartLaunch(c) \/ StartFails(c) \/ StartHands(c)
    BY <2>11, StartLaunchStep, StartFailsStep, StartHandsStep
  <2>12. ASSUME NEW a \in Agents, StartRuns(c, a) PROVE Sound
    BY <2>12, StartRunsStep
  <2>13. ASSUME NEW a \in Agents, NEW mode \in Modes, ClaimByHand(a, c, mode) PROVE Sound
    BY <2>13, ClaimByHandStep
  <2> QED  BY <1>1, <2>1, <2>2, <2>3, <2>4, <2>5, <2>6, <2>7, <2>8, <2>9, <2>10, <2>11, <2>12,
              <2>13 DEF CardStep
<1>2. CASE BoardStep
  <2>1. ASSUME NEW batch \in Batches,
               NEW lanes \in [{batch[n] : n \in DOMAIN batch} -> Filing],
               NEW edges \in [{batch[n] : n \in DOMAIN batch} -> EdgeSets(Cards)],
               TaskFile(batch, lanes, edges)
        PROVE  Sound
    BY <2>1, TaskFileStep
  <2>2. ASSUME NEW lane \in Columns, TaskArchiveLane(lane) PROVE Sound
    BY <2>2, TaskArchiveLaneStep
  <2>3. ASSUME NEW b \in Boards, BoardUpdate(b) PROVE Sound
    BY <2>3, BoardUpdateStep
  <2> QED  BY <1>2, <2>1, <2>2, <2>3 DEF BoardStep
<1>3. CASE AgentStep
  <2>1. ASSUME NEW a \in Agents, Register(a) \/ Exit(a) PROVE Sound
    BY <2>1, RegisterStep, ExitStep
  <2>2. ASSUME NEW i \in LeaseIds, FallDue(i) \/ Release(i) PROVE Sound
    BY <2>2, FallDueStep, ReleaseStep
  <2>3. ASSUME NEW i \in LeaseIds, NEW to \in Agents, HandOn(i, to) PROVE Sound
    BY <2>3, HandOnStep
  <2>4. CASE ExpireLeases \/ Restart
    BY <2>4, ExpireLeasesStep, RestartStep
  <2> QED  BY <1>3, <2>1, <2>2, <2>3, <2>4 DEF AgentStep
<1> QED  BY <1>1, <1>2, <1>3 DEF Next

(* A step that changes nothing. *)
LEMMA Stutter ==
    ASSUME IInv, UNCHANGED vars
    PROVE  Sound
<1>1. UNCHANGED <<card, board, agents, start>> /\ leases' = leases /\ byHand' = byHand /\ left' = left
  BY DEF vars, agents
<1>2. /\ leases' \in Tables /\ byHand' \in SUBSET LeaseIds /\ Holds(card, leases', byHand')
      /\ left' \in [Changes -> Nat]
  BY <1>1 DEF IInv, TypeOK
<1> QED  BY <1>1, <1>2, LeasesStep

(* The invariant holds throughout. *)
LEMMA Invariance == Spec => []IInv
<1>1. IInv /\ [Next]_vars => IInv'
  BY NextStep, Stutter DEF Sound
<1> QED  BY <1>1, IInvInit, PTL DEF Spec

(* Every variable of the board keeps its type, whatever its rules, its     *)
(* shapes and the order of requests.                                       *)
THEOREM TypeCorrect == Spec => []TypeOK
<1>1. IInv => TypeOK
  BY DEF IInv
<1> QED  BY <1>1, Invariance, PTL

(* A lease the board took is the hold of the agent the card names, and the *)
(* card is worked on (holds_ended, take_hold and commit_task).             *)
THEOREM HoldsAreAssignees == Spec => []HoldIsAssignees
<1>1. IInv => HoldIsAssignees
  BY DEF IInv, Holds, HoldIsAssignees
<1> QED  BY <1>1, Invariance, PTL

(* A start rule never has more agents running than its `max' (started_by). *)
THEOREM RulesKeepTheirBound == Spec => []RuleBound
<1>1. IInv => RuleBound
  <2> SUFFICES ASSUME IInv, NEW r \in RuleIds, Rules[r].action = "start"
               PROVE  Cardinality(LiveOf(r)) <= Rules[r].max
    BY DEF RuleBound
  <2>1. Cardinality(LiveOf(r)) + Cardinality(Underway(start, r)) <= Rules[r].max
    BY DEF IInv, Bounded
  <2>2. LiveOf(r) \in SUBSET Agents /\ Underway(start, r) \in SUBSET Cards
    BY DEF LiveOf, Underway
  <2>3. IsFiniteSet(LiveOf(r)) /\ IsFiniteSet(Underway(start, r))
    BY <2>2, FiniteAssumption, FS_Subset
  <2>4. Cardinality(LiveOf(r)) \in Nat /\ Cardinality(Underway(start, r)) \in Nat
    BY <2>3, FS_CardinalityType
  <2> QED  BY <2>1, <2>4, RuleIs
<1> QED  BY <1>1, Invariance, PTL

(* No card waits for itself over any chain of parents and blockers: what   *)
(* closes_cycle refuses is all that could close a ring.                    *)
THEOREM NoRingOfWaits == Spec => []NoWaitRing
<1>1. IInv => NoWaitRing
  <2> SUFFICES ASSUME IInv, NEW c \in Filed PROVE c \notin Reached(EdgesNow, Edges(card[c]))
    BY DEF NoWaitRing
  <2>1. c \in Cards /\ card[c] # None
    BY FiledIs
  <2>2. EdgesNow[c] = Edges(card[c])
    BY <2>1 DEF EdgesNow
  <2> QED  BY <2>1, <2>2 DEF IInv, Acyclic
<1> QED  BY <1>1, Invariance, PTL

(* Without the person a card passes from one agent to another only from    *)
(* one that ended before it began or whose hold lapsed (task_pull,         *)
(* start_on_card_command).                                                 *)
THEOREM CardsAreNotStolen == Spec => NoSteal
<1> DEFINE Keeps ==
             \A c \in Filed :
                LET had == card[c].assignee
                    has == card'[c].assignee
                IN  (had # None /\ has \notin {None, had} /\ left' = left) =>
                       /\ start' = start
                       /\ \/ Waiting(card[c]) /\ ~Live(had)
                          \/ /\ Working(card[c])
                             /\ TaskHold(Expire(leases), c, had) = {}
<1>1. IInv /\ [Next]_vars => [Keeps]_vars
  <2> SUFFICES ASSUME IInv, [Next]_vars PROVE Keeps
    OBVIOUS
  <2>1. \A c \in Filed : Passes(c)
    BY NextStep, Stutter DEF Sound
  <2>2. left["edit"] \in Nat
    BY DEF IInv, TypeOK, Changes
  <2> QED  BY <2>1, <2>2 DEF Passes
<1>2. [][Keeps]_vars => NoSteal
  BY DEF NoSteal
<1> HIDE DEF Keeps
<1> QED  BY <1>1, <1>2, Invariance, PTL DEF Spec

(* A card that ended in a lane of the board is taken by no pull, take-over *)
(* or start (Task::pull, Board::next_ready, rule::startable).              *)
THEOREM EndedCardsStay == Spec => EndedStays
<1> DEFINE Keeps ==
             \A c \in Filed :
                ( /\ Terminal(card[c])
                  /\ card[c].column \in board.lanes
                  /\ card'[c].assignee \notin {None, card[c].assignee})
                => left'["edit"] < left["edit"]
<1>1. IInv /\ [Next]_vars => [Keeps]_vars
  <2> SUFFICES ASSUME IInv, [Next]_vars PROVE Keeps
    OBVIOUS
  <2>1. \A c \in Filed : Passes(c)
    BY NextStep, Stutter DEF Sound
  <2> QED  BY <2>1 DEF Passes, Terminal, Working, Waiting
<1>2. [][Keeps]_vars => EndedStays
  BY DEF EndedStays
<1> HIDE DEF Keeps
<1> QED  BY <1>1, <1>2, Invariance, PTL DEF Spec
=============================================================================
