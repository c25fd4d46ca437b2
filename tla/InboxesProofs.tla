--------------------------- MODULE InboxesProofs ---------------------------
(***************************************************************************)
(* What the operations on a queue leave in it.                             *)
(***************************************************************************)
EXTENDS Inboxes, WellFoundedInduction, TLAPS

(* A set of numbers that is not empty has a least one: induction, in the   *)
(* form that needs no predicate.                                           *)
LEMMA LeastNumber ==
    ASSUME NEW T \in SUBSET Nat, T # {}
    PROVE  \E n \in T : \A k \in T : n <= k
<1>1. IsWellFoundedOn(OpToRel(<, Nat), Nat)
  BY NatLessThanWellFounded
<1>2. PICK n \in T : \A k \in T : <<k, n>> \notin OpToRel(<, Nat)
  BY <1>1, WFMin
<1>3. \A i, k \in Nat : k < i => <<k, i>> \in OpToRel(<, Nat)
  BY DEF OpToRel
<1>4. \A k \in T : ~(k < n)
  BY <1>2, <1>3
<1> QED  BY <1>4

(* The first message makes a queue of one. *)
LEMMA AppendFirst ==
    ASSUME NEW m PROVE Append(<<>>, m) = <<m>> /\ Len(<<m>>) = 1
OBVIOUS

(* A queue of one message is that message's. *)
LEMMA OneMessage ==
    ASSUME NEW m, NEW x PROVE (<<m>> = <<x>> => m = x) /\ <<m>> # <<>> /\ Len(<<m>>) = 1
OBVIOUS

(* A queue that is not empty and no longer than one message is its head. *)
LEMMA OnlyHead ==
    ASSUME NEW S, NEW s \in Seq(S), s # <<>>, Len(s) <= 1
    PROVE  s = <<Head(s)>> /\ Head(s) \in S
<1>1. Len(s) = 1 /\ Head(s) = s[1] /\ s[1] \in S
  OBVIOUS
<1>2. s = <<s[1]>>
  BY <1>1
<1> QED  BY <1>1, <1>2

(* A message at the end of a queue is in it, with what was there. *)
LEMMA ElementsAppend ==
    ASSUME NEW S, NEW s \in Seq(S), NEW m \in S
    PROVE  Elements(Append(s, m)) = Elements(s) \cup {m}
<1>1. DOMAIN s = 1..Len(s) /\ DOMAIN Append(s, m) = 1..(Len(s) + 1) /\ Len(s) \in Nat
  OBVIOUS
<1>2. \A i \in 1..Len(s) : Append(s, m)[i] = s[i]
  OBVIOUS
<1>3. Append(s, m)[Len(s) + 1] = m
  OBVIOUS
<1>4. 1..(Len(s) + 1) = 1..Len(s) \cup {Len(s) + 1}
  BY <1>1
<1> QED  BY <1>1, <1>2, <1>3, <1>4 DEF Elements

(* The recursion that Without makes, as far as the first n messages. *)
Keeps(f, s, ids, n) ==
    f = [i \in 0..n |-> IF i = 0 THEN <<>>
                        ELSE IF s[i] \in ids THEN f[i - 1]
                             ELSE Append(f[i - 1], s[i])]

(* A message more extends the recursion by one. *)
LEMMA KeepsExtends ==
    ASSUME NEW s, NEW ids, NEW n \in Nat, NEW f, Keeps(f, s, ids, n)
    PROVE  \E g : Keeps(g, s, ids, n + 1)
<1> DEFINE g == [i \in 0..(n + 1) |->
                    IF i = n + 1
                    THEN IF s[i] \in ids THEN f[n] ELSE Append(f[n], s[i])
                    ELSE f[i]]
<1>1. \A i \in 0..n : g[i] = f[i]
  OBVIOUS
<1>2. \A i \in 0..n : f[i] = IF i = 0 THEN <<>>
                             ELSE IF s[i] \in ids THEN f[i - 1]
                                  ELSE Append(f[i - 1], s[i])
  BY DEF Keeps
<1>3. ASSUME NEW i \in 0..(n + 1)
      PROVE  g[i] = IF i = 0 THEN <<>>
                    ELSE IF s[i] \in ids THEN g[i - 1]
                         ELSE Append(g[i - 1], s[i])
  <2>1. CASE i = n + 1
    <3>1. i - 1 = n /\ i # 0 /\ n \in 0..n
      BY <2>1
    <3>2. g[i - 1] = f[n]
      BY <1>1, <3>1
    <3> QED  BY <2>1, <3>1, <3>2
  <2>2. CASE i \in 0..n /\ i # 0
    <3>1. i - 1 \in 0..n
      BY <2>2
    <3>2. g[i - 1] = f[i - 1] /\ g[i] = f[i]
      BY <1>1, <2>2, <3>1
    <3> HIDE DEF g
    <3> QED  BY <1>2, <2>2, <3>2
  <2>3. CASE i = 0
    <3>1. 0 \in 0..n
      OBVIOUS
    <3>2. g[0] = f[0]
      BY <1>1, <3>1
    <3> HIDE DEF g
    <3> QED  BY <1>2, <2>3, <3>1, <3>2
  <2> QED  BY <2>1, <2>2, <2>3
<1>4. g = [i \in 0..(n + 1) |-> g[i]]
  OBVIOUS
<1> HIDE DEF g
<1>5. Keeps(g, s, ids, n + 1)
  BY <1>3, <1>4 DEF Keeps
<1> QED  BY <1>5

(* The recursion is defined for every length: a least length for which it  *)
(* were not would have one before it for which it is.                      *)
LEMMA KeepsExists ==
    ASSUME NEW s, NEW ids, NEW n \in Nat
    PROVE  \E f : Keeps(f, s, ids, n)
<1> DEFINE T == {k \in Nat : ~ \E f : Keeps(f, s, ids, k)}
<1> SUFFICES ASSUME T # {} PROVE FALSE
  OBVIOUS
<1>1. PICK k \in T : \A j \in T : k <= j
  BY LeastNumber
<1>2. k # 0
  <2> DEFINE f == [i \in 0..0 |-> <<>>]
  <2>1. Keeps(f, s, ids, 0)
    BY DEF Keeps
  <2> QED  BY <2>1
<1>3. k - 1 \in Nat /\ k - 1 \notin T
  BY <1>1, <1>2
<1>4. PICK f : Keeps(f, s, ids, k - 1)
  BY <1>3
<1>5. \E g : Keeps(g, s, ids, (k - 1) + 1)
  BY <1>3, <1>4, KeepsExtends
<1>6. (k - 1) + 1 = k
  BY <1>1
<1> QED  BY <1>5, <1>6

(* What is taken out of a queue leaves the rest of it, no longer than it   *)
(* was.                                                                    *)
LEMMA WithoutIs ==
    ASSUME NEW S, NEW s \in Seq(S), NEW ids
    PROVE  /\ Without(s, ids) \in Seq(S)
           /\ Len(Without(s, ids)) <= Len(s)
           /\ Elements(Without(s, ids)) = Elements(s) \ ids
<1> DEFINE f == CHOOSE f : Keeps(f, s, ids, Len(s))
<1>1. Keeps(f, s, ids, Len(s)) /\ Len(s) \in Nat
  <2>1. Len(s) \in Nat
    OBVIOUS
  <2>2. \E g : Keeps(g, s, ids, Len(s))
    BY <2>1, KeepsExists
  <2> QED  BY <2>1, <2>2
<1>2. Without(s, ids) = f[Len(s)]
  BY DEF Without, Keeps
<1> HIDE DEF f
<1>3. \A i \in 0..Len(s) : f[i] = IF i = 0 THEN <<>>
                                  ELSE IF s[i] \in ids THEN f[i - 1]
                                       ELSE Append(f[i - 1], s[i])
  BY <1>1 DEF Keeps
<1> DEFINE P(n) == /\ f[n] \in Seq(S)
                   /\ Len(f[n]) <= n
                   /\ Elements(f[n]) = {s[i] : i \in 1..n} \ ids
           T == {k \in Nat : k <= Len(s) /\ ~P(k)}
<1>4. T = {}
  <2> SUFFICES ASSUME T # {} PROVE FALSE
    OBVIOUS
  <2>1. PICK k \in T : \A j \in T : k <= j
    BY LeastNumber
  <2>2. k \in 0..Len(s) /\ ~P(k)
    BY <1>1, <2>1
  <2>3. k # 0
    <3>1. f[0] = <<>>
      BY <1>1, <1>3
    <3>2. P(0)
      BY <3>1 DEF Elements
    <3> QED  BY <2>2, <3>2
  <2>4. k - 1 \in Nat /\ k - 1 \in 0..Len(s) /\ k \in 1..Len(s) /\ P(k - 1)
    <3>1. k - 1 \in Nat /\ k - 1 \in 0..Len(s) /\ k \in 1..Len(s) /\ ~(k <= k - 1)
      BY <1>1, <2>2, <2>3
    <3>2. k - 1 \notin T
      BY <2>1, <3>1
    <3> HIDE DEF P
    <3>3. P(k - 1)
      BY <1>1, <3>1, <3>2
    <3> QED  BY <3>1, <3>3
  <2>5. s[k] \in S
    BY <2>4
  <2>6. {s[i] : i \in 1..k} = {s[i] : i \in 1..(k - 1)} \cup {s[k]}
    BY <2>4
  <2>7. CASE s[k] \in ids
    <3>1. f[k] = f[k - 1]
      BY <1>3, <2>2, <2>3, <2>7
    <3>2. P(k)
      BY <2>4, <2>6, <2>7, <3>1
    <3> QED  BY <2>2, <3>2
  <2>8. CASE s[k] \notin ids
    <3>1. f[k] = Append(f[k - 1], s[k])
      BY <1>3, <2>2, <2>3, <2>8
    <3>2. f[k] \in Seq(S) /\ Len(f[k]) <= k
      BY <2>4, <2>5, <3>1
    <3>3. Elements(f[k]) = Elements(f[k - 1]) \cup {s[k]}
      BY <2>4, <2>5, <3>1, ElementsAppend
    <3>4. P(k)
      BY <2>4, <2>6, <2>8, <3>2, <3>3
    <3> QED  BY <2>2, <3>4
  <2> QED  BY <2>7, <2>8
<1>5. P(Len(s))
  <2>1. Len(s) \in Nat /\ Len(s) <= Len(s)
    BY <1>1
  <2> HIDE DEF P
  <2> QED  BY <1>4, <2>1
<1>6. {s[i] : i \in 1..Len(s)} = Elements(s)
  <2>1. DOMAIN s = 1..Len(s)
    OBVIOUS
  <2> QED  BY <2>1, Zenon DEF Elements
<1> QED  BY <1>1, <1>2, <1>5, <1>6

(* A queue that another one is put behind holds what both held. *)
LEMMA ElementsConcat ==
    ASSUME NEW S, NEW s \in Seq(S), NEW u \in Seq(S)
    PROVE  /\ s \o u \in Seq(S)
           /\ Len(s \o u) = Len(s) + Len(u)
           /\ Elements(s \o u) = Elements(s) \cup Elements(u)
<1>1. s \o u \in Seq(S) /\ Len(s \o u) = Len(s) + Len(u) /\ Len(s) \in Nat /\ Len(u) \in Nat
  OBVIOUS
<1>2. /\ DOMAIN s = 1..Len(s) /\ DOMAIN u = 1..Len(u)
      /\ DOMAIN (s \o u) = 1..(Len(s) + Len(u))
  BY <1>1
<1>3. /\ \A i \in 1..Len(s) : i \in 1..(Len(s) + Len(u)) /\ (s \o u)[i] = s[i]
      /\ \A i \in 1..Len(u) : /\ Len(s) + i \in 1..(Len(s) + Len(u))
                               /\ (s \o u)[Len(s) + i] = u[i]
  BY <1>1
<1>4. \A i \in 1..(Len(s) + Len(u)) :
         \/ i \in 1..Len(s)
         \/ i - Len(s) \in 1..Len(u) /\ Len(s) + (i - Len(s)) = i
  BY <1>1
<1>5. Elements(s \o u) \subseteq Elements(s) \cup Elements(u)
  <2> SUFFICES ASSUME NEW i \in 1..(Len(s) + Len(u))
               PROVE  (s \o u)[i] \in Elements(s) \cup Elements(u)
    BY <1>2 DEF Elements
  <2>1. CASE i \in 1..Len(s)
    BY <1>2, <1>3, <2>1 DEF Elements
  <2>2. CASE i - Len(s) \in 1..Len(u) /\ Len(s) + (i - Len(s)) = i
    <3>1. (s \o u)[i] = u[i - Len(s)]
      BY <1>3, <2>2
    <3> QED  BY <1>2, <2>2, <3>1 DEF Elements
  <2> QED  BY <1>4, <2>1, <2>2
<1>6. Elements(s) \subseteq Elements(s \o u)
  BY <1>2, <1>3 DEF Elements
<1>7. Elements(u) \subseteq Elements(s \o u)
  BY <1>2, <1>3 DEF Elements
<1> QED  BY <1>1, <1>5, <1>6, <1>7

(* A message put into a queue that has room leaves it within the bound. *)
LEMMA AppendIs ==
    ASSUME NEW S, NEW s \in Seq(S), NEW m \in S, Len(s) < Capacity
    PROVE  /\ Append(s, m) \in Seq(S)
           /\ Len(Append(s, m)) <= Capacity
           /\ Elements(Append(s, m)) = Elements(s) \cup {m}
<1>1. Len(Append(s, m)) = Len(s) + 1 /\ Len(s) \in Nat
  OBVIOUS
<1> QED  BY <1>1, ElementsAppend, CapacityAssumption

(* The queues of the agents in A, with messages out of S. *)
Queues(A, S) == [A -> Seq(S)]

(* The same for every recipient of a message. *)
LEMMA EnqueueIs ==
    ASSUME NEW A, NEW S, NEW box \in Queues(A, S), NEW to,
           NEW m \in S, \A a \in to : a \in A /\ Takes(box, a)
    PROVE  /\ Enqueue(box, to, m) \in Queues(A, S)
           /\ \A a \in to :
                 /\ Len(Enqueue(box, to, m)[a]) <= Capacity
                 /\ Elements(Enqueue(box, to, m)[a]) = Elements(box[a]) \cup {m}
           /\ \A a \in A \ to : Enqueue(box, to, m)[a] = box[a]
<1>1. ASSUME NEW a \in to
      PROVE  /\ a \in A
             /\ Append(box[a], m) \in Seq(S)
             /\ Len(Append(box[a], m)) <= Capacity
             /\ Elements(Append(box[a], m)) = Elements(box[a]) \cup {m}
  <2>1. a \in A /\ box[a] \in Seq(S) /\ Len(box[a]) < Capacity
    BY DEF Takes, Queues
  <2> QED  BY <2>1, AppendIs
<1> QED  BY <1>1 DEF Enqueue, Queues

(* An acknowledgement takes what it names out of one queue. *)
LEMMA AckIs ==
    ASSUME NEW A, NEW S, NEW box \in Queues(A, S), NEW a \in A, NEW ids
    PROVE  /\ AckInbox(box, a, ids) \in Queues(A, S)
           /\ Len(AckInbox(box, a, ids)[a]) <= Len(box[a])
           /\ Elements(AckInbox(box, a, ids)[a]) = Elements(box[a]) \ ids
           /\ \A b \in A \ {a} : AckInbox(box, a, ids)[b] = box[b]
<1>1. box[a] \in Seq(S)
  BY DEF Queues
<1>2. /\ Without(box[a], ids) \in Seq(S)
      /\ Len(Without(box[a], ids)) <= Len(box[a])
      /\ Elements(Without(box[a], ids)) = Elements(box[a]) \ ids
  BY <1>1, WithoutIs
<1>3. AckInbox(box, a, ids)[a] = Without(box[a], ids)
  BY DEF AckInbox, Queues
<1> QED  BY <1>2, <1>3 DEF AckInbox, Queues
=============================================================================
