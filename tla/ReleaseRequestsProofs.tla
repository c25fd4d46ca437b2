----------------------- MODULE ReleaseRequestsProofs -----------------------
(***************************************************************************)
(* Proofs about ReleaseRequests, for all agents, leases, requests, queues  *)
(* and bounds.                                                             *)
(*                                                                         *)
(* The invariants are not inductive by themselves.  That nobody is asked   *)
(* twice, and that a queue keeps its bound, rest on every record that can  *)
(* be asked or owed something being one its session lives on in            *)
(* (Canonical): a message put into the queue of a retired record would be  *)
(* out of everybody's sight, and beyond the bound of what a fold joins.    *)
(* That a request ends once rests on one that was not made waiting         *)
(* nowhere (Unmade).                                                       *)
(***************************************************************************)
EXTENDS ReleaseRequests, InboxesProofs, FiniteSetTheorems

(* A record stands for itself or for one that does, and only such a record *)
(* holds a lease or is owed an answer.                                     *)
Canonical ==
    /\ \A a \in Agents : canon[canon[a]] = canon[a]
    /\ \A i \in Held(leases) : canon[leases[i].holder] = leases[i].holder
    /\ \A a \in owed : canon[a] = a

(* A request that was not made waits nowhere and has not ended. *)
Unmade ==
    \A r \in Requests : request[r] = None => ends[r] = <<>> /\ r \notin pending

IInv == TypeOK /\ EndsOnce /\ AskedOnce /\ Told /\ Canonical /\ Unmade

-----------------------------------------------------------------------------
(* Helpers.                                                                *)

(* A lease under an id is a lease. *)
LEMMA LeaseHeld ==
    ASSUME NEW t \in Tables, NEW i \in Held(t)
    PROVE  i \in LeaseIds /\ t[i] \in Lease /\ t[i].holder \in Agents
BY DEF Held, Tables, Lease

(* What is left of a table is what it was. *)
LEMMA Removed ==
    ASSUME NEW t \in Tables, NEW ids
    PROVE  /\ Remove(t, ids) \in Tables
           /\ \A i \in Held(Remove(t, ids)) : i \in Held(t) /\ Remove(t, ids)[i] = t[i]
           /\ \A i \in Held(t) : Remove(t, ids)[i] = None <=> i \in ids
BY DEF Remove, Tables, Held

(* The agents that live on in a record. *)
Class(c, a) == {b \in Agents : c[b] = a}

(* They are finitely many. *)
LEMMA ClassIs ==
    ASSUME NEW c, NEW a
    PROVE  IsFiniteSet(Class(c, a)) /\ Cardinality(Class(c, a)) \in Nat
<1>1. Class(c, a) \in SUBSET Agents /\ IsFiniteSet(Agents)
  BY RequestsAssumption DEF Class
<1> QED  BY <1>1, FS_Subset, FS_CardinalityType

(* Two bounds add up. *)
LEMMA Sums ==
    ASSUME NEW i \in Nat, NEW j \in Nat, NEW u \in Nat, NEW v \in Nat, i <= u, j <= v
    PROVE  i + j <= u + v
OBVIOUS

(* What the bound of several queues put together needs of multiplication. *)
LEMMA Times ==
    ASSUME NEW k \in Nat, NEW m \in Nat, NEW n \in Nat
    PROVE  /\ k * (m + n) = k * m + k * n
           /\ m >= 1 => k <= k * m
           /\ k * 0 = 0 /\ k * m \in Nat
<1>1. k * (m + n) = k * m + k * n
  OBVIOUS
<1>2. ASSUME m >= 1 PROVE k <= k * m
  <2>1. m - 1 \in Nat /\ m = 1 + (m - 1)
    BY <1>2
  <2>2. k * m = k * 1 + k * (m - 1)
    BY <2>1
  <2>3. k * (m - 1) \in Nat
    BY <2>1
  <2> QED  BY <2>2, <2>3
<1>3. k * 0 = 0 /\ k * m \in Nat
  OBVIOUS
<1> QED  BY <1>1, <1>2, <1>3

(* What TypeOK says of the queues. *)
Boxes(box, c) ==
    /\ box \in [Agents -> Seq(Letters)]
    /\ \A a \in Agents : Len(box[a]) <= Capacity * Cardinality(Class(c, a))

(* An agent that is its own record counts itself. *)
LEMMA Room ==
    ASSUME NEW c, NEW a \in Agents, c[a] = a
    PROVE  Capacity <= Capacity * Cardinality(Class(c, a))
<1>1. a \in Class(c, a)
  BY DEF Class
<1>2. Cardinality(Class(c, a)) # 0
  BY <1>1, ClassIs, FS_EmptySet
<1>3. Cardinality(Class(c, a)) \in Nat /\ Cardinality(Class(c, a)) >= 1
  BY <1>2, ClassIs
<1> QED  BY <1>3, Times, CapacityAssumption

(* TypeOK says as much. *)
LEMMA TypeBoxes ==
    ASSUME TypeOK PROVE Boxes(inbox, canon)
BY DEF TypeOK, Boxes, Class

(* A message in a queue is a message. *)
LEMMA LettersIn ==
    ASSUME NEW s \in Seq(Letters) PROVE Elements(s) \subseteq Letters
BY DEF Elements

(* The sweep of questions keeps the bounds and loses nothing. *)
LEMMA SweptIs ==
    ASSUME TypeOK, Canonical
    PROVE  /\ Boxes(SweptBox, canon)
           /\ \A a \in Agents : Elements(inbox[a]) \subseteq Elements(SweptBox[a])
<1>1. Boxes(inbox, canon)
  BY TypeBoxes
<1>2. SweptBox \in [Agents -> Seq(Letters)]
  <2>1. ASSUME NEW a \in Sweepable
        PROVE  Append(inbox[a], <<a, "default">>) \in Seq(Letters)
    <3>1. a \in Agents /\ <<a, "default">> \in Letters
      BY DEF Sweepable, TypeOK, Letters
    <3> QED  BY <1>1, <3>1 DEF Boxes
  <2> QED  BY <1>1, <2>1 DEF SweptBox, Boxes
<1>3. ASSUME NEW a \in Agents
      PROVE  /\ Len(SweptBox[a]) <= Capacity * Cardinality(Class(canon, a))
             /\ Elements(inbox[a]) \subseteq Elements(SweptBox[a])
  <2>1. CASE a \notin Sweepable
    BY <1>1, <2>1 DEF SweptBox, Boxes
  <2>2. CASE a \in Sweepable
    <3>1. /\ inbox[a] \in Seq(Letters) /\ Len(inbox[a]) < Capacity
          /\ canon[a] = a /\ <<a, "default">> \in Letters
      BY <1>1, <2>2 DEF Sweepable, Takes, Boxes, Canonical, Letters
    <3>2. SweptBox[a] = Append(inbox[a], <<a, "default">>)
      BY <2>2 DEF SweptBox
    <3>3. /\ SweptBox[a] \in Seq(Letters) /\ Len(SweptBox[a]) <= Capacity
          /\ Elements(inbox[a]) \subseteq Elements(SweptBox[a])
      BY <3>1, <3>2, AppendIs
    <3>4. Capacity <= Capacity * Cardinality(Class(canon, a))
      BY <3>1, Room
    <3>5. /\ Capacity * Cardinality(Class(canon, a)) \in Nat
          /\ Len(SweptBox[a]) \in Nat
      BY <3>3, ClassIs, Times, CapacityAssumption
    <3> QED  BY <3>3, <3>4, <3>5, CapacityAssumption
  <2> QED  BY <2>1, <2>2
<1> QED  BY <1>2, <1>3 DEF Boxes

(* A disturbance that is spent was there. *)
LEMMA SpendIs ==
    ASSUME NEW d, Spend(d), left \in 0..MaxDisturbances
    PROVE  left' \in 0..MaxDisturbances
BY RequestsAssumption DEF Spend

-----------------------------------------------------------------------------
(* The steps.                                                              *)

(* The invariant holds before anything was asked. *)
LEMMA IInvInit == Init => IInv
<1> SUFFICES ASSUME Init PROVE IInv
  OBVIOUS
<1>1. TypeOK
  <2>1. leases \in Tables /\ spent \subseteq LeaseIds
    BY DEF Init, EmptyTable, Tables
  <2>2. /\ canon \in [Agents -> Agents] /\ gone \subseteq Agents
        /\ request \in [Requests -> Request \cup {None}]
    BY DEF Init
  <2>3. pending \subseteq Requests /\ Cardinality(pending) <= MaxRequests
    BY FS_EmptySet, RequestsAssumption DEF Init
  <2>4. /\ ends \in [Requests -> Seq({"accepted", "declined", "expired"})]
        /\ inbox \in [Agents -> Seq(Letters)]
    BY DEF Init
  <2>5. ASSUME NEW a \in Agents
        PROVE  Len(inbox[a]) <= Capacity * Cardinality({b \in Agents : canon[b] = a})
    <3>1. Len(inbox[a]) = 0
      BY DEF Init
    <3>2. Capacity * Cardinality(Class(canon, a)) \in Nat
      BY ClassIs, Times, CapacityAssumption
    <3> QED  BY <3>1, <3>2 DEF Class
  <2>6. acked \subseteq Letters /\ owed \subseteq Agents /\ left \in 0..MaxDisturbances
    BY RequestsAssumption DEF Init
  <2>7. failed \in BOOLEAN
    BY DEF Init
  <2> QED  BY <2>1, <2>2, <2>3, <2>4, <2>5, <2>6, <2>7 DEF TypeOK
<1>2. EndsOnce /\ AskedOnce /\ Unmade
  BY DEF Init, EndsOnce, AskedOnce, Unmade
<1>3. Told
  BY DEF Init, Told
<1>4. Canonical
  BY DEF Init, Canonical, Held, EmptyTable
<1> QED  BY <1>1, <1>2, <1>3, <1>4 DEF IInv

(* A step that changes leases only, and gives none to a retired record. *)
LEMMA LeaseSteps ==
    ASSUME IInv, UNCHANGED <<canon, book, mail>>,
           leases' \in Tables, spent' \subseteq LeaseIds, gone' \subseteq Agents,
           \A i \in Held(leases') : canon[leases'[i].holder] = leases'[i].holder,
           failed' \in BOOLEAN, left' \in 0..MaxDisturbances
    PROVE  IInv'
<1>1. TypeOK'
  BY DEF IInv, TypeOK, book, mail
<1>2. EndsOnce' /\ AskedOnce' /\ Unmade'
  BY DEF IInv, EndsOnce, AskedOnce, Unmade, book
<1>3. Told'
  BY DEF IInv, Told, book, mail
<1>4. Canonical'
  BY DEF IInv, Canonical, mail
<1> QED  BY <1>1, <1>2, <1>3, <1>4 DEF IInv

(* A queue that only loses what is acknowledged loses nobody's message. *)
LEMMA StillTold ==
    ASSUME TypeOK, Told, UNCHANGED <<canon, request, ends>>, acked \subseteq acked',
           \A a \in Agents : Elements(inbox[a]) \subseteq acked' \cup Elements(inbox'[a]),
           Unmade
    PROVE  Told'
<1> SUFFICES ASSUME NEW r \in Requests
             PROVE  /\ request[r] # None =>
                          <<r, "ask">> \in acked' \cup Elements(inbox'[canon[request[r].holder]])
                    /\ ends[r] \in {<<"accepted">>, <<"declined">>} =>
                          <<r, "answer">> \in acked' \cup Elements(inbox'[canon[request[r].requester]])
  BY DEF Told
<1>1. request[r] # None => /\ canon[request[r].holder] \in Agents
                           /\ canon[request[r].requester] \in Agents
  BY DEF TypeOK, Request
<1>2. ends[r] \in {<<"accepted">>, <<"declined">>} => request[r] # None
  BY DEF Unmade
<1> QED  BY <1>1, <1>2 DEF Told

(* A lease that is claimed, let go, running out or moved belongs to a      *)
(* record that is nobody's earlier life.                                   *)
LEMMA TableSteps ==
    ASSUME IInv,
           \/ \E i \in LeaseIds :
                 \/ \E q \in Claims : Claim(q, i)
                 \/ LetGo(i) \/ RunOut(i) \/ \E b \in Agents : Give(i, b)
           \/ ExpireLeases
           \/ \E a \in Agents : Leave(a)
    PROVE  IInv'
<1> USE DEF IInv
<1>1. /\ leases \in Tables /\ spent \subseteq LeaseIds /\ gone \subseteq Agents
      /\ failed \in BOOLEAN /\ left \in 0..MaxDisturbances
  BY DEF TypeOK
<1>2. \A i \in Held(leases) : canon[leases[i].holder] = leases[i].holder
  BY DEF Canonical
<1>3. ASSUME NEW i \in LeaseIds, NEW q \in Claims, Claim(q, i) PROVE IInv'
  <2>1. NewLease(q) \in Lease /\ NewLease(q).holder = q.agent /\ canon[q.agent] = q.agent
    BY <1>3, RequestsAssumption DEF NewLease, Lease, Claim, Live
  <2>2. /\ leases' \in Tables
        /\ \A j \in LeaseIds : leases'[j] = IF j = i THEN NewLease(q) ELSE leases[j]
    BY <1>1, <1>3, <2>1 DEF Claim, Restore, Tables
  <2>3. \A j \in Held(leases') : canon[leases'[j].holder] = leases'[j].holder
    BY <1>2, <2>1, <2>2 DEF Held
  <2>4. UNCHANGED <<canon, gone, book, mail, failed, left>> /\ spent' \subseteq LeaseIds
    BY <1>1, <1>3 DEF Claim, who, world
  <2> QED  BY <1>1, <2>2, <2>3, <2>4, LeaseSteps
<1>4. ASSUME NEW ids, leases' = Remove(leases, ids),
             UNCHANGED <<spent, canon, book, mail, failed>>,
             gone' \subseteq Agents, left' \in 0..MaxDisturbances
      PROVE  IInv'
  <2>1. /\ leases' \in Tables
        /\ \A i \in Held(leases') : i \in Held(leases) /\ leases'[i] = leases[i]
    BY <1>1, <1>4, Removed
  <2>2. \A i \in Held(leases') : canon[leases'[i].holder] = leases'[i].holder
    BY <1>2, <2>1
  <2> QED  BY <1>1, <1>4, <2>1, <2>2, LeaseSteps
<1>5. ASSUME NEW i \in LeaseIds, LetGo(i) PROVE IInv'
  BY <1>1, <1>4, <1>5 DEF LetGo, who, world
<1>6. ASSUME NEW i \in LeaseIds, RunOut(i) PROVE IInv'
  <2>1. i \in Held(leases) /\ leases[i] \in Lease
    BY <1>1, <1>6, LeaseHeld DEF RunOut
  <2>2. /\ [leases[i] EXCEPT !.due = TRUE] \in Lease
        /\ [leases[i] EXCEPT !.due = TRUE].holder = leases[i].holder
    BY <2>1 DEF Lease
  <2>3. /\ leases' \in Tables
        /\ \A j \in LeaseIds : leases'[j] = IF j = i THEN [leases[i] EXCEPT !.due = TRUE]
                                                     ELSE leases[j]
    BY <1>1, <1>6, <2>2 DEF RunOut, Tables
  <2>4. \A j \in Held(leases') : canon[leases'[j].holder] = leases'[j].holder
    BY <1>2, <2>1, <2>2, <2>3 DEF Held
  <2>5. UNCHANGED <<spent, canon, gone, book, mail, failed, left>>
    BY <1>6 DEF RunOut, who, world
  <2> QED  BY <1>1, <2>3, <2>4, <2>5, LeaseSteps
<1>7. ASSUME NEW i \in LeaseIds, NEW b \in Agents, Give(i, b) PROVE IInv'
  <2>1. canon[b] = b
    BY <1>7 DEF Give, Live
  <2>2. ASSUME NEW l \in Lease
        PROVE  /\ [l EXCEPT !.holder = b, !.handed = TRUE] \in Lease
               /\ [l EXCEPT !.holder = b, !.handed = TRUE].holder = b
    <3>1. [l EXCEPT !.holder = b, !.handed = TRUE].holder = b
      BY DEF Lease
    <3>2. [l EXCEPT !.holder = b, !.handed = TRUE] \in Lease
      BY Zenon DEF Lease
    <3> QED  BY <3>1, <3>2
  <2>3. ASSUME NEW j \in LeaseIds
        PROVE  /\ leases'[j] \in Lease \cup {None}
               /\ leases'[j] # None => canon[leases'[j].holder] = leases'[j].holder
    <3> DEFINE moved == Movable(leases, leases[i].holder, {i})
    <3>1. leases'[j] = IF j \in moved THEN [leases[j] EXCEPT !.holder = b, !.handed = TRUE]
                                      ELSE leases[j]
      BY <1>7 DEF Give, TransferSelected
    <3>2. j \in moved => leases[j] \in Lease
      BY <1>1, LeaseHeld DEF Movable, ByHolder
    <3> HIDE DEF moved
    <3>3. leases[j] \in Lease \cup {None}
      BY <1>1 DEF Tables
    <3> QED  BY <1>2, <2>1, <2>2, <3>1, <3>2, <3>3 DEF Held
  <2>4. leases' \in Tables
    <3>1. leases' = [j \in LeaseIds |-> leases'[j]]
      BY <1>7 DEF Give, TransferSelected
    <3> QED  BY <2>3, <3>1 DEF Tables
  <2>5. \A j \in Held(leases') : canon[leases'[j].holder] = leases'[j].holder
    BY <2>3 DEF Held
  <2>6. UNCHANGED <<spent, canon, gone, book, mail, failed>> /\ left' \in 0..MaxDisturbances
    BY <1>1, <1>7, SpendIs DEF Give, who
  <2> QED  BY <1>1, <2>4, <2>5, <2>6, LeaseSteps
<1>8. ASSUME ExpireLeases PROVE IInv'
  BY <1>1, <1>4, <1>8 DEF ExpireLeases, Expire, who, world
<1>9. ASSUME NEW a \in Agents, Leave(a) PROVE IInv'
  <2>1. left' \in 0..MaxDisturbances
    BY <1>1, <1>9, SpendIs DEF Leave
  <2> QED  BY <1>1, <1>4, <1>9, <2>1 DEF Leave
<1> QED  BY <1>3, <1>5, <1>6, <1>7, <1>8, <1>9

(* The store fails or the daemon is started again. *)
LEMMA WorldSteps ==
    ASSUME IInv, StoreFails \/ Restart \/ UNCHANGED vars
    PROVE  IInv'
<1>1. /\ leases \in Tables /\ spent \subseteq LeaseIds /\ gone \subseteq Agents
      /\ failed \in BOOLEAN /\ left \in 0..MaxDisturbances
      /\ \A i \in Held(leases) : canon[leases[i].holder] = leases[i].holder
  BY DEF IInv, TypeOK, Canonical
<1>2. UNCHANGED <<leases, spent, canon, gone, book, mail>>
  BY DEF StoreFails, Restart, vars, table, who
<1>3. failed' \in BOOLEAN
  BY <1>1 DEF StoreFails, Restart, vars, world
<1>4. left' \in 0..MaxDisturbances
  BY <1>1, SpendIs DEF StoreFails, Restart, vars, world
<1> QED  BY <1>1, <1>2, <1>3, <1>4, LeaseSteps

(* A request that is made is one. *)
LEMMA PendingIs ==
    ASSUME TypeOK, Unmade, NEW r \in pending
    PROVE  r \in Requests /\ request[r] # None /\ request[r] \in Request
BY DEF TypeOK, Unmade

(* A request runs out. *)
LEMMA LapseStep ==
    ASSUME IInv, NEW r \in Requests, Lapse(r)
    PROVE  IInv'
<1> USE DEF IInv
<1>1. r \in pending /\ request[r] # None /\ request[r] \in Request
  BY PendingIs DEF Lapse
<1> DEFINE q == [request[r] EXCEPT !.due = TRUE]
<1>2. /\ q \in Request
      /\ q.requester = request[r].requester /\ q.holder = request[r].holder
      /\ q.resource = request[r].resource
  BY <1>1 DEF Request
<1>3. q # None
  BY <1>2, RequestsAssumption
<1>4. request' = [request EXCEPT ![r] = q]
  BY DEF Lapse
<1> HIDE DEF q
<1>5. request \in [Requests -> Request \cup {None}]
  BY DEF TypeOK
<1>6. \A s \in Requests : /\ request'[s] = None <=> request[s] = None
                          /\ request'[s].requester = request[s].requester
                          /\ request'[s].holder = request[s].holder
                          /\ request'[s].resource = request[s].resource
  BY <1>1, <1>2, <1>3, <1>4, <1>5
<1>7. UNCHANGED <<leases, spent, canon, gone, pending, ends, inbox, acked, owed, failed, left>>
  BY DEF Lapse, table, who, mail, world
<1>8. TypeOK'
  BY <1>2, <1>4, <1>5, <1>7 DEF TypeOK
<1>9. EndsOnce' /\ Unmade'
  BY <1>6, <1>7 DEF EndsOnce, Unmade
<1>10. AskedOnce'
  BY <1>6, <1>7, PendingIs DEF AskedOnce
<1>11. Told'
  BY <1>6, <1>7 DEF Told
<1>12. Canonical'
  BY <1>7 DEF Canonical
<1> QED  BY <1>8, <1>9, <1>10, <1>11, <1>12

(* The requests that wait are finitely many, and fewer of them are fewer. *)
LEMMA FewerPending ==
    ASSUME TypeOK, NEW S \in SUBSET pending
    PROVE  /\ IsFiniteSet(pending) /\ Cardinality(pending) \in Nat
           /\ S \subseteq Requests /\ Cardinality(S) <= MaxRequests
<1>1. pending \in SUBSET Requests /\ IsFiniteSet(Requests) /\ Cardinality(pending) <= MaxRequests
  BY RequestsAssumption DEF TypeOK
<1>2. IsFiniteSet(pending) /\ Cardinality(pending) \in Nat
  BY <1>1, FS_Subset, FS_CardinalityType
<1>3. Cardinality(S) <= Cardinality(pending) /\ Cardinality(S) \in Nat
  BY <1>2, FS_Subset, FS_CardinalityType
<1> QED  BY <1>1, <1>2, <1>3, RequestsAssumption

(* A request that waits ends: by running out, or by the answer it gets.    *)
(* What is left of the leases is what it was.                              *)
LEMMA EndStep ==
    ASSUME IInv, NEW r \in pending, NEW how \in {"accepted", "declined", "expired"}, NEW ids,
           UNCHANGED <<spent, canon, gone, request, acked, owed, failed, left>>,
           leases' = Remove(leases, ids),
           pending' = pending \ {r},
           ends' = [ends EXCEPT ![r] = Append(@, how)],
           Boxes(inbox', canon),
           \A a \in Agents : Elements(inbox[a]) \subseteq Elements(inbox'[a]),
           how # "expired" =>
               <<r, "answer">> \in Elements(inbox'[canon[request[r].requester]])
    PROVE  IInv'
<1> USE DEF IInv
<1>1. r \in Requests /\ request[r] # None /\ request[r] \in Request
  BY PendingIs
<1>2. ends[r] = <<>> /\ ends \in [Requests -> Seq({"accepted", "declined", "expired"})]
  BY <1>1 DEF EndsOnce, TypeOK
<1>3. ends'[r] = <<how>> /\ \A s \in Requests \ {r} : ends'[s] = ends[s]
  BY <1>1, <1>2
<1>4. pending' \subseteq Requests /\ Cardinality(pending') <= MaxRequests
  BY FewerPending
<1>5. ends' \in [Requests -> Seq({"accepted", "declined", "expired"})]
  BY <1>1, <1>2
<1>6. /\ leases' \in Tables
      /\ \A i \in Held(leases') : i \in Held(leases) /\ leases'[i] = leases[i]
  BY Removed DEF TypeOK
<1>7. TypeOK'
  BY <1>4, <1>5, <1>6 DEF TypeOK, Boxes, Class
<1>8. EndsOnce'
  BY <1>1, <1>3 DEF EndsOnce
<1>9. AskedOnce'
  BY DEF AskedOnce
<1>10. Unmade'
  BY <1>1, <1>3 DEF Unmade
<1>11. Canonical'
  BY <1>6 DEF Canonical
<1>12. Told'
  <2> SUFFICES ASSUME NEW s \in Requests
               PROVE  /\ request[s] # None =>
                            <<s, "ask">> \in acked \cup Elements(inbox'[canon[request[s].holder]])
                      /\ ends'[s] \in {<<"accepted">>, <<"declined">>} =>
                            <<s, "answer">> \in acked \cup Elements(inbox'[canon[request[s].requester]])
    BY DEF Told
  <2>1. request[s] # None => /\ canon[request[s].holder] \in Agents
                             /\ canon[request[s].requester] \in Agents
    BY DEF TypeOK, Request
  <2>2. request[s] # None =>
            <<s, "ask">> \in acked \cup Elements(inbox'[canon[request[s].holder]])
    BY <2>1 DEF Told
  <2>3. CASE s = r
    BY <1>3, <2>2, <2>3
  <2>4. CASE s # r
    <3>1. ends[s] \in {<<"accepted">>, <<"declined">>} => request[s] # None
      BY DEF Unmade
    <3> QED  BY <1>3, <2>1, <2>2, <2>4, <3>1 DEF Told
  <2> QED  BY <2>3, <2>4
<1> QED  BY <1>7, <1>8, <1>9, <1>10, <1>11, <1>12

(* Taking nothing from a table leaves it. *)
LEMMA RemoveNothing ==
    ASSUME NEW t \in Tables PROVE Remove(t, {}) = t
BY DEF Remove, Tables

(* A request that nobody answered expires. *)
LEMMA ExpireRequestStep ==
    ASSUME IInv, NEW r \in Requests, ExpireRequest(r)
    PROVE  IInv'
<1>1. Boxes(inbox', canon)
  BY TypeBoxes DEF IInv, ExpireRequest, mail
<1>2. leases' = Remove(leases, {})
  BY RemoveNothing DEF IInv, TypeOK, ExpireRequest, table
<1>3. /\ UNCHANGED <<spent, canon, gone, request, acked, owed, failed, left, inbox>>
      /\ r \in pending /\ pending' = pending \ {r}
      /\ ends' = [ends EXCEPT ![r] = Append(@, "expired")]
  BY DEF ExpireRequest, table, who, mail, world
<1> QED  BY <1>1, <1>2, <1>3, EndStep

(* A holder accepts or declines. *)
LEMMA RespondStep ==
    ASSUME IInv, NEW r \in Requests, NEW accept \in BOOLEAN, Respond(r, accept)
    PROVE  IInv'
<1> USE DEF IInv
<1>1. r \in pending /\ request[r] # None /\ request[r] \in Request
  BY PendingIs DEF Respond
<1> DEFINE to == canon[request[r].requester]
           new == Enqueue(inbox, {to}, <<r, "answer">>)
           how == IF accept THEN "accepted" ELSE "declined"
<1>2. to \in Agents /\ canon[to] = to
  BY <1>1 DEF TypeOK, Request, Canonical
<1>3. Takes(inbox, to) /\ inbox' = new
  BY DEF Respond, AnswerTo
<1>4. inbox \in Queues(Agents, Letters) /\ <<r, "answer">> \in Letters
  BY DEF TypeOK, Letters, Queues
<1> HIDE DEF to
<1>5. \A a \in {to} : a \in Agents /\ Takes(inbox, a)
  BY <1>2, <1>3
<1>6. /\ new \in Queues(Agents, Letters)
      /\ \A a \in {to} : /\ Len(new[a]) <= Capacity
                         /\ Elements(new[a]) = Elements(inbox[a]) \cup {<<r, "answer">>}
      /\ \A a \in Agents \ {to} : new[a] = inbox[a]
  BY <1>4, <1>5, EnqueueIs
<1> HIDE DEF new
<1>7. Boxes(new, canon)
  <2> SUFFICES ASSUME NEW a \in Agents
               PROVE  Len(new[a]) <= Capacity * Cardinality(Class(canon, a))
    BY <1>6 DEF Boxes, Queues
  <2>1. CASE a # to
    BY <1>6, <2>1, TypeBoxes DEF Boxes
  <2>2. CASE a = to
    <3>1. Len(new[a]) <= Capacity /\ Len(new[a]) \in Nat
      BY <1>6, <2>2 DEF Queues
    <3>2. Capacity <= Capacity * Cardinality(Class(canon, a))
      BY <1>2, <2>2, Room
    <3>3. Capacity * Cardinality(Class(canon, a)) \in Nat
      BY ClassIs, Times, CapacityAssumption
    <3> QED  BY <3>1, <3>2, <3>3, CapacityAssumption
  <2> QED  BY <2>1, <2>2
<1>8. PICK ids : leases' = Remove(leases, ids)
  <2>1. leases' = Remove(leases, IF accept THEN StillHeld(r) ELSE {})
    BY RemoveNothing DEF Respond, TypeOK
  <2> QED  BY <2>1
<1>9. how \in {"accepted", "declined", "expired"}
  OBVIOUS
<1>10. /\ UNCHANGED <<spent, canon, gone, request, acked, owed, failed, left>>
       /\ pending' = pending \ {r}
       /\ ends' = [ends EXCEPT ![r] = Append(@, how)]
  BY DEF Respond, who, world
<1>11. \A a \in Agents : Elements(inbox[a]) \subseteq Elements(inbox'[a])
  BY <1>3, <1>6
<1>12. <<r, "answer">> \in Elements(inbox'[canon[request[r].requester]])
  BY <1>3, <1>6 DEF to
<1>13. Boxes(inbox', canon)
  BY <1>3, <1>7
<1> HIDE DEF how, IInv
<1> QED  BY <1>1, <1>8, <1>9, <1>10, <1>11, <1>12, <1>13, EndStep

(* A step on the queues alone. *)
LEMMA MailStep ==
    ASSUME IInv, UNCHANGED <<table, who, book, failed>>, left' \in 0..MaxDisturbances,
           Boxes(inbox', canon), acked \subseteq acked', acked' \subseteq Letters,
           \A a \in Agents : Elements(inbox[a]) \subseteq acked' \cup Elements(inbox'[a]),
           owed' \subseteq Agents, \A a \in owed' : canon[a] = a
    PROVE  IInv'
<1> USE DEF IInv, table, who, book
<1>1. TypeOK'
  BY DEF TypeOK, Boxes, Class
<1>2. EndsOnce' /\ AskedOnce' /\ Unmade'
  BY DEF EndsOnce, AskedOnce, Unmade
<1>3. Told'
  BY StillTold
<1>4. Canonical'
  BY DEF Canonical
<1> QED  BY <1>1, <1>2, <1>3, <1>4

(* Questions fall due and are swept, messages are acknowledged. *)
LEMMA MailSteps ==
    ASSUME IInv,
           \/ SweepQuestions
           \/ \E a \in Agents : FallsDue(a) \/ \E m \in Elements(inbox[a]) : Ack(a, m)
    PROVE  IInv'
<1>1. /\ Boxes(inbox, canon) /\ acked \subseteq Letters /\ owed \subseteq Agents
      /\ left \in 0..MaxDisturbances /\ \A a \in owed : canon[a] = a
  BY TypeBoxes DEF IInv, TypeOK, Canonical
<1>2. CASE SweepQuestions
  <2>1. /\ Boxes(SweptBox, canon)
        /\ \A a \in Agents : Elements(inbox[a]) \subseteq Elements(SweptBox[a])
    BY SweptIs DEF IInv
  <2>2. /\ inbox' = SweptBox /\ owed' \subseteq owed
        /\ UNCHANGED <<table, who, book, acked, failed, left>>
    BY <1>2 DEF SweepQuestions, world
  <2> QED  BY <1>1, <2>1, <2>2, MailStep
<1>3. ASSUME NEW a \in Agents, FallsDue(a) PROVE IInv'
  <2>1. left' \in 0..MaxDisturbances
    BY <1>1, <1>3, SpendIs DEF FallsDue
  <2>2. /\ owed' = owed \cup {a} /\ canon[a] = a
        /\ UNCHANGED <<table, who, book, inbox, acked, failed>>
    BY <1>3 DEF FallsDue
  <2> QED  BY <1>1, <2>1, <2>2, MailStep
<1>4. ASSUME NEW a \in Agents, NEW m \in Elements(inbox[a]), Ack(a, m) PROVE IInv'
  <2>1. inbox \in Queues(Agents, Letters)
    BY <1>1 DEF Boxes, Queues
  <2>2. m \in Letters
    BY <2>1, LettersIn DEF Queues
  <2> DEFINE new == AckInbox(inbox, a, {m})
  <2>3. /\ new \in Queues(Agents, Letters)
        /\ Len(new[a]) <= Len(inbox[a])
        /\ Elements(new[a]) = Elements(inbox[a]) \ {m}
        /\ \A b \in Agents \ {a} : new[b] = inbox[b]
    BY <2>1, AckIs
  <2> HIDE DEF new
  <2>4. /\ inbox' = new /\ acked' = acked \cup {m}
        /\ UNCHANGED <<table, who, book, owed, failed, left>>
    BY <1>4 DEF Ack, new, world
  <2>5. ASSUME NEW b \in Agents
        PROVE  Len(new[b]) <= Capacity * Cardinality(Class(canon, b))
    <3>1. Len(new[b]) <= Len(inbox[b]) /\ Len(new[b]) \in Nat /\ Len(inbox[b]) \in Nat
      <4>1. new[b] \in Seq(Letters) /\ inbox[b] \in Seq(Letters)
        BY <2>1, <2>3 DEF Queues
      <4>2. Len(new[b]) \in Nat /\ Len(inbox[b]) \in Nat
        BY <4>1
      <4>3. b # a => new[b] = inbox[b]
        BY <2>3
      <4> QED  BY <2>3, <4>2, <4>3
    <3>2. Len(inbox[b]) <= Capacity * Cardinality(Class(canon, b))
      BY <1>1 DEF Boxes
    <3>3. Capacity * Cardinality(Class(canon, b)) \in Nat
      BY ClassIs, Times, CapacityAssumption
    <3> QED  BY <3>1, <3>2, <3>3
  <2>6. Boxes(inbox', canon)
    BY <2>3, <2>4, <2>5 DEF Boxes, Queues
  <2>7. \A b \in Agents : Elements(inbox[b]) \subseteq acked' \cup Elements(inbox'[b])
    BY <2>3, <2>4
  <2> QED  BY <1>1, <2>2, <2>4, <2>6, <2>7, MailStep
<1> QED  BY <1>2, <1>3, <1>4

(* The earlier record of a session takes over what the later one has: its  *)
(* queue, what it is owed, and the name it answers to.                     *)
LEMMA FoldStep ==
    ASSUME IInv, NEW a \in Agents, NEW b \in Agents, Fold(a, b)
    PROVE  IInv'
<1> USE DEF IInv
<1>1. /\ canon[a] = a /\ canon[b] = b /\ a # b /\ b \in gone
      /\ ByHolder(leases, a) = {} /\ left' \in 0..MaxDisturbances
      /\ canon' = [c \in Agents |-> IF canon[c] = a THEN b ELSE canon[c]]
      /\ gone' = gone \ {b}
      /\ inbox' = [inbox EXCEPT ![b] = @ \o inbox[a], ![a] = <<>>]
      /\ owed' = (owed \ {a}) \cup IF a \in owed THEN {b} ELSE {}
      /\ UNCHANGED <<leases, spent, request, pending, ends, acked, failed>>
  BY SpendIs DEF Fold, Live, table, book, TypeOK
<1>2. canon \in [Agents -> Agents] /\ canon' \in [Agents -> Agents]
  BY <1>1 DEF TypeOK
<1>3. \A c \in Agents : canon'[c] = IF canon[c] = a THEN b ELSE canon[c]
  BY <1>1
<1>4. inbox[a] \in Seq(Letters) /\ inbox[b] \in Seq(Letters)
  BY DEF TypeOK
<1>5. /\ inbox[b] \o inbox[a] \in Seq(Letters)
      /\ Len(inbox[b] \o inbox[a]) = Len(inbox[b]) + Len(inbox[a])
      /\ Elements(inbox[b] \o inbox[a]) = Elements(inbox[b]) \cup Elements(inbox[a])
  BY <1>4, ElementsConcat
<1>6. /\ inbox' \in [Agents -> Seq(Letters)]
      /\ inbox'[b] = inbox[b] \o inbox[a] /\ inbox'[a] = <<>>
      /\ \A c \in Agents \ {a, b} : inbox'[c] = inbox[c]
  <2> DEFINE joined == inbox[b] \o inbox[a]
  <2>1. joined \in Seq(Letters) /\ <<>> \in Seq(Letters)
    BY <1>5
  <2>2. inbox' = [inbox EXCEPT ![b] = joined, ![a] = <<>>]
    BY <1>1
  <2>3. inbox \in [Agents -> Seq(Letters)]
    BY DEF TypeOK
  <2> HIDE DEF joined
  <2>4. /\ inbox' \in [Agents -> Seq(Letters)]
        /\ inbox'[b] = joined /\ inbox'[a] = <<>>
        /\ \A c \in Agents \ {a, b} : inbox'[c] = inbox[c]
    BY <1>1, <2>1, <2>2, <2>3
  <2> QED  BY <2>4 DEF joined
<1>7. /\ Class(canon', b) = Class(canon, b) \cup Class(canon, a)
      /\ Class(canon, b) \cap Class(canon, a) = {}
      /\ \A c \in Agents \ {a, b} : Class(canon', c) = Class(canon, c)
  BY <1>1, <1>3 DEF Class
<1>8. Boxes(inbox', canon')
  <2> SUFFICES ASSUME NEW c \in Agents
               PROVE  Len(inbox'[c]) <= Capacity * Cardinality(Class(canon', c))
    BY <1>6 DEF Boxes
  <2>1. CASE c = a
    <3>1. Len(inbox'[c]) = 0
      BY <1>6, <2>1
    <3>2. Capacity * Cardinality(Class(canon', c)) \in Nat
      BY ClassIs, Times, CapacityAssumption
    <3> QED  BY <3>1, <3>2
  <2>2. CASE c = b
    <3> DEFINE m == Cardinality(Class(canon, b))
               n == Cardinality(Class(canon, a))
    <3>1. IsFiniteSet(Class(canon, b)) /\ IsFiniteSet(Class(canon, a)) /\ m \in Nat /\ n \in Nat
      BY ClassIs
    <3>2. Cardinality(Class(canon', b)) = m + n
      BY <1>7, <3>1, FS_Union, FS_EmptySet
    <3> HIDE DEF m, n
    <3>3. Len(inbox[b]) <= Capacity * m /\ Len(inbox[a]) <= Capacity * n
      BY TypeBoxes DEF Boxes, m, n
    <3>4. Len(inbox[b]) \in Nat /\ Len(inbox[a]) \in Nat
      BY <1>4
    <3>5. Capacity * (m + n) = Capacity * m + Capacity * n
          /\ Capacity * m \in Nat /\ Capacity * n \in Nat
      BY <3>1, Times, CapacityAssumption
    <3>6. Len(inbox'[b]) = Len(inbox[b]) + Len(inbox[a])
      BY <1>5, <1>6
    <3> DEFINE u == Capacity * m
               v == Capacity * n
    <3>7. Capacity * (m + n) = u + v /\ u \in Nat /\ v \in Nat
      BY <3>5
    <3>8. Len(inbox[b]) <= u /\ Len(inbox[a]) <= v
      BY <3>3
    <3> HIDE DEF u, v
    <3>9. Len(inbox'[b]) <= u + v
      <4>1. u \in Nat /\ v \in Nat
        BY <3>7
      <4>2. Len(inbox[b]) + Len(inbox[a]) <= u + v
        BY <3>4, <3>8, <4>1, Sums
      <4> QED  BY <3>6, <4>2
    <3> QED  BY <2>2, <3>2, <3>7, <3>9
  <2>3. CASE c # a /\ c # b
    BY <1>6, <1>7, <2>3, TypeBoxes DEF Boxes
  <2> QED  BY <2>1, <2>2, <2>3
<1>9. TypeOK'
  <2>1. gone' \subseteq Agents /\ owed' \subseteq Agents
    BY <1>1 DEF TypeOK
  <2> QED  BY <1>1, <1>2, <1>8, <2>1 DEF TypeOK, Boxes, Class
<1>10. EndsOnce' /\ AskedOnce' /\ Unmade'
  BY <1>1 DEF EndsOnce, AskedOnce, Unmade
<1>11. Told'
  <2>1. ASSUME NEW x \in Agents
        PROVE  Elements(inbox[canon[x]]) \subseteq Elements(inbox'[canon'[x]])
    <3>1. canon[x] \in Agents
      BY <1>2
    <3>2. CASE canon[x] = a
      BY <1>3, <1>5, <1>6, <3>2
    <3>3. CASE canon[x] = b
      BY <1>1, <1>3, <1>5, <1>6, <3>3
    <3>4. CASE canon[x] # a /\ canon[x] # b
      BY <1>3, <1>6, <3>1, <3>4
    <3> QED  BY <3>2, <3>3, <3>4
  <2> SUFFICES ASSUME NEW r \in Requests
               PROVE  /\ request[r] # None =>
                            <<r, "ask">> \in acked \cup Elements(inbox'[canon'[request[r].holder]])
                      /\ ends[r] \in {<<"accepted">>, <<"declined">>} =>
                            <<r, "answer">> \in acked \cup Elements(inbox'[canon'[request[r].requester]])
    BY <1>1 DEF Told
  <2>2. request[r] # None => request[r].holder \in Agents /\ request[r].requester \in Agents
    BY DEF TypeOK, Request
  <2>3. ends[r] \in {<<"accepted">>, <<"declined">>} => request[r] # None
    BY DEF Unmade
  <2> QED  BY <2>1, <2>2, <2>3 DEF Told
<1>12. Canonical'
  <2>1. \A c \in Agents : canon'[canon'[c]] = canon'[c]
    BY <1>1, <1>2, <1>3 DEF Canonical
  <2>2. ASSUME NEW i \in Held(leases')
        PROVE  canon'[leases'[i].holder] = leases'[i].holder
    <3>1. /\ i \in Held(leases) /\ leases[i].holder \in Agents
          /\ canon[leases[i].holder] = leases[i].holder
      BY <1>1, LeaseHeld DEF TypeOK, Canonical
    <3>2. leases[i].holder # a
      BY <1>1, <3>1 DEF ByHolder
    <3> QED  BY <1>1, <1>3, <3>1, <3>2
  <2>3. ASSUME NEW c \in owed' PROVE canon'[c] = c
    <3>1. c = b \/ (c \in owed /\ c # a)
      BY <1>1
    <3>2. c \in Agents /\ canon[c] = c
      BY <1>1, <3>1 DEF Canonical, TypeOK
    <3> QED  BY <1>1, <1>3, <3>1, <3>2
  <2> QED  BY <2>1, <2>2, <2>3 DEF Canonical
<1> QED  BY <1>9, <1>10, <1>11, <1>12

(* request_release asks each of the holders that is not asked yet, or as   *)
(* many as it gets to; the ids it uses are new and one for each.           *)
LEMMA AskStep ==
    ASSUME IInv, NEW a \in Agents, NEW s \in Resources, NEW id \in [Holders(a, s) -> Unused],
           \A g, h \in Holders(a, s) : id[g] = id[h] => g = h,
           Ask(a, s, id)
    PROVE  IInv'
<1> USE DEF IInv
<1> DEFINE new == NewlyAsked(a, s)
<1>1. /\ canon[a] = a
      /\ Cardinality(pending) + Cardinality(new) <= MaxRequests
      /\ owed' = owed \ Sweepable
      /\ UNCHANGED <<leases, spent, canon, gone, ends, acked>>
  BY DEF Ask, Live, table, who
<1>2. PICK done \in SUBSET new :
         /\ \A h \in done : Takes(SweptBox, h)
         /\ \/ UNCHANGED world
            \/ Spend("failure") /\ failed' = TRUE
         /\ request' = [r \in Requests |->
               IF \E h \in done : r = id[h]
               THEN LET h == CHOOSE g \in done : r = id[g]
                    IN  [requester |-> a, holder |-> h, resource |-> s,
                         ids |-> InItsWay(a, s, h), due |-> FALSE]
               ELSE request[r]]
         /\ pending' = pending \cup {id[h] : h \in done}
         /\ inbox' = [h \in Agents |-> IF h \in done
                                       THEN Append(SweptBox[h], <<id[h], "ask">>)
                                       ELSE SweptBox[h]]
  BY DEF Ask
<1>3. /\ Boxes(SweptBox, canon)
      /\ \A h \in Agents : Elements(inbox[h]) \subseteq Elements(SweptBox[h])
  BY SweptIs
<1>4. ASSUME NEW h \in done
      PROVE  /\ h \in Agents /\ h \in Holders(a, s) /\ canon[h] = h /\ ~Waits(a, s, h)
             /\ id[h] \in Requests /\ request[id[h]] = None /\ ends[id[h]] = <<>>
             /\ id[h] \notin pending
             /\ InItsWay(a, s, h) \subseteq LeaseIds
             /\ request'[id[h]] = [requester |-> a, holder |-> h, resource |-> s,
                                   ids |-> InItsWay(a, s, h), due |-> FALSE]
  <2>1. h \in Agents /\ h \in Holders(a, s) /\ ~Waits(a, s, h)
    BY DEF NewlyAsked, Holders
  <2>2. PICK i \in Held(leases) : leases[i].holder = h
    BY <2>1 DEF Holders, InItsWay, ByHolder
  <2>3. canon[h] = h
    BY <2>2 DEF Canonical
  <2>4. id[h] \in Requests /\ request[id[h]] = None
    BY <2>1 DEF Unused
  <2>5. ends[id[h]] = <<>> /\ id[h] \notin pending
    BY <2>4 DEF Unmade
  <2>6. InItsWay(a, s, h) \subseteq LeaseIds
    BY DEF InItsWay, ByHolder, Held
  <2>7. (CHOOSE g \in done : id[h] = id[g]) = h
    <3>1. \A g \in done : id[h] = id[g] => g = h
      BY <2>1 DEF NewlyAsked
    <3> QED  BY <3>1
  <2>8. request'[id[h]] = [requester |-> a, holder |-> h, resource |-> s,
                           ids |-> InItsWay(a, s, h), due |-> FALSE]
    BY <1>2, <2>4, <2>7
  <2> QED  BY <2>1, <2>3, <2>4, <2>5, <2>6, <2>8
<1> DEFINE used == {id[h] : h \in done}
<1>5. \A r \in Requests \ used : request'[r] = request[r]
  BY <1>2
<1>6. ASSUME NEW h \in done
      PROVE  /\ request'[id[h]] \in Request /\ request'[id[h]] # None
             /\ request'[id[h]].requester = a /\ request'[id[h]].holder = h
             /\ request'[id[h]].resource = s
  <2> DEFINE q == [requester |-> a, holder |-> h, resource |-> s,
                   ids |-> InItsWay(a, s, h), due |-> FALSE]
  <2>1. h \in Agents /\ InItsWay(a, s, h) \in SUBSET LeaseIds /\ request'[id[h]] = q
    BY <1>4
  <2>2. q \in Request
    BY <2>1, Zenon DEF Request
  <2>3. q.requester = a /\ q.holder = h /\ q.resource = s
    OBVIOUS
  <2> HIDE DEF q
  <2> QED  BY <2>1, <2>2, <2>3, RequestsAssumption
<1>7. request' \in [Requests -> Request \cup {None}]
  <2>1. request' = [r \in Requests |-> request'[r]]
    BY <1>2
  <2>2. ASSUME NEW r \in Requests PROVE request'[r] \in Request \cup {None}
    <3>1. CASE r \in used
      BY <1>6, <3>1
    <3>2. CASE r \notin used
      BY <1>5, <3>2 DEF TypeOK
    <3> QED  BY <3>1, <3>2
  <2> QED  BY <2>1, <2>2
<1>8. pending' \subseteq Requests /\ Cardinality(pending') <= MaxRequests
  <2>1. new \in SUBSET Agents /\ IsFiniteSet(Agents)
    BY RequestsAssumption DEF NewlyAsked, Holders
  <2>2. IsFiniteSet(new) /\ Cardinality(new) \in Nat
    BY <2>1, FS_Subset, FS_CardinalityType
  <2>3. IsFiniteSet(done) /\ Cardinality(done) <= Cardinality(new) /\ Cardinality(done) \in Nat
    BY <2>2, FS_Subset, FS_CardinalityType
  <2>4. IsFiniteSet(used) /\ Cardinality(used) <= Cardinality(done) /\ Cardinality(used) \in Nat
    <3> DEFINE f == [h \in done |-> id[h]]
    <3>1. f \in Surjection(done, used)
      BY DEF Surjection
    <3> HIDE DEF f, used
    <3>2. IsFiniteSet(used) /\ Cardinality(used) <= Cardinality(done)
      BY <2>3, <3>1, FS_Surjection, Zenon
    <3> QED  BY <3>2, FS_CardinalityType
  <2>5. used \subseteq Requests
    <3>1. \A h \in done : id[h] \in Requests
      BY <1>4
    <3> QED  BY <3>1
  <2>6. IsFiniteSet(pending) /\ Cardinality(pending) \in Nat /\ pending \subseteq Requests
    BY FewerPending DEF TypeOK
  <2> HIDE DEF used
  <2>7. /\ Cardinality(pending \cup used) =
              Cardinality(pending) + Cardinality(used) - Cardinality(pending \cap used)
        /\ Cardinality(pending \cap used) \in Nat
    <3>1. IsFiniteSet(pending \cap used)
      BY <2>6, FS_Subset
    <3> QED  BY <2>4, <2>6, <3>1, FS_Union, FS_CardinalityType
  <2>8. pending' = pending \cup used
    BY <1>2 DEF used
  <2> HIDE DEF new
  <2> QED  BY <1>1, <2>2, <2>3, <2>4, <2>5, <2>6, <2>7, <2>8, RequestsAssumption
<1>9. ASSUME NEW h \in done
      PROVE  /\ inbox'[h] \in Seq(Letters) /\ Len(inbox'[h]) <= Capacity
             /\ Elements(inbox'[h]) = Elements(SweptBox[h]) \cup {<<id[h], "ask">>}
  <2>1. /\ SweptBox[h] \in Seq(Letters) /\ <<id[h], "ask">> \in Letters
        /\ Len(SweptBox[h]) < Capacity
    BY <1>2, <1>3, <1>4 DEF Boxes, Letters, Takes
  <2>2. inbox'[h] = Append(SweptBox[h], <<id[h], "ask">>)
    BY <1>2, <1>4
  <2> QED  BY <2>1, <2>2, AppendIs
<1>10. \A h \in Agents \ done : inbox'[h] = SweptBox[h]
  BY <1>2
<1>11. Boxes(inbox', canon)
  <2>1. ASSUME NEW h \in Agents
        PROVE  /\ inbox'[h] \in Seq(Letters)
               /\ Len(inbox'[h]) <= Capacity * Cardinality(Class(canon, h))
    <3>1. CASE h \notin done
      BY <1>3, <1>10, <3>1 DEF Boxes
    <3>2. CASE h \in done
      <4>1. inbox'[h] \in Seq(Letters) /\ Len(inbox'[h]) <= Capacity /\ Len(inbox'[h]) \in Nat
        BY <1>9, <3>2
      <4>2. Capacity <= Capacity * Cardinality(Class(canon, h))
        BY <1>4, <3>2, Room
      <4>3. Capacity * Cardinality(Class(canon, h)) \in Nat
        BY ClassIs, Times, CapacityAssumption
      <4> QED  BY <4>1, <4>2, <4>3, CapacityAssumption
    <3> QED  BY <3>1, <3>2
  <2>2. inbox' = [h \in Agents |-> inbox'[h]]
    BY <1>2
  <2> QED  BY <2>1, <2>2 DEF Boxes
<1>12. \A h \in Agents : Elements(inbox[h]) \subseteq Elements(inbox'[h])
  BY <1>3, <1>9, <1>10
<1>13. failed' \in BOOLEAN
  BY <1>2 DEF world, TypeOK
<1>14. left' \in 0..MaxDisturbances
  BY <1>2, SpendIs DEF world, TypeOK
<1>15. TypeOK'
  BY <1>1, <1>7, <1>8, <1>11, <1>13, <1>14 DEF TypeOK, Boxes, Class
<1>16. ASSUME NEW r \in Requests
       PROVE  \/ r \notin used /\ request'[r] = request[r] /\ (r \in pending' <=> r \in pending)
              \/ \E h \in done : r = id[h] /\ r \in pending'
  BY <1>2, <1>5
<1> HIDE DEF used, new
<1>17. EndsOnce' /\ Unmade'
  <2> SUFFICES ASSUME NEW r \in Requests
               PROVE  /\ request'[r] # None =>
                            Len(ends[r]) <= 1 /\ (r \in pending' <=> ends[r] = <<>>)
                      /\ request'[r] = None => ends[r] = <<>> /\ r \notin pending'
    BY <1>1 DEF EndsOnce, Unmade
  <2>1. CASE request'[r] = request[r] /\ (r \in pending' <=> r \in pending)
    <3>1. request[r] # None => Len(ends[r]) <= 1 /\ (r \in pending <=> ends[r] = <<>>)
      BY DEF EndsOnce
    <3>2. request[r] = None => ends[r] = <<>> /\ r \notin pending
      BY DEF Unmade
    <3> QED  BY <2>1, <3>1, <3>2
  <2>2. CASE \E h \in done : r = id[h] /\ r \in pending'
    <3>1. PICK h \in done : r = id[h] /\ r \in pending'
      BY <2>2
    <3>2. request'[r] # None /\ ends[r] = <<>>
      BY <1>4, <1>6, <3>1
    <3>3. Len(ends[r]) <= 1
      BY <3>2
    <3> QED  BY <3>1, <3>2, <3>3
  <2> QED  BY <1>16, <2>1, <2>2
<1>18. AskedOnce'
  <2> SUFFICES ASSUME NEW p \in pending', NEW q \in pending',
                      request'[p].requester = request'[q].requester,
                      request'[p].holder = request'[q].holder,
                      request'[p].resource = request'[q].resource
               PROVE  p = q
    BY DEF AskedOnce
  <2>1. p \in Requests /\ q \in Requests
    BY <1>8
  <2>2. ASSUME NEW h \in done, NEW r \in pending,
               request[r].requester = a, request[r].holder = h, request[r].resource = s
        PROVE  FALSE
    BY <1>1, <1>4, <2>2 DEF Waits
  <2>3. CASE p \notin used /\ q \notin used
    BY <1>16, <2>1, <2>3 DEF AskedOnce, used
  <2>4. CASE p \in used /\ q \in used
    BY <1>6, <2>4 DEF used
  <2>5. CASE p \in used /\ q \notin used
    <3>1. PICK h \in done : p = id[h]
      BY <2>5 DEF used
    <3>2. q \in pending /\ request'[q] = request[q]
      BY <1>5, <1>16, <2>1, <2>5 DEF used
    <3> QED  BY <1>6, <2>2, <3>1, <3>2
  <2>6. CASE p \notin used /\ q \in used
    <3>1. PICK h \in done : q = id[h]
      BY <2>6 DEF used
    <3>2. p \in pending /\ request'[p] = request[p]
      BY <1>5, <1>16, <2>1, <2>6 DEF used
    <3> QED  BY <1>6, <2>2, <3>1, <3>2
  <2> QED  BY <2>3, <2>4, <2>5, <2>6
<1>19. Told'
  <2> SUFFICES ASSUME NEW r \in Requests
               PROVE  /\ request'[r] # None =>
                            <<r, "ask">> \in acked \cup Elements(inbox'[canon[request'[r].holder]])
                      /\ ends[r] \in {<<"accepted">>, <<"declined">>} =>
                            <<r, "answer">> \in acked \cup Elements(inbox'[canon[request'[r].requester]])
    BY <1>1 DEF Told
  <2>1. CASE request'[r] = request[r]
    <3>1. request[r] # None => /\ canon[request[r].holder] \in Agents
                               /\ canon[request[r].requester] \in Agents
      BY DEF TypeOK, Request
    <3>2. ends[r] \in {<<"accepted">>, <<"declined">>} => request[r] # None
      BY DEF Unmade
    <3> QED  BY <1>12, <2>1, <3>1, <3>2 DEF Told
  <2>2. CASE \E h \in done : r = id[h] /\ r \in pending'
    <3>1. PICK h \in done : r = id[h]
      BY <2>2
    <3>2. request'[r].holder = h /\ canon[h] = h /\ ends[r] = <<>>
      BY <1>4, <1>6, <3>1
    <3>3. <<r, "ask">> \in Elements(inbox'[h])
      BY <1>9, <3>1
    <3> QED  BY <3>2, <3>3
  <2> QED  BY <1>16, <2>1, <2>2
<1>20. Canonical'
  BY <1>1 DEF Canonical
<1> QED  BY <1>15, <1>17, <1>18, <1>19, <1>20

-----------------------------------------------------------------------------
(* Theorems.                                                               *)

(* Every step preserves the invariant. *)
LEMMA IInvStep == IInv /\ [Next]_vars => IInv'
<1> SUFFICES ASSUME IInv, [Next]_vars PROVE IInv'
  OBVIOUS
<1>1. CASE \/ \E i \in LeaseIds :
                 \/ \E q \in Claims : Claim(q, i)
                 \/ LetGo(i) \/ RunOut(i) \/ \E b \in Agents : Give(i, b)
           \/ ExpireLeases
           \/ \E a \in Agents : Leave(a)
  BY <1>1, TableSteps
<1>2. CASE \E r \in Requests :
              Lapse(r) \/ ExpireRequest(r) \/ \E accept \in BOOLEAN : Respond(r, accept)
  BY <1>2, LapseStep, ExpireRequestStep, RespondStep
<1>3. CASE \/ SweepQuestions
           \/ \E a \in Agents : FallsDue(a) \/ \E m \in Elements(inbox[a]) : Ack(a, m)
  BY <1>3, MailSteps
<1>4. CASE \E a, b \in Agents : Fold(a, b)
  BY <1>4, FoldStep
<1>5. CASE \E a \in Agents : \E s \in {r \in Resources : <<a, r>> \in Wants} :
              \E id \in [Holders(a, s) -> Unused] :
                /\ \A g, h \in Holders(a, s) : id[g] = id[h] => g = h
                /\ Ask(a, s, id)
  BY <1>5, AskStep
<1>6. CASE StoreFails \/ Restart \/ UNCHANGED vars
  BY <1>6, WorldSteps
<1> QED  BY <1>1, <1>2, <1>3, <1>4, <1>5, <1>6 DEF Next

(* It holds at all times. *)
LEMMA Invariance == Spec => []IInv
BY IInvInit, IInvStep, PTL DEF Spec

(* Every variable has its type at all times; no queue outgrows its bound   *)
(* but by the folds that join queues, and no more requests wait than       *)
(* MAX_RELEASE_REQUESTS, whatever part of a request to several holders is  *)
(* cut short (request_release, respond_release).                           *)
THEOREM TypeCorrect == Spec => []TypeOK
BY Invariance, PTL DEF IInv

(* A release request ends once, by an answer or by running out, and waits  *)
(* until it has (respond_release, expire_release_requests).                *)
THEOREM RequestsEndOnce == Spec => []EndsOnce
BY Invariance, PTL DEF IInv

(* The same request of the same agent does not wait twice before a holder  *)
(* (the search for a waiting request in request_release).                  *)
THEOREM NobodyAskedTwice == Spec => []AskedOnce
BY Invariance, PTL DEF IInv

(* The message that asks, and the one that answers, reach whoever lives on *)
(* in the record they are for, and are not lost before being acknowledged  *)
(* (respond_release, commit_fold, ack_inbox).                              *)
THEOREM EverybodyIsTold == Spec => []Told
BY Invariance, PTL DEF IInv

(* Accepting a request frees what it named and its holder still has, and   *)
(* no other lease (respond_release).                                       *)
THEOREM AcceptIsExact == Spec => AcceptFreesWhatWasAsked
<1> DEFINE A == \A r \in Requests :
                   (ends[r] = <<>> /\ ends'[r] = <<"accepted">>) =>
                      \A i \in Held(leases) :
                         leases'[i] = None <=>
                            /\ i \in request[r].ids
                            /\ leases[i].holder = canon[request[r].holder]
<1>1. IInv /\ [Next]_vars => A
  <2> SUFFICES ASSUME IInv, [Next]_vars, NEW r \in Requests,
                      ends[r] = <<>>, ends'[r] = <<"accepted">>,
                      NEW i \in Held(leases)
               PROVE  leases'[i] = None <=> /\ i \in request[r].ids
                                            /\ leases[i].holder = canon[request[r].holder]
    OBVIOUS
  <2>1. ends \in [Requests -> Seq({"accepted", "declined", "expired"})] /\ leases \in Tables
    BY DEF IInv, TypeOK
  <2>2. ends' # ends
    OBVIOUS
  <2>3. \E q \in Requests : ExpireRequest(q) \/ \E accept \in BOOLEAN : Respond(q, accept)
    BY <2>2 DEF Next, vars, table, who, book, mail, world, Claim, LetGo, RunOut, Give,
                ExpireLeases, Lapse, Leave, FallsDue, Ack, Fold, Ask, SweepQuestions,
                StoreFails, Restart
  <2>4. PICK q \in Requests : ExpireRequest(q) \/ \E accept \in BOOLEAN : Respond(q, accept)
    BY <2>3
  <2>5. q = r
    <3>1. PICK v : ends' = [ends EXCEPT ![q] = v]
      BY <2>4 DEF ExpireRequest, Respond
    <3>2. ends'[r] # ends[r]
      OBVIOUS
    <3> QED  BY <2>1, <3>1, <3>2
  <2>6. ~ExpireRequest(r)
    BY <2>1 DEF ExpireRequest
  <2>7. PICK accept \in BOOLEAN : Respond(r, accept)
    BY <2>4, <2>5, <2>6
  <2>8. accept = TRUE
    BY <2>1, <2>7 DEF Respond
  <2>9. leases' = Remove(leases, StillHeld(r))
    BY <2>7, <2>8 DEF Respond
  <2>10. leases'[i] = None <=> i \in StillHeld(r)
    BY <2>1, <2>9, Removed
  <2> QED  BY <2>10 DEF StillHeld, ByHolder
<1>2. Spec => [][A]_vars
  BY <1>1, Invariance, PTL DEF Spec
<1> QED  BY <1>2 DEF AcceptFreesWhatWasAsked
=============================================================================
