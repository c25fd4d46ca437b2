------------------------- MODULE LeaseDaemonProofs -------------------------
(***************************************************************************)
(* Proofs about LeaseDaemon, for all agents, resources, claims, leases,    *)
(* handoffs and bounds: its invariants, that it implements LockService,    *)
(* and that no ring of waits stands.                                       *)
(***************************************************************************)
EXTENDS LeaseDaemon, SequenceTheorems, FiniteSetTheorems, TLAPS

-----------------------------------------------------------------------------
(* What the operations on a table return.                                  *)

(* Removing leases leaves a table, with every other lease as it was. *)
LEMMA RemoveType ==
    ASSUME NEW t \in Tables, NEW ids
    PROVE  /\ Remove(t, ids) \in Tables
           /\ \A i \in LeaseIds :
                 Remove(t, ids)[i] = IF i \in ids THEN None ELSE t[i]
BY DEF Remove, Tables

(* A lease under an id is a lease. *)
LEMMA HeldLease ==
    ASSUME NEW t \in Tables, NEW i \in Held(t)
    PROVE  i \in LeaseIds /\ t[i] \in Lease
BY DEF Held, Tables

(* What a claim is granted is a lease of the claimant, on what it asked    *)
(* for, that has just been renewed, and under an id of its own.            *)
LEMMA ClaimAsType ==
    ASSUME NEW t \in Tables, NEW q \in Request, NEW fresh \in SUBSET LeaseIds,
           NEW g \in ClaimAs(t, q, fresh)
    PROVE  /\ g.id \in LeaseIds
           /\ g.lease \in Lease
           /\ g.lease.holder = q.agent
           /\ Restore(t, g) \in Tables
           /\ \A u \in Tables : /\ Restore(u, g) \in Tables
                                /\ \A i \in LeaseIds : Restore(u, g)[i] =
                                      IF i = g.id THEN g.lease ELSE u[i]
<1>1. g.id \in LeaseIds /\ g.lease \in Lease /\ g.lease.holder = q.agent
  <2>1. CASE Same(t, q) # {}
    <3>1. PICK i \in Same(t, q) : g = [id |-> i, lease |-> Reclaimed(t[i], q)]
      BY <2>1 DEF ClaimAs
    <3>2. i \in LeaseIds /\ t[i] \in Lease /\ t[i].holder = q.agent
      BY HeldLease DEF Same, Held
    <3>3. Reclaimed(t[i], q) \in Lease /\ Reclaimed(t[i], q).holder = q.agent
      BY <3>2 DEF Reclaimed, Lease, Request
    <3> QED  BY <3>1, <3>2, <3>3
  <2>2. CASE Same(t, q) = {}
    <3>1. PICK i \in fresh : g = [id |-> i, lease |-> NewLease(q)]
      BY <2>2 DEF ClaimAs
    <3>2. NewLease(q) \in Lease /\ NewLease(q).holder = q.agent
      BY DEF NewLease, Lease, Request
    <3> QED  BY <3>1, <3>2
  <2> QED  BY <2>1, <2>2
<1>2. ASSUME NEW u \in Tables
      PROVE  /\ Restore(u, g) \in Tables
             /\ \A i \in LeaseIds : Restore(u, g)[i] =
                   IF i = g.id THEN g.lease ELSE u[i]
  BY <1>1, <1>2 DEF Restore, Tables
<1> QED  BY <1>1, <1>2

(* A lease that was moved is the recipient's, and says that it was moved. *)
LEMMA MovedLease ==
    ASSUME NEW l \in Lease, NEW b \in Agents
    PROVE  /\ [l EXCEPT !.holder = b, !.handed = TRUE] \in Lease
           /\ [l EXCEPT !.holder = b, !.handed = TRUE].holder = b
           /\ [l EXCEPT !.holder = b, !.handed = TRUE].handed
<1>1. [l EXCEPT !.holder = b] \in Lease /\ [l EXCEPT !.holder = b].holder = b
  BY DEF Lease
<1>2. ASSUME NEW m \in Lease
      PROVE  /\ [m EXCEPT !.handed = TRUE] \in Lease
             /\ [m EXCEPT !.handed = TRUE].holder = m.holder
             /\ [m EXCEPT !.handed = TRUE].handed
  BY DEF Lease
<1>3. /\ [[l EXCEPT !.holder = b] EXCEPT !.handed = TRUE] \in Lease
      /\ [[l EXCEPT !.holder = b] EXCEPT !.handed = TRUE].holder = b
      /\ [[l EXCEPT !.holder = b] EXCEPT !.handed = TRUE].handed
  BY <1>1, <1>2
<1> QED  BY <1>3

(* A transfer moves leases and keeps what they are about. *)
LEMMA TransferType ==
    ASSUME NEW t \in Tables, NEW a \in Agents, NEW b \in Agents, NEW ids
    PROVE  /\ TransferSelected(t, a, b, ids) \in Tables
           /\ \A i \in LeaseIds : TransferSelected(t, a, b, ids)[i] =
                 IF i \in Movable(t, a, ids)
                 THEN [t[i] EXCEPT !.holder = b, !.handed = TRUE]
                 ELSE t[i]
<1>1. ASSUME NEW i \in Movable(t, a, ids)
      PROVE  [t[i] EXCEPT !.holder = b, !.handed = TRUE] \in Lease
  BY HeldLease, MovedLease DEF Movable, ByHolder
<1> QED  BY <1>1 DEF TransferSelected, Tables

(* Renewing a lease leaves a table. *)
LEMMA RenewedType ==
    ASSUME NEW t \in Tables, NEW i \in LeaseIds, t[i] # None
    PROVE  /\ Renewed(t, i) \in Tables
           /\ \A j \in LeaseIds : Renewed(t, i)[j] =
                 IF j = i THEN [t[j] EXCEPT !.due = FALSE] ELSE t[j]
<1>1. t[i] \in Lease
  BY DEF Tables
<1>2. [t[i] EXCEPT !.due = FALSE] \in Lease
  BY <1>1 DEF Lease
<1> QED  BY <1>2 DEF Renewed, Tables

-----------------------------------------------------------------------------
(* Type correctness.                                                       *)

(* A claim that may still attempt has something it asks for. *)
Asking == \A c \in Claims : pc[c] \in Subscribed => req[c] # None

TypeInv == TypeOK /\ Asking

(* Removing places leaves a queue. *)
LEMMA LeaveType ==
    ASSUME NEW w \in Queues, NEW gone
    PROVE  /\ Leave(w, gone) \in Queues
           /\ \A c \in Claims : Leave(w, gone)[c] =
                 IF c \in gone THEN None ELSE w[c]
BY DEF Leave, Queues

(* Sending events leaves a receiver per claim, of one bit. *)
LEMMA NotifyType ==
    ASSUME NEW freed, Notify(freed)
    PROVE  wake' \in [Claims -> BOOLEAN]
BY DEF Notify

(* Ending a wait keeps what it writes well typed. *)
LEMMA SettleType ==
    ASSUME TypeInv, NEW c \in Claims, NEW ans \in Answers,
           NEW outcome \in Outcomes, NEW freed, Settle(c, ans, outcome, freed)
    PROVE  /\ pc' \in [Claims -> Steps]
           /\ req' \in [Claims -> Request \cup {None}]
           /\ wake' \in [Claims -> BOOLEAN]
           /\ answer' \in [Claims -> Answers]
           /\ said' \in [Claims -> Seq(Outcomes \cup {"waiting"})]
           /\ queue' \in Queues
           /\ tickets' \in Nat
           /\ broken' \in SUBSET Claims
           /\ Asking'
<1> USE DEF TypeInv, TypeOK
<1>1. pc' \in [Claims -> Steps] /\ answer' \in [Claims -> Answers]
  BY DEF Settle, Steps
<1>2. req' \in [Claims -> Request \cup {None}] /\ tickets' \in Nat
  BY DEF Settle
<1>3. wake' \in [Claims -> BOOLEAN]
  BY NotifyType DEF Settle
<1>4. said' \in [Claims -> Seq(Outcomes \cup {"waiting"})]
  <2>1. Append(said[c], outcome) \in Seq(Outcomes \cup {"waiting"})
    OBVIOUS
  <2> QED  BY <2>1 DEF Settle
<1>5. queue' \in Queues /\ broken' \in SUBSET Claims
  BY LeaveType DEF Settle
<1>6. Asking'
  BY DEF Settle, Asking, Subscribed
<1> QED  BY <1>1, <1>2, <1>3, <1>4, <1>5, <1>6

(* What an attempt can leave in memory and in the database. *)
LEMMA ExpireType ==
    ASSUME TypeOK
    PROVE  /\ Expire(leases) \in Tables
           /\ ExpireStored \in Tables
           /\ \A i \in LeaseIds :
                 /\ Expire(leases)[i] = IF i \in Due(leases) THEN None ELSE leases[i]
                 /\ ExpireStored[i] = IF i \in Due(leases) THEN None ELSE stored[i]
BY RemoveType DEF TypeOK, Expire, ExpireStored

(* Dropping leases keeps every variable well typed. *)
LEMMA DropType ==
    ASSUME TypeInv, NEW ids, Drop(ids)
    PROVE  /\ leases' \in Tables
           /\ stored' \in Tables
           /\ wake' \in [Claims -> BOOLEAN]
           /\ UNCHANGED <<failed, claims, line>>
BY RemoveType, NotifyType DEF Drop, TypeInv, TypeOK

(* Each step of a claim keeps the types. *)
LEMMA AttemptType ==
    ASSUME TypeInv, NEW c \in Claims, Attempt(c)
    PROVE  TypeInv'
<1> USE DEF TypeInv, TypeOK
<1>1. req[c] \in Request /\ req[c] # None
  BY DEF Attempt, Asking, Subscribed
<1>2. UNCHANGED <<failed, world, bundles, left>>
  BY DEF Attempt
<1>3. CASE AnswerBroken(c) /\ UNCHANGED stored
  <2>1. Settle(c, "deadlock", "deadlock", {}) /\ UNCHANGED leases
    BY <1>3 DEF AnswerBroken
  <2> QED  BY <1>2, <1>3, <2>1, SettleType DEF world, Answers, Outcomes
<1>4. CASE AnswerRefused(c) /\ UNCHANGED stored
  <2>1. Settle(c, "refused", "cancelled", {}) /\ UNCHANGED leases
    BY <1>4 DEF AnswerRefused
  <2> QED  BY <1>2, <1>4, <2>1, SettleType DEF world, Answers, Outcomes
<1>5. CASE AnswerGranted(c)
  <2>1. Settle(c, "lease", "claimed", Wanted(leases, Due(leases)))
    BY <1>5 DEF AnswerGranted
  <2>2. leases' \in Tables /\ stored' \in Tables
    <3>1. PICK g \in ClaimAs(Expire(leases), req[c], Fresh) :
              /\ leases' = Restore(Expire(leases), g)
              /\ stored' = Restore(ExpireStored, g)
      BY <1>5 DEF AnswerGranted
    <3>2. Fresh \in SUBSET LeaseIds
      BY DEF Fresh
    <3> QED  BY <1>1, <3>1, <3>2, ExpireType, ClaimAsType
  <2> QED  BY <1>2, <2>1, <2>2, SettleType DEF world, Answers, Outcomes
<1>6. ASSUME InConflict(c)
      PROVE  leases' \in Tables /\ stored' \in Tables
  BY <1>6, ExpireType DEF InConflict
<1>7. CASE AnswerConflict(c)
  <2>1. Settle(c, "conflict", "cancelled", Wanted(leases, Due(leases)))
    BY <1>7 DEF AnswerConflict
  <2>2. leases' \in Tables /\ stored' \in Tables
    BY <1>6, <1>7 DEF AnswerConflict
  <2> QED  BY <1>2, <2>1, <2>2, SettleType DEF world, Answers, Outcomes
<1>8. CASE SleepAgain(c)
  <2>1. leases' \in Tables /\ stored' \in Tables
    BY <1>6, <1>8 DEF SleepAgain
  <2>2. wake' \in [Claims -> BOOLEAN]
    BY <1>8, NotifyType DEF SleepAgain
  <2>3. pc' = [pc EXCEPT ![c] = "asleep"] /\ UNCHANGED <<req, answer, said, line>>
    BY <1>8 DEF SleepAgain
  <2>4. pc' \in [Claims -> Steps] /\ Asking'
    BY <1>1, <2>3 DEF Steps, Asking
  <2> QED  BY <1>2, <2>1, <2>2, <2>3, <2>4 DEF world, line
<1>9. ASSUME NEW o \in BreakRings(Expire(leases), queue, req[c])
      PROVE  /\ o.ended \in SUBSET Claims
             /\ SayDeadlock(o) \in [Claims -> Seq(Outcomes \cup {"waiting"})]
  <2>1. o.ended \in SUBSET Claims
    BY DEF BreakRings, Queued
  <2>2. \A d \in Claims : Append(said[d], "deadlock") \in Seq(Outcomes \cup {"waiting"})
    BY DEF Outcomes
  <2> QED  BY <2>1, <2>2 DEF SayDeadlock
<1>10. CASE JoinQueue(c)
  <2>1. PICK o \in BreakRings(Expire(leases), queue, req[c]) :
          /\ queue' = Join(Leave(queue, o.ended), c, WaiterOf(tickets, req[c]))
          /\ tickets' = tickets + 1
          /\ broken' = broken \cup o.ended
          /\ pc' = [pc EXCEPT ![c] = "asleep"]
          /\ said' = [SayDeadlock(o) EXCEPT ![c] = Append(@, "waiting")]
          /\ Notify(Wanted(leases, Due(leases)) \cup EndedBy(o))
    BY <1>10 DEF JoinQueue
  <2>2. leases' \in Tables /\ stored' \in Tables /\ UNCHANGED <<req, answer>>
    BY <1>6, <1>10 DEF JoinQueue
  <2>3. wake' \in [Claims -> BOOLEAN]
    BY <2>1, NotifyType
  <2>4. queue' \in Queues
    <3>1. WaiterOf(tickets, req[c]) \in Waiter
      BY <1>1 DEF WaiterOf, Waiter, Request
    <3> QED  BY <2>1, <3>1, LeaveType DEF Join, Queues
  <2>5. tickets' \in Nat /\ broken' \in SUBSET Claims
    BY <1>9, <2>1
  <2>6. said' \in [Claims -> Seq(Outcomes \cup {"waiting"})]
    <3>1. SayDeadlock(o) \in [Claims -> Seq(Outcomes \cup {"waiting"})]
      BY <1>9
    <3>2. Append(SayDeadlock(o)[c], "waiting") \in Seq(Outcomes \cup {"waiting"})
      BY <3>1
    <3> QED  BY <2>1, <3>1, <3>2
  <2>7. pc' \in [Claims -> Steps] /\ Asking'
    BY <1>1, <2>1, <2>2 DEF Steps, Asking
  <2> QED  BY <1>2, <2>2, <2>3, <2>4, <2>5, <2>6, <2>7 DEF world
<1>11. CASE AnswerDeadlock(c)
  <2>1. PICK o \in BreakRings(Expire(leases), queue, req[c]) :
          /\ queue' = Leave(queue, o.ended)
          /\ broken' = broken \cup o.ended
          /\ pc' = [pc EXCEPT ![c] = "answered"]
          /\ answer' = [answer EXCEPT ![c] = "deadlock"]
          /\ said' = [SayDeadlock(o) EXCEPT ![c] = Append(@, "deadlock")]
          /\ Notify(Wanted(leases, Due(leases)) \cup EndedBy(o)
                        \cup {req[c].resource})
    BY <1>11 DEF AnswerDeadlock
  <2>2. leases' \in Tables /\ stored' \in Tables /\ UNCHANGED <<req, tickets>>
    BY <1>6, <1>11 DEF AnswerDeadlock
  <2>3. wake' \in [Claims -> BOOLEAN]
    BY <2>1, NotifyType
  <2>4. queue' \in Queues /\ broken' \in SUBSET Claims
    BY <1>9, <2>1, LeaveType
  <2>5. said' \in [Claims -> Seq(Outcomes \cup {"waiting"})]
    <3>1. SayDeadlock(o) \in [Claims -> Seq(Outcomes \cup {"waiting"})]
      BY <1>9
    <3>2. Append(SayDeadlock(o)[c], "deadlock") \in Seq(Outcomes \cup {"waiting"})
      BY <3>1 DEF Outcomes
    <3> QED  BY <2>1, <3>1, <3>2
  <2>6. pc' \in [Claims -> Steps] /\ answer' \in [Claims -> Answers] /\ Asking'
    BY <2>1, <2>2 DEF Steps, Answers, Asking, Subscribed
  <2> QED  BY <1>2, <2>2, <2>3, <2>4, <2>5, <2>6 DEF world
<1> QED  BY <1>3, <1>4, <1>5, <1>7, <1>8, <1>10, <1>11 DEF Attempt

(* Each step of a claim outside its attempts keeps the types. *)
LEMMA ClaimType ==
    ASSUME TypeInv, NEW c \in Claims, ClaimStep(c)
    PROVE  TypeInv'
<1> USE DEF TypeInv, TypeOK
<1>1. ASSUME NEW q \in Asks[c], Begin(c, q)
      PROVE  TypeInv'
  <2>1. q \in Request /\ q # None
    BY AsksAssumption
  <2>2. left' \in [Disturbances -> Nat]
    BY <1>1 DEF Begin, Spend, Disturbances
  <2>3. pc' \in [Claims -> Steps] /\ req' \in [Claims -> Request \cup {None}] /\ Asking'
    BY <1>1, <2>1 DEF Begin, Steps, Asking
  <2> QED  BY <1>1, <2>2, <2>3 DEF Begin, disk, world, line
<1>2. CASE Attempt(c)
  BY <1>2, AttemptType
<1>3. ASSUME NEW next \in {"woken", "late"}, Sleeping(c, next)
      PROVE  /\ pc' \in [Claims -> Steps] /\ Asking'
             /\ UNCHANGED <<leases, stored, failed, status, fenced, paused, req,
                            answer, said, queue, broken, tickets, bundles>>
  BY <1>3 DEF Sleeping, Steps, Asking, Subscribed, disk, world, line
<1>4. CASE Wake(c)
  BY <1>3, <1>4 DEF Wake
<1>5. CASE Lag(c)
  <2>1. left' \in [Disturbances -> Nat]
    BY <1>5 DEF Lag, Spend, Disturbances
  <2> QED  BY <1>3, <1>5, <2>1 DEF Lag
<1>6. CASE Deadline(c)
  BY <1>3, <1>6 DEF Deadline
<1>7. CASE Decide(c)
  <2>1. UNCHANGED <<disk, world, bundles, left, leases>>
    BY <1>7 DEF Decide, AnswerBroken
  <2>2. ASSUME NEW ans \in Answers, NEW outcome \in Outcomes,
               Settle(c, ans, outcome, {})
        PROVE  TypeInv'
    BY <2>1, <2>2, SettleType DEF disk, world
  <2>3. CASE pc' = [pc EXCEPT ![c] = "attempt"] /\ UNCHANGED <<req, wake, answer, said, line>>
    <3>1. pc' \in [Claims -> Steps] /\ Asking'
      BY <1>7, <2>3 DEF Decide, Steps, Asking, Subscribed
    <3> QED  BY <2>1, <2>3, <3>1 DEF disk, world, line
  <2> QED  BY <1>7, <2>2, <2>3 DEF Decide, AnswerBroken, Answers, Outcomes
<1>8. CASE Disconnect(c)
  <2>1. Settle(c, "gone", "cancelled", {}) /\ UNCHANGED <<leases, disk, world, bundles, left>>
    BY <1>8 DEF Disconnect
  <2> QED  BY <2>1, SettleType DEF disk, world, Answers, Outcomes
<1>9. CASE Respond(c)
  <2>1. pc' \in [Claims -> Steps] /\ answer' \in [Claims -> Answers]
        /\ req' \in [Claims -> Request \cup {None}] /\ Asking'
    BY <1>9 DEF Respond, Steps, Answers, Asking, Subscribed
  <2>2. said' \in [Claims -> Seq(Outcomes \cup {"waiting"})]
    BY <1>9 DEF Respond
  <2> QED  BY <1>9, <2>1, <2>2 DEF Respond, disk, world, line
<1> QED  BY <1>1, <1>2, <1>4, <1>5, <1>6, <1>7, <1>8, <1>9 DEF ClaimStep

(* Everything else keeps the types too. *)
LEMMA WorldType ==
    ASSUME TypeInv, StoredAsServed,
           \/ \E a \in Agents : HolderStep(a)
           \/ \E i \in LeaseIds : RunOut(i)
           \/ \E h \in Handoffs : HandoffStep(h)
           \/ Reap \/ ReapFails \/ Pause \/ Lift
           \/ StoreFails \/ Restart \/ Offer \/ Abort
    PROVE  TypeInv'
<1> USE DEF TypeInv, TypeOK
<1>1. ASSUME UNCHANGED <<claims, line>>
      PROVE  /\ pc' \in [Claims -> Steps]
             /\ req' \in [Claims -> Request \cup {None}]
             /\ answer' \in [Claims -> Answers]
             /\ said' \in [Claims -> Seq(Outcomes \cup {"waiting"})]
             /\ queue' \in Queues
             /\ tickets' \in Nat
             /\ broken' \in SUBSET Claims
             /\ Asking'
  BY <1>1 DEF claims, line, Asking
<1>2. ASSUME NEW kind \in Disturbances, Spend(kind)
      PROVE  left' \in [Disturbances -> Nat]
  BY <1>2 DEF Spend
<1>3. ASSUME NEW a \in Agents, NEW i \in LeaseIds, Release(a, i)
      PROVE  TypeInv'
  BY <1>1, <1>3, DropType DEF Release, world
<1>4. ASSUME NEW a \in Agents, NEW o \in BOOLEAN, ReleaseAll(a, o)
      PROVE  TypeInv'
  BY <1>1, <1>4, DropType DEF ReleaseAll, world
<1>5. ASSUME NEW a \in Agents, NEW i \in LeaseIds, Renew(a, i)
      PROVE  TypeInv'
  <2>1. leases' \in Tables /\ stored' \in Tables
    <3>1. CASE leases[i].due
      BY <1>5, <3>1, ExpireType DEF Renew
    <3>2. CASE ~leases[i].due
      <4>1. Expire(leases)[i] # None /\ ExpireStored[i] # None
        BY <1>5, <3>2, ExpireType DEF Renew, ByHolder, Held, Due, StoredAsServed
      <4>2. Expire(leases) \in Tables /\ ExpireStored \in Tables
        BY ExpireType
      <4> QED  BY <1>5, <3>2, <4>1, <4>2, RenewedType DEF Renew
    <3> QED  BY <3>1, <3>2
  <2>2. wake' \in [Claims -> BOOLEAN]
    BY <1>5, NotifyType DEF Renew
  <2> QED  BY <1>1, <1>5, <2>1, <2>2 DEF Renew, world
<1>6. ASSUME NEW a \in Agents, Stop(a) \/ Return(a)
      PROVE  TypeInv'
  <2>1. left' \in [Disturbances -> Nat]
    BY <1>2, <1>6 DEF Stop, Return, Disturbances
  <2>2. status' \in [Agents -> {"running", "stopping", "exited"}]
    BY <1>6 DEF Stop, Return
  <2> QED  BY <1>1, <1>6, <2>1, <2>2 DEF Stop, Return, disk
<1>7. ASSUME NEW a \in Agents, Exit(a)
      PROVE  TypeInv'
  <2>1. left' \in [Disturbances -> Nat]
    BY <1>2, <1>7 DEF Exit, Disturbances
  <2>2. status' \in [Agents -> {"running", "stopping", "exited"}]
    BY <1>7 DEF Exit
  <2> QED  BY <1>1, <1>7, <2>1, <2>2, DropType DEF Exit
<1>8. ASSUME NEW i \in LeaseIds, RunOut(i)
      PROVE  TypeInv'
  <2>1. ASSUME NEW l \in Lease
        PROVE  [l EXCEPT !.due = TRUE] \in Lease
    BY DEF Lease
  <2>2. leases' \in Tables
    BY <1>8, <2>1 DEF RunOut, Tables
  <2>3. stored' \in Tables
    BY <1>8, <2>1 DEF RunOut, Tables
  <2> QED  BY <1>1, <1>8, <2>2, <2>3 DEF RunOut, world
<1>9. ASSUME NEW h \in Handoffs, NEW a \in Agents, NEW b \in Agents, Draft(h, a, b)
      PROVE  TypeInv'
  <2>1. bundles' \in [Handoffs -> Bundle \cup {None}]
    BY <1>9 DEF Draft, Bundle, ByHolder, Held
  <2> QED  BY <1>1, <1>9, <2>1 DEF Draft, disk, world
<1>10. ASSUME NEW h \in Handoffs, Send(h)
       PROVE  TypeInv'
  <2>1. [bundles[h] EXCEPT !.phase = "sent"] \in Bundle
    BY <1>10 DEF Send, Bundle
  <2>2. bundles' \in [Handoffs -> Bundle \cup {None}]
    BY <1>10, <2>1 DEF Send
  <2> QED  BY <1>1, <1>10, <2>2 DEF Send, disk, world
<1>11. ASSUME NEW h \in Handoffs, Accept(h)
       PROVE  TypeInv'
  <2>1. bundles[h] \in Bundle
    BY <1>11 DEF Accept
  <2>2. leases' \in Tables /\ stored' \in Tables
    BY <1>11, <2>1, TransferType DEF Accept, Bundle
  <2>3. bundles' \in [Handoffs -> Bundle \cup {None}]
    <3>1. [[bundles[h] EXCEPT !.phase = "accepted"] EXCEPT !.ids = {}] \in Bundle
      BY <2>1 DEF Bundle
    <3> QED  BY <1>11, <3>1 DEF Accept
  <2> QED  BY <1>1, <1>11, <2>2, <2>3 DEF Accept, world
<1>12. CASE Reap
  BY <1>1, <1>12, DropType DEF Reap, world
<1>13. CASE ReapFails
  <2>1. PICK done \in SUBSET Due(leases) :
              /\ leases' = Expire(leases)
              /\ stored' = Remove(stored, done)
              /\ UNCHANGED claims
              /\ Notify(Wanted(leases, done))
    BY <1>13 DEF ReapFails
  <2>2. left' \in [Disturbances -> Nat]
    BY <1>2, <1>13 DEF ReapFails, Disturbances
  <2>3. leases' \in Tables /\ stored' \in Tables /\ wake' \in [Claims -> BOOLEAN]
    BY <2>1, ExpireType, RemoveType, NotifyType
  <2> QED  BY <1>1, <1>13, <2>1, <2>2, <2>3 DEF ReapFails, world
<1>14. CASE Pause \/ Lift \/ StoreFails \/ Offer \/ Abort
  <2>1. left' \in [Disturbances -> Nat]
    BY <1>2, <1>14 DEF Pause, Lift, StoreFails, Offer, Abort, Disturbances
  <2> QED  BY <1>1, <1>14, <2>1 DEF Pause, Lift, StoreFails, Offer, Abort, disk, world
<1>15. CASE Restart
  <2>1. left' \in [Disturbances -> Nat]
    BY <1>2, <1>15 DEF Restart, Disturbances
  <2>2. leases' \in Tables /\ stored' \in Tables
    BY <1>15, RemoveType DEF Restart, Loaded
  <2>3. /\ pc' \in [Claims -> Steps]
        /\ req' \in [Claims -> Request \cup {None}]
        /\ wake' \in [Claims -> BOOLEAN]
        /\ answer' \in [Claims -> Answers]
        /\ Asking'
    BY <1>15 DEF Restart, Steps, Answers, Asking, Subscribed
  <2>4. said' \in [Claims -> Seq(Outcomes \cup {"waiting"})]
    BY <1>15 DEF Restart
  <2>5. queue' \in Queues /\ tickets' \in Nat /\ broken' \in SUBSET Claims
    BY <1>15 DEF Restart, EmptyQueue, Queues
  <2>6. bundles' \in [Handoffs -> Bundle \cup {None}]
    BY <1>15 DEF Restart
  <2> QED  BY <1>15, <2>1, <2>2, <2>3, <2>4, <2>5, <2>6 DEF Restart
<1> QED  BY <1>3, <1>4, <1>5, <1>6, <1>7, <1>8, <1>9, <1>10, <1>11, <1>12, <1>13,
            <1>14, <1>15 DEF HolderStep, HandoffStep

-----------------------------------------------------------------------------
(* Memory and the database.                                                *)

(* Until storage fails they are the same. *)
LEMMA InSync ==
    ASSUME TypeOK, StoredAsServed, ~failed
    PROVE  stored = leases
<1>1. \A i \in LeaseIds : stored[i] = leases[i]
  BY DEF StoredAsServed
<1> QED  BY <1>1 DEF TypeOK, Tables

(* The steps that can touch a lease; every other one leaves both tables    *)
(* alone.                                                                  *)
Grants(c) == pc[c] = "attempt" /\ AnswerGranted(c)

Expires(c) == pc[c] = "attempt" /\ InConflict(c)

LeaseStep ==
    \/ \E c \in Claims : Grants(c) \/ Expires(c)
    \/ \E ids \in SUBSET LeaseIds : Drop(ids) /\ Admitted
    \/ \E a \in Agents, i \in LeaseIds : Renew(a, i)
    \/ \E i \in LeaseIds : RunOut(i)
    \/ \E h \in Handoffs : Accept(h)
    \/ ReapFails
    \/ Restart

(* No other step touches a lease, held or stored. *)
LEMMA LeaseSteps ==
    ASSUME TypeInv, [Next]_vars
    PROVE  \/ LeaseStep
           \/ UNCHANGED <<leases, stored>> /\ failed' \in {failed, TRUE}
<1> USE DEF TypeInv, TypeOK
<1> DEFINE Idle == UNCHANGED <<leases, stored>> /\ failed' \in {failed, TRUE}
<1>1. ASSUME NEW c \in Claims, ClaimStep(c)
      PROVE  LeaseStep \/ Idle
  <2>1. CASE Attempt(c)
    <3>1. CASE AnswerGranted(c) \/ InConflict(c)
      BY <2>1, <3>1 DEF LeaseStep, Grants, Expires, Attempt
    <3>2. CASE ~(AnswerGranted(c) \/ InConflict(c))
      BY <2>1, <3>2 DEF Attempt, AnswerBroken, AnswerRefused, AnswerConflict,
                        SleepAgain, JoinQueue, AnswerDeadlock
    <3> QED  BY <3>1, <3>2
  <2>2. CASE \E q \in Asks[c] : Begin(c, q)
    BY <2>2 DEF Begin, disk
  <2>3. CASE Wake(c) \/ Lag(c) \/ Deadline(c)
    BY <2>3 DEF Wake, Lag, Deadline, Sleeping, disk
  <2>4. CASE Decide(c)
    BY <2>4 DEF Decide, AnswerBroken, disk
  <2>5. CASE Disconnect(c) \/ Respond(c)
    BY <2>5 DEF Disconnect, Respond, disk
  <2> QED  BY <1>1, <2>1, <2>2, <2>3, <2>4, <2>5 DEF ClaimStep
<1>2. ASSUME NEW a \in Agents, HolderStep(a)
      PROVE  LeaseStep \/ Idle
  <2>1. ASSUME NEW i \in LeaseIds, Release(a, i)
        PROVE  LeaseStep
    BY <2>1 DEF Release, LeaseStep
  <2>2. ASSUME NEW i \in LeaseIds, Renew(a, i)
        PROVE  LeaseStep
    BY <2>2 DEF LeaseStep
  <2>3. ASSUME NEW o \in BOOLEAN, ReleaseAll(a, o)
        PROVE  LeaseStep
    <3>1. Releasable(leases, a, o) \in SUBSET LeaseIds
      BY DEF Releasable, ByHolder, Held
    <3> QED  BY <2>3, <3>1 DEF ReleaseAll, LeaseStep
  <2>4. CASE Stop(a) \/ Return(a)
    BY <2>4 DEF Stop, Return, disk
  <2>5. CASE Exit(a)
    <3>1. ByHolder(leases, a) \in SUBSET LeaseIds
      BY DEF ByHolder, Held
    <3> QED  BY <2>5, <3>1 DEF Exit, LeaseStep
  <2> QED  BY <1>2, <2>1, <2>2, <2>3, <2>4, <2>5 DEF HolderStep
<1>3. ASSUME NEW h \in Handoffs, HandoffStep(h)
      PROVE  LeaseStep \/ Idle
  <2>1. CASE Accept(h)
    BY <2>1 DEF LeaseStep
  <2>2. CASE Send(h) \/ \E a, b \in Agents : Draft(h, a, b)
    BY <2>2 DEF Send, Draft, disk
  <2> QED  BY <1>3, <2>1, <2>2 DEF HandoffStep
<1>4. CASE Reap
  <2>1. Due(leases) \in SUBSET LeaseIds
    BY DEF Due, Held
  <2> QED  BY <1>4, <2>1 DEF Reap, LeaseStep
<1>5. CASE (\E i \in LeaseIds : RunOut(i)) \/ ReapFails \/ Restart
  BY <1>5 DEF LeaseStep
<1>6. CASE Pause \/ Lift \/ StoreFails \/ Offer \/ Abort \/ UNCHANGED vars
  BY <1>6 DEF Pause, Lift, StoreFails, Offer, Abort, disk, vars
<1> QED  BY <1>1, <1>2, <1>3, <1>4, <1>5, <1>6 DEF Next

(* What each of them leaves behind, where memory and database agree. *)
LEMMA SyncedSteps ==
    ASSUME TypeInv, StoredAsServed, LeaseStep
    PROVE  \/ leases' = stored'
           \/ \E i \in LeaseIds : RunOut(i)
           \/ ReapFails
<1> USE DEF TypeInv
<1>1. ASSUME ~failed
      PROVE  Expire(leases) = ExpireStored
  BY <1>1, InSync DEF Expire, ExpireStored
<1>2. ASSUME NEW c \in Claims, Grants(c) \/ Expires(c)
      PROVE  leases' = stored'
  BY <1>1, <1>2 DEF Grants, Expires, AnswerGranted, InConflict, Proceeds, Refused
<1>3. ASSUME NEW ids \in SUBSET LeaseIds, Drop(ids), Admitted
      PROVE  leases' = stored'
  BY <1>3, InSync DEF Drop, Admitted
<1>4. ASSUME NEW a \in Agents, NEW i \in LeaseIds, Renew(a, i)
      PROVE  leases' = stored'
  BY <1>1, <1>4 DEF Renew, Admitted
<1>5. ASSUME NEW h \in Handoffs, Accept(h)
      PROVE  leases' = stored'
  <2>1. stored = leases
    BY <1>5, InSync DEF Accept, Admitted
  <2>2. Movable(leases, bundles[h].from, Movable(leases, bundles[h].from, bundles[h].ids))
           = Movable(leases, bundles[h].from, bundles[h].ids)
    BY DEF Movable
  <2> QED  BY <1>5, <2>1, <2>2 DEF Accept, TransferSelected
<1>6. CASE Restart
  BY <1>6 DEF Restart
<1> QED  BY <1>2, <1>3, <1>4, <1>5, <1>6 DEF LeaseStep

(* So every step keeps the database as it is served. *)
LEMMA StoredStep ==
    ASSUME TypeInv, TypeInv', StoredAsServed, [Next]_vars
    PROVE  StoredAsServed'
<1> USE DEF TypeInv, TypeOK
<1>1. CASE leases' = stored'
  BY <1>1 DEF StoredAsServed
<1>2. ASSUME NEW i \in LeaseIds, RunOut(i)
      PROVE  StoredAsServed'
  BY <1>2 DEF RunOut, StoredAsServed, Tables
<1>3. CASE ReapFails
  <2>1. PICK done \in SUBSET Due(leases) :
              leases' = Expire(leases) /\ stored' = Remove(stored, done)
    BY <1>3 DEF ReapFails
  <2>2. stored = leases
    BY <1>3, InSync DEF ReapFails, Admitted
  <2>3. ASSUME NEW i \in LeaseIds, leases'[i] # None
        PROVE  stored'[i] = leases'[i]
    BY <2>1, <2>2, <2>3, RemoveType, ExpireType
  <2>4. ASSUME NEW i \in LeaseIds, leases'[i] = None, stored'[i] # None
        PROVE  failed' /\ stored'[i].due
    <3>1. i \in Due(leases)
      BY <2>1, <2>2, <2>4, RemoveType, ExpireType
    <3>2. stored'[i] = leases[i]
      BY <2>1, <2>2, <2>4, RemoveType
    <3> QED  BY <1>3, <3>1, <3>2 DEF ReapFails, Due
  <2> QED  BY <2>3, <2>4 DEF StoredAsServed
<1>4. CASE UNCHANGED <<leases, stored>> /\ failed' \in {failed, TRUE}
  BY <1>4 DEF StoredAsServed
<1> QED  BY <1>1, <1>2, <1>3, <1>4, LeaseSteps, SyncedSteps

-----------------------------------------------------------------------------
(* Exclusion.                                                              *)

(* Leases that differ at most in whether they are due or automatic. *)
Alike(l, m) ==
    /\ l.holder = m.holder
    /\ l.resource = m.resource
    /\ l.mode = m.mode
    /\ l.handed = m.handed

(* Fewer leases, or the same ones renewed or run out, clash no more. *)
LEMMA FewerClashes ==
    ASSUME NEW t \in Tables, NEW u \in Tables, ExclusiveButHanded(t),
           \A i \in Held(u) : i \in Held(t) /\ Alike(u[i], t[i])
    PROVE  ExclusiveButHanded(u)
BY DEF ExclusiveButHanded, Clash, Blocks, Alike

(* What a grant adds clashes with nothing: no lease in the way was left,   *)
(* and overlap is symmetric.                                               *)
LEMMA GrantClashes ==
    ASSUME NEW t \in Tables, NEW q \in Request, NEW fresh \in SUBSET LeaseIds,
           NEW g \in ClaimAs(t, q, fresh), ~Conflicts(t, q),
           ExclusiveButHanded(t)
    PROVE  ExclusiveButHanded(Restore(t, g))
<1> DEFINE u == Restore(t, g)
<1>1. /\ u \in Tables
      /\ \A i \in LeaseIds : u[i] = IF i = g.id THEN g.lease ELSE t[i]
  BY ClaimAsType
<1>2. CASE Same(t, q) # {}
  <2>1. PICK i \in Same(t, q) : g = [id |-> i, lease |-> Reclaimed(t[i], q)]
    BY <1>2 DEF ClaimAs
  <2>2. i \in Held(t) /\ t[i] \in Lease
    BY HeldLease DEF Same
  <2>3. Alike(Reclaimed(t[i], q), t[i])
    BY <2>2 DEF Alike, Reclaimed, Lease
  <2>4. \A j \in Held(u) : j \in Held(t) /\ Alike(u[j], t[j])
    BY <1>1, <2>1, <2>2, <2>3 DEF Held, Alike
  <2> QED  BY <1>1, <2>4, FewerClashes
<1>3. CASE Same(t, q) = {}
  <2>1. PICK i \in fresh : g = [id |-> i, lease |-> NewLease(q)]
    BY <1>3 DEF ClaimAs
  <2>2. InTheWay(t, q) = {}
    BY <1>3 DEF Conflicts
  <2>3. ASSUME NEW j \in Held(u), j # i
        PROVE  ~Clash(u[j], u[i]) /\ ~Clash(u[i], u[j])
    <3>1. j \in Held(t) /\ u[j] = t[j] /\ t[j] \in Lease /\ u[i] = NewLease(q)
      BY <1>1, <2>1, <2>3, HeldLease DEF Held
    <3>2. ~Blocks(t[j], q.agent, q.mode, q.resource)
      BY <2>2, <3>1 DEF InTheWay
    <3>3. q.resource \in Resources /\ t[j].resource \in Resources
      BY <3>1 DEF Request, Lease
    <3> QED  BY <3>1, <3>2, <3>3, OverlapAssumption
             DEF Clash, Blocks, NewLease, Overlaps, Conflicting
  <2>4. ~Clash(u[i], u[i])
    BY DEF Clash, Blocks
  <2>5. ASSUME NEW j \in Held(u), NEW k \in Held(u), j # i, k # i, Clash(u[j], u[k])
        PROVE  u[j].handed \/ u[k].handed
    <3>1. j \in Held(t) /\ k \in Held(t) /\ u[j] = t[j] /\ u[k] = t[k]
      BY <1>1, <2>1, <2>5 DEF Held
    <3> QED  BY <2>5, <3>1 DEF ExclusiveButHanded
  <2> QED  BY <2>3, <2>4, <2>5 DEF ExclusiveButHanded
<1> QED  BY <1>2, <1>3

(* Renewing changes no lease but its time. *)
LEMMA RenewClashes ==
    ASSUME NEW t \in Tables, NEW i \in LeaseIds, t[i] # None,
           ExclusiveButHanded(t)
    PROVE  ExclusiveButHanded(Renewed(t, i))
<1> DEFINE u == Renewed(t, i)
<1>1. u \in Tables
  BY RenewedType
<1>2. ASSUME NEW j \in Held(u)
      PROVE  j \in Held(t) /\ Alike(u[j], t[j])
  <2>1. CASE j = i
    <3>1. t[i] \in Lease
      BY DEF Tables
    <3>2. u[i] = [t[i] EXCEPT !.due = FALSE]
      BY RenewedType
    <3> QED  BY <2>1, <3>1, <3>2 DEF Held, Alike, Lease
  <2>2. CASE j # i
    BY <2>2, RenewedType DEF Held, Alike
  <2> QED  BY <2>1, <2>2
<1> HIDE DEF u
<1> QED  BY <1>1, <1>2, FewerClashes DEF u

(* What a handoff moves is handed, and the rest stays as it was. *)
LEMMA TransferClashes ==
    ASSUME NEW t \in Tables, NEW a \in Agents, NEW b \in Agents, NEW ids,
           ExclusiveButHanded(t)
    PROVE  ExclusiveButHanded(TransferSelected(t, a, b, ids))
<1> DEFINE u == TransferSelected(t, a, b, ids)
           moved == Movable(t, a, ids)
<1>2. ASSUME NEW i \in moved
      PROVE  u[i].handed
  <2>1. i \in LeaseIds /\ t[i] \in Lease
    BY HeldLease DEF Movable, ByHolder
  <2>2. u[i] = [t[i] EXCEPT !.holder = b, !.handed = TRUE]
    BY <2>1 DEF TransferSelected
  <2> QED  BY <2>1, <2>2, MovedLease
<1>3. ASSUME NEW i \in Held(u), i \notin moved
      PROVE  i \in Held(t) /\ u[i] = t[i]
  <2>1. u[i] = t[i]
    BY <1>3 DEF TransferSelected, Held
  <2> QED  BY <1>3, <2>1 DEF Held
<1> HIDE DEF u, moved
<1>4. ASSUME NEW i \in Held(u), NEW j \in Held(u), Clash(u[i], u[j])
      PROVE  u[i].handed \/ u[j].handed
  BY <1>2, <1>3, <1>4 DEF ExclusiveButHanded
<1> QED  BY <1>4 DEF ExclusiveButHanded, u

(* Every step keeps the database free of clashes but handed ones. *)
LEMMA ExclusiveStep ==
    ASSUME TypeInv, TypeInv', StoredAsServed, ExclusiveButHanded(stored),
           [Next]_vars
    PROVE  ExclusiveButHanded(stored')
<1> USE DEF TypeInv, TypeOK
<1>1. ASSUME ~failed
      PROVE  /\ ExpireStored = Expire(leases)
             /\ ExclusiveButHanded(ExpireStored)
  <2>1. ExpireStored = Expire(leases)
    BY <1>1, InSync DEF Expire, ExpireStored
  <2>2. \A i \in Held(ExpireStored) : i \in Held(stored) /\ Alike(ExpireStored[i], stored[i])
    BY ExpireType DEF Held, Alike
  <2> QED  BY <2>1, <2>2, ExpireType, FewerClashes
<1>2. ASSUME NEW ids, stored' = Remove(stored, ids)
      PROVE  ExclusiveButHanded(stored')
  <2>1. \A i \in Held(stored') : i \in Held(stored) /\ Alike(stored'[i], stored[i])
    BY <1>2, RemoveType DEF Held, Alike
  <2> QED  BY <2>1, FewerClashes
<1>3. ASSUME NEW c \in Claims, Grants(c)
      PROVE  ExclusiveButHanded(stored')
  <2>1. ~failed /\ req[c] \in Request
    BY <1>3 DEF Grants, AnswerGranted, Proceeds, Refused, Asking, Subscribed
  <2>2. PICK g \in ClaimAs(Expire(leases), req[c], Fresh) :
            stored' = Restore(ExpireStored, g)
    BY <1>3 DEF Grants, AnswerGranted
  <2>3. ~Conflicts(Expire(leases), req[c]) /\ Fresh \in SUBSET LeaseIds
    BY <1>3 DEF Grants, AnswerGranted, Fresh
  <2> QED  BY <1>1, <2>1, <2>2, <2>3, ExpireType, GrantClashes
<1>4. ASSUME NEW c \in Claims, Expires(c)
      PROVE  ExclusiveButHanded(stored')
  BY <1>2, <1>4 DEF Expires, InConflict, ExpireStored
<1>5. ASSUME NEW ids \in SUBSET LeaseIds, Drop(ids)
      PROVE  ExclusiveButHanded(stored')
  BY <1>2, <1>5 DEF Drop
<1>6. ASSUME NEW a \in Agents, NEW i \in LeaseIds, Renew(a, i)
      PROVE  ExclusiveButHanded(stored')
  <2>1. CASE leases[i].due
    BY <1>1, <1>6, <2>1 DEF Renew, Admitted
  <2>2. CASE ~leases[i].due
    <3>1. ExpireStored[i] # None /\ ExpireStored \in Tables
      BY <1>6, <2>2, ExpireType DEF Renew, ByHolder, Held, Due, StoredAsServed
    <3>2. stored' = Renewed(ExpireStored, i)
      BY <1>6, <2>2 DEF Renew
    <3>3. ExclusiveButHanded(ExpireStored)
      BY <1>1, <1>6 DEF Renew, Admitted
    <3> QED  BY <3>1, <3>2, <3>3, RenewClashes
  <2> QED  BY <2>1, <2>2
<1>7. ASSUME NEW i \in LeaseIds, RunOut(i)
      PROVE  ExclusiveButHanded(stored')
  <2>1. ASSUME NEW l \in Lease
        PROVE  Alike([l EXCEPT !.due = TRUE], l)
    BY DEF Alike, Lease
  <2>2. \A j \in Held(stored') : j \in Held(stored) /\ Alike(stored'[j], stored[j])
    BY <1>7, <2>1 DEF RunOut, Held, Alike, Tables
  <2> QED  BY <2>2, FewerClashes
<1>8. ASSUME NEW h \in Handoffs, Accept(h)
      PROVE  ExclusiveButHanded(stored')
  <2>1. bundles[h] \in Bundle
    BY <1>8 DEF Accept
  <2>2. bundles[h].from \in Agents /\ bundles[h].to \in Agents
    BY <2>1 DEF Bundle
  <2> QED  BY <1>8, <2>2, TransferClashes DEF Accept
<1>9. CASE ReapFails
  BY <1>2, <1>9 DEF ReapFails
<1>10. CASE Restart
  BY <1>2, <1>10 DEF Restart, Loaded
<1>11. CASE UNCHANGED stored
  BY <1>11
<1> QED  BY <1>3, <1>4, <1>5, <1>6, <1>7, <1>8, <1>9, <1>10, <1>11, LeaseSteps
         DEF LeaseStep

-----------------------------------------------------------------------------
(* Agents that left.                                                       *)

(* Only an agent's own comings and goings change what it is doing. *)
LEMMA StatusSteps ==
    ASSUME [Next]_vars
    PROVE  \/ \E a \in Agents : Stop(a) \/ Return(a) \/ Exit(a)
           \/ UNCHANGED status
<1>1. ASSUME NEW c \in Claims, ClaimStep(c)
      PROVE  UNCHANGED status
  BY <1>1 DEF ClaimStep, Begin, Attempt, Wake, Lag, Deadline, Sleeping, Decide,
              Disconnect, Respond, world
<1>2. ASSUME NEW a \in Agents, HolderStep(a), ~(Stop(a) \/ Return(a) \/ Exit(a))
      PROVE  UNCHANGED status
  BY <1>2 DEF HolderStep, Release, ReleaseAll, Renew, world
<1>3. ASSUME NEW h \in Handoffs, HandoffStep(h)
      PROVE  UNCHANGED status
  BY <1>3 DEF HandoffStep, Draft, Send, Accept, world
<1>4. CASE \/ \E i \in LeaseIds : RunOut(i)
           \/ Reap \/ ReapFails \/ Pause \/ Lift
           \/ StoreFails \/ Restart \/ Offer \/ Abort \/ UNCHANGED vars
  BY <1>4 DEF RunOut, Reap, ReapFails, Pause, Lift, StoreFails, Restart, Offer,
              Abort, world, vars
<1> QED  BY <1>1, <1>2, <1>3, <1>4 DEF Next

(* Every step leaves an agent that is gone without leases. *)
LEMMA LeaversStep ==
    ASSUME TypeInv, TypeInv', StoredAsServed, LeaversHoldNothing, [Next]_vars
    PROVE  LeaversHoldNothing'
<1> USE DEF TypeInv, TypeOK
<1>1. ASSUME NEW a \in Agents, Stop(a) \/ Return(a)
      PROVE  LeaversHoldNothing'
  <2>1. ASSUME NEW i \in Held(leases)
        PROVE  leases[i].holder \in Agents
    BY HeldLease DEF Lease
  <2> QED  BY <1>1, <2>1 DEF Stop, Return, LeaversHoldNothing, Live, Held
<1>2. ASSUME NEW a \in Agents, Exit(a)
      PROVE  LeaversHoldNothing'
  <2>1. leases' = Remove(leases, ByHolder(leases, a))
    BY <1>2 DEF Exit, Drop
  <2>2. ASSUME NEW i \in Held(leases')
        PROVE  i \in Held(leases) /\ leases'[i] = leases[i] /\ leases[i].holder # a
    BY <2>1, RemoveType DEF Held, ByHolder
  <2>3. ASSUME NEW i \in Held(leases')
        PROVE  status'[leases'[i].holder] # "exited"
    <3>1. leases[i].holder \in Agents
      BY <2>2, HeldLease DEF Lease
    <3> QED  BY <1>2, <2>2, <3>1 DEF Exit, LeaversHoldNothing, Live
  <2> QED  BY <2>3 DEF LeaversHoldNothing, Live
<1>3. CASE UNCHANGED status
  <2>1. SUFFICES ASSUME NEW i \in Held(leases')
                 PROVE  status[leases'[i].holder] # "exited"
    BY <1>3 DEF LeaversHoldNothing, Live
  <2>2. ASSUME i \in Held(leases), leases'[i].holder = leases[i].holder
        PROVE  status[leases'[i].holder] # "exited"
    BY <2>2 DEF LeaversHoldNothing, Live
  <2>3. ASSUME NEW ids, leases' = Remove(leases, ids)
        PROVE  status[leases'[i].holder] # "exited"
    BY <2>2, <2>3, RemoveType DEF Held
  <2>4. ASSUME NEW c \in Claims, Grants(c)
        PROVE  status[leases'[i].holder] # "exited"
    <3>1. status[req[c].agent] = "running" /\ req[c] \in Request
      BY <2>4 DEF Grants, AnswerGranted, Proceeds, Refused, Asking, Subscribed
    <3>2. PICK g \in ClaimAs(Expire(leases), req[c], Fresh) :
              leases' = Restore(Expire(leases), g)
      BY <2>4 DEF Grants, AnswerGranted
    <3>3. Fresh \in SUBSET LeaseIds
      BY DEF Fresh
    <3>4. /\ g.lease.holder = req[c].agent
          /\ leases'[i] = IF i = g.id THEN g.lease ELSE Expire(leases)[i]
      <4>1. i \in LeaseIds /\ Expire(leases) \in Tables
        BY ExpireType DEF Held
      <4> HIDE DEF TypeInv, TypeOK
      <4>2. g.lease.holder = req[c].agent
        BY <3>1, <3>3, <4>1, ClaimAsType
      <4>3. Restore(Expire(leases), g)[i] =
               IF i = g.id THEN g.lease ELSE Expire(leases)[i]
        BY <3>1, <3>3, <4>1, ClaimAsType
      <4> QED  BY <3>2, <4>2, <4>3
    <3>5. CASE i = g.id
      BY <3>1, <3>4, <3>5
    <3>6. CASE i # g.id
      BY <2>2, <3>4, <3>6, ExpireType DEF Held
    <3> QED  BY <3>5, <3>6
  <2>5. ASSUME NEW a \in Agents, NEW j \in LeaseIds, Renew(a, j)
        PROVE  status[leases'[i].holder] # "exited"
    <3>1. CASE leases[j].due
      BY <2>3, <2>5, <3>1 DEF Renew, Expire
    <3>2. CASE ~leases[j].due
      <4>1. /\ leases' = Renewed(Expire(leases), j)
            /\ Expire(leases) \in Tables
            /\ Expire(leases)[j] = leases[j]
            /\ leases[j] \in Lease
            /\ leases[j] # None
        <5>1. leases[j] \in Lease /\ leases[j] # None
          BY <2>5, HeldLease DEF Renew, ByHolder, Held
        <5>2. Expire(leases) \in Tables /\ Expire(leases)[j] = leases[j]
          BY <3>2, ExpireType DEF Due
        <5> QED  BY <2>5, <3>2, <5>1, <5>2 DEF Renew
      <4>2. CASE i = j
        <5>1. leases'[i] = [leases[j] EXCEPT !.due = FALSE]
          BY <4>1, <4>2 DEF Renewed, Tables
        <5>2. leases'[i].holder = leases[i].holder
          BY <4>1, <4>2, <5>1 DEF Lease
        <5> QED  BY <2>2, <4>1, <4>2, <5>2 DEF Held
      <4>3. CASE i # j
        <5>1. leases'[i] = Expire(leases)[i]
          BY <4>1, <4>3, RenewedType DEF Held
        <5> QED  BY <2>2, <5>1, ExpireType DEF Held
      <4> QED  BY <4>2, <4>3
    <3> QED  BY <3>1, <3>2
  <2>6. ASSUME NEW j \in LeaseIds, RunOut(j)
        PROVE  status[leases'[i].holder] # "exited"
    <3>1. ASSUME NEW l \in Lease
          PROVE  [l EXCEPT !.due = TRUE].holder = l.holder
      BY DEF Lease
    <3>2. i \in Held(leases) /\ leases'[i].holder = leases[i].holder
      BY <2>6, <3>1 DEF RunOut, Held, Tables
    <3> QED  BY <2>2, <3>2
  <2>7. ASSUME NEW h \in Handoffs, Accept(h)
        PROVE  status[leases'[i].holder] # "exited"
    <3> DEFINE b == bundles[h]
    <3>1. /\ status[b.to] = "running"
          /\ leases' = TransferSelected(leases, b.from, b.to, b.ids)
      BY <2>7 DEF Accept
    <3>2. CASE i \in Movable(leases, b.from, b.ids)
      <4>1. i \in LeaseIds /\ leases[i] \in Lease
        BY <3>2, HeldLease DEF Movable, ByHolder
      <4>2. [leases[i] EXCEPT !.holder = b.to, !.handed = TRUE].holder = b.to
        <5>1. b.to \in Agents
          BY <2>7 DEF Accept, Bundle
        <5> QED  BY <4>1, <5>1, MovedLease
      <4>3. leases'[i] = [leases[i] EXCEPT !.holder = b.to, !.handed = TRUE]
        BY <3>1, <3>2, <4>1 DEF TransferSelected
      <4> QED  BY <3>1, <4>2, <4>3
    <3>3. CASE i \notin Movable(leases, b.from, b.ids)
      <4>1. leases'[i] = leases[i]
        BY <3>1, <3>3 DEF TransferSelected, Held
      <4> QED  BY <2>2, <4>1 DEF Held
    <3> QED  BY <3>2, <3>3
  <2>8. CASE Restart
    <3>1. leases'[i] = stored[i] /\ i \in Held(stored) /\ Live(stored[i].holder)
      BY <2>8, RemoveType DEF Restart, Loaded, Held
    <3> QED  BY <3>1 DEF Live
  <2>9. ASSUME NEW c \in Claims, Expires(c)
        PROVE  status[leases'[i].holder] # "exited"
    BY <2>3, <2>9 DEF Expires, InConflict, Expire
  <2>10. CASE ReapFails \/ \E ids \in SUBSET LeaseIds : Drop(ids)
    BY <2>3, <2>10 DEF ReapFails, Drop, Expire
  <2>11. CASE UNCHANGED leases
    BY <2>2, <2>11
  <2> QED  BY <2>4, <2>5, <2>6, <2>7, <2>8, <2>9, <2>10, <2>11, LeaseSteps
           DEF LeaseStep
<1> QED  BY <1>1, <1>2, <1>3, StatusSteps

-----------------------------------------------------------------------------
(* Places in the queue.                                                    *)

(* Tickets are handed out once: those in the queue are below the next one. *)
Placed ==
    /\ OnePlace
    /\ \A c \in Queued(queue) : queue[c].ticket < tickets

(* Ending a wait takes its place away and gives none. *)
LEMMA SettlePlaced ==
    ASSUME TypeInv, Placed, NEW c \in Claims, NEW ans, NEW outcome, NEW freed,
           Settle(c, ans, outcome, freed)
    PROVE  Placed'
<1> USE DEF TypeInv, TypeOK
<1>1. /\ queue' = Leave(queue, {c})
      /\ broken' = broken \ {c}
      /\ pc' = [pc EXCEPT ![c] = "answered"]
      /\ tickets' = tickets
  BY DEF Settle
<1>2. \A d \in Queued(queue') : d # c /\ d \in Queued(queue) /\ queue'[d] = queue[d]
  BY <1>1, LeaveType DEF Queued
<1>3. \A d \in Claims : d # c => pc'[d] = pc[d]
  BY <1>1
<1>4. Queued(queue') \in SUBSET Claims
  BY DEF Queued
<1>5. broken' \cap Queued(queue') = {}
  BY <1>1, <1>2 DEF Placed, OnePlace
<1>6. \A d \in broken' \cup Queued(queue') : pc'[d] \in Subscribed
  <2>1. \A d \in broken' : d # c /\ d \in broken /\ d \in Claims
    BY <1>1
  <2> QED  BY <1>2, <1>3, <1>4, <2>1 DEF Placed, OnePlace
<1>7. \A d, e \in Queued(queue') : queue'[d].ticket = queue'[e].ticket => d = e
  BY <1>2 DEF Placed, OnePlace
<1>8. \A d \in Queued(queue') : queue'[d].ticket < tickets'
  BY <1>1, <1>2 DEF Placed
<1> QED  BY <1>5, <1>6, <1>7, <1>8 DEF Placed, OnePlace

(* A claim that stays subscribed keeps its place. *)
LEMMA KeepPlaced ==
    ASSUME TypeInv, Placed, UNCHANGED line,
           \A c \in Claims : pc[c] \in Subscribed => pc'[c] \in Subscribed
    PROVE  Placed'
<1>1. Queued(queue') = Queued(queue) /\ Queued(queue) \in SUBSET Claims
  BY DEF line, Queued
<1> QED  BY <1>1 DEF Placed, OnePlace, line, TypeInv, TypeOK

(* Breaking rings moves places from the queue to the broken waits, and a   *)
(* claim that joins gets a ticket nobody has.                              *)
LEMMA AttemptPlaced ==
    ASSUME TypeInv, Placed, NEW c \in Claims, Attempt(c)
    PROVE  Placed'
<1> USE DEF TypeInv, TypeOK
<1>1. CASE AnswerBroken(c) \/ AnswerRefused(c) \/ AnswerGranted(c) \/ AnswerConflict(c)
  BY <1>1, SettlePlaced DEF AnswerBroken, AnswerRefused, AnswerGranted, AnswerConflict
<1>2. CASE SleepAgain(c)
  <2>1. UNCHANGED line /\ pc' = [pc EXCEPT ![c] = "asleep"]
    BY <1>2 DEF SleepAgain
  <2>2. \A d \in Claims : pc[d] \in Subscribed => pc'[d] \in Subscribed
    BY <2>1 DEF Subscribed
  <2> QED  BY <2>1, <2>2, KeepPlaced
<1>3. ASSUME NEW o \in BreakRings(Expire(leases), queue, req[c])
      PROVE  /\ o.ended \in SUBSET Queued(queue)
             /\ Queued(Leave(queue, o.ended)) = Queued(queue) \ o.ended
             /\ \A d \in Queued(queue) \ o.ended : Leave(queue, o.ended)[d] = queue[d]
  <2>1. o.ended \in SUBSET Queued(queue)
    BY DEF BreakRings
  <2> QED  BY <2>1, LeaveType DEF Queued
<1>4. Queued(queue) \in SUBSET Claims
  BY DEF Queued
<1>5. CASE JoinQueue(c)
  <2>1. PICK o \in BreakRings(Expire(leases), queue, req[c]) :
          /\ queue' = Join(Leave(queue, o.ended), c, WaiterOf(tickets, req[c]))
          /\ tickets' = tickets + 1
          /\ broken' = broken \cup o.ended
          /\ pc' = [pc EXCEPT ![c] = "asleep"]
    BY <1>5 DEF JoinQueue
  <2>2. c \notin Queued(queue) /\ c \notin broken
    BY <1>5 DEF JoinQueue, InConflict, Proceeds
  <2>3. /\ \A d \in Queued(queue') \ {c} :
               d \in Queued(queue) \ o.ended /\ queue'[d] = queue[d]
        /\ queue'[c].ticket = tickets
    <3>1. Leave(queue, o.ended) \in Queues
      BY LeaveType
    <3>2. /\ queue'[c] = WaiterOf(tickets, req[c])
          /\ \A d \in Claims \ {c} : queue'[d] = Leave(queue, o.ended)[d]
      BY <2>1, <3>1 DEF Join, Queues
    <3>3. ASSUME NEW d \in Queued(queue') \ {c}
          PROVE  d \in Queued(queue) \ o.ended /\ queue'[d] = queue[d]
      <4>1. d \in Claims /\ Leave(queue, o.ended)[d] = queue'[d] /\ queue'[d] # None
        BY <3>2 DEF Queued
      <4>2. d \in Queued(Leave(queue, o.ended))
        BY <4>1 DEF Queued
      <4> QED  BY <1>3, <4>1, <4>2
    <3>4. queue'[c].ticket = tickets
      BY <3>2 DEF WaiterOf
    <3> QED  BY <3>3, <3>4
  <2>4. broken' \cap Queued(queue') = {}
    BY <1>3, <2>1, <2>2, <2>3 DEF Placed, OnePlace
  <2>5. \A d \in broken' \cup Queued(queue') : pc'[d] \in Subscribed
    BY <1>3, <1>4, <2>1, <2>3 DEF Placed, OnePlace, Subscribed
  <2>6. \A d \in Queued(queue') \ {c} :
           queue'[d].ticket \in Nat /\ queue'[d].ticket < tickets
    <3>1. \A d \in Queued(queue) : queue[d].ticket \in Nat
      BY DEF Queued, Queues, Waiter
    <3> QED  BY <2>3, <3>1 DEF Placed
  <2>7. \A d \in Queued(queue') : queue'[d].ticket < tickets'
    <3>1. ASSUME NEW d \in Queued(queue')
          PROVE  queue'[d].ticket < tickets + 1
      <4>1. CASE d = c
        BY <2>3, <4>1
      <4>2. CASE d # c
        BY <2>6, <4>2
      <4> QED  BY <4>1, <4>2
    <3> QED  BY <2>1, <3>1
  <2>8. ASSUME NEW d \in Queued(queue'), NEW e \in Queued(queue'),
               queue'[d].ticket = queue'[e].ticket
        PROVE  d = e
    <3>1. CASE d # c /\ e # c
      BY <2>3, <2>8, <3>1 DEF Placed, OnePlace
    <3>2. CASE d = c /\ e # c
      BY <2>3, <2>6, <2>8, <3>2
    <3>3. CASE d # c /\ e = c
      BY <2>3, <2>6, <2>8, <3>3
    <3> QED  BY <3>1, <3>2, <3>3
  <2> QED  BY <2>4, <2>5, <2>7, <2>8 DEF Placed, OnePlace
<1>6. CASE AnswerDeadlock(c)
  <2>1. PICK o \in BreakRings(Expire(leases), queue, req[c]) :
          /\ queue' = Leave(queue, o.ended)
          /\ broken' = broken \cup o.ended
          /\ pc' = [pc EXCEPT ![c] = "answered"]
    BY <1>6 DEF AnswerDeadlock
  <2>2. c \notin Queued(queue) /\ c \notin broken /\ tickets' = tickets
    BY <1>6 DEF AnswerDeadlock, InConflict, Proceeds
  <2>3. \A d \in Queued(queue') : d \in Queued(queue) \ o.ended /\ queue'[d] = queue[d]
    BY <1>3, <2>1
  <2>4. broken' \cap Queued(queue') = {}
    BY <2>1, <2>3 DEF Placed, OnePlace
  <2>5. \A d \in broken' \cup Queued(queue') : pc'[d] \in Subscribed
    BY <1>3, <1>4, <2>1, <2>2, <2>3 DEF Placed, OnePlace
  <2> QED  BY <2>2, <2>3, <2>4, <2>5 DEF Placed, OnePlace
<1> QED  BY <1>1, <1>2, <1>5, <1>6 DEF Attempt

(* No step puts a claim into two places. *)
LEMMA PlacedStep ==
    ASSUME TypeInv, TypeInv', Placed, [Next]_vars
    PROVE  Placed'
<1> USE DEF TypeInv, TypeOK
<1>1. ASSUME NEW c \in Claims, ClaimStep(c)
      PROVE  Placed'
  <2>1. CASE Attempt(c)
    BY <2>1, AttemptPlaced
  <2>2. CASE \E q \in Asks[c] : Begin(c, q)
    <3>1. UNCHANGED line /\ pc' = [pc EXCEPT ![c] = "attempt"]
      BY <2>2 DEF Begin
    <3>2. \A d \in Claims : pc[d] \in Subscribed => pc'[d] \in Subscribed
      BY <3>1 DEF Subscribed
    <3> QED  BY <3>1, <3>2, KeepPlaced
  <2>3. CASE Wake(c) \/ Lag(c) \/ Deadline(c)
    <3>1. UNCHANGED line /\ \/ pc' = [pc EXCEPT ![c] = "woken"]
                            \/ pc' = [pc EXCEPT ![c] = "late"]
      BY <2>3 DEF Wake, Lag, Deadline, Sleeping
    <3>2. \A d \in Claims : pc[d] \in Subscribed => pc'[d] \in Subscribed
      BY <3>1 DEF Subscribed
    <3> QED  BY <3>1, <3>2, KeepPlaced
  <2>4. CASE Decide(c)
    <3>1. CASE pc' = [pc EXCEPT ![c] = "attempt"] /\ UNCHANGED line
      <4>1. \A d \in Claims : pc[d] \in Subscribed => pc'[d] \in Subscribed
        BY <3>1 DEF Subscribed
      <4> QED  BY <3>1, <4>1, KeepPlaced
    <3> QED  BY <2>4, <3>1, SettlePlaced DEF Decide, AnswerBroken
  <2>5. CASE Disconnect(c)
    BY <2>5, SettlePlaced DEF Disconnect
  <2>6. CASE Respond(c)
    <3>1. UNCHANGED line /\ pc' = [pc EXCEPT ![c] = "idle"] /\ pc[c] = "answered"
      BY <2>6 DEF Respond
    <3>2. \A d \in Claims : pc[d] \in Subscribed => pc'[d] \in Subscribed
      BY <3>1 DEF Subscribed
    <3> QED  BY <3>1, <3>2, KeepPlaced
  <2> QED  BY <1>1, <2>1, <2>2, <2>3, <2>4, <2>5, <2>6 DEF ClaimStep
<1>2. CASE UNCHANGED line /\ UNCHANGED pc
  BY <1>2, KeepPlaced
<1>3. CASE Restart
  BY <1>3 DEF Restart, EmptyQueue, Queued, Placed, OnePlace
<1>4. ASSUME NEW a \in Agents, HolderStep(a)
      PROVE  UNCHANGED line /\ UNCHANGED pc
  BY <1>4 DEF HolderStep, Release, ReleaseAll, Renew, Stop, Exit, Return, Drop, claims
<1>5. ASSUME NEW h \in Handoffs, HandoffStep(h)
      PROVE  UNCHANGED line /\ UNCHANGED pc
  BY <1>5 DEF HandoffStep, Draft, Send, Accept, claims
<1>6. CASE \/ \E i \in LeaseIds : RunOut(i)
           \/ Reap \/ ReapFails \/ Pause \/ Lift
           \/ StoreFails \/ Offer \/ Abort \/ UNCHANGED vars
  <2>1. UNCHANGED line /\ UNCHANGED pc
    BY <1>6 DEF RunOut, Reap, ReapFails, Drop, Pause, Lift, StoreFails, Offer, Abort,
                claims, line, vars
  <2> QED  BY <1>2, <2>1
<1> QED  BY <1>1, <1>2, <1>3, <1>4, <1>5, <1>6 DEF Next

-----------------------------------------------------------------------------
(* The fence of a transfer.                                                *)

(* No admitted claim can still write once a transfer is offered. *)
Quiesced == fenced => \A c \in Claims : pc[c] # "attempt"

(* No step admits a claim behind the fence. *)
LEMMA QuiescedStep ==
    ASSUME TypeInv, Quiesced, [Next]_vars
    PROVE  Quiesced'
<1> USE DEF TypeInv, TypeOK
<1>1. ASSUME NEW c \in Claims, ClaimStep(c)
      PROVE  Quiesced'
  <2>1. UNCHANGED fenced
    BY <1>1 DEF ClaimStep, Begin, Attempt, Wake, Lag, Deadline, Sleeping, Decide,
                Disconnect, Respond, world
  <2>2. CASE \E q \in Asks[c] : Begin(c, q)
    BY <2>1, <2>2 DEF Begin, Admitted, Quiesced
  <2>3. CASE Attempt(c)
    BY <2>1, <2>3 DEF Attempt, Quiesced
  <2>4. CASE \E next \in {"woken", "late", "answered", "idle"} :
                pc' = [pc EXCEPT ![c] = next]
    BY <2>1, <2>4 DEF Quiesced
  <2>5. CASE Wake(c) \/ Lag(c) \/ Deadline(c)
    BY <2>4, <2>5 DEF Wake, Lag, Deadline, Sleeping
  <2>6. CASE Decide(c)
    <3>1. CASE ~fenced
      BY <2>1, <3>1 DEF Quiesced
    <3>2. CASE fenced
      BY <2>4, <2>6, <3>2 DEF Decide, AnswerBroken, Settle
    <3> QED  BY <3>1, <3>2
  <2>7. CASE Disconnect(c) \/ Respond(c)
    BY <2>4, <2>7 DEF Disconnect, Respond, Settle
  <2> QED  BY <1>1, <2>2, <2>3, <2>5, <2>6, <2>7 DEF ClaimStep
<1>2. CASE UNCHANGED <<fenced, pc>>
  BY <1>2 DEF Quiesced
<1>3. ASSUME NEW a \in Agents, HolderStep(a)
      PROVE  UNCHANGED <<fenced, pc>>
  BY <1>3 DEF HolderStep, Release, ReleaseAll, Renew, Stop, Exit, Return, Drop,
              claims, world
<1>4. ASSUME NEW h \in Handoffs, HandoffStep(h)
      PROVE  UNCHANGED <<fenced, pc>>
  BY <1>4 DEF HandoffStep, Draft, Send, Accept, claims, world
<1>5. CASE \/ \E i \in LeaseIds : RunOut(i)
           \/ Reap \/ ReapFails \/ Pause \/ Lift \/ StoreFails \/ UNCHANGED vars
  <2>1. UNCHANGED <<fenced, pc>>
    BY <1>5 DEF RunOut, Reap, ReapFails, Drop, Pause, Lift, StoreFails, claims,
                world, vars
  <2> QED  BY <1>2, <2>1
<1>6. CASE Offer
  BY <1>6 DEF Offer, InFlight, Quiesced, claims
<1>7. CASE Abort \/ Restart
  BY <1>7 DEF Abort, Restart, Quiesced
<1> QED  BY <1>1, <1>2, <1>3, <1>4, <1>5, <1>6, <1>7 DEF Next

(* Time passing is not seen by who only looks at what is leased. *)
LEMMA RunOutTimeless ==
    ASSUME NEW t \in Tables, NEW i \in LeaseIds, t[i] # None
    PROVE  Timeless([t EXCEPT ![i].due = TRUE]) = Timeless(t)
<1>1. ASSUME NEW l \in Lease, NEW m \in Lease, m = [l EXCEPT !.due = TRUE]
      PROVE  [m EXCEPT !.due = FALSE] = [l EXCEPT !.due = FALSE]
  <2>1. /\ m.holder = l.holder /\ m.resource = l.resource /\ m.mode = l.mode
        /\ m.automatic = l.automatic /\ m.handed = l.handed
    BY <1>1 DEF Lease
  <2> HIDE <1>1
  <2> QED  BY <2>1 DEF Lease
<1> DEFINE m == [t[i] EXCEPT !.due = TRUE]
           u == [t EXCEPT ![i].due = TRUE]
<1>2. t[i] \in Lease
  BY DEF Tables
<1>3. m \in Lease
  BY <1>2 DEF Lease
<1>4. m # None
  BY <1>3, NoneAssumption
<1>5. u[i] = m /\ \A j \in LeaseIds \ {i} : u[j] = t[j]
  BY DEF Tables
<1>6. [m EXCEPT !.due = FALSE] = [t[i] EXCEPT !.due = FALSE]
  BY <1>1, <1>2, <1>3
<1> HIDE DEF u, m
<1>7. Timeless(u) = Timeless(t)
  BY <1>4, <1>5, <1>6 DEF Timeless
<1> QED  BY <1>7 DEF u

(* While a transfer stands no step changes a lease but in its time. *)
LEMMA FencedStep ==
    ASSUME TypeInv, StoredAsServed, Quiesced, [Next]_vars, fenced, fenced'
    PROVE  Timeless(stored') = Timeless(stored) /\ Timeless(leases') = Timeless(leases)
<1> USE DEF TypeInv, TypeOK
<1>1. ASSUME NEW i \in LeaseIds, RunOut(i)
      PROVE  Timeless(stored') = Timeless(stored) /\ Timeless(leases') = Timeless(leases)
  <2>1. leases[i] # None /\ stored[i] # None
    BY <1>1 DEF RunOut, StoredAsServed
  <2> QED  BY <1>1, <2>1, RunOutTimeless DEF RunOut
<1>2. CASE UNCHANGED <<leases, stored>>
  BY <1>2
<1>3. ~LeaseStep \/ \E i \in LeaseIds : RunOut(i)
  <2>1. ~Admitted
    BY DEF Admitted
  <2>2. ASSUME NEW c \in Claims
        PROVE  ~Grants(c) /\ ~Expires(c)
    BY DEF Quiesced, Grants, Expires
  <2>3. ~Restart
    BY DEF Restart
  <2> QED  BY <2>1, <2>2, <2>3 DEF LeaseStep, Renew, Accept, ReapFails
<1> QED  BY <1>1, <1>2, <1>3, LeaseSteps

-----------------------------------------------------------------------------
(* What is announced of a wait.                                            *)

(* A transfer spends one of its bound, and the fence stands only then. *)
Spared ==
    /\ left["transfer"] <= Budget["transfer"]
    /\ fenced => ~NeverOffered

(* What is spent is not given back. *)
LEMMA SparedStep ==
    ASSUME TypeInv, Spared, [Next]_vars
    PROVE  /\ Spared'
           /\ NeverOffered' => NeverOffered /\ ~fenced /\ ~fenced'
<1>1. /\ left \in [Disturbances -> Nat] /\ Budget \in [Disturbances -> Nat]
      /\ "transfer" \in Disturbances
  BY BudgetAssumption DEF TypeInv, TypeOK, Disturbances
<1>2. \A kind \in Disturbances : Spend(kind) =>
         /\ left' \in [Disturbances -> Nat]
         /\ left'["transfer"] <= left["transfer"]
  BY <1>1 DEF Spend
<1>3. Spend("transfer") => left'["transfer"] < left["transfer"]
  BY <1>1 DEF Spend
<1>4. /\ left' = left \/ \E kind \in Disturbances : Spend(kind)
      /\ Offer \/ fenced' \in {fenced, FALSE}
  <2>1. ASSUME NEW c \in Claims, ClaimStep(c)
        PROVE  /\ left' = left \/ \E kind \in Disturbances : Spend(kind)
               /\ fenced' = fenced
    BY <2>1 DEF ClaimStep, Begin, Attempt, Wake, Lag, Deadline, Sleeping, Decide,
         Disconnect, Respond, world, Disturbances
  <2>2. ASSUME NEW a \in Agents, HolderStep(a)
        PROVE  /\ left' = left \/ \E kind \in Disturbances : Spend(kind)
               /\ fenced' = fenced
    BY <2>2 DEF HolderStep, Release, ReleaseAll, Renew, Stop, Exit, Return,
         world, Disturbances
  <2>3. ASSUME NEW h \in Handoffs, HandoffStep(h)
        PROVE  left' = left /\ fenced' = fenced
    BY <2>3 DEF HandoffStep, Draft, Send, Accept, world
  <2>4. CASE \/ \E i \in LeaseIds : RunOut(i)
             \/ Reap \/ ReapFails \/ Pause \/ Lift
             \/ StoreFails \/ Restart \/ Offer \/ Abort \/ UNCHANGED vars
    BY <2>4 DEF RunOut, Reap, ReapFails, Pause, Lift, StoreFails, Restart, Offer,
         Abort, world, vars, Disturbances
  <2> QED  BY <2>1, <2>2, <2>3, <2>4 DEF Next
<1>5. left'["transfer"] \in Nat /\ left'["transfer"] <= left["transfer"]
  BY <1>1, <1>2, <1>4
<1>6. Offer => left'["transfer"] < left["transfer"]
  BY <1>3 DEF Offer
<1>7. fenced' \in BOOLEAN /\ fenced \in BOOLEAN
  BY <1>4 DEF Offer, TypeInv, TypeOK
<1>8. NeverOffered' => NeverOffered /\ ~Offer
  BY <1>1, <1>5, <1>6 DEF NeverOffered, Spared
<1>9. NeverOffered' => ~fenced /\ ~fenced'
  BY <1>4, <1>7, <1>8 DEF Spared
<1> QED  BY <1>1, <1>5, <1>8, <1>9 DEF Spared

(* A wait that began was announced, one that a ring was broken at was      *)
(* announced to end, and of a claim that never waited nothing was said.    *)
(* Only a claim that waits has a place, for what it asked, and a claim     *)
(* asleep has or had one.                                                  *)
Spoken(c) ==
    /\ c \in Queued(queue) => /\ said[c] = <<"waiting">>
                              /\ req[c].wait
                              /\ queue[c].resource = req[c].resource
    /\ c \in broken => said[c] = <<"waiting", "deadlock">>
    /\ pc[c] # "answered" /\ c \notin broken \cup Queued(queue) =>
          said[c] = << >> /\ pc[c] # "asleep"
    /\ pc[c] = "answered" => SaidFits(c)

Announced == ~failed /\ NeverOffered => \A c \in Claims : Spoken(c)

(* A claim that nothing happens to. *)
LEMMA SpokenKept ==
    ASSUME TypeInv, NEW c \in Claims, Spoken(c),
           pc'[c] = pc[c], req'[c] = req[c], answer'[c] = answer[c],
           said'[c] = said[c], queue'[c] = queue[c],
           c \in broken' <=> c \in broken
    PROVE  Spoken(c)'
<1>1. c \in Queued(queue') <=> c \in Queued(queue)
  BY DEF Queued
<1> QED  BY <1>1 DEF Spoken, SaidFits

(* What is said next comes last. *)
LEMMA SaidThen ==
    ASSUME NEW Words, NEW first \in Words, NEW word \in Words
    PROVE  /\ Append(<< >>, word) = <<word>>
           /\ Append(<<first>>, word) = <<first, word>>
<1> DEFINE start == <<first>>
<1>1. Append(<< >>, word) = <<word>>
  OBVIOUS
<1>2. start \in Seq(Words) /\ Len(start) = 1 /\ start[1] = first
  OBVIOUS
<1> HIDE DEF start
<1>3. /\ Append(start, word) \in Seq(Words) /\ Len(Append(start, word)) = 2
      /\ Append(start, word)[1] = first /\ Append(start, word)[2] = word
  <2>1. /\ Append(start, word) \in Seq(Words)
        /\ Len(Append(start, word)) = Len(start) + 1
        /\ \A i \in 1..Len(start) : Append(start, word)[i] = start[i]
        /\ Append(start, word)[Len(start) + 1] = word
    BY <1>2, AppendProperties, Zenon
  <2> QED  BY <1>2, <2>1
<1>4. /\ <<first, word>> \in Seq(Words) /\ Len(<<first, word>>) = 2
      /\ \A i \in 1..2 : Append(start, word)[i] = <<first, word>>[i]
  BY <1>3
<1>5. Append(start, word) = <<first, word>>
  BY <1>3, <1>4, SeqEqual
<1> QED  BY <1>1, <1>5 DEF start

(* Ending a wait says so once, and what fits. *)
LEMMA SettleSpoken ==
    ASSUME TypeInv, Placed, Admitted, \A d \in Claims : Spoken(d),
           NEW c \in Claims, pc[c] \in Subscribed, NEW ans \in DOMAIN Fits,
           NEW outcome \in Outcomes, NEW freed, Settle(c, ans, outcome, freed),
           c \in Queued(queue) => outcome \in Fits[ans],
           c \in broken => "deadlock" \in Fits[ans]
    PROVE  \A d \in Claims : Spoken(d)'
<1> USE DEF TypeInv, TypeOK
<1>1. /\ pc' = [pc EXCEPT ![c] = "answered"]
      /\ answer' = [answer EXCEPT ![c] = ans]
      /\ queue' = Leave(queue, {c})
      /\ broken' = broken \ {c}
      /\ req' = req
      /\ said' = IF c \in Queued(queue)
                 THEN [said EXCEPT ![c] = Append(@, outcome)] ELSE said
  BY DEF Settle
<1>2. \A d \in Claims : queue'[d] = IF d = c THEN None ELSE queue[d]
  BY <1>1, LeaveType
<1>3. ASSUME NEW d \in Claims, d # c
      PROVE  Spoken(d)'
  <2>1. pc'[d] = pc[d] /\ answer'[d] = answer[d] /\ said'[d] = said[d]
    BY <1>1, <1>3
  <2> QED  BY <1>1, <1>2, <1>3, <2>1, SpokenKept
<1>4. Spoken(c)'
  <2>1. pc'[c] = "answered" /\ answer'[c] = ans /\ c \notin Queued(queue')
        /\ c \notin broken'
    BY <1>1, <1>2 DEF Queued
  <2>2. pc[c] # "answered"
    BY DEF Subscribed
  <2>3. SaidFits(c)'
    <3>1. CASE c \in Queued(queue)
      <4>1. said'[c] = Append(<<"waiting">>, outcome)
        BY <1>1, <3>1 DEF Spoken
      <4>2. said'[c] = <<"waiting", outcome>>
        <5>1. "waiting" \in Outcomes \cup {"waiting"} /\ outcome \in Outcomes \cup {"waiting"}
          OBVIOUS
        <5> QED  BY <4>1, <5>1, SaidThen, Zenon
      <4> QED  BY <2>1, <3>1, <4>2 DEF SaidFits
    <3>2. CASE c \notin Queued(queue) /\ c \in broken
      <4>1. said'[c] = <<"waiting", "deadlock">>
        BY <1>1, <3>2 DEF Spoken
      <4> QED  BY <2>1, <3>2, <4>1 DEF SaidFits
    <3>3. CASE c \notin Queued(queue) /\ c \notin broken
      <4>1. said'[c] = << >>
        BY <1>1, <2>2, <3>3 DEF Spoken
      <4> QED  BY <4>1 DEF SaidFits
    <3> QED  BY <3>1, <3>2, <3>3
  <2> QED  BY <2>1, <2>3 DEF Spoken
<1> QED  BY <1>3, <1>4

(* A claim takes its place, or breaks a ring, with one word each to whom   *)
(* it concerns.                                                            *)
LEMMA AttemptSpoken ==
    ASSUME TypeInv, Placed, Admitted, \A d \in Claims : Spoken(d),
           NEW c \in Claims, Attempt(c)
    PROVE  \A d \in Claims : Spoken(d)'
<1> USE DEF TypeInv, TypeOK
<1>0. pc[c] = "attempt" /\ pc[c] \in Subscribed /\ req[c] \in Request
  BY DEF Attempt, Subscribed, Asking
<1>1. CASE AnswerBroken(c)
  <2>1. c \notin Queued(queue) /\ Settle(c, "deadlock", "deadlock", {})
    BY <1>1 DEF AnswerBroken, Placed, OnePlace
  <2>2. "deadlock" \in DOMAIN Fits /\ "deadlock" \in Outcomes
        /\ "deadlock" \in Fits["deadlock"]
    BY DEF Fits, Outcomes
  <2> QED  BY <1>0, <2>1, <2>2, SettleSpoken
<1>2. CASE AnswerRefused(c)
  <2>1. c \notin broken /\ Settle(c, "refused", "cancelled", {})
    BY <1>2 DEF AnswerRefused
  <2>2. "refused" \in DOMAIN Fits /\ "cancelled" \in Outcomes
        /\ "cancelled" \in Fits["refused"]
    BY DEF Fits, Outcomes
  <2> QED  BY <1>0, <2>1, <2>2, SettleSpoken
<1>3. CASE AnswerGranted(c)
  <2>1. c \notin broken /\ Settle(c, "lease", "claimed", Wanted(leases, Due(leases)))
    BY <1>3 DEF AnswerGranted, Proceeds
  <2>2. "lease" \in DOMAIN Fits /\ "claimed" \in Outcomes
        /\ "claimed" \in Fits["lease"]
    BY DEF Fits, Outcomes
  <2> QED  BY <1>0, <2>1, <2>2, SettleSpoken
<1>4. CASE AnswerConflict(c)
  <2>1. /\ c \notin broken
        /\ c \notin Queued(queue)
        /\ Settle(c, "conflict", "cancelled", Wanted(leases, Due(leases)))
    BY <1>4 DEF AnswerConflict, InConflict, Proceeds, Spoken
  <2>2. "conflict" \in DOMAIN Fits /\ "cancelled" \in Outcomes
    BY DEF Fits, Outcomes
  <2> QED  BY <1>0, <2>1, <2>2, SettleSpoken
<1>5. CASE SleepAgain(c)
  <2>1. /\ UNCHANGED <<req, answer, said, queue, broken>>
        /\ pc' = [pc EXCEPT ![c] = "asleep"]
        /\ c \in Queued(queue)
        /\ c \notin broken
    BY <1>5 DEF SleepAgain, line, InConflict, Proceeds
  <2>2. ASSUME NEW d \in Claims, d # c
        PROVE  Spoken(d)'
    BY <2>1, <2>2, SpokenKept
  <2>3. Spoken(c)'
    BY <2>1 DEF Spoken
  <2> QED  BY <2>2, <2>3
<1>6. ASSUME NEW o \in BreakRings(Expire(leases), queue, req[c])
      PROVE  /\ o.ended \in SUBSET Queued(queue)
             /\ \A d \in o.ended : /\ d \in Claims
                                   /\ said[d] = <<"waiting">>
                                   /\ Append(said[d], "deadlock")
                                         = <<"waiting", "deadlock">>
                                   /\ pc[d] \in Subscribed
             /\ Leave(queue, o.ended) \in Queues
             /\ \A d \in Claims : Leave(queue, o.ended)[d] =
                   IF d \in o.ended THEN None ELSE queue[d]
  <2>1. o.ended \in SUBSET Queued(queue)
    BY DEF BreakRings
  <2>2. \A d \in o.ended : d \in Claims /\ said[d] = <<"waiting">>
                             /\ pc[d] \in Subscribed
    BY <2>1 DEF Queued, Spoken, Placed, OnePlace
  <2>3. Append(<<"waiting">>, "deadlock") = <<"waiting", "deadlock">>
    <3>1. "waiting" \in {"waiting", "deadlock"} /\ "deadlock" \in {"waiting", "deadlock"}
      OBVIOUS
    <3> QED  BY <3>1, SaidThen, Zenon
  <2>4. \A d \in o.ended : Append(said[d], "deadlock") = <<"waiting", "deadlock">>
    BY <2>2, <2>3, Zenon
  <2>5. /\ Leave(queue, o.ended) \in Queues
        /\ \A d \in Claims : Leave(queue, o.ended)[d] =
              IF d \in o.ended THEN None ELSE queue[d]
    BY LeaveType
  <2> QED  BY <2>1, <2>2, <2>4, <2>5, Zenon
<1>7. CASE JoinQueue(c)
  <2>1. PICK o \in BreakRings(Expire(leases), queue, req[c]) :
          /\ queue' = Join(Leave(queue, o.ended), c, WaiterOf(tickets, req[c]))
          /\ broken' = broken \cup o.ended
          /\ pc' = [pc EXCEPT ![c] = "asleep"]
          /\ said' = [SayDeadlock(o) EXCEPT ![c] = Append(@, "waiting")]
    BY <1>7 DEF JoinQueue
  <2>2. /\ c \notin Queued(queue) /\ c \notin broken /\ req[c].wait
        /\ UNCHANGED <<req, answer>>
    BY <1>7 DEF JoinQueue, InConflict, Proceeds
  <2>3. c \notin o.ended /\ said[c] = << >>
    BY <1>0, <1>6, <2>2 DEF Spoken
  <2>4. /\ said'[c] = <<"waiting">>
        /\ \A d \in Claims \ {c} : said'[d] =
              IF d \in o.ended THEN Append(said[d], "deadlock") ELSE said[d]
    <3>1. Append(<< >>, "waiting") = <<"waiting">>
      BY SaidThen, Zenon
    <3> QED  BY <2>1, <2>3, <3>1 DEF SayDeadlock
  <2>5. /\ queue'[c] = WaiterOf(tickets, req[c])
        /\ \A d \in Claims \ {c} : queue'[d] = IF d \in o.ended THEN None ELSE queue[d]
    BY <1>6, <2>1 DEF Join, Queues
  <2>6. Spoken(c)'
    <3>1. queue'[c].resource = req[c].resource
      BY <2>5 DEF WaiterOf
    <3>2. queue'[c] \in Waiter
      BY <1>0, <2>5 DEF WaiterOf, Waiter, Request
    <3>3. c \in Queued(queue')
      BY <3>2, WaiterAssumption DEF Queued
    <3> QED  BY <2>1, <2>2, <2>3, <2>4, <3>1, <3>3 DEF Spoken
  <2>7. ASSUME NEW d \in o.ended
        PROVE  Spoken(d)'
    <3>1. d \in Claims /\ d # c /\ said'[d] = <<"waiting", "deadlock">>
          /\ d \in broken' /\ pc'[d] \in Subscribed
      BY <1>6, <2>1, <2>3, <2>4
    <3>2. d \notin Queued(queue')
      BY <2>5, <3>1 DEF Queued
    <3> QED  BY <3>1, <3>2 DEF Spoken, Subscribed
  <2>8. ASSUME NEW d \in Claims, d # c, d \notin o.ended
        PROVE  Spoken(d)'
    <3>1. /\ pc'[d] = pc[d] /\ said'[d] = said[d] /\ queue'[d] = queue[d]
          /\ d \in broken' <=> d \in broken
      BY <2>1, <2>4, <2>5, <2>8
    <3> QED  BY <2>2, <2>8, <3>1, SpokenKept
  <2> QED  BY <2>6, <2>7, <2>8
<1>8. CASE AnswerDeadlock(c)
  <2>1. PICK o \in BreakRings(Expire(leases), queue, req[c]) :
          /\ queue' = Leave(queue, o.ended)
          /\ broken' = broken \cup o.ended
          /\ pc' = [pc EXCEPT ![c] = "answered"]
          /\ answer' = [answer EXCEPT ![c] = "deadlock"]
          /\ said' = [SayDeadlock(o) EXCEPT ![c] = Append(@, "deadlock")]
    BY <1>8 DEF AnswerDeadlock
  <2>2. /\ c \notin Queued(queue) /\ c \notin broken
        /\ UNCHANGED req
    BY <1>8 DEF AnswerDeadlock, InConflict, Proceeds
  <2>3. c \notin o.ended /\ said[c] = << >>
    BY <1>0, <1>6, <2>2 DEF Spoken
  <2>4. /\ said'[c] = <<"deadlock">>
        /\ \A d \in Claims \ {c} : said'[d] =
              IF d \in o.ended THEN Append(said[d], "deadlock") ELSE said[d]
    <3>1. Append(<< >>, "deadlock") = <<"deadlock">>
      BY SaidThen, Zenon
    <3> QED  BY <2>1, <2>3, <3>1 DEF SayDeadlock
  <2>5. \A d \in Claims : queue'[d] = IF d \in o.ended THEN None ELSE queue[d]
    BY <1>6, <2>1
  <2>6. Spoken(c)'
    <3>1. c \notin Queued(queue') /\ c \notin broken'
      BY <2>1, <2>2, <2>3, <2>5 DEF Queued
    <3>2. pc'[c] = "answered" /\ answer'[c] = "deadlock"
      BY <2>1
    <3> QED  BY <2>4, <3>1, <3>2 DEF Spoken, SaidFits
  <2>7. ASSUME NEW d \in o.ended
        PROVE  Spoken(d)'
    <3>1. d \in Claims /\ d # c /\ said'[d] = <<"waiting", "deadlock">>
          /\ d \in broken' /\ pc'[d] \in Subscribed
      BY <1>6, <2>1, <2>3, <2>4
    <3>2. d \notin Queued(queue')
      BY <2>5, <3>1 DEF Queued
    <3> QED  BY <3>1, <3>2 DEF Spoken, Subscribed
  <2>8. ASSUME NEW d \in Claims, d # c, d \notin o.ended
        PROVE  Spoken(d)'
    <3>1. /\ pc'[d] = pc[d] /\ said'[d] = said[d] /\ queue'[d] = queue[d]
          /\ answer'[d] = answer[d]
          /\ d \in broken' <=> d \in broken
      BY <2>1, <2>4, <2>5, <2>8
    <3> QED  BY <2>2, <2>8, <3>1, SpokenKept
  <2> QED  BY <2>6, <2>7, <2>8
<1> QED  BY <1>1, <1>2, <1>3, <1>4, <1>5, <1>7, <1>8, Zenon DEF Attempt

(* Every step but a claim's own leaves the claims to themselves. *)
LEMMA ClaimsAlone ==
    ASSUME [Next]_vars, ~Restart, \A c \in Claims : ~ClaimStep(c)
    PROVE  UNCHANGED <<pc, req, answer, said, queue, broken>>
<1>1. ASSUME NEW a \in Agents, HolderStep(a)
      PROVE  UNCHANGED <<pc, req, answer, said, queue, broken>>
  BY <1>1 DEF HolderStep, Release, ReleaseAll, Renew, Stop, Exit, Return, Drop,
       claims, line
<1>2. ASSUME NEW h \in Handoffs, HandoffStep(h)
      PROVE  UNCHANGED <<pc, req, answer, said, queue, broken>>
  BY <1>2 DEF HandoffStep, Draft, Send, Accept, claims, line
<1>3. CASE \/ \E i \in LeaseIds : RunOut(i)
           \/ Reap \/ ReapFails \/ Pause \/ Lift
           \/ StoreFails \/ Offer \/ Abort \/ UNCHANGED vars
  BY <1>3 DEF RunOut, Reap, ReapFails, Drop, Pause, Lift, StoreFails, Offer, Abort,
       claims, line, vars
<1> QED  BY <1>1, <1>2, <1>3 DEF Next

(* A latch that is open was open before, but for a new process. *)
LEMMA LatchStep ==
    ASSUME TypeInv, [Next]_vars, ~Restart, ~failed'
    PROVE  ~failed
<1>1. CASE LeaseStep
  BY <1>1 DEF LeaseStep, Grants, Expires, AnswerGranted, InConflict, Proceeds,
       Refused, Renew, Admitted, RunOut, Accept, ReapFails
<1>2. CASE failed' \in {failed, TRUE}
  BY <1>2
<1> QED  BY <1>1, <1>2, LeaseSteps

(* No step announces what did not happen, or twice. *)
LEMMA AnnouncedStep ==
    ASSUME TypeInv, Placed, Spared, Announced, [Next]_vars
    PROVE  Announced'
<1> USE DEF TypeInv, TypeOK
<1>1. CASE Restart
  BY <1>1 DEF Restart, Announced, Spoken, Queued, EmptyQueue
<1>2. CASE ~Restart
  <2> SUFFICES ASSUME ~failed', NeverOffered'
               PROVE  \A d \in Claims : Spoken(d)'
    BY DEF Announced
  <2>1. ~failed /\ NeverOffered /\ Admitted
    BY <1>2, LatchStep, SparedStep DEF Admitted
  <2>2. \A d \in Claims : Spoken(d)
    BY <2>1 DEF Announced
  <2>3. CASE UNCHANGED <<pc, req, answer, said, queue, broken>>
    BY <2>2, <2>3, SpokenKept
  <2>4. ASSUME NEW c \in Claims, ClaimStep(c)
        PROVE  \A d \in Claims : Spoken(d)'
    <3>1. CASE Attempt(c)
      BY <2>1, <2>2, <3>1, AttemptSpoken
    <3>2. CASE \E q \in Asks[c] : Begin(c, q)
      <4>1. PICK q \in Asks[c] : Begin(c, q)
        BY <3>2
      <4>2. /\ pc[c] = "idle" /\ pc' = [pc EXCEPT ![c] = "attempt"]
            /\ req' = [req EXCEPT ![c] = q]
            /\ UNCHANGED <<answer, said, queue, broken>>
        BY <4>1 DEF Begin, line
      <4>3. c \notin Queued(queue) /\ c \notin broken
        BY <4>2 DEF Placed, OnePlace, Subscribed
      <4>4. ASSUME NEW d \in Claims, d # c
            PROVE  Spoken(d)'
        BY <2>2, <4>2, <4>4, SpokenKept
      <4>5. Spoken(c)'
        BY <2>2, <4>2, <4>3 DEF Spoken
      <4> QED  BY <4>4, <4>5
    <3>3. CASE Wake(c) \/ Lag(c) \/ Deadline(c)
      <4>1. PICK next \in {"woken", "late"} :
               /\ pc[c] = "asleep" /\ pc' = [pc EXCEPT ![c] = next]
               /\ UNCHANGED <<req, answer, said, queue, broken>>
        BY <3>3 DEF Wake, Lag, Deadline, Sleeping, line
      <4>2. ASSUME NEW d \in Claims, d # c
            PROVE  Spoken(d)'
        BY <2>2, <4>1, <4>2, SpokenKept
      <4>3. Spoken(c)'
        BY <2>2, <4>1 DEF Spoken
      <4> QED  BY <4>2, <4>3
    <3>4. CASE Decide(c)
      <4>1. pc[c] \in Subscribed
        BY <3>4 DEF Decide, Subscribed
      <4>2. CASE c \in broken
        <5>1. c \notin Queued(queue) /\ Settle(c, "deadlock", "deadlock", {})
          BY <3>4, <4>2 DEF Decide, AnswerBroken, Placed, OnePlace
        <5>2. "deadlock" \in DOMAIN Fits /\ "deadlock" \in Outcomes
              /\ "deadlock" \in Fits["deadlock"]
          BY DEF Fits, Outcomes
        <5> QED  BY <2>1, <2>2, <4>1, <5>1, <5>2, SettleSpoken
      <4>3. CASE c \notin broken /\ pc[c] = "late"
        <5>1. Settle(c, "conflict", "timeout", {})
          BY <3>4, <4>3 DEF Decide
        <5>2. "conflict" \in DOMAIN Fits /\ "timeout" \in Outcomes
              /\ "timeout" \in Fits["conflict"]
          BY DEF Fits, Outcomes
        <5> QED  BY <2>1, <2>2, <4>1, <4>3, <5>1, <5>2, SettleSpoken
      <4>4. CASE c \notin broken /\ pc[c] # "late"
        <5>1. /\ pc[c] = "woken" /\ pc' = [pc EXCEPT ![c] = "attempt"]
              /\ UNCHANGED <<req, answer, said, queue, broken>>
          BY <2>1, <3>4, <4>4 DEF Decide, Admitted, line
        <5>2. ASSUME NEW d \in Claims, d # c
              PROVE  Spoken(d)'
          BY <2>2, <5>1, <5>2, SpokenKept
        <5>3. Spoken(c)'
          BY <2>2, <5>1 DEF Spoken
        <5> QED  BY <5>2, <5>3
      <4> QED  BY <4>2, <4>3, <4>4
    <3>5. CASE Disconnect(c)
      <4>1. pc[c] \in Subscribed /\ Settle(c, "gone", "cancelled", {})
        BY <3>5 DEF Disconnect, Subscribed
      <4>2. /\ "gone" \in DOMAIN Fits /\ "cancelled" \in Outcomes
            /\ "cancelled" \in Fits["gone"] /\ "deadlock" \in Fits["gone"]
        BY DEF Fits, Outcomes
      <4> QED  BY <2>1, <2>2, <4>1, <4>2, SettleSpoken
    <3>6. CASE Respond(c)
      <4>1. /\ pc[c] = "answered" /\ pc' = [pc EXCEPT ![c] = "idle"]
            /\ req' = [req EXCEPT ![c] = None]
            /\ answer' = [answer EXCEPT ![c] = "none"]
            /\ said' = [said EXCEPT ![c] = << >>]
            /\ UNCHANGED <<queue, broken>>
        BY <3>6 DEF Respond, line
      <4>2. c \notin Queued(queue) /\ c \notin broken
        BY <4>1 DEF Placed, OnePlace, Subscribed
      <4>3. ASSUME NEW d \in Claims, d # c
            PROVE  Spoken(d)'
        BY <2>2, <4>1, <4>3, SpokenKept
      <4>4. Spoken(c)'
        BY <4>1, <4>2 DEF Spoken
      <4> QED  BY <4>3, <4>4
    <3> QED  BY <2>4, <3>1, <3>2, <3>3, <3>4, <3>5, <3>6 DEF ClaimStep
  <2> QED  BY <1>2, <2>3, <2>4, ClaimsAlone
<1> QED  BY <1>1, <1>2

-----------------------------------------------------------------------------
(* Turns that come.                                                        *)

(* What a step takes out of somebody's way, a lease or a place, was on one *)
(* of the resources `freed'.                                               *)
Freeing(freed) ==
    /\ \A i \in Held(leases) :
          \/ leases[i].resource \in freed
          \/ leases'[i] # None /\ Alike(leases'[i], leases[i])
    /\ \A e \in Queued(queue) :
          queue[e].resource \in freed \/ queue'[e] = queue[e]
    /\ \A e \in broken' :
          \/ e \in broken
          \/ e \in Queued(queue) /\ queue[e].resource \in freed

(* A claim that none of it concerns is blocked as it was. *)
LEMMA StillBlocked ==
    ASSUME TypeInv, NEW d \in Claims, Spoken(d), pc[d] = "asleep", d \notin broken,
           Blocked(d), req'[d] = req[d], NEW freed, Freeing(freed),
           \A r \in freed : ~Overlaps(r, req[d].resource)
    PROVE  d \notin broken' /\ Blocked(d)'
<1> USE DEF TypeInv, TypeOK
<1>1. req[d] \in Request /\ d \in Queued(queue)
      /\ queue[d].resource = req[d].resource
  BY DEF Asking, Subscribed, Spoken
<1>2. queue[d].resource \notin freed
  BY <1>1, OverlapAssumption DEF Overlaps, Request
<1>3. d \notin broken' /\ queue'[d] = queue[d] /\ d \in Queued(queue')
  BY <1>1, <1>2 DEF Freeing, Queued
<1>4. ASSUME NEW i \in InTheWay(leases, req[d])
      PROVE  i \in InTheWay(leases', req'[d])
  <2>1. i \in Held(leases) /\ Overlaps(leases[i].resource, req[d].resource)
        /\ i \in LeaseIds
    BY DEF InTheWay, Blocks, Held
  <2>2. leases'[i] # None /\ Alike(leases'[i], leases[i])
    BY <2>1 DEF Freeing
  <2> QED  BY <2>1, <2>2 DEF InTheWay, Blocks, Alike, Held
<1>5. ASSUME NEW e \in Ahead(queue, d)
      PROVE  e \in Ahead(queue', d)
  <2>1. e \in Queued(queue) /\ Overlaps(queue[e].resource, queue[d].resource)
        /\ e \in Claims
    BY DEF Ahead, StandsInWay, Queued
  <2>2. queue'[e] = queue[e]
    BY <1>1, <2>1 DEF Freeing
  <2> QED  BY <1>3, <2>1, <2>2 DEF Ahead, Queued
<1>6. Blocked(d)'
  <2>1. CASE InTheWay(leases, req[d]) # {}
    BY <1>4, <2>1 DEF Blocked
  <2>2. CASE ~IsNext(queue, d)
    BY <1>1, <1>5, <2>2 DEF Blocked, IsNext
  <2> QED  BY <2>1, <2>2 DEF Blocked
<1> QED  BY <1>3, <1>6

(* Who is told of what was freed does not sleep on. *)
LEMMA NotifiedWake ==
    ASSUME NEW freed, Notify(freed), NEW d \in Claims, pc'[d] = "asleep", ~wake'[d]
    PROVE  ~wake[d] /\ \A r \in freed : ~Overlaps(r, req[d].resource)
BY DEF Notify, Subscribed

(* Expiry takes out of the way what was due, and a grant nothing else. *)
LEMMA ExpireFrees ==
    ASSUME TypeInv, NEW i \in Held(leases),
           leases[i].resource \notin Wanted(leases, Due(leases))
    PROVE  i \in LeaseIds /\ ~leases[i].due /\ Expire(leases)[i] = leases[i]
<1>1. i \in LeaseIds /\ i \notin Due(leases)
  BY DEF Wanted, Held
<1> QED  BY <1>1, ExpireType DEF TypeInv, Due

(* A grant takes nothing out of the way but what it expires. *)
LEMMA GrantFrees ==
    ASSUME TypeInv, NEW c \in Claims, req[c] \in Request, AnswerGranted(c),
           NEW i \in Held(leases),
           leases[i].resource \notin Wanted(leases, Due(leases))
    PROVE  leases'[i] # None /\ Alike(leases'[i], leases[i])
<1> USE DEF TypeInv, TypeOK
<1>1. i \in LeaseIds /\ Expire(leases)[i] = leases[i] /\ leases[i] \in Lease
      /\ Expire(leases) \in Tables
  BY ExpireFrees, ExpireType, HeldLease
<1>2. PICK g \in ClaimAs(Expire(leases), req[c], Fresh) :
         leases' = Restore(Expire(leases), g)
  BY DEF AnswerGranted
<1>3. Fresh \in SUBSET LeaseIds
  BY DEF Fresh
<1>4. g.lease \in Lease
      /\ leases'[i] = IF i = g.id THEN g.lease ELSE leases[i]
  BY <1>1, <1>2, <1>3, ClaimAsType
<1>5. CASE i # g.id
  BY <1>1, <1>4, <1>5, NoneAssumption DEF Alike
<1>6. CASE i = g.id
  <2>1. i \notin Fresh
    BY DEF Fresh, Held
  <2>2. g = [id |-> i, lease |-> Reclaimed(leases[i], req[c])]
    BY <1>1, <1>2, <1>6, <2>1 DEF ClaimAs
  <2>3. leases'[i] = Reclaimed(leases[i], req[c])
    BY <1>4, <1>6, <2>2
  <2>4. Alike(Reclaimed(leases[i], req[c]), leases[i])
    BY <1>1 DEF Reclaimed, Alike, Lease
  <2> QED  BY <1>4, <1>6, <2>3, <2>4, NoneAssumption
<1> QED  BY <1>5, <1>6

(* Ending a wait frees its place, and says so. *)
LEMMA SettleFrees ==
    ASSUME TypeInv, Admitted, NEW c \in Claims, Spoken(c), NEW ans, NEW outcome,
           NEW freed, Settle(c, ans, outcome, freed),
           \A i \in Held(leases) :
              \/ leases[i].resource \in freed
              \/ leases'[i] # None /\ Alike(leases'[i], leases[i])
    PROVE  \E F : Notify(F) /\ Freeing(F)
<1> USE DEF TypeInv, TypeOK
<1>1. PICK F : F = IF c \in Queued(queue) THEN freed \cup {req[c].resource} ELSE freed
  OBVIOUS
<1>2. Notify(F)
  BY <1>1 DEF Settle
<1>3. \A e \in Claims : queue'[e] = IF e = c THEN None ELSE queue[e]
  BY LeaveType DEF Settle
<1>4. \A e \in Queued(queue) : queue[e].resource \in F \/ queue'[e] = queue[e]
  BY <1>1, <1>3 DEF Queued, Spoken
<1>5. \A e \in broken' : e \in broken
  BY DEF Settle
<1>6. \A r \in freed : r \in F
  BY <1>1
<1>7. Freeing(F)
  BY <1>4, <1>5, <1>6 DEF Freeing
<1> QED  BY <1>2, <1>7

(* A claim that others' steps left blocked, or did not concern. *)
LEMMA SleepsOn ==
    ASSUME TypeInv, NEW d \in Claims, Spoken(d), pc[d] = "asleep",
           pc'[d] = "asleep", ~wake'[d], req'[d] = req[d],
           ~wake[d] => d \notin broken /\ Blocked(d),
           \/ \E F : Notify(F) /\ Freeing(F)
           \/ wake'[d] = wake[d] /\ Freeing({})
    PROVE  d \notin broken' /\ Blocked(d)'
<1>1. CASE \E F : Notify(F) /\ Freeing(F)
  <2>1. PICK F : Notify(F) /\ Freeing(F)
    BY <1>1
  <2>2. ~wake[d] /\ \A r \in F : ~Overlaps(r, req[d].resource)
    BY <2>1, NotifiedWake
  <2> QED  BY <2>1, <2>2, StillBlocked
<1>2. CASE wake'[d] = wake[d] /\ Freeing({})
  BY <1>2, StillBlocked
<1> QED  BY <1>1, <1>2

(* Nothing is out of anybody's way that was in it. *)
LEMMA FreesNothing ==
    ASSUME TypeInv, UNCHANGED <<queue, broken>>,
           \A i \in Held(leases) : leases'[i] # None /\ Alike(leases'[i], leases[i])
    PROVE  Freeing({})
BY DEF Freeing

(* Leases that stay as they are, are alike. *)
LEMMA SameLeases ==
    ASSUME TypeInv, leases' = leases
    PROVE  \A i \in Held(leases) : leases'[i] # None /\ Alike(leases'[i], leases[i])
BY DEF Held, Alike

(* An attempt leaves every claim asleep blocked, the one that goes to      *)
(* sleep in it included, or has woken it.                                  *)
LEMMA AttemptWakes ==
    ASSUME TypeInv, TypeInv', Admitted, \A d \in Claims : Spoken(d),
           NEW c \in Claims, Attempt(c),
           NEW d \in Claims, pc'[d] = "asleep", ~wake'[d],
           pc[d] = "asleep" /\ ~wake[d] => d \notin broken /\ Blocked(d)
    PROVE  d \notin broken' /\ Blocked(d)'
<1> USE DEF TypeInv, TypeOK
<1>1. pc[c] = "attempt" /\ req[c] \in Request
  BY DEF Attempt, Asking, Subscribed
<1>2. ASSUME \E F : Notify(F) /\ Freeing(F), d # c,
             pc'[d] = pc[d], req'[d] = req[d]
      PROVE  d \notin broken' /\ Blocked(d)'
  BY <1>2, SleepsOn
<1>3. ASSUME NEW ans, NEW outcome, NEW freed, Settle(c, ans, outcome, freed),
             \A i \in Held(leases) :
                \/ leases[i].resource \in freed
                \/ leases'[i] # None /\ Alike(leases'[i], leases[i])
      PROVE  d \notin broken' /\ Blocked(d)'
  <2>1. \E F : Notify(F) /\ Freeing(F)
    BY <1>3, SettleFrees
  <2>2. d # c /\ pc'[d] = pc[d] /\ req'[d] = req[d]
    BY <1>3 DEF Settle
  <2> QED  BY <1>2, <2>1, <2>2
<1>4. CASE AnswerBroken(c) \/ AnswerRefused(c)
  <2>1. \A i \in Held(leases) : leases'[i] # None /\ Alike(leases'[i], leases[i])
    BY <1>4, SameLeases DEF AnswerBroken, AnswerRefused
  <2> QED  BY <1>3, <1>4, <2>1 DEF AnswerBroken, AnswerRefused
<1>5. CASE AnswerGranted(c)
  <2>1. \A i \in Held(leases) :
           \/ leases[i].resource \in Wanted(leases, Due(leases))
           \/ leases'[i] # None /\ Alike(leases'[i], leases[i])
    BY <1>1, <1>5, GrantFrees
  <2> QED  BY <1>3, <1>5, <2>1 DEF AnswerGranted
<1>6. ASSUME InConflict(c)
      PROVE  \A i \in Held(leases) :
                \/ leases[i].resource \in Wanted(leases, Due(leases))
                \/ leases'[i] # None /\ Alike(leases'[i], leases[i])
  BY <1>6, ExpireFrees DEF InConflict, Held, Alike
<1>7. CASE AnswerConflict(c)
  BY <1>3, <1>6, <1>7 DEF AnswerConflict
<1>8. CASE SleepAgain(c)
  <2>1. /\ InConflict(c) /\ c \in Queued(queue) /\ c \notin broken
        /\ pc' = [pc EXCEPT ![c] = "asleep"]
        /\ UNCHANGED <<req, queue, broken>>
        /\ Notify(Wanted(leases, Due(leases)))
    BY <1>8 DEF SleepAgain, line, InConflict, Proceeds
  <2>2. Freeing(Wanted(leases, Due(leases)))
    <3>1. PICK F : F = Wanted(leases, Due(leases))
      OBVIOUS
    <3>2. Freeing(F)
      BY <1>6, <2>1, <3>1 DEF Freeing
    <3> QED  BY <3>1, <3>2
  <2>3. CASE d = c
    <3>1. CASE ~MayAttempt(c)
      BY <2>1, <2>3, <3>1 DEF MayAttempt, Blocked
    <3>2. CASE Conflicts(Expire(leases), req[c])
      BY <2>1, <2>3, <3>2 DEF Conflicts, Blocked, InConflict
    <3> QED  BY <2>1, <3>1, <3>2 DEF InConflict
  <2>4. CASE d # c
    BY <1>2, <2>1, <2>2, <2>4
  <2> QED  BY <2>3, <2>4
<1>9. ASSUME NEW o \in BreakRings(Expire(leases), queue, req[c]),
             InConflict(c),
             broken' = broken \cup o.ended,
             \A e \in Queued(queue) \ o.ended : queue'[e] = queue[e],
             NEW F, \A r \in Wanted(leases, Due(leases)) \cup EndedBy(o) : r \in F
      PROVE  Freeing(F)
  <2>1. o.ended \in SUBSET Queued(queue)
    BY DEF BreakRings
  <2>2. \A e \in o.ended : e \in Queued(queue) /\ queue[e].resource \in F
    BY <1>9, <2>1 DEF EndedBy, Queued, Spoken
  <2> QED  BY <1>6, <1>9, <2>2 DEF Freeing
<1>10. CASE JoinQueue(c)
  <2>1. PICK o \in BreakRings(Expire(leases), queue, req[c]) :
          /\ queue' = Join(Leave(queue, o.ended), c, WaiterOf(tickets, req[c]))
          /\ broken' = broken \cup o.ended
          /\ pc' = [pc EXCEPT ![c] = "asleep"]
          /\ Notify(Wanted(leases, Due(leases)) \cup EndedBy(o))
    BY <1>10 DEF JoinQueue
  <2>2. /\ InConflict(c) /\ c \notin Queued(queue) /\ c \notin broken
        /\ UNCHANGED req
    BY <1>10 DEF JoinQueue, InConflict, Proceeds
  <2>3. o.ended \in SUBSET Queued(queue)
    BY DEF BreakRings
  <2>4. CASE d = c
    <3>1. InTheWay(leases', req'[c]) # {}
      BY <2>2 DEF InConflict, MayAttempt, Conflicts
    <3> QED  BY <2>1, <2>2, <2>3, <2>4, <3>1 DEF Blocked
  <2>5. CASE d # c
    <3>1. PICK F : F = Wanted(leases, Due(leases)) \cup EndedBy(o)
      OBVIOUS
    <3>2. \A e \in Queued(queue) \ o.ended : queue'[e] = queue[e]
      <4>1. Leave(queue, o.ended) \in Queues
            /\ \A e \in Claims : Leave(queue, o.ended)[e] =
                  IF e \in o.ended THEN None ELSE queue[e]
        BY LeaveType
      <4> QED  BY <2>1, <2>2, <4>1 DEF Join, Queues, Queued
    <3>3. Freeing(F) /\ Notify(F)
      BY <1>9, <2>1, <2>2, <3>1, <3>2
    <3> QED  BY <1>2, <2>1, <2>2, <2>5, <3>3
  <2> QED  BY <2>4, <2>5
<1>11. CASE AnswerDeadlock(c)
  <2>1. PICK o \in BreakRings(Expire(leases), queue, req[c]) :
          /\ queue' = Leave(queue, o.ended)
          /\ broken' = broken \cup o.ended
          /\ pc' = [pc EXCEPT ![c] = "answered"]
          /\ Notify(Wanted(leases, Due(leases)) \cup EndedBy(o)
                        \cup {req[c].resource})
    BY <1>11 DEF AnswerDeadlock
  <2>2. InConflict(c) /\ UNCHANGED req
    BY <1>11 DEF AnswerDeadlock
  <2>3. d # c /\ pc'[d] = pc[d]
    BY <2>1
  <2>4. PICK F : F = Wanted(leases, Due(leases)) \cup EndedBy(o)
                        \cup {req[c].resource}
    OBVIOUS
  <2>5. \A e \in Queued(queue) \ o.ended : queue'[e] = queue[e]
    BY <2>1, LeaveType DEF Queued
  <2>6. Freeing(F) /\ Notify(F)
    BY <1>9, <2>1, <2>2, <2>4, <2>5
  <2> QED  BY <1>2, <2>2, <2>3, <2>6
<1> QED  BY <1>4, <1>5, <1>7, <1>8, <1>10, <1>11, Zenon DEF Attempt

(* A handoff that was accepted stays so. *)
LEMMA HandedStep ==
    ASSUME TypeInv, [Next]_vars, ~Restart, NothingHanded'
    PROVE  NothingHanded /\ \A h \in Handoffs : ~Accept(h)
<1> USE DEF TypeInv, TypeOK
<1>1. ASSUME NEW h \in Handoffs, Accept(h)
      PROVE  FALSE
  <2>1. bundles[h] \in Bundle
    BY <1>1 DEF Accept
  <2>2. [bundles[h] EXCEPT !.phase = "accepted"] \in Bundle
    BY <2>1 DEF Bundle
  <2>3. PICK b \in Bundle : b = [bundles[h] EXCEPT !.phase = "accepted"]
    BY <2>2
  <2>4. b.phase = "accepted"
    BY <2>1, <2>3 DEF Bundle
  <2>5. [b EXCEPT !.ids = {}] \in Bundle /\ [b EXCEPT !.ids = {}].phase = "accepted"
    BY <2>4 DEF Bundle
  <2>6. bundles'[h] = [b EXCEPT !.ids = {}]
    BY <1>1, <2>3 DEF Accept
  <2> QED  BY <2>5, <2>6, BundleAssumption DEF NothingHanded
<1>2. ASSUME NEW k \in Handoffs, HandoffStep(k)
      PROVE  NothingHanded
  <2> SUFFICES ASSUME NEW h \in Handoffs, bundles[h] # None,
                      bundles[h].phase = "accepted"
               PROVE  bundles'[h] = bundles[h]
    BY DEF NothingHanded
  <2>1. CASE Send(k)
    BY <2>1 DEF Send
  <2>2. CASE \E a, b \in Agents : Draft(k, a, b)
    BY <2>2 DEF Draft
  <2> QED  BY <1>1, <1>2, <2>1, <2>2 DEF HandoffStep
<1>3. ASSUME bundles' = bundles
      PROVE  NothingHanded
  BY <1>3 DEF NothingHanded
<1>4. ASSUME NEW c \in Claims, ClaimStep(c)
      PROVE  bundles' = bundles
  BY <1>4 DEF ClaimStep, Begin, Attempt, Wake, Lag, Deadline, Sleeping, Decide,
       Disconnect, Respond
<1>5. ASSUME NEW a \in Agents, HolderStep(a)
      PROVE  bundles' = bundles
  BY <1>5 DEF HolderStep, Release, ReleaseAll, Renew, Stop, Exit, Return
<1>6. ASSUME \/ \E i \in LeaseIds : RunOut(i)
             \/ Reap \/ ReapFails \/ Pause \/ Lift
             \/ StoreFails \/ Offer \/ Abort \/ UNCHANGED vars
      PROVE  NothingHanded
  BY <1>3, <1>6 DEF RunOut, Reap, ReapFails, Pause, Lift, StoreFails, Offer, Abort,
       vars
<1>7. NothingHanded
  <2>1. CASE \/ \E c \in Claims : ClaimStep(c)
             \/ \E a \in Agents : HolderStep(a)
    BY <1>3, <1>4, <1>5, <2>1
  <2> QED  BY <1>2, <1>6, <2>1, Zenon DEF Next
<1> QED  BY <1>1, <1>7

(* What the rest of the daemon does wakes whom it concerns. *)
LEMMA WorldWakes ==
    ASSUME TypeInv, [Next]_vars, ~Restart, \A c \in Claims : ~ClaimStep(c),
           \A h \in Handoffs : ~Accept(h), ~failed'
    PROVE  \/ \E F : Notify(F) /\ Freeing(F)
           \/ wake' = wake /\ Freeing({})
<1> USE DEF TypeInv, TypeOK
<1>1. UNCHANGED <<queue, broken>>
  BY ClaimsAlone
<1>2. CASE UNCHANGED <<leases, wake>>
  <2>1. Freeing({})
    BY <1>1, <1>2, SameLeases, FreesNothing
  <2> QED  BY <1>2, <2>1
<1>3. ASSUME NEW ids, Drop(ids)
      PROVE  \E F : Notify(F) /\ Freeing(F)
  <2>1. PICK F : F = Wanted(leases, ids)
    OBVIOUS
  <2>2. Notify(F)
    BY <1>3, <2>1 DEF Drop
  <2>3. ASSUME NEW i \in Held(leases), leases[i].resource \notin F
        PROVE  leases'[i] # None /\ Alike(leases'[i], leases[i])
    <3>1. i \in LeaseIds /\ i \notin ids
      BY <2>1, <2>3 DEF Wanted, Held
    <3>2. leases'[i] = leases[i]
      BY <1>3, <3>1, RemoveType DEF Drop
    <3> QED  BY <3>2 DEF Held, Alike
  <2>4. Freeing(F)
    BY <1>1, <2>3 DEF Freeing
  <2> QED  BY <2>2, <2>4
<1>4. ASSUME NEW a \in Agents, NEW j \in LeaseIds, Renew(a, j)
      PROVE  \E F : Notify(F) /\ Freeing(F)
  <2>1. PICK F : F = Wanted(leases, Due(leases))
    OBVIOUS
  <2>2. Notify(F)
    BY <1>4, <2>1 DEF Renew
  <2>3. ASSUME NEW i \in Held(leases), leases[i].resource \notin F
        PROVE  leases'[i] # None /\ Alike(leases'[i], leases[i])
    <3>1. /\ i \in LeaseIds /\ Expire(leases)[i] = leases[i]
          /\ leases[i] \in Lease /\ Expire(leases) \in Tables
      BY <2>1, <2>3, ExpireFrees, ExpireType, HeldLease
    <3>2. CASE leases' = Expire(leases)
      BY <3>1, <3>2, NoneAssumption DEF Alike
    <3>3. CASE leases' = Renewed(Expire(leases), j) /\ ~leases[j].due
      <4>1. leases[j] # None /\ j \notin Due(leases)
        BY <1>4, <3>3 DEF Renew, ByHolder, Held, Due
      <4>2. Expire(leases)[j] # None
        BY <4>1, ExpireType
      <4>3. leases'[i] = IF i = j THEN [leases[i] EXCEPT !.due = FALSE] ELSE leases[i]
        <5>1. \A k \in LeaseIds : Renewed(Expire(leases), j)[k] =
                 IF k = j THEN [Expire(leases)[k] EXCEPT !.due = FALSE]
                          ELSE Expire(leases)[k]
          BY <3>1, <4>2, RenewedType
        <5> QED  BY <3>1, <3>3, <5>1
      <4>4. [leases[i] EXCEPT !.due = FALSE] \in Lease
            /\ Alike([leases[i] EXCEPT !.due = FALSE], leases[i])
        BY <3>1 DEF Lease, Alike
      <4> QED  BY <3>1, <4>3, <4>4, NoneAssumption DEF Alike
    <3> QED  BY <1>4, <3>2, <3>3 DEF Renew
  <2>4. Freeing(F)
    BY <1>1, <2>3 DEF Freeing
  <2> QED  BY <2>2, <2>4
<1>5. ASSUME NEW j \in LeaseIds, RunOut(j)
      PROVE  wake' = wake /\ Freeing({})
  <2>1. ASSUME NEW i \in Held(leases)
        PROVE  leases'[i] # None /\ Alike(leases'[i], leases[i])
    <3>1. i \in LeaseIds /\ leases[i] \in Lease
      BY HeldLease
    <3>2. leases'[i] = IF i = j THEN [leases[i] EXCEPT !.due = TRUE] ELSE leases[i]
      BY <1>5, <3>1 DEF RunOut, Tables
    <3>3. [leases[i] EXCEPT !.due = TRUE] \in Lease
          /\ Alike([leases[i] EXCEPT !.due = TRUE], leases[i])
      BY <3>1 DEF Lease, Alike
    <3> QED  BY <3>1, <3>2, <3>3, NoneAssumption DEF Alike
  <2> QED  BY <1>1, <1>5, <2>1, FreesNothing DEF RunOut
<1>6. ASSUME NEW a \in Agents, HolderStep(a)
      PROVE  \/ \E F : Notify(F) /\ Freeing(F)
             \/ UNCHANGED <<leases, wake>>
  BY <1>3, <1>4, <1>6 DEF HolderStep, Release, ReleaseAll, Stop, Exit, Return
<1>7. ASSUME NEW h \in Handoffs, HandoffStep(h)
      PROVE  UNCHANGED <<leases, wake>>
  BY <1>7 DEF HandoffStep, Draft, Send
<1>8. CASE Reap
  BY <1>3, <1>8 DEF Reap
<1>9. ~ReapFails
  BY DEF ReapFails
<1>10. CASE Pause \/ Lift \/ StoreFails \/ Offer \/ Abort \/ UNCHANGED vars
  BY <1>2, <1>10 DEF Pause, Lift, StoreFails, Offer, Abort, vars
<1> QED  BY <1>2, <1>5, <1>6, <1>7, <1>8, <1>9, <1>10 DEF Next

(* No step leaves a claim asleep whose turn has come. *)
LEMMA WakeStep ==
    ASSUME TypeInv, TypeInv', Spared, Announced, NoLostWakeup, [Next]_vars
    PROVE  NoLostWakeup'
<1> USE DEF TypeInv, TypeOK
<1>1. CASE Restart
  BY <1>1 DEF Restart, NoLostWakeup
<1>2. CASE ~Restart
  <2> SUFFICES ASSUME Admitted', NeverOffered', NothingHanded',
                      NEW d \in Claims, pc'[d] = "asleep", ~wake'[d]
               PROVE  d \notin broken' /\ Blocked(d)'
    BY DEF NoLostWakeup
  <2>1. /\ ~failed' /\ Admitted /\ NeverOffered
        /\ NothingHanded /\ \A h \in Handoffs : ~Accept(h)
    BY <1>2, LatchStep, SparedStep, HandedStep DEF Admitted
  <2>2. /\ \A e \in Claims : Spoken(e)
        /\ pc[d] = "asleep" /\ ~wake[d] => d \notin broken /\ Blocked(d)
    BY <2>1 DEF Announced, Admitted, NoLostWakeup
  <2>3. ASSUME NEW c \in Claims, ClaimStep(c)
        PROVE  d \notin broken' /\ Blocked(d)'
    <3>1. CASE Attempt(c)
      BY <2>1, <2>2, <3>1, AttemptWakes
    <3>2. ASSUME NEW ans, NEW outcome, Settle(c, ans, outcome, {}), leases' = leases
          PROVE  d \notin broken' /\ Blocked(d)'
      <4>1. \E F : Notify(F) /\ Freeing(F)
        BY <2>1, <2>2, <3>2, SameLeases, SettleFrees
      <4>2. d # c /\ pc'[d] = pc[d] /\ req'[d] = req[d]
        BY <3>2 DEF Settle
      <4> QED  BY <2>2, <4>1, <4>2, SleepsOn
    <3>3. ASSUME d # c, pc'[d] = pc[d], req'[d] = req[d], wake'[d] = wake[d],
                 UNCHANGED <<leases, queue, broken>>
          PROVE  d \notin broken' /\ Blocked(d)'
      <4>1. Freeing({})
        BY <3>3, SameLeases, FreesNothing
      <4> QED  BY <2>2, <3>3, <4>1, SleepsOn
    <3>4. CASE \E q \in Asks[c] : Begin(c, q)
      <4>1. PICK q \in Asks[c] : Begin(c, q)
        BY <3>4
      <4> QED  BY <3>3, <4>1 DEF Begin, line
    <3>5. CASE Wake(c) \/ Lag(c) \/ Deadline(c)
      BY <3>3, <3>5 DEF Wake, Lag, Deadline, Sleeping, line
    <3>6. CASE Decide(c)
      <4>1. CASE \E ans, outcome : Settle(c, ans, outcome, {}) /\ leases' = leases
        BY <3>2, <4>1
      <4>2. CASE /\ pc' = [pc EXCEPT ![c] = "attempt"]
                 /\ UNCHANGED <<leases, req, wake, queue, broken>>
        BY <3>3, <4>2
      <4> QED  BY <3>6, <4>1, <4>2 DEF Decide, AnswerBroken, line
    <3>7. CASE Disconnect(c)
      BY <3>2, <3>7 DEF Disconnect
    <3>8. CASE Respond(c)
      BY <3>3, <3>8 DEF Respond, line
    <3> QED  BY <2>3, <3>1, <3>4, <3>5, <3>6, <3>7, <3>8 DEF ClaimStep
  <2>4. CASE \A c \in Claims : ~ClaimStep(c)
    <3>1. UNCHANGED <<pc, req>>
      BY <1>2, <2>4, ClaimsAlone
    <3>2. \/ \E F : Notify(F) /\ Freeing(F)
          \/ wake' = wake /\ Freeing({})
      BY <1>2, <2>1, <2>4, WorldWakes
    <3> QED  BY <2>2, <3>1, <3>2, SleepsOn
  <2> QED  BY <2>3, <2>4
<1> QED  BY <1>1, <1>2

-----------------------------------------------------------------------------
(* The inductive invariant and what follows from it.                       *)

IndInv ==
    /\ TypeInv
    /\ StoredAsServed
    /\ ExclusiveButHanded(stored)
    /\ LeaversHoldNothing
    /\ Placed
    /\ Quiesced
    /\ Spared
    /\ Announced
    /\ NoLostWakeup

(* The invariant holds of a daemon that has just started. *)
LEMMA IndInvInit == Init => IndInv
<1> SUFFICES ASSUME Init
             PROVE  IndInv
  OBVIOUS
<1>1. stored = EmptyTable /\ leases = EmptyTable /\ EmptyTable \in Tables
  BY DEF Init, Started, EmptyTable, Tables
<1>2. Held(stored) = {} /\ Held(leases) = {}
  BY <1>1 DEF Held, EmptyTable
<1>3. said \in [Claims -> Seq(Outcomes \cup {"waiting"})]
  BY DEF Init, Started
<1>4. queue \in Queues /\ Queued(queue) = {}
  BY DEF Init, Started, EmptyQueue, Queues, Queued
<1>5. TypeInv
  BY <1>1, <1>3, <1>4, BudgetAssumption
     DEF Init, Started, TypeInv, TypeOK, Asking, Steps, Answers, Subscribed
<1>6. StoredAsServed /\ ExclusiveButHanded(stored) /\ LeaversHoldNothing
  BY <1>1, <1>2 DEF StoredAsServed, ExclusiveButHanded, LeaversHoldNothing, Held
<1>7. Placed
  BY <1>4 DEF Init, Started, Placed, OnePlace
<1>8. Quiesced
  BY DEF Init, Started, Quiesced
<1>9. Spared /\ Announced /\ NoLostWakeup
  BY <1>4, BudgetAssumption DEF Init, Started, Spared, Disturbances, Announced,
     Spoken, NoLostWakeup
<1> QED  BY <1>5, <1>6, <1>7, <1>8, <1>9 DEF IndInv

(* Every step preserves it. *)
LEMMA IndInvStep == IndInv /\ [Next]_vars => IndInv'
<1> SUFFICES ASSUME IndInv, [Next]_vars
             PROVE  IndInv'
  OBVIOUS
<1> USE DEF IndInv
<1>1. TypeInv'
  <2>1. CASE UNCHANGED vars
    BY <2>1 DEF vars, TypeInv, TypeOK, Asking
  <2> QED  BY <2>1, ClaimType, WorldType DEF Next
<1>2. StoredAsServed'
  BY <1>1, StoredStep
<1>3. ExclusiveButHanded(stored')
  BY <1>1, ExclusiveStep
<1>4. LeaversHoldNothing'
  BY <1>1, LeaversStep
<1>5. Placed'
  BY <1>1, PlacedStep
<1>6. Quiesced'
  BY QuiescedStep
<1>7. (ExclusiveButHanded(stored))'
  BY <1>3
<1>8. Spared' /\ Announced'
  BY SparedStep, AnnouncedStep
<1>9. NoLostWakeup'
  BY <1>1, WakeStep
<1> QED  BY <1>1, <1>2, <1>4, <1>5, <1>6, <1>7, <1>8, <1>9

(* It holds at all times. *)
LEMMA Invariance == Spec => []IndInv
BY IndInvInit, IndInvStep, PTL DEF Spec

(* Every variable keeps its type in every behaviour of the daemon. *)
THEOREM TypeCorrect == Spec => []TypeOK
BY Invariance, PTL DEF IndInv, TypeInv

(* The database holds what memory serves: an acknowledged claim, release,  *)
(* renewal or handoff survives a crash at any moment, and after a failed   *)
(* expiry only leases whose time has passed are left over.                 *)
THEOREM Durable == Spec => []StoredAsServed
BY Invariance, PTL DEF IndInv

(* Two agents never hold leases that exclude each other, in memory or in   *)
(* the database, whatever claims, expiries, renewals, exits, failures,     *)
(* restarts and transfers interleave, unless a handoff brought one.        *)
THEOREM Exclusion == Spec => []ExclusiveUnlessHanded
<1>1. IndInv => ExclusiveUnlessHanded
  <2> SUFFICES ASSUME IndInv
               PROVE  ExclusiveButHanded(leases)
    BY DEF IndInv, ExclusiveUnlessHanded
  <2>1. \A i \in Held(leases) : i \in Held(stored) /\ Alike(leases[i], stored[i])
    BY DEF IndInv, StoredAsServed, Held, Alike
  <2> QED  BY <2>1, FewerClashes DEF IndInv, TypeInv, TypeOK
<1> QED  BY <1>1, Invariance, PTL

(* An agent that exited holds no lease: neither a claim in flight nor a    *)
(* handoff accepted late nor a restart gives it one.                       *)
THEOREM Leavers == Spec => []LeaversHoldNothing
BY Invariance, PTL DEF IndInv

(* A claim has one place in the queue or a broken ring and never both, the *)
(* place goes when it is answered, and no two places have one ticket.      *)
THEOREM Places == Spec => []OnePlace
BY Invariance, PTL DEF IndInv, Placed

(* A wait that began is announced to end once, with what it was answered,  *)
(* however its deadline, a ring broken at it, a release and its client's   *)
(* going meet, as long as storage works and no transfer was offered.       *)
THEOREM EndsAnnounced == Spec => []EndSaidOnce
<1>1. Announced => EndSaidOnce
  BY DEF Announced, Spoken, EndSaidOnce
<1> QED  BY <1>1, Invariance, PTL DEF IndInv

(* No claim sleeps through its turn: every step that takes the last lease  *)
(* or waiter out of its way wakes it, but for a handoff to the agent that  *)
(* waits and what ends behind the fence of a transfer.                     *)
THEOREM TurnsAreNoticed == Spec => []NoLostWakeup
BY Invariance, PTL DEF IndInv

(* From the offer of a transfer until it is called off or a successor      *)
(* starts, nothing but time changes the leases a successor would load.     *)
THEOREM Fence == Spec => FencedStill
<1>1. IndInv /\ [Next]_vars =>
         [fenced /\ fenced' => /\ Timeless(stored') = Timeless(stored)
                               /\ Timeless(leases') = Timeless(leases)]_vars
  BY FencedStep DEF IndInv
<1> QED  BY <1>1, Invariance, PTL DEF Spec, FencedStill

-----------------------------------------------------------------------------
(* The lock service behind the daemon.                                     *)

(* Leases behind which there is the same lock. *)
SameLock(l, m) ==
    l.holder = m.holder /\ l.resource = m.resource /\ l.mode = m.mode

(* A lock is under an id exactly when a lease is. *)
LEMMA LockHeld ==
    ASSUME TypeInv
    PROVE  /\ Service!Taken = Held(leases)
           /\ \A i \in Held(leases) : /\ Locks[i] \in Service!Lock
                                      /\ SameLock(Locks[i], leases[i])
           /\ \A i \in LeaseIds \ Held(leases) : Locks[i] = None
<1>1. ASSUME NEW i \in Held(leases)
      PROVE  Locks[i] \in Service!Lock /\ SameLock(Locks[i], leases[i])
  <2>1. i \in LeaseIds /\ leases[i] \in Lease /\ leases[i] # None
    BY HeldLease DEF TypeInv, TypeOK, Held
  <2> QED  BY <2>1 DEF Locks, Service!Lock, SameLock, Lease, Modes
<1>2. \A i \in Held(leases) : Locks[i] # None
  BY <1>1, LocksAssumption DEF Service!Lock, Modes
<1>3. \A i \in LeaseIds \ Held(leases) : Locks[i] = None
  BY DEF Locks, Held
<1>4. Held(leases) \subseteq LeaseIds
  BY DEF Held
<1> QED  BY <1>1, <1>2, <1>3, <1>4 DEF Service!Taken

(* A step after which every lease was there before is one in which locks   *)
(* go.                                                                     *)
LEMMA Goes ==
    ASSUME TypeInv, TypeInv',
           \A i \in Held(leases') : /\ i \in Held(leases)
                                    /\ SameLock(leases'[i], leases[i])
    PROVE  Service!Next
<1> DEFINE ids == Held(leases) \ Held(leases')
<1>1. ids \in SUBSET Service!Taken
  BY LockHeld
<1>2. ASSUME NEW i \in LeaseIds
      PROVE  Locks'[i] = Service!Without(ids)[i]
  <2>1. Service!Without(ids)[i] = IF i \in ids THEN None ELSE Locks[i]
    BY DEF Service!Without
  <2>2. CASE i \in Held(leases')
    BY <2>1, <2>2 DEF Locks, SameLock, Held
  <2>3. CASE i \notin Held(leases')
    BY <2>1, <2>3 DEF Locks, Held
  <2> QED  BY <2>2, <2>3
<1>3. Locks' = Service!Without(ids)
  BY <1>2 DEF Locks, Service!Without
<1> QED  BY <1>1, <1>3 DEF Service!Next, Service!Go

(* A grant takes a lock that nothing is in the way of, or only drops what  *)
(* has run out.                                                            *)
LEMMA GrantTakes ==
    ASSUME TypeInv, TypeInv', NEW c \in Claims, Grants(c)
    PROVE  Service!Next
<1> USE DEF TypeInv, TypeOK
<1> DEFINE t == Expire(leases)
           q == req[c]
<1>1. q \in Request /\ t \in Tables /\ Fresh \in SUBSET LeaseIds
  BY ExpireType DEF Grants, Asking, Subscribed, Fresh
<1>2. PICK g \in ClaimAs(t, q, Fresh) : leases' = Restore(t, g)
  BY DEF Grants, AnswerGranted
<1> HIDE DEF t, q
<1>3. \A i \in LeaseIds : leases'[i] = IF i = g.id THEN g.lease ELSE t[i]
  BY <1>1, <1>2 DEF Restore, Tables
<1> USE DEF t, q
<1>4. Held(t) = Held(leases) \ Due(leases) /\ \A i \in Held(t) : t[i] = leases[i]
  BY ExpireType DEF Held, Expire, Remove
<1>5. CASE Same(t, q) # {}
  <2>1. PICK i \in Same(t, q) : g = [id |-> i, lease |-> Reclaimed(t[i], q)]
    BY <1>5 DEF ClaimAs
  <2>2. i \in Held(t) /\ t[i] \in Lease
    BY <1>1, HeldLease DEF Same
  <2>3. SameLock(Reclaimed(t[i], q), t[i])
    BY <2>2 DEF SameLock, Reclaimed, Lease
  <2>4. \A j \in Held(leases') : j \in Held(t) /\ SameLock(leases'[j], t[j])
    BY <1>3, <2>1, <2>2, <2>3 DEF Held, SameLock
  <2> QED  BY <1>4, <2>4, Goes
<1>6. CASE Same(t, q) = {}
  <2>1. PICK i \in Fresh : g = [id |-> i, lease |-> NewLease(q)]
    BY <1>6 DEF ClaimAs
  <2>2. i \in LeaseIds \ Held(leases) /\ i \notin Held(t)
    BY <1>4, <2>1 DEF Fresh, Held
  <2> DEFINE k == [holder |-> q.agent, resource |-> q.resource, mode |-> q.mode]
             ids == Due(leases)
  <2>3. k \in Service!Lock /\ NewLease(q) # None
    <3>1. k \in Service!Lock
      BY <1>1 DEF Service!Lock, Request, Modes
    <3>2. NewLease(q) \in Lease
      BY <1>1 DEF Request, NewLease, Lease
    <3> QED  BY <3>1, <3>2, NoneAssumption
  <2>4. ids \in SUBSET Service!Taken /\ i \in LeaseIds \ Service!Taken
    BY <2>2, LockHeld DEF Due
  <2>5. ASSUME NEW j \in Service!Taken \ ids
        PROVE  ~Service!Excludes(Locks[j], k)
    <3>1. j \in Held(t) /\ j \in Held(leases) /\ t[j] = leases[j]
      BY <1>4, LockHeld
    <3>2. ~Blocks(t[j], q.agent, q.mode, q.resource)
      BY <1>6, <3>1 DEF Grants, AnswerGranted, Conflicts, InTheWay
    <3>3. SameLock(Locks[j], t[j])
      BY <3>1, LockHeld
    <3> QED  BY <3>2, <3>3 DEF Service!Excludes, SameLock, Blocks, Overlaps,
                               Conflicting
  <2>6. ASSUME NEW j \in LeaseIds
        PROVE  Locks'[j] = [Service!Without(ids) EXCEPT ![i] = k][j]
    <3>1. Service!Without(ids)[j] = IF j \in ids THEN None ELSE Locks[j]
      BY DEF Service!Without
    <3>2. CASE j = i
      <4>1. leases'[j] = NewLease(q)
        BY <1>3, <2>1, <3>2
      <4>2. Locks'[j] = k
        BY <2>3, <4>1 DEF Locks, NewLease
      <4>3. [Service!Without(ids) EXCEPT ![i] = k][j] = k
        BY <3>2 DEF Service!Without
      <4> QED  BY <4>2, <4>3
    <3>3. CASE j # i
      <4>1. leases'[j] = IF j \in ids THEN None ELSE leases[j]
        BY <1>3, <2>1, <3>3 DEF Expire, Remove
      <4>2. [Service!Without(ids) EXCEPT ![i] = k][j] = Service!Without(ids)[j]
        BY <3>3 DEF Service!Without
      <4> QED  BY <3>1, <4>1, <4>2 DEF Locks
    <3> QED  BY <3>2, <3>3
  <2>7. Locks' = [Service!Without(ids) EXCEPT ![i] = k]
    BY <2>6 DEF Locks, Service!Without
  <2>8. Service!Take(i, k, ids)
    BY <2>5, <2>7 DEF Service!Take
  <2> QED  BY <2>3, <2>4, <2>8 DEF Service!Next
<1> QED  BY <1>5, <1>6

(* An acceptance gives locks of the sender to the recipient. *)
LEMMA AcceptGives ==
    ASSUME TypeInv, NEW h \in Handoffs, Accept(h)
    PROVE  Service!Next
<1> USE DEF TypeInv, TypeOK
<1> DEFINE a == bundles[h].from
           b == bundles[h].to
           ids == Movable(leases, a, bundles[h].ids)
<1>1. bundles[h] \in Bundle
  BY DEF Accept
<1>2. a \in Agents /\ b \in Agents
  BY <1>1 DEF Bundle
<1>3. \A i \in LeaseIds : leases'[i] =
         IF i \in ids THEN [leases[i] EXCEPT !.holder = b, !.handed = TRUE]
                      ELSE leases[i]
  BY DEF Accept, TransferSelected
<1>4. ids \in SUBSET Held(leases) /\ \A i \in ids : leases[i].holder = a
  BY DEF Movable, ByHolder
<1> HIDE DEF ids
<1>5. ids \in SUBSET Service!Taken /\ \A i \in ids : Locks[i].holder = a
  BY <1>4, LockHeld DEF SameLock
<1>6. ASSUME NEW i \in LeaseIds
      PROVE  Locks'[i] = IF i \in ids THEN [Locks[i] EXCEPT !.holder = b]
                                      ELSE Locks[i]
  <2>1. CASE i \in ids
    <3> DEFINE l == leases[i]
               m == [l EXCEPT !.holder = b, !.handed = TRUE]
    <3>1. l \in Lease /\ l # None
      BY <1>4, <2>1, HeldLease DEF Held
    <3>2. m # None /\ m.holder = b
      <4>1. m \in Lease /\ m.holder = b
        BY <1>2, <3>1, MovedLease
      <4> QED  BY <4>1, NoneAssumption
    <3>3. m.resource = l.resource /\ m.mode = l.mode
      BY <3>1 DEF Lease
    <3>4. leases'[i] = m
      BY <1>3, <2>1
    <3>5. Locks[i] = [holder |-> l.holder, resource |-> l.resource, mode |-> l.mode]
      BY <3>1 DEF Locks
    <3> HIDE DEF l, m
    <3>6. Locks'[i] = [holder |-> b, resource |-> l.resource, mode |-> l.mode]
      BY <3>2, <3>3, <3>4 DEF Locks
    <3> QED  BY <2>1, <3>5, <3>6
  <2>2. CASE i \notin ids
    BY <1>3, <2>2 DEF Locks
  <2> QED  BY <2>1, <2>2
<1>7. Locks' = [i \in LeaseIds |-> IF i \in ids THEN [Locks[i] EXCEPT !.holder = b]
                                                ELSE Locks[i]]
  BY <1>6 DEF Locks
<1>8. Service!Give(a, b, ids)
  BY <1>5, <1>7 DEF Service!Give
<1> QED  BY <1>2, <1>5, <1>8 DEF Service!Next

(* No step but a grant or an acceptance leaves a lock that was not there:  *)
(* what a restart loads was held, for it is stored and its time has not    *)
(* passed.                                                                 *)
LEMMA LeasesGo ==
    ASSUME TypeInv, StoredAsServed, [Next]_vars,
           \A c \in Claims : ~Grants(c), \A h \in Handoffs : ~Accept(h)
    PROVE  \A i \in Held(leases') : /\ i \in Held(leases)
                                    /\ SameLock(leases'[i], leases[i])
<1> USE DEF TypeInv, TypeOK
<1> DEFINE Gone == \A i \in Held(leases') : /\ i \in Held(leases)
                                           /\ SameLock(leases'[i], leases[i])
<1>1. ASSUME NEW ids, leases' = Remove(leases, ids)
      PROVE  Gone
  BY <1>1, RemoveType DEF Held, SameLock
<1>2. ASSUME NEW c \in Claims, Expires(c)
      PROVE  Gone
  BY <1>1, <1>2 DEF Expires, InConflict, Expire
<1>3. ASSUME NEW ids \in SUBSET LeaseIds, Drop(ids)
      PROVE  Gone
  BY <1>1, <1>3 DEF Drop
<1>4. ASSUME NEW a \in Agents, NEW i \in LeaseIds, Renew(a, i)
      PROVE  Gone
  <2>1. CASE leases[i].due
    BY <1>1, <1>4, <2>1 DEF Renew, Expire
  <2>2. CASE ~leases[i].due
    <3>1. leases' = Renewed(Expire(leases), i) /\ Expire(leases) \in Tables
      BY <1>4, <2>2, ExpireType DEF Renew
    <3>2. \A j \in LeaseIds : Expire(leases)[j] =
             IF j \in Due(leases) THEN None ELSE leases[j]
      BY DEF Expire, Remove
    <3>3. Expire(leases)[i] = leases[i] /\ leases[i] # None /\ leases[i] \in Lease
      BY <1>4, <2>2, <3>2, HeldLease DEF Renew, ByHolder, Held, Due
    <3>4. \A j \in LeaseIds : leases'[j] =
             IF j = i THEN [leases[i] EXCEPT !.due = FALSE] ELSE Expire(leases)[j]
      BY <3>1, <3>3 DEF Renewed, Tables
    <3>5. SameLock([leases[i] EXCEPT !.due = FALSE], leases[i])
      BY <3>3 DEF SameLock, Lease
    <3> QED  BY <3>2, <3>3, <3>4, <3>5 DEF Held, SameLock
  <2> QED  BY <2>1, <2>2
<1>5. ASSUME NEW i \in LeaseIds, RunOut(i)
      PROVE  Gone
  <2>1. SameLock([leases[i] EXCEPT !.due = TRUE], leases[i])
    BY <1>5 DEF RunOut, SameLock, Tables, Lease
  <2> QED  BY <1>5, <2>1 DEF RunOut, Held, SameLock, Tables
<1>6. CASE ReapFails
  BY <1>1, <1>6 DEF ReapFails, Expire
<1>7. CASE Restart
  <2> SUFFICES ASSUME NEW i \in Held(leases')
               PROVE  i \in Held(leases) /\ leases'[i] = leases[i]
    BY DEF SameLock
  <2>1. i \in LeaseIds /\ stored[i] # None /\ ~stored[i].due /\ leases'[i] = stored[i]
    BY <1>7 DEF Restart, Loaded, Remove, Held
  <2>2. leases[i] # None
    BY <2>1 DEF StoredAsServed
  <2> QED  BY <2>1, <2>2 DEF StoredAsServed, Held
<1>8. CASE UNCHANGED leases
  BY <1>8 DEF SameLock
<1>9. LeaseStep \/ UNCHANGED leases
  BY LeaseSteps
<1> QED  BY <1>2, <1>3, <1>4, <1>5, <1>6, <1>7, <1>8, <1>9, Zenon DEF LeaseStep

(* Every step of the daemon is a step of the service, or none. *)
LEMMA ServiceStep ==
    ASSUME TypeInv, TypeInv', StoredAsServed, [Next]_vars
    PROVE  [Service!Next]_Locks
<1>1. CASE (\E c \in Claims : Grants(c)) \/ \E h \in Handoffs : Accept(h)
  BY <1>1, GrantTakes, AcceptGives
<1>2. CASE ~((\E c \in Claims : Grants(c)) \/ \E h \in Handoffs : Accept(h))
  BY <1>2, LeasesGo, Goes
<1> QED  BY <1>1, <1>2

(* The daemon implements the lock service: whatever claims, expiries,      *)
(* handoffs, failed writes, crashes and transfers do to the tables, a lock *)
(* is taken only where none is in its way, moves only by a handoff, and    *)
(* none ever comes back.                                                   *)
THEOREM Implements == Spec => LockServiceSpec
<1>1. Init => Service!Init
  BY DEF Init, Started, EmptyTable, Locks, Service!Init
<1>2. IndInv /\ IndInv' /\ [Next]_vars => [Service!Next]_Locks
  BY ServiceStep DEF IndInv
<1> QED  BY <1>1, <1>2, Invariance, PTL DEF Spec, LockServiceSpec, Service!Spec

-----------------------------------------------------------------------------
(* Rings of waits.                                                         *)

(* Among any agents there is one that waits for none of them. *)
Grounded(E) ==
    \A S \in (SUBSET Agents) \ {{}} : \E a \in S : \A b \in S : <<a, b>> \notin E

(* The agents of p, each once, wait for one another in turn and the last   *)
(* for r, which is not among them.                                         *)
Path(E, p, n, r) ==
    /\ p \in [1..n -> Agents \ {r}]
    /\ \A i, j \in 1..n : p[i] = p[j] => i = j
    /\ \A i \in 1..(n - 1) : <<p[i], p[i + 1]>> \in E
    /\ <<p[n], r>> \in E

(* Where such paths begin. *)
Reaches(E, r) ==
    {a \in Agents \ {r} :
        \E n \in Nat \ {0} : \E p : Path(E, p, n, r) /\ p[1] = a}

(* What waits for one of them is one of them: it is put before the path,   *)
(* or the path is cut where it comes by.                                   *)
LEMMA ReachesBack ==
    ASSUME NEW E, NEW r, NEW a \in Agents \ {r}, NEW b, <<a, b>> \in E,
           b = r \/ b \in Reaches(E, r)
    PROVE  a \in Reaches(E, r)
<1>1. CASE b = r
  <2> DEFINE q == [i \in 1..1 |-> a]
  <2>1. Path(E, q, 1, r) /\ q[1] = a
    BY <1>1 DEF Path
  <2> HIDE DEF q
  <2> QED  BY <2>1 DEF Reaches
<1>2. CASE b \in Reaches(E, r)
  <2>1. PICK n \in Nat \ {0} : \E p : Path(E, p, n, r) /\ p[1] = b
    BY <1>2 DEF Reaches
  <2>2. PICK p : Path(E, p, n, r) /\ p[1] = b
    BY <2>1
  <2>3. CASE \A i \in 1..n : p[i] # a
    <3> DEFINE q == [i \in 1..(n + 1) |-> IF i = 1 THEN a ELSE p[i - 1]]
    <3>1. q[1] = a /\ \A i \in 2..(n + 1) : i - 1 \in 1..n /\ q[i] = p[i - 1]
      OBVIOUS
    <3>2. q \in [1..(n + 1) -> Agents \ {r}]
      BY <2>2, <3>1 DEF Path
    <3> HIDE DEF q
    <3>3. \A i \in 1..(n + 1) : i = 1 \/ i \in 2..(n + 1)
      OBVIOUS
    <3>4. \A i, j \in 1..(n + 1) : q[i] = q[j] => i = j
      <4> SUFFICES ASSUME NEW i \in 1..(n + 1), NEW j \in 1..(n + 1), q[i] = q[j]
                   PROVE  i = j
        OBVIOUS
      <4>1. CASE i = 1 \/ j = 1
        BY <2>3, <3>1, <3>3, <4>1
      <4>2. CASE i # 1 /\ j # 1
        <5>1. i - 1 \in 1..n /\ j - 1 \in 1..n /\ p[i - 1] = p[j - 1]
          BY <3>1, <3>3, <4>2
        <5>2. i - 1 = j - 1
          BY <2>2, <5>1 DEF Path
        <5> QED  BY <5>2
      <4> QED  BY <4>1, <4>2
    <3>5. ASSUME NEW i \in 1..((n + 1) - 1) PROVE <<q[i], q[i + 1]>> \in E
      <4>1. CASE i = 1
        <5>1. q[2] = p[1]
          BY <3>1, <4>1
        <5> QED  BY <2>2, <3>1, <4>1, <5>1
      <4>2. CASE i # 1
        <5>1. i - 1 \in 1..(n - 1) /\ q[i] = p[i - 1] /\ q[i + 1] = p[(i - 1) + 1]
          BY <3>1, <4>2
        <5> QED  BY <2>2, <5>1 DEF Path
      <4> QED  BY <4>1, <4>2
    <3>6. <<q[n + 1], r>> \in E
      BY <2>2, <3>1 DEF Path
    <3>7. Path(E, q, n + 1, r)
      BY <3>2, <3>4, <3>5, <3>6 DEF Path
    <3>8. n + 1 \in Nat \ {0}
      OBVIOUS
    <3> QED  BY <3>1, <3>7, <3>8 DEF Reaches
  <2>4. CASE \E k \in 1..n : p[k] = a
    <3>1. PICK k \in 1..n : p[k] = a
      BY <2>4
    <3> DEFINE m == n - k + 1
               q == [i \in 1..m |-> p[i + k - 1]]
    <3>2. m \in Nat \ {0} /\ \A i \in 1..m : i + k - 1 \in 1..n
      OBVIOUS
    <3>3. q[1] = a /\ q[m] = p[n] /\ q \in [1..m -> Agents \ {r}]
      <4>1. 1 + k - 1 = k /\ m + k - 1 = n /\ 1 \in 1..m /\ m \in 1..m
        OBVIOUS
      <4>2. q[1] = a /\ q[m] = p[n]
        BY <3>1, <4>1
      <4>3. q \in [1..m -> Agents \ {r}]
        BY <2>2, <3>2 DEF Path
      <4> QED  BY <4>2, <4>3
    <3>4. \A i \in 1..m : q[i] = p[i + k - 1]
      OBVIOUS
    <3>5. \A i \in 1..(m - 1) : i + k - 1 \in 1..(n - 1) /\ (i + 1) + k - 1 = (i + k - 1) + 1
      OBVIOUS
    <3>6. \A i, j \in 1..m : q[i] = q[j] => i = j
      <4> SUFFICES ASSUME NEW i \in 1..m, NEW j \in 1..m, q[i] = q[j] PROVE i = j
        OBVIOUS
      <4>1. i + k - 1 = j + k - 1
        BY <2>2, <3>2, <3>4 DEF Path
      <4> QED  BY <3>2, <4>1
    <3>7. ASSUME NEW i \in 1..(m - 1) PROVE <<q[i], q[i + 1]>> \in E
      <4>1. i \in 1..m /\ i + 1 \in 1..m
        BY <3>2
      <4> QED  BY <2>2, <3>4, <3>5, <4>1 DEF Path
    <3> HIDE DEF q, m
    <3>8. Path(E, q, m, r)
      BY <2>2, <3>3, <3>6, <3>7 DEF Path
    <3> QED  BY <3>2, <3>3, <3>8 DEF Reaches
  <2> QED  BY <2>3, <2>4
<1> QED  BY <1>1, <1>2

(* Where waits of one agent more make a ring, it is one through that       *)
(* agent: it waits for one from which a path leads back to it.             *)
LEMMA RingThrough ==
    ASSUME NEW E, NEW F, NEW r \in Agents, Grounded(E), ~Grounded(F),
           <<r, r>> \notin F,
           \A a \in Agents \ {r} : \A b \in Agents : <<a, b>> \in F => <<a, b>> \in E
    PROVE  \E b \in Reaches(E, r) : <<r, b>> \in F
<1>1. PICK S \in (SUBSET Agents) \ {{}} : \A a \in S : \E b \in S : <<a, b>> \in F
  BY DEF Grounded
<1> DEFINE U == (S \ {r}) \ Reaches(E, r)
<1>2. U = {}
  <2> SUFFICES ASSUME U # {} PROVE FALSE
    OBVIOUS
  <2>1. PICK a \in U : \A b \in U : <<a, b>> \notin E
    <3>1. U \in (SUBSET Agents) \ {{}}
      OBVIOUS
    <3> HIDE DEF U
    <3> QED  BY <3>1 DEF Grounded
  <2>2. PICK b \in S : <<a, b>> \in F
    BY <1>1
  <2>3. <<a, b>> \in E
    BY <2>2
  <2>4. b # r /\ b \notin Reaches(E, r)
    BY <2>3, ReachesBack
  <2> QED  BY <2>1, <2>3, <2>4
<1>3. r \in S
  <2> SUFFICES ASSUME r \notin S PROVE FALSE
    OBVIOUS
  <2>1. PICK a \in S : \A b \in S : <<a, b>> \notin E
    BY DEF Grounded
  <2> QED  BY <1>1, <2>1
<1>4. PICK b \in S : <<r, b>> \in F
  BY <1>1, <1>3
<1>5. b \in Reaches(E, r)
  BY <1>2, <1>4
<1> QED  BY <1>4, <1>5

(* Who waits for whom, in a table and a queue. *)
Edges(t, w) ==
    {e \in Agents \X Agents :
        \E c \in WaitsOf(w, e[1]) : \E i \in InTheWay(t, w[c]) : t[i].holder = e[2]}

(* No agent waits twice. *)
OneWaitEach(w) ==
    \A c, d \in Queued(w) : w[c].agent = w[d].agent => c = d

(* A wait for another is one that the search for rings sees. *)
LEMMA EdgeSeen ==
    ASSUME NEW t, NEW w, OneWaitEach(w), NEW a, NEW b, <<a, b>> \in Edges(t, w)
    PROVE  WaitsOf(w, a) # {} /\ Holds(t, b, Wants(w, a))
<1>1. PICK c \in WaitsOf(w, a) : \E i \in InTheWay(t, w[c]) : t[i].holder = b
  BY DEF Edges
<1>2. PICK i \in InTheWay(t, w[c]) : t[i].holder = b
  BY <1>1
<1>3. WaitsOf(w, a) = {c}
  BY <1>1 DEF WaitsOf, OneWaitEach
<1>4. LastOf(w, WaitsOf(w, a)) = c
  BY <1>3 DEF LastOf
<1>5. i \in ByHolder(t, b) /\ Overlaps(t[i].resource, w[c].resource)
  BY <1>2 DEF InTheWay, Blocks, ByHolder
<1> QED  BY <1>1, <1>4, <1>5 DEF Holds, Wants

(* Nobody is in its own way. *)
LEMMA EdgeApart ==
    ASSUME NEW t, NEW w, NEW a PROVE <<a, a>> \notin Edges(t, w)
BY DEF Edges, WaitsOf, InTheWay, Blocks

(* A path back to an agent, and what it asks for held by the first of the  *)
(* path: that is a ring the search returns.                                *)
LEMMA PathIsRing ==
    ASSUME NEW t, NEW w, OneWaitEach(w), NEW r \in Agents, NEW res,
           NEW b \in Reaches(Edges(t, w), r), Holds(t, b, res)
    PROVE  Rings(t, w, r, res) # {}
<1> DEFINE E == Edges(t, w)
<1>1. PICK n \in Nat \ {0} : \E p : Path(E, p, n, r) /\ p[1] = b
  BY DEF Reaches
<1>2. PICK p : Path(E, p, n, r) /\ p[1] = b
  BY <1>1
<1> DEFINE m == n + 1
           q == [i \in 1..m |-> IF i = 1 THEN r ELSE p[i - 1]]
<1>3. /\ m \in Nat /\ m > 1 /\ q[1] = r
      /\ \A i \in 2..m : i - 1 \in 1..n /\ q[i] = p[i - 1]
      /\ \A i \in 1..m : i = 1 \/ i \in 2..m
  OBVIOUS
<1>4. q \in [1..m -> Agents]
  BY <1>2, <1>3 DEF Path
<1>5. q \in Seq(Agents) /\ Len(q) = m
  BY <1>3, <1>4
<1> HIDE DEF q
<1>6. \A i, j \in 1..m : q[i] = q[j] => i = j
  <2> SUFFICES ASSUME NEW i \in 1..m, NEW j \in 1..m, q[i] = q[j] PROVE i = j
    OBVIOUS
  <2>1. CASE i = 1 \/ j = 1
    BY <1>2, <1>3, <2>1 DEF Path
  <2>2. CASE i # 1 /\ j # 1
    <3>1. i - 1 \in 1..n /\ j - 1 \in 1..n /\ p[i - 1] = p[j - 1]
      BY <1>3, <2>2
    <3>2. i - 1 = j - 1
      BY <1>2, <3>1 DEF Path
    <3> QED  BY <3>2
  <2> QED  BY <2>1, <2>2
<1>7. m <= Cardinality(Agents)
  <2>1. q \in Injection(1..m, Agents)
    BY <1>4, <1>6 DEF Injection, IsInjective
  <2>2. Cardinality(1..m) <= Cardinality(Agents)
    BY <2>1, AgentsAssumption, FS_Injection
  <2>3. Cardinality(1..m) = m
    BY <1>3, FS_Interval
  <2> QED  BY <2>2, <2>3
<1>8. \A i \in 1..n : /\ WaitsOf(w, p[i]) # {}
                      /\ Holds(t, IF i = n THEN r ELSE p[i + 1], Wants(w, p[i]))
  <2> SUFFICES ASSUME NEW i \in 1..n
               PROVE  /\ WaitsOf(w, p[i]) # {}
                      /\ Holds(t, IF i = n THEN r ELSE p[i + 1], Wants(w, p[i]))
    OBVIOUS
  <2>1. CASE i = n
    <3>1. <<p[i], r>> \in E
      BY <1>2, <2>1 DEF Path
    <3> QED  BY <2>1, <3>1, EdgeSeen
  <2>2. CASE i # n
    <3>1. i \in 1..(n - 1)
      BY <2>2
    <3>2. <<p[i], p[i + 1]>> \in E
      BY <1>2, <3>1 DEF Path
    <3> QED  BY <2>2, <3>2, EdgeSeen
  <2> QED  BY <2>1, <2>2
<1> DEFINE want(i) == IF i = 1 THEN res ELSE Wants(w, q[i])
           next(i) == IF i = m THEN r ELSE q[i + 1]
<1>9. ASSUME NEW i \in 2..m
      PROVE  WaitsOf(w, q[i]) # {} /\ Holds(t, next(i), want(i))
  <2>1. i - 1 \in 1..n /\ q[i] = p[i - 1] /\ i # 1
    BY <1>3
  <2>2. next(i) = IF i - 1 = n THEN r ELSE p[(i - 1) + 1]
    <3>1. CASE i = m
      BY <3>1
    <3>2. CASE i # m
      <4>1. i + 1 \in 2..m /\ (i + 1) - 1 = (i - 1) + 1
        BY <3>2
      <4> QED  BY <1>3, <3>2, <4>1
    <3> QED  BY <3>1, <3>2
  <2> QED  BY <1>8, <2>1, <2>2
<1>10. Holds(t, next(1), want(1))
  <2>1. q[2] = p[1] /\ m # 1
    BY <1>3
  <2> QED  BY <1>2, <2>1
<1>11. Ring(t, w, r, res, q)
  <2>1. \A i \in 1..m : Holds(t, next(i), want(i))
    BY <1>3, <1>9, <1>10
  <2> HIDE DEF m
  <2> QED  BY <1>3, <1>5, <1>6, <1>9, <2>1 DEF Ring
<1>12. q \in UNION {[1..k -> Agents] : k \in 2..Cardinality(Agents)}
  <2>1. m \in 2..Cardinality(Agents)
    BY <1>3, <1>7, AgentsAssumption, FS_CardinalityType
  <2> HIDE DEF m
  <2> QED  BY <1>4, <2>1
<1> QED  BY <1>11, <1>12 DEF Rings

(* Fewer leases and fewer waits: nobody waits for anybody new. *)
LEMMA FewerEdges ==
    ASSUME NEW t, NEW u, NEW w, NEW x,
           \A i \in Held(u) : i \in Held(t) /\ SameLock(u[i], t[i]),
           \A c \in Claims : x[c] \in {None, w[c]},
           Grounded(Edges(t, w))
    PROVE  Grounded(Edges(u, x))
<1>1. ASSUME NEW e \in Edges(u, x)
      PROVE  e \in Edges(t, w)
  <2>1. PICK c \in WaitsOf(x, e[1]) : \E i \in InTheWay(u, x[c]) : u[i].holder = e[2]
    BY <1>1 DEF Edges
  <2>2. PICK i \in InTheWay(u, x[c]) : u[i].holder = e[2]
    BY <2>1
  <2>3. x[c] = w[c] /\ c \in WaitsOf(w, e[1])
    BY <2>1 DEF WaitsOf, Queued
  <2>4. i \in InTheWay(t, w[c]) /\ t[i].holder = e[2]
    BY <2>2, <2>3 DEF InTheWay, Blocks, SameLock
  <2> QED  BY <1>1, <2>3, <2>4 DEF Edges
<1> QED  BY <1>1 DEF Grounded

(* A claim asks for what can come over its connection, and its place in    *)
(* the queue is its agent's.                                               *)
Asked ==
    \A c \in Claims :
        /\ pc[c] # "idle" => req[c] \in Asks[c]
        /\ c \in Queued(queue) => queue[c].agent = req[c].agent

(* A claim takes a place. *)
Joins(c) == pc[c] = "attempt" /\ JoinQueue(c)

(* Only a claim that takes a place is put into the queue. *)
LEMMA QueueStep ==
    ASSUME TypeInv, [Next]_vars, \A c \in Claims : ~Joins(c)
    PROVE  \A d \in Claims : queue'[d] \in {None, queue[d]}
<1> USE DEF TypeInv, TypeOK
<1>1. ASSUME NEW gone, queue' = Leave(queue, gone)
      PROVE  \A d \in Claims : queue'[d] \in {None, queue[d]}
  BY <1>1, LeaveType
<1>2. ASSUME NEW c \in Claims, NEW ans, NEW outcome, NEW freed,
             Settle(c, ans, outcome, freed)
      PROVE  \A d \in Claims : queue'[d] \in {None, queue[d]}
  BY <1>1, <1>2 DEF Settle
<1>3. ASSUME NEW c \in Claims, ClaimStep(c)
      PROVE  \A d \in Claims : queue'[d] \in {None, queue[d]}
  <2>1. CASE Attempt(c)
    <3>1. CASE AnswerDeadlock(c)
      BY <1>1, <3>1 DEF AnswerDeadlock
    <3>2. CASE SleepAgain(c)
      BY <3>2 DEF SleepAgain, line
    <3>3. CASE AnswerBroken(c) \/ AnswerRefused(c) \/ AnswerGranted(c) \/ AnswerConflict(c)
      BY <1>2, <3>3 DEF AnswerBroken, AnswerRefused, AnswerGranted, AnswerConflict
    <3> QED  BY <2>1, <3>1, <3>2, <3>3 DEF Attempt, Joins
  <2>2. CASE UNCHANGED queue
    BY <2>2
  <2>3. CASE Decide(c)
    BY <1>2, <2>2, <2>3 DEF Decide, AnswerBroken, line
  <2>4. CASE Disconnect(c)
    BY <1>2, <2>4 DEF Disconnect
  <2>5. CASE (\E q \in Asks[c] : Begin(c, q)) \/ Wake(c) \/ Lag(c) \/ Deadline(c) \/ Respond(c)
    BY <2>2, <2>5 DEF Begin, Wake, Lag, Deadline, Sleeping, Respond, line
  <2> QED  BY <1>3, <2>1, <2>3, <2>4, <2>5 DEF ClaimStep
<1>4. CASE Restart
  BY <1>4 DEF Restart, EmptyQueue
<1> QED  BY <1>3, <1>4, ClaimsAlone

(* A claim changes what it asks for only as it begins or is over. *)
LEMMA RequestStep ==
    ASSUME TypeInv, NEW c \in Claims, ClaimStep(c)
    PROVE  /\ \A d \in Claims : d # c => pc'[d] = pc[d] /\ req'[d] = req[d]
           /\ \/ \E q \in Asks[c] : Begin(c, q)
              \/ Respond(c)
              \/ pc[c] # "idle" /\ UNCHANGED req
<1> USE DEF TypeInv, TypeOK
<1>1. ASSUME NEW ans, NEW outcome, NEW freed, Settle(c, ans, outcome, freed)
      PROVE  UNCHANGED req /\ \E s : pc' = [pc EXCEPT ![c] = s]
  BY <1>1 DEF Settle
<1>2. ASSUME UNCHANGED req, \E s : pc' = [pc EXCEPT ![c] = s]
      PROVE  \A d \in Claims : d # c => pc'[d] = pc[d] /\ req'[d] = req[d]
  BY <1>2
<1>3. CASE \E q \in Asks[c] : Begin(c, q)
  BY <1>3 DEF Begin
<1>4. CASE Respond(c)
  BY <1>4 DEF Respond
<1>5. CASE Attempt(c)
  <2>1. UNCHANGED req /\ \E s : pc' = [pc EXCEPT ![c] = s]
    <3>1. CASE AnswerDeadlock(c) \/ JoinQueue(c) \/ SleepAgain(c)
      BY <3>1 DEF AnswerDeadlock, JoinQueue, SleepAgain
    <3>2. CASE AnswerBroken(c) \/ AnswerRefused(c) \/ AnswerGranted(c) \/ AnswerConflict(c)
      BY <1>1, <3>2 DEF AnswerBroken, AnswerRefused, AnswerGranted, AnswerConflict
    <3> QED  BY <1>5, <3>1, <3>2 DEF Attempt
  <2> QED  BY <1>2, <1>5, <2>1 DEF Attempt
<1>6. CASE Decide(c)
  <2>1. UNCHANGED req /\ \E s : pc' = [pc EXCEPT ![c] = s]
    BY <1>1, <1>6 DEF Decide, AnswerBroken
  <2> QED  BY <1>2, <1>6, <2>1 DEF Decide
<1>7. CASE Disconnect(c)
  BY <1>1, <1>2, <1>7 DEF Disconnect
<1>8. CASE Wake(c) \/ Lag(c) \/ Deadline(c)
  BY <1>8 DEF Wake, Lag, Deadline, Sleeping
<1> QED  BY <1>3, <1>4, <1>5, <1>6, <1>7, <1>8 DEF ClaimStep

(* No step lets a claim ask for what is another connection's, or wait for  *)
(* an agent that is not its own.                                           *)
LEMMA AskedStep ==
    ASSUME TypeInv, TypeInv', Placed, Asked, [Next]_vars
    PROVE  Asked'
<1> USE DEF TypeInv, TypeOK
<1>1. CASE Restart
  BY <1>1 DEF Restart, EmptyQueue, Queued, Asked
<1>2. ASSUME NEW c \in Claims, ClaimStep(c)
      PROVE  Asked'
  <2>1. ASSUME NEW d \in Claims, pc'[d] # "idle"
        PROVE  req'[d] \in Asks[d]
    <3>1. CASE d # c
      BY <1>2, <2>1, <3>1, RequestStep DEF Asked
    <3>2. CASE d = c /\ \E q \in Asks[c] : Begin(c, q)
      BY <3>2 DEF Begin
    <3>3. CASE d = c /\ Respond(c)
      BY <2>1, <3>3 DEF Respond
    <3>4. CASE d = c /\ pc[c] # "idle" /\ UNCHANGED req
      BY <3>4 DEF Asked
    <3> QED  BY <1>2, <3>1, <3>2, <3>3, <3>4, RequestStep
  <2>2. ASSUME NEW d \in Claims, pc[d] \in Subscribed
        PROVE  req'[d] = req[d]
    BY <1>2, <2>2, RequestStep DEF Begin, Respond, Subscribed
  <2>3. ASSUME NEW d \in Claims, queue'[d] # None, queue'[d] \in {None, queue[d]}
        PROVE  queue'[d].agent = req'[d].agent
    <3>1. d \in Queued(queue) /\ queue'[d] = queue[d]
      BY <2>3 DEF Queued
    <3>2. req'[d] = req[d]
      BY <2>2, <3>1 DEF Placed, OnePlace
    <3> QED  BY <3>1, <3>2 DEF Asked
  <2>4. CASE \A k \in Claims : ~Joins(k)
    <3>1. \A d \in Claims : queue'[d] \in {None, queue[d]}
      BY <2>4, QueueStep
    <3> QED  BY <2>1, <2>3, <3>1 DEF Asked, Queued
  <2>5. CASE \E k \in Claims : Joins(k)
    <3>1. PICK k \in Claims : Joins(k)
      BY <2>5
    <3>2. PICK o \in BreakRings(Expire(leases), queue, req[k]) :
             queue' = Join(Leave(queue, o.ended), k, WaiterOf(tickets, req[k]))
      BY <3>1 DEF Joins, JoinQueue
    <3>3. \A d \in Claims : d # k => queue'[d] \in {None, queue[d]}
      <4>1. \A d \in Claims : Leave(queue, o.ended)[d] \in {None, queue[d]}
        BY LeaveType
      <4>2. \A d \in Claims : d # k => queue'[d] = Leave(queue, o.ended)[d]
        BY <3>2, LeaveType DEF Join, Queues
      <4> QED  BY <4>1, <4>2
    <3>4. queue'[k].agent = req'[k].agent
      <4>1. queue'[k] = WaiterOf(tickets, req[k])
        BY <3>2, LeaveType DEF Join, Queues
      <4> QED  BY <2>2, <3>1, <4>1 DEF Joins, Subscribed, WaiterOf
    <3> QED  BY <2>1, <2>3, <3>3, <3>4 DEF Asked, Queued
  <2> QED  BY <2>4, <2>5
<1>3. CASE ~Restart /\ \A c \in Claims : ~ClaimStep(c)
  BY <1>3, ClaimsAlone DEF Asked, Queued
<1> QED  BY <1>1, <1>2, <1>3

(* Where each agent claims over one connection, it waits once at most.     *)
LEMMA WaitsApart ==
    ASSUME OwnConnections, Placed, Asked
    PROVE  /\ \A c \in Claims, d \in Queued(queue) :
                 pc[c] # "idle" /\ queue[d].agent = req[c].agent => c = d
           /\ \A gone : OneWaitEach(Leave(queue, gone))
<1>1. ASSUME NEW c \in Claims, NEW d \in Queued(queue), pc[c] # "idle",
             queue[d].agent = req[c].agent
      PROVE  c = d
  <2>1. d \in Claims /\ pc[d] # "idle"
    BY DEF Queued, Placed, OnePlace, Subscribed
  <2>2. req[c] \in Asks[c] /\ req[d] \in Asks[d] /\ req[c].agent = req[d].agent
    BY <1>1, <2>1 DEF Asked
  <2> QED  BY <2>1, <2>2 DEF OwnConnections
<1>2. ASSUME NEW gone, NEW c \in Queued(Leave(queue, gone)),
             NEW d \in Queued(Leave(queue, gone)),
             Leave(queue, gone)[c].agent = Leave(queue, gone)[d].agent
      PROVE  c = d
  <2>1. /\ c \in Queued(queue) /\ Leave(queue, gone)[c] = queue[c]
        /\ d \in Queued(queue) /\ Leave(queue, gone)[d] = queue[d]
    BY DEF Leave, Queued
  <2>2. c \in Claims /\ pc[c] # "idle" /\ queue[c].agent = req[c].agent
    BY <2>1 DEF Queued, Placed, OnePlace, Subscribed, Asked
  <2> QED  BY <1>1, <1>2, <2>1, <2>2
<1> QED  BY <1>1, <1>2 DEF OneWaitEach

(* A grant ends the wait of the agent it makes a holder, which then waits  *)
(* for nobody: no ring goes through it.                                    *)
LEMMA GrantGrounded ==
    ASSUME TypeInv, Placed, Asked, OwnConnections, NEW c \in Claims, Grants(c),
           Grounded(Edges(leases, queue))
    PROVE  Grounded(Edges(leases, queue)')
<1> USE DEF TypeInv, TypeOK
<1> DEFINE r == req[c].agent
           E == Edges(leases, queue)
<1>1. req[c] \in Request /\ Fresh \in SUBSET LeaseIds /\ Expire(leases) \in Tables
  BY ExpireType DEF Grants, Asking, Subscribed, Fresh
<1>2. PICK g \in ClaimAs(Expire(leases), req[c], Fresh) :
         leases' = Restore(Expire(leases), g)
  BY DEF Grants, AnswerGranted
<1>3. /\ g.lease.holder = r
      /\ \A i \in LeaseIds : leases'[i] =
            IF i = g.id THEN g.lease ELSE Expire(leases)[i]
  <2> HIDE DEF TypeInv, TypeOK
  <2>1. g.lease.holder = r
    BY <1>1, ClaimAsType
  <2>2. \A i \in LeaseIds : Restore(Expire(leases), g)[i] =
           IF i = g.id THEN g.lease ELSE Expire(leases)[i]
    BY <1>1, ClaimAsType
  <2> QED  BY <1>2, <2>1, <2>2
<1>4. ASSUME NEW i \in Held(leases'), leases'[i].holder # r
      PROVE  i \in Held(leases) /\ leases'[i] = leases[i]
  <2>1. i \in LeaseIds /\ leases'[i] = Expire(leases)[i] /\ leases'[i] # None
    BY <1>3, <1>4 DEF Held
  <2> QED  BY <2>1, ExpireType DEF Held
<1>5. queue' = Leave(queue, {c})
  BY DEF Grants, AnswerGranted, Settle
<1>6. \A d \in Queued(queue') : d \in Queued(queue) /\ d # c /\ queue'[d] = queue[d]
  BY <1>5 DEF Leave, Queued
<1>7. WaitsOf(queue', r) = {}
  BY <1>6, WaitsApart DEF WaitsOf, Grants
<1>8. ASSUME NEW a, NEW b, b # r, <<a, b>> \in Edges(leases', queue')
      PROVE  <<a, b>> \in E
  <2>1. PICK d \in WaitsOf(queue', a) :
           \E i \in InTheWay(leases', queue'[d]) : leases'[i].holder = b
    BY <1>8 DEF Edges
  <2>2. PICK i \in InTheWay(leases', queue'[d]) : leases'[i].holder = b
    BY <2>1
  <2>3. d \in WaitsOf(queue, a) /\ queue'[d] = queue[d]
    BY <1>6, <2>1 DEF WaitsOf
  <2>4. i \in InTheWay(leases, queue[d]) /\ leases[i].holder = b
    BY <1>4, <1>8, <2>2, <2>3 DEF InTheWay
  <2> QED  BY <1>8, <2>3, <2>4 DEF Edges
<1> SUFFICES ASSUME NEW S \in (SUBSET Agents) \ {{}}
             PROVE  \E a \in S : \A b \in S : <<a, b>> \notin Edges(leases', queue')
  BY DEF Grounded
<1>9. CASE r \in S
  BY <1>7, <1>9 DEF Edges
<1>10. CASE r \notin S
  <2>1. PICK a \in S : \A b \in S : <<a, b>> \notin E
    BY DEF Grounded
  <2> QED  BY <1>8, <1>10, <2>1
<1> QED  BY <1>9, <1>10

(* A claim takes a place only where no ring was left: a ring it closed     *)
(* would go through it, and the search would have found it.                *)
LEMMA JoinGrounded ==
    ASSUME TypeInv, Placed, Asked, OwnConnections, NEW c \in Claims, Joins(c),
           Grounded(Edges(leases, queue))
    PROVE  Grounded(Edges(leases, queue)')
<1> USE DEF TypeInv, TypeOK
<1> DEFINE r == req[c].agent
           t == Expire(leases)
<1>1. req[c] \in Request /\ r \in Agents
  BY DEF Joins, Asking, Subscribed, Request
<1>2. PICK o \in BreakRings(t, queue, req[c]) :
         /\ ~o.refused
         /\ queue' = Join(Leave(queue, o.ended), c, WaiterOf(tickets, req[c]))
  BY DEF Joins, JoinQueue
<1>3. leases' = t
  BY DEF Joins, JoinQueue, InConflict
<1> DEFINE w == Leave(queue, o.ended)
           x == WaiterOf(tickets, req[c])
           E == Edges(t, w)
           F == Edges(t, queue')
<1>4. Rings(t, w, r, req[c].resource) = {}
  BY <1>2 DEF BreakRings, Victims
<1>5. Grounded(E)
  <2>1. \A i \in Held(t) : i \in Held(leases) /\ SameLock(t[i], leases[i])
    BY ExpireType DEF Held, SameLock
  <2>2. \A d \in Claims : w[d] \in {None, queue[d]}
    BY LeaveType
  <2> QED  BY <2>1, <2>2, FewerEdges
<1>6. /\ w \in Queues /\ x.agent = r /\ x.resource = req[c].resource
      /\ queue' = [w EXCEPT ![c] = x]
  BY <1>2, LeaveType DEF Join, WaiterOf
<1> HIDE DEF x
<1>7. queue'[c] = x /\ \A d \in Claims : d # c => queue'[d] = w[d]
  BY <1>6 DEF Queues
<1>8. ASSUME NEW a \in Agents \ {r}, NEW b \in Agents, <<a, b>> \in F
      PROVE  <<a, b>> \in E
  <2>1. PICK d \in WaitsOf(queue', a) :
           \E i \in InTheWay(t, queue'[d]) : t[i].holder = b
    BY <1>8 DEF Edges
  <2>2. d # c /\ d \in Claims
    BY <1>6, <1>7, <2>1 DEF WaitsOf, Queued
  <2>3. d \in WaitsOf(w, a) /\ queue'[d] = w[d]
    BY <1>7, <2>1, <2>2 DEF WaitsOf, Queued
  <2> QED  BY <2>1, <2>3 DEF Edges
<1>9. ASSUME NEW b, <<r, b>> \in F
      PROVE  Holds(t, b, req[c].resource)
  <2>1. PICK d \in WaitsOf(queue', r) :
           \E i \in InTheWay(t, queue'[d]) : t[i].holder = b
    BY <1>9 DEF Edges
  <2>2. d = c
    <3> SUFFICES ASSUME d # c PROVE FALSE
      OBVIOUS
    <3>1. d \in Claims /\ queue'[d] = w[d] /\ w[d] # None /\ w[d].agent = r
      BY <1>7, <2>1 DEF WaitsOf, Queued
    <3>2. d \in Queued(queue) /\ queue[d].agent = r
      BY <3>1, LeaveType DEF Queued
    <3> QED  BY <3>2, WaitsApart DEF Joins
  <2>3. PICK i \in InTheWay(t, x) : t[i].holder = b
    BY <1>7, <2>1, <2>2
  <2> QED  BY <1>6, <2>3 DEF Holds, InTheWay, Blocks, ByHolder
<1>10. OneWaitEach(w)
  BY WaitsApart
<1> HIDE DEF t, w, r
<1>11. <<r, r>> \notin F
  BY EdgeApart
<1>12. Grounded(F)
  <2> SUFFICES ASSUME ~Grounded(F) PROVE FALSE
    OBVIOUS
  <2>1. PICK b \in Reaches(E, r) : <<r, b>> \in F
    BY <1>1, <1>5, <1>8, <1>11, RingThrough
  <2> QED  BY <1>1, <1>4, <1>9, <1>10, <2>1, PathIsRing
<1> QED  BY <1>3, <1>12 DEF t

(* No step closes a ring of waits. *)
LEMMA GroundedStep ==
    ASSUME TypeInv, StoredAsServed, Placed, Asked, OwnConnections,
           NothingHanded => Grounded(Edges(leases, queue)),
           [Next]_vars, NothingHanded'
    PROVE  Grounded(Edges(leases, queue)')
<1>1. CASE Restart
  <2>1. queue' = EmptyQueue
    BY <1>1 DEF Restart
  <2>2. \A a : WaitsOf(queue', a) = {}
    BY <2>1 DEF WaitsOf, Queued, EmptyQueue
  <2> QED  BY <2>2 DEF Grounded, Edges
<1>2. CASE ~Restart
  <2>1. (\A h \in Handoffs : ~Accept(h)) /\ Grounded(Edges(leases, queue))
    BY <1>2, HandedStep
  <2>2. CASE \E c \in Claims : Grants(c)
    BY <2>1, <2>2, GrantGrounded
  <2>3. CASE \E c \in Claims : Joins(c)
    BY <2>1, <2>3, JoinGrounded
  <2>4. CASE \A c \in Claims : ~Grants(c) /\ ~Joins(c)
    <3>1. \A i \in Held(leases') : i \in Held(leases) /\ SameLock(leases'[i], leases[i])
      BY <2>1, <2>4, LeasesGo
    <3>2. \A d \in Claims : queue'[d] \in {None, queue[d]}
      BY <2>4, QueueStep
    <3>3. Grounded(Edges(leases', queue'))
      BY <2>1, <3>1, <3>2, FewerEdges
    <3> QED  BY <3>3
  <2> QED  BY <2>2, <2>3, <2>4
<1> QED  BY <1>1, <1>2

(* Agents each of which waits for another of them are a ring of edges. *)
LEMMA RingIs ==
    NoRing <=> (OwnConnections /\ NothingHanded => Grounded(Edges(leases, queue)))
<1>1. ASSUME NEW a \in Agents, NEW b \in Agents
      PROVE  WaitsFor(a, b) <=> <<a, b>> \in Edges(leases, queue)
  BY DEF WaitsFor, Edges
<1> QED  BY <1>1 DEF NoRing, Grounded

(* With the invariant above, what is preserved together. *)
RingInv == IndInv /\ Asked /\ NoRing

(* No ring of waits ever stands, of two agents or of any number, whatever  *)
(* grants, expiries, releases, broken rings, failures and restarts come    *)
(* between: the search made as a wait begins finds every ring the wait     *)
(* would close, and nothing else closes one while each agent claims over   *)
(* one connection and no handoff is accepted.                              *)
THEOREM RingsAreBroken == Spec => []NoRing
<1>1. Init => Asked /\ NoRing
  <2> SUFFICES ASSUME Init PROVE Asked /\ NoRing
    OBVIOUS
  <2>1. queue = EmptyQueue /\ Queued(queue) = {}
    BY DEF Init, Started, EmptyQueue, Queued
  <2>2. Asked
    BY <2>1 DEF Init, Started, Asked
  <2>3. \A a : WaitsOf(queue, a) = {}
    BY <2>1 DEF WaitsOf
  <2> QED  BY <2>2, <2>3 DEF NoRing, WaitsFor
<1>2. RingInv /\ IndInv' /\ [Next]_vars => Asked' /\ NoRing'
  <2> SUFFICES ASSUME RingInv, IndInv', [Next]_vars PROVE Asked' /\ NoRing'
    OBVIOUS
  <2>1. Asked'
    BY AskedStep DEF RingInv, IndInv
  <2>2. ASSUME OwnConnections, NothingHanded'
        PROVE  Grounded(Edges(leases, queue)')
    BY <2>2, RingIs, GroundedStep DEF RingInv, IndInv
  <2>3. ASSUME NEW a \in Agents, NEW b \in Agents
        PROVE  WaitsFor(a, b)' <=> <<a, b>> \in Edges(leases', queue')
    BY DEF WaitsFor, Edges
  <2>4. NoRing'
    BY <2>2, <2>3 DEF NoRing, Grounded
  <2> QED  BY <2>1, <2>4
<1> QED  BY <1>1, <1>2, Invariance, PTL DEF Spec, RingInv
=============================================================================
