---------------------------- MODULE LeaseDaemon ----------------------------
(***************************************************************************)
(* Leases as the daemon serves them (crates/agentd/src/daemon/leases.rs,   *)
(* waiting.rs, handoff.rs, recovery.rs and the commit path of daemon.rs).  *)
(*                                                                         *)
(* Every request runs on a task of its own; what it does to the shared     *)
(* state it does in holds of one mutex, and each hold is one action here.  *)
(* A claim that waits takes several: the attempt, the sleep on the event   *)
(* stream, the hold that decides what a wake means, and the next attempt.  *)
(* Releases, renewals, expiry, agents leaving, handoffs, a pause, storage  *)
(* failures, a crash and a transfer to a successor happen in between.      *)
(***************************************************************************)
EXTENDS WaitQueue

CONSTANTS
    Asks,      \* the claims that can come over each connection
    Handoffs,  \* handoff bundles that can be written
    Budget     \* how often each disturbance may happen

Disturbances ==
    {"claim", "exit", "pause", "lag", "failure", "restart", "transfer"}

Request == [agent : Agents, resource : Resources, mode : Modes,
            automatic : BOOLEAN, priority : Priorities, wait : BOOLEAN]

ASSUME AsksAssumption == Asks \in [Claims -> SUBSET Request] /\ None \notin Request

ASSUME BudgetAssumption == Budget \in [Disturbances -> Nat]

VARIABLES
    status,     \* registry: what each agent is doing
    leases,     \* State::leases, the table requests are served from
    stored,     \* the leases in the database
    failed,     \* State::storage_error is latched
    fenced,     \* Coordination::Quiescing: a transfer is offered
    paused,     \* the project is paused
    pc,         \* where each claim is
    req,        \* what it asked for
    wake,       \* an event that ends its sleep is in its receiver
    answer,     \* what it is about to answer
    said,       \* the lease_waiting and lease_wait_ended events about it
    queue,      \* WaitQueue::waiters
    tickets,    \* WaitQueue::next_ticket
    broken,     \* WaitQueue::broken: waits ended to break a ring
    bundles,    \* handoff bundles
    left        \* what is left of Budget

disk   == <<stored, failed>>
claims == <<pc, req, answer, said>>
line   == <<queue, broken, tickets>>
world  == <<status, fenced, paused>>
vars   == <<status, leases, stored, failed, fenced, paused, pc, req, wake,
            answer, said, queue, tickets, broken, bundles, left>>

Steps      == {"idle", "attempt", "asleep", "woken", "late", "answered"}
Subscribed == {"attempt", "asleep", "woken", "late"}
Outcomes   == {"claimed", "timeout", "cancelled", "deadlock"}
Answers    == {"none", "lease", "conflict", "deadlock", "refused",
               "transferring", "gone"}

Bundle == [phase : {"drafted", "sent", "accepted"}, from : Agents,
           to : Agents, ids : SUBSET LeaseIds]

ASSUME BundleAssumption == None \notin Bundle

TypeOK ==
    /\ status \in [Agents -> {"running", "stopping", "exited"}]
    /\ leases \in Tables
    /\ stored \in Tables
    /\ failed \in BOOLEAN
    /\ fenced \in BOOLEAN
    /\ paused \in BOOLEAN
    /\ pc \in [Claims -> Steps]
    /\ req \in [Claims -> Request \cup {None}]
    /\ wake \in [Claims -> BOOLEAN]
    /\ answer \in [Claims -> Answers]
    /\ said \in [Claims -> Seq(Outcomes \cup {"waiting"})]
    /\ queue \in Queues
    /\ tickets \in Nat
    /\ broken \in SUBSET Claims
    /\ bundles \in [Handoffs -> Bundle \cup {None}]
    /\ left \in [Disturbances -> Nat]

(* A daemon that has just started: nothing is asked of it yet, and what it *)
(* serves is what it loaded.                                               *)
Started ==
    /\ status = [a \in Agents |-> "running"]
    /\ leases = stored
    /\ failed = FALSE
    /\ fenced = FALSE
    /\ paused = FALSE
    /\ pc = [c \in Claims |-> "idle"]
    /\ req = [c \in Claims |-> None]
    /\ wake = [c \in Claims |-> FALSE]
    /\ answer = [c \in Claims |-> "none"]
    /\ said = [c \in Claims |-> << >>]
    /\ queue = EmptyQueue
    /\ tickets = 0
    /\ broken = {}
    /\ bundles = [h \in Handoffs |-> None]
    /\ left = Budget

(* The first start, on an empty database. *)
Init == stored = EmptyTable /\ Started

(* One more disturbance of a kind, within its bound. *)
Spend(kind) == left[kind] > 0 /\ left' = [left EXCEPT ![kind] = @ - 1]

(* A mutating request is admitted neither once storage has failed nor      *)
(* while coordination is being transferred (handle_authorized).            *)
Admitted == ~failed /\ ~fenced

(* A plausible slip: only an event about the very same key ends a sleep. *)
NotifyExactly(freed) ==
    wake' = [d \in Claims |->
        /\ pc'[d] \in Subscribed
        /\ wake[d] \/ req[d].resource \in freed]

(* Events reach every claim subscribed to the stream; wait_for_release     *)
(* ends its sleep on a lease released or expired, or a wait ended, on an   *)
(* overlapping resource.  An event that could not be written is not sent.  *)
Notify(freed) ==
    wake' = [d \in Claims |->
        /\ pc'[d] \in Subscribed
        /\ wake[d] \/ \E r \in freed : Overlaps(r, req[d].resource)]

Wanted(t, ids) == {t[i].resource : i \in ids}

-----------------------------------------------------------------------------
(* A claim.                                                                *)

Begin(c, q) ==
    /\ pc[c] = "idle"
    /\ Admitted
    /\ ~paused
    /\ Spend("claim")
    /\ pc' = [pc EXCEPT ![c] = "attempt"]
    /\ req' = [req EXCEPT ![c] = q]
    /\ UNCHANGED <<leases, disk, world, wake, answer, said, line, bundles>>

(* Plausible slips in ending a wait: the place is kept, ... *)
SettleInPlace(c, ans, outcome, freed) ==
    LET ends == c \in Queued(queue) /\ Admitted
    IN  /\ pc' = [pc EXCEPT ![c] = "answered"]
        /\ answer' = [answer EXCEPT ![c] = ans]
        /\ said' = IF ends THEN [said EXCEPT ![c] = Append(@, outcome)] ELSE said
        /\ Notify(IF ends THEN freed \cup {req[c].resource} ELSE freed)
        /\ UNCHANGED <<req, line>>

(* ... or nobody behind it is told. *)
SettleSilently(c, ans, outcome, freed) ==
    LET ends == c \in Queued(queue) /\ Admitted
    IN  /\ pc' = [pc EXCEPT ![c] = "answered"]
        /\ answer' = [answer EXCEPT ![c] = ans]
        /\ queue' = Leave(queue, {c})
        /\ broken' = broken \ {c}
        /\ said' = IF ends THEN [said EXCEPT ![c] = Append(@, outcome)] ELSE said
        /\ Notify(freed)
        /\ UNCHANGED <<req, tickets>>

(* Waiting::end_locked, in the hold that decided the answer: the place is  *)
(* given up and the end of the wait announced, unless a ring was broken at *)
(* it before.  `freed' are the resources of other events of this hold.     *)
Settle(c, ans, outcome, freed) ==
    LET ends == c \in Queued(queue) /\ Admitted
    IN  /\ pc' = [pc EXCEPT ![c] = "answered"]
        /\ answer' = [answer EXCEPT ![c] = ans]
        /\ queue' = Leave(queue, {c})
        /\ broken' = broken \ {c}
        /\ said' = IF ends THEN [said EXCEPT ![c] = Append(@, outcome)] ELSE said
        /\ Notify(IF ends THEN freed \cup {req[c].resource} ELSE freed)
        /\ UNCHANGED <<req, tickets>>

(* Waiting::deadlocked: another claim ended this wait to break a ring. *)
AnswerBroken(c) ==
    /\ c \in broken
    /\ Settle(c, "deadlock", "deadlock", {})
    /\ UNCHANGED leases

(* The checks of an attempt before the table is looked at. *)
Refused(c) == status[req[c].agent] # "running" \/ failed \/ paused

AnswerRefused(c) ==
    /\ c \notin broken
    /\ Refused(c)
    /\ Settle(c, "refused", "cancelled", {})
    /\ UNCHANGED leases

(* An attempt expires leases first and works on what remains. *)
Proceeds(c) == c \notin broken /\ ~Refused(c)

(* State::may_attempt *)
MayAttempt(c) == c \in Queued(queue) => IsNext(queue, c)

(* A random id collides with no lease the daemon can still meet. *)
Fresh ==
    {i \in LeaseIds :
        /\ leases[i] = None
        /\ stored[i] = None
        /\ \A h \in Handoffs : bundles[h] # None => i \notin bundles[h].ids}

ExpireStored == Remove(stored, Due(leases))

AnswerGranted(c) ==
    /\ Proceeds(c)
    /\ MayAttempt(c)
    /\ ~Conflicts(Expire(leases), req[c])
    /\ \E g \in ClaimAs(Expire(leases), req[c], Fresh) :
          /\ leases' = Restore(Expire(leases), g)
          /\ stored' = Restore(ExpireStored, g)
    /\ Settle(c, "lease", "claimed", Wanted(leases, Due(leases)))

InConflict(c) ==
    /\ Proceeds(c)
    /\ ~MayAttempt(c) \/ Conflicts(Expire(leases), req[c])
    /\ leases' = Expire(leases)
    /\ stored' = ExpireStored

AnswerConflict(c) ==
    /\ InConflict(c)
    /\ ~req[c].wait
    /\ Settle(c, "conflict", "cancelled", Wanted(leases, Due(leases)))

(* It has its place already and sleeps again. *)
SleepAgain(c) ==
    /\ InConflict(c)
    /\ req[c].wait
    /\ c \in Queued(queue)
    /\ pc' = [pc EXCEPT ![c] = "asleep"]
    /\ Notify(Wanted(leases, Due(leases)))
    /\ UNCHANGED <<req, answer, said, line>>

EndedBy(o) == {req[d].resource : d \in o.ended}

SayDeadlock(o) ==
    [d \in Claims |-> IF d \in o.ended THEN Append(said[d], "deadlock")
                                       ELSE said[d]]

(* The ring is broken at an older wait, or there is none: take a place. *)
JoinQueue(c) ==
    /\ InConflict(c)
    /\ req[c].wait
    /\ c \notin Queued(queue)
    /\ \E o \in BreakRings(Expire(leases), queue, req[c]) :
          /\ ~o.refused
          /\ queue' = Join(Leave(queue, o.ended), c, WaiterOf(tickets, req[c]))
          /\ tickets' = tickets + 1
          /\ broken' = broken \cup o.ended
          /\ pc' = [pc EXCEPT ![c] = "asleep"]
          /\ said' = [SayDeadlock(o) EXCEPT ![c] = Append(@, "waiting")]
          /\ Notify(Wanted(leases, Due(leases)) \cup EndedBy(o))
    /\ UNCHANGED <<req, answer>>

(* The ring is broken at this claim: it is refused and never waits. *)
AnswerDeadlock(c) ==
    /\ InConflict(c)
    /\ req[c].wait
    /\ c \notin Queued(queue)
    /\ \E o \in BreakRings(Expire(leases), queue, req[c]) :
          /\ o.refused
          /\ queue' = Leave(queue, o.ended)
          /\ broken' = broken \cup o.ended
          /\ pc' = [pc EXCEPT ![c] = "answered"]
          /\ answer' = [answer EXCEPT ![c] = "deadlock"]
          /\ said' = [SayDeadlock(o) EXCEPT ![c] = Append(@, "deadlock")]
          /\ Notify(Wanted(leases, Due(leases)) \cup EndedBy(o)
                        \cup {req[c].resource})
    /\ UNCHANGED <<req, tickets>>

Attempt(c) ==
    /\ pc[c] = "attempt"
    /\ \/ (AnswerBroken(c) \/ AnswerRefused(c)) /\ UNCHANGED stored
       \/ AnswerGranted(c)
       \/ AnswerConflict(c)
       \/ SleepAgain(c)
       \/ JoinQueue(c)
       \/ AnswerDeadlock(c)
    /\ UNCHANGED <<failed, world, bundles, left>>

(* wait_for_release returns: an event, a receiver that lagged behind, or   *)
(* the deadline, which only counts when nothing is waiting to be read.     *)
Sleeping(c, next) ==
    /\ pc[c] = "asleep"
    /\ pc' = [pc EXCEPT ![c] = next]
    /\ UNCHANGED <<leases, disk, world, req, answer, said, line, bundles>>

Wake(c) ==
    /\ wake[c]
    /\ Sleeping(c, "woken")
    /\ wake' = [wake EXCEPT ![c] = FALSE]
    /\ UNCHANGED left

Lag(c) == ~wake[c] /\ Sleeping(c, "woken") /\ Spend("lag") /\ UNCHANGED wake

Deadline(c) == ~wake[c] /\ Sleeping(c, "late") /\ UNCHANGED <<wake, left>>

(* A plausible slip: the deadline looked at before the broken ring. *)
DecideLateFirst(c) ==
    /\ pc[c] \in {"woken", "late"}
    /\ UNCHANGED leases
    /\ IF pc[c] = "late" THEN Settle(c, "conflict", "timeout", {})
       ELSE IF c \in broken THEN Settle(c, "deadlock", "deadlock", {})
       ELSE IF fenced THEN Settle(c, "transferring", "cancelled", {})
       ELSE /\ pc' = [pc EXCEPT ![c] = "attempt"]
            /\ UNCHANGED <<req, wake, answer, said, line>>
    /\ UNCHANGED <<disk, world, bundles, left>>

(* The hold after the sleep: a broken ring first, then the deadline, then  *)
(* a transfer that refuses another attempt.                                *)
Decide(c) ==
    /\ pc[c] \in {"woken", "late"}
    /\ IF c \in broken
       THEN AnswerBroken(c)
       ELSE /\ UNCHANGED leases
            /\ IF pc[c] = "late" THEN Settle(c, "conflict", "timeout", {})
               ELSE IF fenced THEN Settle(c, "transferring", "cancelled", {})
               ELSE /\ pc' = [pc EXCEPT ![c] = "attempt"]
                    /\ UNCHANGED <<req, wake, answer, said, line>>
    /\ UNCHANGED <<disk, world, bundles, left>>

(* The client goes away: the future is dropped where it awaits, before the *)
(* first attempt or in its sleep, and its place with it (Waiting::drop).   *)
Disconnect(c) ==
    /\ \/ pc[c] = "asleep"
       \/ pc[c] = "attempt" /\ c \notin Queued(queue) \cup broken
    /\ Settle(c, "gone", "cancelled", {})
    /\ UNCHANGED <<leases, disk, world, bundles, left>>

(* The answer leaves; the request is over. *)
Respond(c) ==
    /\ pc[c] = "answered"
    /\ pc' = [pc EXCEPT ![c] = "idle"]
    /\ req' = [req EXCEPT ![c] = None]
    /\ answer' = [answer EXCEPT ![c] = "none"]
    /\ said' = [said EXCEPT ![c] = << >>]
    /\ UNCHANGED <<leases, disk, world, wake, line, bundles, left>>

-----------------------------------------------------------------------------
(* What holders do, and what happens to leases.                            *)

(* A plausible slip: the lease goes from memory and its row stays. *)
DropFromMemory(ids) ==
    /\ leases' = Remove(leases, ids)
    /\ UNCHANGED claims
    /\ Notify(Wanted(leases, ids))
    /\ UNCHANGED <<disk, line>>

(* State::finish_release and the lease part of State::mark_exited: the     *)
(* rows go in one transaction, then memory, then the events.               *)
Drop(ids) ==
    /\ leases' = Remove(leases, ids)
    /\ stored' = Remove(stored, ids)
    /\ UNCHANGED claims
    /\ Notify(Wanted(leases, ids))
    /\ UNCHANGED <<failed, line>>

Release(a, i) ==
    /\ Admitted
    /\ i \in ByHolder(leases, a)
    /\ Drop({i})
    /\ UNCHANGED <<world, bundles, left>>

ReleaseAll(a, onlyAutomatic) ==
    /\ Admitted
    /\ Releasable(leases, a, onlyAutomatic) # {}
    /\ Drop(Releasable(leases, a, onlyAutomatic))
    /\ UNCHANGED <<world, bundles, left>>

(* Renewal expires first, so a lease whose time has passed is gone.  With  *)
(* nothing due it moves an expiry and nothing this model tells apart.      *)
Renew(a, i) ==
    /\ Admitted
    /\ status[a] = "running"
    /\ i \in ByHolder(leases, a)
    /\ LET ok == ~leases[i].due
       IN  /\ leases' = IF ok THEN Renewed(Expire(leases), i) ELSE Expire(leases)
           /\ stored' = IF ok THEN Renewed(ExpireStored, i) ELSE ExpireStored
    /\ Due(leases) # {}
    /\ UNCHANGED claims
    /\ Notify(Wanted(leases, Due(leases)))
    /\ UNCHANGED <<failed, world, line, bundles, left>>

(* Time passes: a lease reaches its expires_at. *)
RunOut(i) ==
    /\ leases[i] # None
    /\ ~leases[i].due
    /\ leases' = [leases EXCEPT ![i].due = TRUE]
    /\ stored' = IF stored[i] = None THEN stored
                 ELSE [stored EXCEPT ![i].due = TRUE]
    /\ UNCHANGED <<failed, world, claims, wake, line, bundles, left>>

(* A plausible slip: the reaper does not look at the transfer. *)
ReapThroughFence ==
    /\ ~failed
    /\ Due(leases) # {}
    /\ Drop(Due(leases))
    /\ UNCHANGED <<world, bundles, left>>

(* State::expire_leases_at, run by the reaper every second: memory first,  *)
(* then one write per lease.  Skipped whole while fenced.                  *)
Reap ==
    /\ Admitted
    /\ Due(leases) # {}
    /\ Drop(Due(leases))
    /\ UNCHANGED <<world, bundles, left>>

(* The same, with a write that fails part of the way: the latch closes and *)
(* the rest are not tried.                                                 *)
ReapFails ==
    /\ Admitted
    /\ \E done \in SUBSET Due(leases) :
          /\ done # Due(leases)
          /\ leases' = Expire(leases)
          /\ stored' = Remove(stored, done)
          /\ UNCHANGED claims
          /\ Notify(Wanted(leases, done))
    /\ failed' = TRUE
    /\ Spend("failure")
    /\ UNCHANGED <<world, line, bundles>>

-----------------------------------------------------------------------------
(* Agents, the pause, handoffs.                                            *)

Live(a) == status[a] # "exited"

Stop(a) ==
    /\ Admitted
    /\ status[a] = "running"
    /\ Spend("exit")
    /\ status' = [status EXCEPT ![a] = "stopping"]
    /\ UNCHANGED <<leases, disk, fenced, paused, claims, wake, line, bundles>>

(* State::mark_exited: the record and its leases go in one transaction. *)
Exit(a) ==
    /\ Admitted
    /\ Live(a)
    /\ Spend("exit")
    /\ status' = [status EXCEPT ![a] = "exited"]
    /\ Drop(ByHolder(leases, a))
    /\ UNCHANGED <<fenced, paused, bundles>>

(* A finished agent's session is started again under its record. *)
Return(a) ==
    /\ Admitted
    /\ status[a] = "exited"
    /\ Spend("exit")
    /\ status' = [status EXCEPT ![a] = "running"]
    /\ UNCHANGED <<leases, disk, fenced, paused, claims, wake, line, bundles>>

Pause ==
    /\ Admitted
    /\ ~paused
    /\ Spend("pause")
    /\ paused' = TRUE
    /\ UNCHANGED <<leases, disk, status, fenced, claims, wake, line, bundles>>

Lift ==
    /\ Admitted
    /\ paused
    /\ paused' = FALSE
    /\ UNCHANGED <<leases, disk, status, fenced, claims, wake, line, bundles, left>>

(* A handoff that moves its leases reads what the sender holds, then lets  *)
(* go of the lock for the checkpoint ...                                   *)
Draft(h, a, b) ==
    /\ Admitted
    /\ bundles[h] = None
    /\ a # b
    /\ status[a] = "running"
    /\ Live(b)
    /\ bundles' = [bundles EXCEPT ![h] =
            [phase |-> "drafted", from |-> a, to |-> b, ids |-> ByHolder(leases, a)]]
    /\ UNCHANGED <<leases, disk, world, claims, wake, line, left>>

(* ... which needs the sender still running, and writes the bundle. *)
Send(h) ==
    /\ bundles[h] # None
    /\ bundles[h].phase = "drafted"
    /\ bundles' = [bundles EXCEPT ![h] =
            IF ~failed /\ status[bundles[h].from] = "running"
            THEN [@ EXCEPT !.phase = "sent"] ELSE None]
    /\ UNCHANGED <<leases, disk, world, claims, wake, line, left>>

(* A plausible slip: acceptance does not look at whether the recipient is  *)
(* still there.                                                            *)
AcceptForAnyone(h) ==
    /\ Admitted
    /\ bundles[h] # None
    /\ bundles[h].phase = "sent"
    /\ LET b == bundles[h]
       IN  /\ leases' = TransferSelected(leases, b.from, b.to, b.ids)
           /\ stored' = TransferSelected(stored, b.from, b.to,
                                         Movable(leases, b.from, b.ids))
           /\ bundles' = [bundles EXCEPT ![h].phase = "accepted",
                                         ![h].ids = {}]
    /\ UNCHANGED <<failed, world, claims, wake, line, left>>

(* Daemon::resume with acknowledge: the recipient takes the work over, and *)
(* with it the leases, in one transaction.  lease_transferred wakes nobody. *)
Accept(h) ==
    /\ Admitted
    /\ bundles[h] # None
    /\ bundles[h].phase = "sent"
    /\ LET b == bundles[h]
       IN  /\ status[b.to] = "running"
           /\ leases' = TransferSelected(leases, b.from, b.to, b.ids)
           /\ stored' = TransferSelected(stored, b.from, b.to,
                                         Movable(leases, b.from, b.ids))
           /\ bundles' = [bundles EXCEPT ![h].phase = "accepted",
                                         ![h].ids = {}]
    /\ UNCHANGED <<failed, world, claims, wake, line, left>>

-----------------------------------------------------------------------------
(* Storage, restart, transfer.                                             *)

(* A write of any request fails: State::persist latches the error, and     *)
(* State::commit applied and sent nothing.                                 *)
StoreFails ==
    /\ Admitted
    /\ Spend("failure")
    /\ failed' = TRUE
    /\ UNCHANGED <<leases, stored, world, claims, wake, line, bundles>>

(* A plausible slip: expired rows are loaded and left to the reaper. *)
LoadedExpired == Remove(stored, {i \in Held(stored) : ~Live(stored[i].holder)})

(* What a starting daemon takes from the database: it deletes leases whose *)
(* time has passed and those of agents that are gone, and refuses to start *)
(* on two that exclude each other.                                         *)
Loaded == Remove(stored, {i \in Held(stored) :
                            stored[i].due \/ ~Live(stored[i].holder)})

Loadable == \A i, j \in Held(Loaded) : ~Clash(Loaded[i], Loaded[j])

(* A new process loads what is in the database: the daemon had crashed or, *)
(* with an offer open, the successor accepted it (an offer that a crash    *)
(* leaves open is Handover's subject).  Waits are connection-scoped and    *)
(* lost.                                                                   *)
Restart ==
    /\ Spend("restart")
    /\ Loadable
    /\ leases' = Loaded
    /\ stored' = Loaded
    /\ failed' = FALSE
    /\ fenced' = FALSE
    /\ pc' = [c \in Claims |-> "idle"]
    /\ req' = [c \in Claims |-> None]
    /\ wake' = [c \in Claims |-> FALSE]
    /\ answer' = [c \in Claims |-> "none"]
    /\ said' = [c \in Claims |-> << >>]
    /\ queue' = EmptyQueue
    /\ tickets' = 0
    /\ broken' = {}
    /\ bundles' = [h \in Handoffs |->
            IF bundles[h] # None /\ bundles[h].phase = "drafted"
            THEN None ELSE bundles[h]]
    /\ UNCHANGED <<status, paused>>

(* State::in_flight: the admitted requests that may still write. *)
InFlight ==
    \/ \E c \in Claims : pc[c] \in {"attempt", "answered"}
    \/ \E h \in Handoffs : bundles[h] # None /\ bundles[h].phase = "drafted"

(* State::offer_transfer: refused while a write may still follow it. *)
Offer ==
    /\ Admitted
    /\ ~InFlight
    /\ Spend("transfer")
    /\ fenced' = TRUE
    /\ UNCHANGED <<leases, disk, status, paused, claims, wake, line, bundles>>

(* State::abort_transfer: the successor never accepted; serve again. *)
Abort ==
    /\ fenced
    /\ fenced' = FALSE
    /\ UNCHANGED <<leases, disk, status, paused, claims, wake, line, bundles, left>>

-----------------------------------------------------------------------------
ClaimStep(c) ==
    \/ \E q \in Asks[c] : Begin(c, q)
    \/ Attempt(c) \/ Wake(c) \/ Lag(c) \/ Deadline(c) \/ Decide(c)
    \/ Disconnect(c) \/ Respond(c)

HolderStep(a) ==
    \/ \E i \in LeaseIds : Release(a, i) \/ Renew(a, i)
    \/ \E o \in BOOLEAN : ReleaseAll(a, o)
    \/ Stop(a) \/ Exit(a) \/ Return(a)

HandoffStep(h) ==
    \/ \E a, b \in Agents : Draft(h, a, b)
    \/ Send(h) \/ Accept(h)

Next ==
    \/ \E c \in Claims : ClaimStep(c)
    \/ \E a \in Agents : HolderStep(a)
    \/ \E i \in LeaseIds : RunOut(i)
    \/ \E h \in Handoffs : HandoffStep(h)
    \/ Reap \/ ReapFails \/ Pause \/ Lift
    \/ StoreFails \/ Restart \/ Offer \/ Abort

Spec == Init /\ [][Next]_vars

(* Tasks that can run do run, the reaper ticks, and every lease runs out   *)
(* at last: no holder renews for ever.  Clients, agents and deadlines owe  *)
(* nothing.                                                                *)
Fairness ==
    /\ \A c \in Claims : /\ WF_vars(Attempt(c))
                         /\ WF_vars(Wake(c))
                         /\ WF_vars(Decide(c))
    /\ \A i \in LeaseIds : WF_vars(RunOut(i))
    /\ WF_vars(Reap)

FairSpec == Spec /\ Fairness

-----------------------------------------------------------------------------
(* Safety.                                                                 *)

(* What LeaseMode promises: while one agent holds a resource exclusively,  *)
(* nobody else holds any lease on an overlapping one.                      *)
Exclusive(t) ==
    \A i, j \in Held(t) : ~Clash(t[i], t[j])

MutualExclusion == Exclusive(leases)

(* What the code keeps: two leases that exclude each other are never held  *)
(* by different agents, in memory or in the database, unless one of them   *)
(* came by a handoff (held_since is set), whose acceptance checks nothing. *)
ExclusiveButHanded(t) ==
    \A i, j \in Held(t) : Clash(t[i], t[j]) => t[i].handed \/ t[j].handed

ExclusiveUnlessHanded ==
    ExclusiveButHanded(leases) /\ ExclusiveButHanded(stored)

(* Memory never protects what the database would lose: every lease served  *)
(* is stored as served, and the database holds more only after a failed    *)
(* expiry, and then only leases whose time has passed.  So a restart loses *)
(* no acknowledged lease and brings back none that was released.           *)
StoredAsServed ==
    \A i \in LeaseIds :
        /\ leases[i] # None => stored[i] = leases[i]
        /\ leases[i] = None /\ stored[i] # None => failed /\ stored[i].due

(* An agent that left holds nothing: what it held went in the transaction  *)
(* that recorded its exit, and no claim or handoff gives it more.          *)
LeaversHoldNothing ==
    \A i \in Held(leases) : Live(leases[i].holder)

(* A claim holds one place at most: it waits or its ring was broken, never *)
(* both, and one that has its answer has neither, so no later ring can     *)
(* pick it.  No two places are alike, so the order of service is total.    *)
OnePlace ==
    /\ broken \cap Queued(queue) = {}
    /\ \A c \in broken \cup Queued(queue) : pc[c] \in Subscribed
    /\ \A c, d \in Queued(queue) :
          queue[c].ticket = queue[d].ticket => c = d

(* No transfer was offered, by this process or by one before it. *)
NeverOffered == left["transfer"] = Budget["transfer"]

(* What may have been announced of a wait, by what it was answered. *)
Fits == [lease |-> {"claimed"}, conflict |-> {"timeout"},
         deadlock |-> {"deadlock"}, refused |-> {"cancelled"},
         transferring |-> {"cancelled"}, gone |-> {"cancelled", "deadlock"}]

SaidFits(c) ==
    \/ said[c] = << >>
    \/ said[c] = <<"deadlock">> /\ answer[c] = "deadlock"
    \/ \E outcome \in Fits[answer[c]] : said[c] = <<"waiting", outcome>>

(* Every wait that began ends in one announcement, and in the one that     *)
(* fits the answer: a victim answers deadlock and nothing else, and nobody *)
(* else is announced as one.  Nothing is said once storage has failed, nor *)
(* once a transfer was offered, behind which the end of a wait cannot be   *)
(* written.                                                                *)
EndSaidOnce ==
    ~failed /\ NeverOffered => \A c \in Claims :
        /\ c \in Queued(queue) => said[c] = <<"waiting">>
        /\ c \in broken => said[c] = <<"waiting", "deadlock">>
        /\ pc[c] = "answered" => SaidFits(c)

(* What keeps a claim from its turn. *)
Blocked(c) ==
    \/ InTheWay(leases, req[c]) # {}
    \/ ~IsNext(queue, c)

NothingHanded ==
    \A h \in Handoffs : bundles[h] # None => bundles[h].phase # "accepted"

(* Nobody sleeps through its turn: a claim asleep with no event to read    *)
(* still has a lease of another agent or a waiter ahead of it in its way,  *)
(* and its wait was not ended by another.  Two things do take a lease out  *)
(* of its way without an event that wakes it: a wait that ends behind the  *)
(* fence of a transfer, and a handoff to the very agent that waits.        *)
NoLostWakeup ==
    Admitted /\ NeverOffered /\ NothingHanded => \A c \in Claims :
        pc[c] = "asleep" /\ ~wake[c] => c \notin broken /\ Blocked(c)

(* An agent waits for another: a lease of the other is in the way of a     *)
(* wait of its own.                                                        *)
WaitsFor(a, b) ==
    \E c \in WaitsOf(queue, a) :
        \E i \in InTheWay(leases, queue[c]) : leases[i].holder = b

(* "An agent waits for one thing at a time -- a claim holds its            *)
(* connection" (wait.rs): each agent claims over one connection.  Nothing  *)
(* keeps it from opening another.                                          *)
OwnConnections ==
    \A c, d \in Claims : \A q \in Asks[c], p \in Asks[d] :
        q.agent = p.agent => c = d

(* No ring of waits stands: there are no agents each of which waits for    *)
(* what another of them holds.  Stated on the leases in the way and not on *)
(* the search that is to prevent it.  The search is made when a wait       *)
(* begins; an agent that is granted or handed a lease while it waits       *)
(* elsewhere can close a ring behind it.                                   *)
NoRing ==
    OwnConnections /\ NothingHanded =>
        \A S \in (SUBSET Agents) \ {{}} :
            \E a \in S : \A b \in S : ~WaitsFor(a, b)

(* While coordination is offered to a successor nothing here changes what  *)
(* it will load: no lease is written, dropped, moved or taken in memory    *)
(* alone.  Only time passes.                                               *)
Timeless(t) == [i \in LeaseIds |-> IF t[i] = None THEN None
                                   ELSE [t[i] EXCEPT !.due = FALSE]]

FencedStill ==
    [][fenced /\ fenced' => /\ Timeless(stored') = Timeless(stored)
                            /\ Timeless(leases') = Timeless(leases)]_vars

(* Every wait ends, even of a client that would wait for ever: the leases  *)
(* in its way run out, and the turn passes on until it is its own.         *)
WaitsEnd ==
    \A c \in Claims : c \in Queued(queue) ~> c \notin Queued(queue)

(* The locks behind the leases: without time, and without how they came. *)
Locks == [i \in LeaseIds |->
    IF leases[i] = None THEN None
    ELSE [holder |-> leases[i].holder, resource |-> leases[i].resource,
          mode |-> leases[i].mode]]

ASSUME LocksAssumption ==
    None \notin [holder : Agents, resource : Resources, mode : Modes]

Service == INSTANCE LockService WITH held <- Locks

(* The daemon is a lock service through all of it, claims that race, time, *)
(* handoffs, failing writes, crashes and transfers: no step of any of them *)
(* grants what is in another's way, and a restart only ever drops leases.  *)
LockServiceSpec == Service!Spec
=============================================================================
