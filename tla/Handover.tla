------------------------------ MODULE Handover ------------------------------
(***************************************************************************)
(* Live replacement of the daemon: who may write the database              *)
(* (crates/agentd/src/daemon/reload.rs, takeover.rs, lib.rs, the transfer  *)
(* row of store.rs and the coordination state of daemon.rs).               *)
(*                                                                         *)
(* Several daemon processes share one database, one lock file and one      *)
(* socket path.  A serving daemon offers coordination in the database's    *)
(* one transfer row, starts a successor, names it in the row and sends it  *)
(* the listener and the lock; the successor opens the database, accepts    *)
(* the offer and says that it serves, and the predecessor leaves.  Either  *)
(* may die at any step, a write may fail, the answer may come late, and    *)
(* the predecessor may be told to shut down in the middle of it.           *)
(***************************************************************************)
EXTENDS Naturals

CONSTANTS
    Procs,    \* process ids; none is used twice
    None,     \* no process
    Recovery, \* how many writes the recovery of an opening daemon may make
    Budget    \* how often each disturbance may happen

(* `any' bounds how many there may be of all kinds together. *)
Disturbances == {"crash", "failure", "write", "shutdown", "any"}

ASSUME NoneAssumption == None \notin Procs

ASSUME RecoveryAssumption == Recovery \subseteq Nat

ASSUME BudgetAssumption == Budget \in [Disturbances -> Nat]

VARIABLES
    row,    \* the coordinator row
    head,   \* the last event sequence number in the database
    path,   \* who bound the listener the socket path names
    pc,     \* what each process is doing
    lock,   \* it, or a message it has not read, holds the daemon lock
    ear,    \* who bound the listener it, or such a message, holds
    coord,  \* State::coordination
    offer,  \* the transfer that coordination, or the handover, is about
    next,   \* State::next_seq
    failed, \* State::storage_error is latched
    busy,   \* State::in_flight is not zero
    stage,  \* how far its reload is
    child,  \* the successor that reload started
    mail,   \* the transfer named in the handover sent to it
    reply,  \* what it answered to its predecessor
    told,   \* what its last reload answered
    left    \* what is left of Budget

vars == <<row, head, path, pc, lock, ear, coord, offer, next, failed, busy,
          stage, child, mail, reply, told, left>>

store   == <<row, head>>
memory  == <<coord, offer, next, failed, busy>>
fds     == <<path, lock, ear>>
channel == <<mail, reply>>
reload  == <<stage, child, told>>

(* The successor's way up, and an ordinary daemon's. *)
Successor == {"spawned", "received", "opened", "refused"}
Ordinary  == {"locked", "loaded"}
Running   == {"up", "stopping"}
Alive(p)  == pc[p] \notin {"unborn", "dead"}

Rows == [id : Nat, state : {"never", "offered", "accepted", "aborted"},
         successor : Procs \cup {None}]

TypeOK ==
    /\ row \in Rows
    /\ head \in Nat
    /\ path \in Procs \cup {None}
    /\ pc \in [Procs -> {"unborn", "ending", "dead"}
                            \cup Successor \cup Ordinary \cup Running]
    /\ lock \in [Procs -> BOOLEAN]
    /\ ear \in [Procs -> Procs \cup {None}]
    /\ coord \in [Procs -> {"none", "serving", "quiescing", "transferred"}]
    /\ offer \in [Procs -> Nat]
    /\ next \in [Procs -> Nat]
    /\ failed \in [Procs -> BOOLEAN]
    /\ busy \in [Procs -> BOOLEAN]
    /\ stage \in [Procs -> {"none", "offered", "spawned", "addressed",
                            "waiting", "looking", "killing", "aborting",
                            "done"}]
    /\ child \in [Procs -> Procs \cup {None}]
    /\ mail \in [Procs -> Nat]
    /\ reply \in [Procs -> {"none", "serving", "failed"}]
    /\ told \in [Procs -> {"none", "ok", "unavailable"}]
    /\ left \in [Disturbances -> Nat]

Init ==
    /\ row = [id |-> 0, state |-> "never", successor |-> None]
    /\ head = 0
    /\ path = None
    /\ pc = [p \in Procs |-> "unborn"]
    /\ lock = [p \in Procs |-> FALSE]
    /\ ear = [p \in Procs |-> None]
    /\ coord = [p \in Procs |-> "none"]
    /\ offer = [p \in Procs |-> 0]
    /\ next = [p \in Procs |-> 0]
    /\ failed = [p \in Procs |-> FALSE]
    /\ busy = [p \in Procs |-> FALSE]
    /\ stage = [p \in Procs |-> "none"]
    /\ child = [p \in Procs |-> None]
    /\ mail = [p \in Procs |-> 0]
    /\ reply = [p \in Procs |-> "none"]
    /\ told = [p \in Procs |-> "none"]
    /\ left = Budget

Spend(kind) ==
    /\ left[kind] > 0
    /\ left["any"] > 0
    /\ left' = [left EXCEPT ![kind] = @ - 1, !["any"] = @ - 1]

Fails == Spend("failure")

(* flock belongs to the open file: whoever has a descriptor of it keeps it *)
(* locked, as does a descriptor in a message that was not read yet.        *)
Locked == \E p \in Procs : lock[p]

(* A process is gone, and with it its descriptors, its unread messages and *)
(* its reload; what it wrote to its predecessor can still be read.         *)
Gone(p) ==
    /\ pc' = [pc EXCEPT ![p] = "dead"]
    /\ lock' = [lock EXCEPT ![p] = FALSE]
    /\ ear' = [ear EXCEPT ![p] = None]
    /\ coord' = [coord EXCEPT ![p] = "none"]
    /\ next' = [next EXCEPT ![p] = 0]
    /\ failed' = [failed EXCEPT ![p] = FALSE]
    /\ busy' = [busy EXCEPT ![p] = FALSE]
    /\ UNCHANGED <<offer, channel>>

(* One transaction that appends n events, made with the sequence numbers   *)
(* this process keeps.                                                     *)
Commit(p, n) ==
    /\ head' = head + n
    /\ next' = [next EXCEPT ![p] = @ + n]

Move(p, from, to) == pc[p] = from /\ pc' = [pc EXCEPT ![p] = to]

-----------------------------------------------------------------------------
(* An ordinary daemon.                                                     *)

(* A plausible slip: the lock is not looked at. *)
StartAnyway(p) ==
    /\ Move(p, "unborn", "locked")
    /\ lock' = [lock EXCEPT ![p] = TRUE]
    /\ UNCHANGED <<store, path, ear, memory, reload, channel, left>>

(* serve: it takes the lock, or finds it taken and is gone again. *)
Start(p) ==
    /\ Move(p, "unborn", "locked")
    /\ ~Locked
    /\ lock' = [lock EXCEPT ![p] = TRUE]
    /\ UNCHANGED <<store, path, ear, memory, reload, channel, left>>

(* A plausible slip: an offer in the database is not looked at. *)
LoadUnfenced(p, n) ==
    /\ next' = [next EXCEPT ![p] = head + n + 1]
    /\ coord' = [coord EXCEPT ![p] = "serving"]
    /\ offer' = offer
    /\ head' = head + n

(* Daemon::with_store: memory and the sequence come from the database.     *)
(* With an offer open the process starts fenced and holds its n recovery   *)
(* writes back; otherwise they are made now.                               *)
Load(p, n) ==
    IF row.state = "offered"
    THEN /\ coord' = [coord EXCEPT ![p] = "quiescing"]
         /\ offer' = [offer EXCEPT ![p] = row.id]
         /\ next' = [next EXCEPT ![p] = head + 1]
         /\ head' = head
    ELSE /\ coord' = [coord EXCEPT ![p] = "serving"]
         /\ next' = [next EXCEPT ![p] = head + n + 1]
         /\ head' = head + n
         /\ offer' = offer

Open(p) ==
    /\ Move(p, "locked", "loaded")
    /\ \E n \in Recovery : Load(p, n)
    /\ UNCHANGED <<row, fds, failed, busy, reload, channel, left>>

(* server::bind: a path nobody listens on is bound anew. *)
Bind(p) ==
    /\ Move(p, "loaded", "up")
    /\ \A q \in Procs : path # None => ear[q] # path
    /\ path' = p
    /\ ear' = [ear EXCEPT ![p] = p]
    /\ UNCHANGED <<store, lock, memory, reload, channel, left>>

-----------------------------------------------------------------------------
(* A running daemon.                                                       *)

Serves(p) == coord[p] = "serving" /\ ~failed[p]

(* A mutating request is admitted and counted, and is over.                *)
Admit(p) ==
    /\ pc[p] \in Running
    /\ Serves(p)
    /\ ~busy[p]
    /\ busy' = [busy EXCEPT ![p] = TRUE]
    /\ UNCHANGED <<store, fds, pc, coord, offer, next, failed, reload,
                   channel, left>>

Finish(p) ==
    /\ busy[p]
    /\ busy' = [busy EXCEPT ![p] = FALSE]
    /\ UNCHANGED <<store, fds, pc, coord, offer, next, failed, reload,
                   channel, left>>

(* State::commit, of a request or of a tick. *)
Write(p) ==
    /\ pc[p] \in Running
    /\ Serves(p)
    /\ Spend("write")
    /\ Commit(p, 1)
    /\ UNCHANGED <<row, fds, pc, coord, offer, failed, busy, reload, channel>>

(* State::persist latches a write that failed. *)
WriteFails(p) ==
    /\ pc[p] \in Running
    /\ Serves(p)
    /\ Fails
    /\ failed' = [failed EXCEPT ![p] = TRUE]
    /\ UNCHANGED <<store, fds, pc, coord, offer, next, busy, reload, channel>>

(* Killed, or ended by an error on its way up. *)
Crash(p) ==
    /\ Alive(p)
    /\ Spend("crash")
    /\ Gone(p)
    /\ stage' = [stage EXCEPT ![p] = "none"]
    /\ UNCHANGED <<store, path, child, told>>

(* A signal or a shutdown request ends the select of `serve'; requests in  *)
(* progress, a reload among them, go on while stop_all runs ...            *)
Shutdown(p) ==
    /\ Move(p, "up", "stopping")
    /\ Spend("shutdown")
    /\ UNCHANGED <<store, fds, memory, reload, channel>>

(* ... then the socket path is removed, whoever bound it, ... *)
Unlink(p) ==
    /\ Move(p, "stopping", "ending")
    /\ path' = None
    /\ UNCHANGED <<store, lock, ear, memory, reload, channel, left>>

(* ... and the process ends, dropping a reload where it awaits. *)
End(p) ==
    /\ pc[p] = "ending"
    /\ stage[p] \in {"none", "waiting", "done"}
    /\ Gone(p)
    /\ stage' = [stage EXCEPT ![p] = "none"]
    /\ UNCHANGED <<store, path, child, told, left>>

-----------------------------------------------------------------------------
(* Daemon::hand_over and replace: the predecessor.                         *)

Stage(p, from, to) == stage[p] = from /\ stage' = [stage EXCEPT ![p] = to]

Mine(p) == row.id = offer[p] /\ row.state = "offered"

(* The offer names this very process until there is a successor.  Bound: a *)
(* process id must be left for one.                                        *)
Offer(p) ==
    /\ pc[p] \in Running
    /\ Serves(p)
    /\ ~busy[p]
    /\ row.state # "offered"
    /\ \E c \in Procs : pc[c] = "unborn"
    /\ Stage(p, "none", "offered")
    /\ row' = [id |-> row.id + 1, state |-> "offered", successor |-> p]
    /\ Commit(p, 1)
    /\ coord' = [coord EXCEPT ![p] = "quiescing"]
    /\ offer' = [offer EXCEPT ![p] = row.id + 1]
    /\ child' = [child EXCEPT ![p] = None]
    /\ told' = [told EXCEPT ![p] = "none"]
    /\ UNCHANGED <<fds, pc, failed, busy, channel, left>>

Spawn(p) ==
    /\ Stage(p, "offered", "spawned")
    /\ \E c \in Procs :
          /\ Move(c, "unborn", "spawned")
          /\ child' = [child EXCEPT ![p] = c]
    /\ UNCHANGED <<store, fds, memory, told, channel, left>>

SpawnFails(p) ==
    /\ Stage(p, "offered", "aborting")
    /\ Fails
    /\ UNCHANGED <<store, fds, pc, memory, child, told, channel>>

(* State::readdress_offer *)
Readdress(p) ==
    /\ Stage(p, "spawned", "addressed")
    /\ Mine(p)
    /\ row' = [row EXCEPT !.successor = child[p]]
    /\ Commit(p, 1)
    /\ UNCHANGED <<fds, pc, coord, offer, failed, busy, child, told, channel,
                   left>>

ReaddressFails(p) ==
    /\ Stage(p, "spawned", "killing")
    /\ IF Mine(p) THEN Fails ELSE UNCHANGED left
    /\ UNCHANGED <<store, fds, pc, memory, child, told, channel>>

(* The handover: the transfer's id, the listener and the lock. *)
Post(p) ==
    /\ mail' = [mail EXCEPT ![child[p]] = offer[p]]
    /\ lock' = [lock EXCEPT ![child[p]] = TRUE]
    /\ ear' = [ear EXCEPT ![child[p]] = ear[p]]

(* The plausible slip the module's comment tells of: success is reported   *)
(* when the descriptors are sent.                                          *)
SendAndGo(p) ==
    /\ Stage(p, "addressed", "done")
    /\ Alive(child[p])
    /\ Post(p)
    /\ told' = [told EXCEPT ![p] = "ok"]
    /\ UNCHANGED <<store, path, pc, memory, child, reply, left>>

Send(p) ==
    /\ Stage(p, "addressed", "waiting")
    /\ Alive(child[p])
    /\ Post(p)
    /\ UNCHANGED <<store, path, pc, memory, child, told, reply, left>>

SendFails(p) ==
    /\ Stage(p, "addressed", "killing")
    /\ ~Alive(child[p])
    /\ UNCHANGED <<store, fds, pc, memory, child, told, channel, left>>

(* await_ready: only this answer lets the predecessor go. *)
HearServing(p) ==
    /\ Stage(p, "waiting", "done")
    /\ reply[child[p]] = "serving"
    /\ told' = [told EXCEPT ![p] = "ok"]
    /\ UNCHANGED <<store, fds, pc, memory, child, channel, left>>

(* A plausible slip: there is no deadline. *)
HearNothingForEver(p) ==
    /\ Stage(p, "waiting", "looking")
    /\ reply[child[p]] # "serving"
    /\ reply[child[p]] = "failed" \/ ~Alive(child[p])
    /\ UNCHANGED <<store, fds, pc, memory, child, told, channel, left>>

(* A refusal, the end of the stream, or the deadline. *)
HearNothing(p) ==
    /\ Stage(p, "waiting", "looking")
    /\ UNCHANGED <<store, fds, pc, memory, child, told, channel, left>>

Accepted(p) == row.id = offer[p] /\ row.state = "accepted"

(* The store says the successor accepted: leave.  If it says anything else *)
(* or cannot be read, take authority back.                                 *)
LookAccepted(p) ==
    /\ Accepted(p)
    /\ Stage(p, "looking", "done")
    /\ told' = [told EXCEPT ![p] = "ok"]
    /\ UNCHANGED <<store, fds, pc, memory, child, channel, left>>

LookOffered(p) ==
    /\ Stage(p, "looking", "killing")
    /\ IF Accepted(p) THEN Fails ELSE UNCHANGED left
    /\ UNCHANGED <<store, fds, pc, memory, child, told, channel>>

(* kill_child: whatever it has become. *)
Kill(p) ==
    /\ stage[p] = "killing"
    /\ stage' = [stage EXCEPT ![p] = "aborting", ![child[p]] = "none"]
    /\ IF Alive(child[p]) THEN Gone(child[p])
       ELSE UNCHANGED <<pc, lock, ear, memory, channel>>
    /\ UNCHANGED <<store, path, child, told, left>>

Unavailable(p) ==
    /\ Stage(p, "aborting", "none")
    /\ told' = [told EXCEPT ![p] = "unavailable"]

(* State::abort_transfer: the offer is withdrawn and writing resumes, or   *)
(* the successor had accepted and this process stays fenced ...            *)
Abort(p) ==
    /\ Unavailable(p)
    /\ IF Mine(p)
       THEN /\ row' = [row EXCEPT !.state = "aborted"]
            /\ Commit(p, 1)
            /\ coord' = [coord EXCEPT ![p] = "serving"]
       ELSE /\ coord' = [coord EXCEPT ![p] = "transferred"]
            /\ UNCHANGED <<store, next>>
    /\ UNCHANGED <<fds, pc, offer, failed, busy, child, channel, left>>

(* ... or the abort cannot be written, and it stays fenced as well. *)
AbortFails(p) ==
    /\ Unavailable(p)
    /\ Fails
    /\ UNCHANGED <<store, fds, pc, memory, child, channel>>

(* A plausible slip: the predecessor cleans up as if it had shut down. *)
LeaveUnlinking(p) ==
    /\ pc[p] = "up"
    /\ Stage(p, "done", "none")
    /\ Gone(p)
    /\ path' = None
    /\ UNCHANGED <<store, child, told, left>>

(* transferred_exit: without touching agents, socket or lock. *)
Leave(p) ==
    /\ pc[p] = "up"
    /\ Stage(p, "done", "none")
    /\ Gone(p)
    /\ UNCHANGED <<store, path, child, told, left>>

-----------------------------------------------------------------------------
(* The successor.                                                          *)

(* takeover::receive, from the predecessor's end of the socket ... *)
Receive(c) ==
    /\ mail[c] # 0
    /\ Move(c, "spawned", "received")
    /\ UNCHANGED <<store, fds, memory, reload, channel, left>>

(* ... which closed before anything came. *)
ReceiveEnds(c) ==
    /\ pc[c] = "spawned"
    /\ mail[c] = 0
    /\ \A p \in Procs : child[p] = c => ~Alive(p)
    /\ Gone(c)
    /\ UNCHANGED <<store, path, reload, left>>

(* Daemon::open_pending *)
OpenPending(c) ==
    /\ Move(c, "received", "opened")
    /\ \E n \in Recovery : Load(c, n)
    /\ UNCHANGED <<row, fds, failed, busy, reload, channel, left>>

CanAccept(c) ==
    row.id = mail[c] /\ row.state = "offered" /\ row.successor = c

(* Daemon::accept_transfer: the row, then the n recovery writes held back  *)
(* at open, of which one may fail after k that landed.                     *)
Accept(c) ==
    /\ Move(c, "opened", "up")
    /\ CanAccept(c)
    /\ row' = [row EXCEPT !.state = "accepted"]
    /\ coord' = [coord EXCEPT ![c] = "serving"]
    /\ \/ /\ \E n \in Recovery : Commit(c, 1 + n)
          /\ UNCHANGED <<failed, left>>
       \/ /\ \E n \in Recovery : \E k \in 0..n : k < n /\ Commit(c, 1 + k)
          /\ Fails
          /\ failed' = [failed EXCEPT ![c] = TRUE]
    /\ UNCHANGED <<fds, offer, busy, reload, channel>>

AcceptRefused(c) ==
    /\ Move(c, "opened", "refused")
    /\ IF CanAccept(c) THEN Fails ELSE UNCHANGED left
    /\ UNCHANGED <<store, fds, memory, reload, channel>>

(* The answer on the predecessor's socket. *)
Answer(c, word) ==
    /\ mail[c] # 0
    /\ reply[c] = "none"
    /\ reply' = [reply EXCEPT ![c] = word]
    /\ UNCHANGED <<store, fds, pc, memory, reload, mail, left>>

AnswerServing(c) == pc[c] = "up" /\ Answer(c, "serving")

AnswerFailed(c) == pc[c] = "refused" /\ Answer(c, "failed")

GiveUp(c) ==
    /\ pc[c] = "refused"
    /\ reply[c] = "failed"
    /\ Gone(c)
    /\ UNCHANGED <<store, path, reload, left>>

-----------------------------------------------------------------------------
StartStep(p) == Start(p) \/ Open(p) \/ Bind(p)

RunStep(p) ==
    \/ Admit(p) \/ Finish(p) \/ Write(p) \/ WriteFails(p)
    \/ Crash(p) \/ Shutdown(p)

StopStep(p) == Unlink(p) \/ End(p) \/ Leave(p)

ReloadStep(p) ==
    \/ Spawn(p) \/ SpawnFails(p) \/ Readdress(p) \/ ReaddressFails(p)
    \/ Send(p) \/ SendFails(p) \/ HearServing(p) \/ HearNothing(p)
    \/ LookAccepted(p) \/ LookOffered(p) \/ Kill(p)
    \/ Abort(p) \/ AbortFails(p)

SuccessorStep(c) ==
    \/ Receive(c) \/ ReceiveEnds(c) \/ OpenPending(c)
    \/ Accept(c) \/ AcceptRefused(c)
    \/ AnswerServing(c) \/ AnswerFailed(c) \/ GiveUp(c)

Next ==
    \E p \in Procs :
        \/ StartStep(p) \/ RunStep(p) \/ StopStep(p)
        \/ Offer(p) \/ ReloadStep(p) \/ SuccessorStep(p)

Spec == Init /\ [][Next]_vars

(* A reload in progress and a shutdown run on, and the deadline of         *)
(* await_ready passes.  A successor may hang wherever it is.               *)
Fairness == \A p \in Procs : WF_vars(ReloadStep(p)) /\ WF_vars(StopStep(p))

FairSpec == Spec /\ Fairness

(* Successors run on as well, and a daemon is started when there is none. *)
SupervisedSpec ==
    /\ FairSpec
    /\ \A p \in Procs : WF_vars(SuccessorStep(p)) /\ WF_vars(StartStep(p))

-----------------------------------------------------------------------------
(* Two coordinators never both write: at most one process is past the      *)
(* fence, whatever died, was sent or was settled in between.               *)
OneWriter ==
    \A p, q \in Procs : coord[p] = "serving" /\ coord[q] = "serving" => p = q

(* Whoever may write has seen every write: its next sequence number        *)
(* follows the last one in the database, so that no event is lost, written *)
(* over or skipped across an offer, an abort, a takeover or a restart.     *)
Coherent ==
    \A p \in Procs : coord[p] = "serving" => next[p] = head + 1

(* A daemon that serves and was not told to stop is found on the socket:   *)
(* the path names the listener it holds, however often the listener was    *)
(* handed on and whoever died meanwhile.  Nothing is said once a daemon    *)
(* was told to stop: in the middle of its reload it removes the path that  *)
(* its successor is to be found on (Unlink).                               *)
Reachable ==
    left["shutdown"] = Budget["shutdown"] => \A p \in Procs :
        pc[p] = "up" /\ coord[p] = "serving" => path = ear[p]

(* The predecessor stays responsible: a reload answers ok, and its daemon  *)
(* leaves, only when the offer was taken up, never while it is open or     *)
(* withdrawn.                                                              *)
Ceded ==
    \A p \in Procs :
        told[p] = "ok" => row.id # offer[p] \/ row.state = "accepted"

(* Every reload comes to an end, whatever its successor does. *)
ReloadEnds == \A p \in Procs : stage[p] # "none" ~> stage[p] = "none"

(* Every offer is settled: accepted, or taken back. *)
OffersSettle == row.state = "offered" ~> row.state # "offered"
=============================================================================
