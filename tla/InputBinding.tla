---------------------------- MODULE InputBinding ----------------------------
(***************************************************************************)
(* One controller as the sole consumer of a session's queue                *)
(* (crates/agentd/src/daemon/binding.rs, inbox.rs and ControllerRestart in *)
(* crates/core/src/input.rs).                                              *)
(*                                                                         *)
(* The records are those of one thread of one profile: each time its       *)
(* session comes back as a new process it registers anew.  A controller    *)
(* binds to a record and its queue is the controller's from then on; when  *)
(* the controller ends the daemon starts it again.  Once a second the tick *)
(* looks at the processes without the lock and decides on a step, and it   *)
(* carries the step out in a later hold, if the binding is still the one   *)
(* it looked at.  In between controllers bind, release, die, are upgraded  *)
(* and retried, the session dies and comes back, readers read, writes fail *)
(* and the daemon is killed or replaced.                                   *)
(*                                                                         *)
(* Time is abstracted: a backoff is over when the look is made, and `age'  *)
(* says which of the two deadlines of a launch or an upgrade have passed.  *)
(***************************************************************************)
EXTENDS Naturals

CONSTANTS
    Records,         \* agent records of the thread, as they register
    Procs,           \* controller processes
    Messages,        \* messages to the thread
    MaxAttempts,     \* CONTROLLER_RESTARTS
    Disturbances,    \* the disturbances that happen
    MaxDisturbances, \* how many of them, altogether
    None

Kinds == {"retry", "spawn", "failure", "restart", "killed", "transfer"}

Binding == [controller : Procs, launch : {None, "old", "new"}, upgrade : BOOLEAN,
            attempts : 0..MaxAttempts, launched : Procs \cup {None},
            ended : BOOLEAN, exhausted : BOOLEAN, uncertain : SUBSET Messages]

Decision == [record : Records, kill : BOOLEAN, target : Procs \cup {None},
             step : {"upgrade", "ended", "exhausted", "terminate", "launch"}]

ASSUME BindingAssumption ==
    /\ Records \subseteq Nat /\ MaxAttempts \in Nat \ {0} /\ MaxDisturbances \in Nat
    /\ Disturbances \subseteq Kinds
    /\ None \notin Records \cup Procs \cup Binding \cup Decision \cup {"old", "new"}

VARIABLES
    provider,  \* the session's process, of each record
    binding,   \* AgentRecord::input_binding
    age,       \* 0: in its grace, 1: to be told to stop, 2: to be killed
    alive,     \* the controller processes that run
    told,      \* those that were sent SIGTERM
    unbound,   \* those the daemon launched that have not bound yet
    lost,      \* those whose daemon died before it had recorded them
    look,      \* what the tick decided and has not done yet
    queue,     \* what is queued for each record
    offers,    \* AgentRecord::legacy_offers
    shown,     \* what a legacy reader was answered with and is still queued
    mode,      \* "ok"; "failed": storage_error; "fenced": a transfer is offered
    left       \* how many disturbances are still to come

os    == <<alive, told, unbound, lost>>
mail  == <<queue, offers, shown>>
world == <<mode, left>>
vars  == <<provider, binding, age, os, look, mail, world>>

Init ==
    /\ provider = [r \in Records |-> "none"]
    /\ binding = [r \in Records |-> None]
    /\ age = [r \in Records |-> 0]
    /\ alive = {} /\ told = {} /\ unbound = {} /\ lost = {}
    /\ look = None
    /\ queue = [r \in Records |-> {}]
    /\ offers = [r \in Records |-> {}]
    /\ shown = [r \in Records |-> {}]
    /\ mode = "ok"
    /\ left = MaxDisturbances

Spend(d) == d \in Disturbances /\ left > 0 /\ left' = left - 1

(* Requests that change something are refused after a failed write and     *)
(* while a transfer is offered; the tick stops only at the fence.          *)
Admitted == mode = "ok"
Ticking  == mode # "fenced"

Fails == Admitted /\ Spend("failure") /\ mode' = "failed"

-----------------------------------------------------------------------------
(* Processes.                                                              *)

Bound == {r \in Records : binding[r] # None}

Named(p) == \E r \in Bound : p \in {binding[r].controller, binding[r].launched}

(* A process starts, and by whom.  An identity is a pid and a birth and    *)
(* never comes back; the model's come back when no binding names them, as  *)
(* if the process before had ended.                                        *)
Starts(p, by) ==
    /\ ~Named(p)
    /\ alive' = alive \cup {p}
    /\ unbound' = IF by = "hook" THEN unbound \ {p} ELSE unbound \cup {p}
    /\ told' = IF by = "failing" THEN told \cup {p} ELSE told \ {p}
    /\ lost' = IF by = "killed" THEN lost \cup {p} ELSE lost \ {p}

(* By its runtime's own hook, or by hand.  Bound: one at a time.           *)
HookStarts(p) ==
    /\ Starts(p, "hook")
    /\ \A q \in alive : Named(q) \/ q \in told
    /\ UNCHANGED <<provider, binding, age, look, mail, world>>

Gone(p) ==
    /\ alive' = alive \ {p}
    /\ told' = told \ {p}
    /\ unbound' = unbound \ {p}
    /\ lost' = lost \ {p}

Dies(p) ==
    /\ p \in alive
    /\ Gone(p)
    /\ UNCHANGED <<provider, binding, age, look, mail, world>>

(* The session registers, comes back when it had ended, and ends. *)
Registers(r) ==
    /\ Admitted /\ provider[r] = "none"
    /\ \A s \in Records : provider[s] # "alive" /\ (s < r => provider[s] # "none")
    /\ provider' = [provider EXCEPT ![r] = "alive"]
    /\ UNCHANGED <<binding, age, os, look, mail, world>>

SessionEnds(r) ==
    /\ provider[r] = "alive"
    /\ provider' = [provider EXCEPT ![r] = "dead"]
    /\ UNCHANGED <<binding, age, os, look, mail, world>>

(* binding::signal: only to a process that is still the one named. *)
SigTerm(p) == told' = IF p \in alive THEN told \cup {p} ELSE told

-----------------------------------------------------------------------------
(* Requests.                                                               *)

(* A plausible slip: the step is carried out on whatever is there now. *)
RecheckNothing(r) == look

(* A step that was decided on another binding is not carried out. *)
Recheck(r) == IF look # None /\ look.record = r THEN None ELSE look

(* A transition of one record's binding; its deadlines start over. *)
Binds(r, b) ==
    /\ binding' = [binding EXCEPT ![r] = b]
    /\ age' = [age EXCEPT ![r] = 0]
    /\ look' = Recheck(r)

(* InputBinding::note_controller_bound *)
NoteControllerBound(b, p) ==
    [b EXCEPT !.controller = p, !.upgrade = FALSE, !.launched = None, !.ended = FALSE,
              !.attempts = IF b.launched = p THEN @ ELSE 0,
              !.exhausted = IF b.launched = p THEN @ ELSE FALSE]

FirstBinding(r, p, launch) ==
    [controller |-> p, launch |-> launch, upgrade |-> FALSE, attempts |-> 0,
     launched |-> None, ended |-> FALSE, exhausted |-> FALSE, uncertain |-> offers[r]]

(* Who would have to let go first: another record of the thread, or a      *)
(* controller that runs.                                                   *)
CanBind(r, p) ==
    /\ Admitted /\ provider[r] = "alive" /\ p \in alive
    /\ Bound \subseteq {r}
    /\ r \in Bound => binding[r].controller \notin alive

(* bind_input: a launched process that was overtaken is told to stop       *)
(* before the binding is written, and stays so when it cannot be.          *)
Bind(r, p, launch) ==
    LET b == IF r \in Bound THEN NoteControllerBound(binding[r], p)
             ELSE FirstBinding(r, p, launch)
        over == IF r \in Bound /\ binding[r].launched # p THEN binding[r].launched
                ELSE None
    IN  /\ CanBind(r, p)
        /\ SigTerm(over)
        /\ \/ /\ Binds(r, [b EXCEPT !.uncertain = @ \cap queue[r]])
              /\ unbound' = unbound \ {p}
              /\ lost' = lost \ {p}
              /\ UNCHANGED world
           \/ Fails /\ UNCHANGED <<binding, age, look, unbound, lost>>
        /\ UNCHANGED <<provider, alive, mail>>

(* unbind_input: by the controller's token, or by force once it has ended. *)
Unbind(r) ==
    /\ Admitted /\ r \in Bound
    /\ Binds(r, None)
    /\ SigTerm(binding[r].launched)
    /\ UNCHANGED <<provider, alive, unbound, lost, mail, world>>

(* upgrade_controller: another executable in the descriptor, and the       *)
(* intent to stop the process that runs the old one.                       *)
Upgrade(r) ==
    /\ Admitted /\ r \in Bound /\ provider[r] = "alive"
    /\ binding[r].launch = "old" /\ binding[r].launched \notin alive
    /\ Binds(r, [binding[r] EXCEPT !.launch = "new", !.upgrade = TRUE, !.attempts = 0,
                                   !.launched = None, !.ended = FALSE,
                                   !.exhausted = FALSE])
    /\ UNCHANGED <<provider, os, mail, world>>

(* A plausible slip: only the bound controller is looked at. *)
RetryAnyway(r) ==
    /\ Admitted /\ r \in Bound /\ Spend("retry")
    /\ binding[r].launch # None
    /\ binding[r].controller \notin alive
    /\ Binds(r, [binding[r] EXCEPT !.attempts = 0, !.exhausted = FALSE,
                                   !.launched = None, !.ended = TRUE])
    /\ UNCHANGED <<provider, os, mail, mode>>

(* retry_controller: the episode starts over. *)
Retry(r) ==
    /\ Admitted /\ r \in Bound /\ Spend("retry")
    /\ binding[r].launch # None
    /\ binding[r].controller \notin alive /\ binding[r].launched \notin alive
    /\ Binds(r, [binding[r] EXCEPT !.attempts = 0, !.exhausted = FALSE,
                                   !.launched = None, !.ended = TRUE])
    /\ UNCHANGED <<provider, os, mail, mode>>

(* A plausible slip: what the caller's readers were shown is left behind. *)
ResumedForgetting(r, s, launch) ==
    [binding[s] EXCEPT !.launch = launch, !.upgrade = FALSE, !.attempts = 0,
                       !.launched = None, !.ended = TRUE, !.exhausted = FALSE]

(* The binding of s on the generation of r. *)
Resumed(r, s, launch) ==
    [binding[s] EXCEPT !.launch = launch, !.upgrade = FALSE, !.attempts = 0,
                       !.launched = None, !.ended = TRUE, !.exhausted = FALSE,
                       !.uncertain = (@ \cup offers[r]) \cap (queue[r] \cup queue[s])]

(* resume_input: the session that came back as r takes over the record s   *)
(* of the process that ended, with its queue and its binding.              *)
Resume(r, s, launch) ==
    /\ Admitted /\ provider[r] = "alive" /\ r \notin Bound
    /\ s # r /\ Bound = {s} /\ provider[s] # "alive"
    /\ binding[s].controller \notin alive /\ binding[s].launched \notin alive
    /\ Binds(s, Resumed(r, s, launch))
    /\ provider' = [provider EXCEPT ![s] = "alive", ![r] = "retired"]
    /\ queue' = [queue EXCEPT ![s] = @ \cup queue[r], ![r] = {}]
    /\ offers' = [offers EXCEPT ![s] = @ \cup offers[r], ![r] = {}]
    /\ shown' = [shown EXCEPT ![s] = @ \cup shown[r], ![r] = {}]
    /\ UNCHANGED <<os, world>>

-----------------------------------------------------------------------------
(* The tick (tend_controllers).                                            *)

(* A plausible slip: one launch too many. *)
UsedUpLate(b) == b.attempts > MaxAttempts

UsedUp(b) == b.attempts >= MaxAttempts

(* InputBinding::controller_step, Keep aside: the steps a look can decide. *)
ControllerStep(r) ==
    LET b == binding[r]
        running == b.controller \in alive
        starting == ~running /\ b.launched # None
        idle == ~running /\ b.launched = None /\ b.ended
                /\ b.launch # None /\ ~b.exhausted /\ provider[r] = "alive"
    IN  {s \in {"upgrade", "ended", "exhausted", "terminate", "launch"} :
            \/ s = "upgrade" /\ running /\ b.upgrade
            \/ s = "ended" /\ starting /\ b.launched \notin alive
            \/ s = "ended" /\ ~running /\ b.launched = None /\ ~b.ended
            \/ s = "terminate" /\ starting /\ b.launched \in alive /\ age[r] > 0
            \/ s = "exhausted" /\ idle /\ UsedUp(b)
            \/ s = "launch" /\ idle /\ ~UsedUp(b)}

(* Without the lock. *)
Look(r) ==
    /\ Ticking /\ look = None /\ r \in Bound
    /\ \E s \in ControllerStep(r) :
          look' = [record |-> r, step |-> s, kill |-> age[r] = 2,
                   target |-> IF s = "upgrade" THEN binding[r].controller
                                               ELSE binding[r].launched]
    /\ UNCHANGED <<provider, binding, age, os, mail, world>>

Ages(r) ==
    /\ r \in Bound /\ age[r] < 2
    /\ binding[r].upgrade \/ binding[r].launched # None
    /\ age' = [age EXCEPT ![r] = @ + 1]
    /\ UNCHANGED <<provider, binding, os, look, mail, world>>

(* What was decided is carried out now. *)
Doing(r, s) ==
    /\ Ticking /\ r \in Bound
    /\ look # None /\ look.record = r /\ look.step = s

(* The bound controller is stopped for an upgrade, or a launched process   *)
(* that did not bind in time.                                              *)
Stop(r) ==
    /\ Doing(r, "upgrade") \/ Doing(r, "terminate")
    /\ IF look.kill THEN Gone(look.target)
       ELSE SigTerm(look.target) /\ UNCHANGED <<alive, unbound, lost>>
    /\ look' = None
    /\ UNCHANGED <<provider, binding, age, mail, world>>

(* InputBinding::note_controller_ended: a controller that had been bound   *)
(* for a while starts the episode over.                                    *)
NoteControllerEnded(b, stable) ==
    [b EXCEPT !.upgrade = FALSE, !.launched = None, !.ended = TRUE,
              !.attempts = IF stable THEN 0 ELSE @,
              !.exhausted = IF stable THEN FALSE ELSE @]

NoteEnded(r) ==
    /\ Doing(r, "ended") /\ Admitted
    /\ \E stable \in BOOLEAN :
          /\ stable => binding[r].launched = None
          /\ Binds(r, NoteControllerEnded(binding[r], stable))
    /\ UNCHANGED <<provider, os, mail, world>>

NoteExhausted(r) ==
    /\ Doing(r, "exhausted") /\ Admitted
    /\ Binds(r, [binding[r] EXCEPT !.exhausted = TRUE])
    /\ UNCHANGED <<provider, os, mail, world>>

(* A plausible slip: a launch is counted when it binds. *)
NoteLaunchUncounted(b, p) == [b EXCEPT !.launched = p, !.ended = TRUE]

(* InputBinding::note_launch, of a process or of none that started. *)
NoteLaunch(b, p) ==
    [b EXCEPT !.attempts = @ + 1, !.launched = p, !.ended = TRUE]

(* The process is started and recorded in one hold; one that cannot be     *)
(* recorded is told to stop.                                               *)
Launch(r, p) ==
    /\ Doing(r, "launch")
    /\ \/ /\ Admitted
          /\ Starts(p, "tick")
          /\ Binds(r, NoteLaunch(binding[r], p))
          /\ UNCHANGED world
       \/ /\ (mode = "failed" /\ UNCHANGED world) \/ Fails
          /\ Starts(p, "failing")
          /\ look' = None
          /\ UNCHANGED <<binding, age>>
    /\ UNCHANGED <<provider, mail>>

(* The release is gone, or the process does not start. *)
LaunchFails(r) ==
    /\ Doing(r, "launch") /\ Spend("spawn")
    /\ IF Admitted THEN Binds(r, NoteLaunch(binding[r], None))
                   ELSE look' = None /\ UNCHANGED <<binding, age>>
    /\ UNCHANGED <<provider, os, mail, mode>>

(* Nothing is done behind the fence or, but for signals, after a failure. *)
Skip ==
    /\ look # None
    /\ ~Ticking \/ (mode = "failed" /\ look.step \in {"ended", "exhausted"})
    /\ look' = None
    /\ UNCHANGED <<provider, binding, age, os, mail, world>>

-----------------------------------------------------------------------------
(* The queue.                                                              *)

Send(r, m) ==
    /\ Admitted /\ provider[r] \in {"alive", "dead"}
    /\ \A s \in Records :
          m \notin queue[s] \cup offers[s]
                  \cup IF s \in Bound THEN binding[s].uncertain ELSE {}
    /\ queue' = [queue EXCEPT ![r] = @ \cup {m}]
    /\ UNCHANGED <<provider, binding, age, os, look, offers, shown, world>>

(* Inbox without drain: the offer is written before the reader is          *)
(* answered; a write that fails is the answer instead.                     *)
Read(r) ==
    /\ Admitted /\ r \notin Bound
    /\ offers' = [offers EXCEPT ![r] = queue[r]]
    /\ shown' = [shown EXCEPT ![r] = @ \cup queue[r]]
    /\ UNCHANGED <<provider, binding, age, os, look, queue, world>>

(* Inbox with drain.  The offers of what is gone stay until the next read, *)
(* and no use of them looks past the queue; here they go at once.          *)
Drain(r) ==
    /\ Admitted /\ r \notin Bound
    /\ queue' = [queue EXCEPT ![r] = {}]
    /\ offers' = [offers EXCEPT ![r] = {}]
    /\ shown' = [shown EXCEPT ![r] = {}]
    /\ UNCHANGED <<provider, binding, age, os, look, world>>

(* ack_inbox, and forget_delivered in a write of its own.  Whoever reads   *)
(* by the old way may still acknowledge what is flagged; the controller    *)
(* anything.                                                               *)
Acknowledge(r, ids) ==
    /\ Admitted /\ ids # {}
    /\ queue' = [queue EXCEPT ![r] = @ \ ids]
    /\ shown' = [shown EXCEPT ![r] = @ \ ids]
    /\ \/ /\ offers' = [offers EXCEPT ![r] = @ \ ids]
          /\ IF r \in Bound /\ ids \cap binding[r].uncertain # {}
             THEN /\ binding' = [binding EXCEPT ![r].uncertain = @ \ ids]
                  /\ look' = Recheck(r)
             ELSE UNCHANGED <<binding, look>>
          /\ UNCHANGED world
       \/ Fails /\ UNCHANGED <<offers, binding, look>>
    /\ UNCHANGED <<provider, age, os>>

-----------------------------------------------------------------------------
(* The world.                                                              *)

StoreFails == Fails /\ UNCHANGED <<provider, binding, age, os, look, mail>>

(* A new process on what was stored, which is what memory had. *)
Restart ==
    /\ Ticking
    /\ IF mode = "failed" THEN UNCHANGED left ELSE Spend("restart")
    /\ mode' = "ok" /\ look' = None
    /\ UNCHANGED <<provider, binding, age, os, mail>>

(* Killed after a launch and before the record of it. *)
KilledLaunching(r, p) ==
    /\ Doing(r, "launch") /\ Admitted /\ Spend("killed")
    /\ Starts(p, "killed")
    /\ look' = None
    /\ UNCHANGED <<provider, binding, age, mail, mode>>

Offer == /\ Admitted /\ Spend("transfer") /\ mode' = "fenced"
         /\ UNCHANGED <<provider, binding, age, os, look, mail>>

(* Called off, or taken up by a successor. *)
Abort == /\ mode = "fenced" /\ mode' = "ok"
         /\ UNCHANGED <<provider, binding, age, os, look, mail, left>>

Succeed == /\ mode = "fenced" /\ mode' = "ok" /\ look' = None
           /\ UNCHANGED <<provider, binding, age, os, mail, left>>

-----------------------------------------------------------------------------
Tick(r) ==
    \/ Look(r) \/ Stop(r) \/ NoteEnded(r) \/ NoteExhausted(r) \/ LaunchFails(r)
    \/ \E p \in Procs : Launch(r, p)

Next ==
    \/ \E r \in Records :
          \/ Registers(r) \/ SessionEnds(r)
          \/ \E p \in Procs, l \in {None, "old"} :
                (r \in Bound => l = None) /\ Bind(r, p, l)
          \/ Unbind(r) \/ Upgrade(r) \/ Retry(r)
          \/ \E s \in Records : Resume(r, s, "old")
          \/ Tick(r) \/ Ages(r)
          \/ \E p \in Procs : KilledLaunching(r, p)
          \/ \E m \in Messages : Send(r, m)
          \/ Read(r) \/ Drain(r)
          \/ \E ids \in SUBSET queue[r] : Acknowledge(r, ids)
    \/ \E p \in Procs : HookStarts(p) \/ Dies(p)
    \/ Skip \/ StoreFails \/ Restart \/ Offer \/ Abort \/ Succeed

Spec == Init /\ [][Next]_vars

(* The tick comes every second and time passes.  Nothing is assumed of     *)
(* controllers, sessions, requests or the store.                           *)
Fairness ==
    /\ \A r \in Records : WF_vars(Tick(r)) /\ WF_vars(Ages(r))
    /\ WF_vars(Skip)

FairSpec == Spec /\ Fairness

-----------------------------------------------------------------------------
(* Every variable has its type, and no episode has more launches than it   *)
(* may.                                                                    *)
TypeOK ==
    /\ provider \in [Records -> {"none", "alive", "dead", "retired"}]
    /\ binding \in [Records -> Binding \cup {None}]
    /\ age \in [Records -> 0..2]
    /\ alive \subseteq Procs
    /\ told \subseteq alive /\ unbound \subseteq alive /\ lost \subseteq unbound
    /\ look \in Decision \cup {None}
    /\ queue \in [Records -> SUBSET Messages]
    /\ offers \in [Records -> SUBSET Messages]
    /\ shown \in [Records -> SUBSET Messages]
    /\ mode \in {"ok", "failed", "fenced"}
    /\ left \in 0..MaxDisturbances

(* The daemon loses sight of no process it started: one that runs and has  *)
(* not bound is recorded on a binding, or was told to stop, or its daemon  *)
(* was killed in the moment it started it.                                 *)
NoStray ==
    \A p \in unbound \ (told \cup lost) :
        \E r \in Bound : binding[r].launched = p

(* "a live process always keeps its place" (controller_step): the daemon   *)
(* sends no signal to a bound controller but for an upgrade, however late  *)
(* what it decided is carried out, and none dies by a step of the tick.    *)
SparesBound ==
    [][\A r \in Bound : binding[r].controller \in alive /\ ~binding[r].upgrade =>
          /\ binding[r].controller \notin told' \ told
          /\ binding[r].controller \notin alive' => look' = look]_vars

(* What a reader was shown before the binding and is queued still is       *)
(* flagged to the controller, across a release, another bind, the return   *)
(* of the session and failed writes: else it is delivered twice.           *)
Flagged ==
    \A r \in Bound : shown[r] \cap queue[r] \subseteq binding[r].uncertain

(* A binding with a descriptor does not stay without its controller, nor   *)
(* with the one an upgrade replaces: in the end one is bound, or the       *)
(* launches are used up, or the session is gone.                           *)
Tended ==
    \A r \in Records :
        (r \in Bound /\ mode = "ok" /\ binding[r].launch # None) ~>
            \/ r \notin Bound \/ mode # "ok" \/ provider[r] # "alive"
            \/ binding[r].exhausted
            \/ binding[r].controller \in alive /\ ~binding[r].upgrade
=============================================================================
