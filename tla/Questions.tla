----------------------------- MODULE Questions -----------------------------
(***************************************************************************)
(* Questions and their answers (crates/agentd/src/daemon/humans.rs,        *)
(* inbound.rs, inbox.rs and publish_routed in daemon.rs).                  *)
(*                                                                         *)
(* An `ask' posts a question and waits on its connection.  Its answer is a *)
(* message like any other: it is queued for the asker and closes the       *)
(* question in one transaction.  While the ask waits the answer is held    *)
(* for it, and with it everything behind it in the queue; the ask learns   *)
(* of it from two broadcast streams, read in any order, and takes it in a  *)
(* later hold of the state's mutex.  Meanwhile the question may expire,    *)
(* go stale, be cancelled or be answered by somebody else, the asker may   *)
(* read its queue by another way, and the ask may time out or its client   *)
(* go away.  A message of a remote sender that a project holds rides on a  *)
(* question too, its card.                                                 *)
(*                                                                         *)
(* One hold of the mutex is one action.  The sweep of due questions that   *)
(* every publication makes first is the actions Expire and GoStale, each a *)
(* transaction of its own as in the code; a publication waits for them     *)
(* (Swept).  What a message says, and who is registered, are left out: an  *)
(* agent of the model is a live one of one project.                        *)
(***************************************************************************)
EXTENDS Inboxes, FiniteSets

CONSTANTS
    Agents,         \* agent ids
    Messages,       \* message ids
    Questions,      \* the messages that are questions
    Default,        \* the id of agentd's own answer to each question
    Shapes,         \* the ways each question can be put
    MaxQuestions,   \* MAX_QUESTIONS
    MaxCandidates,  \* MAX_ANSWER_CANDIDATES
    Disturbances,   \* the disturbances that happen
    MaxDisturbances,\* how many of them, altogether
    None

Kinds ==
    {"read", "lag", "gone", "failure", "restart", "transfer"}

(* from asks, to receive it and may answer; wide: put to the project or to *)
(* everyone, so that anybody may; waits: an ask and not a post; stale:     *)
(* what the form says to do when nobody answered in time.                  *)
Shape == [from : Agents, to : SUBSET Agents, wide : BOOLEAN, waits : BOOLEAN,
          stale : {"never", "keep", "default", "withdraw"}]

(* A message a card carries, and who it was sent to. *)
Parcel == [msg : Messages, to : Agents]

(* The closures that name no answer. *)
Closings == {"cancelled", "expired", "withdrawn", "settled"}

ASSUME QuestionsAssumption ==
    /\ Questions \subseteq Messages
    /\ Default \in [Questions -> Messages \ Questions]
    /\ Shapes \in [Questions -> SUBSET Shape]
    /\ \A q, r \in Questions : Default[q] = Default[r] => q = r
    /\ Closings \cap Messages = {}
    /\ None \notin Messages \cup Shape \cup Parcel \cup Agents
    /\ MaxQuestions \in Nat /\ MaxCandidates \in Nat
    /\ Disturbances \subseteq Kinds /\ MaxDisturbances \in Nat

VARIABLES
    open,      \* State::questions
    shape,     \* how each question was put, None before
    due,       \* its expires_at has passed
    stale,     \* "no"; "due": stale_at has passed; "marked": stale_since is set
    cards,     \* the questions put about a message that was held
    held,      \* State::held_messages
    deciding,  \* cards whose decision was looked up and is not carried out yet
    sent,      \* message ids in use
    inbox,     \* State::inboxes
    offers,    \* AgentRecord::legacy_offers: messages a reader may have seen
    acked,     \* the messages acknowledged so far
    heldFor,   \* State::held_answers: the question an answer is held for
    pc,        \* where each ask is
    replies,   \* what its receiver of the message bus has not read
    seen,      \* AnswerCandidates::seen
    accepted,  \* AnswerCandidates::accepted
    result,    \* what it answers its client
    closure,   \* the events that closed each question
    routes,    \* the answer_routed events about each answer
    fate,      \* the events that settled the message of each card
    mode,      \* "ok"; "failed": storage_error; "fenced": a transfer is offered
    left       \* how many disturbances are still to come

book  == <<open, shape, due, stale>>
card  == <<cards, held, deciding, fate>>
mail  == <<sent, inbox, offers, acked>>
wait  == <<pc, replies, seen, accepted, result>>
said  == <<heldFor, closure, routes>>
world == <<mode, left>>
vars  == <<book, card, mail, wait, said, world>>

Waiting  == {"select", "recover", "hand", "ending"}
Results  == {"none", "answer", "cancelled", "timeout", "lost", "unrecorded", "gone"}

(* State::question_waiters: a Waiter lives from the hold that opened its   *)
(* question to its drop.                                                   *)
Waiters == {q \in Questions : pc[q] \in Waiting}

Init ==
    /\ open = {} /\ due = {} /\ cards = {} /\ deciding = {}
    /\ shape = [q \in Questions |-> None]
    /\ stale = [q \in Questions |-> "no"]
    /\ held = [q \in Questions |-> None]
    /\ sent = {} /\ offers = {} /\ acked = {}
    /\ inbox = [a \in Agents |-> <<>>]
    /\ heldFor = [m \in Messages |-> None]
    /\ pc = [q \in Questions |-> "none"]
    /\ replies = [q \in Questions |-> <<>>]
    /\ seen = [q \in Questions |-> {}]
    /\ accepted = [q \in Questions |-> None]
    /\ result = [q \in Questions |-> "none"]
    /\ closure = [q \in Questions |-> <<>>]
    /\ routes = [m \in Messages |-> <<>>]
    /\ fate = [q \in Questions |-> <<>>]
    /\ mode = "ok"
    /\ left = MaxDisturbances

-----------------------------------------------------------------------------
(* Storage.  A hold writes only while nothing failed and nobody is offered *)
(* the coordination; the write itself may be the one that fails.           *)

Admitted == mode = "ok"

Spend(d) == d \in Disturbances /\ left > 0 /\ left' = left - 1

Fails == Admitted /\ Spend("failure") /\ mode' = "failed"

(* State::emit of the route the answers ms took: skipped behind the fence  *)
(* and after a failure, or itself the write that fails.                    *)
Emit(ms, route) ==
    \/ /\ ms = {} \/ ~Admitted
       /\ UNCHANGED <<routes, world>>
    \/ /\ ms # {} /\ Admitted
       /\ routes' = [m \in Messages |-> IF m \in ms THEN Append(routes[m], route)
                                                    ELSE routes[m]]
       /\ UNCHANGED world
    \/ ms # {} /\ Fails /\ UNCHANGED routes

(* note_legacy_offers and forget_delivered: bookkeeping in a write of its  *)
(* own after the one it is about.                                          *)
Note(kept) ==
    \/ Admitted /\ offers' = kept /\ UNCHANGED mode
    \/ Admitted /\ kept # offers /\ mode' = "failed" /\ UNCHANGED offers

-----------------------------------------------------------------------------
(* The sweep (State::expire_questions), made by the tick and at the start  *)
(* of every publication.                                                   *)

(* What a sweep that just ran leaves: a default the asker's full queue     *)
(* refused is tried again by the next one.                                 *)
StaleSwept ==
    \A q \in open : stale[q] = "due" =>
        shape[q].stale = "default" /\ ~Takes(inbox, shape[q].from)

Swept == open \cap due = {} /\ StaleSwept

(* Time passes for an open question. *)
Expires(q) ==
    /\ q \in open \ due
    /\ due' = due \cup {q}
    /\ UNCHANGED <<open, shape, stale, card, mail, wait, said, world>>

TurnsStale(q) ==
    /\ q \in open /\ shape[q].stale # "never" /\ stale[q] = "no"
    /\ stale' = [stale EXCEPT ![q] = "due"]
    /\ UNCHANGED <<open, shape, due, card, mail, wait, said, world>>

Close(qs, why) ==
    [q \in Questions |-> IF q \in qs THEN Append(closure[q], why) ELSE closure[q]]

(* A plausible slip: the copy stays when its card is settled. *)
UnholdNothing(qs) == held

Unhold(qs) == [q \in Questions |-> IF q \in qs THEN None ELSE held[q]]

Settle(qs, how) ==
    [q \in Questions |-> IF q \in qs /\ held[q] # None THEN Append(fate[q], how)
                                                       ELSE fate[q]]

(* close_expired_questions: every due question and the messages that ride  *)
(* on them, in one transaction.                                            *)
Expire ==
    /\ Admitted /\ open \cap due # {}
    /\ open' = open \ due
    /\ closure' = Close(open \cap due, "expired")
    /\ held' = Unhold(open \cap due)
    /\ fate' = Settle(open \cap due, "dropped")
    /\ UNCHANGED <<shape, due, stale, cards, deciding, mail, wait,
                   heldFor, routes, world>>

-----------------------------------------------------------------------------
(* Publication (State::publish_routed).                                    *)

Listening == {"select", "recover"}

Hears(q, m) ==
    [replies EXCEPT ![q] = IF pc[q] \in Listening THEN Append(@, m) ELSE @]

(* The message m that answers q closes it: held for the ask that waits, or *)
(* said to be the queue's at once.                                         *)
Answer(q, m) ==
    LET waited == q \in Waiters
    IN  /\ open' = open \ {q}
        /\ closure' = Close({q}, m)
        /\ heldFor' = IF waited THEN [heldFor EXCEPT ![m] = q] ELSE heldFor
        /\ Emit(IF waited THEN {} ELSE {m}, "queue")

(* stale_questions, one question at a time and only once nothing is due:   *)
(* marked, answered by agentd's default unless the asker's queue is full,  *)
(* or withdrawn.                                                           *)
GoStale(q) ==
    /\ Admitted /\ open \cap due = {} /\ q \in open /\ stale[q] = "due"
    /\ \/ /\ shape[q].stale = "keep"
          /\ stale' = [stale EXCEPT ![q] = "marked"]
          /\ UNCHANGED <<open, sent, inbox, replies, said, world>>
       \/ /\ shape[q].stale = "default" /\ Takes(inbox, shape[q].from)
          /\ sent' = sent \cup {Default[q]}
          /\ inbox' = Enqueue(inbox, {shape[q].from}, Default[q])
          /\ replies' = Hears(q, Default[q])
          /\ Answer(q, Default[q])
          /\ UNCHANGED stale
       \/ /\ shape[q].stale = "withdraw"
          /\ open' = open \ {q}
          /\ closure' = Close({q}, "withdrawn")
          /\ UNCHANGED <<stale, sent, inbox, replies, heldFor, routes, world>>
    /\ UNCHANGED <<shape, due, card, offers, acked, pc, seen, accepted, result>>

(* publish_question: the question is queued for its recipients and opened  *)
(* in one transaction, if there is room for it in both.                    *)
OpenQuestion(q, s) ==
    /\ Admitted /\ Swept /\ q \notin sent
    /\ Cardinality(open) < MaxQuestions
    /\ \A a \in s.to : Takes(inbox, a)
    /\ open' = open \cup {q}
    /\ shape' = [shape EXCEPT ![q] = s]
    /\ inbox' = Enqueue(inbox, s.to, q)

(* Daemon::ask, Daemon::post_question: an ask is registered as the waiter  *)
(* and subscribes in the hold that opens its question.                     *)
Ask(q, s) ==
    /\ OpenQuestion(q, s)
    /\ sent' = sent \cup {q}
    /\ pc' = [pc EXCEPT ![q] = IF s.waits THEN "select" ELSE @]
    /\ UNCHANGED <<due, stale, card, offers, acked, replies, seen, accepted,
                   result, said, world>>

(* A plausible slip: nobody looks whether the question is still open. *)
CancelBlindly(q) ==
    /\ Admitted /\ shape[q] # None
    /\ open' = open \ {q}
    /\ closure' = Close({q}, "cancelled")
    /\ held' = Unhold({q})
    /\ fate' = Settle({q}, "dropped")
    /\ UNCHANGED <<shape, due, stale, cards, deciding, mail, wait,
                   heldFor, routes, world>>

(* Daemon::cancel_question, by the asker; a card takes its message along.  *)
Cancel(q) ==
    /\ Admitted /\ q \in open
    /\ open' = open \ {q}
    /\ closure' = Close({q}, "cancelled")
    /\ held' = Unhold({q})
    /\ fate' = Settle({q}, "dropped")
    /\ UNCHANGED <<shape, due, stale, cards, deciding, mail, wait,
                   heldFor, routes, world>>

(* Daemon::answer and `send --reply-to', from an agent or in the daemon's  *)
(* name (None): closes an open question put to the sender, and is a        *)
(* message like any other to one that is not.  The ask hears whoever it    *)
(* asked, and whoever speaks in the daemon's name.                         *)
PutTo(q, a) == a \in shape[q].to \/ shape[q].wide

Reply(m, a, q) ==
    /\ Admitted /\ Swept
    /\ m \notin sent /\ shape[q] # None
    /\ Takes(inbox, shape[q].from)
    /\ sent' = sent \cup {m}
    /\ inbox' = Enqueue(inbox, {shape[q].from}, m)
    /\ replies' = IF a = None \/ PutTo(q, a) THEN Hears(q, m) ELSE replies
    /\ IF q \in open /\ PutTo(q, a)
       THEN Answer(q, m)
       ELSE UNCHANGED <<open, said, world>>
    /\ UNCHANGED <<shape, due, stale, card, offers, acked, pc, seen, accepted, result>>

-----------------------------------------------------------------------------
(* Held messages (daemon/inbound.rs).                                      *)

(* hold_message: the message is kept and its card put, in one transaction. *)
HoldMessage(q, s, p) ==
    /\ OpenQuestion(q, s)
    /\ p.msg \notin sent \cup {q}
    /\ sent' = sent \cup {q, p.msg}
    /\ cards' = cards \cup {q}
    /\ held' = [held EXCEPT ![q] = p]
    /\ UNCHANGED <<due, stale, deciding, fate, offers, acked, wait, said, world>>

(* Daemon::answer finds an open card and lets go of the lock. *)
Decide(q) ==
    /\ mode # "failed" /\ q \in open \ due /\ held[q] # None
    /\ deciding' = deciding \cup {q}
    /\ UNCHANGED <<book, cards, held, fate, mail, wait, said, world>>

(* settle_held, Release: read before the sweep of its own publication,     *)
(* which may drop the very card.                                           *)
Release(q) ==
    /\ Admitted /\ StaleSwept
    /\ q \in deciding /\ held[q] # None
    /\ open \cap due \subseteq {q}
    /\ Takes(inbox, held[q].to)
    /\ open' = open \ {q}
    /\ closure' = IF q \in open
                  THEN Close({q}, IF q \in due THEN "expired" ELSE "settled")
                  ELSE closure
    /\ held' = Unhold({q})
    /\ fate' = [fate EXCEPT ![q] = @ \o IF q \in open \cap due
                                        THEN <<"dropped", "released">>
                                        ELSE <<"released">>]
    /\ deciding' = deciding \ {q}
    /\ inbox' = Enqueue(inbox, {held[q].to}, held[q].msg)
    /\ UNCHANGED <<shape, due, stale, cards, sent, offers, acked, wait,
                   heldFor, routes, world>>

(* settle_held, Drop. *)
Drop(q) ==
    /\ Admitted /\ q \in deciding /\ held[q] # None
    /\ open' = open \ {q}
    /\ closure' = Close({q}, "settled")
    /\ held' = Unhold({q})
    /\ fate' = Settle({q}, "dropped")
    /\ deciding' = deciding \ {q}
    /\ UNCHANGED <<shape, due, stale, cards, mail, wait, heldFor, routes, world>>

(* A decision that comes to nothing: the card went meanwhile, or the       *)
(* recipient's queue is full, or nothing can be written.                   *)
DecideNothing(q) ==
    /\ q \in deciding
    /\ Admitted /\ held[q] # None => ~Takes(inbox, held[q].to)
    /\ deciding' = deciding \ {q}
    /\ UNCHANGED <<book, cards, held, fate, mail, wait, said, world>>

-----------------------------------------------------------------------------
(* The waiting ask.                                                        *)

(* A plausible slip: what leaves the ask stays held. *)
KeptHeld(ms) == heldFor

(* The answers ms are held for nobody any more. *)
LetGo(ms) == [m \in Messages |-> IF m \in ms THEN None ELSE heldFor[m]]

(* AnswerCandidates::take at the top of the loop. *)
Turn(acc, kept) ==
    IF acc = None THEN "select" ELSE IF acc \in kept THEN "hand" ELSE "recover"

(* A reply from the bus is kept while there is room, or as the one the     *)
(* closure has named.                                                      *)
ReadReply(q) ==
    LET m == Head(replies[q])
        kept == IF m = accepted[q] \/ Cardinality(seen[q]) < MaxCandidates
                THEN seen[q] \cup {m} ELSE seen[q]
    IN  /\ pc[q] = "select" /\ replies[q] # <<>>
        /\ replies' = [replies EXCEPT ![q] = Tail(@)]
        /\ seen' = [seen EXCEPT ![q] = kept]
        /\ pc' = [pc EXCEPT ![q] = Turn(accepted[q], kept)]
        /\ UNCHANGED <<book, card, mail, accepted, result, said, world>>

(* The event that closed the question names its answer or ends the wait. *)
ReadEvent(q) ==
    LET why == Head(closure[q])
    IN  /\ pc[q] = "select" /\ accepted[q] = None /\ closure[q] # <<>>
        /\ \/ /\ why \in Messages
              /\ accepted' = [accepted EXCEPT ![q] = why]
              /\ pc' = [pc EXCEPT ![q] = Turn(why, seen[q])]
              /\ UNCHANGED result
           \/ /\ why \in Closings
              /\ result' = [result EXCEPT ![q] =
                                IF why = "cancelled" THEN "cancelled" ELSE "timeout"]
              /\ pc' = [pc EXCEPT ![q] = "ending"]
              /\ UNCHANGED accepted
        /\ UNCHANGED <<book, card, mail, replies, seen, said, world>>

(* A plausible slip: only the bus is believed. *)
RecoverNothing(q) ==
    /\ pc[q] = "recover"
    /\ pc' = [pc EXCEPT ![q] = "select"]
    /\ UNCHANGED <<book, card, mail, replies, seen, accepted, result, said, world>>

(* An answer that was not kept is looked for in the asker's queue. *)
Recover(q) ==
    /\ pc[q] = "recover"
    /\ pc' = [pc EXCEPT ![q] =
                  IF accepted[q] \in Elements(inbox[shape[q].from]) THEN "hand"
                                                                    ELSE "select"]
    /\ UNCHANGED <<book, card, mail, replies, seen, accepted, result, said, world>>

(* answer_handed_over: the offer, then the route, are written before the   *)
(* answer is returned.  A failure keeps it held; behind the fence both     *)
(* writes are skipped without one.                                         *)
Hand(q) ==
    LET m == accepted[q]
        queued == {m} \cap Elements(inbox[shape[q].from])
    IN  /\ pc[q] = "hand"
        /\ \/ /\ heldFor[m] = None \/ mode # "failed"
              /\ result' = [result EXCEPT ![q] = "answer"]
              /\ offers' = IF heldFor[m] # None /\ Admitted THEN offers \cup queued
                                                            ELSE offers
              /\ routes' = IF heldFor[m] # None /\ Admitted
                           THEN [routes EXCEPT ![m] = Append(@, "tool")] ELSE routes
              /\ heldFor' = LetGo({m})
              /\ UNCHANGED world
           \/ /\ heldFor[m] # None
              /\ result' = [result EXCEPT ![q] = "unrecorded"]
              /\ \/ mode = "failed" /\ UNCHANGED <<offers, world>>
                 \/ Fails /\ offers' \in {offers, offers \cup queued}
              /\ UNCHANGED <<heldFor, routes>>
        /\ pc' = [pc EXCEPT ![q] = "ending"]
        /\ UNCHANGED <<book, card, sent, inbox, acked, replies, seen, accepted, closure>>

(* The timeout passes, the client goes away, or a stream lagged. *)
EndWait(q, why) ==
    /\ pc[q] = "select"
    /\ result' = [result EXCEPT ![q] = why]
    /\ pc' = [pc EXCEPT ![q] = "ending"]
    /\ UNCHANGED <<book, card, mail, replies, seen, accepted, said, mode>>

Deadline(q)   == EndWait(q, "timeout") /\ UNCHANGED left
Disconnect(q) == Spend("gone") /\ EndWait(q, "gone")
Lag(q)        == Spend("lag") /\ EndWait(q, "lost")

(* waiter_ended: what is still held for the question is the queue's. *)
End(q) ==
    LET over == {m \in Messages : heldFor[m] = q}
    IN  /\ pc[q] = "ending"
        /\ pc' = [pc EXCEPT ![q] = "done"]
        /\ heldFor' = LetGo(over)
        /\ Emit(over, "queue")
        /\ replies' = [replies EXCEPT ![q] = <<>>]
        /\ seen' = [seen EXCEPT ![q] = {}]
        /\ UNCHANGED <<book, card, mail, accepted, result, closure>>

-----------------------------------------------------------------------------
(* Readers of a queue (daemon/inbox.rs).                                   *)

Hidden == {m \in Messages : heldFor[m] # None}

(* A read that does not drain remembers what it has shown; the entries of  *)
(* messages that left the queue go.                                        *)
Peek(a) ==
    /\ Admitted /\ Spend("read")
    /\ Note((offers \ acked) \cup Visible(inbox[a], Hidden))
    /\ UNCHANGED <<book, card, sent, inbox, acked, wait, said>>

(* ack_inbox *)
Deliver(a, ids) ==
    /\ Admitted /\ ids # {} /\ Spend("read")
    /\ inbox' = AckInbox(inbox, a, ids)
    /\ acked' = acked \cup ids
    /\ UNCHANGED <<book, card, sent, wait, said>>

(* Inbox with drain: what the reader is shown is acknowledged. *)
Drain(a) ==
    /\ Deliver(a, Visible(inbox[a], Hidden))
    /\ UNCHANGED <<offers, mode>>

(* AckInbox and MarkRead name messages, held or not; forget_delivered      *)
(* follows.                                                                *)
Ack(a, ids) ==
    /\ ids \subseteq Elements(inbox[a])
    /\ Deliver(a, ids)
    /\ Note(offers \ ids)

-----------------------------------------------------------------------------
(* The world.                                                              *)

StoreFails == Fails /\ UNCHANGED <<book, card, mail, wait, said>>

(* Daemon::open: the asks and what was held for them are gone with the     *)
(* process, what was due is closed.                                        *)
Reload ==
    /\ mode' = "ok"
    /\ open' = open \ due
    /\ closure' = Close(open \cap due, "expired")
    /\ pc' = [q \in Questions |-> IF q \in Waiters THEN "done" ELSE pc[q]]
    /\ result' = [q \in Questions |-> IF q \in Waiters THEN "gone" ELSE result[q]]
    /\ heldFor' = LetGo(Messages)
    /\ replies' = [q \in Questions |-> <<>>]
    /\ seen' = [q \in Questions |-> {}]
    /\ deciding' = {}
    /\ UNCHANGED <<shape, due, stale, cards, mail, accepted, routes>>

(* Started by itself it also drops the messages whose card is gone. *)
Restart ==
    LET orphaned == {q \in Questions : q \notin open \ due}
    IN  /\ mode # "fenced"
        /\ IF mode = "failed" THEN UNCHANGED left ELSE Spend("restart")
        /\ Reload
        /\ held' = Unhold(orphaned)
        /\ fate' = Settle(orphaned, "dropped")

Offer == /\ Admitted /\ Spend("transfer") /\ mode' = "fenced"
         /\ UNCHANGED <<book, card, mail, wait, said>>

Abort == /\ mode = "fenced" /\ mode' = "ok"
         /\ UNCHANGED <<book, card, mail, wait, said, left>>

(* A successor reads the same store behind the fence, where it drops no    *)
(* message, and opens it.                                                  *)
Succeed == mode = "fenced" /\ Reload /\ UNCHANGED <<held, fate, left>>

-----------------------------------------------------------------------------
Words == Messages \ (Questions \cup {Default[q] : q \in Questions})

Steps(q) ==
    \/ ReadReply(q) \/ ReadEvent(q) \/ Recover(q) \/ Hand(q) \/ End(q)

Next ==
    \/ \E q \in Questions :
          \/ \E s \in Shapes[q] : Ask(q, s)
          \/ \E s \in Shapes[q], m \in Words, b \in Agents :
                ~s.waits /\ ~s.wide /\ s.stale = "never"
                /\ HoldMessage(q, s, [msg |-> m, to |-> b])
          \/ \E m \in Words, a \in Agents \cup {None} : Reply(m, a, q)
          \/ Expires(q) \/ TurnsStale(q) \/ GoStale(q) \/ Cancel(q)
          \/ Decide(q) \/ Release(q) \/ Drop(q) \/ DecideNothing(q)
          \/ Steps(q) \/ Deadline(q) \/ Disconnect(q) \/ Lag(q)
    \/ \E a \in Agents : Peek(a) \/ Drain(a)
    \/ \E a \in Agents : \E ids \in SUBSET Elements(inbox[a]) : Ack(a, ids)
    \/ Expire \/ StoreFails \/ Restart \/ Offer \/ Abort \/ Succeed

Spec == Init /\ [][Next]_vars

(* Tokio polls a task whose stream has something to read or that gets the  *)
(* mutex.  Nothing is assumed of deadlines, readers or the store.          *)
Fairness == \A q \in Questions : WF_vars(Steps(q))

FairSpec == Spec /\ Fairness

-----------------------------------------------------------------------------
(* Every variable has its type and every bound is kept: of a queue, of the *)
(* open questions and of the replies an ask keeps.                         *)
TypeOK ==
    /\ open \subseteq Questions /\ Cardinality(open) <= MaxQuestions
    /\ shape \in [Questions -> Shape \cup {None}]
    /\ due \subseteq Questions
    /\ stale \in [Questions -> {"no", "due", "marked"}]
    /\ cards \subseteq Questions /\ deciding \subseteq cards
    /\ held \in [Questions -> Parcel \cup {None}]
    /\ sent \subseteq Messages /\ offers \subseteq Messages
    /\ acked \subseteq Messages
    /\ inbox \in [Agents -> Seq(Messages)]
    /\ \A a \in Agents : Len(inbox[a]) <= Capacity
    /\ heldFor \in [Messages -> Questions \cup {None}]
    /\ pc \in [Questions -> Waiting \cup {"none", "done"}]
    /\ replies \in [Questions -> Seq(Messages)]
    /\ seen \in [Questions -> SUBSET Messages]
    /\ \A q \in Questions : Cardinality(seen[q]) <= MaxCandidates + 1
    /\ accepted \in [Questions -> Messages \cup {None}]
    /\ result \in [Questions -> Results]
    /\ closure \in [Questions -> Seq(Closings \cup Messages)]
    /\ routes \in [Messages -> Seq({"tool", "queue"})]
    /\ fate \in [Questions -> Seq({"released", "dropped"})]
    /\ mode \in {"ok", "failed", "fenced"}
    /\ left \in 0..MaxDisturbances

(* held_answers names only asks that still wait, each with the answer that *)
(* closed its question: an answer held for nobody would hide its asker's   *)
(* queue from there on until a restart.                                    *)
HeldForAWaiter ==
    \A m \in Messages : heldFor[m] # None =>
        /\ pc[heldFor[m]] \in Waiting
        /\ closure[heldFor[m]] = <<m>>

(* A question is closed once, whoever comes first of the answers, the      *)
(* expiry, the default and the cancellation; and what a waiting ask says   *)
(* of it is what closed it.                                                *)
ClosedOnce ==
    \A q \in Questions \ cards :
        /\ Len(closure[q]) <= 1
        /\ q \in open => closure[q] = <<>>
        /\ result[q] = "answer" => closure[q] = <<accepted[q]>>
        /\ result[q] = "cancelled" => closure[q] = <<"cancelled">>

(* "One answer travels one way, never both" (AnswerRoute): one route is    *)
(* announced for an answer, and not the queue's for one that an ask has    *)
(* returned.                                                               *)
OneWay ==
    \A m \in Messages :
        /\ Len(routes[m]) <= 1
        /\ \A q \in Questions :
              accepted[q] = m /\ result[q] = "answer" => routes[m] # <<"queue">>

(* An answer is never lost: the message that closed a question is queued   *)
(* for the asker or was acknowledged, and once no ask waits for it nothing *)
(* hides it there.                                                         *)
AnswerKept ==
    \A q \in Questions, m \in Messages : closure[q] = <<m>> =>
        \/ m \in acked
        \/ /\ m \in Elements(inbox[shape[q].from])
           /\ q \notin Waiters => heldFor[m] = None

(* A message that is held is in nobody's queue and goes out at most once,  *)
(* whatever becomes of its card.                                           *)
OutOnce ==
    \A q \in cards :
        /\ \A i, j \in DOMAIN fate[q] :
              fate[q][i] = "released" /\ fate[q][j] = "released" => i = j
        /\ held[q] # None =>
              /\ fate[q] = <<>>
              /\ \A a \in Agents : held[q].msg \notin Elements(inbox[a])

(* "never a card without its message or a message without its card"        *)
(* (daemon/inbound.rs).                                                    *)
CardsPaired == \A q \in cards : held[q] # None <=> q \in open

(* The ask whose question is closed ends without its deadline, unless the  *)
(* answer it did not keep was acknowledged under it by another reader.     *)
ClosedAskEnds ==
    \A q \in Questions :
        (pc[q] \in Waiting /\ closure[q] # <<>>)
            ~> (pc[q] = "done" \/ accepted[q] \in acked)
=============================================================================
