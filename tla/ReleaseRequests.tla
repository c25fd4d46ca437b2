-------------------------- MODULE ReleaseRequests --------------------------
(***************************************************************************)
(* Asking a holder to let go (crates/agentd/src/daemon/release_requests.rs *)
(* over the lease table, the queues and publish_routed of daemon.rs).      *)
(*                                                                         *)
(* A request is a message in each holder's queue and a document beside it; *)
(* the answer to it, the release of the leases it names and the end of the *)
(* document are one transaction.  Between the two the leases run out, are  *)
(* given up, handed to somebody else or claimed anew, agents leave, and a  *)
(* session that came back takes over the record of its earlier life.       *)
(*                                                                         *)
(* One hold of the mutex is one action.  The leases and requests that are  *)
(* due are swept by the actions ExpireLeases and ExpireRequest; a request  *)
(* or an answer waits for them (Tidy), as it makes the same sweep first.   *)
(***************************************************************************)
EXTENDS LeaseTable, Inboxes, FiniteSets

CONSTANTS
    Requests,         \* ids of release requests
    Reach,            \* who may send to whom
    Lives,            \* <<later, earlier>>: two records of one session
    Claims,           \* the leases agents may claim
    Wants,            \* <<agent, resource>>: what is asked for
    MaxRequests,      \* MAX_RELEASE_REQUESTS
    MaxDisturbances,  \* how many disturbances happen
    Disturbances      \* and of which kinds

Kinds == {"give", "leave", "fold", "default", "failure"}

(* A request and its answer, and a default answer that agentd owes.        *)
Letters == (Requests \X {"ask", "answer"}) \cup (Agents \X {"default"})

Request == [requester : Agents, holder : Agents, resource : Resources,
            ids : SUBSET LeaseIds, due : BOOLEAN]

ASSUME RequestsAssumption ==
    /\ Reach \subseteq Agents \X Agents /\ Lives \subseteq Agents \X Agents
    /\ Claims \subseteq [agent : Agents, resource : Resources, mode : Modes,
                         automatic : BOOLEAN]
    /\ Wants \subseteq Agents \X Resources
    /\ None \notin Request
    /\ MaxRequests \in Nat /\ MaxDisturbances \in Nat
    /\ Disturbances \subseteq Kinds
    /\ IsFiniteSet(Agents) /\ IsFiniteSet(Requests)

VARIABLES
    leases,   \* State::leases, and the database: each hold leaves them equal
    spent,    \* lease ids that were used
    canon,    \* Registry::canonical_id
    gone,     \* agents that have left
    request,  \* what each request asked, None before
    pending,  \* State::release_requests
    ends,     \* the events that ended each request
    inbox,    \* State::inboxes
    acked,    \* messages acknowledged so far
    owed,     \* agents whose stale question has its default answer due
    failed,   \* State::storage_error is latched
    left      \* how many disturbances are still to come

table == <<leases, spent>>
who   == <<canon, gone>>
book  == <<request, pending, ends>>
mail  == <<inbox, acked, owed>>
world == <<failed, left>>
vars  == <<table, who, book, mail, world>>

Live == {a \in Agents : canon[a] = a /\ a \notin gone}

Spend(d) == d \in Disturbances /\ left > 0 /\ left' = left - 1

Init ==
    /\ leases = EmptyTable /\ spent = {}
    /\ canon = [a \in Agents |-> a] /\ gone = {}
    /\ request = [r \in Requests |-> None]
    /\ pending = {} /\ ends = [r \in Requests |-> <<>>]
    /\ inbox = [a \in Agents |-> <<>>] /\ acked = {} /\ owed = {}
    /\ failed = FALSE /\ left = MaxDisturbances

-----------------------------------------------------------------------------
(* The leases, as LeaseDaemon has them in full.                            *)

Claim(q, i) ==
    /\ ~failed /\ q.agent \in Live /\ Due(leases) = {}
    /\ i \notin spent /\ Same(leases, q) = {} /\ ~Conflicts(leases, q)
    /\ leases' = Restore(leases, [id |-> i, lease |-> NewLease(q)])
    /\ spent' = spent \cup {i}
    /\ UNCHANGED <<who, book, mail, world>>

LetGo(i) ==
    /\ ~failed /\ i \in Held(leases)
    /\ leases' = Remove(leases, {i})
    /\ UNCHANGED <<spent, who, book, mail, world>>

RunOut(i) ==
    /\ i \in Held(leases) /\ ~leases[i].due
    /\ leases' = [leases EXCEPT ![i].due = TRUE]
    /\ UNCHANGED <<spent, who, book, mail, world>>

ExpireLeases ==
    /\ ~failed /\ Due(leases) # {}
    /\ leases' = Expire(leases)
    /\ UNCHANGED <<spent, who, book, mail, world>>

(* A handoff moves what its sender still has. *)
Give(i, b) ==
    /\ ~failed /\ Spend("give")
    /\ b \in Live /\ i \in Held(leases) /\ leases[i].holder # b
    /\ leases' = TransferSelected(leases, leases[i].holder, b, {i})
    /\ UNCHANGED <<spent, who, book, mail, failed>>

(* An agent that leaves loses what it holds. *)
Leave(a) ==
    /\ ~failed /\ a \in Live /\ Spend("leave")
    /\ gone' = gone \cup {a}
    /\ leases' = Remove(leases, ByHolder(leases, a))
    /\ UNCHANGED <<spent, canon, book, mail, failed>>

-----------------------------------------------------------------------------
(* Requests.                                                               *)

(* expire_leases_at and expire_release_requests have run. *)
Tidy == Due(leases) = {} /\ \A r \in pending : ~request[r].due

Lapse(r) ==
    /\ r \in pending /\ ~request[r].due
    /\ request' = [request EXCEPT ![r].due = TRUE]
    /\ UNCHANGED <<table, who, pending, ends, mail, world>>

ExpireRequest(r) ==
    /\ ~failed /\ r \in pending /\ request[r].due
    /\ pending' = pending \ {r}
    /\ ends' = [ends EXCEPT ![r] = Append(@, "expired")]
    /\ UNCHANGED <<table, who, request, mail, world>>

(* The leases of others that overlap the resource. *)
InItsWay(a, s, h) ==
    {i \in ByHolder(leases, h) : h # a /\ Overlaps(leases[i].resource, s)}

Holders(a, s) == {h \in Agents : InItsWay(a, s, h) # {}}

(* A plausible slip: a repeated request is asked again. *)
WaitsNever(a, s, h) == FALSE

(* A request that waits already is the answer. *)
Waits(a, s, h) ==
    \E r \in pending : /\ canon[request[r].requester] = a
                       /\ canon[request[r].holder] = h
                       /\ request[r].resource = s

NewlyAsked(a, s) == {h \in Holders(a, s) : ~Waits(a, s, h)}

(* The sweep of questions in publish_routed: the default answers that are  *)
(* due go to the queues that have room.                                    *)
Sweepable == {a \in owed : Takes(inbox, a)}

SweptBox ==
    [a \in Agents |-> IF a \in Sweepable THEN Append(inbox[a], <<a, "default">>)
                                         ELSE inbox[a]]

SweepQuestions ==
    /\ ~failed /\ Sweepable # {}
    /\ inbox' = SweptBox
    /\ owed' = owed \ Sweepable
    /\ UNCHANGED <<table, who, book, acked, world>>

(* request_release: checked for all the holders, then published to one     *)
(* after the other.  The first publication sweeps the questions, and each  *)
(* may find its queue full or the store failing; those before it stay.     *)
Ask(a, s, id) ==
    LET new == NewlyAsked(a, s)
    IN  /\ ~failed /\ a \in Live /\ Tidy
        /\ new # {}
        /\ \A h \in new : <<a, h>> \in Reach
        /\ Cardinality(pending) + Cardinality(new) <= MaxRequests
        /\ \A h \in new : Takes(inbox, h)
        /\ \E done \in SUBSET new :
              /\ \A h \in done : Takes(SweptBox, h)
              /\ \/ /\ done = new \/ \E h \in new \ done : ~Takes(SweptBox, h)
                    /\ UNCHANGED world
                 \/ done # new /\ Spend("failure") /\ failed' = TRUE
              /\ request' = [r \in Requests |->
                    IF \E h \in done : r = id[h]
                    THEN LET h == CHOOSE g \in done : r = id[g]
                         IN  [requester |-> a, holder |-> h, resource |-> s,
                              ids |-> InItsWay(a, s, h), due |-> FALSE]
                    ELSE request[r]]
              /\ pending' = pending \cup {id[h] : h \in done}
              /\ inbox' = [h \in Agents |-> IF h \in done
                                            THEN Append(SweptBox[h], <<id[h], "ask">>)
                                            ELSE SweptBox[h]]
        /\ owed' = owed \ Sweepable
        /\ UNCHANGED <<table, who, ends, acked>>

(* A plausible slip: everything that is now in the requester's way. *)
EverythingHeld(r) ==
    {i \in ByHolder(leases, canon[request[r].holder]) :
        Overlaps(leases[i].resource, request[r].resource)}

(* Only what the request names, and only what the responder still has. *)
StillHeld(r) == request[r].ids \cap ByHolder(leases, canon[request[r].holder])

(* A plausible slip: to the record that asked. *)
AnswerToName(r) == request[r].requester

(* Where the answer goes: to the record the requester lives on in. *)
AnswerTo(r) == canon[request[r].requester]

(* A plausible slip: the document stays until the tick takes it. *)
RespondKeeping(r, accept) ==
    /\ ~failed /\ Tidy /\ Sweepable = {}
    /\ r \in pending /\ canon[request[r].holder] \notin gone
    /\ Takes(inbox, AnswerTo(r))
    /\ leases' = IF accept THEN Remove(leases, StillHeld(r)) ELSE leases
    /\ inbox' = Enqueue(inbox, {AnswerTo(r)}, <<r, "answer">>)
    /\ ends' = [ends EXCEPT ![r] = Append(@, IF accept THEN "accepted" ELSE "declined")]
    /\ UNCHANGED <<spent, who, request, pending, acked, owed, world>>

(* respond_release: the answer, the release and the end of the request in  *)
(* one transaction, or none of them.                                       *)
Respond(r, accept) ==
    /\ ~failed /\ Tidy /\ Sweepable = {}
    /\ r \in pending /\ canon[request[r].holder] \notin gone
    /\ Takes(inbox, AnswerTo(r))
    /\ leases' = IF accept THEN Remove(leases, StillHeld(r)) ELSE leases
    /\ inbox' = Enqueue(inbox, {AnswerTo(r)}, <<r, "answer">>)
    /\ pending' = pending \ {r}
    /\ ends' = [ends EXCEPT ![r] = Append(@, IF accept THEN "accepted" ELSE "declined")]
    /\ UNCHANGED <<spent, who, request, acked, owed, world>>

-----------------------------------------------------------------------------
(* The rest of the daemon.                                                 *)

(* ack_inbox *)
Ack(a, m) ==
    /\ ~failed /\ m \in Elements(inbox[a])
    /\ inbox' = AckInbox(inbox, a, {m})
    /\ acked' = acked \cup {m}
    /\ UNCHANGED <<table, who, book, owed, world>>

(* A question of a went unanswered and has a default.  It is asked in the  *)
(* name of the record the agent lives on in: a fold renames the rest.      *)
FallsDue(a) ==
    /\ Spend("default") /\ canon[a] = a /\ a \notin owed
    /\ <<a, "default">> \notin acked \cup Elements(inbox[a])
    /\ owed' = owed \cup {a}
    /\ UNCHANGED <<table, who, book, inbox, acked, failed>>

(* commit_fold: a record that holds nothing is retired into the one its    *)
(* session had before, which lives again; its queue and its questions join *)
(* that one's.                                                             *)
Fold(a, b) ==
    /\ ~failed /\ Spend("fold") /\ <<a, b>> \in Lives
    /\ a \in Live /\ b \in gone /\ canon[b] = b /\ ByHolder(leases, a) = {}
    /\ canon' = [c \in Agents |-> IF canon[c] = a THEN b ELSE canon[c]]
    /\ gone' = gone \ {b}
    /\ inbox' = [inbox EXCEPT ![b] = @ \o inbox[a], ![a] = <<>>]
    /\ owed' = (owed \ {a}) \cup IF a \in owed THEN {b} ELSE {}
    /\ UNCHANGED <<table, book, acked, failed>>

StoreFails ==
    /\ ~failed /\ Spend("failure") /\ failed' = TRUE
    /\ UNCHANGED <<table, who, book, mail>>

(* A restart loads what was committed, which is what memory had. *)
Restart == failed /\ failed' = FALSE /\ UNCHANGED <<table, who, book, mail, left>>

(* Ids are random: any that are not in use, one for each holder asked. *)
Unused == {r \in Requests : request[r] = None}

Next ==
    \/ \E i \in LeaseIds :
          \/ \E q \in Claims : Claim(q, i)
          \/ LetGo(i) \/ RunOut(i)
          \/ \E b \in Agents : Give(i, b)
    \/ ExpireLeases
    \/ \E r \in Requests :
          Lapse(r) \/ ExpireRequest(r) \/ \E accept \in BOOLEAN : Respond(r, accept)
    \/ \E a \in Agents :
          \/ Leave(a) \/ FallsDue(a)
          \/ \E m \in Elements(inbox[a]) : Ack(a, m)
          \/ \E b \in Agents : Fold(a, b)
          \/ \E s \in {r \in Resources : <<a, r>> \in Wants} : \E id \in [Holders(a, s) -> Unused] :
                /\ \A g, h \in Holders(a, s) : id[g] = id[h] => g = h
                /\ Ask(a, s, id)
    \/ SweepQuestions \/ StoreFails \/ Restart

Spec == Init /\ [][Next]_vars

-----------------------------------------------------------------------------
(* Every variable has its type, a queue its bound unless a fold joined two *)
(* of them, and no more requests wait than the daemon allows.              *)
TypeOK ==
    /\ leases \in Tables /\ spent \subseteq LeaseIds
    /\ canon \in [Agents -> Agents] /\ gone \subseteq Agents
    /\ request \in [Requests -> Request \cup {None}]
    /\ pending \subseteq Requests /\ Cardinality(pending) <= MaxRequests
    /\ ends \in [Requests -> Seq({"accepted", "declined", "expired"})]
    /\ inbox \in [Agents -> Seq(Letters)]
    /\ \A a \in Agents : Len(inbox[a]) <= Capacity * Cardinality({b \in Agents : canon[b] = a})
    /\ acked \subseteq Letters /\ owed \subseteq Agents
    /\ failed \in BOOLEAN /\ left \in 0..MaxDisturbances

(* A request ends once, by one answer or by running out, and waits until   *)
(* then.                                                                   *)
EndsOnce ==
    \A r \in Requests : request[r] # None =>
        /\ Len(ends[r]) <= 1
        /\ r \in pending <=> ends[r] = <<>>

(* Nobody is asked twice for the same by the same agent. *)
AskedOnce ==
    \A r, s \in pending :
        /\ request[r].requester = request[s].requester
        /\ request[r].holder = request[s].holder
        /\ request[r].resource = request[s].resource
        => r = s

(* Whoever was asked has or had the message that asks, and a requester who *)
(* was answered the one that answers, under whatever record either lives   *)
(* on.                                                                     *)
Told ==
    \A r \in Requests :
        /\ request[r] # None =>
              <<r, "ask">> \in acked \cup Elements(inbox[canon[request[r].holder]])
        /\ ends[r] \in {<<"accepted">>, <<"declined">>} =>
              <<r, "answer">> \in acked \cup Elements(inbox[canon[request[r].requester]])

(* An accept takes from the holder the leases it was asked for, all of     *)
(* them, and nothing else from anybody: not what it claimed since, not     *)
(* what it has handed on.                                                  *)
AcceptFreesWhatWasAsked ==
    [][\A r \in Requests :
          (ends[r] = <<>> /\ ends'[r] = <<"accepted">>) =>
              \A i \in Held(leases) :
                  leases'[i] = None <=>
                      /\ i \in request[r].ids
                      /\ leases[i].holder = canon[request[r].holder]]_vars
=============================================================================
