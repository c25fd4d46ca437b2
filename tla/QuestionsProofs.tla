-------------------------- MODULE QuestionsProofs --------------------------
(***************************************************************************)
(* Proofs about Questions, for all agents, messages, questions, queues and *)
(* bounds.                                                                 *)
(*                                                                         *)
(* The invariants lean on each other and on what is never said of one      *)
(* state alone: that an id is used once (Born, Known), so that an answer   *)
(* that is new is held, routed and named by nothing yet; that no two       *)
(* questions are closed by one message (OneCloser); and that an ask that   *)
(* still listens after its question was answered has the answer held for   *)
(* it (Waited), so that the one it returns was not left to the queue.      *)
(***************************************************************************)
EXTENDS Questions, InboxesProofs, FiniteSetTheorems

(* The open questions are finitely many; an ask that may still choose      *)
(* among replies has kept no more than MAX_ANSWER_CANDIDATES.              *)
Sized ==
    /\ IsFiniteSet(open)
    /\ \A q \in Questions :
          /\ IsFiniteSet(seen[q])
          /\ pc[q] \in {"none", "select", "recover"} => Cardinality(seen[q]) <= MaxCandidates

(* Before a question is put there is no trace of it, and while it is open  *)
(* nothing has closed it.                                                  *)
Born ==
    \A q \in Questions :
        /\ q \in sent <=> shape[q] # None
        /\ q \notin sent => /\ q \notin open /\ q \notin cards /\ closure[q] = <<>>
                            /\ pc[q] = "none" /\ fate[q] = <<>> /\ Default[q] \notin sent
        /\ q \in open => closure[q] = <<>> /\ Default[q] \notin sent

(* No ask waits for a card; the message it holds is its own, is in use and *)
(* in no queue, and nothing has become of it.                              *)
Carried ==
    /\ \A q \in Questions :
          /\ q \in cards => pc[q] = "none"
          /\ held[q] # None =>
                /\ q \in cards /\ held[q].msg \in sent /\ fate[q] = <<>>
                /\ \A a \in Agents : held[q].msg \notin Elements(inbox[a])
          /\ \A i, j \in DOMAIN fate[q] :
                fate[q][i] = "released" /\ fate[q][j] = "released" => i = j
    /\ \A q, r \in Questions :
          held[q] # None /\ held[r] # None /\ held[q].msg = held[r].msg => q = r

(* A message that is queued, closed a question or was announced is in use. *)
Known ==
    /\ \A a \in Agents : Elements(inbox[a]) \subseteq sent
    /\ \A q \in Questions, m \in Messages : closure[q] = <<m>> => m \in sent
    /\ \A m \in Messages : routes[m] # <<>> => m \in sent

(* One message closes one question. *)
OneCloser ==
    \A q, r \in Questions, m \in Messages :
        closure[q] = <<m>> /\ closure[r] = <<m>> => q = r

(* A question that is no card is closed once. *)
Single == \A q \in Questions \ cards : Len(closure[q]) <= 1

(* What an ask accepted, and what it told its client, closed its question. *)
Asking ==
    \A q \in Questions :
        /\ pc[q] = "none" => accepted[q] = None /\ result[q] = "none"
        /\ accepted[q] # None => closure[q] = <<accepted[q]>>
        /\ pc[q] \in {"recover", "hand"} => accepted[q] # None
        /\ result[q] = "answer" => accepted[q] # None
        /\ result[q] = "cancelled" => closure[q] = <<"cancelled">>

(* The answer to an ask that has not made up its mind is held for it. *)
Waited ==
    \A q \in Questions, m \in Messages :
        pc[q] \in {"select", "recover", "hand"} /\ closure[q] = <<m>> => heldFor[m] = q

(* No route is announced for an answer that is held, and none but the      *)
(* tool's for one that was returned.                                       *)
Routed ==
    \A m \in Messages :
        /\ Len(routes[m]) <= 1
        /\ heldFor[m] # None => routes[m] = <<>>
        /\ \A q \in Questions :
              accepted[q] = m /\ result[q] = "answer" =>
                  heldFor[m] = None /\ routes[m] # <<"queue">>

(* The message that closed a question is in its asker's queue until it is  *)
(* acknowledged.                                                           *)
Kept ==
    \A q \in Questions, m \in Messages :
        closure[q] = <<m>> => m \in acked \/ m \in Elements(inbox[shape[q].from])

IInv ==
    /\ TypeOK /\ Sized /\ Born /\ Carried /\ Known /\ OneCloser /\ Single
    /\ Asking /\ HeldForAWaiter /\ Waited /\ Routed /\ Kept

-----------------------------------------------------------------------------
(* Steps that leave alone what a conjunct speaks of.                       *)

LEMMA SizedFrame == ASSUME Sized, UNCHANGED <<open, seen, pc>> PROVE Sized'
BY DEF Sized

LEMMA BornFrame ==
    ASSUME Born, UNCHANGED <<sent, shape, open, cards, closure, pc, fate>> PROVE Born'
BY DEF Born

LEMMA CarriedFrame ==
    ASSUME Carried, UNCHANGED <<cards, pc, held, sent, fate, inbox>> PROVE Carried'
BY DEF Carried

LEMMA KnownFrame ==
    ASSUME Known, UNCHANGED <<inbox, sent, closure, routes>> PROVE Known'
BY DEF Known

LEMMA OneCloserFrame == ASSUME OneCloser, UNCHANGED closure PROVE OneCloser'
BY DEF OneCloser

LEMMA SingleFrame == ASSUME Single, UNCHANGED <<closure, cards>> PROVE Single'
BY DEF Single

LEMMA AskingFrame ==
    ASSUME Asking, UNCHANGED <<pc, accepted, result, closure>> PROVE Asking'
BY DEF Asking

LEMMA HeldForFrame ==
    ASSUME HeldForAWaiter, UNCHANGED <<heldFor, pc, closure>> PROVE HeldForAWaiter'
BY DEF HeldForAWaiter

LEMMA WaitedFrame == ASSUME Waited, UNCHANGED <<heldFor, pc, closure>> PROVE Waited'
BY DEF Waited

LEMMA RoutedFrame ==
    ASSUME Routed, UNCHANGED <<heldFor, routes, accepted, result>> PROVE Routed'
BY DEF Routed

LEMMA KeptFrame ==
    ASSUME Kept, UNCHANGED <<closure, acked, inbox, shape>> PROVE Kept'
BY DEF Kept

-----------------------------------------------------------------------------
(* What the parts of an action leave behind.                               *)

(* A step that spends a disturbance leaves one fewer. *)
LEMMA SpendIs ==
    ASSUME NEW d, Spend(d), left \in 0..MaxDisturbances
    PROVE  left' \in 0..MaxDisturbances
BY QuestionsAssumption DEF Spend

(* A route is announced once more, or not at all. *)
LEMMA EmitIs ==
    ASSUME TypeOK, NEW ms \in SUBSET Messages, NEW route \in {"tool", "queue"},
           Emit(ms, route)
    PROVE  /\ mode' \in {"ok", "failed", "fenced"} /\ left' \in 0..MaxDisturbances
           /\ routes' \in [Messages -> Seq({"tool", "queue"})]
           /\ \A m \in Messages :
                 \/ routes'[m] = routes[m]
                 \/ m \in ms /\ routes'[m] = Append(routes[m], route)
<1>1. /\ mode \in {"ok", "failed", "fenced"} /\ left \in 0..MaxDisturbances
      /\ routes \in [Messages -> Seq({"tool", "queue"})]
  BY DEF TypeOK
<1>2. mode' \in {"ok", "failed", "fenced"}
  BY <1>1 DEF Emit, Fails, world
<1>3. left' \in 0..MaxDisturbances
  BY <1>1, SpendIs DEF Emit, Fails, world
<1>4. \/ routes' = routes
      \/ routes' = [m \in Messages |-> IF m \in ms THEN Append(routes[m], route)
                                                   ELSE routes[m]]
  BY DEF Emit
<1>5. routes' \in [Messages -> Seq({"tool", "queue"})]
  <2>1. \A m \in Messages : Append(routes[m], route) \in Seq({"tool", "queue"})
    BY <1>1
  <2> QED  BY <1>1, <1>4, <2>1
<1>6. \A m \in Messages : \/ routes'[m] = routes[m]
                          \/ m \in ms /\ routes'[m] = Append(routes[m], route)
  BY <1>4
<1> QED  BY <1>2, <1>3, <1>5, <1>6

(* A closing that names no message leaves no message as what closed a      *)
(* question, and adds nothing to what closed one that is no card.          *)
LEMMA ClosedSilently ==
    ASSUME IInv, NEW qs \in SUBSET (open \cup cards), NEW why \in Closings,
           closure' = Close(qs, why)
    PROVE  /\ closure' \in [Questions -> Seq(Closings \cup Messages)]
           /\ \A q \in Questions, m \in Messages : closure'[q] = <<m>> => closure[q] = <<m>>
           /\ \A q \in Questions \ cards :
                 /\ Len(closure'[q]) <= 1
                 /\ closure[q] # <<>> => closure'[q] = closure[q]
           /\ \A q \in Questions \ qs : closure'[q] = closure[q]
<1>1. /\ closure \in [Questions -> Seq(Closings \cup Messages)]
      /\ open \subseteq Questions /\ cards \subseteq Questions
  BY DEF IInv, TypeOK
<1>2. \A q \in Questions : closure'[q] = IF q \in qs THEN Append(closure[q], why) ELSE closure[q]
  BY DEF Close
<1>3. closure' \in [Questions -> Seq(Closings \cup Messages)]
  BY <1>1 DEF Close
<1>4. ASSUME NEW q \in Questions, NEW m \in Messages, closure'[q] = <<m>>
      PROVE  closure[q] = <<m>>
  <2>1. CASE q \notin qs
    BY <1>2, <1>4, <2>1
  <2>2. CASE q \in qs
    <3>1. closure[q] \in Seq(Closings \cup Messages) /\ <<m>> = Append(closure[q], why)
      BY <1>1, <1>2, <1>4, <2>2
    <3>2. Len(closure[q]) + 1 = 1 /\ <<m>>[Len(closure[q]) + 1] = why /\ Len(closure[q]) \in Nat
      BY <3>1
    <3>3. m = why
      BY <3>2
    <3> QED  BY <3>3, QuestionsAssumption
  <2> QED  BY <2>1, <2>2
<1>5. ASSUME NEW q \in Questions \ cards
      PROVE  Len(closure'[q]) <= 1 /\ (closure[q] # <<>> => closure'[q] = closure[q])
  <2>1. CASE q \notin qs
    BY <1>2, <2>1 DEF IInv, Single
  <2>2. CASE q \in qs
    <3>1. closure[q] = <<>>
      BY <2>2 DEF IInv, Born
    <3>2. closure'[q] = <<why>>
      BY <1>2, <2>2, <3>1, AppendFirst
    <3>3. Len(closure'[q]) = 1
      BY <3>2, AppendFirst
    <3> QED  BY <3>1, <3>3
  <2> QED  BY <2>1, <2>2
<1> QED  BY <1>2, <1>3, <1>4, <1>5

(* A message that is dropped was held, and nothing else became of it. *)
LEMMA Settled ==
    ASSUME IInv, NEW S, held' = Unhold(S), fate' = Settle(S, "dropped")
    PROVE  /\ held' \in [Questions -> Parcel \cup {None}]
           /\ fate' \in [Questions -> Seq({"released", "dropped"})]
           /\ \A q \in Questions :
                 /\ held'[q] # None => held'[q] = held[q] /\ fate'[q] = fate[q]
                 /\ held[q] = None => fate'[q] = fate[q]
                 /\ \A i, j \in DOMAIN fate'[q] :
                       fate'[q][i] = "released" /\ fate'[q][j] = "released" => i = j
<1>1. /\ held \in [Questions -> Parcel \cup {None}]
      /\ fate \in [Questions -> Seq({"released", "dropped"})]
  BY DEF IInv, TypeOK
<1>2. \A q \in Questions :
         /\ held'[q] = IF q \in S THEN None ELSE held[q]
         /\ fate'[q] = IF q \in S /\ held[q] # None THEN Append(fate[q], "dropped") ELSE fate[q]
  BY DEF Unhold, Settle
<1>3. held' \in [Questions -> Parcel \cup {None}]
  BY <1>1 DEF Unhold
<1>4. fate' \in [Questions -> Seq({"released", "dropped"})]
  BY <1>1 DEF Settle
<1>5. ASSUME NEW q \in Questions
      PROVE  \A i, j \in DOMAIN fate'[q] :
                fate'[q][i] = "released" /\ fate'[q][j] = "released" => i = j
  <2>1. CASE fate'[q] = fate[q]
    BY <2>1 DEF IInv, Carried
  <2>2. CASE held[q] # None /\ fate'[q] = Append(fate[q], "dropped")
    <3>1. fate[q] = <<>>
      BY <2>2 DEF IInv, Carried
    <3>2. fate'[q] = <<"dropped">>
      BY <2>2, <3>1
    <3> QED  BY <3>2
  <2> QED  BY <1>2, <2>1, <2>2
<1> QED  BY <1>2, <1>3, <1>4, <1>5

(* A message that is sent is in the queues of its recipients, on top of    *)
(* what was there, and no queue outgrows its bound.                        *)
LEMMA SentTo ==
    ASSUME TypeOK, NEW m \in Messages, NEW to, \A a \in to : a \in Agents /\ Takes(inbox, a),
           inbox' = Enqueue(inbox, to, m)
    PROVE  /\ inbox' \in [Agents -> Seq(Messages)]
           /\ \A a \in Agents : /\ Len(inbox'[a]) <= Capacity
                                /\ Elements(inbox[a]) \subseteq Elements(inbox'[a])
                                /\ Elements(inbox'[a]) \subseteq Elements(inbox[a]) \cup {m}
           /\ \A a \in to : m \in Elements(inbox'[a])
<1>1. inbox \in Queues(Agents, Messages) /\ \A a \in Agents : Len(inbox[a]) <= Capacity
  BY DEF TypeOK, Queues
<1> DEFINE new == Enqueue(inbox, to, m)
<1>2. /\ new \in Queues(Agents, Messages)
      /\ \A a \in to : /\ Len(new[a]) <= Capacity
                       /\ Elements(new[a]) = Elements(inbox[a]) \cup {m}
      /\ \A a \in Agents \ to : new[a] = inbox[a]
  BY <1>1, EnqueueIs
<1> HIDE DEF new
<1>3. inbox' = new
  BY DEF new
<1>4. inbox' \in [Agents -> Seq(Messages)]
  BY <1>2, <1>3 DEF Queues
<1> QED  BY <1>1, <1>2, <1>3, <1>4

-----------------------------------------------------------------------------
(* The steps.                                                              *)

(* The invariant holds before anything was asked. *)
LEMMA IInvInit == Init => IInv
<1> SUFFICES ASSUME Init PROVE IInv
  OBVIOUS
<1>1. TypeOK
  <2>1. /\ open \subseteq Questions /\ due \subseteq Questions /\ cards \subseteq Questions
        /\ deciding \subseteq cards /\ sent \subseteq Messages /\ offers \subseteq Messages
        /\ acked \subseteq Messages /\ mode \in {"ok", "failed", "fenced"}
    BY DEF Init
  <2>2. Cardinality(open) <= MaxQuestions /\ left \in 0..MaxDisturbances
    BY FS_EmptySet, QuestionsAssumption DEF Init
  <2>3. /\ shape \in [Questions -> Shape \cup {None}]
        /\ stale \in [Questions -> {"no", "due", "marked"}]
        /\ held \in [Questions -> Parcel \cup {None}]
        /\ heldFor \in [Messages -> Questions \cup {None}]
        /\ pc \in [Questions -> Waiting \cup {"none", "done"}]
        /\ seen \in [Questions -> SUBSET Messages]
        /\ accepted \in [Questions -> Messages \cup {None}]
        /\ result \in [Questions -> Results]
    BY DEF Init, Results
  <2>4. /\ inbox \in [Agents -> Seq(Messages)]
        /\ replies \in [Questions -> Seq(Messages)]
        /\ closure \in [Questions -> Seq(Closings \cup Messages)]
        /\ routes \in [Messages -> Seq({"tool", "queue"})]
        /\ fate \in [Questions -> Seq({"released", "dropped"})]
    BY DEF Init
  <2>5. \A a \in Agents : Len(inbox[a]) <= Capacity
    BY CapacityAssumption DEF Init
  <2>6. \A q \in Questions : Cardinality(seen[q]) <= MaxCandidates + 1
    BY FS_EmptySet, QuestionsAssumption DEF Init
  <2> QED  BY <2>1, <2>2, <2>3, <2>4, <2>5, <2>6 DEF TypeOK
<1>2. Sized
  BY FS_EmptySet, QuestionsAssumption DEF Init, Sized
<1>3. Born /\ Carried
  BY DEF Init, Born, Carried
<1>4. Known /\ OneCloser /\ Kept
  <2>1. \A m : <<>> # <<m>>
    OBVIOUS
  <2> QED  BY <2>1 DEF Init, Known, OneCloser, Kept, Elements
<1>5. Single
  BY DEF Init, Single
<1>6. Asking /\ HeldForAWaiter /\ Routed
  BY DEF Init, Asking, HeldForAWaiter, Routed
<1>7. Waited
  BY DEF Init, Waited
<1> QED  BY <1>1, <1>2, <1>3, <1>4, <1>5, <1>6, <1>7 DEF IInv

(* A smaller set of open questions is within the bound. *)
LEMMA FewerOpen ==
    ASSUME TypeOK, Sized, NEW S \in SUBSET open
    PROVE  S \subseteq Questions /\ IsFiniteSet(S) /\ Cardinality(S) <= MaxQuestions
<1>1. open \subseteq Questions /\ Cardinality(open) <= MaxQuestions /\ IsFiniteSet(open)
  BY DEF TypeOK, Sized
<1>2. IsFiniteSet(S) /\ Cardinality(S) <= Cardinality(open)
  BY <1>1, FS_Subset
<1>3. Cardinality(S) \in Nat /\ Cardinality(open) \in Nat
  BY <1>1, <1>2, FS_CardinalityType
<1> QED  BY <1>1, <1>2, <1>3, QuestionsAssumption

(* Questions are closed without an answer, the messages of some cards      *)
(* dropped.                                                                *)
LEMMA SilentStep ==
    ASSUME IInv, NEW qs \in SUBSET (open \cup cards), NEW why \in Closings,
           closure' = Close(qs, why), open' \subseteq open, open' \cap qs = {},
           \/ UNCHANGED <<held, fate>>
           \/ \E S : held' = Unhold(S) /\ fate' = Settle(S, "dropped"),
           deciding' \subseteq deciding,
           UNCHANGED <<shape, due, stale, cards, mail, wait, heldFor, routes, world>>
    PROVE  IInv'
<1> USE DEF IInv, mail, wait, world
<1>1. /\ closure' \in [Questions -> Seq(Closings \cup Messages)]
      /\ \A q \in Questions, m \in Messages : closure'[q] = <<m>> => closure[q] = <<m>>
      /\ \A q \in Questions \ cards :
            /\ Len(closure'[q]) <= 1
            /\ closure[q] # <<>> => closure'[q] = closure[q]
      /\ \A q \in Questions \ qs : closure'[q] = closure[q]
  BY ClosedSilently
<1>2. /\ held' \in [Questions -> Parcel \cup {None}]
      /\ fate' \in [Questions -> Seq({"released", "dropped"})]
      /\ \A q \in Questions :
            /\ held'[q] # None => held'[q] = held[q] /\ fate'[q] = fate[q]
            /\ held[q] = None => fate'[q] = fate[q]
            /\ \A i, j \in DOMAIN fate'[q] :
                  fate'[q][i] = "released" /\ fate'[q][j] = "released" => i = j
  <2>1. CASE UNCHANGED <<held, fate>>
    BY <2>1 DEF TypeOK, Carried
  <2>2. CASE \E S : held' = Unhold(S) /\ fate' = Settle(S, "dropped")
    BY <2>2, Settled
  <2> QED  BY <2>1, <2>2
<1>3. open' \subseteq Questions /\ IsFiniteSet(open') /\ Cardinality(open') <= MaxQuestions
  BY FewerOpen
<1>4. TypeOK'
  BY <1>1, <1>2, <1>3 DEF TypeOK
<1>5. Sized'
  BY <1>3 DEF Sized
<1>6. Born'
  <2>1. \A q \in Questions : q \notin sent => held[q] = None /\ q \notin qs
    BY DEF Born, Carried
  <2> QED  BY <1>1, <1>2, <2>1 DEF Born
<1>7. Carried'
  BY <1>2 DEF Carried
<1>8. Known' /\ OneCloser' /\ Kept'
  BY <1>1 DEF Known, OneCloser, Kept
<1>9. Single'
  BY <1>1 DEF Single
<1>10. Asking'
  <2>1. \A q \in Questions : accepted[q] # None \/ result[q] = "cancelled" => q \notin cards
    BY DEF Asking, Carried
  <2>2. \A q \in Questions : /\ accepted[q] # None => closure[q] # <<>>
                             /\ result[q] = "cancelled" => closure[q] # <<>>
    BY DEF Asking
  <2> QED  BY <1>1, <2>1, <2>2 DEF Asking
<1>11. HeldForAWaiter'
  <2> SUFFICES ASSUME NEW m \in Messages, heldFor[m] # None
               PROVE  pc[heldFor[m]] \in Waiting /\ closure'[heldFor[m]] = <<m>>
    BY DEF HeldForAWaiter
  <2>1. /\ heldFor[m] \in Questions /\ pc[heldFor[m]] \in Waiting
        /\ closure[heldFor[m]] = <<m>> /\ <<m>> # <<>>
    BY DEF HeldForAWaiter, TypeOK
  <2>2. heldFor[m] \notin cards
    BY <2>1 DEF Carried, Waiting
  <2> QED  BY <1>1, <2>1, <2>2
<1>12. Waited'
  BY <1>1 DEF Waited
<1>13. Routed'
  BY RoutedFrame
<1> QED  BY <1>4, <1>5, <1>6, <1>7, <1>8, <1>9, <1>10, <1>11, <1>12, <1>13

(* The sweep closes what is due. *)
LEMMA ExpireStep == ASSUME IInv, Expire PROVE IInv'
<1>1. open \cap due \in SUBSET (open \cup cards) /\ "expired" \in Closings
  BY DEF Closings
<1>2. /\ closure' = Close(open \cap due, "expired")
      /\ open' = open \ due /\ held' = Unhold(open \cap due)
      /\ fate' = Settle(open \cap due, "dropped")
      /\ UNCHANGED <<shape, due, stale, cards, deciding, mail, wait, heldFor, routes, world>>
  BY DEF Expire
<1>3. open' \subseteq open /\ open' \cap (open \cap due) = {} /\ deciding' \subseteq deciding
  BY <1>2
<1> QED  BY <1>1, <1>2, <1>3, SilentStep

(* The asker takes its question back. *)
LEMMA CancelStep == ASSUME IInv, NEW q \in Questions, Cancel(q) PROVE IInv'
<1>1. {q} \in SUBSET (open \cup cards) /\ "cancelled" \in Closings
  BY DEF Cancel, Closings
<1>2. /\ closure' = Close({q}, "cancelled")
      /\ open' = open \ {q} /\ held' = Unhold({q}) /\ fate' = Settle({q}, "dropped")
      /\ UNCHANGED <<shape, due, stale, cards, deciding, mail, wait, heldFor, routes, world>>
  BY DEF Cancel
<1>3. open' \subseteq open /\ open' \cap {q} = {} /\ deciding' \subseteq deciding
  BY <1>2
<1> QED  BY <1>1, <1>2, <1>3, SilentStep

(* A project drops a message it held. *)
LEMMA DropStep == ASSUME IInv, NEW q \in Questions, Drop(q) PROVE IInv'
<1>1. {q} \in SUBSET (open \cup cards) /\ "settled" \in Closings
  BY DEF Drop, Closings, IInv, TypeOK
<1>2. /\ closure' = Close({q}, "settled")
      /\ open' = open \ {q} /\ held' = Unhold({q}) /\ fate' = Settle({q}, "dropped")
      /\ deciding' = deciding \ {q}
      /\ UNCHANGED <<shape, due, stale, cards, mail, wait, heldFor, routes, world>>
  BY DEF Drop
<1>3. open' \subseteq open /\ open' \cap {q} = {} /\ deciding' \subseteq deciding
  BY <1>2
<1> QED  BY <1>1, <1>2, <1>3, SilentStep

(* A question that was put has an asker. *)
LEMMA ShapeIs ==
    ASSUME TypeOK, NEW q \in Questions, shape[q] # None
    PROVE  shape[q] \in Shape /\ shape[q].from \in Agents /\ shape[q].to \subseteq Agents
BY DEF TypeOK, Shape

(* An open question is answered by a message that is new: agentd's default *)
(* for it, or words.                                                       *)
LEMMA AnswerStep ==
    ASSUME IInv, NEW q \in open, NEW m \in Messages \ sent, Answer(q, m),
           m \notin Questions, \A r \in Questions \ {q} : Default[r] # m,
           sent' = sent \cup {m}, Takes(inbox, shape[q].from),
           inbox' = Enqueue(inbox, {shape[q].from}, m),
           replies' \in [Questions -> Seq(Messages)],
           UNCHANGED <<stale, shape, due, card, offers, acked, pc, seen, accepted, result>>
    PROVE  IInv'
<1> USE DEF IInv, card
<1>1. /\ q \in Questions /\ q \in sent /\ shape[q] # None /\ closure[q] = <<>>
  BY DEF TypeOK, Born
<1>2. shape[q].from \in Agents
  BY <1>1, ShapeIs
<1>3. /\ inbox' \in [Agents -> Seq(Messages)]
      /\ \A a \in Agents : /\ Len(inbox'[a]) <= Capacity
                           /\ Elements(inbox[a]) \subseteq Elements(inbox'[a])
                           /\ Elements(inbox'[a]) \subseteq Elements(inbox[a]) \cup {m}
      /\ m \in Elements(inbox'[shape[q].from])
  <2> DEFINE to == {shape[q].from}
  <2>1. \A a \in to : a \in Agents /\ Takes(inbox, a)
    BY <1>2
  <2>2. inbox' = Enqueue(inbox, to, m) /\ shape[q].from \in to
    OBVIOUS
  <2> HIDE DEF to
  <2> QED  BY <2>1, <2>2, SentTo
<1>4. /\ mode' \in {"ok", "failed", "fenced"} /\ left' \in 0..MaxDisturbances
      /\ routes' \in [Messages -> Seq({"tool", "queue"})]
      /\ \A x \in Messages :
            \/ routes'[x] = routes[x]
            \/ x = m /\ q \notin Waiters /\ routes'[x] = Append(routes[x], "queue")
  <2> DEFINE ms == IF q \in Waiters THEN {} ELSE {m}
  <2>1. Emit(ms, "queue")
    BY DEF Answer
  <2>2. ms \in SUBSET Messages
    OBVIOUS
  <2> HIDE DEF ms
  <2>3. /\ mode' \in {"ok", "failed", "fenced"} /\ left' \in 0..MaxDisturbances
        /\ routes' \in [Messages -> Seq({"tool", "queue"})]
        /\ \A x \in Messages : \/ routes'[x] = routes[x]
                               \/ x \in ms /\ routes'[x] = Append(routes[x], "queue")
    BY <2>1, <2>2, EmitIs
  <2> QED  BY <2>3 DEF ms
<1>5. /\ closure \in [Questions -> Seq(Closings \cup Messages)]
      /\ \A r \in Questions : closure'[r] = IF r = q THEN <<m>> ELSE closure[r]
      /\ closure' \in [Questions -> Seq(Closings \cup Messages)]
  <2>1. closure \in [Questions -> Seq(Closings \cup Messages)]
    BY DEF TypeOK
  <2>2. closure' = Close({q}, m)
    BY DEF Answer
  <2>3. closure' \in [Questions -> Seq(Closings \cup Messages)]
    BY <2>1, <2>2 DEF Close
  <2> QED  BY <1>1, <2>1, <2>2, <2>3, AppendFirst DEF Close
<1>6. heldFor' = IF q \in Waiters THEN [heldFor EXCEPT ![m] = q] ELSE heldFor
  BY DEF Answer
<1>7. heldFor[m] = None /\ routes[m] = <<>>
  <2>1. routes[m] = <<>>
    BY DEF Known
  <2>2. ASSUME heldFor[m] # None PROVE FALSE
    BY <2>2 DEF HeldForAWaiter, Known, TypeOK
  <2> QED  BY <2>1, <2>2
<1>8. open' = open \ {q} /\ open' \subseteq Questions /\ IsFiniteSet(open')
      /\ Cardinality(open') <= MaxQuestions
  BY FewerOpen DEF Answer
<1>9. heldFor' \in [Messages -> Questions \cup {None}]
  BY <1>1, <1>6 DEF TypeOK
<1>10. sent' \subseteq Messages
  BY DEF TypeOK
<1>11. TypeOK'
  BY <1>3, <1>4, <1>5, <1>8, <1>9, <1>10 DEF TypeOK
<1>12. Sized'
  BY <1>8 DEF Sized
<1>13. Born'
  BY <1>1, <1>5, <1>8 DEF Born
<1>14. Carried'
  <2>1. \A r \in Questions : held[r] # None => held[r].msg # m /\ held[r].msg \in sent'
    BY DEF Carried
  <2> QED  BY <1>3, <2>1 DEF Carried
<1>15. Known'
  <2>1. ASSUME NEW a \in Agents PROVE Elements(inbox'[a]) \subseteq sent'
    <3>1. Elements(inbox[a]) \subseteq sent
      BY DEF Known
    <3> QED  BY <1>3, <3>1
  <2>2. ASSUME NEW r \in Questions, NEW x \in Messages, closure'[r] = <<x>> PROVE x \in sent'
    BY <1>5, <2>2, OneMessage DEF Known
  <2>3. ASSUME NEW x \in Messages, routes'[x] # <<>> PROVE x \in sent'
    BY <1>4, <2>3 DEF Known
  <2> QED  BY <2>1, <2>2, <2>3 DEF Known
<1>16. OneCloser'
  <2>1. \A r \in Questions : closure[r] # <<m>>
    BY DEF Known
  <2> QED  BY <1>5, <2>1, OneMessage DEF OneCloser
<1>17. Single'
  <2> SUFFICES ASSUME NEW r \in Questions \ cards PROVE Len(closure'[r]) <= 1
    BY DEF Single
  <2>1. CASE r = q
    <3>1. closure'[r] = <<m>>
      BY <1>5, <2>1
    <3> QED  BY <3>1
  <2>2. CASE r # q
    BY <1>5, <2>2 DEF Single
  <2> QED  BY <2>1, <2>2
<1>18. Asking'
  <2>1. /\ accepted[q] # None => closure[q] # <<>>
        /\ result[q] = "cancelled" => closure[q] # <<>>
    BY <1>1, OneMessage DEF Asking
  <2> QED  BY <1>1, <1>5, <2>1 DEF Asking
<1>19. HeldForAWaiter'
  <2> SUFFICES ASSUME NEW x \in Messages, heldFor'[x] # None
               PROVE  pc[heldFor'[x]] \in Waiting /\ closure'[heldFor'[x]] = <<x>>
    BY DEF HeldForAWaiter
  <2>1. CASE x = m
    <3>1. q \in Waiters /\ heldFor'[x] = q
      BY <1>6, <1>7, <2>1 DEF TypeOK
    <3> QED  BY <1>1, <1>5, <2>1, <3>1 DEF Waiters
  <2>2. CASE x # m
    <3>1. heldFor'[x] = heldFor[x]
      BY <1>6, <2>2 DEF TypeOK
    <3>2. /\ heldFor[x] \in Questions /\ closure[heldFor[x]] = <<x>>
          /\ pc[heldFor[x]] \in Waiting /\ <<x>> # <<>>
      BY <3>1 DEF HeldForAWaiter, TypeOK
    <3> QED  BY <1>1, <1>5, <3>1, <3>2
  <2> QED  BY <2>1, <2>2
<1>20. Waited'
  <2> SUFFICES ASSUME NEW r \in Questions, NEW x \in Messages, closure'[r] = <<x>>,
                      pc[r] \in {"select", "recover", "hand"}
               PROVE  heldFor'[x] = r
    BY DEF Waited
  <2>1. CASE r = q
    BY <1>1, <1>5, <1>6, <2>1 DEF Waiters, Waiting, TypeOK
  <2>2. CASE r # q
    <3>1. closure[r] = <<x>> /\ x # m /\ heldFor[x] = r
      BY <1>5, <2>2 DEF Waited, Known
    <3> QED  BY <1>6, <3>1 DEF TypeOK
  <2> QED  BY <2>1, <2>2
<1>21. Routed'
  <2> SUFFICES ASSUME NEW x \in Messages
               PROVE  /\ Len(routes'[x]) <= 1
                      /\ heldFor'[x] # None => routes'[x] = <<>>
                      /\ \A r \in Questions :
                            accepted[r] = x /\ result[r] = "answer" =>
                                heldFor'[x] = None /\ routes'[x] # <<"queue">>
    BY DEF Routed
  <2>1. CASE x # m
    <3>1. heldFor'[x] = heldFor[x] /\ routes'[x] = routes[x]
      BY <1>4, <1>6, <2>1 DEF TypeOK
    <3> QED  BY <3>1 DEF Routed
  <2>2. CASE x = m
    <3>1. routes'[x] = <<>> \/ (q \notin Waiters /\ routes'[x] = <<"queue">>)
      BY <1>4, <1>7, <2>2, AppendFirst
    <3>2. Len(routes'[x]) <= 1
      <4>1. CASE routes'[x] = <<>>
        BY <4>1
      <4>2. CASE routes'[x] = <<"queue">>
        BY <4>2
      <4> QED  BY <3>1, <4>1, <4>2
    <3>3. heldFor'[x] # None => routes'[x] = <<>>
      BY <1>6, <1>7, <2>2, <3>1
    <3>4. ASSUME NEW r \in Questions, accepted[r] = x PROVE FALSE
      <4>1. accepted[r] # None
        BY <3>4, QuestionsAssumption
      <4>2. closure[r] = <<m>>
        BY <2>2, <3>4, <4>1 DEF Asking
      <4> QED  BY <4>2 DEF Known
    <3> QED  BY <3>2, <3>3, <3>4
  <2> QED  BY <2>1, <2>2
<1>22. Kept'
  <2> SUFFICES ASSUME NEW r \in Questions, NEW x \in Messages, closure'[r] = <<x>>
               PROVE  x \in acked \/ x \in Elements(inbox'[shape[r].from])
    BY DEF Kept
  <2>1. CASE r = q
    BY <1>3, <1>5, <2>1, OneMessage
  <2>2. CASE r # q
    <3>1. closure[r] = <<x>> /\ <<x>> # <<>>
      BY <1>5, <2>2
    <3>2. shape[r] # None
      BY <3>1 DEF Born
    <3>3. shape[r].from \in Agents
      BY <3>2, ShapeIs
    <3> QED  BY <1>3, <3>1, <3>3 DEF Kept
  <2> QED  BY <2>1, <2>2
<1> QED  BY <1>11, <1>12, <1>13, <1>14, <1>15, <1>16, <1>17, <1>18, <1>19, <1>20, <1>21, <1>22

(* An ask that listens has one more reply to read. *)
LEMMA HearsIs ==
    ASSUME TypeOK, NEW q \in Questions, NEW m \in Messages
    PROVE  Hears(q, m) \in [Questions -> Seq(Messages)]
<1>1. replies \in [Questions -> Seq(Messages)]
  BY DEF TypeOK
<1>2. Append(replies[q], m) \in Seq(Messages)
  BY <1>1
<1> QED  BY <1>1, <1>2 DEF Hears

(* A message that closes nothing is queued. *)
LEMMA MessageStep ==
    ASSUME IInv, NEW m \in Messages \ sent, m \notin Questions,
           \A r \in Questions : Default[r] # m,
           NEW a \in Agents, Takes(inbox, a), inbox' = Enqueue(inbox, {a}, m),
           sent' = sent \cup {m}, replies' \in [Questions -> Seq(Messages)],
           UNCHANGED <<book, card, offers, acked, pc, seen, accepted, result, said, world>>
    PROVE  IInv'
<1> USE DEF IInv, book, card, said, world
<1>1. /\ inbox' \in [Agents -> Seq(Messages)]
      /\ \A b \in Agents : /\ Len(inbox'[b]) <= Capacity
                           /\ Elements(inbox[b]) \subseteq Elements(inbox'[b])
                           /\ Elements(inbox'[b]) \subseteq Elements(inbox[b]) \cup {m}
  <2> DEFINE to == {a}
  <2>1. \A b \in to : b \in Agents /\ Takes(inbox, b)
    OBVIOUS
  <2>2. inbox' = Enqueue(inbox, to, m)
    OBVIOUS
  <2> HIDE DEF to
  <2> QED  BY <2>1, <2>2, SentTo
<1>2. TypeOK'
  BY <1>1 DEF TypeOK
<1>3. Born'
  BY DEF Born
<1>4. Carried'
  <2>1. \A r \in Questions : held[r] # None => held[r].msg # m /\ held[r].msg \in sent'
    BY DEF Carried
  <2> QED  BY <1>1, <2>1 DEF Carried
<1>5. Known'
  BY <1>1 DEF Known
<1>6. Kept'
  <2> SUFFICES ASSUME NEW r \in Questions, NEW x \in Messages, closure[r] = <<x>>
               PROVE  x \in acked \/ x \in Elements(inbox'[shape[r].from])
    BY DEF Kept
  <2>1. shape[r] # None
    BY OneMessage DEF Born
  <2>2. shape[r].from \in Agents
    BY <2>1, ShapeIs
  <2> QED  BY <1>1, <2>2 DEF Kept
<1> QED  BY <1>2, <1>3, <1>4, <1>5, <1>6, SizedFrame, OneCloserFrame, SingleFrame,
            AskingFrame, HeldForFrame, WaitedFrame, RoutedFrame

(* A reply closes an open question put to its sender, and is a message     *)
(* like any other otherwise.                                               *)
LEMMA ReplyStep ==
    ASSUME IInv, NEW q \in Questions, NEW m \in Words, NEW a \in Agents \cup {None},
           Reply(m, a, q)
    PROVE  IInv'
<1>1. /\ m \in Messages \ sent /\ m \notin Questions /\ \A r \in Questions : Default[r] # m
      /\ shape[q] # None /\ Takes(inbox, shape[q].from)
      /\ sent' = sent \cup {m} /\ inbox' = Enqueue(inbox, {shape[q].from}, m)
      /\ UNCHANGED <<stale, shape, due, card, offers, acked, pc, seen, accepted, result>>
  BY DEF Reply, Words
<1>2. shape[q].from \in Agents
  BY <1>1, ShapeIs DEF IInv
<1>3. replies' \in [Questions -> Seq(Messages)]
  <2>1. replies' = Hears(q, m) \/ replies' = replies
    BY DEF Reply
  <2> QED  BY <1>1, <2>1, HearsIs DEF IInv, TypeOK
<1>4. CASE q \in open /\ PutTo(q, a)
  <2>1. Answer(q, m)
    BY <1>4 DEF Reply
  <2> QED  BY <1>1, <1>3, <1>4, <2>1, AnswerStep
<1>5. CASE ~(q \in open /\ PutTo(q, a))
  <2>1. UNCHANGED <<open, said, world>>
    BY <1>5 DEF Reply
  <2>2. UNCHANGED book
    BY <1>1, <2>1 DEF book
  <2> QED  BY <1>1, <1>2, <1>3, <2>1, <2>2, MessageStep
<1> QED  BY <1>4, <1>5

(* A question nobody answered in time is marked, answered by default or    *)
(* withdrawn.                                                              *)
LEMMA GoStaleStep == ASSUME IInv, NEW q \in Questions, GoStale(q) PROVE IInv'
<1>1. /\ q \in open
      /\ UNCHANGED <<shape, due, card, offers, acked, pc, seen, accepted, result>>
  BY DEF GoStale
<1>2. CASE /\ stale' = [stale EXCEPT ![q] = "marked"]
           /\ UNCHANGED <<open, sent, inbox, replies, said, world>>
  <2>1. TypeOK'
    BY <1>1, <1>2 DEF IInv, TypeOK, card, said, world
  <2> QED  BY <1>1, <1>2, <2>1, SizedFrame, BornFrame, CarriedFrame, KnownFrame,
              OneCloserFrame, SingleFrame, AskingFrame, HeldForFrame, WaitedFrame,
              RoutedFrame, KeptFrame DEF IInv, card, said
<1>3. CASE /\ Takes(inbox, shape[q].from)
           /\ sent' = sent \cup {Default[q]}
           /\ inbox' = Enqueue(inbox, {shape[q].from}, Default[q])
           /\ replies' = Hears(q, Default[q])
           /\ Answer(q, Default[q])
           /\ UNCHANGED stale
  <2>1. /\ Default[q] \in Messages \ sent /\ Default[q] \notin Questions
        /\ \A r \in Questions \ {q} : Default[r] # Default[q]
    BY <1>1, QuestionsAssumption DEF IInv, Born
  <2>2. replies' \in [Questions -> Seq(Messages)]
    BY <1>3, <2>1, HearsIs DEF IInv
  <2> QED  BY <1>1, <1>3, <2>1, <2>2, AnswerStep
<1>4. CASE /\ open' = open \ {q} /\ closure' = Close({q}, "withdrawn")
           /\ UNCHANGED <<stale, sent, inbox, replies, heldFor, routes, world>>
  <2>1. {q} \in SUBSET (open \cup cards) /\ "withdrawn" \in Closings
    BY <1>1 DEF Closings
  <2>2. /\ open' \subseteq open /\ open' \cap {q} = {}
        /\ UNCHANGED <<held, fate, deciding, shape, due, stale, cards, mail, wait, heldFor,
                       routes, world>>
    BY <1>1, <1>4 DEF card, mail, wait
  <2> QED  BY <1>4, <2>1, <2>2, SilentStep
<1> QED  BY <1>2, <1>3, <1>4 DEF GoStale

(* A question is put: by an ask or a post, or as the card of a message.    *)
LEMMA OpenStep ==
    ASSUME IInv, NEW q \in Questions, NEW s \in Shape, OpenQuestion(q, s),
           UNCHANGED <<due, stale, deciding, fate, offers, acked, replies, seen, accepted,
                       result, said, world>>,
           \/ /\ sent' = sent \cup {q}
              /\ pc' = [pc EXCEPT ![q] = IF s.waits THEN "select" ELSE @]
              /\ UNCHANGED <<cards, held>>
           \/ \E p \in Parcel :
                 /\ p.msg \in Words /\ p.msg \notin sent \cup {q}
                 /\ sent' = sent \cup {q, p.msg} /\ cards' = cards \cup {q}
                 /\ held' = [held EXCEPT ![q] = p] /\ UNCHANGED pc
    PROVE  IInv'
<1> USE DEF IInv, said, world
<1>1. /\ q \in Messages /\ q \notin sent /\ Cardinality(open) < MaxQuestions
      /\ open' = open \cup {q} /\ shape' = [shape EXCEPT ![q] = s]
      /\ s.to \subseteq Agents /\ \A a \in s.to : Takes(inbox, a)
      /\ inbox' = Enqueue(inbox, s.to, q) /\ s # None
      /\ \A r \in Questions : Default[r] \in Messages /\ Default[r] \notin Questions
  BY QuestionsAssumption DEF OpenQuestion, Shape
<1>2. /\ inbox' \in [Agents -> Seq(Messages)]
      /\ \A a \in Agents : /\ Len(inbox'[a]) <= Capacity
                           /\ Elements(inbox[a]) \subseteq Elements(inbox'[a])
                           /\ Elements(inbox'[a]) \subseteq Elements(inbox[a]) \cup {q}
  <2> DEFINE to == s.to
  <2>1. \A a \in to : a \in Agents /\ Takes(inbox, a)
    BY <1>1
  <2>2. inbox' = Enqueue(inbox, to, q)
    BY <1>1
  <2> HIDE DEF to
  <2> QED  BY <1>1, <2>1, <2>2, SentTo
<1>3. /\ q \notin open /\ q \notin cards /\ closure[q] = <<>> /\ pc[q] = "none"
      /\ fate[q] = <<>> /\ Default[q] \notin sent /\ shape[q] = None /\ held[q] = None
  BY <1>1 DEF Born, Carried
<1>4. /\ sent \subseteq sent' /\ q \in sent' /\ sent' \subseteq Messages
      /\ \A r \in Questions \ {q} : r \in sent' => r \in sent
      /\ \A r \in Questions : Default[r] \in sent' => Default[r] \in sent
  <2>1. sent \subseteq Messages
    BY DEF TypeOK
  <2>2. CASE sent' = sent \cup {q}
    BY <1>1, <2>1, <2>2
  <2>3. CASE \E m \in Words : sent' = sent \cup {q, m}
    <3>1. PICK m \in Words : sent' = sent \cup {q, m}
      BY <2>3
    <3>2. m \in Messages /\ m \notin Questions /\ \A r \in Questions : Default[r] # m
      BY DEF Words
    <3> QED  BY <1>1, <2>1, <3>1, <3>2
  <2> QED  BY <2>2, <2>3
<1>5. /\ cards' \subseteq Questions /\ cards \subseteq cards' /\ cards' \subseteq cards \cup {q}
      /\ held' \in [Questions -> Parcel \cup {None}]
      /\ \A r \in Questions \ {q} : held'[r] = held[r]
  <2>1. cards \subseteq Questions /\ held \in [Questions -> Parcel \cup {None}]
    BY DEF TypeOK
  <2>2. CASE UNCHANGED <<cards, held>>
    BY <2>1, <2>2
  <2>3. CASE \E p \in Parcel : cards' = cards \cup {q} /\ held' = [held EXCEPT ![q] = p]
    BY <2>1, <2>3
  <2> QED  BY <2>2, <2>3
<1>6. /\ pc' \in [Questions -> Waiting \cup {"none", "done"}]
      /\ \A r \in Questions \ {q} : pc'[r] = pc[r]
      /\ pc'[q] \in {"none", "select"} /\ (q \in cards' => pc'[q] = "none")
  BY <1>3 DEF TypeOK, Waiting
<1>7. /\ open' \subseteq Questions /\ IsFiniteSet(open') /\ Cardinality(open') <= MaxQuestions
  <2>1. IsFiniteSet(open) /\ open \subseteq Questions
    BY DEF Sized, TypeOK
  <2>2. IsFiniteSet(open') /\ Cardinality(open') = Cardinality(open) + 1
    BY <1>1, <1>3, <2>1, FS_AddElement
  <2>3. Cardinality(open) \in Nat
    BY <2>1, FS_CardinalityType
  <2> QED  BY <1>1, <2>1, <2>2, <2>3, QuestionsAssumption
<1>8. /\ shape' \in [Questions -> Shape \cup {None}]
      /\ shape'[q] = s /\ \A r \in Questions \ {q} : shape'[r] = shape[r]
  BY <1>1 DEF TypeOK
<1>9. TypeOK'
  BY <1>2, <1>4, <1>5, <1>6, <1>7, <1>8 DEF TypeOK
<1>10. Sized'
  <2>1. Cardinality(seen[q]) <= MaxCandidates
    BY <1>3 DEF Sized
  <2> QED  BY <1>6, <1>7, <2>1 DEF Sized
<1>11. Born'
  <2> SUFFICES ASSUME NEW r \in Questions
               PROVE  /\ r \in sent' <=> shape'[r] # None
                      /\ r \notin sent' =>
                            /\ r \notin open' /\ r \notin cards' /\ closure[r] = <<>>
                            /\ pc'[r] = "none" /\ fate[r] = <<>> /\ Default[r] \notin sent'
                      /\ r \in open' => closure[r] = <<>> /\ Default[r] \notin sent'
    BY DEF Born
  <2>1. CASE r = q
    BY <1>1, <1>3, <1>4, <1>8, <2>1
  <2>2. CASE r # q
    BY <1>1, <1>4, <1>5, <1>6, <1>8, <2>2 DEF Born
  <2> QED  BY <2>1, <2>2
<1>12. Carried'
  <2>1. ASSUME NEW r \in Questions, held[r] # None
        PROVE  /\ r \in cards /\ held[r].msg \in sent /\ fate[r] = <<>> /\ held[r].msg # q
               /\ \A a \in Agents : held[r].msg \notin Elements(inbox'[a])
    <3>1. /\ r \in cards /\ held[r].msg \in sent /\ fate[r] = <<>>
          /\ \A a \in Agents : held[r].msg \notin Elements(inbox[a])
      BY <2>1 DEF Carried
    <3>2. held[r].msg # q
      BY <1>1, <3>1
    <3> QED  BY <1>2, <3>1, <3>2
  <2>2. ASSUME held'[q] # None
        PROVE  /\ q \in cards' /\ held'[q].msg \in sent' /\ held'[q].msg \notin sent \cup {q}
    <3>1. PICK p \in Parcel :
                 /\ p.msg \notin sent \cup {q} /\ sent' = sent \cup {q, p.msg}
                 /\ cards' = cards \cup {q} /\ held' = [held EXCEPT ![q] = p]
      BY <1>3, <2>2
    <3>2. held'[q] = p
      BY <3>1 DEF TypeOK
    <3> QED  BY <3>1, <3>2
  <2>3. \A a \in Agents : Elements(inbox'[a]) \subseteq sent \cup {q}
    BY <1>2 DEF Known
  <2>4. ASSUME NEW r \in Questions
        PROVE  /\ r \in cards' => pc'[r] = "none"
               /\ held'[r] # None =>
                     /\ r \in cards' /\ held'[r].msg \in sent' /\ fate[r] = <<>>
                     /\ \A a \in Agents : held'[r].msg \notin Elements(inbox'[a])
    <3>1. CASE r = q
      BY <1>3, <1>6, <2>2, <2>3, <3>1
    <3>2. CASE r # q
      BY <1>4, <1>5, <1>6, <2>1, <3>2 DEF Carried
    <3> QED  BY <3>1, <3>2
  <2>5. ASSUME NEW r \in Questions, NEW t \in Questions, held'[r] # None, held'[t] # None,
               held'[r].msg = held'[t].msg
        PROVE  r = t
    <3>1. CASE r # q /\ t # q
      BY <1>5, <2>5, <3>1 DEF Carried
    <3>2. CASE r = q /\ t # q
      BY <1>5, <2>1, <2>2, <2>5, <3>2
    <3>3. CASE r # q /\ t = q
      BY <1>5, <2>1, <2>2, <2>5, <3>3
    <3> QED  BY <3>1, <3>2, <3>3
  <2>6. \A r \in Questions : \A i, j \in DOMAIN fate[r] :
            fate[r][i] = "released" /\ fate[r][j] = "released" => i = j
    BY DEF Carried
  <2> QED  BY <2>4, <2>5, <2>6 DEF Carried
<1>13. Known'
  <2>1. \A a \in Agents : Elements(inbox'[a]) \subseteq sent'
    BY <1>2, <1>4 DEF Known
  <2> QED  BY <1>4, <2>1 DEF Known
<1>14. OneCloser' /\ Single'
  BY <1>5, OneCloserFrame DEF Single
<1>15. Asking'
  BY <1>3, <1>6 DEF Asking
<1>16. HeldForAWaiter'
  <2> SUFFICES ASSUME NEW m \in Messages, heldFor[m] # None
               PROVE  pc'[heldFor[m]] \in Waiting /\ closure[heldFor[m]] = <<m>>
    BY DEF HeldForAWaiter
  <2>1. /\ heldFor[m] \in Questions /\ closure[heldFor[m]] = <<m>> /\ <<m>> # <<>>
        /\ pc[heldFor[m]] \in Waiting
    BY OneMessage DEF HeldForAWaiter, TypeOK
  <2> QED  BY <1>3, <1>6, <2>1
<1>17. Waited'
  <2>1. \A m : closure[q] # <<m>>
    BY <1>3, OneMessage
  <2> QED  BY <1>6, <2>1 DEF Waited
<1>18. Routed'
  BY RoutedFrame
<1>19. Kept'
  <2> SUFFICES ASSUME NEW r \in Questions, NEW x \in Messages, closure[r] = <<x>>
               PROVE  x \in acked \/ x \in Elements(inbox'[shape'[r].from])
    BY DEF Kept
  <2>1. r # q /\ shape[r] # None
    BY <1>3, OneMessage DEF Born
  <2>2. shape[r].from \in Agents
    BY <2>1, ShapeIs
  <2> QED  BY <1>2, <1>8, <2>1, <2>2 DEF Kept
<1> QED  BY <1>9, <1>10, <1>11, <1>12, <1>13, <1>14, <1>15, <1>16, <1>17, <1>18, <1>19

(* An ask or a post puts its question. *)
LEMMA AskStep ==
    ASSUME IInv, NEW q \in Questions, NEW s \in Shapes[q], Ask(q, s) PROVE IInv'
<1>1. s \in Shape
  BY QuestionsAssumption
<1>2. /\ OpenQuestion(q, s) /\ sent' = sent \cup {q}
      /\ pc' = [pc EXCEPT ![q] = IF s.waits THEN "select" ELSE @]
      /\ UNCHANGED <<due, stale, cards, held, deciding, fate, offers, acked, replies, seen,
                     accepted, result, said, world>>
  BY DEF Ask, card
<1> QED  BY <1>1, <1>2, OpenStep

(* A message is held and its card put. *)
LEMMA HoldMessageStep ==
    ASSUME IInv, NEW q \in Questions, NEW s \in Shapes[q], NEW m \in Words, NEW b \in Agents,
           HoldMessage(q, s, [msg |-> m, to |-> b])
    PROVE  IInv'
<1> DEFINE p == [msg |-> m, to |-> b]
<1>1. s \in Shape
  BY QuestionsAssumption
<1>2. p \in Parcel /\ p.msg = m
  BY DEF Parcel, Words
<1>3. HoldMessage(q, s, p)
  OBVIOUS
<1> HIDE DEF p
<1>4. /\ OpenQuestion(q, s) /\ p.msg \in Words /\ p.msg \notin sent \cup {q}
      /\ sent' = sent \cup {q, p.msg} /\ cards' = cards \cup {q}
      /\ held' = [held EXCEPT ![q] = p]
      /\ UNCHANGED <<pc, due, stale, deciding, fate, offers, acked, replies, seen,
                     accepted, result, said, world>>
  BY <1>2, <1>3 DEF HoldMessage, wait
<1> QED  BY <1>1, <1>2, <1>4, OpenStep

(* A step that what the invariant speaks of stands through. *)
LEMMA QuietStep ==
    ASSUME IInv, TypeOK',
           UNCHANGED <<open, shape, cards, held, fate, sent, inbox, acked, pc, seen, accepted,
                       result, heldFor, closure, routes>>
    PROVE  IInv'
BY SizedFrame, BornFrame, CarriedFrame, KnownFrame, OneCloserFrame, SingleFrame,
   AskingFrame, HeldForFrame, WaitedFrame, RoutedFrame, KeptFrame DEF IInv

(* Time, looks at a card or a queue and the daemon's own troubles. *)
LEMMA QuietSteps ==
    ASSUME IInv,
           \/ \E q \in Questions : Expires(q) \/ TurnsStale(q) \/ Decide(q) \/ DecideNothing(q)
           \/ StoreFails \/ Offer \/ Abort \/ UNCHANGED vars
           \/ \E a \in Agents : Peek(a)
    PROVE  IInv'
<1> USE DEF IInv, book, card, mail, wait, said, world
<1>1. ASSUME NEW q \in Questions, Expires(q) PROVE IInv'
  <2>1. TypeOK'
    BY <1>1 DEF TypeOK, Expires
  <2> QED  BY <1>1, <2>1, QuietStep DEF Expires
<1>2. ASSUME NEW q \in Questions, TurnsStale(q) PROVE IInv'
  <2>1. TypeOK'
    BY <1>2 DEF TypeOK, TurnsStale
  <2> QED  BY <1>2, <2>1, QuietStep DEF TurnsStale
<1>3. ASSUME NEW q \in Questions, Decide(q) PROVE IInv'
  <2>1. q \in cards
    BY <1>3 DEF Decide, Carried
  <2>2. TypeOK'
    BY <1>3, <2>1 DEF TypeOK, Decide
  <2> QED  BY <1>3, <2>2, QuietStep DEF Decide
<1>4. ASSUME NEW q \in Questions, DecideNothing(q) PROVE IInv'
  <2>1. TypeOK'
    BY <1>4 DEF TypeOK, DecideNothing
  <2> QED  BY <1>4, <2>1, QuietStep DEF DecideNothing
<1>5. CASE StoreFails \/ Offer \/ Abort \/ UNCHANGED vars
  <2>1. left' \in 0..MaxDisturbances /\ mode' \in {"ok", "failed", "fenced"}
    <3>1. left \in 0..MaxDisturbances /\ mode \in {"ok", "failed", "fenced"}
      BY DEF TypeOK
    <3> QED  BY <1>5, <3>1, SpendIs DEF StoreFails, Fails, Offer, Abort, vars
  <2>2. TypeOK'
    BY <1>5, <2>1 DEF TypeOK, StoreFails, Offer, Abort, vars
  <2> QED  BY <1>5, <2>2, QuietStep DEF StoreFails, Offer, Abort, vars
<1>6. ASSUME NEW a \in Agents, Peek(a) PROVE IInv'
  <2>1. Visible(inbox[a], Hidden) \subseteq Messages
    BY DEF Visible, TypeOK
  <2>2. offers' \subseteq Messages /\ mode' \in {"ok", "failed", "fenced"}
    BY <1>6, <2>1 DEF Peek, Note, TypeOK
  <2>3. left' \in 0..MaxDisturbances
    BY <1>6, SpendIs DEF Peek, TypeOK
  <2>4. TypeOK'
    BY <1>6, <2>2, <2>3 DEF TypeOK, Peek
  <2> QED  BY <1>6, <2>4, QuietStep DEF Peek
<1> QED  BY <1>1, <1>2, <1>3, <1>4, <1>5, <1>6

(* Where an ask moves on to says nothing about questions and cards. *)
LEMMA MovesOn ==
    ASSUME IInv, NEW q \in Questions, pc[q] # "none", NEW x, pc' = [pc EXCEPT ![q] = x],
           UNCHANGED <<open, shape, cards, held, fate, sent, inbox, closure>>
    PROVE  /\ Born' /\ Carried' /\ q \notin cards /\ q \in sent
           /\ pc'[q] = x /\ \A r \in Questions \ {q} : pc'[r] = pc[r]
<1>1. pc'[q] = x /\ \A r \in Questions \ {q} : pc'[r] = pc[r]
  BY DEF IInv, TypeOK
<1>2. q \notin cards /\ q \in sent
  BY DEF IInv, Carried, Born
<1>3. Born'
  BY <1>1, <1>2 DEF IInv, Born
<1>4. Carried'
  BY <1>1, <1>2 DEF IInv, Carried
<1> QED  BY <1>1, <1>2, <1>3, <1>4

(* An ask reads a reply from the bus and keeps it if it may. *)
LEMMA ReadReplyStep == ASSUME IInv, NEW q \in Questions, ReadReply(q) PROVE IInv'
<1> USE DEF IInv, book, card, mail, wait, said, world
<1> DEFINE m == Head(replies[q])
           kept == IF m = accepted[q] \/ Cardinality(seen[q]) < MaxCandidates
                   THEN seen[q] \cup {m} ELSE seen[q]
           on == Turn(accepted[q], kept)
<1>1. /\ pc[q] = "select" /\ replies[q] # <<>>
      /\ replies' = [replies EXCEPT ![q] = Tail(@)]
      /\ seen' = [seen EXCEPT ![q] = kept] /\ pc' = [pc EXCEPT ![q] = on]
      /\ UNCHANGED <<book, card, mail, accepted, result, said, world>>
  BY DEF ReadReply
<1>2. m \in Messages /\ Tail(replies[q]) \in Seq(Messages)
  <2>1. replies[q] \in Seq(Messages)
    BY DEF TypeOK
  <2> QED  BY <1>1, <2>1
<1>3. /\ seen[q] \subseteq Messages /\ IsFiniteSet(seen[q]) /\ Cardinality(seen[q]) <= MaxCandidates
      /\ Cardinality(seen[q]) \in Nat
  BY <1>1, FS_CardinalityType DEF TypeOK, Sized
<1>4. on \in {"select", "hand", "recover"} /\ (on \in {"hand", "recover"} => accepted[q] # None)
  BY DEF Turn
<1>5. /\ kept \subseteq Messages /\ IsFiniteSet(kept) /\ Cardinality(kept) <= MaxCandidates + 1
      /\ on # "hand" => Cardinality(kept) <= MaxCandidates
  <2>1. /\ IsFiniteSet(seen[q] \cup {m})
        /\ Cardinality(seen[q] \cup {m}) \in {Cardinality(seen[q]), Cardinality(seen[q]) + 1}
    BY <1>3, FS_AddElement
  <2>2. CASE m = accepted[q]
    <3>1. accepted[q] # None /\ accepted[q] \in kept /\ kept = seen[q] \cup {m}
      BY <1>2, <2>2, QuestionsAssumption
    <3>2. on = "hand"
      BY <3>1 DEF Turn
    <3> HIDE DEF m, kept, on
    <3> QED  BY <1>2, <1>3, <2>1, <3>1, <3>2, QuestionsAssumption
  <2>3. CASE m # accepted[q] /\ Cardinality(seen[q]) < MaxCandidates
    <3>1. kept = seen[q] \cup {m}
      BY <2>3
    <3> HIDE DEF m, kept, on
    <3> QED  BY <1>2, <1>3, <2>1, <2>3, <3>1, QuestionsAssumption
  <2>4. CASE m # accepted[q] /\ ~(Cardinality(seen[q]) < MaxCandidates)
    <3>1. kept = seen[q]
      BY <2>4
    <3> HIDE DEF m, kept, on
    <3> QED  BY <1>3, <3>1, QuestionsAssumption
  <2> QED  BY <2>2, <2>3, <2>4
<1> HIDE DEF m, kept, on
<1>6. /\ Born' /\ Carried'
      /\ pc'[q] = on /\ \A r \in Questions \ {q} : pc'[r] = pc[r]
  BY <1>1, MovesOn
<1>7. /\ seen'[q] = kept /\ \A r \in Questions \ {q} : seen'[r] = seen[r]
      /\ seen' \in [Questions -> SUBSET Messages]
  BY <1>1, <1>5 DEF TypeOK
<1>8. TypeOK'
  <2>1. pc' \in [Questions -> Waiting \cup {"none", "done"}]
    BY <1>1, <1>4 DEF TypeOK, Waiting
  <2>2. replies' \in [Questions -> Seq(Messages)]
    BY <1>1, <1>2 DEF TypeOK
  <2>3. \A r \in Questions : Cardinality(seen'[r]) <= MaxCandidates + 1
    BY <1>5, <1>7 DEF TypeOK
  <2> QED  BY <1>1, <1>7, <2>1, <2>2, <2>3 DEF TypeOK
<1>9. Sized'
  BY <1>1, <1>4, <1>5, <1>6, <1>7 DEF Sized
<1>10. Asking'
  BY <1>1, <1>4, <1>6 DEF Asking
<1>11. HeldForAWaiter'
  BY <1>1, <1>4, <1>6 DEF HeldForAWaiter, Waiting, TypeOK
<1>12. Waited'
  BY <1>1, <1>4, <1>6 DEF Waited
<1> QED  BY <1>1, <1>6, <1>8, <1>9, <1>10, <1>11, <1>12, KnownFrame, OneCloserFrame,
            SingleFrame, RoutedFrame, KeptFrame

(* An ask reads what closed its question. *)
LEMMA ReadEventStep == ASSUME IInv, NEW q \in Questions, ReadEvent(q) PROVE IInv'
<1> USE DEF IInv, book, card, mail, wait, said, world
<1> DEFINE why == Head(closure[q])
<1>1. /\ pc[q] = "select" /\ accepted[q] = None /\ closure[q] # <<>>
      /\ UNCHANGED <<book, card, mail, replies, seen, said, world>>
  BY DEF ReadEvent
<1>2. q \notin cards
  BY <1>1 DEF Carried
<1>3. closure[q] = <<why>> /\ why \in Closings \cup Messages
  BY <1>1, <1>2, OnlyHead DEF TypeOK, Single
<1>4. result[q] # "answer"
  BY <1>1 DEF Asking
<1>5. CASE why \in Messages /\ accepted' = [accepted EXCEPT ![q] = why]
           /\ pc' = [pc EXCEPT ![q] = Turn(why, seen[q])] /\ UNCHANGED result
  <2> DEFINE on == Turn(why, seen[q])
  <2>1. on \in {"hand", "recover"} /\ why # None
    BY <1>5, QuestionsAssumption DEF Turn
  <2> HIDE DEF on, why
  <2>2. pc' = [pc EXCEPT ![q] = on]
    BY <1>5 DEF on
  <2>3. /\ Born' /\ Carried'
        /\ pc'[q] = on /\ \A r \in Questions \ {q} : pc'[r] = pc[r]
    BY <1>1, <2>2, MovesOn
  <2>4. accepted'[q] = why /\ \A r \in Questions \ {q} : accepted'[r] = accepted[r]
    BY <1>5 DEF TypeOK
  <2>5. TypeOK'
    <3>1. pc' \in [Questions -> Waiting \cup {"none", "done"}]
      BY <2>1, <2>2 DEF TypeOK, Waiting
    <3>2. accepted' \in [Questions -> Messages \cup {None}]
      BY <1>5 DEF TypeOK
    <3> QED  BY <1>1, <1>5, <3>1, <3>2 DEF TypeOK
  <2>6. Sized'
    BY <1>1, <2>1, <2>3 DEF Sized
  <2>7. Asking'
    <3> SUFFICES ASSUME NEW r \in Questions
                 PROVE  /\ pc'[r] = "none" => accepted'[r] = None /\ result[r] = "none"
                        /\ accepted'[r] # None => closure[r] = <<accepted'[r]>>
                        /\ pc'[r] \in {"recover", "hand"} => accepted'[r] # None
                        /\ result[r] = "answer" => accepted'[r] # None
                        /\ result[r] = "cancelled" => closure[r] = <<"cancelled">>
      BY <1>1, <1>5 DEF Asking
    <3>1. CASE r = q
      BY <1>3, <2>1, <2>3, <2>4, <3>1 DEF Asking
    <3>2. CASE r # q
      BY <2>3, <2>4, <3>2 DEF Asking
    <3> QED  BY <3>1, <3>2
  <2>8. HeldForAWaiter'
    BY <1>1, <2>1, <2>3 DEF HeldForAWaiter, Waiting, TypeOK
  <2>9. Waited'
    BY <1>1, <2>3 DEF Waited
  <2>10. Routed'
    BY <1>1, <1>4, <1>5, <2>4 DEF Routed
  <2> QED  BY <1>1, <2>3, <2>5, <2>6, <2>7, <2>8, <2>9, <2>10, KnownFrame, OneCloserFrame,
              SingleFrame, KeptFrame
<1>6. CASE /\ result' = [result EXCEPT ![q] =
                            IF why = "cancelled" THEN "cancelled" ELSE "timeout"]
           /\ pc' = [pc EXCEPT ![q] = "ending"] /\ UNCHANGED accepted
  <2>1. /\ Born' /\ Carried'
        /\ pc'[q] = "ending" /\ \A r \in Questions \ {q} : pc'[r] = pc[r]
    BY <1>1, <1>6, MovesOn
  <2>2. /\ result'[q] = IF why = "cancelled" THEN "cancelled" ELSE "timeout"
        /\ \A r \in Questions \ {q} : result'[r] = result[r]
    BY <1>6 DEF TypeOK
  <2> HIDE DEF why
  <2>3. TypeOK'
    <3>1. pc' \in [Questions -> Waiting \cup {"none", "done"}]
      BY <1>6 DEF TypeOK, Waiting
    <3>2. result' \in [Questions -> Results]
      BY <1>6 DEF TypeOK, Results
    <3> QED  BY <1>1, <1>6, <3>1, <3>2 DEF TypeOK
  <2>4. Sized'
    BY <1>1, <2>1 DEF Sized
  <2>5. Asking'
    <3> SUFFICES ASSUME NEW r \in Questions
                 PROVE  /\ pc'[r] = "none" => accepted[r] = None /\ result'[r] = "none"
                        /\ accepted[r] # None => closure[r] = <<accepted[r]>>
                        /\ pc'[r] \in {"recover", "hand"} => accepted[r] # None
                        /\ result'[r] = "answer" => accepted[r] # None
                        /\ result'[r] = "cancelled" => closure[r] = <<"cancelled">>
      BY <1>1, <1>6 DEF Asking
    <3>1. CASE r = q
      BY <1>1, <1>3, <2>1, <2>2, <3>1
    <3>2. CASE r # q
      BY <2>1, <2>2, <3>2 DEF Asking
    <3> QED  BY <3>1, <3>2
  <2>6. HeldForAWaiter'
    BY <1>1, <2>1 DEF HeldForAWaiter, Waiting, TypeOK
  <2>7. Waited'
    BY <1>1, <2>1 DEF Waited
  <2>8. Routed'
    BY <1>1, <1>6, <2>2 DEF Routed
  <2> QED  BY <1>1, <2>1, <2>3, <2>4, <2>5, <2>6, <2>7, <2>8, KnownFrame, OneCloserFrame,
              SingleFrame, KeptFrame
<1> QED  BY <1>5, <1>6 DEF ReadEvent

(* An ask looks for the answer it did not keep in the queue. *)
LEMMA RecoverStep == ASSUME IInv, NEW q \in Questions, Recover(q) PROVE IInv'
<1> USE DEF IInv, book, card, mail, wait, said, world
<1>1. pc[q] = "recover" /\ UNCHANGED <<book, card, mail, replies, seen, accepted, result, said, world>>
  BY DEF Recover
<1>2. PICK on \in {"hand", "select"} : pc' = [pc EXCEPT ![q] = on]
  BY DEF Recover
<1>3. /\ Born' /\ Carried'
      /\ pc'[q] = on /\ \A r \in Questions \ {q} : pc'[r] = pc[r]
  BY <1>1, <1>2, MovesOn
<1>4. accepted[q] # None
  BY <1>1 DEF Asking
<1>5. TypeOK'
  <2>1. pc' \in [Questions -> Waiting \cup {"none", "done"}]
    BY <1>2 DEF TypeOK, Waiting
  <2> QED  BY <1>1, <2>1 DEF TypeOK
<1>6. Sized'
  BY <1>1, <1>3 DEF Sized
<1>7. Asking'
  BY <1>1, <1>3, <1>4 DEF Asking
<1>8. HeldForAWaiter'
  BY <1>1, <1>3 DEF HeldForAWaiter, Waiting, TypeOK
<1>9. Waited'
  BY <1>1, <1>3 DEF Waited
<1> QED  BY <1>1, <1>3, <1>5, <1>6, <1>7, <1>8, <1>9, KnownFrame, OneCloserFrame,
            SingleFrame, RoutedFrame, KeptFrame

(* The wait ends without an answer. *)
LEMMA EndWaitStep ==
    ASSUME IInv, NEW q \in Questions, Deadline(q) \/ Disconnect(q) \/ Lag(q)
    PROVE  IInv'
<1> USE DEF IInv, book, card, mail, wait, said, world
<1>1. PICK why \in {"timeout", "gone", "lost"} : EndWait(q, why)
  BY DEF Deadline, Disconnect, Lag
<1>2. /\ pc[q] = "select" /\ result' = [result EXCEPT ![q] = why]
      /\ pc' = [pc EXCEPT ![q] = "ending"]
      /\ UNCHANGED <<book, card, mail, replies, seen, accepted, said, mode>>
  BY <1>1 DEF EndWait
<1>3. /\ Born' /\ Carried'
      /\ pc'[q] = "ending" /\ \A r \in Questions \ {q} : pc'[r] = pc[r]
  BY <1>2, MovesOn
<1>4. result'[q] = why /\ \A r \in Questions \ {q} : result'[r] = result[r]
  BY <1>2 DEF TypeOK
<1>5. TypeOK'
  <2>1. pc' \in [Questions -> Waiting \cup {"none", "done"}]
    BY <1>2 DEF TypeOK, Waiting
  <2>2. result' \in [Questions -> Results]
    BY <1>2 DEF TypeOK, Results
  <2>3. left' \in 0..MaxDisturbances
    BY SpendIs DEF TypeOK, Deadline, Disconnect, Lag
  <2> QED  BY <1>2, <2>1, <2>2, <2>3 DEF TypeOK
<1>6. Sized'
  BY <1>2, <1>3 DEF Sized
<1>7. Asking'
  <2> SUFFICES ASSUME NEW r \in Questions
               PROVE  /\ pc'[r] = "none" => accepted[r] = None /\ result'[r] = "none"
                      /\ accepted[r] # None => closure[r] = <<accepted[r]>>
                      /\ pc'[r] \in {"recover", "hand"} => accepted[r] # None
                      /\ result'[r] = "answer" => accepted[r] # None
                      /\ result'[r] = "cancelled" => closure[r] = <<"cancelled">>
    BY <1>2 DEF Asking
  <2>1. CASE r = q
    BY <1>2, <1>3, <1>4, <2>1 DEF Asking
  <2>2. CASE r # q
    BY <1>3, <1>4, <2>2 DEF Asking
  <2> QED  BY <2>1, <2>2
<1>8. HeldForAWaiter'
  BY <1>2, <1>3 DEF HeldForAWaiter, Waiting, TypeOK
<1>9. Waited'
  BY <1>2, <1>3 DEF Waited
<1>10. Routed'
  BY <1>2, <1>4 DEF Routed
<1> QED  BY <1>2, <1>3, <1>5, <1>6, <1>7, <1>8, <1>9, <1>10, KnownFrame, OneCloserFrame,
            SingleFrame, KeptFrame

(* The answer an ask returns is the one held for it. *)
LEMMA HandStep == ASSUME IInv, NEW q \in Questions, Hand(q) PROVE IInv'
<1> USE DEF IInv, book, card, mail, wait, said, world
<1> DEFINE m == accepted[q]
           queued == {m} \cap Elements(inbox[shape[q].from])
<1>1. /\ pc[q] = "hand" /\ pc' = [pc EXCEPT ![q] = "ending"]
      /\ UNCHANGED <<book, card, sent, inbox, acked, replies, seen, accepted, closure>>
  BY DEF Hand
<1>2. m \in Messages /\ closure[q] = <<m>> /\ heldFor[m] = q /\ q # None
  <2>1. m # None /\ m \in Messages /\ closure[q] = <<m>>
    BY <1>1 DEF Asking, TypeOK
  <2>2. heldFor[m] = q
    BY <1>1, <2>1 DEF Waited
  <2>3. q # None
    BY QuestionsAssumption
  <2> QED  BY <2>1, <2>2, <2>3
<1>3. /\ Born' /\ Carried'
      /\ pc'[q] = "ending" /\ \A r \in Questions \ {q} : pc'[r] = pc[r]
  BY <1>1, MovesOn
<1>4. pc' \in [Questions -> Waiting \cup {"none", "done"}]
  BY <1>1 DEF TypeOK, Waiting
<1>5. Sized'
  BY <1>1, <1>3 DEF Sized
<1>6. routes[m] = <<>>
  BY <1>2 DEF Routed
<1>7. \A x \in Messages : heldFor[x] = q => x = m
  BY <1>2, OneMessage DEF HeldForAWaiter
<1>8. CASE /\ result' = [result EXCEPT ![q] = "answer"]
           /\ offers' = IF heldFor[m] # None /\ Admitted THEN offers \cup queued ELSE offers
           /\ routes' = IF heldFor[m] # None /\ Admitted
                        THEN [routes EXCEPT ![m] = Append(@, "tool")] ELSE routes
           /\ heldFor' = LetGo({m})
           /\ UNCHANGED world
  <2>1. result'[q] = "answer" /\ \A r \in Questions \ {q} : result'[r] = result[r]
    BY <1>8 DEF TypeOK
  <2>2. heldFor'[m] = None /\ \A x \in Messages \ {m} : heldFor'[x] = heldFor[x]
    BY <1>2, <1>8 DEF LetGo
  <2>3. /\ routes'[m] = <<>> \/ routes'[m] = <<"tool">>
        /\ \A x \in Messages \ {m} : routes'[x] = routes[x]
    BY <1>2, <1>6, <1>8, AppendFirst DEF TypeOK
  <2>4. TypeOK'
    <3>1. result' \in [Questions -> Results]
      BY <1>8 DEF TypeOK, Results
    <3>2. offers' \subseteq Messages
      BY <1>2, <1>8 DEF TypeOK
    <3>3. heldFor' \in [Messages -> Questions \cup {None}]
      BY <1>8 DEF TypeOK, LetGo
    <3>4. routes' \in [Messages -> Seq({"tool", "queue"})]
      <4>1. routes \in [Messages -> Seq({"tool", "queue"})]
        BY DEF TypeOK
      <4>2. Append(routes[m], "tool") \in Seq({"tool", "queue"})
        BY <1>2, <4>1
      <4> QED  BY <1>2, <1>8, <4>1, <4>2
    <3> QED  BY <1>1, <1>4, <1>8, <3>1, <3>2, <3>3, <3>4 DEF TypeOK
  <2>5. Known'
    <3>1. m \in sent
      BY <1>2 DEF Known
    <3> QED  BY <1>1, <2>3, <3>1 DEF Known
  <2>6. Asking'
    <3> SUFFICES ASSUME NEW r \in Questions
                 PROVE  /\ pc'[r] = "none" => accepted[r] = None /\ result'[r] = "none"
                        /\ accepted[r] # None => closure[r] = <<accepted[r]>>
                        /\ pc'[r] \in {"recover", "hand"} => accepted[r] # None
                        /\ result'[r] = "answer" => accepted[r] # None
                        /\ result'[r] = "cancelled" => closure[r] = <<"cancelled">>
      BY <1>1 DEF Asking
    <3>1. CASE r = q
      BY <1>1, <1>3, <2>1, <3>1 DEF Asking
    <3>2. CASE r # q
      BY <1>3, <2>1, <3>2 DEF Asking
    <3> QED  BY <3>1, <3>2
  <2> HIDE DEF m
  <2>7. HeldForAWaiter'
    <3> SUFFICES ASSUME NEW x \in Messages, heldFor'[x] # None
                 PROVE  pc'[heldFor'[x]] \in Waiting /\ closure'[heldFor'[x]] = <<x>>
      BY DEF HeldForAWaiter
    <3>1. heldFor'[x] = heldFor[x] /\ heldFor[x] # q /\ heldFor[x] \in Questions
      BY <1>7, <2>2 DEF TypeOK
    <3> QED  BY <1>1, <1>3, <3>1 DEF HeldForAWaiter
  <2>8. Waited'
    <3> SUFFICES ASSUME NEW r \in Questions, NEW x \in Messages, closure[r] = <<x>>,
                        pc'[r] \in {"select", "recover", "hand"}
                 PROVE  heldFor'[x] = r
      BY <1>1 DEF Waited
    <3>1. r # q /\ heldFor[x] = r
      BY <1>3 DEF Waited
    <3> QED  BY <1>2, <2>2, <3>1
  <2>9. Routed'
    <3> SUFFICES ASSUME NEW x \in Messages
                 PROVE  /\ Len(routes'[x]) <= 1
                        /\ heldFor'[x] # None => routes'[x] = <<>>
                        /\ \A r \in Questions :
                              accepted[r] = x /\ result'[r] = "answer" =>
                                  heldFor'[x] = None /\ routes'[x] # <<"queue">>
      BY <1>1 DEF Routed
    <3>1. CASE x = m
      <4>1. Len(routes'[x]) <= 1
        <5>1. CASE routes'[m] = <<>>
          BY <3>1, <5>1
        <5>2. CASE routes'[m] = <<"tool">>
          BY <3>1, <5>2
        <5> QED  BY <2>3, <5>1, <5>2
      <4>2. routes'[x] # <<"queue">>
        BY <2>3, <3>1, OneMessage
      <4> QED  BY <2>2, <3>1, <4>1, <4>2
    <3>2. CASE x # m
      <4>1. accepted[q] # x
        BY <3>2 DEF m
      <4> QED  BY <2>1, <2>2, <2>3, <3>2, <4>1 DEF Routed
    <3> QED  BY <3>1, <3>2
  <2> QED  BY <1>1, <1>3, <1>5, <2>4, <2>5, <2>6, <2>7, <2>8, <2>9, OneCloserFrame,
              SingleFrame, KeptFrame
<1>9. CASE /\ result' = [result EXCEPT ![q] = "unrecorded"]
           /\ \/ mode = "failed" /\ UNCHANGED <<offers, world>>
              \/ Fails /\ offers' \in {offers, offers \cup queued}
           /\ UNCHANGED <<heldFor, routes>>
  <2>1. result'[q] = "unrecorded" /\ \A r \in Questions \ {q} : result'[r] = result[r]
    BY <1>9 DEF TypeOK
  <2>2. TypeOK'
    <3>1. result' \in [Questions -> Results]
      BY <1>9 DEF TypeOK, Results
    <3>2. offers' \subseteq Messages
      BY <1>2, <1>9 DEF TypeOK
    <3>3. left' \in 0..MaxDisturbances
      BY <1>9, SpendIs DEF TypeOK, Fails
    <3>4. mode' \in {"ok", "failed", "fenced"}
      BY <1>9 DEF TypeOK, Fails
    <3> QED  BY <1>1, <1>4, <1>9, <3>1, <3>2, <3>3, <3>4 DEF TypeOK
  <2>3. Asking'
    <3> SUFFICES ASSUME NEW r \in Questions
                 PROVE  /\ pc'[r] = "none" => accepted[r] = None /\ result'[r] = "none"
                        /\ accepted[r] # None => closure[r] = <<accepted[r]>>
                        /\ pc'[r] \in {"recover", "hand"} => accepted[r] # None
                        /\ result'[r] = "answer" => accepted[r] # None
                        /\ result'[r] = "cancelled" => closure[r] = <<"cancelled">>
      BY <1>1 DEF Asking
    <3>1. CASE r = q
      BY <1>1, <1>3, <2>1, <3>1 DEF Asking
    <3>2. CASE r # q
      BY <1>3, <2>1, <3>2 DEF Asking
    <3> QED  BY <3>1, <3>2
  <2>4. HeldForAWaiter'
    BY <1>1, <1>3, <1>9 DEF HeldForAWaiter, Waiting, TypeOK
  <2>5. Waited'
    BY <1>1, <1>3, <1>9 DEF Waited
  <2>6. Routed'
    BY <1>1, <1>9, <2>1 DEF Routed
  <2> QED  BY <1>1, <1>3, <1>5, <1>9, <2>2, <2>3, <2>4, <2>5, <2>6, KnownFrame,
              OneCloserFrame, SingleFrame, KeptFrame
<1> QED  BY <1>8, <1>9 DEF Hand

(* What is held for an ask that ends goes to the queue. *)
LEMMA EndStep == ASSUME IInv, NEW q \in Questions, End(q) PROVE IInv'
<1> USE DEF IInv, book, card, mail, wait, said, world
<1> DEFINE over == {m \in Messages : heldFor[m] = q}
<1>1. /\ pc[q] = "ending" /\ pc' = [pc EXCEPT ![q] = "done"]
      /\ heldFor' = LetGo(over) /\ Emit(over, "queue")
      /\ replies' = [replies EXCEPT ![q] = <<>>]
      /\ seen' = [seen EXCEPT ![q] = {}]
      /\ UNCHANGED <<book, card, mail, accepted, result, closure>>
  BY DEF End
<1>2. /\ \A m \in over : m \in Messages /\ heldFor[m] = q
      /\ \A m \in Messages \ over : heldFor[m] # q
      /\ over \in SUBSET Messages /\ q # None
  BY QuestionsAssumption
<1> HIDE DEF over
<1>3. /\ Born' /\ Carried'
      /\ pc'[q] = "done" /\ \A r \in Questions \ {q} : pc'[r] = pc[r]
  BY <1>1, MovesOn
<1>4. /\ mode' \in {"ok", "failed", "fenced"} /\ left' \in 0..MaxDisturbances
      /\ routes' \in [Messages -> Seq({"tool", "queue"})]
      /\ \A m \in Messages :
            \/ routes'[m] = routes[m]
            \/ m \in over /\ routes'[m] = Append(routes[m], "queue")
  BY <1>1, <1>2, EmitIs
<1>5. \A m \in over : /\ m \in Messages /\ routes[m] = <<>> /\ closure[q] = <<m>>
                      /\ routes'[m] = <<>> \/ routes'[m] = <<"queue">>
  <2> SUFFICES ASSUME NEW m \in over
               PROVE  /\ m \in Messages /\ routes[m] = <<>> /\ closure[q] = <<m>>
                      /\ routes'[m] = <<>> \/ routes'[m] = <<"queue">>
    OBVIOUS
  <2>1. m \in Messages /\ heldFor[m] = q /\ heldFor[m] # None
    BY <1>2
  <2>2. routes[m] = <<>>
    BY <2>1 DEF Routed
  <2>3. closure[q] = <<m>>
    BY <2>1 DEF HeldForAWaiter
  <2> QED  BY <1>4, <2>1, <2>2, <2>3, AppendFirst
<1>6. \A m \in Messages : /\ m \in over => heldFor'[m] = None
                          /\ m \notin over => heldFor'[m] = heldFor[m] /\ routes'[m] = routes[m]
  BY <1>1, <1>4 DEF LetGo
<1>7. seen'[q] = {} /\ \A r \in Questions \ {q} : seen'[r] = seen[r]
  BY <1>1 DEF TypeOK
<1>8. TypeOK'
  <2>1. pc' \in [Questions -> Waiting \cup {"none", "done"}]
    BY <1>1 DEF TypeOK
  <2>2. heldFor' \in [Messages -> Questions \cup {None}]
    BY <1>1 DEF TypeOK, LetGo
  <2>3. replies' \in [Questions -> Seq(Messages)]
    BY <1>1 DEF TypeOK
  <2>4. seen' \in [Questions -> SUBSET Messages]
    BY <1>1 DEF TypeOK
  <2>5. \A r \in Questions : Cardinality(seen'[r]) <= MaxCandidates + 1
    <3>1. Cardinality({}) = 0 /\ 0 <= MaxCandidates + 1
      BY FS_EmptySet, QuestionsAssumption
    <3>2. \A r \in Questions : Cardinality(seen[r]) <= MaxCandidates + 1
      BY DEF TypeOK
    <3> QED  BY <1>7, <3>1, <3>2
  <2> QED  BY <1>1, <1>4, <2>1, <2>2, <2>3, <2>4, <2>5 DEF TypeOK
<1>9. Sized'
  BY <1>1, <1>3, <1>7, FS_EmptySet, QuestionsAssumption DEF Sized
<1>10. Known'
  BY <1>1, <1>5, <1>6 DEF Known
<1>11. Asking'
  BY <1>1, <1>3 DEF Asking
<1>12. HeldForAWaiter'
  <2> SUFFICES ASSUME NEW x \in Messages, heldFor'[x] # None
               PROVE  pc'[heldFor'[x]] \in Waiting /\ closure'[heldFor'[x]] = <<x>>
    BY DEF HeldForAWaiter
  <2>1. heldFor'[x] = heldFor[x] /\ heldFor[x] # q /\ heldFor[x] \in Questions
    BY <1>2, <1>6 DEF TypeOK
  <2> QED  BY <1>1, <1>3, <2>1 DEF HeldForAWaiter
<1>13. Waited'
  <2> SUFFICES ASSUME NEW r \in Questions, NEW x \in Messages, closure[r] = <<x>>,
                      pc'[r] \in {"select", "recover", "hand"}
               PROVE  heldFor'[x] = r
    BY <1>1 DEF Waited
  <2>1. r # q /\ heldFor[x] = r
    BY <1>3 DEF Waited
  <2> QED  BY <1>2, <1>6, <2>1
<1>14. Routed'
  <2> SUFFICES ASSUME NEW x \in Messages
               PROVE  /\ Len(routes'[x]) <= 1
                      /\ heldFor'[x] # None => routes'[x] = <<>>
                      /\ \A r \in Questions :
                            accepted[r] = x /\ result[r] = "answer" =>
                                heldFor'[x] = None /\ routes'[x] # <<"queue">>
    BY <1>1 DEF Routed
  <2>1. CASE x \in over
    <3>1. Len(routes'[x]) <= 1
      <4>1. CASE routes'[x] = <<>>
        BY <4>1
      <4>2. CASE routes'[x] = <<"queue">>
        BY <4>2
      <4> QED  BY <1>5, <2>1, <4>1, <4>2
    <3>2. ASSUME NEW r \in Questions, accepted[r] = x, result[r] = "answer" PROVE FALSE
      BY <1>2, <2>1, <3>2 DEF Routed
    <3> QED  BY <1>6, <2>1, <3>1, <3>2
  <2>2. CASE x \notin over
    BY <1>6, <2>2 DEF Routed
  <2> QED  BY <2>1, <2>2
<1> QED  BY <1>1, <1>3, <1>8, <1>9, <1>10, <1>11, <1>12, <1>13, <1>14, OneCloserFrame,
            SingleFrame, KeptFrame

(* Messages are acknowledged: an answer among them is not lost by it. *)
LEMMA DeliverStep ==
    ASSUME IInv, NEW a \in Agents, NEW ids \in SUBSET Elements(inbox[a]), Deliver(a, ids),
           offers' \subseteq Messages, mode' \in {"ok", "failed", "fenced"}
    PROVE  IInv'
<1> USE DEF IInv, book, card, mail, wait, said, world
<1>1. /\ inbox' = AckInbox(inbox, a, ids) /\ acked' = acked \cup ids /\ Spend("read")
      /\ UNCHANGED <<book, card, sent, wait, said>>
  BY DEF Deliver
<1>2. /\ inbox' \in [Agents -> Seq(Messages)]
      /\ Len(inbox'[a]) <= Len(inbox[a])
      /\ Elements(inbox'[a]) = Elements(inbox[a]) \ ids
      /\ \A b \in Agents \ {a} : inbox'[b] = inbox[b]
  <2>1. inbox \in Queues(Agents, Messages)
    BY DEF TypeOK, Queues
  <2> DEFINE new == AckInbox(inbox, a, ids)
  <2>2. /\ new \in Queues(Agents, Messages)
        /\ Len(new[a]) <= Len(inbox[a])
        /\ Elements(new[a]) = Elements(inbox[a]) \ ids
        /\ \A b \in Agents \ {a} : new[b] = inbox[b]
    BY <2>1, AckIs
  <2> HIDE DEF new
  <2>3. inbox' = new
    BY <1>1 DEF new
  <2> QED  BY <2>2, <2>3 DEF Queues
<1>3. \A b \in Agents : /\ Elements(inbox'[b]) \subseteq Elements(inbox[b])
                        /\ \A x \in Elements(inbox[b]) : x \in Elements(inbox'[b]) \/ x \in acked'
  BY <1>1, <1>2
<1>4. ids \subseteq Messages
  <2>1. inbox[a] \in Seq(Messages)
    BY DEF TypeOK
  <2>2. \A i \in DOMAIN inbox[a] : inbox[a][i] \in Messages
    BY <2>1
  <2> QED  BY <2>2 DEF Elements
<1>5. TypeOK'
  <2>1. \A b \in Agents : Len(inbox'[b]) <= Capacity
    <3>1. \A b \in Agents : Len(inbox[b]) <= Capacity /\ Len(inbox[b]) \in Nat /\ Len(inbox'[b]) \in Nat
      BY <1>2 DEF TypeOK
    <3> QED  BY <1>2, <3>1, CapacityAssumption
  <2>2. left' \in 0..MaxDisturbances
    BY <1>1, SpendIs DEF TypeOK
  <2>3. acked' \subseteq Messages
    BY <1>1, <1>4 DEF TypeOK
  <2> QED  BY <1>1, <1>2, <2>1, <2>2, <2>3 DEF TypeOK
<1>6. Carried'
  BY <1>1, <1>3 DEF Carried
<1>7. Known'
  BY <1>1, <1>3 DEF Known
<1>8. Kept'
  <2> SUFFICES ASSUME NEW r \in Questions, NEW x \in Messages, closure[r] = <<x>>
               PROVE  x \in acked' \/ x \in Elements(inbox'[shape[r].from])
    BY <1>1 DEF Kept
  <2>1. shape[r] # None
    BY OneMessage DEF Born
  <2>2. shape[r].from \in Agents
    BY <2>1, ShapeIs
  <2> QED  BY <1>1, <1>3, <2>2 DEF Kept
<1> QED  BY <1>1, <1>5, <1>6, <1>7, <1>8, SizedFrame, BornFrame, OneCloserFrame, SingleFrame,
            AskingFrame, HeldForFrame, WaitedFrame, RoutedFrame

(* The two ways to acknowledge: draining the queue, and naming messages. *)
LEMMA ReadersStep ==
    ASSUME IInv, NEW a \in Agents,
           Drain(a) \/ \E ids \in SUBSET Elements(inbox[a]) : Ack(a, ids)
    PROVE  IInv'
<1>1. CASE Drain(a)
  <2> DEFINE ids == Visible(inbox[a], Hidden)
  <2>1. ids \in SUBSET Elements(inbox[a])
    BY DEF Visible, Elements
  <2>2. Deliver(a, ids) /\ UNCHANGED <<offers, mode>>
    BY <1>1 DEF Drain
  <2> HIDE DEF ids
  <2> QED  BY <2>1, <2>2, DeliverStep DEF IInv, TypeOK
<1>2. ASSUME NEW ids \in SUBSET Elements(inbox[a]), Ack(a, ids) PROVE IInv'
  <2>1. Deliver(a, ids)
    BY <1>2 DEF Ack
  <2>2. offers' \subseteq Messages /\ mode' \in {"ok", "failed", "fenced"}
    BY <1>2 DEF Ack, Note, IInv, TypeOK
  <2> QED  BY <2>1, <2>2, DeliverStep
<1> QED  BY <1>1, <1>2

(* A message goes out of its card into the queue of its recipient. *)
LEMMA ReleaseStep == ASSUME IInv, NEW q \in Questions, Release(q) PROVE IInv'
<1> USE DEF IInv, book, card, mail, wait, said, world
<1> DEFINE qs == IF q \in open THEN {q} ELSE {}
           why == IF q \in due THEN "expired" ELSE "settled"
           m == held[q].msg
           to == {held[q].to}
<1>1. /\ q \in deciding /\ held[q] # None /\ Takes(inbox, held[q].to)
      /\ open' = open \ {q} /\ held' = Unhold({q}) /\ deciding' = deciding \ {q}
      /\ inbox' = Enqueue(inbox, to, m)
      /\ fate' = [fate EXCEPT ![q] = @ \o IF q \in open \cap due
                                          THEN <<"dropped", "released">>
                                          ELSE <<"released">>]
      /\ UNCHANGED <<shape, due, stale, cards, sent, offers, acked, wait, heldFor, routes, world>>
  BY DEF Release
<1>2. /\ q \in cards /\ held[q] \in Parcel /\ m \in Messages /\ m \in sent /\ held[q].to \in Agents
      /\ fate[q] = <<>> /\ q \in sent /\ q \notin open'
  BY <1>1 DEF TypeOK, Carried, Born, Parcel
<1>3. closure' = Close(qs, why)
  <2>1. closure' = IF q \in open THEN Close({q}, why) ELSE closure
    BY DEF Release
  <2>2. q \notin open => closure = Close(qs, why)
    BY DEF Close, TypeOK
  <2> QED  BY <2>1, <2>2
<1>4. qs \in SUBSET (open \cup cards) /\ why \in Closings /\ qs \subseteq {q}
  BY DEF Closings
<1>5. \A b \in to : b \in Agents /\ Takes(inbox, b)
  BY <1>1, <1>2
<1> HIDE DEF qs, why, m, to
<1>6. /\ closure' \in [Questions -> Seq(Closings \cup Messages)]
      /\ \A r \in Questions, x \in Messages : closure'[r] = <<x>> => closure[r] = <<x>>
      /\ \A r \in Questions \ cards :
            /\ Len(closure'[r]) <= 1
            /\ closure[r] # <<>> => closure'[r] = closure[r]
      /\ \A r \in Questions \ qs : closure'[r] = closure[r]
  BY <1>3, <1>4, ClosedSilently
<1>7. \A r \in Questions \ {q} : closure'[r] = closure[r]
  BY <1>4, <1>6
<1>8. /\ inbox' \in [Agents -> Seq(Messages)]
      /\ \A b \in Agents : /\ Len(inbox'[b]) <= Capacity
                           /\ Elements(inbox[b]) \subseteq Elements(inbox'[b])
                           /\ Elements(inbox'[b]) \subseteq Elements(inbox[b]) \cup {m}
  BY <1>1, <1>2, <1>5, SentTo
<1>9. /\ held'[q] = None /\ \A r \in Questions \ {q} : held'[r] = held[r]
      /\ held' \in [Questions -> Parcel \cup {None}]
  BY <1>1 DEF Unhold, TypeOK
<1>10. /\ fate'[q] = <<"released">> \/ fate'[q] = <<"dropped", "released">>
       /\ \A r \in Questions \ {q} : fate'[r] = fate[r]
       /\ fate' \in [Questions -> Seq({"released", "dropped"})]
  <2>1. fate \in [Questions -> Seq({"released", "dropped"})]
    BY DEF TypeOK
  <2>2. <<>> \o <<"released">> = <<"released">>
    OBVIOUS
  <2>3. <<>> \o <<"dropped", "released">> = <<"dropped", "released">>
    OBVIOUS
  <2>4. fate' = [fate EXCEPT ![q] = <<"released">>]
        \/ fate' = [fate EXCEPT ![q] = <<"dropped", "released">>]
    BY <1>1, <1>2, <2>2, <2>3
  <2>5. /\ <<"released">> \in Seq({"released", "dropped"})
        /\ <<"dropped", "released">> \in Seq({"released", "dropped"})
    OBVIOUS
  <2> QED  BY <2>1, <2>4, <2>5
<1>11. \A i, j \in DOMAIN fate'[q] :
          fate'[q][i] = "released" /\ fate'[q][j] = "released" => i = j
  <2>1. CASE fate'[q] = <<"released">>
    BY <2>1
  <2>2. CASE fate'[q] = <<"dropped", "released">>
    BY <2>2
  <2> QED  BY <1>10, <2>1, <2>2
<1>12. open' \subseteq Questions /\ IsFiniteSet(open') /\ Cardinality(open') <= MaxQuestions
  BY <1>1, FewerOpen
<1>13. TypeOK'
  BY <1>1, <1>6, <1>8, <1>9, <1>10, <1>12 DEF TypeOK
<1>14. Sized'
  BY <1>1, <1>12 DEF Sized
<1>15. Born'
  BY <1>1, <1>2, <1>7, <1>10 DEF Born
<1>16. Carried'
  <2>1. \A r \in Questions \ {q} : held[r] # None => held[r].msg # m
    BY <1>1 DEF Carried, m
  <2>2. ASSUME NEW r \in Questions, held'[r] # None
        PROVE  /\ r # q /\ held'[r] = held[r] /\ r \in cards /\ held[r].msg \in sent
               /\ fate'[r] = <<>> /\ \A b \in Agents : held[r].msg \notin Elements(inbox'[b])
    <3>1. r # q /\ held'[r] = held[r] /\ fate'[r] = fate[r]
      BY <1>9, <1>10, <2>2
    <3>2. r \in cards /\ held[r].msg \in sent /\ fate[r] = <<>>
      BY <2>2, <3>1 DEF Carried
    <3>3. \A b \in Agents : held[r].msg \notin Elements(inbox[b])
      BY <2>2, <3>1 DEF Carried
    <3>4. held[r].msg # m
      BY <2>1, <2>2, <3>1
    <3> QED  BY <1>8, <3>1, <3>2, <3>3, <3>4
  <2>3. \A r \in Questions : \A i, j \in DOMAIN fate'[r] :
           fate'[r][i] = "released" /\ fate'[r][j] = "released" => i = j
    BY <1>10, <1>11 DEF Carried
  <2>4. \A r, t \in Questions :
           held'[r] # None /\ held'[t] # None /\ held'[r].msg = held'[t].msg => r = t
    BY <2>2 DEF Carried
  <2> QED  BY <1>1, <2>2, <2>3, <2>4 DEF Carried
<1>17. Known'
  BY <1>1, <1>2, <1>6, <1>8 DEF Known
<1>18. OneCloser'
  BY <1>6 DEF OneCloser
<1>19. Single'
  BY <1>1, <1>6 DEF Single
<1>20. pc[q] = "none" /\ accepted[q] = None /\ result[q] = "none"
  BY <1>2 DEF Carried, Asking
<1>21. Asking'
  BY <1>1, <1>7, <1>20 DEF Asking
<1>22. HeldForAWaiter'
  BY <1>1, <1>7, <1>20 DEF HeldForAWaiter, Waiting, TypeOK
<1>23. Waited'
  BY <1>1, <1>6 DEF Waited
<1>24. Kept'
  <2> SUFFICES ASSUME NEW r \in Questions, NEW x \in Messages, closure'[r] = <<x>>
               PROVE  x \in acked \/ x \in Elements(inbox'[shape[r].from])
    BY <1>1 DEF Kept
  <2>1. closure[r] = <<x>>
    BY <1>6
  <2>2. shape[r] # None
    BY <2>1, OneMessage DEF Born
  <2>3. shape[r].from \in Agents
    BY <2>2, ShapeIs
  <2> QED  BY <1>8, <2>1, <2>3 DEF Kept
<1> QED  BY <1>1, <1>13, <1>14, <1>15, <1>16, <1>17, <1>18, <1>19, <1>21, <1>22, <1>23, <1>24,
            RoutedFrame

(* The daemon starts over: nobody waits and nothing is held for anybody. *)
LEMMA ReloadStep ==
    ASSUME IInv, Reload, left' \in 0..MaxDisturbances,
           \/ UNCHANGED <<held, fate>>
           \/ \E S : held' = Unhold(S) /\ fate' = Settle(S, "dropped")
    PROVE  IInv'
<1> USE DEF IInv, book, card, mail, wait, said, world
<1> DEFINE qs == open \cap due
<1>1. /\ mode' = "ok" /\ open' = open \ due /\ closure' = Close(qs, "expired")
      /\ pc' = [q \in Questions |-> IF q \in Waiters THEN "done" ELSE pc[q]]
      /\ result' = [q \in Questions |-> IF q \in Waiters THEN "gone" ELSE result[q]]
      /\ heldFor' = LetGo(Messages) /\ replies' = [q \in Questions |-> <<>>]
      /\ seen' = [q \in Questions |-> {}] /\ deciding' = {}
      /\ UNCHANGED <<shape, due, stale, cards, mail, accepted, routes>>
  BY DEF Reload
<1>2. qs \in SUBSET (open \cup cards) /\ "expired" \in Closings /\ qs \subseteq open /\ open' \cap qs = {}
  BY <1>1 DEF Closings
<1> HIDE DEF qs
<1>3. /\ closure' \in [Questions -> Seq(Closings \cup Messages)]
      /\ \A r \in Questions, x \in Messages : closure'[r] = <<x>> => closure[r] = <<x>>
      /\ \A r \in Questions \ cards :
            /\ Len(closure'[r]) <= 1
            /\ closure[r] # <<>> => closure'[r] = closure[r]
      /\ \A r \in Questions \ qs : closure'[r] = closure[r]
  BY <1>1, <1>2, ClosedSilently
<1>4. /\ held' \in [Questions -> Parcel \cup {None}]
      /\ fate' \in [Questions -> Seq({"released", "dropped"})]
      /\ \A q \in Questions :
            /\ held'[q] # None => held'[q] = held[q] /\ fate'[q] = fate[q]
            /\ held[q] = None => fate'[q] = fate[q]
            /\ \A i, j \in DOMAIN fate'[q] :
                  fate'[q][i] = "released" /\ fate'[q][j] = "released" => i = j
  <2>1. CASE UNCHANGED <<held, fate>>
    BY <2>1 DEF TypeOK, Carried
  <2>2. CASE \E S : held' = Unhold(S) /\ fate' = Settle(S, "dropped")
    BY <2>2, Settled
  <2> QED  BY <2>1, <2>2
<1>5. open' \subseteq Questions /\ IsFiniteSet(open') /\ Cardinality(open') <= MaxQuestions
  BY <1>1, FewerOpen
<1>6. \A q \in Questions :
         /\ pc'[q] = (IF pc[q] \in Waiting THEN "done" ELSE pc[q])
         /\ result'[q] = (IF pc[q] \in Waiting THEN "gone" ELSE result[q])
         /\ pc'[q] \in {"none", "done"}
  BY <1>1 DEF Waiters, TypeOK
<1>7. \A m \in Messages : heldFor'[m] = None
  BY <1>1 DEF LetGo
<1>8. \A q \in Questions : IsFiniteSet(seen'[q]) /\ Cardinality(seen'[q]) = 0
  BY <1>1, FS_EmptySet
<1>9. TypeOK'
  <2>1. pc' \in [Questions -> Waiting \cup {"none", "done"}]
    BY <1>1 DEF TypeOK
  <2>2. result' \in [Questions -> Results]
    BY <1>1 DEF TypeOK, Results
  <2>3. heldFor' \in [Messages -> Questions \cup {None}]
    BY <1>1 DEF LetGo
  <2>4. replies' \in [Questions -> Seq(Messages)] /\ seen' \in [Questions -> SUBSET Messages]
    BY <1>1
  <2>5. \A r \in Questions : Cardinality(seen'[r]) <= MaxCandidates + 1
    BY <1>8, QuestionsAssumption
  <2>6. deciding' \subseteq cards' /\ mode' \in {"ok", "failed", "fenced"}
    BY <1>1
  <2> QED  BY <1>1, <1>3, <1>4, <1>5, <2>1, <2>2, <2>3, <2>4, <2>5, <2>6 DEF TypeOK
<1>10. Sized'
  BY <1>5, <1>8, QuestionsAssumption DEF Sized
<1>11. Born'
  <2>1. \A q \in Questions : q \notin sent => held[q] = None /\ q \notin qs /\ pc[q] = "none"
    BY <1>2 DEF Born, Carried
  <2>2. \A q \in Questions : pc[q] = "none" => pc'[q] = "none"
    BY <1>6 DEF Waiting
  <2>3. \A q \in open' : q \in open /\ q \notin qs
    BY <1>1, <1>2
  <2> QED  BY <1>1, <1>3, <1>4, <2>1, <2>2, <2>3 DEF Born
<1>12. Carried'
  <2>1. \A q \in Questions : pc[q] = "none" => pc'[q] = "none"
    BY <1>6 DEF Waiting
  <2> QED  BY <1>1, <1>4, <2>1 DEF Carried
<1>13. Known' /\ OneCloser' /\ Kept'
  BY <1>1, <1>3 DEF Known, OneCloser, Kept
<1>14. Single'
  BY <1>1, <1>3 DEF Single
<1>15. Asking'
  <2> SUFFICES ASSUME NEW q \in Questions
               PROVE  /\ pc'[q] = "none" => accepted[q] = None /\ result'[q] = "none"
                      /\ accepted[q] # None => closure'[q] = <<accepted[q]>>
                      /\ pc'[q] \in {"recover", "hand"} => accepted[q] # None
                      /\ result'[q] = "answer" => accepted[q] # None
                      /\ result'[q] = "cancelled" => closure'[q] = <<"cancelled">>
    BY <1>1 DEF Asking
  <2>1. /\ accepted[q] # None => closure[q] = <<accepted[q]>> /\ q \notin cards
        /\ result[q] = "cancelled" => closure[q] = <<"cancelled">> /\ q \notin cards
    BY DEF Asking, Carried
  <2>2. /\ accepted[q] # None => closure'[q] = <<accepted[q]>>
        /\ result[q] = "cancelled" => closure'[q] = <<"cancelled">>
    BY <1>3, <2>1, OneMessage
  <2> QED  BY <1>6, <2>2 DEF Asking, Waiting
<1>16. HeldForAWaiter' /\ Waited'
  BY <1>6, <1>7 DEF HeldForAWaiter, Waited
<1>17. Routed'
  BY <1>1, <1>6, <1>7 DEF Routed
<1> QED  BY <1>9, <1>10, <1>11, <1>12, <1>13, <1>14, <1>15, <1>16, <1>17

(* The two ways to start over: by itself, and as a successor. *)
LEMMA ReloadsStep == ASSUME IInv, Restart \/ Succeed PROVE IInv'
<1>1. left \in 0..MaxDisturbances
  BY DEF IInv, TypeOK
<1>2. CASE Restart
  <2>1. left' \in 0..MaxDisturbances
    BY <1>1, <1>2, SpendIs DEF Restart
  <2>2. Reload /\ \E S : held' = Unhold(S) /\ fate' = Settle(S, "dropped")
    BY <1>2 DEF Restart
  <2> QED  BY <2>1, <2>2, ReloadStep
<1>3. CASE Succeed
  BY <1>1, <1>3, ReloadStep DEF Succeed
<1> QED  BY <1>2, <1>3

(* Every step preserves the invariant. *)
LEMMA IInvStep == ASSUME IInv, [Next]_vars PROVE IInv'
<1>1. ASSUME NEW q \in Questions,
             \/ Expires(q) \/ TurnsStale(q) \/ GoStale(q) \/ Cancel(q)
             \/ Decide(q) \/ Release(q) \/ Drop(q) \/ DecideNothing(q)
             \/ Steps(q) \/ Deadline(q) \/ Disconnect(q) \/ Lag(q)
      PROVE  IInv'
  <2>1. CASE Expires(q) \/ TurnsStale(q) \/ Decide(q) \/ DecideNothing(q)
    BY <2>1, QuietSteps
  <2>2. CASE GoStale(q) \/ Cancel(q) \/ Release(q) \/ Drop(q)
    BY <2>2, GoStaleStep, CancelStep, ReleaseStep, DropStep
  <2>3. CASE Steps(q)
    BY <2>3, ReadReplyStep, ReadEventStep, RecoverStep, HandStep, EndStep DEF Steps
  <2>4. CASE Deadline(q) \/ Disconnect(q) \/ Lag(q)
    BY <2>4, EndWaitStep
  <2> QED  BY <1>1, <2>1, <2>2, <2>3, <2>4
<1>2. ASSUME NEW q \in Questions, NEW s \in Shapes[q], Ask(q, s) PROVE IInv'
  BY <1>2, AskStep
<1>3. ASSUME NEW q \in Questions, NEW s \in Shapes[q], NEW m \in Words, NEW b \in Agents,
             HoldMessage(q, s, [msg |-> m, to |-> b])
      PROVE  IInv'
  BY <1>3, HoldMessageStep
<1>4. ASSUME NEW q \in Questions, NEW m \in Words, NEW a \in Agents \cup {None}, Reply(m, a, q)
      PROVE  IInv'
  BY <1>4, ReplyStep
<1>5. ASSUME NEW a \in Agents, Peek(a) \/ Drain(a) PROVE IInv'
  BY <1>5, QuietSteps, ReadersStep
<1>6. ASSUME NEW a \in Agents, NEW ids \in SUBSET Elements(inbox[a]), Ack(a, ids) PROVE IInv'
  BY <1>6, ReadersStep
<1>7. CASE Expire \/ StoreFails \/ Restart \/ Offer \/ Abort \/ Succeed \/ UNCHANGED vars
  BY <1>7, ExpireStep, QuietSteps, ReloadsStep
<1> QED  BY <1>1, <1>2, <1>3, <1>4, <1>5, <1>6, <1>7 DEF Next

(* It holds at all times. *)
LEMMA Invariance == Spec => []IInv
<1>1. IInv /\ [Next]_vars => IInv'
  BY IInvStep
<1> QED  BY <1>1, IInvInit, PTL DEF Spec

(* Every variable has its type: no queue outgrows INBOX_CAPACITY, no more  *)
(* than MAX_QUESTIONS are open, no ask keeps more than                     *)
(* MAX_ANSWER_CANDIDATES replies and the one its closure named             *)
(* (AnswerCandidates, daemon/humans.rs).                                   *)
THEOREM TypeCorrect == Spec => []TypeOK
<1>1. IInv => TypeOK
  BY DEF IInv
<1> QED  BY <1>1, Invariance, PTL

(* Nothing is held (State::held_answers) for an ask that has gone, so no   *)
(* queue stays hidden behind an answer nobody waits for.                   *)
THEOREM HeldForTheLiving == Spec => []HeldForAWaiter
<1>1. IInv => HeldForAWaiter
  BY DEF IInv
<1> QED  BY <1>1, Invariance, PTL

(* A question is closed once, by whoever comes first of the answers, the   *)
(* sweep and the cancellation (publish_routed, expire_questions,           *)
(* cancel_question), and its ask reports that.                             *)
THEOREM QuestionsCloseOnce == Spec => []ClosedOnce
<1>1. IInv => ClosedOnce
  <2> SUFFICES ASSUME IInv, NEW q \in Questions \ cards
               PROVE  /\ Len(closure[q]) <= 1
                      /\ q \in open => closure[q] = <<>>
                      /\ result[q] = "answer" => closure[q] = <<accepted[q]>>
                      /\ result[q] = "cancelled" => closure[q] = <<"cancelled">>
    BY DEF ClosedOnce
  <2> QED  BY DEF IInv, Single, Born, Asking
<1> QED  BY <1>1, Invariance, PTL

(* "One answer travels one way, never both" (AnswerRoute): the route       *)
(* agentd announces for an answer is announced once, and not as the        *)
(* queue's after answer_handed_over has returned it.                       *)
THEOREM AnswersTravelOneWay == Spec => []OneWay
<1>1. IInv => OneWay
  BY DEF IInv, Routed, OneWay
<1> QED  BY <1>1, Invariance, PTL

(* The message that closed a question stays in its asker's queue until it  *)
(* is acknowledged, however the ask ends, and is hidden there only while   *)
(* the ask waits (held_answers, waiter_ended).                             *)
THEOREM AnswersAreKept == Spec => []AnswerKept
<1>1. IInv => AnswerKept
  <2> SUFFICES ASSUME IInv, NEW q \in Questions, NEW m \in Messages, closure[q] = <<m>>,
                      m \notin acked
               PROVE  /\ m \in Elements(inbox[shape[q].from])
                      /\ q \notin Waiters => heldFor[m] = None
    BY DEF AnswerKept
  <2>1. m \in Elements(inbox[shape[q].from])
    BY DEF IInv, Kept
  <2>2. ASSUME q \notin Waiters, heldFor[m] # None PROVE FALSE
    <3>1. /\ heldFor[m] \in Questions /\ pc[heldFor[m]] \in Waiting
          /\ closure[heldFor[m]] = <<m>>
      BY <2>2 DEF IInv, TypeOK, HeldForAWaiter
    <3>2. heldFor[m] = q
      BY <3>1 DEF IInv, OneCloser
    <3> QED  BY <2>2, <3>1, <3>2 DEF Waiters
  <2> QED  BY <2>1, <2>2
<1> QED  BY <1>1, Invariance, PTL

(* A message of a remote sender that is held is in nobody's queue, and     *)
(* goes out at most once, whatever becomes of its card (settle_held).      *)
THEOREM HeldGoOutOnce == Spec => []OutOnce
<1>1. IInv => OutOnce
  BY DEF IInv, TypeOK, Carried, OutOnce
<1> QED  BY <1>1, Invariance, PTL
=============================================================================
