------------------------ MODULE InputBindingProofs ------------------------
(***************************************************************************)
(* Proofs about InputBinding, for all records, processes, messages and     *)
(* bounds.                                                                 *)
(*                                                                         *)
(* What the tick decided is carried out in a later hold of the mutex, so   *)
(* everything rests on the decision still fitting the binding it was made  *)
(* about (LookStands): every write to a binding takes the decision back    *)
(* (Recheck).  With at most one binding of the thread (OneBound) and a     *)
(* launched process that is not the controller it replaces (Apart), a      *)
(* signal meant for the one never reaches the other.  That nothing is      *)
(* delivered twice rests on the offer being written before its reader is   *)
(* answered (Offered).                                                     *)
(***************************************************************************)
EXTENDS InputBinding, TLAPS

(* At most one record of the thread is bound. *)
OneBound == \A r, s \in Bound : r = s

(* A launched process is not the controller that it is to replace. *)
Apart == \A r \in Bound : binding[r].launched # binding[r].controller

(* What the tick decided still fits the binding it looked at. *)
LookStands ==
    look # None =>
        LET b == binding[look.record]
        IN  /\ look.record \in Bound
            /\ look.step = "launch" =>
                  b.launched = None /\ b.attempts < MaxAttempts
            /\ look.step = "ended" => b.launched \notin alive
            /\ look.step = "upgrade" => b.upgrade /\ look.target = b.controller
            /\ look.step = "terminate" => look.target = b.launched

(* What was shown is still queued, and was written down as offered. *)
Offered == \A r \in Records : shown[r] \subseteq queue[r] \cap offers[r]

IInv == /\ TypeOK /\ OneBound /\ Apart /\ LookStands /\ Offered
        /\ NoStray /\ Flagged

-----------------------------------------------------------------------------
(* What becomes of the fields of a binding.                                *)

(* A controller that binds is the one the record names, and none is under  *)
(* launch any more (note_controller_bound).                                *)
LEMMA BoundFields ==
    ASSUME NEW b \in Binding, NEW p \in Procs
    PROVE  /\ NoteControllerBound(b, p) \in Binding
           /\ NoteControllerBound(b, p).controller = p
           /\ NoteControllerBound(b, p).launched = None
           /\ NoteControllerBound(b, p).uncertain = b.uncertain
<1>1. 0 \in 0..MaxAttempts
  BY BindingAssumption
<1>2. NoteControllerBound(b, p) \in Binding
  BY <1>1, Zenon DEF NoteControllerBound, Binding
<1>3. /\ NoteControllerBound(b, p).controller = p
      /\ NoteControllerBound(b, p).launched = None
      /\ NoteControllerBound(b, p).uncertain = b.uncertain
  BY DEF NoteControllerBound, Binding
<1> QED  BY <1>2, <1>3

(* A first binding starts with everything that was offered as uncertain. *)
LEMMA FirstFields ==
    ASSUME TypeOK, NEW r \in Records, NEW p \in Procs, NEW l \in {None, "old"}
    PROVE  /\ FirstBinding(r, p, l) \in Binding
           /\ FirstBinding(r, p, l).controller = p
           /\ FirstBinding(r, p, l).launched = None
           /\ FirstBinding(r, p, l).uncertain = offers[r]
<1>1. 0 \in 0..MaxAttempts
  BY BindingAssumption
<1> QED  BY <1>1 DEF FirstBinding, Binding, TypeOK

(* What is uncertain changes nothing else in a binding. *)
LEMMA UncertainFields ==
    ASSUME NEW b \in Binding, NEW ms \in SUBSET Messages
    PROVE  /\ [b EXCEPT !.uncertain = ms] \in Binding
           /\ [b EXCEPT !.uncertain = ms].uncertain = ms
           /\ [b EXCEPT !.uncertain = ms].controller = b.controller
           /\ [b EXCEPT !.uncertain = ms].launched = b.launched
BY DEF Binding

(* An upgrade keeps the controller and what is uncertain. *)
LEMMA UpgradeFields ==
    ASSUME NEW b \in Binding
    PROVE  LET c == [b EXCEPT !.launch = "new", !.upgrade = TRUE, !.attempts = 0,
                              !.launched = None, !.ended = FALSE,
                              !.exhausted = FALSE]
           IN  /\ c \in Binding
               /\ c.controller = b.controller
               /\ c.launched = None
               /\ c.uncertain = b.uncertain
<1> DEFINE c == [b EXCEPT !.launch = "new", !.upgrade = TRUE, !.attempts = 0,
                          !.launched = None, !.ended = FALSE,
                          !.exhausted = FALSE]
<1>1. 0 \in 0..MaxAttempts
  BY BindingAssumption
<1>2. c \in Binding
  BY <1>1, Zenon DEF Binding
<1>3. c.controller = b.controller /\ c.launched = None /\ c.uncertain = b.uncertain
  BY DEF Binding
<1> QED  BY <1>2, <1>3

(* So does a retry that a user asks for. *)
LEMMA RetryFields ==
    ASSUME NEW b \in Binding
    PROVE  LET c == [b EXCEPT !.attempts = 0, !.exhausted = FALSE,
                              !.launched = None, !.ended = TRUE]
           IN  /\ c \in Binding
               /\ c.controller = b.controller
               /\ c.launched = None
               /\ c.uncertain = b.uncertain
<1> DEFINE c == [b EXCEPT !.attempts = 0, !.exhausted = FALSE,
                          !.launched = None, !.ended = TRUE]
<1>1. 0 \in 0..MaxAttempts
  BY BindingAssumption
<1>2. c \in Binding
  BY <1>1, Zenon DEF Binding
<1>3. c.controller = b.controller /\ c.launched = None /\ c.uncertain = b.uncertain
  BY DEF Binding
<1> QED  BY <1>2, <1>3

(* A record that takes a binding over takes over what is uncertain in it. *)
LEMMA ResumedFields ==
    ASSUME TypeOK, NEW r \in Records, NEW s \in Bound
    PROVE  /\ Resumed(r, s, "old") \in Binding
           /\ Resumed(r, s, "old").controller = binding[s].controller
           /\ Resumed(r, s, "old").launched = None
           /\ Resumed(r, s, "old").uncertain =
                 (binding[s].uncertain \cup offers[r]) \cap (queue[r] \cup queue[s])
<1>1. 0 \in 0..MaxAttempts
  BY BindingAssumption
<1>2. binding[s] \in Binding
  BY DEF Bound, TypeOK
<1>3. binding[s].uncertain \in SUBSET Messages
  BY <1>2 DEF Binding
<1>4. (binding[s].uncertain \cup offers[r]) \cap (queue[r] \cup queue[s]) \in SUBSET Messages
  BY <1>3 DEF TypeOK
<1>5. Resumed(r, s, "old") \in Binding
  BY <1>1, <1>2, <1>4, Zenon DEF Resumed, Binding
<1>6. /\ Resumed(r, s, "old").controller = binding[s].controller
      /\ Resumed(r, s, "old").launched = None
      /\ Resumed(r, s, "old").uncertain =
            (binding[s].uncertain \cup offers[r]) \cap (queue[r] \cup queue[s])
  BY <1>2 DEF Resumed, Binding
<1> QED  BY <1>5, <1>6

(* The end of a controller leaves no launch and loses nothing that is      *)
(* uncertain (note_controller_ended).                                      *)
LEMMA EndedFields ==
    ASSUME NEW b \in Binding, NEW stable \in BOOLEAN
    PROVE  /\ NoteControllerEnded(b, stable) \in Binding
           /\ NoteControllerEnded(b, stable).controller = b.controller
           /\ NoteControllerEnded(b, stable).launched = None
           /\ NoteControllerEnded(b, stable).uncertain = b.uncertain
<1>1. 0 \in 0..MaxAttempts
  BY BindingAssumption
<1>2. NoteControllerEnded(b, stable) \in Binding
  BY <1>1, Zenon DEF NoteControllerEnded, Binding
<1>3. /\ NoteControllerEnded(b, stable).controller = b.controller
      /\ NoteControllerEnded(b, stable).launched = None
      /\ NoteControllerEnded(b, stable).uncertain = b.uncertain
  BY DEF NoteControllerEnded, Binding
<1> QED  BY <1>2, <1>3

(* A binding whose attempts are used up is otherwise what it was. *)
LEMMA ExhaustedFields ==
    ASSUME NEW b \in Binding
    PROVE  /\ [b EXCEPT !.exhausted = TRUE] \in Binding
           /\ [b EXCEPT !.exhausted = TRUE].controller = b.controller
           /\ [b EXCEPT !.exhausted = TRUE].launched = b.launched
           /\ [b EXCEPT !.exhausted = TRUE].uncertain = b.uncertain
BY DEF Binding

(* A launch counts one attempt and names the process it started, if it     *)
(* started one (note_launch).                                              *)
LEMMA LaunchFields ==
    ASSUME NEW b \in Binding, b.attempts < MaxAttempts, NEW p \in Procs \cup {None}
    PROVE  /\ NoteLaunch(b, p) \in Binding
           /\ NoteLaunch(b, p).controller = b.controller
           /\ NoteLaunch(b, p).launched = p
           /\ NoteLaunch(b, p).uncertain = b.uncertain
<1>1. b.attempts \in 0..MaxAttempts
  BY DEF Binding
<1>2. b.attempts + 1 \in 0..MaxAttempts
  BY <1>1, BindingAssumption
<1>3. NoteLaunch(b, p) \in Binding
  BY <1>2, Zenon DEF NoteLaunch, Binding
<1>4. /\ NoteLaunch(b, p).controller = b.controller
      /\ NoteLaunch(b, p).launched = p
      /\ NoteLaunch(b, p).uncertain = b.uncertain
  BY DEF NoteLaunch, Binding
<1> QED  BY <1>3, <1>4

-----------------------------------------------------------------------------
(* What the steps of the actions have in common.                           *)

(* A bound record has a binding, and it is the only one. *)
LEMMA TheBinding ==
    ASSUME IInv, NEW r \in Bound
    PROVE  /\ r \in Records /\ binding[r] \in Binding /\ Bound = {r}
           /\ binding[r].controller \in Procs
           /\ binding[r].launched \in Procs \cup {None}
           /\ binding[r].uncertain \in SUBSET Messages
<1>1. r \in Records /\ binding[r] \in Binding
  BY DEF IInv, TypeOK, Bound
<1>2. Bound = {r}
  BY DEF IInv, OneBound
<1> QED  BY <1>1, <1>2 DEF Binding

(* Nothing is no process. *)
LEMMA NoProcess == TypeOK => None \notin Procs /\ None \notin alive
BY BindingAssumption DEF TypeOK

(* A step that spends a disturbance leaves one fewer. *)
LEMMA SpendType ==
    ASSUME TypeOK, NEW d, Spend(d)
    PROVE  left' \in 0..MaxDisturbances
BY BindingAssumption DEF TypeOK, Spend

(* A transition of the only binding ends what the tick had decided. *)
LEMMA BindsAlone ==
    ASSUME IInv, NEW r \in Records, NEW b \in Binding, Bound \subseteq {r},
           Binds(r, b), b.launched # b.controller
    PROVE  /\ binding' \in [Records -> Binding \cup {None}]
           /\ Bound' = {r} /\ binding'[r] = b
           /\ age' \in [Records -> 0..2]
           /\ look' = None
           /\ OneBound' /\ Apart' /\ LookStands'
<1> USE DEF IInv, TypeOK
<1>1. b # None
  BY BindingAssumption
<1>2. /\ binding' \in [Records -> Binding \cup {None}]
      /\ binding'[r] = b
      /\ age' \in [Records -> 0..2]
  BY DEF Binds
<1>3. Bound' = {r}
  BY <1>1 DEF Binds, Bound
<1>4. look' = None
  BY DEF Binds, Recheck, LookStands
<1>5. OneBound' /\ Apart'
  BY <1>2, <1>3 DEF OneBound, Apart
<1>6. LookStands'
  BY <1>4 DEF LookStands
<1> QED  BY <1>2, <1>3, <1>4, <1>5, <1>6

(* A signal goes to a process that runs. *)
LEMMA SigTermType ==
    ASSUME TypeOK, NEW p, SigTerm(p)
    PROVE  told' \subseteq alive /\ told \subseteq told' /\ (p \in alive => p \in told')
           /\ told' \subseteq told \cup {p}
BY DEF SigTerm, TypeOK

(* A process that starts is named by no binding, and one that ends is      *)
(* missed by none.                                                         *)
LEMMA StartsKeeps ==
    ASSUME IInv, NEW p \in Procs, NEW by, Starts(p, by)
    PROVE  /\ alive' \subseteq Procs
           /\ told' \subseteq alive' /\ unbound' \subseteq alive' /\ lost' \subseteq unbound'
           /\ \A r \in Bound : binding[r].launched \notin alive => binding[r].launched \notin alive'
<1>1. /\ alive' \subseteq Procs
      /\ told' \subseteq alive' /\ unbound' \subseteq alive'
  BY DEF IInv, TypeOK, Starts
<1>2. lost' \subseteq unbound'
  BY DEF IInv, TypeOK, Starts
<1>3. \A r \in Bound : binding[r].launched \notin alive => binding[r].launched \notin alive'
  BY DEF Starts, Named
<1> QED  BY <1>1, <1>2, <1>3

(* A process that dies leaves nothing behind that is said of the living. *)
LEMMA GoneKeeps ==
    ASSUME IInv, NEW p, Gone(p)
    PROVE  /\ alive' \subseteq Procs /\ alive' \subseteq alive
           /\ told' \subseteq alive' /\ unbound' \subseteq alive' /\ lost' \subseteq unbound'
           /\ unbound' \ (told' \cup lost') \subseteq unbound \ (told \cup lost)
BY DEF IInv, TypeOK, Gone

-----------------------------------------------------------------------------
(* Processes and sessions.                                                 *)

(* Processes start and die, sessions register and end. *)
LEMMA ProcessSteps ==
    ASSUME IInv,
           \/ \E p \in Procs : HookStarts(p) \/ Dies(p)
           \/ \E r \in Records : Registers(r) \/ SessionEnds(r)
    PROVE  IInv'
<1>1. ASSUME NEW p \in Procs, HookStarts(p)
      PROVE  IInv'
  <2> USE <1>1 DEF HookStarts, mail, world
  <2>1. TypeOK'
    BY StartsKeeps DEF IInv, TypeOK
  <2>2. OneBound' /\ Apart' /\ Offered' /\ Flagged'
    BY DEF IInv, OneBound, Apart, Offered, Flagged, Bound
  <2>3. LookStands'
    BY StartsKeeps DEF IInv, LookStands, Bound
  <2>4. NoStray'
    BY DEF IInv, NoStray, Bound, Starts
  <2> QED  BY <2>1, <2>2, <2>3, <2>4 DEF IInv
<1>2. ASSUME NEW p \in Procs, Dies(p)
      PROVE  IInv'
  <2> USE <1>2 DEF Dies, mail, world
  <2>1. TypeOK'
    BY GoneKeeps DEF IInv, TypeOK
  <2>2. OneBound' /\ Apart' /\ Offered' /\ Flagged'
    BY DEF IInv, OneBound, Apart, Offered, Flagged, Bound
  <2>3. LookStands'
    BY GoneKeeps DEF IInv, LookStands, Bound
  <2>4. NoStray'
    BY GoneKeeps DEF IInv, NoStray, Bound
  <2> QED  BY <2>1, <2>2, <2>3, <2>4 DEF IInv
<1>3. ASSUME NEW r \in Records, Registers(r) \/ SessionEnds(r)
      PROVE  IInv'
  <2>1. UNCHANGED <<binding, age, os, look, mail, world>>
    BY <1>3 DEF Registers, SessionEnds
  <2>2. provider' \in [Records -> {"none", "alive", "dead", "retired"}]
    BY <1>3 DEF IInv, TypeOK, Registers, SessionEnds
  <2>3. TypeOK'
    BY <2>1, <2>2 DEF IInv, TypeOK, os, mail, world
  <2> QED  BY <2>1, <2>3 DEF IInv, OneBound, Apart, LookStands, Offered, NoStray,
                          Flagged, Bound, os, mail, world
<1> QED  BY <1>1, <1>2, <1>3

-----------------------------------------------------------------------------
(* Requests.                                                               *)

(* A controller binds its record. *)
LEMMA BindStep ==
    ASSUME IInv, NEW r \in Records, NEW p \in Procs, NEW l \in {None, "old"},
           Bind(r, p, l)
    PROVE  IInv'
<1> DEFINE b == IF r \in Bound THEN NoteControllerBound(binding[r], p)
                ELSE FirstBinding(r, p, l)
           over == IF r \in Bound /\ binding[r].launched # p
                   THEN binding[r].launched ELSE None
           c == [b EXCEPT !.uncertain = @ \cap queue[r]]
<1>1. /\ Bound \subseteq {r} /\ p \in alive
      /\ SigTerm(over)
      /\ UNCHANGED <<provider, alive, mail>>
  BY DEF Bind, CanBind
<1>2. /\ b \in Binding /\ b.controller = p /\ b.launched = None
      /\ b.uncertain = IF r \in Bound THEN binding[r].uncertain ELSE offers[r]
  BY BoundFields, FirstFields, TheBinding DEF IInv
<1>3. b.uncertain \in SUBSET Messages
  BY <1>2 DEF Binding
<1>4. /\ c \in Binding /\ c.controller = p /\ c.launched = None
      /\ c.uncertain = b.uncertain \cap queue[r]
  BY <1>2, <1>3, UncertainFields
<1>5. /\ told' \subseteq alive /\ told \subseteq told'
      /\ over \in alive => over \in told'
  BY <1>1, SigTermType DEF IInv
<1>6. Offered'
  BY <1>1 DEF IInv, Offered, mail
<1>7. CASE Fails /\ UNCHANGED <<binding, age, look, unbound, lost>>
  <2>1. TypeOK'
    BY <1>1, <1>5, <1>7, SpendType DEF IInv, TypeOK, Fails, mail
  <2>2. OneBound' /\ Apart' /\ LookStands' /\ Flagged'
    BY <1>1, <1>7 DEF IInv, OneBound, Apart, LookStands, Flagged, Bound, mail
  <2>3. NoStray'
    BY <1>5, <1>7 DEF IInv, NoStray, Bound
  <2> QED  BY <1>6, <2>1, <2>2, <2>3 DEF IInv
<1>8. CASE /\ Binds(r, c)
           /\ unbound' = unbound \ {p}
           /\ lost' = lost \ {p}
           /\ UNCHANGED world
  <2>1. c.launched # c.controller
    BY <1>4, NoProcess DEF IInv
  <2>2. /\ binding' \in [Records -> Binding \cup {None}]
        /\ Bound' = {r} /\ binding'[r] = c
        /\ age' \in [Records -> 0..2]
        /\ look' = None
        /\ OneBound' /\ Apart' /\ LookStands'
    BY <1>1, <1>4, <1>8, <2>1, BindsAlone
  <2>3. TypeOK'
    BY <1>1, <1>5, <1>8, <2>2 DEF IInv, TypeOK, mail, world
  <2>4. NoStray'
    <3> SUFFICES ASSUME NEW q \in unbound, q # p, q \notin told', q \notin lost'
                 PROVE  FALSE
      BY <1>8 DEF NoStray
    <3>1. \E s \in Bound : binding[s].launched = q
      BY <1>5, <1>8 DEF IInv, NoStray
    <3>2. r \in Bound /\ over = q
      BY <1>1, <3>1
    <3>3. q \in alive
      BY DEF IInv, TypeOK
    <3> QED  BY <1>5, <3>2, <3>3
  <2>5. Flagged'
    BY <1>1, <1>2, <1>4, <2>2 DEF IInv, Flagged, Offered, mail
  <2> QED  BY <1>6, <2>2, <2>3, <2>4, <2>5 DEF IInv
<1> QED  BY <1>7, <1>8 DEF Bind

(* A controller lets go of its record. *)
LEMMA UnbindStep ==
    ASSUME IInv, NEW r \in Records, Unbind(r)
    PROVE  IInv'
<1>1. /\ r \in Bound /\ Binds(r, None) /\ SigTerm(binding[r].launched)
      /\ UNCHANGED <<provider, alive, unbound, lost, mail, world>>
  BY DEF Unbind
<1>2. Bound' = {} /\ binding' \in [Records -> Binding \cup {None}]
  BY <1>1, TheBinding DEF IInv, TypeOK, Binds, Bound
<1>3. look' = None /\ age' \in [Records -> 0..2]
  BY <1>1, TheBinding DEF IInv, TypeOK, Binds, Recheck, LookStands
<1>4. /\ told' \subseteq alive /\ told \subseteq told'
      /\ binding[r].launched \in alive => binding[r].launched \in told'
  BY <1>1, SigTermType DEF IInv
<1>5. TypeOK'
  BY <1>1, <1>2, <1>3, <1>4 DEF IInv, TypeOK, mail, world
<1>6. NoStray'
  BY <1>1, <1>4, TheBinding DEF IInv, NoStray, TypeOK
<1> QED  BY <1>1, <1>2, <1>3, <1>5, <1>6
         DEF IInv, OneBound, Apart, LookStands, Offered, Flagged, mail

(* A transition that forgets no process that runs, and no flag. *)
LEMMA Transition ==
    ASSUME IInv, NEW r \in Bound, NEW b \in Binding, Binds(r, b),
           b.launched # b.controller,
           binding[r].launched \in alive => b.launched = binding[r].launched,
           b.uncertain = binding[r].uncertain,
           UNCHANGED <<provider, os, mail, mode>>, left' \in 0..MaxDisturbances
    PROVE  IInv'
<1>1. /\ binding' \in [Records -> Binding \cup {None}]
      /\ Bound' = {r} /\ binding'[r] = b
      /\ age' \in [Records -> 0..2]
      /\ look' = None
      /\ OneBound' /\ Apart' /\ LookStands'
  BY TheBinding, BindsAlone
<1>2. TypeOK'
  BY <1>1 DEF IInv, TypeOK, os, mail
<1>3. NoStray'
  <2> SUFFICES ASSUME NEW q \in unbound, q \notin told, q \notin lost
               PROVE  b.launched = q
    BY <1>1 DEF NoStray, os
  <2>1. binding[r].launched = q
    BY TheBinding DEF IInv, NoStray
  <2>2. q \in alive
    BY DEF IInv, TypeOK
  <2> QED  BY <2>1, <2>2
<1>4. Flagged' /\ Offered'
  BY <1>1 DEF IInv, Flagged, Offered, mail
<1> QED  BY <1>1, <1>2, <1>3, <1>4 DEF IInv

(* A user asks for an upgrade or for another try. *)
LEMMA RequestSteps ==
    ASSUME IInv, NEW r \in Records, Upgrade(r) \/ Retry(r)
    PROVE  IInv'
<1>1. CASE Upgrade(r)
  <2>1. r \in Bound /\ binding[r].launched \notin alive
    BY <1>1 DEF Upgrade
  <2> DEFINE c == [binding[r] EXCEPT !.launch = "new", !.upgrade = TRUE,
                                     !.attempts = 0, !.launched = None,
                                     !.ended = FALSE, !.exhausted = FALSE]
  <2>2. /\ c \in Binding /\ c.controller = binding[r].controller
        /\ c.launched = None /\ c.uncertain = binding[r].uncertain
    BY <2>1, TheBinding, UpgradeFields
  <2>3. Binds(r, c) /\ UNCHANGED <<provider, os, mail, world>>
    BY <1>1 DEF Upgrade
  <2>4. c.launched # c.controller
    BY <2>1, <2>2, TheBinding, NoProcess DEF IInv
  <2>5. left' \in 0..MaxDisturbances
    BY <2>3 DEF IInv, TypeOK, world
  <2> HIDE DEF c
  <2> QED  BY <2>1, <2>2, <2>3, <2>4, <2>5, Transition DEF world
<1>2. CASE Retry(r)
  <2>1. r \in Bound /\ binding[r].launched \notin alive
    BY <1>2 DEF Retry
  <2> DEFINE c == [binding[r] EXCEPT !.attempts = 0, !.exhausted = FALSE,
                                     !.launched = None, !.ended = TRUE]
  <2>2. /\ c \in Binding /\ c.controller = binding[r].controller
        /\ c.launched = None /\ c.uncertain = binding[r].uncertain
    BY <2>1, TheBinding, RetryFields
  <2>3. Binds(r, c) /\ UNCHANGED <<provider, os, mail, mode>> /\ Spend("retry")
    BY <1>2 DEF Retry
  <2>4. c.launched # c.controller
    BY <2>1, <2>2, TheBinding, NoProcess DEF IInv
  <2>5. left' \in 0..MaxDisturbances
    BY <2>3, SpendType DEF IInv
  <2> HIDE DEF c
  <2> QED  BY <2>1, <2>2, <2>3, <2>4, <2>5, Transition
<1> QED  BY <1>1, <1>2

(* The session that came back takes over the flags of both of its records. *)
LEMMA ResumeStep ==
    ASSUME IInv, NEW r \in Records, NEW s \in Records, Resume(r, s, "old")
    PROVE  IInv'
<1> DEFINE c == Resumed(r, s, "old")
<1>1. /\ s # r /\ s \in Bound /\ binding[s].launched \notin alive
      /\ Binds(s, c) /\ UNCHANGED <<os, world>>
  BY DEF Resume
<1>2. /\ c \in Binding /\ c.controller = binding[s].controller
      /\ c.launched = None
      /\ c.uncertain = (binding[s].uncertain \cup offers[r]) \cap (queue[r] \cup queue[s])
  BY <1>1, ResumedFields DEF IInv
<1> HIDE DEF c
<1>3. c.launched # c.controller
  BY <1>1, <1>2, TheBinding, NoProcess DEF IInv
<1>4. /\ binding' \in [Records -> Binding \cup {None}]
      /\ Bound' = {s} /\ binding'[s] = c
      /\ age' \in [Records -> 0..2]
      /\ look' = None
      /\ OneBound' /\ Apart' /\ LookStands'
  BY <1>1, <1>2, <1>3, TheBinding, BindsAlone
<1>5. /\ provider' \in [Records -> {"none", "alive", "dead", "retired"}]
      /\ queue' \in [Records -> SUBSET Messages]
      /\ offers' \in [Records -> SUBSET Messages]
      /\ shown' \in [Records -> SUBSET Messages]
  BY DEF Resume, IInv, TypeOK
<1>6. TypeOK'
  BY <1>1, <1>4, <1>5 DEF IInv, TypeOK, os, world
<1>7. NoStray'
  <2> SUFFICES ASSUME NEW q \in unbound, q \notin told, q \notin lost
               PROVE  FALSE
    BY <1>1 DEF NoStray, os
  <2>1. binding[s].launched = q
    BY <1>1, TheBinding DEF IInv, NoStray
  <2> QED  BY <1>1, <2>1 DEF IInv, TypeOK
<1>8. Offered'
  BY <1>1 DEF Resume, IInv, TypeOK, Offered
<1>9. Flagged'
  <2>1. shown'[s] = shown[s] \cup shown[r] /\ queue'[s] = queue[s] \cup queue[r]
    BY <1>1 DEF Resume, IInv, TypeOK
  <2>2. shown[s] \subseteq binding[s].uncertain \cap queue[s]
    BY <1>1 DEF IInv, Flagged, Offered
  <2>3. shown[r] \subseteq offers[r] \cap queue[r]
    BY DEF IInv, Offered
  <2> QED  BY <1>2, <1>4, <2>1, <2>2, <2>3 DEF Flagged
<1> QED  BY <1>4, <1>6, <1>7, <1>8, <1>9 DEF IInv

-----------------------------------------------------------------------------
(* The tick.                                                               *)

(* What the look decides fits the binding it sees. *)
LEMMA LookStep ==
    ASSUME IInv, NEW r \in Records, Look(r)
    PROVE  IInv'
<1> DEFINE b == binding[r]
<1>1. PICK s \in ControllerStep(r) :
         look' = [record |-> r, step |-> s, kill |-> age[r] = 2,
                  target |-> IF s = "upgrade" THEN b.controller ELSE b.launched]
  BY DEF Look
<1>2. r \in Bound /\ UNCHANGED <<provider, binding, age, os, mail, world>>
  BY DEF Look
<1>3. /\ s \in {"upgrade", "ended", "exhausted", "terminate", "launch"}
      /\ s = "upgrade" => b.upgrade
      /\ s = "ended" => b.launched \notin alive \/ b.launched = None
      /\ s = "launch" => b.launched = None /\ ~UsedUp(b)
  BY DEF ControllerStep
<1>4. b \in Binding /\ b.controller \in Procs /\ b.launched \in Procs \cup {None}
  BY <1>2, TheBinding
<1>5. look' \in Decision
  <2>1. (age[r] = 2) \in BOOLEAN
    OBVIOUS
  <2> QED  BY <1>1, <1>3, <1>4, <2>1, Zenon DEF Decision
<1>6. TypeOK'
  BY <1>2, <1>5 DEF IInv, TypeOK, os, mail, world
<1>7. /\ look'.record = r /\ look'.step = s
      /\ look'.target = IF s = "upgrade" THEN b.controller ELSE b.launched
  BY <1>1
<1>8. s = "launch" => b.attempts < MaxAttempts
  BY <1>3, <1>4, BindingAssumption DEF UsedUp, Binding
<1>9. LookStands'
  BY <1>2, <1>3, <1>7, <1>8, NoProcess DEF IInv, LookStands, Bound, os
<1> QED  BY <1>2, <1>6, <1>9 DEF IInv, OneBound, Apart, Offered, NoStray, Flagged,
                                Bound, os, mail

(* A decision is carried out on the binding it was made on. *)
LEMMA DoingStands ==
    ASSUME IInv, NEW r \in Records, NEW s, Doing(r, s)
    PROVE  /\ r \in Bound
           /\ s = "launch" => binding[r].launched = None /\ binding[r].attempts < MaxAttempts
           /\ s = "ended" => binding[r].launched \notin alive
           /\ s = "upgrade" => binding[r].upgrade /\ look.target = binding[r].controller
           /\ s = "terminate" => look.target = binding[r].launched
BY DEF IInv, LookStands, Doing

(* A user stops the agent. *)
LEMMA StopStep ==
    ASSUME IInv, NEW r \in Records, Stop(r)
    PROVE  IInv'
<1>1. UNCHANGED <<provider, binding, age, mail, world>> /\ look' = None
  BY DEF Stop
<1>2. CASE Gone(look.target)
  <2>1. TypeOK' /\ NoStray'
    BY <1>1, <1>2, GoneKeeps DEF IInv, TypeOK, NoStray, Bound, mail, world
  <2> QED  BY <1>1, <2>1 DEF IInv, OneBound, Apart, LookStands, Offered, Flagged,
                             Bound, mail
<1>3. CASE SigTerm(look.target) /\ UNCHANGED <<alive, unbound, lost>>
  <2>1. TypeOK' /\ NoStray'
    BY <1>1, <1>3, SigTermType DEF IInv, TypeOK, NoStray, Bound, mail, world
  <2> QED  BY <1>1, <2>1 DEF IInv, OneBound, Apart, LookStands, Offered, Flagged,
                             Bound, mail
<1> QED  BY <1>2, <1>3 DEF Stop

(* A launch on a binding that has none under way; the process it starts is *)
(* recorded, or told to stop, or its daemon dies with it.                  *)
LEMMA LaunchStep ==
    ASSUME IInv, NEW r \in Records, NEW p \in Procs,
           Launch(r, p) \/ KilledLaunching(r, p)
    PROVE  IInv'
<1>1. Doing(r, "launch") /\ UNCHANGED <<provider, mail>>
  BY DEF Launch, KilledLaunching
<1>2. /\ r \in Bound /\ binding[r].launched = None
      /\ binding[r].attempts < MaxAttempts
  BY <1>1, DoingStands
<1>3. Offered'
  BY <1>1 DEF IInv, Offered, mail
<1>4. CASE /\ Starts(p, "tick")
           /\ Binds(r, NoteLaunch(binding[r], p))
           /\ UNCHANGED world
  <2> DEFINE c == NoteLaunch(binding[r], p)
  <2>1. /\ c \in Binding /\ c.controller = binding[r].controller
        /\ c.launched = p /\ c.uncertain = binding[r].uncertain
    BY <1>2, TheBinding, LaunchFields
  <2> HIDE DEF c
  <2>2. c.launched # c.controller
    BY <1>2, <1>4, <2>1 DEF Starts, Named
  <2>3. /\ binding' \in [Records -> Binding \cup {None}]
        /\ Bound' = {r} /\ binding'[r] = c
        /\ age' \in [Records -> 0..2]
        /\ look' = None
        /\ OneBound' /\ Apart' /\ LookStands'
    BY <1>2, <1>4, <2>1, <2>2, TheBinding, BindsAlone DEF c
  <2>4. TypeOK'
    BY <1>1, <1>4, <2>3, StartsKeeps DEF IInv, TypeOK, mail, world
  <2>5. NoStray'
    <3> SUFFICES ASSUME NEW q \in unbound', q \notin told', q \notin lost'
                 PROVE  q = p
      BY <2>1, <2>3 DEF NoStray
    <3>1. q # p => q \in unbound /\ q \notin told /\ q \notin lost
      BY <1>4 DEF Starts
    <3>2. q # p => binding[r].launched = q
      BY <1>2, <3>1, TheBinding DEF IInv, NoStray
    <3>3. q # p => q \in alive
      BY <3>1 DEF IInv, TypeOK
    <3> QED  BY <1>2, <3>2, <3>3, NoProcess DEF IInv
  <2>6. Flagged'
    BY <1>1, <1>2, <2>1, <2>3 DEF IInv, Flagged, mail
  <2> QED  BY <1>3, <2>3, <2>4, <2>5, <2>6 DEF IInv
<1>5. CASE /\ Starts(p, "failing") \/ Starts(p, "killed")
           /\ look' = None /\ UNCHANGED <<binding, age>>
           /\ mode' \in {"ok", "failed", "fenced"} /\ left' \in 0..MaxDisturbances
  <2>1. TypeOK'
    BY <1>1, <1>5, StartsKeeps DEF IInv, TypeOK, mail
  <2>2. NoStray'
    BY <1>5 DEF IInv, NoStray, Bound, Starts
  <2> QED  BY <1>1, <1>3, <1>5, <2>1, <2>2
           DEF IInv, OneBound, Apart, LookStands, Flagged, Bound, mail
<1>6. ASSUME (UNCHANGED world) \/ Fails \/ (Spend("killed") /\ mode' = mode)
      PROVE  mode' \in {"ok", "failed", "fenced"} /\ left' \in 0..MaxDisturbances
  BY <1>6, SpendType DEF IInv, TypeOK, Fails, world
<1> QED  BY <1>4, <1>5, <1>6 DEF Launch, KilledLaunching

(* The tick writes down an end, that no attempt is left, or a launch that  *)
(* failed.                                                                 *)
LEMMA NoteSteps ==
    ASSUME IInv, NEW r \in Records,
           NoteEnded(r) \/ NoteExhausted(r) \/ LaunchFails(r)
    PROVE  IInv'
<1>1. CASE NoteEnded(r)
  <2>1. PICK stable \in BOOLEAN : Binds(r, NoteControllerEnded(binding[r], stable))
    BY <1>1 DEF NoteEnded
  <2>2. r \in Bound /\ binding[r].launched \notin alive
    BY <1>1, DoingStands DEF NoteEnded
  <2> DEFINE c == NoteControllerEnded(binding[r], stable)
  <2>3. /\ c \in Binding /\ c.controller = binding[r].controller
        /\ c.launched = None /\ c.uncertain = binding[r].uncertain
    BY <2>2, TheBinding, EndedFields
  <2>4. c.launched # c.controller
    BY <2>2, <2>3, TheBinding, NoProcess DEF IInv
  <2>5. UNCHANGED <<provider, os, mail, mode>> /\ left' \in 0..MaxDisturbances
    BY <1>1 DEF NoteEnded, IInv, TypeOK, world
  <2> HIDE DEF c
  <2> QED  BY <2>1, <2>2, <2>3, <2>4, <2>5, Transition DEF c
<1>2. CASE NoteExhausted(r)
  <2> DEFINE c == [binding[r] EXCEPT !.exhausted = TRUE]
  <2>1. r \in Bound
    BY <1>2, DoingStands DEF NoteExhausted
  <2>2. /\ c \in Binding /\ c.controller = binding[r].controller
        /\ c.launched = binding[r].launched /\ c.uncertain = binding[r].uncertain
    BY <2>1, TheBinding, ExhaustedFields
  <2>3. Binds(r, c) /\ c.launched # c.controller
    BY <1>2, <2>1, <2>2 DEF NoteExhausted, IInv, Apart
  <2>4. UNCHANGED <<provider, os, mail, mode>> /\ left' \in 0..MaxDisturbances
    BY <1>2 DEF NoteExhausted, IInv, TypeOK, world
  <2> HIDE DEF c
  <2> QED  BY <2>1, <2>2, <2>3, <2>4, Transition
<1>3. CASE LaunchFails(r)
  <2> DEFINE c == NoteLaunch(binding[r], None)
  <2>1. /\ r \in Bound /\ binding[r].launched = None
        /\ binding[r].attempts < MaxAttempts
    BY <1>3, DoingStands DEF LaunchFails
  <2>2. /\ c \in Binding /\ c.controller = binding[r].controller
        /\ c.launched = None /\ c.uncertain = binding[r].uncertain
    BY <2>1, TheBinding, LaunchFields
  <2>3. c.launched # c.controller
    BY <2>1, <2>2, TheBinding, NoProcess DEF IInv
  <2>4. UNCHANGED <<provider, os, mail, mode>> /\ left' \in 0..MaxDisturbances
    BY <1>3, SpendType DEF LaunchFails, IInv
  <2>5. CASE Binds(r, c)
    <3> HIDE DEF c
    <3> QED  BY <2>1, <2>2, <2>3, <2>4, <2>5, Transition
  <2>6. CASE look' = None /\ UNCHANGED <<binding, age>>
    <3>1. TypeOK'
      BY <2>4, <2>6 DEF IInv, TypeOK, os, mail
    <3> QED  BY <2>4, <2>6, <3>1 DEF IInv, OneBound, Apart, LookStands, Offered,
                                  NoStray, Flagged, Bound, os, mail
  <2> QED  BY <1>3, <2>5, <2>6 DEF LaunchFails
<1> QED  BY <1>1, <1>2, <1>3

-----------------------------------------------------------------------------
(* The queue, and the world.                                               *)

(* A message is queued, shown or drained. *)
LEMMA QueueSteps ==
    ASSUME IInv, NEW r \in Records,
           (\E m \in Messages : Send(r, m)) \/ Read(r) \/ Drain(r)
    PROVE  IInv'
<1>1. UNCHANGED <<provider, binding, age, os, look, world>>
  BY DEF Send, Read, Drain
<1>2. /\ queue' \in [Records -> SUBSET Messages]
      /\ offers' \in [Records -> SUBSET Messages]
      /\ shown' \in [Records -> SUBSET Messages]
  BY DEF IInv, TypeOK, Send, Read, Drain
<1>3. TypeOK'
  BY <1>1, <1>2 DEF IInv, TypeOK, os, world
<1>4. Offered'
  BY DEF IInv, TypeOK, Offered, Send, Read, Drain
<1>5. Flagged'
  <2>1. ASSUME NEW m \in Messages, Send(r, m)
        PROVE  Flagged'
    BY <2>1 DEF IInv, TypeOK, Flagged, Offered, Send, Bound
  <2>2. CASE Read(r) \/ Drain(r)
    BY <2>2 DEF IInv, TypeOK, Flagged, Read, Drain, Bound
  <2> QED  BY <2>1, <2>2
<1> QED  BY <1>1, <1>3, <1>4, <1>5 DEF IInv, OneBound, Apart, LookStands, NoStray,
                                       Bound, os

(* A message that is acknowledged is queued, shown and uncertain no more. *)
LEMMA AcknowledgeStep ==
    ASSUME IInv, NEW r \in Records, NEW ids \in SUBSET queue[r], Acknowledge(r, ids)
    PROVE  IInv'
<1>1. /\ queue' = [queue EXCEPT ![r] = @ \ ids]
      /\ shown' = [shown EXCEPT ![r] = @ \ ids]
      /\ UNCHANGED <<provider, age, os>>
  BY DEF Acknowledge
<1>2. CASE Fails /\ UNCHANGED <<offers, binding, look>>
  <2>1. TypeOK'
    BY <1>1, <1>2, SpendType DEF IInv, TypeOK, Fails, os
  <2>2. Offered' /\ Flagged'
    BY <1>1, <1>2 DEF IInv, TypeOK, Offered, Flagged, Bound
  <2> QED  BY <1>1, <1>2, <2>1, <2>2 DEF IInv, OneBound, Apart, LookStands, NoStray,
                                         Bound, os
<1>3. ASSUME offers' = [offers EXCEPT ![r] = @ \ ids], UNCHANGED world
      PROVE  Offered' /\ offers' \in [Records -> SUBSET Messages]
  BY <1>1, <1>3 DEF IInv, TypeOK, Offered
<1>4. CASE /\ offers' = [offers EXCEPT ![r] = @ \ ids] /\ UNCHANGED world
           /\ UNCHANGED <<binding, look>>
           /\ ~(r \in Bound /\ ids \cap binding[r].uncertain # {})
  <2>1. TypeOK'
    BY <1>1, <1>3, <1>4 DEF IInv, TypeOK, os, world
  <2>2. Flagged'
    BY <1>1, <1>4 DEF IInv, TypeOK, Flagged, Bound
  <2> QED  BY <1>1, <1>3, <1>4, <2>1, <2>2 DEF IInv, OneBound, Apart, LookStands,
                                               NoStray, Bound, os
<1>5. CASE /\ offers' = [offers EXCEPT ![r] = @ \ ids] /\ UNCHANGED world
           /\ r \in Bound
           /\ binding' = [binding EXCEPT ![r].uncertain = @ \ ids]
           /\ look' = Recheck(r)
  <2> DEFINE c == [binding[r] EXCEPT !.uncertain = @ \ ids]
  <2>1. /\ c \in Binding /\ c.controller = binding[r].controller
        /\ c.launched = binding[r].launched
        /\ c.uncertain = binding[r].uncertain \ ids
    BY <1>5, TheBinding, UncertainFields
  <2>2. binding' = [binding EXCEPT ![r] = c]
    BY <1>5
  <2> HIDE DEF c
  <2>3. /\ binding' \in [Records -> Binding \cup {None}]
        /\ binding'[r] = c /\ Bound' = {r} /\ Bound = {r}
    <3>1. Bound = {r} /\ r \in Records
      BY <1>5, TheBinding
    <3>2. c # None
      BY <2>1, BindingAssumption
    <3>3. binding' \in [Records -> Binding \cup {None}] /\ binding'[r] = c
      BY <2>1, <2>2, <3>1 DEF IInv, TypeOK
    <3>4. \A q \in Records \ {r} : binding'[q] = None
      BY <2>2, <3>1 DEF IInv, TypeOK, Bound
    <3> QED  BY <3>1, <3>2, <3>3, <3>4 DEF Bound
  <2>4. look' = None
    BY <1>5, <2>3 DEF Recheck, IInv, LookStands
  <2>5. TypeOK'
    BY <1>1, <1>3, <1>5, <2>3, <2>4 DEF IInv, TypeOK, os, world
  <2>6. OneBound' /\ Apart' /\ LookStands'
    BY <1>5, <2>1, <2>3, <2>4 DEF IInv, OneBound, Apart, LookStands
  <2>7. NoStray'
    BY <1>1, <2>1, <2>3 DEF IInv, NoStray, os
  <2>8. Flagged'
    BY <1>1, <1>5, <2>1, <2>3 DEF IInv, TypeOK, Flagged
  <2> QED  BY <1>3, <1>5, <2>5, <2>6, <2>7, <2>8 DEF IInv
<1> QED  BY <1>2, <1>4, <1>5 DEF Acknowledge

(* Time passes, the store fails, the daemon restarts or hands over. *)
LEMMA WorldSteps ==
    ASSUME IInv,
           \/ \E r \in Records : Ages(r)
           \/ Skip \/ StoreFails \/ Restart \/ Offer \/ Abort \/ Succeed
    PROVE  IInv'
<1>1. UNCHANGED <<provider, binding, os, mail>> /\ look' \in {look, None}
  BY DEF Ages, Skip, StoreFails, Restart, Offer, Abort, Succeed, world
<1>2. age' \in [Records -> 0..2]
  BY DEF IInv, TypeOK, Ages, Skip, StoreFails, Restart, Offer, Abort, Succeed
<1>3. mode' \in {"ok", "failed", "fenced"} /\ left' \in 0..MaxDisturbances
  BY SpendType DEF IInv, TypeOK, Ages, Skip, StoreFails, Fails, Restart, Offer, Abort,
                   Succeed, world
<1>4. TypeOK'
  BY <1>1, <1>2, <1>3 DEF IInv, TypeOK, os, mail
<1>5. LookStands'
  BY <1>1 DEF IInv, LookStands, Bound, os
<1> QED  BY <1>1, <1>4, <1>5 DEF IInv, OneBound, Apart, Offered, NoStray, Flagged,
                                 Bound, os, mail

-----------------------------------------------------------------------------
(* The invariant holds of a daemon that has just started. *)
LEMMA IInvInit == Init => IInv
<1> SUFFICES ASSUME Init PROVE IInv
  OBVIOUS
<1>1. TypeOK
  BY BindingAssumption DEF Init, TypeOK
<1>2. Bound = {}
  BY DEF Init, Bound
<1> QED  BY <1>1, <1>2 DEF Init, IInv, OneBound, Apart, LookStands, Offered, NoStray,
                           Flagged

(* Every step preserves it. *)
LEMMA IInvStep == IInv /\ [Next]_vars => IInv'
<1> SUFFICES ASSUME IInv, [Next]_vars PROVE IInv'
  OBVIOUS
<1>1. CASE UNCHANGED vars
  <2>1. TypeOK'
    BY <1>1 DEF IInv, TypeOK, vars, os, mail, world
  <2> QED  BY <1>1, <2>1 DEF IInv, OneBound, Apart, LookStands, Offered, NoStray,
                             Flagged, Bound, vars, os, mail, world
<1>2. ASSUME NEW r \in Records, NEW p \in Procs, NEW l \in {None, "old"}, Bind(r, p, l)
      PROVE  IInv'
  BY <1>2, BindStep
<1>3. ASSUME NEW r \in Records, NEW s \in Records, Resume(r, s, "old")
      PROVE  IInv'
  BY <1>3, ResumeStep
<1>4. ASSUME NEW r \in Records, NEW p \in Procs,
             Launch(r, p) \/ KilledLaunching(r, p)
      PROVE  IInv'
  BY <1>4, LaunchStep
<1>5. ASSUME NEW r \in Records, NEW ids \in SUBSET queue[r], Acknowledge(r, ids)
      PROVE  IInv'
  BY <1>5, AcknowledgeStep
<1> QED  BY <1>1, <1>2, <1>3, <1>4, <1>5, ProcessSteps, UnbindStep, RequestSteps,
            LookStep, StopStep, NoteSteps, QueueSteps, WorldSteps
         DEF Next, Tick

(* It holds at all times. *)
LEMMA Invariance == Spec => []IInv
BY IInvInit, IInvStep, PTL DEF Spec

(* Every variable has its type; in particular no episode of launches is    *)
(* longer than CONTROLLER_RESTARTS allows, however late a decision to      *)
(* launch is carried out.                                                  *)
THEOREM TypeCorrect == Spec => []TypeOK
<1>1. IInv => TypeOK
  BY DEF IInv
<1> QED  BY <1>1, Invariance, PTL

(* No process that the daemon started as a controller is lost sight of     *)
(* while it has not bound: a binding names it, or it was told to stop, or  *)
(* its daemon was killed in the moment it started it (note_launch).        *)
THEOREM AllAccountedFor == Spec => []NoStray
<1>1. IInv => NoStray
  BY DEF IInv
<1> QED  BY <1>1, Invariance, PTL

(* What a reader may have seen before the binding and is queued still is   *)
(* flagged to the controller as uncertain, through releases, returns of    *)
(* the session and failed writes (legacy_offers, forget_delivered).        *)
THEOREM NothingTwice == Spec => []Flagged
<1>1. IInv => Flagged
  BY DEF IInv
<1> QED  BY <1>1, Invariance, PTL

(* The step form of SparesBound. *)
Spares ==
    \A r \in Bound : binding[r].controller \in alive /\ ~binding[r].upgrade =>
        /\ binding[r].controller \notin told' \ told
        /\ binding[r].controller \notin alive' => look' = look

(* No step kills the controller that a record names unless an upgrade      *)
(* replaces it.                                                            *)
LEMMA SparesStep == IInv /\ [Next]_vars => Spares \/ UNCHANGED vars
<1> SUFFICES ASSUME IInv, [Next]_vars, NEW s \in Bound,
                    binding[s].controller \in alive, ~binding[s].upgrade,
                    ~ UNCHANGED vars
             PROVE  /\ binding[s].controller \notin told' \ told
                    /\ binding[s].controller \notin alive' => look' = look
  BY DEF Spares
<1>1. /\ Bound = {s} /\ s \in Records
      /\ binding[s].launched # binding[s].controller
  BY TheBinding DEF IInv, Apart
<1>2. CASE UNCHANGED told /\ alive \subseteq alive'
  BY <1>2
<1>3. ASSUME NEW p \in Procs, HookStarts(p) \/ Dies(p)
      PROVE  /\ told' \subseteq told
             /\ binding[s].controller \notin alive' => look' = look
  BY <1>3 DEF HookStarts, Dies, Starts, Gone
<1>4. ASSUME NEW r \in Records, NEW p \in Procs, NEW l \in {None, "old"}, Bind(r, p, l)
      PROVE  FALSE
  BY <1>1, <1>4 DEF Bind, CanBind
<1>5. ASSUME NEW r \in Records, Unbind(r)
      PROVE  /\ binding[s].controller \notin told' \ told
             /\ alive' = alive
  BY <1>1, <1>5 DEF Unbind, SigTerm
<1>6. ASSUME NEW r \in Records, Stop(r)
      PROVE  /\ binding[s].controller \notin told' \ told
             /\ binding[s].controller \in alive'
  <2>1. r = s /\ look.target = binding[s].launched
    BY <1>1, <1>6, DoingStands DEF Stop
  <2> QED  BY <1>1, <1>6, <2>1 DEF Stop, Gone, SigTerm
<1>7. ASSUME NEW r \in Records, NEW p \in Procs,
             Launch(r, p) \/ KilledLaunching(r, p)
      PROVE  /\ binding[s].controller \notin told' \ told
             /\ alive \subseteq alive'
  <2>1. PICK by : Starts(p, by)
    BY <1>7 DEF Launch, KilledLaunching
  <2>2. p # binding[s].controller
    BY <2>1 DEF Starts, Named
  <2> QED  BY <2>1, <2>2 DEF Starts
<1>8. CASE \/ \E r \in Records :
                 \/ Registers(r) \/ SessionEnds(r) \/ Upgrade(r) \/ Retry(r)
                 \/ \E q \in Records : Resume(r, q, "old")
                 \/ Look(r) \/ NoteEnded(r) \/ NoteExhausted(r) \/ LaunchFails(r)
                 \/ Ages(r)
                 \/ \E m \in Messages : Send(r, m)
                 \/ Read(r) \/ Drain(r)
                 \/ \E ids \in SUBSET queue[r] : Acknowledge(r, ids)
           \/ Skip \/ StoreFails \/ Restart \/ Offer \/ Abort \/ Succeed
  <2>1. UNCHANGED os
    BY <1>8 DEF Registers, SessionEnds, Upgrade, Retry, Resume, Look, NoteEnded,
                NoteExhausted, LaunchFails, Ages, Send, Read, Drain, Acknowledge,
                Skip, StoreFails, Restart, Offer, Abort, Succeed
  <2> QED  BY <1>2, <2>1 DEF os
<1> QED  BY <1>3, <1>4, <1>5, <1>6, <1>7, <1>8 DEF Next, Tick

(* However late a decision of the tick is carried out, it neither signals  *)
(* nor ends a bound controller that is not being upgraded                  *)
(* (controller_step).                                                      *)
THEOREM BoundAreSpared == Spec => SparesBound
<1>1. IInv /\ [Next]_vars => [Spares]_vars
  BY SparesStep
<1> QED  BY <1>1, Invariance, PTL DEF Spec, SparesBound, Spares
===========================================================================
