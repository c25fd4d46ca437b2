--------------------------- MODULE HandoverProofs ---------------------------
(***************************************************************************)
(* For any number of processes, crashes, failing writes and shutdowns: at  *)
(* most one process writes the database, it has seen every earlier write,  *)
(* and a daemon leaves for a successor only when its offer was taken up.   *)
(*                                                                         *)
(* Why one process writes: nobody does while an offer is open (NotBoth),   *)
(* and what ends an offer is one step of one process.  A process can start *)
(* to write in three ways.  It accepts or aborts: then the offer was open  *)
(* and nobody wrote.  It opens a database without an offer: then it is an  *)
(* ordinary daemon alone with the lock (LockAlone), and every writer has   *)
(* the lock, for a successor whose offer is no longer open never gets as   *)
(* far as opening the database (Addressed): its predecessor kills it       *)
(* before it withdraws the offer (Order).                                  *)
(*                                                                         *)
(* Of daemons none of which was told to stop it also shows that each that  *)
(* serves has the listener the socket path names (Listening).              *)
(***************************************************************************)
EXTENDS Handover, TLAPS

(* A successor that has, or was sent, the handover and not yet accepted. *)
Pending(c) ==
    \/ pc[c] \in {"received", "opened"}
    \/ pc[c] = "spawned" /\ mail[c] # 0

(* The offer of this id was taken up, or there has been a later one. *)
Taken(id) == \/ id < row.id
             \/ id = row.id /\ row.state = "accepted"

(* What a process is not, before it starts and once it is gone. *)
Blank ==
    \A p \in Procs :
        /\ pc[p] \in {"unborn", "dead", "locked", "spawned", "received"} =>
              coord[p] = "none"
        /\ pc[p] \in {"unborn", "locked", "spawned", "received", "opened"} =>
              told[p] = "none"
        /\ pc[p] \in {"unborn", "spawned"} => reply[p] = "none"
        /\ pc[p] \in {"unborn", "locked", "loaded"} => mail[p] = 0
        /\ stage[p] # "none" =>
              pc[p] \in {"up", "stopping", "ending"} /\ coord[p] = "quiescing"

(* Every writer and every pending successor has the lock; a daemon that is *)
(* opening has it alone.                                                   *)
LockAlone ==
    \A p \in Procs :
        /\ coord[p] = "serving" \/ stage[p] # "none" \/ Pending(p) => lock[p]
        /\ pc[p] = "locked" => lock[p] /\ \A q \in Procs : lock[q] => q = p

(* Nobody writes while an offer is open. *)
NotBoth == row.state = "offered" => \A p \in Procs : coord[p] # "serving"

(* Whoever can settle the open offer has seen every write. *)
InStep ==
    row.state = "offered" =>
        \A p \in Procs : coord[p] = "quiescing" /\ offer[p] = row.id =>
            next[p] = head + 1

(* A pending successor is the one the open offer names. *)
Addressed ==
    \A c \in Procs :
        /\ Pending(c) => /\ row.state = "offered"
                         /\ row.id = mail[c]
                         /\ row.successor = c
        /\ pc[c] = "opened" => coord[c] = "quiescing" /\ offer[c] = mail[c]

(* What a predecessor knows at each step of its reload. *)
Order ==
    \A p \in Procs :
        /\ stage[p] \in {"offered", "spawned"} =>
              /\ row.successor = p
              /\ \A q \in Procs \ {p} : coord[q] = "quiescing" => offer[q] # row.id
        /\ stage[p] = "offered" => child[p] = None
        /\ stage[p] = "addressed" => row.successor = child[p]
        /\ stage[p] \in {"offered", "spawned", "addressed"} =>
              row.state = "offered" /\ row.id = offer[p]
        /\ stage[p] \in {"spawned", "addressed"} =>
              /\ child[p] \in Procs
              /\ mail[child[p]] = 0
              /\ pc[child[p]] \in {"spawned", "dead"}
        /\ stage[p] = "waiting" => mail[child[p]] = offer[p]
        /\ stage[p] \in {"waiting", "looking", "killing"} => child[p] \in Procs
        /\ stage[p] = "aborting" /\ child[p] # None => pc[child[p]] = "dead"
        /\ stage[p] # "none" /\ row.id = offer[p] =>
              row.successor = p \/ row.successor = child[p]

(* Offers are numbered upwards, and no two reloads share one or a child. *)
Numbered ==
    /\ \A p \in Procs : offer[p] <= row.id /\ mail[p] <= row.id
    /\ \A p, q \in Procs :
          /\ stage[p] # "none" /\ stage[q] # "none" /\ offer[p] = offer[q] => p = q
          /\ child[p] # None /\ child[p] = child[q] => p = q
    /\ \A p \in Procs : child[p] \in Procs => pc[child[p]] # "unborn"

(* A successor says it serves, and its predecessor goes, after acceptance. *)
Answered ==
    \A p \in Procs :
        /\ pc[p] \in {"up", "stopping", "ending"} /\ mail[p] # 0 => Taken(mail[p])
        /\ reply[p] = "serving" => mail[p] # 0 /\ Taken(mail[p])
        /\ told[p] = "ok" => Taken(offer[p])

IInv ==
    /\ TypeOK
    /\ Blank
    /\ LockAlone
    /\ NotBoth
    /\ InStep
    /\ Addressed
    /\ Order
    /\ Numbered
    /\ Answered
    /\ OneWriter
    /\ Coherent

-----------------------------------------------------------------------------
(* An ordinary daemon takes the lock, opens the database and binds. *)
LEMMA StartSteps ==
    ASSUME IInv, NEW p \in Procs, StartStep(p)
    PROVE  IInv'
<1> USE DEF store, memory, fds, channel, reload, Stage, Move
<1>1. CASE Start(p)
  <2>1. TypeOK'
    BY <1>1 DEF IInv, TypeOK, Locked, Start, Rows, Successor, Ordinary,
           Running, Disturbances
  <2> QED  BY <1>1, <2>1 DEF IInv, TypeOK, Blank, LockAlone, NotBoth, InStep,
         Addressed, Order, Numbered, Answered, OneWriter, Coherent, Pending,
         Taken, Locked, Start
<1>2. CASE Open(p)
  <2>1. PICK n \in Nat : Load(p, n)
    BY <1>2, RecoveryAssumption DEF Open
  <2>2. TypeOK'
    BY <1>2, <2>1, RecoveryAssumption DEF IInv, TypeOK, Load, Open, Rows,
           Successor, Ordinary, Running, Disturbances
  <2>3. Blank'
    BY <1>2, <2>1, <2>2 DEF IInv, TypeOK, Blank, Load, Open
  <2>4. LockAlone'
    BY <1>2, <2>1, <2>2 DEF IInv, TypeOK, Blank, LockAlone, Pending, Load,
           Open
  <2>5. NotBoth'
    BY <1>2, <2>1, <2>2 DEF IInv, TypeOK, NotBoth, Load, Open
  <2>6. InStep'
    BY <1>2, <2>1, <2>2 DEF IInv, TypeOK, Rows, InStep, Load, Open
  <2>7. Addressed'
    BY <1>2, <2>1, <2>2 DEF IInv, TypeOK, Addressed, Pending, Load, Open
  <2>8. Order'
    BY <1>2, <2>1, <2>2 DEF IInv, TypeOK, Blank, LockAlone, Order, Pending,
           Load, Open
  <2>9. Numbered'
    <3>1. stage[p] = "none"
      BY <1>2 DEF IInv, Blank, Open
    <3>2. \A q \in Procs : offer'[q] <= row.id
      BY <1>2 DEF IInv, TypeOK, Rows, Numbered, Open, Load
    <3> QED  BY <1>2, <3>1, <3>2 DEF IInv, TypeOK, Numbered, Open, Load
  <2>10. Answered'
    BY <1>2, <2>1, <2>2 DEF IInv, TypeOK, Rows, Blank, Answered, Taken, Load,
           Open
  <2>11. OneWriter'
    BY <1>2, <2>1, <2>2 DEF IInv, TypeOK, LockAlone, OneWriter, Pending, Load,
           Open
  <2>12. Coherent'
    BY <1>2, <2>1, <2>2 DEF IInv, TypeOK, Rows, LockAlone, Coherent, Pending,
           Load, Open
  <2> QED  BY <2>2, <2>3, <2>4, <2>5, <2>6, <2>7, <2>8, <2>9, <2>10, <2>11,
         <2>12 DEF IInv
<1>3. CASE Bind(p)
  <2>1. TypeOK'
    BY <1>3 DEF IInv, TypeOK, Bind, Rows, Successor, Ordinary, Running,
           Disturbances
  <2> QED  BY <1>3, <2>1 DEF IInv, TypeOK, Blank, LockAlone, NotBoth, InStep,
         Addressed, Order, Numbered, Answered, OneWriter, Coherent, Pending,
         Taken, Bind
<1> QED  BY <1>1, <1>2, <1>3 DEF StartStep

(* What happens to a running daemon. *)
LEMMA RunSteps ==
    ASSUME IInv, NEW p \in Procs, RunStep(p)
    PROVE  IInv'
<1> USE DEF store, memory, fds, channel, reload, Stage, Move
<1>1. CASE Admit(p)
  <2>1. TypeOK'
    BY <1>1 DEF IInv, TypeOK, Running, Serves, Admit, Rows, Successor,
           Ordinary, Disturbances
  <2> QED  BY <1>1, <2>1 DEF IInv, TypeOK, Blank, LockAlone, NotBoth, InStep,
         Addressed, Order, Numbered, Answered, OneWriter, Coherent, Pending,
         Taken, Running, Serves, Admit
<1>2. CASE Finish(p)
  <2>1. TypeOK'
    BY <1>2 DEF IInv, TypeOK, Finish, Rows, Successor, Ordinary, Running,
           Disturbances
  <2> QED  BY <1>2, <2>1 DEF IInv, TypeOK, Blank, LockAlone, NotBoth, InStep,
         Addressed, Order, Numbered, Answered, OneWriter, Coherent, Pending,
         Taken, Finish
<1>3. CASE Write(p)
  <2>1. TypeOK'
    BY <1>3 DEF IInv, TypeOK, Running, Spend, Commit, Serves, Write, Rows,
           Successor, Ordinary, Disturbances
  <2> QED  BY <1>3, <2>1 DEF IInv, TypeOK, Blank, LockAlone, NotBoth, InStep,
         Addressed, Order, Numbered, Answered, OneWriter, Coherent, Pending,
         Taken, Running, Commit, Serves, Write
<1>4. CASE WriteFails(p)
  <2>1. TypeOK'
    BY <1>4 DEF IInv, TypeOK, Running, Spend, Fails, Serves, WriteFails, Rows,
           Successor, Ordinary, Disturbances
  <2> QED  BY <1>4, <2>1 DEF IInv, TypeOK, Blank, LockAlone, NotBoth, InStep,
         Addressed, Order, Numbered, Answered, OneWriter, Coherent, Pending,
         Taken, Running, Serves, WriteFails
<1>5. CASE Crash(p)
  <2>1. TypeOK'
    BY <1>5 DEF IInv, TypeOK, Alive, Spend, Gone, Crash, Rows, Successor,
           Ordinary, Running, Disturbances
  <2> QED  BY <1>5, <2>1 DEF IInv, TypeOK, Blank, LockAlone, NotBoth, InStep,
         Addressed, Order, Numbered, Answered, OneWriter, Coherent, Pending,
         Taken, Alive, Gone, Crash
<1>6. CASE Shutdown(p)
  <2>1. TypeOK'
    BY <1>6 DEF IInv, TypeOK, Spend, Shutdown, Rows, Successor, Ordinary,
           Running, Disturbances
  <2> QED  BY <1>6, <2>1 DEF IInv, TypeOK, Blank, LockAlone, NotBoth, InStep,
         Addressed, Order, Numbered, Answered, OneWriter, Coherent, Pending,
         Taken, Shutdown
<1> QED  BY <1>1, <1>2, <1>3, <1>4, <1>5, <1>6 DEF RunStep

(* A daemon ends. *)
LEMMA StopSteps ==
    ASSUME IInv, NEW p \in Procs, StopStep(p)
    PROVE  IInv'
<1> USE DEF store, memory, fds, channel, reload, Stage, Move
<1>1. CASE Unlink(p)
  <2>1. TypeOK'
    BY <1>1 DEF IInv, TypeOK, Unlink, Rows, Successor, Ordinary, Running,
           Disturbances
  <2> QED  BY <1>1, <2>1 DEF IInv, TypeOK, Blank, LockAlone, NotBoth, InStep,
         Addressed, Order, Numbered, Answered, OneWriter, Coherent, Pending,
         Taken, Unlink
<1>2. CASE End(p)
  <2>1. TypeOK'
    BY <1>2 DEF IInv, TypeOK, Gone, End, Rows, Successor, Ordinary, Running,
           Disturbances
  <2> QED  BY <1>2, <2>1 DEF IInv, TypeOK, Blank, LockAlone, NotBoth, InStep,
         Addressed, Order, Numbered, Answered, OneWriter, Coherent, Pending,
         Taken, Gone, End
<1>3. CASE Leave(p)
  <2>1. TypeOK'
    BY <1>3 DEF IInv, TypeOK, Gone, Leave, Rows, Successor, Ordinary, Running,
           Disturbances
  <2> QED  BY <1>3, <2>1 DEF IInv, TypeOK, Blank, LockAlone, NotBoth, InStep,
         Addressed, Order, Numbered, Answered, OneWriter, Coherent, Pending,
         Taken, Gone, Leave
<1> QED  BY <1>1, <1>2, <1>3 DEF StopStep

(* A reload begins. *)
LEMMA OfferSteps ==
    ASSUME IInv, NEW p \in Procs, Offer(p)
    PROVE  IInv'
<1> USE DEF store, memory, fds, channel, reload, Stage, Move
<1>1. TypeOK'
  BY DEF IInv, TypeOK, Running, Commit, Serves, Offer, Rows, Successor,
         Ordinary, Disturbances
<1>2. Blank'
  BY <1>1, NoneAssumption DEF IInv, TypeOK, Blank, Running, Commit, Serves,
         Offer
<1>3. LockAlone'
  BY <1>1, NoneAssumption DEF IInv, TypeOK, LockAlone, Pending, Running,
         Commit, Serves, Offer
<1>4. NotBoth'
  BY <1>1, NoneAssumption DEF IInv, TypeOK, NotBoth, OneWriter, Running,
         Commit, Serves, Offer
<1>5. InStep'
  BY <1>1, NoneAssumption DEF IInv, TypeOK, Rows, InStep, Numbered, Coherent,
         Running, Commit, Serves, Offer
<1>6. Addressed'
  BY <1>1, NoneAssumption DEF IInv, TypeOK, Addressed, Pending, Running,
         Commit, Serves, Offer
<1>7. Order'
  BY <1>1, NoneAssumption DEF IInv, TypeOK, Rows, Blank, Order, Numbered,
         Running, Commit, Serves, Offer
<1>8. Numbered'
  BY <1>1, NoneAssumption DEF IInv, TypeOK, Rows, Numbered, Running, Commit,
         Serves, Offer
<1>9. Answered'
  BY <1>1, NoneAssumption DEF IInv, TypeOK, Rows, Answered, Taken, Running,
         Commit, Serves, Offer
<1>10. OneWriter'
  BY <1>1, NoneAssumption DEF IInv, TypeOK, OneWriter, Running, Commit,
         Serves, Offer
<1>11. Coherent'
  BY <1>1, NoneAssumption DEF IInv, TypeOK, Rows, OneWriter, Coherent,
         Running, Commit, Serves, Offer
<1> QED  BY <1>1, <1>2, <1>3, <1>4, <1>5, <1>6, <1>7, <1>8, <1>9, <1>10, <1>11 DEF IInv

(* The predecessor's side. *)
LEMMA ReloadSteps ==
    ASSUME IInv, NEW p \in Procs, ReloadStep(p)
    PROVE  IInv'
<1> USE DEF store, memory, fds, channel, reload, Stage, Move
<1>1. CASE Spawn(p)
  <2>1. TypeOK'
    BY <1>1 DEF IInv, TypeOK, Spawn, Rows, Successor, Ordinary, Running,
           Disturbances
  <2> QED  BY <1>1, <2>1, NoneAssumption DEF IInv, TypeOK, Blank, LockAlone,
         NotBoth, InStep, Addressed, Order, Numbered, Answered, OneWriter,
         Coherent, Pending, Taken, Spawn
<1>2. CASE SpawnFails(p)
  <2>1. TypeOK'
    BY <1>2 DEF IInv, TypeOK, Spend, Fails, SpawnFails, Rows, Successor,
           Ordinary, Running, Disturbances
  <2> QED  BY <1>2, <2>1, NoneAssumption DEF IInv, TypeOK, Blank, LockAlone,
         NotBoth, InStep, Addressed, Order, Numbered, Answered, OneWriter,
         Coherent, Pending, Taken, SpawnFails
<1>3. CASE Readdress(p)
  <2>1. TypeOK'
    BY <1>3 DEF IInv, TypeOK, Order, Commit, Mine, Readdress, Rows, Successor,
           Ordinary, Running, Disturbances
  <2>2. Blank'
    BY <1>3, <2>1, NoneAssumption DEF IInv, TypeOK, Blank, Commit, Mine,
           Readdress
  <2>3. LockAlone'
    BY <1>3, <2>1, NoneAssumption DEF IInv, TypeOK, LockAlone, Pending,
           Commit, Mine, Readdress
  <2>4. NotBoth'
    BY <1>3, <2>1, NoneAssumption DEF IInv, TypeOK, NotBoth, Commit, Mine,
           Readdress
  <2>5. InStep'
    BY <1>3, <2>1, NoneAssumption DEF IInv, TypeOK, Rows, Blank, InStep,
           Order, Commit, Mine, Readdress
  <2>6. Addressed'
    BY <1>3, <2>1, NoneAssumption DEF IInv, TypeOK, Blank, Addressed, Order,
           Pending, Commit, Mine, Readdress
  <2>7. Order'
    BY <1>3, <2>1, NoneAssumption DEF IInv, TypeOK, Rows, Order, Numbered,
           Commit, Mine, Readdress
  <2>8. Numbered'
    BY <1>3, <2>1, NoneAssumption DEF IInv, TypeOK, Rows, Numbered, Commit,
           Mine, Readdress
  <2>9. Answered'
    BY <1>3, <2>1, NoneAssumption DEF IInv, TypeOK, Rows, Answered, Taken,
           Commit, Mine, Readdress
  <2>10. OneWriter'
    BY <1>3, <2>1, NoneAssumption DEF IInv, TypeOK, OneWriter, Commit, Mine,
           Readdress
  <2>11. Coherent'
    BY <1>3, <2>1, NoneAssumption DEF IInv, TypeOK, Rows, NotBoth, Coherent,
           Commit, Mine, Readdress
  <2> QED  BY <2>1, <2>2, <2>3, <2>4, <2>5, <2>6, <2>7, <2>8, <2>9, <2>10,
         <2>11 DEF IInv
<1>4. CASE ReaddressFails(p)
  <2>1. TypeOK'
    BY <1>4 DEF IInv, TypeOK, Spend, Fails, Mine, ReaddressFails, Rows,
           Successor, Ordinary, Running, Disturbances
  <2> QED  BY <1>4, <2>1, NoneAssumption DEF IInv, TypeOK, Blank, LockAlone,
         NotBoth, InStep, Addressed, Order, Numbered, Answered, OneWriter,
         Coherent, Pending, Taken, Mine, ReaddressFails
<1>5. CASE Send(p)
  <2>1. TypeOK'
    BY <1>5 DEF IInv, TypeOK, Order, Alive, Post, Send, Rows, Successor,
           Ordinary, Running, Disturbances
  <2>2. Blank'
    BY <1>5, <2>1, NoneAssumption DEF IInv, TypeOK, Blank, Order, Alive, Post,
           Send
  <2>3. LockAlone'
    BY <1>5, <2>1, NoneAssumption DEF IInv, TypeOK, Blank, LockAlone, Order,
           Pending, Alive, Post, Send
  <2>4. NotBoth'
    BY <1>5, <2>1, NoneAssumption DEF IInv, TypeOK, NotBoth, Alive, Post, Send
  <2>5. InStep'
    BY <1>5, <2>1, NoneAssumption DEF IInv, TypeOK, Rows, InStep, Alive, Post,
           Send
  <2>6. Addressed'
    BY <1>5, <2>1, NoneAssumption DEF IInv, TypeOK, Addressed, Order, Pending,
           Alive, Post, Send
  <2>7. Order'
    BY <1>5, <2>1, NoneAssumption DEF IInv, TypeOK, Rows, Order, Numbered,
           Alive, Post, Send
  <2>8. Numbered'
    BY <1>5, <2>1, NoneAssumption DEF IInv, TypeOK, Rows, Order, Numbered,
           Alive, Post, Send
  <2>9. Answered'
    BY <1>5, <2>1, NoneAssumption DEF IInv, TypeOK, Rows, Blank, Order,
           Answered, Taken, Alive, Post, Send
  <2>10. OneWriter'
    BY <1>5, <2>1, NoneAssumption DEF IInv, TypeOK, OneWriter, Alive, Post,
           Send
  <2>11. Coherent'
    BY <1>5, <2>1, NoneAssumption DEF IInv, TypeOK, Rows, Coherent, Alive,
           Post, Send
  <2> QED  BY <2>1, <2>2, <2>3, <2>4, <2>5, <2>6, <2>7, <2>8, <2>9, <2>10,
         <2>11 DEF IInv
<1>6. CASE SendFails(p)
  <2>1. TypeOK'
    BY <1>6 DEF IInv, TypeOK, Alive, SendFails, Rows, Successor, Ordinary,
           Running, Disturbances
  <2> QED  BY <1>6, <2>1, NoneAssumption DEF IInv, TypeOK, Blank, LockAlone,
         NotBoth, InStep, Addressed, Order, Numbered, Answered, OneWriter,
         Coherent, Pending, Taken, Alive, SendFails
<1>7. CASE HearServing(p)
  <2>1. TypeOK'
    BY <1>7 DEF IInv, TypeOK, HearServing, Rows, Successor, Ordinary, Running,
           Disturbances
  <2> QED  BY <1>7, <2>1 DEF IInv, TypeOK, Blank, LockAlone, NotBoth, InStep,
         Addressed, Order, Numbered, Answered, OneWriter, Coherent, Pending,
         Taken, HearServing
<1>8. CASE HearNothing(p)
  <2>1. TypeOK'
    BY <1>8 DEF IInv, TypeOK, HearNothing, Rows, Successor, Ordinary, Running,
           Disturbances
  <2> QED  BY <1>8, <2>1 DEF IInv, TypeOK, Blank, LockAlone, NotBoth, InStep,
         Addressed, Order, Numbered, Answered, OneWriter, Coherent, Pending,
         Taken, HearNothing
<1>9. CASE LookAccepted(p)
  <2>1. TypeOK'
    BY <1>9 DEF IInv, TypeOK, Accepted, LookAccepted, Rows, Successor,
           Ordinary, Running, Disturbances
  <2> QED  BY <1>9, <2>1 DEF IInv, TypeOK, Blank, LockAlone, NotBoth, InStep,
         Addressed, Order, Numbered, Answered, OneWriter, Coherent, Pending,
         Taken, Accepted, LookAccepted
<1>10. CASE LookOffered(p)
  <2>1. TypeOK'
    BY <1>10 DEF IInv, TypeOK, Spend, Fails, Accepted, LookOffered, Rows,
           Successor, Ordinary, Running, Disturbances
  <2> QED  BY <1>10, <2>1 DEF IInv, TypeOK, Blank, LockAlone, NotBoth, InStep,
         Addressed, Order, Numbered, Answered, OneWriter, Coherent, Pending,
         Taken, Accepted, LookOffered
<1>11. CASE Kill(p)
  <2>1. child[p] \in Procs
    BY <1>11 DEF IInv, Order, Kill
  <2>2. TypeOK'
    <3>1. stage' \in [Procs -> {"none", "offered", "spawned", "addressed",
                     "waiting", "looking", "killing", "aborting", "done"}]
      BY <1>11, <2>1 DEF IInv, TypeOK, Kill
    <3>2. CASE Alive(child[p])
      <4>1. Gone(child[p])
        BY <1>11, <3>2 DEF Kill
      <4>2. pc' \in [Procs -> {"unborn", "ending", "dead"}
                                 \cup Successor \cup Ordinary \cup Running]
        BY <4>1 DEF IInv, TypeOK, Gone
      <4>3. /\ lock' \in [Procs -> BOOLEAN]
            /\ failed' \in [Procs -> BOOLEAN]
            /\ busy' \in [Procs -> BOOLEAN]
        BY <4>1, Zenon DEF IInv, TypeOK, Gone
      <4>4. /\ ear' \in [Procs -> Procs \cup {None}]
            /\ coord' \in [Procs -> {"none", "serving", "quiescing",
                                     "transferred"}]
            /\ next' \in [Procs -> Nat]
        BY <4>1 DEF IInv, TypeOK, Gone
      <4> QED  BY <1>11, <3>1, <4>1, <4>2, <4>3, <4>4 DEF IInv, TypeOK, Gone,
             Kill
    <3>3. CASE ~Alive(child[p])
      BY <1>11, <3>1, <3>3 DEF IInv, TypeOK, Kill
    <3> QED  BY <3>2, <3>3
  <2>3. Blank'
    BY <1>11, <2>1, <2>2, NoneAssumption DEF IInv, TypeOK, Blank, Alive, Gone,
           Kill
  <2>4. LockAlone'
    BY <1>11, <2>1, <2>2, NoneAssumption DEF IInv, TypeOK, LockAlone, Pending,
           Alive, Gone, Kill
  <2>5. NotBoth'
    BY <1>11, <2>1, <2>2, NoneAssumption DEF IInv, TypeOK, NotBoth, Alive,
           Gone, Kill
  <2>6. InStep'
    BY <1>11, <2>1, <2>2, NoneAssumption DEF IInv, TypeOK, Rows, InStep,
           Alive, Gone, Kill
  <2>7. Addressed'
    BY <1>11, <2>1, <2>2, NoneAssumption DEF IInv, TypeOK, Addressed, Pending,
           Alive, Gone, Kill
  <2>8. Order'
    BY <1>11, <2>1, <2>2, NoneAssumption DEF IInv, TypeOK, Rows, Order,
           Numbered, Alive, Gone, Kill
  <2>9. Numbered'
    BY <1>11, <2>1, <2>2, NoneAssumption DEF IInv, TypeOK, Rows, Numbered,
           Alive, Gone, Kill
  <2>10. Answered'
    BY <1>11, <2>1, <2>2, NoneAssumption DEF IInv, TypeOK, Rows, Answered,
           Taken, Alive, Gone, Kill
  <2>11. OneWriter'
    BY <1>11, <2>1, <2>2, NoneAssumption DEF IInv, TypeOK, OneWriter, Alive,
           Gone, Kill
  <2>12. Coherent'
    BY <1>11, <2>1, <2>2, NoneAssumption DEF IInv, TypeOK, Rows, Coherent,
           Alive, Gone, Kill
  <2> QED  BY <2>2, <2>3, <2>4, <2>5, <2>6, <2>7, <2>8, <2>9, <2>10, <2>11,
         <2>12 DEF IInv
<1>12. CASE Abort(p)
  <2>1. TypeOK'
    BY <1>12 DEF IInv, TypeOK, Commit, Mine, Unavailable, Abort, Rows,
           Successor, Ordinary, Running, Disturbances
  <2>2. Blank'
    BY <1>12, <2>1, NoneAssumption DEF IInv, TypeOK, Blank, Commit, Mine,
           Unavailable, Abort
  <2>3. LockAlone'
    BY <1>12, <2>1, NoneAssumption DEF IInv, TypeOK, LockAlone, Pending,
           Commit, Mine, Unavailable, Abort
  <2>4. NotBoth'
    BY <1>12, <2>1, NoneAssumption DEF IInv, TypeOK, Rows, NotBoth, Commit, Mine,
           Unavailable, Abort
  <2>5. InStep'
    BY <1>12, <2>1, NoneAssumption DEF IInv, TypeOK, Rows, InStep, Commit,
           Mine, Unavailable, Abort
  <2>6. Addressed'
    BY <1>12, <2>1, NoneAssumption DEF IInv, TypeOK, Blank, Addressed, Order,
           Pending, Commit, Mine, Unavailable, Abort
  <2>7. Order'
    BY <1>12, <2>1, NoneAssumption DEF IInv, TypeOK, Rows, Order, Numbered,
           Commit, Mine, Unavailable, Abort
  <2>8. Numbered'
    BY <1>12, <2>1, NoneAssumption DEF IInv, TypeOK, Rows, Numbered, Commit,
           Mine, Unavailable, Abort
  <2>9. Answered'
    BY <1>12, <2>1, NoneAssumption DEF IInv, TypeOK, Rows, Answered, Taken,
           Commit, Mine, Unavailable, Abort
  <2>10. OneWriter'
    BY <1>12, <2>1, NoneAssumption DEF IInv, TypeOK, NotBoth, OneWriter,
           Commit, Mine, Unavailable, Abort
  <2>11. Coherent'
    BY <1>12, <2>1, NoneAssumption DEF IInv, TypeOK, Rows, Blank, NotBoth,
           InStep, Coherent, Commit, Mine, Unavailable, Abort
  <2> QED  BY <2>1, <2>2, <2>3, <2>4, <2>5, <2>6, <2>7, <2>8, <2>9, <2>10,
         <2>11 DEF IInv
<1>13. CASE AbortFails(p)
  <2>1. TypeOK'
    BY <1>13 DEF IInv, TypeOK, Spend, Fails, Unavailable, AbortFails, Rows,
           Successor, Ordinary, Running, Disturbances
  <2> QED  BY <1>13, <2>1 DEF IInv, TypeOK, Blank, LockAlone, NotBoth, InStep,
         Addressed, Order, Numbered, Answered, OneWriter, Coherent, Pending,
         Taken, Unavailable, AbortFails
<1> QED  BY <1>1, <1>2, <1>3, <1>4, <1>5, <1>6, <1>7, <1>8, <1>9, <1>10,
       <1>11, <1>12, <1>13 DEF ReloadStep

(* The successor's side. *)
LEMMA SuccessorSteps ==
    ASSUME IInv, NEW p \in Procs, SuccessorStep(p)
    PROVE  IInv'
<1> USE DEF store, memory, fds, channel, reload, Stage, Move
<1>1. CASE Receive(p)
  <2>1. TypeOK'
    BY <1>1 DEF IInv, TypeOK, Receive, Rows, Successor, Ordinary, Running,
           Disturbances
  <2> QED  BY <1>1, <2>1 DEF IInv, TypeOK, Blank, LockAlone, NotBoth, InStep,
         Addressed, Order, Numbered, Answered, OneWriter, Coherent, Pending,
         Taken, Receive
<1>2. CASE ReceiveEnds(p)
  <2>1. TypeOK'
    BY <1>2 DEF IInv, TypeOK, Alive, Gone, ReceiveEnds, Rows, Successor,
           Ordinary, Running, Disturbances
  <2> QED  BY <1>2, <2>1 DEF IInv, TypeOK, Blank, LockAlone, NotBoth, InStep,
         Addressed, Order, Numbered, Answered, OneWriter, Coherent, Pending,
         Taken, Alive, Gone, ReceiveEnds
<1>3. CASE OpenPending(p)
  <2>1. row.state = "offered"
    BY <1>3 DEF IInv, Addressed, Pending, OpenPending, Move
  <2>2. TypeOK'
    BY <1>3, <2>1, RecoveryAssumption DEF IInv, TypeOK, Load, OpenPending,
           Rows, Successor, Ordinary, Running, Disturbances
  <2>3. Blank'
    BY <1>3, <2>1, <2>2, RecoveryAssumption DEF IInv, TypeOK, Blank, Load,
           OpenPending
  <2>4. LockAlone'
    BY <1>3, <2>1, <2>2, RecoveryAssumption DEF IInv, TypeOK, LockAlone,
           Pending, Load, OpenPending
  <2>5. NotBoth'
    BY <1>3, <2>1, <2>2, RecoveryAssumption DEF IInv, TypeOK, NotBoth, Load,
           OpenPending
  <2>6. InStep'
    BY <1>3, <2>1, <2>2, RecoveryAssumption DEF IInv, TypeOK, Rows, InStep,
           Load, OpenPending
  <2>7. Addressed'
    BY <1>3, <2>1, <2>2, RecoveryAssumption DEF IInv, TypeOK, Addressed,
           Pending, Load, OpenPending
  <2>8. Order'
    BY <1>3, <2>1, <2>2, RecoveryAssumption DEF IInv, TypeOK, Blank,
           Addressed, Order, Pending, Load, OpenPending
  <2>9. Numbered'
    <3>1. stage[p] = "none"
      BY <1>3 DEF IInv, Blank, OpenPending
    <3>2. \A q \in Procs : offer'[q] <= row.id
      BY <1>3 DEF IInv, TypeOK, Rows, Numbered, OpenPending, Load
    <3> QED  BY <1>3, <3>1, <3>2 DEF IInv, TypeOK, Numbered, OpenPending, Load
  <2>10. Answered'
    BY <1>3, <2>1, <2>2, RecoveryAssumption DEF IInv, TypeOK, Rows, Blank,
           Answered, Taken, Load, OpenPending
  <2>11. OneWriter'
    BY <1>3, <2>1, <2>2, RecoveryAssumption DEF IInv, TypeOK, OneWriter, Load,
           OpenPending
  <2>12. Coherent'
    BY <1>3, <2>1, <2>2, RecoveryAssumption DEF IInv, TypeOK, Rows, Coherent,
           Load, OpenPending
  <2> QED  BY <2>2, <2>3, <2>4, <2>5, <2>6, <2>7, <2>8, <2>9, <2>10, <2>11,
         <2>12 DEF IInv
<1>4. CASE Accept(p)
  <2>1. PICK k \in Nat : Commit(p, k)
    BY <1>4, RecoveryAssumption DEF Accept
  <2>2. TypeOK'
    <3>1. head' \in Nat /\ next' \in [Procs -> Nat]
      BY <2>1 DEF IInv, TypeOK, Commit
    <3>2. failed' \in [Procs -> BOOLEAN] /\ left' \in [Disturbances -> Nat]
      <4>1. CASE UNCHANGED <<failed, left>>
        BY <4>1 DEF IInv, TypeOK
      <4>2. CASE Fails /\ failed' = [failed EXCEPT ![p] = TRUE]
        <5>1. failed' \in [Procs -> BOOLEAN]
          BY <4>2, Zenon DEF IInv, TypeOK
        <5>2. left' \in [Disturbances -> Nat]
          BY <4>2 DEF IInv, TypeOK, Fails, Spend, Disturbances
        <5> QED  BY <5>1, <5>2
      <4> QED  BY <1>4, <4>1, <4>2 DEF Accept
    <3>3. row' \in Rows
      BY <1>4 DEF IInv, TypeOK, Accept, Rows
    <3> QED  BY <1>4, <3>1, <3>2, <3>3 DEF IInv, TypeOK, Accept, Successor,
         Ordinary, Running
  <2>3. Blank'
    BY <1>4, <2>1, <2>2 DEF IInv, TypeOK, Blank, Spend, Fails, Commit,
           CanAccept, Accept
  <2>4. LockAlone'
    BY <1>4, <2>1, <2>2 DEF IInv, TypeOK, LockAlone, Pending, Spend, Fails,
           Commit, CanAccept, Accept
  <2>5. NotBoth'
    BY <1>4, <2>1, <2>2 DEF IInv, TypeOK, NotBoth, Spend, Fails, Commit,
           CanAccept, Accept
  <2>6. InStep'
    BY <1>4, <2>1, <2>2 DEF IInv, TypeOK, Rows, InStep, Spend, Fails, Commit,
           CanAccept, Accept
  <2>7. Addressed'
    BY <1>4, <2>1, <2>2 DEF IInv, TypeOK, Addressed, Pending, Spend, Fails,
           Commit, CanAccept, Accept
  <2>8. Order'
    BY <1>4, <2>1, <2>2 DEF IInv, TypeOK, Blank, Addressed, Order, Pending,
           Spend, Fails, Commit, CanAccept, Accept
  <2>9. Numbered'
    BY <1>4, <2>1, <2>2 DEF IInv, TypeOK, Rows, Numbered, Spend, Fails,
           Commit, CanAccept, Accept
  <2>10. Answered'
    BY <1>4, <2>1, <2>2 DEF IInv, TypeOK, Rows, Addressed, Answered, Pending,
           Taken, Spend, Fails, Commit, CanAccept, Accept
  <2>11. OneWriter'
    BY <1>4, <2>1, <2>2 DEF IInv, TypeOK, NotBoth, OneWriter, Spend, Fails,
           Commit, CanAccept, Accept
  <2>12. Coherent'
    BY <1>4, <2>1, <2>2 DEF IInv, TypeOK, Rows, NotBoth, InStep, Addressed,
           Coherent, Pending, Spend, Fails, Commit, CanAccept, Accept
  <2> QED  BY <2>2, <2>3, <2>4, <2>5, <2>6, <2>7, <2>8, <2>9, <2>10, <2>11,
         <2>12 DEF IInv
<1>5. CASE AcceptRefused(p)
  <2>1. TypeOK'
    BY <1>5 DEF IInv, TypeOK, Spend, Fails, CanAccept, AcceptRefused, Rows,
           Successor, Ordinary, Running, Disturbances
  <2> QED  BY <1>5, <2>1 DEF IInv, TypeOK, Blank, LockAlone, NotBoth, InStep,
         Addressed, Order, Numbered, Answered, OneWriter, Coherent, Pending,
         Taken, CanAccept, AcceptRefused
<1>6. CASE AnswerServing(p)
  <2>1. TypeOK'
    BY <1>6 DEF IInv, TypeOK, Answer, AnswerServing, Rows, Successor,
           Ordinary, Running, Disturbances
  <2> QED  BY <1>6, <2>1 DEF IInv, TypeOK, Blank, LockAlone, NotBoth, InStep,
         Addressed, Order, Numbered, Answered, OneWriter, Coherent, Pending,
         Taken, Answer, AnswerServing
<1>7. CASE AnswerFailed(p)
  <2>1. TypeOK'
    BY <1>7 DEF IInv, TypeOK, Answer, AnswerFailed, Rows, Successor, Ordinary,
           Running, Disturbances
  <2> QED  BY <1>7, <2>1 DEF IInv, TypeOK, Blank, LockAlone, NotBoth, InStep,
         Addressed, Order, Numbered, Answered, OneWriter, Coherent, Pending,
         Taken, Answer, AnswerFailed
<1>8. CASE GiveUp(p)
  <2>1. TypeOK'
    BY <1>8 DEF IInv, TypeOK, Gone, GiveUp, Rows, Successor, Ordinary,
           Running, Disturbances
  <2> QED  BY <1>8, <2>1 DEF IInv, TypeOK, Blank, LockAlone, NotBoth, InStep,
         Addressed, Order, Numbered, Answered, OneWriter, Coherent, Pending,
         Taken, Gone, GiveUp
<1> QED  BY <1>1, <1>2, <1>3, <1>4, <1>5, <1>6, <1>7, <1>8 DEF SuccessorStep

(* The invariant holds of a daemon that has just started. *)
LEMMA IInvInit == Init => IInv
<1> SUFFICES ASSUME Init PROVE IInv
  OBVIOUS
<1>1. TypeOK
  BY BudgetAssumption DEF Init, TypeOK, Rows, Successor, Ordinary, Running
<1> QED
  BY <1>1, NoneAssumption
  DEF Init, IInv, Blank, LockAlone, NotBoth, InStep, Addressed, Order,
      Numbered, Answered, OneWriter, Coherent, Pending

(* Every step preserves it. *)
LEMMA IInvStep == IInv /\ [Next]_vars => IInv'
<1> SUFFICES ASSUME IInv, [Next]_vars PROVE IInv'
  OBVIOUS
<1>1. CASE UNCHANGED vars
  BY <1>1 DEF vars, IInv, TypeOK, Blank, LockAlone, NotBoth, InStep, Addressed,
     Order, Numbered, Answered, OneWriter, Coherent, Pending, Taken
<1>2. CASE Next
  BY <1>2, StartSteps, RunSteps, StopSteps, OfferSteps, ReloadSteps,
     SuccessorSteps DEF Next
<1> QED  BY <1>1, <1>2

-----------------------------------------------------------------------------
(* The listener, of daemons none of which was told to stop.                *)

Unstopped == left["shutdown"] = Budget["shutdown"]

(* Whoever holds a listener holds the one the path names, and a daemon     *)
(* that is up, as well as a successor that was sent the handover, holds    *)
(* one.                                                                    *)
Listening ==
    /\ left["shutdown"] <= Budget["shutdown"]
    /\ Unstopped => \A p \in Procs :
          /\ pc[p] \notin {"stopping", "ending"}
          /\ ear[p] # None => ear[p] = path
          /\ pc[p] = "up" \/ Pending(p) => ear[p] # None

(* What is spent is not given back. *)
LEMMA ShutdownsSpent ==
    ASSUME TypeOK, left["shutdown"] <= Budget["shutdown"], [Next]_vars
    PROVE  /\ left'["shutdown"] <= Budget["shutdown"]
           /\ Unstopped' => Unstopped /\ \A p \in Procs : ~Shutdown(p)
<1>1. /\ left \in [Disturbances -> Nat] /\ Budget \in [Disturbances -> Nat]
      /\ "shutdown" \in Disturbances /\ "any" \in Disturbances
  BY BudgetAssumption DEF TypeOK, Disturbances
<1>2. \A kind \in Disturbances :
         Spend(kind) => left'["shutdown"] <= left["shutdown"]
  BY <1>1 DEF Spend, Disturbances
<1>3. Spend("shutdown") => left'["shutdown"] < left["shutdown"]
  BY <1>1 DEF Spend, Disturbances
<1>4. left' = left \/ \E kind \in Disturbances : Spend(kind)
  <2>1. CASE UNCHANGED vars
    BY <2>1 DEF vars
  <2>2. ASSUME NEW p \in Procs,
               StartStep(p) \/ RunStep(p) \/ StopStep(p) \/ Offer(p)
        PROVE  left' = left \/ \E kind \in Disturbances : Spend(kind)
    BY <2>2 DEF StartStep, Start, Open, Bind, RunStep, Admit, Finish, Write,
         WriteFails, Fails, Crash, Shutdown, StopStep, Unlink, End, Leave,
         Offer, Disturbances
  <2>3. ASSUME NEW p \in Procs, ReloadStep(p) \/ SuccessorStep(p)
        PROVE  left' = left \/ \E kind \in Disturbances : Spend(kind)
    BY <2>3 DEF ReloadStep, Spawn, SpawnFails, Readdress, ReaddressFails, Send,
         SendFails, HearServing, HearNothing, LookAccepted, LookOffered, Kill,
         Abort, AbortFails, SuccessorStep, Receive, ReceiveEnds, OpenPending,
         Accept, AcceptRefused, AnswerServing, AnswerFailed, Answer, GiveUp,
         Fails, Disturbances
  <2> QED  BY <2>1, <2>2, <2>3 DEF Next
<1>5. left'["shutdown"] <= left["shutdown"]
  BY <1>1, <1>2, <1>4
<1>6. left'["shutdown"] \in Nat
  BY <1>1, <1>4 DEF Spend, Disturbances
<1>7. \A p \in Procs : Shutdown(p) => left'["shutdown"] < left["shutdown"]
  BY <1>3 DEF Shutdown
<1> QED  BY <1>1, <1>5, <1>6, <1>7 DEF Unstopped

(* No step of a daemon gives it a listener but the one the path names. *)
LEMMA ListeningStep ==
    ASSUME IInv, Listening, [Next]_vars
    PROVE  Listening'
<1> USE DEF store, memory, fds, channel, reload, Stage, Move
<1> SUFFICES ASSUME Unstopped, Unstopped', \A p \in Procs : ~Shutdown(p)
             PROVE  \A p \in Procs :
                       /\ pc'[p] \notin {"stopping", "ending"}
                       /\ ear'[p] # None => ear'[p] = path'
                       /\ pc'[p] = "up" \/ Pending(p)' => ear'[p] # None
  BY ShutdownsSpent DEF Listening, IInv
<1>1. CASE UNCHANGED vars
  BY <1>1 DEF vars, Listening, Pending
<1>2. ASSUME NEW p \in Procs, StartStep(p)
      PROVE  \A q \in Procs :
                /\ pc'[q] \notin {"stopping", "ending"}
                /\ ear'[q] # None => ear'[q] = path'
                /\ pc'[q] = "up" \/ Pending(q)' => ear'[q] # None
  <2>1. CASE Start(p) \/ Open(p)
    BY <2>1 DEF IInv, TypeOK, Listening, Pending, Start, Open
  <2>2. CASE Bind(p)
    <3>1. \A q \in Procs : ear[q] = None
      BY <2>2 DEF Listening, Bind
    <3> QED  BY <2>2, <3>1, NoneAssumption DEF IInv, TypeOK, Listening, Pending,
           Bind
  <2> QED  BY <1>2, <2>1, <2>2 DEF StartStep
<1>3. ASSUME NEW p \in Procs, RunStep(p) \/ Offer(p)
      PROVE  \A q \in Procs :
                /\ pc'[q] \notin {"stopping", "ending"}
                /\ ear'[q] # None => ear'[q] = path'
                /\ pc'[q] = "up" \/ Pending(q)' => ear'[q] # None
  <2>1. CASE Crash(p)
    BY <2>1 DEF IInv, TypeOK, Listening, Pending, Crash, Gone
  <2>2. CASE UNCHANGED <<pc, ear, path, mail>>
    BY <2>2 DEF Listening, Pending
  <2> QED  BY <1>3, <2>1, <2>2 DEF RunStep, Admit, Finish, Write, WriteFails, Offer
<1>4. ASSUME NEW p \in Procs, StopStep(p)
      PROVE  \A q \in Procs :
                /\ pc'[q] \notin {"stopping", "ending"}
                /\ ear'[q] # None => ear'[q] = path'
                /\ pc'[q] = "up" \/ Pending(q)' => ear'[q] # None
  <2>1. Leave(p)
    BY <1>4 DEF StopStep, Unlink, End, Listening
  <2> QED  BY <2>1 DEF IInv, TypeOK, Listening, Pending, Leave, Gone
<1>5. ASSUME NEW p \in Procs, ReloadStep(p)
      PROVE  \A q \in Procs :
                /\ pc'[q] \notin {"stopping", "ending"}
                /\ ear'[q] # None => ear'[q] = path'
                /\ pc'[q] = "up" \/ Pending(q)' => ear'[q] # None
  <2>1. CASE Spawn(p)
    <3>1. PICK c \in Procs : pc[c] = "unborn" /\ pc' = [pc EXCEPT ![c] = "spawned"]
      BY <2>1 DEF Spawn
    <3>2. mail[c] = 0
      BY <3>1 DEF IInv, Blank
    <3> QED  BY <2>1, <3>1, <3>2 DEF IInv, TypeOK, Listening, Pending, Spawn
  <2>2. CASE Send(p)
    <3>1. child[p] \in Procs /\ pc[p] = "up"
      BY <2>2 DEF IInv, Blank, Order, Listening, Send
    <3>2. ear[p] # None /\ ear[p] = path
      BY <3>1 DEF Listening
    <3> QED  BY <2>2, <3>1, <3>2 DEF IInv, TypeOK, Listening, Pending, Send, Post
  <2>3. CASE Kill(p)
    <3>1. child[p] \in Procs
      BY <2>3 DEF IInv, Order, Kill
    <3> QED  BY <2>3, <3>1 DEF IInv, TypeOK, Listening, Pending, Kill, Gone
  <2>4. CASE UNCHANGED <<pc, ear, path, mail>>
    BY <2>4 DEF Listening, Pending
  <2> QED  BY <1>5, <2>1, <2>2, <2>3, <2>4 DEF ReloadStep, SpawnFails, Readdress,
         ReaddressFails, SendFails, HearServing, HearNothing, LookAccepted,
         LookOffered, Abort, AbortFails
<1>6. ASSUME NEW c \in Procs, SuccessorStep(c)
      PROVE  \A q \in Procs :
                /\ pc'[q] \notin {"stopping", "ending"}
                /\ ear'[q] # None => ear'[q] = path'
                /\ pc'[q] = "up" \/ Pending(q)' => ear'[q] # None
  <2>1. CASE Receive(c) \/ OpenPending(c) \/ Accept(c) \/ AcceptRefused(c)
    BY <2>1 DEF IInv, TypeOK, Listening, Pending, Receive, OpenPending, Accept,
         AcceptRefused
  <2>2. CASE ReceiveEnds(c) \/ GiveUp(c)
    BY <2>2 DEF IInv, TypeOK, Listening, Pending, ReceiveEnds, GiveUp, Gone
  <2>3. CASE AnswerServing(c) \/ AnswerFailed(c)
    BY <2>3 DEF Listening, Pending, AnswerServing, AnswerFailed, Answer
  <2> QED  BY <1>6, <2>1, <2>2, <2>3 DEF SuccessorStep
<1> QED  BY <1>1, <1>2, <1>3, <1>4, <1>5, <1>6 DEF Next

(* It holds at all times. *)
LEMMA Invariance == Spec => []IInv
BY IInvInit, IInvStep, PTL DEF Spec

(* However processes start, die, hand over and fail, at most one of them   *)
(* is past the fence and may write the database.                           *)
THEOREM SingleWriter == Spec => []OneWriter
BY Invariance, PTL DEF IInv

(* The process that may write has seen every write made before it became   *)
(* the coordinator: its sequence numbers go on where the database ends.    *)
THEOREM Continuity == Spec => []Coherent
BY Invariance, PTL DEF IInv

(* A reload answers ok, and the old daemon leaves, only when the store     *)
(* says that the offer was accepted.                                       *)
THEOREM LeavesWhenTaken == Spec => []Ceded
<1>1. IInv => Ceded
  BY DEF IInv, TypeOK, Rows, Answered, Taken, Ceded
<1> QED  BY <1>1, Invariance, PTL
(* A daemon that serves is found on the socket, however often the listener *)
(* was handed on and whoever died in between, as long as none of the       *)
(* daemons was told to stop.                                               *)
THEOREM FoundOnTheSocket == Spec => []Reachable
<1>1. Init => Listening
  BY BudgetAssumption DEF Init, Listening, Pending, Disturbances
<1>2. IInv /\ Listening /\ [Next]_vars => Listening'
  BY ListeningStep
<1>3. Listening => Reachable
  BY DEF Listening, Unstopped, Reachable
<1> QED  BY <1>1, <1>2, <1>3, Invariance, PTL DEF Spec
=============================================================================
