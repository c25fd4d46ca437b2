------------------------------ MODULE Inboxes ------------------------------
(***************************************************************************)
(* The queues of messages the daemon keeps for its agents (State::inboxes  *)
(* in crates/agentd/src/daemon.rs, daemon/inbox.rs): bounded, in order,    *)
(* and left only by an acknowledgement.                                    *)
(*                                                                         *)
(* A queue is a sequence of message ids; what a message says is left out.  *)
(* The bound on its bytes and the one on its count are one bound here.     *)
(***************************************************************************)
EXTENDS Naturals, Sequences

CONSTANT Capacity   \* INBOX_CAPACITY

ASSUME CapacityAssumption == Capacity \in Nat

Elements(s) == {s[i] : i \in DOMAIN s}

(* A plausible slip: the bound is looked at after the message is in. *)
TakesOneMore(box, a) == Len(box[a]) <= Capacity

(* Every recipient has room, or nothing is sent (publish_routed). *)
Takes(box, a) == Len(box[a]) < Capacity

Enqueue(box, to, m) ==
    [a \in DOMAIN box |-> IF a \in to THEN Append(box[a], m) ELSE box[a]]

(* The messages of a queue but for those named, in their order. *)
Without(s, ids) ==
    LET kept[n \in 0..Len(s)] ==
          IF n = 0 THEN <<>>
          ELSE IF s[n] \in ids THEN kept[n - 1] ELSE Append(kept[n - 1], s[n])
    IN  kept[Len(s)]

(* State::ack_inbox: the named messages that are there go. *)
AckInbox(box, a, ids) == [box EXCEPT ![a] = Without(@, ids)]

(* State::read_inbox: a queue is delivered in order, up to the first       *)
(* message that is held for somebody who waits for it.                     *)
Visible(s, held) ==
    {s[i] : i \in {j \in DOMAIN s : \A k \in 1..j : s[k] \notin held}}
=============================================================================
