---------------------------- MODULE LockService ----------------------------
(***************************************************************************)
(* What the daemon promises of its leases, whatever it goes through: an    *)
(* agent gets a lock only when nobody else has one in its way, a lock goes *)
(* to another agent only by its holder's handoff, and everything else that *)
(* ever happens to a lock is that it goes.  No lock comes back.            *)
(*                                                                         *)
(* There is no time, queue, database, crash or successor here; LeaseDaemon *)
(* has them all and implements this.                                       *)
(***************************************************************************)
EXTENDS Integers

CONSTANTS Agents, Resources, Overlap, LeaseIds, None

VARIABLE held   \* the lock under each id

Lock == [holder : Agents, resource : Resources,
         mode : {"exclusive", "shared"}]

(* Leases of different agents on overlapping resources, not both shared. *)
Excludes(k, l) ==
    /\ k.holder # l.holder
    /\ <<k.resource, l.resource>> \in Overlap
    /\ k.mode = "exclusive" \/ l.mode = "exclusive"

Init == held = [i \in LeaseIds |-> None]

Taken == {i \in LeaseIds : held[i] # None}

Without(ids) == [i \in LeaseIds |-> IF i \in ids THEN None ELSE held[i]]

(* Locks go: released, expired, or their holder left. *)
Go(ids) == held' = Without(ids)

(* A lock is taken, after others have gone, where none of the rest is in   *)
(* its way.                                                                *)
Take(i, k, ids) ==
    /\ \A j \in Taken \ ids : ~Excludes(held[j], k)
    /\ held' = [Without(ids) EXCEPT ![i] = k]

(* A holder's locks pass to another agent.  Whether anything is in their   *)
(* way is not asked.                                                       *)
Give(a, b, ids) ==
    /\ \A i \in ids : held[i].holder = a
    /\ held' = [i \in LeaseIds |-> IF i \in ids
                                   THEN [held[i] EXCEPT !.holder = b]
                                   ELSE held[i]]

Next ==
    \E ids \in SUBSET Taken :
        \/ Go(ids)
        \/ \E i \in LeaseIds \ Taken, k \in Lock : Take(i, k, ids)
        \/ \E a, b \in Agents : Give(a, b, ids)

Spec == Init /\ [][Next]_held
=============================================================================
