----------------------------- MODULE LeaseTable -----------------------------
(***************************************************************************)
(* The lease table (crates/core/src/lease.rs): who holds what, whether a   *)
(* lease is in a claim's way, and what each operation leaves behind.       *)
(*                                                                         *)
(* A table is a function from lease ids to leases, None where the          *)
(* HashMap has no entry.  Wall-clock time is abstracted to one bit per     *)
(* lease: `due' says that expires_at has passed.  Notes, amounts and       *)
(* timestamps are left out; `handed' stands for held_since being set.      *)
(***************************************************************************)
EXTENDS Integers

CONSTANTS
    Agents,     \* agent ids
    Resources,  \* resource keys
    Overlap,    \* the pairs of keys for which ResourceKey::overlaps holds
    LeaseIds,   \* lease ids (random and never reused in the code)
    None        \* nothing: no lease under an id, no request, no bundle

Modes == {"exclusive", "shared"}

Lease == [holder : Agents, resource : Resources, mode : Modes,
          automatic : BOOLEAN, handed : BOOLEAN, due : BOOLEAN]

(* `overlaps' compares keys for equality first and is symmetric in the two *)
(* ancestor tests it makes afterwards (module ResourceKeys checks that).   *)
ASSUME OverlapAssumption ==
    /\ Overlap \subseteq Resources \X Resources
    /\ \A r \in Resources : <<r, r>> \in Overlap
    /\ \A r, s \in Resources : <<r, s>> \in Overlap => <<s, r>> \in Overlap

ASSUME NoneAssumption == None \notin Lease

Tables == [LeaseIds -> Lease \cup {None}]

EmptyTable == [i \in LeaseIds |-> None]

Held(t) == {i \in LeaseIds : t[i] # None}

Overlaps(r, s) == <<r, s>> \in Overlap

Conflicting(m, n) == m = "exclusive" \/ n = "exclusive"

(* Lease::blocks *)
Blocks(l, requester, mode, resource) ==
    /\ l.holder # requester
    /\ Overlaps(l.resource, resource)
    /\ Conflicting(l.mode, mode)

ByHolder(t, a) == {i \in Held(t) : t[i].holder = a}

(* A plausible slip: keys compared for equality, so that a lease on a      *)
(* directory does not stand in the way of a claim to a file in it.         *)
InTheWayExactly(t, q) ==
    {i \in Held(t) : /\ t[i].resource = q.resource
                     /\ Blocks(t[i], q.agent, q.mode, q.resource)}

(* The leases in the way of a claim: the Conflict of claim_as. *)
InTheWay(t, q) ==
    {i \in Held(t) : Blocks(t[i], q.agent, q.mode, q.resource)}

(* The leases a claim renews instead of making a new one. *)
Same(t, q) ==
    {i \in Held(t) : /\ t[i].holder = q.agent
                     /\ t[i].resource = q.resource
                     /\ t[i].mode = q.mode}

Remove(t, ids) == [i \in LeaseIds |-> IF i \in ids THEN None ELSE t[i]]

Due(t) == {i \in Held(t) : t[i].due}

(* LeaseTable::expire *)
Expire(t) == Remove(t, Due(t))

NewLease(q) == [holder |-> q.agent, resource |-> q.resource, mode |-> q.mode,
                automatic |-> q.automatic, handed |-> FALSE, due |-> FALSE]

(* Claiming again what is held extends it; it stays automatic only while   *)
(* every claim of it was.                                                  *)
Reclaimed(l, q) == [l EXCEPT !.due = FALSE,
                             !.automatic = @ /\ q.automatic]

(* LeaseTable::claim_as on a table without expired leases: whether it      *)
(* conflicts, and otherwise the leases it can answer with.  The HashMap    *)
(* may find any of several matching leases; `fresh' are the ids a new      *)
(* lease may get.                                                          *)
Conflicts(t, q) == Same(t, q) = {} /\ InTheWay(t, q) # {}

ClaimAs(t, q, fresh) ==
    IF Same(t, q) # {}
    THEN {[id |-> i, lease |-> Reclaimed(t[i], q)] : i \in Same(t, q)}
    ELSE {[id |-> i, lease |-> NewLease(q)] : i \in fresh}

(* LeaseTable::restore: insert, or replace what the id names. *)
Restore(t, g) == [t EXCEPT ![g.id] = g.lease]

(* LeaseTable::renew, for a lease its holder owns. *)
Renewed(t, i) == [t EXCEPT ![i].due = FALSE]

(* LeaseTable::release_held *)
Releasable(t, a, onlyAutomatic) ==
    {i \in ByHolder(t, a) : onlyAutomatic => t[i].automatic}

(* LeaseTable::transfer_selected: what a handoff's acceptance moves.  Only *)
(* the leases of the bundle that the sender still has and that have not    *)
(* run out; nothing is checked for conflicts.                              *)
Movable(t, from, ids) == {i \in ids \cap ByHolder(t, from) : ~t[i].due}

TransferSelected(t, from, to, ids) ==
    [i \in LeaseIds |-> IF i \in Movable(t, from, ids)
                        THEN [t[i] EXCEPT !.holder = to, !.handed = TRUE]
                        ELSE t[i]]

(* Two leases of different agents that may not be held together. *)
Clash(l, m) == Blocks(l, m.holder, m.mode, m.resource)
=============================================================================
