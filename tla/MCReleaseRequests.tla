-------------------------- MODULE MCReleaseRequests --------------------------
(***************************************************************************)
(* Small instances of ReleaseRequests for TLC: a directory and a file in   *)
(* it, two agents, and a third that is a later life of the first.          *)
(***************************************************************************)
EXTENDS ReleaseRequests, TLC

CONSTANTS a1, a2, a3, dir, file, r1, r2, l1, l2

MCOverlap == {dir, file} \X {dir, file}

ClaimOf(a, r) == [agent |-> a, resource |-> r, mode |-> "shared", automatic |-> FALSE]

MCClaims == {ClaimOf(a1, dir), ClaimOf(a2, dir), ClaimOf(a2, file)}
MCReach  == Agents \X Agents
MCLives  == {<<a3, a1>>}

MCWants  == {<<a2, dir>>, <<a3, dir>>}

Alike == Permutations(LeaseIds) \cup Permutations(Requests)

AllKinds == Kinds
=============================================================================
