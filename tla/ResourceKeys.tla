---------------------------- MODULE ResourceKeys ----------------------------
(***************************************************************************)
(* When two resource keys overlap (ResourceKey, crates/core/src/lease.rs). *)
(*                                                                         *)
(* The code decides it on strings, with prefixes and a look at one byte;   *)
(* what it is to decide is about paths: one is the other or lies below it. *)
(* A key is a kind and a value, the value a sequence of characters.  The   *)
(* behaviours write two keys side by side, one character at a time, so     *)
(* that every pair up to the bound is met.                                 *)
(***************************************************************************)
EXTENDS Integers, Sequences, SequencesExt

CONSTANTS
    Letters,    \* the characters of names
    MaxLength   \* bound on the length of a value

ASSUME LettersAssumption == "/" \notin Letters

ASSUME MaxLengthAssumption == MaxLength \in Nat

Kinds == {"path", "file", "branch"}

Chars == Letters \cup {"/"}

(* ResourceKey::is_hierarchical *)
IsHierarchical(k) == k.kind \in {"path", "file"}

(* What trim_end_matches('/') leaves of a value. *)
TrimEnd(v) ==
    LET last == {i \in 1..Len(v) : v[i] # "/"}
    IN  SubSeq(v, 1, CHOOSE n \in last \cup {0} : \A i \in last : i <= n)

(* ResourceKey::new: trailing slashes go, except that the one key of a     *)
(* single character after the kind keeps it.                               *)
New(k) ==
    IF IsHierarchical(k) /\ Len(k.value) > 1
    THEN [k EXCEPT !.value = TrimEnd(@)]
    ELSE k

(* A plausible slip: no look at the byte behind the prefix, so that /ab    *)
(* lies below /a.                                                          *)
IsAncestorByPrefix(parent, child) ==
    LET p == TrimEnd(parent)
    IN  Len(child) > Len(p) /\ IsPrefix(p, child)

(* is_ancestor *)
IsAncestor(parent, child) ==
    LET p == TrimEnd(parent)
    IN  /\ Len(child) > Len(p)
        /\ IsPrefix(p, child)
        /\ child[Len(p) + 1] = "/"

(* ResourceKey::overlaps *)
KeysOverlap(k, j) ==
    \/ k = j
    \/ /\ IsHierarchical(k)
       /\ k.kind = j.kind
       /\ IsAncestor(k.value, j.value) \/ IsAncestor(j.value, k.value)

-----------------------------------------------------------------------------
(* Every pair of keys that a claim can bring: a path is absolute (localise *)
(* refuses it otherwise), and a file key begins with its project.          *)
VARIABLES one, two

MayStart(kind, v) ==
    CASE kind = "path" -> v[1] = "/"
      [] kind = "file" -> v[1] # "/"
      [] OTHER -> TRUE

Key(kind) == {[kind |-> kind, value |-> <<x>>] : x \in Chars}

Init ==
    /\ one \in {k \in UNION {Key(n) : n \in Kinds} : MayStart(k.kind, k.value)}
    /\ two \in {k \in UNION {Key(n) : n \in Kinds} : MayStart(k.kind, k.value)}

Longer(k, x) == [k EXCEPT !.value = Append(@, x)]

WriteOne == /\ Len(one.value) < MaxLength
            /\ \E x \in Chars : one' = Longer(one, x)
            /\ UNCHANGED two

WriteTwo == /\ Len(two.value) < MaxLength
            /\ \E x \in Chars : two' = Longer(two, x)
            /\ UNCHANGED one

Next == WriteOne \/ WriteTwo

Spec == Init /\ [][Next]_<<one, two>>

-----------------------------------------------------------------------------
(* The reference: a value is the names between its slashes, whatever       *)
(* slashes end it, and one nests in another when its names begin with the  *)
(* other's.                                                                *)
Names(v) ==
    LET u == TrimEnd(v)
        names[n \in 0..Len(u)] ==
            IF n = 0 THEN << << >> >>
            ELSE IF u[n] = "/" THEN Append(names[n - 1], << >>)
            ELSE [names[n - 1] EXCEPT ![Len(names[n - 1])] = Append(@, u[n])]
    IN  names[Len(u)]

Nested(k, j) == IsPrefix(Names(k.value), Names(j.value))

OverlapReference(k, j) ==
    /\ k.kind = j.kind
    /\ IF IsHierarchical(k) THEN Nested(k, j) \/ Nested(j, k) ELSE k = j

(* Two keys overlap exactly when they name the same thing or, for paths    *)
(* and files, one lies below the other, name by name: neither a trailing   *)
(* slash nor the root nor a name that begins with another name changes     *)
(* that, and it is the same for keys that came over the wire as they were  *)
(* (serde's transparent form skips ResourceKey::new).                      *)
OverlapIsNesting ==
    /\ KeysOverlap(New(one), New(two)) = OverlapReference(one, two)
    /\ KeysOverlap(one, two) = OverlapReference(one, two)
    /\ KeysOverlap(New(one), two) = OverlapReference(one, two)
=============================================================================
