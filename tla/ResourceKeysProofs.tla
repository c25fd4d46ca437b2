------------------------ MODULE ResourceKeysProofs ------------------------
(***************************************************************************)
(* For keys of any length over any characters: what `overlaps' decides on  *)
(* strings is nesting of paths, name by name.                              *)
(*                                                                         *)
(* The argument has two halves.  Cutting a value into names loses nothing: *)
(* a value is determined by its names (CutOnce), and the beginnings of its *)
(* names are the names of the beginnings of the value that end at a slash  *)
(* (CutBegins, CutGrows).  So names begin with names exactly when the one  *)
(* trimmed value is the other or goes on with a slash behind it            *)
(* (NestedIs).  And that is what `is_ancestor' asks, of values that may    *)
(* still have slashes at their ends (AncestorIs).                          *)
(***************************************************************************)
EXTENDS ResourceKeys, WellFoundedInduction, TLAPS

(* Induction, over a set of numbers instead of a predicate. *)
LEMMA Induction ==
    ASSUME NEW T \in SUBSET Nat, 0 \in T, \A n \in T : n + 1 \in T
    PROVE  T = Nat
<1> SUFFICES ASSUME Nat \ T # {} PROVE FALSE
  OBVIOUS
<1>1. PICK n \in Nat \ T : \A k \in Nat \ T : <<k, n>> \notin OpToRel(<, Nat)
  BY NatLessThanWellFounded, WFMin
<1>2. n - 1 \in Nat /\ n - 1 < n /\ (n - 1) + 1 = n
  OBVIOUS
<1>3. <<n - 1, n>> \in OpToRel(<, Nat)
  BY <1>2 DEF OpToRel
<1> QED  BY <1>1, <1>2, <1>3

(* Sequences that agree in length and everywhere are one. *)
LEMMA SameSeq ==
    ASSUME NEW S, NEW s \in Seq(S), NEW t \in Seq(S), Len(s) = Len(t),
           \A i \in 1..Len(s) : s[i] = t[i]
    PROVE  s = t
OBVIOUS

(* A prefix, place by place. *)
LEMMA PrefixIs ==
    ASSUME NEW S, NEW s \in Seq(S), NEW t \in Seq(S)
    PROVE  IsPrefix(s, t) <=> /\ Len(s) <= Len(t)
                              /\ \A i \in 1..Len(s) : s[i] = t[i]
<1>1. Len(s) \in Nat /\ Len(t) \in Nat
  OBVIOUS
<1>2. SubSeq(s, 1, Len(s)) = s
  OBVIOUS
<1>3. ASSUME Len(s) <= Len(t)
      PROVE  /\ SubSeq(t, 1, Len(s)) \in Seq(S)
             /\ Len(SubSeq(t, 1, Len(s))) = Len(s)
             /\ \A i \in 1..Len(s) : SubSeq(t, 1, Len(s))[i] = t[i]
  BY <1>1, <1>3
<1>4. ASSUME Len(s) <= Len(t), \A i \in 1..Len(s) : s[i] = t[i]
      PROVE  s = SubSeq(t, 1, Len(s))
  BY <1>1, <1>3, <1>4, SameSeq
<1> QED  BY <1>2, <1>3, <1>4 DEF IsPrefix

-----------------------------------------------------------------------------
(* Slashes at the end.                                                     *)

(* What is left of a value without the slashes at its end. *)
Trims(p, v) ==
    /\ p \in Seq(Chars)
    /\ Len(p) <= Len(v)
    /\ \A i \in 1..Len(p) : p[i] = v[i]
    /\ \A i \in (Len(p) + 1)..Len(v) : v[i] = "/"
    /\ Len(p) > 0 => p[Len(p)] # "/"

(* A set of numbers up to some bound has a last one, or is empty. *)
LEMMA LastNumber ==
    ASSUME NEW m \in Nat, NEW T \in SUBSET (1..m)
    PROVE  \E n \in T \cup {0} : \A i \in T : i <= n
<1> DEFINE P(k) == \A U \in SUBSET (1..k) : \E n \in U \cup {0} : \A i \in U : i <= n
           Q == {k \in Nat : P(k)}
<1>1. 0 \in Q
  <2>1. 1..0 = {}
    OBVIOUS
  <2> QED  BY <2>1
<1>2. ASSUME NEW k \in Q PROVE k + 1 \in Q
  <2>1. ASSUME NEW U \in SUBSET (1..(k + 1))
        PROVE  \E n \in U \cup {0} : \A i \in U : i <= n
    <3>1. CASE k + 1 \in U
      <4>1. \A i \in U : i <= k + 1
        OBVIOUS
      <4> QED  BY <3>1, <4>1
    <3>2. CASE k + 1 \notin U
      <4>1. U \in SUBSET (1..k)
        BY <3>2
      <4> QED  BY <4>1
    <3> QED  BY <3>1, <3>2
  <2> QED  BY <2>1
<1>3. Q = Nat
  <2> HIDE DEF Q
  <2>1. Q \in SUBSET Nat
    BY DEF Q
  <2> QED  BY <1>1, <1>2, <2>1, Induction
<1> QED  BY <1>3

(* trim_end_matches takes the slashes at the end, and nothing else. *)
LEMMA TrimIs ==
    ASSUME NEW v \in Seq(Chars)
    PROVE  Trims(TrimEnd(v), v)
<1> DEFINE last == {i \in 1..Len(v) : v[i] # "/"}
           n == CHOOSE k \in last \cup {0} : \A i \in last : i <= k
<1>1. Len(v) \in Nat /\ last \in SUBSET (1..Len(v))
  OBVIOUS
<1>2. n \in last \cup {0} /\ \A i \in last : i <= n
  <2>1. \E k \in last \cup {0} : \A i \in last : i <= k
    <3> HIDE DEF last
    <3> QED  BY <1>1, LastNumber
  <2> HIDE DEF last
  <2> QED  BY <2>1
<1>3. TrimEnd(v) = SubSeq(v, 1, n)
  BY DEF TrimEnd
<1> HIDE DEF n
<1>4. n \in 0..Len(v) /\ (n # 0 => v[n] # "/")
  BY <1>1, <1>2
<1>5. \A i \in (n + 1)..Len(v) : v[i] = "/"
  BY <1>1, <1>2, <1>4
<1>6. /\ SubSeq(v, 1, n) \in Seq(Chars)
      /\ Len(SubSeq(v, 1, n)) = n
      /\ \A i \in 1..n : SubSeq(v, 1, n)[i] = v[i]
  BY <1>1, <1>4
<1> QED  BY <1>3, <1>4, <1>5, <1>6 DEF Trims

(* There is one way to do that. *)
LEMMA TrimsOne ==
    ASSUME NEW v \in Seq(Chars), NEW p, NEW q, Trims(p, v), Trims(q, v)
    PROVE  p = q
<1>1. Len(p) \in Nat /\ Len(q) \in Nat /\ p \in Seq(Chars) /\ q \in Seq(Chars)
  BY DEF Trims
<1>2. ~(Len(p) < Len(q)) /\ ~(Len(q) < Len(p))
  BY <1>1 DEF Trims
<1>3. Len(p) = Len(q) /\ \A i \in 1..Len(p) : p[i] = q[i]
  BY <1>1, <1>2 DEF Trims
<1> QED  BY <1>1, <1>3, SameSeq

(* What is trimmed stays as it is. *)
LEMMA TrimTwice ==
    ASSUME NEW v \in Seq(Chars)
    PROVE  TrimEnd(v) \in Seq(Chars) /\ TrimEnd(TrimEnd(v)) = TrimEnd(v)
<1>1. Trims(TrimEnd(v), v)
  BY TrimIs
<1>2. TrimEnd(v) \in Seq(Chars)
  BY <1>1 DEF Trims
<1>3. Trims(TrimEnd(v), TrimEnd(v))
  BY <1>1, <1>2 DEF Trims
<1> QED  BY <1>2, <1>3, TrimIs, TrimsOne

-----------------------------------------------------------------------------
(* Names.                                                                  *)

(* The names a character makes of the names before it. *)
Cut(names, x) ==
    IF x = "/" THEN Append(names, << >>)
    ELSE [names EXCEPT ![Len(names)] = Append(@, x)]

(* The recursion of Names, as far as the first n characters. *)
Cuts(f, u, n) ==
    f = [i \in 0..n |-> IF i = 0 THEN << << >> >> ELSE Cut(f[i - 1], u[i])]

(* One character more is one step more. *)
LEMMA CutsExtends ==
    ASSUME NEW u, NEW n \in Nat, NEW f, Cuts(f, u, n)
    PROVE  \E g : Cuts(g, u, n + 1)
<1> DEFINE g == [i \in 0..(n + 1) |-> IF i = n + 1 THEN Cut(f[n], u[i]) ELSE f[i]]
<1>1. \A i \in 0..n : g[i] = f[i]
  OBVIOUS
<1>2. \A i \in 0..n : f[i] = IF i = 0 THEN << << >> >> ELSE Cut(f[i - 1], u[i])
  BY DEF Cuts
<1>3. g[n + 1] = Cut(f[n], u[n + 1])
  OBVIOUS
<1>4. g = [i \in 0..(n + 1) |-> g[i]]
  OBVIOUS
<1> HIDE DEF g
<1>5. ASSUME NEW i \in 0..(n + 1)
      PROVE  g[i] = IF i = 0 THEN << << >> >> ELSE Cut(g[i - 1], u[i])
  <2>1. CASE i = n + 1
    <3>1. i - 1 = n /\ i # 0 /\ n \in 0..n
      BY <2>1
    <3> QED  BY <1>1, <1>3, <2>1, <3>1
  <2>2. CASE i \in 0..n /\ i # 0
    <3>1. i - 1 \in 0..n
      BY <2>2
    <3> QED  BY <1>1, <1>2, <2>2, <3>1
  <2>3. CASE i = 0
    <3>1. 0 \in 0..n
      OBVIOUS
    <3> QED  BY <1>1, <1>2, <2>3, <3>1
  <2> QED  BY <2>1, <2>2, <2>3
<1>6. Cuts(g, u, n + 1)
  BY <1>4, <1>5 DEF Cuts
<1> QED  BY <1>6

(* The recursion is defined for every length. *)
LEMMA CutsExists ==
    ASSUME NEW u, NEW n \in Nat
    PROVE  \E f : Cuts(f, u, n)
<1> DEFINE T == {k \in Nat : \E f : Cuts(f, u, k)}
<1>1. 0 \in T
  <2> DEFINE f == [i \in 0..0 |-> << << >> >>]
  <2>1. Cuts(f, u, 0)
    BY DEF Cuts
  <2> QED  BY <2>1
<1>2. \A k \in T : k + 1 \in T
  BY CutsExtends
<1>3. T = Nat
  <2>1. T \in SUBSET Nat
    OBVIOUS
  <2> HIDE DEF T
  <2> QED  BY <1>1, <1>2, <2>1, Induction
<1> QED  BY <1>3

(* What a character does: a slash begins a name, any other lengthens the   *)
(* last one.                                                               *)
Begun(m, n) ==
    /\ Len(n) = Len(m) + 1
    /\ \A i \in 1..Len(m) : n[i] = m[i]
    /\ n[Len(n)] = << >>

Lengthened(m, n, x) ==
    /\ Len(n) = Len(m)
    /\ \A i \in 1..(Len(m) - 1) : n[i] = m[i]
    /\ n[Len(n)] = Append(m[Len(m)], x)

ListOfNames == {s \in Seq(Seq(Chars)) : Len(s) > 0}

(* The names of nothing. *)
NoName == << << >> >>

(* They are one name, and it is empty. *)
LEMMA NoNameIs == NoName \in ListOfNames /\ Len(NoName) = 1 /\ NoName[1] = << >>
<1>1. << >> \in Seq(Chars)
  OBVIOUS
<1>2. \A S : \A e \in S : <<e>> \in Seq(S) /\ Len(<<e>>) = 1 /\ <<e>>[1] = e
  OBVIOUS
<1> QED  BY <1>1, <1>2 DEF NoName, ListOfNames

(* A name that grew is not empty. *)
LEMMA NotEmpty ==
    ASSUME NEW S, NEW s \in Seq(S), NEW x \in S
    PROVE  Append(s, x) # << >>
<1>1. Len(Append(s, x)) = Len(s) + 1 /\ Len(s) \in Nat /\ Len(<< >>) = 0
  OBVIOUS
<1> QED  BY <1>1

(* A step of the recursion does one of the two. *)
LEMMA CutDoes ==
    ASSUME NEW m \in ListOfNames, NEW x \in Chars
    PROVE  /\ Cut(m, x) \in ListOfNames
           /\ IF x = "/" THEN Begun(m, Cut(m, x)) ELSE Lengthened(m, Cut(m, x), x)
<1> DEFINE S == Seq(Chars)
<1>1. m \in Seq(S) /\ Len(m) \in Nat /\ Len(m) > 0 /\ m[Len(m)] \in S
  BY DEF ListOfNames
<1>2. << >> \in S /\ Append(m[Len(m)], x) \in S
  BY <1>1
<1> HIDE DEF S
<1>3. CASE x = "/"
  <2>1. Cut(m, x) = Append(m, << >>)
    BY <1>3 DEF Cut
  <2>2. \A e \in S : /\ Append(m, e) \in Seq(S)
                      /\ Len(Append(m, e)) = Len(m) + 1
                      /\ \A i \in 1..Len(m) : Append(m, e)[i] = m[i]
                      /\ Append(m, e)[Len(m) + 1] = e
    BY <1>1
  <2>3. PICK e \in S : e = << >>
    BY <1>2
  <2>4. Cut(m, x) \in ListOfNames
    BY <1>1, <2>1, <2>2, <2>3 DEF ListOfNames, S
  <2>5. Begun(m, Cut(m, x))
    <3>1. Cut(m, x) = Append(m, e)
      BY <2>1, <2>3
    <3> HIDE <2>1
    <3>2. /\ Len(Append(m, e)) = Len(m) + 1
          /\ \A i \in 1..Len(m) : Append(m, e)[i] = m[i]
          /\ Append(m, e)[Len(Append(m, e))] = << >>
      BY <1>1, <2>2, <2>3
    <3> QED  BY <3>1, <3>2 DEF Begun
  <2> QED  BY <1>3, <2>4, <2>5
<1>4. CASE x # "/"
  <2> DEFINE c == [m EXCEPT ![Len(m)] = Append(@, x)]
  <2>1. Cut(m, x) = c
    BY <1>4 DEF Cut
  <2>2. c \in Seq(S) /\ Len(c) = Len(m)
    BY <1>1, <1>2
  <2>3. \A i \in 1..(Len(m) - 1) : c[i] = m[i]
    BY <1>1
  <2>4. c[Len(m)] = Append(m[Len(m)], x)
    BY <1>1
  <2> QED  BY <1>1, <1>4, <2>1, <2>2, <2>3, <2>4 DEF Lengthened, ListOfNames, S
<1> QED  BY <1>3, <1>4

(* The names of each beginning of a value, one character after the other. *)
Cutting(f, u) ==
    /\ f[0] = NoName
    /\ \A n \in 0..Len(u) : f[n] \in ListOfNames
    /\ \A n \in 1..Len(u) : IF u[n] = "/" THEN Begun(f[n - 1], f[n])
                                          ELSE Lengthened(f[n - 1], f[n], u[n])

(* Names computes them. *)
LEMMA NamesIs ==
    ASSUME NEW v \in Seq(Chars)
    PROVE  \E f : Cutting(f, TrimEnd(v)) /\ Names(v) = f[Len(TrimEnd(v))]
<1> DEFINE u == TrimEnd(v)
           f == CHOOSE f : Cuts(f, u, Len(u))
<1>1. u \in Seq(Chars) /\ Len(u) \in Nat
  <2>1. u \in Seq(Chars)
    BY TrimTwice
  <2> HIDE DEF u
  <2> QED  BY <2>1
<1>2. Names(v) = f[Len(u)]
  BY DEF Names, Cuts, Cut
<1> HIDE DEF u
<1>3. Cuts(f, u, Len(u))
  <2>1. \E g : Cuts(g, u, Len(u))
    BY <1>1, CutsExists
  <2> QED  BY <2>1
<1> HIDE DEF f
<1>4. \A i \in 0..Len(u) : f[i] = IF i = 0 THEN << << >> >> ELSE Cut(f[i - 1], u[i])
  BY <1>3 DEF Cuts
<1>5. f[0] = NoName /\ f[0] \in ListOfNames
  BY <1>1, <1>4, NoNameIs DEF NoName
<1> DEFINE T == {k \in Nat : k <= Len(u) => f[k] \in ListOfNames}
<1>6. \A k \in 1..Len(u) : f[k] = Cut(f[k - 1], u[k]) /\ u[k] \in Chars
  BY <1>1, <1>4
<1>7. \A k \in T : k + 1 \in T
  <2> SUFFICES ASSUME NEW k \in T, k + 1 <= Len(u) PROVE f[k + 1] \in ListOfNames
    OBVIOUS
  <2>1. k + 1 \in 1..Len(u) /\ (k + 1) - 1 = k /\ f[k] \in ListOfNames
    BY <1>1
  <2> QED  BY <1>6, <2>1, CutDoes
<1>8. T = Nat
  <2>1. 0 \in T /\ T \in SUBSET Nat
    BY <1>5
  <2> HIDE DEF T
  <2> QED  BY <1>7, <2>1, Induction
<1>9. \A n \in 0..Len(u) : f[n] \in ListOfNames
  BY <1>1, <1>8
<1>10. ASSUME NEW n \in 1..Len(u)
       PROVE  IF u[n] = "/" THEN Begun(f[n - 1], f[n])
                            ELSE Lengthened(f[n - 1], f[n], u[n])
  <2>1. n - 1 \in 0..Len(u)
    BY <1>1
  <2>2. f[n - 1] \in ListOfNames
    BY <1>9, <2>1
  <2> QED  BY <1>6, <2>2, CutDoes
<1>11. Cutting(f, u)
  BY <1>5, <1>9, <1>10 DEF Cutting
<1> QED  BY <1>2, <1>11 DEF u

(* The same character makes the same of the same names. *)
LEMMA StepSame ==
    ASSUME NEW m \in ListOfNames, NEW a \in ListOfNames, NEW b \in ListOfNames,
           NEW x,
           \/ Begun(m, a) /\ Begun(m, b)
           \/ Lengthened(m, a, x) /\ Lengthened(m, b, x)
    PROVE  a = b
<1>1. /\ a \in Seq(Seq(Chars)) /\ b \in Seq(Seq(Chars))
      /\ Len(m) \in Nat /\ Len(m) > 0
  BY DEF ListOfNames
<1>2. CASE Begun(m, a) /\ Begun(m, b)
  <2>1. Len(a) = Len(m) + 1 /\ Len(b) = Len(m) + 1
    BY <1>2 DEF Begun
  <2>2. /\ \A i \in 1..Len(m) : a[i] = b[i]
        /\ a[Len(m) + 1] = b[Len(m) + 1]
    BY <1>2, <2>1 DEF Begun
  <2>3. \A i \in 1..Len(a) : i \in 1..Len(m) \/ i = Len(m) + 1
    BY <1>1, <2>1
  <2> QED  BY <1>1, <2>1, <2>2, <2>3, SameSeq
<1>3. CASE Lengthened(m, a, x) /\ Lengthened(m, b, x)
  <2>1. Len(a) = Len(m) /\ Len(b) = Len(m)
    BY <1>3 DEF Lengthened
  <2>2. /\ \A i \in 1..(Len(m) - 1) : a[i] = b[i]
        /\ a[Len(m)] = b[Len(m)]
    BY <1>3, <2>1 DEF Lengthened
  <2>3. \A i \in 1..Len(a) : i \in 1..(Len(m) - 1) \/ i = Len(m)
    BY <1>1, <2>1
  <2> QED  BY <1>1, <2>1, <2>2, <2>3, SameSeq
<1> QED  BY <1>2, <1>3

(* The names of a beginning depend on nothing behind it. *)
LEMMA CutSame ==
    ASSUME NEW u \in Seq(Chars), NEW w \in Seq(Chars), NEW f, NEW g,
           Cutting(f, u), Cutting(g, w),
           NEW n \in Nat, n <= Len(u), n <= Len(w), \A i \in 1..n : u[i] = w[i]
    PROVE  f[n] = g[n]
<1> DEFINE T == {k \in Nat : k <= n => f[k] = g[k]}
<1>1. 0 \in T
  BY DEF Cutting
<1>2. ASSUME NEW k \in T PROVE k + 1 \in T
  <2> SUFFICES ASSUME k + 1 <= n PROVE f[k + 1] = g[k + 1]
    OBVIOUS
  <2>1. /\ k + 1 \in 1..Len(u) /\ k + 1 \in 1..Len(w) /\ (k + 1) - 1 = k
        /\ k \in 0..Len(u) /\ k + 1 \in 0..Len(u) /\ k + 1 \in 0..Len(w)
        /\ u[k + 1] = w[k + 1] /\ f[k] = g[k]
    OBVIOUS
  <2> DEFINE a == f[k + 1]
             b == g[k + 1]
             m == f[k]
             x == u[k + 1]
  <2>2. m \in ListOfNames /\ a \in ListOfNames /\ b \in ListOfNames
    BY <2>1 DEF Cutting
  <2>3. /\ IF x = "/" THEN Begun(m, a) ELSE Lengthened(m, a, x)
        /\ IF x = "/" THEN Begun(m, b) ELSE Lengthened(m, b, x)
    BY <2>1 DEF Cutting
  <2> HIDE DEF a, b, m, x
  <2>4. a = b
    BY <2>2, <2>3, StepSame
  <2> QED  BY <2>4 DEF a, b
<1>3. T = Nat
  <2>1. T \in SUBSET Nat
    OBVIOUS
  <2> HIDE DEF T
  <2> QED  BY <1>1, <1>2, <2>1, Induction
<1> QED  BY <1>3

(* What names tell of the last character. *)
LEMMA StepBack ==
    ASSUME NEW m \in ListOfNames, NEW n \in ListOfNames, NEW a \in ListOfNames,
           NEW x \in Chars, NEW y \in Chars
    PROVE  /\ Begun(m, a) /\ Begun(n, a) => m = n
           /\ ~(Begun(m, a) /\ Lengthened(n, a, y))
           /\ Lengthened(m, a, x) /\ Lengthened(n, a, y) => m = n /\ x = y
<1>1. /\ m \in Seq(Seq(Chars)) /\ n \in Seq(Seq(Chars))
      /\ Len(m) \in Nat /\ Len(m) > 0 /\ Len(n) \in Nat /\ Len(n) > 0
      /\ m[Len(m)] \in Seq(Chars) /\ n[Len(n)] \in Seq(Chars)
  BY DEF ListOfNames
<1>2. ASSUME Begun(m, a), Begun(n, a) PROVE m = n
  <2>1. Len(m) = Len(n) /\ \A i \in 1..Len(m) : m[i] = n[i]
    BY <1>1, <1>2 DEF Begun
  <2> QED  BY <1>1, <2>1, SameSeq
<1>3. \A s \in Seq(Chars) : Append(s, y) # << >>
  BY NotEmpty
<1>4. ~(Begun(m, a) /\ Lengthened(n, a, y))
  BY <1>1, <1>3 DEF Begun, Lengthened
<1>5. ASSUME Lengthened(m, a, x), Lengthened(n, a, y) PROVE m = n /\ x = y
  <2>1. /\ Len(m) = Len(n) /\ \A i \in 1..(Len(m) - 1) : m[i] = n[i]
        /\ Append(m[Len(m)], x) = Append(n[Len(n)], y)
    BY <1>1, <1>5 DEF Lengthened
  <2>2. \A s, t \in Seq(Chars) : Append(s, x) = Append(t, y) => s = t /\ x = y
    <3> SUFFICES ASSUME NEW s \in Seq(Chars), NEW t \in Seq(Chars),
                        Append(s, x) = Append(t, y)
                 PROVE  s = t /\ x = y
      OBVIOUS
    <3>1. Len(s) = Len(t) /\ \A i \in 1..Len(s) : s[i] = t[i]
      OBVIOUS
    <3>2. Append(s, x)[Len(s) + 1] = x /\ Append(t, y)[Len(t) + 1] = y
      OBVIOUS
    <3> QED  BY <3>1, <3>2, SameSeq
  <2>3. m[Len(m)] = n[Len(n)] /\ x = y
    BY <1>1, <2>1, <2>2
  <2>4. \A i \in 1..Len(m) : m[i] = n[i]
    BY <1>1, <2>1, <2>3
  <2> QED  BY <1>1, <2>1, <2>3, <2>4, SameSeq
<1> QED  BY <1>2, <1>4, <1>5

(* No character leaves one empty name. *)
LEMMA StepMakes ==
    ASSUME NEW m \in ListOfNames, NEW a \in ListOfNames, NEW x \in Chars,
           Begun(m, a) \/ Lengthened(m, a, x)
    PROVE  a # NoName
<1>1. /\ Len(m) \in Nat /\ Len(m) > 0 /\ m[Len(m)] \in Seq(Chars)
      /\ Len(a) \in Nat
  BY DEF ListOfNames
<1>2. CASE Begun(m, a)
  <2>1. Len(a) # 1
    BY <1>1, <1>2 DEF Begun
  <2> QED  BY <2>1, NoNameIs, Zenon
<1>3. CASE Lengthened(m, a, x)
  <2>1. a[Len(a)] = Append(m[Len(m)], x)
    BY <1>3 DEF Lengthened
  <2>2. a[Len(a)] # << >>
    BY <1>1, <2>1, NotEmpty
  <2> QED  BY <2>2, NoNameIs
<1> QED  BY <1>2, <1>3

(* Nothing is lost: values with the same names are the same. *)
LEMMA CutOnce ==
    ASSUME NEW u \in Seq(Chars), NEW w \in Seq(Chars), NEW f, NEW g,
           Cutting(f, u), Cutting(g, w),
           NEW n \in 0..Len(u), NEW k \in 0..Len(w), f[n] = g[k]
    PROVE  n = k /\ \A i \in 1..n : u[i] = w[i]
<1> DEFINE P(i) == i <= Len(u) => \A j \in 0..Len(w) :
                      f[i] = g[j] => i = j /\ \A h \in 1..i : u[h] = w[h]
           T == {i \in Nat : P(i)}
<1>0. /\ Len(u) \in Nat /\ Len(w) \in Nat
      /\ \A i \in 1..Len(u) : u[i] \in Chars
      /\ \A i \in 1..Len(w) : w[i] \in Chars
  OBVIOUS
<1>1. /\ \A i \in 1..Len(u) : f[i] # NoName
      /\ \A j \in 1..Len(w) : g[j] # NoName
  <2>1. ASSUME NEW i \in 1..Len(u) PROVE f[i] # NoName
    <3>1. i \in 0..Len(u) /\ i - 1 \in 0..Len(u) /\ u[i] \in Chars
      BY <1>0
    <3>2. /\ f[i] \in ListOfNames /\ f[i - 1] \in ListOfNames
          /\ Begun(f[i - 1], f[i]) \/ Lengthened(f[i - 1], f[i], u[i])
      BY <3>1 DEF Cutting
    <3> QED  BY <3>1, <3>2, StepMakes
  <2>2. ASSUME NEW i \in 1..Len(w) PROVE g[i] # NoName
    <3>1. i \in 0..Len(w) /\ i - 1 \in 0..Len(w) /\ w[i] \in Chars
      BY <1>0
    <3>2. /\ g[i] \in ListOfNames /\ g[i - 1] \in ListOfNames
          /\ Begun(g[i - 1], g[i]) \/ Lengthened(g[i - 1], g[i], w[i])
      BY <3>1 DEF Cutting
    <3> QED  BY <3>1, <3>2, StepMakes
  <2> QED  BY <2>1, <2>2
<1>2. f[0] = NoName /\ g[0] = NoName
  BY DEF Cutting
<1>3. 0 \in T
  <2> SUFFICES ASSUME NEW j \in 0..Len(w), f[0] = g[j] PROVE j = 0
    OBVIOUS
  <2>1. j \notin 1..Len(w)
    BY <1>1, <1>2, Zenon
  <2> QED  BY <1>0, <2>1
<1>4. ASSUME NEW i \in T PROVE i + 1 \in T
  <2> SUFFICES ASSUME i + 1 <= Len(u), NEW j \in 0..Len(w), f[i + 1] = g[j]
               PROVE  i + 1 = j /\ \A h \in 1..(i + 1) : u[h] = w[h]
    OBVIOUS
  <2>1. i + 1 \in 1..Len(u) /\ (i + 1) - 1 = i /\ i \in 0..Len(u) /\ i + 1 \in 0..Len(u)
    BY <1>0
  <2>2. j # 0
    BY <1>1, <1>2, <2>1
  <2>3. j \in 1..Len(w) /\ j - 1 \in 0..Len(w)
    BY <1>0, <2>2
  <2> DEFINE a == f[i + 1]
             m == f[i]
             l == g[j - 1]
             x == u[i + 1]
             y == w[j]
  <2>4. /\ m \in ListOfNames /\ a \in ListOfNames /\ l \in ListOfNames
        /\ x \in Chars /\ y \in Chars
    BY <1>0, <2>1, <2>3 DEF Cutting
  <2>5. IF x = "/" THEN Begun(m, a) ELSE Lengthened(m, a, x)
    BY <2>1 DEF Cutting
  <2>6. IF y = "/" THEN Begun(l, a) ELSE Lengthened(l, a, y)
    BY <2>3 DEF Cutting
  <2>7. m = l /\ x = y
    <3> HIDE DEF a, m, l, x, y
    <3> QED  BY <2>4, <2>5, <2>6, StepBack
  <2>8. i = j - 1 /\ \A h \in 1..i : u[h] = w[h]
    BY <2>1, <2>3, <2>7
  <2> QED  BY <2>1, <2>3, <2>7, <2>8
<1>5. T = Nat
  <2>1. T \in SUBSET Nat
    OBVIOUS
  <2> HIDE DEF T
  <2> QED  BY <1>3, <1>4, <2>1, Induction
<1> QED  BY <1>0, <1>5

(* The first names are the names of a beginning that a slash ends. *)
LEMMA CutBegins ==
    ASSUME NEW u \in Seq(Chars), NEW f, Cutting(f, u),
           NEW m \in 0..Len(u), NEW j \in 1..Len(f[m])
    PROVE  \E k \in 0..m : /\ Len(f[k]) = j
                           /\ \A i \in 1..j : f[k][i] = f[m][i]
                           /\ k < m => u[k + 1] = "/"
<1> DEFINE Ends(k, n, l) == /\ Len(f[k]) = l
                            /\ \A i \in 1..l : f[k][i] = f[n][i]
                            /\ k < n => u[k + 1] = "/"
           P(n) == n <= Len(u) => \A l \in 1..Len(f[n]) : \E k \in 0..n : Ends(k, n, l)
           T == {n \in Nat : P(n)}
<1>0. Len(u) \in Nat /\ \A n \in 0..Len(u) : Len(f[n]) \in Nat /\ Len(f[n]) > 0
  BY DEF Cutting, ListOfNames
<1>1. 0 \in T
  <2> SUFFICES ASSUME NEW l \in 1..Len(f[0]) PROVE \E k \in 0..0 : Ends(k, 0, l)
    OBVIOUS
  <2>1. Len(f[0]) = 1
    BY NoNameIs DEF Cutting
  <2>2. l = 1
    BY <2>1
  <2>3. Ends(0, 0, l)
    BY <2>1, <2>2
  <2> QED  BY <2>3
<1>2. ASSUME NEW n \in Nat, P(n) PROVE P(n + 1)
  <2> SUFFICES ASSUME n + 1 <= Len(u), NEW l \in 1..Len(f[n + 1])
               PROVE  \E k \in 0..(n + 1) : Ends(k, n + 1, l)
    OBVIOUS
  <2>0. n <= Len(u) => \A h \in 1..Len(f[n]) : \E k \in 0..n : Ends(k, n, h)
    BY <1>2
  <2>1. n + 1 \in 1..Len(u) /\ (n + 1) - 1 = n /\ n \in 0..Len(u) /\ n + 1 \in 0..Len(u)
    BY <1>0
  <2>2. IF u[n + 1] = "/" THEN Begun(f[n], f[n + 1])
                          ELSE Lengthened(f[n], f[n + 1], u[n + 1])
    BY <2>1 DEF Cutting
  <2>3. CASE l = Len(f[n + 1])
    <3>1. Ends(n + 1, n + 1, l)
      BY <2>3
    <3> QED  BY <3>1
  <2>4. CASE l # Len(f[n + 1]) /\ u[n + 1] = "/"
    <3>1. /\ Len(f[n + 1]) = Len(f[n]) + 1
          /\ \A i \in 1..Len(f[n]) : f[n + 1][i] = f[n][i]
      BY <2>2, <2>4 DEF Begun
    <3>2. l \in 1..Len(f[n])
      BY <1>0, <2>1, <2>4, <3>1
    <3>3. PICK k \in 0..n : Ends(k, n, l)
      BY <2>0, <2>1, <3>2
    <3>4. \A i \in 1..l : f[k][i] = f[n + 1][i]
      BY <1>0, <2>1, <3>1, <3>2, <3>3
    <3>5. k < n + 1 => u[k + 1] = "/"
      <4>1. k < n \/ k = n
        OBVIOUS
      <4> QED  BY <2>4, <3>3, <4>1
    <3>6. Ends(k, n + 1, l) /\ k \in 0..(n + 1)
      BY <3>3, <3>4, <3>5
    <3> QED  BY <3>6
  <2>5. CASE l # Len(f[n + 1]) /\ u[n + 1] # "/"
    <3>1. /\ Len(f[n + 1]) = Len(f[n])
          /\ \A i \in 1..(Len(f[n]) - 1) : f[n + 1][i] = f[n][i]
      BY <2>2, <2>5 DEF Lengthened
    <3>2. l \in 1..Len(f[n]) /\ l \in 1..(Len(f[n]) - 1)
      BY <1>0, <2>1, <2>5, <3>1
    <3>3. PICK k \in 0..n : Ends(k, n, l)
      BY <2>0, <2>1, <3>2
    <3>4. \A i \in 1..l : f[k][i] = f[n + 1][i]
      BY <1>0, <2>1, <3>1, <3>2, <3>3
    <3>5. k # n
      BY <2>5, <3>1, <3>3
    <3>6. Ends(k, n + 1, l) /\ k \in 0..(n + 1)
      BY <3>3, <3>4, <3>5
    <3> QED  BY <3>6
  <2> QED  BY <2>3, <2>4, <2>5
<1>3. T = Nat
  <2> HIDE DEF P
  <2>1. T \in SUBSET Nat /\ \A n \in T : n + 1 \in T
    BY <1>2
  <2> HIDE DEF T
  <2> QED  BY <1>1, <2>1, Induction
<1>4. m \in Nat /\ m <= Len(u)
  BY <1>0
<1>5. P(m)
  <2> HIDE DEF P
  <2> QED  BY <1>3, <1>4
<1> QED  BY <1>4, <1>5

(* Behind a slash the names before it no longer change. *)
LEMMA CutGrows ==
    ASSUME NEW u \in Seq(Chars), NEW f, Cutting(f, u),
           NEW n \in 0..Len(u), NEW m \in 0..Len(u), n < m, u[n + 1] = "/"
    PROVE  /\ Len(f[n]) < Len(f[m])
           /\ \A i \in 1..Len(f[n]) : f[n][i] = f[m][i]
<1> DEFINE Q(k) == /\ Len(f[n]) < Len(f[k])
                   /\ \A i \in 1..Len(f[n]) : f[n][i] = f[k][i]
           T == {d \in Nat : n + 1 + d <= Len(u) => Q(n + 1 + d)}
<1>0. Len(u) \in Nat /\ \A k \in 0..Len(u) : Len(f[k]) \in Nat /\ Len(f[k]) > 0
  BY DEF Cutting, ListOfNames
<1>1. 0 \in T
  <2>1. n + 1 \in 1..Len(u) /\ (n + 1) - 1 = n /\ n + 1 + 0 = n + 1
    BY <1>0
  <2>2. Begun(f[n], f[n + 1])
    BY <2>1 DEF Cutting
  <2>3. Q(n + 1)
    BY <1>0, <2>2 DEF Begun
  <2> QED  BY <2>1, <2>3
<1>2. ASSUME NEW d \in T PROVE d + 1 \in T
  <2> DEFINE k == n + 1 + d
  <2> SUFFICES ASSUME k + 1 <= Len(u) PROVE Q(k + 1)
    <3>1. n + 1 + (d + 1) = k + 1
      BY <1>0
    <3> QED  BY <3>1
  <2>1. /\ k + 1 \in 1..Len(u) /\ (k + 1) - 1 = k /\ k \in 0..Len(u)
        /\ k + 1 \in 0..Len(u) /\ Q(k)
    BY <1>0
  <2> HIDE DEF k
  <2>2. IF u[k + 1] = "/" THEN Begun(f[k], f[k + 1])
                          ELSE Lengthened(f[k], f[k + 1], u[k + 1])
    BY <2>1 DEF Cutting
  <2>3. Len(f[k]) <= Len(f[k + 1])
    BY <1>0, <2>1, <2>2 DEF Begun, Lengthened
  <2>4. \A i \in 1..(Len(f[k]) - 1) : f[k + 1][i] = f[k][i]
    BY <1>0, <2>1, <2>2 DEF Begun, Lengthened
  <2>5. \A i \in 1..Len(f[n]) : i \in 1..(Len(f[k]) - 1)
    BY <1>0, <2>1
  <2> QED  BY <1>0, <2>1, <2>3, <2>4, <2>5
<1>3. T = Nat
  <2>1. T \in SUBSET Nat
    OBVIOUS
  <2> HIDE DEF T
  <2> QED  BY <1>1, <1>2, <2>1, Induction
<1>4. m - (n + 1) \in Nat /\ n + 1 + (m - (n + 1)) = m /\ m <= Len(u)
  BY <1>0
<1>5. Q(m)
  BY <1>3, <1>4
<1> QED  BY <1>5

(* One value is another, or goes on behind it with a slash. *)
Below(p, q) ==
    /\ Len(p) <= Len(q)
    /\ \A i \in 1..Len(p) : p[i] = q[i]
    /\ Len(p) < Len(q) => q[Len(p) + 1] = "/"

(* That is what the names tell of trimmed values. *)
LEMMA CutNested ==
    ASSUME NEW p \in Seq(Chars), NEW q \in Seq(Chars), NEW f, NEW g,
           Cutting(f, p), Cutting(g, q)
    PROVE  IsPrefix(f[Len(p)], g[Len(q)]) <=> Below(p, q)
<1>0. /\ Len(p) \in Nat /\ Len(q) \in Nat
      /\ Len(p) \in 0..Len(p) /\ Len(q) \in 0..Len(q)
  OBVIOUS
<1> DEFINE s == f[Len(p)]
           t == g[Len(q)]
<1>1. s \in ListOfNames /\ t \in ListOfNames
  BY <1>0 DEF Cutting
<1>2. IsPrefix(s, t) <=> Len(s) <= Len(t) /\ \A i \in 1..Len(s) : s[i] = t[i]
  <2> HIDE DEF s, t
  <2> QED  BY <1>1, PrefixIs DEF ListOfNames
<1>3. /\ s \in Seq(Seq(Chars)) /\ Len(s) \in Nat /\ Len(s) > 0
      /\ t \in Seq(Seq(Chars)) /\ Len(t) \in Nat
  <2> HIDE DEF s, t
  <2> QED  BY <1>1 DEF ListOfNames
<1>4. ASSUME Len(s) <= Len(t), \A i \in 1..Len(s) : s[i] = t[i]
      PROVE  Below(p, q)
  <2>1. PICK l \in 1..Len(g[Len(q)]) : l = Len(s)
    BY <1>3, <1>4
  <2> DEFINE Ends(k, m, j) == /\ Len(g[k]) = j
                              /\ \A i \in 1..j : g[k][i] = g[m][i]
                              /\ k < m => q[k + 1] = "/"
  <2>2. PICK k \in 0..Len(q) : Ends(k, Len(q), l)
    <3>1. \A m \in 0..Len(q) : \A j \in 1..Len(g[m]) : \E k \in 0..m : Ends(k, m, j)
      BY CutBegins
    <3> HIDE DEF Ends
    <3> QED  BY <1>0, <3>1
  <2>3. g[k] \in Seq(Seq(Chars))
    BY <2>2 DEF Cutting, ListOfNames
  <2>4. s = g[k]
    <3>1. Len(s) = Len(g[k]) /\ \A i \in 1..Len(s) : s[i] = g[k][i]
      BY <1>4, <2>1, <2>2
    <3> HIDE DEF s, t
    <3> QED  BY <1>3, <2>3, <3>1, SameSeq
  <2>5. Len(p) = k /\ \A i \in 1..Len(p) : p[i] = q[i]
    BY <1>0, <2>2, <2>4, CutOnce
  <2> QED  BY <1>0, <2>2, <2>5 DEF Below
<1>5. ASSUME Below(p, q)
      PROVE  Len(s) <= Len(t) /\ \A i \in 1..Len(s) : s[i] = t[i]
  <2>1. /\ Len(p) <= Len(q) /\ \A i \in 1..Len(p) : p[i] = q[i]
        /\ Len(p) < Len(q) => q[Len(p) + 1] = "/"
    BY <1>5 DEF Below
  <2>2. s = g[Len(p)]
    BY <1>0, <2>1, CutSame
  <2>3. CASE Len(p) = Len(q)
    BY <1>3, <2>2, <2>3
  <2>4. CASE Len(p) < Len(q)
    <3>1. Len(p) \in 0..Len(q) /\ q[Len(p) + 1] = "/"
      BY <1>0, <2>1, <2>4
    <3>2. /\ Len(g[Len(p)]) < Len(t)
          /\ \A i \in 1..Len(g[Len(p)]) : g[Len(p)][i] = t[i]
      BY <1>0, <2>4, <3>1, CutGrows
    <3> HIDE DEF s, t
    <3> QED  BY <1>3, <2>2, <3>2
  <2> QED  BY <1>0, <2>1, <2>3, <2>4
<1> QED  BY <1>2, <1>4, <1>5

-----------------------------------------------------------------------------
(* What the code asks.                                                     *)

(* Nesting, of values as they are written. *)
LEMMA NestedIs ==
    ASSUME NEW v \in Seq(Chars), NEW w \in Seq(Chars)
    PROVE  IsPrefix(Names(v), Names(w)) <=> Below(TrimEnd(v), TrimEnd(w))
<1>1. TrimEnd(v) \in Seq(Chars) /\ TrimEnd(w) \in Seq(Chars)
  BY TrimTwice
<1>2. PICK f : Cutting(f, TrimEnd(v)) /\ Names(v) = f[Len(TrimEnd(v))]
  BY NamesIs
<1>3. PICK g : Cutting(g, TrimEnd(w)) /\ Names(w) = g[Len(TrimEnd(w))]
  BY NamesIs
<1> QED  BY <1>1, <1>2, <1>3, CutNested

(* is_ancestor, of values that may have slashes at their ends: the one is  *)
(* nested in the other, and has not simply the same characters.            *)
LEMMA AncestorIs ==
    ASSUME NEW v \in Seq(Chars), NEW w \in Seq(Chars)
    PROVE  IsAncestor(v, w) <=> /\ Below(TrimEnd(v), TrimEnd(w))
                                /\ Len(TrimEnd(v)) < Len(w)
<1> DEFINE p == TrimEnd(v)
           q == TrimEnd(w)
<1>1. Trims(p, v) /\ Trims(q, w)
  BY TrimIs
<1>2. IsAncestor(v, w) <=> /\ Len(w) > Len(p)
                           /\ IsPrefix(p, w)
                           /\ w[Len(p) + 1] = "/"
  BY DEF IsAncestor
<1> HIDE DEF p, q
<1>3. /\ p \in Seq(Chars) /\ Len(p) \in Nat /\ q \in Seq(Chars) /\ Len(q) \in Nat
      /\ Len(w) \in Nat
  BY <1>1 DEF Trims
<1>4. IsPrefix(p, w) <=> Len(p) <= Len(w) /\ \A i \in 1..Len(p) : p[i] = w[i]
  BY <1>3, PrefixIs
<1>5. /\ Len(q) <= Len(w)
      /\ \A i \in 1..Len(q) : q[i] = w[i]
      /\ \A i \in (Len(q) + 1)..Len(w) : w[i] = "/"
      /\ Len(p) > 0 => p[Len(p)] # "/"
  BY <1>1 DEF Trims
<1>6. ASSUME Len(p) < Len(w), \A i \in 1..Len(p) : p[i] = w[i], w[Len(p) + 1] = "/"
      PROVE  Below(p, q)
  <2>1. Len(p) <= Len(q)
    BY <1>3, <1>5, <1>6
  <2>2. \A i \in 1..Len(p) : p[i] = q[i]
    BY <1>3, <1>5, <1>6, <2>1
  <2>3. Len(p) < Len(q) => q[Len(p) + 1] = "/"
    BY <1>3, <1>5, <1>6
  <2> QED  BY <2>1, <2>2, <2>3 DEF Below
<1>7. ASSUME Below(p, q), Len(p) < Len(w)
      PROVE  (\A i \in 1..Len(p) : p[i] = w[i]) /\ w[Len(p) + 1] = "/"
  BY <1>3, <1>5, <1>7 DEF Below
<1>8. IsAncestor(v, w) <=> Below(p, q) /\ Len(p) < Len(w)
  BY <1>2, <1>3, <1>4, <1>6, <1>7
<1> QED  BY <1>8 DEF p, q

(* Equal values, or one an ancestor of the other: nesting, either way. *)
LEMMA ValuesOverlap ==
    ASSUME NEW v \in Seq(Chars), NEW w \in Seq(Chars)
    PROVE  v = w \/ IsAncestor(v, w) \/ IsAncestor(w, v) <=>
              \/ Below(TrimEnd(v), TrimEnd(w))
              \/ Below(TrimEnd(w), TrimEnd(v))
<1> DEFINE p == TrimEnd(v)
           q == TrimEnd(w)
<1>1. Trims(p, v) /\ Trims(q, w)
  BY TrimIs
<1>2. /\ IsAncestor(v, w) <=> Below(p, q) /\ Len(p) < Len(w)
      /\ IsAncestor(w, v) <=> Below(q, p) /\ Len(q) < Len(v)
  BY AncestorIs
<1>3. v = w => p = q
  OBVIOUS
<1> HIDE DEF p, q
<1>4. /\ p \in Seq(Chars) /\ Len(p) \in Nat /\ q \in Seq(Chars) /\ Len(q) \in Nat
      /\ Len(v) \in Nat /\ Len(w) \in Nat
  BY <1>1 DEF Trims
<1>5. v = w => Below(p, q)
  BY <1>3, <1>4 DEF Below
<1>6. ASSUME Below(p, q), ~(Len(p) < Len(w))
      PROVE  v = w \/ IsAncestor(w, v)
  <2>1. Len(p) = Len(w) /\ Len(q) = Len(w) /\ \A i \in 1..Len(w) : w[i] = v[i]
    BY <1>1, <1>4, <1>6 DEF Below, Trims
  <2>2. CASE Len(v) = Len(w)
    BY <2>1, <2>2, SameSeq
  <2>3. CASE Len(v) # Len(w)
    <3>1. Len(q) < Len(v)
      BY <1>1, <1>4, <2>1, <2>3 DEF Trims
    <3>2. Below(q, p)
      BY <1>4, <1>6, <2>1 DEF Below
    <3> QED  BY <1>2, <3>1, <3>2
  <2> QED  BY <2>2, <2>3
<1>7. ASSUME Below(q, p), ~(Len(q) < Len(v))
      PROVE  v = w \/ IsAncestor(v, w)
  <2>1. Len(q) = Len(v) /\ Len(p) = Len(v) /\ \A i \in 1..Len(v) : w[i] = v[i]
    BY <1>1, <1>4, <1>7 DEF Below, Trims
  <2>2. CASE Len(v) = Len(w)
    BY <2>1, <2>2, SameSeq
  <2>3. CASE Len(v) # Len(w)
    <3>1. Len(p) < Len(w)
      BY <1>1, <1>4, <2>1, <2>3 DEF Trims
    <3>2. Below(p, q)
      BY <1>4, <1>7, <2>1 DEF Below
    <3> QED  BY <1>2, <3>1, <3>2
  <2> QED  BY <2>2, <2>3
<1>8. v = w \/ IsAncestor(v, w) \/ IsAncestor(w, v) <=> Below(p, q) \/ Below(q, p)
  BY <1>2, <1>5, <1>6, <1>7
<1> QED  BY <1>8 DEF p, q

AnyKey == [kind : Kinds, value : Seq(Chars)]

(* ResourceKey::new changes how a value is written, not what it names. *)
LEMMA NewIs ==
    ASSUME NEW k \in AnyKey
    PROVE  /\ New(k) \in AnyKey
           /\ New(k).kind = k.kind
           /\ TrimEnd(New(k).value) = TrimEnd(k.value)
           /\ ~IsHierarchical(k) => New(k) = k
<1>1. k.kind \in Kinds /\ k.value \in Seq(Chars)
  BY DEF AnyKey
<1>2. TrimEnd(k.value) \in Seq(Chars) /\ TrimEnd(TrimEnd(k.value)) = TrimEnd(k.value)
  BY <1>1, TrimTwice
<1>3. CASE IsHierarchical(k) /\ Len(k.value) > 1
  <2>1. New(k) = [k EXCEPT !.value = TrimEnd(k.value)]
    BY <1>3 DEF New
  <2>2. /\ New(k) \in AnyKey
        /\ New(k).kind = k.kind
        /\ New(k).value = TrimEnd(k.value)
    BY <1>2, <2>1 DEF AnyKey
  <2> QED  BY <1>2, <1>3, <2>2
<1>4. CASE ~(IsHierarchical(k) /\ Len(k.value) > 1)
  BY <1>4 DEF New
<1> QED  BY <1>3, <1>4

(* Keys overlap as their paths nest, however they are written. *)
LEMMA WrittenAnyWay ==
    ASSUME NEW k \in AnyKey, NEW j \in AnyKey,
           NEW a \in {k, New(k)}, NEW b \in {j, New(j)}
    PROVE  KeysOverlap(a, b) = OverlapReference(k, j)
<1>1. /\ a \in AnyKey /\ a.kind = k.kind /\ TrimEnd(a.value) = TrimEnd(k.value)
      /\ b \in AnyKey /\ b.kind = j.kind /\ TrimEnd(b.value) = TrimEnd(j.value)
      /\ ~IsHierarchical(k) => a = k
      /\ ~IsHierarchical(j) => b = j
  BY NewIs
<1>2. IsHierarchical(a) <=> IsHierarchical(k)
  BY <1>1 DEF IsHierarchical
<1>3. a = b <=> a.kind = b.kind /\ a.value = b.value
  BY <1>1 DEF AnyKey
<1>4. /\ a.value \in Seq(Chars) /\ b.value \in Seq(Chars)
      /\ k.value \in Seq(Chars) /\ j.value \in Seq(Chars)
  BY <1>1 DEF AnyKey
<1>5. CASE k.kind # j.kind
  BY <1>1, <1>5 DEF KeysOverlap, OverlapReference
<1>6. CASE k.kind = j.kind /\ ~IsHierarchical(k)
  <2>1. ~IsHierarchical(j)
    BY <1>6 DEF IsHierarchical
  <2> QED  BY <1>1, <1>2, <1>6, <2>1 DEF KeysOverlap, OverlapReference
<1>7. CASE k.kind = j.kind /\ IsHierarchical(k)
  <2>1. KeysOverlap(a, b) <=> \/ a.value = b.value
                              \/ IsAncestor(a.value, b.value)
                              \/ IsAncestor(b.value, a.value)
    BY <1>1, <1>2, <1>3, <1>7 DEF KeysOverlap
  <2>2. OverlapReference(k, j) <=> \/ Below(TrimEnd(k.value), TrimEnd(j.value))
                                   \/ Below(TrimEnd(j.value), TrimEnd(k.value))
    BY <1>4, <1>7, NestedIs DEF OverlapReference, Nested
  <2>3. KeysOverlap(a, b) <=> OverlapReference(k, j)
    BY <1>1, <1>4, <2>1, <2>2, ValuesOverlap
  <2> QED  BY <2>3 DEF KeysOverlap, OverlapReference
<1> QED  BY <1>5, <1>6, <1>7

(* What LeaseTable assumes of Overlap is so of the keys themselves: every  *)
(* key overlaps itself, and of two keys each the other or neither.         *)
LEMMA OverlapIsMutual ==
    \A k, j \in AnyKey : /\ KeysOverlap(k, k)
                         /\ KeysOverlap(k, j) => KeysOverlap(j, k)
BY DEF KeysOverlap, IsHierarchical

(* Two keys of any length, over any characters, as they came or as         *)
(* ResourceKey::new makes them, overlap exactly when they name the same    *)
(* thing or, for paths and files, one lies below the other name by name.   *)
THEOREM OverlapNests ==
    \A k, j \in AnyKey :
        /\ KeysOverlap(New(k), New(j)) = OverlapReference(k, j)
        /\ KeysOverlap(k, j) = OverlapReference(k, j)
        /\ KeysOverlap(New(k), j) = OverlapReference(k, j)
BY WrittenAnyWay

(* The two keys that are written side by side are keys. *)
LEMMA KeysWritten == Spec => [](one \in AnyKey /\ two \in AnyKey)
<1>1. Init => one \in AnyKey /\ two \in AnyKey
  <2>1. \A n \in Kinds : Key(n) \subseteq AnyKey
    <3> SUFFICES ASSUME NEW n \in Kinds, NEW x \in Chars
                 PROVE  [kind |-> n, value |-> <<x>>] \in AnyKey
      BY DEF Key
    <3>1. <<x>> \in Seq(Chars)
      OBVIOUS
    <3> QED  BY <3>1 DEF AnyKey
  <2> QED  BY <2>1 DEF Init
<1>2. ASSUME NEW k \in AnyKey, NEW x \in Chars PROVE Longer(k, x) \in AnyKey
  <2>1. Append(k.value, x) \in Seq(Chars)
    BY DEF AnyKey
  <2> QED  BY <2>1 DEF AnyKey, Longer
<1>3. (one \in AnyKey /\ two \in AnyKey) /\ [Next]_<<one, two>>
         => (one \in AnyKey /\ two \in AnyKey)'
  BY <1>2 DEF Next, WriteOne, WriteTwo
<1> QED  BY <1>1, <1>3, PTL DEF Spec

(* So of the pairs that are written character by character, to any length: *)
(* `overlaps' decides nesting.                                             *)
THEOREM OverlapDecidesNesting == Spec => []OverlapIsNesting
<1>1. one \in AnyKey /\ two \in AnyKey => OverlapIsNesting
  BY OverlapNests DEF OverlapIsNesting
<1> QED  BY <1>1, KeysWritten, PTL
=============================================================================
