-------------------------- MODULE RecordPathProofs --------------------------
(***************************************************************************)
(* What becomes of one line, for every line, mapping and profile: the two  *)
(* ways to find its fields agree, an event past quarantine has lost none,  *)
(* rendering it again is faithful, and documents show it.                  *)
(*                                                                         *)
(* The invariant is that a row is what _compute gives for its own line and *)
(* the mapping it was computed with.  The rest is what the operators of    *)
(* the model do to paths, trees and fields, which are of any size.         *)
(***************************************************************************)
EXTENDS RecordPath, FiniteNumbers, SequenceTheorems, TLAPS

-----------------------------------------------------------------------------
(* Paths *)

(* A path lies at or below another when it begins with its parts. *)
LEMMA PrefixMeans ==
    ASSUME NEW p \in Path, NEW q \in Path
    PROVE  IsPrefix(p, q) <=> Len(p) <= Len(q) /\ \A i \in 1 .. Len(p) : p[i] = q[i]
  <1>1. CASE Len(p) > Len(q)
    BY <1>1 DEF IsPrefix, Path
  <1>2. CASE Len(p) <= Len(q)
    <2>1. SubSeq(p, 1, Len(p)) = p
      BY DEF Path
    <2>2. /\ SubSeq(q, 1, Len(p)) \in Path /\ Len(SubSeq(q, 1, Len(p))) = Len(p)
          /\ \A i \in 1 .. Len(p) : SubSeq(q, 1, Len(p))[i] = q[i]
      BY <1>2 DEF Path
    <2>3. p = SubSeq(q, 1, Len(p)) <=> \A i \in 1 .. Len(p) : p[i] = q[i]
      BY <2>2, SeqEqual DEF Path
    <2>4. QED
      BY <1>2, <2>1, <2>3 DEF IsPrefix
  <1>3. QED
    BY <1>1, <1>2 DEF Path

(* A path joined to p lies below p, and what is left of it is what was     *)
(* joined.                                                                 *)
LEMMA PrefixJoin ==
    ASSUME NEW p \in Path, NEW r \in Path
    PROVE  p \o r \in Path /\ IsPrefix(p, p \o r) /\ Rest(p, p \o r) = r
  <1>1. p \o r \in Path /\ Len(p \o r) = Len(p) + Len(r)
    BY DEF Path
  <1>2. /\ \A i \in 1 .. Len(p) : (p \o r)[i] = p[i]
        /\ \A i \in 1 .. Len(r) : (p \o r)[Len(p) + i] = r[i]
    BY DEF Path
  <1>3. IsPrefix(p, p \o r)
    <2>1. Len(p) <= Len(p \o r) /\ \A i \in 1 .. Len(p) : p[i] = (p \o r)[i]
      BY <1>1, <1>2 DEF Path
    <2>2. QED
      BY <1>1, <2>1, PrefixMeans
  <1>4. /\ Rest(p, p \o r) \in Path /\ Len(Rest(p, p \o r)) = Len(r)
        /\ \A i \in 1 .. Len(r) : Rest(p, p \o r)[i] = (p \o r)[Len(p) + i]
    <2> DEFINE q == p \o r
    <2> HIDE DEF q
    <2>1. q \in Seq(STRING) /\ Len(q) = Len(p) + Len(r) /\ Len(p) \in Nat /\ Len(r) \in Nat
      BY <1>1 DEF q, Path
    <2>2. /\ Rest(p, q) \in Seq(STRING) /\ Len(Rest(p, q)) = Len(r)
          /\ \A i \in 1 .. Len(r) : Rest(p, q)[i] = q[Len(p) + i]
      BY <2>1 DEF Rest
    <2>3. QED
      BY <2>2 DEF q, Path
  <1>5. QED
    BY <1>1, <1>2, <1>3, <1>4, SeqEqual DEF Path

(* A path below p is p and the rest. *)
LEMMA PrefixSplit ==
    ASSUME NEW p \in Path, NEW q \in Path, IsPrefix(p, q)
    PROVE  Rest(p, q) \in Path /\ p \o Rest(p, q) = q
  <1>1. Len(p) <= Len(q) /\ \A i \in 1 .. Len(p) : p[i] = q[i]
    BY PrefixMeans
  <1>2. /\ Rest(p, q) \in Path /\ Len(Rest(p, q)) = Len(q) - Len(p)
        /\ \A i \in 1 .. Len(q) - Len(p) : Rest(p, q)[i] = q[Len(p) + i]
    BY <1>1 DEF Rest, Path
  <1> DEFINE r == Rest(p, q)
  <1> HIDE DEF r
  <1>3. /\ r \in Path /\ Len(r) = Len(q) - Len(p)
        /\ \A i \in 1 .. Len(r) : r[i] = q[Len(p) + i]
    BY <1>2 DEF r
  <1>4. p \o r \in Path /\ Len(p \o r) = Len(q)
    BY <1>1, <1>3 DEF Path
  <1>5. ASSUME NEW i \in 1 .. Len(q) PROVE (p \o r)[i] = q[i]
    <2>1. CASE i <= Len(p)
      BY <1>1, <1>3, <2>1 DEF Path
    <2>2. CASE i > Len(p)
      <3>1. i - Len(p) \in 1 .. Len(r) /\ Len(p) + (i - Len(p)) = i
        BY <1>1, <1>3, <2>2 DEF Path
      <3>2. \A j \in 1 .. Len(r) : (p \o r)[Len(p) + j] = r[j]
        BY <1>3 DEF Path
      <3>3. QED
        <4>1. (p \o r)[i] = r[i - Len(p)] /\ r[i - Len(p)] = q[i]
          BY <1>3, <3>1, <3>2
        <4>2. QED
          BY <4>1
    <2>3. i <= Len(p) \/ i > Len(p)
      <3>1. i \in Int /\ Len(p) \in Int
        BY DEF Path
      <3>2. QED
        BY <3>1
    <2>4. QED
      BY <2>1, <2>2, <2>3, Zenon
  <1>6. p \o r = q
    BY <1>4, <1>5, SeqEqual DEF Path
  <1>7. QED
    BY <1>3, <1>6 DEF r

(* Lying at or below is a partial order, and the paths above one form a    *)
(* chain.                                                                  *)
LEMMA PrefixOrder ==
    /\ \A p \in Path : IsPrefix(p, p)
    /\ \A p, q, r \in Path : IsPrefix(p, q) /\ IsPrefix(q, r) => IsPrefix(p, r)
    /\ \A p, q \in Path : IsPrefix(p, q) /\ IsPrefix(q, p) => p = q
    /\ \A p, q, r \in Path : IsPrefix(p, r) /\ IsPrefix(q, r) => Comparable(p, q)
  <1>1. \A p \in Path : IsPrefix(p, p)
    BY PrefixMeans DEF Path
  <1>2. ASSUME NEW p \in Path, NEW q \in Path, NEW r \in Path, IsPrefix(p, q), IsPrefix(q, r)
        PROVE  IsPrefix(p, r)
    BY <1>2, PrefixMeans DEF Path
  <1>3. ASSUME NEW p \in Path, NEW q \in Path, IsPrefix(p, q), IsPrefix(q, p) PROVE p = q
    BY <1>3, PrefixMeans, SeqEqual DEF Path
  <1>4. ASSUME NEW p \in Path, NEW q \in Path, NEW r \in Path, IsPrefix(p, r), IsPrefix(q, r)
        PROVE  Comparable(p, q)
    BY <1>4, PrefixMeans DEF Path, Comparable
  <1>5. QED
    BY <1>1, <1>2, <1>3, <1>4

-----------------------------------------------------------------------------
(* Trees *)

(* A tree: a function on paths, which may be empty. *)
IsTree(t) == IsFunction(t) /\ DOMAIN t \subseteq Path

(* What _set_path leaves in a tree: the value at the path, and the leaves  *)
(* beside it.                                                              *)
LEMMA SetFacts ==
    ASSUME NEW t, IsTree(t), NEW p \in Path, NEW v, IsValue(v)
    PROVE  LET s == _set_path(t, p, v)
           IN  /\ IsTree(s)
               /\ \A r \in DOMAIN v : p \o r \in DOMAIN s /\ s[p \o r] = v[r]
               /\ \A q \in DOMAIN s : IsPrefix(p, q) => Rest(p, q) \in DOMAIN v
               /\ \A q \in DOMAIN s :
                     ~IsPrefix(p, q) => q \in DOMAIN t /\ ~Comparable(p, q) /\ s[q] = t[q]
               /\ \A q \in DOMAIN t : ~Comparable(p, q) => q \in DOMAIN s /\ s[q] = t[q]
  <1> DEFINE new == [q \in {p \o r : r \in DOMAIN v} |-> v[Rest(p, q)]]
             old == Restrict(t, {q \in DOMAIN t : ~Comparable(p, q)})
             s == _set_path(t, p, v)
  <1>1. \A r \in DOMAIN v : p \o r \in Path /\ IsPrefix(p, p \o r) /\ Rest(p, p \o r) = r
    BY PrefixJoin DEF IsValue
  <1>2. DOMAIN new = {p \o r : r \in DOMAIN v} /\ \A r \in DOMAIN v : new[p \o r] = v[r]
    <2>1. DOMAIN new = {p \o r : r \in DOMAIN v}
      OBVIOUS
    <2>2. \A r \in DOMAIN v : new[p \o r] = v[Rest(p, p \o r)]
      OBVIOUS
    <2>3. QED
      BY <1>1, <2>1, <2>2
  <1>3. /\ DOMAIN old = {q \in DOMAIN t : ~Comparable(p, q)}
        /\ \A q \in DOMAIN old : old[q] = t[q]
    BY DEF Restrict
  <1>4. s = [q \in DOMAIN new \cup DOMAIN old |-> IF q \in DOMAIN new THEN new[q] ELSE old[q]]
    BY DEF _set_path, Over
  <1> HIDE DEF new, old
  <1>5. /\ DOMAIN s = DOMAIN new \cup DOMAIN old
        /\ \A q \in DOMAIN s : s[q] = IF q \in DOMAIN new THEN new[q] ELSE old[q]
        /\ IsFunction(s)
    <2>1. /\ DOMAIN s = DOMAIN new \cup DOMAIN old
          /\ \A q \in DOMAIN s : s[q] = IF q \in DOMAIN new THEN new[q] ELSE old[q]
      BY <1>4
    <2>2. IsFunction(s)
      BY <1>4, <2>1, Zenon DEF IsFunction
    <2>3. QED
      BY <2>1, <2>2
  <1> HIDE DEF s
  <1>6. \A q \in DOMAIN new : IsPrefix(p, q) /\ Rest(p, q) \in DOMAIN v
    BY <1>1, <1>2
  <1>7. \A q \in DOMAIN old : q \in DOMAIN t /\ ~Comparable(p, q) /\ ~IsPrefix(p, q)
    BY <1>3 DEF Comparable
  <1>8. IsTree(s)
    BY <1>1, <1>2, <1>3, <1>5 DEF IsTree
  <1>9. \A r \in DOMAIN v : p \o r \in DOMAIN s /\ s[p \o r] = v[r]
    BY <1>2, <1>5
  <1>10. \A q \in DOMAIN s : IsPrefix(p, q) => Rest(p, q) \in DOMAIN v
    BY <1>5, <1>6, <1>7
  <1>11. \A q \in DOMAIN s :
            ~IsPrefix(p, q) => q \in DOMAIN t /\ ~Comparable(p, q) /\ s[q] = t[q]
    BY <1>3, <1>5, <1>6, <1>7
  <1>12. \A q \in DOMAIN t : ~Comparable(p, q) => q \in DOMAIN s /\ s[q] = t[q]
    BY <1>3, <1>5, <1>6 DEF Comparable
  <1>13. QED
    BY <1>8, <1>9, <1>10, <1>11, <1>12 DEF s

(* A value that was set is found. *)
LEMMA SetThenGet ==
    ASSUME NEW t, IsTree(t), NEW p \in Path, NEW v, IsValue(v)
    PROVE  get_path(_set_path(t, p, v), p) = v
  <1> DEFINE s == _set_path(t, p, v)
  <1>1. /\ IsTree(s)
        /\ \A r \in DOMAIN v : p \o r \in DOMAIN s /\ s[p \o r] = v[r]
        /\ \A q \in DOMAIN s : IsPrefix(p, q) => Rest(p, q) \in DOMAIN v
    BY SetFacts
  <1> HIDE DEF s
  <1>2. \A r \in DOMAIN v : p \o r \in Path /\ IsPrefix(p, p \o r) /\ Rest(p, p \o r) = r
    BY PrefixJoin DEF IsValue
  <1>3. \A r \in DOMAIN v : p \o r \in Below(s, p)
    BY <1>1, <1>2 DEF Below
  <1>4. Below(s, p) # {}
    BY <1>3 DEF IsValue
  <1>5. {Rest(p, q) : q \in Below(s, p)} = DOMAIN v
    <2>1. \A q \in Below(s, p) : Rest(p, q) \in DOMAIN v
      BY <1>1 DEF Below
    <2>2. \A r \in DOMAIN v : \E q \in Below(s, p) : r = Rest(p, q)
      BY <1>2, <1>3
    <2>3. QED
      BY <2>1, <2>2
  <1>6. get_path(s, p) = [r \in DOMAIN v |-> s[p \o r]]
    BY <1>4, <1>5 DEF get_path
  <1>7. [r \in DOMAIN v |-> s[p \o r]] = [r \in DOMAIN v |-> v[r]]
    BY <1>1
  <1>8. v = [r \in DOMAIN v |-> v[r]]
    BY DEF IsValue, IsFunction
  <1>9. QED
    BY <1>6, <1>7, <1>8 DEF s

(* Setting a value leaves what is found elsewhere. *)
LEMMA SetElsewhere ==
    ASSUME NEW t, IsTree(t), NEW p \in Path, NEW v, IsValue(v), NEW o \in Path, ~Comparable(p, o)
    PROVE  get_path(_set_path(t, p, v), o) = get_path(t, o)
  <1> DEFINE s == _set_path(t, p, v)
  <1>1. /\ IsTree(s)
        /\ \A q \in DOMAIN s :
              ~IsPrefix(p, q) => q \in DOMAIN t /\ ~Comparable(p, q) /\ s[q] = t[q]
        /\ \A q \in DOMAIN t : ~Comparable(p, q) => q \in DOMAIN s /\ s[q] = t[q]
    BY SetFacts
  <1> HIDE DEF s
  <1>2. \A q \in Path : IsPrefix(o, q) => ~Comparable(p, q)
    <2> SUFFICES ASSUME NEW q \in Path, IsPrefix(o, q), Comparable(p, q) PROVE FALSE
      OBVIOUS
    <2>1. CASE IsPrefix(p, q)
      BY <2>1, PrefixOrder
    <2>2. CASE IsPrefix(q, p)
      BY <2>2, PrefixOrder DEF Comparable
    <2>3. QED
      BY <2>1, <2>2 DEF Comparable
  <1>3. Below(s, o) = Below(t, o) /\ \A q \in Below(t, o) : s[q] = t[q]
    <2>1. \A q \in Below(s, o) : q \in Below(t, o)
      BY <1>1, <1>2 DEF Below, Comparable, IsTree
    <2>2. \A q \in Below(t, o) : q \in Below(s, o) /\ s[q] = t[q]
      BY <1>1, <1>2 DEF Below, IsTree
    <2>3. QED
      BY <2>1, <2>2
  <1>4. CASE Below(t, o) = {}
    BY <1>3, <1>4 DEF get_path, s
  <1>5. CASE Below(t, o) # {}
    <2> DEFINE R == {Rest(o, q) : q \in Below(t, o)}
    <2>1. \A r \in R : s[o \o r] = t[o \o r]
      <3>1. \A q \in Below(t, o) : o \o Rest(o, q) = q
        BY PrefixSplit DEF Below, IsTree
      <3>2. QED
        BY <1>3, <3>1
    <2>2. get_path(s, o) = [r \in R |-> s[o \o r]] /\ get_path(t, o) = [r \in R |-> t[o \o r]]
      BY <1>3, <1>5 DEF get_path
    <2> HIDE DEF R
    <2>3. QED
      BY <2>1, <2>2 DEF s
  <1>6. QED
    BY <1>4, <1>5

-----------------------------------------------------------------------------
(* Filling the gaps *)

(* FillGaps goes through its slots one after the other. *)
LEMMA FillStages ==
    ASSUME NEW t, NEW slots, Len(slots) \in Nat
    PROVE  \E filled :
              /\ filled[0] = t
              /\ \A k \in 1 .. Len(slots) :
                    filled[k] = IF get_path(filled[k - 1], slots[k]) = Missing
                                THEN _set_path(filled[k - 1], slots[k], Missing)
                                ELSE filled[k - 1]
              /\ FillGaps(t, slots) = filled[Len(slots)]
  <1> DEFINE N == Len(slots)
             After(u, k) == IF get_path(u, slots[k]) = Missing
                            THEN _set_path(u, slots[k], Missing) ELSE u
             Upto(g, n) == g[0] = t /\ \A k \in 1 .. n : g[k] = After(g[k - 1], k)
             S == {n \in 0 .. N : \E g : Upto(g, n)}
             D == CHOOSE g : g = [k \in 0 .. N |->
                      IF k = 0 THEN t
                      ELSE IF get_path(g[k - 1], slots[k]) = Missing
                           THEN _set_path(g[k - 1], slots[k], Missing)
                      ELSE g[k - 1]]
  <1>1. FillGaps(t, slots) = D[N]
    BY DEF FillGaps
  <1> HIDE DEF D
  <1>2. \A g, n : n \in 0 .. N /\ Upto(g, n) /\ n < N => \E h : Upto(h, n + 1)
    <2> SUFFICES ASSUME NEW g, NEW n \in 0 .. N, Upto(g, n), n < N PROVE \E h : Upto(h, n + 1)
      OBVIOUS
    <2> DEFINE h == [k \in 0 .. N |-> IF k = n + 1 THEN After(g[n], n + 1) ELSE g[k]]
    <2> HIDE DEF After
    <2>1. h[0] = t /\ h[n + 1] = After(g[n], n + 1) /\ \A k \in 0 .. n : h[k] = g[k]
      OBVIOUS
    <2> HIDE DEF h
    <2>2. ASSUME NEW k \in 1 .. n + 1 PROVE h[k] = After(h[k - 1], k)
      <3>1. CASE k = n + 1
        <4>1. k - 1 = n /\ n \in 0 .. n
          BY <3>1
        <4>2. QED
          BY <2>1, <3>1, <4>1
      <3>2. CASE k # n + 1
        <4>1. k \in 1 .. n /\ k \in 0 .. n /\ k - 1 \in 0 .. n
          BY <3>2
        <4>2. QED
          BY <2>1, <4>1
      <3>3. QED
        BY <3>1, <3>2
    <2>3. QED
      BY <2>1, <2>2
  <1>3. 0 \in S
    <2>1. Upto([k \in 0 .. N |-> t], 0)
      OBVIOUS
    <2> HIDE DEF Upto
    <2>2. \E g : Upto(g, 0)
      BY <2>1
    <2>3. QED
      BY <2>2
  <1> HIDE DEF Upto
  <1>4. \A k \in 0 .. N : k \in S /\ k < N => k + 1 \in S
    BY <1>2
  <1> HIDE DEF S
  <1>5. N \in S
    <2>1. \A k \in 0 .. N : k \in S
      BY <1>3, <1>4, CountUp
    <2>2. QED
      BY <2>1
  <1>6. PICK g : Upto(g, N)
    BY <1>5 DEF S
  <1> DEFINE w == [k \in 0 .. N |-> g[k]]
  <1>7. w[0] = t /\ \A k \in 1 .. N : w[k] = After(w[k - 1], k)
    <2> HIDE DEF After
    <2>1. \A k \in 0 .. N : w[k] = g[k]
      OBVIOUS
    <2>2. g[0] = t /\ \A k \in 1 .. N : g[k] = After(g[k - 1], k)
      BY <1>6 DEF Upto
    <2>3. \A k \in 1 .. N : k \in 0 .. N /\ k - 1 \in 0 .. N
      OBVIOUS
    <2>4. 0 \in 0 .. N
      OBVIOUS
    <2> HIDE DEF w
    <2>5. QED
      BY <2>1, <2>2, <2>3, <2>4
  <1>8. w = [k \in 0 .. N |-> IF k = 0 THEN t ELSE After(w[k - 1], k)]
    <2> HIDE DEF After
    <2>1. \A k \in 0 .. N : k # 0 => k \in 1 .. N
      OBVIOUS
    <2>2. w = [k \in 0 .. N |-> w[k]]
      OBVIOUS
    <2> HIDE DEF w
    <2>3. QED
      BY <1>7, <2>1, <2>2
  <1> HIDE DEF w
  <1>9. D = [k \in 0 .. N |-> IF k = 0 THEN t ELSE After(D[k - 1], k)]
    BY <1>8, Zenon DEF D
  <1>10. D[0] = t /\ \A k \in 1 .. N : D[k] = After(D[k - 1], k)
    <2> HIDE DEF After
    <2>1. \A k \in 0 .. N : D[k] = IF k = 0 THEN t ELSE After(D[k - 1], k)
      BY <1>9, Zenon
    <2>2. \A k \in 1 .. N : k \in 0 .. N /\ k # 0
      OBVIOUS
    <2>3. QED
      BY <2>1, <2>2
  <1>11. QED
    BY <1>1, <1>10

(* A scalar is a value: itself, at the path of no parts. *)
LEMMA ValFacts == \A x : IsValue(Val(x)) /\ DOMAIN Val(x) = {NoPath} /\ Val(x)[NoPath] = x
  <1>1. NoPath \in Path
    BY DEF NoPath, Path
  <1>2. ASSUME NEW x
        PROVE IsValue(Val(x)) /\ DOMAIN Val(x) = {NoPath} /\ Val(x)[NoPath] = x
    <2>1. Val(x) = [n \in {NoPath} |-> x]
      BY DEF Val, One
    <2>2. DOMAIN Val(x) = {NoPath} /\ Val(x)[NoPath] = x
      BY <2>1
    <2>3. Val(x) = [n \in DOMAIN Val(x) |-> Val(x)[n]]
      BY <2>1
    <2>4. QED
      BY <1>1, <2>2, <2>3 DEF IsValue, IsFunction
  <1>3. QED
    BY <1>2

(* Where nothing or null is found there is no leaf but a null. *)
LEMMA MissingMeans ==
    ASSUME NEW t, IsTree(t), NEW p \in Path, get_path(t, p) = Missing
    PROVE  \A q \in DOMAIN t : IsPrefix(p, q) => q = p /\ t[q] = NoValue
  <1> SUFFICES ASSUME NEW q \in DOMAIN t, IsPrefix(p, q) PROVE q = p /\ t[q] = NoValue
    OBVIOUS
  <1>1. q \in Below(t, p) /\ q \in Path
    BY DEF Below, IsTree
  <1> DEFINE R == {Rest(p, o) : o \in Below(t, p)}
  <1>2. get_path(t, p) = [r \in R |-> t[p \o r]]
    BY <1>1 DEF get_path
  <1>3. Rest(p, q) \in R
    BY <1>1
  <1> HIDE DEF R
  <1>4. R = {NoPath} /\ t[p \o NoPath] = NoValue
    <2>1. DOMAIN Missing = {NoPath} /\ Missing[NoPath] = NoValue
      BY ValFacts DEF Missing
    <2>2. QED
      BY <1>2, <2>1
  <1>5. p \o Rest(p, q) = q
    BY <1>1, PrefixSplit
  <1>6. p \o NoPath = p
    BY DEF NoPath, Path
  <1>7. QED
    BY <1>3, <1>4, <1>5, <1>6

(* Setting a missing slot to null adds this leaf and changes no other. *)
LEMMA NullFacts ==
    ASSUME NEW u, IsTree(u), NEW p \in Path, get_path(u, p) = Missing
    PROVE  LET s == _set_path(u, p, Missing)
           IN  /\ IsTree(s)
               /\ p \in DOMAIN s /\ s[p] = NoValue
               /\ \A q \in DOMAIN s : q # p => q \in DOMAIN u /\ ~Comparable(p, q) /\ s[q] = u[q]
               /\ \A q \in DOMAIN u : ~Comparable(p, q) => q \in DOMAIN s /\ s[q] = u[q]
  <1> DEFINE s == _set_path(u, p, Missing)
  <1>1. IsValue(Missing) /\ DOMAIN Missing = {NoPath} /\ Missing[NoPath] = NoValue
    BY ValFacts DEF Missing
  <1>2. /\ IsTree(s)
        /\ \A r \in DOMAIN Missing : p \o r \in DOMAIN s /\ s[p \o r] = Missing[r]
        /\ \A q \in DOMAIN s : IsPrefix(p, q) => Rest(p, q) \in DOMAIN Missing
        /\ \A q \in DOMAIN s :
              ~IsPrefix(p, q) => q \in DOMAIN u /\ ~Comparable(p, q) /\ s[q] = u[q]
        /\ \A q \in DOMAIN u : ~Comparable(p, q) => q \in DOMAIN s /\ s[q] = u[q]
    BY <1>1, SetFacts
  <1> HIDE DEF s
  <1>3. p \o NoPath = p
    BY DEF NoPath, Path
  <1>4. p \in DOMAIN s /\ s[p] = NoValue
    BY <1>1, <1>2, <1>3
  <1>5. ASSUME NEW q \in DOMAIN s, IsPrefix(p, q) PROVE q = p
    <2>1. q \in Path /\ Rest(p, q) = NoPath
      BY <1>1, <1>2, <1>5 DEF IsTree
    <2>2. p \o Rest(p, q) = q
      BY <1>5, <2>1, PrefixSplit
    <2>3. QED
      BY <1>3, <2>1, <2>2
  <1>6. QED
    BY <1>2, <1>4, <1>5 DEF s

(* After FillGaps every slot is there. *)
LEMMA FillHasSlots ==
    ASSUME NEW t, IsTree(t), NEW slots, Len(slots) \in Nat,
           \A k \in 1 .. Len(slots) : slots[k] \in Path
    PROVE  /\ IsTree(FillGaps(t, slots))
           /\ \A k \in 1 .. Len(slots) : HasSlot(FillGaps(t, slots), slots[k])
  <1> DEFINE N == Len(slots)
  <1>1. PICK g :
          /\ g[0] = t
          /\ \A k \in 1 .. N :
                g[k] = IF get_path(g[k - 1], slots[k]) = Missing
                       THEN _set_path(g[k - 1], slots[k], Missing) ELSE g[k - 1]
          /\ FillGaps(t, slots) = g[N]
    BY FillStages
  <1> DEFINE S == {n \in 0 .. N : IsTree(g[n]) /\ \A k \in 1 .. n : HasSlot(g[n], slots[k])}
  <1>2. 0 \in S
    BY <1>1
  <1>3. ASSUME NEW n \in 0 .. N, n \in S, n < N PROVE n + 1 \in S
    <2> DEFINE u == g[n]
               p == slots[n + 1]
               s == g[n + 1]
    <2>1. n + 1 \in 1 .. N /\ (n + 1) - 1 = n /\ p \in Path
      BY <1>3
    <2>2. s = IF get_path(u, p) = Missing THEN _set_path(u, p, Missing) ELSE u
      BY <1>1, <2>1
    <2>3. IsTree(u) /\ \A k \in 1 .. n : HasSlot(u, slots[k])
      BY <1>3
    <2> HIDE DEF u, s, S
    <2>4. IsTree(s) /\ HasSlot(s, p) /\ \A o \in Path : HasSlot(u, o) => HasSlot(s, o)
      <3>1. CASE get_path(u, p) = Missing
        <4>1. /\ IsTree(s) /\ p \in DOMAIN s
              /\ \A q \in DOMAIN u : ~Comparable(p, q) => q \in DOMAIN s
          BY <2>1, <2>2, <2>3, <3>1, NullFacts
        <4>2. HasSlot(s, p)
          BY <2>1, <4>1, PrefixOrder DEF HasSlot
        <4>3. ASSUME NEW o \in Path, HasSlot(u, o) PROVE HasSlot(s, o)
          <5>1. PICK q \in DOMAIN u : IsPrefix(o, q)
            BY <4>3 DEF HasSlot
          <5>2. q \in Path
            BY <2>3 DEF IsTree
          <5>3. CASE ~Comparable(p, q)
            BY <4>1, <5>1, <5>3 DEF HasSlot
          <5>4. CASE IsPrefix(p, q)
            <6>1. q = p
              BY <2>1, <2>3, <3>1, <5>4, MissingMeans
            <6>2. QED
              BY <4>1, <5>1, <6>1 DEF HasSlot
          <5>5. CASE IsPrefix(q, p)
            <6>1. IsPrefix(o, p)
              BY <2>1, <5>1, <5>2, <5>5, PrefixOrder
            <6>2. QED
              BY <4>1, <6>1 DEF HasSlot
          <5>6. QED
            BY <5>3, <5>4, <5>5 DEF Comparable
        <4>4. QED
          BY <4>1, <4>2, <4>3
      <3>2. CASE get_path(u, p) # Missing
        <4>1. s = u /\ Below(u, p) # {}
          BY <2>2, <3>2 DEF get_path
        <4>2. HasSlot(u, p)
          BY <4>1 DEF Below, HasSlot
        <4>3. QED
          BY <2>3, <4>1, <4>2
      <3>3. QED
        BY <3>1, <3>2
    <2>5. ASSUME NEW k \in 1 .. n + 1 PROVE HasSlot(s, slots[k])
      <3>1. CASE k = n + 1
        BY <2>4, <3>1
      <3>2. CASE k # n + 1
        <4>1. k \in 1 .. n /\ k \in 1 .. N
          BY <2>1, <3>2
        <4>2. QED
          BY <2>3, <2>4, <4>1
      <3>3. QED
        BY <3>1, <3>2
    <2>6. n + 1 \in 0 .. N
      BY <1>3
    <2>7. QED
      BY <2>4, <2>5, <2>6 DEF S, s
  <1>4. N \in S
    <2> HIDE DEF S
    <2>1. \A k \in 0 .. N : k \in S
      BY <1>2, <1>3, CountUp
    <2>2. QED
      BY <2>1
  <1>5. QED
    BY <1>1, <1>4

(* When no two slots lie above each other and all leaves lie below slots,  *)
(* FillGaps adds nulls and changes nothing.                                *)
LEMMA FillOnlyNulls ==
    ASSUME NEW t, IsTree(t), NEW slots, Len(slots) \in Nat,
           \A k \in 1 .. Len(slots) : slots[k] \in Path,
           \A j, k \in 1 .. Len(slots) : Comparable(slots[j], slots[k]) => j = k,
           \A q \in DOMAIN t : \E k \in 1 .. Len(slots) : IsPrefix(slots[k], q)
    PROVE  /\ DOMAIN t \subseteq DOMAIN FillGaps(t, slots)
           /\ \A q \in DOMAIN FillGaps(t, slots) :
                 FillGaps(t, slots)[q] = IF q \in DOMAIN t THEN t[q] ELSE NoValue
  <1> DEFINE N == Len(slots)
             Kind(u) == /\ IsTree(u) /\ DOMAIN t \subseteq DOMAIN u
                        /\ \A q \in DOMAIN u : u[q] = IF q \in DOMAIN t THEN t[q] ELSE NoValue
                        /\ \A q \in DOMAIN u : \E k \in 1 .. N : IsPrefix(slots[k], q)
  <1>1. PICK g :
          /\ g[0] = t
          /\ \A k \in 1 .. N :
                g[k] = IF get_path(g[k - 1], slots[k]) = Missing
                       THEN _set_path(g[k - 1], slots[k], Missing) ELSE g[k - 1]
          /\ FillGaps(t, slots) = g[N]
    BY FillStages
  <1> DEFINE S == {n \in 0 .. N : Kind(g[n])}
  <1>2. 0 \in S
    BY <1>1
  <1>3. ASSUME NEW n \in 0 .. N, n \in S, n < N PROVE n + 1 \in S
    <2> DEFINE u == g[n]
               p == slots[n + 1]
               s == g[n + 1]
    <2>1. n + 1 \in 1 .. N /\ (n + 1) - 1 = n /\ p \in Path
      BY <1>3
    <2>2. s = IF get_path(u, p) = Missing THEN _set_path(u, p, Missing) ELSE u
      BY <1>1, <2>1
    <2>3. Kind(u)
      BY <1>3
    <2> HIDE DEF u, s, S, Kind
    <2>4. Kind(s)
      <3>1. CASE get_path(u, p) = Missing
        <4>1. /\ IsTree(s) /\ p \in DOMAIN s /\ s[p] = NoValue
              /\ \A q \in DOMAIN s : q # p => q \in DOMAIN u /\ ~Comparable(p, q) /\ s[q] = u[q]
              /\ \A q \in DOMAIN u : ~Comparable(p, q) => q \in DOMAIN s /\ s[q] = u[q]
          BY <2>1, <2>2, <2>3, <3>1, NullFacts DEF Kind
        <4>2. ASSUME NEW q \in DOMAIN u, Comparable(p, q) PROVE q = p /\ u[q] = NoValue
          <5>1. q \in Path
            BY <2>3 DEF Kind, IsTree
          <5>2. IsPrefix(p, q)
            <6>1. CASE IsPrefix(q, p)
              <7>1. PICK j \in 1 .. N : IsPrefix(slots[j], q)
                BY <2>3 DEF Kind
              <7>2. IsPrefix(slots[j], p)
                BY <2>1, <5>1, <6>1, <7>1, PrefixOrder
              <7>3. j = n + 1
                BY <2>1, <7>2 DEF Comparable
              <7>4. QED
                BY <7>1, <7>3
            <6>2. QED
              BY <4>2, <6>1 DEF Comparable
          <5>3. QED
            BY <2>1, <2>3, <3>1, <5>2, MissingMeans DEF Kind
        <4>3. DOMAIN u \subseteq DOMAIN s
          BY <4>1, <4>2
        <4>4. p \in DOMAIN t => t[p] = NoValue
          <5>1. Comparable(p, p)
            BY <2>1, PrefixOrder DEF Comparable
          <5>2. QED
            BY <2>3, <4>2, <5>1 DEF Kind
        <4>5. \A q \in DOMAIN s : s[q] = IF q \in DOMAIN t THEN t[q] ELSE NoValue
          BY <2>3, <4>1, <4>4 DEF Kind
        <4>6. \A q \in DOMAIN s : \E k \in 1 .. N : IsPrefix(slots[k], q)
          <5>1. IsPrefix(p, p)
            BY <2>1, PrefixOrder
          <5>2. QED
            BY <2>1, <2>3, <4>1, <5>1 DEF Kind
        <4>7. QED
          BY <2>3, <4>1, <4>3, <4>5, <4>6 DEF Kind
      <3>2. CASE get_path(u, p) # Missing
        BY <2>2, <2>3, <3>2
      <3>3. QED
        BY <3>1, <3>2
    <2>5. n + 1 \in 0 .. N
      BY <1>3
    <2>6. QED
      BY <2>4, <2>5 DEF S, s
  <1>4. N \in S
    <2> HIDE DEF S
    <2>1. \A k \in 0 .. N : k \in S
      BY <1>2, <1>3, CountUp
    <2>2. QED
      BY <2>1
  <1>5. QED
    BY <1>1, <1>4

-----------------------------------------------------------------------------
(* Writing *)

(* An engine makes its writes one after the other. *)
LEMMA WriteStages ==
    ASSUME NEW writes, Len(writes) \in Nat
    PROVE  \E tree :
              /\ tree[0] = EmptyTree
              /\ \A k \in 1 .. Len(writes) :
                    tree[k] = IF writes[k].some
                              THEN set_path(tree[k - 1], writes[k].path, writes[k].value)
                              ELSE tree[k - 1]
              /\ WriteAll(writes) = tree[Len(writes)]
  <1> DEFINE N == Len(writes)
             After(u, k) == IF writes[k].some
                            THEN set_path(u, writes[k].path, writes[k].value) ELSE u
             Upto(g, n) == g[0] = EmptyTree /\ \A k \in 1 .. n : g[k] = After(g[k - 1], k)
             S == {n \in 0 .. N : \E g : Upto(g, n)}
             D == CHOOSE g : g = [k \in 0 .. N |->
                      IF k = 0 THEN EmptyTree
                      ELSE IF writes[k].some
                           THEN set_path(g[k - 1], writes[k].path, writes[k].value)
                      ELSE g[k - 1]]
  <1>1. WriteAll(writes) = D[N]
    BY DEF WriteAll
  <1> HIDE DEF D
  <1>2. \A g, n : n \in 0 .. N /\ Upto(g, n) /\ n < N => \E h : Upto(h, n + 1)
    <2> SUFFICES ASSUME NEW g, NEW n \in 0 .. N, Upto(g, n), n < N PROVE \E h : Upto(h, n + 1)
      OBVIOUS
    <2> DEFINE h == [k \in 0 .. N |-> IF k = n + 1 THEN After(g[n], n + 1) ELSE g[k]]
    <2> HIDE DEF After
    <2>1. h[0] = EmptyTree /\ h[n + 1] = After(g[n], n + 1) /\ \A k \in 0 .. n : h[k] = g[k]
      OBVIOUS
    <2> HIDE DEF h
    <2>2. ASSUME NEW k \in 1 .. n + 1 PROVE h[k] = After(h[k - 1], k)
      <3>1. CASE k = n + 1
        <4>1. k - 1 = n /\ n \in 0 .. n
          BY <3>1
        <4>2. QED
          BY <2>1, <3>1, <4>1
      <3>2. CASE k # n + 1
        <4>1. k \in 1 .. n /\ k \in 0 .. n /\ k - 1 \in 0 .. n
          BY <3>2
        <4>2. QED
          BY <2>1, <4>1
      <3>3. QED
        BY <3>1, <3>2
    <2>3. QED
      BY <2>1, <2>2
  <1>3. 0 \in S
    <2>1. Upto([k \in 0 .. N |-> EmptyTree], 0)
      OBVIOUS
    <2> HIDE DEF Upto
    <2>2. \E g : Upto(g, 0)
      BY <2>1
    <2>3. QED
      BY <2>2
  <1> HIDE DEF Upto
  <1>4. \A k \in 0 .. N : k \in S /\ k < N => k + 1 \in S
    BY <1>2
  <1> HIDE DEF S
  <1>5. N \in S
    <2>1. \A k \in 0 .. N : k \in S
      BY <1>3, <1>4, CountUp
    <2>2. QED
      BY <2>1
  <1>6. PICK g : Upto(g, N)
    BY <1>5 DEF S
  <1> DEFINE w == [k \in 0 .. N |-> g[k]]
  <1>7. w[0] = EmptyTree /\ \A k \in 1 .. N : w[k] = After(w[k - 1], k)
    <2> HIDE DEF After
    <2>1. \A k \in 0 .. N : w[k] = g[k]
      OBVIOUS
    <2>2. g[0] = EmptyTree /\ \A k \in 1 .. N : g[k] = After(g[k - 1], k)
      BY <1>6 DEF Upto
    <2>3. \A k \in 1 .. N : k \in 0 .. N /\ k - 1 \in 0 .. N
      OBVIOUS
    <2>4. 0 \in 0 .. N
      OBVIOUS
    <2> HIDE DEF w
    <2>5. QED
      BY <2>1, <2>2, <2>3, <2>4
  <1>8. w = [k \in 0 .. N |-> IF k = 0 THEN EmptyTree ELSE After(w[k - 1], k)]
    <2> HIDE DEF After
    <2>1. \A k \in 0 .. N : k # 0 => k \in 1 .. N
      OBVIOUS
    <2>2. w = [k \in 0 .. N |-> w[k]]
      OBVIOUS
    <2> HIDE DEF w
    <2>3. QED
      BY <1>7, <2>1, <2>2
  <1> HIDE DEF w
  <1>9. D = [k \in 0 .. N |-> IF k = 0 THEN EmptyTree ELSE After(D[k - 1], k)]
    BY <1>8, Zenon DEF D
  <1>10. D[0] = EmptyTree /\ \A k \in 1 .. N : D[k] = After(D[k - 1], k)
    <2> HIDE DEF After
    <2>1. \A k \in 0 .. N : D[k] = IF k = 0 THEN EmptyTree ELSE After(D[k - 1], k)
      BY <1>9, Zenon
    <2>2. \A k \in 1 .. N : k \in 0 .. N /\ k # 0
      OBVIOUS
    <2>3. QED
      BY <2>1, <2>2
  <1>11. QED
    BY <1>1, <1>10

(* A write of an engine sets the path, or else fails and leaves the tree. *)
LEMMA SetPathFacts ==
    ASSUME NEW u, NEW p, NEW v
    PROVE  LET s == set_path(u, p, v)
           IN  /\ s.at = u.at \/ s.at = _set_path(u.at, p, v)
               /\ s.ok => u.ok /\ s.at = _set_path(u.at, p, v)
  BY DEF set_path

(* The leaves of an engine's tree lie below the paths it wrote; a write    *)
(* that no other contends with is found in the end.                        *)
LEMMA WriteFacts ==
    ASSUME NEW writes, Len(writes) \in Nat,
           \A k \in 1 .. Len(writes) : writes[k].path \in Path /\ IsValue(writes[k].value)
    PROVE  LET w == WriteAll(writes)
           IN  /\ IsTree(w.at)
               /\ \A q \in DOMAIN w.at :
                     \E k \in 1 .. Len(writes) : IsPrefix(writes[k].path, q)
               /\ \A k \in 1 .. Len(writes) :
                     w.ok /\ writes[k].some
                     /\ (\A j \in 1 .. Len(writes) :
                            Comparable(writes[j].path, writes[k].path) => j = k)
                     => get_path(w.at, writes[k].path) = writes[k].value
  <1> DEFINE N == Len(writes)
             Free(k) == \A j \in 1 .. N : Comparable(writes[j].path, writes[k].path) => j = k
             Kind(u, n) == /\ IsTree(u.at)
                           /\ \A q \in DOMAIN u.at :
                                 \E k \in 1 .. N : IsPrefix(writes[k].path, q)
                           /\ \A k \in 1 .. n : u.ok /\ writes[k].some /\ Free(k) =>
                                 get_path(u.at, writes[k].path) = writes[k].value
  <1>1. PICK g :
          /\ g[0] = EmptyTree
          /\ \A k \in 1 .. N :
                g[k] = IF writes[k].some
                       THEN set_path(g[k - 1], writes[k].path, writes[k].value) ELSE g[k - 1]
          /\ WriteAll(writes) = g[N]
    BY WriteStages
  <1> DEFINE S == {n \in 0 .. N : Kind(g[n], n)}
  <1>2. 0 \in S
    <2>1. DOMAIN EmptyTree.at = {} /\ IsTree(EmptyTree.at)
      BY DEF EmptyTree, Nothing, IsTree, IsFunction
    <2>2. Kind(EmptyTree, 0)
      BY <2>1
    <2> HIDE DEF Kind
    <2>3. QED
      BY <1>1, <2>2
  <1>3. ASSUME NEW n \in 0 .. N, n \in S, n < N PROVE n + 1 \in S
    <2> DEFINE u == g[n]
               p == writes[n + 1].path
               v == writes[n + 1].value
               s == g[n + 1]
    <2>1. n + 1 \in 1 .. N /\ (n + 1) - 1 = n /\ p \in Path /\ IsValue(v)
      BY <1>3
    <2>2. s = IF writes[n + 1].some THEN set_path(u, p, v) ELSE u
      BY <1>1, <2>1
    <2>3. Kind(u, n)
      BY <1>3
    <2> HIDE DEF u, s, p, v, S, Kind, Free
    <2>4. Kind(s, n + 1)
      <3>1. CASE writes[n + 1].some
        <4>1. /\ s.at = u.at \/ s.at = _set_path(u.at, p, v)
              /\ s.ok => u.ok /\ s.at = _set_path(u.at, p, v)
          BY <2>2, <3>1, SetPathFacts
        <4>2. IsTree(u.at)
          BY <2>3 DEF Kind
        <4>3. IsTree(_set_path(u.at, p, v))
          BY <2>1, <4>2, SetFacts
        <4>4. \A q \in DOMAIN _set_path(u.at, p, v) :
                 \E k \in 1 .. N : IsPrefix(writes[k].path, q)
          <5>1. \A q \in DOMAIN _set_path(u.at, p, v) : ~IsPrefix(p, q) => q \in DOMAIN u.at
            BY <2>1, <4>2, SetFacts
          <5>2. QED
            BY <2>1, <2>3, <5>1 DEF Kind, p
        <4>5. ASSUME NEW k \in 1 .. n + 1, s.ok, writes[k].some, Free(k)
              PROVE  get_path(s.at, writes[k].path) = writes[k].value
          <5>1. CASE k = n + 1
            BY <2>1, <4>1, <4>2, <4>5, <5>1, SetThenGet DEF p, v
          <5>2. CASE k # n + 1
            <6>1. k \in 1 .. n /\ k \in 1 .. N
              BY <2>1, <5>2
            <6>2. writes[k].path \in Path /\ get_path(u.at, writes[k].path) = writes[k].value
              BY <2>3, <4>1, <4>5, <6>1 DEF Kind
            <6>3. ~Comparable(p, writes[k].path)
              BY <2>1, <4>5, <5>2 DEF Free, p
            <6>4. get_path(_set_path(u.at, p, v), writes[k].path) = get_path(u.at, writes[k].path)
              BY <2>1, <4>2, <6>2, <6>3, SetElsewhere
            <6>5. QED
              BY <4>1, <4>5, <6>2, <6>4
          <5>3. QED
            BY <5>1, <5>2
        <4>6. QED
          BY <2>3, <4>1, <4>2, <4>3, <4>4, <4>5 DEF Kind
      <3>2. CASE ~writes[n + 1].some
        <4>1. s = u
          BY <2>2, <3>2
        <4>2. \A k \in 1 .. n + 1 : writes[k].some => k \in 1 .. n
          BY <3>2
        <4>3. QED
          BY <2>3, <4>1, <4>2 DEF Kind
      <3>3. QED
        BY <3>1, <3>2
    <2>5. n + 1 \in 0 .. N
      BY <1>3
    <2>6. QED
      BY <2>4, <2>5 DEF S, s
  <1>4. N \in S
    <2> HIDE DEF S
    <2>1. \A k \in 0 .. N : k \in S
      BY <1>2, <1>3, CountUp
    <2>2. QED
      BY <2>1
  <1>5. QED
    BY <1>1, <1>4

-----------------------------------------------------------------------------
(* Fields and formats *)

(* The parsers' keys are names. *)
LEMMA NameFacts ==
    /\ NoPath \in Path
    /\ \A w \in Keys : K(w) \in Path \ {NoPath} /\ Len(K(w)) = 1
    /\ \A v, w : K(v) = K(w) => v = w
  <1>1. NoPath \in Path
    BY DEF NoPath, Path
  <1>2. ASSUME NEW w \in Keys PROVE K(w) \in Path \ {NoPath} /\ Len(K(w)) = 1
    <2>1. Len(<<w>>) = 1 /\ <<w>> \in Seq(STRING)
      <3>1. \A S : \A x \in S : <<x>> \in Seq(S) /\ Len(<<x>>) = 1
        OBVIOUS
      <3>2. w \in STRING
        BY KeyAssumption
      <3>3. QED
        BY <3>1, <3>2, Zenon
    <2>2. Len(<<>>) = 0
      OBVIOUS
    <2>3. <<w>> # <<>>
      BY <2>1, <2>2
    <2>4. QED
      BY <2>1, <2>3 DEF K, Path, NoPath
  <1>3. ASSUME NEW v, NEW w, K(v) = K(w) PROVE v = w
    BY <1>3 DEF K
  <1>4. QED
    BY <1>1, <1>2, <1>3

(* Fields put over others, and some of the fields, are fields again. *)
LEMMA MapFacts ==
    /\ IsFieldMap(Nothing) /\ DOMAIN Nothing = {}
    /\ \A f, D : D \subseteq DOMAIN f /\ IsFieldMap(f) => IsFieldMap(Restrict(f, D))
    /\ \A f, g : IsFieldMap(f) /\ IsFieldMap(g) => IsFieldMap(Over(f, g))
    /\ \A n \in Path \ {NoPath} : \A v : IsValue(v) => IsFieldMap(One(n, v))
  <1>1. IsFieldMap(Nothing) /\ DOMAIN Nothing = {}
    BY DEF IsFieldMap, Nothing, IsFunction
  <1>2. ASSUME NEW f, NEW D, D \subseteq DOMAIN f, IsFieldMap(f) PROVE IsFieldMap(Restrict(f, D))
    <2> DEFINE r == Restrict(f, D)
    <2>1. r = [n \in D |-> f[n]]
      BY DEF Restrict
    <2>2. DOMAIN r = D /\ \A n \in D : r[n] = f[n]
      BY <2>1
    <2>3. IsFunction(r)
      BY <2>1, <2>2, Zenon DEF IsFunction
    <2> HIDE DEF r
    <2>4. IsFieldMap(r)
      BY <1>2, <2>2, <2>3 DEF IsFieldMap
    <2>5. QED
      BY <2>4 DEF r
  <1>3. ASSUME NEW f, NEW g, IsFieldMap(f), IsFieldMap(g) PROVE IsFieldMap(Over(f, g))
    <2> DEFINE r == Over(f, g)
    <2>1. r = [n \in DOMAIN f \cup DOMAIN g |-> IF n \in DOMAIN f THEN f[n] ELSE g[n]]
      BY DEF Over
    <2>2. /\ DOMAIN r = DOMAIN f \cup DOMAIN g
          /\ \A n \in DOMAIN r : r[n] = IF n \in DOMAIN f THEN f[n] ELSE g[n]
      BY <2>1
    <2>3. IsFunction(r)
      BY <2>1, <2>2, Zenon DEF IsFunction
    <2> HIDE DEF r
    <2>4. IsFieldMap(r)
      BY <1>3, <2>2, <2>3 DEF IsFieldMap
    <2>5. QED
      BY <2>4 DEF r
  <1>4. ASSUME NEW n \in Path \ {NoPath}, NEW v, IsValue(v) PROVE IsFieldMap(One(n, v))
    <2> DEFINE r == One(n, v)
    <2>1. r = [k \in {n} |-> v]
      BY DEF One
    <2>2. DOMAIN r = {n} /\ r[n] = v
      BY <2>1
    <2>3. IsFunction(r)
      BY <2>1, <2>2, Zenon DEF IsFunction
    <2> HIDE DEF r
    <2>4. IsFieldMap(r)
      BY <1>4, <2>2, <2>3 DEF IsFieldMap
    <2>5. QED
      BY <2>4 DEF r
  <1>5. QED
    BY <1>1, <1>2, <1>3, <1>4

(* The dictionary of named values is a dictionary. *)
LEMMA DictFacts ==
    ASSUME NEW f, IsFieldMap(f)
    PROVE  /\ IsValue(Dict(f)) /\ IsDictionary(Dict(f))
           /\ Dict(f) = Val(EmptyDict) <=> DOMAIN f = {}
  <1>1. CASE DOMAIN f = {}
    BY <1>1, ValFacts DEF Dict, IsDictionary
  <1>2. CASE DOMAIN f # {}
    <2> DEFINE Leaves == UNION {{<<n, q>> : q \in DOMAIN f[n]} : n \in DOMAIN f}
               P == {leaf[1] \o leaf[2] : leaf \in Leaves}
               g(p) == CHOOSE leaf \in Leaves : leaf[1] \o leaf[2] = p
    <2>1. Dict(f) = [p \in P |-> f[g(p)[1]][g(p)[2]]]
      BY <1>2 DEF Dict
    <2>2. \A leaf \in Leaves : leaf[1] \in Path \ {NoPath} /\ leaf[2] \in Path
      BY DEF IsFieldMap, IsValue
    <2>3. Leaves # {}
      <3>1. PICK n \in DOMAIN f : DOMAIN f[n] # {}
        BY <1>2 DEF IsFieldMap, IsValue
      <3>2. PICK q \in DOMAIN f[n] : TRUE
        BY <3>1
      <3>3. <<n, q>> \in Leaves
        BY <3>1, <3>2
      <3>4. QED
        BY <3>3
    <2> HIDE DEF Leaves, g
    <2>4. P # {} /\ P \subseteq Path \ {NoPath}
      <3>1. \A a \in Path \ {NoPath}, b \in Path : a \o b \in Path \ {NoPath}
        <4> SUFFICES ASSUME NEW a \in Path, NEW b \in Path, a # NoPath
                     PROVE  a \o b \in Path /\ a \o b # NoPath
          OBVIOUS
        <4>1. a \o b \in Path /\ Len(a \o b) = Len(a) + Len(b)
          BY DEF Path
        <4>2. Len(a) \in Nat /\ Len(b) \in Nat /\ Len(a) # 0 /\ Len(NoPath) = 0
          <5>1. a \in Seq(STRING) /\ b \in Seq(STRING)
            BY DEF Path
          <5>2. Len(a) \in Nat /\ Len(b) \in Nat /\ Len(<<>>) = 0
            BY <5>1
          <5>3. Len(a) # 0
            BY <5>1, EmptySeq DEF NoPath
          <5>4. QED
            BY <5>2, <5>3 DEF NoPath
        <4> DEFINE c == a \o b
        <4>3. Len(c) # 0
          BY <4>1, <4>2
        <4> HIDE DEF c
        <4>4. c # NoPath
          BY <4>2, <4>3
        <4>5. QED
          BY <4>1, <4>4 DEF c
      <3>2. QED
        BY <2>2, <2>3, <3>1
    <2> HIDE DEF P
    <2>5. DOMAIN Dict(f) = P /\ IsFunction(Dict(f))
      <3>1. DOMAIN Dict(f) = P
        BY <2>1
      <3>2. \A p \in P : Dict(f)[p] = f[g(p)[1]][g(p)[2]]
        BY <2>1
      <3>3. QED
        BY <2>1, <3>1, <3>2, Zenon DEF IsFunction
    <2>6. IsValue(Dict(f)) /\ NoPath \notin DOMAIN Dict(f)
      BY <2>4, <2>5 DEF IsValue
    <2>7. Dict(f) # Val(EmptyDict)
      BY <2>6, ValFacts
    <2>8. QED
      BY <1>2, <2>6, <2>7 DEF IsDictionary
  <1>3. QED
    BY <1>1, <1>2

(* FirstOf gives the value of the first test that holds, and of one of     *)
(* those that hold.                                                        *)
LEMMA FirstFacts ==
    ASSUME NEW tests, NEW n \in Nat, DOMAIN tests = 1 .. n
    PROVE  /\ \A k \in 1 .. n :
                 tests[k][1] /\ (\A j \in 1 .. k - 1 : ~tests[j][1]) => FirstOf(tests) = tests[k][2]
           /\ (\E k \in 1 .. n : tests[k][1]) =>
                 \E k \in 1 .. n : tests[k][1] /\ FirstOf(tests) = tests[k][2]
  <1> DEFINE H == {k \in DOMAIN tests : tests[k][1]}
  <1>1. FirstOf(tests) = tests[Min(H)][2]
    BY DEF FirstOf
  <1>2. H # {} => Min(H) \in H /\ \A y \in H : Min(H) <= y
    <2>1. H \in SUBSET Nat
      OBVIOUS
    <2> HIDE DEF H
    <2>2. QED
      BY <2>1, NumbersHaveMin
  <1>3. ASSUME NEW k \in 1 .. n, tests[k][1], \A j \in 1 .. k - 1 : ~tests[j][1]
        PROVE  FirstOf(tests) = tests[k][2]
    <2>1. k \in H /\ \A y \in H : k <= y
      BY <1>3
    <2>2. H \subseteq Int
      OBVIOUS
    <2> HIDE DEF H
    <2> DEFINE least == Min(H)
    <2> HIDE DEF least
    <2>3. least \in H /\ least <= k /\ k <= least
      BY <1>2, <2>1 DEF least
    <2>4. least \in Int /\ k \in Int
      BY <2>2, <2>3
    <2>5. least = k
      BY <2>3, <2>4
    <2>6. QED
      BY <1>1, <2>5 DEF least
  <1>4. ASSUME NEW k \in 1 .. n, tests[k][1]
        PROVE  \E j \in 1 .. n : tests[j][1] /\ FirstOf(tests) = tests[j][2]
    BY <1>1, <1>2, <1>4
  <1>5. QED
    BY <1>3, <1>4

(* detect_format gives one of the formats. *)
LEMMA DetectFacts ==
    ASSUME NEW l, NEW hint \in Formats \cup {NoHint}
    PROVE  detect_format(l, hint) \in Formats
  <1> DEFINE tests == <<
                <<l.starts = "blank", "unknown">>,
                <<hint # NoHint, hint>>,
                <<l.starts = "cef", "cef">>,
                <<l.starts = "leef", "leef">>,
                <<l.starts \in {"[", "{"} /\ l.doc, "json">>,
                <<l.starts = "<" /\ l.doc, "xml">>,
                <<l.starts \in {"pri", "iso"}, "syslog">>,
                <<l.columns, "csv">>,
                <<l.starts = "mon", "syslog">>,
                <<TRUE, "raw">>>>
  <1>1. detect_format(l, hint) = FirstOf(tests)
    BY DEF detect_format
  <1>2. DOMAIN tests = 1 .. 10
    OBVIOUS
  <1>3. ASSUME NEW k \in 1 .. 10, tests[k][1] PROVE tests[k][2] \in Formats
    <2>1. k \in {1, 2, 3, 4, 5, 6, 7, 8, 9, 10}
      OBVIOUS
    <2>2. hint # NoHint => hint \in Formats
      OBVIOUS
    <2>11. tests[1][2] = "unknown"
      OBVIOUS
    <2>13. tests[3][2] = "cef"
      OBVIOUS
    <2>14. tests[4][2] = "leef"
      OBVIOUS
    <2>15. tests[5][2] = "json"
      OBVIOUS
    <2>16. tests[6][2] = "xml"
      OBVIOUS
    <2>17. tests[7][2] = "syslog"
      OBVIOUS
    <2>18. tests[8][2] = "csv"
      OBVIOUS
    <2>19. tests[9][2] = "syslog"
      OBVIOUS
    <2>20. tests[10][2] = "raw"
      OBVIOUS
    <2>4. CASE k = 2
      BY <1>3, <2>2, <2>4
    <2>5. CASE k # 2
      <3>1. tests[k][2] \in {"unknown", "cef", "leef", "json", "xml", "syslog", "csv", "raw"}
        BY <2>1, <2>5, <2>11, <2>13, <2>14, <2>15, <2>16, <2>17, <2>18, <2>19, <2>20
      <3>2. QED
        BY <3>1 DEF Formats
    <2>6. QED
      BY <2>4, <2>5
  <1>4. tests[10][1]
    OBVIOUS
  <1> HIDE DEF tests
  <1>5. \E k \in 1 .. 10 : tests[k][1] /\ FirstOf(tests) = tests[k][2]
    <2>1. \E k \in 1 .. 10 : tests[k][1]
      <3>1. 10 \in 1 .. 10
        OBVIOUS
      <3>2. QED
        BY <1>4, <3>1
    <2>2. 10 \in Nat
      OBVIOUS
    <2>3. QED
      BY <1>2, <2>1, <2>2, FirstFacts
  <1>6. QED
    BY <1>1, <1>3, <1>5

(* The members of a dictionary are fields. *)
LEMMA WithinFacts ==
    ASSUME NEW p, IsFieldMap(p.at), NEW w
    PROVE  IsFieldMap(Within(p, w))
  <1> DEFINE v == p.at[K(w)]
  <1>1. CASE IsDict(p, w) /\ v # Val(EmptyDict)
    <2>1. IsValue(v) /\ NoPath \notin DOMAIN v
      BY <1>1 DEF IsDict, IsDictionary, IsFieldMap
    <2>2. Within(p, w) = [n \in DOMAIN v |-> Val(v[n])]
      BY <1>1 DEF Within
    <2> HIDE DEF v
    <2>3. /\ DOMAIN Within(p, w) = DOMAIN v
          /\ \A n \in DOMAIN v : Within(p, w)[n] = Val(v[n])
      BY <2>2
    <2>4. IsFunction(Within(p, w))
      BY <2>2, <2>3, Zenon DEF IsFunction
    <2>5. QED
      BY <2>1, <2>3, <2>4, ValFacts DEF IsFieldMap, IsValue
  <1>2. CASE ~(IsDict(p, w) /\ v # Val(EmptyDict))
    BY <1>2, MapFacts DEF Within
  <1>3. QED
    BY <1>1, <1>2

(* One, Over, Restrict and Both: where they are defined and what they give *)
(* there.                                                                  *)
LEMMA OneDomain == ASSUME NEW n, NEW v PROVE DOMAIN One(n, v) = {n}
  BY DEF One

(* One gives the value at its name. *)
LEMMA OneValue == ASSUME NEW n, NEW v PROVE One(n, v)[n] = v
  BY DEF One

(* Over is defined where either is ... *)
LEMMA OverDomain ==
    ASSUME NEW f, NEW g
    PROVE  DOMAIN Over(f, g) = DOMAIN f \cup DOMAIN g
  BY DEF Over

(* ... is the first where that is defined ... *)
LEMMA OverFirst ==
    ASSUME NEW f, NEW g, NEW n, n \in DOMAIN f
    PROVE  Over(f, g)[n] = f[n]
  BY DEF Over

(* ... and elsewhere the second. *)
LEMMA OverSecond ==
    ASSUME NEW f, NEW g, NEW n, n \in DOMAIN g, n \notin DOMAIN f
    PROVE  Over(f, g)[n] = g[n]
  BY DEF Over

(* Restricted fields are the fields that were kept. *)
LEMMA RestrictFacts ==
    ASSUME NEW f, NEW D
    PROVE  DOMAIN Restrict(f, D) = D /\ \A n \in D : Restrict(f, D)[n] = f[n]
  BY DEF Restrict

(* Both is defined at its two keys ... *)
LEMMA BothDomain ==
    ASSUME NEW a, NEW b, a # b, NEW v, NEW w
    PROVE  DOMAIN Both(a, v, b, w) = {K(a), K(b)}
  <1>1. DOMAIN One(K(a), v) = {K(a)} /\ DOMAIN One(K(b), w) = {K(b)}
    BY OneDomain
  <1>2. QED
    BY <1>1, OverDomain DEF Both

(* ... and gives the first value ... *)
LEMMA BothFirst ==
    ASSUME NEW a, NEW b, a # b, NEW v, NEW w
    PROVE  Both(a, v, b, w)[K(a)] = v
  <1>1. K(a) \in DOMAIN One(K(a), v) /\ One(K(a), v)[K(a)] = v
    BY OneDomain, OneValue
  <1>2. QED
    BY <1>1, OverFirst DEF Both

(* ... and the second. *)
LEMMA BothSecond ==
    ASSUME NEW a, NEW b, a # b, NEW v, NEW w
    PROVE  Both(a, v, b, w)[K(b)] = w
  <1>1. K(b) \in DOMAIN One(K(b), w) /\ One(K(b), w)[K(b)] = w
    BY OneDomain, OneValue
  <1>2. K(b) # K(a)
    BY NameFacts
  <1>3. K(b) \notin DOMAIN One(K(a), v)
    BY <1>2, OneDomain
  <1>4. QED
    BY <1>1, <1>3, OverSecond DEF Both

(* Two values under the parsers' keys are fields. *)
LEMMA BothIsMap ==
    ASSUME NEW a \in Keys, NEW b \in Keys, NEW v, NEW w, IsValue(v), IsValue(w)
    PROVE  IsFieldMap(Both(a, v, b, w))
  <1>1. {K(a), K(b)} \subseteq Path \ {NoPath}
    BY NameFacts
  <1>2. IsFieldMap(One(K(a), v)) /\ IsFieldMap(One(K(b), w))
    BY <1>1, MapFacts
  <1>3. QED
    BY <1>2, MapFacts DEF Both

(* What a header gives for a name is a value. *)
LEMMA GivenFacts ==
    ASSUME NEW l, IsLine(l), NEW n
    PROVE  IsValue(Given(l, n))
  BY ValFacts DEF Given, IsLine, IsFieldMap, Missing

(* What parse_syslog gives for the keys that the flattening functions look *)
(* at.                                                                     *)
LEMMA SyslogFacts ==
    ASSUME NEW l, IsLine(l)
    PROVE  LET at == parse_syslog(l)
           IN  /\ IsFieldMap(at)
               /\ {K("pri"), K("message"), K("fields")} \subseteq DOMAIN at
               /\ IsDictionary(at[K("fields")])
               /\ at[K("pri")] = Given(l, K("pri"))
               /\ \A w \in {"timestamp", "hostname"} :
                     K(w) \in DOMAIN at => at[K(w)] = Given(l, K(w))
  <1> DEFINE f == Both("pri", Given(l, K("pri")), "message", Val("text"))
             g == One(K("fields"), parse_key_values(l))
             D == {K("timestamp"), K("hostname")} \cap DOMAIN l.header
             h == Restrict(l.header, D)
             at == parse_syslog(l)
  <1>1. at = Over(f, Over(g, h))
    BY DEF parse_syslog
  <1>2. /\ DOMAIN f = {K("pri"), K("message")} /\ f[K("pri")] = Given(l, K("pri"))
        /\ IsFieldMap(f)
    <2>1. "pri" \in Keys /\ "message" \in Keys /\ "pri" # "message"
      BY DEF Keys
    <2>2. IsValue(Given(l, K("pri"))) /\ IsValue(Val("text"))
      BY GivenFacts, ValFacts
    <2>3. IsFieldMap(f)
      BY <2>1, <2>2, BothIsMap
    <2>4. DOMAIN f = {K("pri"), K("message")}
      BY <2>1, BothDomain
    <2>5. f[K("pri")] = Given(l, K("pri"))
      BY <2>1, BothFirst
    <2>6. QED
      BY <2>3, <2>4, <2>5
  <1>3. IsFieldMap(g) /\ DOMAIN g = {K("fields")} /\ IsDictionary(g[K("fields")])
    <2>1. IsValue(parse_key_values(l)) /\ IsDictionary(parse_key_values(l))
      BY DictFacts DEF parse_key_values, IsLine
    <2>2. K("fields") \in Path \ {NoPath}
      BY NameFacts DEF Keys
    <2>3. QED
      BY <2>1, <2>2, MapFacts, OneDomain, OneValue
  <1>4. /\ IsFieldMap(h) /\ DOMAIN h = D
        /\ \A n \in D : h[n] = Given(l, n)
    <2>1. IsFieldMap(l.header) /\ D \subseteq DOMAIN l.header
      BY DEF IsLine
    <2>2. \A n \in D : Given(l, n) = l.header[n]
      BY DEF Given
    <2> HIDE DEF D
    <2>3. DOMAIN h = D /\ \A n \in D : h[n] = l.header[n]
      BY RestrictFacts
    <2>4. IsFieldMap(h)
      BY <2>1, MapFacts
    <2>5. QED
      BY <2>2, <2>3, <2>4
  <1>5. /\ K("fields") \notin {K("pri"), K("message")}
        /\ K("timestamp") \notin {K("pri"), K("message"), K("fields")}
        /\ K("hostname") \notin {K("pri"), K("message"), K("fields")}
    BY NameFacts
  <1>6. D \subseteq {K("timestamp"), K("hostname")}
    OBVIOUS
  <1> HIDE DEF f, g, D, h, at
  <1>7. IsFieldMap(at)
    BY <1>1, <1>2, <1>3, <1>4, MapFacts
  <1> DEFINE gh == Over(g, h)
  <1>8. /\ DOMAIN gh = {K("fields")} \cup D
        /\ gh[K("fields")] = g[K("fields")]
        /\ \A n \in D : gh[n] = h[n]
    <2>1. D \cap DOMAIN g = {}
      BY <1>3, <1>5, <1>6
    <2>2. DOMAIN gh = {K("fields")} \cup D
      BY <1>3, <1>4, OverDomain
    <2>3. gh[K("fields")] = g[K("fields")]
      BY <1>3, OverFirst
    <2>4. \A n \in D : gh[n] = h[n]
      BY <1>4, <2>1, OverSecond
    <2>5. QED
      BY <2>2, <2>3, <2>4
  <1>9. at = Over(f, gh)
    BY <1>1
  <1> HIDE DEF gh
  <1>10. /\ DOMAIN at = {K("pri"), K("message"), K("fields")} \cup D
         /\ at[K("pri")] = f[K("pri")]
         /\ at[K("fields")] = gh[K("fields")]
         /\ \A n \in D : at[n] = gh[n]
    <2>1. ({K("fields")} \cup D) \cap DOMAIN f = {}
      BY <1>2, <1>5, <1>6
    <2>2. DOMAIN at = {K("pri"), K("message"), K("fields")} \cup D
      <3>1. DOMAIN at = DOMAIN f \cup DOMAIN gh
        BY <1>9, OverDomain
      <3>2. QED
        BY <1>2, <1>8, <3>1
    <2>3. at[K("pri")] = f[K("pri")]
      BY <1>2, <1>9, OverFirst
    <2>4. \A n \in {K("fields")} \cup D : at[n] = gh[n]
      BY <1>8, <1>9, <2>1, OverSecond
    <2>5. QED
      BY <2>2, <2>3, <2>4
  <1>11. \A w \in {"timestamp", "hostname"} : K(w) \in DOMAIN at => K(w) \in D
    BY <1>5, <1>10
  <1>12. QED
    BY <1>2, <1>3, <1>4, <1>7, <1>8, <1>10, <1>11 DEF at

(* What the parsers give are fields. *)
LEMMA ParsedFacts ==
    ASSUME NEW l, IsLine(l), NEW format \in Formats
    PROVE  IsFieldMap(parse(format, l).at) /\ IsFieldMap(parse(format, l).first)
  <1> DEFINE p == parse(format, l)
  <1>1. IsFieldMap(Nothing) /\ IsFieldMap(l.body) /\ IsFieldMap(l.header)
    BY MapFacts DEF IsLine
  <1>2. {K("version"), K("fields"), K("text")} \subseteq Path \ {NoPath}
    BY NameFacts DEF Keys
  <1>3. /\ \A f : IsFieldMap(f) => IsValue(Dict(f))
        /\ \A x : IsValue(Val(x))
        /\ \A n \in Path \ {NoPath} : \A v : IsValue(v) => IsFieldMap(One(n, v))
    BY DictFacts, ValFacts, MapFacts
  <1>4. IsFieldMap(parse_syslog(l))
    BY SyslogFacts
  <1>5. IsFieldMap(parse_cef(l))
    <2>1. IsValue(Dict(l.header)) /\ IsValue(parse_key_values(l)) /\ IsValue(Dict(Nothing))
      BY <1>1, <1>3 DEF parse_key_values
    <2>2. IsValue(Dict(One(K("version"), Missing)))
      BY <1>2, <1>3 DEF Missing
    <2>3. QED
      BY <2>1, <2>2, BothIsMap DEF parse_cef, Keys
  <1>6. IsFieldMap(parse_leef(l))
    <2>1. IsValue(Dict(l.header)) /\ IsValue(parse_key_values(l)) /\ IsValue(Dict(Nothing))
      BY <1>1, <1>3 DEF parse_key_values
    <2>2. QED
      BY <2>1, BothIsMap DEF parse_leef, Keys
  <1>7. IsFieldMap(parse_csv(l))
    BY <1>3, BothIsMap DEF parse_csv, Keys
  <1>8. IsFieldMap(parse_raw(l))
    BY <1>1, <1>2, <1>3 DEF parse_raw, parse_key_values
  <1> DEFINE R(x) == IsFieldMap(x.at) /\ IsFieldMap(x.first)
  <1>9. \A is, at, first : IsFieldMap(at) /\ IsFieldMap(first) => R(Result(is, at, first))
    BY DEF Result
  <1>10. R(Failed)
    BY <1>1, <1>9 DEF Failed
  <1> HIDE DEF R
  <1>11. ASSUME format \in {"unknown", "json"} PROVE R(p)
    BY <1>1, <1>9, <1>10, <1>11 DEF parse
  <1>12. ASSUME format \in {"xml", "csv"} PROVE R(p)
    BY <1>1, <1>7, <1>9, <1>10, <1>12 DEF parse
  <1>13. ASSUME format \in {"syslog", "cef", "leef", "raw"} PROVE R(p)
    BY <1>1, <1>4, <1>5, <1>6, <1>8, <1>9, <1>13 DEF parse
  <1>14. R(p)
    BY <1>11, <1>12, <1>13 DEF Formats
  <1>15. QED
    BY <1>14 DEF R

(* What extract_fields gives are fields. *)
LEMMA ExtractFacts ==
    ASSUME NEW p, IsFieldMap(p.at), IsFieldMap(p.first), NEW format
    PROVE  IsFieldMap(extract_fields(p, format))
  <1>1. \A w : IsFieldMap(Within(p, w))
    BY WithinFacts
  <1>2. \A f, P : IsFieldMap(f) => IsFieldMap(Restrict(f, {n \in DOMAIN f : n \in P}))
    BY MapFacts
  <1>3. \A f : IsFieldMap(f) => IsFieldMap(NonNull(f)) /\ IsFieldMap(NonEmpty(f))
    BY MapFacts DEF NonNull, NonEmpty
  <1>4. IsFieldMap(Meta(p))
    <2>1. IsFieldMap(Restrict(p.at, MetaNames \cap DOMAIN p.at))
      BY MapFacts
    <2>2. QED
      BY <1>3, <2>1 DEF Meta
  <1>5. IsFieldMap(FieldsOrText(p))
    <2>1. IsFieldMap(RawText(p))
      BY NameFacts, MapFacts, ValFacts DEF RawText, Keys
    <2>2. QED
      BY <1>1, <2>1 DEF FieldsOrText
  <1>6. \A f, g : IsFieldMap(f) /\ IsFieldMap(g) => IsFieldMap(Over(f, g))
    BY MapFacts
  <1>7. IsFieldMap(Nothing)
    BY MapFacts
  <1>8. QED
    BY <1>1, <1>3, <1>4, <1>5, <1>6, <1>7 DEF extract_fields

-----------------------------------------------------------------------------
(* Flattening by shape and by format *)

(* _flat_fields by the shape of the parsed line. *)
LEMMA FlatFacts ==
    ASSUME NEW p, p.is = "dict"
    PROVE  LET T1 == IsDict(p, "fields") /\ {K("message"), K("hostname")} \cap DOMAIN p.at # {}
               T2 == IsDict(p, "extensions")
               T3 == K("leef") \in DOMAIN p.at /\ IsDict(p, "fields")
               T4 == DOMAIN p.at \subseteq {K("fields"), K("text")}
               T5 == K("rows") \in DOMAIN p.at /\ p.at[K("rows")] = Val("rows")
           IN  /\ T1 => _flat_fields(p) = Over(Within(p, "fields"), Meta(p))
               /\ ~T1 /\ T2 =>
                     _flat_fields(p) = Over(Within(p, "extensions"), NonNull(Within(p, "cef")))
               /\ ~T1 /\ ~T2 /\ T3 =>
                     _flat_fields(p) = Over(Within(p, "fields"), NonNull(Within(p, "leef")))
               /\ ~T1 /\ ~T2 /\ ~T3 /\ T4 => _flat_fields(p) = FieldsOrText(p)
               /\ ~T1 /\ ~T2 /\ ~T3 /\ ~T4 /\ T5 => _flat_fields(p) = p.first
               /\ ~T1 /\ ~T2 /\ ~T3 /\ ~T4 /\ ~T5 =>
                     _flat_fields(p) = Restrict(p.at, DOMAIN p.at \ {K("header"), K("rows")})
  <1> DEFINE T1 == IsDict(p, "fields") /\ {K("message"), K("hostname")} \cap DOMAIN p.at # {}
             T2 == IsDict(p, "extensions")
             T3 == K("leef") \in DOMAIN p.at /\ IsDict(p, "fields")
             T4 == DOMAIN p.at \subseteq {K("fields"), K("text")}
             T5 == K("rows") \in DOMAIN p.at /\ p.at[K("rows")] = Val("rows")
             V1 == Over(Within(p, "fields"), Meta(p))
             V2 == Over(Within(p, "extensions"), NonNull(Within(p, "cef")))
             V3 == Over(Within(p, "fields"), NonNull(Within(p, "leef")))
             V4 == FieldsOrText(p)
             V5 == p.first
             V6 == Restrict(p.at, DOMAIN p.at \ {K("header"), K("rows")})
             tests == <<<<T1, V1>>, <<T2, V2>>, <<T3, V3>>, <<T4, V4>>, <<T5, V5>>, <<TRUE, V6>>>>
  <1>1. _flat_fields(p) = FirstOf(tests)
    BY DEF _flat_fields
  <1> SUFFICES /\ T1 => FirstOf(tests) = V1
               /\ ~T1 /\ T2 => FirstOf(tests) = V2
               /\ ~T1 /\ ~T2 /\ T3 => FirstOf(tests) = V3
               /\ ~T1 /\ ~T2 /\ ~T3 /\ T4 => FirstOf(tests) = V4
               /\ ~T1 /\ ~T2 /\ ~T3 /\ ~T4 /\ T5 => FirstOf(tests) = V5
               /\ ~T1 /\ ~T2 /\ ~T3 /\ ~T4 /\ ~T5 => FirstOf(tests) = V6
    BY <1>1
  <1> HIDE DEF T1, T2, T3, T4, T5, V1, V2, V3, V4, V5, V6
  <1>2. DOMAIN tests = 1 .. 6
    OBVIOUS
  <1>3. /\ tests[1][1] = T1 /\ tests[2][1] = T2 /\ tests[3][1] = T3
        /\ tests[4][1] = T4 /\ tests[5][1] = T5 /\ tests[6][1]
    BY Zenon
  <1>4. /\ tests[1][2] = V1 /\ tests[2][2] = V2 /\ tests[3][2] = V3
        /\ tests[4][2] = V4 /\ tests[5][2] = V5 /\ tests[6][2] = V6
    OBVIOUS
  <1> HIDE DEF tests
  <1>5. \A k \in 1 .. 6 :
           tests[k][1] /\ (\A j \in 1 .. k - 1 : ~tests[j][1]) => FirstOf(tests) = tests[k][2]
    <2>1. 6 \in Nat
      OBVIOUS
    <2>2. QED
      BY <1>2, <2>1, FirstFacts
  <1>6. /\ T1 => tests[1][1]
        /\ ~T1 => ~tests[1][1]
        /\ T2 => tests[2][1]
        /\ ~T2 => ~tests[2][1]
        /\ T3 => tests[3][1]
        /\ ~T3 => ~tests[3][1]
        /\ T4 => tests[4][1]
        /\ ~T4 => ~tests[4][1]
        /\ T5 => tests[5][1]
        /\ ~T5 => ~tests[5][1]
    BY <1>3, Zenon
  <1>7. ASSUME T1 PROVE FirstOf(tests) = V1
    <2>1. 1 \in 1 .. 6 /\ \A j \in 1 .. 1 - 1 : FALSE
      OBVIOUS
    <2>2. tests[1][1] /\ \A j \in 1 .. 1 - 1 : ~tests[j][1]
      BY <1>3, <1>6, <1>7, <2>1
    <2>3. QED
      BY <1>4, <1>5, <2>1, <2>2
  <1>8. ASSUME ~T1, T2 PROVE FirstOf(tests) = V2
    <2>1. 2 \in 1 .. 6 /\ \A j \in 1 .. 2 - 1 : j = 1
      OBVIOUS
    <2>2. tests[2][1] /\ \A j \in 1 .. 2 - 1 : ~tests[j][1]
      BY <1>3, <1>6, <1>8, <2>1
    <2>3. QED
      BY <1>4, <1>5, <2>1, <2>2
  <1>9. ASSUME ~T1, ~T2, T3 PROVE FirstOf(tests) = V3
    <2>1. 3 \in 1 .. 6 /\ \A j \in 1 .. 3 - 1 : j = 1 \/ j = 2
      OBVIOUS
    <2>2. tests[3][1] /\ \A j \in 1 .. 3 - 1 : ~tests[j][1]
      BY <1>3, <1>6, <1>9, <2>1
    <2>3. QED
      BY <1>4, <1>5, <2>1, <2>2
  <1>10. ASSUME ~T1, ~T2, ~T3, T4 PROVE FirstOf(tests) = V4
    <2>1. 4 \in 1 .. 6 /\ \A j \in 1 .. 4 - 1 : j = 1 \/ j = 2 \/ j = 3
      OBVIOUS
    <2>2. tests[4][1] /\ \A j \in 1 .. 4 - 1 : ~tests[j][1]
      BY <1>3, <1>6, <1>10, <2>1
    <2>3. QED
      BY <1>4, <1>5, <2>1, <2>2
  <1>11. ASSUME ~T1, ~T2, ~T3, ~T4, T5 PROVE FirstOf(tests) = V5
    <2>1. 5 \in 1 .. 6 /\ \A j \in 1 .. 5 - 1 : j = 1 \/ j = 2 \/ j = 3 \/ j = 4
      OBVIOUS
    <2>2. tests[5][1] /\ \A j \in 1 .. 5 - 1 : ~tests[j][1]
      BY <1>3, <1>6, <1>11, <2>1
    <2>3. QED
      BY <1>4, <1>5, <2>1, <2>2
  <1>12. ASSUME ~T1, ~T2, ~T3, ~T4, ~T5 PROVE FirstOf(tests) = V6
    <2>1. 6 \in 1 .. 6 /\ \A j \in 1 .. 6 - 1 : j = 1 \/ j = 2 \/ j = 3 \/ j = 4 \/ j = 5
      OBVIOUS
    <2>2. tests[6][1] /\ \A j \in 1 .. 6 - 1 : ~tests[j][1]
      BY <1>3, <1>6, <1>12, <2>1
    <2>3. QED
      BY <1>4, <1>5, <2>1, <2>2
  <1>13. QED
    BY <1>7, <1>8, <1>9, <1>10, <1>11, <1>12

(* For each format: flattening by the format and by the shape find the     *)
(* same fields.                                                            *)
LEMMA SyslogAgrees ==
    ASSUME NEW l, IsLine(l), Given(l, K("hostname")) # Val(EmptyText)
    PROVE  LET p == parse("syslog", l) IN extract_fields(p, "syslog") = _flat_fields(p)
  <1> DEFINE p == parse("syslog", l)
             N == MetaNames \cap DOMAIN p.at
             M == Restrict(p.at, N)
  <1>1. p.is = "dict" /\ p.at = parse_syslog(l)
    BY DEF parse, Result
  <1>2. extract_fields(p, "syslog") = Over(Within(p, "fields"), NonEmpty(Meta(p)))
    BY DEF extract_fields
  <1>3. /\ IsFieldMap(p.at)
        /\ {K("pri"), K("message"), K("fields")} \subseteq DOMAIN p.at
        /\ IsDictionary(p.at[K("fields")])
        /\ p.at[K("pri")] = Given(l, K("pri"))
        /\ \A w \in {"timestamp", "hostname"} :
              K(w) \in DOMAIN p.at => p.at[K(w)] = Given(l, K(w))
    BY <1>1, SyslogFacts
  <1> HIDE DEF p
  <1>4. _flat_fields(p) = Over(Within(p, "fields"), Meta(p))
    <2>1. IsDict(p, "fields")
      BY <1>3 DEF IsDict
    <2>2. {K("message"), K("hostname")} \cap DOMAIN p.at # {}
      BY <1>3
    <2>3. QED
      BY <1>1, <2>1, <2>2, FlatFacts
  <1>5. \A n \in N : p.at[n] # Val(EmptyText)
    <2>1. \A n \in N : n = K("timestamp") \/ n = K("hostname") \/ n = K("pri")
      BY DEF MetaNames
    <2>2. /\ Given(l, K("timestamp")) # Val(EmptyText)
          /\ Given(l, K("pri")) # Val(EmptyText)
      BY DEF IsLine
    <2>3. QED
      BY <1>3, <2>1, <2>2
  <1>6. NonEmpty(Meta(p)) = Meta(p)
    <2>1. DOMAIN M = N /\ \A n \in N : M[n] = p.at[n]
      BY RestrictFacts
    <2> DEFINE D == {n \in DOMAIN M : M[n] # Missing}
    <2>2. Meta(p) = Restrict(M, D)
      BY DEF Meta, NonNull
    <2>3. DOMAIN Meta(p) = D /\ \A n \in D : Meta(p)[n] = M[n]
      BY <2>2, RestrictFacts
    <2>4. \A n \in D : Meta(p)[n] # Val(EmptyText)
      BY <1>5, <2>1, <2>3
    <2>5. {n \in DOMAIN Meta(p) : Meta(p)[n] # Val(EmptyText)} = D
      BY <2>3, <2>4
    <2>6. NonEmpty(Meta(p)) = Restrict(Meta(p), D)
      BY <2>5 DEF NonEmpty
    <2> HIDE DEF D, M
    <2>7. Restrict(Meta(p), D) = [n \in D |-> M[n]]
      BY <2>3 DEF Restrict
    <2>8. QED
      BY <2>2, <2>6, <2>7 DEF Restrict
  <1>7. QED
    BY <1>2, <1>4, <1>6 DEF p

(* CEF: extensions first, then the header, cut or complete. *)
LEMMA CefAgrees ==
    ASSUME NEW l, IsLine(l)
    PROVE  LET p == parse("cef", l) IN extract_fields(p, "cef") = _flat_fields(p)
  <1> DEFINE p == parse("cef", l)
  <1>1. p.is = "dict" /\ p.at = parse_cef(l)
    BY DEF parse, Result
  <1>2. extract_fields(p, "cef") = Over(Within(p, "extensions"), NonNull(Within(p, "cef")))
    BY DEF extract_fields
  <1>3. PICK v : \E w : p.at = Both("cef", v, "extensions", w) /\ IsDictionary(w)
    <2>1. IsFieldMap(l.body) /\ IsFieldMap(Nothing)
      BY MapFacts DEF IsLine
    <2>2. IsDictionary(parse_key_values(l)) /\ IsDictionary(Dict(Nothing))
      BY <2>1, DictFacts DEF parse_key_values
    <2>3. QED
      BY <1>1, <2>2 DEF parse_cef
  <1>4. PICK w : p.at = Both("cef", v, "extensions", w) /\ IsDictionary(w)
    BY <1>3
  <1> HIDE DEF p
  <1>5. DOMAIN p.at = {K("cef"), K("extensions")} /\ p.at[K("extensions")] = w
    <2>1. "cef" # "extensions"
      OBVIOUS
    <2>2. DOMAIN Both("cef", v, "extensions", w) = {K("cef"), K("extensions")}
      BY <2>1, BothDomain
    <2>3. Both("cef", v, "extensions", w)[K("extensions")] = w
      BY <2>1, BothSecond
    <2>4. QED
      BY <1>4, <2>2, <2>3
  <1>6. K("message") \notin DOMAIN p.at /\ K("hostname") \notin DOMAIN p.at
    BY <1>5, NameFacts
  <1>7. IsDict(p, "extensions")
    BY <1>4, <1>5 DEF IsDict
  <1>8. QED
    BY <1>1, <1>2, <1>6, <1>7, FlatFacts DEF p

(* LEEF: fields first, then the header. *)
LEMMA LeefAgrees ==
    ASSUME NEW l, IsLine(l)
    PROVE  LET p == parse("leef", l) IN extract_fields(p, "leef") = _flat_fields(p)
  <1> DEFINE p == parse("leef", l)
  <1>1. p.is = "dict" /\ p.at = parse_leef(l)
    BY DEF parse, Result
  <1>2. extract_fields(p, "leef") = Over(Within(p, "fields"), NonNull(Within(p, "leef")))
    BY DEF extract_fields
  <1>3. PICK v : \E w : p.at = Both("leef", v, "fields", w) /\ IsDictionary(w)
    <2>1. IsFieldMap(l.body) /\ IsFieldMap(Nothing)
      BY MapFacts DEF IsLine
    <2>2. IsDictionary(parse_key_values(l)) /\ IsDictionary(Dict(Nothing))
      BY <2>1, DictFacts DEF parse_key_values
    <2>3. QED
      BY <1>1, <2>2 DEF parse_leef
  <1>4. PICK w : p.at = Both("leef", v, "fields", w) /\ IsDictionary(w)
    BY <1>3
  <1> HIDE DEF p
  <1>5. DOMAIN p.at = {K("leef"), K("fields")} /\ p.at[K("fields")] = w
    <2>1. "leef" # "fields"
      OBVIOUS
    <2>2. DOMAIN Both("leef", v, "fields", w) = {K("leef"), K("fields")}
      BY <2>1, BothDomain
    <2>3. Both("leef", v, "fields", w)[K("fields")] = w
      BY <2>1, BothSecond
    <2>4. QED
      BY <1>4, <2>2, <2>3
  <1>6. /\ K("message") \notin DOMAIN p.at /\ K("hostname") \notin DOMAIN p.at
        /\ K("extensions") \notin DOMAIN p.at
    BY <1>5, NameFacts
  <1>7. IsDict(p, "fields") /\ ~IsDict(p, "extensions")
    BY <1>4, <1>5, <1>6 DEF IsDict
  <1>8. QED
    BY <1>1, <1>2, <1>5, <1>6, <1>7, FlatFacts DEF p

(* A table: its first row, or nothing. *)
LEMMA CsvAgrees ==
    ASSUME NEW l, IsLine(l), parse("csv", l).is = "dict"
    PROVE  LET p == parse("csv", l) IN extract_fields(p, "csv") = _flat_fields(p)
  <1> DEFINE p == parse("csv", l)
             rows == Val(IF DOMAIN l.body = {} THEN "[]" ELSE "rows")
  <1>1. p = Result("dict", parse_csv(l), l.body)
    BY DEF parse, Failed, Result
  <1>2. p.is = "dict" /\ p.at = parse_csv(l) /\ p.first = l.body
    BY <1>1 DEF Result
  <1>3. extract_fields(p, "csv") = l.body
    BY <1>2 DEF extract_fields
  <1>4. p.at = Both("header", Val("columns"), "rows", rows)
    BY <1>2 DEF parse_csv
  <1>5. DOMAIN l.body = {} => l.body = Nothing
    BY DEF IsLine, IsFieldMap, IsFunction, Nothing
  <1> HIDE DEF p
  <1>6. DOMAIN p.at = {K("header"), K("rows")} /\ p.at[K("rows")] = rows
    <2>1. "header" # "rows"
      OBVIOUS
    <2> HIDE DEF rows
    <2>2. DOMAIN Both("header", Val("columns"), "rows", rows) = {K("header"), K("rows")}
      BY <2>1, BothDomain
    <2>3. Both("header", Val("columns"), "rows", rows)[K("rows")] = rows
      BY <2>1, BothSecond
    <2>4. QED
      BY <1>4, <2>2, <2>3
  <1>7. /\ K("message") \notin DOMAIN p.at /\ K("hostname") \notin DOMAIN p.at
        /\ K("extensions") \notin DOMAIN p.at /\ K("fields") \notin DOMAIN p.at
        /\ ~(DOMAIN p.at \subseteq {K("fields"), K("text")})
    BY <1>6, NameFacts
  <1>8. ~IsDict(p, "fields") /\ ~IsDict(p, "extensions")
    BY <1>7 DEF IsDict
  <1>9. CASE DOMAIN l.body # {}
    <2>1. p.at[K("rows")] = Val("rows") /\ K("rows") \in DOMAIN p.at
      BY <1>6, <1>9
    <2>2. _flat_fields(p) = p.first
      BY <1>2, <1>7, <1>8, <2>1, FlatFacts
    <2>3. QED
      BY <1>2, <1>3, <2>2 DEF p
  <1>10. CASE DOMAIN l.body = {}
    <2>1. p.at[K("rows")] # Val("rows")
      <3>1. rows = Val("[]")
        BY <1>10
      <3>2. Val("[]") # Val("rows")
        BY ValFacts
      <3>3. QED
        BY <1>6, <3>1, <3>2
    <2>2. _flat_fields(p) = Restrict(p.at, DOMAIN p.at \ {K("header"), K("rows")})
      BY <1>2, <1>7, <1>8, <2>1, FlatFacts
    <2>3. DOMAIN p.at \ {K("header"), K("rows")} = {}
      BY <1>6
    <2>4. Restrict(p.at, {}) = Nothing
      BY DEF Restrict, Nothing
    <2>5. QED
      BY <1>3, <1>5, <1>10, <2>2, <2>3, <2>4 DEF p
  <1>11. QED
    BY <1>9, <1>10

(* Plain text: its words, or the text. *)
LEMMA RawAgrees ==
    ASSUME NEW l, IsLine(l)
    PROVE  LET p == parse("raw", l) IN extract_fields(p, "raw") = _flat_fields(p)
  <1> DEFINE p == parse("raw", l)
  <1>1. p.is = "dict" /\ p.at = parse_raw(l)
    BY DEF parse, Result
  <1>2. extract_fields(p, "raw") = FieldsOrText(p)
    BY DEF extract_fields
  <1>3. DOMAIN p.at = {K("fields")} \/ DOMAIN p.at = {K("text")}
    BY <1>1, OneDomain DEF parse_raw
  <1> HIDE DEF p
  <1>4. /\ K("message") \notin DOMAIN p.at /\ K("hostname") \notin DOMAIN p.at
        /\ K("extensions") \notin DOMAIN p.at /\ K("leef") \notin DOMAIN p.at
    BY <1>3, NameFacts
  <1>5. DOMAIN p.at \subseteq {K("fields"), K("text")}
    BY <1>3
  <1>6. ~IsDict(p, "extensions")
    BY <1>4 DEF IsDict
  <1>7. QED
    BY <1>1, <1>2, <1>4, <1>5, <1>6, FlatFacts DEF p

(* A document without the parsers' own keys is flattened to its members. *)
LEMMA DocumentAgrees ==
    ASSUME NEW p, p.is = "dict", IsFieldMap(p.at), ReservedKeys \cap DOMAIN p.at = {}
    PROVE  p.at = _flat_fields(p)
  <1>1. \A w \in {"fields", "text", "extensions", "leef", "rows", "header"} :
           K(w) \notin DOMAIN p.at
    BY DEF ReservedKeys
  <1>2. ~IsDict(p, "fields") /\ ~IsDict(p, "extensions")
    BY <1>1 DEF IsDict
  <1>3. p.at = [n \in DOMAIN p.at |-> p.at[n]]
    BY Zenon DEF IsFieldMap, IsFunction
  <1>4. CASE DOMAIN p.at \subseteq {K("fields"), K("text")}
    <2>1. DOMAIN p.at = {}
      BY <1>1, <1>4
    <2>2. p.at = Nothing
      BY <1>3, <2>1 DEF Nothing
    <2>3. Within(p, "fields") = Nothing /\ RawText(p) = Nothing
      BY <1>1, <1>2 DEF Within, RawText
    <2>4. FieldsOrText(p) = Nothing
      BY <2>3 DEF FieldsOrText
    <2>5. QED
      BY <1>1, <1>2, <1>4, <2>2, <2>4, FlatFacts
  <1>5. CASE ~(DOMAIN p.at \subseteq {K("fields"), K("text")})
    <2>1. _flat_fields(p) = Restrict(p.at, DOMAIN p.at \ {K("header"), K("rows")})
      BY <1>1, <1>2, <1>5, FlatFacts
    <2>2. DOMAIN p.at \ {K("header"), K("rows")} = DOMAIN p.at
      BY <1>1
    <2>3. QED
      BY <1>3, <2>1, <2>2 DEF Restrict
  <1>6. QED
    BY <1>4, <1>5

(* The same for a line of any format. *)
LEMMA LineAgrees ==
    ASSUME NEW l, IsLine(l), NEW format \in Formats,
           parse(format, l).is = "dict", Given(l, K("hostname")) # Val(EmptyText),
           ~(format \in {"json", "xml"} /\ ReservedKeys \cap DOMAIN parse(format, l).at # {})
    PROVE  extract_fields(parse(format, l), format) = _flat_fields(parse(format, l))
  <1>1. CASE format \in {"json", "xml"}
    <2> DEFINE p == parse(format, l)
    <2>1. IsFieldMap(p.at)
      BY ParsedFacts
    <2> HIDE DEF p
    <2>2. extract_fields(p, format) = p.at
      BY <1>1 DEF extract_fields, p
    <2>3. QED
      BY <1>1, <2>1, <2>2, DocumentAgrees DEF p
  <1>2. CASE format = "unknown"
    BY <1>2 DEF parse, Result
  <1>3. CASE format \in {"csv", "syslog", "cef", "leef", "raw"}
    BY <1>3, CsvAgrees, SyslogAgrees, CefAgrees, LeefAgrees, RawAgrees
  <1>4. QED
    BY <1>1, <1>2, <1>3 DEF Formats

-----------------------------------------------------------------------------
(* Versions of a mapping *)

(* Kept goes through the places one after the other. *)
LEMMA KeptStages ==
    ASSUME NEW s, NEW D, Len(s) \in Nat
    PROVE  \E kept :
              /\ kept[0] = <<>>
              /\ \A k \in 1 .. Len(s) :
                    kept[k] = IF k \in D THEN Append(kept[k - 1], s[k]) ELSE kept[k - 1]
              /\ Kept(s, D) = kept[Len(s)]
  <1> DEFINE N == Len(s)
             After(u, k) == IF k \in D THEN Append(u, s[k]) ELSE u
             Upto(g, n) == g[0] = <<>> /\ \A k \in 1 .. n : g[k] = After(g[k - 1], k)
             S == {n \in 0 .. N : \E g : Upto(g, n)}
             C == CHOOSE g : g = [k \in 0 .. N |->
                      IF k = 0 THEN <<>>
                      ELSE IF k \in D THEN Append(g[k - 1], s[k]) ELSE g[k - 1]]
  <1>1. Kept(s, D) = C[N]
    BY DEF Kept
  <1> HIDE DEF C
  <1>2. \A g, n : n \in 0 .. N /\ Upto(g, n) /\ n < N => \E h : Upto(h, n + 1)
    <2> SUFFICES ASSUME NEW g, NEW n \in 0 .. N, Upto(g, n), n < N PROVE \E h : Upto(h, n + 1)
      OBVIOUS
    <2> DEFINE h == [k \in 0 .. N |-> IF k = n + 1 THEN After(g[n], n + 1) ELSE g[k]]
    <2> HIDE DEF After
    <2>1. h[0] = <<>> /\ h[n + 1] = After(g[n], n + 1) /\ \A k \in 0 .. n : h[k] = g[k]
      OBVIOUS
    <2> HIDE DEF h
    <2>2. ASSUME NEW k \in 1 .. n + 1 PROVE h[k] = After(h[k - 1], k)
      <3>1. CASE k = n + 1
        <4>1. k - 1 = n /\ n \in 0 .. n
          BY <3>1
        <4>2. QED
          BY <2>1, <3>1, <4>1
      <3>2. CASE k # n + 1
        <4>1. k \in 1 .. n /\ k \in 0 .. n /\ k - 1 \in 0 .. n
          BY <3>2
        <4>2. QED
          BY <2>1, <4>1
      <3>3. QED
        BY <3>1, <3>2
    <2>3. QED
      BY <2>1, <2>2
  <1>3. 0 \in S
    <2>1. Upto([k \in 0 .. N |-> <<>>], 0)
      OBVIOUS
    <2> HIDE DEF Upto
    <2>2. \E g : Upto(g, 0)
      BY <2>1
    <2>3. QED
      BY <2>2
  <1> HIDE DEF Upto
  <1>4. \A k \in 0 .. N : k \in S /\ k < N => k + 1 \in S
    BY <1>2
  <1> HIDE DEF S
  <1>5. N \in S
    <2>1. \A k \in 0 .. N : k \in S
      BY <1>3, <1>4, CountUp
    <2>2. QED
      BY <2>1
  <1>6. PICK g : Upto(g, N)
    BY <1>5 DEF S
  <1> DEFINE w == [k \in 0 .. N |-> g[k]]
  <1>7. w[0] = <<>> /\ \A k \in 1 .. N : w[k] = After(w[k - 1], k)
    <2> HIDE DEF After
    <2>1. \A k \in 0 .. N : w[k] = g[k]
      OBVIOUS
    <2>2. g[0] = <<>> /\ \A k \in 1 .. N : g[k] = After(g[k - 1], k)
      BY <1>6 DEF Upto
    <2>3. \A k \in 1 .. N : k \in 0 .. N /\ k - 1 \in 0 .. N
      OBVIOUS
    <2>4. 0 \in 0 .. N
      OBVIOUS
    <2> HIDE DEF w
    <2>5. QED
      BY <2>1, <2>2, <2>3, <2>4
  <1>8. w = [k \in 0 .. N |-> IF k = 0 THEN <<>> ELSE After(w[k - 1], k)]
    <2> HIDE DEF After
    <2>1. \A k \in 0 .. N : k # 0 => k \in 1 .. N
      OBVIOUS
    <2>2. w = [k \in 0 .. N |-> w[k]]
      OBVIOUS
    <2> HIDE DEF w
    <2>3. QED
      BY <1>7, <2>1, <2>2
  <1> HIDE DEF w
  <1>9. C = [k \in 0 .. N |-> IF k = 0 THEN <<>> ELSE After(C[k - 1], k)]
    BY <1>8, Zenon DEF C
  <1>10. C[0] = <<>> /\ \A k \in 1 .. N : C[k] = After(C[k - 1], k)
    <2> HIDE DEF After
    <2>1. \A k \in 0 .. N : C[k] = IF k = 0 THEN <<>> ELSE After(C[k - 1], k)
      BY <1>9, Zenon
    <2>2. \A k \in 1 .. N : k \in 0 .. N /\ k # 0
      OBVIOUS
    <2>3. QED
      BY <2>1, <2>2
  <1>11. QED
    BY <1>1, <1>10

(* The elements Kept takes are those at the places. *)
LEMMA KeptFacts ==
    ASSUME NEW S, NEW s, NEW D, Len(s) \in Nat, \A k \in 1 .. Len(s) : k \in D => s[k] \in S
    PROVE  Kept(s, D) \in Seq(S)
  <1> DEFINE N == Len(s)
  <1>1. N \in Nat /\ \A k \in 1 .. N : k \in D => s[k] \in S
    OBVIOUS
  <1>2. PICK g : /\ g[0] = <<>>
                 /\ \A k \in 1 .. N :
                       g[k] = IF k \in D THEN Append(g[k - 1], s[k]) ELSE g[k - 1]
                 /\ Kept(s, D) = g[N]
    BY <1>1, KeptStages
  <1> DEFINE T == {n \in 0 .. N : g[n] \in Seq(S)}
  <1> HIDE DEF N
  <1>3. 0 \in T
    <2>1. 0 \in 0 .. N
      BY <1>1
    <2>2. g[0] \in Seq(S)
      BY <1>2
    <2>3. QED
      BY <2>1, <2>2
  <1>4. ASSUME NEW k \in 0 .. N, k \in T, k < N PROVE k + 1 \in T
    <2>1. k + 1 \in 1 .. N /\ k + 1 \in 0 .. N /\ (k + 1) - 1 = k
      BY <1>1, <1>4
    <2>2. g[k + 1] = IF k + 1 \in D THEN Append(g[k], s[k + 1]) ELSE g[k]
      BY <1>2, <2>1
    <2>3. g[k] \in Seq(S) /\ (k + 1 \in D => s[k + 1] \in S)
      BY <1>1, <1>4, <2>1
    <2>4. g[k + 1] \in Seq(S)
      BY <2>2, <2>3
    <2>5. QED
      BY <2>1, <2>4
  <1> HIDE DEF T
  <1>5. \A k \in 0 .. N : k \in T
    BY <1>1, <1>3, <1>4, CountUp
  <1>6. N \in T
    BY <1>1, <1>5
  <1>7. QED
    BY <1>2, <1>6 DEF T

(* A sequence is one over its own elements. *)
LEMMA OwnRange ==
    ASSUME NEW S, NEW s \in Seq(S)
    PROVE  s \in Seq(Range(s)) /\ Range(s) \subseteq S
  <1>1. DOMAIN s = 1 .. Len(s) /\ Len(s) \in Nat /\ \A k \in 1 .. Len(s) : s[k] \in S
    OBVIOUS
  <1>2. \A k \in 1 .. Len(s) : s[k] \in Range(s)
    BY <1>1 DEF Range
  <1>3. Range(s) \subseteq S
    BY <1>1 DEF Range
  <1> DEFINE R == Range(s)
  <1> HIDE DEF R
  <1>4. s = [k \in 1 .. Len(s) |-> s[k]]
    BY <1>1
  <1>5. s \in [1 .. Len(s) -> R]
    BY <1>2, <1>4 DEF R
  <1>6. s \in Seq(R)
    BY <1>1, <1>5
  <1>7. QED
    BY <1>3, <1>6 DEF R

(* Fields with a name and a path make a mapping. *)
LEMMA JoinIsMapping ==
    ASSUME NEW S, NEW a \in Seq(S), NEW b \in Seq(S),
           \A x \in S : {x.input, x.semantic} \subseteq Path \ {NoPath}
    PROVE  IsMapping(a \o b)
  <1> DEFINE m == a \o b
  <1>1. m \in Seq(S)
    OBVIOUS
  <1> HIDE DEF m
  <1>2. m \in Seq(Range(m)) /\ \A k \in DOMAIN m : m[k] \in S
    BY <1>1, OwnRange
  <1>3. IsMapping(m)
    BY <1>2 DEF IsMapping
  <1>4. QED
    BY <1>3 DEF m

(* The version that names and paths give is a mapping. *)
LEMMA VersionIsMapping ==
    ASSUME NEW m, IsMapping(m), NEW S, IsFiniteSet(S), S \subseteq Path \ {NoPath},
           NEW names \in Orders(S), NEW path, \A n \in S : path[n] \in Path
    PROVE  IsMapping(_create_versioned_mapping(m, names, path))
  <1> DEFINE N == Cardinality(S)
             fields == [k \in DOMAIN names |-> Field(names[k], path[names[k]])]
             D == {k \in DOMAIN names : path[names[k]] # NoPath}
             E == {k \in DOMAIN m : m[k].input \notin Range(names)}
             F == {fields[k] : k \in D}
             T == Range(m) \cup F
  <1>1. N \in Nat
    BY FS_CardinalityType
  <1>2. DOMAIN names = 1 .. N /\ \A k \in 1 .. N : names[k] \in S
    BY DEF Orders, Injection
  <1>3. \A k \in 1 .. N : fields[k] = Field(names[k], path[names[k]])
    BY <1>2
  <1>4. \A x \in T : {x.input, x.semantic} \subseteq Path \ {NoPath}
    <2>1. \A x \in Range(m) : {x.input, x.semantic} \subseteq Path \ {NoPath}
      BY DEF IsMapping, Range
    <2>2. ASSUME NEW k \in D PROVE {fields[k].input, fields[k].semantic} \subseteq Path \ {NoPath}
      <3>1. k \in 1 .. N /\ path[names[k]] # NoPath
        BY <1>2
      <3>2. names[k] \in S /\ path[names[k]] \in Path
        BY <1>2, <3>1
      <3>3. fields[k].input = names[k] /\ fields[k].semantic = path[names[k]]
        BY <1>3, <3>1 DEF Field
      <3>4. QED
        BY <3>1, <3>2, <3>3
    <2> HIDE DEF D, fields
    <2>3. QED
      BY <2>1, <2>2
  <1>5. Kept(m, E) \in Seq(T)
    <2>1. m \in Seq(Range(m))
      BY DEF IsMapping
    <2>2. Len(m) \in Nat /\ \A k \in 1 .. Len(m) : m[k] \in Range(m)
      BY <2>1
    <2> HIDE DEF E, F
    <2>3. \A k \in 1 .. Len(m) : k \in E => m[k] \in T
      BY <2>2
    <2> HIDE DEF T
    <2>4. QED
      BY <2>2, <2>3, KeptFacts
  <1>6. Kept(fields, D) \in Seq(T)
    <2>1. Len(fields) = N
      BY <1>1, <1>2
    <2>2. \A k \in 1 .. N : k \in D => fields[k] \in T
      OBVIOUS
    <2> HIDE DEF fields, D, E, F, T
    <2>3. QED
      BY <1>1, <2>1, <2>2, KeptFacts
  <1>7. _create_versioned_mapping(m, names, path) = Kept(m, E) \o Kept(fields, D)
    BY DEF _create_versioned_mapping
  <1> HIDE DEF fields, D, E, F, T
  <1>8. IsMapping(Kept(m, E) \o Kept(fields, D))
    BY <1>4, <1>5, <1>6, JoinIsMapping
  <1>9. QED
    BY <1>7, <1>8

(* A row holds the line and hint it was computed from, and the mapping it  *)
(* was computed with, or is as without a mapping.                          *)
LEMMA ComputeFacts ==
    ASSUME NEW l, NEW h, NEW m, NEW p, _compute(l, h, m, p) # Raised
    PROVE  LET r == _compute(l, h, m, p)
           IN  /\ r.line = l /\ r.hint = h
               /\ r.used = m \/ r.used = <<>>
               /\ r = _compute(l, h, r.used, p)
               /\ r.asked = {} \/ r.asked \subseteq DOMAIN Fields(l, h)
  <1> DEFINE format == detect_format(l, h)
             parsed == parse(format, l)
             f == extract_fields(parsed, format)
             new == detect_drift(f, m)
             held == Row(l, h, format, parsed, "quarantined")
             r == _compute(l, h, m, p)
             Goal == /\ r.line = l /\ r.hint = h
                     /\ r.used = m \/ r.used = <<>>
                     /\ r = _compute(l, h, r.used, p)
                     /\ r.asked = {} \/ r.asked \subseteq DOMAIN Fields(l, h)
  <1>1. ASSUME parsed.is = "failed" PROVE Goal
    <2> DEFINE q == Row(l, h, format, Result("none", Nothing, Nothing), "dlq")
    <2>1. q.line = l /\ q.hint = h /\ q.used = <<>> /\ q.asked = {}
      BY DEF Row
    <2>2. r = q
      BY <1>1 DEF _compute
    <2>3. _compute(l, h, <<>>, p) = q
      BY <1>1 DEF _compute
    <2> HIDE DEF r, q
    <2>4. QED
      BY <2>1, <2>2, <2>3
  <1>2. ASSUME parsed.is # "failed", parsed.is = "none" \/ m = <<>> PROVE Goal
    <2>1. held.line = l /\ held.hint = h /\ held.used = <<>> /\ held.asked = {}
      BY DEF Row
    <2>2. r = held
      BY <1>2 DEF _compute
    <2>3. _compute(l, h, <<>>, p) = held
      BY <1>2 DEF _compute
    <2> HIDE DEF r, held
    <2>4. QED
      BY <2>1, <2>2, <2>3
  <1>3. ASSUME parsed.is # "failed", parsed.is # "none", m # <<>>, new # {} PROVE Goal
    <2> DEFINE q == [held EXCEPT !.asked = new, !.used = m]
    <2>1. q.line = l /\ q.hint = h /\ q.used = m /\ q.asked = new
      BY DEF Row
    <2>2. r = q
      BY <1>3 DEF _compute
    <2>3. new \subseteq DOMAIN Fields(l, h)
      BY DEF detect_drift, meaningful_fields, Fields
    <2> HIDE DEF q, new
    <2>4. q = _compute(l, h, m, p)
      BY <2>2
    <2> HIDE DEF r
    <2>5. QED
      BY <2>1, <2>2, <2>3, <2>4
  <1>4. ASSUME parsed.is # "failed", parsed.is # "none", m # <<>>, new = {} PROVE Goal
    <2>1. r = Normalized(held, f, m, p)
      BY <1>4 DEF _compute
    <2>2. r # Raised
      OBVIOUS
    <2> DEFINE result == apply_mapping_with_provenance(f, m)
               out == apply_output_profile(result.at, p)
               q == [held EXCEPT !.status = IF p.bound THEN "output" ELSE "normalized",
                                 !.normalized = [some |-> TRUE, at |-> result.at],
                                 !.by = result.by, !.used = m,
                                 !.output = IF p.bound THEN [some |-> TRUE, at |-> out.at]
                                            ELSE None]
    <2>3. r = q
      BY <2>1, <2>2 DEF Normalized
    <2> HIDE DEF result, out
    <2>4. q.line = l /\ q.hint = h /\ q.used = m /\ q.asked = {}
      BY DEF Row
    <2> HIDE DEF q
    <2>5. q = _compute(l, h, m, p)
      BY <2>3
    <2> HIDE DEF r
    <2>6. QED
      BY <2>3, <2>4, <2>5
  <1>5. Goal
    BY <1>1, <1>2, <1>3, <1>4
  <1>6. QED
    BY <1>5

-----------------------------------------------------------------------------
(* Rows *)

(* The inductive invariant: the row is what _compute gives for its line,   *)
(* its hint and the mapping it was computed with.  (The mapping and the    *)
(* profile of the source have moved on since.)                             *)
Bindable == Profiles \cup {NoProfile}
Computed(r) ==
    /\ r.line \in Lines /\ r.hint \in Hints \cup {NoHint}
    /\ IsMapping(r.used)
    /\ \E p \in Bindable : r = _compute(r.line, r.hint, r.used, p)
Sound(r) == r = NoRow \/ (r # Raised /\ Computed(r))
IInv == IsMapping(mapping) /\ profile \in Bindable /\ Sound(row)

(* No fields are a mapping. *)
LEMMA EmptyIsMapping == IsMapping(<<>>)
  <1>1. <<>> \in Seq(Range(<<>>)) /\ DOMAIN <<>> = {}
    OBVIOUS
  <1>2. QED
    BY <1>1 DEF IsMapping

(* Processing a line again stores what _compute gives for it, or leaves    *)
(* the row.                                                                *)
LEMMA StoredIsSound ==
    ASSUME NEW r, Sound(r), NEW l \in Lines, NEW h \in Hints \cup {NoHint},
           NEW m, IsMapping(m), NEW p \in Bindable
    PROVE  Sound(Stored(r, _compute(l, h, m, p)))
  <1> DEFINE c == _compute(l, h, m, p)
  <1>1. CASE c = Raised
    BY <1>1 DEF Stored
  <1>2. CASE c # Raised
    <2>1. /\ c.line = l /\ c.hint = h
          /\ c.used = m \/ c.used = <<>>
          /\ c = _compute(l, h, c.used, p)
      BY <1>2, ComputeFacts
    <2> HIDE DEF c
    <2>2. IsMapping(c.used)
      BY <2>1, EmptyIsMapping
    <2>3. Computed(c)
      BY <2>1, <2>2 DEF Computed
    <2>4. QED
      BY <1>2, <2>3 DEF Sound, Stored, c
  <1>3. QED
    BY <1>1, <1>2

(* The names that fields may have are finitely many. *)
LEMMA NamesArePaths == IsFiniteSet(Names) /\ Names \subseteq Path \ {NoPath}
  <1>1. ASSUME NEW l \in Lines, NEW h \in Hints \cup {NoHint}
        PROVE  IsFieldMap(Fields(l, h))
    <2>1. IsLine(l) /\ h \in Formats \cup {NoHint}
      BY LineAssumption, HintAssumption
    <2>2. detect_format(l, h) \in Formats
      BY <2>1, DetectFacts
    <2>3. /\ IsFieldMap(parse(detect_format(l, h), l).at)
          /\ IsFieldMap(parse(detect_format(l, h), l).first)
      BY <2>1, <2>2, ParsedFacts
    <2>4. QED
      BY <2>3, ExtractFacts DEF Fields
  <1>2. QED
    BY <1>1, NameAssumption DEF Names, IsFieldMap

(* What a held row asks for are names of fields. *)
LEMMA AskedFacts ==
    ASSUME Sound(row), IsAsked
    PROVE  /\ row.line \in Lines /\ IsMapping(row.used)
           /\ row.asked \subseteq Names
  <1>1. row # Raised /\ Computed(row)
    BY DEF Sound, IsAsked, IsHeld
  <1>2. PICK p \in Bindable : row = _compute(row.line, row.hint, row.used, p)
    BY <1>1 DEF Computed
  <1>3. row.asked = {} \/ row.asked \subseteq DOMAIN Fields(row.line, row.hint)
    BY <1>1, <1>2, ComputeFacts
  <1>4. QED
    BY <1>1, <1>3 DEF Computed, Names

(* Publishing a mapping keeps the invariant. *)
LEMMA PublishFacts ==
    ASSUME IInv, IsAsked, NEW m, IsMapping(m), Publish(m)
    PROVE  IInv'
  <1>1. row.line \in Lines
    BY AskedFacts DEF IInv
  <1>2. mapping' = m /\ profile' = profile
        /\ row' = Stored(row, _compute(row.line, NoHint, m, profile))
    BY DEF Publish, Reprocessed
  <1>3. Sound(row')
    BY <1>1, <1>2, StoredIsSound DEF IInv
  <1>4. QED
    BY <1>2, <1>3 DEF IInv

(* The invariant holds initially ... *)
LEMMA RecordInit == Init => IInv
  BY EmptyIsMapping DEF Init, IInv, Sound, Bindable

(* ... and each step keeps it. *)
LEMMA RecordStep == IInv /\ [Next]_vars => IInv'
  <1> SUFFICES ASSUME IInv, [Next]_vars PROVE IInv'
    OBVIOUS
  <1>1. IsMapping(mapping) /\ profile \in Bindable /\ Sound(row)
    BY DEF IInv
  <1>2. ASSUME NEW c \in Contents, process_batch(c) PROVE IInv'
    <2>1. PICK k \in DOMAIN split_batch_content(c) :
             row' = Stored(row, _compute(split_batch_content(c)[k], NoHint, mapping, profile))
      BY <1>2 DEF process_batch
    <2>2. split_batch_content(c)[k] \in Lines
      BY DEF Lines, LinesOf, Range
    <2>3. Sound(row')
      BY <1>1, <2>1, <2>2, StoredIsSound
    <2>4. QED
      BY <1>1, <1>2, <2>3 DEF process_batch, IInv
  <1>3. ASSUME NEW c \in Contents, NEW h \in Hints, ingest(c, h) PROVE IInv'
    <2>1. row' = Stored(row, _compute(c.whole, h, mapping, profile))
      BY <1>3 DEF ingest
    <2>2. c.whole \in Lines
      BY DEF Lines, LinesOf
    <2>3. Sound(row')
      BY <1>1, <2>1, <2>2, StoredIsSound
    <2>4. QED
      BY <1>1, <1>3, <2>3 DEF ingest, IInv
  <1>4. row # NoRow => row.line \in Lines
    BY <1>1 DEF Sound, Computed
  <1>5. ASSUME retry_event PROVE IInv'
    <2>1. row' = Stored(row, _compute(row.line, NoHint, mapping, profile)) /\ row # NoRow
      BY <1>5 DEF retry_event, Reprocessed
    <2>2. Sound(row')
      BY <1>1, <1>4, <2>1, StoredIsSound
    <2>3. QED
      BY <1>1, <1>5, <2>2 DEF retry_event, IInv
  <1>6. ASSUME approve_onboarding PROVE IInv'
    <2>1. IsMapping(mapping')
      BY <1>6, MappingAssumption DEF approve_onboarding
    <2>2. CASE IsHeld
      <3>1. row' = Stored(row, _compute(row.line, NoHint, mapping', profile)) /\ row # NoRow
        BY <1>6, <2>2 DEF approve_onboarding, Reprocessed, IsHeld
      <3>2. Sound(row')
        BY <1>1, <1>4, <2>1, <3>1, StoredIsSound
      <3>3. QED
        BY <1>1, <1>6, <2>1, <3>2 DEF approve_onboarding, IInv
    <2>3. CASE ~IsHeld
      BY <1>1, <1>6, <2>1, <2>3 DEF approve_onboarding, IInv
    <2>4. QED
      BY <2>2, <2>3
  <1>7. ASSUME approve_drift PROVE IInv'
    <2> DEFINE A == row.asked
               missing == Inputs(row.used)
                             \ meaningful_fields(extract_fields(row.parsed, row.format))
    <2>1. IsAsked /\ A \subseteq Names /\ IsMapping(row.used)
      BY <1>1, <1>7, AskedFacts DEF approve_drift
    <2>2. IsFiniteSet(A) /\ A \subseteq Path \ {NoPath}
      BY <2>1, NamesArePaths, FS_Subset
    <2>3. PICK path \in [A -> UNION {Suggested(n, row.used, missing) : n \in A}] :
             /\ \A n \in A : path[n] \in Suggested(n, row.used, missing)
             /\ \E names \in Orders(A) : Publish(_create_versioned_mapping(row.used, names, path))
      BY <1>7 DEF approve_drift
    <2>4. PICK names \in Orders(A) : Publish(_create_versioned_mapping(row.used, names, path))
      BY <2>3
    <2>5. ASSUME NEW n \in A PROVE path[n] \in Path
      <3>1. Keyword[n] \in Path /\ Remembered[n] \in Path
        BY <2>1, NameAssumption
      <3>2. \A k \in DOMAIN row.used : row.used[k].semantic \in Path
        BY <2>1 DEF IsMapping
      <3>3. Suggested(n, row.used, missing) \subseteq Path
        BY <3>1, <3>2 DEF Suggested
      <3>4. QED
        BY <2>3, <3>3
    <2> HIDE DEF A
    <2>6. IsMapping(_create_versioned_mapping(row.used, names, path))
      BY <2>1, <2>2, <2>5, VersionIsMapping
    <2>7. QED
      BY <2>1, <2>4, <2>6, PublishFacts
  <1>8. ASSUME correct_drift PROVE IInv'
    <2>1. IsAsked /\ row.asked \subseteq Names /\ IsMapping(row.used)
      BY <1>1, <1>8, AskedFacts DEF correct_drift
    <2>2. PICK given \in (SUBSET row.asked) \ {{}} :
             \E path \in [given -> UNION {Taught[n] : n \in given}] :
                /\ \A n \in given : path[n] \in Taught[n]
                /\ \E names \in Orders(given) :
                      Publish(_create_versioned_mapping(row.used, names, path))
      BY <1>8 DEF correct_drift
    <2>3. PICK path \in [given -> UNION {Taught[n] : n \in given}] :
             /\ \A n \in given : path[n] \in Taught[n]
             /\ \E names \in Orders(given) :
                   Publish(_create_versioned_mapping(row.used, names, path))
      BY <2>2
    <2>4. PICK names \in Orders(given) :
             Publish(_create_versioned_mapping(row.used, names, path))
      BY <2>3
    <2>5. IsFiniteSet(given) /\ given \subseteq Names
      BY <2>1, NamesArePaths, FS_Subset
    <2>6. \A n \in given : path[n] \in Path
      BY <2>3, <2>5, NameAssumption
    <2>7. IsMapping(_create_versioned_mapping(row.used, names, path))
      BY <2>1, <2>5, <2>6, NamesArePaths, VersionIsMapping
    <2>8. QED
      BY <2>1, <2>4, <2>7, PublishFacts
  <1>9. ASSUME bind_profile PROVE IInv'
    BY <1>1, <1>9 DEF bind_profile, IInv, Bindable
  <1>10. ASSUME UNCHANGED vars PROVE IInv'
    BY <1>1, <1>10 DEF vars, IInv
  <1>11. QED
    BY <1>2, <1>3, <1>5, <1>6, <1>7, <1>8, <1>9, <1>10 DEF Next

(* The invariant holds in every state. *)
LEMMA RecordInvariant == Spec => []IInv
  BY RecordInit, RecordStep, PTL DEF Spec

(* What a row shows of its line: it is as parsed, or failed; and past      *)
(* quarantine it is what the mapping gave, with no new fields.             *)
LEMMA RowFacts ==
    ASSUME NEW l, NEW h, NEW m, NEW p, _compute(l, h, m, p) # Raised,
           NEW row0, row0 = _compute(l, h, m, p)
    PROVE  /\ row0.format = detect_format(l, h)
           /\ row0.parsed = parse(row0.format, l) \/ row0.parsed.is = "none"
           /\ row0.normalized # None =>
                 LET f == extract_fields(row0.parsed, row0.format)
                     result == apply_mapping_with_provenance(f, row0.used)
                 IN  /\ row0.parsed = parse(row0.format, l)
                     /\ row0.normalized = [some |-> TRUE, at |-> result.at]
                     /\ detect_drift(f, row0.used) = {} /\ result.ok
                     /\ row0.by = result.by
  <1> DEFINE format == detect_format(l, h)
             parsed == parse(format, l)
             f == extract_fields(parsed, format)
             new == detect_drift(f, m)
             held == Row(l, h, format, parsed, "quarantined")
             result == apply_mapping_with_provenance(f, m)
             out == apply_output_profile(result.at, p)
             r == _compute(l, h, m, p)
             Goal == /\ r.format = format
                     /\ r.parsed = parsed \/ r.parsed.is = "none"
                     /\ \/ r.normalized = None /\ r.output = None
                        \/ /\ r.parsed = parsed /\ parsed.is # "failed"
                           /\ new = {} /\ result.ok
                           /\ r.used = m /\ r.by = result.by
                           /\ r.normalized = [some |-> TRUE, at |-> result.at]
                           /\ r.output = None \/ r.output = [some |-> TRUE, at |-> out.at]
  <1>1. ASSUME parsed.is = "failed" PROVE Goal
    <2> DEFINE q == Row(l, h, format, Result("none", Nothing, Nothing), "dlq")
    <2>1. q.format = format /\ q.parsed.is = "none" /\ q.normalized = None /\ q.output = None
      BY DEF Row, Result
    <2>2. r = q
      BY <1>1 DEF _compute
    <2> HIDE DEF r, q
    <2>3. QED
      BY <2>1, <2>2
  <1>2. ASSUME parsed.is # "failed", parsed.is = "none" \/ m = <<>> PROVE Goal
    <2>1. /\ held.format = format /\ held.parsed = parsed
          /\ held.normalized = None /\ held.output = None
      BY DEF Row
    <2>2. r = held
      BY <1>2 DEF _compute
    <2> HIDE DEF r, held
    <2>3. QED
      BY <2>1, <2>2
  <1>3. ASSUME parsed.is # "failed", parsed.is # "none", m # <<>>, new # {} PROVE Goal
    <2> DEFINE q == [held EXCEPT !.asked = new, !.used = m]
    <2>1. q.format = format /\ q.parsed = parsed /\ q.normalized = None /\ q.output = None
      BY DEF Row
    <2>2. r = q
      BY <1>3 DEF _compute
    <2> HIDE DEF r, q
    <2>3. QED
      BY <2>1, <2>2
  <1>4. ASSUME parsed.is # "failed", parsed.is # "none", m # <<>>, new = {} PROVE Goal
    <2>1. r = Normalized(held, f, m, p)
      BY <1>4 DEF _compute
    <2>2. r # Raised
      OBVIOUS
    <2> DEFINE q == [held EXCEPT !.status = IF p.bound THEN "output" ELSE "normalized",
                                 !.normalized = [some |-> TRUE, at |-> result.at],
                                 !.by = result.by, !.used = m,
                                 !.output = IF p.bound THEN [some |-> TRUE, at |-> out.at]
                                            ELSE None]
    <2>3. r = q /\ result.ok
      BY <2>1, <2>2 DEF Normalized
    <2> HIDE DEF result, out
    <2>4. /\ q.format = format /\ q.parsed = parsed /\ q.used = m /\ q.by = result.by
          /\ q.normalized = [some |-> TRUE, at |-> result.at]
          /\ q.output = None \/ q.output = [some |-> TRUE, at |-> out.at]
      BY DEF Row
    <2> HIDE DEF q, r
    <2>5. QED
      BY <1>4, <2>3, <2>4
  <1>5. Goal
    BY <1>1, <1>2, <1>3, <1>4
  <1>6. row0 = r
    OBVIOUS
  <1> HIDE DEF r, result, f, new, parsed, format
  <1>7. row0.format = format /\ (row0.parsed = parsed \/ row0.parsed.is = "none")
    BY <1>5, <1>6
  <1>8. row0.normalized # None =>
           /\ row0.parsed = parsed /\ row0.used = m
           /\ new = {} /\ result.ok /\ row0.by = result.by
           /\ row0.normalized = [some |-> TRUE, at |-> result.at]
    BY <1>5, <1>6
  <1>9. QED
    BY <1>7, <1>8 DEF result, f, new, parsed, format

(* The same, one at a time. *)
LEMMA RowFormat ==
    ASSUME NEW l, NEW h, NEW m, NEW p, _compute(l, h, m, p) # Raised,
           NEW row0, row0 = _compute(l, h, m, p)
    PROVE  row0.format = detect_format(l, h)
  BY RowFacts, Zenon

(* A row that was not refused holds what parse gives for its line. *)
LEMMA RowParsed ==
    ASSUME NEW l, NEW h, NEW m, NEW p, _compute(l, h, m, p) # Raised,
           NEW row0, row0 = _compute(l, h, m, p)
    PROVE  row0.parsed = parse(row0.format, l) \/ row0.parsed.is = "none"
  BY RowFacts, Zenon

(* The invariant for the row in view. *)
LEMMA RowIsComputed ==
    ASSUME Sound(row), row # NoRow
    PROVE  /\ row # Raised /\ IsLine(row.line) /\ row.hint \in Formats \cup {NoHint}
           /\ IsMapping(row.used)
           /\ \E p \in Bindable : row = _compute(row.line, row.hint, row.used, p)
  BY LineAssumption, HintAssumption DEF Sound, Computed

(* The pipeline, and the views, groups and shapes, find the same fields in *)
(* every stored row, whatever the lines, mappings and requests.            *)
THEOREM FieldsAgreeTheorem == Spec => []FieldsAgree
  <1>1. IInv => FieldsAgree
    <2> SUFFICES ASSUME IInv, IsRead, Given(row.line, K("hostname")) # Val(EmptyText),
                        ~(/\ row.format \in {"json", "xml"}
                          /\ ReservedKeys \cap DOMAIN row.parsed.at # {})
                 PROVE  FieldMap = _flat_fields(row.parsed)
      BY DEF FieldsAgree
    <2>1. row # NoRow /\ row.parsed.is = "dict" /\ Sound(row)
      BY DEF IsRead, IInv
    <2>2. PICK p \in Bindable : row = _compute(row.line, row.hint, row.used, p)
      BY <2>1, RowIsComputed
    <2>3. row # Raised /\ IsLine(row.line) /\ row.hint \in Formats \cup {NoHint}
      BY <2>1, RowIsComputed
    <2>4. /\ row.format = detect_format(row.line, row.hint)
          /\ row.parsed = parse(row.format, row.line)
      BY <2>1, <2>2, <2>3, RowFormat, RowParsed
    <2>5. row.format \in Formats
      BY <2>3, <2>4, DetectFacts
    <2>6. QED
      BY <2>1, <2>3, <2>4, <2>5, LineAgrees DEF FieldMap
  <1>2. QED
    BY <1>1, RecordInvariant, PTL

-----------------------------------------------------------------------------
(* The mapping engine *)

(* What is found in a tree is a value. *)
LEMMA GetValue ==
    ASSUME NEW v, IsTree(v), NEW p \in Path
    PROVE  IsValue(get_path(v, p))
  <1> DEFINE B == Below(v, p)
             R == {Rest(p, q) : q \in B}
             g == get_path(v, p)
  <1>1. CASE B = {}
    BY <1>1, ValFacts DEF get_path, Missing
  <1>2. CASE B # {}
    <2>1. g = [r \in R |-> v[p \o r]]
      BY <1>2 DEF get_path
    <2>2. \A q \in B : Rest(p, q) \in Path
      BY PrefixSplit DEF Below, IsTree
    <2>3. R # {} /\ R \subseteq Path
      BY <1>2, <2>2
    <2> HIDE DEF R
    <2>4. DOMAIN g = R /\ \A r \in R : g[r] = v[p \o r]
      BY <2>1
    <2>5. IsFunction(g)
      BY <2>1, <2>4, Zenon DEF IsFunction
    <2> HIDE DEF g
    <2>6. IsValue(g)
      BY <2>3, <2>4, <2>5 DEF IsValue
    <2>7. QED
      BY <2>6 DEF g
  <1>3. QED
    BY <1>1, <1>2

(* At the path of no parts the whole value is found. *)
LEMMA GetWhole ==
    ASSUME NEW v, IsValue(v)
    PROVE  get_path(v, NoPath) = v
  <1>1. \A q \in Path : IsPrefix(NoPath, q) /\ Rest(NoPath, q) = q /\ NoPath \o q = q
    <2>1. ASSUME NEW q \in Path PROVE NoPath \o q = q
      BY <2>1 DEF NoPath, Path
    <2>2. QED
      BY <2>1, NameFacts, PrefixJoin
  <1>2. Below(v, NoPath) = DOMAIN v
    BY <1>1 DEF Below, IsValue
  <1>3. {Rest(NoPath, q) : q \in DOMAIN v} = DOMAIN v
    BY <1>1 DEF IsValue
  <1>4. get_path(v, NoPath) = [r \in DOMAIN v |-> v[NoPath \o r]]
    BY <1>2, <1>3 DEF get_path, IsValue
  <1>5. \A r \in DOMAIN v : v[NoPath \o r] = v[r]
    BY <1>1 DEF IsValue
  <1>6. v = [r \in DOMAIN v |-> v[r]]
    BY Zenon DEF IsValue, IsFunction
  <1>7. QED
    BY <1>4, <1>5, <1>6

(* A field without a dot in its name is found as it is. *)
LEMMA LookUp ==
    ASSUME NEW f, IsFieldMap(f), NEW n \in Path \ {NoPath}
    PROVE  /\ IsValue(FieldValue(f, n))
           /\ Len(n) = 1 /\ n \in DOMAIN f => FieldValue(f, n) = f[n]
  <1>1. n \in Seq(STRING) /\ n # <<>>
    BY DEF Path, NoPath
  <1>2. Tail(n) \in Path
    BY <1>1 DEF Path
  <1>3. IsValue(FieldValue(f, n))
    <2>1. CASE K(Head(n)) \in DOMAIN f
      <3>1. IsValue(f[K(Head(n))])
        BY <2>1 DEF IsFieldMap
      <3>2. QED
        BY <1>2, <2>1, <3>1, GetValue DEF FieldValue, IsTree, IsValue
    <2>2. CASE K(Head(n)) \notin DOMAIN f
      BY <2>2, ValFacts DEF FieldValue, Missing
    <2>3. QED
      BY <2>1, <2>2
  <1>4. ASSUME Len(n) = 1, n \in DOMAIN f PROVE FieldValue(f, n) = f[n]
    <2>1. Head(n) = n[1] /\ n[1] \in STRING
      BY <1>1, <1>4
    <2>2. K(Head(n)) = n
      <3>1. \A s \in Seq(STRING) : Len(s) = 1 => s = <<s[1]>>
        OBVIOUS
      <3>2. QED
        BY <1>1, <1>4, <2>1, <3>1 DEF K
    <2>3. Tail(n) = NoPath
      <3>1. Len(Tail(n)) = 0 /\ Tail(n) \in Seq(STRING)
        BY <1>1, <1>4
      <3>2. QED
        BY <3>1, EmptySeq DEF NoPath
    <2>4. IsValue(f[n])
      BY <1>4 DEF IsFieldMap
    <2>5. QED
      BY <1>4, <2>2, <2>3, <2>4, GetWhole DEF FieldValue
  <1>5. QED
    BY <1>3, <1>4

(* A change makes a value of a value. *)
LEMMA TransformFacts ==
    ASSUME NEW v, IsValue(v), NEW change
    PROVE  IsValue(apply_transformation(v, change))
  BY ValFacts DEF apply_transformation

(* The writes of the mapping engine, as ApplyFields lists them. *)
Writes(f, m) ==
    LET value == [k \in DOMAIN m |-> FieldValue(f, m[k].input)]
        placed == {k \in DOMAIN m : value[k] # Missing}
    IN  [k \in DOMAIN m |->
            [some |-> k \in placed, path |-> m[k].semantic,
             value |-> apply_transformation(value[k], m[k].change)]]

(* The places of a mapping. *)
LEMMA MappingDomain ==
    ASSUME NEW m, IsMapping(m)
    PROVE  /\ Len(m) \in Nat /\ DOMAIN m = 1 .. Len(m)
           /\ \A k \in DOMAIN m :
                 m[k].input \in Path \ {NoPath} /\ m[k].semantic \in Path \ {NoPath}
  <1>1. m \in Seq(Range(m))
    BY DEF IsMapping
  <1>2. Len(m) \in Nat /\ DOMAIN m = 1 .. Len(m)
    BY <1>1
  <1>3. QED
    BY <1>2 DEF IsMapping

(* The writes of the mapping engine. *)
LEMMA WritesFacts ==
    ASSUME NEW f, IsFieldMap(f), NEW m, IsMapping(m)
    PROVE  /\ Len(Writes(f, m)) = Len(m)
           /\ \A k \in 1 .. Len(m) :
                 LET value == FieldValue(f, m[k].input)
                     w == Writes(f, m)[k]
                 IN  /\ w.some <=> value # Missing
                     /\ w.path = m[k].semantic /\ w.path \in Path
                     /\ w.value = apply_transformation(value, m[k].change)
                     /\ IsValue(w.value)
  <1> DEFINE W == Writes(f, m)
             value == [k \in DOMAIN m |-> FieldValue(f, m[k].input)]
             placed == {k \in DOMAIN m : value[k] # Missing}
  <1>1. Len(m) \in Nat /\ DOMAIN m = 1 .. Len(m)
    BY MappingDomain
  <1>2. W = [k \in 1 .. Len(m) |->
                [some |-> k \in placed, path |-> m[k].semantic,
                 value |-> apply_transformation(value[k], m[k].change)]]
    BY <1>1 DEF Writes
  <1>3. Len(W) = Len(m)
    BY <1>1, <1>2
  <1>4. ASSUME NEW k \in 1 .. Len(m)
        PROVE  LET v == FieldValue(f, m[k].input)
                   w == W[k]
               IN  /\ w.some <=> v # Missing
                   /\ w.path = m[k].semantic /\ w.path \in Path
                   /\ w.value = apply_transformation(v, m[k].change)
                   /\ IsValue(w.value)
    <2>1. m[k].input \in Path \ {NoPath} /\ m[k].semantic \in Path
      BY <1>1, MappingDomain
    <2>2. value[k] = FieldValue(f, m[k].input) /\ IsValue(value[k])
      BY <1>1, <2>1, LookUp
    <2>3. k \in placed <=> value[k] # Missing
      BY <1>1
    <2>4. IsValue(apply_transformation(value[k], m[k].change))
      BY <2>2, TransformFacts
    <2>5. W[k] = [some |-> k \in placed, path |-> m[k].semantic,
                  value |-> apply_transformation(value[k], m[k].change)]
      BY <1>2
    <2> HIDE DEF W, value, placed
    <2>6. /\ W[k].path = m[k].semantic
          /\ W[k].value = apply_transformation(value[k], m[k].change)
      BY <2>5
    <2>7. W[k].some <=> k \in placed
      <3> DEFINE w == W[k]
                 path == m[k].semantic
                 v == apply_transformation(value[k], m[k].change)
      <3>1. w = [some |-> k \in placed, path |-> path, value |-> v]
        BY <2>5
      <3> HIDE DEF w, path, v
      <3>2. w.some <=> k \in placed
        BY <3>1
      <3>3. QED
        BY <3>2 DEF w
    <2>8. QED
      BY <2>1, <2>2, <2>3, <2>4, <2>6, <2>7
  <1>5. QED
    BY <1>3, <1>4

(* The mapping engine's tree is what its writes make. *)
LEMMA ApplyIsWrite ==
    ASSUME NEW f, IsFieldMap(f), NEW m, IsMapping(m)
    PROVE  LET result == apply_mapping_with_provenance(f, m)
               w == WriteAll(Writes(f, m))
           IN  result.at = w.at /\ (result.ok => w.ok)
  BY DEF apply_mapping_with_provenance, ApplyFields, Writes

(* The leaves of a normalized payload lie below mapped paths; a field no   *)
(* other contends with is found, changed as the mapping says.              *)
LEMMA ApplyFacts ==
    ASSUME NEW f, IsFieldMap(f), NEW m, IsMapping(m)
    PROVE  LET result == apply_mapping_with_provenance(f, m)
           IN  /\ IsTree(result.at)
               /\ \A q \in DOMAIN result.at :
                     \E k \in 1 .. Len(m) : IsPrefix(m[k].semantic, q)
               /\ \A k \in 1 .. Len(m) :
                     result.ok /\ FieldValue(f, m[k].input) # Missing
                     /\ (\A j \in 1 .. Len(m) :
                            Comparable(m[j].semantic, m[k].semantic) => j = k)
                     => get_path(result.at, m[k].semantic)
                           = apply_transformation(FieldValue(f, m[k].input), m[k].change)
  <1> DEFINE result == apply_mapping_with_provenance(f, m)
             W == Writes(f, m)
             w == WriteAll(W)
             N == Len(m)
  <1>1. result.at = w.at /\ (result.ok => w.ok)
    BY ApplyIsWrite
  <1>2. /\ Len(W) = N
        /\ \A k \in 1 .. N :
              /\ W[k].some <=> FieldValue(f, m[k].input) # Missing
              /\ W[k].path = m[k].semantic /\ W[k].path \in Path
              /\ W[k].value = apply_transformation(FieldValue(f, m[k].input), m[k].change)
              /\ IsValue(W[k].value)
    BY WritesFacts
  <1>3. N \in Nat
    BY MappingDomain
  <1> HIDE DEF W
  <1>4. /\ IsTree(w.at)
        /\ \A q \in DOMAIN w.at : \E k \in 1 .. Len(W) : IsPrefix(W[k].path, q)
        /\ \A k \in 1 .. Len(W) :
              w.ok /\ W[k].some
              /\ (\A j \in 1 .. Len(W) : Comparable(W[j].path, W[k].path) => j = k)
              => get_path(w.at, W[k].path) = W[k].value
    <2>1. \A k \in 1 .. Len(W) : W[k].path \in Path /\ IsValue(W[k].value)
      BY <1>2
    <2>2. Len(W) \in Nat
      BY <1>2, <1>3
    <2>3. QED
      BY <2>1, <2>2, WriteFacts
  <1> HIDE DEF result, w, N
  <1>5. \A q \in DOMAIN result.at : \E k \in 1 .. N : IsPrefix(m[k].semantic, q)
    <2> SUFFICES ASSUME NEW q \in DOMAIN result.at
                 PROVE  \E k \in 1 .. N : IsPrefix(m[k].semantic, q)
      OBVIOUS
    <2>1. PICK k \in 1 .. N : IsPrefix(W[k].path, q)
      BY <1>1, <1>2, <1>4
    <2>2. W[k].path = m[k].semantic
      BY <1>2, <2>1
    <2>3. QED
      BY <2>1, <2>2
  <1>6. ASSUME NEW k \in 1 .. N, result.ok, FieldValue(f, m[k].input) # Missing,
               \A j \in 1 .. N : Comparable(m[j].semantic, m[k].semantic) => j = k
        PROVE  get_path(result.at, m[k].semantic)
                  = apply_transformation(FieldValue(f, m[k].input), m[k].change)
    <2>1. W[k].some /\ W[k].path = m[k].semantic
          /\ W[k].value = apply_transformation(FieldValue(f, m[k].input), m[k].change)
      BY <1>2, <1>6
    <2>2. \A j \in 1 .. N : W[j].path = m[j].semantic
      BY <1>2
    <2>3. \A j \in 1 .. N : Comparable(W[j].path, W[k].path) => j = k
      BY <1>6, <2>1, <2>2
    <2>4. get_path(w.at, W[k].path) = W[k].value
      BY <1>1, <1>2, <1>4, <1>6, <2>1, <2>3
    <2>5. QED
      BY <1>1, <2>1, <2>4
  <1>7. QED
    BY <1>1, <1>4, <1>5, <1>6 DEF result, w, N

(* Provenance names the field at a path that no other contends for. *)
LEMMA ByFacts ==
    ASSUME NEW f, IsFieldMap(f), NEW m, IsMapping(m), NEW k \in 1 .. Len(m),
           FieldValue(f, m[k].input) # Missing,
           \A j \in 1 .. Len(m) : Comparable(m[j].semantic, m[k].semantic) => j = k
    PROVE  apply_mapping_with_provenance(f, m).by[m[k].semantic]
              = [input |-> m[k].input, value |-> FieldValue(f, m[k].input)]
  <1> DEFINE D == DOMAIN m
             value == [j \in D |-> FieldValue(f, m[j].input)]
             placed == {j \in D : value[j] # Missing}
             last(p) == Max({j \in placed : m[j].semantic = p})
             by == [p \in {m[j].semantic : j \in placed} |->
                       [input |-> m[last(p)].input, value |-> value[last(p)]]]
             s == m[k].semantic
  <1>1. D = 1 .. Len(m) /\ Len(m) \in Nat /\ \A j \in D : m[j].semantic \in Path
    BY MappingDomain
  <1>2. apply_mapping_with_provenance(f, m).by = by
    BY DEF apply_mapping_with_provenance, ApplyFields
  <1>3. k \in placed /\ value[k] = FieldValue(f, m[k].input)
    BY <1>1
  <1>4. {j \in placed : m[j].semantic = s} = {k}
    <2>1. ASSUME NEW j \in placed, m[j].semantic = s PROVE j = k
      <3>1. j \in 1 .. Len(m) /\ m[j].semantic \in Path
        BY <1>1
      <3>2. Comparable(m[j].semantic, m[k].semantic)
        BY <2>1, <3>1, PrefixOrder DEF Comparable
      <3>3. QED
        BY <3>1, <3>2
    <2> HIDE DEF placed
    <2>2. QED
      BY <1>3, <2>1
  <1>5. last(s) = k
    <2>1. Max({k}) = k
      <3>1. \A x \in Nat : Max({x}) = x
        <4> SUFFICES ASSUME NEW x \in Nat PROVE Max({x}) = x
          OBVIOUS
        <4>1. {x} \in SUBSET Nat /\ {x} # {}
          OBVIOUS
        <4>2. IsFiniteSet({x})
          BY FS_Singleton
        <4>3. Max({x}) \in {x}
          BY <4>1, <4>2, FiniteSetHasMax
        <4>4. QED
          BY <4>3
      <3>2. k \in Nat
        BY <1>1
      <3>3. QED
        BY <3>1, <3>2
    <2>2. QED
      BY <1>4, <2>1
  <1>6. s \in {m[j].semantic : j \in placed}
    BY <1>3
  <1> HIDE DEF placed, last, value
  <1>7. by[s] = [input |-> m[last(s)].input, value |-> value[last(s)]]
    BY <1>6
  <1>8. QED
    BY <1>2, <1>3, <1>5, <1>7

(* The field map of a row. *)
LEMMA FieldMapFacts ==
    ASSUME Sound(row), row # NoRow, row.parsed = parse(row.format, row.line)
    PROVE  IsFieldMap(FieldMap)
  <1>1. PICK p \in Bindable : row = _compute(row.line, row.hint, row.used, p)
    BY RowIsComputed
  <1>2. row # Raised /\ IsLine(row.line) /\ row.hint \in Formats \cup {NoHint}
    BY RowIsComputed
  <1>3. row.format = detect_format(row.line, row.hint)
    BY <1>1, <1>2, RowFormat
  <1>4. row.format \in Formats
    BY <1>2, <1>3, DetectFacts
  <1>5. IsFieldMap(row.parsed.at) /\ IsFieldMap(row.parsed.first)
    BY <1>2, <1>4, ParsedFacts
  <1>6. QED
    BY <1>5, ExtractFacts DEF FieldMap

(* A row past quarantine is what its mapping made of its fields. *)
LEMMA NormalizedFacts ==
    ASSUME Sound(row), row # NoRow, row.normalized.some
    PROVE  LET result == apply_mapping_with_provenance(FieldMap, row.used)
           IN  /\ row.parsed = parse(row.format, row.line)
               /\ IsFieldMap(FieldMap)
               /\ row.normalized = [some |-> TRUE, at |-> result.at]
               /\ detect_drift(FieldMap, row.used) = {} /\ result.ok
               /\ row.by = result.by
  <1> DEFINE result == apply_mapping_with_provenance(FieldMap, row.used)
  <1>1. PICK p \in Bindable : row = _compute(row.line, row.hint, row.used, p)
    BY RowIsComputed
  <1>2. row # Raised
    BY RowIsComputed
  <1>3. row.normalized # None
    BY DEF None
  <1>4. /\ row.parsed = parse(row.format, row.line)
        /\ row.normalized = [some |-> TRUE, at |-> result.at]
        /\ detect_drift(FieldMap, row.used) = {} /\ result.ok
        /\ row.by = result.by
    BY <1>1, <1>2, <1>3, RowFacts DEF FieldMap
  <1>5. QED
    BY <1>4, FieldMapFacts

(* No event gets past quarantine with a field of it lost, whatever         *)
(* versions and corrections its mapping came about by.                     *)
THEOREM NothingIsDroppedTheorem == Spec => []NothingIsDropped
  <1>1. IInv => NothingIsDropped
    <2> DEFINE f == FieldMap
               m == row.used
               result == apply_mapping_with_provenance(f, m)
    <2> SUFFICES ASSUME IInv, IsNormalized, NEW n \in meaningful_fields(f),
                        Len(n) <= 1, f[n] # Missing
                 PROVE  \E k \in DOMAIN m :
                           /\ m[k].input = n
                           /\ \/ \E j \in DOMAIN m \ {k} : Comparable(m[j].semantic, m[k].semantic)
                              \/ /\ get_path(row.normalized.at, m[k].semantic)
                                       = apply_transformation(f[n], m[k].change)
                                 /\ row.by[m[k].semantic] = [input |-> n, value |-> f[n]]
      BY DEF NothingIsDropped
    <2>1. row # NoRow /\ row.normalized.some /\ Sound(row)
      BY DEF IsNormalized, IInv
    <2>2. IsMapping(m)
      BY <2>1, RowIsComputed
    <2>3. /\ IsFieldMap(f)
          /\ row.normalized = [some |-> TRUE, at |-> result.at]
          /\ detect_drift(f, m) = {} /\ result.ok
          /\ row.by = result.by
      BY <2>1, NormalizedFacts
    <2>4. n \in DOMAIN f /\ n \in Path \ {NoPath}
      BY <2>3 DEF meaningful_fields, IsFieldMap
    <2>5. PICK k \in DOMAIN m : m[k].input = n
      BY <2>3 DEF detect_drift, Inputs
    <2>6. DOMAIN m = 1 .. Len(m)
      BY <2>2, MappingDomain
    <2>7. Len(n) = 1
      <3>1. n \in Seq(STRING) /\ n # <<>>
        BY <2>4 DEF Path, NoPath
      <3>2. Len(n) \in Nat /\ Len(n) # 0 /\ Len(n) <= 1
        BY <3>1, EmptySeq
      <3> DEFINE length == Len(n)
      <3> HIDE DEF length
      <3>3. length \in Nat /\ length # 0 /\ length <= 1
        BY <3>2 DEF length
      <3>4. length = 1
        BY <3>3
      <3>5. QED
        BY <3>4 DEF length
    <2> HIDE DEF f, m, result
    <2>8. FieldValue(f, n) = f[n]
      BY <2>3, <2>4, <2>7, LookUp
    <2>9. CASE \E j \in DOMAIN m \ {k} : Comparable(m[j].semantic, m[k].semantic)
      BY <2>5, <2>9
    <2>10. CASE ~\E j \in DOMAIN m \ {k} : Comparable(m[j].semantic, m[k].semantic)
      <3>1. \A j \in 1 .. Len(m) : Comparable(m[j].semantic, m[k].semantic) => j = k
        BY <2>6, <2>10
      <3>2. k \in 1 .. Len(m) /\ FieldValue(f, m[k].input) # Missing
        BY <2>5, <2>6, <2>8
      <3>3. get_path(result.at, m[k].semantic)
               = apply_transformation(FieldValue(f, m[k].input), m[k].change)
        BY <2>2, <2>3, <3>1, <3>2, ApplyFacts DEF result
      <3>4. result.by[m[k].semantic] = [input |-> m[k].input, value |-> FieldValue(f, m[k].input)]
        BY <2>2, <2>3, <3>1, <3>2, ByFacts DEF result
      <3>5. row.normalized.at = result.at
        BY <2>3
      <3>6. QED
        BY <2>3, <2>5, <2>8, <3>3, <3>4, <3>5
    <2>11. QED
      BY <2>9, <2>10
  <1>2. QED
    BY <1>1, RecordInvariant, PTL

-----------------------------------------------------------------------------
(* Rendering *)

(* What is not a dictionary has no fields. *)
LEMMA NotDict ==
    ASSUME NEW l, NEW format \in Formats, parse(format, l).is # "dict"
    PROVE  extract_fields(parse(format, l), format) = Nothing
  <1>1. CASE format \in {"syslog", "cef", "leef", "raw"}
    BY <1>1 DEF parse, Result
  <1>2. CASE format \in {"json", "xml"}
    BY <1>2 DEF extract_fields
  <1>3. CASE format = "csv"
    BY <1>3 DEF extract_fields, parse, Failed, Result
  <1>4. CASE format = "unknown"
    BY <1>4 DEF extract_fields
  <1>5. QED
    BY <1>1, <1>2, <1>3, <1>4 DEF Formats

(* The fields that rendering starts from. *)
Rendered(r) == IF r.parsed.is = "dict" THEN extract_fields(r.parsed, r.format) ELSE Nothing

(* The fields a row is rendered from are those it was normalized from. *)
LEMMA RenderedFacts ==
    ASSUME Sound(row), row # NoRow
    PROVE  IsFieldMap(Rendered(row)) /\ (IsNormalized => Rendered(row) = FieldMap)
  <1>1. PICK p \in Bindable : row = _compute(row.line, row.hint, row.used, p)
    BY RowIsComputed
  <1>2. row # Raised /\ IsLine(row.line) /\ row.hint \in Formats \cup {NoHint}
    BY RowIsComputed
  <1>3. row.format \in Formats
    BY <1>1, <1>2, RowFormat, DetectFacts
  <1>4. row.parsed = parse(row.format, row.line) \/ row.parsed.is = "none"
    BY <1>1, <1>2, RowParsed
  <1>5. CASE row.parsed.is = "dict"
    BY <1>4, <1>5, FieldMapFacts DEF Rendered, FieldMap
  <1>6. CASE row.parsed.is # "dict"
    <2>1. IsNormalized => row.parsed = parse(row.format, row.line)
      BY NormalizedFacts DEF IsNormalized
    <2>2. IsNormalized => FieldMap = Nothing
      BY <1>3, <1>6, <2>1, NotDict DEF FieldMap
    <2>3. QED
      BY <1>6, <2>2, MapFacts DEF Rendered
  <1>7. QED
    BY <1>5, <1>6

(* The slots of a version are its paths. *)
LEMMA SlotsOf ==
    ASSUME NEW m, IsMapping(m)
    PROVE  /\ Len(Semantics(m)) = Len(m) /\ Len(m) \in Nat
           /\ \A k \in 1 .. Len(m) : Semantics(m)[k] = m[k].semantic /\ m[k].semantic \in Path
  <1>1. Len(m) \in Nat /\ DOMAIN m = 1 .. Len(m) /\ \A k \in DOMAIN m : m[k].semantic \in Path
    BY MappingDomain
  <1>2. Semantics(m) = [k \in 1 .. Len(m) |-> m[k].semantic]
    BY <1>1 DEF Semantics
  <1>3. QED
    BY <1>1, <1>2

(* The empty tree. *)
LEMMA EmptyIsTree == IsTree(Nothing)
  BY MapFacts DEF IsTree, IsFieldMap

(* A row rendered through a version has all its slots. *)
LEMMA VersionHasSlots ==
    ASSUME NEW r, IsFieldMap(Rendered(r)), NEW m, IsMapping(m)
    PROVE  /\ IsTree(_render_against_version(r, m))
           /\ \A k \in DOMAIN m : HasSlot(_render_against_version(r, m), m[k].semantic)
  <1> DEFINE result == apply_mapping_with_provenance(Rendered(r), m)
             base == IF result.ok THEN result.at ELSE Nothing
             slots == Semantics(m)
  <1>1. _render_against_version(r, m) = FillGaps(base, slots)
    BY DEF _render_against_version, Rendered
  <1>2. IsTree(result.at)
    BY ApplyFacts
  <1>3. IsTree(base)
    BY <1>2, EmptyIsTree
  <1>4. /\ Len(slots) = Len(m) /\ Len(m) \in Nat
        /\ \A k \in 1 .. Len(m) : slots[k] = m[k].semantic /\ m[k].semantic \in Path
    BY SlotsOf
  <1>5. DOMAIN m = 1 .. Len(m)
    BY MappingDomain
  <1> HIDE DEF base, slots
  <1>6. /\ IsTree(FillGaps(base, slots))
        /\ \A k \in 1 .. Len(m) : HasSlot(FillGaps(base, slots), slots[k])
    <2>1. Len(slots) \in Nat /\ \A k \in 1 .. Len(slots) : slots[k] \in Path
      BY <1>4
    <2>2. /\ IsTree(FillGaps(base, slots))
          /\ \A k \in 1 .. Len(slots) : HasSlot(FillGaps(base, slots), slots[k])
      BY <1>3, <2>1, FillHasSlots
    <2>3. QED
      BY <1>4, <2>2
  <1>7. QED
    BY <1>1, <1>4, <1>5, <1>6

(* The places of a profile. *)
LEMMA ProfileDomain ==
    ASSUME NEW p, IsProfile(p)
    PROVE  /\ Len(p.fields) \in Nat /\ DOMAIN p.fields = 1 .. Len(p.fields)
           /\ \A k \in 1 .. Len(p.fields) :
                 p.fields[k].output \in Path /\ p.fields[k].from \in Path
  <1>1. p.fields \in Seq(Range(p.fields))
    BY DEF IsProfile
  <1>2. Len(p.fields) \in Nat /\ DOMAIN p.fields = 1 .. Len(p.fields)
    BY <1>1
  <1>3. QED
    BY <1>2 DEF IsProfile

(* What a profile makes of a tree is a tree. *)
LEMMA ProfileTree ==
    ASSUME NEW t, IsTree(t), NEW p, IsProfile(p)
    PROVE  IsTree(apply_output_profile(t, p).at)
  <1> DEFINE N == Len(p.fields)
             value == [k \in DOMAIN p.fields |-> get_path(t, p.fields[k].from)]
             W == [k \in DOMAIN p.fields |->
                      [some |-> value[k] # Missing,
                       path |-> p.fields[k].output, value |-> value[k]]]
  <1>1. CASE p.all
    BY <1>1 DEF apply_output_profile
  <1>2. CASE ~p.all
    <2>1. apply_output_profile(t, p) = WriteAll(W)
      BY <1>2 DEF apply_output_profile
    <2>2. /\ N \in Nat /\ DOMAIN p.fields = 1 .. N
          /\ \A k \in 1 .. N : p.fields[k].output \in Path /\ p.fields[k].from \in Path
      BY ProfileDomain
    <2>3. \A k \in 1 .. N : value[k] = get_path(t, p.fields[k].from)
      BY <2>2
    <2>4. \A k \in 1 .. N : IsValue(value[k])
      BY <2>2, <2>3, GetValue
    <2> HIDE DEF value, N
    <2>5. Len(W) = N /\ \A k \in 1 .. N : W[k].path = p.fields[k].output /\ W[k].value = value[k]
      BY <2>2
    <2> HIDE DEF W
    <2>6. Len(W) \in Nat /\ \A k \in 1 .. Len(W) : W[k].path \in Path /\ IsValue(W[k].value)
      BY <2>2, <2>4, <2>5
    <2>7. IsTree(WriteAll(W).at)
      BY <2>6, WriteFacts
    <2>8. QED
      BY <2>1, <2>7
  <1>3. QED
    BY <1>1, <1>2

(* A tree rendered through a profile has all its slots. *)
LEMMA ProfileHasSlots ==
    ASSUME NEW t, IsTree(t), NEW p, IsProfile(p)
    PROVE  \A k \in DOMAIN p.fields : HasSlot(_render_against_profile(t, p), p.fields[k].output)
  <1> DEFINE N == Len(p.fields)
             out == apply_output_profile(t, p)
             base == IF out.ok THEN out.at ELSE Nothing
             slots == [k \in DOMAIN p.fields |-> p.fields[k].output]
  <1>1. _render_against_profile(t, p) = FillGaps(base, slots)
    BY DEF _render_against_profile
  <1>2. IsTree(base)
    BY ProfileTree, EmptyIsTree
  <1>3. /\ N \in Nat /\ DOMAIN p.fields = 1 .. N
        /\ \A k \in 1 .. N : p.fields[k].output \in Path
    BY ProfileDomain
  <1>4. Len(slots) = N /\ \A k \in 1 .. N : slots[k] = p.fields[k].output
    BY <1>3
  <1> HIDE DEF base, slots
  <1>5. Len(slots) \in Nat /\ \A k \in 1 .. Len(slots) : slots[k] \in Path
    BY <1>3, <1>4
  <1>6. \A k \in 1 .. Len(slots) : HasSlot(FillGaps(base, slots), slots[k])
    BY <1>2, <1>5, FillHasSlots
  <1>7. QED
    BY <1>1, <1>3, <1>4, <1>6

(* Through the version it was normalized with, a row gives the stored      *)
(* payload and nulls.                                                      *)
LEMMA OwnVersion ==
    ASSUME Sound(row), IsNormalized, Apart(row.used)
    PROVE  LET t == _render_against_version(row, row.used)
               stored == row.normalized.at
           IN  /\ DOMAIN stored \subseteq DOMAIN t
               /\ \A q \in DOMAIN t :
                     t[q] = IF q \in DOMAIN stored THEN stored[q] ELSE NoValue
  <1> DEFINE m == row.used
             f == FieldMap
             result == apply_mapping_with_provenance(f, m)
             slots == Semantics(m)
             N == Len(m)
  <1>1. row # NoRow /\ row.normalized.some
    BY DEF IsNormalized
  <1>2. IsFieldMap(f) /\ row.normalized = [some |-> TRUE, at |-> result.at] /\ result.ok
    BY <1>1, NormalizedFacts
  <1>3. IsMapping(m)
    BY <1>1, RowIsComputed
  <1>4. Rendered(row) = f
    BY <1>1, RenderedFacts
  <1>5. _render_against_version(row, m) = FillGaps(result.at, slots)
    BY <1>2, <1>4 DEF _render_against_version, Rendered
  <1>6. /\ Len(slots) = N /\ N \in Nat
        /\ \A k \in 1 .. N : slots[k] = m[k].semantic /\ m[k].semantic \in Path
    BY <1>3, SlotsOf
  <1>7. DOMAIN m = 1 .. N
    BY <1>3, MappingDomain
  <1>8. /\ IsTree(result.at)
        /\ \A q \in DOMAIN result.at : \E k \in 1 .. N : IsPrefix(m[k].semantic, q)
    BY <1>2, <1>3, ApplyFacts
  <1>9. \A j, k \in 1 .. N : Comparable(m[j].semantic, m[k].semantic) => j = k
    BY <1>7 DEF Apart
  <1> DEFINE stored == result.at
  <1>10. row.normalized.at = stored
    BY <1>2
  <1> HIDE DEF m, f, slots, N, result, stored
  <1>11. /\ IsTree(stored) /\ Len(slots) \in Nat
         /\ \A k \in 1 .. Len(slots) : slots[k] \in Path
         /\ \A j, k \in 1 .. Len(slots) : Comparable(slots[j], slots[k]) => j = k
    BY <1>6, <1>8, <1>9 DEF stored
  <1>12. \A q \in DOMAIN stored : \E k \in 1 .. Len(slots) : IsPrefix(slots[k], q)
    <2> SUFFICES ASSUME NEW q \in DOMAIN stored
                 PROVE  \E k \in 1 .. Len(slots) : IsPrefix(slots[k], q)
      OBVIOUS
    <2>1. PICK k \in 1 .. N : IsPrefix(m[k].semantic, q)
      BY <1>8 DEF stored
    <2>2. QED
      BY <1>6, <2>1
  <1>13. /\ DOMAIN stored \subseteq DOMAIN FillGaps(stored, slots)
         /\ \A q \in DOMAIN FillGaps(stored, slots) :
               FillGaps(stored, slots)[q] = IF q \in DOMAIN stored THEN stored[q] ELSE NoValue
    BY <1>11, <1>12, FillOnlyNulls
  <1>14. QED
    BY <1>5, <1>10, <1>13 DEF m, stored

(* A row rendered through a mapping version, and through a profile after   *)
(* that, has every slot; through the version it was normalized with, it is *)
(* the stored payload and nulls.                                           *)
THEOREM RerenderTheorem == Spec => []RerenderIsFaithful
  <1>1. IInv => RerenderIsFaithful
    <2> SUFFICES ASSUME IInv, row # NoRow
                 PROVE  /\ \A m \in Baselines \cup {mapping} :
                              LET t == _render_against_version(row, m)
                              IN  /\ \A k \in DOMAIN m : HasSlot(t, m[k].semantic)
                                  /\ \A p \in Profiles : \A k \in DOMAIN p.fields :
                                        HasSlot(_render_against_profile(t, p), p.fields[k].output)
                        /\ IsNormalized /\ Apart(row.used) =>
                              LET t == _render_against_version(row, row.used)
                                  stored == row.normalized.at
                              IN  /\ DOMAIN stored \subseteq DOMAIN t
                                  /\ \A q \in DOMAIN t :
                                        t[q] = IF q \in DOMAIN stored THEN stored[q] ELSE NoValue
      BY DEF RerenderIsFaithful
    <2>1. Sound(row) /\ IsMapping(mapping)
      BY DEF IInv
    <2>2. IsFieldMap(Rendered(row))
      BY <2>1, RenderedFacts
    <2>3. ASSUME NEW m \in Baselines \cup {mapping}
          PROVE  LET t == _render_against_version(row, m)
                 IN  /\ \A k \in DOMAIN m : HasSlot(t, m[k].semantic)
                     /\ \A p \in Profiles : \A k \in DOMAIN p.fields :
                           HasSlot(_render_against_profile(t, p), p.fields[k].output)
      <3> DEFINE t == _render_against_version(row, m)
      <3>1. IsMapping(m)
        BY <2>1, MappingAssumption
      <3>2. IsTree(t) /\ \A k \in DOMAIN m : HasSlot(t, m[k].semantic)
        BY <2>2, <3>1, VersionHasSlots
      <3> HIDE DEF t
      <3>3. \A p \in Profiles : \A k \in DOMAIN p.fields :
               HasSlot(_render_against_profile(t, p), p.fields[k].output)
        BY <3>2, MappingAssumption, ProfileHasSlots
      <3>4. QED
        BY <3>2, <3>3 DEF t
    <2>4. QED
      BY <2>1, <2>3, OwnVersion
  <1>2. QED
    BY <1>1, RecordInvariant, PTL

-----------------------------------------------------------------------------
(* Views *)

(* Nothing joined to a path. *)
LEMMA JoinNothing ==
    ASSUME NEW p \in Path
    PROVE  p \o NoPath = p /\ Rest(p, p \o NoPath) = NoPath
  <1>1. \A S : \A s \in Seq(S) : s \o <<>> = s
    OBVIOUS
  <1>2. p \o NoPath = p
    BY <1>1 DEF Path, NoPath
  <1>3. NoPath \in Path
    BY NameFacts
  <1>4. QED
    BY <1>2, <1>3, PrefixJoin

(* A scalar set in any tree, and what this leaves of it. *)
LEMMA SetLeaf ==
    ASSUME NEW t, NEW p \in Path, NEW x
    PROVE  _set_path(t, p, Val(x))
              = Over(One(p, x), Restrict(t, {q \in DOMAIN t : ~Comparable(p, q)}))
  <1> DEFINE v == Val(x)
             new == [q \in {p \o r : r \in DOMAIN v} |-> v[Rest(p, q)]]
  <1>1. DOMAIN v = {NoPath} /\ v[NoPath] = x
    BY ValFacts
  <1>2. p \o NoPath = p /\ Rest(p, p \o NoPath) = NoPath
    BY JoinNothing
  <1>3. {p \o r : r \in DOMAIN v} = {p} /\ v[Rest(p, p)] = x
    BY <1>1, <1>2
  <1>4. new = [q \in {p} |-> v[Rest(p, q)]]
    BY <1>3
  <1> HIDE DEF v
  <1>5. new = One(p, x)
    BY <1>3, <1>4 DEF One
  <1>6. QED
    BY <1>5 DEF _set_path, v

(* Setting a scalar in any tree adds its path ... *)
LEMMA SetLeafDomain ==
    ASSUME NEW t, NEW p \in Path, NEW x
    PROVE  DOMAIN _set_path(t, p, Val(x)) = {p} \cup {q \in DOMAIN t : ~Comparable(p, q)}
  <1> DEFINE D == {q \in DOMAIN t : ~Comparable(p, q)}
  <1>1. DOMAIN One(p, x) = {p} /\ DOMAIN Restrict(t, D) = D
    BY OneDomain, RestrictFacts
  <1> HIDE DEF D
  <1>2. DOMAIN Over(One(p, x), Restrict(t, D)) = {p} \cup D
    BY <1>1, OverDomain
  <1>3. QED
    BY <1>2, SetLeaf DEF D

(* ... with the scalar there ... *)
LEMMA SetLeafHere ==
    ASSUME NEW t, NEW p \in Path, NEW x
    PROVE  _set_path(t, p, Val(x))[p] = x
  <1>1. p \in DOMAIN One(p, x) /\ One(p, x)[p] = x
    BY OneDomain, OneValue
  <1> DEFINE old == Restrict(t, {q \in DOMAIN t : ~Comparable(p, q)})
  <1>2. _set_path(t, p, Val(x)) = Over(One(p, x), old)
    BY SetLeaf
  <1> HIDE DEF old
  <1>3. Over(One(p, x), old)[p] = One(p, x)[p]
    BY <1>1, OverFirst
  <1>4. QED
    BY <1>1, <1>2, <1>3

(* ... and keeps the leaves beside it. *)
LEMMA SetLeafElsewhere ==
    ASSUME NEW t, NEW p \in Path, NEW x, NEW q \in DOMAIN t, ~Comparable(p, q), q # p
    PROVE  _set_path(t, p, Val(x))[q] = t[q]
  <1> DEFINE D == {o \in DOMAIN t : ~Comparable(p, o)}
             old == Restrict(t, D)
  <1>1. DOMAIN old = D /\ \A o \in D : old[o] = t[o]
    BY RestrictFacts
  <1>2. q \in D
    OBVIOUS
  <1>3. DOMAIN One(p, x) = {p}
    BY OneDomain
  <1> HIDE DEF D, old
  <1>4. Over(One(p, x), old)[q] = old[q]
    BY <1>1, <1>2, <1>3, OverSecond
  <1>5. QED
    BY <1>1, <1>2, <1>4, SetLeaf DEF D, old

(* x is all there is at or below p. *)
Leaf(t, p, x) == Below(t, p) = {p} /\ p \in DOMAIN t /\ t[p] = x

(* A leaf that was set is there; it stays when a path beside it is set;    *)
(* and it is found.                                                        *)
LEMMA LeafThere ==
    ASSUME NEW t, NEW p \in Path, NEW x
    PROVE  Leaf(_set_path(t, p, Val(x)), p, x)
  <1> DEFINE s == _set_path(t, p, Val(x))
  <1>1. DOMAIN s = {p} \cup {q \in DOMAIN t : ~Comparable(p, q)} /\ s[p] = x
    BY SetLeafDomain, SetLeafHere
  <1> HIDE DEF s
  <1>2. IsPrefix(p, p)
    BY PrefixOrder
  <1>3. Below(s, p) = {p}
    BY <1>1, <1>2 DEF Below, Comparable
  <1>4. QED
    BY <1>1, <1>3 DEF Leaf, s

(* A leaf stays when a path beside it is set. *)
LEMMA LeafStays ==
    ASSUME NEW t, NEW p \in Path, NEW x, Leaf(t, p, x),
           NEW o \in Path, ~Comparable(o, p), NEW y
    PROVE  Leaf(_set_path(t, o, Val(y)), p, x)
  <1> DEFINE s == _set_path(t, o, Val(y))
  <1>1. /\ DOMAIN s = {o} \cup {q \in DOMAIN t : ~Comparable(o, q)}
        /\ \A q \in DOMAIN t : ~Comparable(o, q) /\ q # o => s[q] = t[q]
    BY SetLeafDomain, SetLeafElsewhere
  <1> HIDE DEF s
  <1>2. IsPrefix(p, p) /\ o # p /\ ~IsPrefix(p, o)
    BY PrefixOrder DEF Comparable
  <1>3. p \in DOMAIN t /\ Below(t, p) = {p} /\ t[p] = x
    BY DEF Leaf
  <1>4. p \in DOMAIN s /\ s[p] = x
    BY <1>1, <1>2, <1>3
  <1>5. Below(s, p) = {p}
    BY <1>1, <1>2, <1>3, <1>4 DEF Below
  <1>6. QED
    BY <1>4, <1>5 DEF Leaf, s

(* A leaf that is all there is at its path is found. *)
LEMMA LeafRead ==
    ASSUME NEW t, NEW p \in Path, NEW x, Leaf(t, p, x)
    PROVE  get_path(t, p) = Val(x)
  <1>1. p \o NoPath = p /\ Rest(p, p \o NoPath) = NoPath
    BY JoinNothing
  <1>2. {Rest(p, q) : q \in Below(t, p)} = {NoPath}
    BY <1>1 DEF Leaf
  <1>3. get_path(t, p) = [r \in {NoPath} |-> t[p \o r]]
    BY <1>2 DEF get_path, Leaf
  <1>4. t[p \o NoPath] = x
    BY <1>1 DEF Leaf
  <1>5. QED
    BY <1>3, <1>4 DEF Val, One

(* The paths the fallback view sets do not lie above each other. *)
LEMMA LogPaths ==
    LET original == <<"log", "original">>
        format == <<"log", "format">>
    IN  /\ original \in Path /\ format \in Path /\ K("event") \in Path
        /\ ~Comparable(format, original) /\ ~Comparable(K("event"), original)
  <1>1. \A S : \A x, y \in S : <<x, y>> \in Seq(S) /\ Len(<<x, y>>) = 2
    OBVIOUS
  <1>2. {"log", "original", "format", "event"} \subseteq STRING
    BY KeyAssumption DEF Keys
  <1> DEFINE original == <<"log", "original">>
             format == <<"log", "format">>
             event == K("event")
  <1>3. original \in Path /\ Len(original) = 2 /\ format \in Path /\ Len(format) = 2
    BY <1>1, <1>2, Zenon DEF Path
  <1>4. event \in Path /\ Len(event) = 1
    BY NameFacts DEF Keys
  <1>5. /\ original[1] = "log" /\ original[2] = "original" /\ format[2] = "format"
        /\ event[1] = "event"
    BY DEF K
  <1> HIDE DEF original, format, event
  <1>6. ~IsPrefix(format, original) /\ ~IsPrefix(original, format)
    <2>1. format[2] # original[2] /\ 2 \in 1 .. 2
      BY <1>5
    <2>2. QED
      BY <1>3, <2>1, PrefixMeans
  <1>7. ~IsPrefix(event, original) /\ ~IsPrefix(original, event)
    <2>1. event[1] # original[1] /\ 1 \in 1 .. 1
      BY <1>5
    <2>2. QED
      BY <1>3, <1>4, <2>1, PrefixMeans
  <1>8. QED
    BY <1>3, <1>4, <1>6, <1>7 DEF Comparable, original, format, event

(* The fallback view holds the raw text. *)
LEMMA FallbackShows ==
    ASSUME NEW r
    PROVE  get_path(build_nested_fallback(r), <<"log", "original">>) = Val("raw")
  <1> DEFINE original == <<"log", "original">>
             format == <<"log", "format">>
             flat == _flat_fields(r.parsed)
             known == {n \in DOMAIN flat : flat[n] # Missing /\ Fallback[n] # <<>>}
             left == Restrict(flat, DOMAIN flat \ known)
             placed == PlacedFields(flat, known)
             kept == IF DOMAIN left = {} THEN placed
                     ELSE _set_path(placed, <<"log", "fields">>, Dict(left))
             first == _set_path(kept, original, Val("raw"))
             shown == _set_path(first, format, Val(r.format))
             last == _set_path(shown, K("event"), Val(EmptyDict))
  <1>1. build_nested_fallback(r) = shown \/ build_nested_fallback(r) = last
    BY DEF build_nested_fallback
  <1>2. /\ original \in Path /\ format \in Path /\ K("event") \in Path
        /\ ~Comparable(format, original) /\ ~Comparable(K("event"), original)
    BY LogPaths
  <1> HIDE DEF kept, original, format
  <1>3. Leaf(first, original, "raw")
    BY <1>2, LeafThere
  <1> HIDE DEF first
  <1>4. Leaf(shown, original, "raw")
    BY <1>2, <1>3, LeafStays
  <1> HIDE DEF shown
  <1>5. Leaf(last, original, "raw")
    BY <1>2, <1>4, LeafStays
  <1> HIDE DEF last
  <1>6. get_path(shown, original) = Val("raw") /\ get_path(last, original) = Val("raw")
    BY <1>2, <1>4, <1>5, LeafRead
  <1>7. QED
    BY <1>1, <1>6 DEF original

(* Every stored row has both payload columns. *)
LEMMA RowColumns ==
    ASSUME NEW l, NEW h, NEW m, NEW p, _compute(l, h, m, p) # Raised,
           NEW row0, row0 = _compute(l, h, m, p)
    PROVE  {"normalized", "output"} \subseteq DOMAIN row0
  <1> DEFINE format == detect_format(l, h)
             parsed == parse(format, l)
             f == extract_fields(parsed, format)
             new == detect_drift(f, m)
             held == Row(l, h, format, parsed, "quarantined")
             C == {"normalized", "output"}
  <1>1. \A fmt, q, status : C \subseteq DOMAIN Row(l, h, fmt, q, status)
    BY DEF Row
  <1>2. ASSUME parsed.is = "failed" PROVE C \subseteq DOMAIN row0
    BY <1>1, <1>2 DEF _compute
  <1>3. ASSUME parsed.is # "failed", parsed.is = "none" \/ m = <<>> PROVE C \subseteq DOMAIN row0
    BY <1>1, <1>3 DEF _compute
  <1>4. ASSUME parsed.is # "failed", parsed.is # "none", m # <<>>, new # {}
        PROVE  C \subseteq DOMAIN row0
    <2>1. row0 = [held EXCEPT !.asked = new, !.used = m]
      BY <1>4 DEF _compute
    <2> HIDE DEF held, new
    <2>2. DOMAIN row0 = DOMAIN held
      BY <2>1
    <2>3. QED
      BY <1>1, <2>2 DEF held
  <1>5. ASSUME parsed.is # "failed", parsed.is # "none", m # <<>>, new = {}
        PROVE  C \subseteq DOMAIN row0
    <2> DEFINE result == apply_mapping_with_provenance(f, m)
               out == apply_output_profile(result.at, p)
    <2>1. row0 = Normalized(held, f, m, p) /\ row0 # Raised
      BY <1>5 DEF _compute
    <2>2. row0 = [held EXCEPT !.status = IF p.bound THEN "output" ELSE "normalized",
                              !.normalized = [some |-> TRUE, at |-> result.at],
                              !.by = result.by, !.used = m,
                              !.output = IF p.bound THEN [some |-> TRUE, at |-> out.at] ELSE None]
      BY <2>1 DEF Normalized
    <2> HIDE DEF held, result, out
    <2>3. DOMAIN row0 = DOMAIN held
      BY <2>2
    <2>4. QED
      BY <1>1, <2>3 DEF held
  <1>6. QED
    BY <1>2, <1>3, <1>4, <1>5

(* What MarkdownShowsTheLine says of one view. *)
Shows(r, t) ==
    \/ get_path(t, <<"log", "original">>) = Val("raw")
    \/ DOMAIN t # {} /\ t \in {r.normalized.at, r.output.at}

(* The view of a row shows a payload that is not empty, or the raw text ... *)
LEMMA ViewShows == \A r : Shows(r, nested_view(r))
  <1> SUFFICES ASSUME NEW r PROVE Shows(r, nested_view(r))
    OBVIOUS
  <1>1. CASE r.normalized.some /\ DOMAIN r.normalized.at # {}
    BY <1>1 DEF nested_view, Shows
  <1>2. CASE ~(r.normalized.some /\ DOMAIN r.normalized.at # {})
             /\ r.output.some /\ DOMAIN r.output.at # {}
    BY <1>2 DEF nested_view, Shows
  <1>3. CASE ~(r.normalized.some /\ DOMAIN r.normalized.at # {})
             /\ ~(r.output.some /\ DOMAIN r.output.at # {})
    <2>1. nested_view(r) = build_nested_fallback(r)
      BY <1>3 DEF nested_view
    <2>2. QED
      BY <2>1, FallbackShows DEF Shows
  <1>4. QED
    BY <1>1, <1>2, <1>3

(* A payload that is not empty is what the view shows. *)
LEMMA ViewOfSome ==
    ASSUME NEW r, NEW x, Shows(r, x.normalized.at) \/ DOMAIN x.normalized.at = {},
           Shows(r, x.output.at) \/ DOMAIN x.output.at = {} \/ ~x.output.some
    PROVE  Shows(r, nested_view(x))
  <1>1. CASE x.normalized.some /\ DOMAIN x.normalized.at # {}
    BY <1>1 DEF nested_view
  <1>2. CASE ~(x.normalized.some /\ DOMAIN x.normalized.at # {})
             /\ x.output.some /\ DOMAIN x.output.at # {}
    BY <1>2 DEF nested_view
  <1>3. CASE ~(x.normalized.some /\ DOMAIN x.normalized.at # {})
             /\ ~(x.output.some /\ DOMAIN x.output.at # {})
    <2>1. nested_view(x) = build_nested_fallback(x)
      BY <1>3 DEF nested_view
    <2>2. QED
      BY <2>1, FallbackShows DEF Shows
  <1>4. QED
    BY <1>1, <1>2, <1>3

(* ... and so does the view of each slim row. *)
LEMMA SlimShows ==
    ASSUME NEW r, {"normalized", "output"} \subseteq DOMAIN r,
           NEW payload \in {"normalized", "output"}
    PROVE  Shows(r, nested_view(SlimMarkdown(r, payload)))
  <1> DEFINE slim == _slim_record(r, payload)
             value == IF payload = "output" THEN slim.output ELSE slim.normalized
             x == SlimMarkdown(r, payload)
  <1>1. {"normalized", "output"} \subseteq DOMAIN slim
    BY DEF _slim_record
  <1>2. \A t \in {r.normalized.at, r.output.at} : Shows(r, t) \/ DOMAIN t = {}
    BY DEF Shows
  <1>3. Shows(r, nested_view(r))
    BY ViewShows
  <1>4. CASE payload = "normalized"
    <2>1. slim.output = None /\ slim.normalized = r.normalized /\ value = r.normalized
      BY <1>4 DEF _slim_record
    <2> HIDE DEF slim
    <2>2. CASE value.some
      <3>1. x = [slim EXCEPT !.normalized = value]
        BY <2>2 DEF SlimMarkdown, slim
      <3>2. x.normalized = r.normalized /\ x.output = None
        BY <1>1, <2>1, <3>1
      <3>3. ~x.output.some
        BY <3>2 DEF None
      <3> HIDE DEF x
      <3>4. Shows(r, nested_view(x))
        BY <1>2, <3>2, <3>3, ViewOfSome
      <3>5. QED
        BY <3>4 DEF x
    <2>3. CASE ~value.some
      <3>1. x = [slim EXCEPT !.normalized = [some |-> TRUE, at |-> nested_view(r)],
                             !.output = r.output]
        BY <2>3 DEF SlimMarkdown, slim
      <3>2. x.normalized.at = nested_view(r) /\ x.output = r.output
        BY <1>1, <3>1
      <3> HIDE DEF x
      <3>3. Shows(r, nested_view(x))
        BY <1>2, <1>3, <3>2, ViewOfSome
      <3>4. QED
        BY <3>3 DEF x
    <2>4. QED
      BY <2>2, <2>3
  <1>5. CASE payload = "output"
    <2>1. /\ slim.output = IF r.output.some THEN r.output ELSE r.normalized
          /\ value = slim.output
      BY <1>5 DEF _slim_record
    <2> HIDE DEF slim
    <2>2. CASE value.some
      <3>1. x = [slim EXCEPT !.normalized = value]
        BY <2>2 DEF SlimMarkdown, slim
      <3>2. x.normalized = value /\ x.output = value
        BY <1>1, <2>1, <3>1
      <3>3. value.at \in {r.normalized.at, r.output.at}
        BY <2>1
      <3> HIDE DEF x, value
      <3>4. Shows(r, nested_view(x))
        BY <1>2, <3>2, <3>3, ViewOfSome
      <3>5. QED
        BY <3>4 DEF x
    <2>3. CASE ~value.some
      <3>1. x = [slim EXCEPT !.normalized = [some |-> TRUE, at |-> nested_view(r)],
                             !.output = r.output]
        BY <2>3 DEF SlimMarkdown, slim
      <3>2. x.normalized.at = nested_view(r) /\ x.output = r.output
        BY <1>1, <3>1
      <3> HIDE DEF x
      <3>3. Shows(r, nested_view(x))
        BY <1>2, <1>3, <3>2, ViewOfSome
      <3>4. QED
        BY <3>3 DEF x
    <2>4. QED
      BY <2>2, <2>3
  <1>6. QED
    BY <1>4, <1>5

(* Every document shows of every row a payload that is not empty, or its   *)
(* text.                                                                   *)
THEOREM MarkdownTheorem == Spec => []MarkdownShowsTheLine
  <1>1. IInv => MarkdownShowsTheLine
    <2> SUFFICES ASSUME IInv, row # NoRow, NEW shown \in Documents(row) PROVE Shows(row, shown)
      BY DEF MarkdownShowsTheLine, Shows
    <2>1. PICK p \in Bindable : row = _compute(row.line, row.hint, row.used, p)
      BY RowIsComputed DEF IInv
    <2>2. row # Raised
      BY RowIsComputed DEF IInv
    <2>3. {"normalized", "output"} \subseteq DOMAIN row
      BY <2>1, <2>2, RowColumns
    <2>4. \/ shown = nested_view(row)
          \/ \E k \in {"normalized", "output"} : shown = nested_view(SlimMarkdown(row, k))
      BY DEF Documents
    <2>5. QED
      BY <2>3, <2>4, ViewShows, SlimShows
  <1>2. QED
    BY <1>1, RecordInvariant, PTL

=============================================================================
