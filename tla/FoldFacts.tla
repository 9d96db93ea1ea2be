------------------------------- MODULE FoldFacts -------------------------------
(* Facts about FoldLeft of the community modules, for any operator Op, and     *)
(* the induction they rest on.                                                *)
(*                                                                            *)
(* FoldLeft is a recursive function over the subsets of the sequence's        *)
(* indices, of which it visits only 1..i.  A module that folds with an        *)
(* operator of its own instantiates this one with it.                         *)
EXTENDS Integers, Sequences, SequencesExt, WellFoundedInduction, FiniteSetTheorems, TLAPS

CONSTANT Op(_, _)   \* one step of the fold: from what was reached and an element

Folded(b, s) == FoldLeft(Op, b, s)

-----------------------------------------------------------------------------
(* Induction *)

(* A set of naturals with zero and every successor is all of them: induction, *)
(* stated for sets.                                                           *)
LEMMA Induction ==
    ASSUME NEW T, T \subseteq Nat, 0 \in T, \A n \in T : n + 1 \in T
    PROVE  T = Nat
<1> SUFFICES ASSUME Nat \ T # {} PROVE FALSE
  OBVIOUS
<1>1. PICK x \in Nat \ T : \A y \in Nat \ T : ~(<<y, x>> \in OpToRel(<, Nat))
  BY WFMin, NatLessThanWellFounded
<1>2. \A y \in Nat \ T : ~(y < x)
  BY <1>1 DEF OpToRel
<1>3. x # 0 /\ x - 1 \in Nat
  OBVIOUS
<1>4. x - 1 \in T
  BY <1>2, <1>3
<1> QED
  BY <1>3, <1>4

(* The greatest of the first naturals. *)
LEMMA GreatestExists ==
    ASSUME NEW n \in Nat, NEW t \in SUBSET (1..n), t # {}
    PROVE  Max(t) \in t /\ \A y \in t : y <= Max(t)
<1> DEFINE T == {k \in Nat : \A u \in SUBSET (1..k) :
                                u # {} => \E x \in u : \A y \in u : x >= y}
<1>1. 0 \in T
  <2>1. \A u \in SUBSET (1..0) : u = {}
    OBVIOUS
  <2> QED BY <2>1
<1>2. ASSUME NEW k \in T PROVE k + 1 \in T
  <2> SUFFICES ASSUME NEW u \in SUBSET (1..(k + 1)), u # {}
               PROVE  \E x \in u : \A y \in u : x >= y
    OBVIOUS
  <2>1. CASE k + 1 \in u
    BY <2>1
  <2>2. CASE k + 1 \notin u
    <3>1. u \in SUBSET (1..k)
      BY <2>2
    <3> QED BY <3>1
  <2> QED BY <2>1, <2>2
<1> HIDE DEF T
<1>3. T = Nat
  BY <1>1, <1>2, Induction DEF T
<1>4. \E x \in t : \A y \in t : x >= y
  BY <1>3 DEF T
<1> QED
  BY <1>4 DEF Max

-----------------------------------------------------------------------------
(* FoldLeft *)

\* The function FoldLeft computes, for a set of indices that are done.
Iterates(iter, b, s, n) ==
    iter = [t \in SUBSET (1..n) |->
               IF t = {} THEN b ELSE Op(iter[t \ {Max(t)}], s[Max(t)])]

(* There is such a function for every number of indices. *)
LEMMA IterExists ==
    ASSUME NEW n \in Nat, NEW b, NEW s
    PROVE  \E iter : Iterates(iter, b, s, n)
<1> DEFINE T == {k \in Nat : \E iter : Iterates(iter, b, s, k)}
<1>0. T \subseteq Nat
  OBVIOUS
<1>1. 0 \in T
  <2> DEFINE it == [t \in SUBSET (1..0) |-> b]
  <2>1. \A t \in SUBSET (1..0) : t = {}
    OBVIOUS
  <2>2. Iterates(it, b, s, 0)
    BY <2>1 DEF Iterates
  <2> QED BY <2>2
<1>2. ASSUME NEW k \in T PROVE k + 1 \in T
  <2>0. k \in Nat
    BY <1>0
  <2>1. PICK g : Iterates(g, b, s, k)
    OBVIOUS
  <2> DEFINE val(t) == IF t = {} THEN b ELSE Op(g[t \ {Max(t)}], s[Max(t)])
  <2> DEFINE h == [t \in SUBSET (1..(k + 1)) |-> val(t)]
  <2>2. \A t \in SUBSET (1..k) : g[t] = val(t)
    BY <2>1 DEF Iterates
  <2>3. \A t \in SUBSET (1..k) : h[t] = g[t]
    <3> HIDE DEF val
    <3>1. SUBSET (1..k) \subseteq SUBSET (1..(k + 1))
      <4>1. 1..k \subseteq 1..(k + 1)
        BY <2>0
      <4> QED BY <4>1
    <3>2. \A t \in SUBSET (1..(k + 1)) : h[t] = val(t)
      OBVIOUS
    <3> QED BY <2>2, <3>1, <3>2
  <2>4. ASSUME NEW t \in SUBSET (1..(k + 1)), t # {}
        PROVE  t \ {Max(t)} \in SUBSET (1..k)
    <3>1. Max(t) \in t /\ \A y \in t : y <= Max(t)
      <4>1. k + 1 \in Nat
        BY <2>0
      <4> QED BY <2>4, <4>1, GreatestExists
    <3>2. \A y \in t \ {Max(t)} : y \in 1..k
      <4>1. \A y \in t : y \in 1..(k + 1)
        OBVIOUS
      <4> HIDE DEF T, h, val
      <4> SUFFICES ASSUME NEW y \in t \ {Max(t)} PROVE y \in 1..k
        OBVIOUS
      <4>2. y \in 1..(k + 1) /\ Max(t) \in 1..(k + 1) /\ y <= Max(t) /\ y # Max(t)
        BY <3>1, <4>1
      <4> QED BY <2>0, <4>2
    <3> QED BY <3>2
  <2>5. \A t \in SUBSET (1..(k + 1)) : t # {} => h[t \ {Max(t)}] = g[t \ {Max(t)}]
    <3> HIDE DEF h
    <3> QED BY <2>3, <2>4
  <2>6. \A t \in SUBSET (1..(k + 1)) :
          h[t] = IF t = {} THEN b ELSE Op(h[t \ {Max(t)}], s[Max(t)])
    <3> SUFFICES ASSUME NEW t \in SUBSET (1..(k + 1))
                 PROVE  h[t] = IF t = {} THEN b ELSE Op(h[t \ {Max(t)}], s[Max(t)])
      OBVIOUS
    <3>1. h[t] = IF t = {} THEN b ELSE Op(g[t \ {Max(t)}], s[Max(t)])
      OBVIOUS
    <3> HIDE DEF h
    <3> QED BY <2>5, <3>1
  <2>7. h = [t \in SUBSET (1..(k + 1)) |-> h[t]]
    OBVIOUS
  <2>8. Iterates(h, b, s, k + 1)
    <3> HIDE DEF h
    <3>1. [t \in SUBSET (1..(k + 1)) |-> h[t]]
          = [t \in SUBSET (1..(k + 1)) |->
               IF t = {} THEN b ELSE Op(h[t \ {Max(t)}], s[Max(t)])]
      BY <2>6
    <3> QED BY <2>7, <3>1 DEF Iterates
  <2> HIDE DEF h
  <2> QED BY <2>8
<1> HIDE DEF T
<1>3. T = Nat
  BY <1>1, <1>2, Induction DEF T
<1> QED
  BY <1>3 DEF T

\* g goes over the first n elements of s; s and r begin with the same n.
Steps(g, s, n) == \A i \in 1..n : g[i] = Op(g[i - 1], s[i])
Alike(s, r, n) == \A i \in 1..n : s[i] = r[i]

(* FoldLeft, step by step: what it has reached after i elements, up to all.   *)
THEOREM FoldedBySteps ==
    ASSUME NEW S, NEW s \in Seq(S), NEW b
    PROVE  \E g : /\ g = [i \in 0..Len(s) |-> g[i]]
                  /\ g[0] = b
                  /\ Steps(g, s, Len(s))
                  /\ g[Len(s)] = Folded(b, s)
<1> DEFINE iter == CHOOSE iter : Iterates(iter, b, s, Len(s))
<1>1. Iterates(iter, b, s, Len(s))
  BY IterExists
<1>2. Folded(b, s) = iter[1..Len(s)]
  <2>1. DOMAIN s = 1..Len(s)
    OBVIOUS
  <2>2. Folded(b, s) = (CHOOSE it : it = [t \in SUBSET DOMAIN s |->
            IF t = {} THEN b ELSE Op(it[t \ {Max(t)}], s[Max(t)])])[DOMAIN s]
    BY DEF Folded, FoldLeft, MapThenFoldSet
  <2> QED BY <2>1, <2>2 DEF Iterates
<1> HIDE DEF iter
<1> DEFINE g == [i \in 0..Len(s) |-> iter[1..i]]
<1>3. g[0] = b
  <2>1. 1..0 = {}
    OBVIOUS
  <2>2. iter[{}] = b
    BY <1>1 DEF Iterates
  <2> QED BY <2>1, <2>2
<1>4. ASSUME NEW i \in 1..Len(s) PROVE g[i] = Op(g[i - 1], s[i])
  <2>0. Len(s) \in Nat /\ i \in Nat /\ i \in 1..i
    OBVIOUS
  <2>1. 1..i \in SUBSET (1..Len(s)) /\ 1..i # {}
    <3>1. \A j \in 1..i : j \in 1..Len(s)
      BY <2>0
    <3> QED BY <2>0, <3>1
  <2>2. Max(1..i) = i
    <3>1. 1..i \in SUBSET (1..i)
      OBVIOUS
    <3>2. Max(1..i) \in 1..i /\ \A y \in 1..i : y <= Max(1..i)
      BY <2>0, <2>1, <3>1, GreatestExists
    <3> QED BY <2>0, <3>2
  <2>3. (1..i) \ {i} = 1..(i - 1)
    OBVIOUS
  <2>4. iter[1..i] = Op(iter[1..(i - 1)], s[i])
    BY <1>1, <2>1, <2>2, <2>3 DEF Iterates
  <2> QED BY <2>4
<1>5. g[Len(s)] = Folded(b, s)
  BY <1>2
<1>6. g = [i \in 0..Len(s) |-> g[i]]
  OBVIOUS
<1>7. Steps(g, s, Len(s))
  BY <1>4 DEF Steps
<1> HIDE DEF g
<1> QED BY <1>3, <1>5, <1>6, <1>7

(* Nothing to fold. *)
THEOREM FoldedNothing ==
    ASSUME NEW b PROVE Folded(b, <<>>) = b
<1>1. <<>> \in Seq({}) /\ Len(<<>>) = 0
  OBVIOUS
<1> QED BY <1>1, FoldedBySteps

(* Two folds that start alike over two sequences stay alike as long as the    *)
(* sequences do.                                                              *)
LEMMA FoldsAgree ==
    ASSUME NEW n \in Nat, NEW s, NEW r, NEW g, NEW h, g[0] = h[0],
           Alike(s, r, n), Steps(g, s, n), Steps(h, r, n)
    PROVE  g[n] = h[n]
<1> DEFINE T == {i \in Nat : i <= n => g[i] = h[i]}
<1>1. 0 \in T
  OBVIOUS
<1>2. ASSUME NEW i \in T PROVE i + 1 \in T
  <2> SUFFICES ASSUME i + 1 <= n PROVE g[i + 1] = h[i + 1]
    OBVIOUS
  <2>1. i + 1 \in 1..n /\ (i + 1) - 1 = i /\ g[i] = h[i]
    OBVIOUS
  <2> QED BY <2>1 DEF Alike, Steps
<1> HIDE DEF T
<1>3. T = Nat
  BY <1>1, <1>2, Induction DEF T
<1> QED BY <1>3 DEF T

(* One more element. *)
THEOREM FoldedAppend ==
    ASSUME NEW S, NEW s \in Seq(S), NEW e, NEW b
    PROVE  Folded(b, Append(s, e)) = Op(Folded(b, s), e)
<1> DEFINE r == Append(s, e)
<1> DEFINE n == Len(s)
<1>1. /\ r \in Seq(S \cup {e})
      /\ n \in Nat /\ Len(r) = n + 1 /\ r[n + 1] = e
      /\ Alike(s, r, n)
  BY DEF Alike
<1> HIDE DEF r
<1>2. PICK g : /\ g[0] = b
               /\ Steps(g, s, n)
               /\ g[n] = Folded(b, s)
  BY FoldedBySteps
<1>3. PICK h : /\ h[0] = b
               /\ Steps(h, r, n + 1)
               /\ h[n + 1] = Folded(b, r)
  BY <1>1, FoldedBySteps
<1> HIDE DEF n
<1>4. g[n] = h[n]
  <2>1. Steps(h, r, n)
    BY <1>1, <1>3 DEF Steps
  <2> QED BY <1>1, <1>2, <1>3, <2>1, FoldsAgree
<1>5. h[n + 1] = Op(h[n], e)
  <2>1. n + 1 \in 1..(n + 1) /\ (n + 1) - 1 = n
    BY <1>1
  <2> QED BY <1>1, <1>3, <2>1 DEF Steps
<1> QED BY <1>2, <1>3, <1>4, <1>5 DEF r

(* One element, and the fold of two sequences one after the other. *)
THEOREM FoldedOne ==
    ASSUME NEW e, NEW b PROVE Folded(b, <<e>>) = Op(b, e)
<1>1. <<>> \in Seq({}) /\ Append(<<>>, e) = <<e>>
  OBVIOUS
<1> QED BY <1>1, FoldedNothing, FoldedAppend

THEOREM FoldedConcat ==
    ASSUME NEW S, NEW s \in Seq(S), NEW r \in Seq(S), NEW b
    PROVE  Folded(b, s \o r) = Folded(Folded(b, s), r)
<1> DEFINE n == Len(s)
<1> DEFINE m == Len(r)
<1> DEFINE q == s \o r
<1>1. /\ q \in Seq(S) /\ n \in Nat /\ m \in Nat /\ Len(q) = n + m
      /\ Alike(s, q, n)
      /\ \A i \in 1..m : q[n + i] = r[i]
  BY DEF Alike
<1> HIDE DEF q
<1>2. PICK g : /\ g[0] = b
               /\ Steps(g, s, n)
               /\ g[n] = Folded(b, s)
  BY FoldedBySteps
<1>3. PICK h : /\ h[0] = b
               /\ Steps(h, q, n + m)
               /\ h[n + m] = Folded(b, q)
  BY <1>1, FoldedBySteps
<1>4. PICK k : /\ k[0] = Folded(b, s)
               /\ Steps(k, r, m)
               /\ k[m] = Folded(Folded(b, s), r)
  BY FoldedBySteps
<1> HIDE DEF n, m
<1>5. h[n] = g[n]
  <2>1. Steps(h, q, n)
    BY <1>1, <1>3 DEF Steps
  <2> QED BY <1>1, <1>2, <1>3, <2>1, FoldsAgree
<1> DEFINE x == [i \in 0..m |-> h[n + i]]
<1>6. /\ x[0] = k[0]
      /\ x[m] = h[n + m]
  BY <1>1, <1>2, <1>4, <1>5
<1>7. Steps(x, r, m) /\ Alike(r, r, m)
  <2> SUFFICES ASSUME NEW i \in 1..m PROVE x[i] = Op(x[i - 1], r[i])
    BY DEF Steps, Alike
  <2>1. n + i \in 1..(n + m) /\ (n + i) - 1 = n + (i - 1) /\ i \in 0..m /\ i - 1 \in 0..m
    BY <1>1
  <2>2. h[n + i] = Op(h[n + (i - 1)], r[i])
    BY <1>1, <1>3, <2>1 DEF Steps
  <2> QED BY <2>1, <2>2
<1> HIDE DEF x
<1>8. x[m] = k[m]
  BY <1>1, <1>4, <1>6, <1>7, FoldsAgree
<1> QED BY <1>3, <1>4, <1>6, <1>8 DEF q

-----------------------------------------------------------------------------
(* Finite sets in order *)

\* before orders S strictly and in a line.
Lines(before, S) ==
    /\ \A x, y \in S : x # y => <<x, y>> \in before \/ <<y, x>> \in before
    /\ \A x, y, z \in S : <<x, y>> \in before /\ <<y, z>> \in before => <<x, z>> \in before

\* e has every element of S at one place, each after those before it.
Lists(e, before, S) ==
    /\ e \in [1..Cardinality(S) -> S]
    /\ \A x \in S : \E i \in DOMAIN e : e[i] = x
    /\ \A i, j \in DOMAIN e : i < j => <<e[i], e[j]>> \in before

(* A finite set that is ordered in a line has a last element. *)
LEMMA LastExists ==
    ASSUME NEW before, NEW S, Lines(before, S), IsFiniteSet(S), S # {}
    PROVE  \E x \in S : \A y \in S : y # x => <<y, x>> \in before
<1> DEFINE T == {n \in Nat : \A U \in SUBSET S : Cardinality(U) = n + 1 =>
                                \E x \in U : \A y \in U : y # x => <<y, x>> \in before}
<1>1. 0 \in T
  <2> SUFFICES ASSUME NEW U \in SUBSET S, Cardinality(U) = 0 + 1
               PROVE  \E x \in U : \A y \in U : y # x => <<y, x>> \in before
    OBVIOUS
  <2>1. IsFiniteSet(U) /\ Cardinality(U) = 1
    BY FS_Subset
  <2>2. \E x : U = {x}
    <3> HIDE DEF T
    <3> QED BY <2>1, FS_Singleton
  <2> QED BY <2>2
<1>2. ASSUME NEW n \in T PROVE n + 1 \in T
  <2>0. n \in Nat
    OBVIOUS
  <2> SUFFICES ASSUME NEW U \in SUBSET S, Cardinality(U) = n + 1 + 1
               PROVE  \E x \in U : \A y \in U : y # x => <<y, x>> \in before
    BY <2>0
  <2>1. IsFiniteSet(U) /\ U # {}
    BY <2>0, FS_Subset, FS_EmptySet
  <2>2. PICK u : u \in U
    BY <2>1
  <2>3. Cardinality(U \ {u}) = n + 1
    <3>1. Cardinality(U \ {u}) = (n + 1 + 1) - 1
      BY <2>1, <2>2, FS_RemoveElement
    <3> QED BY <2>0, <3>1
  <2>4. PICK x \in U \ {u} : \A y \in U \ {u} : y # x => <<y, x>> \in before
    BY <2>3
  <2>5. CASE <<u, x>> \in before
    BY <2>4, <2>5
  <2>6. CASE <<x, u>> \in before
    <3>1. \A y \in U : y # u => <<y, u>> \in before
      BY <2>2, <2>4, <2>6 DEF Lines
    <3> QED BY <2>2, <3>1
  <2> QED BY <2>2, <2>4, <2>5, <2>6 DEF Lines
<1>3. T \subseteq Nat
  OBVIOUS
<1>4. \A n \in Nat : \A U \in SUBSET S : Cardinality(U) = n + 1 =>
          \E x \in U : \A y \in U : y # x => <<y, x>> \in before
  <2> HIDE DEF T
  <2>1. T = Nat
    BY <1>1, <1>2, <1>3, Induction
  <2> QED BY <2>1 DEF T
<1>5. Cardinality(S) \in Nat /\ Cardinality(S) # 0
  BY FS_CardinalityType, FS_EmptySet
<1>6. Cardinality(S) - 1 \in Nat /\ Cardinality(S) = (Cardinality(S) - 1) + 1
  BY <1>5
<1> QED BY <1>4, <1>6

(* And it can be listed in order. *)
THEOREM ListExists ==
    ASSUME NEW before, NEW S, Lines(before, S), IsFiniteSet(S)
    PROVE  \E e : Lists(e, before, S)
<1> DEFINE T == {n \in Nat : \A U \in SUBSET S : Cardinality(U) = n =>
                                \E e : Lists(e, before, U)}
<1>1. 0 \in T
  <2> SUFFICES ASSUME NEW U \in SUBSET S, Cardinality(U) = 0
               PROVE  \E e : Lists(e, before, U)
    OBVIOUS
  <2>1. U = {}
    BY FS_Subset, FS_EmptySet
  <2> DEFINE none == [i \in 1..0 |-> i]
  <2>2. DOMAIN none = {}
    OBVIOUS
  <2>3. Lists(none, before, U)
    BY <2>1, <2>2 DEF Lists
  <2> QED BY <2>3
<1>2. ASSUME NEW n \in T PROVE n + 1 \in T
  <2>0. n \in Nat
    OBVIOUS
  <2> SUFFICES ASSUME NEW U \in SUBSET S, Cardinality(U) = n + 1
               PROVE  \E e : Lists(e, before, U)
    BY <2>0
  <2>1. IsFiniteSet(U) /\ U # {}
    BY <2>0, FS_Subset, FS_EmptySet
  <2>2. PICK u \in U : \A y \in U : y # u => <<y, u>> \in before
    <3>1. Lines(before, U)
      BY DEF Lines
    <3> QED BY <2>1, <3>1, LastExists
  <2> DEFINE V == U \ {u}
  <2>3. Cardinality(V) = n /\ V \in SUBSET S
    BY <2>0, <2>1, <2>2, FS_RemoveElement
  <2>4. PICK e : Lists(e, before, V)
    BY <2>3
  <2>5. e \in [1..n -> V] /\ DOMAIN e = 1..n
    BY <2>3, <2>4 DEF Lists
  <2> DEFINE f == [i \in 1..(n + 1) |-> IF i = n + 1 THEN u ELSE e[i]]
  <2>6. /\ DOMAIN f = 1..(n + 1)
        /\ f[n + 1] = u
        /\ \A i \in 1..n : f[i] = e[i] /\ i \in 1..(n + 1)
    BY <2>0
  <2>7. f \in [1..(n + 1) -> U]
    BY <2>0, <2>2, <2>5
  <2> HIDE DEF f
  <2>8. ASSUME NEW x \in U PROVE \E i \in DOMAIN f : f[i] = x
    <3>1. CASE x = u
      BY <2>0, <2>6, <3>1
    <3>2. CASE x # u
      <4>1. PICK i \in 1..n : e[i] = x
        BY <2>4, <2>5, <3>2 DEF Lists
      <4> QED BY <2>6, <4>1
    <3> QED BY <3>1, <3>2
  <2>9. ASSUME NEW i \in DOMAIN f, NEW j \in DOMAIN f, i < j
        PROVE  <<f[i], f[j]>> \in before
    <3>1. i \in 1..n /\ f[i] = e[i] /\ e[i] \in V
      BY <2>0, <2>5, <2>6, <2>9
    <3>2. CASE j = n + 1
      BY <2>2, <2>6, <3>1, <3>2
    <3>3. CASE j # n + 1
      <4>1. j \in 1..n
        BY <2>0, <2>6, <3>3
      <4> QED BY <2>4, <2>5, <2>6, <2>9, <3>1, <4>1 DEF Lists
    <3> QED BY <3>2, <3>3
  <2> QED BY <2>7, <2>8, <2>9 DEF Lists
<1>3. T \subseteq Nat
  OBVIOUS
<1>4. \A n \in Nat : \A U \in SUBSET S : Cardinality(U) = n => \E e : Lists(e, before, U)
  <2> HIDE DEF T
  <2>1. T = Nat
    BY <1>1, <1>2, <1>3, Induction
  <2> QED BY <2>1 DEF T
<1>5. Cardinality(S) \in Nat
  BY FS_CardinalityType
<1> QED BY <1>4, <1>5
=============================================================================
