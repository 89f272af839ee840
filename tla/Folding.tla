-------------------------------- MODULE Folding --------------------------------
(***************************************************************************)
(* Facts about FoldLeft for every operator Op and every sequence: the loop *)
(* of the code that takes the elements of a slice one after the other.  A  *)
(* module that folds its own operator takes an instance.                   *)
(*                                                                         *)
(* Induction is stated with a set, which the provers can instantiate, and  *)
(* derived from the order of the naturals being well-founded.              *)
(***************************************************************************)
EXTENDS Integers, SequencesExt, WellFoundedInduction, TLAPS

CONSTANT Op(_, _)

Fold(b, s) == FoldLeft(Op, b, s)

\* A set with 0 that is closed under successor has every natural number.
LEMMA NatInduct ==
    ASSUME NEW S, 0 \in S, \A n \in S \cap Nat : n + 1 \in S
    PROVE  Nat \subseteq S
<1> DEFINE R == {p \in Nat \X Nat : p[1] < p[2]}
           Rest == Nat \ S
<1>1. IsWellFoundedOn(R, Nat)
  BY NatLessThanWellFounded DEF OpToRel
<1>2. CASE Rest # {}
  <2>1. PICK i \in Rest : \A k \in Rest : <<k, i>> \notin R
    <3> HIDE DEF R
    <3> QED
      BY <1>1, <1>2, WFMin
  <2>2. i \in Nat /\ i # 0
    OBVIOUS
  <2>3. i - 1 \in Nat /\ i - 1 < i /\ (i - 1) + 1 = i
    BY <2>2
  <2>4. i - 1 \notin Rest
    BY <2>1, <2>2, <2>3
  <2>5. QED
    BY <2>3, <2>4
<1>3. QED
  BY <1>2

-----------------------------------------------------------------------------
\* The recursive function inside MapThenFoldSet, on the sets of the first k positions.
Body(g, w, b, s) == IF w = {} THEN b ELSE Op(g[w \ {Max(w)}], s[Max(w)])
IsIter(g, k, b, s) == g = [w \in SUBSET (1..k) |-> Body(g, w, b, s)]
Iter(k, b, s) == CHOOSE g : IsIter(g, k, b, s)

LEMMA MaxIs ==
    ASSUME NEW w, NEW m \in w, \A y \in w : y \in Int /\ m >= y
    PROVE  Max(w) = m
<1>1. Max(w) \in w /\ \A y \in w : Max(w) >= y
  BY Zenon DEF Max
<1>2. QED
  BY <1>1

\* It exists: the function for k positions extends to k + 1 of them.
LEMMA IterExists ==
    ASSUME NEW b, NEW s, NEW n \in Nat
    PROVE  \E g : IsIter(g, n, b, s)
<1> DEFINE K == {k \in Nat : \E g : IsIter(g, k, b, s)}
<1>1. 0 \in K
  <2> DEFINE g == [w \in SUBSET (1..0) |-> b]
  <2>1. IsIter(g, 0, b, s)
    BY DEF Body, IsIter
  <2>2. QED
    BY <2>1
<1>2. ASSUME NEW k \in K PROVE k + 1 \in K
  <2>1. PICK g : IsIter(g, k, b, s)
    OBVIOUS
  <2> DEFINE h == [w \in SUBSET (1..(k + 1)) |->
                     IF k + 1 \in w THEN Op(g[w \ {k + 1}], s[k + 1]) ELSE g[w]]
  <2>2. ASSUME NEW w \in SUBSET (1..(k + 1)) PROVE h[w] = Body(h, w, b, s)
    <3>1. CASE k + 1 \in w
      <4>1. Max(w) = k + 1
        <5>1. \A y \in w : y \in Int /\ k + 1 >= y
          OBVIOUS
        <5> HIDE DEF h
        <5>2. QED
          BY <3>1, <5>1, MaxIs
      <4>2. w \ {k + 1} \in SUBSET (1..(k + 1)) /\ k + 1 \notin w \ {k + 1} /\ w # {}
        BY <3>1
      <4>3. h[w \ {k + 1}] = g[w \ {k + 1}]
        BY <4>2
      <4>4. h[w] = Op(g[w \ {k + 1}], s[k + 1])
        BY <3>1
      <4> HIDE DEF h
      <4>5. QED
        BY <4>1, <4>2, <4>3, <4>4 DEF Body
    <3>2. CASE k + 1 \notin w
      <4>1. w \in SUBSET (1..k)
        BY <3>2
      <4>2. h[w] = g[w]
        BY <3>2
      <4>3. g[w] = Body(g, w, b, s)
        <5>1. g[w] = [x \in SUBSET (1..k) |-> Body(g, x, b, s)][w]
          BY <2>1, Zenon DEF IsIter
        <5>2. QED
          BY <4>1, <5>1, Zenon
      <4>4. k + 1 \notin w \ {Max(w)} /\ w \ {Max(w)} \in SUBSET (1..(k + 1))
        BY <3>2
      <4>5. h[w \ {Max(w)}] = g[w \ {Max(w)}]
        BY <4>4
      <4> HIDE DEF h
      <4>6. QED
        BY <4>2, <4>3, <4>5 DEF Body
    <3>3. QED
      BY <3>1, <3>2
  <2>3. h = [w \in SUBSET (1..(k + 1)) |-> Body(h, w, b, s)]
    <3>1. h = [w \in SUBSET (1..(k + 1)) |-> h[w]]
      OBVIOUS
    <3> HIDE DEF h
    <3>2. QED
      BY <2>2, <3>1, Zenon
  <2> HIDE DEF h
  <2>4. IsIter(h, k + 1, b, s)
    BY <2>3, Zenon DEF IsIter
  <2>5. QED
    BY <2>4
<1> HIDE DEF K
<1>3. Nat \subseteq K
  BY <1>1, <1>2, NatInduct
<1>4. QED
  BY <1>3 DEF K


-----------------------------------------------------------------------------
\* The values that the fold goes through, one for each element.
THEOREM FoldRuns ==
    ASSUME NEW b, NEW E, NEW s \in Seq(E)
    PROVE  \E run : /\ run[0] = b /\ run[Len(s)] = Fold(b, s)
                    /\ \A k \in 1..Len(s) : run[k] = Op(run[k - 1], s[k])
<1> DEFINE n == Len(s)
           f == Iter(n, b, s)
<1>1. n \in Nat /\ DOMAIN s = 1..n
  OBVIOUS
<1>2. Fold(b, s) = f[1..n]
  BY <1>1, Zenon DEF Fold, FoldLeft, MapThenFoldSet, Iter, IsIter, Body
<1>3. f = [w \in SUBSET (1..n) |-> Body(f, w, b, s)]
  <2>1. \E g : IsIter(g, n, b, s)
    BY <1>1, IterExists
  <2>2. IsIter(f, n, b, s)
    BY <2>1, Zenon DEF Iter
  <2>3. QED
    BY <2>2, Zenon DEF IsIter
<1> HIDE DEF f, n
<1>4. ASSUME NEW w \in SUBSET (1..n) PROVE f[w] = Body(f, w, b, s)
  <2>1. f[w] = [x \in SUBSET (1..n) |-> Body(f, x, b, s)][w]
    BY <1>3, Zenon
  <2>2. QED
    BY <2>1, Zenon
<1>5. f[{}] = b
  <2>1. {} \in SUBSET (1..n)
    OBVIOUS
  <2>2. QED
    BY <1>4, <2>1, Zenon DEF Body
<1>6. ASSUME NEW k \in 1..n PROVE f[1..k] = Op(f[1..(k - 1)], s[k])
  <2>1. Max(1..k) = k
    <3>1. k \in 1..k /\ \A y \in 1..k : y \in Int /\ k >= y
      BY <1>1
    <3>2. QED
      BY <3>1, MaxIs
  <2>2. 1..k \in SUBSET (1..n) /\ 1..k # {} /\ (1..k) \ {k} = 1..(k - 1)
    BY <1>1
  <2>3. QED
    BY <1>4, <2>1, <2>2 DEF Body
<1> DEFINE run == [k \in 0..n |-> f[1..k]]
<1>7. run[0] = b
  <2>1. 1..0 = {} /\ 0 \in 0..n
    BY <1>1
  <2>2. QED
    BY <1>5, <2>1
<1>8. run[n] = Fold(b, s)
  BY <1>1, <1>2
<1>9. \A k \in 1..n : run[k] = Op(run[k - 1], s[k])
  <2>1. ASSUME NEW k \in 1..n PROVE run[k] = Op(run[k - 1], s[k])
    <3>1. k \in 0..n /\ k - 1 \in 0..n
      BY <1>1
    <3>2. run[k] = f[1..k] /\ run[k - 1] = f[1..(k - 1)]
      BY <3>1
    <3>3. QED
      BY <1>6, <3>2, Zenon
  <2>2. QED
    BY <2>1, Zenon
<1> HIDE DEF run
<1>10. QED
  BY <1>7, <1>8, <1>9 DEF n

\* A fold that begins in a set which its operator does not leave ends there.
THEOREM FoldKeeps ==
    ASSUME NEW E, NEW s \in Seq(E), NEW S, NEW b \in S,
           \A x \in S, e \in E : Op(x, e) \in S
    PROVE  Fold(b, s) \in S
<1>1. PICK run : /\ run[0] = b /\ run[Len(s)] = Fold(b, s)
                 /\ \A k \in 1..Len(s) : run[k] = Op(run[k - 1], s[k])
  BY FoldRuns
<1> DEFINE K == {k \in Nat : k <= Len(s) => run[k] \in S}
<1>2. 0 \in K
  BY <1>1
<1>3. ASSUME NEW k \in K \cap Nat PROVE k + 1 \in K
  <2> SUFFICES ASSUME k + 1 <= Len(s) PROVE run[k + 1] \in S
    OBVIOUS
  <2>1. k + 1 \in 1..Len(s) /\ (k + 1) - 1 = k /\ k <= Len(s) /\ s[k + 1] \in E
    OBVIOUS
  <2>2. run[k + 1] = Op(run[k], s[k + 1])
    BY <1>1, <2>1
  <2>3. QED
    BY <2>1, <2>2
<1> HIDE DEF K
<1>4. Len(s) \in K
  BY <1>2, <1>3, NatInduct
<1>5. QED
  BY <1>1, <1>4 DEF K

\* One that takes at least one element ends where its operator leads.
THEOREM FoldEnds ==
    ASSUME NEW E, NEW s \in Seq(E), s # <<>>, NEW S, NEW b \in S, NEW T \in SUBSET S,
           \A x \in S, e \in E : Op(x, e) \in T
    PROVE  Fold(b, s) \in T
<1>1. PICK run : /\ run[0] = b /\ run[Len(s)] = Fold(b, s)
                 /\ \A k \in 1..Len(s) : run[k] = Op(run[k - 1], s[k])
  BY FoldRuns
<1> DEFINE K == {k \in Nat : k <= Len(s) => run[k] \in S /\ (k > 0 => run[k] \in T)}
<1>2. 0 \in K
  BY <1>1
<1>3. ASSUME NEW k \in K \cap Nat PROVE k + 1 \in K
  <2> SUFFICES ASSUME k + 1 <= Len(s) PROVE run[k + 1] \in T
    OBVIOUS
  <2>1. k + 1 \in 1..Len(s) /\ (k + 1) - 1 = k /\ k <= Len(s) /\ s[k + 1] \in E
    OBVIOUS
  <2>2. run[k + 1] = Op(run[k], s[k + 1])
    BY <1>1, <2>1
  <2>3. QED
    BY <2>1, <2>2
<1> HIDE DEF K
<1>4. Len(s) \in K /\ Len(s) \in Nat /\ Len(s) > 0
  BY <1>2, <1>3, NatInduct
<1>5. QED
  BY <1>1, <1>4 DEF K

\* What is true behind the j-th element, and of no later element undone, is true of
\* the end.
THEOREM FoldFrom ==
    ASSUME NEW E, NEW s \in Seq(E), NEW j \in 1..Len(s), NEW S, NEW b \in S, NEW T,
           \A x \in S, e \in E : Op(x, e) \in S,
           \A x \in IF j = 1 THEN {b} ELSE S : Op(x, s[j]) \in T,
           \A x \in T, e \in E : Op(x, e) \in T
    PROVE  Fold(b, s) \in T
<1>1. PICK run : /\ run[0] = b /\ run[Len(s)] = Fold(b, s)
                 /\ \A k \in 1..Len(s) : run[k] = Op(run[k - 1], s[k])
  BY FoldRuns
<1> DEFINE K == {k \in Nat : k <= Len(s) => /\ k < j => run[k] \in S /\ (k = 0 => run[k] = b)
                                            /\ k >= j => run[k] \in T}
<1>2. 0 \in K
  BY <1>1
<1>3. ASSUME NEW k \in K \cap Nat PROVE k + 1 \in K
  <2> SUFFICES ASSUME k + 1 <= Len(s)
               PROVE  /\ k + 1 < j => run[k + 1] \in S
                      /\ k + 1 >= j => run[k + 1] \in T
    OBVIOUS
  <2>1. k + 1 \in 1..Len(s) /\ (k + 1) - 1 = k /\ k <= Len(s) /\ s[k + 1] \in E /\ k \in Nat
        /\ j \in Nat /\ j >= 1
    OBVIOUS
  <2>2. run[k + 1] = Op(run[k], s[k + 1])
    BY <1>1, <2>1
  <2>3. (k < j => run[k] \in S) /\ (k = 0 => run[k] = b) /\ (k >= j => run[k] \in T)
    BY <2>1
  <2> HIDE DEF K
  <2>4. CASE k + 1 < j
    BY <2>1, <2>2, <2>3, <2>4
  <2>5. CASE k + 1 = j
    <3>1. k < j /\ (j = 1 => k = 0)
      BY <2>1, <2>5
    <3>2. run[k] \in IF j = 1 THEN {b} ELSE S
      BY <2>3, <3>1
    <3>3. run[j] \in T
      BY <2>2, <2>5, <3>2
    <3>4. QED
      BY <2>1, <2>5, <3>3
  <2>6. CASE k >= j
    BY <2>1, <2>2, <2>3, <2>6
  <2>7. QED
    BY <2>1, <2>4, <2>5, <2>6
<1> HIDE DEF K
<1>4. Len(s) \in K /\ Len(s) \in Nat /\ Len(s) >= j
  BY <1>2, <1>3, NatInduct
<1>5. QED
  BY <1>1, <1>4 DEF K
=============================================================================
