------------------------------- MODULE LeftFold -------------------------------
(***************************************************************************)
(* What a left fold computes, for any operator Op with one parameter of    *)
(* its own: the last of a sequence of results, each made from the one      *)
(* before it.  And induction, over a set of numbers.                       *)
(***************************************************************************)
EXTENDS Naturals, SequencesExt, WellFoundedInduction, TLAPS

CONSTANT Op(_, _, _)

\* A set with 0 and all successors has every number.
LEMMA Induction ==
  ASSUME NEW S \in SUBSET Nat, 0 \in S, \A n \in S : n + 1 \in S
  PROVE  S = Nat
<1> SUFFICES ASSUME Nat \ S # {} PROVE FALSE
  OBVIOUS
<1> DEFINE R == OpToRel(<, Nat)
<1>1. IsWellFoundedOn(R, Nat)
  BY NatLessThanWellFounded
<1>2. PICK x \in Nat \ S : \A y \in Nat \ S : <<y, x>> \notin R
  <2> DEFINE T == Nat \ S
  <2>1. T # {} /\ T \subseteq Nat
    OBVIOUS
  <2> HIDE DEF T, R
  <2>2. \E x \in T : \A y \in T : <<y, x>> \notin R
    BY <1>1, <2>1, WFMin, Zenon
  <2> QED
    BY <2>2 DEF T
<1>3. \A y \in Nat : <<y, x>> \in R <=> y < x
  BY DEF OpToRel
<1> HIDE DEF R
<1>4. x # 0 /\ x - 1 \in Nat /\ x - 1 < x
  OBVIOUS
<1>5. x - 1 \in S
  BY <1>2, <1>3, <1>4
<1>6. (x - 1) + 1 \in S
  BY <1>5
<1> QED
  BY <1>6

LEMMA LastIsMax ==
  ASSUME NEW n \in Nat, NEW S \in SUBSET (1 .. n), n \in S
  PROVE  Max(S) = n
<1>1. \A y \in S : n >= y /\ y \in Nat
  OBVIOUS
<1>2. \A x \in S : (\A y \in S : x >= y) => x = n
  BY <1>1
<1> QED
  BY <1>1, <1>2 DEF Max

\* The results by the set of positions that were folded.
Body(p, base, seq, g, D) ==
  [S \in SUBSET D |-> IF S = {} THEN base ELSE Op(p, g[S \ {Max(S)}], seq[Max(S)])]

\* The result after the first i elements.  After the last it is FoldLeft with
\* Op, expanded.
After(p, base, seq, i) == (CHOOSE g : g = Body(p, base, seq, g, DOMAIN seq))[1 .. i]
Result(p, base, seq)   == (CHOOSE g : g = Body(p, base, seq, g, DOMAIN seq))[DOMAIN seq]

LEMMA MaxOfSubset ==
  ASSUME NEW n \in Nat, NEW S \in SUBSET (1 .. n), S # {}
  PROVE  Max(S) \in S
<1> DEFINE Bounded == {k \in Nat : \A T \in SUBSET (1 .. k) : T # {} => Max(T) \in T}
<1>1. 0 \in Bounded
  <2>1. 1 .. 0 = {} /\ 0 \in Nat
    OBVIOUS
  <2> QED
    BY <2>1
<1>2. ASSUME NEW k \in Bounded PROVE k + 1 \in Bounded
  <2> SUFFICES ASSUME NEW T \in SUBSET (1 .. k + 1), T # {} PROVE Max(T) \in T
    OBVIOUS
  <2>1. CASE k + 1 \in T
    BY <2>1, LastIsMax
  <2>2. CASE k + 1 \notin T
    <3>1. T \in SUBSET (1 .. k)
      BY <2>2
    <3> QED
      BY <3>1
  <2> QED
    BY <2>1, <2>2
<1>3. Bounded = Nat
  <2> HIDE DEF Bounded
  <2>1. Bounded \in SUBSET Nat
    BY DEF Bounded
  <2> QED
    BY <1>1, <1>2, <2>1, Induction
<1> QED
  BY <1>3

LEMMA ResultsExist ==
  ASSUME NEW p, NEW base, NEW seq, NEW n \in Nat
  PROVE  \E g : g = Body(p, base, seq, g, 1 .. n)
<1> DEFINE Given == {k \in Nat : \E g : g = Body(p, base, seq, g, 1 .. k)}
<1>1. 0 \in Given
  <2> DEFINE g == [S \in SUBSET (1 .. 0) |-> base]
  <2>1. \A S \in SUBSET (1 .. 0) : S = {}
    OBVIOUS
  <2>2. g = Body(p, base, seq, g, 1 .. 0)
    BY <2>1 DEF Body
  <2> QED
    BY <2>2
<1>2. ASSUME NEW k \in Given PROVE k + 1 \in Given
  <2>1. k \in Nat /\ k + 1 \in Nat
    OBVIOUS
  <2>2. PICK g : g = Body(p, base, seq, g, 1 .. k)
    OBVIOUS
  <2> DEFINE h == [S \in SUBSET (1 .. k + 1) |->
                     IF k + 1 \in S THEN Op(p, g[S \ {k + 1}], seq[k + 1]) ELSE g[S]]
  <2>3. \A S \in SUBSET (1 .. k) : h[S] = g[S]
    BY <2>1
  <2>4. ASSUME NEW S \in SUBSET (1 .. k + 1), S # {}
        PROVE  h[S] = Op(p, h[S \ {Max(S)}], seq[Max(S)])
    <3>1. CASE k + 1 \in S
      <4>1. Max(S) = k + 1
        BY <2>1, <3>1, LastIsMax
      <4>2. S \ {k + 1} \in SUBSET (1 .. k)
        BY <2>1
      <4>3. h[S \ {k + 1}] = g[S \ {k + 1}]
        BY <2>3, <4>2
      <4>4. h[S] = Op(p, g[S \ {k + 1}], seq[k + 1])
        BY <3>1
      <4> HIDE DEF h
      <4> QED
        BY <4>1, <4>3, <4>4
    <3>2. CASE k + 1 \notin S
      <4>1. S \in SUBSET (1 .. k)
        BY <2>1, <3>2
      <4>2. S \ {Max(S)} \in SUBSET (1 .. k)
        BY <4>1
      <4>3. g[S] = Op(p, g[S \ {Max(S)}], seq[Max(S)])
        BY <2>2, <2>4, <4>1 DEF Body
      <4>4. h[S] = g[S] /\ h[S \ {Max(S)}] = g[S \ {Max(S)}]
        BY <2>3, <4>1, <4>2
      <4> HIDE DEF h
      <4> QED
        BY <4>3, <4>4
    <3> QED
      BY <3>1, <3>2
  <2>5. h[{}] = base
    <3>1. h[{}] = g[{}]
      BY <2>3
    <3>2. g[{}] = base
      BY <2>2 DEF Body
    <3> QED
      BY <3>1, <3>2
  <2>6. h = Body(p, base, seq, h, 1 .. k + 1)
    <3>1. h = [S \in SUBSET (1 .. k + 1) |-> h[S]]
      OBVIOUS
    <3>2. \A S \in SUBSET (1 .. k + 1) :
            h[S] = IF S = {} THEN base ELSE Op(p, h[S \ {Max(S)}], seq[Max(S)])
      BY <2>4, <2>5
    <3> HIDE DEF h
    <3> QED
      BY <3>1, <3>2 DEF Body
  <2> QED
    BY <2>1, <2>6
<1>3. Given = Nat
  <2> HIDE DEF Given
  <2>1. Given \in SUBSET Nat
    BY DEF Given
  <2> QED
    BY <1>1, <1>2, <2>1, Induction
<1> QED
  BY <1>3

\* The function behind the results of a sequence of n elements.
Results(p, base, seq) == CHOOSE g : g = Body(p, base, seq, g, DOMAIN seq)

LEMMA ResultsMade ==
  ASSUME NEW p, NEW base, NEW seq, NEW n \in Nat, DOMAIN seq = 1 .. n
  PROVE  Results(p, base, seq) = Body(p, base, seq, Results(p, base, seq), 1 .. n)
BY ResultsExist DEF Results

(* A fold over a sequence of n elements starts from base, makes its i-th     *)
(* result from the one before and the i-th element, and yields the last.     *)
THEOREM FoldBegins ==
  ASSUME NEW p, NEW base, NEW seq, NEW n \in Nat, DOMAIN seq = 1 .. n
  PROVE  After(p, base, seq, 0) = base
<1>1. 1 .. 0 = {} /\ {} \in SUBSET (1 .. n)
  OBVIOUS
<1> DEFINE g == Results(p, base, seq)
<1>2. g = Body(p, base, seq, g, 1 .. n)
  BY ResultsMade
<1>3. After(p, base, seq, 0) = g[1 .. 0]
  BY DEF After, Results
<1> HIDE DEF g
<1>4. g[{}] = base
  BY <1>1, <1>2 DEF Body
<1> QED
  BY <1>1, <1>3, <1>4

THEOREM FoldGoesOn ==
  ASSUME NEW p, NEW base, NEW seq, NEW n \in Nat, DOMAIN seq = 1 .. n
  PROVE  \A i \in 1 .. n : After(p, base, seq, i) = Op(p, After(p, base, seq, i - 1), seq[i])
<1> DEFINE g == Results(p, base, seq)
<1>1. g = Body(p, base, seq, g, 1 .. n)
  BY ResultsMade
<1>2. \A i : After(p, base, seq, i) = g[1 .. i]
  BY DEF After, Results
<1> HIDE DEF g
<1>3. ASSUME NEW i \in 1 .. n PROVE g[1 .. i] = Op(p, g[1 .. i - 1], seq[i])
  <2>1. 1 .. i \in SUBSET (1 .. n) /\ 1 .. i # {} /\ i \in 1 .. i /\ i \in Nat
    OBVIOUS
  <2>2. Max(1 .. i) = i
    BY <2>1, LastIsMax
  <2>3. (1 .. i) \ {i} = 1 .. i - 1
    OBVIOUS
  <2>4. g[1 .. i] = Op(p, g[(1 .. i) \ {Max(1 .. i)}], seq[Max(1 .. i)])
    BY <1>1, <2>1 DEF Body
  <2> QED
    BY <2>2, <2>3, <2>4
<1> QED
  BY <1>2, <1>3

THEOREM FoldEnds ==
  ASSUME NEW p, NEW base, NEW seq, NEW n \in Nat, DOMAIN seq = 1 .. n
  PROVE  Result(p, base, seq) = After(p, base, seq, n)
BY DEF Result, After
=============================================================================
