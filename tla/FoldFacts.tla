----------------------------- MODULE FoldFacts -----------------------------
(***************************************************************************)
(* Induction over numbers and sequences, and what a left fold computes.    *)
(*                                                                         *)
(* The induction theorems of the library take a predicate as a parameter;  *)
(* here the predicate is the set of the numbers, or the sequences, that    *)
(* satisfy it.  The least member of a set of numbers comes from the        *)
(* well-founded order of finite sets.  The fold is a parameter of the      *)
(* module: a proof module takes an INSTANCE of it for each of its folds.   *)
(***************************************************************************)
EXTENDS Integers, SequencesExt, WellFoundedInduction, FiniteSetTheorems,
        SequenceTheorems, TLAPS

CONSTANT Op(_, _)   \* one step: the value so far and the next element

Folded(base, s) == FoldLeft(Op, base, s)

----------------------------------------------------------------------------
(* Induction                                                               *)

(* A set of numbers that is not empty has a least member.                  *)
LEMMA LeastNumber ==
  ASSUME NEW T, T \subseteq Nat, T # {}
  PROVE  \E m \in T : \A k \in T : m <= k
<1> DEFINE I(k) == 0..k
           F == { I(k) : k \in T }
<1>1. F \subseteq FiniteSubsetsOf(Nat)
  <2> SUFFICES ASSUME NEW k \in T PROVE I(k) \in FiniteSubsetsOf(Nat)
    OBVIOUS
  <2>1. k \in Nat /\ I(k) \subseteq Nat
    OBVIOUS
  <2>2. IsFiniteSet(I(k))
    BY <2>1, FS_Interval
  <2> QED BY <2>1, <2>2 DEF FiniteSubsetsOf
<1>2. F # {}
  OBVIOUS
<1>3. PICK X \in F : \A Y \in F : ~ (<<Y, X>> \in StrictSubsetOrdering(Nat))
  <2> HIDE DEF F
  <2> QED BY <1>1, <1>2, FS_StrictSubsetOrderingWellFounded, WFMin
<1>4. PICK m \in T : X = I(m)
  OBVIOUS
<1>5. ASSUME NEW k \in T, k < m PROVE FALSE
  <2>1. I(k) \in F
    OBVIOUS
  <2>2. I(k) \subseteq I(m) /\ I(k) # I(m) /\ I(m) \subseteq Nat
    BY <1>5
  <2> HIDE DEF F, I
  <2> QED BY <2>1, <2>2, <1>3, <1>4 DEF StrictSubsetOrdering
<1> QED BY <1>5

(* Induction over the numbers.                                             *)
LEMMA NumberInduction ==
  ASSUME NEW S, 0 \in S, \A n \in Nat : n \in S => n + 1 \in S
  PROVE  Nat \subseteq S
<1> SUFFICES ASSUME Nat \ S # {} PROVE FALSE
  OBVIOUS
<1> DEFINE T == Nat \ S
<1>1. T \subseteq Nat /\ T # {}
  OBVIOUS
<1>2. PICK m \in T : \A k \in T : m <= k
  <2> HIDE DEF T
  <2> QED BY <1>1, LeastNumber
<1>3. m # 0
  OBVIOUS
<1>4. m - 1 \in Nat /\ m - 1 \in S
  BY <1>2, <1>3
<1> QED BY <1>4

(* Induction over the sequences, from the front to the back.               *)
LEMMA SequenceInduction ==
  ASSUME NEW S, NEW T, << >> \in T,
         \A s \in Seq(S), x \in S : s \in T => Append(s, x) \in T
  PROVE  Seq(S) \subseteq T
<1> DEFINE N == { n \in Nat : \A s \in Seq(S) : Len(s) = n => s \in T }
<1>1. 0 \in N
  <2>1. \A s \in Seq(S) : Len(s) = 0 => s = << >>
    BY EmptySeq
  <2> QED BY <2>1
<1>2. ASSUME NEW n \in Nat, n \in N PROVE n + 1 \in N
  <2> SUFFICES ASSUME NEW s \in Seq(S), Len(s) = n + 1 PROVE s \in T
    OBVIOUS
  <2>1. s # << >>
    BY EmptySeq
  <2>2. /\ Front(s) \in Seq(S) /\ Last(s) \in S
        /\ s = Append(Front(s), Last(s)) /\ Len(Front(s)) = n
    <3>1. SubSeq(s, 1, Len(s) - 1) \in Seq(S) /\ Len(SubSeq(s, 1, Len(s) - 1)) = n
      OBVIOUS
    <3>2. s[Len(s)] \in S /\ s = Append(SubSeq(s, 1, Len(s) - 1), s[Len(s)])
      OBVIOUS
    <3> QED BY <3>1, <3>2 DEF Front, Last
  <2>3. Front(s) \in T
    BY <1>2, <2>2
  <2> QED BY <2>2, <2>3
<1> HIDE DEF N
<1>3. Nat \subseteq N
  BY <1>1, <1>2, NumberInduction
<1>4. \A s \in Seq(S) : Len(s) \in Nat
  OBVIOUS
<1> QED BY <1>3, <1>4 DEF N

----------------------------------------------------------------------------
(* The greatest member of the sets a fold iterates over                    *)

LEMMA MaxOfUpTo == ASSUME NEW n \in Nat, n > 0 PROVE Max(1..n) = n
BY DEF Max

LEMMA MaxIsGreatest ==
  ASSUME NEW n \in Nat, NEW T \in SUBSET (1..n), T # {}
  PROVE  Max(T) \in T /\ \A y \in T : y <= Max(T)
<1> DEFINE U == { n - y : y \in T }
<1>1. \A y \in T : y \in 1..n
  OBVIOUS
<1>2. U \subseteq Nat /\ U # {}
  <2>1. \A y \in T : n - y \in Nat
    BY <1>1
  <2> QED BY <2>1
<1> HIDE DEF U
<1>3. PICK m \in U : \A k \in U : m <= k
  BY <1>2, LeastNumber
<1>4. PICK x \in T : m = n - x
  BY DEF U
<1>5. ASSUME NEW y \in T PROVE x >= y
  <2>1. n - y \in U
    BY DEF U
  <2>2. n - x <= n - y
    BY <2>1, <1>3, <1>4
  <2>3. x \in Int /\ y \in Int
    BY <1>1
  <2> QED BY <2>2, <2>3
<1>6. Max(T) \in T /\ \A y \in T : Max(T) >= y
  BY <1>5 DEF Max
<1> QED BY <1>6, <1>1

----------------------------------------------------------------------------
(* The fold                                                                *)

(* What the fold of s iterates: a function of the subsets of 1..n.         *)
Iterates(base, h, n, s) ==
  h = [T \in SUBSET (1..n) |-> IF T = {} THEN base ELSE Op(h[T \ {Max(T)}], s[Max(T)])]

LEMMA IterationExists ==
  ASSUME NEW base, NEW s
  PROVE  \A n \in Nat : \E h : Iterates(base, h, n, s)
<1> DEFINE S == { n \in Nat : \E h : Iterates(base, h, n, s) }
<1>1. 0 \in S
  <2> DEFINE h == [T \in SUBSET (1..0) |-> base]
  <2>1. \A T \in SUBSET (1..0) : T = {}
    OBVIOUS
  <2>2. Iterates(base, h, 0, s)
    BY <2>1 DEF Iterates
  <2> QED BY <2>2
<1>2. ASSUME NEW n \in Nat, n \in S PROVE n + 1 \in S
  <2>1. PICK h : Iterates(base, h, n, s)
    BY <1>2
  <2> DEFINE g == [T \in SUBSET (1..(n+1)) |->
                     IF n + 1 \in T THEN Op(h[T \ {n+1}], s[n+1]) ELSE h[T]]
  <2>2. ASSUME NEW T \in SUBSET (1..(n+1))
        PROVE  g[T] = IF T = {} THEN base ELSE Op(g[T \ {Max(T)}], s[Max(T)])
    <3>1. CASE n + 1 \in T
      <4>1. T # {} /\ n + 1 \in Nat
        BY <3>1
      <4>2. Max(T) \in T /\ \A y \in T : y <= Max(T)
        BY <4>1, MaxIsGreatest
      <4>3. n + 1 <= Max(T) /\ Max(T) \in 1..(n + 1)
        BY <3>1, <4>2
      <4>4. Max(T) = n + 1
        BY <4>3
      <4>5. T \ {n+1} \in SUBSET (1..(n+1)) /\ n + 1 \notin T \ {n+1}
        OBVIOUS
      <4>6. g[T \ {n+1}] = h[T \ {n+1}]
        BY <4>5
      <4> QED BY <3>1, <4>4, <4>6
    <3>2. CASE n + 1 \notin T
      <4>1. T \in SUBSET (1..n)
        BY <3>2
      <4>2. h[T] = IF T = {} THEN base ELSE Op(h[T \ {Max(T)}], s[Max(T)])
        BY <4>1, <2>1 DEF Iterates
      <4>3. g[T] = h[T]
        BY <3>2
      <4>4. T \ {Max(T)} \in SUBSET (1..(n+1)) /\ n+1 \notin T \ {Max(T)}
        BY <3>2
      <4>5. g[T \ {Max(T)}] = h[T \ {Max(T)}]
        BY <4>4
      <4> QED BY <4>2, <4>3, <4>5
    <3> QED BY <3>1, <3>2
  <2>3. Iterates(base, g, n + 1, s)
    <3>1. g = [T \in SUBSET (1..(n+1)) |-> g[T]]
      OBVIOUS
    <3> HIDE DEF g
    <3> QED BY <2>2, <3>1 DEF Iterates
  <2> QED BY <2>3
<1> HIDE DEF S
<1>3. Nat \subseteq S
  BY <1>1, <1>2, NumberInduction
<1> QED BY <1>3 DEF S

LEMMA FoldIterates ==
  ASSUME NEW base, NEW s, NEW n \in Nat, DOMAIN s = 1..n
  PROVE  \E h : Iterates(base, h, n, s) /\ Folded(base, s) = h[1..n]
<1>1. PICK g : Iterates(base, g, n, s)
  BY IterationExists
<1> DEFINE h == CHOOSE h : Iterates(base, h, n, s)
<1>2. Iterates(base, h, n, s)
  BY <1>1
<1>3. Folded(base, s) = h[1..n]
  BY DEF Folded, FoldLeft, MapThenFoldSet, Iterates
<1> QED BY <1>2, <1>3

(* Two iterations agree as far as their sequences do.                      *)
LEMMA IterationsAgree ==
  ASSUME NEW base, NEW s, NEW t, NEW n \in Nat, NEW m \in Nat, NEW g, NEW h,
         Iterates(base, g, n, s), Iterates(base, h, m, t), n <= m, \A i \in 1..n : s[i] = t[i]
  PROVE  g[1..n] = h[1..n]
<1> DEFINE S == { k \in Nat : k <= n => g[1..k] = h[1..k] }
<1>1. 0 \in S
  <2>1. 1..0 = {}
    OBVIOUS
  <2>2. {} \in SUBSET (1..n) /\ {} \in SUBSET (1..m)
    OBVIOUS
  <2>3. g[{}] = base /\ h[{}] = base
    BY <2>2 DEF Iterates
  <2> QED BY <2>1, <2>3
<1>2. ASSUME NEW k \in Nat, k \in S PROVE k + 1 \in S
  <2> SUFFICES ASSUME k + 1 <= n PROVE g[1..(k+1)] = h[1..(k+1)]
    OBVIOUS
  <2>1. g[1..k] = h[1..k]
    BY <1>2
  <2> DEFINE T == 1..(k+1)
  <2>2. T \in SUBSET (1..n) /\ T \in SUBSET (1..m) /\ T # {}
    OBVIOUS
  <2>3. Max(T) = k + 1
    BY MaxOfUpTo
  <2>4. T \ {k + 1} = 1..k
    OBVIOUS
  <2>5. k + 1 \in 1..n
    OBVIOUS
  <2>6. s[k + 1] = t[k + 1]
    BY <2>5
  <2> HIDE DEF T
  <2>7. g[T] = Op(g[T \ {Max(T)}], s[Max(T)])
    BY <2>2 DEF Iterates
  <2>8. h[T] = Op(h[T \ {Max(T)}], t[Max(T)])
    BY <2>2 DEF Iterates
  <2> QED BY <2>1, <2>3, <2>4, <2>6, <2>7, <2>8 DEF T
<1> HIDE DEF S
<1>3. Nat \subseteq S
  BY <1>1, <1>2, NumberInduction
<1> QED BY <1>3 DEF S

THEOREM FoldOfEmpty == \A base : Folded(base, << >>) = base
<1> SUFFICES ASSUME NEW base PROVE Folded(base, << >>) = base
  OBVIOUS
<1>1. DOMAIN << >> = 1..0
  OBVIOUS
<1>2. PICK h : Iterates(base, h, 0, << >>) /\ Folded(base, << >>) = h[1..0]
  BY <1>1, FoldIterates
<1>3. 1..0 = {} /\ {} \in SUBSET (1..0)
  OBVIOUS
<1> QED BY <1>2, <1>3 DEF Iterates

THEOREM FoldOfAppend ==
  ASSUME NEW S, NEW base, NEW s \in Seq(S), NEW x
  PROVE  Folded(base, Append(s, x)) = Op(Folded(base, s), x)
<1> DEFINE n == Len(s)
           t == Append(s, x)
           T == 1..(n+1)
<1>1. /\ n \in Nat /\ DOMAIN s = 1..n /\ DOMAIN t = 1..(n + 1)
      /\ t[n + 1] = x /\ \A i \in 1..n : s[i] = t[i]
  OBVIOUS
<1> HIDE DEF n, t
<1>2. PICK g : Iterates(base, g, n, s) /\ Folded(base, s) = g[1..n]
  BY <1>1, FoldIterates
<1>3. PICK h : Iterates(base, h, n + 1, t) /\ Folded(base, t) = h[1..(n+1)]
  BY <1>1, FoldIterates
<1>4. g[1..n] = h[1..n]
  BY <1>1, <1>2, <1>3, IterationsAgree
<1>5. Max(T) = n + 1
  <2>1. n + 1 \in Nat /\ n + 1 > 0
    BY <1>1
  <2> QED BY <2>1, MaxOfUpTo
<1>6. T \in SUBSET (1..(n+1)) /\ T # {} /\ T \ {n + 1} = 1..n
  <2>1. n \in Nat
    BY <1>1
  <2> QED BY <2>1
<1> HIDE DEF T
<1>7. h[T] = Op(h[T \ {Max(T)}], t[Max(T)])
  BY <1>6, <1>3 DEF Iterates
<1> QED BY <1>1, <1>2, <1>3, <1>4, <1>5, <1>6, <1>7 DEF T, t

(* A fold stays in a set that holds its base and that its step keeps.      *)
THEOREM FoldStaysIn ==
  ASSUME NEW S, NEW D, NEW base \in D, \A d \in D, x \in S : Op(d, x) \in D
  PROVE  \A s \in Seq(S) : Folded(base, s) \in D
<1> DEFINE T == { s \in Seq(S) : Folded(base, s) \in D }
<1>1. << >> \in T
  BY FoldOfEmpty
<1>2. \A s \in Seq(S), x \in S : s \in T => Append(s, x) \in T
  BY FoldOfAppend
<1> HIDE DEF T
<1>3. Seq(S) \subseteq T
  BY <1>1, <1>2, SequenceInduction
<1> QED BY <1>3 DEF T

(* The fold over a concatenation goes on where the fold over its first     *)
(* part ends.                                                              *)
THEOREM FoldOfConcat ==
  ASSUME NEW S, NEW base, NEW s \in Seq(S), NEW t \in Seq(S)
  PROVE  Folded(base, s \o t) = Folded(Folded(base, s), t)
<1> DEFINE T == { u \in Seq(S) : Folded(base, s \o u) = Folded(Folded(base, s), u) }
<1>1. << >> \in T
  <2>1. s \o << >> = s
    OBVIOUS
  <2> QED BY <2>1, FoldOfEmpty
<1>2. ASSUME NEW u \in Seq(S), NEW x \in S, u \in T PROVE Append(u, x) \in T
  <2> DEFINE v == s \o u
  <2>1. s \o Append(u, x) = Append(v, x) /\ v \in Seq(S)
    OBVIOUS
  <2>2. Folded(base, v) = Folded(Folded(base, s), u)
    BY <1>2
  <2> HIDE DEF v
  <2>3. Folded(base, Append(v, x)) = Op(Folded(base, v), x)
    BY <2>1, FoldOfAppend
  <2>4. Folded(Folded(base, s), Append(u, x)) = Op(Folded(Folded(base, s), u), x)
    BY FoldOfAppend
  <2>5. Folded(base, s \o Append(u, x)) = Folded(Folded(base, s), Append(u, x))
    BY <2>2, <2>1, <2>3, <2>4
  <2>6. Append(u, x) \in Seq(S)
    OBVIOUS
  <2> QED BY <2>5, <2>6
<1> HIDE DEF T
<1>3. Seq(S) \subseteq T
  BY <1>1, <1>2, SequenceInduction
<1> QED BY <1>3 DEF T

=============================================================================
