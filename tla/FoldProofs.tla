----------------------------- MODULE FoldProofs -----------------------------
(***************************************************************************)
(* What the folds of the modules compute, for every set and every sequence *)
(* they are given: sums over finite sets, folds over sequences from the    *)
(* left, and the flattening of a sequence of sequences.  Each is defined   *)
(* by a recursive function: that there is one is proved by induction on    *)
(* the size of its argument.  The induction is a fact about the set of the *)
(* numbers, or of the subsets, for which the claim holds.                  *)
(***************************************************************************)
EXTENDS Sums, Selection, SequenceTheorems, FiniteSetTheorems, TLAPS

(* Induction over the naturals, as a fact about a set. *)
LEMMA NatSetInduction ==
    ASSUME NEW S, 0 \in S, \A n \in Nat : n \in S => n + 1 \in S
    PROVE  \A n \in Nat : n \in S
<1> DEFINE T == Nat \ S
<1>1. SUFFICES ASSUME T # {} PROVE FALSE
  OBVIOUS
<1>2. IsWellFoundedOn(OpToRel(<, Nat), Nat)
  BY NatLessThanWellFounded
<1>3. PICK x \in T : \A y \in T : ~ (<<y, x>> \in OpToRel(<, Nat))
  <2> HIDE DEF T
  <2>1. T \subseteq Nat
    BY DEF T
  <2> QED
    BY <1>1, <1>2, <2>1, WFMin, Zenon
<1>4. x \in Nat /\ x # 0
  OBVIOUS
<1>5. x - 1 \in Nat /\ x - 1 < x
  BY <1>4
<1>6. x - 1 \notin T
  BY <1>3, <1>4, <1>5 DEF OpToRel
<1> QED
  BY <1>4, <1>5, <1>6

(* A set of natural numbers has a least element, unless it is empty. *)
LEMMA LeastExists ==
    ASSUME NEW T \in SUBSET Nat, T # {}
    PROVE  \E n \in T : \A m \in T : n <= m
<1>1. IsWellFoundedOn(OpToRel(<, Nat), Nat)
  BY NatLessThanWellFounded
<1>2. PICK n \in T : \A m \in T : ~ (<<m, n>> \in OpToRel(<, Nat))
  BY <1>1, WFMin, Zenon
<1>3. ASSUME NEW m \in T PROVE n <= m
  <2>1. ~ (m < n)
    BY <1>2 DEF OpToRel
  <2> QED BY <2>1
<1> QED BY <1>3

(* pick takes an element of every subset of S but the empty one. *)
IsChoice(pick, S) ==
    /\ pick \in [(SUBSET S) \ {{}} -> S]
    /\ \A s \in (SUBSET S) \ {{}} : pick[s] \in s

(* g folds every subset of S, in that order, from base, by step. *)
IsFold(g, S, base, step, pick) ==
    \A s \in SUBSET S :
        g[s] = IF s = {} THEN base ELSE step[<<pick[s], g[s \ {pick[s]}]>>]

(* There is a function that folds every subset of S, whatever element each *)
(* step takes, and by whatever operation.                                  *)
LEMMA FoldExists ==
    ASSUME NEW S, IsFiniteSet(S), NEW A, NEW base \in A, NEW step \in [S \X A -> A],
           NEW pick, IsChoice(pick, S)
    PROVE  \E g \in [SUBSET S -> A] : IsFold(g, S, base, step, pick)
<1> DEFINE Val(g, s) == IF s = {} THEN base ELSE step[<<pick[s], g[s \ {pick[s]}]>>]
           Good(g, n) == \A s \in SUBSET S : Cardinality(s) <= n => g[s] = Val(g, s)
           N == {n \in Nat : \E g \in [SUBSET S -> A] : Good(g, n)}
<1>1. \A s \in SUBSET S : IsFiniteSet(s) /\ Cardinality(s) \in Nat
  BY FS_Subset, FS_CardinalityType
<1>2. \A s \in SUBSET S : s # {} =>
         /\ pick[s] \in s /\ pick[s] \in S
         /\ s \ {pick[s]} \in SUBSET S /\ Cardinality(s \ {pick[s]}) = Cardinality(s) - 1
  BY <1>1, FS_RemoveElement DEF IsChoice
<1>3. \A s \in SUBSET S : Cardinality(s) = 0 => s = {}
  BY <1>1, FS_EmptySet
<1>4. 0 \in N
  <2> DEFINE z == [s \in SUBSET S |-> base]
  <2>1. z \in [SUBSET S -> A]
    OBVIOUS
  <2>2. Good(z, 0)
    BY <1>1, <1>3
  <2> QED BY <2>1, <2>2
<1>5. ASSUME NEW n \in Nat, n \in N PROVE n + 1 \in N
  <2>1. PICK g \in [SUBSET S -> A] : Good(g, n)
    BY <1>5
  <2> DEFINE h == [s \in SUBSET S |-> Val(g, s)]
  <2>2. \A s \in SUBSET S : s # {} => <<pick[s], g[s \ {pick[s]}]>> \in S \X A
    BY <1>2
  <2>3. h \in [SUBSET S -> A]
    BY <2>2
  <2>4. ASSUME NEW s \in SUBSET S, Cardinality(s) <= n + 1 PROVE h[s] = Val(h, s)
    <3>1. CASE s = {}
      BY <3>1
    <3>2. CASE s # {}
      <4> DEFINE u == s \ {pick[s]}
      <4>1. u \in SUBSET S /\ Cardinality(u) <= n
        BY <1>1, <1>2, <2>4, <3>2
      <4>2. g[u] = Val(g, u) /\ h[u] = Val(g, u)
        <5> HIDE DEF u
        <5> QED BY <2>1, <4>1
      <4>3. h[s] = step[<<pick[s], g[u]>>]
        BY <3>2
      <4> QED BY <3>2, <4>2, <4>3
    <3> QED BY <3>1, <3>2
  <2>5. Good(h, n + 1)
    <3> HIDE DEF h, Val
    <3> QED BY <2>4
  <2> HIDE DEF h, Good
  <2> QED BY <2>3, <2>5
<1>6. Cardinality(S) \in N
  <2> HIDE DEF N
  <2> QED BY <1>1, <1>4, <1>5, NatSetInduction
<1>7. PICK g \in [SUBSET S -> A] : Good(g, Cardinality(S))
  BY <1>6
<1>8. \A s \in SUBSET S : g[s] = Val(g, s)
  <2> HIDE DEF Val
  <2> QED BY <1>7, FS_Subset
<1> QED BY <1>8 DEF IsFold

-----------------------------------------------------------------------------
(* Sums.                                                                   *)

(* The element of s a fold takes first. *)
Pick(s) == CHOOSE x \in s : TRUE

(* g gives every subset of S the sum of f over it. *)
IsSum(g, f, S) ==
    g = [s \in SUBSET S |-> IF s = {} THEN 0 ELSE f[Pick(s)] + g[s \ {Pick(s)}]]

(* There is a function that gives every subset its sum.                    *)
LEMMA SumExists ==
    ASSUME NEW S, IsFiniteSet(S), NEW f \in [S -> Nat]
    PROVE  \E g : IsSum(g, f, S)
<1> DEFINE step == [xn \in S \X Nat |-> f[xn[1]] + xn[2]]
           pick == [s \in (SUBSET S) \ {{}} |-> Pick(s)]
<1>1. /\ 0 \in Nat
      /\ step \in [S \X Nat -> Nat]
      /\ \A x \in S : \A n \in Nat : step[<<x, n>>] = f[x] + n
  OBVIOUS
<1>2. IsChoice(pick, S) /\ \A s \in (SUBSET S) \ {{}} : pick[s] = Pick(s)
  BY DEF Pick, IsChoice
<1> HIDE DEF step, pick
<1>3. PICK g \in [SUBSET S -> Nat] : IsFold(g, S, 0, step, pick)
  BY <1>1, <1>2, FoldExists
<1>4. \A s \in SUBSET S :
         g[s] = IF s = {} THEN 0 ELSE f[Pick(s)] + g[s \ {Pick(s)}]
  <2> TAKE s \in SUBSET S
  <2>1. CASE s = {}
    BY <1>3, <2>1 DEF IsFold
  <2>2. CASE s # {}
    <3>1. pick[s] = Pick(s) /\ Pick(s) \in S
      BY <1>2, <2>2 DEF IsChoice
    <3>2. g[s] = step[<<Pick(s), g[s \ {Pick(s)}]>>]
      BY <1>3, <2>2, <3>1 DEF IsFold
    <3>3. g[s \ {Pick(s)}] \in Nat
      OBVIOUS
    <3> QED BY <1>1, <2>2, <3>1, <3>2, <3>3
  <2> QED BY <2>1, <2>2
<1> QED BY <1>4 DEF IsSum

(* The fold picks one such function and applies it to the whole domain.    *)
LEMMA SumIsSum ==
    ASSUME NEW S, IsFiniteSet(S), NEW f \in [S -> Nat]
    PROVE  \E g : IsSum(g, f, S) /\ SumOf(f) = g[S]
<1> DEFINE iter == CHOOSE g : IsSum(g, f, S)
<1>1. IsSum(iter, f, S)
  BY SumExists, Zenon
<1>2. DOMAIN f = S
  OBVIOUS
<1>3. SumOf(f) = iter[S]
  BY <1>2 DEF SumOf, MapThenFoldSet, IsSum, Pick
<1> QED BY <1>1, <1>3

(* Induction over the subsets of a finite set, as a fact about a set. *)
LEMMA FiniteSetInduction ==
    ASSUME NEW S, IsFiniteSet(S), NEW P, {} \in P,
           \A T \in SUBSET S : \A x \in S \ T : T \in P => T \cup {x} \in P
    PROVE  S \in P
<1> DEFINE N == {n \in Nat : \A T \in SUBSET S : Cardinality(T) = n => T \in P}
<1>1. \A T \in SUBSET S : IsFiniteSet(T) /\ Cardinality(T) \in Nat
  BY FS_Subset, FS_CardinalityType
<1>2. 0 \in N
  BY <1>1, FS_EmptySet
<1>3. ASSUME NEW n \in Nat, n \in N PROVE n + 1 \in N
  <2> SUFFICES ASSUME NEW T \in SUBSET S, Cardinality(T) = n + 1 PROVE T \in P
    OBVIOUS
  <2>1. IsFiniteSet(T) /\ T # {}
    BY <1>1, FS_EmptySet
  <2>2. PICK x : x \in T
    BY <2>1
  <2>3. T \ {x} \in SUBSET S /\ Cardinality(T \ {x}) = n
    <3>1. Cardinality(T \ {x}) = Cardinality(T) - 1
      BY <2>1, <2>2, FS_RemoveElement
    <3> QED BY <2>2, <3>1
  <2>4. T \ {x} \in P
    BY <1>3, <2>3
  <2>5. (T \ {x}) \cup {x} = T /\ x \in S \ (T \ {x})
    BY <2>2
  <2> QED BY <2>3, <2>4, <2>5
<1>4. Cardinality(S) \in N
  <2> HIDE DEF N
  <2> QED BY <1>1, <1>2, <1>3, NatSetInduction
<1> QED BY <1>4

(* What a sum function says of a set: it is a number, that of the empty    *)
(* set is zero, and any element can be taken out first.                    *)
LEMMA SumUnfolds ==
    ASSUME NEW S, IsFiniteSet(S), NEW f \in [S -> Nat], NEW g, IsSum(g, f, S)
    PROVE  /\ g[{}] = 0
           /\ \A s \in SUBSET S : g[s] \in Nat
           /\ \A s \in SUBSET S : \A x \in s : g[s] = f[x] + g[s \ {x}]
<1>1. \A s \in SUBSET S : IsFiniteSet(s) /\ Cardinality(s) \in Nat
  BY FS_Subset, FS_CardinalityType
<1>2. ASSUME NEW s \in SUBSET S, NEW x \in s
      PROVE  s \ {x} \in SUBSET S /\ Cardinality(s \ {x}) = Cardinality(s) - 1
  BY <1>1, FS_RemoveElement
<1>3. g[{}] = 0
  BY DEF IsSum
<1>4. ASSUME NEW s \in SUBSET S, s # {}
      PROVE  Pick(s) \in s /\ g[s] = f[Pick(s)] + g[s \ {Pick(s)}]
  BY <1>4 DEF IsSum, Pick
<1> DEFINE Good(s) == g[s] \in Nat /\ \A x \in s : g[s] = f[x] + g[s \ {x}]
           N == {n \in Nat : \A s \in SUBSET S : Cardinality(s) <= n => Good(s)}
<1>5. 0 \in N
  <2>1. \A s \in SUBSET S : Cardinality(s) <= 0 => s = {}
    BY <1>1, FS_EmptySet
  <2> QED BY <1>3, <2>1
<1>6. ASSUME NEW n \in Nat, n \in N PROVE n + 1 \in N
  <2> SUFFICES ASSUME NEW s \in SUBSET S, Cardinality(s) <= n + 1 PROVE Good(s)
    OBVIOUS
  <2>1. CASE s = {}
    BY <1>3, <2>1
  <2>2. CASE s # {}
    <3> DEFINE c == Pick(s)
               u == s \ {c}
    <3>1. c \in s /\ g[s] = f[c] + g[u] /\ f[c] \in Nat
      BY <1>4, <2>2
    <3>2. u \in SUBSET S /\ Cardinality(u) <= n
      BY <1>1, <1>2, <3>1
    <3> HIDE DEF c
    <3>3. Good(u)
      BY <1>6, <3>2
    <3>4. ASSUME NEW x \in s PROVE g[s] = f[x] + g[s \ {x}]
      <4>1. CASE x = c
        BY <3>1, <4>1
      <4>2. CASE x # c
        <5>1. s \ {x} \in SUBSET S /\ Cardinality(s \ {x}) <= n
          BY <1>1, <1>2
        <5>2. Good(s \ {x})
          BY <1>6, <5>1
        <5>3. g[u] = f[x] + g[u \ {x}] /\ g[s \ {x}] = f[c] + g[(s \ {x}) \ {c}]
          BY <3>1, <3>3, <4>2, <5>2
        <5>4. u \ {x} = (s \ {x}) \ {c}
          OBVIOUS
        <5>5. u \ {x} \in SUBSET S /\ Cardinality(u \ {x}) <= n
          BY <1>1, <1>2, <3>2, <4>2
        <5>6. g[u \ {x}] \in Nat
          BY <1>6, <5>5
        <5>7. f[x] \in Nat
          OBVIOUS
        <5>8. g[s] = f[c] + (f[x] + g[u \ {x}])
          BY <3>1, <5>3
        <5>9. g[s \ {x}] = f[c] + g[u \ {x}]
          BY <5>3, <5>4
        <5> QED BY ONLY <3>1, <5>6, <5>7, <5>8, <5>9
      <4> QED BY <4>1, <4>2
    <3> QED BY <3>1, <3>3, <3>4
  <2> QED BY <2>1, <2>2
<1>7. \A n \in Nat : n \in N
  <2> HIDE DEF N
  <2> QED BY <1>5, <1>6, NatSetInduction
<1>8. \A s \in SUBSET S : Good(s)
  <2> TAKE s \in SUBSET S
  <2>1. Cardinality(s) \in Nat /\ Cardinality(s) \in N
    BY <1>1, <1>7
  <2>2. Cardinality(s) <= Cardinality(s)
    BY <2>1
  <2> HIDE DEF Good
  <2> QED BY <2>1, <2>2
<1> QED BY <1>3, <1>8

(* Two sum functions agree on a set where what they add up agrees. *)
LEMMA SumsAgree ==
    ASSUME NEW S, IsFiniteSet(S), NEW T \in SUBSET S,
           NEW f \in [S -> Nat], NEW e \in [T -> Nat], \A x \in T : f[x] = e[x],
           NEW g, IsSum(g, f, S), NEW h, IsSum(h, e, T)
    PROVE  g[T] = h[T]
<1>1. IsFiniteSet(T)
  BY FS_Subset
<1> DEFINE P == {s \in SUBSET T : g[s] = h[s]}
<1>2. /\ g[{}] = 0 /\ h[{}] = 0
      /\ \A s \in SUBSET T : \A x \in s : g[s] = f[x] + g[s \ {x}]
      /\ \A s \in SUBSET T : \A x \in s : h[s] = e[x] + h[s \ {x}]
  BY <1>1, SumUnfolds
<1>3. {} \in P
  BY <1>2
<1>4. ASSUME NEW s \in SUBSET T, NEW x \in T \ s, s \in P PROVE s \cup {x} \in P
  <2>1. (s \cup {x}) \ {x} = s /\ s \cup {x} \in SUBSET T /\ x \in s \cup {x}
    OBVIOUS
  <2>2. g[s \cup {x}] = f[x] + g[s] /\ h[s \cup {x}] = e[x] + h[s]
    BY <1>2, <2>1, SMTT(30)
  <2> QED BY <1>4, <2>1, <2>2
<1>5. T \in P
  <2> HIDE DEF P
  <2> QED BY <1>1, <1>3, <1>4, FiniteSetInduction
<1> QED BY <1>5

-----------------------------------------------------------------------------
(* What the modules use.                                                   *)

(* A sum of natural numbers is one.                                        *)
LEMMA SumType ==
    ASSUME NEW S, IsFiniteSet(S), NEW f \in [S -> Nat]
    PROVE  SumOf(f) \in Nat
BY SumIsSum, SumUnfolds

(* There is nothing to add up over the empty set.                          *)
LEMMA SumEmpty ==
    ASSUME NEW S, S = {}, NEW f \in [S -> Nat]
    PROVE  SumOf(f) = 0
<1>1. IsFiniteSet(S)
  BY FS_EmptySet
<1>2. PICK g : IsSum(g, f, S) /\ SumOf(f) = g[S]
  BY <1>1, SumIsSum
<1> QED BY <1>1, <1>2, SumUnfolds

(* Any element can be added last.                                          *)
LEMMA SumAdds ==
    ASSUME NEW S, IsFiniteSet(S), NEW f \in [S -> Nat], NEW x \in S
    PROVE  SumOf(f) = f[x] + SumOf([y \in S \ {x} |-> f[y]])
<1> DEFINE T == S \ {x}
           e == [y \in T |-> f[y]]
<1>1. e \in [T -> Nat] /\ T \in SUBSET S /\ \A y \in T : f[y] = e[y]
  OBVIOUS
<1>2. IsFiniteSet(T)
  BY FS_Subset
<1>3. PICK g : IsSum(g, f, S) /\ SumOf(f) = g[S]
  BY SumIsSum
<1> HIDE DEF e
<1>4. PICK h : IsSum(h, e, T) /\ SumOf(e) = h[T]
  BY <1>1, <1>2, SumIsSum
<1>5. g[S] = f[x] + g[T]
  BY <1>3, SumUnfolds, SMTT(30)
<1>6. g[T] = h[T]
  BY <1>1, <1>3, <1>4, SumsAgree
<1>7. SumOf(f) = f[x] + SumOf(e)
  BY <1>3, <1>4, <1>5, <1>6
<1> QED BY <1>7 DEF e

(* The sum of f over a part of its domain. *)
SumOver(f, T) == SumOf([y \in T |-> f[y]])

(* The sum over the empty part is zero, that over the whole domain is the  *)
(* sum, and that of one more element is its value more.                    *)
LEMMA PartialSums ==
    ASSUME NEW S, IsFiniteSet(S), NEW f \in [S -> Nat]
    PROVE  /\ SumOver(f, {}) = 0
           /\ SumOver(f, S) = SumOf(f)
           /\ \A T \in SUBSET S : SumOver(f, T) \in Nat
           /\ \A T \in SUBSET S : \A x \in S \ T :
                 SumOver(f, T \cup {x}) = f[x] + SumOver(f, T)
<1> DEFINE Part(T) == [y \in T |-> f[y]]
<1>1. \A T \in SUBSET S : IsFiniteSet(T) /\ Part(T) \in [T -> Nat]
  BY FS_Subset
<1>2. \A T : SumOver(f, T) = SumOf(Part(T))
  BY DEF SumOver
<1>3. Part(S) = f
  OBVIOUS
<1>4. ASSUME NEW T \in SUBSET S, NEW x \in S \ T
      PROVE  SumOf(Part(T \cup {x})) = f[x] + SumOf(Part(T))
  <2> DEFINE U == T \cup {x}
             e == Part(U)
  <2>1. U \in SUBSET S /\ x \in U /\ e[x] = f[x]
    OBVIOUS
  <2>2. [y \in U \ {x} |-> e[y]] = Part(T)
    <3>1. U \ {x} = T
      OBVIOUS
    <3>2. \A y \in T : e[y] = f[y]
      OBVIOUS
    <3> HIDE DEF e, U
    <3> QED BY <3>1, <3>2
  <2>3. IsFiniteSet(U) /\ e \in [U -> Nat]
    BY <1>1, <2>1
  <2> HIDE DEF e, U, Part
  <2>4. SumOf(e) = e[x] + SumOf([y \in U \ {x} |-> e[y]])
    BY <2>1, <2>3, SumAdds
  <2>5. SumOf(e) = f[x] + SumOf(Part(T))
    BY <2>1, <2>2, <2>4
  <2> QED BY <2>5 DEF e, U
<1> HIDE DEF Part
<1>5. SumOf(Part({})) = 0
  BY <1>1, SumEmpty
<1>6. \A T \in SUBSET S : SumOf(Part(T)) \in Nat
  BY <1>1, SumType
<1> QED BY <1>2, <1>3, <1>4, <1>5, <1>6

(* The sum of sums is the sum of them.                                     *)
LEMMA SumPointwise ==
    ASSUME NEW S, IsFiniteSet(S), NEW f \in [S -> Nat], NEW e \in [S -> Nat]
    PROVE  SumOf([x \in S |-> f[x] + e[x]]) = SumOf(f) + SumOf(e)
<1> DEFINE d == [x \in S |-> f[x] + e[x]]
           P == {T \in SUBSET S : SumOver(d, T) = SumOver(f, T) + SumOver(e, T)}
<1>1. d \in [S -> Nat] /\ \A x \in S : d[x] = f[x] + e[x]
  OBVIOUS
<1> HIDE DEF d
<1>2. {} \in P
  BY <1>1, PartialSums
<1>3. ASSUME NEW T \in SUBSET S, NEW x \in S \ T, T \in P PROVE T \cup {x} \in P
  <2>1. SumOver(d, T) = SumOver(f, T) + SumOver(e, T)
    BY <1>3
  <2>2. /\ SumOver(d, T \cup {x}) = d[x] + SumOver(d, T)
        /\ SumOver(f, T \cup {x}) = f[x] + SumOver(f, T)
        /\ SumOver(e, T \cup {x}) = e[x] + SumOver(e, T)
        /\ SumOver(f, T) \in Nat /\ SumOver(e, T) \in Nat
    BY <1>1, PartialSums
  <2>3. d[x] = f[x] + e[x] /\ f[x] \in Nat /\ e[x] \in Nat
    BY <1>1
  <2>4. SumOver(d, T \cup {x}) = SumOver(f, T \cup {x}) + SumOver(e, T \cup {x})
    BY ONLY <2>1, <2>2, <2>3
  <2> QED BY <2>4
<1>4. S \in P
  <2> HIDE DEF P
  <2> QED BY <1>2, <1>3, FiniteSetInduction
<1>5. SumOf(d) = SumOf(f) + SumOf(e)
  BY <1>1, <1>4, PartialSums
<1> QED BY <1>5 DEF d

(* Zeros add up to zero.                                                   *)
LEMMA SumZeros ==
    ASSUME NEW S, IsFiniteSet(S)
    PROVE  SumOf([x \in S |-> 0]) = 0
<1> DEFINE z == [x \in S |-> 0]
<1>1. z \in [S -> Nat] /\ [x \in S |-> z[x] + z[x]] = z
  OBVIOUS
<1> HIDE DEF z
<1>2. SumOf(z) \in Nat
  BY <1>1, SumType
<1>3. SumOf([x \in S |-> z[x] + z[x]]) = SumOf(z) + SumOf(z)
  BY <1>1, SumPointwise
<1>4. SumOf(z) = 0
  BY <1>1, <1>2, <1>3, SMTT(30)
<1> QED BY <1>4 DEF z

(* The sizes of disjoint finite sets add up to the size of their union.    *)
LEMMA DisjointSizes ==
    ASSUME NEW S, IsFiniteSet(S), NEW F,
           \A x \in S : IsFiniteSet(F[x]),
           \A x, y \in S : x # y => F[x] \cap F[y] = {}
    PROVE  /\ IsFiniteSet(UNION {F[x] : x \in S})
           /\ Cardinality(UNION {F[x] : x \in S}) = SumOf([x \in S |-> Cardinality(F[x])])
<1> DEFINE size == [x \in S |-> Cardinality(F[x])]
           All(T) == UNION {F[x] : x \in T}
           P == {T \in SUBSET S : IsFiniteSet(All(T)) /\ Cardinality(All(T)) = SumOver(size, T)}
<1>1. size \in [S -> Nat] /\ \A x \in S : size[x] = Cardinality(F[x])
  BY FS_CardinalityType
<1> HIDE DEF size
<1>2. {} \in P
  <2>1. All({}) = {} /\ SumOver(size, {}) = 0
    BY <1>1, PartialSums
  <2>2. IsFiniteSet({}) /\ Cardinality({}) = 0
    BY FS_EmptySet
  <2> HIDE DEF All
  <2> QED BY <2>1, <2>2
<1>3. ASSUME NEW T \in SUBSET S, NEW x \in S \ T, T \in P PROVE T \cup {x} \in P
  <2>1. All(T \cup {x}) = All(T) \cup F[x] /\ All(T) \cap F[x] = {}
    OBVIOUS
  <2>2. IsFiniteSet(All(T)) /\ Cardinality(All(T)) = SumOver(size, T)
    BY <1>3
  <2>3. IsFiniteSet(F[x])
    OBVIOUS
  <2> HIDE DEF All
  <2>4. /\ IsFiniteSet(All(T) \cup F[x])
        /\ Cardinality(All(T) \cup F[x]) = Cardinality(All(T)) + Cardinality(F[x])
    <3>1. Cardinality(All(T) \cap F[x]) = 0
      BY <2>1, FS_EmptySet
    <3>2. Cardinality(All(T)) \in Nat /\ Cardinality(F[x]) \in Nat
      BY <2>2, <2>3, FS_CardinalityType
    <3>3. /\ IsFiniteSet(All(T) \cup F[x])
          /\ Cardinality(All(T) \cup F[x])
               = Cardinality(All(T)) + Cardinality(F[x]) - Cardinality(All(T) \cap F[x])
      <4> HIDE DEF P
      <4> QED BY ONLY <2>2, <2>3, FS_Union
    <3> QED BY ONLY <3>1, <3>2, <3>3
  <2>5. SumOver(size, T \cup {x}) = Cardinality(F[x]) + SumOver(size, T)
    BY <1>1, PartialSums
  <2>6. SumOver(size, T) \in Nat /\ Cardinality(F[x]) \in Nat
    BY <1>1, PartialSums
  <2>7. Cardinality(All(T) \cup F[x]) = SumOver(size, T \cup {x})
    BY ONLY <2>2, <2>4, <2>5, <2>6
  <2>8. IsFiniteSet(All(T \cup {x})) /\ Cardinality(All(T \cup {x})) = SumOver(size, T \cup {x})
    BY ONLY <2>1, <2>4, <2>7
  <2> QED BY <2>8
<1>4. S \in P
  <2> HIDE DEF P
  <2> QED BY <1>2, <1>3, FiniteSetInduction
<1>5. IsFiniteSet(All(S)) /\ Cardinality(All(S)) = SumOf(size)
  BY <1>1, <1>4, PartialSums
<1> QED BY <1>5 DEF size

-----------------------------------------------------------------------------
(* Folds over sequences.                                                   *)

(* A fold over a sequence from the left takes the last index first: it     *)
(* goes down the prefixes of the sequence.                                 *)
LEMMA LastFirst ==
    ASSUME NEW n \in Nat
    PROVE  /\ IsFiniteSet(1 .. n) /\ 1 .. 0 = {}
           /\ IsChoice([s \in (SUBSET (1 .. n)) \ {{}} |-> Max(s)], 1 .. n)
           /\ \A k \in 1 .. n : /\ 1 .. k \in SUBSET (1 .. n) /\ 1 .. k # {}
                               /\ Max(1 .. k) = k /\ (1 .. k) \ {Max(1 .. k)} = 1 .. (k - 1)
<1>1. IsFiniteSet(1 .. n)
  BY FS_Interval
<1>2. ASSUME NEW s \in SUBSET (1 .. n), s # {} PROVE Max(s) \in s
  <2> DEFINE N == {m \in Nat : \A u \in SUBSET (1 .. n) :
                      u # {} /\ u \subseteq 1 .. m => \E x \in u : \A y \in u : x >= y}
  <2>1. 0 \in N
    <3>1. 1 .. 0 = {}
      OBVIOUS
    <3> QED BY <3>1
  <2>2. ASSUME NEW m \in Nat, m \in N PROVE m + 1 \in N
    <3> SUFFICES ASSUME NEW u \in SUBSET (1 .. n), u # {}, u \subseteq 1 .. (m + 1)
                 PROVE  \E x \in u : \A y \in u : x >= y
      OBVIOUS
    <3>1. CASE m + 1 \in u
      BY <3>1
    <3>2. CASE m + 1 \notin u
      <4>1. u \subseteq 1 .. m
        BY <3>2
      <4> QED BY <2>2, <4>1
    <3> QED BY <3>1, <3>2
  <2>3. n \in N
    <3> HIDE DEF N
    <3> QED BY <2>1, <2>2, NatSetInduction
  <2>4. \E x \in s : \A y \in s : x >= y
    BY <1>2, <2>3
  <2> QED BY <2>4 DEF Max
<1>3. ASSUME NEW k \in 1 .. n
      PROVE  Max(1 .. k) = k
  <2>1. k \in 1 .. k /\ \A y \in 1 .. k : k >= y
    OBVIOUS
  <2>2. \A x \in 1 .. k : (\A y \in 1 .. k : x >= y) => x = k
    BY <2>1
  <2> QED BY <2>1, <2>2 DEF Max
<1>4. ASSUME NEW k \in 1 .. n
      PROVE  1 .. k \in SUBSET (1 .. n) /\ 1 .. k # {} /\ (1 .. k) \ {k} = 1 .. (k - 1)
  OBVIOUS
<1>5. IsChoice([s \in (SUBSET (1 .. n)) \ {{}} |-> Max(s)], 1 .. n)
  BY <1>2, Zenon DEF IsChoice
<1>6. 1 .. 0 = {}
  OBVIOUS
<1> QED BY <1>1, <1>3, <1>4, <1>5, <1>6

(* g folds every subset of 1 .. n, from its last element, by step. *)
IsLeftFold(g, n, base, step) ==
    \A s \in SUBSET (1 .. n) :
        g[s] = IF s = {} THEN base ELSE step[<<Max(s), g[s \ {Max(s)}]>>]

(* There is such a function.                                               *)
LEMMA LeftFoldExists ==
    ASSUME NEW n \in Nat, NEW A, NEW base \in A, NEW step \in [(1 .. n) \X A -> A]
    PROVE  \E g \in [SUBSET (1 .. n) -> A] : IsLeftFold(g, n, base, step)
<1> DEFINE pick == [s \in (SUBSET (1 .. n)) \ {{}} |-> Max(s)]
<1>1. IsFiniteSet(1 .. n) /\ IsChoice(pick, 1 .. n)
  BY LastFirst
<1>2. \A s \in SUBSET (1 .. n) : s # {} => pick[s] = Max(s)
  OBVIOUS
<1> HIDE DEF pick
<1>3. PICK g \in [SUBSET (1 .. n) -> A] : IsFold(g, 1 .. n, base, step, pick)
  BY <1>1, FoldExists
<1>4. ASSUME NEW s \in SUBSET (1 .. n)
      PROVE  g[s] = IF s = {} THEN base ELSE step[<<Max(s), g[s \ {Max(s)}]>>]
  BY <1>2, <1>3 DEF IsFold
<1> QED BY <1>3, <1>4 DEF IsLeftFold

(* g flattens every prefix of ss. *)
IsFlat(g, ss) ==
    g = [i \in 1 .. Len(ss) |-> IF i = 1 THEN ss[i] ELSE g[i - 1] \o ss[i]]

(* There is a function that flattens every prefix.                         *)
LEMMA FlatExists ==
    ASSUME NEW X, NEW ss \in Seq(Seq(X))
    PROVE  \E g : IsFlat(g, ss)
<1> DEFINE n == Len(ss)
           step == [xa \in (1 .. n) \X Seq(X) |->
                       IF xa[1] = 1 THEN ss[xa[1]] ELSE xa[2] \o ss[xa[1]]]
           pick == [s \in (SUBSET (1 .. n)) \ {{}} |-> Max(s)]
<1>1. n \in Nat /\ \A i \in 1 .. n : ss[i] \in Seq(X)
  OBVIOUS
<1> HIDE DEF n
<1>2. /\ <<>> \in Seq(X)
      /\ step \in [(1 .. n) \X Seq(X) -> Seq(X)]
      /\ \A i \in 1 .. n : \A a \in Seq(X) :
            step[<<i, a>>] = IF i = 1 THEN ss[i] ELSE a \o ss[i]
  <2>1. \A i \in 1 .. n : \A a \in Seq(X) : a \o ss[i] \in Seq(X)
    BY <1>1
  <2>2. ASSUME NEW i \in 1 .. n, NEW a \in Seq(X)
        PROVE  step[<<i, a>>] = IF i = 1 THEN ss[i] ELSE a \o ss[i]
    <3>1. <<i, a>> \in (1 .. n) \X Seq(X) /\ <<i, a>>[1] = i /\ <<i, a>>[2] = a
      OBVIOUS
    <3> QED BY <3>1
  <2>3. step \in [(1 .. n) \X Seq(X) -> Seq(X)]
    <3>1. ASSUME NEW xa \in (1 .. n) \X Seq(X)
          PROVE  (IF xa[1] = 1 THEN ss[xa[1]] ELSE xa[2] \o ss[xa[1]]) \in Seq(X)
      <4>1. xa[1] \in 1 .. n /\ xa[2] \in Seq(X)
        OBVIOUS
      <4> QED BY <1>1, <2>1, <4>1
    <3> QED BY <3>1
  <2>4. <<>> \in Seq(X)
    OBVIOUS
  <2> HIDE DEF step
  <2> QED BY <2>2, <2>3, <2>4
<1>3. /\ IsFiniteSet(1 .. n) /\ IsChoice(pick, 1 .. n)
      /\ \A k \in 1 .. n : /\ 1 .. k \in SUBSET (1 .. n) /\ 1 .. k # {}
                          /\ pick[1 .. k] = k /\ (1 .. k) \ {k} = 1 .. (k - 1)
  BY <1>1, LastFirst
<1> HIDE DEF step, pick
<1>4. PICK g \in [SUBSET (1 .. n) -> Seq(X)] : IsFold(g, 1 .. n, <<>>, step, pick)
  BY <1>2, <1>3, FoldExists
<1> DEFINE f == [i \in 1 .. n |-> g[1 .. i]]
<1>5. ASSUME NEW i \in 1 .. n
      PROVE  f[i] = IF i = 1 THEN ss[i] ELSE f[i - 1] \o ss[i]
  <2>1. g[1 .. i] = step[<<i, g[1 .. (i - 1)]>>]
    BY <1>3, <1>4, ZenonT(30) DEF IsFold
  <2>2. 1 .. (i - 1) \in SUBSET (1 .. n)
    BY <1>1
  <2>3. g[1 .. (i - 1)] \in Seq(X)
    BY <1>4, <2>2
  <2>4. f[i] = IF i = 1 THEN ss[i] ELSE g[1 .. (i - 1)] \o ss[i]
    BY <1>2, <2>1, <2>3
  <2>5. i # 1 => i - 1 \in 1 .. n
    BY <1>1
  <2> QED BY <2>4, <2>5
<1>6. f = [i \in 1 .. n |-> IF i = 1 THEN ss[i] ELSE f[i - 1] \o ss[i]]
  <2>1. DOMAIN f = 1 .. n /\ f = [i \in DOMAIN f |-> f[i]]
    OBVIOUS
  <2> HIDE DEF f
  <2> QED BY <1>5, <2>1
<1> QED BY <1>6 DEF IsFlat, n

(* g[i] is the flattening of the first i sequences of ss, for i up to n. *)
FlattensTo(g, ss, n) ==
    g[1] = ss[1] /\ \A i \in 2 .. n : g[i] = g[i - 1] \o ss[i]
Flattens(g, X, ss) == g \in [1 .. Len(ss) -> Seq(X)] /\ FlattensTo(g, ss, Len(ss))

(* The flattening is what such a function says of the whole; what it says  *)
(* of a prefix is a sequence.                                              *)
LEMMA FlatIsFlat ==
    ASSUME NEW X, NEW ss \in Seq(Seq(X)), ss # <<>>
    PROVE  \E g : Flattens(g, X, ss) /\ FlattenSeq(ss) = g[Len(ss)]
<1> DEFINE g == CHOOSE h : IsFlat(h, ss)
<1>1. IsFlat(g, ss)
  BY FlatExists, Zenon
<1>2. Len(ss) # 0 /\ Len(ss) \in Nat
  OBVIOUS
<1>3. FlattenSeq(ss) = g[Len(ss)]
  BY <1>2 DEF FlattenSeq, IsFlat
<1> HIDE DEF g
<1>4. /\ \A i \in 1 .. Len(ss) : g[i] = IF i = 1 THEN ss[i] ELSE g[i - 1] \o ss[i]
      /\ DOMAIN g = 1 .. Len(ss)
  BY <1>1 DEF IsFlat
<1>5. g[1] = ss[1] /\ \A i \in 2 .. Len(ss) : g[i] = g[i - 1] \o ss[i]
  <2>1. 1 \in 1 .. Len(ss) /\ \A i \in 2 .. Len(ss) : i \in 1 .. Len(ss) /\ i # 1
    BY <1>2
  <2> QED BY <1>4, <2>1
<1> DEFINE N == {n \in Nat : n + 1 <= Len(ss) => g[n + 1] \in Seq(X)}
<1>6. 0 \in N
  BY <1>2, <1>5
<1>7. ASSUME NEW n \in Nat, n \in N PROVE n + 1 \in N
  <2> SUFFICES ASSUME n + 2 <= Len(ss) PROVE g[n + 2] \in Seq(X)
    OBVIOUS
  <2>1. g[n + 2] = g[n + 1] \o ss[n + 2]
    <3>1. n + 2 \in 2 .. Len(ss) /\ (n + 2) - 1 = n + 1
      OBVIOUS
    <3> HIDE DEF N
    <3> QED BY <1>5, <3>1
  <2>2. g[n + 1] \in Seq(X) /\ ss[n + 2] \in Seq(X)
    BY <1>7
  <2> QED BY <2>1, <2>2
<1>8. \A n \in Nat : n \in N
  <2> HIDE DEF N
  <2> QED BY <1>6, <1>7, NatSetInduction
<1>9. \A i \in 1 .. Len(ss) : g[i] \in Seq(X)
  <2> TAKE i \in 1 .. Len(ss)
  <2>1. i - 1 \in N /\ (i - 1) + 1 = i
    BY <1>8, SMTT(30)
  <2> QED BY <2>1
<1>10. g \in [1 .. Len(ss) -> Seq(X)]
  BY <1>1, <1>9 DEF IsFlat
<1>11. Flattens(g, X, ss)
  BY <1>5, <1>10 DEF Flattens, FlattensTo
<1> QED BY <1>3, <1>11

(* Two functions that flatten sequences that agree on a prefix agree on it.*)
LEMMA FlatsAgree ==
    ASSUME NEW ss, NEW tt, NEW n \in Nat \ {0}, \A i \in 1 .. n : ss[i] = tt[i],
           NEW g, FlattensTo(g, ss, n), NEW h, FlattensTo(h, tt, n)
    PROVE  g[n] = h[n]
<1> DEFINE N == {m \in Nat : m + 1 <= n => g[m + 1] = h[m + 1]}
<1>1. 0 \in N
  BY DEF FlattensTo
<1>2. ASSUME NEW m \in Nat, m \in N PROVE m + 1 \in N
  <2> SUFFICES ASSUME m + 2 <= n PROVE g[m + 2] = h[m + 2]
    OBVIOUS
  <2>1. m + 2 \in 2 .. n /\ m + 2 \in 1 .. n /\ (m + 2) - 1 = m + 1
    OBVIOUS
  <2>2. g[m + 1] = h[m + 1]
    BY <1>2
  <2>3. g[m + 2] = g[m + 1] \o ss[m + 2] /\ h[m + 2] = h[m + 1] \o tt[m + 2]
    <3> HIDE DEF N
    <3> QED BY <2>1 DEF FlattensTo
  <2>4. ss[m + 2] = tt[m + 2]
    BY <2>1
  <2> HIDE DEF N
  <2> QED BY <2>2, <2>3, <2>4
<1>3. \A m \in Nat : m \in N
  <2> HIDE DEF N
  <2> QED BY <1>1, <1>2, NatSetInduction
<1>4. n - 1 \in Nat /\ (n - 1) + 1 = n
  OBVIOUS
<1>5. n - 1 \in N
  BY <1>3, <1>4
<1> QED BY ONLY <1>4, <1>5

(* Flattening nothing gives nothing.                                       *)
LEMMA FlatEmpty == FlattenSeq(<<>>) = <<>>
BY DEF FlattenSeq

(* The flattening of sequences is a sequence.                              *)
LEMMA FlatType ==
    ASSUME NEW X, NEW ss \in Seq(Seq(X))
    PROVE  FlattenSeq(ss) \in Seq(X)
<1>1. CASE ss = <<>>
  <2>1. <<>> \in Seq(X)
    OBVIOUS
  <2> QED BY <1>1, <2>1, FlatEmpty, Zenon
<1>2. CASE ss # <<>>
  <2>1. Len(ss) \in 1 .. Len(ss)
    BY <1>2
  <2>2. PICK g : Flattens(g, X, ss) /\ FlattenSeq(ss) = g[Len(ss)]
    BY <1>2, FlatIsFlat
  <2>3. g \in [1 .. Len(ss) -> Seq(X)]
    BY <2>2 DEF Flattens
  <2> QED BY <2>1, <2>2, <2>3
<1> QED BY <1>1, <1>2

(* One more sequence comes at the end.                                     *)
LEMMA FlatAppend ==
    ASSUME NEW X, NEW ss \in Seq(Seq(X)), NEW t \in Seq(X)
    PROVE  FlattenSeq(Append(ss, t)) = FlattenSeq(ss) \o t
<1> DEFINE tt == Append(ss, t)
           n  == Len(ss)
<1>1. /\ tt \in Seq(Seq(X)) /\ tt # <<>> /\ Len(tt) = n + 1 /\ n \in Nat
      /\ tt[n + 1] = t /\ \A i \in 1 .. n : tt[i] = ss[i]
  BY AppendProperties
<1>2. n = 0 <=> ss = <<>>
  OBVIOUS
<1> HIDE DEF tt, n
<1>3. PICK h : Flattens(h, X, tt) /\ FlattenSeq(tt) = h[Len(tt)]
  BY <1>1, FlatIsFlat
<1>4. h[1] = tt[1] /\ \A i \in 2 .. n + 1 : h[i] = h[i - 1] \o tt[i]
  BY <1>1, <1>3 DEF Flattens, FlattensTo
<1>5. CASE ss = <<>>
  <2>1. n = 0
    BY <1>2, <1>5
  <2>2. FlattenSeq(tt) = t
    BY <1>1, <1>3, <1>4, <2>1
  <2>3. <<>> \o t = t
    OBVIOUS
  <2> QED BY <1>5, <2>2, <2>3, FlatEmpty, Zenon DEF tt
<1>6. CASE ss # <<>>
  <2>1. PICK g : Flattens(g, X, ss) /\ FlattenSeq(ss) = g[n]
    BY <1>6, FlatIsFlat DEF n
  <2>2. n \in Nat \ {0} /\ 2 .. n \subseteq 2 .. n + 1
    BY <1>1, <1>2, <1>6
  <2>3. FlattensTo(g, ss, n)
    BY <2>1 DEF Flattens, n
  <2>4. FlattensTo(h, tt, n)
    BY <1>4, <2>2 DEF FlattensTo
  <2>5. \A i \in 1 .. n : ss[i] = tt[i]
    BY <1>1
  <2>6. g[n] = h[n]
    BY <2>2, <2>3, <2>4, <2>5, FlatsAgree, SMTT(30)
  <2>7. n + 1 \in 2 .. n + 1 /\ (n + 1) - 1 = n
    BY <2>2
  <2>8. h[n + 1] = h[n] \o t
    BY <1>1, <1>4, <2>7
  <2> QED BY <1>1, <1>3, <2>1, <2>6, <2>8 DEF tt
<1> QED BY <1>5, <1>6

(* One sequence is its own flattening.                                     *)
LEMMA FlatOne ==
    ASSUME NEW X, NEW t \in Seq(X)
    PROVE  FlattenSeq(<<t>>) = t
<1>1. <<>> \in Seq(Seq(X)) /\ <<t>> = Append(<<>>, t) /\ <<>> \o t = t
  OBVIOUS
<1>2. FlattenSeq(Append(<<>>, t)) = FlattenSeq(<<>>) \o t
  BY <1>1, FlatAppend
<1> QED BY <1>1, <1>2, FlatEmpty

-----------------------------------------------------------------------------
(* Selections.                                                             *)

(* What is kept of a sequence are elements of it that are to be kept.      *)
LEMMA KeptType ==
    ASSUME NEW X, NEW S, NEW s \in Seq(X)
    PROVE  Kept(s, S) \in Seq(X \cap S)
<1> DEFINE part(k) == IF s[k] \in S THEN <<s[k]>> ELSE <<>>
           ss      == [k \in 1 .. Len(s) |-> part(k)]
<1>1. DOMAIN s = 1 .. Len(s) /\ Len(s) \in Nat
  OBVIOUS
<1>2. ASSUME NEW k \in 1 .. Len(s) PROVE part(k) \in Seq(X \cap S)
  <2>1. CASE s[k] \in S
    <3>1. s[k] \in X \cap S
      BY <2>1
    <3> QED BY <2>1, <3>1
  <2>2. CASE s[k] \notin S
    BY <2>2
  <2> QED BY <2>1, <2>2
<1>3. ss \in Seq(Seq(X \cap S))
  <2> HIDE DEF part
  <2>1. ss \in [1 .. Len(s) -> Seq(X \cap S)]
    BY <1>2
  <2> HIDE DEF ss
  <2> QED BY <1>1, <2>1
<1>4. Kept(s, S) = FlattenSeq(ss)
  BY <1>1 DEF Kept
<1> HIDE DEF ss
<1> QED BY <1>3, <1>4, FlatType

(* So they are elements of the sequence.                                   *)
LEMMA KeptIn ==
    ASSUME NEW X, NEW S, NEW s \in Seq(X)
    PROVE  Kept(s, S) \in Seq(ToSet(s)) /\ s \in Seq(ToSet(s))
<1> DEFINE Y == ToSet(s)
           t == Kept(s, S)
<1>1. s \in Seq(Y)
  <2>1. s \in [1 .. Len(s) -> Y] /\ Len(s) \in Nat
    BY DEF ToSet
  <2> HIDE DEF Y
  <2> QED BY <2>1
<1>2. t \in Seq(Y \cap S)
  <2> HIDE DEF Y
  <2> QED BY <1>1, KeptType
<1>3. t \in [1 .. Len(t) -> Y] /\ Len(t) \in Nat
  <2> HIDE DEF Y, t
  <2> QED BY <1>2
<1>4. t \in Seq(Y)
  <2> HIDE DEF Y, t
  <2> QED BY <1>3
<1> QED BY <1>1, <1>4

-----------------------------------------------------------------------------
(* Sequences, one element after the other.                                 *)

(* Induction over the sequences of a set, as a fact about a set. *)
LEMMA SeqSetInduction ==
    ASSUME NEW X, NEW P, <<>> \in P,
           \A s \in Seq(X) : \A x \in X : s \in P => Append(s, x) \in P
    PROVE  \A s \in Seq(X) : s \in P
<1> DEFINE N == {n \in Nat : \A s \in Seq(X) : Len(s) = n => s \in P}
<1>1. 0 \in N
  <2>1. \A s \in Seq(X) : Len(s) = 0 => s = <<>>
    OBVIOUS
  <2> QED BY <2>1
<1>2. ASSUME NEW n \in Nat, n \in N PROVE n + 1 \in N
  <2> SUFFICES ASSUME NEW s \in Seq(X), Len(s) = n + 1 PROVE s \in P
    OBVIOUS
  <2>1. s # <<>>
    OBVIOUS
  <2>2. PICK t \in Seq(X), x \in X : s = Append(t, x)
    BY <2>1, SequenceEmptyOrAppend
  <2>3. Len(t) = n
    BY <2>2, AppendProperties
  <2>4. t \in P
    BY <1>2, <2>3
  <2> QED BY <2>2, <2>4
<1>3. \A n \in Nat : n \in N
  <2> HIDE DEF N
  <2> QED BY <1>1, <1>2, NatSetInduction
<1> QED BY <1>3

(* The elements of a longer sequence.                                      *)
LEMMA ToSetAppend ==
    ASSUME NEW X, NEW s \in Seq(X), NEW x \in X
    PROVE  ToSet(Append(s, x)) = ToSet(s) \cup {x}
<1> DEFINE t == Append(s, x)
<1>1. /\ t \in Seq(X) /\ Len(t) = Len(s) + 1 /\ t[Len(s) + 1] = x
      /\ \A i \in 1 .. Len(s) : t[i] = s[i]
      /\ DOMAIN s = 1 .. Len(s) /\ DOMAIN t = 1 .. (Len(s) + 1) /\ Len(s) \in Nat
  BY AppendProperties
<1> HIDE DEF t
<1>2. ToSet(t) \subseteq ToSet(s) \cup {x}
  <2> SUFFICES ASSUME NEW i \in 1 .. (Len(s) + 1) PROVE t[i] \in ToSet(s) \cup {x}
    BY <1>1 DEF ToSet
  <2>1. i \in 1 .. Len(s) \/ i = Len(s) + 1
    BY <1>1
  <2> QED BY <1>1, <2>1 DEF ToSet
<1>3. ToSet(s) \cup {x} \subseteq ToSet(t)
  <2>1. \A i \in 1 .. Len(s) : i \in 1 .. (Len(s) + 1)
    BY <1>1
  <2>2. Len(s) + 1 \in 1 .. (Len(s) + 1)
    BY <1>1
  <2> QED BY <1>1, <2>1, <2>2 DEF ToSet
<1>4. ToSet(t) = ToSet(s) \cup {x}
  BY <1>2, <1>3
<1> QED BY <1>4 DEF t

(* One more element is kept or left out.                                   *)
LEMMA KeptAppend ==
    ASSUME NEW X, NEW S, NEW s \in Seq(X), NEW x \in X
    PROVE  Kept(Append(s, x), S) = IF x \in S THEN Append(Kept(s, S), x) ELSE Kept(s, S)
<1> DEFINE one(y) == IF y \in S THEN <<y>> ELSE <<>>
           t  == Append(s, x)
           ss == [k \in 1 .. Len(s) |-> one(s[k])]
           tt == [k \in 1 .. Len(t) |-> one(t[k])]
<1>1. /\ t \in Seq(X) /\ Len(t) = Len(s) + 1 /\ t[Len(s) + 1] = x
      /\ \A i \in 1 .. Len(s) : t[i] = s[i]
      /\ DOMAIN s = 1 .. Len(s) /\ DOMAIN t = 1 .. Len(t) /\ Len(s) \in Nat
  BY AppendProperties
<1>2. Kept(s, S) = FlattenSeq(ss) /\ Kept(t, S) = FlattenSeq(tt)
  BY <1>1 DEF Kept
<1>3. \A y \in X : one(y) \in Seq(X)
  OBVIOUS
<1> HIDE DEF one
<1>4. ss \in Seq(Seq(X)) /\ Len(ss) = Len(s)
  <2>1. ss \in [1 .. Len(s) -> Seq(X)]
    BY <1>1, <1>3
  <2> HIDE DEF ss
  <2> QED BY <1>1, <2>1
<1>5. tt = Append(ss, one(x))
  <2> HIDE DEF t
  <2>1. tt \in Seq(Seq(X)) /\ Len(tt) = Len(s) + 1
    <3>1. tt \in [1 .. Len(t) -> Seq(X)] /\ Len(t) \in Nat
      BY <1>1, <1>3
    <3> HIDE DEF tt
    <3> QED BY <1>1, <3>1
  <2>2. /\ Append(ss, one(x)) \in Seq(Seq(X)) /\ Len(Append(ss, one(x))) = Len(s) + 1
        /\ \A i \in 1 .. Len(s) : Append(ss, one(x))[i] = ss[i]
        /\ Append(ss, one(x))[Len(s) + 1] = one(x)
    BY <1>3, <1>4, AppendProperties
  <2>3. ASSUME NEW i \in 1 .. (Len(s) + 1) PROVE tt[i] = Append(ss, one(x))[i]
    <3>1. tt[i] = one(t[i])
      BY <1>1
    <3>2. i \in 1 .. Len(s) \/ i = Len(s) + 1
      BY <1>1
    <3>3. i \in 1 .. Len(s) => ss[i] = one(s[i]) /\ t[i] = s[i]
      BY <1>1
    <3> QED BY <1>1, <2>2, <3>1, <3>2, <3>3
  <2> HIDE DEF tt, ss
  <2> QED BY <2>1, <2>2, <2>3, SeqEqual
<1> HIDE DEF ss, tt
<1>6. FlattenSeq(tt) = FlattenSeq(ss) \o one(x) /\ FlattenSeq(ss) \in Seq(X)
  BY <1>3, <1>4, <1>5, FlatAppend, FlatType
<1>7. Kept(t, S) = Kept(s, S) \o one(x) /\ Kept(s, S) \in Seq(X)
  BY <1>2, <1>6
<1>8. CASE x \in S
  <2>1. one(x) = <<x>>
    BY <1>8 DEF one
  <2> QED BY <1>7, <1>8, <2>1, AppendIsConcat DEF t
<1>9. CASE x \notin S
  <2>1. one(x) = <<>>
    BY <1>9 DEF one
  <2> QED BY <1>7, <1>9, <2>1, ConcatEmptySeq DEF t
<1> QED BY <1>8, <1>9

(* Nothing can be kept of nothing.                                         *)
LEMMA KeptEmpty == ASSUME NEW S PROVE Kept(<<>>, S) = <<>>
<1>1. [k \in DOMAIN <<>> |-> IF <<>>[k] \in S THEN <<<<>>[k]>> ELSE <<>>] = <<>>
  OBVIOUS
<1> QED BY <1>1, FlatEmpty, Zenon DEF Kept

(* What is kept is what there is of what is to be kept, and in its order:  *)
(* the first element that is kept is the first that is to be.              *)
LEMMA KeptElements ==
    ASSUME NEW X, NEW S, NEW s \in Seq(X)
    PROVE  /\ ToSet(Kept(s, S)) = ToSet(s) \cap S
           /\ s # <<>> /\ s[1] \in S => Kept(s, S) # <<>> /\ Kept(s, S)[1] = s[1]
<1> DEFINE P == {u \in Seq(X) :
                    /\ Kept(u, S) \in Seq(X)
                    /\ ToSet(Kept(u, S)) = ToSet(u) \cap S
                    /\ u # <<>> /\ u[1] \in S => Kept(u, S) # <<>> /\ Kept(u, S)[1] = u[1]}
<1>1. <<>> \in P
  <2>1. Kept(<<>>, S) = <<>> /\ <<>> \in Seq(X)
    BY KeptEmpty
  <2>2. ToSet(<<>>) = {}
    BY DEF ToSet
  <2>3. ToSet(Kept(<<>>, S)) = {}
    BY <2>1, <2>2
  <2> QED BY <2>1, <2>2, <2>3
<1>2. ASSUME NEW u \in Seq(X), NEW x \in X, u \in P PROVE Append(u, x) \in P
  <2> DEFINE v == Append(u, x)
             k == Kept(u, S)
  <2>1. /\ k \in Seq(X) /\ ToSet(k) = ToSet(u) \cap S
        /\ u # <<>> /\ u[1] \in S => k # <<>> /\ k[1] = u[1]
    BY <1>2
  <2>2. Kept(v, S) = IF x \in S THEN Append(k, x) ELSE k
    BY KeptAppend
  <2>3. /\ v \in Seq(X) /\ (u = <<>> => v[1] = x) /\ (u # <<>> => v[1] = u[1])
        /\ ToSet(v) = ToSet(u) \cup {x}
    <3>1. u # <<>> => 1 \in 1 .. Len(u)
      OBVIOUS
    <3>2. u = <<>> => Len(u) + 1 = 1
      OBVIOUS
    <3> QED BY <3>1, <3>2, AppendProperties, ToSetAppend
  <2> HIDE DEF v, k
  <2>4. /\ Append(k, x) \in Seq(X) /\ Append(k, x) # <<>> /\ ToSet(Append(k, x)) = ToSet(k) \cup {x}
        /\ (k = <<>> => Append(k, x)[1] = x) /\ (k # <<>> => Append(k, x)[1] = k[1])
    <3>1. k # <<>> => 1 \in 1 .. Len(k)
      BY <2>1
    <3>2. k = <<>> => Len(k) + 1 = 1
      OBVIOUS
    <3> QED BY <2>1, <3>1, <3>2, AppendProperties, ToSetAppend
  <2>5. u = <<>> => k = <<>>
    BY KeptEmpty DEF k
  <2>6. /\ Kept(v, S) \in Seq(X)
        /\ ToSet(Kept(v, S)) = ToSet(v) \cap S
        /\ v[1] \in S => Kept(v, S) # <<>> /\ Kept(v, S)[1] = v[1]
    <3>1. CASE x \in S
      <4>1. Kept(v, S) = Append(k, x)
        BY <2>2, <3>1
      <4>2. ToSet(Kept(v, S)) = ToSet(v) \cap S
        BY <2>1, <2>3, <2>4, <3>1, <4>1
      <4>3. v[1] \in S => Append(k, x)[1] = v[1]
        BY <2>1, <2>3, <2>4, <2>5
      <4> QED BY <2>4, <4>1, <4>2, <4>3
    <3>2. CASE x \notin S
      <4>1. Kept(v, S) = k
        BY <2>2, <3>2
      <4>2. ToSet(Kept(v, S)) = ToSet(v) \cap S
        BY <2>1, <2>3, <3>2, <4>1
      <4>3. v[1] \in S => u # <<>> /\ u[1] = v[1]
        BY <2>3, <3>2
      <4> QED BY <2>1, <4>1, <4>2, <4>3
    <3> QED BY <3>1, <3>2
  <2> QED BY <2>3, <2>6 DEF v
<1>3. s \in P
  <2> HIDE DEF P
  <2> QED BY <1>1, <1>2, SeqSetInduction
<1> QED BY <1>3

(* The same positions of two sequences are kept. *)
KeptAlike(s, t, S) == Len(s) = Len(t) /\ \A i \in 1 .. Len(s) : s[i] \in S <=> t[i] \in S

(* Two sequences of which the same positions are kept, and the same values *)
(* there, agree at those positions.                                        *)
LEMMA KeptDetermines ==
    ASSUME NEW X, NEW S, NEW s \in Seq(X), NEW t \in Seq(X), KeptAlike(s, t, S),
           Kept(s, S) = Kept(t, S)
    PROVE  \A i \in 1 .. Len(s) : s[i] \in S => s[i] = t[i]
<1> DEFINE Same(u, v) == /\ Len(u) = Len(v) /\ Kept(u, S) = Kept(v, S)
                         /\ \A i \in 1 .. Len(u) : u[i] \in S <=> v[i] \in S
           Equal(u, v) == \A i \in 1 .. Len(u) : u[i] \in S => u[i] = v[i]
           P == {u \in Seq(X) : \A v \in Seq(X) : Same(u, v) => Equal(u, v)}
<1>1. <<>> \in P
  <2>1. <<>> \in Seq(X) /\ 1 .. Len(<<>>) = {}
    OBVIOUS
  <2> QED BY <2>1
<1>2. ASSUME NEW u \in Seq(X), NEW x \in X, u \in P PROVE Append(u, x) \in P
  <2> DEFINE ux == Append(u, x)
  <2>1. /\ ux \in Seq(X) /\ Len(ux) = Len(u) + 1 /\ ux[Len(u) + 1] = x /\ Len(u) \in Nat
        /\ \A i \in 1 .. Len(u) : ux[i] = u[i]
    BY AppendProperties
  <2> SUFFICES ASSUME NEW w \in Seq(X), Same(ux, w) PROVE Equal(ux, w)
    BY <2>1
  <2>a. /\ Len(ux) = Len(w) /\ Kept(ux, S) = Kept(w, S)
        /\ \A i \in 1 .. Len(ux) : ux[i] \in S <=> w[i] \in S
    OBVIOUS
  <2> HIDE DEF ux
  <2>2. w # <<>>
    <3>1. Len(w) # 0 /\ Len(<<>>) = 0
      BY ONLY <2>1, <2>a
    <3> QED BY ONLY <3>1
  <2>3. PICK v \in Seq(X), y \in X : w = Append(v, y)
    BY <2>2, SequenceEmptyOrAppend
  <2>4. /\ Len(w) = Len(v) + 1 /\ w[Len(v) + 1] = y
        /\ \A i \in 1 .. Len(v) : w[i] = v[i]
    BY <2>3, AppendProperties
  <2>5. Len(v) = Len(u)
    <3>1. Len(v) \in Nat
      OBVIOUS
    <3> QED BY ONLY <2>1, <2>4, <2>a, <3>1
  <2>6. /\ Kept(ux, S) = IF x \in S THEN Append(Kept(u, S), x) ELSE Kept(u, S)
        /\ Kept(w, S) = IF y \in S THEN Append(Kept(v, S), y) ELSE Kept(v, S)
    BY <2>3, KeptAppend DEF ux
  <2>7. x \in S <=> y \in S
    <3>1. Len(u) + 1 \in 1 .. Len(ux)
      BY <2>1
    <3> QED BY <2>1, <2>4, <2>5, <2>a, <3>1
  <2>8. \A i \in 1 .. Len(u) : i \in 1 .. Len(ux)
    BY <2>1
  <2>9. Kept(u, S) = Kept(v, S) /\ (x \in S => x = y)
    <3>1. Kept(u, S) \in Seq(X) /\ Kept(v, S) \in Seq(X)
      <4>1. Kept(u, S) \in Seq(X \cap S) /\ Kept(v, S) \in Seq(X \cap S)
        BY KeptType
      <4> QED BY <4>1, SeqMonotonic
    <3>2. CASE x \in S
      <4>1. Append(Kept(u, S), x) = Append(Kept(v, S), y)
        BY <2>6, <2>7, <2>a, <3>2
      <4> QED BY <3>1, <4>1, AppendInjective
    <3>3. CASE x \notin S
      BY <2>6, <2>7, <2>a, <3>3
    <3> QED BY <3>2, <3>3
  <2>10. \A i \in 1 .. Len(u) : u[i] \in S <=> v[i] \in S
    BY <2>1, <2>4, <2>5, <2>8, <2>a
  <2>11. Equal(u, v)
    BY <1>2, <2>5, <2>9, <2>10
  <2>12. ASSUME NEW i \in 1 .. Len(ux), ux[i] \in S PROVE ux[i] = w[i]
    <3>1. i \in 1 .. Len(u) \/ i = Len(u) + 1
      BY <2>1
    <3>2. CASE i \in 1 .. Len(u)
      BY <2>1, <2>4, <2>5, <2>11, <2>12, <3>2
    <3>3. CASE i = Len(u) + 1
      BY <2>1, <2>4, <2>5, <2>9, <2>12, <3>3
    <3> QED BY <3>1, <3>2, <3>3
  <2> QED BY <2>12 DEF ux
<1>3. s \in P
  <2> HIDE DEF P
  <2> QED BY <1>1, <1>2, SeqSetInduction
<1>4. Same(s, t)
  BY DEF KeptAlike
<1> QED BY <1>3, <1>4

-----------------------------------------------------------------------------
(* The sum of a sequence.                                                  *)

(* What a FoldSeq with plus adds up is the sum.                            *)
LEMMA FoldIsSum ==
    ASSUME NEW s
    PROVE  FoldSeq(LAMBDA n, sum : n + sum, 0, s) = SumOf(s)
BY DEF FoldSeq, FoldFunction, FoldFunctionOnSet, MapThenFoldSet, SumOf

(* The sum of nothing is zero, that of one more number is larger by it.    *)
LEMMA SumSeqAppend ==
    /\ SumOf(<<>>) = 0
    /\ \A s \in Seq(Nat) : SumOf(s) \in Nat
    /\ \A s \in Seq(Nat) : \A n \in Nat : SumOf(Append(s, n)) = SumOf(s) + n
<1>1. SumOf(<<>>) = 0
  <2>1. <<>> \in [{} -> Nat]
    OBVIOUS
  <2> QED BY <2>1, SumEmpty
<1>2. ASSUME NEW s \in Seq(Nat) PROVE s \in [1 .. Len(s) -> Nat] /\ IsFiniteSet(1 .. Len(s))
  <2>1. Len(s) \in Nat /\ s \in [1 .. Len(s) -> Nat]
    OBVIOUS
  <2>2. IsFiniteSet(1 .. Len(s))
    BY <2>1, FS_Interval
  <2> QED BY <2>1, <2>2
<1>3. \A s \in Seq(Nat) : SumOf(s) \in Nat
  BY <1>2, SumType
<1>4. ASSUME NEW s \in Seq(Nat), NEW n \in Nat PROVE SumOf(Append(s, n)) = SumOf(s) + n
  <2> DEFINE t == Append(s, n)
             l == Len(s) + 1
  <2>1. /\ t \in Seq(Nat) /\ Len(t) = l /\ t[l] = n /\ Len(s) \in Nat
        /\ \A i \in 1 .. Len(s) : t[i] = s[i]
    BY AppendProperties
  <2>2. l \in 1 .. l /\ (1 .. l) \ {l} = 1 .. Len(s)
    BY <2>1
  <2> HIDE DEF t, l
  <2>3. t \in [1 .. l -> Nat] /\ IsFiniteSet(1 .. l)
    BY <1>2, <2>1
  <2>4. SumOf(t) = t[l] + SumOf([y \in (1 .. l) \ {l} |-> t[y]])
    <3> DEFINE S == 1 .. l
    <3>1. t \in [S -> Nat] /\ IsFiniteSet(S) /\ l \in S
      BY <2>2, <2>3
    <3> HIDE DEF S
    <3>2. SumOf(t) = t[l] + SumOf([y \in S \ {l} |-> t[y]])
      BY <3>1, SumAdds, ZenonT(30)
    <3> QED BY <3>2 DEF S
  <2>5. [y \in (1 .. l) \ {l} |-> t[y]] = s
    <3>1. s = [y \in 1 .. Len(s) |-> s[y]]
      BY <1>2
    <3> QED BY <2>1, <2>2, <3>1
  <2>6. SumOf(s) \in Nat
    BY <1>3
  <2> QED BY <2>1, <2>4, <2>5, <2>6 DEF t
<1> QED BY <1>1, <1>3, <1>4

(* The sum of two sequences, one behind the other, is that of both.        *)
LEMMA SumSeqConcat ==
    ASSUME NEW s \in Seq(Nat), NEW t \in Seq(Nat)
    PROVE  SumOf(s \o t) = SumOf(s) + SumOf(t)
<1> DEFINE P == {u \in Seq(Nat) : SumOf(s \o u) = SumOf(s) + SumOf(u)}
<1>1. SumOf(s) \in Nat
  BY SumSeqAppend
<1>2. <<>> \in P
  <2>1. s \o <<>> = s /\ <<>> \in Seq(Nat)
    BY ConcatEmptySeq
  <2>2. SumOf(<<>>) = 0
    BY SumSeqAppend
  <2>3. SumOf(s \o <<>>) = SumOf(s) + SumOf(<<>>)
    BY <1>1, <2>1, <2>2
  <2> QED BY <2>1, <2>3
<1>3. ASSUME NEW u \in Seq(Nat), NEW n \in Nat, u \in P PROVE Append(u, n) \in P
  <2>1. s \o Append(u, n) = Append(s \o u, n)
    OBVIOUS
  <2>2. s \o u \in Seq(Nat) /\ Append(u, n) \in Seq(Nat)
    OBVIOUS
  <2>3. SumOf(Append(s \o u, n)) = SumOf(s \o u) + n /\ SumOf(Append(u, n)) = SumOf(u) + n
    BY <2>2, SumSeqAppend
  <2>4. SumOf(u) \in Nat /\ SumOf(s \o u) = SumOf(s) + SumOf(u)
    BY <1>3, SumSeqAppend
  <2>5. SumOf(s \o Append(u, n)) = SumOf(s) + SumOf(Append(u, n))
    BY <1>1, <2>1, <2>3, <2>4
  <2> QED BY <2>2, <2>5
<1>4. t \in P
  <2> HIDE DEF P
  <2> QED BY <1>2, <1>3, SeqSetInduction
<1> QED BY <1>4

(* No more is added up of the first numbers than of all.                   *)
LEMMA PrefixSums ==
    ASSUME NEW s \in Seq(Nat), NEW k \in 0 .. Len(s)
    PROVE  SumOf([i \in 1 .. k |-> s[i]]) <= SumOf(s)
<1> DEFINE First(n) == [i \in 1 .. n |-> s[i]]
           sum(n)   == SumOf(First(n))
           L        == Len(s)
           N        == {n \in Nat : n <= L => sum(n) \in Nat /\ (k <= n => sum(k) <= sum(n))}
<1>1. L \in Nat /\ k \in Nat /\ k <= L
  OBVIOUS
<1>2. \A n \in Nat : n <= L => First(n) \in Seq(Nat) /\ Len(First(n)) = n
  OBVIOUS
<1>3. \A n \in Nat : n <= L => sum(n) \in Nat
  BY <1>2, SumSeqAppend
<1>4. ASSUME NEW n \in Nat, n + 1 <= L PROVE sum(n + 1) = sum(n) + s[n + 1]
  <2>1. First(n) \in Seq(Nat) /\ Len(First(n)) = n /\ s[n + 1] \in Nat
    BY <1>1, <1>2, <1>4
  <2>2. First(n + 1) = Append(First(n), s[n + 1])
    BY <2>1
  <2> HIDE DEF First
  <2> QED BY <2>1, <2>2, SumSeqAppend
<1> HIDE DEF sum, L
<1>5. 0 \in N
  BY <1>1, <1>3
<1>6. ASSUME NEW n \in Nat, n \in N PROVE n + 1 \in N
  <2> SUFFICES ASSUME n + 1 <= L, k <= n + 1 PROVE sum(k) <= sum(n + 1)
    BY <1>1, <1>3
  <2>1. sum(n + 1) = sum(n) + s[n + 1] /\ s[n + 1] \in Nat
    BY <1>4 DEF L
  <2>2. sum(n) \in Nat /\ sum(n + 1) \in Nat /\ sum(k) \in Nat
    BY <1>1, <1>3
  <2>3. k <= n => sum(k) <= sum(n)
    BY <1>1, <1>6
  <2>4. k = n + 1 \/ k <= n
    BY <1>1
  <2> QED BY <2>1, <2>2, <2>3, <2>4
<1>7. \A n \in Nat : n \in N
  <2> HIDE DEF N
  <2> QED BY <1>5, <1>6, NatSetInduction
<1>8. sum(k) <= sum(L)
  BY <1>1, <1>7
<1>9. First(L) = s
  BY DEF L
<1> QED BY <1>8, <1>9 DEF sum

-----------------------------------------------------------------------------
(* Sequences in which nothing comes twice.                                 *)

(* One more element must be a new one.                                     *)
LEMMA InjectiveAppend ==
    ASSUME NEW X, NEW s \in Seq(X), NEW x \in X
    PROVE  IsInjective(Append(s, x)) <=> IsInjective(s) /\ x \notin ToSet(s)
<1> DEFINE t == Append(s, x)
           n == Len(s)
<1>1. /\ DOMAIN s = 1 .. n /\ DOMAIN t = 1 .. (n + 1) /\ n \in Nat /\ t[n + 1] = x
      /\ \A i \in 1 .. n : t[i] = s[i]
  BY AppendProperties
<1> HIDE DEF t, n
<1>2. \A i \in 1 .. n + 1 : i \in 1 .. n \/ i = n + 1
  BY <1>1
<1>3. \A i \in 1 .. n : i \in 1 .. n + 1 /\ i # n + 1
  BY <1>1
<1>4. n + 1 \in 1 .. n + 1
  BY <1>1
<1>5. ASSUME IsInjective(t) PROVE IsInjective(s) /\ x \notin ToSet(s)
  BY <1>1, <1>3, <1>4, <1>5 DEF IsInjective, ToSet
<1>6. ASSUME IsInjective(s), x \notin ToSet(s) PROVE IsInjective(t)
  BY <1>1, <1>2, <1>6 DEF IsInjective, ToSet
<1> QED BY <1>5, <1>6 DEF t

(* The first element is not one of the others.                             *)
LEMMA InjectiveTail ==
    ASSUME NEW X, NEW s \in Seq(X), s # <<>>, IsInjective(s)
    PROVE  IsInjective(Tail(s)) /\ ToSet(Tail(s)) = ToSet(s) \ {Head(s)}
<1> DEFINE t == Tail(s)
           n == Len(s)
<1>1. /\ DOMAIN s = 1 .. n /\ DOMAIN t = 1 .. (n - 1) /\ n \in Nat \ {0} /\ Head(s) = s[1]
      /\ \A i \in 1 .. (n - 1) : t[i] = s[i + 1]
  BY HeadTailProperties
<1> HIDE DEF t, n
<1>2. \A i \in 1 .. n - 1 : i + 1 \in 1 .. n /\ i + 1 # 1
  BY <1>1
<1>3. \A i \in 1 .. n : i # 1 => i - 1 \in 1 .. n - 1 /\ (i - 1) + 1 = i
  BY <1>1
<1>4. 1 \in 1 .. n
  BY <1>1
<1>5. \A i, j \in 1 .. n : s[i] = s[j] => i = j
  BY <1>1 DEF IsInjective
<1>6. IsInjective(t)
  <2> SUFFICES ASSUME NEW i \in 1 .. n - 1, NEW j \in 1 .. n - 1, t[i] = t[j] PROVE i = j
    BY <1>1 DEF IsInjective
  <2>1. s[i + 1] = s[j + 1]
    BY <1>1
  <2>2. i + 1 = j + 1
    BY <1>2, <1>5, <2>1
  <2> QED BY <2>2
<1>7. ASSUME NEW i \in 1 .. n - 1 PROVE t[i] \in ToSet(s) \ {Head(s)}
  <2>1. t[i] = s[i + 1] /\ s[i + 1] # s[1]
    BY <1>1, <1>2, <1>4, <1>5
  <2> QED BY <1>1, <1>2, <2>1 DEF ToSet
<1>8. ASSUME NEW i \in 1 .. n, s[i] # Head(s) PROVE s[i] \in ToSet(t)
  <2>1. i # 1
    BY <1>1, <1>8
  <2>2. s[i] = t[i - 1]
    BY <1>1, <1>3, <2>1
  <2> QED BY <1>1, <1>3, <2>1, <2>2 DEF ToSet
<1>9. ToSet(t) = ToSet(s) \ {Head(s)}
  <2>1. ToSet(t) = {t[i] : i \in 1 .. n - 1} /\ ToSet(s) = {s[i] : i \in 1 .. n}
    BY <1>1 DEF ToSet
  <2> QED BY <1>7, <1>8, <2>1
<1> QED BY <1>6, <1>9 DEF t

(* The elements of two sequences, one behind the other.                    *)
LEMMA ToSetConcat ==
    ASSUME NEW X, NEW s \in Seq(X), NEW t \in Seq(X)
    PROVE  ToSet(s \o t) = ToSet(s) \cup ToSet(t)
<1> DEFINE u == s \o t
           m == Len(s)
           n == Len(t)
<1>1. /\ DOMAIN s = 1 .. m /\ DOMAIN t = 1 .. n /\ DOMAIN u = 1 .. (m + n) /\ m \in Nat /\ n \in Nat
      /\ \A i \in 1 .. m + n : u[i] = IF i <= m THEN s[i] ELSE t[i - m]
  <2>1. /\ u \in Seq(X) /\ Len(u) = m + n
        /\ \A i \in 1 .. m + n : u[i] = IF i <= m THEN s[i] ELSE t[i - m]
    BY ConcatProperties, Zenon
  <2> HIDE DEF u
  <2>2. DOMAIN u = 1 .. Len(u)
    BY <2>1
  <2> QED BY <2>1, <2>2
<1> HIDE DEF u, m, n
<1>2. ToSet(u) = {u[i] : i \in 1 .. m + n} /\ ToSet(s) = {s[i] : i \in 1 .. m} /\ ToSet(t) = {t[i] : i \in 1 .. n}
  BY <1>1 DEF ToSet
<1>3. ASSUME NEW i \in 1 .. m + n PROVE u[i] \in ToSet(s) \cup ToSet(t)
  <2>1. IF i <= m THEN i \in 1 .. m /\ u[i] = s[i] ELSE i - m \in 1 .. n /\ u[i] = t[i - m]
    BY <1>1
  <2> QED BY <1>2, <2>1
<1>4. ASSUME NEW i \in 1 .. m PROVE s[i] \in ToSet(u)
  <2>1. i \in 1 .. m + n /\ u[i] = s[i]
    BY <1>1
  <2> QED BY <1>2, <2>1
<1>5. ASSUME NEW i \in 1 .. n PROVE t[i] \in ToSet(u)
  <2>1. i + m \in 1 .. m + n /\ u[i + m] = t[i]
    <3>1. i + m \in 1 .. m + n /\ ~(i + m <= m) /\ (i + m) - m = i
      BY <1>1
    <3> QED BY <1>1, <3>1
  <2> QED BY <1>2, <2>1
<1>6. ToSet(u) = ToSet(s) \cup ToSet(t)
  BY <1>2, <1>3, <1>4, <1>5
<1> QED BY <1>6 DEF u

(* Two of them, one behind the other, when they share nothing.             *)
LEMMA InjectiveConcat ==
    ASSUME NEW X, NEW s \in Seq(X), NEW t \in Seq(X), IsInjective(s), IsInjective(t),
           ToSet(s) \cap ToSet(t) = {}
    PROVE  IsInjective(s \o t)
<1> DEFINE u == s \o t
           m == Len(s)
           n == Len(t)
<1>1. /\ DOMAIN s = 1 .. m /\ DOMAIN t = 1 .. n /\ DOMAIN u = 1 .. (m + n) /\ m \in Nat /\ n \in Nat
      /\ \A i \in 1 .. m + n : u[i] = IF i <= m THEN s[i] ELSE t[i - m]
  <2>1. /\ u \in Seq(X) /\ Len(u) = m + n
        /\ \A i \in 1 .. m + n : u[i] = IF i <= m THEN s[i] ELSE t[i - m]
    BY ConcatProperties, Zenon
  <2> HIDE DEF u
  <2>2. DOMAIN u = 1 .. Len(u)
    BY <2>1
  <2> QED BY <2>1, <2>2
<1> HIDE DEF u, m, n
<1>2. \A i, j \in 1 .. m : s[i] = s[j] => i = j
  BY <1>1 DEF IsInjective
<1>3. \A i, j \in 1 .. n : t[i] = t[j] => i = j
  BY <1>1 DEF IsInjective
<1>4. \A i \in 1 .. m, j \in 1 .. n : s[i] # t[j]
  BY <1>1 DEF ToSet
<1>5. ASSUME NEW i \in 1 .. m + n, NEW j \in 1 .. m + n, u[i] = u[j] PROVE i = j
  <2>1. \A k \in 1 .. m + n : IF k <= m THEN k \in 1 .. m /\ u[k] = s[k]
                              ELSE k - m \in 1 .. n /\ u[k] = t[k - m]
    BY <1>1
  <2>2. CASE i <= m /\ j <= m
    BY <1>2, <1>5, <2>1, <2>2
  <2>3. CASE i <= m /\ ~(j <= m)
    BY <1>4, <1>5, <2>1, <2>3
  <2>4. CASE ~(i <= m) /\ j <= m
    <3>1. s[j] = t[i - m] /\ j \in 1 .. m /\ i - m \in 1 .. n
      BY <1>5, <2>1, <2>4
    <3> QED BY <1>4, <3>1
  <2>5. CASE ~(i <= m) /\ ~(j <= m)
    <3>1. i - m = j - m
      BY <1>3, <1>5, <2>1, <2>5
    <3> QED BY <1>1, <3>1
  <2> QED BY <2>2, <2>3, <2>4, <2>5
<1> QED BY <1>1, <1>5 DEF IsInjective, u

(* Of a sequence in which nothing comes twice, nothing is kept twice.      *)
LEMMA KeptInjective ==
    ASSUME NEW X, NEW S, NEW s \in Seq(X), IsInjective(s)
    PROVE  IsInjective(Kept(s, S))
<1> DEFINE P == {u \in Seq(X) : IsInjective(u) => IsInjective(Kept(u, S))}
<1>1. <<>> \in P
  <2>1. Kept(<<>>, S) = <<>> /\ <<>> \in Seq(X)
    BY KeptEmpty
  <2>2. IsInjective(<<>>)
    BY DEF IsInjective
  <2>3. IsInjective(Kept(<<>>, S))
    BY <2>1, <2>2
  <2> QED BY <2>1, <2>3
<1>2. ASSUME NEW u \in Seq(X), NEW x \in X, u \in P PROVE Append(u, x) \in P
  <2> DEFINE k == Kept(u, S)
  <2> SUFFICES ASSUME IsInjective(Append(u, x)) PROVE IsInjective(Kept(Append(u, x), S))
    OBVIOUS
  <2>1. IsInjective(u) /\ x \notin ToSet(u)
    BY InjectiveAppend
  <2>2. IsInjective(k)
    BY <1>2, <2>1
  <2>3. k \in Seq(X) /\ x \notin ToSet(k)
    <3>1. k \in Seq(X \cap S) /\ ToSet(k) = ToSet(u) \cap S
      BY KeptType, KeptElements
    <3>2. Seq(X \cap S) \subseteq Seq(X)
      BY SeqMonotonic
    <3> QED BY <2>1, <3>1, <3>2
  <2>4. Kept(Append(u, x), S) = IF x \in S THEN Append(k, x) ELSE k
    BY KeptAppend
  <2> HIDE DEF k
  <2>5. IsInjective(Append(k, x))
    BY <2>2, <2>3, InjectiveAppend
  <2> QED BY <2>2, <2>4, <2>5
<1>3. s \in P
  <2> HIDE DEF P
  <2> QED BY <1>1, <1>2, SeqSetInduction
<1> QED BY <1>3
=============================================================================
