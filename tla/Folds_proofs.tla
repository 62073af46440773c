----------------------------- MODULE Folds_proofs -----------------------------
(***************************************************************************)
(* Facts about folds, which the operators of the models that go through a  *)
(* list or a set are written with: a fold exists, what every step keeps    *)
(* holds of the whole fold, sums are the same in whatever order they are   *)
(* taken, and pouring into vessels one after another fills them by the     *)
(* amount poured.                                                          *)
(***************************************************************************)
EXTENDS Integers, Sequences, FiniteSets, SequencesExt, FiniteSetTheorems,
        WellFoundedInduction, TLAPS

-----------------------------------------------------------------------------
(* Numbers and folds. *)

\* A set of naturals that is not empty has a smallest element.
LEMMA SmallestNat ==
  ASSUME NEW S, S \subseteq Nat, S # {}
  PROVE  \E n \in S : \A m \in S : n <= m
  <1>1. \E n \in S : \A m \in S : ~ (<<m, n>> \in OpToRel(<, Nat))
    BY ZenonT(60), WFMin, NatLessThanWellFounded
  <1>2. \A m \in S, n \in S : ~ (<<m, n>> \in OpToRel(<, Nat)) => n <= m
    BY DEF OpToRel
  <1>3. QED
    BY ZenonT(60), <1>1, <1>2

\* g[T] is what the fold makes of T: step[T] of what it makes of the rest of T.
IsFold(g, S, next, base, step) ==
    g = [T \in SUBSET S |-> IF T = {} THEN base ELSE step[T][g[T \ {next[T]}]]]

\* A fold over a finite set exists: step[T] takes what the fold makes of T without
\* its next element to what it makes of T, and V[T] holds what it may make of T.
LEMMA FoldExists ==
  ASSUME NEW S, IsFiniteSet(S),
         NEW next, \A T \in SUBSET S : T # {} => next[T] \in T,
         NEW V, NEW base \in V[{}], NEW step,
         \A T \in SUBSET S : T # {} => \A v \in V[T \ {next[T]}] : step[T][v] \in V[T]
  PROVE  \E g : /\ IsFold(g, S, next, base, step)
                /\ \A T \in SUBSET S : g[T] \in V[T]
  <1> DEFINE Small(n) == {T \in SUBSET S : Cardinality(T) <= n}
             Fold(g, n) == /\ g = [T \in Small(n) |->
                                IF T = {} THEN base ELSE step[T][g[T \ {next[T]}]]]
                           /\ \A T \in Small(n) : g[T] \in V[T]
             Bad == {n \in Nat : ~ \E g : Fold(g, n)}
  <1>1. \A T \in SUBSET S : IsFiniteSet(T) /\ Cardinality(T) \in Nat
    BY FS_Subset, FS_CardinalityType
  <1>2. \A T \in SUBSET S : T # {} =>
            /\ T \ {next[T]} \in SUBSET S
            /\ Cardinality(T \ {next[T]}) = Cardinality(T) - 1
    BY <1>1, FS_RemoveElement
  <1>3. \A T \in SUBSET S : Cardinality(T) <= 0 => T = {}
    BY <1>1, FS_EmptySet
  <1>4. Cardinality({}) = 0
    BY FS_EmptySet
  <1>5. ASSUME NEW n \in Nat, n \in Bad, \A m \in Bad : n <= m
        PROVE  FALSE
    <2>1. CASE n = 0
      <3> DEFINE g == [T \in Small(0) |-> base]
      <3>1. Small(0) = {{}}
        <4>1. {} \in Small(0)
          BY <1>4
        <4>2. \A T \in Small(0) : T = {}
          BY <1>3
        <4>3. QED
          BY <4>1, <4>2
      <3>2. g = [T \in Small(0) |-> IF T = {} THEN base ELSE step[T][g[T \ {next[T]}]]]
        BY <3>1
      <3>3. \A T \in Small(0) : g[T] \in V[T]
        BY <3>1
      <3>4. Fold(g, 0)
        BY <3>2, <3>3
      <3>5. QED
        BY <3>4, <1>5, <2>1
    <2>2. CASE n # 0
      <3>1. n - 1 \in Nat /\ ~ (n <= n - 1)
        BY <2>2
      <3>2. PICK h : Fold(h, n - 1)
        <4>1. n - 1 \notin Bad
          <5> HIDE DEF Bad
          <5>1. QED
            BY <1>5, <3>1
        <4>2. QED
          BY <3>1, <4>1
      <3> DEFINE g == [T \in Small(n) |->
                          IF T = {} THEN base ELSE step[T][h[T \ {next[T]}]]]
      <3>3. ASSUME NEW T \in Small(n), T # {}
            PROVE  T \ {next[T]} \in Small(n - 1) /\ T \ {next[T]} \in Small(n)
        <4>1. T \in SUBSET S /\ Cardinality(T) <= n
          OBVIOUS
        <4>2. Cardinality(T) \in Nat
          BY <1>1, <4>1
        <4> DEFINE less == T \ {next[T]}
        <4>3. less \in SUBSET S /\ Cardinality(less) = Cardinality(T) - 1
          BY <1>2, <3>3, <4>1
        <4> HIDE DEF less
        <4>4. Cardinality(less) <= n - 1 /\ Cardinality(less) <= n
          BY <4>1, <4>2, <4>3
        <4>5. less \in Small(n - 1) /\ less \in Small(n)
          BY <4>3, <4>4
        <4>6. QED
          BY <4>5 DEF less
      <3>4. ASSUME NEW T \in Small(n - 1)
            PROVE  h[T] = g[T] /\ h[T] \in V[T] /\ T \in Small(n)
        <4>1. h[T] = (IF T = {} THEN base ELSE step[T][h[T \ {next[T]}]])
          BY ZenonT(60), SMTT(60), <3>2
        <4>2. T \in Small(n)
          BY <1>1, <3>4
        <4>3. QED
          BY ZenonT(60), <3>2, <4>1, <4>2
      <3>5. g = [T \in Small(n) |-> IF T = {} THEN base ELSE step[T][g[T \ {next[T]}]]]
        <4>1. ASSUME NEW T \in Small(n)
              PROVE  (IF T = {} THEN base ELSE step[T][h[T \ {next[T]}]])
                       = IF T = {} THEN base ELSE step[T][g[T \ {next[T]}]]
          BY ZenonT(60), SMTT(60), <3>3, <3>4, <4>1
        <4>2. QED
          BY ZenonT(60), <4>1
      <3>6. ASSUME NEW T \in Small(n)
            PROVE  g[T] \in V[T]
        <4>1. CASE T = {}
          BY <4>1, <3>6
        <4>2. CASE T # {}
          <5>1. h[T \ {next[T]}] \in V[T \ {next[T]}]
            BY <3>3, <3>4, <4>2, <3>6
          <5>2. g[T] = step[T][h[T \ {next[T]}]]
            BY <4>2, <3>6
          <5>3. QED
            BY <5>1, <5>2, <4>2, <3>6
        <4>3. QED
          BY <4>1, <4>2
      <3>7. Fold(g, n)
        BY ZenonT(60), SMTT(60), <3>5, <3>6
      <3>8. QED
        BY ZenonT(60), SMTT(60), <3>7, <1>5
    <2>3. QED
      BY <2>1, <2>2
  <1>6. Bad = {}
    <2>1. Bad \subseteq Nat
      OBVIOUS
    <2> HIDE DEF Bad
    <2>2. ASSUME Bad # {} PROVE FALSE
      <3>1. PICK n \in Bad : \A m \in Bad : n <= m
        BY <2>1, <2>2, SmallestNat
      <3>2. QED
        BY <1>5, <2>1, <3>1
    <2>3. QED
      BY <2>2
  <1>7. Cardinality(S) \in Nat /\ \A T \in SUBSET S : Cardinality(T) <= Cardinality(S)
    BY FS_Subset, FS_CardinalityType
  <1>8. PICK g : Fold(g, Cardinality(S))
    BY <1>6, <1>7
  <1>9. Small(Cardinality(S)) = SUBSET S
    BY <1>7
  <1>10. QED
    BY <1>8, <1>9 DEF IsFold

\* What holds of the start and is kept by every step holds of the whole fold.
LEMMA FoldInvariant ==
  ASSUME NEW S, IsFiniteSet(S),
         NEW next, \A T \in SUBSET S : T # {} => next[T] \in T,
         NEW V, NEW f, f[{}] \in V[{}],
         \A T \in SUBSET S : T # {} /\ f[T \ {next[T]}] \in V[T \ {next[T]}]
                               => f[T] \in V[T]
  PROVE  \A T \in SUBSET S : f[T] \in V[T]
  <1> DEFINE Bad == {n \in Nat : \E T \in SUBSET S : Cardinality(T) = n /\ f[T] \notin V[T]}
  <1>1. \A T \in SUBSET S : IsFiniteSet(T) /\ Cardinality(T) \in Nat
    BY FS_Subset, FS_CardinalityType
  <1>2. ASSUME NEW n \in Nat, n \in Bad, \A m \in Bad : n <= m
        PROVE  FALSE
    <2>1. PICK T \in SUBSET S : Cardinality(T) = n /\ f[T] \notin V[T]
      BY <1>2
    <2>2. T # {} /\ T \ {next[T]} \in SUBSET S
      BY <2>1
    <2>3. Cardinality(T \ {next[T]}) = n - 1
      BY <1>1, <2>1, <2>2, FS_RemoveElement
    <2>4. n - 1 \in Nat /\ n - 1 \notin Bad
      BY <1>1, <1>2, <2>2, <2>3
    <2>5. f[T \ {next[T]}] \in V[T \ {next[T]}]
      BY <2>2, <2>3, <2>4
    <2>6. QED
      BY <2>1, <2>2, <2>5
  <1>3. Bad = {}
    <2>1. Bad \subseteq Nat
      OBVIOUS
    <2> HIDE DEF Bad
    <2>2. ASSUME Bad # {} PROVE FALSE
      <3>1. PICK n \in Bad : \A m \in Bad : n <= m
        BY <2>1, <2>2, SmallestNat
      <3>2. QED
        BY <1>2, <2>1, <3>1
    <2>3. QED
      BY <2>2
  <1>4. QED
    BY <1>1, <1>3

\* The largest of some places of a sequence is one of them.
LEMMA MaxOfPlaces ==
  ASSUME NEW n \in Nat, NEW S \in SUBSET (1 .. n), S # {}
  PROVE  Max(S) \in S
  <1> DEFINE below == {n - m : m \in S}
  <1>1. below \subseteq Nat /\ below # {}
    <2>1. \A m \in S : n - m \in Nat
      OBVIOUS
    <2>2. QED
      BY <2>1
  <1>2. PICK d \in below : \A e \in below : d <= e
    BY <1>1, SmallestNat
  <1>3. PICK m \in S : d = n - m
    BY <1>2
  <1>4. \A k \in S : m >= k
    BY <1>2, <1>3
  <1>5. QED
    BY <1>3, <1>4 DEF Max

\* A fold over a sequence, its last element last: take[e] is what the element e
\* makes of what the fold made of those before it.
IsSequenceFold(g, q, base, take) ==
    g = [T \in SUBSET DOMAIN q |->
           IF T = {} THEN base ELSE take[q[Max(T)]][g[T \ {Max(T)}]]]

\* Such a fold exists.
LEMMA SequenceFoldExists ==
  ASSUME NEW R, NEW q \in Seq(R), NEW V, NEW base \in V, NEW take,
         \A e \in R : \A v \in V : take[e][v] \in V
  PROVE  \E g : /\ IsSequenceFold(g, q, base, take)
               /\ \A T \in SUBSET DOMAIN q : g[T] \in V
  <1> DEFINE S == DOMAIN q
             next == [T \in SUBSET S |-> Max(T)]
             step == [T \in SUBSET S |-> take[q[next[T]]]]
             same == [T \in SUBSET S |-> V]
  <1>1. S = 1 .. Len(q) /\ Len(q) \in Nat
    OBVIOUS
  <1>2. IsFiniteSet(S)
    BY <1>1, FS_Interval
  <1>3. \A T \in SUBSET S : T # {} => /\ next[T] = Max(T) /\ next[T] \in T /\ next[T] \in S
                                      /\ T \ {next[T]} \in SUBSET S
    BY <1>1, MaxOfPlaces
  <1>4. \A T \in SUBSET S : T # {} => \A v \in same[T \ {next[T]}] : step[T][v] \in same[T]
    <2> SUFFICES ASSUME NEW T \in SUBSET S, T # {}, NEW v \in same[T \ {next[T]}]
                 PROVE  step[T][v] \in same[T]
      OBVIOUS
    <2>1. v \in V /\ q[next[T]] \in R
      <3>1. same[T \ {next[T]}] = V
        BY <1>3
      <3>2. next[T] \in DOMAIN q
        BY <1>3
      <3>3. QED
        BY <3>1, <3>2
    <2>2. step[T] = take[q[next[T]]]
      OBVIOUS
    <2>3. QED
      BY <2>1, <2>2
  <1>5. PICK g : /\ IsFold(g, S, next, base, step)
                 /\ \A T \in SUBSET S : g[T] \in same[T]
    <2>1. base \in same[{}]
      BY {} \in SUBSET S
    <2>2. \A T \in SUBSET S : T # {} => next[T] \in T
      BY <1>3
    <2> HIDE DEF S, next, step, same
    <2>3. QED
      BY <1>2, <1>4, <2>1, <2>2, FoldExists
  <1>6. g = [T \in SUBSET S |-> IF T = {} THEN base ELSE take[q[Max(T)]][g[T \ {Max(T)}]]]
    <2>1. \A T \in SUBSET S : T # {} =>
             step[T][g[T \ {next[T]}]] = take[q[Max(T)]][g[T \ {Max(T)}]]
      BY <1>3
    <2> HIDE DEF S, next, step, same
    <2>2. QED
      BY ZenonT(60), SMTT(60), <1>5, <2>1 DEF IsFold
  <1>7. \A T \in SUBSET S : g[T] \in V
    BY <1>5
  <1>8. QED
    BY <1>6, <1>7 DEF IsSequenceFold

\* What every element of a sequence keeps, the fold over the sequence keeps.
LEMMA SequenceFoldInvariant ==
  ASSUME NEW R, NEW q \in Seq(R), NEW V, NEW f, f[{}] \in V,
         \A T \in SUBSET DOMAIN q :
            T # {} /\ f[T \ {Max(T)}] \in V => f[T] \in V
  PROVE  f[DOMAIN q] \in V
  <1> DEFINE S == DOMAIN q
             next == [T \in SUBSET S |-> Max(T)]
             same == [T \in SUBSET S |-> V]
  <1>1. S = 1 .. Len(q) /\ Len(q) \in Nat
    OBVIOUS
  <1>2. IsFiniteSet(S)
    BY <1>1, FS_Interval
  <1>3. \A T \in SUBSET S : T # {} => next[T] \in T /\ next[T] = Max(T)
    BY <1>1, MaxOfPlaces
  <1>4. f[{}] \in same[{}]
    BY {} \in SUBSET S
  <1>5. \A T \in SUBSET S : T # {} /\ f[T \ {next[T]}] \in same[T \ {next[T]}]
                               => f[T] \in same[T]
    BY <1>3
  <1>6. \A T \in SUBSET S : f[T] \in same[T]
    <2> HIDE DEF S, next, same
    <2>1. \A T \in SUBSET S : T # {} => next[T] \in T
      BY <1>3
    <2>2. QED
      BY <1>2, <1>4, <1>5, <2>1, FoldInvariant
  <1>7. QED
    BY <1>6, S \in SUBSET S

-----------------------------------------------------------------------------
(* Sums over finite sets, as MapThenSumSet works them out: one element after *)
(* the other, in an order of its own.                                        *)

\* What holds of a set when it holds of every smaller one holds of all.
LEMMA SmallerFirst ==
  ASSUME NEW S, IsFiniteSet(S), NEW Q,
         \A T \in SUBSET S : (\A U \in SUBSET T : U # T => U \in Q) => T \in Q
  PROVE  \A T \in SUBSET S : T \in Q
  <1> DEFINE Bad == {n \in Nat : \E T \in SUBSET S : Cardinality(T) = n /\ T \notin Q}
  <1>1. \A T \in SUBSET S : IsFiniteSet(T) /\ Cardinality(T) \in Nat
    BY FS_Subset, FS_CardinalityType
  <1>2. ASSUME NEW n \in Nat, n \in Bad, \A m \in Bad : n <= m
        PROVE  FALSE
    <2>1. PICK T \in SUBSET S : Cardinality(T) = n /\ T \notin Q
      BY <1>2
    <2>2. PICK U \in SUBSET T : U # T /\ U \notin Q
      BY <2>1
    <2>3. U \in SUBSET S /\ Cardinality(U) \in Nat /\ Cardinality(U) < n
      <3>1. U \in SUBSET S /\ IsFiniteSet(T)
        BY <1>1, <2>1, <2>2
      <3>2. Cardinality(U) <= Cardinality(T)
            /\ (Cardinality(U) = Cardinality(T) => U = T)
        BY <3>1, <2>2, FS_Subset
      <3>3. QED
        BY <1>1, <2>1, <2>2, <3>1, <3>2
    <2>4. Cardinality(U) \in Bad
      BY <2>2, <2>3
    <2> HIDE DEF Bad
    <2>5. n <= Cardinality(U)
      BY <1>2, <2>4
    <2>6. QED
      BY <2>3, <2>5
  <1>3. Bad = {}
    <2>1. Bad \subseteq Nat
      OBVIOUS
    <2> HIDE DEF Bad
    <2>2. ASSUME Bad # {} PROVE FALSE
      <3>1. PICK n \in Bad : \A m \in Bad : n <= m
        BY <2>1, <2>2, SmallestNat
      <3>2. QED
        BY <1>2, <2>1, <3>1
    <2>3. QED
      BY <2>2
  <1>4. QED
    BY <1>1, <1>3

\* The one of a set that a sum takes first.
FirstOf(T) == CHOOSE x \in T : TRUE

LEMMA FirstIsOne ==
  ASSUME NEW T, T # {}
  PROVE  FirstOf(T) \in T
  BY DEF FirstOf

\* g[T] is the sum of f over T, for every part T of S.
IsSum(g, S, f) ==
    g = [T \in SUBSET S |-> IF T = {} THEN 0 ELSE f[FirstOf(T)] + g[T \ {FirstOf(T)}]]

Total(f, S) == (CHOOSE g : IsSum(g, S, f))[S]

\* Sums of what agrees agree, whatever larger set they were begun for.
LEMMA SumsAgree ==
  ASSUME NEW S, NEW D, NEW f, NEW h, NEW g, NEW k, IsSum(g, S, f), IsSum(k, D, h),
         NEW T \in SUBSET (S \cap D), IsFiniteSet(T), \A x \in T : f[x] = h[x]
  PROVE  g[T] = k[T]
  <1> DEFINE Q == {U \in SUBSET T : g[U] = k[U]}
  <1>1. ASSUME NEW U \in SUBSET T, \A W \in SUBSET U : W # U => W \in Q
        PROVE  U \in Q
    <2>1. U \in SUBSET S /\ U \in SUBSET D
      OBVIOUS
    <2>2. CASE U = {}
      BY <2>1, <2>2 DEF IsSum
    <2>3. CASE U # {}
      <3>1. FirstOf(U) \in U /\ U \ {FirstOf(U)} \in SUBSET U /\ U \ {FirstOf(U)} # U
        BY <2>3, FirstIsOne
      <3>2. g[U \ {FirstOf(U)}] = k[U \ {FirstOf(U)}]
        BY <1>1, <3>1
      <3>3. f[FirstOf(U)] = h[FirstOf(U)]
        BY <3>1
      <3>4. g[U] = f[FirstOf(U)] + g[U \ {FirstOf(U)}]
        BY <2>1, <2>3 DEF IsSum
      <3>5. k[U] = h[FirstOf(U)] + k[U \ {FirstOf(U)}]
        BY <2>1, <2>3 DEF IsSum
      <3>6. QED
        BY <3>2, <3>3, <3>4, <3>5
    <2>4. QED
      BY <2>2, <2>3
  <1> HIDE DEF Q
  <1>2. \A U \in SUBSET T : U \in Q
    BY <1>1, SmallerFirst
  <1>3. QED
    BY <1>2, T \in SUBSET T DEF Q

\* The sum of numbers exists and is a number.
LEMMA SumExists ==
  ASSUME NEW S, IsFiniteSet(S), NEW f, \A x \in S : f[x] \in Int
  PROVE  \E g : IsSum(g, S, f) /\ \A T \in SUBSET S : g[T] \in Int
  <1> DEFINE next == [T \in SUBSET S |-> FirstOf(T)]
             step == [T \in SUBSET S |-> [v \in Int |-> f[next[T]] + v]]
             V == [T \in SUBSET S |-> Int]
  <1>1. \A T \in SUBSET S : T # {} => next[T] = FirstOf(T) /\ next[T] \in T
    BY FirstIsOne
  <1>2. \A T \in SUBSET S : T # {} => T \ {next[T]} \in SUBSET S /\ f[next[T]] \in Int
    BY <1>1
  <1>3. ASSUME NEW T \in SUBSET S, T # {}, NEW v \in V[T \ {next[T]}]
        PROVE  step[T][v] \in V[T] /\ v \in Int /\ step[T][v] = f[next[T]] + v
    <2>1. V[T \ {next[T]}] = Int /\ V[T] = Int
      BY <1>2, <1>3
    <2>2. v \in Int /\ step[T][v] = f[next[T]] + v
      BY <2>1
    <2> HIDE DEF step, next
    <2>3. QED
      BY <1>2, <1>3, <2>1, <2>2
  <1>4. 0 \in V[{}]
    BY {} \in SUBSET S
  <1>5. PICK g : /\ IsFold(g, S, next, 0, step)
                 /\ \A T \in SUBSET S : g[T] \in V[T]
    <2> HIDE DEF step, V, next
    <2>1. \A T \in SUBSET S : T # {} => \A v \in V[T \ {next[T]}] : step[T][v] \in V[T]
      BY <1>3
    <2>2. \A T \in SUBSET S : T # {} => next[T] \in T
      BY SMTT(60), ZenonT(60), <1>1
    <2>3. QED
      BY <1>4, <2>1, <2>2, FoldExists
  <1>6. IsSum(g, S, f)
    <2>1. ASSUME NEW T \in SUBSET S, T # {}
          PROVE  step[T][g[T \ {next[T]}]] = f[FirstOf(T)] + g[T \ {FirstOf(T)}]
      <3>1. g[T \ {next[T]}] \in V[T \ {next[T]}]
        BY <1>2, <1>5, <2>1
      <3> HIDE DEF step, V
      <3>2. step[T][g[T \ {next[T]}]] = f[next[T]] + g[T \ {next[T]}]
        BY <1>3, <2>1, <3>1
      <3>3. QED
        BY <1>1, <2>1, <3>2
    <2> HIDE DEF step, next, V
    <2>2. QED
      BY ZenonT(60), SMTT(60), <1>5, <2>1 DEF IsFold, IsSum
  <1>7. \A T \in SUBSET S : g[T] \in Int
    BY <1>5
  <1>8. QED
    BY <1>6, <1>7

\* Whatever was summed up is the total of its parts.
LEMMA SumIsTotal ==
  ASSUME NEW S, IsFiniteSet(S), NEW f, \A x \in S : f[x] \in Int, NEW g, IsSum(g, S, f),
         NEW T \in SUBSET S
  PROVE  g[T] = Total(f, T)
  <1> DEFINE sum == CHOOSE h : IsSum(h, T, f)
  <1>1. IsFiniteSet(T) /\ \A x \in T : f[x] \in Int
    BY FS_Subset
  <1>2. \E h : IsSum(h, T, f)
    BY <1>1, SumExists
  <1>3. IsSum(sum, T, f)
    BY <1>2
  <1>4. Total(f, T) = sum[T]
    BY DEF Total
  <1> HIDE DEF sum
  <1>5. QED
    BY <1>1, <1>3, <1>4, SumsAgree, T \in SUBSET (S \cap T)

\* A total is a number, nothing adds up to nothing, and a total is its first
\* element and the rest.
LEMMA TotalParts ==
  ASSUME NEW S, IsFiniteSet(S), NEW f, \A x \in S : f[x] \in Int
  PROVE  /\ Total(f, S) \in Int
         /\ S = {} => Total(f, S) = 0
         /\ S # {} => Total(f, S) = f[FirstOf(S)] + Total(f, S \ {FirstOf(S)})
  <1>1. PICK g : IsSum(g, S, f) /\ \A T \in SUBSET S : g[T] \in Int
    BY SumExists
  <1>2. \A T \in SUBSET S : g[T] = Total(f, T)
    BY <1>1, SumIsTotal
  <1>3. S \in SUBSET S /\ S \ {FirstOf(S)} \in SUBSET S
    OBVIOUS
  <1>4. g[S] = IF S = {} THEN 0 ELSE f[FirstOf(S)] + g[S \ {FirstOf(S)}]
    BY <1>1, <1>3 DEF IsSum
  <1>5. QED
    BY <1>1, <1>2, <1>3, <1>4

\* Any element may be taken first.
LEMMA TotalTake ==
  ASSUME NEW S, IsFiniteSet(S), NEW f, \A x \in S : f[x] \in Int, NEW x \in S
  PROVE  Total(f, S) = f[x] + Total(f, S \ {x})
  <1> DEFINE Q == {T \in SUBSET S : \A y \in T : Total(f, T) = f[y] + Total(f, T \ {y})}
  <1>1. \A T \in SUBSET S : /\ IsFiniteSet(T) /\ Total(f, T) \in Int
                            /\ T # {} => Total(f, T) = f[FirstOf(T)] + Total(f, T \ {FirstOf(T)})
    BY FS_Subset, TotalParts
  <1>2. ASSUME NEW T \in SUBSET S, \A U \in SUBSET T : U # T => U \in Q
        PROVE  T \in Q
    <2>1. ASSUME NEW y \in T
          PROVE  Total(f, T) = f[y] + Total(f, T \ {y})
      <3> DEFINE c == FirstOf(T)
      <3>1. c \in T /\ Total(f, T) = f[c] + Total(f, T \ {c})
        BY <1>1, <2>1, FirstIsOne
      <3> HIDE DEF c
      <3>2. CASE y = c
        BY <3>1, <3>2
      <3>3. CASE y # c
        <4>1. T \ {c} \in Q /\ T \ {y} \in Q
          BY <1>2, <2>1, <3>1
        <4>2. y \in T \ {c} /\ c \in T \ {y}
          BY <2>1, <3>1, <3>3
        <4> DEFINE rest == (T \ {c}) \ {y}
        <4>3. rest = (T \ {y}) \ {c} /\ rest \in SUBSET S
          OBVIOUS
        <4>4. f[c] \in Int /\ f[y] \in Int /\ Total(f, rest) \in Int
          BY <1>1, <2>1, <3>1, <4>3
        <4>5. Total(f, T \ {c}) = f[y] + Total(f, rest)
          BY <4>1, <4>2
        <4> HIDE DEF rest
        <4>6. Total(f, T \ {y}) = f[c] + Total(f, rest)
          BY <4>1, <4>2, <4>3
        <4>7. f[c] + (f[y] + Total(f, rest)) = f[y] + (f[c] + Total(f, rest))
          BY <4>4
        <4>8. QED
          BY <3>1, <4>5, <4>6, <4>7
      <3>4. QED
        BY <3>2, <3>3
    <2>2. QED
      BY <2>1
  <1> HIDE DEF Q
  <1>3. \A T \in SUBSET S : T \in Q
    BY <1>2, SmallerFirst
  <1>4. QED
    BY <1>3, S \in SUBSET S DEF Q

\* Only what is added up matters.
LEMMA TotalSame ==
  ASSUME NEW S, IsFiniteSet(S), NEW f, \A x \in S : f[x] \in Int, NEW h,
         \A x \in S : f[x] = h[x]
  PROVE  Total(f, S) = Total(h, S)
  <1>1. PICK g : IsSum(g, S, f)
    BY SumExists
  <1>2. \A x \in S : h[x] \in Int
    OBVIOUS
  <1>3. PICK k : IsSum(k, S, h)
    BY <1>2, SumExists
  <1>4. S \in SUBSET S
    OBVIOUS
  <1>5. g[S] = Total(f, S)
    BY <1>1, <1>4, SumIsTotal
  <1>6. k[S] = Total(h, S)
    BY <1>2, <1>3, <1>4, SumIsTotal
  <1>7. g[S] = k[S]
    BY <1>1, <1>3, SumsAgree, S \in SUBSET (S \cap S)
  <1>8. QED
    BY <1>5, <1>6, <1>7

\* The total of sums is the sum of totals.
LEMMA TotalPlus ==
  ASSUME NEW S, IsFiniteSet(S), NEW f, NEW h, NEW k,
         \A x \in S : f[x] \in Int /\ h[x] \in Int /\ k[x] = f[x] + h[x]
  PROVE  Total(k, S) = Total(f, S) + Total(h, S)
  <1> DEFINE Q == {T \in SUBSET S : Total(k, T) = Total(f, T) + Total(h, T)}
  <1>1. \A x \in S : f[x] \in Int /\ h[x] \in Int /\ k[x] \in Int
    OBVIOUS
  <1>2. \A T \in SUBSET S : IsFiniteSet(T)
    BY FS_Subset
  <1>3. ASSUME NEW T \in SUBSET S, \A U \in SUBSET T : U # T => U \in Q
        PROVE  T \in Q
    <2>1. /\ IsFiniteSet(T)
          /\ \A x \in T : f[x] \in Int /\ h[x] \in Int /\ k[x] \in Int
      BY <1>1, <1>2
    <2>2. CASE T = {}
      <3>1. Total(f, T) = 0 /\ Total(h, T) = 0 /\ Total(k, T) = 0
        BY <2>1, <2>2, TotalParts
      <3>2. QED
        BY <3>1
    <2>3. CASE T # {}
      <3> DEFINE x == FirstOf(T)
                 rest == T \ {x}
      <3>1. x \in T
        BY <2>3, FirstIsOne
      <3>2. rest \in Q /\ rest \in SUBSET S /\ IsFiniteSet(rest)
        BY <1>2, <1>3, <3>1
      <3>3. \A y \in rest : f[y] \in Int /\ h[y] \in Int
        BY <2>1
      <3>4. /\ Total(f, T) = f[x] + Total(f, rest)
            /\ Total(h, T) = h[x] + Total(h, rest)
            /\ Total(k, T) = k[x] + Total(k, rest)
        BY <2>1, <2>3, TotalParts
      <3>5. f[x] \in Int /\ h[x] \in Int /\ k[x] = f[x] + h[x]
        BY <3>1
      <3> HIDE DEF x, rest
      <3>6. Total(f, rest) \in Int /\ Total(h, rest) \in Int
        BY <3>2, <3>3, TotalParts
      <3>7. Total(k, rest) = Total(f, rest) + Total(h, rest)
        BY <3>2
      <3> HIDE DEF Q
      <3>8. Total(k, T) = Total(f, T) + Total(h, T)
        BY <3>4, <3>5, <3>6, <3>7
      <3>9. QED
        BY <3>8 DEF Q
    <2>4. QED
      BY <2>2, <2>3
  <1> HIDE DEF Q
  <1>4. \A T \in SUBSET S : T \in Q
    BY <1>3, SmallerFirst
  <1>5. QED
    BY <1>4, S \in SUBSET S DEF Q

\* What counts for nothing may be left out.
LEMMA TotalOfPart ==
  ASSUME NEW S, IsFiniteSet(S), NEW f, \A x \in S : f[x] \in Int,
         NEW R \in SUBSET S, \A x \in S \ R : f[x] = 0
  PROVE  Total(f, S) = Total(f, R)
  <1> DEFINE Q == {T \in SUBSET S : R \subseteq T => Total(f, T) = Total(f, R)}
  <1>1. ASSUME NEW T \in SUBSET S, \A U \in SUBSET T : U # T => U \in Q
        PROVE  T \in Q
    <2>1. CASE T \subseteq R
      BY <2>1
    <2>2. CASE R \subseteq T /\ ~ (T \subseteq R)
      <3>1. PICK x \in T : x \notin R
        BY <2>2
      <3>2. T \ {x} \in Q /\ R \subseteq T \ {x}
        BY <1>1, <2>2, <3>1
      <3>3. IsFiniteSet(T) /\ IsFiniteSet(R)
        BY FS_Subset
      <3>4. \A y \in T : f[y] \in Int
        OBVIOUS
      <3>5. \A y \in R : f[y] \in Int
        OBVIOUS
      <3>6. Total(f, R) \in Int
        BY <3>3, <3>5, TotalParts
      <3>7. Total(f, T) = f[x] + Total(f, T \ {x})
        BY <3>1, <3>3, <3>4, TotalTake
      <3>8. f[x] = 0
        BY <3>1
      <3>9. Total(f, T \ {x}) = Total(f, R)
        BY <3>2
      <3> HIDE DEF Q
      <3>10. Total(f, T) = Total(f, R)
        BY <3>6, <3>7, <3>8, <3>9
      <3>11. QED
        BY <3>10 DEF Q
    <2>3. CASE ~ (R \subseteq T)
      BY <2>3
    <2>4. QED
      BY <2>1, <2>2, <2>3
  <1> HIDE DEF Q
  <1>2. \A T \in SUBSET S : T \in Q
    BY <1>1, SmallerFirst
  <1>3. QED
    BY <1>2, S \in SUBSET S DEF Q

\* One element counts differently.
LEMMA TotalChange ==
  ASSUME NEW S, IsFiniteSet(S), NEW f, NEW h,
         \A x \in S : f[x] \in Int /\ h[x] \in Int, NEW x \in S,
         \A y \in S \ {x} : f[y] = h[y]
  PROVE  Total(h, S) = Total(f, S) - f[x] + h[x]
  <1> DEFINE rest == S \ {x}
  <1>1. IsFiniteSet(rest) /\ rest \in SUBSET S
    BY FS_Subset
  <1>2. Total(f, S) = f[x] + Total(f, rest)
    BY TotalTake
  <1>3. Total(h, S) = h[x] + Total(h, rest)
    BY TotalTake
  <1>4. \A y \in rest : f[y] \in Int /\ f[y] = h[y]
    OBVIOUS
  <1> HIDE DEF rest
  <1>5. Total(f, rest) \in Int /\ Total(f, rest) = Total(h, rest)
    BY <1>1, <1>4, TotalParts, TotalSame
  <1>6. f[x] \in Int /\ h[x] \in Int
    OBVIOUS
  <1>7. QED
    BY <1>2, <1>3, <1>5, <1>6

\* Vessels are filled one after the other, each with what those before it leave.
\* What is poured into them is what there is, or what they hold together.
LEMMA Pouring ==
  ASSUME NEW R, IsFiniteSet(R), NEW n \in Nat,
         NEW room, \A x \in R : room[x] \in Nat,
         NEW before, \A x \in R : before[x] \in SUBSET R /\ x \notin before[x],
         \A x \in R : \A y \in before[x] : before[y] \subseteq before[x],
         \A x \in R, y \in R : x # y => x \in before[y] \/ y \in before[x],
         NEW share,
         \A x \in R : share[x] = LET rest == n - Total(room, before[x])
                                 IN  IF rest <= 0 THEN 0
                                     ELSE IF room[x] <= rest THEN room[x] ELSE rest
  PROVE  Total(share, R) = IF Total(room, R) <= n THEN Total(room, R) ELSE n
  <1> DEFINE Down(T) == \A x \in T : before[x] \subseteq T
             Poured(T) == Total(share, T) = IF Total(room, T) <= n THEN Total(room, T) ELSE n
             Q == {T \in SUBSET R : Down(T) => Poured(T)}
  <1>1. \A T \in SUBSET R : IsFiniteSet(T) /\ Cardinality(T) \in Nat
    BY FS_Subset, FS_CardinalityType
  <1>2. \A T \in SUBSET R : /\ Total(room, T) \in Int
                            /\ T = {} => Total(room, T) = 0
                            /\ \A x \in T : Total(room, T) = room[x] + Total(room, T \ {x})
    <2>1. ASSUME NEW T \in SUBSET R
          PROVE  /\ Total(room, T) \in Int
                 /\ T = {} => Total(room, T) = 0
                 /\ \A x \in T : Total(room, T) = room[x] + Total(room, T \ {x})
      <3>1. IsFiniteSet(T) /\ \A x \in T : room[x] \in Int
        BY <1>1
      <3>2. QED
        BY ZenonT(60), <3>1, TotalParts, TotalTake
    <2>2. QED
      BY <2>1
  <1>3. \A x \in R : share[x] \in Int
    <2>1. ASSUME NEW x \in R
          PROVE  share[x] \in Int
      <3>1. Total(room, before[x]) \in Int /\ room[x] \in Int
        BY <1>2
      <3>2. QED
        BY <3>1
    <2>2. QED
      BY <2>1
  <1>4. ASSUME NEW T \in SUBSET R, \A U \in SUBSET T : U # T => U \in Q
        PROVE  T \in Q
    <2>1. CASE T = {}
      <3>1. Total(share, T) = 0
        BY <1>1, <2>1, TotalParts
      <3>2. Total(room, T) = 0
        BY <1>2, <2>1
      <3>3. QED
        BY <3>1, <3>2
    <2>2. CASE T # {} /\ Down(T)
      <3>1. PICK m \in T : before[m] = T \ {m}
        <4> DEFINE left == {Cardinality(T) - Cardinality(before[x]) : x \in T}
        <4>1. \A x \in T : before[x] \subseteq T /\ Cardinality(before[x]) \in Nat
                           /\ Cardinality(before[x]) <= Cardinality(T)
          <5>1. \A x \in T : before[x] \in SUBSET R /\ before[x] \subseteq T
            BY <2>2
          <5>2. IsFiniteSet(T)
            BY <1>1
          <5>3. QED
            BY <1>1, <5>1, <5>2, FS_Subset
        <4>2. left \subseteq Nat /\ left # {}
          <5>1. \A x \in T : Cardinality(T) - Cardinality(before[x]) \in Nat
            BY <1>1, <4>1
          <5>2. QED
            BY <2>2, <5>1
        <4>3. PICK d \in left : \A e \in left : d <= e
          BY <4>2, SmallestNat
        <4>4. PICK m \in T : d = Cardinality(T) - Cardinality(before[m])
          BY <4>3
        <4>5. ASSUME NEW x \in T
              PROVE  Cardinality(before[x]) <= Cardinality(before[m])
          <5>1. d <= Cardinality(T) - Cardinality(before[x])
            BY <4>3
          <5> HIDE DEF left
          <5>2. Cardinality(T) \in Int /\ Cardinality(before[x]) \in Int
                /\ Cardinality(before[m]) \in Int
            BY <1>1, <4>1
          <5>3. QED
            BY <4>4, <5>1, <5>2
        <4>6. ASSUME NEW x \in T, x # m, x \notin before[m]
              PROVE  FALSE
          <5>1. m \in before[x]
            BY <4>6
          <5>2. before[m] \subseteq before[x] /\ m \notin before[m] /\ before[x] \in SUBSET R
            BY <5>1
          <5>3. IsFiniteSet(before[x]) /\ before[m] # before[x]
            BY <1>1, <5>1, <5>2
          <5>4. Cardinality(before[m]) # Cardinality(before[x])
                /\ Cardinality(before[m]) <= Cardinality(before[x])
            BY <5>2, <5>3, FS_Subset
          <5>5. QED
            BY <4>1, <4>5, <5>4
        <4>7. before[m] = T \ {m}
          BY <4>1, <4>6
        <4>8. QED
          BY <4>7
      <3> DEFINE rest == T \ {m}
      <3>2. Down(rest)
        <4>1. ASSUME NEW x \in rest
              PROVE  before[x] \subseteq rest
          <5>1. x \in before[m]
            BY <3>1
          <5>2. before[x] \subseteq before[m]
            BY <5>1
          <5>3. QED
            BY <3>1, <5>2
        <4>2. QED
          BY <4>1
      <3>3. rest \in SUBSET T /\ rest # T /\ rest \in SUBSET R
        OBVIOUS
      <3>4. Poured(rest)
        <4>1. rest \in Q
          BY <1>4, <3>3
        <4>2. QED
          BY <3>2, <4>1
      <3>5. Total(room, T) = room[m] + Total(room, rest)
        BY SMTT(60), ZenonT(60), <1>2
      <3>6. Total(share, T) = share[m] + Total(share, rest)
        BY <1>1, <1>3, TotalTake
      <3>7. share[m] = IF n - Total(room, rest) <= 0 THEN 0
                       ELSE IF room[m] <= n - Total(room, rest) THEN room[m]
                       ELSE n - Total(room, rest)
        BY <3>1
      <3>8. room[m] \in Nat /\ Total(room, rest) \in Int
        BY <1>2, <3>3
      <3>9. Total(share, rest) = IF Total(room, rest) <= n THEN Total(room, rest) ELSE n
        BY <3>4
      <3> HIDE DEF Q, rest
      <3>10. Total(share, T) = IF Total(room, T) <= n THEN Total(room, T) ELSE n
        BY <3>5, <3>6, <3>7, <3>8, <3>9
      <3>11. QED
        BY <3>10 DEF Q
    <2>3. CASE ~ Down(T)
      BY <2>3
    <2>4. QED
      BY <2>1, <2>2, <2>3
  <1>5. Down(R)
    OBVIOUS
  <1>6. \A T \in SUBSET R : T \in Q
    <2> HIDE DEF Q
    <2>1. QED
      BY <1>4, SmallerFirst
  <1>7. R \in Q
    BY <1>6
  <1>8. QED
    BY <1>5, <1>7

=============================================================================
