-------------------------- MODULE CollectionTheorems --------------------------
(***************************************************************************)
(* What the models' helpers on collections compute, for every input.       *)
(*                                                                         *)
(* SumFunctionOnSet (of module Functions) is the sum of the values f[x] of *)
(* the elements x of a finite set, whatever order the fold takes them in:  *)
(* memory budgets, page counts and byte totals are such sums.  Keep (of    *)
(* module Lines) is what is left of a queue or of an order of use.         *)
(*                                                                         *)
(* The fold is a recursive function on the subsets of its set, and the     *)
(* proofs are by induction over those.  The library's induction theorems   *)
(* are about a predicate; here the induction is on the set of the subsets  *)
(* that satisfy it, of which a smallest exception is taken.                *)
(***************************************************************************)
EXTENDS Integers, Functions, Lines, FiniteSetTheorems, SequenceTheorems, TLAPS

(* Induction: a set that holds a subset of S whenever it holds all its     *)
(* proper subsets holds S.                                                 *)
LEMMA SubsetInduction ==
  ASSUME NEW S, IsFiniteSet(S), NEW Good,
         \A T \in SUBSET S : (\A U \in (SUBSET T) \ {T} : U \in Good) => T \in Good
  PROVE  \A T \in SUBSET S : T \in Good
  <1> DEFINE Bad == {T \in SUBSET S : T \notin Good}
  <1> SUFFICES ASSUME Bad # {} PROVE FALSE
    OBVIOUS
  <1>1. Bad \subseteq FiniteSubsetsOf(S)
    BY FS_Subset DEF FiniteSubsetsOf
  <1>2. IsWellFoundedOn(StrictSubsetOrdering(S), FiniteSubsetsOf(S))
    BY FS_StrictSubsetOrderingWellFounded
  <1>3. PICK T \in Bad : \A U \in Bad : ~(<<U, T>> \in StrictSubsetOrdering(S))
    <2> HIDE DEF Bad
    <2> QED BY <1>1, <1>2, WFMin
  <1>4. ASSUME NEW U \in (SUBSET T) \ {T} PROVE U \in Good
    <2>1. <<U, T>> \in StrictSubsetOrdering(S)
      BY DEF StrictSubsetOrdering
    <2> QED BY <1>3, <2>1
  <1> QED BY <1>3, <1>4

(* A set of naturals that is not empty has a smallest element.             *)
THEOREM LeastNatural ==
  ASSUME NEW S \in SUBSET Nat, S # {}
  PROVE  \E least \in S : \A n \in S : least <= n
  <1> DEFINE below == {0 .. n : n \in S}
  <1>1. below \subseteq FiniteSubsetsOf(Nat) /\ below # {}
    <2>1. \A n \in S : n \in Nat
      OBVIOUS
    <2>2. \A n \in Nat : IsFiniteSet(0 .. n) /\ 0 .. n \subseteq Nat
      BY FS_Interval
    <2> QED BY <2>1, <2>2 DEF FiniteSubsetsOf
  <1>2. PICK low \in below : \A x \in below : ~(<<x, low>> \in StrictSubsetOrdering(Nat))
    <2> HIDE DEF below
    <2>1. IsWellFoundedOn(StrictSubsetOrdering(Nat), FiniteSubsetsOf(Nat))
      BY FS_StrictSubsetOrderingWellFounded
    <2> QED BY <1>1, <2>1, WFMin
  <1>3. PICK k \in S : low = 0 .. k
    OBVIOUS
  <1>4. ASSUME NEW n \in S, n < k PROVE FALSE
    <2>1. n \in Nat /\ k \in Nat
      OBVIOUS
    <2>2. 0 .. n \subseteq 0 .. k /\ 0 .. k \subseteq Nat /\ k \in 0 .. k /\ k \notin 0 .. n
      BY <1>4, <2>1
    <2>3. <<0 .. n, 0 .. k>> \in StrictSubsetOrdering(Nat)
      BY <2>2 DEF StrictSubsetOrdering
    <2> QED BY <1>2, <1>3, <2>3
  <1>5. \A n \in S : n \in Nat /\ k \in Nat /\ ~(n < k)
    BY <1>4
  <1>6. \A n \in S : k <= n
    BY <1>5
  <1> QED BY <1>6

(* The fold's step on one set of indices, and what it means for a function *)
(* g to be the fold on the subsets of S.                                   *)
Pick(s) == CHOOSE x \in s : TRUE
Step(f, g, s) == IF s = {} THEN 0 ELSE f[Pick(s)] + g[s \ {Pick(s)}]
Folds(f, S, g) == g = [s \in SUBSET S |-> Step(f, g, s)]
Fold(f, S) == CHOOSE g : Folds(f, S, g)

LEMMA SumIsFold ==
  ASSUME NEW f, NEW S
  PROVE  SumFunctionOnSet(f, S) = Fold(f, S)[S]
  BY DEF SumFunctionOnSet, FoldFunctionOnSet, MapThenFoldSet, Fold, Folds, Step, Pick

LEMMA PickIn == \A s : s # {} => Pick(s) \in s
  BY DEF Pick

(* Two folds agree where both are defined.                                 *)
LEMMA FoldsAgree ==
  ASSUME NEW f, NEW S, IsFiniteSet(S), NEW R, NEW g, NEW h,
         Folds(f, S, g), Folds(f, R, h), S \subseteq R
  PROVE  \A T \in SUBSET S : g[T] = h[T]
  <1> DEFINE Good == {T \in SUBSET S : g[T] = h[T]}
  <1>1. ASSUME NEW T \in SUBSET S, \A U \in (SUBSET T) \ {T} : U \in Good
        PROVE  T \in Good
    <2>1. g[T] = Step(f, g, T) /\ h[T] = Step(f, h, T)
      BY DEF Folds
    <2>2. CASE T = {}
      BY <2>1, <2>2 DEF Step
    <2>3. CASE T # {}
      <3>1. T \ {Pick(T)} \in (SUBSET T) \ {T}
        BY <2>3, PickIn
      <3> QED BY <1>1, <2>1, <2>3, <3>1 DEF Step
    <2> QED BY <2>2, <2>3
  <1> HIDE DEF Good
  <1>2. \A T \in SUBSET S : T \in Good
    BY <1>1, SubsetInduction
  <1> QED BY <1>2 DEF Good

(* There is a fold on every finite set.                                    *)
LEMMA FoldExists ==
  ASSUME NEW f, NEW S, IsFiniteSet(S)
  PROVE  Folds(f, S, Fold(f, S))
  <1> DEFINE Good == {T \in SUBSET S : \E g : Folds(f, T, g)}
  <1>1. ASSUME NEW T \in SUBSET S, \A U \in (SUBSET T) \ {T} : U \in Good
        PROVE  T \in Good
    <2> DEFINE low(U) == IF U = T THEN Step(f, [V \in SUBSET T |-> Fold(f, V)[V]], T)
                                  ELSE Fold(f, U)[U]
               g == [U \in SUBSET T |-> low(U)]
    <2>1. ASSUME NEW U \in (SUBSET T) \ {T}
          PROVE  Folds(f, U, Fold(f, U)) /\ IsFiniteSet(U)
      BY <1>1, FS_Subset DEF Fold
    <2>2. ASSUME NEW U \in SUBSET T
          PROVE  g[U] = Step(f, g, U)
      <3>1. CASE U = {}
        <4>1. CASE T = {}
          BY <3>1, <4>1 DEF Step
        <4>2. CASE T # {}
          <5>1. Folds(f, U, Fold(f, U))
            BY <2>1, <3>1, <4>2
          <5> QED BY <3>1, <4>2, <5>1 DEF Step, Folds
        <4> QED BY <4>1, <4>2
      <3>2. CASE U = T /\ U # {}
        <4>1. T \ {Pick(T)} \in (SUBSET T) \ {T}
          BY <3>2, PickIn
        <4> QED BY <3>2, <4>1 DEF Step
      <3>3. CASE U # T /\ U # {}
        <4> DEFINE W == U \ {Pick(U)}
        <4>1. W \in SUBSET U /\ W \in (SUBSET T) \ {T} /\ U \in (SUBSET T) \ {T}
          BY <3>3, PickIn
        <4>2. Fold(f, U)[U] = Step(f, Fold(f, U), U)
          BY <2>1, <4>1 DEF Folds
        <4> HIDE DEF W
        <4>3. Fold(f, U)[W] = Fold(f, W)[W]
          <5>1. Folds(f, W, Fold(f, W)) /\ Folds(f, U, Fold(f, U)) /\ IsFiniteSet(W)
            BY <2>1, <4>1
          <5>2. \A X \in SUBSET W : Fold(f, W)[X] = Fold(f, U)[X]
            BY <4>1, <5>1, FoldsAgree
          <5> QED BY <5>2
        <4>4. g[U] = Fold(f, U)[U] /\ g[W] = Fold(f, W)[W]
          BY <4>1
        <4> QED BY <3>3, <4>2, <4>3, <4>4 DEF Step, W
      <3> QED BY <3>1, <3>2, <3>3
    <2>3. Folds(f, T, g)
      BY <2>2 DEF Folds
    <2> QED BY <2>3
  <1> HIDE DEF Good
  <1>2. \A T \in SUBSET S : T \in Good
    BY <1>1, SubsetInduction
  <1>3. \E g : Folds(f, S, g)
    BY <1>2 DEF Good
  <1> QED BY <1>3 DEF Fold

(* The sum of a set is that of one of its elements and that of the rest.   *)
LEMMA SumStep ==
  ASSUME NEW f, NEW S, IsFiniteSet(S)
  PROVE  SumFunctionOnSet(f, S) =
           IF S = {} THEN 0 ELSE f[Pick(S)] + SumFunctionOnSet(f, S \ {Pick(S)})
  <1>1. SumFunctionOnSet(f, S) = Step(f, Fold(f, S), S)
    <2> DEFINE g == Fold(f, S)
    <2>1. Folds(f, S, g) /\ SumFunctionOnSet(f, S) = g[S]
      BY FoldExists, SumIsFold
    <2> HIDE DEF g
    <2>2. g[S] = Step(f, g, S)
      BY <2>1 DEF Folds
    <2> QED BY <2>1, <2>2 DEF g
  <1>2. CASE S = {}
    BY <1>1, <1>2 DEF Step
  <1>3. CASE S # {}
    <2> DEFINE W == S \ {Pick(S)}
    <2>1. W \subseteq S /\ IsFiniteSet(W)
      BY FS_Subset
    <2> HIDE DEF W
    <2>2. Folds(f, W, Fold(f, W)) /\ Folds(f, S, Fold(f, S))
      BY <2>1, FoldExists
    <2>3. \A X \in SUBSET W : Fold(f, W)[X] = Fold(f, S)[X]
      BY <2>1, <2>2, FoldsAgree
    <2>4. Fold(f, S)[W] = SumFunctionOnSet(f, W)
      BY <2>3, SumIsFold
    <2> QED BY <1>1, <1>3, <2>4 DEF Step, W
  <1> QED BY <1>2, <1>3

----------------------------------------------------------------------------
(* The facts the other proof modules cite.                                 *)

(* A sum of integers is an integer.                                        *)
THEOREM SumType ==
  ASSUME NEW f, NEW S, IsFiniteSet(S), \A x \in S : f[x] \in Int
  PROVE  SumFunctionOnSet(f, S) \in Int
  <1> DEFINE Good == {T \in SUBSET S : SumFunctionOnSet(f, T) \in Int}
  <1>1. ASSUME NEW T \in SUBSET S, \A U \in (SUBSET T) \ {T} : U \in Good
        PROVE  T \in Good
    <2>1. IsFiniteSet(T)
      BY FS_Subset
    <2>2. CASE T = {}
      <3>1. SumFunctionOnSet(f, T) = 0
        BY <2>1, <2>2, SumStep
      <3> QED BY <3>1
    <2>3. CASE T # {}
      <3>1. T \ {Pick(T)} \in (SUBSET T) \ {T} /\ Pick(T) \in S
        BY <2>3, PickIn
      <3>2. SumFunctionOnSet(f, T \ {Pick(T)}) \in Int
        BY <1>1, <3>1
      <3> QED BY <2>1, <2>3, <3>1, <3>2, SumStep
    <2> QED BY <2>2, <2>3
  <1> HIDE DEF Good
  <1>2. \A T \in SUBSET S : T \in Good
    BY <1>1, SubsetInduction
  <1> QED BY <1>2 DEF Good

(* Any element may be taken out first: the order of the fold is irrelevant. *)
THEOREM SumRemove ==
  ASSUME NEW f, NEW S, IsFiniteSet(S), \A x \in S : f[x] \in Int, NEW x \in S
  PROVE  SumFunctionOnSet(f, S) = f[x] + SumFunctionOnSet(f, S \ {x})
  <1> DEFINE Sum(T) == SumFunctionOnSet(f, T)
             Good == {T \in SUBSET S : \A y \in T : Sum(T) = f[y] + Sum(T \ {y})}
  <1>1. ASSUME NEW T \in SUBSET S, \A U \in (SUBSET T) \ {T} : U \in Good
        PROVE  T \in Good
    <2> SUFFICES ASSUME NEW y \in T PROVE Sum(T) = f[y] + Sum(T \ {y})
      OBVIOUS
    <2> DEFINE c == Pick(T)
    <2>1. c \in T /\ f[c] \in Int /\ f[y] \in Int
      BY PickIn
    <2>2. \A U \in SUBSET T : IsFiniteSet(U) /\ Sum(U) \in Int
      BY FS_Subset, SumType
    <2>3. Sum(T) = f[c] + Sum(T \ {c})
      BY <2>2, SumStep
    <2> HIDE DEF Sum, c
    <2>4. CASE y = c
      BY <2>3, <2>4
    <2>5. CASE y # c
      <3>1. T \ {c} \in (SUBSET T) \ {T} /\ T \ {y} \in (SUBSET T) \ {T}
        BY <2>1
      <3>2. y \in T \ {c} /\ c \in T \ {y}
        BY <2>1, <2>5
      <3>3. Sum(T \ {c}) = f[y] + Sum((T \ {c}) \ {y})
        BY <1>1, <3>1, <3>2
      <3>4. Sum(T \ {y}) = f[c] + Sum((T \ {y}) \ {c})
        BY <1>1, <3>1, <3>2
      <3>5. Sum((T \ {y}) \ {c}) = Sum((T \ {c}) \ {y})
        <4>1. (T \ {y}) \ {c} = (T \ {c}) \ {y}
          OBVIOUS
        <4> QED BY ONLY <4>1, Zenon
      <3>6. Sum((T \ {c}) \ {y}) \in Int
        BY <2>2
      <3> QED BY <2>1, <2>3, <3>3, <3>4, <3>5, <3>6
    <2> QED BY <2>4, <2>5
  <1> HIDE DEF Good
  <1>2. \A T \in SUBSET S : T \in Good
    BY <1>1, SubsetInduction
  <1> QED BY <1>2 DEF Good

(* The empty sum, and one more summand.                                    *)
THEOREM SumEmpty == \A f : SumFunctionOnSet(f, {}) = 0
  BY SumStep, FS_EmptySet

THEOREM SumAdd ==
  ASSUME NEW f, NEW S, IsFiniteSet(S), \A y \in S : f[y] \in Int,
         NEW x, x \notin S, f[x] \in Int
  PROVE  SumFunctionOnSet(f, S \cup {x}) = f[x] + SumFunctionOnSet(f, S)
  <1>1. IsFiniteSet(S \cup {x}) /\ (S \cup {x}) \ {x} = S
    BY FS_AddElement
  <1> QED BY <1>1, SumRemove

(* A sum of naturals is a natural.                                         *)
THEOREM SumNat ==
  ASSUME NEW f, NEW S, IsFiniteSet(S), \A x \in S : f[x] \in Nat
  PROVE  SumFunctionOnSet(f, S) \in Nat
  <1> DEFINE Good == {T \in SUBSET S : SumFunctionOnSet(f, T) \in Nat}
  <1>1. ASSUME NEW T \in SUBSET S, \A U \in (SUBSET T) \ {T} : U \in Good
        PROVE  T \in Good
    <2>1. IsFiniteSet(T)
      BY FS_Subset
    <2>2. CASE T = {}
      <3>1. SumFunctionOnSet(f, T) = 0
        BY <2>1, <2>2, SumStep
      <3> QED BY <3>1
    <2>3. CASE T # {}
      <3>1. T \ {Pick(T)} \in (SUBSET T) \ {T} /\ Pick(T) \in S
        BY <2>3, PickIn
      <3>2. SumFunctionOnSet(f, T \ {Pick(T)}) \in Nat
        BY <1>1, <3>1
      <3> QED BY <2>1, <2>3, <3>1, <3>2, SumStep
    <2> QED BY <2>2, <2>3
  <1> HIDE DEF Good
  <1>2. \A T \in SUBSET S : T \in Good
    BY <1>1, SubsetInduction
  <1> QED BY <1>2 DEF Good

(* The sum of what is left when a subset is taken out.                     *)
THEOREM SumDifference ==
  ASSUME NEW f, NEW S, IsFiniteSet(S), \A x \in S : f[x] \in Int, NEW R \in SUBSET S
  PROVE  SumFunctionOnSet(f, S \ R) = SumFunctionOnSet(f, S) - SumFunctionOnSet(f, R)
  <1> DEFINE Sum(T) == SumFunctionOnSet(f, T)
             Good == {T \in SUBSET S : Sum(S \ T) = Sum(S) - Sum(T)}
  <1>1. \A T \in SUBSET S : IsFiniteSet(T) /\ Sum(T) \in Int
    BY FS_Subset, SumType
  <1>2. ASSUME NEW T \in SUBSET S, \A U \in (SUBSET T) \ {T} : U \in Good
        PROVE  T \in Good
    <2>1. CASE T = {}
      <3>1. Sum(T) = 0 /\ S \ T = S
        BY <2>1, SumEmpty
      <3> HIDE DEF Sum
      <3>2. Sum(S \ T) = Sum(S)
        BY ONLY <3>1, Zenon
      <3>3. Sum(S) \in Int
        BY <1>1
      <3> QED BY <3>1, <3>2, <3>3
    <2>2. CASE T # {}
      <3> DEFINE c == Pick(T)
                 U == T \ {c}
      <3>1. c \in T /\ U \in (SUBSET T) \ {T} /\ U \in SUBSET S
        BY <2>2, PickIn
      <3>2. Sum(T) = f[c] + Sum(U)
        BY <1>1, <3>1, SumRemove
      <3>3. Sum(S \ U) = Sum(S) - Sum(U)
        BY <1>2, <3>1
      <3>4. c \in S \ U /\ (S \ U) \ {c} = S \ T /\ S \ U \in SUBSET S
        BY <3>1
      <3>5. Sum(S \ U) = f[c] + Sum((S \ U) \ {c})
        BY <1>1, <3>4, SumRemove
      <3> HIDE DEF Sum, c, U
      <3>6. Sum((S \ U) \ {c}) = Sum(S \ T)
        BY ONLY <3>4, Zenon
      <3>7. Sum(S) \in Int /\ Sum(U) \in Int /\ Sum(S \ T) \in Int /\ f[c] \in Int
        BY <1>1, <3>1
      <3>8. Sum(S \ T) = Sum(S) - Sum(T)
        BY ONLY <3>2, <3>3, <3>5, <3>6, <3>7
      <3> QED BY <3>8
    <2> QED BY <2>1, <2>2
  <1> HIDE DEF Good
  <1>3. \A T \in SUBSET S : T \in Good
    BY <1>2, SubsetInduction
  <1> QED BY <1>3 DEF Good

(* Fewer summands, none negative, make no larger sum.                      *)
THEOREM SumMonotone ==
  ASSUME NEW f, NEW S, IsFiniteSet(S), \A x \in S : f[x] \in Nat, NEW R \in SUBSET S
  PROVE  SumFunctionOnSet(f, R) <= SumFunctionOnSet(f, S)
  <1>1. IsFiniteSet(S \ R) /\ IsFiniteSet(R)
    BY FS_Subset
  <1>2. /\ SumFunctionOnSet(f, S) \in Nat /\ SumFunctionOnSet(f, R) \in Nat
        /\ SumFunctionOnSet(f, S \ R) \in Nat
    BY <1>1, SumNat
  <1>3. SumFunctionOnSet(f, S \ R) = SumFunctionOnSet(f, S) - SumFunctionOnSet(f, R)
    BY SumDifference
  <1> QED BY <1>2, <1>3

(* Two disjoint sets together.                                             *)
THEOREM SumUnion ==
  ASSUME NEW f, NEW S, NEW R, IsFiniteSet(S), IsFiniteSet(R), S \cap R = {},
         \A x \in S \cup R : f[x] \in Int
  PROVE  SumFunctionOnSet(f, S \cup R) = SumFunctionOnSet(f, S) + SumFunctionOnSet(f, R)
  <1> DEFINE Sum(T) == SumFunctionOnSet(f, T)
  <1>1. IsFiniteSet(S \cup R) /\ R \in SUBSET (S \cup R)
    BY FS_Union
  <1>2. Sum((S \cup R) \ R) = Sum(S \cup R) - Sum(R)
    BY <1>1, SumDifference
  <1>3. Sum(S) \in Int /\ Sum(R) \in Int /\ Sum(S \cup R) \in Int
    BY <1>1, SumType
  <1> HIDE DEF Sum
  <1>4. Sum((S \cup R) \ R) = Sum(S)
    <2>1. (S \cup R) \ R = S
      OBVIOUS
    <2> QED BY ONLY <2>1, Zenon
  <1>5. Sum(S \cup R) = Sum(S) + Sum(R)
    BY ONLY <1>2, <1>3, <1>4
  <1> QED BY <1>5 DEF Sum

(* Functions that agree on a set have the same sum over it.                *)
THEOREM SumAgree ==
  ASSUME NEW f, NEW g, NEW S, IsFiniteSet(S), \A x \in S : f[x] = g[x]
  PROVE  SumFunctionOnSet(f, S) = SumFunctionOnSet(g, S)
  <1> DEFINE Good == {T \in SUBSET S : SumFunctionOnSet(f, T) = SumFunctionOnSet(g, T)}
  <1>1. ASSUME NEW T \in SUBSET S, \A U \in (SUBSET T) \ {T} : U \in Good
        PROVE  T \in Good
    <2>1. IsFiniteSet(T)
      BY FS_Subset
    <2>2. CASE T = {}
      BY <2>2, SumEmpty
    <2>3. CASE T # {}
      <3>1. T \ {Pick(T)} \in (SUBSET T) \ {T} /\ f[Pick(T)] = g[Pick(T)]
        BY <2>3, PickIn
      <3>2. SumFunctionOnSet(f, T \ {Pick(T)}) = SumFunctionOnSet(g, T \ {Pick(T)})
        BY <1>1, <3>1
      <3> QED BY <2>1, <2>3, <3>1, <3>2, SumStep
    <2> QED BY <2>2, <2>3
  <1> HIDE DEF Good
  <1>2. \A T \in SUBSET S : T \in Good
    BY <1>1, SubsetInduction
  <1> QED BY <1>2 DEF Good

(* A sum of positive numbers is at least how many they are.                *)
THEOREM SumAtLeastCount ==
  ASSUME NEW f, NEW S, IsFiniteSet(S), \A x \in S : f[x] \in Nat \ {0}
  PROVE  Cardinality(S) <= SumFunctionOnSet(f, S)
  <1> DEFINE Good == {T \in SUBSET S : Cardinality(T) <= SumFunctionOnSet(f, T)}
  <1>1. ASSUME NEW T \in SUBSET S, \A U \in (SUBSET T) \ {T} : U \in Good
        PROVE  T \in Good
    <2>1. IsFiniteSet(T)
      BY FS_Subset
    <2>2. CASE T = {}
      <3>1. SumFunctionOnSet(f, T) = 0 /\ Cardinality(T) = 0
        BY <2>2, SumEmpty, FS_EmptySet
      <3> QED BY <3>1
    <2>3. CASE T # {}
      <3> DEFINE x == Pick(T)
                 U == T \ {x}
      <3>1. x \in T /\ U \in (SUBSET T) \ {T} /\ f[x] \in Nat \ {0}
        BY <2>3, PickIn
      <3>2. SumFunctionOnSet(f, T) = f[x] + SumFunctionOnSet(f, U)
        BY <2>1, <2>3, SumStep
      <3>3. IsFiniteSet(U) /\ Cardinality(U) = Cardinality(T) - 1
        BY <2>1, <3>1, FS_RemoveElement
      <3>4. Cardinality(U) <= SumFunctionOnSet(f, U)
        BY <1>1, <3>1
      <3>5. Cardinality(T) \in Nat /\ SumFunctionOnSet(f, U) \in Nat
        BY <2>1, <3>3, SumNat, FS_CardinalityType
      <3> HIDE DEF x, U
      <3>6. Cardinality(T) <= SumFunctionOnSet(f, T)
        BY ONLY <3>1, <3>2, <3>3, <3>4, <3>5
      <3> QED BY <3>6
    <2> QED BY <2>2, <2>3
  <1> HIDE DEF Good
  <1>2. \A T \in SUBSET S : T \in Good
    BY <1>1, SubsetInduction
  <1> QED BY <1>2 DEF Good

(* A sum of which some terms grow by one grows by the number of those.     *)
THEOREM SumGrows ==
  ASSUME NEW f, NEW g, NEW S, IsFiniteSet(S), NEW C,
         \A x \in S : f[x] \in Int /\ g[x] = f[x] + (IF x \in C THEN 1 ELSE 0)
  PROVE  SumFunctionOnSet(g, S) = SumFunctionOnSet(f, S) + Cardinality(S \cap C)
  <1> DEFINE Good == {T \in SUBSET S : SumFunctionOnSet(g, T) = SumFunctionOnSet(f, T) + Cardinality(T \cap C)}
  <1>0. \A x \in S : g[x] \in Int
    OBVIOUS
  <1>1. ASSUME NEW T \in SUBSET S, \A U \in (SUBSET T) \ {T} : U \in Good
        PROVE  T \in Good
    <2>1. IsFiniteSet(T)
      BY FS_Subset
    <2>2. CASE T = {}
      <3>1. SumFunctionOnSet(f, T) = 0 /\ SumFunctionOnSet(g, T) = 0 /\ T \cap C = {} /\ Cardinality({}) = 0
        BY <2>2, SumEmpty, FS_EmptySet
      <3> QED BY <3>1
    <2>3. CASE T # {}
      <3> DEFINE x == Pick(T)
                 U == T \ {x}
      <3>1. x \in T /\ U \in (SUBSET T) \ {T} /\ f[x] \in Int /\ g[x] = f[x] + (IF x \in C THEN 1 ELSE 0)
        BY <2>3, PickIn
      <3>2. SumFunctionOnSet(f, T) = f[x] + SumFunctionOnSet(f, U) /\ SumFunctionOnSet(g, T) = g[x] + SumFunctionOnSet(g, U)
        <4>1. \A y \in T : f[y] \in Int /\ g[y] \in Int
          BY <1>0
        <4> QED BY <2>1, <2>3, <4>1, SumStep
      <3>3. IsFiniteSet(U) /\ IsFiniteSet(T \cap C) /\ IsFiniteSet(U \cap C)
        BY <2>1, <3>1, FS_Subset, FS_Intersection
      <3>4. SumFunctionOnSet(g, U) = SumFunctionOnSet(f, U) + Cardinality(U \cap C)
        BY <1>1, <3>1
      <3>5. SumFunctionOnSet(f, U) \in Int /\ Cardinality(U \cap C) \in Nat /\ Cardinality(T \cap C) \in Nat
        BY <1>0, <3>1, <3>3, SumType, FS_CardinalityType
      <3>6. Cardinality(T \cap C) = Cardinality(U \cap C) + (IF x \in C THEN 1 ELSE 0)
        <4>1. CASE x \in C
          <5>1. U \cap C = (T \cap C) \ {x} /\ x \in T \cap C
            BY <3>1, <4>1
          <5>2. Cardinality((T \cap C) \ {x}) = Cardinality(T \cap C) - 1
            BY <3>3, <5>1, FS_RemoveElement
          <5> QED BY <3>5, <4>1, <5>1, <5>2, SMTT(30)
        <4>2. CASE x \notin C
          <5>1. U \cap C = T \cap C
            BY <4>2
          <5> QED BY <3>5, <4>2, <5>1
        <4> QED BY <4>1, <4>2
      <3> HIDE DEF x, U
      <3>7. SumFunctionOnSet(g, T) = SumFunctionOnSet(f, T) + Cardinality(T \cap C)
        BY ONLY <3>1, <3>2, <3>4, <3>5, <3>6
      <3> QED BY <3>7
    <2> QED BY <2>2, <2>3
  <1> HIDE DEF Good
  <1>2. \A T \in SUBSET S : T \in Good
    BY <1>1, SubsetInduction
  <1> QED BY <1>2 DEF Good

----------------------------------------------------------------------------
(* Arithmetic.                                                             *)

LEMMA TimesOrder ==
  ASSUME NEW i \in Nat, NEW j \in Nat, NEW b \in Nat, i < j
  PROVE  i * b + b <= j * b
  <1>1. (i + 1) * b <= j * b
    <2>1. j - i - 1 \in Nat /\ (j - i - 1) * b >= 0
      OBVIOUS
    <2> QED BY <2>1
  <1> QED BY <1>1

(* Quotient and remainder.                                                 *)
LEMMA Division ==
  ASSUME NEW a \in Nat, NEW b \in Nat \ {0}
  PROVE  a \div b \in Nat /\ a % b \in 0 .. b - 1 /\ a = (a \div b) * b + (a % b)
  <1>1. a \div b \in Nat
    OBVIOUS
  <1>2. a % b \in 0 .. b - 1
    OBVIOUS
  <1>3. a = b * (a \div b) + (a % b)
    OBVIOUS
  <1> QED BY <1>1, <1>2, <1>3

LEMMA DivisionUnique ==
  ASSUME NEW b \in Nat \ {0}, NEW q \in Nat, NEW r \in 0 .. b - 1
  PROVE  (q * b + r) \div b = q /\ (q * b + r) % b = r
  <1> DEFINE a == q * b + r
  <1>1. a \in Nat
    OBVIOUS
  <1>2. a \div b \in Nat /\ a % b \in 0 .. b - 1 /\ a = (a \div b) * b + (a % b)
    <2> HIDE DEF a
    <2> QED BY <1>1, Division
  <1> DEFINE d == a \div b
             e == a % b
  <1>3. d \in Nat /\ e \in 0 .. b - 1 /\ q * b + r = d * b + e
    BY <1>2
  <1> HIDE DEF d, e
  <1>4. ~(d < q)
    <2> SUFFICES ASSUME d < q PROVE FALSE
      OBVIOUS
    <2>1. d * b + b <= q * b
      BY <1>3, TimesOrder
    <2> QED BY <1>3, <2>1
  <1>5. ~(q < d)
    <2> SUFFICES ASSUME q < d PROVE FALSE
      OBVIOUS
    <2>1. q * b + b <= d * b
      BY <1>3, TimesOrder
    <2> QED BY <1>3, <2>1
  <1>6. d = q
    BY <1>3, <1>4, <1>5
  <1>7. e = r
    BY <1>3, <1>6
  <1> QED BY <1>6, <1>7 DEF d, e

(* How many parts of b a length n needs (div_ceil).                        *)
CeilDiv(n, b) == (n + b - 1) \div b

LEMMA CeilDivIs ==
  ASSUME NEW b \in Nat \ {0}, NEW n \in Nat
  PROVE  /\ CeilDiv(n, b) \in Nat /\ CeilDiv(n, b) * b \in Nat
         /\ n <= CeilDiv(n, b) * b /\ CeilDiv(n, b) * b < n + b
         /\ n % b = 0 <=> n = CeilDiv(n, b) * b
  <1> DEFINE d == CeilDiv(n, b)
             e == (n + b - 1) % b
  <1>1. b \in Nat \ {0} /\ n + b - 1 \in Nat
    OBVIOUS
  <1>2. d \in Nat /\ e \in 0 .. b - 1 /\ n + b - 1 = d * b + e
    BY <1>1, Division DEF CeilDiv
  <1>3. n % b \in 0 .. b - 1 /\ n \div b \in Nat
        /\ n = (n \div b) * b + (n % b)
    BY <1>1, Division
  <1> HIDE DEF d, e
  <1>4. d * b \in Nat /\ n <= d * b /\ d * b < n + b
    BY <1>1, <1>2
  <1>5. ASSUME n = d * b PROVE n % b = 0
    BY <1>1, <1>2, <1>5, DivisionUnique
  <1>6. ASSUME n % b = 0 PROVE n = d * b
    <2> DEFINE c == n \div b
    <2>1. c \in Nat /\ n = c * b
      BY <1>1, <1>3, <1>6
    <2> HIDE DEF c
    <2>2. ~(c < d)
      <3> SUFFICES ASSUME c < d PROVE FALSE
        OBVIOUS
      <3>1. c * b + b <= d * b
        BY <1>1, <1>2, <2>1, TimesOrder
      <3> QED BY <1>1, <1>4, <2>1, <3>1
    <2>3. ~(d < c)
      <3> SUFFICES ASSUME d < c PROVE FALSE
        OBVIOUS
      <3>1. d * b + b <= c * b
        BY <1>1, <1>2, <2>1, TimesOrder
      <3> QED BY <1>1, <1>4, <2>1, <3>1
    <2> QED BY <1>2, <2>1, <2>2, <2>3
  <1> QED BY <1>2, <1>4, <1>5, <1>6 DEF d

LEMMA CeilDivUnique ==
  ASSUME NEW b \in Nat \ {0}, NEW n \in Nat, NEW k \in Nat, n <= k * b, k * b < n + b
  PROVE  CeilDiv(n, b) = k
  <1> DEFINE d == CeilDiv(n, b)
  <1>1. b \in Nat \ {0} /\ d \in Nat /\ n <= d * b /\ d * b < n + b
        /\ k * b \in Nat /\ d * b \in Nat
    BY CeilDivIs
  <1> HIDE DEF d
  <1>2. ~(d < k)
    <2> SUFFICES ASSUME d < k PROVE FALSE
      OBVIOUS
    <2>1. d * b + b <= k * b
      BY <1>1, TimesOrder
    <2> QED BY <1>1, <2>1
  <1>3. ~(k < d)
    <2> SUFFICES ASSUME k < d PROVE FALSE
      OBVIOUS
    <2>1. k * b + b <= d * b
      BY <1>1, TimesOrder
    <2> QED BY <1>1, <2>1
  <1>4. d = k
    BY <1>1, <1>2, <1>3
  <1> QED BY <1>4 DEF d

(* One more needs one more part when the last one is full.                 *)
LEMMA CeilDivNext ==
  ASSUME NEW b \in Nat \ {0}, NEW n \in Nat
  PROVE  /\ n % b = 0 => CeilDiv(n + 1, b) = CeilDiv(n, b) + 1
         /\ n % b # 0 => CeilDiv(n + 1, b) = CeilDiv(n, b)
  <1> DEFINE d == CeilDiv(n, b)
  <1>1. b \in Nat \ {0} /\ d \in Nat /\ n <= d * b /\ d * b < n + b
        /\ d * b \in Nat /\ (n % b = 0 <=> n = d * b)
    BY CeilDivIs
  <1> HIDE DEF d
  <1>2. ASSUME n % b = 0 PROVE CeilDiv(n + 1, b) = d + 1
    <2>1. (d + 1) * b = n + b /\ d + 1 \in Nat /\ n + 1 \in Nat
      BY <1>1, <1>2
    <2>2. n + 1 <= (d + 1) * b /\ (d + 1) * b < n + 1 + b
      BY <1>1, <2>1
    <2> QED BY <2>1, <2>2, CeilDivUnique
  <1>3. ASSUME n % b # 0 PROVE CeilDiv(n + 1, b) = d
    <2>1. n + 1 <= d * b /\ d * b < n + 1 + b /\ n + 1 \in Nat
      BY <1>1, <1>3
    <2> QED BY <1>1, <2>1, CeilDivUnique
  <1> QED BY <1>2, <1>3 DEF d

----------------------------------------------------------------------------
(* Sequences, place by place.                                              *)
LEMMA SubSeqIs ==
  ASSUME NEW s, NEW m \in Int, NEW n \in Int, m <= n + 1
  PROVE  /\ SubSeq(s, m, n) = [i \in 1 .. n - m + 1 |-> s[m + i - 1]]
         /\ Len(SubSeq(s, m, n)) = n - m + 1
  <1> DEFINE S == {s[i] : i \in m .. n}
  <1>1. \A i \in m .. n : s[i] \in S
    OBVIOUS
  <1> HIDE DEF S
  <1>2. /\ SubSeq(s,m,n) \in Seq(S)
        /\ Len(SubSeq(s,m,n)) = IF m<=n THEN n-m+1 ELSE 0
        /\ \A i \in 1 .. n-m+1 : SubSeq(s,m,n)[i] = s[m+i-1]
    BY <1>1, SubSeqProperties
  <1>3. Len(SubSeq(s, m, n)) = n - m + 1
    BY <1>2
  <1>4. SubSeq(s, m, n) = [i \in 1 .. n - m + 1 |-> SubSeq(s,m,n)[i]]
    <2> DEFINE t == SubSeq(s,m,n)
    <2> HIDE DEF t
    <2>1. t \in Seq(S) /\ Len(t) = n - m + 1
      BY <1>2, <1>3 DEF t
    <2>2. t = [i \in 1 .. n - m + 1 |-> t[i]]
      BY <2>1, LenProperties
    <2> QED BY <2>2 DEF t
  <1> QED BY <1>2, <1>3, <1>4

LEMMA ConcatIs ==
  ASSUME NEW S, NEW s \in Seq(S), NEW t \in Seq(S), NEW m \in Nat, NEW n \in Nat, Len(s) = m, Len(t) = n
  PROVE  /\ s \o t = [i \in 1 .. m + n |-> IF i <= m THEN s[i] ELSE t[i - m]]
         /\ Len(s \o t) = m + n /\ s \o t \in Seq(S)
  <1>1. s \o t \in Seq(S) /\ Len(s \o t) = m + n
        /\ \A i \in 1 .. m + n : (s \o t)[i] = IF i <= m THEN s[i] ELSE t[i - m]
    BY ConcatProperties
  <1>2. s \o t = [i \in 1 .. m + n |-> (s \o t)[i]]
    <2> DEFINE u == s \o t
    <2> HIDE DEF u
    <2>1. u \in Seq(S) /\ Len(u) = m + n
      BY <1>1 DEF u
    <2>2. u = [i \in 1 .. m + n |-> u[i]]
      BY <2>1, LenProperties
    <2> QED BY <2>2 DEF u
  <1> QED BY <1>1, <1>2

LEMMA RangeIs ==
  ASSUME NEW S, NEW s \in Seq(S)
  PROVE  /\ Len(s) \in Nat /\ DOMAIN s = 1 .. Len(s)
         /\ \A b : b \in Range(s) <=> \E i \in 1 .. Len(s) : s[i] = b
         /\ Range(s) \subseteq S
  <1>1. Len(s) \in Nat /\ DOMAIN s = 1 .. Len(s) /\ \A i \in 1 .. Len(s) : s[i] \in S
    BY LenProperties, ElementOfSeq
  <1> QED BY <1>1 DEF Range

----------------------------------------------------------------------------
(* Lines (module Lines).                                                   *)

(* A line in which nobody stands twice.                                    *)
Once(s) == \A i, j \in 1 .. Len(s) : s[i] = s[j] => i = j

(* A line without repetitions is as long as its range is large.            *)
THEOREM OnceCounts ==
  ASSUME NEW S, NEW s \in Seq(S), Once(s)
  PROVE  Len(s) = Cardinality(Range(s)) /\ IsFiniteSet(Range(s))
  <1>1. Len(s) \in Nat /\ s \in [1 .. Len(s) -> S] /\ DOMAIN s = 1 .. Len(s)
    BY LenProperties
  <1>2. s \in Bijection(1 .. Len(s), Range(s))
    BY <1>1 DEF Once, Bijection, Injection, Surjection, IsInjective, Range
  <1>3. IsFiniteSet(1 .. Len(s)) /\ Cardinality(1 .. Len(s)) = Len(s)
    BY <1>1, FS_Interval
  <1> QED BY <1>2, <1>3, FS_Bijection DEF ExistsBijection

(* Joining and leaving a line, at either end.                              *)
THEOREM JoinLine ==
  ASSUME NEW S, NEW s \in Seq(S), NEW x \in S
  PROVE  /\ Append(s, x) \in Seq(S) /\ Range(Append(s, x)) = Range(s) \cup {x}
         /\ Once(s) /\ x \notin Range(s) => Once(Append(s, x))
         /\ <<x>> \o s \in Seq(S) /\ Range(<<x>> \o s) = Range(s) \cup {x}
         /\ Once(s) /\ x \notin Range(s) => Once(<<x>> \o s)
  <1>1. Len(s) \in Nat /\ DOMAIN s = 1 .. Len(s)
    BY LenProperties
  <1>2. /\ Append(s, x) \in Seq(S) /\ Len(Append(s, x)) = Len(s) + 1
        /\ \A i \in 1 .. Len(s) : Append(s, x)[i] = s[i]
        /\ Append(s, x)[Len(s) + 1] = x
    BY AppendProperties
  <1>3. DOMAIN Append(s, x) = 1 .. Len(s) + 1
    BY <1>2, LenProperties
  <1>4. <<x>> \in Seq(S) /\ Len(<<x>>) = 1 /\ <<x>>[1] = x
    OBVIOUS
  <1>5. /\ <<x>> \o s \in Seq(S) /\ Len(<<x>> \o s) = 1 + Len(s)
        /\ \A i \in 1 .. 1 + Len(s) : (<<x>> \o s)[i] = IF i <= 1 THEN <<x>>[i] ELSE s[i - 1]
    BY <1>1, <1>4, ConcatProperties
  <1> DEFINE t == Append(s, x)
             u == <<x>> \o s
  <1>6. DOMAIN u = 1 .. Len(s) + 1 /\ \A i \in 1 .. Len(s) : u[i + 1] = s[i]
    <2>1. DOMAIN u = 1 .. 1 + Len(s)
      BY <1>5, LenProperties
    <2> QED BY <1>1, <1>5, <2>1
  <1>7. u[1] = x
    BY <1>1, <1>4, <1>5
  <1> HIDE DEF t, u
  <1>8. Range(t) = Range(s) \cup {x}
    <2>1. ASSUME NEW y \in Range(t) PROVE y \in Range(s) \cup {x}
      BY <1>1, <1>2, <1>3 DEF Range, t
    <2>2. x \in Range(t) /\ \A i \in 1 .. Len(s) : s[i] \in Range(t)
      BY <1>1, <1>2, <1>3 DEF Range, t
    <2> QED BY <1>1, <2>1, <2>2 DEF Range
  <1>9. Range(u) = Range(s) \cup {x}
    <2>1. ASSUME NEW y \in Range(u) PROVE y \in Range(s) \cup {x}
      <3>1. PICK i \in 1 .. Len(s) + 1 : u[i] = y
        BY <1>6 DEF Range
      <3>2. CASE i = 1
        BY <1>7, <3>1, <3>2
      <3>3. CASE i # 1
        <4>1. i - 1 \in 1 .. Len(s) /\ u[(i - 1) + 1] = y
          BY <1>1, <3>1, <3>3
        <4> QED BY <1>1, <1>6, <4>1 DEF Range
      <3> QED BY <3>2, <3>3
    <2>2. \A i \in 1 .. Len(s) : i + 1 \in 1 .. Len(s) + 1
      BY <1>1
    <2>3. x \in Range(u) /\ \A i \in 1 .. Len(s) : s[i] \in Range(u)
      BY <1>1, <1>6, <1>7, <2>2 DEF Range
    <2> QED BY <1>1, <2>1, <2>3 DEF Range
  <1>10. ASSUME Once(s), x \notin Range(s) PROVE Once(t)
    <2>1. \A i \in 1 .. Len(s) : t[i] # x
      BY <1>1, <1>2, <1>10 DEF Range, t
    <2>2. ASSUME NEW i \in 1 .. Len(s) + 1, NEW j \in 1 .. Len(s) + 1, t[i] = t[j] PROVE i = j
      BY <1>1, <1>2, <1>10, <2>1, <2>2 DEF Once, t
    <2> QED BY <1>2, <2>2 DEF Once, t
  <1>11. ASSUME Once(s), x \notin Range(s) PROVE Once(u)
    <2>1. \A i \in 1 .. Len(s) : s[i] # x
      BY <1>1, <1>11 DEF Range
    <2>2. ASSUME NEW i \in 1 .. Len(s) + 1, i # 1 PROVE i - 1 \in 1 .. Len(s) /\ u[i] = s[i - 1]
      <3>1. i - 1 \in 1 .. Len(s) /\ (i - 1) + 1 = i
        BY <1>1, <2>2
      <3> QED BY <1>6, <3>1
    <2>3. ASSUME NEW i \in 1 .. Len(s) + 1, NEW j \in 1 .. Len(s) + 1, u[i] = u[j] PROVE i = j
      <3>1. CASE i = 1 \/ j = 1
        BY <1>1, <1>7, <2>1, <2>2, <2>3, <3>1
      <3>2. CASE i # 1 /\ j # 1
        <4>1. s[i - 1] = s[j - 1] /\ i - 1 \in 1 .. Len(s) /\ j - 1 \in 1 .. Len(s)
          BY <2>2, <2>3, <3>2
        <4>2. i - 1 = j - 1
          BY <1>11, <4>1 DEF Once
        <4> QED BY <1>1, <4>2
      <3> QED BY <3>1, <3>2
    <2>4. Len(u) = Len(s) + 1
      BY <1>1, <1>5 DEF u
    <2> QED BY <2>3, <2>4 DEF Once
  <1> QED BY <1>2, <1>5, <1>8, <1>9, <1>10, <1>11 DEF t, u

\* x joins at the end of s: Grown(s, t, x) says that t is s with x after it.
Grown(s, t, x) ==
  /\ Len(t) = Len(s) + 1 /\ t[Len(s) + 1] = x
  /\ \A i \in 1 .. Len(s) : t[i] = s[i]

LEMMA AppendLine ==
  ASSUME NEW S, NEW s \in Seq(S), NEW x \in S, NEW t \in Seq(S), Grown(s, t, x)
  PROVE  /\ Range(t) = Range(s) \cup {x}
         /\ Once(s) /\ x \notin Range(s) => Once(t)
         /\ \A a, b : Before(s, a, b) => Before(t, a, b)
         /\ \A a \in Range(s) : Before(t, a, x)
  <1>1. Len(s) \in Nat /\ DOMAIN s = 1 .. Len(s)
    BY LenProperties
  <1>2. /\ t \in Seq(S) /\ Len(t) = Len(s) + 1 /\ \A i \in 1 .. Len(s) : t[i] = s[i]
        /\ t[Len(s) + 1] = x
    BY DEF Grown
  <1>3. DOMAIN t = 1 .. Len(s) + 1
    BY <1>2, LenProperties
  <1>4. Range(t) = Range(s) \cup {x}
    <2>1. ASSUME NEW y \in Range(t) PROVE y \in Range(s) \cup {x}
      BY <1>1, <1>2, <1>3 DEF Range
    <2>2. x \in Range(t) /\ \A i \in 1 .. Len(s) : s[i] \in Range(t)
      BY <1>1, <1>2, <1>3 DEF Range
    <2> QED BY <1>1, <2>1, <2>2 DEF Range
  <1>5. ASSUME Once(s), x \notin Range(s) PROVE Once(t)
    <2>1. \A i \in 1 .. Len(s) : t[i] # x
      BY <1>1, <1>2, <1>5 DEF Range
    <2>2. ASSUME NEW i \in 1 .. Len(s) + 1, NEW j \in 1 .. Len(s) + 1, t[i] = t[j] PROVE i = j
      BY <1>1, <1>2, <1>5, <2>1, <2>2 DEF Once
    <2> QED BY <1>2, <2>2 DEF Once
  <1>6. \A k \in 1 .. Len(s) : k \in DOMAIN t /\ k < Len(s) + 1 /\ Len(s) + 1 \in DOMAIN t
    BY <1>1, <1>3
  <1>7. \A a, b : Before(s, a, b) => Before(t, a, b)
    BY <1>1, <1>2, <1>6 DEF Before
  <1>8. \A a \in Range(s) : Before(t, a, x)
    <2>1. \A a \in Range(s) : \E k \in 1 .. Len(s) : s[k] = a
      BY <1>1 DEF Range
    <2> QED BY <1>2, <1>6, <2>1 DEF Before
  <1> QED BY <1>2, <1>4, <1>5, <1>7, <1>8

THEOREM LeaveLine ==
  ASSUME NEW S, NEW s \in Seq(S), s # <<>>
  PROVE  /\ Head(s) \in S /\ Head(s) \in Range(s)
         /\ Tail(s) \in Seq(S) /\ Range(Tail(s)) \subseteq Range(s)
         /\ Once(s) => Once(Tail(s)) /\ Range(Tail(s)) = Range(s) \ {Head(s)}
         /\ <<Head(s)>> \o Tail(s) = s
  <1>1. Len(s) \in Nat \ {0} /\ DOMAIN s = 1 .. Len(s) /\ \A i \in 1 .. Len(s) : s[i] \in S
    BY LenProperties, ElementOfSeq, EmptySeq
  <1>2. /\ Head(s) = s[1] /\ Tail(s) \in Seq(S) /\ Len(Tail(s)) = Len(s) - 1
        /\ \A i \in 1 .. Len(Tail(s)) : Tail(s)[i] = s[i + 1]
    BY HeadTailProperties
  <1> DEFINE t == Tail(s)
  <1>3. DOMAIN t = 1 .. Len(s) - 1 /\ \A i \in 1 .. Len(s) - 1 : t[i] = s[i + 1] /\ i + 1 \in 1 .. Len(s)
    BY <1>1, <1>2, LenProperties
  <1> HIDE DEF t
  <1>4. 1 \in 1 .. Len(s) /\ Head(s) \in Range(s)
    BY <1>1, <1>2 DEF Range
  <1>5. Range(t) \subseteq Range(s)
    BY <1>1, <1>3 DEF Range
  <1>6. ASSUME Once(s) PROVE Once(t)
    <2>1. ASSUME NEW i \in 1 .. Len(s) - 1, NEW j \in 1 .. Len(s) - 1, t[i] = t[j] PROVE i = j
      <3>1. i + 1 = j + 1
        BY <1>3, <1>6, <2>1 DEF Once
      <3> QED BY <1>1, <3>1
    <2>2. Len(t) = Len(s) - 1
      BY <1>2 DEF t
    <2> QED BY <2>1, <2>2 DEF Once
  <1>7. ASSUME Once(s) PROVE Range(t) = Range(s) \ {Head(s)}
    <2>1. ASSUME NEW y \in Range(t) PROVE y # Head(s)
      <3>1. PICK i \in 1 .. Len(s) - 1 : t[i] = y
        BY <1>3 DEF Range
      <3>2. i + 1 # 1 /\ s[i + 1] = y /\ i + 1 \in 1 .. Len(s)
        BY <1>1, <1>3, <3>1
      <3> QED BY <1>2, <1>4, <1>7, <3>2 DEF Once
    <2>2. ASSUME NEW y \in Range(s), y # Head(s) PROVE y \in Range(t)
      <3>1. PICK i \in 1 .. Len(s) : s[i] = y
        BY <1>1 DEF Range
      <3>2. i # 1
        BY <1>2, <2>2, <3>1
      <3>3. i - 1 \in 1 .. Len(s) - 1 /\ (i - 1) + 1 = i
        BY <1>1, <3>2
      <3>4. t[i - 1] = y
        BY <1>3, <3>1, <3>3
      <3> QED BY <1>3, <3>3, <3>4 DEF Range
    <2> QED BY <1>5, <2>1, <2>2
  <1>8. <<Head(s)>> \o Tail(s) = s
    BY HeadTailProperties
  <1> QED BY <1>1, <1>2, <1>4, <1>5, <1>6, <1>7, <1>8 DEF t

(* The places that Keep keeps and the rank of each among them.             *)
Kept(s, S) == {i \in DOMAIN s : s[i] \in S}
Rank(K, i) == Cardinality({j \in K : j <= i})
Place(K, n) == CHOOSE i \in K : Rank(K, i) = n

LEMMA KeepIs ==
  ASSUME NEW s, NEW S
  PROVE  Keep(s, S) = [n \in 1 .. Cardinality(Kept(s, S)) |-> s[Place(Kept(s, S), n)]]
  BY DEF Keep, AtPlaces, Kept, Place, Rank

(* Ranks number a finite set of naturals from one, in its order.           *)
LEMMA RankIncreases ==
  ASSUME NEW K \in SUBSET Nat, IsFiniteSet(K), NEW i \in K, NEW j \in K, i < j
  PROVE  Rank(K, i) < Rank(K, j)
  <1> DEFINE low(n) == {m \in K : m <= n}
  <1>1. low(i) \in SUBSET low(j) /\ j \in low(j) /\ j \notin low(i)
    <2>1. i \in Nat /\ j \in Nat /\ \A m \in K : m \in Nat
      OBVIOUS
    <2>2. \A m \in K : m <= i => m <= j
      BY <2>1
    <2>3. j <= j /\ ~(j <= i)
      BY <2>1
    <2> QED BY ONLY <2>2, <2>3, Zenon
  <1>2. IsFiniteSet(low(i)) /\ IsFiniteSet(low(j))
    BY FS_Subset
  <1> HIDE DEF low
  <1>3. /\ Cardinality(low(i)) \in Nat /\ Cardinality(low(j)) \in Nat
        /\ Cardinality(low(i)) <= Cardinality(low(j))
        /\ Cardinality(low(i)) # Cardinality(low(j))
    BY <1>1, <1>2, FS_Subset, FS_CardinalityType
  <1> QED BY <1>3 DEF Rank, low

LEMMA RankBounds ==
  ASSUME NEW K \in SUBSET Nat, IsFiniteSet(K), NEW i \in K
  PROVE  Rank(K, i) \in 1 .. Cardinality(K)
  <1> DEFINE low == {m \in K : m <= i}
  <1>1. low \in SUBSET K /\ i \in low
    OBVIOUS
  <1> HIDE DEF low
  <1>2. IsFiniteSet(low) /\ Cardinality(low) <= Cardinality(K)
    BY <1>1, FS_Subset
  <1>3. Cardinality(low) \in Nat /\ Cardinality(K) \in Nat /\ Cardinality(low) # 0
    BY <1>1, <1>2, FS_CardinalityType, FS_EmptySet
  <1> QED BY <1>2, <1>3 DEF Rank, low

LEMMA PlaceProperties ==
  ASSUME NEW K \in SUBSET Nat, IsFiniteSet(K)
  PROVE  /\ Cardinality(K) \in Nat
         /\ \A n \in 1 .. Cardinality(K) : Place(K, n) \in K /\ Rank(K, Place(K, n)) = n
         /\ \A i \in K : Place(K, Rank(K, i)) = i
         /\ \A m, n \in 1 .. Cardinality(K) : m < n => Place(K, m) < Place(K, n)
  <1> DEFINE N == 1 .. Cardinality(K)
             rank == [i \in K |-> Rank(K, i)]
  <1>1. Cardinality(K) \in Nat
    BY FS_CardinalityType
  <1>2. IsFiniteSet(N) /\ Cardinality(N) = Cardinality(K)
    BY <1>1, FS_Interval
  <1>3. \A i, j \in K : Rank(K, i) = Rank(K, j) => i = j
    <2> SUFFICES ASSUME NEW i \in K, NEW j \in K, Rank(K, i) = Rank(K, j), i # j PROVE FALSE
      OBVIOUS
    <2>1. Rank(K, i) \in Nat /\ Rank(K, j) \in Nat
      BY <1>1, RankBounds
    <2>2. i < j \/ j < i
      OBVIOUS
    <2> QED BY <2>1, <2>2, RankIncreases
  <1>4. rank \in Injection(K, N)
    BY <1>3, RankBounds DEF Injection, IsInjective
  <1>5. rank \in Surjection(K, N)
    <2> HIDE DEF N, rank
    <2> QED BY <1>2, <1>4, FS_Injection
  <1>6. ASSUME NEW n \in N PROVE Place(K, n) \in K /\ Rank(K, Place(K, n)) = n
    <2>1. \E i \in K : Rank(K, i) = n
      BY <1>5 DEF Surjection
    <2> QED BY <2>1 DEF Place
  <1>7. \A i \in K : Place(K, Rank(K, i)) = i
    BY <1>3, <1>6, RankBounds
  <1>8. ASSUME NEW m \in N, NEW n \in N, m < n PROVE Place(K, m) < Place(K, n)
    <2>1. Place(K, m) \in K /\ Place(K, n) \in K /\ Rank(K, Place(K, m)) = m /\ Rank(K, Place(K, n)) = n
      BY <1>6
    <2>2. Place(K, m) \in Nat /\ Place(K, n) \in Nat /\ m \in Nat /\ n \in Nat
      <3>1. \A i \in K : i \in Nat
        OBVIOUS
      <3>2. Place(K, m) \in Nat /\ Place(K, n) \in Nat
        BY ONLY <2>1, <3>1
      <3>3. m \in Nat /\ n \in Nat
        BY <1>1
      <3> QED BY <3>2, <3>3
    <2>3. CASE Place(K, n) < Place(K, m)
      BY <1>8, <2>1, <2>2, <2>3, RankIncreases
    <2>4. CASE Place(K, n) = Place(K, m)
      BY <1>8, <2>1, <2>2, <2>4
    <2> QED BY <2>2, <2>3, <2>4
  <1> QED BY <1>1, <1>6, <1>7, <1>8

(***************************************************************************)
(* What a line keeps: the elements that are in S, each once if each was in *)
(* the line once, and in the order they had.                               *)
(***************************************************************************)
THEOREM KeepProperties ==
  ASSUME NEW T, NEW s \in Seq(T), NEW S
  PROVE  /\ Keep(s, S) \in Seq(T)
         /\ Len(Keep(s, S)) <= Len(s)
         /\ Range(Keep(s, S)) = Range(s) \cap S
         /\ Once(s) => Once(Keep(s, S))
  <1> DEFINE K == Kept(s, S)
             t == Keep(s, S)
             n == Cardinality(K)
  <1>1. Len(s) \in Nat /\ DOMAIN s = 1 .. Len(s) /\ \A i \in 1 .. Len(s) : s[i] \in T
    BY LenProperties, ElementOfSeq
  <1>2. K \in SUBSET (1 .. Len(s)) /\ K \in SUBSET Nat
    BY <1>1 DEF Kept
  <1>3. IsFiniteSet(K) /\ n <= Len(s)
    <2>1. IsFiniteSet(1 .. Len(s)) /\ Cardinality(1 .. Len(s)) = Len(s)
      <3>1. Len(s) \in Int /\ (IF 1 > Len(s) THEN 0 ELSE Len(s) - 1 + 1) = Len(s)
        BY <1>1
      <3> QED BY <3>1, FS_Interval
    <2> HIDE DEF K
    <2> QED BY <1>2, <2>1, FS_Subset
  <1>4. /\ n \in Nat
        /\ \A m \in 1 .. n : Place(K, m) \in K /\ Rank(K, Place(K, m)) = m
        /\ \A i \in K : Place(K, Rank(K, i)) = i /\ Rank(K, i) \in 1 .. n
    <2> HIDE DEF K
    <2> QED BY <1>2, <1>3, PlaceProperties, RankBounds
  <1>5. t = [m \in 1 .. n |-> s[Place(K, m)]]
    BY KeepIs
  <1>6. \A m \in 1 .. n : s[Place(K, m)] \in T /\ s[Place(K, m)] \in S /\ Place(K, m) \in 1 .. Len(s)
    BY <1>1, <1>4 DEF Kept
  <1>7. \A i \in 1 .. Len(s) : s[i] \in S => i \in K
    BY <1>1 DEF Kept
  <1> HIDE DEF K, n, t
  <1>8. t \in Seq(T) /\ Len(t) = n /\ DOMAIN t = 1 .. n
    <2>1. t \in [1 .. n -> T]
      BY <1>5, <1>6
    <2>2. t \in Seq(T)
      BY <1>4, <2>1, SeqDef
    <2> QED BY <1>4, <2>1, <2>2, LenProperties
  <1>9. Range(t) = Range(s) \cap S
    <2>1. ASSUME NEW x \in Range(t) PROVE x \in Range(s) \cap S
      BY <1>1, <1>5, <1>6, <1>8 DEF Range
    <2>2. ASSUME NEW x \in Range(s) \cap S PROVE x \in Range(t)
      <3>1. PICK i \in 1 .. Len(s) : s[i] = x
        BY <1>1 DEF Range
      <3>2. i \in K
        BY <1>7, <3>1
      <3>3. Rank(K, i) \in 1 .. n /\ t[Rank(K, i)] = x
        BY <1>4, <1>5, <3>1, <3>2
      <3> QED BY <1>8, <3>3 DEF Range
    <2> QED BY <2>1, <2>2
  <1>10. ASSUME Once(s) PROVE Once(t)
    <2> SUFFICES ASSUME NEW m \in 1 .. n, NEW k \in 1 .. n, t[m] = t[k] PROVE m = k
      BY <1>8 DEF Once
    <2>1. s[Place(K, m)] = s[Place(K, k)]
      BY <1>5
    <2>2. Place(K, m) = Place(K, k)
      BY <1>6, <1>10, <2>1 DEF Once
    <2> QED BY <1>4, <2>2
  <1> QED BY <1>3, <1>8, <1>9, <1>10 DEF t

(* ... and in the order they had.                                          *)
THEOREM KeepOrder ==
  ASSUME NEW T, NEW s \in Seq(T), NEW S, NEW m \in DOMAIN Keep(s, S), NEW n \in DOMAIN Keep(s, S),
         m < n
  PROVE  \E i, j \in DOMAIN s : i < j /\ s[i] = Keep(s, S)[m] /\ s[j] = Keep(s, S)[n]
  <1> DEFINE K == Kept(s, S)
             N == Cardinality(K)
  <1>1. Len(s) \in Nat /\ DOMAIN s = 1 .. Len(s)
    BY LenProperties
  <1>2. K \in SUBSET (1 .. Len(s)) /\ K \in SUBSET Nat
    BY <1>1 DEF Kept
  <1>3. IsFiniteSet(K)
    <2>1. IsFiniteSet(1 .. Len(s))
      BY <1>1, FS_Interval
    <2> HIDE DEF K
    <2> QED BY <1>2, <2>1, FS_Subset
  <1>4. Keep(s, S) = [k \in 1 .. N |-> s[Place(K, k)]]
    BY KeepIs
  <1>5. m \in 1 .. N /\ n \in 1 .. N
    BY <1>4
  <1> HIDE DEF K, N
  <1>6. Place(K, m) \in K /\ Place(K, n) \in K /\ Place(K, m) < Place(K, n)
    BY <1>2, <1>3, <1>5, PlaceProperties DEF N
  <1> QED BY <1>1, <1>2, <1>4, <1>5, <1>6

(* t has what it holds of s in s's order if no two of its places are the   *)
(* wrong way round.                                                        *)
LEMMA OrderReflected ==
  ASSUME NEW T, NEW s \in Seq(T), NEW t \in Seq(T), Once(s),
         \A m, n \in 1 .. Len(t) : m < n => Before(s, t[m], t[n]),
         NEW a \in Range(t), NEW b \in Range(t), Before(s, a, b)
  PROVE  Before(t, a, b)
  <1>1. Len(t) \in Nat /\ DOMAIN t = 1 .. Len(t) /\ Len(s) \in Nat /\ DOMAIN s = 1 .. Len(s)
    BY LenProperties
  <1>2. PICK m, n \in 1 .. Len(t) : t[m] = a /\ t[n] = b
    BY RangeIs
  <1>3. PICK i, j \in 1 .. Len(s) : i < j /\ s[i] = a /\ s[j] = b
    BY <1>1 DEF Before
  <1>4. m # n
    BY <1>2, <1>3 DEF Once
  <1>5. ~ (n < m)
    <2> SUFFICES ASSUME n < m PROVE FALSE
      OBVIOUS
    <2>1. Before(s, b, a)
      BY <1>2
    <2>2. PICK k, l \in 1 .. Len(s) : k < l /\ s[k] = b /\ s[l] = a
      BY <1>1, <2>1 DEF Before
    <2>3. k = j /\ l = i
      BY <1>3, <2>2 DEF Once
    <2> QED BY <1>3, <2>2, <2>3
  <1>6. m < n
    BY <1>4, <1>5
  <1> QED BY <1>1, <1>2, <1>6 DEF Before

THEOREM KeepBefore ==
  ASSUME NEW T, NEW s \in Seq(T), Once(s), NEW S,
         NEW a \in Range(Keep(s, S)), NEW b \in Range(Keep(s, S)), Before(s, a, b)
  PROVE  Before(Keep(s, S), a, b)
  <1> DEFINE t == Keep(s, S)
  <1>1. t \in Seq(T)
    BY KeepProperties
  <1>2. DOMAIN t = 1 .. Len(t)
    BY <1>1, LenProperties
  <1>3. \A m, n \in 1 .. Len(t) : m < n => Before(s, t[m], t[n])
    BY <1>2, KeepOrder DEF Before
  <1> HIDE DEF t
  <1>4. a \in Range(t) /\ b \in Range(t)
    BY DEF t
  <1>5. Before(t, a, b)
    BY <1>1, <1>3, <1>4, OrderReflected
  <1> QED BY <1>5 DEF t

THEOREM TailBefore ==
  ASSUME NEW T, NEW s \in Seq(T), s # <<>>, Once(s),
         NEW a \in Range(Tail(s)), NEW b \in Range(Tail(s)), Before(s, a, b)
  PROVE  Before(Tail(s), a, b)
  <1>1. /\ Tail(s) \in Seq(T) /\ Len(s) \in Nat /\ DOMAIN s = 1 .. Len(s) /\ Len(Tail(s)) = Len(s) - 1
        /\ \A i \in 1 .. Len(Tail(s)) : Tail(s)[i] = s[i + 1]
    BY HeadTailProperties, LenProperties
  <1>2. Len(s) # 0
    BY EmptySeq
  <1>3. \A m, n \in 1 .. Len(Tail(s)) : m < n => Before(s, Tail(s)[m], Tail(s)[n])
    <2>1. ASSUME NEW m \in 1 .. Len(Tail(s)), NEW n \in 1 .. Len(Tail(s)), m < n
          PROVE  Before(s, Tail(s)[m], Tail(s)[n])
      <3>1. m + 1 \in DOMAIN s /\ n + 1 \in DOMAIN s /\ m + 1 < n + 1
        BY <1>1, <1>2, <2>1
      <3>2. Tail(s)[m] = s[m + 1] /\ Tail(s)[n] = s[n + 1]
        BY <1>1
      <3> QED BY <3>1, <3>2 DEF Before
    <2> QED BY <2>1
  <1> QED BY <1>1, <1>3, OrderReflected

(* Leaving a line at its end: t is s without x in the order of s.          *)
LineWithout(s, t, x) ==
  /\ Once(t) /\ x \in Range(s) /\ Range(t) = Range(s) \ {x}
  /\ t = <<>> <=> Len(s) = 1
  /\ \A a, b \in Range(t) : Before(s, a, b) => Before(t, a, b)

THEOREM LeaveLineLast ==
  ASSUME NEW T, NEW s \in Seq(T), s # <<>>, Once(s), NEW n, n = Len(s)
  PROVE  SubSeq(s, 1, n - 1) \in Seq(T) /\ s[n] \in T /\ LineWithout(s, SubSeq(s, 1, n - 1), s[n])
  <1> DEFINE k == n - 1
             t == SubSeq(s, 1, k)
  <1>1. n \in Nat /\ n # 0 /\ DOMAIN s = 1 .. n /\ \A i \in 1 .. n : s[i] \in T
    BY LenProperties, EmptySeq, ElementOfSeq
  <1>2. t = [i \in 1 .. n - 1 |-> s[i]] /\ Len(t) = n - 1
    <2>1. 1 \in Int /\ n - 1 \in Int /\ 1 <= n - 1 + 1 /\ n - 1 - 1 + 1 = n - 1
      BY <1>1
    <2>2. t = [i \in 1 .. n - 1 - 1 + 1 |-> s[1 + i - 1]] /\ Len(t) = n - 1 - 1 + 1
      <3>1. t = SubSeq(s, 1, n - 1)
        OBVIOUS
      <3> QED BY <2>1, <3>1, SubSeqIs
    <2>3. \A i \in 1 .. n - 1 : 1 + i - 1 = i
      OBVIOUS
    <2> QED BY <2>1, <2>2, <2>3
  <1> HIDE DEF t
  <1>3. t \in Seq(T)
    <2>1. n - 1 \in Nat /\ \A i \in 1 .. n - 1 : s[i] \in T
      BY <1>1
    <2>2. t \in [1 .. n - 1 -> T]
      BY <1>2, <2>1
    <2>3. k \in Nat /\ t \in [1 .. k -> T]
      BY <2>1, <2>2
    <2> HIDE DEF k
    <2> QED BY ONLY <2>3, SeqDef
  <1>4. Once(t)
    BY <1>1, <1>2 DEF Once
  <1>5. s[n] \in T /\ s[n] \in Range(s)
    BY <1>1 DEF Range
  <1>6. \A x : x \in Range(t) <=> \E i \in 1 .. n - 1 : s[i] = x
    <2>1. \A x : x \in Range(t) <=> \E i \in 1 .. Len(t) : t[i] = x
      BY ONLY <1>3, RangeIs
    <2> QED BY <1>2, <2>1
  <1>7. \A x : x \in Range(s) <=> \E i \in 1 .. n : s[i] = x
    BY RangeIs
  <1>8. Range(t) = Range(s) \ {s[n]}
    <2>1. \A i \in 1 .. n - 1 : i \in 1 .. n /\ s[i] # s[n]
      BY <1>1 DEF Once
    <2>2. \A i \in 1 .. n : i = n \/ i \in 1 .. n - 1
      BY <1>1
    <2>3. ASSUME NEW x PROVE x \in Range(t) <=> x \in Range(s) /\ x # s[n]
      BY <1>6, <1>7, <2>1, <2>2
    <2> QED BY <2>3
  <1>9. t = <<>> <=> n = 1
    <2>1. t = <<>> <=> Len(t) = 0
      BY <1>3, EmptySeq
    <2> QED BY <1>1, <1>2, <2>1
  <1>10. \A i, j \in 1 .. Len(t) : i < j => Before(s, t[i], t[j])
    <2>1. \A i \in 1 .. n - 1 : i \in DOMAIN s /\ t[i] = s[i]
      BY <1>1, <1>2
    <2>2. Len(t) = n - 1
      BY <1>2
    <2> HIDE DEF Before
    <2> QED BY ONLY <2>1, <2>2 DEF Before
  <1>11. \A a, b \in Range(t) : Before(s, a, b) => Before(t, a, b)
    <2>1. Once(s) /\ s \in Seq(T)
      OBVIOUS
    <2> QED BY ONLY <1>3, <1>10, <2>1, OrderReflected
  <1> QED BY <1>3, <1>4, <1>5, <1>8, <1>9, <1>11 DEF LineWithout, t

(* Who stands before whom in two lines put together.                       *)
THEOREM ConcatBefore ==
  ASSUME NEW T, NEW s \in Seq(T), NEW t \in Seq(T)
  PROVE  /\ s \o t \in Seq(T) /\ Range(s \o t) = Range(s) \cup Range(t)
         /\ \A a, b : Before(s \o t, a, b) <=>
              Before(s, a, b) \/ Before(t, a, b) \/ (a \in Range(s) /\ b \in Range(t))
  <1> DEFINE m == Len(s)
             n == Len(t)
             u == s \o t
  <1>1. m \in Nat /\ n \in Nat /\ DOMAIN s = 1 .. m /\ DOMAIN t = 1 .. n
    BY LenProperties
  <1>2. /\ u = [i \in 1 .. m + n |-> IF i <= m THEN s[i] ELSE t[i - m]]
        /\ Len(u) = m + n /\ u \in Seq(T)
    <2>1. Len(s) = m /\ Len(t) = n
      OBVIOUS
    <2> HIDE DEF m, n
    <2> QED BY <1>1, <2>1, ConcatIs
  <1> HIDE DEF m, n, u
  <1>3. /\ DOMAIN u = 1 .. m + n
        /\ \A i \in 1 .. m : i \in 1 .. m + n /\ u[i] = s[i]
        /\ \A i \in 1 .. n : i + m \in 1 .. m + n /\ u[i + m] = t[i]
        /\ \A i \in 1 .. m + n : i \in 1 .. m \/ (i - m \in 1 .. n /\ u[i] = t[i - m])
    <2>1. \A i \in 1 .. m : i \in 1 .. m + n /\ i <= m
      BY <1>1
    <2>2. \A i \in 1 .. n : i + m \in 1 .. m + n /\ ~ (i + m <= m) /\ i + m - m = i
      BY <1>1
    <2>3. \A i \in 1 .. m + n : i \in 1 .. m \/ (~ (i <= m) /\ i - m \in 1 .. n)
      BY <1>1
    <2>4. DOMAIN u = 1 .. m + n /\ \A i \in 1 .. m + n : u[i] = IF i <= m THEN s[i] ELSE t[i - m]
      BY <1>2
    <2>5. \A i \in 1 .. m : i \in 1 .. m + n /\ u[i] = s[i]
      BY <2>1, <2>4
    <2>6. ASSUME NEW i \in 1 .. n PROVE i + m \in 1 .. m + n /\ u[i + m] = t[i]
      <3> DEFINE k == i + m
      <3>1. k \in 1 .. m + n /\ ~ (k <= m) /\ k - m = i
        BY ONLY <1>1, i \in 1 .. n
      <3> HIDE DEF k
      <3>2. u[k] = t[k - m]
        BY ONLY <2>4, <3>1
      <3> QED BY <3>1, <3>2 DEF k
    <2>7. \A i \in 1 .. m + n : i \in 1 .. m \/ (i - m \in 1 .. n /\ u[i] = t[i - m])
      BY <2>3, <2>4
    <2> QED BY <2>4, <2>5, <2>6, <2>7
  <1>4. /\ \A x : x \in Range(u) <=> \E i \in 1 .. m + n : u[i] = x
        /\ \A x : x \in Range(s) <=> \E i \in 1 .. m : s[i] = x
        /\ \A x : x \in Range(t) <=> \E i \in 1 .. n : t[i] = x
    <2>0. u \in Seq(T)
      BY <1>2
    <2>1. \A x : x \in Range(u) <=> \E i \in 1 .. Len(u) : u[i] = x
      BY ONLY <2>0, RangeIs
    <2>2. \A x : x \in Range(s) <=> \E i \in 1 .. Len(s) : s[i] = x
      BY RangeIs
    <2>3. \A x : x \in Range(t) <=> \E i \in 1 .. Len(t) : t[i] = x
      BY RangeIs
    <2> QED BY <1>2, <2>1, <2>2, <2>3 DEF m, n
  <1>5. Range(u) = Range(s) \cup Range(t)
    <2>1. ASSUME NEW x PROVE x \in Range(u) <=> x \in Range(s) \/ x \in Range(t)
      BY <1>3, <1>4
    <2> QED BY <2>1
  <1>6. ASSUME NEW a, NEW b, Before(u, a, b)
        PROVE  Before(s, a, b) \/ Before(t, a, b) \/ (a \in Range(s) /\ b \in Range(t))
    <2>1. PICK i, j \in 1 .. m + n : i < j /\ u[i] = a /\ u[j] = b
      BY <1>3, <1>6 DEF Before
    <2>2. CASE i \in 1 .. m /\ j \in 1 .. m
      BY <1>1, <1>3, <2>1, <2>2 DEF Before
    <2>3. CASE i \in 1 .. m /\ j \notin 1 .. m
      <3>1. s[i] = a /\ j - m \in 1 .. n /\ t[j - m] = b
        BY <1>3, <2>1, <2>3
      <3> QED BY <1>4, <2>3, <3>1
    <2>4. CASE i \notin 1 .. m
      <3>1. j \notin 1 .. m
        BY <1>1, <2>1, <2>4
      <3>2. i - m \in 1 .. n /\ j - m \in 1 .. n /\ i - m < j - m /\ t[i - m] = a /\ t[j - m] = b
        BY <1>1, <1>3, <2>1, <2>4, <3>1
      <3> QED BY <1>1, <3>2 DEF Before
    <2> QED BY <2>2, <2>3, <2>4
  <1>7. ASSUME NEW a, NEW b, Before(s, a, b) PROVE Before(u, a, b)
    BY <1>1, <1>3, <1>7 DEF Before
  <1>8. ASSUME NEW a, NEW b, Before(t, a, b) PROVE Before(u, a, b)
    <2>1. PICK i, j \in 1 .. n : i < j /\ t[i] = a /\ t[j] = b
      BY <1>1, <1>8 DEF Before
    <2>2. i + m \in 1 .. m + n /\ j + m \in 1 .. m + n /\ i + m < j + m
      BY <1>1, <1>3, <2>1
    <2> QED BY <1>3, <2>1, <2>2 DEF Before
  <1>9. ASSUME NEW a \in Range(s), NEW b \in Range(t) PROVE Before(u, a, b)
    <2>1. PICK i \in 1 .. m, j \in 1 .. n : s[i] = a /\ t[j] = b
      BY <1>4
    <2>2. i \in 1 .. m + n /\ j + m \in 1 .. m + n /\ i < j + m
      BY <1>1, <1>3, <2>1
    <2> QED BY <1>3, <2>1, <2>2 DEF Before
  <1> QED BY <1>2, <1>5, <1>6, <1>7, <1>8, <1>9 DEF u

THEOREM OnceConcat ==
  ASSUME NEW T, NEW s \in Seq(T), NEW t \in Seq(T), Once(s), Once(t), Range(s) \cap Range(t) = {}
  PROVE  Once(s \o t)
  <1> DEFINE m == Len(s)
             n == Len(t)
             u == s \o t
  <1>1. m \in Nat /\ n \in Nat /\ (\A i \in 1 .. m : s[i] \in Range(s)) /\ (\A i \in 1 .. n : t[i] \in Range(t))
    BY RangeIs
  <1>2. u = [i \in 1 .. m + n |-> IF i <= m THEN s[i] ELSE t[i - m]] /\ Len(u) = m + n
    BY ONLY <1>1, s \in Seq(T), t \in Seq(T), m = Len(s), n = Len(t), ConcatIs
  <1> HIDE DEF m, n, u
  <1>3. ASSUME NEW i \in 1 .. m + n
        PROVE  /\ i <= m => i \in 1 .. m /\ u[i] = s[i]
               /\ ~ (i <= m) => i - m \in 1 .. n /\ u[i] = t[i - m]
    BY <1>1, <1>2
  <1>4. \A i, j \in 1 .. m : s[i] = s[j] => i = j
    BY DEF Once, m
  <1>5. \A i, j \in 1 .. n : t[i] = t[j] => i = j
    BY DEF Once, n
  <1>6. ASSUME NEW i \in 1 .. m + n, NEW j \in 1 .. m + n, u[i] = u[j]
        PROVE  i = j
    <2>1. CASE i <= m /\ j <= m
      BY <1>3, <1>4, <1>6, <2>1
    <2>2. CASE ~ (i <= m) /\ ~ (j <= m)
      <3>1. i - m = j - m
        BY <1>3, <1>5, <1>6, <2>2
      <3> QED BY <1>1, <3>1
    <2>3. CASE (i <= m) # (j <= m)
      BY <1>1, <1>3, <1>6, <2>3
    <2> QED BY <2>1, <2>2, <2>3
  <1> QED BY <1>2, <1>6 DEF Once, u

(* The elements at some places of a function, in the order of the places.  *)
LEMMA AtPlacesIs ==
  ASSUME NEW T, NEW s, NEW K \in SUBSET Nat, IsFiniteSet(K), \A i \in K : s[i] \in T
  PROVE  /\ AtPlaces(s, K) \in Seq(T) /\ Len(AtPlaces(s, K)) = Cardinality(K)
         /\ \A x : x \in Range(AtPlaces(s, K)) <=> \E i \in K : s[i] = x
         /\ \A i, j \in K : i < j => Before(AtPlaces(s, K), s[i], s[j])
         /\ (\A i, j \in K : s[i] = s[j] => i = j) => Once(AtPlaces(s, K))
  <1> DEFINE t == AtPlaces(s, K)
             n == Cardinality(K)
  <1>1. /\ n \in Nat
        /\ \A m \in 1 .. n : Place(K, m) \in K /\ Rank(K, Place(K, m)) = m
        /\ \A i \in K : Place(K, Rank(K, i)) = i /\ Rank(K, i) \in 1 .. n
    BY PlaceProperties, RankBounds
  <1>2. t = [m \in 1 .. n |-> s[Place(K, m)]]
    BY DEF AtPlaces, Place, Rank
  <1> HIDE DEF t, n
  <1>3. t \in [1 .. n -> T]
    BY <1>1, <1>2
  <1>4. t \in Seq(T) /\ Len(t) = n /\ DOMAIN t = 1 .. n
    <2>1. t \in Seq(T)
      BY <1>1, <1>3, SeqDef
    <2> QED BY <1>1, <1>3, <2>1, LenProperties
  <1>5. \A i \in K : Rank(K, i) \in 1 .. n /\ t[Rank(K, i)] = s[i]
    BY <1>1, <1>2
  <1>6. \A x : x \in Range(t) <=> \E i \in K : s[i] = x
    <2>1. \A x : x \in Range(t) <=> \E m \in 1 .. n : t[m] = x
      BY <1>4 DEF Range
    <2>2. \A m \in 1 .. n : t[m] = s[Place(K, m)] /\ Place(K, m) \in K
      BY <1>1, <1>2
    <2> QED BY ONLY <1>5, <2>1, <2>2
  <1>7. ASSUME NEW i \in K, NEW j \in K, i < j PROVE Before(t, s[i], s[j])
    <2>1. Rank(K, i) < Rank(K, j)
      BY <1>7, RankIncreases
    <2> QED BY <1>4, <1>5, <2>1 DEF Before
  <1>8. ASSUME \A i, j \in K : s[i] = s[j] => i = j PROVE Once(t)
    <2> SUFFICES ASSUME NEW m \in 1 .. n, NEW k \in 1 .. n, t[m] = t[k] PROVE m = k
      BY <1>4 DEF Once
    <2>1. s[Place(K, m)] = s[Place(K, k)] /\ Place(K, m) \in K /\ Place(K, k) \in K
      BY <1>1, <1>2
    <2>2. Place(K, m) = Place(K, k)
      BY <1>8, <2>1
    <2> QED BY <1>1, <2>2
  <1> QED BY <1>4, <1>6, <1>7, <1>8 DEF t, n

(* Nobody stands both before and after another in a line.                  *)
LEMMA BeforeOneWay ==
  ASSUME NEW T, NEW s \in Seq(T), Once(s), NEW a, NEW b, Before(s, a, b)
  PROVE  ~Before(s, b, a) /\ a # b /\ a \in Range(s) /\ b \in Range(s)
  <1>1. Len(s) \in Nat /\ DOMAIN s = 1 .. Len(s)
    BY LenProperties
  <1>2. PICK i, j \in 1 .. Len(s) : i < j /\ s[i] = a /\ s[j] = b
    BY <1>1 DEF Before
  <1>3. ASSUME Before(s, b, a) PROVE FALSE
    <2>1. PICK k, l \in 1 .. Len(s) : k < l /\ s[k] = b /\ s[l] = a
      BY <1>1, <1>3 DEF Before
    <2>2. k = j /\ l = i
      BY <1>2, <2>1 DEF Once
    <2> QED BY <1>2, <2>1, <2>2
  <1>4. a # b
    BY <1>2 DEF Once
  <1> QED BY <1>1, <1>2, <1>3, <1>4 DEF Range

(* A place is one more than the number of those who stand before it.       *)
LEMMA PlaceCounts ==
  ASSUME NEW T, NEW s \in Seq(T), Once(s), NEW n \in 1 .. Len(s)
  PROVE  Cardinality({x \in Range(s) : Before(s, x, s[n])}) = n - 1
  <1> DEFINE B == {x \in Range(s) : Before(s, x, s[n])}
             f == [i \in 1 .. n - 1 |-> s[i]]
  <1>1. Len(s) \in Nat /\ DOMAIN s = 1 .. Len(s)
    BY LenProperties
  <1>2. ASSUME NEW i \in 1 .. n - 1 PROVE s[i] \in B
    <2>1. i \in DOMAIN s /\ n \in DOMAIN s /\ i < n
      BY <1>1
    <2> QED BY <2>1 DEF Before, Range
  <1>3. ASSUME NEW x \in B PROVE \E i \in 1 .. n - 1 : s[i] = x
    <2>1. PICK i, j \in 1 .. Len(s) : i < j /\ s[i] = x /\ s[j] = s[n]
      BY <1>1 DEF Before
    <2>2. j = n
      BY <2>1 DEF Once
    <2> QED BY <1>1, <2>1, <2>2
  <1>4. \A i, j \in 1 .. n - 1 : s[i] = s[j] => i = j
    BY <1>1 DEF Once
  <1> HIDE DEF B
  <1>5. f \in Bijection(1 .. n - 1, B)
    BY <1>2, <1>3, <1>4 DEF Bijection, Injection, Surjection, IsInjective
  <1>6. IsFiniteSet(1 .. n - 1) /\ Cardinality(1 .. n - 1) = n - 1
    <2> DEFINE k == n - 1
    <2>1. 1 \in Int /\ k \in Int /\ (IF 1 > k THEN 0 ELSE k - 1 + 1) = k
      BY <1>1
    <2> HIDE DEF k
    <2>2. IsFiniteSet(1 .. k) /\ Cardinality(1 .. k) = k
      BY ONLY <2>1, FS_Interval
    <2> QED BY <2>2 DEF k
  <1>7. Cardinality(B) = n - 1
    <2> HIDE DEF f
    <2> QED BY <1>5, <1>6, FS_Bijection DEF ExistsBijection
  <1> QED BY <1>7 DEF B

(* Two lines of the same elements in the same order are the same.          *)
LEMMA SameOrder ==
  ASSUME NEW T, NEW s \in Seq(T), NEW t \in Seq(T), Once(s), Once(t), Range(s) = Range(t),
         \A a, b \in Range(s) : Before(s, a, b) <=> Before(t, a, b)
  PROVE  s = t
  <1>1. /\ Len(s) \in Nat /\ DOMAIN s = 1 .. Len(s) /\ Len(t) \in Nat /\ DOMAIN t = 1 .. Len(t)
        /\ Len(s) = Len(t)
    BY LenProperties, OnceCounts
  <1>2. ASSUME NEW n \in 1 .. Len(s) PROVE s[n] = t[n]
    <2>1. s[n] \in Range(t)
      BY <1>1 DEF Range
    <2>2. PICK m \in 1 .. Len(t) : t[m] = s[n]
      BY <1>1, <2>1 DEF Range
    <2>3. {x \in Range(s) : Before(s, x, s[n])} = {x \in Range(t) : Before(t, x, t[m])}
      BY <2>1, <2>2
    <2>4. Cardinality({x \in Range(s) : Before(s, x, s[n])}) = n - 1
      BY PlaceCounts
    <2>5. Cardinality({x \in Range(t) : Before(t, x, t[m])}) = m - 1
      BY PlaceCounts
    <2>6. n - 1 = m - 1
      BY <2>3, <2>4, <2>5
    <2>7. n = m
      BY <1>1, <2>6
    <2> QED BY <2>2, <2>7
  <1>3. s = [n \in 1 .. Len(s) |-> s[n]] /\ t = [n \in 1 .. Len(t) |-> t[n]]
    BY LenProperties
  <1> QED BY <1>1, <1>2, <1>3

(* Two lines that order the elements of S alike keep the same line of them. *)
LEMMA KeepAlike ==
  ASSUME NEW T, NEW s \in Seq(T), NEW t \in Seq(T), Once(s), Once(t),
         NEW S, S \subseteq Range(s), S \subseteq Range(t),
         \A a, b \in S : a # b => \/ Before(s, a, b) /\ Before(t, a, b)
                                  \/ Before(s, b, a) /\ Before(t, b, a)
  PROVE  Keep(s, S) = Keep(t, S)
  <1> DEFINE p == Keep(s, S)
             q == Keep(t, S)
  <1>1. /\ p \in Seq(T) /\ Once(p) /\ Range(p) = S
        /\ q \in Seq(T) /\ Once(q) /\ Range(q) = S
    <2>1. Range(s) \cap S = S /\ Range(t) \cap S = S
      OBVIOUS
    <2>2. p \in Seq(T) /\ Range(p) = Range(s) \cap S /\ (Once(s) => Once(p))
      BY KeepProperties
    <2>3. q \in Seq(T) /\ Range(q) = Range(t) \cap S /\ (Once(t) => Once(q))
      BY KeepProperties
    <2> HIDE DEF p, q
    <2> QED BY <2>1, <2>2, <2>3
  <1>2. \A a, b \in S : (Before(s, a, b) => Before(p, a, b)) /\ (Before(t, a, b) => Before(q, a, b))
    BY <1>1, KeepBefore
  <1> HIDE DEF p, q
  <1>3. ASSUME NEW a \in S, NEW b \in S PROVE Before(p, a, b) <=> Before(q, a, b)
    <2>1. ASSUME Before(p, a, b) PROVE Before(q, a, b)
      <3>1. ~Before(p, b, a) /\ a # b
        BY <1>1, <2>1, BeforeOneWay
      <3> QED BY <1>2, <3>1
    <2>2. ASSUME Before(q, a, b) PROVE Before(p, a, b)
      <3>1. ~Before(q, b, a) /\ a # b
        BY <1>1, <2>2, BeforeOneWay
      <3> QED BY <1>2, <3>1
    <2> QED BY <2>1, <2>2
  <1>4. p = q
    BY <1>1, <1>3, SameOrder
  <1> QED BY <1>4 DEF p, q

=============================================================================
