------------------------------- MODULE FoldLemmas -------------------------------
(***************************************************************************)
(* Induction over the naturals, and that the recursive functions behind the  *)
(* folds of the community modules exist.  The library's induction theorems   *)
(* take an operator as a parameter; here what is proved by induction is the  *)
(* set of the numbers for which it holds, and a fold's step is a function.   *)
(***************************************************************************)
EXTENDS Integers, FiniteSets, FiniteSetTheorems, WellFoundedInduction, TLAPS

\* A nonempty set of naturals has a least element.
LEMMA LeastNatural ==
    ASSUME NEW S, S \subseteq Nat, S # {}
    PROVE  \E n \in S : \A m \in S : n <= m
<1>1. IsWellFoundedOn(OpToRel(<, Nat), Nat)  BY NatLessThanWellFounded
<1>2. PICK n \in S : \A m \in S : ~(<<m, n>> \in OpToRel(<, Nat))  BY <1>1, WFMin
<1>3. \A m \in S : m \in Nat /\ n \in Nat /\ ~(m < n)  BY <1>2 DEF OpToRel
<1> QED  BY <1>3

\* A set with 0 and the successor of each of its naturals has all of them.
LEMMA SetInduction ==
    ASSUME NEW S, 0 \in S, \A n \in Nat : n \in S => n + 1 \in S
    PROVE  Nat \subseteq S
<1> SUFFICES ASSUME Nat \ S # {} PROVE FALSE  OBVIOUS
<1>1. PICK n \in Nat \ S : \A m \in Nat \ S : n <= m  BY LeastNatural
<1>2. n - 1 \in Nat /\ n - 1 \in S  BY <1>1
<1> QED  BY <1>2

\* One more application of the recursion's right-hand side.
Unfolded(S, base, pick, step, f) ==
    [T \in SUBSET S |-> IF T = {} THEN base ELSE step[<<pick[T], f[T \ {pick[T]}]>>]]

\* The elements of S are folded into a value of V, in the order in which `pick' takes them.
Foldable(S, V, base, pick, step) ==
    /\ IsFiniteSet(S) /\ base \in V
    /\ pick \in [SUBSET S -> S \cup {{}}] /\ \A T \in SUBSET S : T # {} => pick[T] \in T
    /\ step \in [S \X V -> V]

\* f is a solution of the recursion.
Folds(S, V, base, pick, step, f) ==
    f \in [SUBSET S -> V] /\ f = Unfolded(S, base, pick, step, f)

\* The recursion over the subsets of a finite set has a solution.
LEMMA FoldExists ==
    ASSUME NEW S, NEW V, NEW base, NEW pick, NEW step, Foldable(S, V, base, pick, step)
    PROVE  \E f : Folds(S, V, base, pick, step, f)
<1> USE DEF Foldable, Folds
<1> DEFINE Once(f) == Unfolded(S, base, pick, step, f)
           Good == {n \in Nat : \E f \in [SUBSET S -> V] :
                       \A T \in SUBSET S : Cardinality(T) <= n => f[T] = Once(f)[T]}
<1>1. \A T \in SUBSET S : /\ IsFiniteSet(T) /\ Cardinality(T) \in Nat
                          /\ T # {} => /\ pick[T] \in T /\ pick[T] \in S
                                       /\ Cardinality(T \ {pick[T]}) = Cardinality(T) - 1
  <2> SUFFICES ASSUME NEW T \in SUBSET S
               PROVE  /\ IsFiniteSet(T) /\ Cardinality(T) \in Nat
                      /\ T # {} => /\ pick[T] \in T /\ pick[T] \in S
                                   /\ Cardinality(T \ {pick[T]}) = Cardinality(T) - 1
    OBVIOUS
  <2>1. IsFiniteSet(T)  BY FS_Subset
  <2>2. Cardinality(T) \in Nat  BY <2>1, FS_CardinalityType
  <2>3. ASSUME NEW x \in T PROVE Cardinality(T \ {x}) = Cardinality(T) - 1  BY <2>1, FS_RemoveElement
  <2> QED  BY <2>1, <2>2, <2>3
<1>2. \A f \in [SUBSET S -> V] : Once(f) \in [SUBSET S -> V]
  BY <1>1 DEF Unfolded
<1>3. 0 \in Good
  <2> DEFINE f == [T \in SUBSET S |-> base]
  <2>1. f \in [SUBSET S -> V]  OBVIOUS
  <2>2. \A T \in SUBSET S : Cardinality(T) <= 0 => T = {}
    <3> SUFFICES ASSUME NEW T \in SUBSET S, Cardinality(T) <= 0 PROVE T = {}  OBVIOUS
    <3>1. IsFiniteSet(T) /\ Cardinality(T) \in Nat  BY <1>1
    <3>2. Cardinality(T) = 0  BY <3>1
    <3> QED  BY <3>1, <3>2, FS_EmptySet
  <2>3. \A T \in SUBSET S : Cardinality(T) <= 0 => f[T] = Once(f)[T]  BY <2>2 DEF Unfolded
  <2> QED  BY <2>1, <2>3
<1>4. ASSUME NEW n \in Nat, n \in Good  PROVE  n + 1 \in Good
  <2>1. PICK f \in [SUBSET S -> V] : \A T \in SUBSET S : Cardinality(T) <= n => f[T] = Once(f)[T]
    BY <1>4
  <2>2. ASSUME NEW T \in SUBSET S, Cardinality(T) <= n + 1  PROVE  Once(f)[T] = Once(Once(f))[T]
    <3>1. CASE T = {}  BY <3>1 DEF Unfolded
    <3>2. CASE T # {}
      <4>1. Cardinality(T \ {pick[T]}) <= n
        <5>1. Cardinality(T) \in Nat /\ Cardinality(T \ {pick[T]}) = Cardinality(T) - 1  BY <1>1, <3>2
        <5> QED  BY <5>1, <2>2
      <4>2. f[T \ {pick[T]}] = Once(f)[T \ {pick[T]}]  BY <2>1, <4>1
      <4> QED  BY <3>2, <4>2 DEF Unfolded
    <3> QED  BY <3>1, <3>2
  <2>3. Once(f) \in [SUBSET S -> V]  BY <1>2
  <2> HIDE DEF Once
  <2> QED  BY <2>2, <2>3
<1>5. Nat \subseteq Good
  <2> HIDE DEF Good
  <2> QED  BY <1>3, <1>4, SetInduction
<1>6. PICK f \in [SUBSET S -> V] : \A T \in SUBSET S : Cardinality(T) <= Cardinality(S) => f[T] = Once(f)[T]
  BY <1>1, <1>5
<1>7. \A T \in SUBSET S : Cardinality(T) <= Cardinality(S)  BY FS_Subset
<1>8. f = Once(f)
  <2>1. \A T \in SUBSET S : f[T] = Once(f)[T]  BY <1>6, <1>7
  <2>2. Once(f) \in [SUBSET S -> V]  BY <1>2
  <2> HIDE DEF Once
  <2> QED  BY <2>1, <2>2
<1> QED  BY <1>8

================================================================================
