----------------------------- MODULE FiniteSums -----------------------------
(***************************************************************************)
(* Facts that the proofs of the components share.  About finite sets of    *)
(* numbers: a bounded set has a size, a largest and a smallest member.     *)
(* About induction, stated for sets of sets and sets of numbers because an *)
(* induction theorem over predicates cannot be cited.  And about sums over *)
(* finite sets (SumFunctionOnSet of the community modules): a sum does not *)
(* depend on the order of its terms, sums can be added, compared, cut to   *)
(* the terms that count, renumbered and split by the owner of each term.   *)
(***************************************************************************)
EXTENDS Integers, FiniteSets, Folds, Functions, FiniteSetTheorems,
        WellFoundedInduction, TLAPS

(* The members of S above i.                                               *)
Above(S, i) == {j \in S : j > i}

(* Fewer members lie above a larger number.                                *)
LEMMA AboveShrinks ==
  ASSUME NEW S \in SUBSET Nat, NEW i \in S, NEW j \in S, j < i
  PROVE  /\ Above(S, i) \subseteq Above(S, j)
         /\ i \in Above(S, j)
         /\ i \notin Above(S, i)
<1>1. \A k \in S : k > i => k > j
  OBVIOUS
<1>2. i > j /\ ~(i > i)
  OBVIOUS
<1> QED BY <1>1, <1>2, Zenon DEF Above

(* A subset of an initial segment has a size.                              *)
LEMMA SubsetsFinite ==
  ASSUME NEW m \in Nat, NEW S \in SUBSET (1 .. m)
  PROVE  IsFiniteSet(S) /\ Cardinality(S) \in Nat
<1>1. IsFiniteSet(1 .. m)
  BY FS_Interval
<1>2. IsFiniteSet(S)
  BY <1>1, FS_Subset
<1> QED BY <1>2, FS_CardinalityType

(* A bounded set of positive numbers has a largest member.                 *)
LEMMA LargestMember ==
  ASSUME NEW m \in Nat, NEW S \in SUBSET (1 .. m), S # {}
  PROVE  \E x \in S : \A y \in S : y <= x
<1> DEFINE T == {Above(S, i) : i \in S}
<1>0. S \in SUBSET Nat
  OBVIOUS
<1>1. IsFiniteSet(S)
  BY SubsetsFinite
<1>2. IsWellFoundedOn(StrictSubsetOrdering(S), SUBSET S)
  BY <1>1, FS_StrictSubsetOrderingWellFounded, FS_FiniteSubsetsOfFinite
<1>3. T \subseteq SUBSET S /\ T # {}
  BY DEF Above
<1>4. PICK t \in T : \A u \in T : ~ (<<u, t>> \in StrictSubsetOrdering(S))
  <2> HIDE DEF T
  <2> QED BY <1>2, <1>3, WFMin, Zenon
<1>5. PICK x \in S : t = Above(S, x)
  OBVIOUS
<1>6. ASSUME NEW y \in S, x < y
      PROVE  FALSE
  <2>1. Above(S, y) \subseteq Above(S, x) /\ Above(S, y) # Above(S, x)
    BY <1>0, <1>6, AboveShrinks
  <2>2. Above(S, y) \in SUBSET S /\ Above(S, x) \in SUBSET S
    BY DEF Above
  <2>3. <<Above(S, y), t>> \in StrictSubsetOrdering(S)
    BY <1>5, <2>1, <2>2 DEF StrictSubsetOrdering
  <2> QED BY <1>4, <2>3
<1>7. \A y \in S : y <= x
  BY <1>0, <1>6
<1> QED BY <1>7

(* And a smallest: the mirror image has a largest.                         *)
LEMMA SmallestMember ==
  ASSUME NEW m \in Nat, NEW S \in SUBSET (1 .. m), S # {}
  PROVE  \E x \in S : \A y \in S : x <= y
<1> DEFINE T == {(m + 1) - y : y \in S}
<1>1. T \in SUBSET (1 .. m) /\ T # {}
  <2>1. \A y \in S : (m + 1) - y \in 1 .. m
    OBVIOUS
  <2> QED BY <2>1, Zenon
<1>2. PICK t \in T : \A y \in T : y <= t
  <2> HIDE DEF T
  <2> QED BY <1>1, LargestMember
<1>3. PICK x \in S : t = (m + 1) - x
  OBVIOUS
<1>4. ASSUME NEW y \in S PROVE x <= y
  <2>1. (m + 1) - y \in T
    OBVIOUS
  <2>2. (m + 1) - y <= (m + 1) - x
    BY <1>2, <1>3, <2>1, Zenon
  <2>3. x \in Nat /\ y \in Nat
    OBVIOUS
  <2> QED BY <2>2, <2>3
<1> QED BY <1>4
-----------------------------------------------------------------------------
(* Induction.                                                              *)

(* A family of subsets of a finite set has a smallest member: one that     *)
(* contains no other.                                                      *)
LEMMA MinimalSubset ==
  ASSUME NEW S, IsFiniteSet(S), NEW E \in SUBSET (SUBSET S), E # {}
  PROVE  \E T \in E : \A U \in E : U \subseteq T => U = T
<1>1. IsWellFoundedOn(StrictSubsetOrdering(S), SUBSET S)
  BY FS_StrictSubsetOrderingWellFounded, FS_FiniteSubsetsOfFinite
<1>2. PICK T \in E : \A U \in E : ~ (<<U, T>> \in StrictSubsetOrdering(S))
  BY <1>1, WFMin, Zenon
<1>3. ASSUME NEW U \in E, U \subseteq T, U # T PROVE FALSE
  BY <1>2, <1>3 DEF StrictSubsetOrdering
<1> QED BY <1>3

(* Induction over a finite set, one more element at a time.                *)
LEMMA SetInduction ==
  ASSUME NEW S, IsFiniteSet(S), NEW E, {} \in E,
         \A T \in SUBSET S : \A x \in S \ T : T \in E => T \cup {x} \in E
  PROVE  \A T \in SUBSET S : T \in E
<1> DEFINE F == {T \in SUBSET S : T \notin E}
<1>1. SUFFICES ASSUME F # {} PROVE FALSE
  OBVIOUS
<1>2. PICK T \in F : \A U \in F : U \subseteq T => U = T
  <2>1. F \in SUBSET (SUBSET S)
    OBVIOUS
  <2> HIDE DEF F
  <2> QED BY <1>1, <2>1, MinimalSubset
<1>3. PICK x \in T : TRUE
  OBVIOUS
<1>4. T \ {x} \in E
  BY <1>2
<1>5. (T \ {x}) \cup {x} = T /\ T \ {x} \in SUBSET S /\ x \in S \ (T \ {x})
  OBVIOUS
<1>6. T \in E
  BY <1>4, <1>5
<1> QED BY <1>6

(* Induction over the numbers up to n.                                     *)
LEMMA CountingUp ==
  ASSUME NEW n \in Nat, NEW E, 0 \in E, \A k \in 0 .. n - 1 : k \in E => k + 1 \in E
  PROVE  \A k \in 0 .. n : k \in E
<1> DEFINE F == {k \in 1 .. n : k \notin E}
<1>1. SUFFICES ASSUME F # {} PROVE FALSE
  OBVIOUS
<1>2. PICK x \in F : \A y \in F : x <= y
  <2>1. F \in SUBSET (1 .. n)
    OBVIOUS
  <2> HIDE DEF F
  <2> QED BY <1>1, <2>1, SmallestMember
<1>3. x - 1 \in 0 .. n - 1 /\ x - 1 \in E
  BY <1>2
<1>4. (x - 1) + 1 = x
  OBVIOUS
<1> QED BY <1>3, <1>4

-----------------------------------------------------------------------------
(* Folds over finite sets.                                                 *)

(* c names the element of a set that is taken first, step what it does to  *)
(* the fold of the others.                                                 *)
IsFold(g, S, c, base, step) ==
  \A T \in SUBSET S : g[T] = IF T = {} THEN base ELSE step[<<c[T], g[T \ {c[T]}]>>]

Picks(c, S) == \A T \in SUBSET S : T # {} => c[T] \in T

(* There is at most one fold.                                              *)
LEMMA FoldUnique ==
  ASSUME NEW S, IsFiniteSet(S), NEW c, Picks(c, S), NEW base, NEW step,
         NEW g, NEW h, IsFold(g, S, c, base, step), IsFold(h, S, c, base, step)
  PROVE  \A T \in SUBSET S : g[T] = h[T]
<1> DEFINE F == {T \in SUBSET S : g[T] # h[T]}
<1>1. SUFFICES ASSUME F # {} PROVE FALSE
  OBVIOUS
<1>2. PICK T \in F : \A U \in F : U \subseteq T => U = T
  <2>1. F \in SUBSET (SUBSET S)
    OBVIOUS
  <2> HIDE DEF F
  <2> QED BY <1>1, <2>1, MinimalSubset
<1>3. T \in SUBSET S /\ g[T] # h[T] /\ T # {}
  BY DEF IsFold
<1> DEFINE U == T \ {c[T]}
<1>4. U \in SUBSET S /\ U \subseteq T /\ U # T
  BY <1>3 DEF Picks
<1>5. g[U] = h[U]
  BY <1>2, <1>4
<1>6. g[T] = step[<<c[T], g[U]>>] /\ h[T] = step[<<c[T], h[U]>>]
  BY <1>3 DEF IsFold
<1> QED BY <1>3, <1>5, <1>6

(* And there is one.                                                       *)
LEMMA FoldExists ==
  ASSUME NEW S, IsFiniteSet(S), NEW c, Picks(c, S), NEW base, NEW step
  PROVE  \E g : IsFold(g, S, c, base, step)
<1> DEFINE Fold(g, T) == IsFold(g, T, c, base, step)
           F == {T \in SUBSET S : ~ \E g : Fold(g, T)}
<1>1. SUFFICES ASSUME F # {} PROVE FALSE
  OBVIOUS
<1>2. PICK T \in F : \A U \in F : U \subseteq T => U = T
  <2>1. F \in SUBSET (SUBSET S)
    OBVIOUS
  <2> HIDE DEF F
  <2> QED BY <1>1, <2>1, MinimalSubset
<1>3. T \in SUBSET S /\ ~ \E g : Fold(g, T)
  OBVIOUS
<1> DEFINE H(U) == CHOOSE h : Fold(h, U)
<1>4. ASSUME NEW U \in SUBSET T, U # T
      PROVE  Fold(H(U), U)
  <2>1. U \in SUBSET S /\ U \notin F
    BY <1>2, <1>4
  <2>2. \E h : Fold(h, U)
    BY <2>1
  <2> HIDE DEF Fold
  <2> QED BY <2>2
<1> DEFINE less(U) == U \ {c[U]}
           val(U) == IF U = {} THEN base ELSE step[<<c[U], H(less(U))[less(U)]>>]
           g == [U \in SUBSET T |-> val(U)]
<1>5. ASSUME NEW U \in SUBSET T, U # {}
      PROVE  less(U) \in SUBSET U /\ less(U) # U /\ less(U) # T
  <2>1. U \in SUBSET S
    BY <1>3
  <2>2. c[U] \in U
    BY <2>1, <1>5 DEF Picks
  <2> QED BY <2>2
<1>6. ASSUME NEW V \in SUBSET T, V # T
      PROVE  val(V) = H(V)[V]
  <2>1. Fold(H(V), V)
    BY <1>4, <1>6
  <2>2. CASE V = {}
    <3> HIDE DEF H
    <3> QED BY <2>1, <2>2 DEF IsFold
  <2>3. CASE V # {}
    <3>1. less(V) \in SUBSET V /\ less(V) # V /\ less(V) # T
      BY <1>5, <2>3
    <3>2. Fold(H(less(V)), less(V))
      <4> HIDE DEF H, Fold, less
      <4> QED BY <1>4, <3>1
    <3>3. Fold(H(V), less(V))
      <4> HIDE DEF H
      <4> QED BY <2>1, <3>1 DEF IsFold
    <3>4. H(V)[less(V)] = H(less(V))[less(V)]
      <4>1. IsFiniteSet(less(V)) /\ Picks(c, less(V)) /\ less(V) \in SUBSET less(V)
        <5>1. less(V) \in SUBSET S
          BY <1>3, <3>1
        <5>2. IsFiniteSet(less(V))
          <6> HIDE DEF less
          <6> QED BY <5>1, FS_Subset
        <5>3. Picks(c, less(V))
          <6> HIDE DEF less
          <6> QED BY <5>1 DEF Picks
        <5> QED BY <5>2, <5>3
      <4> HIDE DEF less, H
      <4> QED BY <3>2, <3>3, <4>1, FoldUnique
    <3>5. H(V)[V] = step[<<c[V], H(V)[less(V)]>>]
      <4> HIDE DEF H
      <4> QED BY <2>1, <2>3 DEF IsFold
    <3> HIDE DEF H, less
    <3> QED BY <2>3, <3>4, <3>5
  <2> QED BY <2>2, <2>3
<1>7. Fold(g, T)
  <2> SUFFICES ASSUME NEW U \in SUBSET T
               PROVE  g[U] = IF U = {} THEN base ELSE step[<<c[U], g[less(U)]>>]
    BY DEF IsFold
  <2>1. CASE U = {}
    BY <2>1
  <2>2. CASE U # {}
    <3>1. less(U) \in SUBSET T /\ less(U) # T
      BY <1>5, <2>2
    <3>2. val(less(U)) = H(less(U))[less(U)]
      <4> HIDE DEF val, H, less
      <4> QED BY <1>6, <3>1
    <3>3. g[less(U)] = val(less(U))
      <4> HIDE DEF val, less
      <4> QED BY <3>1
    <3>4. g[U] = step[<<c[U], H(less(U))[less(U)]>>]
      <4> HIDE DEF H, less
      <4> QED BY <2>2
    <3> HIDE DEF g, val, less, H
    <3> QED BY <2>2, <3>2, <3>3, <3>4
  <2> QED BY <2>1, <2>2
<1> HIDE DEF g, Fold
<1> QED BY <1>3, <1>7
-----------------------------------------------------------------------------
(* Sums.                                                                   *)

SumOf(f, S) == SumFunctionOnSet(f, S)
Ints(f, S) == \A x \in S : f[x] \in Int
Nats(f, S) == \A x \in S : f[x] \in Nat

(* The element a sum takes first.                                          *)
AnyOf(T) == CHOOSE x \in T : TRUE

(* The sum of a set by that element and the sum of the others.             *)
LEMMA SumFold ==
  ASSUME NEW S, IsFiniteSet(S), NEW f, Ints(f, S)
  PROVE  /\ SumOf(f, {}) = 0
         /\ \A T \in SUBSET S : T # {} =>
              /\ AnyOf(T) \in T
              /\ SumOf(f, T) = f[AnyOf(T)] + SumOf(f, T \ {AnyOf(T)})
<1> DEFINE rec(i, T) == i = [s \in SUBSET T |-> IF s = {} THEN 0
                                   ELSE f[AnyOf(s)] + i[s \ {AnyOf(s)}]]
           iter(T) == CHOOSE i : rec(i, T)
<1>1. \A T : SumOf(f, T) = iter(T)[T]
  BY DEF SumOf, SumFunctionOnSet, FoldFunctionOnSet, MapThenFoldSet, AnyOf
<1>2. \A T \in SUBSET S : T # {} => AnyOf(T) \in T
  BY DEF AnyOf
<1> DEFINE c == [T \in SUBSET S |-> AnyOf(T)]
           step == [z \in S \X Int |-> f[z[1]] + z[2]]
<1>3. Picks(c, S)
  BY <1>2 DEF Picks
<1>4. PICK g : IsFold(g, S, c, 0, step)
  <2> HIDE DEF c, step
  <2> QED BY <1>3, FoldExists
<1>5. \A T \in SUBSET S : g[T] \in Int
  <2> DEFINE E == {T \in SUBSET S : g[T] \in Int}
             F == {T \in SUBSET S : T \notin E}
  <2>1. SUFFICES ASSUME F # {} PROVE FALSE
    OBVIOUS
  <2>2. PICK T \in F : \A U \in F : U \subseteq T => U = T
    <3>1. F \in SUBSET (SUBSET S)
      OBVIOUS
    <3> HIDE DEF F
    <3> QED BY <2>1, <3>1, MinimalSubset
  <2>3. T \in SUBSET S /\ g[T] \notin Int
    OBVIOUS
  <2>4. T # {}
    <3>1. g[{}] = 0
      <4> HIDE DEF c, step
      <4> QED BY <1>4 DEF IsFold
    <3> QED BY <2>3, <3>1
  <2>5. g[T \ {c[T]}] \in Int /\ c[T] \in T
    <3>1. c[T] \in T
      BY <1>2, <2>3, <2>4
    <3>2. T \ {c[T]} \in SUBSET S /\ T \ {c[T]} \subseteq T /\ T \ {c[T]} # T
      BY <2>3, <3>1
    <3>3. T \ {c[T]} \notin F
      <4> HIDE DEF c, F
      <4> QED BY <2>2, <3>2
    <3> QED BY <3>1, <3>2, <3>3
  <2>6. g[T] = step[<<c[T], g[T \ {c[T]}]>>]
    BY <1>4, <2>3, <2>4 DEF IsFold
  <2>7. step[<<c[T], g[T \ {c[T]}]>>] = f[c[T]] + g[T \ {c[T]}] /\ f[c[T]] \in Int
    BY <2>3, <2>5 DEF Ints
  <2> HIDE DEF c, step
  <2> QED BY <2>3, <2>5, <2>6, <2>7
<1>6. ASSUME NEW T \in SUBSET S, T # {}
      PROVE  g[T] = f[AnyOf(T)] + g[T \ {AnyOf(T)}]
  <2>1. g[T] = step[<<c[T], g[T \ {c[T]}]>>] /\ c[T] = AnyOf(T)
    BY <1>4, <1>6 DEF IsFold
  <2>2. T \ {AnyOf(T)} \in SUBSET S /\ AnyOf(T) \in S
    BY <1>2, <1>6
  <2>3. g[T \ {AnyOf(T)}] \in Int
    BY <1>5, <2>2
  <2> QED BY <2>1, <2>2, <2>3
<1>7. g[{}] = 0
  BY <1>4 DEF IsFold
<1> HIDE DEF c, step
<1>8. ASSUME NEW T \in SUBSET S
      PROVE  rec(iter(T), T)
  <2> DEFINE r == [s \in SUBSET T |-> g[s]]
  <2>1. ASSUME NEW s \in SUBSET T
        PROVE  r[s] = IF s = {} THEN 0 ELSE f[AnyOf(s)] + r[s \ {AnyOf(s)}]
    BY <1>6, <1>7
  <2>2. rec(r, T)
    BY <2>1
  <2> HIDE DEF rec
  <2> QED BY <2>2
<1>9. ASSUME NEW T \in SUBSET S
      PROVE  iter(T)[T] = g[T]
  <2> DEFINE h == iter(T)
             F == {U \in SUBSET T : h[U] # g[U]}
  <2>1. rec(h, T)
    BY <1>8
  <2>2. \A U \in SUBSET T : h[U] = IF U = {} THEN 0 ELSE f[AnyOf(U)] + h[U \ {AnyOf(U)}]
    <3> HIDE DEF h
    <3> QED BY <2>1
  <2> HIDE DEF h
  <2>3. SUFFICES ASSUME F # {} PROVE FALSE
    BY DEF h
  <2>4. PICK U \in F : \A V \in F : V \subseteq U => V = U
    <3>1. F \in SUBSET (SUBSET T) /\ IsFiniteSet(T)
      BY FS_Subset
    <3> HIDE DEF F
    <3> QED BY <2>3, <3>1, MinimalSubset
  <2>5. U \in SUBSET T /\ h[U] # g[U] /\ U # {}
    BY <2>2, <1>7
  <2> DEFINE V == U \ {AnyOf(U)}
  <2>6. V \in SUBSET T /\ V \subseteq U /\ V # U
    BY <1>2, <2>5
  <2>7. h[V] = g[V]
    BY <2>4, <2>6
  <2> QED BY <2>2, <2>5, <2>7, <1>6
<1> HIDE DEF iter
<1>10. \A T \in SUBSET S : SumOf(f, T) = g[T]
  BY <1>1, <1>9
<1>11. SumOf(f, {}) = 0
  BY <1>7, <1>10
<1>12. ASSUME NEW T \in SUBSET S, T # {}
       PROVE  SumOf(f, T) = f[AnyOf(T)] + SumOf(f, T \ {AnyOf(T)})
  <2>1. T \ {AnyOf(T)} \in SUBSET S
    OBVIOUS
  <2> QED BY <1>6, <1>10, <1>12, <2>1
<1> QED BY <1>2, <1>11, <1>12

(* Nothing adds up to nothing.                                             *)
LEMMA SumEmpty ==
  ASSUME NEW f
  PROVE  SumOf(f, {}) = 0
BY SumFold, FS_EmptySet DEF Ints

(* A sum of integers is an integer.                                        *)
LEMMA SumInt ==
  ASSUME NEW S, IsFiniteSet(S), NEW f, Ints(f, S)
  PROVE  SumOf(f, S) \in Int
<1> DEFINE F == {T \in SUBSET S : SumOf(f, T) \notin Int}
<1>1. SUFFICES ASSUME F # {} PROVE FALSE
  OBVIOUS
<1>2. PICK T \in F : \A U \in F : U \subseteq T => U = T
  <2>1. F \in SUBSET (SUBSET S)
    OBVIOUS
  <2> HIDE DEF F
  <2> QED BY <1>1, <2>1, MinimalSubset
<1>3. T \in SUBSET S /\ T # {}
  BY SumEmpty
<1>4. /\ AnyOf(T) \in T
      /\ SumOf(f, T) = f[AnyOf(T)] + SumOf(f, T \ {AnyOf(T)})
  BY <1>3, SumFold
<1>5. T \ {AnyOf(T)} \notin F
  <2> HIDE DEF F
  <2> QED BY <1>2, <1>4
<1>6. SumOf(f, T \ {AnyOf(T)}) \in Int /\ f[AnyOf(T)] \in Int
  BY <1>3, <1>4, <1>5 DEF Ints
<1> QED BY <1>4, <1>6

(* A sum does not depend on the order of its terms: any of them can be     *)
(* taken out.                                                              *)
LEMMA SumRemove ==
  ASSUME NEW S, IsFiniteSet(S), NEW f, Ints(f, S), NEW x \in S
  PROVE  SumOf(f, S) = f[x] + SumOf(f, S \ {x})
<1> DEFINE F == {T \in SUBSET S : \E y \in T : SumOf(f, T) # f[y] + SumOf(f, T \ {y})}
<1>1. SUFFICES ASSUME F # {} PROVE FALSE
  OBVIOUS
<1>2. PICK T \in F : \A U \in F : U \subseteq T => U = T
  <2>1. F \in SUBSET (SUBSET S)
    OBVIOUS
  <2> HIDE DEF F
  <2> QED BY <1>1, <2>1, MinimalSubset
<1>3. PICK y \in T : SumOf(f, T) # f[y] + SumOf(f, T \ {y})
  OBVIOUS
<1> DEFINE z == AnyOf(T)
<1>4. z \in T /\ SumOf(f, T) = f[z] + SumOf(f, T \ {z}) /\ T \in SUBSET S
  BY SumFold
<1> HIDE DEF z
<1>5. z # y
  BY <1>3, <1>4
<1>6. T \ {z} \notin F /\ T \ {y} \notin F
  <2> HIDE DEF F
  <2> QED BY <1>2, <1>4
<1> DEFINE r == (T \ {z}) \ {y}
<1>7. (T \ {y}) \ {z} = r
  OBVIOUS
<1>8. SumOf(f, T \ {z}) = f[y] + SumOf(f, r)
  BY <1>3, <1>4, <1>5, <1>6
<1>9. SumOf(f, T \ {y}) = f[z] + SumOf(f, r)
  BY <1>4, <1>5, <1>6, <1>7
<1>10. SumOf(f, r) \in Int /\ f[y] \in Int /\ f[z] \in Int
  <2>1. IsFiniteSet(r) /\ Ints(f, r)
    BY <1>4, FS_Subset DEF Ints
  <2> HIDE DEF r
  <2> QED BY <1>4, <2>1, SumInt DEF Ints
<1> HIDE DEF r
<1> QED BY <1>3, <1>4, <1>8, <1>9, <1>10

(* What one more term does to a sum.                                       *)
LEMMA SumAdd ==
  ASSUME NEW T, IsFiniteSet(T), NEW f, Ints(f, T), NEW x, x \notin T, f[x] \in Int
  PROVE  /\ SumOf(f, T \cup {x}) = f[x] + SumOf(f, T)
         /\ SumOf(f, T) \in Int
<1>1. IsFiniteSet(T \cup {x}) /\ Ints(f, T \cup {x})
  BY FS_AddElement DEF Ints
<1>2. (T \cup {x}) \ {x} = T /\ x \in T \cup {x}
  OBVIOUS
<1>3. SumOf(f, T \cup {x}) = f[x] + SumOf(f, (T \cup {x}) \ {x})
  BY <1>1, <1>2, SumRemove, Zenon
<1>4. SumOf(f, T) \in Int
  BY SumInt
<1> QED BY <1>2, <1>3, <1>4

(* The facts that lemma asks of a subset T of S and another element of S.  *)
LEMMA SubTerms ==
  ASSUME NEW S, IsFiniteSet(S), NEW f, Ints(f, S), NEW T \in SUBSET S
  PROVE  IsFiniteSet(T) /\ Ints(f, T) /\ \A x \in S \ T : x \notin T /\ f[x] \in Int
BY FS_Subset DEF Ints

(* Equal terms have equal sums.                                            *)
LEMMA SumSame ==
  ASSUME NEW S, IsFiniteSet(S), NEW f, NEW g, Ints(f, S), \A x \in S : f[x] = g[x]
  PROVE  SumOf(f, S) = SumOf(g, S)
<1> DEFINE E == {T \in SUBSET S : SumOf(f, T) = SumOf(g, T)}
<1>1. {} \in E
  BY SumEmpty
<1>2. Ints(g, S)
  BY DEF Ints
<1>3. ASSUME NEW T \in SUBSET S, NEW x \in S \ T, T \in E
      PROVE  T \cup {x} \in E
  BY <1>2, <1>3, SumAdd, SubTerms
<1> HIDE DEF E
<1>4. S \in E
  BY <1>1, <1>3, SetInduction
<1> QED BY <1>4 DEF E

(* The sum of the sums is the sum of the terms' sums.                      *)
LEMMA SumPlus ==
  ASSUME NEW S, IsFiniteSet(S), NEW f, NEW g, NEW h, Ints(f, S), Ints(g, S),
         \A x \in S : h[x] = f[x] + g[x]
  PROVE  SumOf(h, S) = SumOf(f, S) + SumOf(g, S)
<1> DEFINE E == {T \in SUBSET S : SumOf(h, T) = SumOf(f, T) + SumOf(g, T)}
<1>1. {} \in E
  BY SumEmpty
<1>2. Ints(h, S)
  BY DEF Ints
<1>3. ASSUME NEW T \in SUBSET S, NEW x \in S \ T, T \in E
      PROVE  T \cup {x} \in E
  <2>1. SumOf(h, T) = SumOf(f, T) + SumOf(g, T)
    BY <1>3
  <2>2. /\ SumOf(f, T \cup {x}) = f[x] + SumOf(f, T)
        /\ SumOf(g, T \cup {x}) = g[x] + SumOf(g, T)
        /\ SumOf(h, T \cup {x}) = h[x] + SumOf(h, T)
        /\ f[x] \in Int /\ g[x] \in Int
        /\ SumOf(f, T) \in Int /\ SumOf(g, T) \in Int
    BY <1>2, SumAdd, SubTerms
  <2>3. SumOf(h, T \cup {x}) = SumOf(f, T \cup {x}) + SumOf(g, T \cup {x})
    BY <2>1, <2>2
  <2> QED BY <2>3
<1> HIDE DEF E
<1>4. S \in E
  BY <1>1, <1>3, SetInduction
<1> QED BY <1>4 DEF E

(* Smaller terms have a smaller sum.                                       *)
LEMMA SumLeq ==
  ASSUME NEW S, IsFiniteSet(S), NEW f, NEW g, Ints(f, S), Ints(g, S),
         \A x \in S : f[x] <= g[x]
  PROVE  SumOf(f, S) <= SumOf(g, S)
<1> DEFINE E == {T \in SUBSET S : SumOf(f, T) <= SumOf(g, T)}
<1>1. {} \in E
  BY SumEmpty
<1>3. ASSUME NEW T \in SUBSET S, NEW x \in S \ T, T \in E
      PROVE  T \cup {x} \in E
  <2>1. SumOf(f, T) <= SumOf(g, T)
    BY <1>3
  <2>2. /\ SumOf(f, T \cup {x}) = f[x] + SumOf(f, T)
        /\ SumOf(g, T \cup {x}) = g[x] + SumOf(g, T)
        /\ f[x] \in Int /\ g[x] \in Int /\ SumOf(f, T) \in Int /\ SumOf(g, T) \in Int
    BY SumAdd, SubTerms
  <2>3. SumOf(f, T \cup {x}) <= SumOf(g, T \cup {x})
    BY <2>1, <2>2
  <2> QED BY <2>3
<1> HIDE DEF E
<1>4. S \in E
  BY <1>1, <1>3, SetInduction
<1> QED BY <1>4 DEF E

(* A constant adds up to a multiple of it.                                 *)
LEMMA SumConstant ==
  ASSUME NEW S, IsFiniteSet(S), NEW k \in Int, NEW f, \A x \in S : f[x] = k
  PROVE  SumOf(f, S) = Cardinality(S) * k
<1> DEFINE E == {T \in SUBSET S : SumOf(f, T) = Cardinality(T) * k}
<1>1. {} \in E
  BY SumEmpty, FS_EmptySet
<1>2. Ints(f, S)
  BY DEF Ints
<1>3. ASSUME NEW T \in SUBSET S, NEW x \in S \ T, T \in E
      PROVE  T \cup {x} \in E
  <2>1. SumOf(f, T) = Cardinality(T) * k
    BY <1>3
  <2>2. SumOf(f, T \cup {x}) = k + SumOf(f, T)
    BY <1>2, SumAdd, SubTerms
  <2>3. Cardinality(T \cup {x}) = Cardinality(T) + 1 /\ Cardinality(T) \in Nat
    BY FS_Subset, FS_AddElement, FS_CardinalityType
  <2>4. \A n \in Nat : (n + 1) * k = k + n * k
    OBVIOUS
  <2>5. SumOf(f, T \cup {x}) = Cardinality(T \cup {x}) * k
    BY <2>1, <2>2, <2>3, <2>4
  <2> QED BY <2>5
<1> HIDE DEF E
<1>4. S \in E
  BY <1>1, <1>3, SetInduction
<1> QED BY <1>4 DEF E

(* Zeros add up to zero, and a sum of naturals is a natural.               *)
LEMMA SumZero ==
  ASSUME NEW S, IsFiniteSet(S), NEW f, \A x \in S : f[x] = 0
  PROVE  SumOf(f, S) = 0
<1>1. SumOf(f, S) = Cardinality(S) * 0
  BY SumConstant
<1> QED BY <1>1, FS_CardinalityType

(* A sum of naturals is a natural.                                         *)
LEMMA SumNat ==
  ASSUME NEW S, IsFiniteSet(S), NEW f, Nats(f, S)
  PROVE  SumOf(f, S) \in Nat
<1> DEFINE z == [x \in S |-> 0]
<1>1. Ints(f, S) /\ Ints(z, S) /\ \A x \in S : z[x] <= f[x]
  BY DEF Ints, Nats
<1>2. SumOf(z, S) = 0
  BY SumZero
<1> HIDE DEF z
<1>3. SumOf(f, S) \in Int /\ 0 <= SumOf(f, S)
  BY <1>1, <1>2, SumLeq, SumInt
<1> QED BY <1>3

(* Terms that are zero may be left out.                                    *)
LEMMA SumSupport ==
  ASSUME NEW S, IsFiniteSet(S), NEW f, Ints(f, S), NEW U \in SUBSET S,
         \A x \in S \ U : f[x] = 0
  PROVE  SumOf(f, S) = SumOf(f, U)
<1> DEFINE E == {T \in SUBSET S : SumOf(f, T) = SumOf(f, T \cap U)}
<1>1. {} \in E
  <2>1. {} \cap U = {}
    OBVIOUS
  <2> QED BY <2>1
<1>3. ASSUME NEW T \in SUBSET S, NEW x \in S \ T, T \in E
      PROVE  T \cup {x} \in E
  <2>1. SumOf(f, T) = SumOf(f, T \cap U)
    BY <1>3
  <2>2. SumOf(f, T \cup {x}) = f[x] + SumOf(f, T) /\ SumOf(f, T) \in Int
    BY SumAdd, SubTerms
  <2>3. CASE x \in U
    <3>1. (T \cup {x}) \cap U = (T \cap U) \cup {x} /\ T \cap U \in SUBSET S
          /\ x \in S \ (T \cap U)
      BY <2>3
    <3>2. SumOf(f, (T \cap U) \cup {x}) = f[x] + SumOf(f, T \cap U)
      BY <3>1, SumAdd, SubTerms
    <3>3. SumOf(f, (T \cup {x}) \cap U) = SumOf(f, (T \cap U) \cup {x})
      BY <3>1, Zenon
    <3>4. SumOf(f, T \cup {x}) = SumOf(f, (T \cup {x}) \cap U)
      BY <2>1, <2>2, <3>2, <3>3
    <3> QED BY <3>4
  <2>4. CASE x \notin U
    <3>1. (T \cup {x}) \cap U = T \cap U /\ f[x] = 0
      BY <2>4
    <3>2. SumOf(f, (T \cup {x}) \cap U) = SumOf(f, T \cap U)
      BY <3>1, Zenon
    <3>3. SumOf(f, T \cup {x}) = SumOf(f, (T \cup {x}) \cap U)
      BY <2>1, <2>2, <3>1, <3>2
    <3> QED BY <3>3
  <2> QED BY <2>3, <2>4
<1> HIDE DEF E
<1>4. S \in E
  BY <1>1, <1>3, SetInduction
<1>5. S \cap U = U
  OBVIOUS
<1> QED BY <1>4, <1>5 DEF E

(* A sum with a single term.                                               *)
LEMMA SumOnly ==
  ASSUME NEW S, IsFiniteSet(S), NEW f, NEW x \in S, f[x] \in Int,
         \A y \in S \ {x} : f[y] = 0
  PROVE  SumOf(f, S) = f[x]
<1>1. Ints(f, S)
  BY DEF Ints
<1>2. SumOf(f, S) = SumOf(f, {x})
  BY <1>1, SumSupport
<1>3. SumOf(f, {x}) = f[x] + SumOf(f, {})
  <2>1. {x} \ {x} = {} /\ IsFiniteSet({x}) /\ Ints(f, {x})
    BY <1>1, FS_Singleton DEF Ints
  <2> QED BY <2>1, SumRemove
<1> QED BY <1>2, <1>3, SumEmpty

(* No term of a sum of naturals exceeds it.                                *)
LEMMA SumTerm ==
  ASSUME NEW S, IsFiniteSet(S), NEW f, Nats(f, S), NEW x \in S
  PROVE  f[x] <= SumOf(f, S)
<1>1. SumOf(f, S) = f[x] + SumOf(f, S \ {x}) /\ f[x] \in Nat
  BY SumRemove DEF Ints, Nats
<1>2. SumOf(f, S \ {x}) \in Nat
  BY FS_Subset, SumNat DEF Nats
<1> QED BY <1>1, <1>2

(* Terms can be renumbered: r names a term of f for each of g, no term     *)
(* twice, and what it does not name is zero.                               *)
LEMMA SumRenumber ==
  ASSUME NEW S, IsFiniteSet(S), NEW K, IsFiniteSet(K), NEW f, NEW g, Ints(f, S),
         NEW r \in [K -> S], \A j, k \in K : r[j] = r[k] => j = k,
         \A k \in K : g[k] = f[r[k]],
         \A x \in S : (\A k \in K : r[k] # x) => f[x] = 0
  PROVE  SumOf(f, S) = SumOf(g, K)
<1> DEFINE img(T) == {r[k] : k \in T}
           E == {T \in SUBSET K : SumOf(g, T) = SumOf(f, img(T))}
<1>1. {} \in E
  <2>1. img({}) = {}
    OBVIOUS
  <2> QED BY <2>1, SumEmpty
<1>2. Ints(g, K)
  BY DEF Ints
<1>3. ASSUME NEW T \in SUBSET K, NEW k \in K \ T, T \in E
      PROVE  T \cup {k} \in E
  <2>1. SumOf(g, T) = SumOf(f, img(T))
    BY <1>3
  <2>2. SumOf(g, T \cup {k}) = g[k] + SumOf(g, T)
    BY <1>2, SumAdd, SubTerms
  <2>3. img(T \cup {k}) = img(T) \cup {r[k]} /\ img(T) \in SUBSET S /\ r[k] \in S \ img(T)
    OBVIOUS
  <2> HIDE DEF img
  <2>4. SumOf(f, img(T \cup {k})) = f[r[k]] + SumOf(f, img(T))
    <3>1. /\ IsFiniteSet(img(T)) /\ Ints(f, img(T))
          /\ r[k] \notin img(T) /\ f[r[k]] \in Int
      BY <2>3, SubTerms
    <3> QED BY <2>3, <3>1, SumAdd
  <2>5. SumOf(g, T \cup {k}) = SumOf(f, img(T \cup {k}))
    BY <2>1, <2>2, <2>4
  <2> QED BY <2>5
<1>4. K \in E
  <2> HIDE DEF E
  <2> QED BY <1>1, <1>3, SetInduction
<1>5. img(K) \in SUBSET S /\ \A x \in S \ img(K) : f[x] = 0
  OBVIOUS
<1> HIDE DEF img
<1>6. SumOf(f, S) = SumOf(f, img(K))
  BY <1>5, SumSupport
<1> QED BY <1>4, <1>6

(* Every term belongs to one owner: the sum over the owners of what each   *)
(* of them owns is the sum of all terms.                                   *)
LEMMA SumByOwner ==
  ASSUME NEW V, IsFiniteSet(V), NEW K, IsFiniteSet(K), NEW h, Ints(h, K),
         NEW owner, \A k \in K : owner[k] \in V
  PROVE  SumOf([v \in V |-> SumOf([k \in K |-> IF owner[k] = v THEN h[k] ELSE 0], K)], V)
           = SumOf(h, K)
<1> DEFINE of(v, T) == [k \in T |-> IF owner[k] = v THEN h[k] ELSE 0]
           part(v, T) == SumOf(of(v, K), T)
           parts(T) == [v \in V |-> part(v, T)]
           E == {T \in SUBSET K : SumOf(parts(T), V) = SumOf(h, T)}
<1>0. \A v \in V : Ints(of(v, K), K)
  BY DEF Ints
<1>1. {} \in E
  <2>1. \A v \in V : parts({})[v] = 0
    BY SumEmpty
  <2> HIDE DEF parts
  <2>2. SumOf(parts({}), V) = 0
    BY <2>1, SumZero
  <2> QED BY <2>2, SumEmpty
<1>3. ASSUME NEW T \in SUBSET K, NEW k \in K \ T, T \in E
      PROVE  T \cup {k} \in E
  <2>1. SumOf(parts(T), V) = SumOf(h, T)
    BY <1>3
  <2>2. SumOf(h, T \cup {k}) = h[k] + SumOf(h, T) /\ h[k] \in Int /\ SumOf(h, T) \in Int
    BY SumAdd, SubTerms
  <2> DEFINE one == [v \in V |-> IF v = owner[k] THEN h[k] ELSE 0]
  <2>3. ASSUME NEW v \in V
        PROVE  /\ parts(T \cup {k})[v] = one[v] + parts(T)[v]
               /\ one[v] \in Int /\ parts(T)[v] \in Int
    <3>1. of(v, K)[k] = one[v]
      OBVIOUS
    <3>2. /\ IsFiniteSet(T) /\ Ints(of(v, K), T) /\ k \notin T
          /\ of(v, K)[k] \in Int
      <4> HIDE DEF of, part, parts, one, E
      <4>1. Ints(of(v, K), K)
        BY <1>0
      <4> QED BY <4>1, SubTerms
    <3> HIDE DEF of, one
    <3>3. part(v, T \cup {k}) = one[v] + part(v, T) /\ part(v, T) \in Int /\ one[v] \in Int
      BY <3>1, <3>2, SumAdd
    <3> QED BY <3>3
  <2>4. SumOf(one, V) = h[k]
    <3>1. owner[k] \in V /\ one[owner[k]] = h[k] /\ \A v \in V \ {owner[k]} : one[v] = 0
      OBVIOUS
    <3> HIDE DEF one
    <3> QED BY <2>2, <3>1, SumOnly
  <2> HIDE DEF parts, one
  <2>5. SumOf(parts(T \cup {k}), V) = SumOf(one, V) + SumOf(parts(T), V)
    <3>1. Ints(one, V) /\ Ints(parts(T), V)
      BY <2>3 DEF Ints
    <3> QED BY <2>3, <3>1, SumPlus
  <2>6. SumOf(parts(T \cup {k}), V) = SumOf(h, T \cup {k})
    BY <2>1, <2>2, <2>4, <2>5
  <2> QED BY <2>6
<1>4. K \in E
  <2> HIDE DEF E
  <2> QED BY <1>1, <1>3, SetInduction
<1> QED BY <1>4

-----------------------------------------------------------------------------
(* Accounts: how a total changes with some of its terms.                   *)

(* One account changes by c.                                               *)
LEMMA SumOneChanged ==
  ASSUME NEW V, IsFiniteSet(V), NEW u \in V, NEW f, Ints(f, V), NEW c \in Int,
         NEW h, \A v \in V : h[v] = f[v] + IF v = u THEN c ELSE 0
  PROVE  SumOf(h, V) = SumOf(f, V) + c
<1> DEFINE one == [v \in V |-> IF v = u THEN c ELSE 0]
<1>1. /\ Ints(one, V) /\ one[u] = c /\ (\A v \in V \ {u} : one[v] = 0)
      /\ \A v \in V : h[v] = f[v] + one[v]
  BY DEF Ints
<1> HIDE DEF one
<1>2. SumOf(one, V) = c
  BY <1>1, SumOnly
<1>3. SumOf(h, V) = SumOf(f, V) + SumOf(one, V)
  BY <1>1, SumPlus
<1> QED BY <1>2, <1>3

(* The terms of d that v owns.                                             *)
Owned(d, K, owner, v) == [k \in K |-> IF owner[k] = v THEN d[k] ELSE 0]

(* Every account changes by the terms it owns.                             *)
LEMMA SumOwnersChanged ==
  ASSUME NEW V, IsFiniteSet(V), NEW K, IsFiniteSet(K), NEW f, Ints(f, V),
         NEW d, Ints(d, K), NEW owner, \A k \in K : owner[k] \in V, NEW h,
         \A v \in V : h[v] = f[v] + SumOf(Owned(d, K, owner, v), K)
  PROVE  SumOf(h, V) = SumOf(f, V) + SumOf(d, K)
<1> DEFINE owned == [v \in V |-> SumOf(Owned(d, K, owner, v), K)]
<1>1. ASSUME NEW v \in V
      PROVE  owned[v] \in Int
  <2>1. Ints(Owned(d, K, owner, v), K)
    BY DEF Ints, Owned
  <2> QED BY <2>1, SumInt
<1>2. SumOf(owned, V) = SumOf(d, K)
  <2>1. owned = [v \in V |-> SumOf([k \in K |-> IF owner[k] = v THEN d[k] ELSE 0], K)]
    BY Zenon DEF Owned
  <2> HIDE DEF owned
  <2> QED BY <2>1, SumByOwner
<1>3. \A v \in V : h[v] = f[v] + owned[v]
  OBVIOUS
<1> HIDE DEF owned
<1>4. Ints(owned, V)
  BY <1>1 DEF Ints
<1> QED BY <1>2, <1>3, <1>4, SumPlus

(* Both at once.                                                           *)
LEMMA SumPaid ==
  ASSUME NEW V, IsFiniteSet(V), NEW K, IsFiniteSet(K), NEW f, Ints(f, V),
         NEW d, Ints(d, K), NEW owner, \A k \in K : owner[k] \in V,
         NEW u \in V, NEW c \in Int, NEW h,
         \A v \in V : h[v] = f[v] + SumOf(Owned(d, K, owner, v), K) + IF v = u THEN c ELSE 0
  PROVE  SumOf(h, V) = SumOf(f, V) + SumOf(d, K) + c
<1> DEFINE g == [v \in V |-> f[v] + SumOf(Owned(d, K, owner, v), K)]
<1>1. ASSUME NEW v \in V
      PROVE  g[v] \in Int /\ g[v] = f[v] + SumOf(Owned(d, K, owner, v), K)
  <2>1. Ints(Owned(d, K, owner, v), K)
    BY DEF Ints, Owned
  <2>2. SumOf(Owned(d, K, owner, v), K) \in Int
    BY <2>1, SumInt
  <2> QED BY <2>2 DEF Ints
<1>2. \A v \in V : h[v] = g[v] + IF v = u THEN c ELSE 0
  BY <1>1
<1> HIDE DEF g
<1>3. SumOf(g, V) = SumOf(f, V) + SumOf(d, K)
  BY <1>1, SumOwnersChanged
<1>4. Ints(g, V)
  BY <1>1 DEF Ints
<1>5. SumOf(h, V) = SumOf(g, V) + c
  BY <1>2, <1>4, SumOneChanged
<1> QED BY <1>3, <1>5

(* A sum over part of a set is one over the set with zeros elsewhere.      *)
LEMMA SumWiden ==
  ASSUME NEW S, IsFiniteSet(S), NEW U \in SUBSET S, NEW f, Ints(f, S), NEW g,
         \A x \in U : g[x] = f[x], \A x \in S \ U : f[x] = 0
  PROVE  SumOf(g, U) = SumOf(f, S)
<1>1. SumOf(f, S) = SumOf(f, U)
  BY SumSupport
<1>2. IsFiniteSet(U) /\ Ints(f, U) /\ Ints(g, U)
  BY FS_Subset DEF Ints
<1> QED BY <1>1, <1>2, SumSame

(* The terms that r names change by d, no other term does.                 *)
LEMMA SumNamedChanged ==
  ASSUME NEW S, IsFiniteSet(S), NEW K, IsFiniteSet(K), NEW f, Ints(f, S), NEW g, Ints(g, S),
         NEW r \in [K -> S], \A j, k \in K : r[j] = r[k] => j = k,
         NEW d, \A k \in K : d[k] = f[r[k]] - g[r[k]],
         \A x \in S : (\A k \in K : r[k] # x) => f[x] = g[x]
  PROVE  SumOf(f, S) = SumOf(g, S) + SumOf(d, K)
<1> DEFINE e == [x \in S |-> f[x] - g[x]]
<1>1. /\ Ints(e, S) /\ (\A x \in S : f[x] = g[x] + e[x])
      /\ (\A k \in K : d[k] = e[r[k]])
      /\ \A x \in S : (\A k \in K : r[k] # x) => e[x] = 0
  BY DEF Ints
<1> HIDE DEF e
<1>2. SumOf(e, S) = SumOf(d, K)
  BY <1>1, SumRenumber
<1>3. SumOf(f, S) = SumOf(g, S) + SumOf(e, S)
  BY <1>1, SumPlus
<1> QED BY <1>2, <1>3

(* Some accounts grow, or shrink, by an amount of their own.               *)
LEMMA SumPartGrows ==
  ASSUME NEW V, IsFiniteSet(V), NEW W \in SUBSET V, NEW f, Ints(f, V), NEW d, Ints(d, W),
         NEW h, \A v \in V : h[v] = f[v] + IF v \in W THEN d[v] ELSE 0
  PROVE  SumOf(h, V) = SumOf(f, V) + SumOf(d, W)
<1> DEFINE e == [v \in V |-> IF v \in W THEN d[v] ELSE 0]
<1>1. /\ Ints(e, V) /\ (\A v \in W : d[v] = e[v]) /\ (\A v \in V \ W : e[v] = 0)
      /\ \A v \in V : h[v] = f[v] + e[v]
  BY DEF Ints
<1> HIDE DEF e
<1>2. SumOf(d, W) = SumOf(e, V)
  BY <1>1, SumWiden
<1>3. SumOf(h, V) = SumOf(f, V) + SumOf(e, V)
  BY <1>1, SumPlus
<1> QED BY <1>2, <1>3

(* A part of the set gives something up: the sum is less by that.          *)
LEMMA SumPartShrinks ==
  ASSUME NEW V, IsFiniteSet(V), NEW W \in SUBSET V, NEW f, Ints(f, V), NEW d, Ints(d, W),
         NEW h, \A v \in V : h[v] = f[v] - IF v \in W THEN d[v] ELSE 0
  PROVE  SumOf(h, V) = SumOf(f, V) - SumOf(d, W)
<1>1. Ints(h, V) /\ \A v \in V : f[v] = h[v] + IF v \in W THEN d[v] ELSE 0
  BY DEF Ints
<1>2. SumOf(f, V) = SumOf(h, V) + SumOf(d, W)
  BY <1>1, SumPartGrows
<1>3. SumOf(h, V) \in Int /\ SumOf(d, W) \in Int
  BY <1>1, SumInt, FS_Subset
<1> QED BY <1>2, <1>3

(* A sum is the sum of two parts.                                          *)
LEMMA SumSplit ==
  ASSUME NEW V, IsFiniteSet(V), NEW W \in SUBSET V, NEW f, Ints(f, V)
  PROVE  /\ SumOf(f, V) = SumOf(f, V \ W) + SumOf(f, W)
         /\ SumOf(f, V \ W) \in Int /\ SumOf(f, W) \in Int
<1> DEFINE h == [v \in V |-> f[v] - IF v \in W THEN f[v] ELSE 0]
<1>1. /\ IsFiniteSet(W) /\ IsFiniteSet(V \ W) /\ Ints(f, W) /\ Ints(f, V \ W)
  BY FS_Subset DEF Ints
<1>2. /\ \A v \in V : h[v] = f[v] - IF v \in W THEN f[v] ELSE 0
      /\ Ints(h, V) /\ Ints(h, V \ W)
      /\ (\A v \in V \ (V \ W) : h[v] = 0) /\ (\A v \in V \ W : h[v] = f[v])
  BY DEF Ints
<1> HIDE DEF h
<1>3. SumOf(h, V) = SumOf(f, V) - SumOf(f, W)
  BY <1>1, <1>2, SumPartShrinks
<1>4. SumOf(h, V) = SumOf(h, V \ W)
  <2> DEFINE U == V \ W
  <2>1. U \in SUBSET V /\ \A v \in V \ U : h[v] = 0
    BY <1>2
  <2> HIDE DEF U
  <2>2. SumOf(h, V) = SumOf(h, U)
    BY <1>2, <2>1, SumSupport
  <2> QED BY <2>2 DEF U
<1>5. SumOf(h, V \ W) = SumOf(f, V \ W)
  BY <1>1, <1>2, SumSame
<1>6. SumOf(f, V) \in Int /\ SumOf(f, W) \in Int /\ SumOf(f, V \ W) \in Int
  BY <1>1, SumInt
<1> QED BY <1>3, <1>4, <1>5, <1>6

(* A part of a sum of naturals is no more than the sum.                    *)
LEMMA SumPart ==
  ASSUME NEW V, IsFiniteSet(V), NEW W \in SUBSET V, NEW f, Nats(f, V)
  PROVE  SumOf(f, W) <= SumOf(f, V)
<1>1. Ints(f, V) /\ Nats(f, V \ W) /\ IsFiniteSet(V \ W)
  BY FS_Subset DEF Ints, Nats
<1>2. SumOf(f, V \ W) \in Nat
  BY <1>1, SumNat
<1>3. SumOf(f, V) = SumOf(f, V \ W) + SumOf(f, W) /\ SumOf(f, W) \in Int
  BY <1>1, SumSplit
<1> QED BY <1>2, <1>3

(* What is left when some terms go and the others stay.                    *)
LEMMA SumLeft ==
  ASSUME NEW V, IsFiniteSet(V), NEW W \in SUBSET V, NEW f, Ints(f, V),
         NEW U, U = V \ W, NEW g, \A v \in U : g[v] = f[v]
  PROVE  SumOf(g, U) = SumOf(f, V) - SumOf(f, W)
<1>1. SumOf(f, V) = SumOf(f, U) + SumOf(f, W) /\ SumOf(f, U) \in Int /\ SumOf(f, W) \in Int
  BY SumSplit
<1>2. IsFiniteSet(U) /\ Ints(f, U)
  BY FS_Subset DEF Ints
<1>3. SumOf(f, U) = SumOf(g, U)
  BY <1>2, SumSame
<1> QED BY <1>1, <1>3

(* When the members named by K are changed or go, and the others stay, a   *)
(* sum changes by the differences of those members.                        *)
LEMMA SumNamedReplaced ==
  ASSUME NEW S, IsFiniteSet(S), NEW N \in SUBSET S, NEW K, IsFiniteSet(K),
         NEW f, Ints(f, S), NEW g, Ints(g, N),
         NEW r \in [K -> S], \A j, k \in K : r[j] = r[k] => j = k,
         NEW d, \A k \in K : d[k] = f[r[k]] - IF r[k] \in N THEN g[r[k]] ELSE 0,
         \A x \in S : (\A k \in K : r[k] # x) => x \in N /\ g[x] = f[x]
  PROVE  SumOf(f, S) = SumOf(g, N) + SumOf(d, K)
<1> DEFINE h == [x \in S |-> IF x \in N THEN g[x] ELSE 0]
<1>1. /\ Ints(h, S) /\ (\A x \in N : g[x] = h[x]) /\ (\A x \in S \ N : h[x] = 0)
      /\ \A x \in S : (\A k \in K : r[k] # x) => f[x] = h[x]
  BY DEF Ints
<1>2. \A k \in K : d[k] = f[r[k]] - h[r[k]]
  BY DEF Ints
<1> HIDE DEF h
<1>3. SumOf(g, N) = SumOf(h, S)
  BY <1>1, SumWiden
<1>4. SumOf(f, S) = SumOf(h, S) + SumOf(d, K)
  BY <1>1, <1>2, SumNamedChanged
<1> QED BY <1>3, <1>4

(* What one owner has is the sum over its own terms.                       *)
LEMMA SumOwned ==
  ASSUME NEW K, IsFiniteSet(K), NEW d, Ints(d, K), NEW owner, NEW v, NEW g,
         \A k \in K : owner[k] = v => g[k] = d[k]
  PROVE  SumOf(g, {k \in K : owner[k] = v}) = SumOf(Owned(d, K, owner, v), K)
<1> DEFINE U == {k \in K : owner[k] = v}
           f == Owned(d, K, owner, v)
<1>1. /\ U \in SUBSET K /\ Ints(f, K) /\ (\A x \in U : g[x] = f[x])
      /\ \A x \in K \ U : f[x] = 0
  BY DEF Ints, Owned
<1> HIDE DEF U, f
<1>2. SumOf(g, U) = SumOf(f, K)
  BY <1>1, SumWiden
<1> QED BY <1>2 DEF U, f

(* Finitely many arguments have finitely many values.                      *)
LEMMA ValuesFinite ==
  ASSUME NEW K, IsFiniteSet(K), NEW r
  PROVE  IsFiniteSet({r[k] : k \in K})
<1> DEFINE name == [k \in K |-> r[k]]
           S == {r[k] : k \in K}
<1>1. name \in Surjection(K, S)
  BY DEF Surjection
<1> HIDE DEF name, S
<1>2. IsFiniteSet(S)
  BY <1>1, FS_Surjection
<1> QED BY <1>2 DEF S

(* As many values as arguments.                                            *)
LEMMA CardImage ==
  ASSUME NEW K, IsFiniteSet(K), NEW r, \A j, k \in K : r[j] = r[k] => j = k
  PROVE  Cardinality({r[k] : k \in K}) = Cardinality(K)
<1> DEFINE name == [k \in K |-> r[k]]
           S == {r[k] : k \in K}
<1>1. name \in Surjection(K, S)
  BY DEF Surjection
<1>2. name \in Injection(K, S)
  BY DEF Injection, IsInjective
<1> HIDE DEF name, S
<1>3. Cardinality(S) = Cardinality(K)
  BY <1>1, <1>2, FS_Surjection
<1> QED BY <1>3 DEF S

(* The members of K in groups by key, a record in T for each group: the    *)
(* form of a query that groups rows.                                       *)
Grouped(K, key, V, group, rec, T) ==
  /\ IsFiniteSet(K) /\ IsFiniteSet(V)
  /\ \A k \in K : key[k] \in V
  /\ \A v \in V : group[v] \subseteq K /\ \A k \in K : k \in group[v] <=> key[k] = v
  /\ \A v \in V : rec[v] \in T
  /\ \A u, v \in V : rec[u] = rec[v] => u = v
  /\ \A x \in T : \E v \in V : x = rec[v]

(* The record of a group has the sum of its terms.                         *)
Reports(g, h, V, group, rec) == \A v \in V : g[rec[v]] = SumOf(h, group[v])

(* The sums in the records add up to that of the terms.                    *)
LEMMA SumGrouped ==
  ASSUME NEW K, NEW key, NEW V, NEW group, NEW rec, NEW T, Grouped(K, key, V, group, rec, T),
         NEW h, Ints(h, K), NEW g, Reports(g, h, V, group, rec)
  PROVE  IsFiniteSet(T) /\ Ints(g, T) /\ SumOf(g, T) = SumOf(h, K)
<1> USE DEF Grouped, Reports
<1> DEFINE own(v) == [k \in K |-> IF key[k] = v THEN h[k] ELSE 0]
           total == [v \in V |-> SumOf(own(v), K)]
<1>2. ASSUME NEW v \in V
      PROVE  SumOf(own(v), K) = SumOf(h, group[v]) /\ SumOf(own(v), K) \in Int
  <2>1. SumOf(h, {k \in K : key[k] = v}) = SumOf(Owned(h, K, key, v), K)
    BY SumOwned
  <2>2. own(v) = Owned(h, K, key, v)
    BY DEF Owned
  <2>3. Ints(own(v), K)
    BY DEF Ints
  <2>4. group[v] = {k \in K : key[k] = v}
    OBVIOUS
  <2> HIDE DEF own
  <2> QED BY <2>1, <2>2, <2>3, <2>4, SumInt
<1>3. SumOf(total, V) = SumOf(h, K)
  BY SumByOwner
<1> HIDE DEF own
<1>4. Ints(total, V) /\ \A v \in V : total[v] = g[rec[v]]
  BY <1>2 DEF Ints
<1> HIDE DEF total
<1> DEFINE name == [v \in V |-> rec[v]]
<1>5. name \in [V -> T] /\ (\A v \in V : name[v] = rec[v]) /\ name \in Surjection(V, T)
  BY DEF Surjection
<1> HIDE DEF name
<1>6. IsFiniteSet(T)
  BY <1>5, FS_Surjection
<1>7. Ints(g, T)
  BY <1>4 DEF Ints
<1>8. \A u, v \in V : name[u] = name[v] => u = v
  BY <1>5
<1>9. \A v \in V : total[v] = g[name[v]]
  BY <1>4, <1>5
<1>10. \A x \in T : (\A v \in V : name[v] # x) => g[x] = 0
  BY <1>5
<1>11. SumOf(g, T) = SumOf(total, V)
  BY <1>4, <1>5, <1>6, <1>7, <1>8, <1>9, <1>10, SumRenumber
<1> QED BY <1>3, <1>6, <1>7, <1>11

(* Every term counts for two owners; part[v] are the terms of v.           *)
TwoOwners(K, one, two, V, part) ==
  /\ IsFiniteSet(K) /\ IsFiniteSet(V)
  /\ \A k \in K : one[k] \in V /\ two[k] \in V /\ one[k] # two[k]
  /\ \A v \in V : part[v] \subseteq K /\ \A k \in K : k \in part[v] <=> one[k] = v \/ two[k] = v

(* It counts as h for the one and as j for the other.                      *)
Shares(own, h, j, one, V, part) ==
  \A v \in V : \A k \in part[v] : own[v][k] = IF one[k] = v THEN h[k] ELSE j[k]

(* What all owners have is what the terms count for both.                  *)
LEMMA SumTwoOwners ==
  ASSUME NEW K, NEW one, NEW two, NEW V, NEW part, TwoOwners(K, one, two, V, part),
         NEW h, Ints(h, K), NEW j, Ints(j, K), NEW own, Shares(own, h, j, one, V, part),
         NEW f, \A v \in V : f[v] = SumOf(own[v], part[v])
  PROVE  Ints(f, V) /\ SumOf(f, V) = SumOf(h, K) + SumOf(j, K)
<1> USE DEF TwoOwners, Shares
<1> DEFINE hs(v) == [k \in K |-> IF one[k] = v THEN h[k] ELSE 0]
           js(v) == [k \in K |-> IF two[k] = v THEN j[k] ELSE 0]
           both(v) == [k \in K |-> hs(v)[k] + js(v)[k]]
           hsum == [v \in V |-> SumOf(hs(v), K)]
           jsum == [v \in V |-> SumOf(js(v), K)]
<1>1. ASSUME NEW v \in V
      PROVE  /\ f[v] = hsum[v] + jsum[v]
             /\ hsum[v] \in Int /\ jsum[v] \in Int
  <2> DEFINE U == part[v]
  <2>1. Ints(hs(v), K) /\ Ints(js(v), K) /\ \A k \in K : both(v)[k] = hs(v)[k] + js(v)[k]
    BY DEF Ints
  <2>2. Ints(both(v), K)
    BY <2>1 DEF Ints
  <2>3. U \in SUBSET K /\ \A k \in U : own[v][k] = both(v)[k]
    BY DEF Ints
  <2>4. \A k \in K \ U : both(v)[k] = 0
    OBVIOUS
  <2> HIDE DEF hs, js, both, U
  <2>5. SumOf(own[v], U) = SumOf(both(v), K)
    BY <2>2, <2>3, <2>4, SumWiden
  <2>6. SumOf(both(v), K) = SumOf(hs(v), K) + SumOf(js(v), K)
    BY <2>1, SumPlus
  <2>7. SumOf(hs(v), K) \in Int /\ SumOf(js(v), K) \in Int
    BY <2>1, SumInt
  <2> QED BY <2>5, <2>6, <2>7 DEF U
<1>2. SumOf(hsum, V) = SumOf(h, K)
  BY SumByOwner
<1>3. SumOf(jsum, V) = SumOf(j, K)
  BY SumByOwner
<1> HIDE DEF hsum, jsum
<1>4. Ints(hsum, V) /\ Ints(jsum, V) /\ Ints(f, V)
  BY <1>1 DEF Ints
<1>5. SumOf(f, V) = SumOf(hsum, V) + SumOf(jsum, V)
  BY <1>1, <1>4, SumPlus
<1> QED BY <1>2, <1>3, <1>4, <1>5

(* A multiple of the terms is one of the sum.                              *)
LEMMA SumTimes ==
  ASSUME NEW S, IsFiniteSet(S), NEW f, Ints(f, S), NEW n \in Int,
         NEW h, \A x \in S : h[x] = n * f[x]
  PROVE  SumOf(h, S) = n * SumOf(f, S)
<1> DEFINE E == {T \in SUBSET S : SumOf(h, T) = n * SumOf(f, T)}
<1>1. {} \in E
  BY SumEmpty
<1>2. Ints(h, S)
  BY DEF Ints
<1>3. ASSUME NEW T \in SUBSET S, NEW x \in S \ T, T \in E
      PROVE  T \cup {x} \in E
  <2>1. SumOf(h, T) = n * SumOf(f, T)
    BY <1>3
  <2>2. /\ SumOf(f, T \cup {x}) = f[x] + SumOf(f, T)
        /\ SumOf(h, T \cup {x}) = h[x] + SumOf(h, T)
        /\ f[x] \in Int /\ SumOf(f, T) \in Int /\ h[x] = n * f[x]
    BY <1>2, SumAdd, SubTerms
  <2> DEFINE a == f[x]
             b == SumOf(f, T)
  <2>3. n * (a + b) = n * a + n * b
    <3>1. a \in Int /\ b \in Int
      BY <2>2
    <3> HIDE DEF a, b
    <3> QED BY <3>1
  <2>4. SumOf(h, T \cup {x}) = n * SumOf(f, T \cup {x})
    BY <2>1, <2>2, <2>3
  <2> QED BY <2>4
<1> HIDE DEF E
<1>4. S \in E
  BY <1>1, <1>3, SetInduction
<1> QED BY <1>4 DEF E

(* The members of K with a key in V are those of W, part[v] those of key v.*)
Keyed(K, key, V, part, W) ==
  /\ W = {k \in K : key[k] \in V}
  /\ \A v \in V : part[v] = {k \in K : key[k] = v}

SumsOf(d, h, V, part) == \A v \in V : d[v] = SumOf(h, part[v])

(* Terms summed by their keys.                                             *)
LEMMA SumByKey ==
  ASSUME NEW K, IsFiniteSet(K), NEW h, Ints(h, K), NEW key, NEW V, IsFiniteSet(V),
         NEW part, NEW W, Keyed(K, key, V, part, W),
         NEW d, SumsOf(d, h, V, part)
  PROVE  Ints(d, V) /\ SumOf(d, V) = SumOf(h, W)
<1> DEFINE total == [v \in V |-> SumOf([k \in W |-> IF key[k] = v THEN h[k] ELSE 0], W)]
<1>1. IsFiniteSet(W) /\ Ints(h, W) /\ \A k \in W : key[k] \in V
  <2>1. W \subseteq K /\ \A k \in W : key[k] \in V
    BY DEF Keyed
  <2>2. IsFiniteSet(W)
    BY <2>1, FS_Subset
  <2> QED BY <2>1, <2>2 DEF Ints
<1>2. SumOf(total, V) = SumOf(h, W)
  BY <1>1, SumByOwner
<1>3. ASSUME NEW v \in V
      PROVE  d[v] = total[v] /\ d[v] \in Int
  <2> DEFINE U == {k \in W : key[k] = v}
  <2>1. U = part[v]
    BY DEF Keyed
  <2>2. SumOf(h, U) = SumOf(Owned(h, W, key, v), W)
    BY <1>1, SumOwned
  <2>3. Owned(h, W, key, v) = [k \in W |-> IF key[k] = v THEN h[k] ELSE 0]
    BY DEF Owned
  <2>4. SumOf(h, U) \in Int
    <3>1. IsFiniteSet(U) /\ Ints(h, U)
      <4>1. IsFiniteSet(U)
        BY <1>1, FS_Subset
      <4> QED BY <1>1, <4>1 DEF Ints
    <3> HIDE DEF U
    <3> QED BY <3>1, SumInt
  <2>5. total[v] = SumOf(h, U)
    BY <2>2, <2>3
  <2>6. d[v] = SumOf(h, part[v])
    BY DEF SumsOf
  <2> HIDE DEF U, total
  <2> QED BY <2>1, <2>4, <2>5, <2>6
<1> HIDE DEF total
<1>4. Ints(d, V)
  BY <1>3 DEF Ints
<1>5. SumOf(d, V) = SumOf(total, V)
  BY <1>3, <1>4, SumSame
<1> QED BY <1>2, <1>4, <1>5
=============================================================================
