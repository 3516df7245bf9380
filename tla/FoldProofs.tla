----------------------------- MODULE FoldProofs -----------------------------
(***************************************************************************)
(* Folds over finite sets and sequences: that they are defined, and that what *)
(* each step keeps the result has.  The library's operators define a fold as a *)
(* recursive function, which is a CHOOSE: its equations have to be proved. *)
(*                                                                         *)
(* The induction is over cardinalities and written out: the library states it *)
(* for operators, and the least number of a set comes from the pigeonhole  *)
(* theorem.                                                                *)
(***************************************************************************)
EXTENDS Integers, FiniteSets, Sequences, FiniteSetsExt, Functions, FunctionTheorems,
        FiniteSetTheorems, TLAPS
LEMMA LeastNumber ==
  ASSUME NEW S \in SUBSET Nat, S # {}
  PROVE  \E m \in S : \A k \in S : m <= k
<1> SUFFICES ASSUME \A m \in S : \E k \in S : k < m
             PROVE  FALSE
  OBVIOUS
<1> DEFINE Below == {k \in Nat : \A m \in S : k < m}
           next == [k \in Below |-> k + 1]
<1>1. PICK n \in S : TRUE
  OBVIOUS
<1>2. Below \in SUBSET Nat /\ \A k \in Below : k <= n
  OBVIOUS
<1>3. IsFiniteSet(Below)
  BY <1>1, <1>2, FS_BoundedSetOfNaturals
<1>4. 0 \in Below
  OBVIOUS
<1>5. \A k \in Below : k + 1 \in Below \ {0}
  OBVIOUS
<1>6. next \in [Below -> Below \ {0}]
  BY <1>5
<1>7. /\ IsFiniteSet(Below \ {0})
      /\ Cardinality(Below \ {0}) = Cardinality(Below) - 1
      /\ Cardinality(Below) \in Nat
  BY <1>3, <1>4, FS_RemoveElement, FS_CardinalityType
<1>8. Cardinality(Below \ {0}) < Cardinality(Below)
  BY <1>7
<1> HIDE DEF next, Below
<1>9. \E x, y \in Below : x # y /\ next[x] = next[y]
  BY <1>3, <1>6, <1>7, <1>8, FS_PigeonHole
<1>10. QED
  BY <1>2, <1>9 DEF next

LEMMA MaxOf ==
  ASSUME NEW S \in SUBSET Nat, IsFiniteSet(S), S # {}
  PROVE  Max(S) \in S /\ \A k \in S : Max(S) >= k
<1> DEFINE Above(T) == {k \in Nat : \A m \in T : m <= k}
<1> DEFINE Sizes == {n \in Nat : \E T \in SUBSET S : Cardinality(T) = n /\ T # {} /\ ~ \E m \in T : \A k \in T : k <= m}
<1>1. ASSUME Sizes # {} PROVE FALSE
  <2>1. PICK n \in Sizes : \A k \in Sizes : n <= k
    BY <1>1, LeastNumber, Sizes \in SUBSET Nat
  <2>2. PICK T \in SUBSET S :
           /\ Cardinality(T) = n /\ T # {}
           /\ ~ \E m \in T : \A k \in T : k <= m
    BY <2>1
  <2>3. PICK x \in T : TRUE
    BY <2>2
  <2>4. IsFiniteSet(T) /\ IsFiniteSet(T \ {x}) /\ Cardinality(T \ {x}) = n - 1
    BY <2>2, <2>3, FS_Subset, FS_RemoveElement
  <2>10. n - 1 \in Nat
    BY <2>4, FS_CardinalityType
  <2>5. n - 1 \notin Sizes
    BY <2>1, <2>4, <2>10
  <2>6. T \ {x} = {} \/ \E m \in T \ {x} : \A k \in T \ {x} : k <= m
    BY <2>4, <2>5, <2>10
  <2>7. T \subseteq Nat /\ x \in Nat
    BY <2>2
  <2>8. CASE T \ {x} = {}
    <3>1. \A k \in T : k <= x
      BY <2>7, <2>8
    <3>2. QED BY <3>1, <2>2, <2>3
  <2>9. CASE \E m \in T \ {x} : \A k \in T \ {x} : k <= m
    <3>1. PICK m \in T \ {x} : \A k \in T \ {x} : k <= m
      BY <2>9
    <3>2. (\A k \in T : k <= x) \/ (\A k \in T : k <= m)
      BY <3>1, <2>7
    <3>3. QED
      BY <3>1, <3>2, <2>2, <2>3
  <2> QED BY <2>6, <2>8, <2>9
<1>2. Cardinality(S) \in Nat /\ S \in SUBSET S
  BY FS_CardinalityType
<1>3. \E m \in S : \A k \in S : k <= m
  BY <1>1, <1>2
<1>4. \E m \in S : \A k \in S : m >= k
  BY <1>3
<1>5. QED
  BY <1>4 DEF Max

\* A set of subsets of a finite set that holds {} and, with all that are one
\* element smaller, each subset, holds the whole set.
LEMMA FiniteInduction ==
  ASSUME NEW D, IsFiniteSet(D), NEW Good, {} \in Good,
         \A s \in SUBSET D : s # {} /\ (\A x \in s : s \ {x} \in Good) => s \in Good
  PROVE  D \in Good
<1> DEFINE Bad == {n \in Nat : \E s \in SUBSET D : Cardinality(s) = n /\ s \notin Good}
<1>1. ASSUME NEW s \in SUBSET D
      PROVE  IsFiniteSet(s) /\ Cardinality(s) \in Nat
  BY FS_Subset, FS_CardinalityType
<1>2. ASSUME Bad # {}
      PROVE  FALSE
  <2>1. PICK n \in Bad : \A k \in Bad : n <= k
    BY <1>2, LeastNumber, Bad \in SUBSET Nat
  <2>2. PICK s \in SUBSET D : Cardinality(s) = n /\ s \notin Good
    BY <2>1
  <2>3. s # {}
    BY <2>2
  <2>4. ASSUME NEW x \in s
        PROVE  s \ {x} \in Good
    <3>1. Cardinality(s \ {x}) = n - 1 /\ s \ {x} \in SUBSET D
      BY <1>1, <2>2, FS_RemoveElement
    <3>2. n - 1 \in Nat
      BY <1>1, <3>1
    <3>3. QED
      BY <2>1, <3>1, <3>2
  <2>5. QED
    BY <2>2, <2>3, <2>4
<1>3. D \in SUBSET D /\ Cardinality(D) \in Nat
  BY <1>1
<1>4. QED
  BY <1>2, <1>3

\* it folds the subsets of D with step, from base; ch chooses what comes last.
Folds(it, D, ch, V, base, step) ==
  /\ it \in [SUBSET D -> V]
  /\ \A s \in SUBSET D :
       it[s] = IF s = {} THEN base ELSE step[<<it[s \ {ch[s]}], ch[s]>>]

Chooses(ch, D) ==
  /\ ch \in [(SUBSET D) \ {{}} -> D]
  /\ \A s \in SUBSET D : s # {} => ch[s] \in s

\* A fold of finitely many elements is defined.
LEMMA FoldIsDefined ==
  ASSUME NEW D, IsFiniteSet(D), NEW ch, Chooses(ch, D),
         NEW V, NEW base \in V, NEW step \in [V \X D -> V]
  PROVE  \E it : Folds(it, D, ch, V, base, step)
<1> DEFINE Eq(it, s) == it[s] = IF s = {} THEN base ELSE step[<<it[s \ {ch[s]}], ch[s]>>]
           Defined(n) == \E it \in [SUBSET D -> V] :
                           \A s \in SUBSET D : Cardinality(s) <= n => Eq(it, s)
           Bad == {n \in Nat : ~Defined(n)}
<1>1. ASSUME NEW s \in SUBSET D
      PROVE  /\ IsFiniteSet(s) /\ Cardinality(s) \in Nat /\ Cardinality(s) <= Cardinality(D)
             /\ Cardinality(s) = 0 <=> s = {}
  BY FS_Subset, FS_CardinalityType, FS_EmptySet
<1>2. ASSUME NEW s \in SUBSET D, s # {}
      PROVE  /\ ch[s] \in s /\ ch[s] \in D /\ s \ {ch[s]} \in SUBSET D
             /\ Cardinality(s \ {ch[s]}) = Cardinality(s) - 1
  <2>1. ch[s] \in s
    BY <1>2 DEF Chooses
  <2>2. QED
    BY <1>1, <2>1, FS_RemoveElement
<1>3. Defined(0)
  <2> DEFINE it == [s \in SUBSET D |-> base]
  <2>1. it \in [SUBSET D -> V]
    OBVIOUS
  <2>2. \A s \in SUBSET D : Cardinality(s) <= 0 => Eq(it, s)
    BY <1>1
  <2> HIDE DEF it
  <2>3. QED
    BY <2>1, <2>2
<1>4. ASSUME NEW n \in Nat, Defined(n)
      PROVE  Defined(n + 1)
  <2>1. PICK it \in [SUBSET D -> V] : \A s \in SUBSET D : Cardinality(s) <= n => Eq(it, s)
    BY <1>4
  <2> DEFINE nx == [s \in SUBSET D |->
                      IF s = {} THEN base ELSE step[<<it[s \ {ch[s]}], ch[s]>>]]
  <2>2. nx \in [SUBSET D -> V]
    BY <1>2
  <2>3. \A s \in SUBSET D : Cardinality(s) <= n => nx[s] = it[s]
    BY <2>1
  <2>4. ASSUME NEW s \in SUBSET D, Cardinality(s) <= n + 1
        PROVE  Eq(nx, s)
    <3>1. CASE s = {}
      BY <3>1
    <3>2. CASE s # {}
      <4>1. Cardinality(s \ {ch[s]}) <= n /\ s \ {ch[s]} \in SUBSET D
        BY <1>1, <1>2, <2>4, <3>2
      <4>2. nx[s \ {ch[s]}] = it[s \ {ch[s]}]
        BY <4>1, <2>3
      <4>3. nx[s] = step[<<it[s \ {ch[s]}], ch[s]>>]
        BY <3>2
      <4> HIDE DEF nx
      <4>4. QED
        BY <4>2, <4>3, <3>2
    <3>3. QED
      BY <3>1, <3>2
  <2> HIDE DEF nx, Eq
  <2>5. QED
    BY <2>2, <2>4
<1>5. ASSUME Bad # {}
      PROVE  FALSE
  <2> HIDE DEF Defined
  <2>1. PICK m \in Bad : \A k \in Bad : m <= k
    BY <1>5, LeastNumber, Bad \in SUBSET Nat
  <2>2. m # 0 /\ m \in Nat
    BY <1>3
  <2>3. m - 1 \in Nat /\ m - 1 \notin Bad
    BY <2>1, <2>2
  <2>4. Defined((m - 1) + 1)
    BY <2>3, <1>4
  <2>5. (m - 1) + 1 = m
    BY <2>2
  <2>6. QED
    BY <2>4, <2>5
<1>6. Defined(Cardinality(D))
  <2>1. Cardinality(D) \in Nat
    BY FS_CardinalityType
  <2> HIDE DEF Defined
  <2>2. QED
    BY <1>5, <2>1
<1>7. QED
  BY <1>6, <1>1 DEF Folds

-----------------------------------------------------------------------------
(***************************************************************************)
(* The folds of a sequence, which take the largest index last.             *)
(***************************************************************************)
LEMMA ChoosesLast ==
  ASSUME NEW D \in SUBSET Nat, IsFiniteSet(D)
  PROVE  Chooses([s \in (SUBSET D) \ {{}} |-> Max(s)], D)
<1>1. ASSUME NEW s \in SUBSET D, s # {}
      PROVE  Max(s) \in s
  BY <1>1, MaxOf, FS_Subset
<1>2. QED
  BY <1>1 DEF Chooses

IsFold(it, D, V, base, step) ==
  /\ it \in [SUBSET D -> V]
  /\ \A s \in SUBSET D :
       it[s] = IF s = {} THEN base ELSE step[<<it[s \ {Max(s)}], Max(s)>>]

LEMMA FoldExists ==
  ASSUME NEW D, D \in SUBSET Nat, IsFiniteSet(D),
         NEW V, NEW base \in V, NEW step \in [V \X D -> V]
  PROVE  \E it : IsFold(it, D, V, base, step)
<1> DEFINE last == [s \in (SUBSET D) \ {{}} |-> Max(s)]
<1>1. \A s \in SUBSET D : s # {} => last[s] = Max(s)
  OBVIOUS
<1>2. Chooses(last, D)
  BY ChoosesLast
<1> HIDE DEF last
<1>3. PICK it : Folds(it, D, last, V, base, step)
  BY <1>2, FoldIsDefined
<1>4. QED
  BY <1>1, <1>3 DEF Folds, IsFold

\* What each step of a fold keeps, its result has.
LEMMA FoldStays ==
  ASSUME NEW D, D \in SUBSET Nat, IsFiniteSet(D), NEW V, NEW it, it[{}] \in V,
         \A s \in SUBSET D : s # {} /\ it[s \ {Max(s)}] \in V => it[s] \in V
  PROVE  it[D] \in V
<1> DEFINE Good == {s \in SUBSET D : it[s] \in V}
<1>1. {} \in Good
  OBVIOUS
<1>2. ASSUME NEW s \in SUBSET D, s # {}, \A x \in s : s \ {x} \in Good
      PROVE  s \in Good
  BY <1>2, MaxOf, FS_Subset
<1>3. D \in Good
  <2> HIDE DEF Good
  <2>1. QED
    BY <1>1, <1>2, FiniteInduction
<1>4. QED
  BY <1>3
-----------------------------------------------------------------------------
(***************************************************************************)
(* Sums of counts.                                                         *)
(***************************************************************************)
\* One pair for each thing that is counted.
Counted(f, S) == {x \in S \X Nat : 1 <= x[2] /\ x[2] <= f[x[1]]}

\* A sum of counts is the number of the things that are counted.
LEMMA SumCounts ==
  ASSUME NEW D, IsFiniteSet(D), NEW f, \A x \in D : f[x] \in Nat
  PROVE  /\ IsFiniteSet(Counted(f, D))
         /\ SumFunctionOnSet(f, D) = Cardinality(Counted(f, D))
<1> DEFINE Any(s) == CHOOSE x \in s : TRUE
           any == [s \in (SUBSET D) \ {{}} |-> Any(s)]
           step == [x \in Nat \X D |-> f[x[2]] + x[1]]
           Adds(it) == it = [s \in SUBSET D |->
                               IF s = {} THEN 0 ELSE f[Any(s)] + it[s \ {Any(s)}]]
<1>1. \A s \in SUBSET D : s # {} => any[s] = Any(s) /\ Any(s) \in s
  OBVIOUS
<1>2. Chooses(any, D)
  BY <1>1 DEF Chooses
<1>3. step \in [Nat \X D -> Nat]
  OBVIOUS
<1> HIDE DEF any, Any
<1>4. PICK it : Folds(it, D, any, Nat, 0, step)
  BY <1>2, <1>3, FoldIsDefined, 0 \in Nat
<1>5. it \in [SUBSET D -> Nat] /\ \A s \in SUBSET D :
        it[s] = IF s = {} THEN 0 ELSE step[<<it[s \ {any[s]}], any[s]>>]
  BY <1>4 DEF Folds
<1>6. Adds(it)
  <2>1. ASSUME NEW s \in SUBSET D
        PROVE  it[s] = IF s = {} THEN 0 ELSE f[Any(s)] + it[s \ {Any(s)}]
    <3>1. CASE s = {}
      BY <1>5, <3>1
    <3>2. CASE s # {}
      <4> DEFINE r == it[s \ {any[s]}]
                 x == any[s]
      <4>1. r \in Nat /\ x \in D /\ x = Any(s)
        BY <1>1, <1>5, <3>2
      <4>2. it[s] = step[<<r, x>>]
        BY <1>5, <3>2
      <4> HIDE DEF r, x
      <4>3. step[<<r, x>>] = f[x] + r
        BY <4>1 DEF step
      <4>4. QED
        BY <3>2, <4>1, <4>2, <4>3 DEF r, x
    <3>3. QED
      BY <3>1, <3>2
  <2>2. QED
    BY <1>5, <2>1
<1> DEFINE chosen == CHOOSE g : Adds(g)
<1>7. Adds(chosen)
  <2> HIDE DEF Adds
  <2>1. QED
    BY <1>6
<1>8. SumFunctionOnSet(f, D) = chosen[D]
  BY DEF SumFunctionOnSet, FoldFunctionOnSet, MapThenFoldSet, Any
<1> HIDE DEF chosen
<1>9. \A s \in SUBSET D :
        chosen[s] = IF s = {} THEN 0 ELSE f[Any(s)] + chosen[s \ {Any(s)}]
  BY <1>7
<1> HIDE DEF Adds
<1> DEFINE Good == {s \in SUBSET D : /\ IsFiniteSet(Counted(f, s))
                                     /\ chosen[s] = Cardinality(Counted(f, s))}
<1>10. {} \in Good
  <2>1. Counted(f, {}) = {}
    BY DEF Counted
  <2>2. QED
    BY <1>9, <2>1, FS_EmptySet
<1>11. ASSUME NEW s \in SUBSET D, s # {}, \A x \in s : s \ {x} \in Good
       PROVE  s \in Good
  <2> DEFINE x == Any(s)
             new == {y \in {x} \X Nat : 1 <= y[2] /\ y[2] <= f[x]}
             old == Counted(f, s \ {x})
             pair == [i \in 1..f[x] |-> <<x, i>>]
  <2>1. x \in s /\ x \in D /\ f[x] \in Nat
    BY <1>1, <1>11
  <2>2. chosen[s] = f[x] + chosen[s \ {x}]
    BY <1>9, <1>11
  <2>3. IsFiniteSet(old) /\ chosen[s \ {x}] = Cardinality(old)
    BY <1>11, <2>1
  <2> HIDE DEF x
  <2>4. Counted(f, s) = old \cup new /\ old \cap new = {}
    BY <2>1 DEF Counted
  <2>5. IsFiniteSet(new) /\ Cardinality(new) = f[x]
    <3>1. pair \in Bijection(1..f[x], new)
      <4>1. pair \in [1..f[x] -> new]
        BY <2>1
      <4>2. \A i, j \in 1..f[x] : pair[i] = pair[j] => i = j
        OBVIOUS
      <4>3. \A y \in new : y[2] \in 1..f[x] /\ pair[y[2]] = y
        BY <2>1
      <4> HIDE DEF pair, new
      <4>4. \A y \in new : \E i \in 1..f[x] : pair[i] = y
        BY <4>3
      <4>5. QED
        BY ONLY <4>1, <4>2, <4>4, Fun_IsBij
    <3>2. IsFiniteSet(1..f[x]) /\ Cardinality(1..f[x]) = f[x]
      <4> DEFINE k == f[x]
      <4>1. k \in Nat
        BY <2>1
      <4> HIDE DEF k
      <4>2. IsFiniteSet(1..k) /\ Cardinality(1..k) = k
        <5>1. /\ 1 \in Int /\ k \in Int
              /\ (IF 1 > k THEN 0 ELSE k - 1 + 1) = k
          BY ONLY <4>1
        <5>2. IsFiniteSet(1..k) /\ Cardinality(1..k) = IF 1 > k THEN 0 ELSE k - 1 + 1
          BY ONLY <5>1, FS_Interval
        <5>3. QED
          BY ONLY <5>1, <5>2
      <4>3. QED
        BY <4>2 DEF k
    <3> HIDE DEF pair, new
    <3>3. ExistsBijection(1..f[x], new)
      BY <3>1 DEF ExistsBijection
    <3>4. QED
      BY <3>2, <3>3, FS_Bijection
  <2>6. Cardinality(Counted(f, s)) = Cardinality(old) + f[x] /\ IsFiniteSet(Counted(f, s))
    <3> HIDE DEF old, new
    <3>1. Cardinality(old \cap new) = 0
      BY <2>4, FS_EmptySet
    <3>2. QED
      BY <2>1, <2>3, <2>4, <2>5, <3>1, FS_Union, FS_CardinalityType
  <2>7. QED
    BY <2>1, <2>2, <2>3, <2>6, FS_CardinalityType
<1>12. D \in Good
  <2> HIDE DEF Good
  <2>1. QED
    BY <1>10, <1>11, FiniteInduction
<1>13. QED
  BY <1>8, <1>12
=============================================================================
