-------------------------- MODULE ComparisonProofs --------------------------
(***************************************************************************)
(* Proofs about Comparison and RunReport for any number of files, models   *)
(* and runs, and any schedules: nothing bounds how often the writers come  *)
(* between two queries.  The lemmas on sums and on lists in order come     *)
(* first, then the summary as a function of the rows that were read, then  *)
(* the inductive invariant of the reader and its writers.                  *)
(***************************************************************************)
EXTENDS RunReport, Integers, FiniteSetTheorems, SequenceTheorems, WellFoundedInduction, TLAPS

-----------------------------------------------------------------------------
(* Sums over finite sets.  Induction is over a set of numbers or of sets     *)
(* rather than a predicate, from the fact that < is well founded on Nat.     *)
LEMMA NumberInduction ==
    ASSUME NEW S, 0 \in S, \A n \in Nat : n \in S => n + 1 \in S
    PROVE  Nat \subseteq S
<1> SUFFICES ASSUME Nat \ S # {} PROVE FALSE
  OBVIOUS
<1>1. IsWellFoundedOn(OpToRel(<, Nat), Nat)
  BY NatLessThanWellFounded
<1>2. PICK x \in Nat \ S : \A y \in Nat \ S : ~(<<y, x>> \in OpToRel(<, Nat))
  BY <1>1, WFMin
<1>3. \A y \in Nat \ S : ~(y < x)
  BY <1>2 DEF OpToRel
<1>4. x = 0 \/ (x - 1 \in Nat /\ x - 1 < x)
  OBVIOUS
<1> QED BY <1>3, <1>4

LEMMA SubsetInduction ==
    ASSUME NEW S, IsFiniteSet(S), NEW P, {} \in P,
           \A T \in SUBSET S : \A x \in S \ T : T \in P => T \cup {x} \in P
    PROVE  S \in P
<1> DEFINE N == {n \in Nat : \A T \in SUBSET S : Cardinality(T) = n => T \in P}
<1>1. \A T \in SUBSET S : IsFiniteSet(T) /\ Cardinality(T) \in Nat
  BY FS_Subset, FS_CardinalityType
<1>2. 0 \in N
  BY <1>1, FS_EmptySet
<1>3. ASSUME NEW n \in Nat, n \in N, NEW T \in SUBSET S, Cardinality(T) = n + 1
      PROVE  T \in P
  <2>1. T # {}
    BY <1>3, FS_EmptySet
  <2>2. PICK x \in T : TRUE
    BY <2>1
  <2>3. Cardinality(T \ {x}) = n
    <3>1. IsFiniteSet(T)
      BY <1>1
    <3>2. Cardinality(T \ {x}) = Cardinality(T) - 1
      BY <3>1, FS_RemoveElement
    <3> QED BY <1>3, <3>2
  <2>4. T \ {x} \in P
    BY <1>3, <2>3
  <2>5. (T \ {x}) \cup {x} = T
    OBVIOUS
  <2> QED BY <2>4, <2>5
<1>4. \A n \in Nat : n \in N => n + 1 \in N
  BY <1>3
<1>5. Nat \subseteq N
  <2> HIDE DEF N
  <2> QED BY <1>2, <1>4, NumberInduction
<1> QED BY <1>1, <1>5

\* The function that SumFunctionOnSet computes over the subsets of S.
IsSum(f, S, sum) ==
    sum = [s \in SUBSET S |-> IF s = {} THEN 0
                              ELSE LET x == CHOOSE x \in s : TRUE IN f[x] + sum[s \ {x}]]

LEMMA SumExists ==
    ASSUME NEW f, NEW S, IsFiniteSet(S)
    PROVE  \E sum : IsSum(f, S, sum)
<1> DEFINE First(s) == CHOOSE x \in s : TRUE
           Step(sum, s) == IF s = {} THEN 0 ELSE f[First(s)] + sum[s \ {First(s)}]
           N == {n \in Nat : \E sum : \A s \in SUBSET S : Cardinality(s) <= n => sum[s] = Step(sum, s)}
<1>1. \A s \in SUBSET S : IsFiniteSet(s) /\ Cardinality(s) \in Nat
  BY FS_Subset, FS_CardinalityType
<1>2. \A s \in SUBSET S : s # {} => /\ First(s) \in s
                                    /\ s \ {First(s)} \in SUBSET S
                                    /\ Cardinality(s \ {First(s)}) = Cardinality(s) - 1
  BY <1>1, FS_RemoveElement
<1> HIDE DEF First
<1>3. 0 \in N
  <2> DEFINE zero == [s \in SUBSET S |-> 0]
  <2>1. \A s \in SUBSET S : Cardinality(s) <= 0 => s = {}
    BY <1>1, FS_EmptySet
  <2>2. \A s \in SUBSET S : Cardinality(s) <= 0 => zero[s] = Step(zero, s)
    BY <2>1
  <2> QED BY <2>2
<1>4. ASSUME NEW n \in Nat, n \in N PROVE n + 1 \in N
  <2>1. PICK sum : \A s \in SUBSET S : Cardinality(s) <= n => sum[s] = Step(sum, s)
    BY <1>4
  <2> DEFINE next == [s \in SUBSET S |-> Step(sum, s)]
  <2>2. \A s \in SUBSET S : Cardinality(s) <= n => next[s] = sum[s]
    BY <2>1
  <2>3. ASSUME NEW s \in SUBSET S, Cardinality(s) <= n + 1 PROVE next[s] = Step(next, s)
    <3>1. CASE s = {}
      BY <3>1
    <3>2. CASE s # {}
      <4>1. s \ {First(s)} \in SUBSET S /\ Cardinality(s \ {First(s)}) <= n
        BY <1>1, <1>2, <2>3, <3>2
      <4>2. next[s \ {First(s)}] = sum[s \ {First(s)}]
        BY <2>2, <4>1
      <4> QED BY <3>2, <4>2
    <3> QED BY <3>1, <3>2
  <2>4. \A s \in SUBSET S : Cardinality(s) <= n + 1 => next[s] = Step(next, s)
    BY <2>3
  <2> HIDE DEF next, Step
  <2> QED BY <2>4
<1>5. Cardinality(S) \in N
  <2> HIDE DEF N
  <2> QED BY <1>1, <1>3, <1>4, NumberInduction
<1>6. PICK sum : \A s \in SUBSET S : Cardinality(s) <= Cardinality(S) => sum[s] = Step(sum, s)
  BY <1>5
<1>7. \A s \in SUBSET S : sum[s] = Step(sum, s)
  BY <1>6, FS_Subset
<1> DEFINE total == [s \in SUBSET S |-> sum[s]]
<1>8. total = [s \in SUBSET S |-> Step(total, s)]
  <2>1. \A s \in SUBSET S : Step(total, s) = Step(sum, s)
    BY <1>2
  <2> QED BY <1>7, <2>1
<1> QED BY <1>8 DEF IsSum, First

LEMMA SumIs ==
    ASSUME NEW f, NEW S, IsFiniteSet(S)
    PROVE  \E sum : IsSum(f, S, sum) /\ SumFunctionOnSet(f, S) = sum[S]
<1>1. SumFunctionOnSet(f, S) = (CHOOSE sum : IsSum(f, S, sum))[S]
  BY DEF SumFunctionOnSet, FoldFunctionOnSet, MapThenFoldSet, IsSum
<1>2. IsSum(f, S, CHOOSE sum : IsSum(f, S, sum))
  BY SumExists
<1> QED BY <1>1, <1>2

LEMMA SumsAgree ==
    ASSUME NEW S, IsFiniteSet(S), NEW T \in SUBSET S, NEW f, NEW g, \A x \in T : f[x] = g[x],
           NEW sumS, IsSum(f, S, sumS), NEW sumT, IsSum(g, T, sumT)
    PROVE  sumS[T] = sumT[T]
<1> DEFINE N == {n \in Nat : \A s \in SUBSET T : Cardinality(s) = n => sumS[s] = sumT[s]}
<1>1. \A s \in SUBSET T : IsFiniteSet(s) /\ Cardinality(s) \in Nat
  BY FS_Subset, FS_CardinalityType
<1>2. 0 \in N
  <2>1. \A s \in SUBSET T : Cardinality(s) = 0 => s = {}
    BY <1>1, FS_EmptySet
  <2>2. sumS[{}] = 0 /\ sumT[{}] = 0
    BY DEF IsSum
  <2> QED BY <2>1, <2>2
<1>3. ASSUME NEW n \in Nat, n \in N, NEW s \in SUBSET T, Cardinality(s) = n + 1
      PROVE  sumS[s] = sumT[s]
  <2>1. s # {}
    BY <1>1, <1>3, FS_EmptySet
  <2>2. PICK x \in s : x = CHOOSE y \in s : TRUE
    BY <2>1
  <2>3. Cardinality(s \ {x}) = n
    <3>1. IsFiniteSet(s)
      BY <1>1
    <3>2. Cardinality(s \ {x}) = Cardinality(s) - 1
      BY <3>1, FS_RemoveElement
    <3> QED BY <1>3, <3>2
  <2>4. sumS[s \ {x}] = sumT[s \ {x}]
    BY <1>3, <2>3
  <2>5. sumS[s] = f[x] + sumS[s \ {x}]
    BY <2>1, <2>2 DEF IsSum
  <2>6. sumT[s] = g[x] + sumT[s \ {x}]
    BY <2>1, <2>2 DEF IsSum
  <2> QED BY <2>4, <2>5, <2>6
<1>4. \A n \in Nat : n \in N => n + 1 \in N
  BY <1>3
<1>5. Cardinality(T) \in N
  <2> HIDE DEF N
  <2> QED BY <1>1, <1>2, <1>4, NumberInduction
<1> QED BY <1>5

(* A sum depends on the numbers that are summed, not on where else the       *)
(* function is defined.                                                      *)
LEMMA SumSame ==
    ASSUME NEW S, IsFiniteSet(S), NEW f, NEW g, \A x \in S : f[x] = g[x]
    PROVE  SumFunctionOnSet(f, S) = SumFunctionOnSet(g, S)
<1>1. PICK sumF : IsSum(f, S, sumF) /\ SumFunctionOnSet(f, S) = sumF[S]
  BY SumIs
<1>2. PICK sumG : IsSum(g, S, sumG) /\ SumFunctionOnSet(g, S) = sumG[S]
  BY SumIs
<1>3. S \in SUBSET S
  OBVIOUS
<1> QED BY <1>1, <1>2, <1>3, SumsAgree

LEMMA SumEmpty == \A f : SumFunctionOnSet(f, {}) = 0
<1> SUFFICES ASSUME NEW f PROVE SumFunctionOnSet(f, {}) = 0
  OBVIOUS
<1>1. IsFiniteSet({})
  BY FS_EmptySet
<1>2. PICK sum : IsSum(f, {}, sum) /\ SumFunctionOnSet(f, {}) = sum[{}]
  BY <1>1, SumIs
<1> QED BY <1>2 DEF IsSum

LEMMA SumFirst ==
    ASSUME NEW S, IsFiniteSet(S), S # {}, NEW f
    PROVE  \E x \in S : SumFunctionOnSet(f, S) = f[x] + SumFunctionOnSet(f, S \ {x})
<1>1. PICK x \in S : x = CHOOSE y \in S : TRUE
  OBVIOUS
<1>2. PICK sum : IsSum(f, S, sum) /\ SumFunctionOnSet(f, S) = sum[S]
  BY SumIs
<1>3. sum[S] = f[x] + sum[S \ {x}]
  BY <1>1, <1>2 DEF IsSum
<1>4. IsFiniteSet(S \ {x})
  BY FS_RemoveElement
<1>5. PICK rest : IsSum(f, S \ {x}, rest) /\ SumFunctionOnSet(f, S \ {x}) = rest[S \ {x}]
  BY <1>4, SumIs
<1>6. sum[S \ {x}] = rest[S \ {x}]
  BY <1>2, <1>5, SumsAgree
<1> QED BY <1>2, <1>3, <1>5, <1>6

LEMMA SumType ==
    ASSUME NEW S, IsFiniteSet(S), NEW f, \A x \in S : f[x] \in Nat
    PROVE  SumFunctionOnSet(f, S) \in Nat
<1> DEFINE N == {n \in Nat : \A T \in SUBSET S : Cardinality(T) = n => SumFunctionOnSet(f, T) \in Nat}
<1>1. \A T \in SUBSET S : IsFiniteSet(T) /\ Cardinality(T) \in Nat
  BY FS_Subset, FS_CardinalityType
<1>2. 0 \in N
  BY <1>1, FS_EmptySet, SumEmpty
<1>3. ASSUME NEW n \in Nat, n \in N, NEW T \in SUBSET S, Cardinality(T) = n + 1
      PROVE  SumFunctionOnSet(f, T) \in Nat
  <2>1. T # {} /\ IsFiniteSet(T)
    BY <1>1, <1>3, FS_EmptySet
  <2>2. PICK x \in T : SumFunctionOnSet(f, T) = f[x] + SumFunctionOnSet(f, T \ {x})
    BY <2>1, SumFirst
  <2>3. Cardinality(T \ {x}) = Cardinality(T) - 1
    BY <2>1, FS_RemoveElement
  <2> QED BY <1>3, <2>2, <2>3
<1>4. \A n \in Nat : n \in N => n + 1 \in N
  BY <1>3
<1>5. Cardinality(S) \in N
  <2> HIDE DEF N
  <2> QED BY <1>1, <1>2, <1>4, NumberInduction
<1> QED BY <1>5

(* The sum may start at any element: + is associative and commutative.       *)
LEMMA SumAny ==
    ASSUME NEW S, IsFiniteSet(S), NEW f, \A x \in S : f[x] \in Nat, NEW z \in S
    PROVE  SumFunctionOnSet(f, S) = f[z] + SumFunctionOnSet(f, S \ {z})
<1> DEFINE Sum(T) == SumFunctionOnSet(f, T)
           N == {n \in Nat : \A T \in SUBSET S : Cardinality(T) = n =>
                                \A y \in T : Sum(T) = f[y] + Sum(T \ {y})}
<1>1. \A T \in SUBSET S : IsFiniteSet(T) /\ Cardinality(T) \in Nat
  BY FS_Subset, FS_CardinalityType
<1>2. 0 \in N
  BY <1>1, FS_EmptySet
<1>3. ASSUME NEW n \in Nat, n \in N, NEW T \in SUBSET S, Cardinality(T) = n + 1, NEW y \in T
      PROVE  Sum(T) = f[y] + Sum(T \ {y})
  <2>1. T # {} /\ IsFiniteSet(T)
    BY <1>1, <1>3, FS_EmptySet
  <2>2. PICK x \in T : Sum(T) = f[x] + Sum(T \ {x})
    BY <2>1, SumFirst
  <2>3. CASE x = y
    BY <2>2, <2>3
  <2>4. CASE x # y
    <3>1. Cardinality(T \ {x}) = n /\ Cardinality(T \ {y}) = n
      <4>1. Cardinality(T \ {x}) = Cardinality(T) - 1 /\ Cardinality(T \ {y}) = Cardinality(T) - 1
        BY <2>1, FS_RemoveElement
      <4> QED BY <1>3, <4>1
    <3>2. /\ Sum(T \ {x}) = f[y] + Sum((T \ {x}) \ {y})
          /\ Sum(T \ {y}) = f[x] + Sum((T \ {y}) \ {x})
      BY <1>3, <2>4, <3>1
    <3>3. (T \ {x}) \ {y} = (T \ {y}) \ {x}
      OBVIOUS
    <3>4. Sum((T \ {x}) \ {y}) \in Nat /\ f[x] \in Nat /\ f[y] \in Nat
      BY <1>1, SumType
    <3> HIDE DEF Sum
    <3> QED BY <2>2, <3>2, <3>3, <3>4
  <2> QED BY <2>3, <2>4
<1>4. ASSUME NEW n \in Nat, n \in N PROVE n + 1 \in N
  <2>1. \A T \in SUBSET S : Cardinality(T) = n + 1 =>
            \A y \in T : Sum(T) = f[y] + Sum(T \ {y})
    BY <1>3, <1>4
  <2> QED BY <2>1
<1>5. Cardinality(S) \in N
  <2> HIDE DEF N
  <2> QED BY <1>1, <1>2, <1>4, NumberInduction
<1> QED BY <1>5

LEMMA DisjointCardinality ==
    ASSUME NEW A, IsFiniteSet(A), NEW B, IsFiniteSet(B), A \cap B = {}
    PROVE  IsFiniteSet(A \cup B) /\ Cardinality(A \cup B) = Cardinality(A) + Cardinality(B)
<1>1. Cardinality(A \cup B) = Cardinality(A) + Cardinality(B) - Cardinality(A \cap B)
  BY FS_Union
<1>2. Cardinality(A \cap B) = 0
  BY FS_EmptySet
<1>3. Cardinality(A) \in Nat /\ Cardinality(B) \in Nat
  BY FS_CardinalityType
<1> QED BY <1>1, <1>2, <1>3, FS_Union

(* To count a finite set, count what each key gathers and add up.            *)
LEMMA SumOfFibres ==
    ASSUME NEW I, IsFiniteSet(I), NEW K, IsFiniteSet(K), NEW key \in [I -> K],
           NEW f, \A k \in K : f[k] = Cardinality({i \in I : key[i] = k})
    PROVE  SumFunctionOnSet(f, K) = Cardinality(I)
<1> DEFINE Of(T) == {i \in I : key[i] \in T}
           N == {n \in Nat : \A T \in SUBSET K : Cardinality(T) = n =>
                                SumFunctionOnSet(f, T) = Cardinality(Of(T))}
<1>1. \A T \in SUBSET K : IsFiniteSet(T) /\ Cardinality(T) \in Nat
  BY FS_Subset, FS_CardinalityType
<1>2. 0 \in N
  <2>1. Of({}) = {}
    OBVIOUS
  <2> HIDE DEF Of
  <2> QED BY <1>1, <2>1, FS_EmptySet, SumEmpty
<1>3. ASSUME NEW n \in Nat, n \in N, NEW T \in SUBSET K, Cardinality(T) = n + 1
      PROVE  SumFunctionOnSet(f, T) = Cardinality(Of(T))
  <2>1. T # {} /\ IsFiniteSet(T)
    BY <1>1, <1>3, FS_EmptySet
  <2>2. PICK x \in T : SumFunctionOnSet(f, T) = f[x] + SumFunctionOnSet(f, T \ {x})
    BY <2>1, SumFirst
  <2>3. Cardinality(T \ {x}) = Cardinality(T) - 1
    BY <2>1, FS_RemoveElement
  <2>4. SumFunctionOnSet(f, T \ {x}) = Cardinality(Of(T \ {x}))
    BY <1>3, <2>3
  <2> DEFINE Mine == {i \in I : key[i] = x}
  <2>5. Of(T) = Mine \cup Of(T \ {x}) /\ Mine \cap Of(T \ {x}) = {}
    OBVIOUS
  <2>6. IsFiniteSet(Mine) /\ IsFiniteSet(Of(T \ {x}))
    BY FS_Subset
  <2> HIDE DEF Of
  <2>7. Cardinality(Mine) \in Nat /\ Cardinality(Of(T \ {x})) \in Nat
    BY <2>6, FS_CardinalityType
  <2>8. Cardinality(Of(T)) = Cardinality(Mine) + Cardinality(Of(T \ {x}))
    <3> HIDE DEF Mine
    <3> QED BY <2>5, <2>6, DisjointCardinality
  <2> QED BY <2>2, <2>4, <2>8
<1>4. \A n \in Nat : n \in N => n + 1 \in N
  BY <1>3
<1>5. Cardinality(K) \in N
  <2> HIDE DEF N
  <2> QED BY <1>1, <1>2, <1>4, NumberInduction
<1>6. Of(K) = I
  OBVIOUS
<1> QED BY <1>5, <1>6

-----------------------------------------------------------------------------
(* A finite set that is totally ordered can be listed in order.              *)
Total(R, S) == \A a, b \in S : a # b => <<a, b>> \in R \/ <<b, a>> \in R
Transitive(R, S) == \A a, b, c \in S : <<a, b>> \in R /\ <<b, c>> \in R => <<a, c>> \in R

Lists(list, S, R) == /\ list \in SetToSeqs(S)
                     /\ \A i, j \in DOMAIN list : i < j => <<list[i], list[j]>> \in R

LEMMA LastExists ==
    ASSUME NEW S, IsFiniteSet(S), NEW R, Total(R, S), Transitive(R, S), S # {}
    PROVE  \E z \in S : \A a \in S \ {z} : <<a, z>> \in R
<1> DEFINE P == {T \in SUBSET S : T # {} => \E z \in T : \A a \in T \ {z} : <<a, z>> \in R}
<1>1. ASSUME NEW T \in SUBSET S, NEW x \in S \ T, T \in P PROVE T \cup {x} \in P
  <2>1. CASE T = {}
    BY <2>1
  <2>2. CASE T # {}
    <3>1. PICK z \in T : \A a \in T \ {z} : <<a, z>> \in R
      BY <1>1, <2>2
    <3>2. CASE <<z, x>> \in R
      <4>1. \A a \in T : <<a, x>> \in R
        BY <3>1, <3>2 DEF Transitive
      <4>2. \A a \in (T \cup {x}) \ {x} : <<a, x>> \in R
        BY <4>1
      <4> QED BY <4>2
    <3>3. CASE <<x, z>> \in R
      <4>1. \A a \in (T \cup {x}) \ {z} : <<a, z>> \in R
        BY <3>1, <3>3
      <4>2. \E y \in T \cup {x} : \A a \in (T \cup {x}) \ {y} : <<a, y>> \in R
        BY <4>1
      <4> QED BY <4>2
    <3> QED BY <1>1, <3>2, <3>3 DEF Total
  <2> QED BY <2>1, <2>2
<1>2. {} \in P
  OBVIOUS
<1>3. S \in P
  <2> HIDE DEF P
  <2> QED BY <1>1, <1>2, SubsetInduction
<1> QED BY <1>3

LEMMA ListExists ==
    ASSUME NEW S, IsFiniteSet(S), NEW R, Total(R, S), Transitive(R, S)
    PROVE  \E list : Lists(list, S, R)
<1> DEFINE N == {n \in Nat : \A T \in SUBSET S : Cardinality(T) = n => \E list : Lists(list, T, R)}
<1>1. \A T \in SUBSET S : IsFiniteSet(T) /\ Cardinality(T) \in Nat
  BY FS_Subset, FS_CardinalityType
<1>2. 0 \in N
  <2> SUFFICES ASSUME NEW T \in SUBSET S, Cardinality(T) = 0 PROVE \E list : Lists(list, T, R)
    OBVIOUS
  <2>1. 1 .. Cardinality(T) = {}
    OBVIOUS
  <2> DEFINE none == [i \in 1 .. Cardinality(T) |-> i]
  <2>2. DOMAIN none = {} /\ none \in [1 .. Cardinality(T) -> T]
    BY <2>1
  <2>3. Lists(none, T, R)
    BY <2>2 DEF Lists, SetToSeqs
  <2> QED BY <2>3
<1>3. ASSUME NEW n \in Nat, n \in N, NEW T \in SUBSET S, Cardinality(T) = n + 1
      PROVE  \E list : Lists(list, T, R)
  <2>1. T # {} /\ IsFiniteSet(T)
    BY <1>1, <1>3, FS_EmptySet
  <2>2. Total(R, T) /\ Transitive(R, T)
    BY DEF Total, Transitive
  <2>3. PICK z \in T : \A a \in T \ {z} : <<a, z>> \in R
    BY <2>1, <2>2, LastExists
  <2>4. Cardinality(T \ {z}) = n
    <3>1. Cardinality(T \ {z}) = Cardinality(T) - 1
      BY <2>1, FS_RemoveElement
    <3> QED BY <1>3, <3>1
  <2>5. PICK rest : Lists(rest, T \ {z}, R)
    BY <1>3, <2>4
  <2>6. /\ rest \in [1 .. n -> T \ {z}]
        /\ \A i, j \in 1 .. n : i # j => rest[i] # rest[j]
        /\ \A i, j \in 1 .. n : i < j => <<rest[i], rest[j]>> \in R
    BY <2>4, <2>5 DEF Lists, SetToSeqs
  <2> DEFINE list == [i \in 1 .. n + 1 |-> IF i = n + 1 THEN z ELSE rest[i]]
  <2>7. \A i \in 1 .. n + 1 : i = n + 1 \/ i \in 1 .. n
    OBVIOUS
  <2>8. list[n + 1] = z /\ \A i \in 1 .. n : list[i] = rest[i] /\ list[i] # z /\ list[i] \in T \ {z}
    BY <2>6
  <2>9. list \in [1 .. n + 1 -> T]
    BY <2>6, <2>7
  <2> HIDE DEF list
  <2>10. \A i, j \in 1 .. n + 1 : i # j => list[i] # list[j]
    BY <2>6, <2>7, <2>8
  <2>11. ASSUME NEW i \in 1 .. n + 1, NEW j \in 1 .. n + 1, i < j
         PROVE  <<list[i], list[j]>> \in R
    <3>1. i \in 1 .. n
      BY <2>11
    <3>2. CASE j = n + 1
      BY <2>3, <2>8, <3>1, <3>2
    <3>3. CASE j \in 1 .. n
      BY <2>6, <2>8, <2>11, <3>1, <3>3
    <3> QED BY <2>7, <3>2, <3>3
  <2>12. DOMAIN list = 1 .. n + 1
    BY <2>9
  <2> QED BY <1>3, <2>9, <2>10, <2>11, <2>12 DEF Lists, SetToSeqs
<1>4. ASSUME NEW n \in Nat, n \in N PROVE n + 1 \in N
  BY <1>3, <1>4
<1>5. Cardinality(S) \in N
  <2> HIDE DEF N
  <2> QED BY <1>1, <1>2, <1>4, NumberInduction
<1> QED BY <1>5

(* Such a list holds every element.                                          *)
LEMMA ListCovers ==
    ASSUME NEW S, IsFiniteSet(S), NEW list \in SetToSeqs(S)
    PROVE  /\ DOMAIN list = 1 .. Cardinality(S)
           /\ Cardinality(S) \in Nat
           /\ \A i \in DOMAIN list : list[i] \in S
           /\ \A i, j \in DOMAIN list : list[i] = list[j] => i = j
           /\ \A a \in S : \E i \in DOMAIN list : list[i] = a
<1> DEFINE n == Cardinality(S)
<1>1. n \in Nat
  BY FS_CardinalityType
<1>2. list \in [1 .. n -> S] /\ \A i, j \in 1 .. n : i # j => list[i] # list[j]
  BY DEF SetToSeqs
<1>3. list \in Injection(1 .. n, S)
  BY <1>2 DEF Injection, IsInjective
<1>4. Cardinality(1 .. n) = n
  <2> HIDE DEF n
  <2> QED BY <1>1, FS_Interval
<1>5. list \in Surjection(1 .. n, S)
  <2> HIDE DEF n
  <2>1. Cardinality(1 .. n) = Cardinality(S)
    BY <1>4 DEF n
  <2> QED BY <1>3, <2>1, FS_Injection
<1> QED BY <1>1, <1>2, <1>5 DEF Surjection

-----------------------------------------------------------------------------
(* The numbers of the comparison, of any rows.                               *)
LEMMA ImageFinite ==
    ASSUME NEW S, IsFiniteSet(S), NEW T, NEW f \in [S -> T], \A t \in T : \E s \in S : f[s] = t
    PROVE  IsFiniteSet(T)
<1>1. f \in Surjection(S, T)
  BY DEF Surjection
<1> QED BY <1>1, FS_Surjection

LEMMA Positions ==
    ASSUME NEW rows \in Seq(Rows)
    PROVE  /\ DOMAIN rows = 1 .. Len(rows) /\ Len(rows) \in Nat
           /\ IsFiniteSet(DOMAIN rows)
           /\ \A S \in SUBSET DOMAIN rows : IsFiniteSet(S) /\ Cardinality(S) \in Nat
           /\ \A i \in DOMAIN rows : /\ rows[i].task \in Tasks
                                     /\ rows[i].model \in Models
                                     /\ rows[i].outcome \in Outcomes
<1>1. DOMAIN rows = 1 .. Len(rows) /\ Len(rows) \in Nat
  OBVIOUS
<1>2. IsFiniteSet(DOMAIN rows)
  BY <1>1, FS_Interval
<1>3. \A S \in SUBSET DOMAIN rows : IsFiniteSet(S) /\ Cardinality(S) \in Nat
  BY <1>2, FS_Subset, FS_CardinalityType
<1>4. \A i \in DOMAIN rows : rows[i] \in Rows
  OBVIOUS
<1> QED BY <1>1, <1>2, <1>3, <1>4 DEF Rows

LEMMA GradedIs ==
    ASSUME NEW rows, NEW model
    PROVE  Graded(rows, model) = {i \in DOMAIN rows : rows[i].model = model /\ rows[i].outcome # "fault"}
BY DEF Graded, Where

\* The models that have rows.
ModelsOf(rows) == {rows[i].model : i \in DOMAIN rows}

\* What the summary says of a model.
Summarises(e, rows, m) ==
    LET mine == {i \in DOMAIN rows : rows[i].model = m}
    IN  /\ m \in Models
        /\ e.model = m
        /\ e.total = Cardinality(mine) /\ e.total \in Nat
        /\ e.graded = Cardinality(Graded(rows, m)) /\ e.graded \in Nat
        /\ e.faults = e.total - e.graded
        /\ e.passed = Cardinality(Passed(rows, Graded(rows, m))) /\ e.passed \in Nat
        /\ e.passed <= e.graded
        /\ e.complete \in BOOLEAN
        /\ e.complete <=> Cardinality(TasksOf(rows, Graded(rows, m)))
                              = Cardinality(TasksOf(rows, DOMAIN rows))

LEMMA EntryFields ==
    ASSUME NEW rows \in Seq(Rows), NEW m \in ModelsOf(rows)
    PROVE  Summarises(Entry(rows, m), rows, m)
<1>1. m \in Models
  BY Positions DEF ModelsOf
<1>2. Graded(rows, m) \in SUBSET DOMAIN rows
  BY GradedIs
<1>3. Passed(rows, Graded(rows, m)) \in SUBSET Graded(rows, m)
  BY DEF Passed
<1>4. /\ Cardinality(Graded(rows, m)) \in Nat /\ IsFiniteSet(Graded(rows, m))
      /\ Cardinality(Passed(rows, Graded(rows, m))) \in Nat
      /\ Cardinality({i \in DOMAIN rows : rows[i].model = m}) \in Nat
  BY <1>2, <1>3, Positions
<1>5. Cardinality(Passed(rows, Graded(rows, m))) <= Cardinality(Graded(rows, m))
  BY <1>3, <1>4, FS_Subset
<1> QED BY <1>1, <1>4, <1>5 DEF Entry, Where, Summarises

LEMMA EntriesAre ==
    ASSUME NEW rows \in Seq(Rows)
    PROVE  /\ \A m \in ModelsOf(rows) : Entry(rows, m) \in Entries(rows) /\ Entry(rows, m).model = m
           /\ \A e \in Entries(rows) : e.model \in ModelsOf(rows) /\ e = Entry(rows, e.model)
           /\ \A i \in DOMAIN rows : rows[i].model \in ModelsOf(rows)
           /\ IsFiniteSet(Entries(rows))
<1>1. \A m \in ModelsOf(rows) : Entry(rows, m) \in Entries(rows) /\ Entry(rows, m).model = m
  BY EntryFields DEF Entries, ModelsOf, Summarises
<1>2. \A e \in Entries(rows) : e.model \in ModelsOf(rows) /\ e = Entry(rows, e.model)
  <2> SUFFICES ASSUME NEW e \in Entries(rows)
               PROVE  e.model \in ModelsOf(rows) /\ e = Entry(rows, e.model)
    OBVIOUS
  <2>1. PICK m \in ModelsOf(rows) : e = Entry(rows, m)
    BY DEF Entries, ModelsOf
  <2> QED BY <1>1, <2>1
<1>3. \A i \in DOMAIN rows : rows[i].model \in ModelsOf(rows)
  BY DEF ModelsOf
<1>4. IsFiniteSet(Entries(rows))
  <2> DEFINE of == [i \in DOMAIN rows |-> Entry(rows, rows[i].model)]
  <2>1. of \in [DOMAIN rows -> Entries(rows)]
    BY <1>1, <1>3
  <2>2. \A e \in Entries(rows) : \E i \in DOMAIN rows : of[i] = e
    BY DEF Entries
  <2>3. IsFiniteSet(DOMAIN rows)
    BY Positions
  <2> HIDE DEF of
  <2> QED BY <2>1, <2>2, <2>3, ImageFinite
<1> QED BY <1>1, <1>2, <1>3, <1>4

LEMMA EntryIs ==
    ASSUME NEW rows \in Seq(Rows), NEW e \in Entries(rows)
    PROVE  Summarises(e, rows, e.model)
<1>1. PICK m \in ModelsOf(rows) : m = e.model /\ e = Entry(rows, m)
  BY EntriesAre
<1>2. Summarises(e, rows, m)
  BY <1>1, EntryFields
<1> QED BY <1>1, <1>2

LEMMA TasksAre ==
    ASSUME NEW rows \in Seq(Rows)
    PROVE  /\ IsFiniteSet(TasksOf(rows, DOMAIN rows))
           /\ IsFiniteSet(SuitesOf(rows))
           /\ \A S \in SUBSET DOMAIN rows : TasksOf(rows, S) \subseteq TasksOf(rows, DOMAIN rows)
           /\ \A i \in DOMAIN rows : /\ rows[i].task \in TasksOf(rows, DOMAIN rows)
                                     /\ SuiteOf[rows[i].task] \in SuitesOf(rows)
<1>1. IsFiniteSet(DOMAIN rows)
  BY Positions
<1>2. \A i \in DOMAIN rows : rows[i].task \in TasksOf(rows, DOMAIN rows)
  BY DEF TasksOf
<1>3. \A i \in DOMAIN rows : SuiteOf[rows[i].task] \in SuitesOf(rows)
  BY <1>2 DEF SuitesOf
<1>4. IsFiniteSet(TasksOf(rows, DOMAIN rows))
  <2> DEFINE of == [i \in DOMAIN rows |-> rows[i].task]
  <2>1. of \in [DOMAIN rows -> TasksOf(rows, DOMAIN rows)]
    BY <1>2
  <2>2. \A t \in TasksOf(rows, DOMAIN rows) : \E i \in DOMAIN rows : of[i] = t
    BY DEF TasksOf
  <2> HIDE DEF of
  <2> QED BY <1>1, <2>1, <2>2, ImageFinite
<1>5. IsFiniteSet(SuitesOf(rows))
  <2> DEFINE of == [t \in TasksOf(rows, DOMAIN rows) |-> SuiteOf[t]]
  <2>1. of \in [TasksOf(rows, DOMAIN rows) -> SuitesOf(rows)]
    BY DEF SuitesOf
  <2>2. \A s \in SuitesOf(rows) : \E t \in TasksOf(rows, DOMAIN rows) : of[t] = s
    BY DEF SuitesOf
  <2> HIDE DEF of
  <2> QED BY <1>4, <2>1, <2>2, ImageFinite
<1>6. \A S \in SUBSET DOMAIN rows : TasksOf(rows, S) \subseteq TasksOf(rows, DOMAIN rows)
  BY DEF TasksOf
<1> QED BY <1>2, <1>3, <1>4, <1>5, <1>6

(* Over the suites, the cells of a model count a set of its rows once.       *)
LEMMA SuitesAddUp ==
    ASSUME NEW rows \in Seq(Rows), NEW picked \in SUBSET DOMAIN rows, NEW f,
           \A s \in SuitesOf(rows) : f[s] = Cardinality({i \in picked : SuiteOf[rows[i].task] = s}),
           DOMAIN f = SuitesOf(rows)
    PROVE  SumFunction(f) = Cardinality(picked)
<1> DEFINE key == [i \in picked |-> SuiteOf[rows[i].task]]
<1>1. key \in [picked -> SuitesOf(rows)]
  BY TasksAre
<1>2. \A s \in SuitesOf(rows) : f[s] = Cardinality({i \in picked : key[i] = s})
  <2>1. \A s : {i \in picked : key[i] = s} = {i \in picked : SuiteOf[rows[i].task] = s}
    OBVIOUS
  <2> HIDE DEF key
  <2> QED BY <2>1
<1>3. IsFiniteSet(picked) /\ IsFiniteSet(SuitesOf(rows))
  BY Positions, TasksAre
<1> HIDE DEF key
<1>4. SumFunctionOnSet(f, SuitesOf(rows)) = Cardinality(picked)
  BY <1>1, <1>2, <1>3, SumOfFibres
<1> QED BY <1>4 DEF SumFunction

\* The rows without a fault.
Sound(rows) == {i \in DOMAIN rows : rows[i].outcome # "fault"}

LEMMA TasksAddUp ==
    ASSUME NEW rows \in Seq(Rows)
    PROVE  SumFunction([t \in TasksOf(rows, DOMAIN rows) |-> TaskCell(rows, t).n])
               = Cardinality(Sound(rows))
<1> DEFINE all == TasksOf(rows, DOMAIN rows)
           f == [t \in all |-> TaskCell(rows, t).n]
           key == [i \in Sound(rows) |-> rows[i].task]
<1>1. key \in [Sound(rows) -> all]
  BY TasksAre DEF Sound
<1>2. \A t \in all : f[t] = Cardinality({i \in Sound(rows) : key[i] = t})
  <2>1. \A t : {i \in Sound(rows) : key[i] = t}
                  = {i \in DOMAIN rows : rows[i].task = t /\ rows[i].outcome # "fault"}
    BY DEF Sound
  <2>2. \A t \in all : f[t] = Cardinality({i \in DOMAIN rows : rows[i].task = t /\ rows[i].outcome # "fault"})
    BY DEF TaskCell, Where
  <2> HIDE DEF key, f
  <2> QED BY <2>1, <2>2
<1>3. IsFiniteSet(Sound(rows)) /\ IsFiniteSet(all)
  BY Positions, TasksAre DEF Sound
<1>4. DOMAIN f = all
  OBVIOUS
<1>5. SumFunctionOnSet(f, all) = Cardinality(Sound(rows))
  <2> HIDE DEF key, f, all
  <2> QED BY <1>1, <1>2, <1>3, SumOfFibres
<1> HIDE DEF f
<1> QED BY <1>4, <1>5 DEF SumFunction, f

(* Over the models, a set of rows without faults is counted once.            *)
LEMMA EntriesAddUp ==
    ASSUME NEW rows \in Seq(Rows), NEW picked \in SUBSET Sound(rows), NEW f,
           \A e \in Entries(rows) : f[e] = Cardinality({i \in picked : rows[i].model = e.model}),
           DOMAIN f = Entries(rows)
    PROVE  SumFunction(f) = Cardinality(picked)
<1> DEFINE key == [i \in picked |-> Entry(rows, rows[i].model)]
<1>1. key \in [picked -> Entries(rows)]
  BY EntriesAre DEF Sound
<1>2. \A e \in Entries(rows) : f[e] = Cardinality({i \in picked : key[i] = e})
  <2>1. \A e \in Entries(rows) : \A i \in picked : Entry(rows, rows[i].model) = e <=> rows[i].model = e.model
    BY EntriesAre DEF Sound
  <2>2. \A e \in Entries(rows) : {i \in picked : key[i] = e} = {i \in picked : rows[i].model = e.model}
    BY <2>1
  <2> HIDE DEF key
  <2> QED BY <2>2
<1>3. IsFiniteSet(picked) /\ IsFiniteSet(Entries(rows))
  BY Positions, EntriesAre DEF Sound
<1> HIDE DEF key
<1>4. SumFunctionOnSet(f, Entries(rows)) = Cardinality(picked)
  BY <1>1, <1>2, <1>3, SumOfFibres
<1> QED BY <1>4 DEF SumFunction

LEMMA Reconciled ==
    ASSUME got \in Seq(Rows)
    PROVE  NumbersReconcile
<1>1. ASSUME NEW e \in Entries(got)
      PROVE  LET cells == [s \in SuitesOf(got) |-> SuiteCell(got, e.model, s)]
             IN  /\ SumFunction([s \in SuitesOf(got) |-> cells[s].attempts]) = e.graded
                 /\ SumFunction([s \in SuitesOf(got) |-> cells[s].passed]) = e.passed
                 /\ e.passed <= e.graded
  <2> DEFINE graded == Graded(got, e.model)
             passed == Passed(got, graded)
             cells == [s \in SuitesOf(got) |-> SuiteCell(got, e.model, s)]
             attempts == [s \in SuitesOf(got) |-> cells[s].attempts]
             passes == [s \in SuitesOf(got) |-> cells[s].passed]
  <2>1. /\ e.graded = Cardinality(graded) /\ e.passed = Cardinality(passed)
        /\ e.passed <= e.graded
    BY EntryIs DEF Summarises
  <2>2. graded \in SUBSET DOMAIN got /\ passed \in SUBSET DOMAIN got
    BY GradedIs DEF Passed
  <2>3. SumFunction(attempts) = Cardinality(graded)
    <3>1. \A s \in SuitesOf(got) :
            attempts[s] = Cardinality({i \in graded : SuiteOf[got[i].task] = s})
      BY DEF SuiteCell
    <3>2. DOMAIN attempts = SuitesOf(got)
      OBVIOUS
    <3> HIDE DEF attempts, graded
    <3> QED BY <2>2, <3>1, <3>2, SuitesAddUp
  <2>4. SumFunction(passes) = Cardinality(passed)
    <3>1. \A s \in SuitesOf(got) :
            passes[s] = Cardinality({i \in passed : SuiteOf[got[i].task] = s})
      <4>1. \A s : Passed(got, {i \in graded : SuiteOf[got[i].task] = s})
                     = {i \in passed : SuiteOf[got[i].task] = s}
        BY DEF Passed
      <4>2. \A s \in SuitesOf(got) :
              passes[s] = Cardinality(Passed(got, {i \in graded : SuiteOf[got[i].task] = s}))
        BY DEF SuiteCell
      <4> HIDE DEF passes, passed, graded
      <4> QED BY <4>1, <4>2
    <3>2. DOMAIN passes = SuitesOf(got)
      OBVIOUS
    <3> HIDE DEF passes, passed
    <3> QED BY <2>2, <3>1, <3>2, SuitesAddUp
  <2> QED BY <2>1, <2>3, <2>4
<1>2. SumFunction([t \in TasksOf(got, DOMAIN got) |-> TaskCell(got, t).n])
          = SumFunction([e \in Entries(got) |-> e.graded])
  <2> DEFINE f == [e \in Entries(got) |-> e.graded]
  <2>1. \A e \in Entries(got) : f[e] = Cardinality({i \in Sound(got) : got[i].model = e.model})
    <3> SUFFICES ASSUME NEW e \in Entries(got)
                 PROVE  e.graded = Cardinality({i \in Sound(got) : got[i].model = e.model})
      OBVIOUS
    <3>1. Graded(got, e.model) = {i \in Sound(got) : got[i].model = e.model}
      BY GradedIs DEF Sound
    <3>2. e.graded = Cardinality(Graded(got, e.model))
      BY EntryIs DEF Summarises
    <3> QED BY <3>1, <3>2
  <2>2. DOMAIN f = Entries(got)
    OBVIOUS
  <2>3. SumFunction(f) = Cardinality(Sound(got))
    <3> HIDE DEF f
    <3> QED BY <2>1, <2>2, EntriesAddUp
  <2> QED BY <2>3, TasksAddUp
<1> QED BY <1>1, <1>2 DEF NumbersReconcile

-----------------------------------------------------------------------------
(* The reports of the single runs cut the rows that were read into chunks.   *)

\* The rows that came before the i-th chunk, of chunks of these lengths.
Before(lengths, i) == SumFunctionOnSet(lengths, 1 .. i - 1)

LEMMA BeforeNext ==
    ASSUME NEW n \in Nat, NEW lengths, \A j \in 1 .. n : lengths[j] \in Nat
    PROVE  /\ Before(lengths, 1) = 0
           /\ \A i \in 1 .. n + 1 : Before(lengths, i) \in Nat
           /\ \A i \in 1 .. n : Before(lengths, i + 1) = Before(lengths, i) + lengths[i]
<1>1. Before(lengths, 1) = 0
  <2>1. 1 .. 1 - 1 = {}
    OBVIOUS
  <2> QED BY <2>1, SumEmpty DEF Before
<1>2. \A i \in 1 .. n + 1 : IsFiniteSet(1 .. i - 1) /\ 1 .. i - 1 \subseteq 1 .. n
  BY FS_Interval
<1>3. \A i \in 1 .. n + 1 : Before(lengths, i) \in Nat
  <2> SUFFICES ASSUME NEW i \in 1 .. n + 1 PROVE Before(lengths, i) \in Nat
    OBVIOUS
  <2>1. \A j \in 1 .. i - 1 : lengths[j] \in Nat
    BY <1>2
  <2> QED BY <1>2, <2>1, SumType DEF Before
<1>4. ASSUME NEW i \in 1 .. n
      PROVE  Before(lengths, i + 1) = Before(lengths, i) + lengths[i]
  <2>1. IsFiniteSet(1 .. i) /\ i \in 1 .. i /\ \A j \in 1 .. i : lengths[j] \in Nat
    BY FS_Interval
  <2>2. SumFunctionOnSet(lengths, 1 .. i)
            = lengths[i] + SumFunctionOnSet(lengths, (1 .. i) \ {i})
    BY <2>1, SumAny
  <2>3. (1 .. i) \ {i} = 1 .. i - 1 /\ 1 .. (i + 1) - 1 = 1 .. i
    OBVIOUS
  <2>4. Before(lengths, i) \in Nat /\ lengths[i] \in Nat
    BY <1>3
  <2>5. Before(lengths, i + 1) = SumFunctionOnSet(lengths, 1 .. i)
    BY <2>3 DEF Before
  <2>6. Before(lengths, i) = SumFunctionOnSet(lengths, (1 .. i) \ {i})
    BY <2>3 DEF Before
  <2> QED BY <2>2, <2>4, <2>5, <2>6
<1> QED BY <1>1, <1>3, <1>4

LEMMA ChunksAddUp ==
    ASSUME NEW n \in Nat, NEW lengths, \A j \in 1 .. n : lengths[j] \in Nat, NEW picked, NEW f,
           \A i \in 1 .. n :
              f[i] = Cardinality(picked \cap (Before(lengths, i) + 1 .. Before(lengths, i) + lengths[i]))
    PROVE  SumFunctionOnSet(f, 1 .. n) = Cardinality(picked \cap (1 .. Before(lengths, n + 1)))
<1> DEFINE To(i) == Before(lengths, i)
           Chunk(i) == picked \cap (To(i) + 1 .. To(i) + lengths[i])
           Upto(i) == picked \cap (1 .. To(i + 1))
           N == {i \in Nat : i <= n => SumFunctionOnSet(f, 1 .. i) = Cardinality(Upto(i))}
<1>1. To(1) = 0 /\ \A i \in 1 .. n + 1 : To(i) \in Nat
  BY BeforeNext
<1>2. \A i \in 1 .. n : To(i + 1) = To(i) + lengths[i] /\ lengths[i] \in Nat
  BY BeforeNext
<1>3. \A i \in 1 .. n : f[i] = Cardinality(Chunk(i))
  OBVIOUS
<1> HIDE DEF To
<1>4. 0 \in N
  <2>1. Upto(0) = {}
    BY <1>1
  <2>2. 1 .. 0 = {}
    OBVIOUS
  <2> QED BY <2>1, <2>2, SumEmpty, FS_EmptySet
<1>5. ASSUME NEW i \in Nat, i \in N, i + 1 <= n
      PROVE  SumFunctionOnSet(f, 1 .. i + 1) = Cardinality(Upto(i + 1))
  <2>1. i + 1 \in 1 .. n /\ i <= n
    BY <1>5
  <2>2. IsFiniteSet(1 .. i + 1) /\ i + 1 \in 1 .. i + 1 /\ (1 .. i + 1) \ {i + 1} = 1 .. i
    <3>1. 1 \in Int /\ i + 1 \in Int
      OBVIOUS
    <3>2. IsFiniteSet(1 .. i + 1)
      BY <3>1, FS_Interval
    <3> QED BY <3>2
  <2>3. \A j \in 1 .. n : IsFiniteSet(Chunk(j)) /\ Cardinality(Chunk(j)) \in Nat
    <3> SUFFICES ASSUME NEW j \in 1 .. n PROVE IsFiniteSet(Chunk(j)) /\ Cardinality(Chunk(j)) \in Nat
      OBVIOUS
    <3>1. To(j) \in Nat /\ lengths[j] \in Nat
      BY <1>1, <1>2
    <3>2. To(j) + 1 \in Int /\ To(j) + lengths[j] \in Int
      BY <3>1
    <3>3. IsFiniteSet(To(j) + 1 .. To(j) + lengths[j])
      BY <3>2, FS_Interval
    <3>4. Chunk(j) \in SUBSET (To(j) + 1 .. To(j) + lengths[j])
      OBVIOUS
    <3>5. IsFiniteSet(Chunk(j))
      BY <3>3, <3>4, FS_Subset
    <3> QED BY <3>5, FS_CardinalityType
  <2>4. \A j \in 1 .. i + 1 : f[j] \in Nat
    <3>1. \A j \in 1 .. i + 1 : j \in 1 .. n
      BY <2>1
    <3> HIDE DEF Chunk
    <3> QED BY <1>3, <2>3, <3>1
  <2>5. SumFunctionOnSet(f, 1 .. i + 1) = f[i + 1] + SumFunctionOnSet(f, 1 .. i)
    BY <2>2, <2>4, SumAny
  <2>6. To(i + 1) \in Nat /\ To(i + 2) = To(i + 1) + lengths[i + 1] /\ lengths[i + 1] \in Nat
    <3>1. (i + 1) + 1 = i + 2
      OBVIOUS
    <3> QED BY <1>1, <1>2, <2>1, <3>1
  <2>7. Upto(i + 1) = Chunk(i + 1) \cup Upto(i) /\ Chunk(i + 1) \cap Upto(i) = {}
    <3>1. (i + 1) + 1 = i + 2
      OBVIOUS
    <3>2. 1 .. To(i + 2) = (To(i + 1) + 1 .. To(i + 1) + lengths[i + 1]) \cup (1 .. To(i + 1))
      BY <2>6
    <3>3. (To(i + 1) + 1 .. To(i + 1) + lengths[i + 1]) \cap (1 .. To(i + 1)) = {}
      BY <2>6
    <3> QED BY <3>1, <3>2, <3>3
  <2>8. IsFiniteSet(Upto(i)) /\ IsFiniteSet(Chunk(i + 1))
    <3>1. IsFiniteSet(1 .. To(i + 1))
      BY <2>6, FS_Interval
    <3> QED BY <2>1, <2>3, <3>1, FS_Subset
  <2>9. Cardinality(Upto(i + 1)) = Cardinality(Chunk(i + 1)) + Cardinality(Upto(i))
    <3> HIDE DEF Upto, Chunk
    <3> QED BY <2>7, <2>8, DisjointCardinality
  <2>10. SumFunctionOnSet(f, 1 .. i) = Cardinality(Upto(i))
    BY <1>5, <2>1
  <2> HIDE DEF Upto, Chunk
  <2> QED BY <1>3, <2>1, <2>5, <2>9, <2>10
<1>6. n \in N
  <2>1. \A i \in Nat : i \in N => i + 1 \in N
    BY <1>5
  <2> HIDE DEF N
  <2> QED BY <1>4, <2>1, NumberInduction
<1> QED BY <1>6 DEF To

\* Positions are counted alike from the start of a chunk.
LEMMA ShiftedCardinality ==
    ASSUME NEW a \in Nat, NEW n \in Nat, NEW picked
    PROVE  Cardinality({k \in 1 .. n : a + k \in picked}) = Cardinality(picked \cap (a + 1 .. a + n))
<1> DEFINE S == {k \in 1 .. n : a + k \in picked}
           T == picked \cap (a + 1 .. a + n)
           shift == [k \in S |-> a + k]
<1>1. shift \in [S -> T]
  OBVIOUS
<1>2. \A k, l \in S : shift[k] = shift[l] => k = l
  OBVIOUS
<1>3. \A p \in T : p - a \in S /\ shift[p - a] = p
  OBVIOUS
<1>4. IsFiniteSet(S)
  <2>1. IsFiniteSet(1 .. n)
    BY FS_Interval
  <2> QED BY <2>1, FS_Subset
<1> HIDE DEF S, T, shift
<1>5. shift \in Bijection(S, T)
  BY <1>1, <1>2, <1>3 DEF Bijection, Injection, Surjection, IsInjective
<1>6. ExistsBijection(S, T)
  BY <1>5 DEF ExistsBijection
<1>7. Cardinality(T) = Cardinality(S)
  BY <1>4, <1>6, FS_Bijection
<1> QED BY <1>7 DEF S, T

\* How many rows each query returned.
Lengths == [j \in DOMAIN reads |-> reads[j][3]]

(* The rows that the queries returned are the rows that were read.           *)
ChunksFill == SumFunctionOnSet(Lengths, DOMAIN reads) = Len(got)

Queries == /\ got \in Seq(Rows)
           /\ reads \in Seq((1 .. NFiles) \X Nat \X Nat)
           /\ ChunksFill

LEMMA QueryLengths ==
    ASSUME Queries
    PROVE  /\ Len(reads) \in Nat /\ DOMAIN reads = 1 .. Len(reads)
           /\ \A j \in 1 .. Len(reads) : Lengths[j] = reads[j][3] /\ Lengths[j] \in Nat
           /\ Before(Lengths, Len(reads) + 1) = Len(got)
<1>1. Len(reads) \in Nat /\ DOMAIN reads = 1 .. Len(reads)
  BY DEF Queries
<1>2. \A j \in 1 .. Len(reads) : reads[j] \in (1 .. NFiles) \X Nat \X Nat
  BY <1>1 DEF Queries
<1>3. \A j \in 1 .. Len(reads) : Lengths[j] = reads[j][3] /\ Lengths[j] \in Nat
  BY <1>1, <1>2 DEF Lengths
<1>4. 1 .. (Len(reads) + 1) - 1 = 1 .. Len(reads)
  BY <1>1
<1>5. Before(Lengths, Len(reads) + 1) = Len(got)
  BY <1>1, <1>4 DEF Before, Queries, ChunksFill
<1> QED BY <1>1, <1>3, <1>5

LEMMA RowsReadIs ==
    ASSUME Queries, NEW i \in DOMAIN reads
    PROVE  /\ Before(Lengths, i) \in Nat /\ Lengths[i] \in Nat
           /\ RowsRead(i) \in Seq(Rows)
           /\ Len(RowsRead(i)) = Lengths[i]
           /\ DOMAIN RowsRead(i) = 1 .. Lengths[i]
           /\ \A k \in 1 .. Lengths[i] : RowsRead(i)[k] = got[Before(Lengths, i) + k]
           /\ Before(Lengths, i) + Lengths[i] <= Len(got)
<1> DEFINE n == Len(reads)
           before == SumFunction([j \in 1 .. i - 1 |-> reads[j][3]])
<1>1. i \in 1 .. n /\ n \in Nat
  BY QueryLengths
<1>2. before = Before(Lengths, i)
  <2> DEFINE f == [j \in 1 .. i - 1 |-> reads[j][3]]
  <2>1. \A j \in 1 .. i - 1 : f[j] = Lengths[j]
    BY <1>1, QueryLengths
  <2>2. IsFiniteSet(1 .. i - 1)
    BY <1>1, FS_Interval
  <2>3. DOMAIN f = 1 .. i - 1
    OBVIOUS
  <2> HIDE DEF f
  <2>4. SumFunctionOnSet(f, 1 .. i - 1) = SumFunctionOnSet(Lengths, 1 .. i - 1)
    BY <2>1, <2>2, SumSame
  <2> QED BY <2>3, <2>4 DEF SumFunction, Before, f
<1>3. /\ \A j \in 1 .. n + 1 : Before(Lengths, j) \in Nat
      /\ \A j \in 1 .. n : Before(Lengths, j + 1) = Before(Lengths, j) + Lengths[j]
  BY QueryLengths, BeforeNext
<1>4. \A j \in 1 .. n : Lengths[j] \in Nat
  BY QueryLengths
<1>5. Before(Lengths, i + 1) <= Len(got)
  <2> DEFINE N == {d \in Nat : i + d + 1 <= n + 1 => Before(Lengths, i + 1) <= Before(Lengths, i + d + 1)}
  <2>1. 0 \in N
    BY <1>1, <1>3
  <2>2. ASSUME NEW d \in Nat, d \in N PROVE d + 1 \in N
    <3> SUFFICES ASSUME i + (d + 1) + 1 <= n + 1
                 PROVE  Before(Lengths, i + 1) <= Before(Lengths, i + (d + 1) + 1)
      OBVIOUS
    <3>1. i + 1 \in 1 .. n + 1 /\ i + d + 1 \in 1 .. n /\ i + d + 1 \in 1 .. n + 1
      BY <1>1
    <3>2. Before(Lengths, i + 1) <= Before(Lengths, i + d + 1)
      BY <2>2, <3>1
    <3>3. Before(Lengths, (i + d + 1) + 1) = Before(Lengths, i + d + 1) + Lengths[i + d + 1]
      BY <1>3, <3>1
    <3>4. (i + d + 1) + 1 = i + (d + 1) + 1
      BY <1>1
    <3>5. /\ Before(Lengths, i + 1) \in Nat /\ Before(Lengths, i + d + 1) \in Nat
          /\ Lengths[i + d + 1] \in Nat
      BY <1>3, <1>4, <3>1
    <3> QED BY <3>2, <3>3, <3>4, <3>5
  <2>3. n - i \in Nat /\ i + (n - i) + 1 = n + 1
    BY <1>1
  <2>4. n - i \in N
    <3> HIDE DEF N
    <3> QED BY <2>1, <2>2, <2>3, NumberInduction
  <2>5. Before(Lengths, i + 1) <= Before(Lengths, n + 1)
    BY <2>3, <2>4
  <2> QED BY <2>5, QueryLengths
<1>6. /\ Before(Lengths, i) \in Nat /\ Lengths[i] \in Nat
      /\ Before(Lengths, i) + Lengths[i] <= Len(got)
  BY <1>1, <1>3, <1>4, <1>5
<1>7. RowsRead(i) = SubSeq(got, Before(Lengths, i) + 1, Before(Lengths, i) + Lengths[i])
  BY <1>1, <1>2, QueryLengths DEF RowsRead
<1>8. got \in Seq(Rows)
  BY DEF Queries
<1> DEFINE b == Before(Lengths, i)
           l == Lengths[i]
<1> HIDE DEF b, l
<1>9. /\ SubSeq(got, b + 1, b + l) \in Seq(Rows)
      /\ Len(SubSeq(got, b + 1, b + l)) = l
      /\ DOMAIN SubSeq(got, b + 1, b + l) = 1 .. l
      /\ \A k \in 1 .. l : SubSeq(got, b + 1, b + l)[k] = got[b + k]
  <2>1. b \in Nat /\ l \in Nat /\ b + l <= Len(got)
    BY <1>6 DEF b, l
  <2> QED BY <1>8, <2>1
<1> QED BY <1>6, <1>7, <1>9 DEF b, l

KeyIn(table, r) == IF table = "model" THEN r.model
                   ELSE IF table = "suite" THEN SuiteOf[r.task] ELSE r.task

CountsIn(number, r) == \/ number = "attempts"
                       \/ number = "passed" /\ r.outcome = "pass"
                       \/ number = "faults" /\ r.outcome = "fault"

\* The rows that a number of a line of a table is about.
Behind(rows, table, key, number) ==
    {i \in DOMAIN rows : KeyIn(table, rows[i]) = key /\ CountsIn(number, rows[i])}

Keys(rows, table) == {KeyIn(table, rows[i]) : i \in DOMAIN rows}

GroupOf(rows, table, k) == {i \in DOMAIN rows : KeyIn(table, rows[i]) = k}

LEMMA TableIs ==
    ASSUME NEW rows, NEW table \in {"model", "suite", "task"}
    PROVE  Sections(rows)[table]
               = [k \in Keys(rows, table) |-> SummarizeGroup(rows, GroupOf(rows, table, k))]
<1>1. CASE table = "model"
  BY <1>1 DEF Sections, GroupBy, Where, KeyIn, Keys, GroupOf
<1>2. CASE table = "suite"
  BY <1>2 DEF Sections, GroupBy, Where, KeyIn, Keys, GroupOf
<1>3. CASE table = "task"
  BY <1>3 DEF Sections, GroupBy, Where, KeyIn, Keys, GroupOf
<1> QED BY <1>1, <1>2, <1>3

LEMMA LineIs ==
    ASSUME NEW rows, NEW table \in {"model", "suite", "task"}, NEW key,
           NEW number \in {"attempts", "passed", "faults"}
    PROVE  LET report == ReportOf(rows)
           IN  (IF report = <<>> \/ key \notin DOMAIN report[1][table]
                THEN 0 ELSE report[1][table][key][number])
                   = Cardinality(Behind(rows, table, key, number))
<1> DEFINE keys == Keys(rows, table)
           group == GroupOf(rows, table, key)
<1>0. PICK report : report = ReportOf(rows)
  OBVIOUS
<1>1. CASE rows = <<>>
  <2>1. report = <<>>
    BY <1>0, <1>1 DEF ReportOf
  <2>2. Behind(rows, table, key, number) = {}
    BY <1>1 DEF Behind
  <2> QED BY <1>0, <2>1, <2>2, FS_EmptySet
<1>2. CASE rows # <<>>
  <2>1. report = <<Sections(rows)>>
    BY <1>0, <1>2 DEF ReportOf
  <2>2. report # <<>> /\ report[1] = Sections(rows)
    BY <2>1
  <2>3. DOMAIN report[1][table] = keys /\ (key \in keys => report[1][table][key] = SummarizeGroup(rows, group))
    <3>1. Sections(rows)[table] = [k \in keys |-> SummarizeGroup(rows, GroupOf(rows, table, k))]
      BY TableIs
    <3> QED BY <2>2, <3>1
  <2>4. CASE key \notin keys
    <3>1. Behind(rows, table, key, number) = {}
      BY <2>4 DEF Behind, Keys
    <3> QED BY <1>0, <2>3, <2>4, <3>1, FS_EmptySet
  <2>5. CASE key \in keys
    <3>1. report[1][table][key] = SummarizeGroup(rows, group)
      BY <2>3, <2>5
    <3>2. SummarizeGroup(rows, group)[number] = Cardinality(Behind(rows, table, key, number))
      <4>1. CASE number = "attempts"
        <5>1. Behind(rows, table, key, number) = group
          BY <4>1 DEF Behind, CountsIn, GroupOf
        <5> QED BY <4>1, <5>1 DEF SummarizeGroup
      <4>2. CASE number = "passed"
        <5>1. Behind(rows, table, key, number) = Passed(rows, group)
          BY <4>2 DEF Behind, CountsIn, GroupOf, Passed
        <5> QED BY <4>2, <5>1 DEF SummarizeGroup
      <4>3. CASE number = "faults"
        <5>1. Behind(rows, table, key, number) = {i \in group : rows[i].outcome = "fault"}
          BY <4>3 DEF Behind, CountsIn, GroupOf
        <5> QED BY <4>3, <5>1 DEF SummarizeGroup
      <4> QED BY <4>1, <4>2, <4>3
    <3> HIDE DEF keys, group
    <3> QED BY <1>0, <2>2, <2>3, <2>5, <3>1, <3>2
  <2> QED BY <2>4, <2>5
<1> QED BY <1>1, <1>2

LEMMA ReportedIs ==
    ASSUME Queries, NEW table \in {"model", "suite", "task"}, NEW key,
           NEW number \in {"attempts", "passed", "faults"}
    PROVE  Reported(table, key, number) = Cardinality(Behind(got, table, key, number))
<1> DEFINE n == Len(reads)
           picked == Behind(got, table, key, number)
           f == [i \in DOMAIN reads |->
                    LET report == ReportOf(RowsRead(i))
                    IN  IF report = <<>> \/ key \notin DOMAIN report[1][table]
                        THEN 0 ELSE report[1][table][key][number]]
<1>1. \A i \in DOMAIN reads : f[i] = Cardinality(Behind(RowsRead(i), table, key, number))
  BY LineIs
<1>2. n \in Nat /\ DOMAIN reads = 1 .. n
  BY QueryLengths
<1>3. \A i \in 1 .. n : f[i] = Cardinality(picked \cap (Before(Lengths, i) + 1 .. Before(Lengths, i) + Lengths[i]))
  <2> SUFFICES ASSUME NEW i \in 1 .. n
               PROVE  f[i] = Cardinality(picked \cap (Before(Lengths, i) + 1 .. Before(Lengths, i) + Lengths[i]))
    OBVIOUS
  <2> DEFINE b == Before(Lengths, i)
             l == Lengths[i]
  <2>1. /\ b \in Nat /\ l \in Nat /\ b + l <= Len(got)
        /\ DOMAIN RowsRead(i) = 1 .. l
        /\ \A k \in 1 .. l : RowsRead(i)[k] = got[b + k]
    BY <1>2, RowsReadIs
  <2> HIDE DEF b, l
  <2>2. got \in Seq(Rows) /\ DOMAIN got = 1 .. Len(got) /\ Len(got) \in Nat
    BY DEF Queries
  <2>3. \A k \in 1 .. l : b + k \in DOMAIN got
    BY <2>1, <2>2
  <2>4. Behind(RowsRead(i), table, key, number) = {k \in 1 .. l : b + k \in picked}
    BY <2>1, <2>3 DEF Behind
  <2>5. Cardinality({k \in 1 .. l : b + k \in picked}) = Cardinality(picked \cap (b + 1 .. b + l))
    <3> HIDE DEF picked
    <3> QED BY <2>1, ShiftedCardinality
  <2> HIDE DEF f
  <2> QED BY <1>1, <1>2, <2>4, <2>5 DEF b, l
<1>4. SumFunctionOnSet(f, 1 .. n) = Cardinality(picked \cap (1 .. Before(Lengths, n + 1)))
  <2> HIDE DEF f, picked
  <2>1. \A j \in 1 .. n : Lengths[j] \in Nat
    BY QueryLengths
  <2> QED BY <1>2, <1>3, <2>1, ChunksAddUp
<1>5. picked \cap (1 .. Before(Lengths, n + 1)) = picked
  <2>1. got \in Seq(Rows) /\ DOMAIN got = 1 .. Len(got)
    BY DEF Queries
  <2>2. Before(Lengths, n + 1) = Len(got)
    BY QueryLengths
  <2> QED BY <2>1, <2>2 DEF Behind
<1>6. Reported(table, key, number) = SumFunction(f)
  BY DEF Reported
<1>7. DOMAIN f = 1 .. n
  BY <1>2
<1> HIDE DEF f, picked
<1>8. SumFunction(f) = SumFunctionOnSet(f, 1 .. n)
  BY <1>7 DEF SumFunction
<1> QED BY <1>4, <1>5, <1>6, <1>8 DEF picked

LEMMA ReportsAddUp ==
    ASSUME Queries
    PROVE  ReportsAddUpToComparison
<1>1. got \in Seq(Rows)
  BY DEF Queries
<1>2. \A table \in {"model", "suite", "task"} : \A key :
        /\ IsFiniteSet(Behind(got, table, key, "attempts"))
        /\ IsFiniteSet(Behind(got, table, key, "faults"))
        /\ Cardinality(Behind(got, table, key, "attempts")) \in Nat
        /\ Cardinality(Behind(got, table, key, "faults")) \in Nat
        /\ Cardinality(Behind(got, table, key, "attempts"))
              - Cardinality(Behind(got, table, key, "faults"))
                = Cardinality({i \in Sound(got) : KeyIn(table, got[i]) = key})
  <2> SUFFICES ASSUME NEW table \in {"model", "suite", "task"}, NEW key
               PROVE  LET all == Behind(got, table, key, "attempts")
                          bad == Behind(got, table, key, "faults")
                          good == {i \in Sound(got) : KeyIn(table, got[i]) = key}
                      IN  /\ IsFiniteSet(all) /\ IsFiniteSet(bad)
                          /\ Cardinality(all) \in Nat /\ Cardinality(bad) \in Nat
                          /\ Cardinality(all) - Cardinality(bad) = Cardinality(good)
    OBVIOUS
  <2> DEFINE all == Behind(got, table, key, "attempts")
             bad == Behind(got, table, key, "faults")
             good == {i \in Sound(got) : KeyIn(table, got[i]) = key}
  <2>1. all \in SUBSET DOMAIN got /\ bad \in SUBSET DOMAIN got /\ good \in SUBSET DOMAIN got
    BY DEF Behind, Sound
  <2>2. all = bad \cup good /\ bad \cap good = {}
    BY DEF Behind, Sound, CountsIn
  <2> HIDE DEF all, bad, good
  <2>3. /\ IsFiniteSet(all) /\ IsFiniteSet(bad) /\ IsFiniteSet(good)
        /\ Cardinality(all) \in Nat /\ Cardinality(bad) \in Nat /\ Cardinality(good) \in Nat
    BY <1>1, <2>1, Positions
  <2>4. Cardinality(all) = Cardinality(bad) + Cardinality(good)
    BY <2>2, <2>3, DisjointCardinality
  <2> QED BY <2>3, <2>4 DEF all, bad, good
<1>3. ASSUME NEW e \in Entries(got)
      PROVE  /\ Reported("model", e.model, "attempts") = e.total
             /\ Reported("model", e.model, "passed") = e.passed
             /\ Reported("model", e.model, "faults") = e.faults
  <2>1. Summarises(e, got, e.model)
    BY <1>1, EntryIs
  <2>2. Behind(got, "model", e.model, "attempts") = {i \in DOMAIN got : got[i].model = e.model}
    BY DEF Behind, KeyIn, CountsIn
  <2>3. Behind(got, "model", e.model, "passed") = Passed(got, Graded(got, e.model))
    BY GradedIs DEF Behind, KeyIn, CountsIn, Passed
  <2>4. {i \in Sound(got) : KeyIn("model", got[i]) = e.model} = Graded(got, e.model)
    BY GradedIs DEF Sound, KeyIn
  <2>5. /\ e.total = Cardinality(Behind(got, "model", e.model, "attempts"))
        /\ e.passed = Cardinality(Behind(got, "model", e.model, "passed"))
        /\ e.graded = Cardinality(Graded(got, e.model)) /\ e.faults = e.total - e.graded
        /\ e.total \in Nat /\ e.graded \in Nat
    BY <2>1, <2>2, <2>3 DEF Summarises
  <2>6. e.faults = Cardinality(Behind(got, "model", e.model, "faults"))
    BY <1>2, <2>4, <2>5
  <2> QED BY <2>5, <2>6, ReportedIs
<1>4. ASSUME NEW t \in TasksOf(got, DOMAIN got)
      PROVE  /\ Reported("task", t, "attempts") - Reported("task", t, "faults") = TaskCell(got, t).n
             /\ Reported("task", t, "passed") = TaskCell(got, t).passed
  <2> DEFINE of == {i \in DOMAIN got : got[i].task = t /\ got[i].outcome # "fault"}
  <2>1. TaskCell(got, t).n = Cardinality(of) /\ TaskCell(got, t).passed = Cardinality(Passed(got, of))
    BY DEF TaskCell, Where
  <2>2. {i \in Sound(got) : KeyIn("task", got[i]) = t} = of
    BY DEF Sound, KeyIn
  <2>3. Behind(got, "task", t, "passed") = Passed(got, of)
    BY DEF Behind, KeyIn, CountsIn, Passed
  <2> QED BY <1>2, <2>1, <2>2, <2>3, ReportedIs
<1>5. ASSUME NEW s \in SuitesOf(got)
      PROVE  Reported("suite", s, "attempts") - Reported("suite", s, "faults")
                 = SumFunction([e \in Entries(got) |-> SuiteCell(got, e.model, s).attempts])
  <2> DEFINE picked == {i \in Sound(got) : SuiteOf[got[i].task] = s}
             f == [e \in Entries(got) |-> SuiteCell(got, e.model, s).attempts]
  <2>1. \A e \in Entries(got) : f[e] = Cardinality({i \in picked : got[i].model = e.model})
    <3>1. \A e \in Entries(got) : {i \in picked : got[i].model = e.model}
                                    = {i \in Graded(got, e.model) : SuiteOf[got[i].task] = s}
      BY GradedIs DEF Sound
    <3>2. \A e \in Entries(got) : f[e] = Cardinality({i \in Graded(got, e.model) : SuiteOf[got[i].task] = s})
      BY DEF SuiteCell
    <3> HIDE DEF f, picked
    <3> QED BY <3>1, <3>2
  <2>2. DOMAIN f = Entries(got) /\ picked \in SUBSET Sound(got)
    OBVIOUS
  <2>3. SumFunction(f) = Cardinality(picked)
    <3> HIDE DEF f, picked
    <3> QED BY <1>1, <2>1, <2>2, EntriesAddUp
  <2>4. {i \in Sound(got) : KeyIn("suite", got[i]) = s} = picked
    BY DEF KeyIn
  <2> HIDE DEF f, picked
  <2> QED BY <1>2, <2>3, <2>4, ReportedIs DEF f
<1> QED BY <1>3, <1>4, <1>5 DEF ReportsAddUpToComparison

-----------------------------------------------------------------------------
(* The order of the models: rates are compared by cross-multiplication.      *)

LEMMA CrossMultiply ==
    ASSUME NEW ap \in Nat, NEW bp \in Nat, NEW cp \in Nat,
           NEW ag \in Nat \ {0}, NEW bg \in Nat \ {0}, NEW cg \in Nat \ {0},
           ap * bg >= bp * ag, bp * cg >= cp * bg
    PROVE  /\ ap * cg >= cp * ag
           /\ ap * bg > bp * ag \/ bp * cg > cp * bg => ap * cg > cp * ag
<1>1. (ap * bg) * cg >= (bp * ag) * cg
  OBVIOUS
<1>2. (bp * cg) * ag >= (cp * bg) * ag
  OBVIOUS
<1>3. (bp * ag) * cg = (bp * cg) * ag
  OBVIOUS
<1>4. (ap * bg) * cg = (ap * cg) * bg /\ (cp * bg) * ag = (cp * ag) * bg
  OBVIOUS
<1>5. (ap * cg) * bg >= (cp * ag) * bg
  BY <1>1, <1>2, <1>3, <1>4
<1>6. ap * cg >= cp * ag
  BY <1>5
<1>7. ap * bg > bp * ag \/ bp * cg > cp * bg => (ap * cg) * bg > (cp * ag) * bg
  <2>1. ap * bg > bp * ag => (ap * bg) * cg > (bp * ag) * cg
    OBVIOUS
  <2>2. bp * cg > cp * bg => (bp * cg) * ag > (cp * bg) * ag
    OBVIOUS
  <2> QED BY <1>1, <1>2, <1>3, <1>4, <2>1, <2>2
<1>8. (ap * cg) * bg > (cp * ag) * bg => ap * cg > cp * ag
  OBVIOUS
<1> QED BY <1>6, <1>7, <1>8

\* The sort key of a model with a rate is well defined.
IsBar(e) == e.graded \in Nat /\ e.passed \in Nat /\ e.model \in Nat /\ e.complete \in BOOLEAN

LEMMA AboveOrders ==
    ASSUME NEW a, NEW b, NEW c, IsBar(a), IsBar(b), IsBar(c), Rated(a), Rated(b), Rated(c)
    PROVE  /\ ~(Above(a, b) /\ Above(b, a))
           /\ ~Above(b, a) /\ ~Above(c, b) => ~Above(c, a)
           /\ ~Above(b, a) /\ Above(b, c) => Above(a, c)
           /\ Above(a, b) /\ ~Above(c, b) => Above(a, c)
<1> DEFINE ap == a.passed  ag == a.graded  bp == b.passed  bg == b.graded  cp == c.passed  cg == c.graded
<1>1. ap \in Nat /\ bp \in Nat /\ cp \in Nat /\ ag \in Nat \ {0} /\ bg \in Nat \ {0} /\ cg \in Nat \ {0}
  BY DEF IsBar, Rated
<1>2. /\ Above(a, b) <=> ap * bg > bp * ag
      /\ Above(b, a) <=> bp * ag > ap * bg
      /\ Above(b, c) <=> bp * cg > cp * bg
      /\ Above(c, b) <=> cp * bg > bp * cg
      /\ Above(a, c) <=> ap * cg > cp * ag
      /\ Above(c, a) <=> cp * ag > ap * cg
  BY DEF Above
<1> HIDE DEF ap, bp, cp, ag, bg, cg
<1>3. /\ ap * bg \in Nat /\ bp * ag \in Nat /\ bp * cg \in Nat
      /\ cp * bg \in Nat /\ ap * cg \in Nat /\ cp * ag \in Nat
  BY <1>1
<1>4. ap * bg >= bp * ag /\ bp * cg >= cp * bg =>
          /\ ap * cg >= cp * ag
          /\ ap * bg > bp * ag \/ bp * cg > cp * bg => ap * cg > cp * ag
  BY <1>1, CrossMultiply
<1> DEFINE w == ap * bg  x == bp * ag  y == bp * cg  z == cp * bg  u == ap * cg  v == cp * ag
<1>5. /\ w \in Nat /\ x \in Nat /\ y \in Nat /\ z \in Nat /\ u \in Nat /\ v \in Nat
      /\ Above(a, b) <=> w > x
      /\ Above(b, a) <=> x > w
      /\ Above(b, c) <=> y > z
      /\ Above(c, b) <=> z > y
      /\ Above(a, c) <=> u > v
      /\ Above(c, a) <=> v > u
      /\ w >= x /\ y >= z => u >= v /\ (w > x \/ y > z => u > v)
  BY <1>2, <1>3, <1>4
<1> HIDE DEF w, x, y, z, u, v
<1> QED BY <1>5

LEMMA ListedOrders ==
    ASSUME NEW a, NEW b, NEW c, IsBar(a), IsBar(b), IsBar(c)
    PROVE  /\ a.model # b.model => ListedBefore(a, b) \/ ListedBefore(b, a)
           /\ ListedBefore(a, b) /\ ListedBefore(b, c) => ListedBefore(a, c)
<1>1. a.model \in Nat /\ b.model \in Nat /\ c.model \in Nat
  BY DEF IsBar
<1>2. Rated(a) /\ Rated(b) /\ Rated(c) =>
          /\ ~(Above(a, b) /\ Above(b, a)) /\ ~(Above(b, c) /\ Above(c, b)) /\ ~(Above(a, c) /\ Above(c, a))
          /\ ~Above(b, a) /\ ~Above(c, b) => ~Above(c, a)
          /\ ~Above(b, a) /\ Above(b, c) => Above(a, c)
          /\ Above(a, b) /\ ~Above(c, b) => Above(a, c)
          /\ ~Above(b, c) /\ ~Above(a, b) => ~Above(a, c)
  BY AboveOrders
<1> QED BY <1>1, <1>2 DEF ListedBefore, Rated

LEMMA DrawnOrders ==
    ASSUME NEW a, NEW b, NEW c, IsBar(a), IsBar(b), IsBar(c), NEW place,
           place[a] \in Nat, place[b] \in Nat, place[c] \in Nat
    PROVE  /\ place[a] # place[b] => DrawnBefore(a, b, place) \/ DrawnBefore(b, a, place)
           /\ DrawnBefore(a, b, place) /\ DrawnBefore(b, c, place) => DrawnBefore(a, c, place)
<1>1. a.complete \in BOOLEAN /\ b.complete \in BOOLEAN /\ c.complete \in BOOLEAN
  BY DEF IsBar
<1>2. Rated(a) /\ Rated(b) /\ Rated(c) =>
          /\ ~(Above(a, b) /\ Above(b, a)) /\ ~(Above(b, c) /\ Above(c, b)) /\ ~(Above(a, c) /\ Above(c, a))
          /\ ~Above(b, c) /\ ~Above(a, b) => ~Above(a, c)
          /\ ~Above(a, b) /\ Above(c, b) => Above(c, a)
          /\ Above(b, a) /\ ~Above(b, c) => Above(c, a)
          /\ ~Above(c, b) /\ ~Above(b, a) => ~Above(c, a)
  BY AboveOrders
<1> QED BY <1>1, <1>2 DEF DrawnBefore, Rated

LEMMA EntriesAreBars ==
    ASSUME NEW rows \in Seq(Rows)
    PROVE  /\ \A e \in Entries(rows) : IsBar(e)
           /\ \A d, e \in Entries(rows) : d.model = e.model => d = e
<1>1. \A e \in Entries(rows) : IsBar(e)
  <2> SUFFICES ASSUME NEW e \in Entries(rows) PROVE IsBar(e)
    OBVIOUS
  <2>1. Summarises(e, rows, e.model)
    BY EntryIs
  <2> QED BY <2>1 DEF Summarises, IsBar, Models
<1> QED BY <1>1, EntriesAre

LEMMA ListedIs ==
    ASSUME NEW rows \in Seq(Rows)
    PROVE  Listed(rows) \in SetToSeqs(Entries(rows))
<1> DEFINE E == Entries(rows)
           R == {p \in E \X E : ListedBefore(p[1], p[2])}
<1>1. Total(R, E)
  BY EntriesAreBars, ListedOrders DEF Total
<1>2. Transitive(R, E)
  <2> SUFFICES ASSUME NEW a \in E, NEW b \in E, NEW c \in E, <<a, b>> \in R, <<b, c>> \in R
               PROVE  <<a, c>> \in R
    BY DEF Transitive
  <2>1. ListedBefore(a, b) /\ ListedBefore(b, c)
    OBVIOUS
  <2>2. ListedBefore(a, c)
    BY <2>1, EntriesAreBars, ListedOrders
  <2> QED BY <2>2
<1>3. PICK list : Lists(list, E, R)
  <2> HIDE DEF E, R
  <2>1. IsFiniteSet(E)
    BY EntriesAre DEF E
  <2> QED BY <1>1, <1>2, <2>1, ListExists
<1>4. \A i, j \in DOMAIN list : i < j => ListedBefore(list[i], list[j])
  BY <1>3 DEF Lists
<1>5. list \in SetToSeqs(E)
  BY <1>3 DEF Lists
<1> HIDE DEF R
<1> QED BY <1>4, <1>5 DEF Listed, InOrder

LEMMA FigureIs ==
    ASSUME NEW rows \in Seq(Rows)
    PROVE  \E place : /\ \A i, j \in DOMAIN Figure(rows) :
                            i < j => DrawnBefore(Figure(rows)[i], Figure(rows)[j], place)
                      /\ Figure(rows) \in SetToSeqs(Entries(rows))
<1> DEFINE E == Entries(rows)
           list == Listed(rows)
           place == [e \in E |-> CHOOSE i \in DOMAIN list : list[i] = e]
           R == {p \in E \X E : DrawnBefore(p[1], p[2], place)}
<1>1. IsFiniteSet(E) /\ \A e \in E : IsBar(e)
  BY EntriesAre, EntriesAreBars
<1>2. \A e \in E : place[e] \in Nat /\ place[e] \in DOMAIN list /\ list[place[e]] = e
  <2>1. DOMAIN list = 1 .. Cardinality(E) /\ \A e \in E : \E i \in DOMAIN list : list[i] = e
    <3> HIDE DEF list, E
    <3>1. list \in SetToSeqs(E)
      BY ListedIs DEF list, E
    <3> QED BY <1>1, <3>1, ListCovers
  <2> HIDE DEF list, E
  <2> QED BY <2>1
<1> HIDE DEF place, list
<1>3. Total(R, E)
  <2> SUFFICES ASSUME NEW a \in E, NEW b \in E, a # b
               PROVE  <<a, b>> \in R \/ <<b, a>> \in R
    BY DEF Total
  <2>1. place[a] # place[b]
    BY <1>2
  <2>2. DrawnBefore(a, b, place) \/ DrawnBefore(b, a, place)
    BY <1>1, <1>2, <2>1, DrawnOrders
  <2> QED BY <2>2
<1>4. Transitive(R, E)
  <2> SUFFICES ASSUME NEW a \in E, NEW b \in E, NEW c \in E, <<a, b>> \in R, <<b, c>> \in R
               PROVE  <<a, c>> \in R
    BY DEF Transitive
  <2>1. DrawnBefore(a, b, place) /\ DrawnBefore(b, c, place)
    OBVIOUS
  <2>2. DrawnBefore(a, c, place)
    BY <1>1, <1>2, <2>1, DrawnOrders
  <2> QED BY <2>2
<1>5. PICK bars : Lists(bars, E, R)
  <2> HIDE DEF E, R
  <2> QED BY <1>1, <1>3, <1>4, ListExists
<1>6. /\ bars \in SetToSeqs(E)
      /\ \A i, j \in DOMAIN bars : i < j => DrawnBefore(bars[i], bars[j], place)
  BY <1>5 DEF Lists
<1> HIDE DEF R
<1>7. Figure(rows) = CHOOSE l \in SetToSeqs(E) :
                        \A i, j \in DOMAIN l : i < j => DrawnBefore(l[i], l[j], place)
  BY DEF Figure, InOrder, place, list
<1> QED BY <1>6, <1>7

LEMMA CompleteAbove ==
    ASSUME NEW rows \in Seq(Rows), NEW i \in DOMAIN Figure(rows), NEW j \in DOMAIN Figure(rows),
           i < j, Rated(Figure(rows)[i]), Figure(rows)[i].complete
    PROVE  Figure(rows)[j].complete
<1>1. PICK place : /\ DrawnBefore(Figure(rows)[i], Figure(rows)[j], place)
                   /\ Figure(rows) \in SetToSeqs(Entries(rows))
  BY FigureIs
<1>2. Figure(rows)[i] \in Entries(rows) /\ Figure(rows)[j] \in Entries(rows)
  BY <1>1, EntriesAre, ListCovers
<1>3. Figure(rows)[i].complete \in BOOLEAN /\ Figure(rows)[j].complete \in BOOLEAN
  BY <1>2, EntriesAreBars DEF IsBar
<1> QED BY <1>1, <1>3 DEF DrawnBefore

LEMMA CompleteSawAll ==
    ASSUME NEW rows \in Seq(Rows), NEW e \in Entries(rows), e.complete
    PROVE  TasksOf(rows, Graded(rows, e.model)) = TasksOf(rows, DOMAIN rows)
<1>1. Cardinality(TasksOf(rows, Graded(rows, e.model))) = Cardinality(TasksOf(rows, DOMAIN rows))
  BY EntryIs DEF Summarises
<1>2. Graded(rows, e.model) \in SUBSET DOMAIN rows
  BY GradedIs
<1>3. IsFiniteSet(TasksOf(rows, DOMAIN rows))
  BY TasksAre
<1>4. TasksOf(rows, Graded(rows, e.model)) \in SUBSET TasksOf(rows, DOMAIN rows)
  BY <1>2, TasksAre
<1> QED BY <1>1, <1>3, <1>4, FS_Subset

-----------------------------------------------------------------------------
(* The inductive invariant.                                                  *)

RunRecord == [model : Models, schedule : Schedules, rows : Seq(Rows)]

Shapes == /\ files \in [1 .. NFiles -> Seq(RunRecord)]
          /\ pending \in Seq(Nat)
          /\ got \in Seq(Rows)
          /\ reads \in Seq((1 .. NFiles) \X Nat \X Nat)
          /\ step \in {"idle", "listing", "reading", "done"}
          /\ at \in 1 .. NFiles

(* Only while the runs of a file are being read are some of them pending;    *)
(* nothing is read before compare begins, and it ends at the last file.      *)
Position == /\ step # "reading" => pending = <<>>
            /\ step = "idle" => at = 1 /\ reads = <<>>
            /\ step = "done" => at = NFiles

(* What is pending are runs of the file, each once.                          *)
PendingProper == /\ \A i \in DOMAIN pending : pending[i] \in DOMAIN files[at]
                 /\ \A i, j \in DOMAIN pending : pending[i] = pending[j] => i = j

(* A file keeps the runs and the rows it had when compare began.             *)
StoredStays ==
    step # "idle" =>
        \A f \in 1 .. NFiles : \A id \in DOMAIN atStart[f] :
            /\ id \in DOMAIN files[f]
            /\ atStart[f][id] \in Nat
            /\ atStart[f][id] <= Len(files[f][id].rows)

\* The runs of the file have been listed.
Begun(f) == f < at \/ (f = at /\ step \in {"reading", "done"})

IsPending(f, id) == f = at /\ \E i \in DOMAIN pending : pending[i] = id

IsRead(f, id) == \E i \in DOMAIN reads : reads[i][1] = f /\ reads[i][2] = id

IsCounted(f, id) == \E i \in DOMAIN reads : /\ reads[i][1] = f /\ reads[i][2] = id
                                            /\ reads[i][3] >= atStart[f][id]

(* A run is read after its file was listed and while it is no longer pending.*)
ReadsBehind == \A f \in 1 .. NFiles, id \in Nat :
                  IsRead(f, id) => Begun(f) /\ ~IsPending(f, id)

ReadOnce == \A i, j \in DOMAIN reads :
               reads[i][1] = reads[j][1] /\ reads[i][2] = reads[j][2] => i = j

(* Of the files listed so far, a run that was there when compare began is    *)
(* either counted with all of its rows or still pending.                     *)
CountedOrPending ==
    step # "idle" =>
        \A f \in 1 .. NFiles : \A id \in DOMAIN atStart[f] :
            Begun(f) => IsCounted(f, id) \/ IsPending(f, id)

(* The rows of a run are its schedule, as far as the run has come.           *)
FollowsSchedule ==
    \A f \in 1 .. NFiles : \A id \in DOMAIN files[f] :
        /\ Len(files[f][id].rows) <= Len(files[f][id].schedule)
        /\ \A k \in 1 .. Len(files[f][id].rows) :
              files[f][id].rows[k].task = files[f][id].schedule[k]

\* The i-th query read a stored run, and what it returned is among the rows read.
Kept(i) == LET f == reads[i][1]
               id == reads[i][2]
           IN  /\ id \in DOMAIN files[f]
               /\ \A k \in 1 .. reads[i][3] :
                     /\ k \in DOMAIN files[f][id].schedule
                     /\ \E p \in DOMAIN got : got[p].task = files[f][id].schedule[k]

ReadsKept == \A i \in DOMAIN reads : Kept(i)

IInv == /\ Shapes
        /\ Position
        /\ PendingProper
        /\ StoredStays
        /\ ReadsBehind
        /\ ReadOnce
        /\ CountedOrPending
        /\ FollowsSchedule
        /\ ReadsKept
        /\ ChunksFill

LEMMA InitIInv == Init => IInv
<1> SUFFICES ASSUME Init PROVE IInv
  OBVIOUS
<1>1. Shapes
  BY ComparisonAssumption DEF Init, Shapes
<1>2. Position /\ PendingProper /\ StoredStays /\ CountedOrPending
  BY DEF Init, Position, PendingProper, StoredStays, CountedOrPending
<1>3. ReadsBehind /\ ReadOnce /\ FollowsSchedule /\ ReadsKept
  BY DEF Init, ReadsBehind, ReadOnce, IsRead, FollowsSchedule, ReadsKept
<1>4. ChunksFill
  <2>1. DOMAIN reads = {} /\ Len(got) = 0
    BY DEF Init
  <2> QED BY <2>1, SumEmpty DEF ChunksFill
<1> QED BY <1>1, <1>2, <1>3, <1>4 DEF IInv

LEMMA RunFields ==
    ASSUME Shapes, NEW f \in 1 .. NFiles, NEW id \in DOMAIN files[f]
    PROVE  /\ files[f] \in Seq(RunRecord)
           /\ id \in 1 .. Len(files[f])
           /\ files[f][id] \in RunRecord
           /\ files[f][id].rows \in Seq(Rows)
           /\ Len(files[f][id].rows) \in Nat
<1>1. files[f] \in Seq(RunRecord)
  BY DEF Shapes
<1>2. files[f][id] \in RunRecord
  BY <1>1
<1> QED BY <1>1, <1>2 DEF RunRecord

LEMMA RunFieldsPrime ==
    ASSUME Shapes', NEW f \in 1 .. NFiles, NEW id \in DOMAIN files'[f]
    PROVE  Len(files'[f][id].rows) \in Nat
<1>1. files'[f] \in Seq(RunRecord)
  BY DEF Shapes, RunRecord, Rows, Models, Tasks
<1>2. files'[f][id] \in RunRecord
  BY <1>1
<1> QED BY <1>2 DEF RunRecord

LEMMA ShapesGiveType == Shapes /\ PendingProper => TypeOK
<1> SUFFICES ASSUME Shapes, PendingProper PROVE TypeOK
  OBVIOUS
<1>1. \A f \in 1 .. NFiles : files[f] \in Seq(RunRecord)
  BY DEF Shapes
<1>2. \A f \in 1 .. NFiles : \A id \in DOMAIN files[f] : files[f][id] \in RunRecord
  BY <1>1
<1> QED BY <1>2 DEF Shapes, PendingProper, TypeOK, RunRecord

-----------------------------------------------------------------------------
(* The writers: a file only gains runs, and a run only gains rows.           *)
Grows(f) == \A id \in DOMAIN files[f] :
                /\ id \in DOMAIN files'[f]
                /\ Len(files[f][id].rows) <= Len(files'[f][id].rows)
                /\ files'[f][id].schedule = files[f][id].schedule

LEMMA StartRunGrows ==
    ASSUME Shapes, FollowsSchedule, NEW f \in 1 .. NFiles, NEW m \in Models, NEW s \in Schedules,
           StartRun(f, m, s)
    PROVE  /\ files' \in [1 .. NFiles -> Seq(RunRecord)]
           /\ \A g \in 1 .. NFiles : Grows(g)
           /\ FollowsSchedule'
<1> DEFINE run == [model |-> m, schedule |-> s, rows |-> <<>>]
<1>1. run \in RunRecord
  BY DEF RunRecord
<1>2. files[f] \in Seq(RunRecord) /\ \A g \in 1 .. NFiles : files[g] \in Seq(RunRecord)
  BY DEF Shapes
<1>3. /\ Append(files[f], run) \in Seq(RunRecord)
      /\ Len(Append(files[f], run)) = Len(files[f]) + 1
      /\ \A id \in 1 .. Len(files[f]) : Append(files[f], run)[id] = files[f][id]
  BY <1>1, <1>2, AppendProperties
<1>4. files' = [files EXCEPT ![f] = Append(files[f], run)]
  BY DEF StartRun
<1>5. files' \in [1 .. NFiles -> Seq(RunRecord)]
  BY <1>3, <1>4 DEF Shapes
<1>6. \A id \in DOMAIN files[f] : id \in DOMAIN files'[f] /\ files'[f][id] = files[f][id]
  BY <1>2, <1>3, <1>4 DEF Shapes
<1>7. \A g \in 1 .. NFiles : \A id \in DOMAIN files[g] : Len(files[g][id].rows) \in Nat
  BY RunFields
<1>8. \A g \in (1 .. NFiles) \ {f} : files'[g] = files[g]
  BY <1>4 DEF Shapes
<1>9. \A g \in 1 .. NFiles : Grows(g)
  BY <1>6, <1>7, <1>8 DEF Grows
<1>10. FollowsSchedule'
  <2> SUFFICES ASSUME NEW g \in 1 .. NFiles, NEW id \in DOMAIN files'[g]
               PROVE  /\ Len(files'[g][id].rows) <= Len(files'[g][id].schedule)
                      /\ \A k \in 1 .. Len(files'[g][id].rows) :
                            files'[g][id].rows[k].task = files'[g][id].schedule[k]
    BY DEF FollowsSchedule
  <2>1. CASE id \in DOMAIN files[g]
    <3>1. files'[g][id] = files[g][id]
      BY <1>6, <1>8, <2>1
    <3> QED BY <2>1, <3>1 DEF FollowsSchedule
  <2>2. CASE id \notin DOMAIN files[g]
    <3>1. g = f /\ files'[f] = Append(files[f], run)
      BY <1>4, <1>8, <2>2 DEF Shapes
    <3>2. files'[g][id] = run
      BY <1>2, <1>3, <2>2, <3>1
    <3>3. files'[g][id].rows = <<>> /\ files'[g][id].schedule \in Seq(Tasks)
      BY <3>2, ComparisonAssumption DEF Tasks
    <3> QED BY <3>3
  <2> QED BY <2>1, <2>2
<1> QED BY <1>5, <1>9, <1>10

LEMMA RecordGrows ==
    ASSUME Shapes, FollowsSchedule, NEW f \in 1 .. NFiles, NEW id \in DOMAIN files[f], NEW o \in Outcomes,
           Record(f, id, o)
    PROVE  /\ files' \in [1 .. NFiles -> Seq(RunRecord)]
           /\ \A g \in 1 .. NFiles : Grows(g)
           /\ FollowsSchedule'
<1> DEFINE run == files[f][id]
           done == Len(run.rows)
           row == [task |-> run.schedule[done + 1], model |-> run.model, outcome |-> o]
           next == [run EXCEPT !.rows = Append(run.rows, row)]
<1>1. run \in RunRecord /\ run.rows \in Seq(Rows) /\ done \in Nat /\ done < Len(run.schedule)
  BY RunFields DEF Record
<1>2. row \in Rows
  <2>1. run.schedule \in Seq(DOMAIN SuiteOf) /\ run.model \in Models
    BY <1>1, ComparisonAssumption DEF RunRecord
  <2>2. done + 1 \in 1 .. Len(run.schedule)
    BY <1>1, <2>1
  <2>3. run.schedule[done + 1] \in Tasks
    BY <2>1, <2>2 DEF Tasks
  <2> QED BY <2>1, <2>3 DEF Rows
<1>3. Append(run.rows, row) \in Seq(Rows) /\ Len(Append(run.rows, row)) = done + 1
  BY <1>1, <1>2, AppendProperties
<1>4. next \in RunRecord /\ next.rows = Append(run.rows, row) /\ next.schedule = run.schedule
  BY <1>1, <1>3 DEF RunRecord
<1>5. files[f] \in Seq(RunRecord) /\ id \in 1 .. Len(files[f])
  BY RunFields
<1>6. files' = [files EXCEPT ![f] = [files[f] EXCEPT ![id] = next]]
  BY DEF Record
<1>7. /\ [files[f] EXCEPT ![id] = next] \in Seq(RunRecord)
      /\ Len([files[f] EXCEPT ![id] = next]) = Len(files[f])
  BY <1>4, <1>5, ExceptSeq
<1>8. files' \in [1 .. NFiles -> Seq(RunRecord)]
  BY <1>6, <1>7 DEF Shapes
<1>9. Grows(f)
  <2>1. files'[f] = [files[f] EXCEPT ![id] = next]
    BY <1>6 DEF Shapes
  <2>2. DOMAIN files'[f] = DOMAIN files[f] /\ files'[f][id] = next
    BY <1>5, <2>1
  <2>3. \A other \in DOMAIN files[f] \ {id} : files'[f][other] = files[f][other]
    BY <2>1
  <2>4. Len(files[f][id].rows) <= Len(files'[f][id].rows)
    <3>1. files'[f][id].rows = Append(run.rows, row)
      BY <1>4, <2>2
    <3>2. Len(files'[f][id].rows) = done + 1
      BY <1>3, <3>1
    <3> QED BY <1>1, <3>2
  <2>5. \A other \in DOMAIN files[f] \ {id} :
           Len(files[f][other].rows) <= Len(files'[f][other].rows)
    <3>1. \A other \in DOMAIN files[f] : Len(files[f][other].rows) \in Nat
      BY RunFields
    <3> QED BY <2>3, <3>1
  <2>6. files'[f][id].schedule = files[f][id].schedule
    BY <1>4, <2>2
  <2> HIDE DEF run, done, row, next
  <2> QED BY <2>2, <2>3, <2>4, <2>5, <2>6 DEF Grows
<1>10. \A g \in (1 .. NFiles) \ {f} : Grows(g)
  <2>1. \A g \in (1 .. NFiles) \ {f} : files'[g] = files[g]
    BY <1>6 DEF Shapes
  <2>2. \A g \in 1 .. NFiles : \A other \in DOMAIN files[g] : Len(files[g][other].rows) \in Nat
    BY RunFields
  <2> QED BY <2>1, <2>2 DEF Grows
<1>11. FollowsSchedule'
  <2> SUFFICES ASSUME NEW g \in 1 .. NFiles, NEW other \in DOMAIN files'[g]
               PROVE  /\ Len(files'[g][other].rows) <= Len(files'[g][other].schedule)
                      /\ \A k \in 1 .. Len(files'[g][other].rows) :
                            files'[g][other].rows[k].task = files'[g][other].schedule[k]
    BY DEF FollowsSchedule
  <2>1. DOMAIN files'[g] = DOMAIN files[g]
    BY <1>6 DEF Shapes
  <2>2. CASE g # f \/ other # id
    <3>1. files'[g][other] = files[g][other]
      BY <1>6, <2>1, <2>2 DEF Shapes
    <3> QED BY <2>1, <3>1 DEF FollowsSchedule
  <2>3. CASE g = f /\ other = id
    <3>1. files'[g][other] = next
      BY <1>6, <2>1, <2>3 DEF Shapes
    <3>2. files'[g][other].rows = Append(run.rows, row) /\ files'[g][other].schedule = run.schedule
      BY <1>4, <3>1
    <3>3. run.schedule \in Seq(DOMAIN SuiteOf)
      BY <1>1, ComparisonAssumption DEF RunRecord
    <3>4. \A k \in 1 .. done : run.rows[k].task = run.schedule[k]
      BY DEF FollowsSchedule
    <3>5. row.task = run.schedule[done + 1]
      OBVIOUS
    <3>6. \A k \in 1 .. done + 1 : Append(run.rows, row)[k] = IF k = done + 1 THEN row ELSE run.rows[k]
      <4> HIDE DEF row
      <4> QED BY <1>1
    <3> DEFINE longer == Append(run.rows, row)
    <3>7. Len(longer) = done + 1
      BY <1>3
    <3> HIDE DEF longer, row, next, done
    <3>8. \A k \in 1 .. done + 1 : longer[k].task = run.schedule[k]
      <4>1. \A k \in 1 .. done + 1 : longer[k] = IF k = done + 1 THEN row ELSE run.rows[k]
        BY <3>6 DEF longer
      <4>2. ASSUME NEW k \in 1 .. done + 1, k # done + 1
            PROVE  longer[k].task = run.schedule[k]
        <5>1. k \in 1 .. done
          BY <1>1, <4>2 DEF done
        <5> QED BY <3>4, <4>1, <4>2, <5>1
      <4>3. done + 1 \in 1 .. done + 1
        BY <1>1 DEF done
      <4>4. longer[done + 1].task = run.schedule[done + 1]
        BY <3>5, <4>1, <4>3
      <4> QED BY <4>2, <4>4
    <3>9. done + 1 <= Len(run.schedule)
      BY <1>1, <3>3
    <3> QED BY <3>2, <3>7, <3>8, <3>9 DEF longer
  <2> QED BY <2>2, <2>3
<1> QED BY <1>8, <1>9, <1>10, <1>11

(* Whatever the writers do between two queries, the reader loses nothing.    *)
LEMMA WritersIInv ==
    ASSUME IInv, Writers
    PROVE  IInv'
<1>1. /\ files' \in [1 .. NFiles -> Seq(RunRecord)]
      /\ \A g \in 1 .. NFiles : Grows(g)
      /\ FollowsSchedule'
  BY StartRunGrows, RecordGrows DEF IInv, Writers
<1>2. UNCHANGED reader
  BY DEF Writers, StartRun, Record
<1>3. Shapes' /\ Position'
  BY <1>1, <1>2 DEF IInv, Shapes, Position, reader
<1>4. PendingProper'
  BY <1>1, <1>2 DEF IInv, Shapes, PendingProper, Grows, reader
<1>5. StoredStays'
  <2> SUFFICES ASSUME step # "idle", NEW f \in 1 .. NFiles, NEW id \in DOMAIN atStart[f]
               PROVE  /\ id \in DOMAIN files'[f]
                      /\ atStart[f][id] \in Nat
                      /\ atStart[f][id] <= Len(files'[f][id].rows)
    BY <1>2 DEF StoredStays, reader
  <2>1. id \in DOMAIN files[f] /\ atStart[f][id] \in Nat /\ atStart[f][id] <= Len(files[f][id].rows)
    BY DEF IInv, StoredStays
  <2>2. id \in DOMAIN files'[f] /\ Len(files[f][id].rows) <= Len(files'[f][id].rows)
    BY <1>1, <2>1 DEF Grows
  <2>3. Len(files[f][id].rows) \in Nat /\ Len(files'[f][id].rows) \in Nat
    BY <1>3, <2>1, <2>2, RunFields, RunFieldsPrime DEF IInv
  <2> QED BY <2>1, <2>2, <2>3
<1>6. ReadsBehind' /\ ReadOnce'
  BY <1>2 DEF IInv, ReadsBehind, ReadOnce, IsRead, IsPending, Begun, reader
<1>7. CountedOrPending'
  BY <1>2 DEF IInv, CountedOrPending, IsCounted, IsPending, Begun, reader
<1>8. ReadsKept'
  <2> SUFFICES ASSUME NEW i \in DOMAIN reads PROVE Kept(i)'
    BY <1>2 DEF ReadsKept, reader
  <2>1. reads[i] \in (1 .. NFiles) \X Nat \X Nat
    BY DEF IInv, Shapes
  <2>2. reads[i][1] \in 1 .. NFiles
    BY <2>1
  <2>3. Kept(i)
    BY DEF IInv, ReadsKept
  <2> QED BY <1>1, <1>2, <2>2, <2>3 DEF Kept, Grows, reader
<1>9. ChunksFill'
  BY <1>2 DEF IInv, ChunksFill, Lengths, reader
<1> QED BY <1>1, <1>3, <1>4, <1>5, <1>6, <1>7, <1>8, <1>9 DEF IInv

-----------------------------------------------------------------------------
(* The reader.                                                               *)

LEMMA BeginIInv ==
    ASSUME IInv, Begin
    PROVE  IInv'
<1>1. /\ step = "idle" /\ step' = "listing"
      /\ at = 1 /\ reads = <<>> /\ pending = <<>>
      /\ UNCHANGED <<files, at, pending, got, reads>>
  BY DEF IInv, Position, Begin
<1>2. Shapes' /\ Position' /\ PendingProper'
  BY <1>1 DEF IInv, Shapes, Position, PendingProper
<1>3. ReadsBehind' /\ ReadOnce'
  BY <1>1 DEF ReadsBehind, ReadOnce, IsRead
<1>4. StoredStays'
  <2> SUFFICES ASSUME NEW f \in 1 .. NFiles, NEW id \in DOMAIN atStart'[f]
               PROVE  /\ id \in DOMAIN files[f]
                      /\ atStart'[f][id] \in Nat
                      /\ atStart'[f][id] <= Len(files[f][id].rows)
    BY <1>1 DEF StoredStays
  <2>1. atStart'[f] = [i \in DOMAIN files[f] |-> Len(files[f][i].rows)]
    BY DEF Begin, RowCounts
  <2>2. id \in DOMAIN files[f] /\ atStart'[f][id] = Len(files[f][id].rows)
    BY <2>1
  <2>3. Len(files[f][id].rows) \in Nat
    BY <2>2, RunFields DEF IInv
  <2> QED BY <2>2, <2>3
<1>5. CountedOrPending'
  BY <1>1 DEF IInv, Shapes, CountedOrPending, Begun
<1>6. FollowsSchedule' /\ ReadsKept'
  BY <1>1 DEF IInv, FollowsSchedule, ReadsKept, Kept
<1>7. ChunksFill'
  BY <1>1 DEF IInv, ChunksFill, Lengths
<1> QED BY <1>2, <1>3, <1>4, <1>5, <1>6, <1>7 DEF IInv

LEMMA ListRunsIInv ==
    ASSUME IInv, ListRuns
    PROVE  IInv'
<1>1. /\ step = "listing" /\ step' = "reading"
      /\ UNCHANGED <<files, at, got, reads, atStart>>
      /\ at \in 1 .. NFiles
  BY DEF IInv, Shapes, ListRuns
<1>2. files[at] \in Seq(RunRecord) /\ DOMAIN files[at] = 1 .. Len(files[at]) /\ Len(files[at]) \in Nat
  <2>1. files[at] \in Seq(RunRecord)
    BY <1>1 DEF IInv, Shapes
  <2> QED BY <2>1
<1>3. /\ DOMAIN pending' = DOMAIN files[at]
      /\ Len(pending') = Len(files[at])
      /\ \A i \in DOMAIN pending' : pending'[i] = Len(files[at]) - i + 1
  <2> DEFINE ids == [id \in DOMAIN files[at] |-> id]
  <2>1. ids \in Seq(Nat) /\ Len(ids) = Len(files[at])
    BY <1>2
  <2>2. pending' = [i \in 1 .. Len(ids) |-> ids[(Len(ids) - i) + 1]]
    BY DEF ListRuns, Reverse
  <2> QED BY <1>2, <2>1, <2>2
<1>4. pending' \in Seq(Nat)
  <2>1. pending' = [i \in 1 .. Len(files[at]) |-> Len(files[at]) - i + 1]
    BY <1>2, <1>3 DEF ListRuns, Reverse
  <2> QED BY <1>2, <2>1
<1>5. Shapes' /\ Position'
  BY <1>1, <1>4 DEF IInv, Shapes, Position
<1>6. PendingProper'
  BY <1>1, <1>2, <1>3 DEF PendingProper
<1>7. StoredStays'
  BY <1>1 DEF IInv, StoredStays
<1>8. ReadsBehind'
  <2>1. \A f \in 1 .. NFiles, id \in Nat : IsRead(f, id) => f < at
    BY <1>1 DEF IInv, ReadsBehind, Begun
  <2> QED BY <1>1, <2>1 DEF ReadsBehind, IsRead, IsPending, Begun
<1>9. ReadOnce'
  BY <1>1 DEF IInv, ReadOnce
<1>10. CountedOrPending'
  <2> SUFFICES ASSUME NEW f \in 1 .. NFiles, NEW id \in DOMAIN atStart[f], Begun(f)'
               PROVE  IsCounted(f, id)' \/ IsPending(f, id)'
    BY <1>1 DEF CountedOrPending
  <2>1. CASE f < at
    BY <1>1, <2>1 DEF IInv, CountedOrPending, IsCounted, IsPending, Begun, Shapes
  <2>2. CASE f = at
    <3>1. id \in 1 .. Len(files[at])
      BY <1>1, <1>2, <2>2 DEF IInv, StoredStays
    <3>2. Len(files[at]) - id + 1 \in DOMAIN pending' /\ pending'[Len(files[at]) - id + 1] = id
      BY <1>2, <1>3, <3>1
    <3> QED BY <1>1, <2>2, <3>2 DEF IsPending
  <2> QED BY <1>1, <2>1, <2>2 DEF Begun
<1>11. FollowsSchedule' /\ ReadsKept'
  BY <1>1 DEF IInv, FollowsSchedule, ReadsKept, Kept
<1>12. ChunksFill'
  BY <1>1 DEF IInv, ChunksFill, Lengths
<1> QED BY <1>5, <1>6, <1>7, <1>8, <1>9, <1>10, <1>11, <1>12 DEF IInv

LEMMA ReadAttemptsIInv ==
    ASSUME IInv, ReadAttempts
    PROVE  IInv'
<1>0. PICK id : id = Head(pending)
  OBVIOUS
<1> DEFINE rows == files[at][id].rows
           query == <<at, id, Len(rows)>>
<1>1. /\ step = "reading" /\ pending \in Seq(Nat) /\ pending # <<>> /\ at \in 1 .. NFiles
      /\ got \in Seq(Rows) /\ reads \in Seq((1 .. NFiles) \X Nat \X Nat)
      /\ UNCHANGED <<files, step, at, atStart>>
      /\ got' = got \o rows /\ reads' = Append(reads, query) /\ pending' = Tail(pending)
  BY <1>0 DEF IInv, Shapes, ReadAttempts
<1>2. /\ DOMAIN pending = 1 .. Len(pending) /\ Len(pending) \in Nat \ {0} /\ id = pending[1]
      /\ pending' \in Seq(Nat) /\ Len(pending') = Len(pending) - 1
      /\ DOMAIN pending' = 1 .. Len(pending) - 1
      /\ \A i \in DOMAIN pending' : pending'[i] = pending[i + 1]
  <2>1. /\ Len(pending) \in Nat \ {0} /\ id = pending[1]
        /\ pending' \in Seq(Nat) /\ Len(pending') = Len(pending) - 1
        /\ \A i \in 1 .. Len(pending') : pending'[i] = pending[i + 1]
    BY <1>0, <1>1, HeadTailProperties
  <2>2. DOMAIN pending = 1 .. Len(pending) /\ DOMAIN pending' = 1 .. Len(pending')
    BY <1>1, <2>1
  <2> QED BY <2>1, <2>2
<1>3. id \in DOMAIN files[at] /\ id \in Nat
  <2>1. 1 \in DOMAIN pending
    BY <1>2
  <2>2. pending[1] \in Nat
    BY <1>1, <2>1
  <2> QED BY <1>2, <2>1, <2>2 DEF IInv, PendingProper
<1>4. rows \in Seq(Rows) /\ Len(rows) \in Nat
  BY <1>1, <1>3, RunFields DEF IInv
<1>5. query \in (1 .. NFiles) \X Nat \X Nat
  BY <1>1, <1>3, <1>4
<1>6. /\ reads' \in Seq((1 .. NFiles) \X Nat \X Nat)
      /\ DOMAIN reads' = DOMAIN reads \cup {Len(reads) + 1}
      /\ reads'[Len(reads) + 1] = query
      /\ \A i \in DOMAIN reads : reads'[i] = reads[i]
  <2> HIDE DEF query
  <2>1. /\ reads' \in Seq((1 .. NFiles) \X Nat \X Nat) /\ Len(reads') = Len(reads) + 1
        /\ reads'[Len(reads) + 1] = query
        /\ \A i \in 1 .. Len(reads) : reads'[i] = reads[i]
    BY <1>1, <1>5, AppendProperties
  <2>2. DOMAIN reads = 1 .. Len(reads) /\ DOMAIN reads' = 1 .. Len(reads') /\ Len(reads) \in Nat
    BY <1>1, <2>1
  <2> QED BY <2>1, <2>2
<1>7. query[1] = at /\ query[2] = id /\ query[3] = Len(rows)
  OBVIOUS
<1> HIDE DEF query, rows
<1>8. got' \in Seq(Rows)
  BY <1>1, <1>4, ConcatProperties
<1>9. Shapes' /\ Position'
  BY <1>1, <1>2, <1>6, <1>8 DEF IInv, Shapes, Position
<1>10. PendingProper'
  <2>1. \A i \in DOMAIN pending' : i + 1 \in DOMAIN pending
    BY <1>2
  <2>2. \A i, j \in DOMAIN pending' : i + 1 = j + 1 => i = j
    BY <1>2
  <2> QED BY <1>1, <1>2, <2>1, <2>2 DEF IInv, PendingProper
<1>11. StoredStays'
  BY <1>1 DEF IInv, StoredStays
<1>12. \A f \in 1 .. NFiles, r \in Nat : IsRead(f, r)' <=> IsRead(f, r) \/ (f = at /\ r = id)
  BY <1>6, <1>7 DEF IsRead
<1>13. \A f \in 1 .. NFiles, r \in Nat :
          IsPending(f, r) <=> IsPending(f, r)' \/ (f = at /\ r = id)
  <2>1. \A r \in Nat : (\E i \in DOMAIN pending : pending[i] = r)
                          <=> (\E i \in DOMAIN pending' : pending'[i] = r) \/ r = id
    <3>1. \A i \in DOMAIN pending : i = 1 \/ i - 1 \in DOMAIN pending'
      BY <1>2
    <3>2. \A i \in DOMAIN pending \ {1} : pending'[i - 1] = pending[i]
      BY <1>2, <3>1
    <3>3. \A i \in DOMAIN pending' : i + 1 \in DOMAIN pending
      BY <1>2
    <3> QED BY <1>2, <3>1, <3>2, <3>3
  <2> QED BY <1>1, <2>1 DEF IsPending
<1>14. ~IsPending(at, id)'
  <2>1. \A i \in DOMAIN pending' : i + 1 \in DOMAIN pending /\ i + 1 # 1 /\ 1 \in DOMAIN pending
    BY <1>2
  <2>2. \A i \in DOMAIN pending' : pending'[i] # id
    BY <1>2, <2>1 DEF IInv, PendingProper
  <2> QED BY <1>1, <2>2 DEF IsPending
<1>15. ReadsBehind'
  <2>1. \A f : Begun(f)' <=> Begun(f)
    BY <1>1 DEF Begun
  <2>2. Begun(at)
    BY <1>1 DEF Begun
  <2> SUFFICES ASSUME NEW f \in 1 .. NFiles, NEW r \in Nat, IsRead(f, r)'
               PROVE  Begun(f)' /\ ~IsPending(f, r)'
    BY DEF ReadsBehind
  <2>3. CASE f = at /\ r = id
    BY <1>1, <1>14, <2>1, <2>2, <2>3
  <2>4. CASE IsRead(f, r)
    BY <1>13, <2>1, <2>4 DEF IInv, ReadsBehind
  <2> QED BY <1>12, <2>3, <2>4
<1>16. ReadOnce'
  <2>1. ~IsRead(at, id)
    <3>1. IsPending(at, id)
      BY <1>2 DEF IsPending
    <3> QED BY <1>1, <1>3, <3>1 DEF IInv, ReadsBehind
  <2>2. \A i \in DOMAIN reads : ~(reads[i][1] = at /\ reads[i][2] = id)
    BY <2>1 DEF IsRead
  <2> QED BY <1>6, <1>7, <2>2 DEF IInv, ReadOnce
<1>17. CountedOrPending'
  <2> SUFFICES ASSUME NEW f \in 1 .. NFiles, NEW r \in DOMAIN atStart[f], Begun(f)
               PROVE  IsCounted(f, r)' \/ IsPending(f, r)'
    BY <1>1 DEF CountedOrPending, Begun
  <2>1. r \in DOMAIN files[f] /\ atStart[f][r] \in Nat /\ atStart[f][r] <= Len(files[f][r].rows)
    BY <1>1 DEF IInv, StoredStays
  <2>2. r \in Nat
    BY <2>1, RunFields DEF IInv
  <2>3. CASE IsCounted(f, r)
    BY <1>1, <1>6, <2>3 DEF IsCounted
  <2>4. CASE IsPending(f, r)'
    BY <2>4
  <2>5. CASE f = at /\ r = id
    <3>1. atStart[f][r] <= query[3]
      BY <1>7, <2>1, <2>5 DEF rows
    <3> QED BY <1>1, <1>6, <1>7, <2>5, <3>1 DEF IsCounted
  <2>6. IsCounted(f, r) \/ IsPending(f, r)
    BY <1>1 DEF IInv, CountedOrPending
  <2> QED BY <1>13, <2>2, <2>3, <2>4, <2>5, <2>6
<1>18. FollowsSchedule'
  BY <1>1 DEF IInv, FollowsSchedule
<1>19. /\ DOMAIN got' = 1 .. Len(got) + Len(rows) /\ DOMAIN got = 1 .. Len(got) /\ Len(got) \in Nat
       /\ Len(got') = Len(got) + Len(rows)
       /\ \A p \in 1 .. Len(got) : got'[p] = got[p]
       /\ \A k \in 1 .. Len(rows) : got'[Len(got) + k] = rows[k]
  BY <1>1, <1>4
<1>20. ReadsKept'
  <2> SUFFICES ASSUME NEW i \in DOMAIN reads' PROVE Kept(i)'
    BY DEF ReadsKept
  <2>1. CASE i \in DOMAIN reads
    <3>1. Kept(i)
      BY <2>1 DEF IInv, ReadsKept
    <3>2. reads'[i] = reads[i]
      BY <1>6, <2>1
    <3>3. \A p \in DOMAIN got : p \in DOMAIN got' /\ got'[p] = got[p]
      BY <1>4, <1>19
    <3> QED BY <1>1, <3>1, <3>2, <3>3 DEF Kept
  <2>2. CASE i = Len(reads) + 1
    <3>1. reads'[i] = query
      BY <1>6, <2>2
    <3>2. files[at][id] \in RunRecord
      BY <1>1, <1>3, RunFields DEF IInv
    <3>3. files[at][id].schedule \in Seq(DOMAIN SuiteOf)
      BY <3>2, ComparisonAssumption DEF RunRecord
    <3>4. Len(rows) <= Len(files[at][id].schedule)
      BY <1>1, <1>3 DEF IInv, FollowsSchedule, rows
    <3>5. \A k \in 1 .. Len(rows) : k \in DOMAIN files[at][id].schedule
      BY <1>4, <3>3, <3>4
    <3>6. \A k \in 1 .. Len(rows) : rows[k].task = files[at][id].schedule[k]
      BY <1>1, <1>3 DEF IInv, FollowsSchedule, rows
    <3>7. \A k \in 1 .. Len(rows) : Len(got) + k \in DOMAIN got'
      BY <1>4, <1>19
    <3>8. \A k \in 1 .. Len(rows) : \E p \in DOMAIN got' : got'[p].task = files[at][id].schedule[k]
      BY <1>19, <3>6, <3>7
    <3> QED BY <1>1, <1>3, <1>7, <3>1, <3>5, <3>8 DEF Kept
  <2> QED BY <1>6, <2>1, <2>2
<1>21. ChunksFill'
  <2> DEFINE n == Len(reads)
             old == Lengths
             new == Lengths'
  <2>1. n \in Nat /\ DOMAIN reads = 1 .. n /\ DOMAIN reads' = 1 .. n + 1
    BY <1>1, <1>6
  <2>2. \A i \in 1 .. n : old[i] = new[i] /\ new[i] \in Nat
    <3>1. \A i \in 1 .. n : reads[i] \in (1 .. NFiles) \X Nat \X Nat
      BY <1>1, <2>1
    <3>2. \A i \in 1 .. n : old[i] = reads[i][3] /\ new[i] = reads'[i][3] /\ reads'[i] = reads[i]
      BY <1>6, <2>1 DEF Lengths
    <3> QED BY <3>1, <3>2
  <2>3. new[n + 1] = Len(rows)
    BY <1>6, <1>7, <2>1 DEF Lengths
  <2> HIDE DEF old, new
  <2>4. IsFiniteSet(1 .. n) /\ IsFiniteSet(1 .. n + 1)
    <3>1. 1 \in Int /\ n \in Int /\ n + 1 \in Int
      BY <2>1
    <3> QED BY <3>1, FS_Interval
  <2>5. SumFunctionOnSet(old, 1 .. n) = SumFunctionOnSet(new, 1 .. n)
    BY <2>2, <2>4, SumSame
  <2>6. \A i \in 1 .. n + 1 : new[i] \in Nat
    <3>1. \A i \in 1 .. n + 1 : i = n + 1 \/ i \in 1 .. n
      BY <2>1
    <3> QED BY <1>4, <2>2, <2>3, <3>1
  <2>7. SumFunctionOnSet(new, 1 .. n + 1) = new[n + 1] + SumFunctionOnSet(new, (1 .. n + 1) \ {n + 1})
    <3>1. n + 1 \in 1 .. n + 1
      BY <2>1
    <3> QED BY <2>4, <2>6, <3>1, SumAny
  <2>8. (1 .. n + 1) \ {n + 1} = 1 .. n
    BY <2>1
  <2>9. SumFunctionOnSet(old, 1 .. n) = Len(got)
    BY <2>1 DEF IInv, ChunksFill, old
  <2>10. SumFunctionOnSet(new, DOMAIN reads') = Len(got')
    <3>1. SumFunctionOnSet(new, DOMAIN reads') = SumFunctionOnSet(new, 1 .. n + 1)
      BY <2>1
    <3>2. SumFunctionOnSet(new, 1 .. n + 1) = Len(rows) + SumFunctionOnSet(new, 1 .. n)
      BY <2>3, <2>7, <2>8
    <3>3. SumFunctionOnSet(new, 1 .. n) = Len(got)
      BY <2>5, <2>9
    <3>4. Len(rows) \in Nat
      BY <1>4
    <3>5. Len(rows) + Len(got) = Len(got) + Len(rows)
      BY <1>19, <3>4
    <3>6. SumFunctionOnSet(new, DOMAIN reads') = Len(rows) + Len(got)
      BY <3>1, <3>2, <3>3
    <3> QED BY <1>19, <3>5, <3>6
  <2> QED BY <2>10 DEF ChunksFill, new
<1> QED BY <1>9, <1>10, <1>11, <1>15, <1>16, <1>17, <1>18, <1>20, <1>21 DEF IInv

LEMMA NextFileIInv ==
    ASSUME IInv, NextFile
    PROVE  IInv'
<1>1. /\ step = "reading" /\ pending = <<>> /\ at \in 1 .. NFiles
      /\ UNCHANGED <<files, pending, got, reads, atStart>>
      /\ \/ at < NFiles /\ at' = at + 1 /\ step' = "listing"
         \/ at = NFiles /\ at' = at /\ step' = "done"
  BY ComparisonAssumption DEF IInv, Shapes, NextFile
<1>2. at' \in 1 .. NFiles /\ step' \in {"listing", "done"}
  BY <1>1, ComparisonAssumption
<1>3. Shapes' /\ Position'
  BY <1>1, <1>2 DEF IInv, Shapes, Position
<1>4. PendingProper' /\ StoredStays' /\ ReadOnce'
  BY <1>1 DEF IInv, PendingProper, StoredStays, ReadOnce
<1>5. \A f \in 1 .. NFiles : Begun(f)' <=> Begun(f)
  BY <1>1, ComparisonAssumption DEF Begun
<1>6. \A f, r : ~IsPending(f, r) /\ ~IsPending(f, r)'
  BY <1>1 DEF IsPending
<1>7. ReadsBehind'
  BY <1>1, <1>5, <1>6 DEF IInv, ReadsBehind, IsRead
<1>8. CountedOrPending'
  BY <1>1, <1>5, <1>6 DEF IInv, CountedOrPending, IsCounted
<1>9. FollowsSchedule' /\ ReadsKept'
  BY <1>1 DEF IInv, FollowsSchedule, ReadsKept, Kept
<1>10. ChunksFill'
  BY <1>1 DEF IInv, ChunksFill, Lengths
<1> QED BY <1>3, <1>4, <1>7, <1>8, <1>9, <1>10 DEF IInv

LEMMA NextIInv ==
    ASSUME IInv, [Next]_vars
    PROVE  IInv'
<1>1. CASE Writers
  BY <1>1, WritersIInv
<1>2. CASE Begin
  BY <1>2, BeginIInv
<1>3. CASE ListRuns
  BY <1>3, ListRunsIInv
<1>4. CASE ReadAttempts
  BY <1>4, ReadAttemptsIInv
<1>5. CASE NextFile
  BY <1>5, NextFileIInv
<1>6. CASE UNCHANGED vars
  <2>1. UNCHANGED <<files, step, at, pending, got, reads, atStart>>
    BY <1>6 DEF vars
  <2>2. (Shapes /\ Position /\ PendingProper /\ StoredStays)'
    BY <2>1 DEF IInv, Shapes, Position, PendingProper, StoredStays
  <2>3. (ReadsBehind /\ ReadOnce /\ CountedOrPending)'
    BY <2>1 DEF IInv, ReadsBehind, ReadOnce, CountedOrPending, Begun, IsPending, IsRead, IsCounted
  <2>4. FollowsSchedule'
    BY <2>1 DEF IInv, FollowsSchedule
  <2>5. ReadsKept'
    BY <2>1 DEF IInv, ReadsKept, Kept
  <2>6. ChunksFill'
    BY <2>1 DEF IInv, ChunksFill, Lengths
  <2> QED BY <2>2, <2>3, <2>4, <2>5, <2>6 DEF IInv
<1> QED BY <1>1, <1>2, <1>3, <1>4, <1>5, <1>6 DEF Next, Reader

LEMMA Invariant == Spec => []IInv
BY InitIInv, NextIInv, PTL DEF Spec

(* Files, runs and rows keep their shape, and the reader only ever asks for  *)
(* runs that are in the file it has open.                                    *)
THEOREM TypeCorrect == Spec => []TypeOK
<1>1. IInv => TypeOK
  BY ShapesGiveType DEF IInv
<1> QED BY <1>1, Invariant, PTL

(* aggregate's two loops lose no row that was stored when they began and     *)
(* read no run twice, however many `bench run` write meanwhile.              *)
THEOREM RowsCountedOnce == Spec => []EveryStoredRowCountedOnce
<1>1. IInv => EveryStoredRowCountedOnce
  <2> SUFFICES ASSUME IInv, step = "done" PROVE EveryStoredRowCountedOnce
    BY DEF EveryStoredRowCountedOnce
  <2>1. \A f \in 1 .. NFiles : \A id \in DOMAIN atStart[f] : IsCounted(f, id)
    <3>1. at = NFiles /\ pending = <<>>
      BY DEF IInv, Position
    <3>2. \A f \in 1 .. NFiles : Begun(f)
      BY <3>1, ComparisonAssumption DEF Begun
    <3> QED BY <3>1, <3>2 DEF IInv, CountedOrPending, IsPending
  <2> QED BY <2>1 DEF IInv, ReadOnce, IsCounted, EveryStoredRowCountedOnce
<1> QED BY <1>1, Invariant, PTL

(* A model that was not graded on every task that was seen is below the      *)
(* complete ones, and no model is complete that was not graded on the whole  *)
(* schedule of a run which was read whole (aggregate, plot_comparison).      *)
THEOREM CompleteOnTop == Spec => []IncompleteNeverOnTop
<1>1. ASSUME IInv PROVE IncompleteNeverOnTop
  <2>1. got \in Seq(Rows)
    BY <1>1 DEF IInv, Shapes
  <2>2. \A i, j \in DOMAIN Figure(got) :
           (i < j /\ Rated(Figure(got)[i]) /\ Figure(got)[i].complete) => Figure(got)[j].complete
    BY <2>1, CompleteAbove
  <2>3. ASSUME NEW e \in Entries(got), NEW i \in DOMAIN reads, e.complete, WholeRun(i)
        PROVE  ToSet(files[reads[i][1]][reads[i][2]].schedule) \subseteq TasksOf(got, Graded(got, e.model))
    <3> DEFINE f == reads[i][1]
               id == reads[i][2]
               schedule == files[f][id].schedule
    <3>1. Kept(i) /\ reads[i] \in (1 .. NFiles) \X Nat \X Nat
      BY <1>1 DEF IInv, ReadsKept, Shapes
    <3>2. f \in 1 .. NFiles /\ id \in DOMAIN files[f]
      BY <3>1 DEF Kept
    <3>3. schedule \in Seq(DOMAIN SuiteOf)
      <4>1. files[f][id] \in RunRecord
        BY <1>1, <3>2, RunFields DEF IInv
      <4> QED BY <4>1, ComparisonAssumption DEF RunRecord
    <3>4. DOMAIN schedule = 1 .. reads[i][3]
      BY <2>3, <3>3 DEF WholeRun
    <3>5. \A k \in DOMAIN schedule : schedule[k] \in TasksOf(got, DOMAIN got)
      BY <3>1, <3>4 DEF Kept, TasksOf
    <3>6. ToSet(schedule) \subseteq TasksOf(got, DOMAIN got)
      BY <3>5 DEF ToSet
    <3> QED BY <2>1, <2>3, <3>6, CompleteSawAll
  <2> QED BY <2>2, <2>3 DEF IncompleteNeverOnTop
<1> QED BY <1>1, Invariant, PTL

(* Whatever is in the files and whenever it was written, the numbers of the  *)
(* comparison reconcile with each other, and with those of the reports of    *)
(* the same rows (aggregate, summarize_by_model, summarize_by_task).         *)
THEOREM NumbersAgree == Spec => []PublishedNumbersAgree
<1>1. ASSUME IInv PROVE PublishedNumbersAgree
  <2>1. Queries
    BY <1>1 DEF IInv, Shapes, Queries
  <2>2. got \in Seq(Rows)
    BY <2>1 DEF Queries
  <2> QED BY <2>1, <2>2, Reconciled, ReportsAddUp DEF PublishedNumbersAgree
<1> QED BY <1>1, Invariant, PTL

-----------------------------------------------------------------------------
(* Every query saw a prefix of what its run holds.                           *)

\* What a file had stays as it was, run by run and row by row.
RunsStay ==
    \A f \in 1 .. NFiles : \A id \in DOMAIN files[f] :
        /\ id \in DOMAIN files'[f]
        /\ files'[f][id].model = files[f][id].model
        /\ files'[f][id].schedule = files[f][id].schedule
        /\ Len(files[f][id].rows) <= Len(files'[f][id].rows)
        /\ \A k \in 1 .. Len(files[f][id].rows) : files'[f][id].rows[k] = files[f][id].rows[k]

\* The rows of a run are of its model.
OneModel ==
    \A f \in 1 .. NFiles : \A id \in DOMAIN files[f] :
        \A k \in 1 .. Len(files[f][id].rows) : files[f][id].rows[k].model = files[f][id].model

LEMMA StartRunStays ==
    ASSUME Shapes, OneModel, NEW f \in 1 .. NFiles, NEW m \in Models, NEW s \in Schedules,
           StartRun(f, m, s)
    PROVE  RunsStay /\ OneModel'
<1> DEFINE run == [model |-> m, schedule |-> s, rows |-> <<>>]
<1>1. run \in RunRecord
  BY DEF RunRecord
<1>2. files[f] \in Seq(RunRecord)
  BY DEF Shapes
<1>3. /\ DOMAIN Append(files[f], run) = 1 .. Len(files[f]) + 1 /\ Len(files[f]) \in Nat
      /\ DOMAIN files[f] = 1 .. Len(files[f])
      /\ Append(files[f], run)[Len(files[f]) + 1] = run
      /\ \A id \in 1 .. Len(files[f]) : Append(files[f], run)[id] = files[f][id]
  BY <1>1, <1>2, AppendProperties
<1>4. run.rows = <<>>
  OBVIOUS
<1> HIDE DEF run
<1>5. /\ files'[f] = Append(files[f], run)
      /\ \A g \in (1 .. NFiles) \ {f} : files'[g] = files[g]
  BY DEF StartRun, Shapes, run
<1>6. \A g \in 1 .. NFiles : \A id \in DOMAIN files[g] :
         id \in DOMAIN files'[g] /\ files'[g][id] = files[g][id]
  BY <1>3, <1>5
<1>7. \A g \in 1 .. NFiles : \A id \in DOMAIN files[g] : Len(files[g][id].rows) \in Nat
  BY RunFields
<1>8. RunsStay
  BY <1>6, <1>7 DEF RunsStay
<1>9. \A g \in 1 .. NFiles : \A id \in DOMAIN files'[g] :
         id \in DOMAIN files[g] \/ files'[g][id] = run
  BY <1>3, <1>5
<1>10. OneModel'
  <2> SUFFICES ASSUME NEW g \in 1 .. NFiles, NEW id \in DOMAIN files'[g],
                      NEW k \in 1 .. Len(files'[g][id].rows)
               PROVE  files'[g][id].rows[k].model = files'[g][id].model
    BY DEF OneModel
  <2>1. CASE id \in DOMAIN files[g]
    BY <1>6, <2>1 DEF OneModel
  <2>2. CASE files'[g][id] = run
    <3>1. Len(files'[g][id].rows) = 0
      BY <1>4, <2>2
    <3> QED BY <3>1
  <2> QED BY <1>9, <2>1, <2>2
<1> QED BY <1>8, <1>10

LEMMA RecordStays ==
    ASSUME Shapes, OneModel, NEW f \in 1 .. NFiles, NEW id \in DOMAIN files[f], NEW o \in Outcomes,
           Record(f, id, o)
    PROVE  RunsStay /\ OneModel'
<1> DEFINE run == files[f][id]
           done == Len(run.rows)
           row == [task |-> run.schedule[done + 1], model |-> run.model, outcome |-> o]
           longer == Append(run.rows, row)
           next == [run EXCEPT !.rows = longer]
<1>1. run \in RunRecord /\ run.rows \in Seq(Rows) /\ done \in Nat
  BY RunFields
<1>2. /\ next.model = run.model /\ next.schedule = run.schedule /\ next.rows = longer
      /\ row.model = run.model
  BY <1>1 DEF RunRecord
<1>3. files' = [files EXCEPT ![f] = [files[f] EXCEPT ![id] = next]]
  BY DEF Record
<1>4. /\ Len(longer) = done + 1
      /\ \A k \in 1 .. done + 1 : longer[k] = IF k = done + 1 THEN row ELSE run.rows[k]
  <2> HIDE DEF row
  <2> QED BY <1>1
<1> HIDE DEF next, longer, row
<1>5. /\ \A g \in 1 .. NFiles : DOMAIN files'[g] = DOMAIN files[g]
      /\ files'[f][id] = next
      /\ \A g \in 1 .. NFiles : \A other \in DOMAIN files[g] :
            g # f \/ other # id => files'[g][other] = files[g][other]
  BY <1>3 DEF Shapes
<1>6. \A g \in 1 .. NFiles : \A other \in DOMAIN files[g] : Len(files[g][other].rows) \in Nat
  BY RunFields
<1>7. RunsStay
  <2> SUFFICES ASSUME NEW g \in 1 .. NFiles, NEW other \in DOMAIN files[g]
               PROVE  /\ files'[g][other].model = files[g][other].model
                      /\ files'[g][other].schedule = files[g][other].schedule
                      /\ Len(files[g][other].rows) <= Len(files'[g][other].rows)
                      /\ \A k \in 1 .. Len(files[g][other].rows) :
                            files'[g][other].rows[k] = files[g][other].rows[k]
    BY <1>5 DEF RunsStay
  <2>1. CASE g = f /\ other = id
    <3>1. \A k \in 1 .. done : k \in 1 .. done + 1 /\ k # done + 1
      BY <1>1
    <3>2. \A k \in 1 .. done : longer[k] = run.rows[k]
      <4> HIDE DEF done, run
      <4> QED BY <1>4, <3>1
    <3>3. done <= Len(longer)
      BY <1>1, <1>4
    <3> QED BY <1>2, <1>5, <2>1, <3>2, <3>3
  <2>2. CASE g # f \/ other # id
    BY <1>5, <1>6, <2>2
  <2> QED BY <2>1, <2>2
<1>8. OneModel'
  <2> SUFFICES ASSUME NEW g \in 1 .. NFiles, NEW other \in DOMAIN files[g],
                      NEW k \in 1 .. Len(files'[g][other].rows)
               PROVE  files'[g][other].rows[k].model = files'[g][other].model
    BY <1>5 DEF OneModel
  <2>1. CASE g = f /\ other = id
    <3>1. k = done + 1 \/ k \in 1 .. done
      BY <1>1, <1>2, <1>4, <1>5, <2>1
    <3>2. k \in 1 .. done => run.rows[k].model = run.model
      BY DEF OneModel
    <3>3. k \in 1 .. done + 1 /\ (k \in 1 .. done => k # done + 1)
      BY <1>1, <3>1
    <3>4. longer[k].model = run.model
      BY <1>2, <1>4, <3>1, <3>2, <3>3
    <3> QED BY <1>2, <1>5, <2>1, <3>4
  <2>2. CASE g # f \/ other # id
    BY <1>5, <2>2 DEF OneModel
  <2> QED BY <2>1, <2>2
<1> QED BY <1>7, <1>8

\* The i-th query returned the first rows of a stored run.
SawPrefix(i) ==
    LET f == reads[i][1]
        id == reads[i][2]
    IN  /\ f \in 1 .. NFiles /\ id \in DOMAIN files[f]
        /\ reads[i][3] <= Len(files[f][id].rows)
        /\ \A k \in 1 .. reads[i][3] : got[Before(Lengths, i) + k] = files[f][id].rows[k]

PrefixInv == OneModel /\ \A i \in DOMAIN reads : SawPrefix(i)

LEMMA WritersKeepPrefixes ==
    ASSUME IInv, PrefixInv, Writers
    PROVE  PrefixInv'
<1>1. RunsStay /\ OneModel'
  BY StartRunStays, RecordStays DEF IInv, PrefixInv, Writers
<1>2. UNCHANGED <<got, reads>>
  BY DEF Writers, StartRun, Record, reader
<1>3. ASSUME NEW i \in DOMAIN reads PROVE SawPrefix(i)'
  <2> DEFINE f == reads[i][1]
             id == reads[i][2]
             n == reads[i][3]
  <2>1. /\ f \in 1 .. NFiles /\ id \in DOMAIN files[f] /\ n <= Len(files[f][id].rows)
        /\ \A k \in 1 .. n : got[Before(Lengths, i) + k] = files[f][id].rows[k]
    BY <1>3 DEF PrefixInv, SawPrefix
  <2>2. n \in Nat /\ Len(files[f][id].rows) \in Nat
    <3>1. reads[i] \in (1 .. NFiles) \X Nat \X Nat
      BY <1>3 DEF IInv, Shapes
    <3> QED BY <2>1, <3>1, RunFields DEF IInv
  <2>3. /\ id \in DOMAIN files'[f] /\ Len(files[f][id].rows) <= Len(files'[f][id].rows)
        /\ \A k \in 1 .. Len(files[f][id].rows) : files'[f][id].rows[k] = files[f][id].rows[k]
    BY <1>1, <2>1 DEF RunsStay
  <2>4. Shapes'
    BY StartRunGrows, RecordGrows, <1>2 DEF IInv, Writers, Shapes, StartRun, Record, reader
  <2>5. Len(files'[f][id].rows) \in Nat
    BY <2>1, <2>3, <2>4, RunFieldsPrime
  <2>6. /\ n <= Len(files'[f][id].rows)
        /\ \A k \in 1 .. n : files'[f][id].rows[k] = files[f][id].rows[k]
    <3>1. \A k \in 1 .. n : k \in 1 .. Len(files[f][id].rows)
      BY <2>1, <2>2
    <3>2. n <= Len(files'[f][id].rows)
      <4>1. \A a, b, c \in Nat : a <= b /\ b <= c => a <= c
        OBVIOUS
      <4> HIDE DEF n
      <4> QED BY <2>1, <2>2, <2>3, <2>5, <4>1
    <3> QED BY <2>3, <3>1, <3>2
  <2>7. Lengths' = Lengths
    BY <1>2 DEF Lengths
  <2> QED BY <1>2, <2>1, <2>3, <2>6, <2>7 DEF SawPrefix, Before
<1> QED BY <1>1, <1>2, <1>3 DEF PrefixInv

LEMMA ReadKeepsPrefixes ==
    ASSUME IInv, PrefixInv, ReadAttempts
    PROVE  PrefixInv'
<1>0. PICK id : id = Head(pending)
  OBVIOUS
<1> DEFINE rows == files[at][id].rows
           query == <<at, id, Len(rows)>>
           n == Len(reads)
<1>1. /\ pending \in Seq(Nat) /\ pending # <<>> /\ at \in 1 .. NFiles
      /\ got \in Seq(Rows) /\ reads \in Seq((1 .. NFiles) \X Nat \X Nat)
      /\ UNCHANGED files
      /\ got' = got \o rows /\ reads' = Append(reads, query)
  BY <1>0 DEF IInv, Shapes, ReadAttempts
<1>2. id \in DOMAIN files[at] /\ id \in Nat
  <2>1. Len(pending) \in Nat \ {0} /\ id = pending[1]
    BY <1>0, <1>1, HeadTailProperties
  <2>2. 1 \in DOMAIN pending /\ pending[1] \in Nat
    BY <1>1, <2>1
  <2> QED BY <2>1, <2>2 DEF IInv, PendingProper
<1>3. rows \in Seq(Rows) /\ Len(rows) \in Nat
  BY <1>1, <1>2, RunFields DEF IInv
<1>4. query \in (1 .. NFiles) \X Nat \X Nat /\ query[1] = at /\ query[2] = id /\ query[3] = Len(rows)
  BY <1>1, <1>2, <1>3
<1> HIDE DEF query, rows
<1>5. /\ n \in Nat /\ DOMAIN reads = 1 .. n /\ DOMAIN reads' = 1 .. n + 1
      /\ reads'[n + 1] = query
      /\ \A i \in 1 .. n : reads'[i] = reads[i]
  BY <1>1, <1>4
<1>6. /\ Len(got) \in Nat
      /\ \A p \in 1 .. Len(got) : got'[p] = got[p]
      /\ \A k \in 1 .. Len(rows) : got'[Len(got) + k] = rows[k]
  <2> HIDE DEF n
  <2> QED BY <1>1, <1>3
<1>7. Queries
  BY DEF IInv, Shapes, Queries
<1>8. \A i \in 1 .. n + 1 : Before(Lengths', i) = Before(Lengths, i)
  <2> SUFFICES ASSUME NEW i \in 1 .. n + 1
               PROVE  Before(Lengths', i) = Before(Lengths, i)
    OBVIOUS
  <2>1. \A j \in 1 .. i - 1 : j \in 1 .. n /\ j \in 1 .. n + 1
    BY <1>5
  <2>2. \A j \in 1 .. n : Lengths'[j] = Lengths[j]
    BY <1>5 DEF Lengths
  <2>3. IsFiniteSet(1 .. i - 1)
    BY <1>5, FS_Interval
  <2> HIDE DEF n
  <2> QED BY <2>1, <2>2, <2>3, SumSame DEF Before
<1>9. OneModel'
  BY <1>1 DEF PrefixInv, OneModel
<1>10. ASSUME NEW i \in 1 .. n PROVE SawPrefix(i)'
  <2>1. SawPrefix(i) /\ reads'[i] = reads[i]
    BY <1>5, <1>10 DEF PrefixInv
  <2>2. i \in 1 .. n + 1
    BY <1>5, <1>10
  <2>3. Before(Lengths', i) = Before(Lengths, i)
    BY <1>8, <2>2
  <2>4. /\ Before(Lengths, i) \in Nat /\ reads[i][3] \in Nat
        /\ Before(Lengths, i) + reads[i][3] <= Len(got)
    BY <1>5, <1>7, <1>10, RowsReadIs, QueryLengths
  <2>5. \A k \in 1 .. reads[i][3] : Before(Lengths, i) + k \in 1 .. Len(got)
    BY <1>6, <2>4
  <2>6. \A k \in 1 .. reads[i][3] : got'[Before(Lengths, i) + k] = got[Before(Lengths, i) + k]
    BY <1>6, <2>5
  <2>7. SawPrefix(i)' <=>
           LET f == reads[i][1]
               r == reads[i][2]
           IN  /\ f \in 1 .. NFiles /\ r \in DOMAIN files[f]
               /\ reads[i][3] <= Len(files[f][r].rows)
               /\ \A k \in 1 .. reads[i][3] : got'[Before(Lengths, i) + k] = files[f][r].rows[k]
    BY <1>1, <2>1, <2>3 DEF SawPrefix, Before
  <2> QED BY <2>1, <2>6, <2>7 DEF SawPrefix
<1>11. PICK last : last = n + 1
  OBVIOUS
<1>12. SawPrefix(last)'
  <2>1. last \in 1 .. n + 1
    BY <1>5, <1>11
  <2>2. Before(Lengths', last) = Len(got)
    BY <1>7, <1>8, <1>11, <2>1, QueryLengths
  <2>3. \A k \in 1 .. Len(rows) : got'[Before(Lengths', last) + k] = rows[k]
    BY <1>6, <2>2
  <2>4. Len(rows) <= Len(rows)
    BY <1>3
  <2>5. reads'[last][1] = at /\ reads'[last][2] = id /\ reads'[last][3] = Len(rows)
    BY <1>4, <1>5, <1>11
  <2> QED BY <1>1, <1>2, <2>3, <2>4, <2>5 DEF SawPrefix, Before, rows
<1>13. \A i \in DOMAIN reads' : i \in 1 .. n \/ i = last
  BY <1>5, <1>11
<1> QED BY <1>9, <1>10, <1>12, <1>13 DEF PrefixInv

LEMMA NextKeepsPrefixes ==
    ASSUME IInv, PrefixInv, [Next]_vars
    PROVE  PrefixInv'
<1>1. CASE Writers
  BY <1>1, WritersKeepPrefixes
<1>2. CASE ReadAttempts
  BY <1>2, ReadKeepsPrefixes
<1>3. CASE Begin \/ ListRuns \/ NextFile \/ UNCHANGED vars
  <2>1. UNCHANGED <<files, got, reads>>
    BY <1>3 DEF Begin, ListRuns, NextFile, vars
  <2> QED BY <2>1 DEF PrefixInv, OneModel, SawPrefix, Before, Lengths
<1> QED BY <1>1, <1>2, <1>3 DEF Next, Reader

(* The rows a query returned are the first rows of its run, for the tasks of *)
(* that run's schedule and by its model, also later when the run has grown.  *)
ReadsArePrefixes ==
    \A i \in DOMAIN reads :
        LET run == files[reads[i][1]][reads[i][2]]
        IN  /\ RowsRead(i) = SubSeq(run.rows, 1, reads[i][3])
            /\ \A k \in DOMAIN RowsRead(i) : /\ RowsRead(i)[k].model = run.model
                                             /\ RowsRead(i)[k].task = run.schedule[k]

(* What compare publishes is about runs as they were stored: no row is torn  *)
(* from its run, put into another or skipped, although the runs go on while  *)
(* they are read one by one (aggregate, ResultStore.attempts).               *)
THEOREM SnapshotsOfRuns == Spec => []ReadsArePrefixes
<1>1. Init => PrefixInv
  <2> SUFFICES ASSUME Init PROVE PrefixInv
    OBVIOUS
  <2>1. DOMAIN reads = {} /\ \A f \in 1 .. NFiles : DOMAIN files[f] = {}
    BY DEF Init
  <2> QED BY <2>1 DEF PrefixInv, OneModel
<1>2. ASSUME IInv, PrefixInv PROVE ReadsArePrefixes
  <2> SUFFICES ASSUME NEW i \in DOMAIN reads
               PROVE  LET run == files[reads[i][1]][reads[i][2]]
                      IN  /\ RowsRead(i) = SubSeq(run.rows, 1, reads[i][3])
                          /\ \A k \in DOMAIN RowsRead(i) :
                                /\ RowsRead(i)[k].model = run.model
                                /\ RowsRead(i)[k].task = run.schedule[k]
    BY DEF ReadsArePrefixes
  <2> DEFINE f == reads[i][1]
             id == reads[i][2]
             n == reads[i][3]
             rows == files[f][id].rows
             first == SubSeq(rows, 1, n)
  <2>1. /\ f \in 1 .. NFiles /\ id \in DOMAIN files[f] /\ n <= Len(rows)
        /\ \A k \in 1 .. n : got[Before(Lengths, i) + k] = rows[k]
    BY <1>2 DEF PrefixInv, SawPrefix
  <2>2. rows \in Seq(Rows) /\ Len(rows) \in Nat
    BY <1>2, <2>1, RunFields DEF IInv
  <2>3. Queries
    BY <1>2 DEF IInv, Shapes, Queries
  <2>4. /\ n \in Nat /\ DOMAIN RowsRead(i) = 1 .. n /\ RowsRead(i) \in Seq(Rows)
        /\ Len(RowsRead(i)) = n
        /\ \A k \in 1 .. n : RowsRead(i)[k] = got[Before(Lengths, i) + k]
    BY <2>3, RowsReadIs, QueryLengths
  <2>5. \A k \in 1 .. n : RowsRead(i)[k] = rows[k] /\ k \in 1 .. Len(rows)
    BY <2>1, <2>2, <2>4
  <2>6. \A k \in 1 .. Len(rows) : /\ rows[k].model = files[f][id].model
                                  /\ rows[k].task = files[f][id].schedule[k]
    BY <1>2, <2>1 DEF IInv, FollowsSchedule, PrefixInv, OneModel
  <2> HIDE DEF f, id, n, rows
  <2>7. first \in Seq(Rows) /\ Len(first) = n /\ \A k \in 1 .. n : first[k] = rows[k]
    BY <2>1, <2>2, <2>4
  <2>8. RowsRead(i) = first
    <3> HIDE DEF first
    <3> QED BY <2>4, <2>5, <2>7
  <2> QED BY <2>4, <2>5, <2>6, <2>8 DEF f, id, n, rows
<1> QED BY <1>1, <1>2, Invariant, NextKeepsPrefixes, PTL DEF Spec
=============================================================================
