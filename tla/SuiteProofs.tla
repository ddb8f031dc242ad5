---------------------------- MODULE SuiteProofs ----------------------------
(***************************************************************************)
(* Proofs about SuiteBuild and SuiteLoad for any suites and tasks, any      *)
(* edits and any number of deaths, whatever the loads meet.  First the      *)
(* sequences the scripts and the loader make, then the scripts, then the    *)
(* loads.                                                                   *)
(***************************************************************************)
EXTENDS SuiteLoad, FiniteSetTheorems, SequenceTheorems, WellFoundedInduction, TLAPS

-----------------------------------------------------------------------------
(* The elements at some positions: which they are, and their number.         *)
LEMMA PlacesAre ==
    ASSUME NEW S \in SUBSET Nat, IsFiniteSet(S)
    PROVE  LET PlaceOf(i) == Cardinality({j \in S : j < i})
           IN  /\ Cardinality(S) \in Nat
               /\ \A i \in S : PlaceOf(i) \in 0 .. Cardinality(S) - 1
               /\ \A i, j \in S : PlaceOf(i) = PlaceOf(j) => i = j
               /\ \A r \in 0 .. Cardinality(S) - 1 : \E i \in S : PlaceOf(i) = r
<1> DEFINE n == Cardinality(S)
           before(i) == {j \in S : j < i}
           PlaceOf(i) == Cardinality(before(i))
<1>1. n \in Nat /\ \A i \in S : i \in Nat
  BY FS_CardinalityType
<1>2. \A T \in SUBSET S : IsFiniteSet(T) /\ Cardinality(T) \in Nat
  BY FS_Subset, FS_CardinalityType
<1>3. \A i \in S : /\ before(i) \in SUBSET (S \ {i}) /\ before(i) \in SUBSET S
                   /\ IsFiniteSet(S \ {i}) /\ Cardinality(S \ {i}) = n - 1
  BY <1>1, FS_RemoveElement
<1>4. \A i \in S : PlaceOf(i) \in 0 .. n - 1
  <2> SUFFICES ASSUME NEW i \in S PROVE PlaceOf(i) \in 0 .. n - 1
    OBVIOUS
  <2>0. PICK place : place = PlaceOf(i)
    OBVIOUS
  <2>1. place <= Cardinality(S \ {i}) /\ place \in Nat
    BY <1>2, <1>3, <2>0, FS_Subset
  <2>2. PICK size : size = n
    OBVIOUS
  <2>3. size \in Nat /\ Cardinality(S \ {i}) = size - 1
    BY <1>1, <1>3, <2>2
  <2>4. place \in 0 .. size - 1
    BY <2>1, <2>3
  <2> QED BY <2>0, <2>2, <2>4
<1>5. ASSUME NEW i \in S, NEW j \in S, i < j PROVE PlaceOf(i) < PlaceOf(j)
  <2>1. \A k \in S : k < i => k < j
    <3>1. i \in Nat /\ j \in Nat
      BY <1>1
    <3> QED BY <1>1, <1>5, <3>1
  <2>2. before(i) \cup {i} \in SUBSET before(j) /\ i \notin before(i)
    <3>1. ~(i < i)
      BY <1>1
    <3> QED BY <1>5, <2>1, <3>1
  <2>3. IsFiniteSet(before(i)) /\ IsFiniteSet(before(j))
    BY <1>2, <1>3
  <2>4. Cardinality(before(i) \cup {i}) = PlaceOf(i) + 1
    BY <2>2, <2>3, FS_AddElement
  <2>5. Cardinality(before(i) \cup {i}) <= PlaceOf(j)
    BY <2>2, <2>3, FS_Subset
  <2>6. PlaceOf(i) \in Nat /\ PlaceOf(j) \in Nat
    BY <1>2, <1>3
  <2> HIDE DEF PlaceOf
  <2> QED BY <2>4, <2>5, <2>6
<1>6. \A i, j \in S : PlaceOf(i) = PlaceOf(j) => i = j
  <2>1. \A i, j \in S : i < j \/ j < i \/ i = j
    BY <1>1
  <2>2. \A i \in S : PlaceOf(i) \in Nat
    BY <1>2, <1>3
  <2> HIDE DEF PlaceOf
  <2> QED BY <1>5, <2>1, <2>2
<1>7. \A r \in 0 .. n - 1 : \E i \in S : PlaceOf(i) = r
  <2> DEFINE place == [i \in S |-> PlaceOf(i)]
             range == 0 .. n - 1
  <2>1. place \in Injection(S, range)
    BY <1>4, <1>6 DEF Injection, IsInjective
  <2>2. IsFiniteSet(range) /\ Cardinality(range) = n
    <3>1. 0 \in Int /\ n - 1 \in Int
      BY <1>1
    <3> QED BY <1>1, <3>1, FS_Interval
  <2> HIDE DEF range, n
  <2>3. place \in Surjection(S, range)
    BY <2>1, <2>2, FS_Injection DEF n
  <2> QED BY <2>3 DEF Surjection, range
<1> QED BY <1>1, <1>4, <1>6, <1>7

\* Two places of the result stand for two positions.
PickedOnce(seq, S) ==
    \A k, l \in 1 .. Cardinality(S) : \E i, j \in S :
        Pick(seq, S)[k] = seq[i] /\ Pick(seq, S)[l] = seq[j] /\ (i = j => k = l)

LEMMA PickIs ==
    ASSUME NEW T, NEW seq \in Seq(T), NEW S \in SUBSET DOMAIN seq
    PROVE  /\ Pick(seq, S) \in Seq(T)
           /\ Cardinality(S) \in Nat /\ DOMAIN Pick(seq, S) = 1 .. Cardinality(S)
           /\ \A k \in 1 .. Cardinality(S) : \E i \in S : Pick(seq, S)[k] = seq[i]
           /\ \A i \in S : \E k \in 1 .. Cardinality(S) : Pick(seq, S)[k] = seq[i]
           /\ PickedOnce(seq, S)
<1> DEFINE n == Cardinality(S)
           PlaceOf(i) == Cardinality({j \in S : j < i})
           from == [k \in 1 .. n |-> CHOOSE i \in S : PlaceOf(i) = k - 1]
<1>1. IsFiniteSet(S) /\ S \in SUBSET Nat
  <2>1. 1 \in Int /\ Len(seq) \in Int /\ DOMAIN seq = 1 .. Len(seq)
    OBVIOUS
  <2>2. IsFiniteSet(DOMAIN seq)
    BY <2>1, FS_Interval
  <2> QED BY <2>1, <2>2, FS_Subset
<1>2. /\ n \in Nat
      /\ \A i \in S : PlaceOf(i) \in 0 .. n - 1
      /\ \A i, j \in S : PlaceOf(i) = PlaceOf(j) => i = j
      /\ \A r \in 0 .. n - 1 : \E i \in S : PlaceOf(i) = r
  BY <1>1, PlacesAre
<1>3. Pick(seq, S) = [k \in 1 .. n |-> seq[from[k]]]
  BY DEF Pick
<1> HIDE DEF n, PlaceOf
<1>4. \A k \in 1 .. n : from[k] \in S /\ PlaceOf(from[k]) = k - 1
  <2> SUFFICES ASSUME NEW k \in 1 .. n PROVE from[k] \in S /\ PlaceOf(from[k]) = k - 1
    OBVIOUS
  <2>1. k - 1 \in 0 .. n - 1
    BY <1>2
  <2>2. \E i \in S : PlaceOf(i) = k - 1
    BY <1>2, <2>1
  <2> QED BY <2>2
<1>5. \A i \in S : \E k \in 1 .. n : from[k] = i
  <2> SUFFICES ASSUME NEW i \in S PROVE \E k \in 1 .. n : from[k] = i
    OBVIOUS
  <2>1. PlaceOf(i) \in Nat /\ PlaceOf(i) + 1 \in 1 .. n /\ (PlaceOf(i) + 1) - 1 = PlaceOf(i)
    BY <1>2
  <2>2. PlaceOf(from[PlaceOf(i) + 1]) = PlaceOf(i) /\ from[PlaceOf(i) + 1] \in S
    BY <1>4, <2>1
  <2> QED BY <1>2, <2>1, <2>2
<1>6. \A k, l \in 1 .. n : from[k] = from[l] => k = l
  <2> SUFFICES ASSUME NEW k \in 1 .. n, NEW l \in 1 .. n, from[k] = from[l] PROVE k = l
    OBVIOUS
  <2>1. k - 1 = l - 1
    BY <1>4
  <2> QED BY <1>2, <2>1
<1> HIDE DEF from
<1>8. Pick(seq, S) \in Seq(T)
  <2>1. \A k \in 1 .. n : seq[from[k]] \in T
    BY <1>4
  <2> QED BY <1>2, <1>3, <2>1
<1>9. DOMAIN Pick(seq, S) = 1 .. n /\ \A k \in 1 .. n : Pick(seq, S)[k] = seq[from[k]]
  BY <1>3
<1>11. \A k \in 1 .. n : \E i \in S : Pick(seq, S)[k] = seq[i]
  BY <1>4, <1>9
<1>12. \A i \in S : \E k \in 1 .. n : Pick(seq, S)[k] = seq[i]
  BY <1>5, <1>9
<1>13. \A k, l \in 1 .. n : \E i, j \in S :
          Pick(seq, S)[k] = seq[i] /\ Pick(seq, S)[l] = seq[j] /\ (i = j => k = l)
  BY <1>4, <1>6, <1>9
<1> QED BY <1>2, <1>8, <1>9, <1>11, <1>12, <1>13 DEF n, PickedOnce

\* A sequence is its head and its tail.
LEMMA SeqParts ==
    ASSUME NEW T, NEW seq \in Seq(T), seq # <<>>
    PROVE  /\ Head(seq) \in T /\ Tail(seq) \in Seq(T)
           /\ ToSet(seq) = {Head(seq)} \union ToSet(Tail(seq)) /\ ToSet(seq) \subseteq T
           /\ \A i \in DOMAIN Tail(seq) : i + 1 \in DOMAIN seq /\ Tail(seq)[i] = seq[i + 1]
           /\ 1 \in DOMAIN seq /\ seq[1] = Head(seq)
           /\ Len(seq) > 1 <=> Tail(seq) # <<>>
<1>1. \A i \in DOMAIN Tail(seq) : i + 1 \in DOMAIN seq /\ Tail(seq)[i] = seq[i + 1]
  OBVIOUS
<1>2. 1 \in DOMAIN seq /\ seq[1] = Head(seq) /\ Head(seq) \in T /\ Tail(seq) \in Seq(T)
  OBVIOUS
<1>3. ASSUME NEW i \in DOMAIN seq, i # 1 PROVE seq[i] \in ToSet(Tail(seq))
  <2>1. i - 1 \in DOMAIN Tail(seq) /\ Tail(seq)[i - 1] = seq[i]
    BY <1>3
  <2> QED BY <2>1 DEF ToSet
<1>4. ToSet(Tail(seq)) \subseteq ToSet(seq)
  BY <1>1 DEF ToSet
<1>5. \A x \in ToSet(seq) : x = Head(seq) \/ x \in ToSet(Tail(seq))
  BY <1>2, <1>3 DEF ToSet
<1>6. Head(seq) \in ToSet(seq) /\ ToSet(seq) \subseteq T
  BY <1>2 DEF ToSet
<1>7. Len(seq) > 1 <=> Tail(seq) # <<>>
  <2>1. Tail(seq) \in Seq(T) /\ Len(Tail(seq)) = Len(seq) - 1
    OBVIOUS
  <2>2. PICK rest \in Seq(T) : rest = Tail(seq)
    BY <2>1
  <2>3. PICK n \in Nat : n = Len(seq)
    OBVIOUS
  <2>4. n # 0
    BY <2>3, EmptySeq
  <2>5. rest # <<>> <=> n - 1 # 0
    BY <2>1, <2>2, <2>3, EmptySeq
  <2>6. n > 1 <=> rest # <<>>
    BY <2>4, <2>5
  <2> QED BY <2>2, <2>3, <2>6
<1> QED BY <1>1, <1>2, <1>4, <1>5, <1>6, <1>7

(* The function that FlattenSeq computes, and what is in its result.         *)
LEMMA NumberInduction ==
    ASSUME NEW S, 0 \in S, \A n \in Nat : n \in S => n + 1 \in S
    PROVE  Nat \subseteq S
<1> SUFFICES ASSUME Nat \ S # {} PROVE FALSE
  OBVIOUS
<1>1. IsWellFoundedOn(OpToRel(<, Nat), Nat)
  BY NatLessThanWellFounded
<1>2. PICK x \in Nat \ S : \A y \in Nat \ S : ~(<<y, x>> \in OpToRel(<, Nat))
  BY <1>1, WFMin
<1>3. \A y \in Nat \ S : ~(y < x)
  BY <1>2 DEF OpToRel
<1>4. x = 0 \/ (x - 1 \in Nat /\ x - 1 < x)
  OBVIOUS
<1> QED BY <1>3, <1>4

IsFlatten(seqs, f) ==
    f = [i \in 1 .. Len(seqs) |-> IF i = 1 THEN seqs[i] ELSE f[i - 1] \o seqs[i]]

LEMMA SetOfConcat ==
    ASSUME NEW T, NEW a \in Seq(T), NEW b \in Seq(T)
    PROVE  \A x : x \in ToSet(a \o b) <=> x \in ToSet(a) \/ x \in ToSet(b)
<1>1. DOMAIN (a \o b) = 1 .. Len(a) + Len(b)
  OBVIOUS
<1>2. ASSUME NEW i \in DOMAIN (a \o b)
      PROVE  \/ \E j \in DOMAIN a : (a \o b)[i] = a[j]
             \/ \E j \in DOMAIN b : (a \o b)[i] = b[j]
  <2>1. CASE i <= Len(a)
    BY <1>1, <2>1
  <2>2. CASE i > Len(a)
    <3>1. i - Len(a) \in DOMAIN b /\ (a \o b)[i] = b[i - Len(a)]
      BY <1>1, <2>2
    <3> QED BY <3>1
  <2> QED BY <1>1, <2>1, <2>2
<1>3. \A j \in DOMAIN a : j \in DOMAIN (a \o b) /\ (a \o b)[j] = a[j]
  BY <1>1
<1>4. \A j \in DOMAIN b : j + Len(a) \in DOMAIN (a \o b) /\ (a \o b)[j + Len(a)] = b[j]
  BY <1>1
<1>5. PICK c : c = a \o b
  OBVIOUS
<1>6. ASSUME NEW x, x \in ToSet(c) PROVE x \in ToSet(a) \/ x \in ToSet(b)
  BY <1>2, <1>5, <1>6 DEF ToSet
<1>7. ASSUME NEW x \in ToSet(a) PROVE x \in ToSet(c)
  <2>1. PICK j \in DOMAIN a : x = a[j]
    BY DEF ToSet
  <2> QED BY <1>3, <1>5, <2>1 DEF ToSet
<1>8. ASSUME NEW x \in ToSet(b) PROVE x \in ToSet(c)
  <2>1. PICK j \in DOMAIN b : x = b[j]
    BY DEF ToSet
  <2> QED BY <1>4, <1>5, <2>1 DEF ToSet
<1> QED BY <1>5, <1>6, <1>7, <1>8

LEMMA FlattenExists ==
    ASSUME NEW T, NEW seqs \in Seq(Seq(T))
    PROVE  \E f : IsFlatten(seqs, f)
<1> DEFINE Step(f, i) == IF i = 1 THEN seqs[i] ELSE f[i - 1] \o seqs[i]
           D == 1 .. Len(seqs)
           N == {n \in Nat : \E f : \A i \in D : i <= n => f[i] = Step(f, i)}
<1>1. Len(seqs) \in Nat /\ \A i \in D : i \in Nat /\ i >= 1 /\ (i # 1 => i - 1 \in D)
  OBVIOUS
<1>2. 0 \in N
  <2>1. \A i \in D : ~(i <= 0)
    BY <1>1
  <2> QED BY <2>1
<1>3. ASSUME NEW n \in Nat, n \in N PROVE n + 1 \in N
  <2>1. PICK f : \A i \in D : i <= n => f[i] = Step(f, i)
    BY <1>3
  <2> DEFINE next == [i \in D |-> Step(f, i)]
  <2>2. \A i \in D : i <= n => next[i] = f[i]
    BY <2>1
  <2>3. ASSUME NEW i \in D, i <= n + 1 PROVE next[i] = Step(next, i)
    <3>1. CASE i = 1
      BY <3>1
    <3>2. CASE i # 1
      <4>1. i - 1 \in D /\ i - 1 <= n
        BY <1>1, <2>3, <3>2
      <4>2. next[i - 1] = f[i - 1]
        BY <2>2, <4>1
      <4> QED BY <3>2, <4>2
    <3> QED BY <3>1, <3>2
  <2>4. \A i \in D : i <= n + 1 => next[i] = Step(next, i)
    BY <2>3
  <2> HIDE DEF next, Step, D
  <2> QED BY <2>4
<1>4. Len(seqs) \in N
  <2> HIDE DEF N
  <2> QED BY <1>1, <1>2, <1>3, NumberInduction
<1>5. PICK f : \A i \in D : i <= Len(seqs) => f[i] = Step(f, i)
  BY <1>4
<1>6. \A i \in D : f[i] = Step(f, i)
  BY <1>1, <1>5
<1> DEFINE whole == [i \in D |-> f[i]]
<1>7. whole = [i \in D |-> Step(whole, i)]
  <2>1. \A i \in D : Step(whole, i) = Step(f, i)
    BY <1>1
  <2> QED BY <1>6, <2>1
<1> QED BY <1>7 DEF IsFlatten

LEMMA FlattenIs ==
    ASSUME NEW T, NEW seqs \in Seq(Seq(T))
    PROVE  /\ FlattenSeq(seqs) \in Seq(T)
           /\ \A x : x \in ToSet(FlattenSeq(seqs)) <=> \E i \in 1 .. Len(seqs) : x \in ToSet(seqs[i])
<1>1. CASE Len(seqs) = 0
  <2>1. FlattenSeq(seqs) = <<>> /\ seqs = <<>>
    BY <1>1 DEF FlattenSeq
  <2> QED BY <2>1, <1>1 DEF ToSet
<1>2. CASE Len(seqs) # 0
  <2> DEFINE D == 1 .. Len(seqs)
             f == CHOOSE g : IsFlatten(seqs, g)
             Within(i) == \A x : x \in ToSet(f[i]) <=> \E j \in 1 .. i : x \in ToSet(seqs[j])
             N == {n \in Nat : n \in D => f[n] \in Seq(T) /\ Within(n)}
  <2>1. IsFlatten(seqs, f)
    BY FlattenExists
  <2>2. FlattenSeq(seqs) = f[Len(seqs)]
    BY <1>2 DEF FlattenSeq, IsFlatten
  <2>3. \A i \in D : f[i] = IF i = 1 THEN seqs[i] ELSE f[i - 1] \o seqs[i]
    <3> HIDE DEF f
    <3> QED BY <2>1 DEF IsFlatten
  <2> HIDE DEF f
  <2>4. 0 \in N
    OBVIOUS
  <2>5. ASSUME NEW n \in Nat, n \in N PROVE n + 1 \in N
    <3> SUFFICES ASSUME n + 1 \in D PROVE f[n + 1] \in Seq(T) /\ Within(n + 1)
      <4>1. n + 1 \in Nat
        OBVIOUS
      <4> HIDE DEF Within, D
      <4> QED BY <4>1
    <3>1. seqs[n + 1] \in Seq(T)
      OBVIOUS
    <3>2. CASE n = 0
      <4>1. f[1] = seqs[1]
        BY <2>3, <3>2
      <4>2. \A j \in 1 .. 1 : j = 1
        OBVIOUS
      <4> QED BY <3>1, <3>2, <4>1, <4>2
    <3>3. CASE n # 0
      <4>1. f[n] \in Seq(T) /\ Within(n)
        BY <2>5, <3>3
      <4>2. f[n + 1] = f[n] \o seqs[n + 1]
        <5>1. n + 1 # 1 /\ (n + 1) - 1 = n
          BY <3>3
        <5> QED BY <2>3, <5>1
      <4>3. \A x : x \in ToSet(f[n + 1]) <=> x \in ToSet(f[n]) \/ x \in ToSet(seqs[n + 1])
        BY <3>1, <4>1, <4>2, SetOfConcat
      <4>4. \A j : j \in 1 .. n + 1 <=> j \in 1 .. n \/ j = n + 1
        OBVIOUS
      <4>5. Within(n + 1)
        BY <4>1, <4>3, <4>4
      <4>6. f[n + 1] \in Seq(T)
        BY <3>1, <4>1, <4>2
      <4> QED BY <4>5, <4>6
    <3> QED BY <3>2, <3>3
  <2>6. Len(seqs) \in N
    <3>1. Len(seqs) \in Nat
      OBVIOUS
    <3> HIDE DEF N
    <3> QED BY <2>4, <2>5, <3>1, NumberInduction
  <2>7. Len(seqs) \in D
    BY <1>2
  <2> QED BY <2>2, <2>6, <2>7
<1> QED BY <1>1, <1>2

-----------------------------------------------------------------------------
(* What the scripts write.                                                   *)

\* A file of a script: a manifest of an extra suite, or a task.
Mine(b, d, p) ==
    /\ p \in Paths /\ p[2] # ByHand
    /\ b = "coding" <=> p[1] = Coding
    /\ IF p[2] = Manifest THEN b = "extra"
       ELSE p[2] \in TaskIds(p[1]) /\ p[2] \in Ids(b) /\ d[p[2]] # None

LEMMA SuitesAre ==
    /\ Coding \in Suites /\ ToSet(ExtraSuites) \subseteq Suites /\ Coding \notin ToSet(ExtraSuites)
    /\ \A i \in DOMAIN ExtraSuites : ExtraSuites[i] \in ToSet(ExtraSuites)
    /\ DOMAIN ExtraSuites = 1 .. Len(ExtraSuites) /\ Len(ExtraSuites) \in Nat
    /\ \A s \in Suites : /\ TaskOrder[s] \in Seq(TaskIds(s))
                         /\ Manifest \notin TaskIds(s) /\ ByHand \notin TaskIds(s)
                         /\ TaskIds(s) \subseteq AllIds
    /\ Manifest \notin AllIds /\ ByHand \notin AllIds /\ Manifest # ByHand
<1>1. ExtraSuites \in Seq(ToSet(ExtraSuites)) /\ Coding \notin ToSet(ExtraSuites)
  BY SuiteBuildAssumption
<1>2. \A s \in Suites : TaskOrder[s] \in Seq(TaskIds(s)) /\ TaskIds(s) \cap {Manifest, ByHand} = {}
  BY SuiteBuildAssumption
<1>3. \A i \in DOMAIN ExtraSuites : ExtraSuites[i] \in ToSet(ExtraSuites)
  BY DEF ToSet
<1>4. \A s \in Suites : TaskIds(s) \subseteq AllIds
  BY DEF AllIds
<1>5. Coding \in Suites /\ ToSet(ExtraSuites) \subseteq Suites
  BY DEF Suites
<1>6. DOMAIN ExtraSuites = 1 .. Len(ExtraSuites) /\ Len(ExtraSuites) \in Nat
  BY <1>1
<1>7. Manifest \notin AllIds /\ ByHand \notin AllIds
  BY <1>2 DEF AllIds
<1>8. Manifest # ByHand
  BY DEF Manifest, ByHand
<1> QED BY <1>1, <1>2, <1>3, <1>4, <1>5, <1>6, <1>7, <1>8

LEMMA PathsAre ==
    /\ \A p \in Paths : p[1] \in Suites /\ p[2] \in TaskIds(p[1]) \union {Manifest, ByHand}
                       /\ p = <<p[1], p[2]>>
    /\ \A s \in Suites : \A name \in TaskIds(s) \union {Manifest, ByHand} : <<s, name>> \in Paths
BY DEF Paths

LEMMA TaskPathsAre ==
    ASSUME NEW s \in Suites, NEW d
    PROVE  /\ TaskPaths(s, d) \in Seq(Paths)
           /\ \A p \in ToSet(TaskPaths(s, d)) :
                 p \in Paths /\ p[1] = s /\ p[2] \in TaskIds(s) /\ d[p[2]] # None
<1> DEFINE paths == [i \in DOMAIN TaskOrder[s] |-> <<s, TaskOrder[s][i]>>]
           kept == {i \in DOMAIN paths : d[TaskOrder[s][i]] # None}
<1>1. TaskOrder[s] \in Seq(TaskIds(s))
  BY SuitesAre
<1>2. \A i \in DOMAIN TaskOrder[s] : TaskOrder[s][i] \in TaskIds(s)
  BY <1>1
<1>3. paths \in Seq(Paths)
  <2>1. \A i \in DOMAIN TaskOrder[s] : <<s, TaskOrder[s][i]>> \in Paths
    BY <1>2, PathsAre
  <2>2. DOMAIN TaskOrder[s] = 1 .. Len(TaskOrder[s]) /\ Len(TaskOrder[s]) \in Nat
    BY <1>1
  <2> QED BY <2>1, <2>2
<1>4. kept \in SUBSET DOMAIN paths
  OBVIOUS
<1>5. \A i \in kept : /\ paths[i] = <<s, TaskOrder[s][i]>> /\ TaskOrder[s][i] \in TaskIds(s)
                     /\ d[TaskOrder[s][i]] # None
  BY <1>2
<1>6. TaskPaths(s, d) = Pick(paths, kept)
  BY DEF TaskPaths
<1> HIDE DEF paths, kept
<1>7. /\ Pick(paths, kept) \in Seq(Paths)
      /\ DOMAIN Pick(paths, kept) = 1 .. Cardinality(kept)
      /\ \A k \in 1 .. Cardinality(kept) : \E i \in kept : Pick(paths, kept)[k] = paths[i]
  BY <1>3, <1>4, PickIs
<1>8. ASSUME NEW p \in ToSet(Pick(paths, kept))
      PROVE  p \in Paths /\ p[1] = s /\ p[2] \in TaskIds(s) /\ d[p[2]] # None
  <2>1. PICK i \in kept : p = paths[i]
    BY <1>7 DEF ToSet
  <2>2. p = <<s, TaskOrder[s][i]>>
    BY <1>5, <2>1
  <2>3. p[1] = s /\ p[2] = TaskOrder[s][i]
    BY <2>2
  <2>4. p \in Paths
    BY <1>5, <2>2, PathsAre
  <2> QED BY <1>5, <2>3, <2>4
<1> QED BY <1>6, <1>7, <1>8

LEMMA PlanIs ==
    ASSUME NEW b \in Scripts, NEW d
    PROVE  Plan(b, d) \in Seq(Paths) /\ \A p \in ToSet(Plan(b, d)) : Mine(b, d, p)
<1>1. CASE b = "coding"
  <2>1. Plan(b, d) = TaskPaths(Coding, d) /\ Ids(b) = TaskIds(Coding)
    BY <1>1 DEF Plan, Ids
  <2>2. /\ TaskPaths(Coding, d) \in Seq(Paths)
        /\ \A p \in ToSet(TaskPaths(Coding, d)) :
              p \in Paths /\ p[1] = Coding /\ p[2] \in TaskIds(Coding) /\ d[p[2]] # None
    BY SuitesAre, TaskPathsAre
  <2>3. Manifest \notin TaskIds(Coding) /\ ByHand \notin TaskIds(Coding)
    BY SuitesAre
  <2> QED BY <1>1, <2>1, <2>2, <2>3 DEF Mine
<1>2. CASE b = "extra"
  <2> DEFINE part(i) == <<<<ExtraSuites[i], Manifest>>>> \o TaskPaths(ExtraSuites[i], d)
             parts == [i \in DOMAIN ExtraSuites |-> part(i)]
  <2>1. Plan(b, d) = FlattenSeq(parts) /\ Ids(b) = UNION {TaskIds(s) : s \in ToSet(ExtraSuites)}
    BY <1>2 DEF Plan, Ids
  <2>2. ASSUME NEW i \in DOMAIN ExtraSuites
        PROVE  part(i) \in Seq(Paths) /\ \A p \in ToSet(part(i)) : Mine(b, d, p)
    <3>1. PICK s \in ToSet(ExtraSuites) : s = ExtraSuites[i]
      BY SuitesAre
    <3>2. s \in Suites /\ s # Coding
      BY SuitesAre
    <3>3. <<s, Manifest>> \in Paths
      BY <3>2, PathsAre
    <3>4. <<<<s, Manifest>>>> \in Seq(Paths) /\ ToSet(<<<<s, Manifest>>>>) = {<<s, Manifest>>}
      BY <3>3 DEF ToSet
    <3>5. /\ TaskPaths(s, d) \in Seq(Paths)
          /\ \A p \in ToSet(TaskPaths(s, d)) :
                p \in Paths /\ p[1] = s /\ p[2] \in TaskIds(s) /\ d[p[2]] # None
      BY <3>2, TaskPathsAre
    <3>6. part(i) \in Seq(Paths)
      BY <3>1, <3>4, <3>5
    <3>7. \A p : p \in ToSet(part(i)) <=> p = <<s, Manifest>> \/ p \in ToSet(TaskPaths(s, d))
      <4>1. part(i) = <<<<s, Manifest>>>> \o TaskPaths(s, d)
        BY <3>1
      <4>2. \A p : p \in ToSet(part(i)) <=> p \in ToSet(<<<<s, Manifest>>>>) \/ p \in ToSet(TaskPaths(s, d))
        BY <3>4, <3>5, <4>1, SetOfConcat
      <4> QED BY <3>4, <4>2
    <3>8. Mine(b, d, <<s, Manifest>>)
      <4>1. Manifest # ByHand
        BY SuitesAre
      <4>2. <<s, Manifest>>[1] = s /\ <<s, Manifest>>[2] = Manifest
        OBVIOUS
      <4> QED BY <1>2, <3>2, <3>3, <4>1, <4>2 DEF Mine
    <3>9. TaskIds(s) \subseteq Ids(b) /\ Manifest \notin TaskIds(s) /\ ByHand \notin TaskIds(s)
      BY <2>1, <3>2, SuitesAre
    <3>10. \A p \in ToSet(TaskPaths(s, d)) : Mine(b, d, p)
      BY <1>2, <3>2, <3>5, <3>9 DEF Mine
    <3> QED BY <3>6, <3>7, <3>8, <3>10
  <2> HIDE DEF part
  <2>3. /\ parts \in Seq(Seq(Paths)) /\ Len(parts) = Len(ExtraSuites)
        /\ \A i \in 1 .. Len(parts) : i \in DOMAIN ExtraSuites /\ parts[i] = part(i)
    BY <2>2, SuitesAre
  <2> HIDE DEF parts
  <2>4. /\ FlattenSeq(parts) \in Seq(Paths)
        /\ \A x : x \in ToSet(FlattenSeq(parts)) <=> \E i \in 1 .. Len(parts) : x \in ToSet(parts[i])
    BY <2>3, FlattenIs
  <2> QED BY <2>1, <2>2, <2>3, <2>4
<1> QED BY <1>1, <1>2 DEF Scripts

\* What a script writes depends on the definitions of its own tasks alone.
LEMMA SamePlan ==
    ASSUME NEW b \in Scripts, NEW d, NEW e, \A t \in Ids(b) : d[t] = e[t]
    PROVE  Plan(b, d) = Plan(b, e)
<1>1. ASSUME NEW s \in Suites, \A t \in TaskIds(s) : d[t] = e[t]
      PROVE  TaskPaths(s, d) = TaskPaths(s, e)
  <2> DEFINE paths == [i \in DOMAIN TaskOrder[s] |-> <<s, TaskOrder[s][i]>>]
             kept(f) == {i \in DOMAIN paths : f[TaskOrder[s][i]] # None}
  <2>1. \A i \in DOMAIN TaskOrder[s] : TaskOrder[s][i] \in TaskIds(s)
    BY SuitesAre
  <2>2. kept(d) = kept(e)
    BY <1>1, <2>1
  <2>3. TaskPaths(s, d) = Pick(paths, kept(d)) /\ TaskPaths(s, e) = Pick(paths, kept(e))
    BY DEF TaskPaths
  <2> QED BY <2>2, <2>3
<1>2. CASE b = "coding"
  <2>1. TaskPaths(Coding, d) = TaskPaths(Coding, e)
    BY <1>1, <1>2, SuitesAre DEF Ids
  <2> QED BY <1>2, <2>1 DEF Plan
<1>3. CASE b = "extra"
  <2>1. \A i \in DOMAIN ExtraSuites : TaskPaths(ExtraSuites[i], d) = TaskPaths(ExtraSuites[i], e)
    <3> SUFFICES ASSUME NEW i \in DOMAIN ExtraSuites
                 PROVE  TaskPaths(ExtraSuites[i], d) = TaskPaths(ExtraSuites[i], e)
      OBVIOUS
    <3>1. ExtraSuites[i] \in ToSet(ExtraSuites) /\ ExtraSuites[i] \in Suites
      BY SuitesAre
    <3>2. Ids(b) = UNION {TaskIds(s) : s \in ToSet(ExtraSuites)}
      BY <1>3 DEF Ids
    <3> QED BY <1>1, <3>1, <3>2
  <2>2. [i \in DOMAIN ExtraSuites |-> <<<<ExtraSuites[i], Manifest>>>> \o TaskPaths(ExtraSuites[i], d)]
      = [i \in DOMAIN ExtraSuites |-> <<<<ExtraSuites[i], Manifest>>>> \o TaskPaths(ExtraSuites[i], e)]
    BY <2>1
  <2> QED BY <1>3, <2>2 DEF Plan
<1> QED BY <1>2, <1>3 DEF Scripts

-----------------------------------------------------------------------------
(* The inductive invariant.                                                  *)

\* A file is as the script meant it, or an author's.
Written(b, p) == p \in touched[b] \/ files[p] = Payload(b, p)

\* Of a coding task that was written: what main has found out about it.
Verified(b, p) ==
    b = "coding" => \/ source[b][p[2]].kind \notin {"unsound", "unsolved"}
                    \/ failures # {}

\* The files of a running script that are not to be written any more, and all the
\* files of one that has ended well.
Progress(b) ==
    /\ stage[b] \in Active => ToSet(todo[b]) \subseteq ToSet(Plan(b, source[b]))
    /\ stage[b] = "ok" => todo[b] = <<>> /\ (b = "coding" => failures = {})
    /\ stage[b] = "verify" => b = "coding" /\ Written(b, Head(todo[b]))
    /\ stage[b] \in Active \union {"ok"} =>
          \A p \in ToSet(Plan(b, source[b])) \ ToSet(todo[b]) : Written(b, p) /\ Verified(b, p)

BuildInv == /\ BuildTypeOK
            /\ \A p \in Paths : files[p] \in Contents(p)
            /\ \A b \in Scripts : Progress(b)

Going == {"manifest", "listing", "reading"}

\* The directories that were read come before those that were not.
InOrder ==
    at \in Going =>
        /\ \A i, j \in DOMAIN left : i < j => Place(left[i]) < Place(left[j])
        /\ \A s \in Suites \ ToSet(left) : \A t \in ToSet(left) : Place(s) < Place(t)

\* Nothing is held between two directories.
FreshStart == at \in {"idle", "manifest", "listing"} => names = <<>> /\ got = <<>>

HeadIsDeclared ==
    at \in {"listing", "reading"} /\ <<Head(left), Manifest>> \notin changed =>
        head.name = DeclaredName(Head(left))

ListedThere ==
    at \in {"reading", "returned"} =>
        \A i \in DOMAIN names : left # <<>> /\ names[i] \in TaskIds(Head(left))

ListedOrChanged ==
    at = "reading" =>
        \A i \in DOMAIN names : \/ Here(names[i]) # Absent
                                \/ <<Head(left), names[i]>> \in changed

\* A task file that nobody changes is still in the listing, or is a task.
ListedOrRead ==
    at = "reading" =>
        \A p \in Undisturbed(Head(left)) : p[2] # ByHand =>
            p[2] \in ToSet(names) \/ (Parses(files[p]) /\ files[p] \in ToSet(got))

IsTask(f) == Parses(f) /\ f.holds \in AllIds /\ f.version \in Versions

TasksProper ==
    /\ \A i \in DOMAIN got : IsTask(got[i])
    /\ \A n \in DOMAIN loaded :
          /\ \A i \in DOMAIN loaded[n].tasks : IsTask(loaded[n].tasks[i])
          /\ Distinct(loaded[n].tasks)

\* EverythingLoaded, for one directory.
LoadedFrom(s) ==
    \A p \in Undisturbed(s) :
        /\ Parses(files[p])
        /\ (<<s, Manifest>> \notin changed /\ wanted \in {None, DeclaredName(s)}) =>
              /\ DeclaredName(s) \in DOMAIN loaded
              /\ \/ files[p] \in ToSet(loaded[DeclaredName(s)].tasks)
                 \/ Place(loaded[DeclaredName(s)].dir) > Place(s)

ReadIsLoaded ==
    at \in Going \/ (at = "returned" /\ result = "ok") =>
        \A s \in Suites \ ToSet(left) : LoadedFrom(s)

Outcome ==
    /\ at \in {"returned", "stored"} /\ result = "ok" =>
          left = <<>> /\ wanted \in {None} \union DOMAIN loaded
    /\ at = "returned" /\ result = "exception" => left # <<>> /\ NobodysError

IInv == /\ BuildInv
        /\ TypeOK
        /\ InOrder /\ FreshStart /\ HeadIsDeclared
        /\ ListedThere /\ ListedOrChanged /\ ListedOrRead
        /\ TasksProper /\ ReadIsLoaded /\ Outcome /\ SchedulesProper

-----------------------------------------------------------------------------
(* What the files can be.                                                    *)
LEMMA ContentsAre ==
    ASSUME NEW p \in Paths
    PROVE  /\ Contents(p) \subseteq Files
           /\ Absent \in Contents(p) /\ Empty \in Contents(p) /\ Broken \in Contents(p)
           /\ \A f \in Contents(p) :
                 /\ f.form = "absent" => f = Absent
                 /\ f.form = "broken" => f = Broken
                 /\ f.form = "garbled" => f = Garbled /\ p[2] \notin {Manifest, ByHand}
                 /\ p[2] = Manifest /\ f.form = "whole" => f.holds \in Suites \union {OtherName}
                 /\ p[2] # Manifest /\ f.form \in {"whole", "short"} =>
                       f.holds \in AllIds /\ f.version \in Versions
<1>1. \A f \in Contents(p) :
         \/ f \in {Absent, Empty, Broken}
         \/ f = Garbled /\ p[2] \notin {Manifest, ByHand}
         \/ p[2] = Manifest /\ f \in {ManifestFile(name) : name \in Suites \union {OtherName}}
         \/ p[2] # Manifest /\ f \in [form : {"short", "whole"}, holds : AllIds, version : Versions]
  BY DEF Contents
<1>2. Absent.form = "absent" /\ Empty.form = "empty" /\ Broken.form = "broken" /\ Garbled.form = "garbled"
  BY DEF Absent, Empty, Broken, Garbled, File
<1>3. {Absent, Empty, Broken, Garbled} \subseteq Files
  BY DEF Absent, Empty, Broken, Garbled, File, Files
<1>4. \A name \in Suites \union {OtherName} :
         /\ ManifestFile(name) \in Files
         /\ ManifestFile(name).form = "whole" /\ ManifestFile(name).holds = name
  BY DEF ManifestFile, File, Files
<1>5. \A f \in [form : {"short", "whole"}, holds : AllIds, version : Versions] :
         f \in Files /\ f.form \in {"short", "whole"} /\ f.holds \in AllIds /\ f.version \in Versions
  BY DEF Files
<1>6. Absent \in Contents(p) /\ Empty \in Contents(p) /\ Broken \in Contents(p)
  BY DEF Contents
<1>7. ASSUME NEW f \in Contents(p)
      PROVE  /\ f \in Files
             /\ f.form = "absent" => f = Absent
             /\ f.form = "broken" => f = Broken
             /\ f.form = "garbled" => f = Garbled /\ p[2] \notin {Manifest, ByHand}
             /\ p[2] = Manifest /\ f.form = "whole" => f.holds \in Suites \union {OtherName}
             /\ p[2] # Manifest /\ f.form \in {"whole", "short"} =>
                   f.holds \in AllIds /\ f.version \in Versions
  <2>1. CASE f \in {Absent, Empty, Broken}
    BY <1>2, <1>3, <2>1
  <2>2. CASE f = Garbled /\ p[2] \notin {Manifest, ByHand}
    BY <1>2, <1>3, <2>2
  <2>3. CASE p[2] = Manifest /\ f \in {ManifestFile(name) : name \in Suites \union {OtherName}}
    <3>1. PICK name \in Suites \union {OtherName} : f = ManifestFile(name)
      BY <2>3
    <3> QED BY <1>4, <2>3, <3>1
  <2>4. CASE p[2] # Manifest /\ f \in [form : {"short", "whole"}, holds : AllIds, version : Versions]
    BY <1>5, <2>4
  <2> QED BY <1>1, <2>1, <2>2, <2>3, <2>4
<1> QED BY <1>6, <1>7

LEMMA PayloadIs ==
    ASSUME NEW b \in Scripts, NEW p, Mine(b, source[b], p),
           source[b] \in [Ids(b) -> Versions \union {None}]
    PROVE  /\ Payload(b, p) \in Contents(p)
           /\ Cuts(p, Payload(b, p)) \subseteq Contents(p)
           /\ p[2] # Manifest => Payload(b, p).version = source[b][p[2]]
<1>0. p \in Paths /\ p[1] \in Suites /\ p[2] # ByHand
  BY PathsAre DEF Mine
<1>1. CASE p[2] = Manifest
  <2>1. Payload(b, p) = ManifestFile(p[1])
    BY <1>1 DEF Payload
  <2>2. {ManifestFile(name) : name \in Suites \union {OtherName}} \subseteq Contents(p)
    BY <1>1 DEF Contents
  <2>3. ManifestFile(p[1]) \in Contents(p) /\ ManifestFile(OtherName) \in Contents(p)
    BY <1>0, <2>2
  <2>4. Cuts(p, Payload(b, p)) = {Empty, Broken} \union {ManifestFile(OtherName), Payload(b, p)}
    BY <1>1 DEF Cuts
  <2> QED BY <1>0, <1>1, <2>1, <2>3, <2>4, ContentsAre
<1>2. CASE p[2] # Manifest
  <2>1. p[2] \in Ids(b) /\ p[2] \in AllIds /\ source[b][p[2]] \in Versions
    BY <1>0, <1>2, SuitesAre DEF Mine
  <2>2. Payload(b, p) = [form |-> "whole", holds |-> p[2], version |-> source[b][p[2]]]
    BY <1>2 DEF Payload, TaskFile, File
  <2>3. [form : {"short", "whole"}, holds : AllIds, version : Versions] \union {Garbled} \subseteq Contents(p)
    BY <1>0, <1>2 DEF Contents
  <2>4. Payload(b, p) \in [form : {"short", "whole"}, holds : AllIds, version : Versions]
    BY <2>1, <2>2
  <2>5. [Payload(b, p) EXCEPT !.form = "short"] \in [form : {"short", "whole"}, holds : AllIds, version : Versions]
    BY <2>4
  <2>6. Cuts(p, Payload(b, p)) \subseteq {Empty, Broken, Garbled, [Payload(b, p) EXCEPT !.form = "short"]}
    BY <1>2 DEF Cuts
  <2>7. Payload(b, p).version = source[b][p[2]]
    BY <2>2
  <2> QED BY <1>0, <2>3, <2>4, <2>5, <2>6, <2>7, ContentsAre
<1> QED BY <1>1, <1>2

-----------------------------------------------------------------------------
(* The scripts keep BuildInv.                                                *)

DiskOK == files \in [Paths -> Files] /\ \A p \in Paths : files[p] \in Contents(p)

LEMMA DiskKept ==
    ASSUME DiskOK, NEW p \in Paths, NEW content \in Contents(p),
           files' = [files EXCEPT ![p] = content]
    PROVE  /\ DiskOK'
           /\ files'[p] = content
           /\ \A q \in Paths : q # p => files'[q] = files[q]
<1>1. content \in Files
  BY ContentsAre
<1> QED BY <1>1 DEF DiskOK

\* A script that somebody else's step does not concern.
LEMMA OtherScript ==
    ASSUME NEW c \in Scripts, Progress(c),
           stage'[c] = stage[c], source'[c] = source[c], todo'[c] = todo[c],
           c = "coding" => failures' = failures,
           touched[c] \subseteq touched'[c],
           \A p : Mine(c, source[c], p) => files'[p] = files[p] \/ p \in touched'[c],
           stage[c] = "verify" => todo[c] # <<>> /\ todo[c] \in Seq(Paths)
    PROVE  Progress(c)'
<1>1. \A p \in ToSet(Plan(c, source[c])) : Mine(c, source[c], p)
  BY PlanIs
<1>2. \A p : Payload(c, p)' = Payload(c, p)
  BY DEF Payload
<1>3. \A p : Mine(c, source[c], p) /\ Written(c, p) => Written(c, p)'
  BY <1>2 DEF Written
<1>4. \A p : Verified(c, p) => Verified(c, p)'
  BY DEF Verified
<1>5. Plan(c, source[c])' = Plan(c, source[c])
  OBVIOUS
<1>6. stage[c] = "verify" => Head(todo[c]) \in ToSet(todo[c]) /\ "verify" \in Active
  BY DEF ToSet, Active
<1> QED BY <1>1, <1>3, <1>4, <1>5, <1>6 DEF Progress

LEMMA OneScript ==
    ASSUME BuildInv, NEW b \in Scripts, Progress(b)',
           \A c \in Scripts \ {b} : /\ stage'[c] = stage[c] /\ source'[c] = source[c]
                                    /\ todo'[c] = todo[c],
           b # "coding" => failures' = failures,
           touched' = touched,
           \A p \in Paths : files'[p] = files[p] \/ Mine(b, source[b], p)
    PROVE  \A c \in Scripts : Progress(c)'
<1> SUFFICES ASSUME NEW c \in Scripts, c # b PROVE Progress(c)'
  OBVIOUS
<1>1. (c = "coding" /\ b = "extra") \/ (c = "extra" /\ b = "coding")
  BY DEF Scripts
<1>2. \A p : Mine(c, source[c], p) => p \in Paths /\ ~Mine(b, source[b], p)
  BY <1>1 DEF Mine
<1>3. \A p : Mine(c, source[c], p) => files'[p] = files[p]
  BY <1>2
<1>4. c = "coding" => failures' = failures
  BY <1>1
<1>5. stage[c] = "verify" => todo[c] # <<>> /\ todo[c] \in Seq(Paths)
  BY DEF BuildInv, BuildTypeOK, Active
<1>6. Progress(c) /\ touched[c] \subseteq touched'[c]
  BY DEF BuildInv
<1>7. stage'[c] = stage[c] /\ source'[c] = source[c] /\ todo'[c] = todo[c]
  OBVIOUS
<1> QED BY <1>3, <1>4, <1>5, <1>6, <1>7, OtherScript

\* The file that a running script has in hand.
LEMMA InHand ==
    ASSUME BuildInv, NEW b \in Scripts, stage[b] \in Active
    PROVE  /\ todo[b] \in Seq(Paths) /\ todo[b] # <<>>
           /\ Head(todo[b]) \in ToSet(todo[b])
           /\ Mine(b, source[b], Head(todo[b])) /\ Head(todo[b]) \in Paths
           /\ \A p \in ToSet(todo[b]) : p = Head(todo[b]) \/ p \in ToSet(Tail(todo[b]))
           /\ ToSet(Tail(todo[b])) \subseteq ToSet(todo[b])
           /\ Tail(todo[b]) \in Seq(Paths)
           /\ Len(todo[b]) > 1 <=> Tail(todo[b]) # <<>>
<1>1. todo[b] \in Seq(Paths) /\ todo[b] # <<>>
  BY DEF BuildInv, BuildTypeOK
<1>2. /\ ToSet(todo[b]) = {Head(todo[b])} \union ToSet(Tail(todo[b]))
      /\ Tail(todo[b]) \in Seq(Paths) /\ (Len(todo[b]) > 1 <=> Tail(todo[b]) # <<>>)
  BY <1>1, SeqParts
<1>3. ToSet(todo[b]) \subseteq ToSet(Plan(b, source[b]))
  BY DEF BuildInv, Progress
<1>4. Mine(b, source[b], Head(todo[b]))
  BY <1>2, <1>3, PlanIs
<1> QED BY <1>1, <1>2, <1>4 DEF Mine

LEMMA StartKeeps ==
    ASSUME BuildInv, NEW b \in Scripts, Start(b)
    PROVE  BuildInv'
<1> USE DEF Start
<1>0. BuildTypeOK
  BY DEF BuildInv
<1>1. source'[b] = [t \in Ids(b) |-> defs[t]] /\ todo'[b] = Plan(b, defs)
  BY <1>0 DEF BuildTypeOK
<1>2. \A c \in Scripts \ {b} : /\ stage'[c] = stage[c] /\ source'[c] = source[c]
                               /\ todo'[c] = todo[c] /\ touched'[c] = touched[c]
  BY <1>0 DEF BuildTypeOK
<1>3. stage'[b] = IF Plan(b, defs) = <<>> THEN "ok" ELSE "open"
  BY <1>0 DEF BuildTypeOK
<1>4. Plan(b, defs) = Plan(b, source'[b])
  <2>1. \A t \in Ids(b) : defs[t] = source'[b][t]
    BY <1>1
  <2> QED BY <2>1, SamePlan
<1>5. Ids(b) \subseteq AllIds
  BY SuitesAre DEF Ids, AllIds, Suites
<1>6. BuildTypeOK'
  <2>1. source'[b] \in [Ids(b) -> Versions \union {None}]
    BY <1>0, <1>1, <1>5 DEF BuildTypeOK
  <2>2. Plan(b, defs) \in Seq(Paths)
    BY PlanIs
  <2>3. todo' \in [Scripts -> Seq(Paths)] /\ DOMAIN source' = Scripts
    BY <1>0, <2>2 DEF BuildTypeOK
  <2>4. \A c \in Scripts : source'[c] \in [Ids(c) -> Versions \union {None}]
    BY <1>0, <1>2, <2>1 DEF BuildTypeOK
  <2>5. \A c \in Scripts : stage'[c] \in Active => todo'[c] # <<>>
    BY <1>0, <1>1, <1>2, <1>3 DEF BuildTypeOK, Active
  <2>6. stage' \in [Scripts -> {"ok", "failed", "dead"} \union Active]
    BY <1>0 DEF BuildTypeOK, Active
  <2>7. failures' \subseteq TaskIds(Coding) /\ touched' \in [Scripts -> SUBSET Paths]
    BY <1>0 DEF BuildTypeOK
  <2> QED BY <1>0, <2>3, <2>4, <2>5, <2>6, <2>7 DEF BuildTypeOK
<1>7. Progress(b)'
  <2>1. todo'[b] = Plan(b, source'[b])
    BY <1>1, <1>4
  <2>2. stage'[b] = "ok" => todo'[b] = <<>> /\ (b = "coding" => failures' = {})
    BY <1>1, <1>3
  <2>3. stage'[b] # "verify"
    BY <1>3
  <2> QED BY <2>1, <2>2, <2>3 DEF Progress
<1>8. ASSUME NEW c \in Scripts, c # b PROVE Progress(c)'
  <2>1. c = "coding" => failures' = failures
    BY <1>8 DEF Scripts
  <2>2. Progress(c) /\ (stage[c] = "verify" => todo[c] # <<>> /\ todo[c] \in Seq(Paths))
    BY DEF BuildInv, BuildTypeOK, Active
  <2>3. \A p : files'[p] = files[p]
    OBVIOUS
  <2>4. stage'[c] = stage[c] /\ source'[c] = source[c] /\ todo'[c] = todo[c] /\ touched[c] \subseteq touched'[c]
    BY <1>2, <1>8
  <2> QED BY <2>1, <2>2, <2>3, <2>4, OtherScript
<1>9. \A p \in Paths : files'[p] \in Contents(p)
  BY DEF BuildInv
<1> QED BY <1>6, <1>7, <1>8, <1>9 DEF BuildInv

LEMMA OpenKeeps ==
    ASSUME BuildInv, NEW b \in Scripts, Open(b)
    PROVE  BuildInv'
<1> DEFINE h == Head(todo[b])
<1>0. BuildTypeOK /\ stage[b] = "open" /\ stage[b] \in Active
  BY DEF BuildInv, Open, Active
<1>1. PICK p \in Paths : p = h /\ Mine(b, source[b], p) /\ p \in ToSet(todo[b])
  BY <1>0, InHand
<1>2. files' = [files EXCEPT ![p] = Empty] /\ changed' = changed \union {p}
  BY <1>1 DEF Open, Put
<1>3. /\ stage' = [stage EXCEPT ![b] = "write"]
      /\ UNCHANGED <<defs, source, todo, failures, edits, deaths, touched>>
  BY DEF Open
<1>4. DiskOK' /\ \A q \in Paths : q # p => files'[q] = files[q]
  <2>1. DiskOK /\ Empty \in Contents(p)
    BY ContentsAre DEF BuildInv, BuildTypeOK, DiskOK
  <2> QED BY <1>2, <2>1, DiskKept
<1>5. /\ stage' \in [Scripts -> {"ok", "failed", "dead"} \union Active]
      /\ stage'[b] = "write" /\ \A c \in Scripts \ {b} : stage'[c] = stage[c]
  BY <1>0, <1>3 DEF BuildTypeOK, Active
<1>6. BuildTypeOK'
  <2>1. \A c \in Scripts : stage'[c] \in Active => todo'[c] # <<>>
    BY <1>0, <1>3, <1>5 DEF BuildTypeOK
  <2>2. changed' \subseteq Paths
    BY <1>0, <1>2 DEF BuildTypeOK
  <2> QED BY <1>0, <1>3, <1>4, <1>5, <2>1, <2>2 DEF BuildTypeOK, DiskOK
<1>7. Progress(b)'
  <2>1. Progress(b)
    BY DEF BuildInv
  <2>2. \A q \in ToSet(Plan(b, source[b])) : q \in Paths
    BY PlanIs DEF Mine
  <2>3. \A q : Payload(b, q)' = Payload(b, q)
    BY <1>3 DEF Payload
  <2>4. \A q \in Paths : q # p /\ Written(b, q) => Written(b, q)'
    BY <1>3, <1>4, <2>3 DEF Written
  <2>5. \A q : Verified(b, q) => Verified(b, q)'
    BY <1>3 DEF Verified
  <2>6. todo' = todo /\ source' = source
    BY <1>3
  <2> QED BY <1>0, <1>1, <1>5, <2>1, <2>2, <2>4, <2>5, <2>6 DEF Progress
<1>8. \A c \in Scripts : Progress(c)'
  <2>1. \A q \in Paths : files'[q] = files[q] \/ Mine(b, source[b], q)
    BY <1>1, <1>4
  <2> QED BY <1>3, <1>5, <1>7, <2>1, OneScript
<1> QED BY <1>4, <1>6, <1>8 DEF BuildInv, DiskOK

\* The script goes on to the next file, when this one is as it should be.
LEMMA AdvanceKeeps ==
    ASSUME BuildInv, NEW b \in Scripts, stage[b] \in Active, NEW failed, Advance(b, failed),
           NEW h \in Paths, h = Head(todo[b]),
           b = "coding" => failures' = failed /\ failures \subseteq failures',
           UNCHANGED <<source, touched>>,
           \A p \in Paths : p # h => files'[p] = files[p],
           Written(b, h)', Verified(b, h)'
    PROVE  /\ Progress(b)'
           /\ stage' \in [Scripts -> {"ok", "failed", "dead"} \union Active]
           /\ todo' \in [Scripts -> Seq(Paths)]
           /\ \A c \in Scripts : stage'[c] \in Active => todo'[c] # <<>>
           /\ \A c \in Scripts \ {b} : stage'[c] = stage[c] /\ todo'[c] = todo[c]
<1>2. /\ todo[b] \in Seq(Paths)
      /\ \A p \in ToSet(todo[b]) : p = h \/ p \in ToSet(Tail(todo[b]))
      /\ ToSet(Tail(todo[b])) \subseteq ToSet(todo[b])
      /\ Tail(todo[b]) \in Seq(Paths)
      /\ Len(todo[b]) > 1 <=> Tail(todo[b]) # <<>>
  BY InHand
<1>3. BuildTypeOK /\ Progress(b)
  BY DEF BuildInv
<1>4. PICK rest : rest = Tail(todo[b])
  OBVIOUS
<1>5. todo' = [todo EXCEPT ![b] = rest] /\ todo'[b] = rest
  BY <1>3, <1>4 DEF Advance, BuildTypeOK
<1>6. stage'[b] = IF rest # <<>> THEN "open" ELSE IF failed = {} THEN "ok" ELSE "failed"
  BY <1>2, <1>3, <1>4 DEF Advance, BuildTypeOK
<1>7. stage' \in [Scripts -> {"ok", "failed", "dead"} \union Active]
  BY <1>3 DEF Advance, BuildTypeOK, Active
<1>8. \A c \in Scripts \ {b} : stage'[c] = stage[c] /\ todo'[c] = todo[c]
  BY <1>3 DEF Advance, BuildTypeOK
<1>9. todo' \in [Scripts -> Seq(Paths)]
  BY <1>2, <1>3, <1>4, <1>5 DEF BuildTypeOK
<1>10. \A c \in Scripts : stage'[c] \in Active => todo'[c] # <<>>
  BY <1>3, <1>5, <1>6, <1>8 DEF BuildTypeOK, Active
<1>11. ASSUME NEW p \in ToSet(Plan(b, source[b])) \ ToSet(rest)
       PROVE  Written(b, p)' /\ Verified(b, p)'
  <2>1. CASE p = h
    BY <2>1
  <2>2. CASE p # h
    <3>1. p \notin ToSet(todo[b])
      BY <1>2, <1>4, <2>2
    <3>2. Written(b, p) /\ Verified(b, p)
      BY <1>3, <3>1 DEF Progress
    <3>3. p \in Paths
      BY PlanIs DEF Mine
    <3>4. Payload(b, p)' = Payload(b, p)
      BY DEF Payload
    <3>5. Written(b, p)'
      BY <2>2, <3>2, <3>3, <3>4 DEF Written
    <3>6. Verified(b, p)'
      BY <3>2 DEF Verified
    <3> QED BY <3>5, <3>6
  <2> QED BY <2>1, <2>2
<1>12. ToSet(rest) \subseteq ToSet(Plan(b, source[b]))
  BY <1>2, <1>3, <1>4 DEF Progress
<1>13. stage'[b] # "verify" /\ (stage'[b] = "ok" => rest = <<>> /\ failed = {})
  BY <1>6
<1>14. Progress(b)'
  BY <1>5, <1>11, <1>12, <1>13 DEF Progress
<1> QED BY <1>7, <1>8, <1>9, <1>10, <1>14

LEMMA WriteKeeps ==
    ASSUME BuildInv, NEW b \in Scripts, Write(b)
    PROVE  BuildInv'
<1>0. BuildTypeOK /\ stage[b] = "write" /\ stage[b] \in Active /\ source[b] \in [Ids(b) -> Versions \union {None}]
  BY DEF BuildInv, BuildTypeOK, Write, Active
<1>1. PICK p \in Paths : p = Head(todo[b]) /\ Mine(b, source[b], p) /\ p \in ToSet(todo[b])
  BY <1>0, InHand
<1>2. files' = [files EXCEPT ![p] = Payload(b, p)] /\ changed' = changed \union {p}
  BY <1>1 DEF Write, Put
<1>3. UNCHANGED <<defs, source, failures, edits, deaths, touched>>
  BY DEF Write
<1>4. DiskOK' /\ files'[p] = Payload(b, p) /\ \A q \in Paths : q # p => files'[q] = files[q]
  <2>1. DiskOK /\ Payload(b, p) \in Contents(p)
    BY <1>0, <1>1, PayloadIs DEF BuildInv, BuildTypeOK, DiskOK
  <2> QED BY <1>2, <2>1, DiskKept
<1>5. \A q : Payload(b, q)' = Payload(b, q)
  BY <1>3 DEF Payload
<1>6. Written(b, p)'
  BY <1>4, <1>5 DEF Written
<1>7. /\ Progress(b)'
      /\ stage' \in [Scripts -> {"ok", "failed", "dead"} \union Active]
      /\ todo' \in [Scripts -> Seq(Paths)]
      /\ \A c \in Scripts : stage'[c] \in Active => todo'[c] # <<>>
      /\ \A c \in Scripts \ {b} : stage'[c] = stage[c] /\ todo'[c] = todo[c]
  <2>1. CASE b = "coding"
    <3>1. stage' = [stage EXCEPT ![b] = "verify"] /\ todo' = todo
      BY <2>1 DEF Write
    <3>2. /\ stage' \in [Scripts -> {"ok", "failed", "dead"} \union Active]
          /\ stage'[b] = "verify" /\ \A c \in Scripts \ {b} : stage'[c] = stage[c]
      BY <1>0, <3>1 DEF BuildTypeOK, Active
    <3>3. \A c \in Scripts : stage'[c] \in Active => todo'[c] # <<>>
      BY <1>0, <3>1, <3>2 DEF BuildTypeOK
    <3>4. Progress(b)
      BY DEF BuildInv
    <3>5. \A q \in ToSet(Plan(b, source[b])) : q \in Paths
      BY PlanIs DEF Mine
    <3>6. \A q \in Paths : q # p /\ Written(b, q) => Written(b, q)'
      BY <1>3, <1>4, <1>5 DEF Written
    <3>7. \A q : Verified(b, q) => Verified(b, q)'
      BY <1>3 DEF Verified
    <3>8. Progress(b)'
      BY <1>0, <1>1, <1>3, <1>6, <2>1, <3>1, <3>2, <3>4, <3>5, <3>6, <3>7 DEF Progress
    <3> QED BY <1>0, <3>1, <3>2, <3>3, <3>8 DEF BuildTypeOK
  <2>2. CASE b # "coding"
    <3>1. Advance(b, {}) /\ Verified(b, p)'
      BY <2>2 DEF Write, Verified
    <3>4. b = "coding" => failures' = {} /\ failures \subseteq failures'
      BY <2>2
    <3>5. UNCHANGED <<source, touched>>
      BY <1>3
    <3> QED BY <1>0, <1>1, <1>4, <1>6, <3>1, <3>4, <3>5, AdvanceKeeps
  <2> QED BY <2>1, <2>2
<1>8. \A c \in Scripts : Progress(c)'
  <2>1. \A q \in Paths : files'[q] = files[q] \/ Mine(b, source[b], q)
    BY <1>1, <1>4
  <2> QED BY <1>3, <1>7, <2>1, OneScript
<1>9. BuildTypeOK'
  <2>1. changed' \subseteq Paths
    BY <1>0, <1>2 DEF BuildTypeOK
  <2> QED BY <1>0, <1>3, <1>4, <1>7, <2>1 DEF BuildTypeOK, DiskOK
<1> QED BY <1>4, <1>8, <1>9 DEF BuildInv, DiskOK

LEMMA VerifyKeeps ==
    ASSUME BuildInv, NEW b \in Scripts, Verify(b)
    PROVE  BuildInv'
<1>0. /\ BuildTypeOK /\ stage[b] = "verify" /\ stage[b] \in Active
      /\ source[b] \in [Ids(b) -> Versions \union {None}]
  BY DEF BuildInv, BuildTypeOK, Verify, Active
<1>1. PICK p \in Paths : p = Head(todo[b]) /\ Mine(b, source[b], p) /\ p \in ToSet(todo[b])
  BY <1>0, InHand
<1>2. b = "coding" /\ Written(b, p)
  BY <1>0, <1>1 DEF BuildInv, Progress
<1>3. UNCHANGED <<defs, files, source, edits, deaths, touched, changed>>
  BY DEF Verify
<1>4. /\ source[b][p[2]].kind # "unsolved"
      /\ failures' = failures \union (IF source[b][p[2]].kind = "unsound" THEN {p[2]} ELSE {})
      /\ Advance(b, failures')
  BY <1>1 DEF Verify, Kind
<1>5. p[2] \in TaskIds(Coding)
  BY <1>1, <1>2 DEF Mine
<1>6. failures' \subseteq TaskIds(Coding) /\ failures \subseteq failures'
  BY <1>0, <1>4, <1>5 DEF BuildTypeOK
<1>7. Verified(b, p)'
  BY <1>3, <1>4 DEF Verified
<1>8. Written(b, p)'
  BY <1>2, <1>3 DEF Written, Payload
<1>9. PICK failed : failed = failures' /\ Advance(b, failed)
  BY <1>4
<1>10. UNCHANGED <<source, touched>> /\ \A q \in Paths : q # p => files'[q] = files[q]
  BY <1>3
<1>11. /\ Progress(b)'
       /\ stage' \in [Scripts -> {"ok", "failed", "dead"} \union Active]
       /\ todo' \in [Scripts -> Seq(Paths)]
       /\ \A c \in Scripts : stage'[c] \in Active => todo'[c] # <<>>
       /\ \A c \in Scripts \ {b} : stage'[c] = stage[c] /\ todo'[c] = todo[c]
  BY <1>0, <1>1, <1>6, <1>7, <1>8, <1>9, <1>10, AdvanceKeeps
<1>12. \A c \in Scripts : Progress(c)'
  BY <1>2, <1>3, <1>11, OneScript
<1>13. BuildTypeOK'
  BY <1>0, <1>3, <1>6, <1>11 DEF BuildTypeOK
<1>14. \A q \in Paths : files'[q] \in Contents(q)
  BY <1>3 DEF BuildInv
<1> QED BY <1>12, <1>13, <1>14 DEF BuildInv

\* A script that ends early, and may leave a part of the file in hand.
LEMMA GoneKeeps ==
    ASSUME BuildInv, NEW b \in Scripts, stage[b] \in Active,
           NEW how \in {"failed", "dead"}, Gone(b, how),
           UNCHANGED <<defs, edits, touched>>, deaths' \in 0 .. MaxDeaths,
           NEW p \in Paths, Mine(b, source[b], p),
           \/ UNCHANGED <<files, changed>>
           \/ \E part \in Contents(p) : Put(p, part)
    PROVE  BuildInv'
<1>0. BuildTypeOK /\ DiskOK
  BY DEF BuildInv, BuildTypeOK, DiskOK
<1>1. /\ source'[b] = [t \in Ids(b) |-> None] /\ DOMAIN source' = Scripts
      /\ todo' = [todo EXCEPT ![b] = <<>>] /\ stage' = [stage EXCEPT ![b] = how]
      /\ failures' = IF b = "coding" THEN {} ELSE failures
  BY <1>0 DEF Gone, BuildTypeOK
<1>2. /\ todo' \in [Scripts -> Seq(Paths)] /\ todo'[b] = <<>>
      /\ stage' \in [Scripts -> {"ok", "failed", "dead"} \union Active] /\ stage'[b] = how
  BY <1>0, <1>1 DEF BuildTypeOK, Active
<1>3. \A c \in Scripts \ {b} : /\ stage'[c] = stage[c] /\ source'[c] = source[c]
                               /\ todo'[c] = todo[c]
  BY <1>0 DEF Gone, BuildTypeOK
<1>4. how \notin Active /\ how # "ok" /\ how # "verify"
  BY DEF Active
<1>5. DiskOK' /\ changed' \subseteq Paths /\ \A q \in Paths : q # p => files'[q] = files[q]
  <2>1. CASE UNCHANGED <<files, changed>>
    BY <1>0, <2>1 DEF DiskOK, BuildTypeOK
  <2>2. CASE \E part \in Contents(p) : Put(p, part)
    <3>1. PICK part \in Contents(p) : files' = [files EXCEPT ![p] = part] /\ changed' = changed \union {p}
      BY <2>2 DEF Put
    <3> QED BY <1>0, <3>1, DiskKept DEF BuildTypeOK
  <2> QED BY <2>1, <2>2
<1>6. Progress(b)'
  BY <1>2, <1>4 DEF Progress
<1>7. \A c \in Scripts : Progress(c)'
  <2>1. \A q \in Paths : files'[q] = files[q] \/ Mine(b, source[b], q)
    BY <1>5
  <2>2. b # "coding" => failures' = failures
    BY <1>1
  <2>3. touched' = touched
    OBVIOUS
  <2> QED BY <1>3, <1>6, <2>1, <2>2, <2>3, OneScript
<1>8. \A c \in Scripts : /\ source'[c] \in [Ids(c) -> Versions \union {None}]
                         /\ stage'[c] \in Active => todo'[c] # <<>>
  <2>1. source'[b] \in [Ids(b) -> Versions \union {None}]
    BY <1>1
  <2> QED BY <1>0, <1>2, <1>3, <1>4, <2>1 DEF BuildTypeOK
<1>9. failures' \subseteq TaskIds(Coding)
  BY <1>0, <1>1 DEF BuildTypeOK
<1>10. UNCHANGED <<defs, edits, touched>>
  OBVIOUS
<1>11. BuildTypeOK'
  BY <1>0, <1>1, <1>2, <1>5, <1>8, <1>9, <1>10 DEF BuildTypeOK, DiskOK
<1> QED BY <1>5, <1>7, <1>11 DEF BuildInv, DiskOK

LEMMA EndKeeps ==
    ASSUME BuildInv, NEW b \in Scripts, Refuse(b) \/ NoSolution(b) \/ Die(b)
    PROVE  BuildInv'
<1>0. stage[b] \in Active /\ BuildTypeOK /\ source[b] \in [Ids(b) -> Versions \union {None}]
  BY DEF Refuse, NoSolution, Die, Active, BuildInv, BuildTypeOK
<1>1. PICK p \in Paths : p = Head(todo[b]) /\ Mine(b, source[b], p)
  BY <1>0, InHand
<1>2. CASE Refuse(b) \/ NoSolution(b)
  <2>1. /\ Gone(b, "failed") /\ UNCHANGED <<defs, edits, touched>> /\ deaths' = deaths
        /\ UNCHANGED <<files, changed>>
    BY <1>2 DEF Refuse, NoSolution
  <2>2. deaths' \in 0 .. MaxDeaths
    BY <1>0, <2>1 DEF BuildTypeOK
  <2> QED BY <1>0, <1>1, <2>1, <2>2, GoneKeeps
<1>3. CASE Die(b)
  <2>1. Gone(b, "dead") /\ UNCHANGED <<defs, edits, touched>>
    BY <1>3 DEF Die
  <2>2. deaths' \in 0 .. MaxDeaths
    BY <1>0, <1>3, SuiteBuildAssumption DEF Die, BuildTypeOK
  <2>3. UNCHANGED <<files, changed>> \/ \E part \in Contents(p) : Put(p, part)
    <3>1. Cuts(p, Payload(b, p)) \subseteq Contents(p)
      BY <1>0, <1>1, PayloadIs
    <3>2. UNCHANGED <<files, changed>> \/ \E part \in Cuts(p, Payload(b, p)) : Put(p, part)
      BY <1>1, <1>3 DEF Die
    <3> QED BY <3>1, <3>2
  <2> QED BY <1>0, <1>1, <2>1, <2>2, <2>3, GoneKeeps
<1> QED BY <1>2, <1>3

LEMMA EditsKeep ==
    ASSUME BuildInv, EditDefinition \/ EditFile
    PROVE  BuildInv'
<1>0. BuildTypeOK /\ DiskOK
  BY DEF BuildInv, BuildTypeOK, DiskOK
<1>1. edits' \in 0 .. MaxEdits
  BY <1>0, SuiteBuildAssumption DEF EditDefinition, EditFile, BuildTypeOK
<1>2. ASSUME NEW c \in Scripts,
             UNCHANGED <<stage, source, todo, failures>>, touched[c] \subseteq touched'[c],
             \A p \in Paths : files'[p] = files[p] \/ p \in touched'[c]
      PROVE  Progress(c)'
  <2>1. Progress(c) /\ (stage[c] = "verify" => todo[c] # <<>> /\ todo[c] \in Seq(Paths))
    BY DEF BuildInv, BuildTypeOK, Active
  <2>2. \A p : Mine(c, source[c], p) => files'[p] = files[p] \/ p \in touched'[c]
    BY <1>2 DEF Mine
  <2>3. stage'[c] = stage[c] /\ source'[c] = source[c] /\ todo'[c] = todo[c] /\ failures' = failures
    BY <1>2
  <2> QED BY <1>2, <2>1, <2>2, <2>3, OtherScript
<1>3. CASE EditDefinition
  <2>1. PICK e \in DefinitionEdits : defs' = [defs EXCEPT ![e[1]] = e[2]]
    BY <1>3 DEF EditDefinition
  <2>2. e[2] \in Versions \union {None}
    BY SuiteBuildAssumption
  <2>3. defs' \in [AllIds -> Versions \union {None}]
    BY <1>0, <2>1, <2>2 DEF BuildTypeOK
  <2>4. UNCHANGED <<files, stage, source, todo, failures, deaths, touched, changed>>
    BY <1>3 DEF EditDefinition
  <2>5. BuildTypeOK' /\ DiskOK'
    BY <1>0, <1>1, <2>3, <2>4 DEF BuildTypeOK, DiskOK
  <2>6. \A c \in Scripts : Progress(c)'
    BY <1>2, <2>4
  <2> QED BY <2>5, <2>6 DEF BuildInv, DiskOK
<1>4. CASE EditFile
  <2>1. PICK e \in FileEdits : /\ Put(e[1], e[2])
                              /\ touched' = [b \in Scripts |-> touched[b] \union {e[1]}]
    BY <1>4 DEF EditFile
  <2>2. e[1] \in Paths /\ e[2] \in Contents(e[1])
    BY SuiteBuildAssumption
  <2>3. files' = [files EXCEPT ![e[1]] = e[2]] /\ changed' = changed \union {e[1]}
    BY <2>1 DEF Put
  <2>4. DiskOK' /\ \A q \in Paths : q # e[1] => files'[q] = files[q]
    BY <1>0, <2>2, <2>3, DiskKept
  <2>5. UNCHANGED <<defs, stage, source, todo, failures, deaths>>
    BY <1>4 DEF EditFile
  <2>6. BuildTypeOK'
    <3>1. touched' \in [Scripts -> SUBSET Paths] /\ changed' \subseteq Paths
      BY <1>0, <2>1, <2>2, <2>3 DEF BuildTypeOK
    <3> QED BY <1>0, <1>1, <2>4, <2>5, <3>1 DEF BuildTypeOK, DiskOK
  <2>7. \A c \in Scripts : touched[c] \subseteq touched'[c] /\ e[1] \in touched'[c]
    BY <2>1
  <2>8. \A c \in Scripts : Progress(c)'
    BY <1>2, <2>4, <2>5, <2>7
  <2> QED BY <2>4, <2>6, <2>8 DEF BuildInv, DiskOK
<1> QED BY <1>3, <1>4

LEMMA BuildStarts ==
    ASSUME BuildInit
    PROVE  BuildInv
<1>1. PICK v \in Versions : v.kind = "sound" /\ defs = [t \in AllIds |-> v]
  BY DEF BuildInit
<1>2. /\ files = [p \in Paths |->
                    IF p[2] = ByHand \/ p = <<Coding, Manifest>> THEN Absent
                    ELSE IF p[2] = Manifest THEN ManifestFile(p[1])
                    ELSE TaskFile(p[2], defs[p[2]])]
      /\ stage = [b \in Scripts |-> "ok"]
      /\ source = [b \in Scripts |-> [t \in Ids(b) |-> defs[t]]]
      /\ todo = [b \in Scripts |-> <<>>]
      /\ failures = {} /\ edits = 0 /\ deaths = 0
      /\ touched = [b \in Scripts |-> {}] /\ changed = Paths
  BY DEF BuildInit
<1>3. \A b \in Scripts : Ids(b) \subseteq AllIds
  BY SuitesAre DEF Ids, AllIds, Suites
<1>4. \A b \in Scripts : source[b] = [t \in Ids(b) |-> v]
  BY <1>1, <1>2, <1>3
<1>5. \A b \in Scripts : source[b] \in [Ids(b) -> Versions \union {None}]
  BY <1>4
<1>6. ASSUME NEW p \in Paths
      PROVE  files[p] \in Contents(p)
  <2>1. CASE p[2] = ByHand \/ p = <<Coding, Manifest>>
    BY <1>2, <2>1, ContentsAre
  <2>2. CASE p[2] = Manifest /\ ~(p[2] = ByHand \/ p = <<Coding, Manifest>>)
    <3>1. p[1] \in Suites /\ files[p] = ManifestFile(p[1])
      BY <1>2, <2>2, PathsAre
    <3> QED BY <2>2, <3>1 DEF Contents
  <2>3. CASE p[2] # Manifest /\ p[2] # ByHand
    <3>1. p[2] \in AllIds
      BY <2>3, PathsAre, SuitesAre
    <3>2. p # <<Coding, Manifest>>
      BY <2>3
    <3>3. files[p] = [form |-> "whole", holds |-> p[2], version |-> v]
      BY <1>1, <1>2, <2>3, <3>1, <3>2 DEF TaskFile, File
    <3>4. files[p] \in [form : {"short", "whole"}, holds : AllIds, version : Versions]
      BY <3>1, <3>3
    <3> QED BY <2>3, <3>4 DEF Contents
  <2> QED BY <2>1, <2>2, <2>3
<1>7. BuildTypeOK
  <2>1. files \in [Paths -> Files]
    BY <1>2, <1>6, ContentsAre
  <2>2. edits \in 0 .. MaxEdits /\ deaths \in 0 .. MaxDeaths
    BY <1>2, SuiteBuildAssumption
  <2>3. defs \in [AllIds -> Versions \union {None}]
    BY <1>1
  <2>4. todo \in [Scripts -> Seq(Paths)] /\ DOMAIN source = Scripts /\ failures \subseteq TaskIds(Coding)
    BY <1>2
  <2>5. stage \in [Scripts -> {"ok", "failed", "dead"} \union Active] /\ \A b \in Scripts : stage[b] \notin Active
    BY <1>2 DEF Active
  <2>6. touched \in [Scripts -> SUBSET Paths] /\ changed \subseteq Paths
    BY <1>2
  <2> QED BY <1>5, <2>1, <2>2, <2>3, <2>4, <2>5, <2>6 DEF BuildTypeOK
<1>8. ASSUME NEW b \in Scripts PROVE Progress(b)
  <2>1. ASSUME NEW p \in ToSet(Plan(b, source[b])) PROVE Written(b, p) /\ Verified(b, p)
    <3>1. Mine(b, source[b], p) /\ p \in Paths
      BY PlanIs DEF Mine
    <3>2. CASE p[2] = Manifest
      <4>1. b # "coding" /\ p[1] # Coding /\ p[2] # ByHand
        BY <3>1, <3>2 DEF Mine
      <4>2. files[p] = ManifestFile(p[1])
        <5>1. p # <<Coding, Manifest>>
          BY <4>1
        <5> QED BY <1>2, <3>1, <3>2, <4>1, <5>1
      <4> QED BY <3>2, <4>1, <4>2 DEF Written, Verified, Payload
    <3>3. CASE p[2] # Manifest
      <4>1. p[2] # ByHand /\ p[2] \in Ids(b) /\ p[2] \in AllIds /\ p # <<Coding, Manifest>>
        BY <1>3, <3>1, <3>3 DEF Mine
      <4>2. source[b][p[2]] = v /\ defs[p[2]] = v
        BY <1>1, <1>4, <4>1
      <4>3. files[p] = TaskFile(p[2], v)
        BY <1>2, <3>1, <3>3, <4>1, <4>2
      <4>4. Payload(b, p) = TaskFile(p[2], v)
        BY <3>3, <4>2 DEF Payload
      <4>5. v.kind = "sound"
        BY <1>1
      <4> QED BY <4>2, <4>3, <4>4, <4>5 DEF Written, Verified
    <3> QED BY <3>2, <3>3
  <2>2. stage[b] = "ok" /\ todo[b] = <<>> /\ failures = {}
    BY <1>2
  <2> QED BY <2>1, <2>2 DEF Progress, Active
<1> QED BY <1>6, <1>7, <1>8 DEF BuildInv

\* Every step of the scripts and of the authors.
LEMMA BuildKeeps ==
    ASSUME BuildInv, BuildNext
    PROVE  BuildInv'
<1>1. CASE EditDefinition \/ EditFile
  BY <1>1, EditsKeep
<1>2. CASE \E b \in Scripts : Start(b) \/ Script(b) \/ Die(b)
  <2>1. PICK b \in Scripts : Start(b) \/ Script(b) \/ Die(b)
    BY <1>2
  <2> QED BY <2>1, StartKeeps, OpenKeeps, WriteKeeps, VerifyKeeps, EndKeeps DEF Script
<1> QED BY <1>1, <1>2 DEF BuildNext

LEMMA BuildStutters ==
    ASSUME BuildInv, UNCHANGED <<defs, files, stage, source, todo, failures, edits, deaths, touched>>,
           changed' \subseteq Paths
    PROVE  BuildInv'
<1>1. BuildTypeOK'
  BY DEF BuildInv, BuildTypeOK
<1>2. \A p \in Paths : files'[p] \in Contents(p)
  BY DEF BuildInv
<1>3. \A b, p : Written(b, p)' <=> Written(b, p)
  BY DEF Written, Payload
<1>4. \A b, p : Verified(b, p)' <=> Verified(b, p)
  BY DEF Verified
<1>5. \A b \in Scripts : Progress(b)'
  BY <1>3, <1>4 DEF BuildInv, Progress
<1> QED BY <1>1, <1>2, <1>5 DEF BuildInv

LEMMA GoodBuilds ==
    ASSUME BuildInv
    PROVE  FinishedBuildIsGood
<1> SUFFICES ASSUME NEW b \in Scripts, stage[b] = "ok",
                    NEW p \in ToSet(Plan(b, source[b])) \ touched[b]
             PROVE  /\ files[p] = Payload(b, p)
                    /\ b = "coding" => files[p].version.kind \notin {"unsound", "unsolved"}
  BY DEF FinishedBuildIsGood
<1>1. Progress(b) /\ BuildTypeOK
  BY DEF BuildInv
<1>2. todo[b] = <<>> /\ (b = "coding" => failures = {})
  BY <1>1 DEF Progress
<1>3. p \notin ToSet(todo[b])
  BY <1>2 DEF ToSet
<1>4. Written(b, p) /\ Verified(b, p)
  BY <1>1, <1>3 DEF Progress
<1>5. Mine(b, source[b], p) /\ source[b] \in [Ids(b) -> Versions \union {None}]
  BY <1>1, PlanIs DEF BuildTypeOK
<1>6. files[p] = Payload(b, p)
  BY <1>4 DEF Written
<1>7. b = "coding" => Payload(b, p).version = source[b][p[2]]
  <2>1. b = "coding" => p[2] # Manifest
    BY <1>5 DEF Mine
  <2> QED BY <1>5, <2>1, PayloadIs
<1> QED BY <1>2, <1>4, <1>6, <1>7 DEF Verified

-----------------------------------------------------------------------------
(* The loads keep IInv.  First what any step of the others leaves alone.      *)
LEMMA BuildDisk ==
    ASSUME BuildInv, BuildNext
    PROVE  changed \subseteq changed' /\ \A p \in Paths \ changed' : files'[p] = files[p]
<1>0. files \in [Paths -> Files]
  BY DEF BuildInv, BuildTypeOK
<1>1. ASSUME NEW p, NEW content, Put(p, content)
      PROVE  changed \subseteq changed' /\ \A q \in Paths \ changed' : files'[q] = files[q]
  BY <1>0, <1>1 DEF Put
<1>2. CASE EditDefinition
  BY <1>2 DEF EditDefinition
<1>3. CASE EditFile
  <2>1. \E e \in FileEdits : Put(e[1], e[2])
    BY <1>3 DEF EditFile
  <2> QED BY <1>1, <2>1
<1>4. CASE \E b \in Scripts : Start(b) \/ Script(b) \/ Die(b)
  <2>1. PICK b \in Scripts : Start(b) \/ Script(b) \/ Die(b)
    BY <1>4
  <2>2. UNCHANGED <<files, changed>> \/ \E p, content : Put(p, content)
    BY <2>1 DEF Start, Script, Open, Refuse, Write, Verify, NoSolution, Die
  <2> QED BY <1>1, <2>2
<1> QED BY <1>2, <1>3, <1>4 DEF BuildNext

LEMMA PlacesInOrder ==
    /\ \A i \in DOMAIN DirOrder : DirOrder[i] \in Suites /\ Place(DirOrder[i]) = i
    /\ DirOrder \in Seq(Suites) /\ DirOrder # <<>> /\ ToSet(DirOrder) = Suites
    /\ DOMAIN DirOrder \subseteq Nat
    /\ \A s \in Suites : Place(s) \in Nat
<1>1. DirOrder \in Seq(Suites) /\ ToSet(DirOrder) = Suites
  BY SuiteLoadAssumption
<1>2. \A i, j \in DOMAIN DirOrder : DirOrder[i] = DirOrder[j] => i = j
  BY SuiteLoadAssumption DEF IsInjective
<1>3. \A i \in DOMAIN DirOrder : DirOrder[i] \in Suites /\ i \in Nat
  BY <1>1
<1>4. \A i \in DOMAIN DirOrder : Place(DirOrder[i]) = i
  BY <1>2 DEF Place
<1>5. DirOrder # <<>>
  <2>1. Coding \in ToSet(DirOrder)
    BY <1>1, SuitesAre
  <2> QED BY <2>1 DEF ToSet
<1>6. \A s \in Suites : \E i \in DOMAIN DirOrder : s = DirOrder[i]
  BY <1>1 DEF ToSet
<1>7. \A s \in Suites : Place(s) \in Nat
  BY <1>3, <1>4, <1>6
<1> QED BY <1>1, <1>3, <1>4, <1>5, <1>7

\* Where a load is.
LEMMA Reading ==
    ASSUME IInv, left # <<>>
    PROVE  /\ Head(left) \in Suites /\ <<Head(left), Manifest>> \in Paths
           /\ <<Head(left), ByHand>> \in Paths
           /\ \A name \in TaskIds(Head(left)) : <<Head(left), name>> \in Paths
           /\ Here(Manifest) \in Contents(<<Head(left), Manifest>>)
           /\ Here(ByHand) \in Contents(<<Head(left), ByHand>>)
           /\ \A name \in TaskIds(Head(left)) : Here(name) \in Contents(<<Head(left), name>>)
<1>1. left \in Seq(Suites) /\ \A p \in Paths : files[p] \in Contents(p)
  BY DEF IInv, TypeOK, BuildInv
<1>2. Head(left) \in Suites
  BY <1>1, SeqParts
<1> QED BY <1>1, <1>2, PathsAre DEF Here

\* The scripts and the authors make tasks disturbed, and nothing else.
LEMMA UndisturbedStays ==
    ASSUME changed \subseteq changed', \A p \in Paths \ changed' : files'[p] = files[p],
           NEW s \in Suites
    PROVE  /\ Undisturbed(s)' \subseteq Undisturbed(s)
           /\ \A p \in Undisturbed(s)' : p \in Paths /\ files'[p] = files[p]
           /\ <<s, Manifest>> \notin changed' => DeclaredName(s)' = DeclaredName(s)
<1>1. \A p \in Undisturbed(s)' : p \in Paths /\ files'[p] = files[p] /\ p \in Undisturbed(s)
  BY DEF Undisturbed
<1>2. <<s, Manifest>> \in Paths
  BY PathsAre
<1>3. <<s, Manifest>> \notin changed' => files'[<<s, Manifest>>] = files[<<s, Manifest>>]
  BY <1>2
<1> QED BY <1>1, <1>3 DEF DeclaredName

LEMMA LoadedFromStays ==
    ASSUME changed \subseteq changed', \A p \in Paths \ changed' : files'[p] = files[p],
           UNCHANGED <<wanted, loaded>>, NEW s \in Suites, LoadedFrom(s)
    PROVE  LoadedFrom(s)'
<1> SUFFICES ASSUME NEW p \in Undisturbed(s)'
             PROVE  /\ Parses(files'[p])
                    /\ (<<s, Manifest>> \notin changed' /\ wanted' \in {None, DeclaredName(s)'}) =>
                          /\ DeclaredName(s)' \in DOMAIN loaded'
                          /\ \/ files'[p] \in ToSet(loaded'[DeclaredName(s)'].tasks)
                             \/ Place(loaded'[DeclaredName(s)'].dir) > Place(s)
  BY DEF LoadedFrom
<1>1. p \in Undisturbed(s) /\ files'[p] = files[p]
  BY UndisturbedStays
<1>2. <<s, Manifest>> \notin changed' => DeclaredName(s)' = DeclaredName(s) /\ <<s, Manifest>> \notin changed
  BY UndisturbedStays
<1> QED BY <1>1, <1>2 DEF LoadedFrom

LEMMA OthersKeep ==
    ASSUME IInv, BuildNext, UNCHANGED loadVars
    PROVE  IInv'
<1>0. UNCHANGED <<wanted, at, left, head, names, got, loaded, result, run>>
  BY DEF loadVars
<1>1. BuildInv'
  BY BuildKeeps DEF IInv
<1>2. changed \subseteq changed' /\ \A p \in Paths \ changed' : files'[p] = files[p]
  BY BuildDisk DEF IInv
<1>3. TypeOK'
  BY <1>0, <1>1 DEF IInv, TypeOK, BuildInv
<1>4. InOrder' /\ FreshStart' /\ TasksProper' /\ SchedulesProper' /\ ListedThere'
  BY <1>0 DEF IInv, InOrder, FreshStart, TasksProper, SchedulesProper, ListedThere, Distinct, IsTask
<1>5. at \in Going => left # <<>>
  BY DEF IInv, TypeOK, Going
<1>6. left # <<>> => /\ Head(left) \in Suites /\ <<Head(left), Manifest>> \in Paths
                     /\ \A name \in TaskIds(Head(left)) : <<Head(left), name>> \in Paths
  BY Reading
<1>7. HeadIsDeclared'
  <2>1. left # <<>> /\ <<Head(left), Manifest>> \notin changed' => DeclaredName(Head(left))' = DeclaredName(Head(left))
    <3> SUFFICES ASSUME left # <<>>, <<Head(left), Manifest>> \notin changed'
                 PROVE  DeclaredName(Head(left))' = DeclaredName(Head(left))
      OBVIOUS
    <3>1. PICK s \in Suites : s = Head(left) /\ s = Head(left')
      BY <1>0, <1>6
    <3>2. DeclaredName(s)' = DeclaredName(s)
      BY <1>2, <3>1, UndisturbedStays
    <3>3. files'[<<s, Manifest>>] = files[<<s, Manifest>>]
      BY <1>2, <1>6, <3>1
    <3> QED BY <3>1, <3>3 DEF DeclaredName
  <2> QED BY <1>0, <1>2, <1>5, <2>1 DEF IInv, HeadIsDeclared, Going
<1>8. ListedOrChanged'
  <2> SUFFICES ASSUME at = "reading", NEW i \in DOMAIN names
               PROVE  files'[<<Head(left), names[i]>>] # Absent \/ <<Head(left), names[i]>> \in changed'
    BY <1>0 DEF ListedOrChanged, Here
  <2>1. left # <<>> /\ names[i] \in TaskIds(Head(left))
    BY DEF IInv, ListedThere
  <2>2. files[<<Head(left), names[i]>>] # Absent \/ <<Head(left), names[i]>> \in changed
    BY DEF IInv, ListedOrChanged, Here
  <2> QED BY <1>2, <1>6, <2>1, <2>2
<1>9. ListedOrRead'
  <2> SUFFICES ASSUME at = "reading", NEW p \in (Undisturbed(Head(left)))', p[2] # ByHand
               PROVE  p[2] \in ToSet(names) \/ (Parses(files'[p]) /\ files'[p] \in ToSet(got))
    BY <1>0 DEF ListedOrRead
  <2>1. PICK s \in Suites : s = Head(left) /\ s = Head(left')
    BY <1>0, <1>5, <1>6 DEF Going
  <2>2. p \in Undisturbed(s)'
    BY <2>1 DEF Undisturbed
  <2>3. p \in Undisturbed(s) /\ files'[p] = files[p]
    BY <1>2, <2>2, UndisturbedStays
  <2>4. p \in Undisturbed(Head(left))
    BY <2>1, <2>3
  <2> QED BY <2>3, <2>4 DEF IInv, ListedOrRead
<1>10. ReadIsLoaded'
  <2>1. \A s \in Suites : LoadedFrom(s) => LoadedFrom(s)'
    BY <1>0, <1>2, LoadedFromStays
  <2> QED BY <1>0, <2>1 DEF IInv, ReadIsLoaded
<1>11. Outcome'
  <2>1. left # <<>> /\ at = "returned" /\ NobodysError => NobodysError'
    <3> SUFFICES ASSUME left # <<>>, at = "returned", NobodysError PROVE NobodysError'
      OBVIOUS
    <3>1. \A p \in Paths : files'[p] = files[p] \/ p \in changed'
      BY <1>2
    <3>2. CASE names = <<>>
      BY <1>0, <1>2, <1>6, <3>1, <3>2 DEF NobodysError, Here
    <3>3. CASE names # <<>>
      <4>1. Head(names) \in TaskIds(Head(left))
        <5>1. 1 \in DOMAIN names /\ names[1] = Head(names)
          BY <3>3, SeqParts DEF IInv, TypeOK
        <5> QED BY <5>1 DEF IInv, ListedThere
      <4>2. <<Head(left), Head(names)>> \in Paths
        BY <1>6, <4>1
      <4> QED BY <1>0, <1>2, <3>1, <3>3, <4>2 DEF NobodysError, Here
    <3> QED BY <3>2, <3>3
  <2> QED BY <1>0, <2>1 DEF IInv, Outcome
<1> QED BY <1>1, <1>3, <1>4, <1>7, <1>8, <1>9, <1>10, <1>11 DEF IInv

\* The steps of a load that leave the disk and the scripts alone.
LEMMA DiskSame ==
    ASSUME IInv, UNCHANGED buildVars
    PROVE  BuildInv' /\ BuildTypeOK'
<1>1. UNCHANGED <<defs, files, stage, source, todo, failures, edits, deaths, touched>> /\ changed' = changed
  BY DEF buildVars
<1>2. changed' \subseteq Paths
  BY <1>1 DEF IInv, BuildInv, BuildTypeOK
<1> QED BY <1>1, <1>2, BuildStutters DEF IInv, BuildInv

LEMMA BeginKeeps ==
    ASSUME IInv, NEW w \in Wanted, Begin(w)
    PROVE  IInv'
<1>0. /\ at = "idle" /\ at' = "manifest" /\ wanted' = w /\ left' = DirOrder /\ loaded' = <<>>
      /\ changed' = {} /\ UNCHANGED <<head, names, got, result, run>>
      /\ UNCHANGED <<defs, files, stage, source, todo, failures, edits, deaths, touched>>
  BY DEF Begin
<1>1. BuildInv'
  BY <1>0, BuildStutters DEF IInv
<1>2. names = <<>> /\ got = <<>>
  BY <1>0 DEF IInv, FreshStart
<1>3. left' # <<>> /\ left' \in Seq(Suites)
  BY <1>0, PlacesInOrder
<1>4. DOMAIN loaded' = {}
  BY <1>0
<1>5. TypeOK'
  BY <1>0, <1>1, <1>3, <1>4 DEF IInv, TypeOK, BuildInv
<1>6. InOrder'
  <2>1. \A i, j \in DOMAIN DirOrder : i < j => Place(DirOrder[i]) < Place(DirOrder[j])
    BY PlacesInOrder
  <2>2. Suites \ ToSet(DirOrder) = {}
    BY PlacesInOrder
  <2> QED BY <1>0, <2>1, <2>2 DEF InOrder
<1>7. FreshStart' /\ HeadIsDeclared' /\ ListedThere' /\ ListedOrChanged' /\ ListedOrRead' /\ SchedulesProper'
  BY <1>0, <1>2 DEF FreshStart, HeadIsDeclared, ListedThere, ListedOrChanged, ListedOrRead, SchedulesProper
<1>8. TasksProper'
  BY <1>0, <1>2, <1>4 DEF TasksProper
<1>9. ReadIsLoaded' /\ Outcome'
  <2>1. Suites \ ToSet(left') = {}
    BY <1>0, PlacesInOrder
  <2> QED BY <1>0, <2>1 DEF ReadIsLoaded, Outcome
<1> QED BY <1>1, <1>5, <1>6, <1>7, <1>8, <1>9 DEF IInv

LEMMA ReadManifestKeeps ==
    ASSUME IInv, ReadManifest
    PROVE  IInv'
<1>0. /\ at = "manifest" /\ UNCHANGED buildVars
      /\ UNCHANGED <<wanted, left, names, got, loaded, run>>
  BY DEF ReadManifest
<1>1. BuildInv' /\ BuildTypeOK' /\ files' = files /\ changed' = changed
  BY <1>0, DiskSame DEF buildVars
<1>2. names = <<>> /\ got = <<>> /\ left # <<>>
  BY <1>0 DEF IInv, FreshStart, TypeOK
<1>3. Head(left) \in Suites /\ Here(Manifest) \in Contents(<<Head(left), Manifest>>) /\ <<Head(left), Manifest>> \in Paths
  BY <1>2, Reading
<1>4. /\ Here(Manifest).form = "broken" => Here(Manifest) = Broken
      /\ Here(Manifest).form # "garbled"
      /\ Here(Manifest).form = "whole" => Here(Manifest).holds \in Suites \union {OtherName}
  BY <1>3, ContentsAre
<1>5. TasksProper' /\ ListedThere'
  BY <1>0, <1>2 DEF IInv, TasksProper, ListedThere, Distinct, IsTask
<1>6. \A s \in Suites : LoadedFrom(s)' <=> LoadedFrom(s)
  BY <1>0, <1>1 DEF LoadedFrom, Undisturbed, DeclaredName
<1>7. CASE Here(Manifest).form \in {"broken", "garbled"}
  <2>1. at' = "returned" /\ result' = "exception" /\ head' = head
    BY <1>7 DEF ReadManifest, Return
  <2>2. TypeOK'
    BY <1>0, <1>1, <2>1 DEF IInv, TypeOK
  <2>3. NobodysError'
    <3>1. files'[<<Head(left'), Manifest>>] = Broken
      BY <1>0, <1>1, <1>4, <1>7 DEF Here
    <3> QED BY <1>0, <1>2, <3>1 DEF NobodysError, Here
  <2>4. /\ InOrder' /\ FreshStart' /\ HeadIsDeclared' /\ ListedOrChanged' /\ ListedOrRead'
        /\ ReadIsLoaded' /\ SchedulesProper'
    BY <2>1 DEF InOrder, Going, FreshStart, HeadIsDeclared, ListedOrChanged, ListedOrRead, ReadIsLoaded, SchedulesProper
  <2>5. Outcome'
    BY <1>0, <1>2, <2>1, <2>3 DEF Outcome
  <2> QED BY <1>1, <1>5, <2>2, <2>4, <2>5 DEF IInv
<1>8. CASE Here(Manifest).form \notin {"broken", "garbled"}
  <2>1. /\ at' = "listing" /\ result' = result
        /\ head' = [name |-> IF Here(Manifest).form = "whole" THEN Here(Manifest).holds ELSE Head(left),
                    has |-> Here(Manifest).form # "absent"]
    BY <1>8 DEF ReadManifest
  <2>2. head' \in [name : Suites \union {OtherName, None}, has : BOOLEAN]
    BY <1>3, <1>4, <2>1
  <2>3. TypeOK'
    BY <1>0, <1>1, <1>2, <2>1, <2>2 DEF IInv, TypeOK
  <2>4. head'.name = IF files[<<Head(left), Manifest>>].form = "whole" THEN files[<<Head(left), Manifest>>].holds ELSE Head(left)
    BY <2>1 DEF Here
  <2>5. HeadIsDeclared'
    BY <1>0, <1>1, <2>4 DEF HeadIsDeclared, DeclaredName
  <2>6. FreshStart' /\ ListedOrChanged' /\ ListedOrRead' /\ SchedulesProper' /\ Outcome'
    BY <1>0, <1>2, <2>1 DEF FreshStart, ListedOrChanged, ListedOrRead, SchedulesProper, Outcome
  <2>7. InOrder'
    BY <1>0, <2>1 DEF IInv, InOrder, Going
  <2>8. ReadIsLoaded'
    BY <1>0, <1>6, <2>1 DEF IInv, ReadIsLoaded, Going
  <2> QED BY <1>1, <1>5, <2>3, <2>5, <2>6, <2>7, <2>8 DEF IInv
<1> QED BY <1>7, <1>8

LEMMA GlobKeeps ==
    ASSUME IInv, Glob
    PROVE  IInv'
<1>0. /\ at = "listing" /\ at' = "reading" /\ names' = Listing /\ UNCHANGED buildVars
      /\ UNCHANGED <<wanted, left, head, got, loaded, result, run>>
  BY DEF Glob
<1>1. BuildInv' /\ BuildTypeOK' /\ files' = files /\ changed' = changed
  BY <1>0, DiskSame DEF buildVars
<1>2. names = <<>> /\ got = <<>> /\ left # <<>>
  BY <1>0 DEF IInv, FreshStart, TypeOK
<1>3. PICK s \in Suites : s = Head(left)
  BY <1>2, Reading
<1>4. PICK all \in Seq(TaskIds(s)) : all = NameOrder[s] /\ ToSet(all) = TaskIds(s)
  BY SuiteLoadAssumption
<1>5. PICK positions \in SUBSET DOMAIN all : positions = {i \in DOMAIN all : files[<<s, all[i]>>] # Absent}
  OBVIOUS
<1>6. Listing = Pick(all, positions)
  BY <1>3, <1>4, <1>5 DEF Listing, Here
<1>7. /\ names' \in Seq(TaskIds(s))
      /\ \A k \in DOMAIN names' : \E i \in positions : names'[k] = all[i]
      /\ \A i \in positions : \E k \in DOMAIN names' : names'[k] = all[i]
  <2>1. /\ Pick(all, positions) \in Seq(TaskIds(s))
        /\ DOMAIN Pick(all, positions) = 1 .. Cardinality(positions)
        /\ \A k \in 1 .. Cardinality(positions) : \E i \in positions : Pick(all, positions)[k] = all[i]
        /\ \A i \in positions : \E k \in 1 .. Cardinality(positions) : Pick(all, positions)[k] = all[i]
    BY PickIs
  <2>2. PICK picked : picked = Pick(all, positions) /\ names' = picked
    BY <1>0, <1>6
  <2> QED BY <2>1, <2>2
<1>8. \A k \in DOMAIN names' : names'[k] \in TaskIds(s) /\ files[<<s, names'[k]>>] # Absent
  <2>1. \A i \in positions : all[i] \in TaskIds(s) /\ files[<<s, all[i]>>] # Absent
    BY <1>5
  <2> QED BY <1>7, <2>1
<1>9. TypeOK'
  <2>1. names' \in Seq(AllIds)
    <3>1. TaskIds(s) \subseteq AllIds
      BY SuitesAre
    <3> QED BY <1>7, <3>1
  <2> QED BY <1>0, <1>1, <1>2, <2>1 DEF IInv, TypeOK
<1>10. ListedThere' /\ ListedOrChanged'
  BY <1>0, <1>1, <1>2, <1>3, <1>8 DEF ListedThere, ListedOrChanged, Here
<1>11. ListedOrRead'
  <2> SUFFICES ASSUME NEW p \in Undisturbed(s), p[2] # ByHand PROVE p[2] \in ToSet(names')
    BY <1>0, <1>1, <1>3 DEF ListedOrRead, Undisturbed
  <2>1. p \in Paths /\ p[1] = s /\ p[2] # Manifest /\ files[p] # Absent
    BY DEF Undisturbed
  <2>2. p = <<s, p[2]>> /\ p[2] \in TaskIds(s)
    BY <2>1, PathsAre
  <2>3. PICK i \in DOMAIN all : p[2] = all[i]
    BY <1>4, <2>2 DEF ToSet
  <2>4. i \in positions
    BY <1>5, <2>1, <2>2, <2>3
  <2> QED BY <1>7, <2>3, <2>4 DEF ToSet
<1>12. FreshStart' /\ SchedulesProper' /\ Outcome'
  BY <1>0 DEF FreshStart, SchedulesProper, Outcome
<1>13. InOrder' /\ TasksProper' /\ HeadIsDeclared'
  BY <1>0, <1>1 DEF IInv, InOrder, Going, TasksProper, Distinct, IsTask, HeadIsDeclared, DeclaredName
<1>14. ReadIsLoaded'
  <2>1. \A t \in Suites : LoadedFrom(t)' <=> LoadedFrom(t)
    BY <1>0, <1>1 DEF LoadedFrom, Undisturbed, DeclaredName
  <2> QED BY <1>0, <2>1 DEF IInv, ReadIsLoaded, Going
<1> QED BY <1>1, <1>9, <1>10, <1>11, <1>12, <1>13, <1>14 DEF IInv

LEMMA AppendParts ==
    ASSUME NEW T, NEW seq \in Seq(T), NEW x \in T
    PROVE  /\ Append(seq, x) \in Seq(T)
           /\ ToSet(Append(seq, x)) = ToSet(seq) \union {x}
           /\ \A i \in DOMAIN Append(seq, x) : Append(seq, x)[i] \in ToSet(seq) \union {x}
<1>1. Append(seq, x) \in Seq(T) /\ DOMAIN Append(seq, x) = 1 .. Len(seq) + 1 /\ DOMAIN seq = 1 .. Len(seq)
  OBVIOUS
<1>2. \A i \in DOMAIN seq : i \in DOMAIN Append(seq, x) /\ Append(seq, x)[i] = seq[i]
  OBVIOUS
<1>3. Len(seq) + 1 \in DOMAIN Append(seq, x) /\ Append(seq, x)[Len(seq) + 1] = x
  OBVIOUS
<1>4. \A i \in DOMAIN Append(seq, x) : i \in DOMAIN seq \/ i = Len(seq) + 1
  BY <1>1
<1>5. PICK all : all = Append(seq, x)
  OBVIOUS
<1>6. \A i \in DOMAIN all : all[i] \in ToSet(seq) \union {x}
  BY <1>2, <1>3, <1>4, <1>5 DEF ToSet
<1>7. \A y \in ToSet(seq) \union {x} : y \in ToSet(all)
  BY <1>2, <1>3, <1>5 DEF ToSet
<1>8. ToSet(all) \subseteq ToSet(seq) \union {x}
  BY <1>6 DEF ToSet
<1> QED BY <1>1, <1>5, <1>6, <1>7, <1>8

LEMMA ReadTaskKeeps ==
    ASSUME IInv, ReadTask
    PROVE  IInv'
<1>0. /\ at = "reading" /\ names # <<>> /\ UNCHANGED buildVars
      /\ UNCHANGED <<wanted, left, head, loaded, run>>
  BY DEF ReadTask
<1>1. BuildInv' /\ BuildTypeOK' /\ files' = files /\ changed' = changed
  BY <1>0, DiskSame DEF buildVars
<1>2. left # <<>> /\ names \in Seq(AllIds) /\ got \in Seq(Files)
  BY <1>0 DEF IInv, TypeOK
<1>3. PICK s \in Suites : s = Head(left)
  BY <1>2, Reading
<1>4. /\ 1 \in DOMAIN names /\ names[1] = Head(names) /\ Tail(names) \in Seq(AllIds)
      /\ ToSet(names) = {Head(names)} \union ToSet(Tail(names))
      /\ \A i \in DOMAIN Tail(names) : i + 1 \in DOMAIN names /\ Tail(names)[i] = names[i + 1]
  BY <1>0, <1>2, SeqParts
<1>5. Head(names) \in TaskIds(s) /\ \A i \in DOMAIN names : names[i] \in TaskIds(s)
  BY <1>0, <1>3, <1>4 DEF IInv, ListedThere
<1>6. PICK p \in Paths : p = <<s, Head(names)>>
  BY <1>5, PathsAre
<1>7. PICK f \in Contents(p) : f = Here(Head(names)) /\ f = files[p]
  BY <1>3, <1>6 DEF Here, IInv, BuildInv
<1>8. p[2] # Manifest /\ p[2] # ByHand
  BY <1>5, <1>6, SuitesAre
<1>9. /\ f \in Files
      /\ f.form = "absent" => f = Absent
      /\ f.form = "garbled" => f = Garbled
      /\ f.form \in {"whole", "short"} => f.holds \in AllIds /\ f.version \in Versions
  BY <1>8, ContentsAre
<1>10. \A t \in Suites : LoadedFrom(t)' <=> LoadedFrom(t)
  BY <1>0, <1>1 DEF LoadedFrom, Undisturbed, DeclaredName
<1>11. CASE Parses(f)
  <2>1. names' = Tail(names) /\ got' = Append(got, f) /\ UNCHANGED <<at, result>>
    BY <1>7, <1>11 DEF ReadTask
  <2>2. IsTask(f)
    BY <1>9, <1>11 DEF IsTask, Parses
  <2>3. got' \in Seq(Files) /\ ToSet(got') = ToSet(got) \union {f} /\ \A i \in DOMAIN got' : got'[i] \in ToSet(got) \union {f}
    BY <1>2, <1>9, <2>1, AppendParts
  <2>4. TypeOK'
    BY <1>0, <1>1, <1>4, <2>1, <2>3 DEF IInv, TypeOK
  <2>5. ListedThere' /\ ListedOrChanged'
    <3>1. \A i \in DOMAIN names' : i + 1 \in DOMAIN names /\ names'[i] = names[i + 1]
      BY <1>4, <2>1
    <3>2. ListedThere'
      BY <1>0, <1>2, <1>3, <1>5, <2>1, <3>1 DEF ListedThere
    <3>3. \A i \in DOMAIN names : Here(names[i]) # Absent \/ <<Head(left), names[i]>> \in changed
      BY <1>0 DEF IInv, ListedOrChanged
    <3>4. ListedOrChanged'
      BY <1>0, <1>1, <3>1, <3>3 DEF ListedOrChanged, Here
    <3> QED BY <3>2, <3>4
  <2>6. ListedOrRead'
    <3> SUFFICES ASSUME NEW q \in Undisturbed(s), q[2] # ByHand
                 PROVE  q[2] \in ToSet(Tail(names)) \/ (Parses(files[q]) /\ files[q] \in ToSet(got'))
      BY <1>0, <1>1, <1>3, <2>1 DEF ListedOrRead, Undisturbed
    <3>1. q[2] \in ToSet(names) \/ (Parses(files[q]) /\ files[q] \in ToSet(got))
      BY <1>0, <1>3 DEF IInv, ListedOrRead
    <3>2. q = <<s, q[2]>>
      BY PathsAre DEF Undisturbed
    <3>3. q[2] = Head(names) => files[q] = f
      BY <1>6, <1>7, <3>2
    <3> QED BY <1>4, <1>11, <2>3, <3>1, <3>3
  <2>7. TasksProper'
    <3>1. \A g \in ToSet(got) : IsTask(g)
      BY DEF IInv, TasksProper, ToSet
    <3>2. \A i \in DOMAIN got' : IsTask(got'[i])
      BY <2>2, <2>3, <3>1
    <3> QED BY <1>0, <3>2 DEF IInv, TasksProper, IsTask, Distinct
  <2>8. InOrder' /\ HeadIsDeclared'
    BY <1>0, <1>1, <2>1 DEF IInv, InOrder, Going, HeadIsDeclared, DeclaredName
  <2>9. FreshStart' /\ SchedulesProper' /\ Outcome'
    BY <1>0, <2>1 DEF FreshStart, SchedulesProper, Outcome
  <2>10. ReadIsLoaded'
    BY <1>0, <1>10, <2>1 DEF IInv, ReadIsLoaded, Going
  <2> QED BY <1>1, <2>4, <2>5, <2>6, <2>7, <2>8, <2>9, <2>10 DEF IInv
<1>12. CASE ~Parses(f)
  <2>1. at' = "returned" /\ result' = Failure(f) /\ UNCHANGED <<names, got>>
    BY <1>7, <1>12 DEF ReadTask, Return
  <2>2. result' \in {"TaskValidationError", "exception"}
    BY <2>1 DEF Failure
  <2>3. TypeOK'
    BY <1>0, <1>1, <2>1, <2>2 DEF IInv, TypeOK
  <2>4. ListedThere'
    BY <1>0, <1>2, <1>3, <1>5, <2>1 DEF ListedThere
  <2>5. TasksProper'
    BY <1>0, <2>1 DEF IInv, TasksProper, IsTask, Distinct
  <2>6. result' = "exception" => NobodysError'
    <3> SUFFICES ASSUME result' = "exception" PROVE NobodysError'
      OBVIOUS
    <3>1. f = Absent \/ f = Garbled
      BY <1>9, <2>1 DEF Failure
    <3>2. f = Absent => p \in changed
      <4>1. Here(names[1]) # Absent \/ <<Head(left), names[1]>> \in changed
        BY <1>0, <1>4 DEF IInv, ListedOrChanged
      <4> QED BY <1>3, <1>4, <1>6, <1>7, <4>1
    <3>3. files'[<<Head(left'), Head(names')>>] = f /\ <<Head(left'), Head(names')>> = p
      BY <1>0, <1>1, <1>3, <1>6, <1>7, <2>1
    <3> QED BY <1>0, <1>1, <2>1, <3>1, <3>2, <3>3 DEF NobodysError, Here
  <2>7. Outcome'
    BY <1>0, <1>2, <2>1, <2>2, <2>6 DEF Outcome
  <2>8. /\ InOrder' /\ FreshStart' /\ HeadIsDeclared' /\ ListedOrChanged' /\ ListedOrRead'
        /\ ReadIsLoaded' /\ SchedulesProper'
    BY <2>1, <2>2 DEF InOrder, Going, FreshStart, HeadIsDeclared, ListedOrChanged, ListedOrRead, ReadIsLoaded, SchedulesProper
  <2> QED BY <1>1, <2>3, <2>4, <2>5, <2>7, <2>8 DEF IInv
<1> QED BY <1>11, <1>12

LEMMA LeaveKeeps ==
    ASSUME IInv, Leave
    PROVE  IInv'
<1>0. /\ at' = "idle" /\ wanted' = None /\ left' = <<>> /\ head' = NoHead /\ names' = <<>> /\ got' = <<>>
      /\ loaded' = <<>> /\ result' = None /\ run' = NoRun /\ changed' = Paths
      /\ UNCHANGED <<defs, files, stage, source, todo, failures, edits, deaths, touched>>
  BY DEF Leave
<1>1. BuildInv'
  BY <1>0, BuildStutters DEF IInv
<1>2. DOMAIN loaded' = {} /\ DOMAIN got' = {} /\ DOMAIN names' = {}
  BY <1>0
<1>3. head' \in [name : Suites \union {OtherName, None}, has : BOOLEAN]
  BY <1>0 DEF NoHead
<1>4. run' \in [hash : SUBSET (AllIds \X {v.prompt : v \in Versions}), tasks : Seq(Files)]
  BY <1>0 DEF NoRun
<1>5. TypeOK'
  BY <1>0, <1>1, <1>2, <1>3, <1>4 DEF TypeOK, BuildInv
<1>6. /\ InOrder' /\ FreshStart' /\ HeadIsDeclared' /\ ListedThere' /\ ListedOrChanged' /\ ListedOrRead'
      /\ ReadIsLoaded' /\ Outcome' /\ SchedulesProper'
  BY <1>0 DEF InOrder, Going, FreshStart, HeadIsDeclared, ListedThere, ListedOrChanged, ListedOrRead,
              ReadIsLoaded, Outcome, SchedulesProper
<1>7. TasksProper'
  BY <1>2 DEF TasksProper
<1> QED BY <1>1, <1>5, <1>6, <1>7 DEF IInv

\* The whole directory is valid: it is entered, and the next one is read.
LEMMA EndWellKeeps ==
    ASSUME IInv, at = "reading", names = <<>>, UNCHANGED buildVars, UNCHANGED <<wanted, names, run>>,
           got' = <<>>, head' = NoHead,
           Here(ByHand) = Absent \/ Parses(Here(ByHand)),
           NEW tasks, tasks = IF Here(ByHand) = Absent THEN got ELSE Append(got, Here(ByHand)),
           Distinct(tasks),
           loaded' = Collected(tasks),
           left' = Tail(left),
           IF Len(left) > 1 THEN at' = "manifest" /\ UNCHANGED result
           ELSE at' = "returned" /\ result' = IF wanted \in {None} \union DOMAIN loaded'
                                              THEN "ok" ELSE "TaskValidationError"
    PROVE  IInv'
<1>1. BuildInv' /\ BuildTypeOK' /\ files' = files /\ changed' = changed
  BY DiskSame DEF buildVars
<1>2. left # <<>> /\ left \in Seq(Suites) /\ got \in Seq(Files)
  BY DEF IInv, TypeOK
<1>3. PICK s \in Suites : s = Head(left)
  BY <1>2, Reading
<1>4. PICK rest \in Seq(Suites) :
         /\ rest = Tail(left) /\ ToSet(left) = {s} \union ToSet(rest) /\ ToSet(left) \subseteq Suites
         /\ \A i \in DOMAIN rest : i + 1 \in DOMAIN left /\ rest[i] = left[i + 1]
         /\ 1 \in DOMAIN left /\ left[1] = s
         /\ Len(left) > 1 <=> rest # <<>>
  <2>1. /\ Tail(left) \in Seq(Suites)
        /\ ToSet(left) = {Head(left)} \union ToSet(Tail(left)) /\ ToSet(left) \subseteq Suites
        /\ \A i \in DOMAIN Tail(left) : i + 1 \in DOMAIN left /\ Tail(left)[i] = left[i + 1]
        /\ 1 \in DOMAIN left /\ left[1] = Head(left)
        /\ Len(left) > 1 <=> Tail(left) # <<>>
    BY <1>2, SeqParts
  <2>2. PICK rest \in Seq(Suites) : rest = Tail(left)
    BY <2>1
  <2> QED BY <1>3, <2>1, <2>2
<1>5. PICK p \in Paths : p = <<s, ByHand>>
  BY PathsAre
<1>6. PICK f \in Contents(p) : f = files[p] /\ f = Here(ByHand)
  BY <1>3, <1>5 DEF Here, IInv, BuildInv
<1>7. p[2] # Manifest /\ f \in Files /\ (Parses(f) => IsTask(f))
  <2>1. p[2] # Manifest
    BY <1>5, SuitesAre
  <2> QED BY <2>1, ContentsAre DEF IsTask, Parses
<1>8. \A g \in ToSet(got) : IsTask(g)
  BY DEF IInv, TasksProper, ToSet
<1>9. /\ tasks \in Seq(Files) /\ ToSet(got) \subseteq ToSet(tasks)
      /\ f # Absent => f \in ToSet(tasks)
      /\ \A i \in DOMAIN tasks : IsTask(tasks[i])
  <2>1. CASE f = Absent
    <3>1. tasks = got
      BY <1>6, <2>1
    <3> QED BY <1>2, <1>8, <2>1, <3>1 DEF ToSet
  <2>2. CASE f # Absent
    <3>1. tasks = Append(got, f)
      BY <1>6, <2>2
    <3>2. /\ Append(got, f) \in Seq(Files) /\ ToSet(Append(got, f)) = ToSet(got) \union {f}
          /\ \A i \in DOMAIN Append(got, f) : Append(got, f)[i] \in ToSet(got) \union {f}
      BY <1>2, <1>7, AppendParts
    <3>3. IsTask(f)
      BY <1>6, <1>7, <2>2
    <3> QED BY <1>8, <3>1, <3>2, <3>3
  <2> QED BY <2>1, <2>2
<1> DEFINE entry == [dir |-> s, tasks |-> tasks]
<1>10. /\ \A n \in DOMAIN loaded : n \in DOMAIN loaded' /\ loaded'[n] \in {loaded[n], entry}
       /\ \A n \in DOMAIN loaded' : loaded'[n] = entry \/ (n \in DOMAIN loaded /\ loaded'[n] = loaded[n])
       /\ wanted \in {None, head.name} /\ tasks # <<>> => head.name \in DOMAIN loaded' /\ loaded'[head.name] = entry
  <2>1. CASE wanted \notin {None, head.name} \/ (tasks = <<>> /\ ~head.has)
    <3>1. loaded' = loaded
      BY <2>1 DEF Collected
    <3> QED BY <2>1, <3>1
  <2>2. CASE ~(wanted \notin {None, head.name} \/ (tasks = <<>> /\ ~head.has))
    <3>1. loaded' = [name \in DOMAIN loaded \union {head.name} |->
                        IF name = head.name THEN entry ELSE loaded[name]]
      BY <1>3, <2>2 DEF Collected
    <3> HIDE DEF entry
    <3> QED BY <3>1
  <2> QED BY <2>1, <2>2
<1>11. entry \in [dir : Suites, tasks : Seq(Files)] /\ entry.dir = s /\ entry.tasks = tasks
  BY <1>9
<1> HIDE DEF entry
<1>12. at' \in {"manifest", "returned"} /\ (at' = "manifest" => rest # <<>>)
  BY <1>4
<1>13. TypeOK'
  <2>1. \A n \in DOMAIN loaded' : loaded'[n] \in [dir : Suites, tasks : Seq(Files)]
    BY <1>10, <1>11 DEF IInv, TypeOK
  <2>2. left' \in Seq(Suites) /\ (at' = "manifest" => left' # <<>>)
    BY <1>4, <1>12
  <2>3. head' \in [name : Suites \union {OtherName, None}, has : BOOLEAN]
    BY DEF NoHead
  <2>4. result' \in {None, "ok", "TaskValidationError", "exception"}
    BY DEF IInv, TypeOK
  <2>5. got' \in Seq(Files) /\ names' \in Seq(AllIds) /\ wanted' = wanted /\ run' = run
    OBVIOUS
  <2> QED BY <1>1, <1>12, <2>1, <2>2, <2>3, <2>4, <2>5 DEF IInv, TypeOK
<1>14. /\ \A i, j \in DOMAIN left : i < j => Place(left[i]) < Place(left[j])
       /\ \A t \in Suites \ ToSet(left) : \A u \in ToSet(left) : Place(t) < Place(u)
  BY DEF IInv, InOrder, Going
<1>15. InOrder'
  <2>1. DOMAIN rest \subseteq Nat /\ \A i \in DOMAIN rest : i >= 1
    BY <1>4
  <2>2. \A i, j \in DOMAIN rest : i < j => Place(rest[i]) < Place(rest[j])
    <3> SUFFICES ASSUME NEW i \in DOMAIN rest, NEW j \in DOMAIN rest, i < j
                 PROVE  Place(rest[i]) < Place(rest[j])
      OBVIOUS
    <3>1. i + 1 < j + 1
      BY <2>1
    <3> QED BY <1>4, <1>14, <3>1
  <2>3. \A u \in ToSet(rest) : Place(s) < Place(u)
    <3> SUFFICES ASSUME NEW j \in DOMAIN rest PROVE Place(s) < Place(rest[j])
      BY DEF ToSet
    <3>1. 1 < j + 1
      BY <2>1
    <3> QED BY <1>4, <1>14, <3>1
  <2>4. \A t \in Suites \ ToSet(rest) : \A u \in ToSet(rest) : Place(t) < Place(u)
    BY <1>4, <1>14, <2>3
  <2>5. left' = rest
    BY <1>4
  <2> QED BY <2>2, <2>4, <2>5 DEF InOrder
<1>16. FreshStart' /\ HeadIsDeclared' /\ ListedThere' /\ ListedOrChanged' /\ ListedOrRead' /\ SchedulesProper'
  BY <1>12 DEF FreshStart, HeadIsDeclared, ListedThere, ListedOrChanged, ListedOrRead, SchedulesProper
<1>17. TasksProper'
  <2>1. \A n \in DOMAIN loaded' : /\ \A i \in DOMAIN loaded'[n].tasks : IsTask(loaded'[n].tasks[i])
                                  /\ Distinct(loaded'[n].tasks)
    BY <1>9, <1>10, <1>11 DEF IInv, TasksProper
  <2>2. DOMAIN got' = {}
    OBVIOUS
  <2> QED BY <2>1, <2>2 DEF TasksProper, IsTask, Distinct
<1>18. Outcome'
  <2>1. at' = "returned" => left' = <<>>
    BY <1>4
  <2>2. at' = "returned" => result' # "exception" /\ (result' = "ok" => wanted \in {None} \union DOMAIN loaded')
    BY <1>4
  <2>3. wanted' = wanted /\ at' # "stored"
    BY <1>12
  <2> QED BY <2>1, <2>2, <2>3 DEF Outcome
<1>19. ASSUME NEW t \in Suites \ ToSet(left) PROVE LoadedFrom(t)'
  <2>1. LoadedFrom(t) /\ Place(t) < Place(s)
    BY <1>4, <1>14 DEF IInv, ReadIsLoaded, Going
  <2>2. Undisturbed(t)' = Undisturbed(t) /\ DeclaredName(t)' = DeclaredName(t)
    BY <1>1 DEF Undisturbed, DeclaredName
  <2>3. PICK n : n = DeclaredName(t)
    OBVIOUS
  <2>4. Place(s) > Place(t)
    <3>1. Place(s) \in Nat /\ Place(t) \in Nat
      BY PlacesInOrder
    <3> QED BY <2>1, <3>1
  <2>5. ASSUME NEW q \in Undisturbed(t), <<t, Manifest>> \notin changed, wanted \in {None, n}
        PROVE  /\ n \in DOMAIN loaded'
               /\ \/ files[q] \in ToSet(loaded'[n].tasks)
                  \/ Place(loaded'[n].dir) > Place(t)
    <3>1. n \in DOMAIN loaded /\ (files[q] \in ToSet(loaded[n].tasks) \/ Place(loaded[n].dir) > Place(t))
      BY <2>1, <2>3, <2>5 DEF LoadedFrom
    <3> QED BY <1>10, <1>11, <2>4, <3>1
  <2>6. \A q \in Undisturbed(t) : Parses(files[q])
    BY <2>1 DEF LoadedFrom
  <2> QED BY <1>1, <2>2, <2>3, <2>5, <2>6 DEF LoadedFrom
<1>20. LoadedFrom(s)'
  <2>1. Undisturbed(s)' = Undisturbed(s) /\ DeclaredName(s)' = DeclaredName(s)
    BY <1>1 DEF Undisturbed, DeclaredName
  <2>2. ASSUME NEW q \in Undisturbed(s) PROVE Parses(files[q]) /\ files[q] \in ToSet(tasks)
    <3>1. CASE q[2] = ByHand
      <4>1. q = p /\ files[q] # Absent
        BY <1>5, <3>1, PathsAre DEF Undisturbed
      <4> QED BY <1>6, <1>9, <4>1
    <3>2. CASE q[2] # ByHand
      <4>1. q[2] \in ToSet(names) \/ (Parses(files[q]) /\ files[q] \in ToSet(got))
        BY <1>3, <3>2 DEF IInv, ListedOrRead
      <4>2. ToSet(names) = {}
        BY DEF ToSet
      <4> QED BY <1>9, <4>1, <4>2
    <3> QED BY <3>1, <3>2
  <2>3. <<s, Manifest>> \notin changed => head.name = DeclaredName(s)
    BY <1>3 DEF IInv, HeadIsDeclared
  <2>4. PICK n : n = DeclaredName(s)
    OBVIOUS
  <2>5. ASSUME NEW q \in Undisturbed(s), <<s, Manifest>> \notin changed, wanted \in {None, n}
        PROVE  n \in DOMAIN loaded' /\ files[q] \in ToSet(loaded'[n].tasks)
    <3>1. files[q] \in ToSet(tasks) /\ tasks # <<>>
      BY <2>2 DEF ToSet
    <3>2. n = head.name
      BY <2>3, <2>4, <2>5
    <3> QED BY <1>10, <1>11, <2>5, <3>1, <3>2
  <2> QED BY <1>1, <2>1, <2>2, <2>4, <2>5 DEF LoadedFrom
<1>21. ReadIsLoaded'
  <2>1. \A t \in Suites \ ToSet(rest) : t = s \/ t \in Suites \ ToSet(left)
    BY <1>4
  <2>2. \A t \in Suites \ ToSet(rest) : LoadedFrom(t)'
    BY <1>19, <1>20, <2>1
  <2>3. left' = rest
    BY <1>4
  <2> QED BY <2>2, <2>3 DEF ReadIsLoaded
<1> QED BY <1>1, <1>13, <1>15, <1>16, <1>17, <1>18, <1>21 DEF IInv

LEMMA EndDirectoryKeeps ==
    ASSUME IInv, EndDirectory
    PROVE  IInv'
<1>0. /\ at = "reading" /\ names = <<>> /\ UNCHANGED buildVars /\ UNCHANGED <<wanted, names, run>>
      /\ got' = <<>> /\ head' = NoHead
  BY DEF EndDirectory
<1>1. PICK tasks : tasks = IF Here(ByHand) = Absent THEN got ELSE Append(got, Here(ByHand))
  OBVIOUS
<1>2. CASE (Here(ByHand) = Absent \/ Parses(Here(ByHand))) /\ Distinct(tasks)
  <2>1. /\ loaded' = Collected(tasks)
        /\ left' = Tail(left)
        /\ IF Len(left) > 1 THEN at' = "manifest" /\ UNCHANGED result
           ELSE at' = "returned" /\ result' = IF wanted \in {None} \union DOMAIN loaded'
                                              THEN "ok" ELSE "TaskValidationError"
    BY <1>1, <1>2 DEF EndDirectory, Return
  <2> QED BY <1>0, <1>1, <1>2, <2>1, EndWellKeeps
<1>3. CASE ~((Here(ByHand) = Absent \/ Parses(Here(ByHand))) /\ Distinct(tasks))
  <2>1. /\ at' = "returned" /\ UNCHANGED <<loaded, left>>
        /\ result' = IF Here(ByHand) = Absent \/ Parses(Here(ByHand))
                     THEN "TaskValidationError" ELSE Failure(Here(ByHand))
    BY <1>1, <1>3 DEF EndDirectory, Return
  <2>2. left # <<>>
    BY <1>0 DEF IInv, TypeOK
  <2>3. result' = "TaskValidationError"
    <3>1. Here(ByHand) \in Contents(<<Head(left), ByHand>>) /\ <<Head(left), ByHand>> \in Paths
      BY <2>2, Reading
    <3>2. Here(ByHand).form # "garbled" /\ (Here(ByHand).form = "absent" => Here(ByHand) = Absent)
      BY <3>1, ContentsAre
    <3> QED BY <2>1, <3>2 DEF Failure
  <2>4. BuildInv' /\ BuildTypeOK'
    BY <1>0, DiskSame
  <2>5. TypeOK'
    <3>1. head' \in [name : Suites \union {OtherName, None}, has : BOOLEAN]
      BY <1>0 DEF NoHead
    <3> QED BY <1>0, <2>1, <2>3, <2>4, <3>1 DEF IInv, TypeOK
  <2>6. TasksProper'
    BY <1>0, <2>1 DEF IInv, TasksProper, IsTask, Distinct
  <2>7. /\ InOrder' /\ FreshStart' /\ HeadIsDeclared' /\ ListedThere' /\ ListedOrChanged' /\ ListedOrRead'
        /\ ReadIsLoaded' /\ Outcome' /\ SchedulesProper'
    BY <1>0, <2>1, <2>3 DEF InOrder, Going, FreshStart, HeadIsDeclared, ListedThere, ListedOrChanged,
                            ListedOrRead, ReadIsLoaded, Outcome, SchedulesProper
  <2> QED BY <2>4, <2>5, <2>6, <2>7 DEF IInv
<1> QED BY <1>2, <1>3

-----------------------------------------------------------------------------
(* The row that start_run stores.                                            *)
LEMMA UpToIs ==
    ASSUME NEW T, NEW tasks \in Seq(T), NEW n \in Int
    PROVE  /\ UpTo(tasks, n) \in Seq(T)
           /\ \A k \in DOMAIN UpTo(tasks, n) : k \in DOMAIN tasks /\ UpTo(tasks, n)[k] = tasks[k]
<1> DEFINE m == IF n < 0 THEN Len(tasks) + n ELSE Min({n, Len(tasks)})
<1>1. m \in Int /\ m <= Len(tasks)
  <2>1. CASE n < 0
    BY <2>1
  <2>2. CASE n >= 0
    <3>1. \E x \in {n, Len(tasks)} : \A y \in {n, Len(tasks)} : x <= y
      OBVIOUS
    <3>2. Min({n, Len(tasks)}) \in {n, Len(tasks)} /\ \A y \in {n, Len(tasks)} : Min({n, Len(tasks)}) <= y
      BY <3>1 DEF Min
    <3> QED BY <2>2, <3>2
  <2> QED BY <2>1, <2>2
<1>2. UpTo(tasks, n) = SubSeq(tasks, 1, m)
  BY DEF UpTo
<1> HIDE DEF m
<1>3. SubSeq(tasks, 1, m) = [k \in 1 .. m |-> tasks[k]]
  BY <1>1
<1>4. \A k \in 1 .. m : k \in DOMAIN tasks /\ tasks[k] \in T
  BY <1>1
<1>5. [k \in 1 .. m |-> tasks[k]] \in Seq(T)
  <2>1. CASE m >= 0
    BY <1>1, <1>4, <2>1
  <2>2. CASE m < 0
    <3>1. 1 .. m = 1 .. 0
      BY <1>1, <2>2
    <3>2. [k \in 1 .. m |-> tasks[k]] = [k \in 1 .. 0 |-> tasks[k]]
      BY <3>1
    <3>3. [k \in 1 .. 0 |-> tasks[k]] \in Seq(T)
      OBVIOUS
    <3> QED BY <3>2, <3>3
  <2> QED BY <1>1, <2>1, <2>2
<1>6. DOMAIN UpTo(tasks, n) = 1 .. m /\ \A k \in 1 .. m : UpTo(tasks, n)[k] = tasks[k]
  BY <1>2, <1>3
<1> QED BY <1>2, <1>3, <1>4, <1>5, <1>6

\* Some of the tasks of a suite, each at most once.
LEMMA SelectionIs ==
    ASSUME NEW tasks \in Seq(Files), Distinct(tasks), \A i \in DOMAIN tasks : IsTask(tasks[i]),
           NEW id, NEW n \in Int \union {None}
    PROVE  /\ Limited(Named(tasks, id), n) \in Seq(Files)
           /\ \A k \in DOMAIN Limited(Named(tasks, id), n) : IsTask(Limited(Named(tasks, id), n)[k])
           /\ Distinct(Limited(Named(tasks, id), n))
<1>1. /\ Named(tasks, id) \in Seq(Files)
      /\ \A k \in DOMAIN Named(tasks, id) : IsTask(Named(tasks, id)[k])
      /\ Distinct(Named(tasks, id))
  <2>1. CASE id = None
    <3>1. Named(tasks, id) = tasks
      BY <2>1 DEF Named
    <3> QED BY <3>1
  <2>2. CASE id # None
    <3>1. PICK positions \in SUBSET DOMAIN tasks : Named(tasks, id) = Pick(tasks, positions)
      BY <2>2 DEF Named
    <3>2. PICK picked : picked = Pick(tasks, positions)
      OBVIOUS
    <3>3. /\ Pick(tasks, positions) \in Seq(Files)
          /\ DOMAIN Pick(tasks, positions) = 1 .. Cardinality(positions)
          /\ \A k \in 1 .. Cardinality(positions) : \E i \in positions : Pick(tasks, positions)[k] = tasks[i]
      BY PickIs
    <3>11. \A k, l \in 1 .. Cardinality(positions) : \E i, j \in positions :
             Pick(tasks, positions)[k] = tasks[i] /\ Pick(tasks, positions)[l] = tasks[j] /\ (i = j => k = l)
      <4>1. PickedOnce(tasks, positions)
        BY PickIs
      <4> QED BY <4>1 DEF PickedOnce
    <3>4. picked \in Seq(Files)
      BY <3>2, <3>3
    <3>5. \A k \in DOMAIN picked : \E i \in DOMAIN tasks : picked[k] = tasks[i]
      BY <3>2, <3>3
    <3>6. \A k, l \in DOMAIN picked : \E i, j \in DOMAIN tasks :
             picked[k] = tasks[i] /\ picked[l] = tasks[j] /\ (i = j => k = l)
      BY <3>2, <3>3, <3>11
    <3>7. \A i, j \in DOMAIN tasks : tasks[i].holds = tasks[j].holds => i = j
      BY DEF Distinct, IsInjective
    <3>8. \A k, l \in DOMAIN picked : picked[k].holds = picked[l].holds => k = l
      BY <3>6, <3>7
    <3>9. Distinct(picked)
      BY <3>8 DEF Distinct, IsInjective
    <3>10. \A k \in DOMAIN picked : IsTask(picked[k])
      BY <3>5
    <3> QED BY <3>1, <3>2, <3>4, <3>9, <3>10
  <2> QED BY <2>1, <2>2
<1>2. PICK named \in Seq(Files) : named = Named(tasks, id) /\ Distinct(named) /\ \A k \in DOMAIN named : IsTask(named[k])
  BY <1>1
<1>3. CASE n = None
  <2>1. Limited(Named(tasks, id), n) = named
    BY <1>2, <1>3 DEF Limited
  <2> QED BY <1>2, <2>1
<1>4. CASE n # None
  <2>1. PICK upTo : upTo = UpTo(named, n) /\ Limited(Named(tasks, id), n) = upTo
    BY <1>2, <1>4 DEF Limited
  <2>2. n \in Int
    BY <1>4
  <2>3. UpTo(named, n) \in Seq(Files) /\ \A k \in DOMAIN UpTo(named, n) : k \in DOMAIN named /\ UpTo(named, n)[k] = named[k]
    BY <2>2, UpToIs
  <2>4. upTo \in Seq(Files) /\ \A k \in DOMAIN upTo : k \in DOMAIN named /\ upTo[k] = named[k]
    BY <2>1, <2>3
  <2>5. \A k \in DOMAIN upTo : IsTask(upTo[k])
    BY <1>2, <2>4
  <2>6. Distinct(upTo)
    <3>1. \A i, j \in DOMAIN named : named[i].holds = named[j].holds => i = j
      BY <1>2 DEF Distinct, IsInjective
    <3> QED BY <2>4, <3>1 DEF Distinct, IsInjective
  <2> QED BY <2>1, <2>4, <2>5, <2>6
<1> QED BY <1>3, <1>4

LEMMA StoreRunKeeps ==
    ASSUME IInv, StoreRun
    PROVE  IInv'
<1>0. /\ at = "returned" /\ result = "ok" /\ wanted # None /\ at' = "stored" /\ UNCHANGED buildVars
      /\ UNCHANGED <<wanted, left, head, names, got, loaded, result>>
  BY DEF StoreRun
<1>1. BuildInv' /\ BuildTypeOK'
  BY <1>0, DiskSame
<1>2. wanted \in DOMAIN loaded
  BY <1>0 DEF IInv, Outcome
<1>3. PICK tasks \in Seq(Files) : /\ tasks = loaded[wanted].tasks /\ Distinct(tasks)
                                 /\ \A i \in DOMAIN tasks : IsTask(tasks[i])
  <2>1. loaded[wanted].tasks \in Seq(Files)
    BY <1>2 DEF IInv, TypeOK
  <2> QED BY <1>2, <2>1 DEF IInv, TasksProper
<1>4. PICK selection \in Selections :
         /\ SelectTasks(selection) # <<>>
         /\ run' = [hash |-> SuiteHash(SelectTasks(selection)), tasks |-> SelectTasks(selection)]
  BY DEF StoreRun
<1>5. selection[2] \in Int \union {None}
  BY SuiteLoadAssumption
<1>6. SelectTasks(selection) = Limited(Named(tasks, selection[1]), selection[2])
  BY <1>3 DEF SelectTasks
<1>7. PICK chosen : chosen = SelectTasks(selection)
  OBVIOUS
<1>8. chosen \in Seq(Files) /\ (\A k \in DOMAIN chosen : IsTask(chosen[k])) /\ Distinct(chosen)
  <2>1. /\ Limited(Named(tasks, selection[1]), selection[2]) \in Seq(Files)
        /\ \A k \in DOMAIN Limited(Named(tasks, selection[1]), selection[2]) :
              IsTask(Limited(Named(tasks, selection[1]), selection[2])[k])
        /\ Distinct(Limited(Named(tasks, selection[1]), selection[2]))
    BY <1>3, <1>5, SelectionIs
  <2> QED BY <1>6, <1>7, <2>1
<1>9. chosen # <<>> /\ run' = [hash |-> SuiteHash(chosen), tasks |-> chosen]
  BY <1>4, <1>7
<1>10. run'.hash = SuiteHash(chosen) /\ run'.tasks = chosen
  BY <1>9
<1>11. SuiteHash(chosen) \in SUBSET (AllIds \X {v.prompt : v \in Versions})
  <2>1. \A k \in DOMAIN chosen : chosen[k].holds \in AllIds /\ chosen[k].version \in Versions
    BY <1>8 DEF IsTask
  <2> QED BY <2>1 DEF SuiteHash
<1>12. TypeOK'
  <2>1. run' \in [hash : SUBSET (AllIds \X {v.prompt : v \in Versions}), tasks : Seq(Files)]
    BY <1>8, <1>9, <1>11
  <2> QED BY <1>0, <1>1, <2>1 DEF IInv, TypeOK
<1>13. Cardinality(SuiteHash(chosen)) = Len(chosen)
  <2> DEFINE row == [k \in DOMAIN chosen |-> <<chosen[k].holds, chosen[k].version.prompt>>]
  <2>1. DOMAIN chosen = 1 .. Len(chosen) /\ Len(chosen) \in Nat
    BY <1>8
  <2>2. IsFiniteSet(DOMAIN chosen) /\ Cardinality(DOMAIN chosen) = Len(chosen)
    <3>1. PICK size \in Nat : size = Len(chosen) /\ DOMAIN chosen = 1 .. size
      BY <2>1
    <3>2. 1 \in Int /\ size \in Int
      OBVIOUS
    <3>3. IsFiniteSet(1 .. size) /\ Cardinality(1 .. size) = size
      BY <3>2, FS_Interval
    <3> QED BY <3>1, <3>3
  <2>3. \A k, l \in DOMAIN chosen : chosen[k].holds = chosen[l].holds => k = l
    BY <1>8 DEF Distinct, IsInjective
  <2>4. row \in Injection(DOMAIN chosen, SuiteHash(chosen))
    BY <2>3 DEF Injection, IsInjective, SuiteHash
  <2>5. row \in Surjection(DOMAIN chosen, SuiteHash(chosen))
    BY DEF Surjection, SuiteHash
  <2> HIDE DEF row
  <2>6. Cardinality(SuiteHash(chosen)) = Cardinality(DOMAIN chosen)
    BY <2>2, <2>4, <2>5, FS_Surjection
  <2> QED BY <2>2, <2>6
<1>14. SchedulesProper'
  <2>1. IsInjective([k \in DOMAIN chosen |-> chosen[k].holds])
    BY <1>8 DEF Distinct
  <2> QED BY <1>9, <1>10, <1>13, <2>1 DEF SchedulesProper
<1>15. /\ InOrder' /\ FreshStart' /\ HeadIsDeclared' /\ ListedThere' /\ ListedOrChanged' /\ ListedOrRead'
       /\ ReadIsLoaded'
  BY <1>0 DEF InOrder, Going, FreshStart, HeadIsDeclared, ListedThere, ListedOrChanged, ListedOrRead, ReadIsLoaded
<1>16. TasksProper' /\ Outcome'
  BY <1>0 DEF IInv, TasksProper, Distinct, IsTask, Outcome
<1> QED BY <1>1, <1>12, <1>14, <1>15, <1>16 DEF IInv

-----------------------------------------------------------------------------
(* The theorems.                                                             *)
LEMMA InitIInv == Init => IInv
<1> SUFFICES ASSUME Init PROVE IInv
  OBVIOUS
<1>1. BuildInv
  BY BuildStarts DEF Init
<1>2. /\ wanted = None /\ at = "idle" /\ left = <<>> /\ head = NoHead /\ names = <<>> /\ got = <<>>
      /\ loaded = <<>> /\ result = None /\ run = NoRun
  BY DEF Init
<1>3. DOMAIN loaded = {} /\ DOMAIN got = {}
  BY <1>2
<1>4. head \in [name : Suites \union {OtherName, None}, has : BOOLEAN]
  BY <1>2 DEF NoHead
<1>5. run \in [hash : SUBSET (AllIds \X {v.prompt : v \in Versions}), tasks : Seq(Files)]
  BY <1>2 DEF NoRun
<1>6. TypeOK
  BY <1>1, <1>2, <1>3, <1>4, <1>5 DEF TypeOK, BuildInv
<1>7. /\ InOrder /\ FreshStart /\ HeadIsDeclared /\ ListedThere /\ ListedOrChanged /\ ListedOrRead
      /\ ReadIsLoaded /\ Outcome /\ SchedulesProper
  BY <1>2 DEF InOrder, Going, FreshStart, HeadIsDeclared, ListedThere, ListedOrChanged, ListedOrRead,
              ReadIsLoaded, Outcome, SchedulesProper
<1>8. TasksProper
  BY <1>3 DEF TasksProper
<1> QED BY <1>1, <1>6, <1>7, <1>8 DEF IInv

LEMMA NextIInv == IInv /\ [Next]_vars => IInv'
<1> SUFFICES ASSUME IInv, [Next]_vars PROVE IInv'
  OBVIOUS
<1>1. CASE BuildNext /\ UNCHANGED loadVars
  BY <1>1, OthersKeep
<1>2. CASE \E w \in Wanted : Begin(w)
  BY <1>2, BeginKeeps
<1>3. CASE ReadManifest
  BY <1>3, ReadManifestKeeps
<1>4. CASE Glob
  BY <1>4, GlobKeeps
<1>5. CASE ReadTask
  BY <1>5, ReadTaskKeeps
<1>6. CASE EndDirectory
  BY <1>6, EndDirectoryKeeps
<1>7. CASE StoreRun
  BY <1>7, StoreRunKeeps
<1>8. CASE Leave
  BY <1>8, LeaveKeeps
<1>9. CASE UNCHANGED vars
  <2>1. UNCHANGED buildVars /\ UNCHANGED <<wanted, at, left, head, names, got, loaded, result, run>>
    BY <1>9 DEF vars, loadVars
  <2>2. BuildInv' /\ BuildTypeOK' /\ files' = files /\ changed' = changed
    BY <2>1, DiskSame DEF buildVars
  <2>3. TypeOK'
    BY <2>1, <2>2 DEF IInv, TypeOK
  <2>4. InOrder' /\ FreshStart' /\ TasksProper' /\ SchedulesProper' /\ ListedThere'
    BY <2>1 DEF IInv, InOrder, FreshStart, TasksProper, SchedulesProper, ListedThere, Distinct, IsTask
  <2>5. HeadIsDeclared' /\ ListedOrChanged' /\ ListedOrRead'
    BY <2>1, <2>2 DEF IInv, HeadIsDeclared, DeclaredName, ListedOrChanged, Here, ListedOrRead, Undisturbed
  <2>6. ReadIsLoaded'
    <3>1. \A t \in Suites : LoadedFrom(t)' <=> LoadedFrom(t)
      BY <2>1, <2>2 DEF LoadedFrom, Undisturbed, DeclaredName
    <3> QED BY <2>1, <3>1 DEF IInv, ReadIsLoaded
  <2>7. Outcome'
    BY <2>1, <2>2 DEF IInv, Outcome, NobodysError, Here
  <2> QED BY <2>2, <2>3, <2>4, <2>5, <2>6, <2>7 DEF IInv
<1> QED BY <1>1, <1>2, <1>3, <1>4, <1>5, <1>6, <1>7, <1>8, <1>9 DEF Next, Load

LEMMA Invariant == Spec => []IInv
BY InitIInv, NextIInv, PTL DEF Spec

\* The state of the scripts, of the files and of a load is as it is declared.
THEOREM TypeCorrect == Spec => []TypeOK
<1>1. IInv => TypeOK
  BY DEF IInv
<1> QED BY <1>1, Invariant, PTL

(* A script that ended with 0 has written every file of its definitions      *)
(* whole, over whatever a killed or failed build had left, and the tests of  *)
(* every coding task do what they must; but for the files an author changed  *)
(* (build_coding_suite.main, build_extra_suites._write_suite).               *)
THEOREM BuildsAreGood == Spec => []FinishedBuildIsGood
<1>1. IInv => FinishedBuildIsGood
  BY GoodBuilds DEF IInv
<1> QED BY <1>1, Invariant, PTL

(* However scripts and authors write while a load reads, it returns every    *)
(* task file that stood still or fails; and an error that nobody handles     *)
(* comes only of a malformed manifest, of a file that was changed meanwhile, *)
(* or of one that is not UTF-8 (load_suites, _parse_task_file).              *)
THEOREM LoadsAreWhole == Spec => []LoadsAllOrNamesTheError
<1>1. ASSUME IInv PROVE LoadsAllOrNamesTheError
  <2> SUFFICES ASSUME at = "returned"
               PROVE  /\ result = "ok" => EverythingLoaded
                      /\ result = "exception" => NobodysError
    BY DEF LoadsAllOrNamesTheError
  <2>1. ASSUME result = "ok" PROVE EverythingLoaded
    <3>1. left = <<>>
      BY <1>1, <2>1 DEF IInv, Outcome
    <3>2. \A s \in Suites : s \notin ToSet(left)
      BY <3>1 DEF ToSet
    <3>3. \A s \in Suites : LoadedFrom(s)
      BY <1>1, <2>1, <3>2 DEF IInv, ReadIsLoaded
    <3> QED BY <3>3 DEF EverythingLoaded, LoadedFrom
  <2>2. result = "exception" => NobodysError
    BY <1>1 DEF IInv, Outcome
  <2> QED BY <2>1, <2>2
<1>2. IInv => LoadsAllOrNamesTheError
  BY <1>1
<1> QED BY <1>2, Invariant, PTL

(* Whatever was selected of whatever was loaded, a stored run has tasks,     *)
(* none of them twice, and a digest with one entry for each                  *)
(* (load_suite, _select_tasks, suite_hash, start_run).                       *)
THEOREM RunsAreProper == Spec => []SchedulesProper
<1>1. IInv => SchedulesProper
  BY DEF IInv
<1> QED BY <1>1, Invariant, PTL
=============================================================================
