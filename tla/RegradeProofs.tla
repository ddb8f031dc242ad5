--------------------------- MODULE RegradeProofs ---------------------------
(***************************************************************************)
(* Proofs about Regrade for any corpus, any replies, any task and any list  *)
(* of policies.  The first part is about the policies as functions of a     *)
(* reply, the second about the order of the turns, the third about the      *)
(* command.                                                                 *)
(***************************************************************************)
EXTENDS Regrade, FiniteSetTheorems, WellFoundedInduction, TLAPS

-----------------------------------------------------------------------------
(* The policies, of any reply.                                               *)
LEMMA StrictBlocks ==
    ASSUME NEW task, NEW reply, NEW p \in DOMAIN Strict(task, reply)
    PROVE  Strict(task, reply)[p] = Block(Strict(task, reply)[p][2])
<1>1. \E body : Strict(task, reply)[p] = Block(body)
  BY DEF Strict
<1> QED BY <1>1 DEF Block

LEMMA StrictIs ==
    ASSUME NEW task, NEW reply
    PROVE  /\ Strict(task, reply) = [p \in DOMAIN Strict(task, reply) |-> Strict(task, reply)[p]]
           /\ Unmarked(reply) => DOMAIN Strict(task, reply) = {Target[task]} \ TestPaths
<1> DEFINE raw == ExtractFileBlocks(reply)
           Named(p) == IF p = "" THEN Target[task] ELSE p
           names == {Named(q) : q \in DOMAIN raw} \ TestPaths
           BodyOf(p) == raw[CHOOSE q \in DOMAIN raw : Named(q) = p]
<1>1. Strict(task, reply) = [p \in names |-> Block(BodyOf(p))]
  BY DEF Strict
<1>2. Unmarked(reply) => names = {Target[task]} \ TestPaths
  BY DEF Unmarked
<1> HIDE DEF BodyOf, names
<1> QED BY <1>1, <1>2

(* The unnamed block is alone: the loops of strict and of grade_unit_tests   *)
(* never meet the target under two names, and write the same.                *)
LEMMA NamedOrAlone ==
    ASSUME NEW reply, \A i \in DOMAIN reply : reply[i].kind = "marker" => reply[i].path # ""
    PROVE  "" \in DOMAIN ExtractFileBlocks(reply) => DOMAIN ExtractFileBlocks(reply) = {""}
<1>1. "" \notin DOMAIN InfoFiles(reply)
  BY DEF InfoFiles
<1>2. "" \notin DOMAIN MarkedFiles(reply)
  BY DEF MarkedFiles
<1> QED BY <1>1, <1>2 DEF ExtractFileBlocks

LEMMA StrictWritesShipped ==
    ASSUME NEW task, NEW reply,
           \A i \in DOMAIN reply : reply[i].kind = "marker" => reply[i].path # ""
    PROVE  {<<p, Strict(task, reply)[p]>> : p \in DOMAIN Strict(task, reply)}
             = ShippedWrites(task, reply)
<1> DEFINE raw == ExtractFileBlocks(reply)
           Named(p) == IF p = "" THEN Target[task] ELSE p
           names == {Named(q) : q \in DOMAIN raw} \ TestPaths
           From(p) == CHOOSE q \in DOMAIN raw : Named(q) = p
           written == {q \in DOMAIN raw : Named(q) \notin TestPaths}
<1>1. Strict(task, reply) = [p \in names |-> Block(raw[From(p)])]
  BY DEF Strict
<1>2. ShippedWrites(task, reply) = {<<Named(q), Block(raw[q])>> : q \in written}
  BY DEF ShippedWrites
<1>3. \A q, r \in DOMAIN raw : Named(q) = Named(r) => q = r
  BY NamedOrAlone
<1>4. \A q \in DOMAIN raw : From(Named(q)) = q
  BY <1>3
<1>5. ASSUME NEW p \in names PROVE From(p) \in written /\ Named(From(p)) = p
  <2>1. p \notin TestPaths /\ \E q \in DOMAIN raw : Named(q) = p
    OBVIOUS
  <2>2. From(p) \in DOMAIN raw /\ Named(From(p)) = p
    <3> HIDE DEF raw, Named
    <3> QED BY <2>1
  <2> QED BY <2>1, <2>2
<1>6. \A q \in written : Named(q) \in names
  OBVIOUS
<1> HIDE DEF raw, Named, names, From, written
<1>7. {<<p, Strict(task, reply)[p]>> : p \in DOMAIN Strict(task, reply)}
        = {<<p, Block(raw[From(p)])>> : p \in names}
  BY <1>1
<1>8. {<<p, Block(raw[From(p)])>> : p \in names} = {<<Named(q), Block(raw[q])>> : q \in written}
  <2>1. ASSUME NEW p \in names
        PROVE  <<p, Block(raw[From(p)])>> \in {<<Named(q), Block(raw[q])>> : q \in written}
    BY <1>5
  <2>2. ASSUME NEW q \in written
        PROVE  <<Named(q), Block(raw[q])>> \in {<<p, Block(raw[From(p)])>> : p \in names}
    <3>1. From(Named(q)) = q /\ Named(q) \in names
      BY <1>4, <1>6 DEF written
    <3>2. PICK p \in names : p = Named(q)
      BY <3>1
    <3>3. <<p, Block(raw[From(p)])>> = <<Named(q), Block(raw[q])>>
      BY <3>1, <3>2
    <3> QED BY <3>2, <3>3
  <2> QED BY <2>1, <2>2
<1> QED BY <1>2, <1>7, <1>8

LEMMA SplicedIs ==
    ASSUME NEW task, NEW reply
    PROVE  /\ DOMAIN Spliced(task, Strict(task, reply)) = DOMAIN Strict(task, reply)
           /\ SplicedPaths(task, Strict(task, reply)) # {}
                 <=> Spliced(task, Strict(task, reply)) # Strict(task, reply)
<1> DEFINE files == Strict(task, reply)
           paths == SplicedPaths(task, files)
<1>1. /\ files = [p \in DOMAIN files |-> files[p]]
      /\ \A p \in DOMAIN files : files[p] = Block(files[p][2])
  <2>1. files = [p \in DOMAIN files |-> files[p]]
    BY StrictIs
  <2>2. \A p \in DOMAIN files : files[p] = Block(files[p][2])
    BY StrictBlocks
  <2> QED BY <2>1, <2>2
<1>2. paths \subseteq DOMAIN files
  BY DEF SplicedPaths
<1>3. Spliced(task, files) = [p \in DOMAIN files |-> IF p \in paths THEN <<"spliced", files[p][2]>> ELSE files[p]]
  BY DEF Spliced
<1> HIDE DEF files, paths
<1>4. ASSUME NEW p \in paths PROVE Spliced(task, files) # files
  <2>1. Spliced(task, files)[p] = <<"spliced", files[p][2]>>
    BY <1>2, <1>3
  <2>2. files[p] = Block(files[p][2])
    BY <1>1, <1>2
  <2>3. Spliced(task, files)[p] # files[p]
    BY <2>1, <2>2 DEF Block
  <2> QED BY <2>3
<1>5. paths = {} => Spliced(task, files) = files
  BY <1>1, <1>3
<1> QED BY <1>3, <1>4, <1>5 DEF files, paths

(* The flag that extract_with_policy returns says whether the files differ   *)
(* from the strict ones, for any reply.                                      *)
LEMMA ExtractIs ==
    ASSUME NEW task, NEW reply, NEW policy \in Policies
    PROVE  LET submission == Extract(task, reply, policy)
           IN  /\ submission.changed \in BOOLEAN
               /\ submission.changed <=> submission.files # Strict(task, reply)
               /\ policy = "strict" => ~submission.changed
<1> DEFINE files == Strict(task, reply)
           several == Unmarked(reply) /\ Len(Bodies(reply)) >= 2
           submission == Extract(task, reply, policy)
<1>2. ASSUME several
      PROVE  \/ files = << >> /\ DOMAIN files = {}
             \/ /\ files = [p \in {Target[task]} |-> files[Target[task]]]
                /\ files[Target[task]] = Block(files[Target[task]][2])
                /\ files # << >>
  <2>1. DOMAIN files = {Target[task]} \ TestPaths
    BY <1>2, StrictIs
  <2>2. files = [p \in DOMAIN files |-> files[p]]
    BY StrictIs
  <2>3. CASE Target[task] \in TestPaths
    <3>1. DOMAIN files = {}
      BY <2>1, <2>3
    <3>2. files = << >>
      BY <2>2, <3>1
    <3> QED BY <3>1, <3>2
  <2>4. CASE Target[task] \notin TestPaths
    <3>1. DOMAIN files = {Target[task]}
      BY <2>1, <2>4
    <3>2. DOMAIN << >> = {}
      OBVIOUS
    <3>3. files[Target[task]] = Block(files[Target[task]][2])
      BY <3>1, StrictBlocks
    <3> HIDE DEF files
    <3>4. files = [p \in {Target[task]} |-> files[Target[task]]]
      BY <2>2, <3>1
    <3> QED BY <3>1, <3>2, <3>3, <3>4
  <2> QED BY <2>3, <2>4
<1>3. CASE policy = "largest_block" /\ several
  <2> DEFINE best == Largest(reply)
             differs == files = << >> \/ best # files[Target[task]]
  <2>1. submission = Submission([p \in {Target[task]} |-> best], differs)
    BY <1>3 DEF Extract
  <2>2. [p \in {Target[task]} |-> best] # files <=> differs
    BY <1>2, <1>3
  <2>3. submission.files = [p \in {Target[task]} |-> best] /\ submission.changed = differs
    BY <2>1 DEF Submission
  <2>4. submission.changed <=> submission.files # files
    BY <2>2, <2>3
  <2> QED BY <1>3, <2>3, <2>4
<1>4. CASE policy = "concat_blocks" /\ several
  <2> DEFINE joined == <<"joined", Bodies(reply)>>
  <2>1. submission = Submission([p \in {Target[task]} |-> joined], TRUE)
    BY <1>4 DEF Extract
  <2>2. files[Target[task]] = Block(files[Target[task]][2]) => joined # files[Target[task]]
    BY DEF Block
  <2>3. [p \in {Target[task]} |-> joined] # files
    BY <1>2, <1>4, <2>2
  <2>4. submission.files = [p \in {Target[task]} |-> joined] /\ submission.changed = TRUE
    BY <2>1 DEF Submission
  <2>5. submission.changed <=> submission.files # files
    BY <2>3, <2>4
  <2> QED BY <1>4, <2>4, <2>5
<1>5. CASE policy = "splice"
  <2>1. submission = Submission(Spliced(task, files), SplicedPaths(task, files) # {})
    BY <1>5 DEF Extract
  <2>2. submission.files = Spliced(task, files) /\ submission.changed = (SplicedPaths(task, files) # {})
    BY <2>1 DEF Submission
  <2>3. submission.changed <=> submission.files # files
    BY <2>2, SplicedIs
  <2> QED BY <1>5, <2>2, <2>3
<1>6. CASE /\ ~(policy = "largest_block" /\ several)
           /\ ~(policy = "concat_blocks" /\ several)
           /\ policy # "splice"
  <2>1. submission = Submission(files, FALSE)
    BY <1>6 DEF Extract
  <2> QED BY <2>1 DEF Submission
<1> QED BY <1>3, <1>4, <1>5, <1>6

-----------------------------------------------------------------------------
(* The turns: for policy in wanted: for attempt in corpus.                   *)
LEMMA Divide ==
    ASSUME NEW n \in Nat \ {0}, NEW k \in Nat
    PROVE  k \div n \in Nat /\ k % n \in 0 .. n - 1 /\ k = n * (k \div n) + (k % n)
OBVIOUS

LEMMA SameQuotient ==
    ASSUME NEW n \in Nat \ {0}, NEW q \in Nat, NEW p \in Nat, NEW r \in 0 .. n - 1, NEW t \in 0 .. n - 1,
           n * q + r = n * p + t
    PROVE  q = p /\ r = t
<1>1. ASSUME NEW a \in Nat, NEW b \in Nat, a < b PROVE n * a + n <= n * b
  <2>1. PICK d \in Nat : b = a + 1 + d
    <3>1. b - a - 1 \in Nat /\ b = a + 1 + (b - a - 1)
      BY <1>1
    <3> QED BY <3>1
  <2>2. n * b = n * a + n + n * d
    BY <2>1
  <2>3. n * d \in Nat /\ n * a \in Nat
    OBVIOUS
  <2> QED BY <2>2, <2>3
<1>2. n * q \in Nat /\ n * p \in Nat
  OBVIOUS
<1>3. ~(q < p)
  BY <1>1, <1>2
<1>4. ~(p < q)
  BY <1>1, <1>2
<1>5. q = p
  BY <1>3, <1>4
<1>6. r = t
  BY <1>2, <1>5
<1> QED BY <1>5, <1>6

LEMMA TimesGrows ==
    ASSUME NEW n \in Nat, NEW a \in Nat, NEW b \in Nat, a <= b
    PROVE  n * a <= n * b /\ n * a \in Nat /\ n * b \in Nat
<1>1. PICK d \in Nat : b = a + d
  <2>1. b - a \in Nat /\ b = a + (b - a)
    OBVIOUS
  <2> QED BY <2>1
<1>2. n * b = n * a + n * d /\ n * d \in Nat /\ n * a \in Nat
  BY <1>1
<1> QED BY <1>2

LEMMA QuotientBelow ==
    ASSUME NEW n \in Nat \ {0}, NEW w \in Nat, NEW k \in Nat, k < n * w
    PROVE  k \div n < w
<1> DEFINE q == k \div n
           r == k % n
<1>1. q \in Nat /\ r \in Nat /\ k = n * q + r
  BY Divide
<1> HIDE DEF q, r
<1>2. w <= q => n * w <= n * q
  BY <1>1, TimesGrows
<1>3. n * q \in Nat /\ n * w \in Nat
  BY <1>1
<1>4. q < w
  BY <1>1, <1>2, <1>3
<1> QED BY <1>4 DEF q

LEMMA ReplayedIs ==
    /\ Replayed \in SUBSET Nat /\ IsFiniteSet(Replayed) /\ Cardinality(Replayed) \in Nat
    /\ \A S \in SUBSET Replayed : IsFiniteSet(S) /\ Cardinality(S) \in Nat
    /\ Len(Wanted) \in Nat /\ DOMAIN Wanted = 1 .. Len(Wanted) /\ Turns \in Nat
<1>1. Len(Corpus) \in Nat /\ Len(Wanted) \in Nat /\ DOMAIN Wanted = 1 .. Len(Wanted)
  BY RegradeAssumption
<1>2. Replayed \in SUBSET (1 .. Len(Corpus))
  BY DEF Replayed, Attempts
<1>3. IsFiniteSet(1 .. Len(Corpus))
  <2>1. 1 \in Int /\ Len(Corpus) \in Int
    BY <1>1
  <2> QED BY <2>1, FS_Interval
<1>4. \A S \in SUBSET Replayed : IsFiniteSet(S) /\ Cardinality(S) \in Nat
  <2>1. \A S \in SUBSET Replayed : S \in SUBSET (1 .. Len(Corpus))
    BY <1>2
  <2> QED BY <1>3, <2>1, FS_Subset, FS_CardinalityType
<1>5. Cardinality(Replayed) \in Nat /\ Replayed \in SUBSET Nat
  BY <1>1, <1>2, <1>4
<1> QED BY <1>1, <1>4, <1>5 DEF Turns

(* Each place of the replayed corpus is that of exactly one attempt.         *)
LEMMA PlacesAre ==
    /\ \A i \in Replayed : PlaceOf(i) \in 0 .. Cardinality(Replayed) - 1
    /\ \A i, j \in Replayed : PlaceOf(i) = PlaceOf(j) => i = j
    /\ \A r \in 0 .. Cardinality(Replayed) - 1 : \E i \in Replayed : PlaceOf(i) = r
<1> DEFINE n == Cardinality(Replayed)
           before(i) == {j \in Replayed : j < i}
<1>1. n \in Nat /\ \A i \in Replayed : i \in Nat
  BY ReplayedIs
<1>2. \A i \in Replayed : /\ before(i) \in SUBSET (Replayed \ {i}) /\ i \in Nat
                          /\ IsFiniteSet(Replayed \ {i}) /\ Cardinality(Replayed \ {i}) = n - 1
  BY ReplayedIs, FS_RemoveElement
<1>3. \A i \in Replayed : PlaceOf(i) \in 0 .. n - 1
  <2> SUFFICES ASSUME NEW i \in Replayed PROVE PlaceOf(i) \in 0 .. n - 1
    OBVIOUS
  <2>1. before(i) \in SUBSET (Replayed \ {i}) /\ before(i) \in SUBSET Replayed
    BY <1>2
  <2>2. Cardinality(before(i)) <= Cardinality(Replayed \ {i})
    BY <1>2, <2>1, FS_Subset
  <2>3. Cardinality(before(i)) \in Nat /\ PlaceOf(i) = Cardinality(before(i))
    BY <2>1, ReplayedIs DEF PlaceOf
  <2>4. Cardinality(Replayed \ {i}) = n - 1
    BY <1>2
  <2> HIDE DEF before, n
  <2> QED BY <1>1, <2>2, <2>3, <2>4
<1>4. ASSUME NEW i \in Replayed, NEW j \in Replayed, i < j PROVE PlaceOf(i) < PlaceOf(j)
  <2>1. /\ before(i) \cup {i} \in SUBSET before(j) /\ IsFiniteSet(before(j))
        /\ IsFiniteSet(before(i)) /\ i \notin before(i)
    <3>1. before(i) \in SUBSET Replayed /\ before(j) \in SUBSET Replayed
      OBVIOUS
    <3>2. \A k \in Replayed : k < i => k < j
      BY <1>1, <1>4
    <3> QED BY <1>2, <1>4, <3>1, <3>2, ReplayedIs
  <2>2. Cardinality(before(i) \cup {i}) = Cardinality(before(i)) + 1
    BY <2>1, FS_AddElement
  <2>3. Cardinality(before(i) \cup {i}) <= Cardinality(before(j))
    BY <2>1, FS_Subset
  <2>4. PlaceOf(i) = Cardinality(before(i)) /\ PlaceOf(j) = Cardinality(before(j))
    BY DEF PlaceOf
  <2>5. PlaceOf(i) \in Nat /\ PlaceOf(j) \in Nat
    BY <1>3
  <2> HIDE DEF before
  <2> QED BY <2>2, <2>3, <2>4, <2>5
<1>5. \A i, j \in Replayed : PlaceOf(i) = PlaceOf(j) => i = j
  <2>1. \A i, j \in Replayed : i < j \/ j < i \/ i = j
    BY <1>1
  <2> QED BY <1>3, <1>4, <2>1
<1>6. \A r \in 0 .. n - 1 : \E i \in Replayed : PlaceOf(i) = r
  <2> DEFINE place == [i \in Replayed |-> PlaceOf(i)]
             range == 0 .. n - 1
  <2>1. place \in Injection(Replayed, range)
    BY <1>3, <1>5 DEF Injection, IsInjective
  <2>2. IsFiniteSet(range) /\ Cardinality(range) = n
    <3>1. 0 \in Int /\ n - 1 \in Int
      BY <1>1
    <3> QED BY <1>1, <3>1, FS_Interval
  <2> HIDE DEF range, n
  <2>3. place \in Surjection(Replayed, range)
    BY <2>1, <2>2, ReplayedIs, FS_Injection DEF n
  <2> QED BY <2>3 DEF Surjection, range
<1> QED BY <1>3, <1>5, <1>6

(* While there are turns left, there is a policy and an attempt to take.     *)
LEMMA TurnIs ==
    ASSUME Len(outcomes) \in Nat, Len(outcomes) < Turns
    PROVE  /\ TurnPolicy \in Policies
           /\ TurnAttempt \in Replayed
           /\ PlaceOf(TurnAttempt) = Len(outcomes) % Cardinality(Replayed)
<1> DEFINE n == Cardinality(Replayed)
           k == Len(outcomes)
           w == Len(Wanted)
<1>1. n \in Nat \ {0} /\ w \in Nat /\ k \in Nat /\ k < n * w
  BY ReplayedIs DEF Turns
<1>2. /\ k \div n \in Nat /\ k % n \in 0 .. n - 1
      /\ k = n * (k \div n) + (k % n)
  <2> HIDE DEF n, k
  <2> QED BY <1>1, Divide
<1>3. k \div n < w
  <2> HIDE DEF n, w, k
  <2> QED BY <1>1, QuotientBelow
<1>4. (k \div n) + 1 \in DOMAIN Wanted
  <2> HIDE DEF k, n
  <2> QED BY <1>1, <1>2, <1>3, ReplayedIs
<1>5. \E i \in Replayed : PlaceOf(i) = k % n
  BY <1>2, PlacesAre
<1> QED BY <1>4, <1>5, RegradeAssumption DEF TurnPolicy, TurnAttempt

-----------------------------------------------------------------------------
(* The command.                                                              *)

\* The i-th outcome is that of its turn: what it says of the files is what the
\* policy makes of the reply, and a verdict of the tests is known.
FromItsTurn(i) ==
    LET o == outcomes[i]
        n == Cardinality(Replayed)
        submission == Extract(Corpus[o.attempt].task, replies[o.attempt], o.policy)
    IN  /\ o.policy \in Policies
        /\ o.policy = Wanted[((i - 1) \div n) + 1]
        /\ o.attempt \in Replayed
        /\ PlaceOf(o.attempt) = (i - 1) % n
        /\ o.files = submission.files
        /\ o.changed = submission.changed
        /\ o.passed \in BOOLEAN
        /\ \/ o.files = << >> /\ o.fault = "malformed_submission" /\ ~o.passed
           \/ o.files # << >> /\ o.fault = "test_crash" /\ ~o.passed
           \/ /\ o.files # << >> /\ o.fault = "none"
              /\ <<<<Corpus[o.attempt].task, o.files>>, o.passed>> \in known

\* The tests never said both of one set of files.
VerdictsStand ==
    \A k \in known : /\ k = <<k[1], k[2]>> /\ k[2] \in BOOLEAN
                     /\ <<k[1], ~k[2]>> \notin known

IInv == /\ outcomes \in Seq(ToSet(outcomes))
        /\ Len(outcomes) <= Turns
        /\ stage = "reported" => Len(outcomes) = Turns
        /\ VerdictsStand
        /\ \A i \in DOMAIN outcomes : FromItsTurn(i)

LEMMA InitIInv == Init => IInv
<1> SUFFICES ASSUME Init PROVE IInv
  OBVIOUS
<1>1. outcomes = <<>> /\ known = {} /\ stage = "grading"
  BY DEF Init
<1>2. Len(outcomes) = 0 /\ DOMAIN outcomes = {} /\ outcomes \in Seq(ToSet(outcomes))
  BY <1>1
<1>3. Turns \in Nat
  BY ReplayedIs
<1> QED BY <1>1, <1>2, <1>3 DEF IInv, VerdictsStand

\* What one turn adds.
Adds(o, case) ==
    LET submission == Extract(Corpus[TurnAttempt].task, replies[TurnAttempt], TurnPolicy)
    IN  /\ outcomes' = Append(outcomes, o)
        /\ o.policy = TurnPolicy /\ o.attempt = TurnAttempt
        /\ o.files = submission.files /\ o.changed = submission.changed
        /\ case = <<Corpus[TurnAttempt].task, o.files>>
        /\ o.passed \in BOOLEAN
        /\ \/ o.files = << >> /\ o.fault = "malformed_submission" /\ ~o.passed /\ known' = known
           \/ o.files # << >> /\ o.fault = "test_crash" /\ ~o.passed /\ known' = known
           \/ /\ o.files # << >> /\ o.fault = "none"
              /\ <<case, ~o.passed>> \notin known
              /\ known' = known \cup {<<case, o.passed>>}

LEMMA AttemptAdds ==
    ASSUME RegradeAttempt
    PROVE  \E o, case : Adds(o, case)
<1> DEFINE submission == Extract(Corpus[TurnAttempt].task, replies[TurnAttempt], TurnPolicy)
           case == <<Corpus[TurnAttempt].task, submission.files>>
           Made(passed, fault) == Outcome(TurnPolicy, TurnAttempt, submission, passed, fault)
<1>1. \A passed, fault : /\ Made(passed, fault).policy = TurnPolicy
                         /\ Made(passed, fault).attempt = TurnAttempt
                         /\ Made(passed, fault).files = submission.files
                         /\ Made(passed, fault).changed = submission.changed
                         /\ Made(passed, fault).passed = passed
                         /\ Made(passed, fault).fault = fault
  BY DEF Outcome
<1>2. \/ /\ submission.files = << >>
         /\ outcomes' = Append(outcomes, Made(FALSE, "malformed_submission"))
         /\ known' = known
      \/ /\ submission.files # << >>
         /\ outcomes' = Append(outcomes, Made(FALSE, "test_crash"))
         /\ known' = known
      \/ /\ submission.files # << >>
         /\ \E passed \in BOOLEAN : /\ <<case, ~passed>> \notin known
                                    /\ known' = known \cup {<<case, passed>>}
                                    /\ outcomes' = Append(outcomes, Made(passed, "none"))
  BY DEF RegradeAttempt
<1> HIDE DEF Made, submission
<1>3. CASE /\ submission.files = << >>
           /\ outcomes' = Append(outcomes, Made(FALSE, "malformed_submission"))
           /\ known' = known
  <2>1. Adds(Made(FALSE, "malformed_submission"), case)
    BY <1>1, <1>3 DEF Adds, submission
  <2> QED BY <2>1
<1>4. CASE /\ submission.files # << >>
           /\ outcomes' = Append(outcomes, Made(FALSE, "test_crash"))
           /\ known' = known
  <2>1. Adds(Made(FALSE, "test_crash"), case)
    BY <1>1, <1>4 DEF Adds, submission
  <2> QED BY <2>1
<1>5. ASSUME submission.files # << >>, NEW passed \in BOOLEAN, <<case, ~passed>> \notin known,
             known' = known \cup {<<case, passed>>}, outcomes' = Append(outcomes, Made(passed, "none"))
      PROVE  \E o, c : Adds(o, c)
  <2>1. Adds(Made(passed, "none"), case)
    BY <1>1, <1>5 DEF Adds, submission
  <2> QED BY <2>1
<1> QED BY <1>2, <1>3, <1>4, <1>5

LEMMA AttemptIInv ==
    ASSUME IInv, RegradeAttempt
    PROVE  IInv'
<1>0. PICK size : size = Len(outcomes)
  OBVIOUS
<1>1. /\ stage = "grading" /\ stage' = stage /\ replies' = replies /\ size < Turns
  BY <1>0 DEF RegradeAttempt
<1>2. size \in Nat /\ DOMAIN outcomes = 1 .. size /\ outcomes \in Seq(ToSet(outcomes))
  BY <1>0 DEF IInv
<1>3. /\ Replayed' = Replayed /\ Turns' = Turns
      /\ \A i : PlaceOf(i)' = PlaceOf(i)
  BY <1>1 DEF Replayed, Turns, PlaceOf
<1>4. PICK o, case : Adds(o, case)
  BY AttemptAdds
<1>5. /\ TurnPolicy \in Policies /\ TurnAttempt \in Replayed
      /\ PlaceOf(TurnAttempt) = size % Cardinality(Replayed)
      /\ TurnPolicy = Wanted[(size \div Cardinality(Replayed)) + 1]
  BY <1>0, <1>1, <1>2, TurnIs DEF TurnPolicy
<1>6. outcomes' = Append(outcomes, o)
  BY <1>4 DEF Adds
<1>7. /\ Len(outcomes') = size + 1 /\ DOMAIN outcomes' = 1 .. size + 1
      /\ outcomes'[size + 1] = o
      /\ \A i \in 1 .. size : outcomes'[i] = outcomes[i]
  BY <1>0, <1>2, <1>6
<1>8. outcomes' \in Seq(ToSet(outcomes'))
  <2>1. \A i \in DOMAIN outcomes' : outcomes'[i] \in ToSet(outcomes')
    BY DEF ToSet
  <2> DEFINE S == ToSet(outcomes) \cup {o}
  <2>2. outcomes \in Seq(S) /\ o \in S
    BY <1>2
  <2>3. Append(outcomes, o) \in Seq(S)
    <3> HIDE DEF S
    <3> QED BY <2>2
  <2> HIDE DEF S
  <2>4. outcomes' \in [1 .. size + 1 -> S]
    <3>1. outcomes' \in Seq(S) /\ Len(outcomes') = size + 1
      BY <1>6, <1>7, <2>3
    <3> QED BY <3>1
  <2>5. outcomes' \in [1 .. size + 1 -> ToSet(outcomes')]
    BY <1>7, <2>1, <2>4
  <2> QED BY <1>2, <2>5
<1>9. Len(outcomes') <= Turns'
  BY <1>1, <1>2, <1>3, <1>7, ReplayedIs
<1>10. known \subseteq known'
  BY <1>4 DEF Adds
<1>11. VerdictsStand'
  <2>1. CASE known' = known
    BY <2>1 DEF IInv, VerdictsStand
  <2>2. CASE o.passed \in BOOLEAN /\ <<case, ~o.passed>> \notin known /\ known' = known \cup {<<case, o.passed>>}
    <3> DEFINE new == <<case, o.passed>>
    <3>1. new = <<new[1], new[2]>> /\ new[2] \in BOOLEAN /\ <<new[1], ~new[2]>> \notin known'
      BY <2>2
    <3>2. ASSUME NEW k \in known
          PROVE  k = <<k[1], k[2]>> /\ k[2] \in BOOLEAN /\ <<k[1], ~k[2]>> \notin known'
      <4>1. k = <<k[1], k[2]>> /\ k[2] \in BOOLEAN /\ <<k[1], ~k[2]>> \notin known
        BY DEF IInv, VerdictsStand
      <4>2. <<k[1], ~k[2]>> = new => k = <<case, ~o.passed>>
        BY <2>2, <4>1
      <4> QED BY <2>2, <4>1, <4>2
    <3> HIDE DEF new
    <3> QED BY <2>2, <3>1, <3>2 DEF VerdictsStand, new
  <2> QED BY <1>4, <2>1, <2>2 DEF Adds
<1>12. ASSUME NEW i \in 1 .. size PROVE FromItsTurn(i)'
  <2>1. FromItsTurn(i)
    BY <1>2 DEF IInv
  <2>2. outcomes'[i] = outcomes[i]
    BY <1>7
  <2> QED BY <1>1, <1>3, <1>10, <2>1, <2>2 DEF FromItsTurn
<1>13. FromItsTurn(size + 1)'
  <2>1. (size + 1) - 1 = size
    BY <1>2
  <2>2. /\ o.policy \in Policies /\ o.attempt \in Replayed
        /\ o.policy = Wanted[(size \div Cardinality(Replayed)) + 1]
        /\ PlaceOf(o.attempt) = size % Cardinality(Replayed)
    BY <1>4, <1>5 DEF Adds
  <2>3. /\ o.files = Extract(Corpus[o.attempt].task, replies[o.attempt], o.policy).files
        /\ o.changed = Extract(Corpus[o.attempt].task, replies[o.attempt], o.policy).changed
        /\ o.passed \in BOOLEAN
    BY <1>4 DEF Adds
  <2>4. \/ o.files = << >> /\ o.fault = "malformed_submission" /\ ~o.passed
        \/ o.files # << >> /\ o.fault = "test_crash" /\ ~o.passed
        \/ /\ o.files # << >> /\ o.fault = "none"
           /\ <<<<Corpus[o.attempt].task, o.files>>, o.passed>> \in known'
    BY <1>4 DEF Adds
  <2> QED BY <1>1, <1>3, <1>7, <2>1, <2>2, <2>3, <2>4 DEF FromItsTurn
<1>14. \A i \in DOMAIN outcomes' : FromItsTurn(i)'
  <2>1. \A i \in DOMAIN outcomes' : i \in 1 .. size \/ i = size + 1
    BY <1>2, <1>7
  <2> QED BY <1>12, <1>13, <2>1
<1> QED BY <1>1, <1>8, <1>9, <1>11, <1>14 DEF IInv

LEMMA NextIInv ==
    ASSUME IInv, [Next]_vars
    PROVE  IInv'
<1>1. CASE RegradeAttempt
  BY <1>1, AttemptIInv
<1>2. ASSUME UNCHANGED <<replies, outcomes, known>>, stage' = "reported" => Len(outcomes) = Turns
      PROVE  IInv'
  <2>1. /\ Replayed' = Replayed /\ Turns' = Turns
        /\ \A i : PlaceOf(i)' = PlaceOf(i)
    BY <1>2 DEF Replayed, Turns, PlaceOf
  <2>2. \A i : FromItsTurn(i) => FromItsTurn(i)'
    BY <1>2, <2>1 DEF FromItsTurn
  <2>3. (outcomes \in Seq(ToSet(outcomes)))' /\ Len(outcomes') <= Turns'
    BY <1>2, <2>1 DEF IInv
  <2>4. VerdictsStand'
    BY <1>2 DEF IInv, VerdictsStand
  <2>5. \A i \in DOMAIN outcomes' : FromItsTurn(i)'
    BY <1>2, <2>2 DEF IInv
  <2> QED BY <1>2, <2>1, <2>3, <2>4, <2>5 DEF IInv
<1>3. CASE RegradeRaises
  BY <1>2, <1>3 DEF RegradeRaises
<1>4. CASE Report
  BY <1>2, <1>4 DEF Report
<1>5. CASE UNCHANGED vars
  BY <1>2, <1>5 DEF vars, IInv
<1> QED BY <1>1, <1>3, <1>4, <1>5 DEF Next, Ended

LEMMA Invariant == Spec => []IInv
BY InitIInv, NextIInv, PTL DEF Spec

LEMMA RepliesStored == Spec => [](replies \in Stored)
<1>1. Init => replies \in Stored
  BY DEF Init
<1>2. replies \in Stored /\ [Next]_vars => (replies \in Stored)'
  BY DEF Next, RegradeAttempt, RegradeRaises, Report, Ended, vars
<1> QED BY <1>1, <1>2, PTL DEF Spec

(* What `strict` writes for a stored reply, whatever its markers and blocks  *)
(* and wherever the task's target is, is what grade_unit_tests writes for    *)
(* it: the two loops over the blocks agree (extract_with_policy,             *)
(* grade_unit_tests).                                                        *)
THEOREM StrictAsShipped == Spec => []StrictIsShipped
<1>1. ASSUME IInv, replies \in Stored, NEW i \in Of("strict")
      PROVE  {<<p, outcomes[i].files[p]>> : p \in DOMAIN outcomes[i].files}
               = ShippedWrites(Corpus[outcomes[i].attempt].task, replies[outcomes[i].attempt])
  <2> DEFINE a == outcomes[i].attempt
             task == Corpus[a].task
  <2>1. /\ outcomes[i].policy = "strict" /\ a \in Replayed
        /\ outcomes[i].files = Extract(task, replies[a], "strict").files
    BY <1>1 DEF IInv, FromItsTurn, Of
  <2>2. outcomes[i].files = Strict(task, replies[a])
    <3>1. Extract(task, replies[a], "strict") = Submission(Strict(task, replies[a]), FALSE)
      BY DEF Extract
    <3> QED BY <2>1, <3>1 DEF Submission
  <2>3. \A j \in DOMAIN replies[a] : replies[a][j].kind = "marker" => replies[a][j].path # ""
    <3>1. a \in DOMAIN Corpus /\ replies[a] # NoReply
      BY <2>1, RegradeAssumption DEF Replayed, Attempts
    <3> QED BY <1>1, <3>1, MarkersAssumption
  <2> HIDE DEF a, task
  <2>4. {<<p, Strict(task, replies[a])[p]>> : p \in DOMAIN Strict(task, replies[a])}
          = ShippedWrites(task, replies[a])
    BY <2>3, StrictWritesShipped
  <2> QED BY <2>2, <2>4 DEF a, task
<1>2. IInv /\ replies \in Stored => StrictIsShipped
  BY <1>1 DEF StrictIsShipped
<1> QED BY <1>2, Invariant, RepliesStored, PTL

-----------------------------------------------------------------------------
(* The summary.                                                              *)
LEMMA LastIs ==
    ASSUME NEW S \in SUBSET Nat, S # {}, NEW m \in Nat, \A x \in S : x <= m
    PROVE  Max(S) \in S
<1> DEFINE bounds == {b \in Nat : \A x \in S : x <= b}
<1>1. IsWellFoundedOn(OpToRel(<, Nat), Nat)
  BY NatLessThanWellFounded
<1>2. m \in bounds /\ bounds \in SUBSET Nat
  OBVIOUS
<1>3. PICK b \in bounds : \A c \in bounds : ~(<<c, b>> \in OpToRel(<, Nat))
  BY <1>1, <1>2, WFMin
<1>4. \A c \in bounds : ~(c < b)
  BY <1>3 DEF OpToRel
<1>5. b \in S
  <2> SUFFICES ASSUME b \notin S PROVE FALSE
    OBVIOUS
  <2>1. PICK x \in S : TRUE
    OBVIOUS
  <2>2. b \in Nat /\ \A y \in S : y \in Nat /\ y <= b /\ y # b
    BY <1>3
  <2>3. b - 1 \in Nat /\ b - 1 < b
    <3>1. x \in Nat /\ x <= b /\ x # b
      BY <2>2
    <3> QED BY <2>2, <3>1
  <2>4. \A y \in S : y <= b - 1
    BY <2>2
  <2> QED BY <1>4, <2>3, <2>4
<1>6. \E x \in S : \A y \in S : x >= y
  BY <1>3, <1>5
<1> QED BY <1>6 DEF Max

LEMMA OutcomesAre ==
    ASSUME IInv
    PROVE  /\ Len(outcomes) \in Nat /\ DOMAIN outcomes = 1 .. Len(outcomes)
           /\ IsFiniteSet(DOMAIN outcomes)
           /\ \A S \in SUBSET DOMAIN outcomes : IsFiniteSet(S) /\ Cardinality(S) \in Nat
<1>1. Len(outcomes) \in Nat /\ DOMAIN outcomes = 1 .. Len(outcomes)
  BY DEF IInv
<1>2. IsFiniteSet(DOMAIN outcomes)
  <2>1. 1 \in Int /\ Len(outcomes) \in Int
    BY <1>1
  <2> QED BY <1>1, <2>1, FS_Interval
<1> QED BY <1>1, <1>2, FS_Subset, FS_CardinalityType

LEMMA BaselineIs ==
    ASSUME IInv
    PROVE  /\ DOMAIN Baseline = BaselineKeys
           /\ \A k \in BaselineKeys :
                 \E j \in Of("strict") : KeyOf(j) = k /\ Baseline[k] = outcomes[j].passed
<1>1. DOMAIN Baseline = BaselineKeys
  BY DEF Baseline
<1>2. ASSUME NEW k \in BaselineKeys
      PROVE  \E j \in Of("strict") : KeyOf(j) = k /\ Baseline[k] = outcomes[j].passed
  <2> DEFINE same == {i \in Of("strict") : KeyOf(i) = k}
  <2>1. same # {}
    BY <1>2 DEF BaselineKeys
  <2>2. same \in SUBSET Nat /\ \A i \in same : i <= Len(outcomes)
    BY OutcomesAre DEF Of
  <2>3. Max(same) \in same
    <3> HIDE DEF same
    <3> QED BY <2>1, <2>2, OutcomesAre, LastIs
  <2>4. Baseline[k] = outcomes[Max(same)].passed
    BY <1>2 DEF Baseline
  <2> QED BY <2>3, <2>4
<1> QED BY <1>1, <1>2

\* No two replies are of the same task and model: no repeats, and no model in
\* two of the databases.
OncePerModel == \A i, j \in Replayed : Key(i) = Key(j) => i = j

LEMMA SameFilesSameVerdict ==
    ASSUME IInv, NEW i \in DOMAIN outcomes, NEW j \in DOMAIN outcomes,
           outcomes[i].attempt = outcomes[j].attempt,
           ~outcomes[i].changed, ~outcomes[j].changed,
           outcomes[i].fault # "test_crash", outcomes[j].fault # "test_crash"
    PROVE  outcomes[i].passed = outcomes[j].passed
<1> DEFINE a == outcomes[i]
           b == outcomes[j]
<1>1. FromItsTurn(i) /\ FromItsTurn(j)
  BY DEF IInv
<1>2. /\ a.files = Strict(Corpus[a.attempt].task, replies[a.attempt])
      /\ b.files = Strict(Corpus[b.attempt].task, replies[b.attempt])
  BY <1>1, ExtractIs DEF FromItsTurn
<1>3. a.files = b.files
  BY <1>2
<1>4. CASE a.files = << >>
  <2>1. ~a.passed /\ ~b.passed /\ a.passed \in BOOLEAN /\ b.passed \in BOOLEAN
    BY <1>1, <1>3, <1>4 DEF FromItsTurn
  <2> QED BY <2>1
<1>5. CASE a.files # << >>
  <2> DEFINE case == <<Corpus[a.attempt].task, a.files>>
  <2>1. /\ <<case, a.passed>> \in known /\ <<case, b.passed>> \in known
        /\ a.passed \in BOOLEAN /\ b.passed \in BOOLEAN
    BY <1>1, <1>3, <1>5 DEF FromItsTurn
  <2>2. <<case, ~a.passed>> \notin known
    <3> HIDE DEF case, a, b
    <3> QED BY <2>1 DEF IInv, VerdictsStand
  <2>3. b.passed # ~a.passed
    BY <2>1, <2>2
  <2> QED BY <2>1, <2>3
<1> QED BY <1>4, <1>5

(* Where no task and model has two replies, a verdict differs from that of   *)
(* `strict` only where the policy changed the submission or pytest timed     *)
(* out; and the flag that says so is right about every outcome, repeats or   *)
(* not (extract_with_policy, summarize_regrade).                             *)
THEOREM FlipsExplained == Spec => [](OncePerModel => FlipsComeFromChanges)
<1>1. ASSUME IInv, OncePerModel PROVE FlipsComeFromChanges
  <2>1. ASSUME NEW i \in DOMAIN outcomes
        PROVE  outcomes[i].changed <=>
                  outcomes[i].files # Strict(Corpus[outcomes[i].attempt].task, replies[outcomes[i].attempt])
    <3>1. FromItsTurn(i)
      BY <1>1 DEF IInv
    <3> QED BY <3>1, ExtractIs DEF FromItsTurn
  <2>2. ASSUME NEW policy \in ToSet(Wanted), NEW verdict \in BOOLEAN, NEW i \in Flipped(policy, verdict),
               ~outcomes[i].changed
        PROVE  \E j \in DOMAIN outcomes : /\ outcomes[j].attempt = outcomes[i].attempt
                                          /\ outcomes[j].fault = "test_crash"
    <3>1. /\ i \in DOMAIN outcomes /\ outcomes[i].passed = verdict
          /\ KeyOf(i) \in BaselineKeys /\ Baseline[KeyOf(i)] = ~verdict
      BY <1>1, <2>2, BaselineIs DEF Flipped, Of
    <3>2. PICK j \in Of("strict") : KeyOf(j) = KeyOf(i) /\ outcomes[j].passed = ~verdict
      BY <1>1, <3>1, BaselineIs
    <3>3. j \in DOMAIN outcomes /\ outcomes[j].policy = "strict"
      BY <3>2 DEF Of
    <3>4. FromItsTurn(i) /\ FromItsTurn(j)
      BY <1>1, <3>1, <3>3 DEF IInv
    <3>5. outcomes[j].attempt = outcomes[i].attempt
      BY <1>1, <3>2, <3>4 DEF FromItsTurn, KeyOf, OncePerModel
    <3>6. ~outcomes[j].changed
      BY <3>3, <3>4, ExtractIs DEF FromItsTurn
    <3>7. outcomes[i].passed # outcomes[j].passed
      BY <3>1, <3>2
    <3>8. outcomes[i].fault = "test_crash" \/ outcomes[j].fault = "test_crash"
      BY <1>1, <2>2, <3>1, <3>3, <3>5, <3>6, <3>7, SameFilesSameVerdict
    <3> QED BY <3>1, <3>3, <3>5, <3>8
  <2>3. \A policy \in ToSet(Wanted), verdict \in BOOLEAN : \A i \in Flipped(policy, verdict) :
           \/ outcomes[i].changed
           \/ \E j \in DOMAIN outcomes : /\ outcomes[j].attempt = outcomes[i].attempt
                                         /\ outcomes[j].fault = "test_crash"
    BY <2>2
  <2> QED BY <2>1, <2>3 DEF FlipsComeFromChanges
<1> QED BY <1>1, Invariant, PTL

(* No policy is named twice in --policies.                                   *)
PoliciesDiffer == \A v, w \in DOMAIN Wanted : Wanted[v] = Wanted[w] => v = w

(* Once it is done, each policy has one outcome for each replayed attempt.   *)
LEMMA OneOutcomeEach ==
    ASSUME IInv, stage = "reported", PoliciesDiffer, NEW p \in ToSet(Wanted)
    PROVE  /\ Of(p) \in SUBSET DOMAIN outcomes
           /\ \A i \in Of(p) : outcomes[i].attempt \in Replayed
           /\ \A i, j \in Of(p) : outcomes[i].attempt = outcomes[j].attempt => i = j
           /\ \A a \in Replayed : \E i \in Of(p) : outcomes[i].attempt = a
<1> DEFINE n == Cardinality(Replayed)
           w == Len(Wanted)
<1>1. /\ n \in Nat /\ w \in Nat /\ DOMAIN Wanted = 1 .. w
      /\ DOMAIN outcomes = 1 .. n * w
  BY ReplayedIs, OutcomesAre DEF IInv, Turns
<1>2. Of(p) \in SUBSET DOMAIN outcomes /\ \A i \in Of(p) : FromItsTurn(i) /\ outcomes[i].policy = p
  BY DEF Of, IInv
<1>3. \A i \in Of(p) : /\ outcomes[i].attempt \in Replayed
                       /\ PlaceOf(outcomes[i].attempt) = (i - 1) % n
                       /\ Wanted[((i - 1) \div n) + 1] = p
  BY <1>2 DEF FromItsTurn
<1> HIDE DEF n, w
<1>4. \A i \in DOMAIN outcomes : i \in Nat /\ i - 1 \in Nat /\ i - 1 < n * w /\ n \in Nat \ {0}
  <2> SUFFICES ASSUME NEW i \in DOMAIN outcomes
               PROVE  i \in Nat /\ i - 1 \in Nat /\ i - 1 < n * w /\ n \in Nat \ {0}
    OBVIOUS
  <2>1. n * w \in Nat /\ (n = 0 => n * w = 0)
    BY <1>1
  <2> QED BY <1>1, <2>1
<1>5. ASSUME NEW i \in Of(p), NEW j \in Of(p), outcomes[i].attempt = outcomes[j].attempt
      PROVE  i = j
  <2> DEFINE k == i - 1
             l == j - 1
  <2>1. k \in Nat /\ k < n * w /\ l \in Nat /\ l < n * w /\ n \in Nat \ {0} /\ i \in Nat /\ j \in Nat
    BY <1>2, <1>4
  <2>2. k % n = l % n /\ Wanted[(k \div n) + 1] = Wanted[(l \div n) + 1]
    BY <1>3, <1>5
  <2> HIDE DEF k, l
  <2>3. (k \div n) + 1 \in DOMAIN Wanted /\ (l \div n) + 1 \in DOMAIN Wanted
    <3>1. k \div n \in Nat /\ l \div n \in Nat
      BY <2>1, Divide
    <3>2. k \div n < w /\ l \div n < w
      BY <1>1, <2>1, QuotientBelow
    <3> QED BY <1>1, <3>1, <3>2
  <2>4. (k \div n) + 1 = (l \div n) + 1
    BY <2>2, <2>3 DEF PoliciesDiffer
  <2>5. k \div n = l \div n
    BY <2>1, <2>4, Divide
  <2>6. k = n * (k \div n) + (k % n) /\ l = n * (l \div n) + (l % n)
    BY <2>1, Divide
  <2>7. k = l
    BY <2>2, <2>5, <2>6
  <2> QED BY <2>1, <2>7 DEF k, l
<1>6. ASSUME NEW a \in Replayed
      PROVE  \E i \in Of(p) : outcomes[i].attempt = a
  <2> DEFINE r == PlaceOf(a)
  <2>1. r \in 0 .. n - 1
    BY PlacesAre DEF n
  <2>2. PICK v \in 1 .. w : Wanted[v] = p
    BY <1>1 DEF ToSet
  <2> DEFINE k == n * (v - 1) + r
  <2>3. k \in Nat /\ k < n * w /\ n \in Nat \ {0} /\ v - 1 \in Nat
    <3> HIDE DEF r
    <3>1. v - 1 \in Nat /\ v \in Nat /\ v <= w
      BY <1>1
    <3>2. n * v <= n * w /\ n * v \in Nat /\ n * w \in Nat
      BY <1>1, <3>1, TimesGrows
    <3>3. n * (v - 1) \in Nat /\ n * v = n * (v - 1) + n
      BY <1>1, <3>1
    <3>4. r \in Nat /\ r < n
      BY <1>1, <2>1
    <3> QED BY <1>1, <3>1, <3>2, <3>3, <3>4
  <2> HIDE DEF r
  <2>4. k \div n = v - 1 /\ k % n = r
    <3>1. n * (k \div n) + (k % n) = n * (v - 1) + r /\ k \div n \in Nat /\ k % n \in 0 .. n - 1
      <4>1. k = n * (k \div n) + (k % n) /\ k \div n \in Nat /\ k % n \in 0 .. n - 1
        <5> HIDE DEF k
        <5> QED BY <2>3, Divide
      <4> QED BY <4>1
    <3> HIDE DEF k
    <3> QED BY <2>1, <2>3, <3>1, SameQuotient
  <2> HIDE DEF k
  <2> DEFINE i == k + 1
  <2>5. i \in DOMAIN outcomes /\ i - 1 = k
    <3>1. n * w \in Nat
      BY <1>1
    <3> QED BY <1>1, <2>3, <3>1
  <2>6. FromItsTurn(i)
    BY <2>5 DEF IInv
  <2>7. /\ outcomes[i].policy = Wanted[(k \div n) + 1]
        /\ outcomes[i].attempt \in Replayed
        /\ PlaceOf(outcomes[i].attempt) = k % n
    <3> HIDE DEF i
    <3> QED BY <2>5, <2>6 DEF FromItsTurn, n
  <2>8. (k \div n) + 1 = v
    BY <2>3, <2>4
  <2>9. outcomes[i].policy = p /\ outcomes[i].attempt = a
    BY <2>2, <2>4, <2>7, <2>8, PlacesAre DEF r
  <2> QED BY <2>5, <2>9 DEF Of
<1> QED BY <1>2, <1>3, <1>5, <1>6

LEMMA SameSize ==
    ASSUME NEW S, IsFiniteSet(S), NEW T, NEW f \in [S -> T],
           \A x, y \in S : f[x] = f[y] => x = y,
           \A t \in T : \E x \in S : f[x] = t
    PROVE  Cardinality(T) = Cardinality(S) /\ IsFiniteSet(T)
<1>1. f \in Surjection(S, T) /\ f \in Injection(S, T)
  BY DEF Surjection, Injection, IsInjective
<1> QED BY <1>1, FS_Surjection

\* The attempts that passed under a policy.
Won(p) == {a \in Replayed : \E i \in Of(p) : outcomes[i].attempt = a /\ outcomes[i].passed}

LEMMA PassedIs ==
    ASSUME IInv, stage = "reported", PoliciesDiffer, NEW p \in ToSet(Wanted)
    PROVE  Passed(p) = Cardinality(Won(p))
<1> DEFINE S == {i \in Of(p) : outcomes[i].passed}
           f == [i \in S |-> outcomes[i].attempt]
<1>1. f \in [S -> Won(p)]
  BY OneOutcomeEach DEF Won
<1>2. \A x, y \in S : f[x] = f[y] => x = y
  BY OneOutcomeEach
<1>3. \A t \in Won(p) : \E x \in S : f[x] = t
  BY DEF Won
<1>4. IsFiniteSet(S)
  BY OneOutcomeEach, OutcomesAre
<1>5. Cardinality(Won(p)) = Cardinality(S)
  <2> HIDE DEF S, f
  <2> QED BY <1>1, <1>2, <1>3, <1>4, SameSize
<1> QED BY <1>5 DEF Passed

LEMMA BaselineWon ==
    ASSUME IInv, stage = "reported", PoliciesDiffer, OncePerModel, "strict" \in ToSet(Wanted)
    PROVE  /\ \A a \in Replayed : /\ Key(a) \in BaselineKeys
                                  /\ Baseline[Key(a)] \in BOOLEAN
                                  /\ Baseline[Key(a)] <=> a \in Won("strict")
           /\ \A k \in BaselineKeys : \E a \in Replayed : k = Key(a)
           /\ BasePassed = Cardinality(Won("strict"))
<1>1. \A k \in BaselineKeys : \E a \in Replayed : k = Key(a)
  BY OneOutcomeEach DEF BaselineKeys, KeyOf
<1>2. ASSUME NEW a \in Replayed
      PROVE  /\ Key(a) \in BaselineKeys
             /\ Baseline[Key(a)] \in BOOLEAN
             /\ Baseline[Key(a)] <=> a \in Won("strict")
  <2>1. PICK i \in Of("strict") : outcomes[i].attempt = a
    BY OneOutcomeEach
  <2>2. Key(a) \in BaselineKeys
    BY <2>1 DEF BaselineKeys, KeyOf
  <2>3. PICK j \in Of("strict") : KeyOf(j) = Key(a) /\ Baseline[Key(a)] = outcomes[j].passed
    BY <2>2, BaselineIs
  <2>4. outcomes[j].attempt = a
    BY <2>3, OneOutcomeEach DEF KeyOf, OncePerModel
  <2>5. outcomes[j].passed \in BOOLEAN
    <3>1. FromItsTurn(j)
      BY <2>3 DEF IInv, Of
    <3> QED BY <3>1 DEF FromItsTurn
  <2>6. \A k \in Of("strict") : outcomes[k].attempt = a => k = j
    BY <2>3, <2>4, OneOutcomeEach
  <2>7. outcomes[j].passed <=> a \in Won("strict")
    BY <2>3, <2>4, <2>6 DEF Won
  <2> QED BY <2>2, <2>3, <2>5, <2>7
<1>3. BasePassed = Cardinality(Won("strict"))
  <2> DEFINE T == {k \in DOMAIN Baseline : Baseline[k]}
             f == [a \in Won("strict") |-> Key(a)]
  <2>1. \A a \in Won("strict") : a \in Replayed
    BY DEF Won
  <2>2. f \in [Won("strict") -> T]
    BY <1>2, <2>1, BaselineIs
  <2>3. \A x, y \in Won("strict") : f[x] = f[y] => x = y
    BY <2>1 DEF OncePerModel
  <2>4. \A t \in T : \E x \in Won("strict") : f[x] = t
    <3> SUFFICES ASSUME NEW t \in T PROVE \E x \in Won("strict") : f[x] = t
      OBVIOUS
    <3>1. t \in BaselineKeys /\ Baseline[t]
      BY BaselineIs
    <3>2. PICK a \in Replayed : t = Key(a)
      BY <1>1, <3>1
    <3> QED BY <1>2, <3>1, <3>2
  <2>5. IsFiniteSet(Won("strict"))
    BY <2>1, ReplayedIs
  <2>6. Cardinality(T) = Cardinality(Won("strict"))
    <3> HIDE DEF T, f
    <3> QED BY <2>2, <2>3, <2>4, <2>5, SameSize
  <2> QED BY <2>6 DEF BasePassed
<1> QED BY <1>1, <1>2, <1>3

LEMMA FlippedIs ==
    ASSUME IInv, stage = "reported", PoliciesDiffer, OncePerModel, "strict" \in ToSet(Wanted),
           NEW p \in ToSet(Wanted)
    PROVE  /\ Cardinality(Flipped(p, TRUE)) = Cardinality(Won(p) \ Won("strict"))
           /\ Cardinality(Flipped(p, FALSE)) = Cardinality(Won("strict") \ Won(p))
<1>1. \A i \in Of(p) : outcomes[i].passed \in BOOLEAN
  <2>1. \A i \in Of(p) : FromItsTurn(i)
    BY OneOutcomeEach DEF IInv
  <2> QED BY <2>1 DEF FromItsTurn
<1>2. \A i \in Of(p) : outcomes[i].passed <=> outcomes[i].attempt \in Won(p)
  BY OneOutcomeEach DEF Won
<1>3. \A i \in Of(p) : /\ KeyOf(i) \in DOMAIN Baseline
                       /\ Baseline[KeyOf(i)] \in BOOLEAN
                       /\ Baseline[KeyOf(i)] <=> outcomes[i].attempt \in Won("strict")
  BY OneOutcomeEach, BaselineWon, BaselineIs DEF KeyOf
<1>4. Won(p) \in SUBSET Replayed /\ Won("strict") \in SUBSET Replayed
  BY DEF Won
<1>5. ASSUME NEW verdict \in BOOLEAN, NEW T \in SUBSET Replayed,
             \A i \in Of(p) : i \in Flipped(p, verdict) <=> outcomes[i].attempt \in T
      PROVE  Cardinality(Flipped(p, verdict)) = Cardinality(T)
  <2> DEFINE S == Flipped(p, verdict)
             f == [i \in S |-> outcomes[i].attempt]
  <2>1. S \in SUBSET Of(p)
    BY DEF Flipped
  <2>2. f \in [S -> T]
    BY <1>5, <2>1
  <2>3. \A x, y \in S : f[x] = f[y] => x = y
    BY <2>1, OneOutcomeEach
  <2>4. \A t \in T : \E x \in S : f[x] = t
    BY <1>5, OneOutcomeEach
  <2>5. IsFiniteSet(S)
    BY <2>1, OneOutcomeEach, OutcomesAre
  <2>6. Cardinality(T) = Cardinality(S)
    <3> HIDE DEF S, f
    <3> QED BY <2>2, <2>3, <2>4, <2>5, SameSize
  <2> QED BY <2>6
<1>6. \A i \in Of(p) : i \in Flipped(p, TRUE) <=> outcomes[i].attempt \in Won(p) \ Won("strict")
  BY <1>1, <1>2, <1>3 DEF Flipped
<1>7. \A i \in Of(p) : i \in Flipped(p, FALSE) <=> outcomes[i].attempt \in Won("strict") \ Won(p)
  BY <1>1, <1>2, <1>3 DEF Flipped
<1>8. Won(p) \ Won("strict") \in SUBSET Replayed /\ Won("strict") \ Won(p) \in SUBSET Replayed
  BY <1>4
<1> QED BY <1>5, <1>6, <1>7, <1>8

LEMMA DifferenceOfSizes ==
    ASSUME NEW A, IsFiniteSet(A), NEW B, IsFiniteSet(B)
    PROVE  Cardinality(A) - Cardinality(B) = Cardinality(A \ B) - Cardinality(B \ A)
<1>1. /\ Cardinality(A \ B) = Cardinality(A) - Cardinality(A \cap B)
      /\ Cardinality(B \ A) = Cardinality(B) - Cardinality(B \cap A)
  BY FS_Difference
<1>2. A \cap B = B \cap A
  OBVIOUS
<1>3. /\ Cardinality(A) \in Nat /\ Cardinality(B) \in Nat
      /\ Cardinality(A \cap B) \in Nat
  BY FS_CardinalityType, FS_Intersection
<1> QED BY <1>1, <1>2, <1>3

(* Where no task and model has two replies and no policy is named twice, the *)
(* delta that is printed is the difference of the attempts passed, and the   *)
(* attempts listed as recovered and broken account for it                    *)
(* (summarize_regrade).                                                      *)
THEOREM DeltaExplained == Spec => [](OncePerModel /\ PoliciesDiffer => DeltaIsDifference)
<1>1. ASSUME IInv, OncePerModel, PoliciesDiffer PROVE DeltaIsDifference
  <2> SUFFICES ASSUME stage = "reported", "strict" \in ToSet(Wanted), NEW p \in ToSet(Wanted)
               PROVE  /\ Delta(p) = Passed(p) - Passed("strict")
                      /\ Delta(p) = Cardinality(Flipped(p, TRUE)) - Cardinality(Flipped(p, FALSE))
    BY DEF DeltaIsDifference
  <2>1. Passed(p) = Cardinality(Won(p)) /\ Passed("strict") = Cardinality(Won("strict"))
    BY <1>1, PassedIs
  <2>2. BasePassed = Cardinality(Won("strict"))
    BY <1>1, BaselineWon
  <2>3. IsFiniteSet(Won(p)) /\ IsFiniteSet(Won("strict"))
    BY ReplayedIs DEF Won
  <2>4. Cardinality(Won(p)) - Cardinality(Won("strict"))
           = Cardinality(Flipped(p, TRUE)) - Cardinality(Flipped(p, FALSE))
    <3>1. Cardinality(Won(p)) - Cardinality(Won("strict"))
             = Cardinality(Won(p) \ Won("strict")) - Cardinality(Won("strict") \ Won(p))
      BY <2>3, DifferenceOfSizes
    <3>2. /\ Cardinality(Flipped(p, TRUE)) = Cardinality(Won(p) \ Won("strict"))
          /\ Cardinality(Flipped(p, FALSE)) = Cardinality(Won("strict") \ Won(p))
      BY <1>1, FlippedIs
    <3> QED BY <3>1, <3>2
  <2> QED BY <2>1, <2>2, <2>4 DEF Delta
<1>2. IInv => (OncePerModel /\ PoliciesDiffer => DeltaIsDifference)
  BY <1>1
<1> QED BY <1>2, Invariant, PTL
=============================================================================
