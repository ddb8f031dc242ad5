------------------------------ MODULE Regrade ------------------------------
(***************************************************************************)
(* `bench regrade`: the stored replies of unit_tests tasks are graded again *)
(* under alternative policies for picking the submitted files out of a      *)
(* reply, and each policy's verdicts are compared with those of `strict`.   *)
(*                                                                          *)
(* A reply is the sequence of its FILE markers and fenced blocks; a block's *)
(* body is a name, of which the policies see the size, the top-level        *)
(* definitions, the imports and whether it parses.  What the hidden tests   *)
(* say of a set of files is not known in advance but does not change.       *)
(***************************************************************************)
EXTENDS Integers, FiniteSets, SequencesExt

CONSTANTS Corpus,        \* the stored attempts: a sequence of [task, model]
          Stored,        \* the assignments of replies, or NoReply, to the attempts
          Wanted,        \* --policies
          TestPaths,     \* the paths whose name contains "test"
          Target,        \* task -> task.target_file, any path, also that of a test
          Fixture,       \* task -> task.files: path -> source
          Source,        \* body -> [size, defs, imports, parses]
          NoReply        \* row.answer is None or empty

Policies == {"strict", "largest_block", "concat_blocks", "splice"}

ASSUME RegradeAssumption ==
    /\ Corpus \in Seq(ToSet(Corpus))
    /\ Wanted \in Seq(Policies)

\* FILE_MARKER_RE matches no marker without a path.
ASSUME MarkersAssumption ==
    \A given \in Stored : \A i \in DOMAIN Corpus : given[i] # NoReply =>
        \A j \in DOMAIN given[i] : given[i][j].kind = "marker" => given[i][j].path # ""

VARIABLES stage,         \* where the command is
          replies,       \* the reply of each stored attempt, or NoReply
          outcomes,      \* the PolicyOutcomes so far
          known          \* what the hidden tests say of a task's files

vars == <<stage, replies, outcomes, known>>

-----------------------------------------------------------------------------
(* extract_file_blocks: a function from paths to bodies; "" is the block of *)
(* a reply that names no path.                                              *)

BlocksAt(reply) == {i \in DOMAIN reply : reply[i].kind = "block"}
Bodies(reply) == LET blocks == SelectSeq(reply, LAMBDA x : x.kind = "block")
                 IN  [i \in DOMAIN blocks |-> blocks[i].body]

\* `path=` in the info string of a fence; the last block of a path stays.
InfoFiles(reply) ==
    LET Naming(path) == {b \in BlocksAt(reply) : reply[b].path = path}
    IN  [path \in {reply[b].path : b \in BlocksAt(reply)} \ {""} |-> reply[Max(Naming(path))].body]

Later(reply, i) == {b \in BlocksAt(reply) : b > i}

\* Consumed(reply)[i]: the blocks taken by the markers up to the i-th item; each
\* takes the first that is left after it.
Consumed(reply) ==
    LET consumed[i \in 0 .. Len(reply)] ==
            IF i = 0 THEN {}
            ELSE LET free == Later(reply, i) \ consumed[i - 1]
                 IN  IF reply[i].kind = "marker" /\ free # {} THEN consumed[i - 1] \cup {Min(free)}
                     ELSE consumed[i - 1]
    IN  consumed

\* A marker for which a block is left names the body of the next block, taken or
\* not.  A marker inside the body of a block is not represented.
MarkedFiles(reply) ==
    LET paired == {i \in DOMAIN reply : /\ reply[i].kind = "marker"
                                        /\ Later(reply, i) \ Consumed(reply)[i - 1] # {}}
        LastOf(path) == Max({i \in paired : reply[i].path = path})
    IN  [path \in {reply[i].path : i \in paired} |->
            reply[Min(Later(reply, LastOf(path)))].body]

ExtractFileBlocks(reply) ==
    IF InfoFiles(reply) # << >> THEN InfoFiles(reply)
    ELSE IF MarkedFiles(reply) # << >> THEN MarkedFiles(reply)
    ELSE IF BlocksAt(reply) # {} THEN [path \in {""} |-> Head(Bodies(reply))]
    ELSE << >>

-----------------------------------------------------------------------------
(* extract_with_policy: [files, changed].                                   *)

Unmarked(reply) == DOMAIN ExtractFileBlocks(reply) = {""}

Block(body) == <<"block", body>>

\* Mutant of Strict: files with the name of a test are kept.
StrictKeepingTests(task, reply) ==
    LET raw == ExtractFileBlocks(reply)
        Named(p) == IF p = "" THEN Target[task] ELSE p
    IN  [p \in {Named(q) : q \in DOMAIN raw} |->
            Block(raw[CHOOSE q \in DOMAIN raw : Named(q) = p])]

Strict(task, reply) ==
    LET raw == ExtractFileBlocks(reply)
        Named(p) == IF p = "" THEN Target[task] ELSE p
    IN  [p \in {Named(q) : q \in DOMAIN raw} \ TestPaths |->
            Block(raw[CHOOSE q \in DOMAIN raw : Named(q) = p])]

Largest(reply) ==
    LET bodies == Bodies(reply)
        Size(i) == Source[bodies[i]].size
        FirstLargest(i) == \A j \in DOMAIN bodies : /\ Size(j) <= Size(i)
                                                    /\ j < i => Size(j) < Size(i)
    IN  Block(bodies[CHOOSE i \in DOMAIN bodies : FirstLargest(i)])

\* splice_fragment returns a merged source, and not None.
Splices(original, body) ==
    /\ original.parses /\ Source[body].parses
    /\ Source[body].defs \cap original.defs # {}
    /\ \/ original.defs \ Source[body].defs # {}
       \/ original.imports /\ ~Source[body].imports

SplicedPaths(task, files) ==
    {p \in DOMAIN files \cap DOMAIN Fixture[task] : Splices(Fixture[task][p], files[p][2])}

Spliced(task, files) ==
    [p \in DOMAIN files |-> IF p \in SplicedPaths(task, files) THEN <<"spliced", files[p][2]>>
                            ELSE files[p]]

Submission(files, changed) == [files |-> files, changed |-> changed]

\* Mutant of Extract: the largest block counts as a change even when it is the
\* first.
ExtractOverstating(task, reply, policy) ==
    LET files == Strict(task, reply)
        several == Unmarked(reply) /\ Len(Bodies(reply)) >= 2
    IN  CASE policy = "largest_block" /\ several ->
                Submission([p \in {Target[task]} |-> Largest(reply)], TRUE)
          [] policy = "concat_blocks" /\ several ->
                Submission([p \in {Target[task]} |-> <<"joined", Bodies(reply)>>], TRUE)
          [] policy = "splice" -> Submission(Spliced(task, files), SplicedPaths(task, files) # {})
          [] OTHER -> Submission(files, FALSE)

Extract(task, reply, policy) ==
    LET files == Strict(task, reply)
        several == Unmarked(reply) /\ Len(Bodies(reply)) >= 2
    IN  CASE policy = "largest_block" /\ several ->
                LET best == Largest(reply)
                IN  Submission([p \in {Target[task]} |-> best],
                               files = << >> \/ best # files[Target[task]])
          [] policy = "concat_blocks" /\ several ->
                Submission([p \in {Target[task]} |-> <<"joined", Bodies(reply)>>], TRUE)
          [] policy = "splice" -> Submission(Spliced(task, files), SplicedPaths(task, files) # {})
          [] OTHER -> Submission(files, FALSE)

-----------------------------------------------------------------------------
(* What `bench run` does with the same reply.                               *)

\* grade_unit_tests: the writes over the seed files.
ShippedWrites(task, reply) ==
    LET blocks == ExtractFileBlocks(reply)
        PathOf(rel) == IF rel = "" THEN Target[task] ELSE rel
        written == {rel \in DOMAIN blocks : PathOf(rel) \notin TestPaths}
    IN  {<<PathOf(rel), Block(blocks[rel])>> : rel \in written}

-----------------------------------------------------------------------------
(* The command: collect the corpus, grade it policy by policy, report.      *)

Attempts == 1 .. Len(Corpus)

\* Attempts without a stored reply cannot be replayed.
Replayed == {i \in Attempts : replies[i] # NoReply}

\* The place of an attempt in the corpus that is replayed.
PlaceOf(i) == Cardinality({j \in Replayed : j < i})

\* for policy in wanted: for attempt in corpus
Turns == Cardinality(Replayed) * Len(Wanted)

Init == /\ stage = "grading"
        /\ replies \in Stored
        /\ outcomes = <<>>
        /\ known = {}

\* The policy and the attempt of the next regrade_attempt.
TurnPolicy == Wanted[(Len(outcomes) \div Cardinality(Replayed)) + 1]
TurnAttempt == CHOOSE i \in Replayed : PlaceOf(i) = Len(outcomes) % Cardinality(Replayed)

Outcome(policy, attempt, submission, passed, fault) ==
    [policy |-> policy, attempt |-> attempt, passed |-> passed, fault |-> fault,
     changed |-> submission.changed, files |-> submission.files]

\* regrade_attempt: malformed, timed out, or what the tests say of the files.
RegradeAttempt ==
    /\ stage = "grading"
    /\ Len(outcomes) < Turns
    /\ LET i == TurnAttempt
           submission == Extract(Corpus[i].task, replies[i], TurnPolicy)
           Graded(passed, fault) ==
               outcomes' = Append(outcomes, Outcome(TurnPolicy, i, submission, passed, fault))
           case == <<Corpus[i].task, submission.files>>
       IN  \/ /\ submission.files = << >>
              /\ Graded(FALSE, "malformed_submission")
              /\ UNCHANGED known
           \/ /\ submission.files # << >>
              /\ \/ Graded(FALSE, "test_crash") /\ UNCHANGED known
                 \/ \E passed \in BOOLEAN :
                       /\ <<case, ~passed>> \notin known
                       /\ known' = known \cup {<<case, passed>>}
                       /\ Graded(passed, "none")
    /\ UNCHANGED <<stage, replies>>

\* A file that cannot be written, a sandbox that cannot be made: the command
\* ends with a traceback and reports nothing.
RegradeRaises ==
    /\ stage = "grading"
    /\ Len(outcomes) < Turns
    /\ stage' = "raised"
    /\ UNCHANGED <<replies, outcomes, known>>

-----------------------------------------------------------------------------
(* summarize_regrade.                                                       *)

Key(i) == <<Corpus[i].task, Corpus[i].model>>
Of(policy) == {i \in DOMAIN outcomes : outcomes[i].policy = policy}
Passed(policy) == Cardinality({i \in Of(policy) : outcomes[i].passed})

KeyOf(i) == Key(outcomes[i].attempt)
BaselineKeys == {KeyOf(i) : i \in Of("strict")}

\* Mutant of Baseline: looked up by the task alone, the first outcome standing
\* for every model.
BaselineByTask ==
    [k \in BaselineKeys |-> outcomes[Min({i \in Of("strict") : KeyOf(i)[1] = k[1]})].passed]

\* {(task_id, model): passed}; a later outcome replaces an earlier one.
Baseline ==
    [k \in BaselineKeys |-> outcomes[Max({i \in Of("strict") : KeyOf(i) = k})].passed]

BaseN == Cardinality(DOMAIN Baseline)
BasePassed == Cardinality({k \in DOMAIN Baseline : Baseline[k]})

\* The numerator of delta_vs_baseline; its denominator is BaseN.
Delta(policy) == Passed(policy) - BasePassed

Flipped(policy, verdict) ==
    {i \in Of(policy) : /\ outcomes[i].passed = verdict
                        /\ KeyOf(i) \in DOMAIN Baseline
                        /\ Baseline[KeyOf(i)] = ~verdict}

Crashes == /\ BaseN = 0
           /\ \E i \in DOMAIN Wanted : Wanted[i] # "strict" /\ Of(Wanted[i]) # {}

\* The table: a delta that is None cannot be formatted, and the JSON report is
\* written only after the table.
Report ==
    /\ stage = "grading"
    /\ Len(outcomes) = Turns
    /\ stage' = IF Crashes THEN "crashed" ELSE "reported"
    /\ UNCHANGED <<replies, outcomes, known>>

Ended == stage # "grading" /\ UNCHANGED vars

Next == RegradeAttempt \/ RegradeRaises \/ Report \/ Ended

Spec == Init /\ [][Next]_vars

-----------------------------------------------------------------------------
(* Properties.                                                              *)

(* "A policy that never changes the submission cannot explain a score        *)
(* difference": a flipped verdict belongs to a submission that was changed,  *)
(* and a change is claimed only where the files differ (the flag that        *)
(* extract_with_policy returns).                                             *)
FlipsComeFromChanges ==
    /\ \A policy \in ToSet(Wanted), verdict \in BOOLEAN :
          \A i \in Flipped(policy, verdict) :
             \/ outcomes[i].changed
             \/ \E j \in DOMAIN outcomes : /\ outcomes[j].attempt = outcomes[i].attempt
                                           /\ outcomes[j].fault = "test_crash"
    /\ \A i \in DOMAIN outcomes :
          LET attempt == outcomes[i].attempt
          IN  outcomes[i].changed <=>
                 outcomes[i].files # Strict(Corpus[attempt].task, replies[attempt])

(* "The shipped behaviour, reproduced exactly": the files that `strict`      *)
(* writes are those that grade_unit_tests, which has its own loop over the   *)
(* blocks, wrote when the run was graded; where both write nothing, the run  *)
(* was still graded on the seed files and `strict` counts it malformed.      *)
StrictIsShipped ==
    \A i \in Of("strict") :
        LET attempt == outcomes[i].attempt
            files == outcomes[i].files
        IN  {<<p, files[p]>> : p \in DOMAIN files}
              = ShippedWrites(Corpus[attempt].task, replies[attempt])

(* The reported delta is the difference of the two pass rates over the       *)
(* attempts, and the attempts named as flipped account for it                *)
(* (summarize_regrade).                                                      *)
DeltaIsDifference ==
    (stage = "reported" /\ "strict" \in ToSet(Wanted)) =>
        \A policy \in ToSet(Wanted) :
           /\ Delta(policy) = Passed(policy) - Passed("strict")
           /\ Delta(policy) = Cardinality(Flipped(policy, TRUE))
                              - Cardinality(Flipped(policy, FALSE))

(* The baseline differs from itself by nothing, which tests/test_regrade.py  *)
(* asserts of `delta_vs_baseline` (summarize_regrade).                       *)
BaselineDeltaZero ==
    (stage = "reported" /\ "strict" \in ToSet(Wanted)) => Delta("strict") = 0
=============================================================================
