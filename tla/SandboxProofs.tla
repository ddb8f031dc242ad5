---------------------------- MODULE SandboxProofs ----------------------------
(* Proofs about Sandbox for any limits, helper processes and signals.        *)
EXTENDS Sandbox, TLAPS

(* From the end of the tests on the verdict agrees with how the test process *)
(* ended, which nothing changes any more.                                    *)
VerdictOfTests ==
    (step \in {"leaving", "cleanup", "over"} /\ verdict.fault \in {"none", "test_crash"}) =>
        /\ child \in Ended
        /\ verdict.passed => child = "zero"
        /\ child = "zero" => verdict.passed \/ verdict.fault = "test_crash"

(* The tests and the guard directory while the grader waits.                 *)
Waiting == /\ step = "waiting" => child # "none"
           /\ guard => step \in {"waiting", "leaving", "cleanup", "over"}
           /\ child = "running" => step = "waiting" \/ signals >= 2

(* A guard directory that is left has a cause, and its attempt is marked.    *)
Started == \E h \in Helpers : helpers[h] # "unborn"
GuardLeft ==
    (guard /\ step \in {"cleanup", "over"}) =>
        /\ verdict.fault \in {"grader_error", "undecided"}
        /\ Started \/ signals >= 2

IInv == TypeOK /\ VerdictOfTests /\ Waiting /\ GuardLeft

LEMMA VerdictTyped ==
    ASSUME NEW passed \in BOOLEAN,
           NEW fault \in {"undecided", "none", "test_crash", "malformed_submission", "grader_error"}
    PROVE  /\ Verdict(passed, fault) \in
                 [passed : BOOLEAN,
                  fault : {"undecided", "none", "test_crash",
                           "malformed_submission", "grader_error"}]
           /\ Verdict(passed, fault).passed = passed
           /\ Verdict(passed, fault).fault = fault
BY DEF Verdict

LEMMA InitIInv == Init => IInv
<1> SUFFICES ASSUME Init PROVE IInv
  OBVIOUS
<1>1. 0 \in 0 .. WallCap /\ 0 \in 0 .. ConfigCap /\ 0 \in 0 .. MaxSignals
  BY SandboxAssumption
<1>2. verdict = Verdict(FALSE, "undecided")
  BY DEF Init, Undecided, Verdict
<1>3. TypeOK
  BY <1>1, <1>2, VerdictTyped DEF Init, TypeOK
<1> QED BY <1>3 DEF Init, IInv, VerdictOfTests, Waiting, GuardLeft

(* What the grader does between two waits.                                   *)
LEMMA GraderIInv ==
    ASSUME IInv, Grader
    PROVE  IInv'
<1> USE DEF IInv, process
<1>1. CASE Provision \/ Submit
  <2>1. \/ verdict' = verdict /\ step' \in {"extracting", "spawning"}
        \/ /\ verdict' \in {Verdict(FALSE, "malformed_submission"), Verdict(FALSE, "grader_error")}
           /\ step' \in {"cleanup", "leaked"}
    BY <1>1 DEF Provision, Submit
  <2>2. UNCHANGED <<elapsed, cpu, child, helpers, sealed, guard, signals>> /\ ~guard
        /\ step # "waiting" /\ workspace' \in BOOLEAN
    BY <1>1 DEF Provision, Submit, TypeOK, Waiting
  <2>3. TypeOK'
    BY <2>1, <2>2, VerdictTyped DEF TypeOK
  <2>4. VerdictOfTests'
    BY <2>1, VerdictTyped DEF VerdictOfTests
  <2> QED BY <2>1, <2>2, <2>3, <2>4 DEF Waiting, GuardLeft
<1>2. CASE SpawnFails
  <2>1. /\ UNCHANGED <<elapsed, cpu, child, helpers, sealed, workspace, signals>>
        /\ step = "spawning" /\ ~guard
        /\ verdict' = Verdict(FALSE, "grader_error")
        /\ \/ step' = "cleanup" /\ guard' = guard
           \/ step' = "leaving" /\ guard' = TRUE
    BY <1>2 DEF SpawnFails, Waiting
  <2>2. TypeOK'
    BY <2>1, VerdictTyped DEF TypeOK
  <2>3. VerdictOfTests'
    BY <2>1, VerdictTyped DEF VerdictOfTests
  <2> QED BY <2>1, <2>2, <2>3 DEF Waiting, GuardLeft, TypeOK
<1>3. CASE Spawn
  <2>1. TypeOK'
    BY <1>3 DEF TypeOK, Spawn
  <2> QED BY <1>3, <2>1 DEF VerdictOfTests, Waiting, GuardLeft, Spawn
<1>4. CASE Finish
  <2>1. /\ child \in Ended /\ UNCHANGED <<elapsed, cpu, child, helpers, sealed, guard, workspace, signals>>
        /\ step' = "leaving"
    BY <1>4 DEF TypeOK, Finish, PipesOpen, Waiting
  <2>2. PICK passed \in BOOLEAN, fault \in {"none", "grader_error"} :
           /\ verdict' = Verdict(passed, fault)
           /\ fault = "none" => (passed <=> child = "zero")
    <3>1. CASE verdict' = Verdict(FALSE, "grader_error")
      BY <3>1
    <3>2. CASE verdict' = Verdict(child = "zero", "none") /\ child = "zero"
      BY <3>2 DEF Verdict
    <3>3. CASE verdict' = Verdict(child = "zero", "none") /\ child # "zero"
      BY <3>3 DEF Verdict
    <3> QED BY <1>4, <3>1, <3>2, <3>3 DEF Finish
  <2>3. /\ verdict' \in [passed : BOOLEAN,
                         fault : {"undecided", "none", "test_crash",
                                  "malformed_submission", "grader_error"}]
        /\ verdict'.passed = passed /\ verdict'.fault = fault
    BY <2>2, VerdictTyped
  <2>4. TypeOK'
    BY <2>1, <2>3 DEF TypeOK
  <2>5. VerdictOfTests'
    BY <2>1, <2>2, <2>3 DEF VerdictOfTests
  <2> QED BY <2>1, <2>4, <2>5 DEF Waiting, GuardLeft, Ended
<1>5. CASE Expire
  <2>1. child' \in Ended /\ verdict' = Verdict(FALSE, "test_crash")
    BY <1>5 DEF TypeOK, Expire, Ended, Waiting
  <2>2. TypeOK'
    BY <1>5, <2>1, VerdictTyped DEF TypeOK, Expire
  <2>3. VerdictOfTests'
    BY <2>1, VerdictTyped DEF VerdictOfTests
  <2> QED BY <1>5, <2>1, <2>2, <2>3 DEF Waiting, GuardLeft, Expire, Ended
<1>6. CASE Leave
  <2>1. /\ UNCHANGED <<elapsed, cpu, child, helpers, sealed, workspace, signals>>
        /\ step = "leaving" /\ step' = "cleanup"
    BY <1>6 DEF Leave
  <2>2. CASE guard' = FALSE /\ UNCHANGED verdict
    BY <2>1, <2>2 DEF TypeOK, VerdictOfTests, Waiting, GuardLeft
  <2>3. CASE Writing /\ UNCHANGED guard /\ verdict' = Verdict(FALSE, "grader_error")
    <3>1. Started \/ signals >= 2
      BY <2>1, <2>3 DEF Writing, Alive, Started, Waiting
    <3>2. TypeOK'
      BY <2>1, <2>3, VerdictTyped DEF TypeOK
    <3>3. VerdictOfTests' /\ GuardLeft'
      BY <2>1, <2>3, <3>1, VerdictTyped DEF VerdictOfTests, GuardLeft, Started
    <3> QED BY <2>1, <2>3, <3>2, <3>3 DEF Waiting
  <2> QED BY <1>6, <2>2, <2>3 DEF Leave
<1>7. CASE Cleanup
  <2>1. TypeOK'
    BY <1>7 DEF TypeOK, Cleanup
  <2> QED BY <1>7, <2>1 DEF VerdictOfTests, Waiting, GuardLeft, Started, Cleanup
<1> QED BY <1>1, <1>2, <1>3, <1>4, <1>5, <1>6, <1>7 DEF Grader

(* Once it has ended the test process cannot end in another way, and a helper *)
(* that was born stays born.                                                 *)
LEMMA SubmissionIInv ==
    ASSUME IInv, Tick \/ OverCpu \/ Submission
    PROVE  IInv'
<1> USE DEF IInv
<1>1. UNCHANGED <<step, guard, workspace, signals, verdict>>
  BY DEF Tick, OverCpu, Submission, ChildExits, HelperStarts, HelperEnds, Seal
<1>2. /\ child' # child => child = "running" /\ child' \in Ended
      /\ elapsed' \in 0 .. WallCap /\ cpu' \in 0 .. ConfigCap /\ sealed' \in BOOLEAN
      /\ helpers' \in [Helpers -> {"unborn", "holding", "detached", "gone"}]
      /\ \A h \in Helpers : helpers[h] # "unborn" => helpers'[h] # "unborn"
  <2>1. CASE Tick
    BY <2>1, SandboxAssumption DEF Tick, TypeOK
  <2>2. CASE OverCpu \/ ChildExits \/ Seal
    BY <2>2 DEF OverCpu, ChildExits, Seal, TypeOK, Ended
  <2>3. CASE \E h \in Helpers : HelperStarts(h) \/ HelperEnds(h)
    BY <2>3 DEF HelperStarts, HelperEnds, TypeOK
  <2> QED BY <2>1, <2>2, <2>3 DEF Submission
<1>3. TypeOK'
  BY <1>1, <1>2 DEF TypeOK
<1>4. VerdictOfTests' /\ Waiting'
  BY <1>1, <1>2 DEF VerdictOfTests, Waiting, Ended
<1>5. GuardLeft'
  BY <1>1, <1>2 DEF GuardLeft, Started
<1> QED BY <1>3, <1>4, <1>5

(* A later Ctrl-C leaves no verdict, and may leave a directory.              *)
LEMMA UserIInv ==
    ASSUME IInv, User
    PROVE  IInv'
<1> USE DEF IInv
<1>1. CASE FirstSignal
  <2>1. /\ UNCHANGED <<step, elapsed, cpu, helpers, guard, workspace, sealed, verdict>>
        /\ signals = 0 /\ signals' = 1 /\ 1 \in 0 .. MaxSignals
        /\ child' # child => child = "running" /\ child' = "signal"
    BY <1>1, SandboxAssumption DEF FirstSignal
  <2>2. TypeOK'
    BY <2>1 DEF TypeOK, Ended
  <2> QED BY <2>1, <2>2 DEF VerdictOfTests, Waiting, GuardLeft, Started, Ended
<1>2. CASE LaterSignal
  <2>1. /\ verdict' = Verdict(FALSE, "undecided")
        /\ signals' \in 0 .. MaxSignals /\ signals' >= 2
        /\ UNCHANGED <<elapsed, cpu, helpers, sealed>>
    BY <1>2, SandboxAssumption DEF LaterSignal, Undecided, Verdict
  <2>2. TypeOK'
    <3>1. /\ step' \in {"leaked", "cleanup", "leaving", "over"}
          /\ child' \in {child, "running", "killed"}
          /\ guard' \in BOOLEAN /\ workspace' \in BOOLEAN
      BY <1>2 DEF TypeOK, LaterSignal
    <3> QED BY <2>1, <3>1, VerdictTyped DEF TypeOK, Ended
  <2>3. VerdictOfTests' /\ GuardLeft'
    BY <2>1, VerdictTyped DEF VerdictOfTests, GuardLeft
  <2>4. step' # "waiting" /\ (guard' => step' \in {"leaving", "cleanup", "over"})
    BY <1>2 DEF LaterSignal, Waiting
  <2> QED BY <2>1, <2>2, <2>3, <2>4 DEF Waiting
<1> QED BY <1>1, <1>2 DEF User

LEMMA Invariant == Spec => []IInv
<1>1. IInv /\ [Next]_vars => IInv'
  <2> SUFFICES ASSUME IInv, [Next]_vars PROVE IInv'
    OBVIOUS
  <2>1. CASE UNCHANGED vars
    BY <2>1 DEF vars, IInv, TypeOK, VerdictOfTests, Waiting, GuardLeft, Started
  <2> QED BY <2>1, GraderIInv, SubmissionIInv, UserIInv DEF Next, Over
<1> QED BY <1>1, InitIInv, PTL DEF Spec

(* The limits are kept: no tick passes beyond them.                          *)
THEOREM TypeCorrect == Spec => []TypeOK
<1>1. IInv => TypeOK
  BY DEF IInv
<1> QED BY <1>1, Invariant, PTL

(* Whatever the submission does and however often Ctrl-C is pressed, tests   *)
(* that passed are no wrong answer (grade_unit_tests).                       *)
THEOREM PassingNeverCountsWrong == Spec => []PassingTestsNeverCountWrong
<1>1. IInv => PassingTestsNeverCountWrong
  BY DEF IInv, VerdictOfTests, PassingTestsNeverCountWrong
<1> QED BY <1>1, Invariant, PTL

(* A grading leaves the workspace only to a process that is still there, to  *)
(* a sealed tree or to an interrupted removal, and the guard directory only  *)
(* with an attempt that is marked, after a helper or a second Ctrl-C.        *)
THEOREM DirectoriesGo == Spec => DirectoriesRemoved
<1> DEFINE Accounted ==
              (step # "over" /\ step' = "over") =>
                  /\ workspace' => Writing \/ sealed \/ signals' # signals
                  /\ guard' => /\ verdict'.fault \in {"grader_error", "undecided"}
                               /\ (\E h \in Helpers : helpers[h] # "unborn") \/ signals' >= 2
<1>1. ASSUME IInv, [Next]_vars, step # "over", step' = "over"
      PROVE  Accounted
  <2>1. Cleanup \/ (LaterSignal /\ step = "cleanup")
    BY <1>1 DEF vars, Next, Grader, Provision, Submit, Spawn, SpawnFails, Finish, Expire, Leave,
                Tick, OverCpu, Submission, ChildExits, Seal, HelperStarts, HelperEnds,
                User, FirstSignal, LaterSignal, Over
  <2>2. CASE Cleanup
    <3>1. UNCHANGED <<guard, signals, verdict>> /\ step = "cleanup"
          /\ (workspace' => Writing \/ sealed)
      BY <2>2 DEF Cleanup
    <3> QED BY <1>1, <3>1 DEF IInv, GuardLeft, Started
  <2>3. CASE LaterSignal /\ step = "cleanup"
    <3>1. signals' # signals /\ signals' >= 2 /\ verdict'.fault = "undecided"
      BY <2>3, SandboxAssumption DEF LaterSignal, Undecided
    <3> QED BY <3>1
  <2> QED BY <2>1, <2>2, <2>3
<1>2. IInv /\ [Next]_vars => [Accounted]_vars
  BY <1>1
<1> QED BY <1>2, Invariant, PTL DEF Spec, DirectoriesRemoved
=============================================================================
