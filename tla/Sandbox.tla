------------------------------ MODULE Sandbox ------------------------------
(***************************************************************************)
(* Grading one reply of a unit_tests task: grade_unit_tests runs the       *)
(* hidden tests in a subprocess (SandboxExecutor.run) inside a workspace   *)
(* that _grade creates and removes.  Time is counted in ticks.  The        *)
(* submission is arbitrary code: it may finish, spin, ignore signals, and  *)
(* start helper processes that keep its output pipes open or not.          *)
(*                                                                         *)
(* BenchRun takes a grading as one step (GradeInSandbox); this module is   *)
(* that step seen from inside.                                             *)
(***************************************************************************)
EXTENDS Naturals

CONSTANTS WallCap,       \* min(task.timeout_s, 300)
          ConfigCap,     \* RunConfig.sandbox_timeout_s, which bounds the CPU time
          Helpers,       \* processes the submission may start
          MaxSignals     \* bound: how often Ctrl-C is pressed

ASSUME SandboxAssumption ==
    WallCap \in Nat \ {0} /\ ConfigCap \in Nat \ {0} /\ MaxSignals \in Nat

VARIABLES step,          \* where the grading is
          elapsed,       \* ticks since Popen
          cpu,           \* CPU ticks the test process has burnt
          child,         \* the test process, and how it ended
          helpers,       \* the processes it has started
          guard,         \* the oab-guard- directory is on disk
          workspace,     \* the oab-ws- directory is on disk
          sealed,        \* the submission made it one that cannot be removed
          signals,       \* Ctrl-C presses so far
          verdict        \* the GradeResult, or grader_error of run_attempt

vars == <<step, elapsed, cpu, child, helpers, guard, workspace, sealed, signals, verdict>>

Undecided == [passed |-> FALSE, fault |-> "undecided"]
Verdict(passed, fault) == [passed |-> passed, fault |-> fault]

Ended == {"zero", "nonzero", "limit", "signal", "killed"}

Alive == {h \in Helpers : helpers[h] \in {"holding", "detached"}}

\* A process of the submission can write to the directories.
Writing == child = "running" \/ Alive # {}

\* communicate() returns when every copy of the pipes is closed.
PipesOpen == child = "running" \/ \E h \in Helpers : helpers[h] = "holding"

Init == /\ step = "idle"
        /\ elapsed = 0
        /\ cpu = 0
        /\ child = "none"
        /\ helpers = [h \in Helpers |-> "unborn"]
        /\ guard = FALSE
        /\ workspace = FALSE
        /\ sealed = FALSE
        /\ signals = 0
        /\ verdict = Undecided

process == <<elapsed, cpu, child, helpers, sealed>>

-----------------------------------------------------------------------------
(* The grader.                                                             *)

\* SandboxWorkspace.create: a file that cannot be written raises before the
\* try of _grade, so nothing removes the directory.
Provision ==
    /\ step = "idle"
    /\ workspace' = TRUE
    /\ \/ step' = "extracting" /\ verdict' = verdict
       \/ step' = "leaked" /\ verdict' = Verdict(FALSE, "grader_error")
    /\ UNCHANGED <<process, guard, signals>>

\* Mutant of Submit: a reply without code returns before the try.
SubmitReturningEarly ==
    /\ step = "extracting"
    /\ \/ step' = "over" /\ verdict' = Verdict(FALSE, "malformed_submission")
       \/ step' = "cleanup" /\ verdict' = Verdict(FALSE, "grader_error")
       \/ step' = "spawning" /\ verdict' = verdict
    /\ UNCHANGED <<process, guard, workspace, signals>>

\* The reply has no fenced block, or its files are written; writing may raise.
Submit ==
    /\ step = "extracting"
    /\ \/ step' = "cleanup" /\ verdict' = Verdict(FALSE, "malformed_submission")
       \/ step' = "cleanup" /\ verdict' = Verdict(FALSE, "grader_error")
       \/ step' = "spawning" /\ verdict' = verdict
    /\ UNCHANGED <<process, guard, workspace, signals>>

\* The guard directory is made, then Popen starts pytest in the workspace.
Spawn ==
    /\ step = "spawning"
    /\ guard' = TRUE
    /\ child' = "running"
    /\ step' = "waiting"
    /\ UNCHANGED <<elapsed, cpu, helpers, workspace, sealed, signals, verdict>>

\* mkdtemp raises; or, with the guard directory there, write_text or Popen.
SpawnFails ==
    /\ step = "spawning"
    /\ \/ step' = "cleanup" /\ UNCHANGED guard
       \/ step' = "leaving" /\ guard' = TRUE
    /\ verdict' = Verdict(FALSE, "grader_error")
    /\ UNCHANGED <<process, workspace, signals>>

\* communicate() and wait() return: the exit code decides, unless the output
\* is no UTF-8 (text=True), which raises.
Finish ==
    /\ step = "waiting"
    /\ ~PipesOpen
    /\ step' = "leaving"
    /\ verdict' \in {Verdict(child = "zero", "none"), Verdict(FALSE, "grader_error")}
    /\ UNCHANGED <<process, guard, workspace, signals>>

\* Mutant of Expire: after the kill, wait for the pipes to be closed.
ExpireAwaitingPipes ==
    /\ step = "waiting"
    /\ elapsed = WallCap
    /\ \A h \in Helpers : helpers[h] # "holding"
    /\ child' = IF child = "running" THEN "killed" ELSE child
    /\ step' = "leaving"
    /\ verdict' = Verdict(FALSE, "test_crash")
    /\ UNCHANGED <<elapsed, cpu, helpers, guard, workspace, sealed, signals>>

\* Mutant of Expire: the fault is lost, a timeout is a wrong answer.
ExpireUntagged ==
    /\ step = "waiting"
    /\ elapsed = WallCap
    /\ child' = IF child = "running" THEN "killed" ELSE child
    /\ step' = "leaving"
    /\ verdict' = Verdict(FALSE, "none")
    /\ UNCHANGED <<elapsed, cpu, helpers, guard, workspace, sealed, signals>>

\* TimeoutExpired: subprocess.run kills the process it started and no other.
Expire ==
    /\ step = "waiting"
    /\ elapsed = WallCap
    /\ child' = IF child = "running" THEN "killed" ELSE child
    /\ step' = "leaving"
    /\ verdict' = Verdict(FALSE, "test_crash")
    /\ UNCHANGED <<elapsed, cpu, helpers, guard, workspace, sealed, signals>>

\* The with statement removes the guard directory.  TemporaryDirectory gives
\* itself what permissions it lacks; where a live process writes it may raise,
\* and that exception takes the place of the result, or of the one under way.
Leave ==
    /\ step = "leaving"
    /\ step' = "cleanup"
    /\ \/ guard' = FALSE /\ UNCHANGED verdict
       \/ Writing /\ UNCHANGED guard /\ verdict' = Verdict(FALSE, "grader_error")
    /\ UNCHANGED <<process, workspace, signals>>

\* rmtree(ignore_errors=True): what a live process writes to or the submission
\* has sealed may stay.
Cleanup ==
    /\ step = "cleanup"
    /\ workspace' \in IF Writing \/ sealed THEN BOOLEAN ELSE {FALSE}
    /\ step' = "over"
    /\ UNCHANGED <<process, guard, signals, verdict>>

-----------------------------------------------------------------------------
(* Time, the submission and the user.                                      *)

\* Mutant of Tick: run_pytest is not given a timeout.
TickUncapped ==
    /\ step = "waiting"
    /\ elapsed <= WallCap
    /\ ~(child = "running" /\ cpu = ConfigCap)
    /\ elapsed' = elapsed + 1
    /\ cpu' \in IF child = "running" THEN {cpu, cpu + 1} ELSE {cpu}
    /\ UNCHANGED <<step, child, helpers, guard, workspace, sealed, signals, verdict>>

\* A tick passes; the test process is on the CPU or sleeps.
Tick ==
    /\ step = "waiting"
    /\ elapsed < WallCap
    /\ ~(child = "running" /\ cpu = ConfigCap)
    /\ elapsed' = elapsed + 1
    /\ cpu' \in IF child = "running" THEN {cpu, cpu + 1} ELSE {cpu}
    /\ UNCHANGED <<step, child, helpers, guard, workspace, sealed, signals, verdict>>

\* RLIMIT_CPU: the kernel ends a process at its limit.
OverCpu ==
    /\ child = "running"
    /\ cpu = ConfigCap
    /\ child' = "limit"
    /\ UNCHANGED <<step, elapsed, cpu, helpers, guard, workspace, sealed, signals, verdict>>

ChildExits ==
    /\ child = "running"
    /\ child' \in {"zero", "nonzero"}
    /\ UNCHANGED <<step, elapsed, cpu, helpers, guard, workspace, sealed, signals, verdict>>

HelperStarts(h) ==
    /\ child = "running"
    /\ helpers[h] = "unborn"
    /\ \E way \in {"holding", "detached"} : helpers' = [helpers EXCEPT ![h] = way]
    /\ UNCHANGED <<step, elapsed, cpu, child, guard, workspace, sealed, signals, verdict>>

HelperEnds(h) ==
    /\ h \in Alive
    /\ helpers' = [helpers EXCEPT ![h] = "gone"]
    /\ UNCHANGED <<step, elapsed, cpu, child, guard, workspace, sealed, signals, verdict>>

\* It makes the workspace read-only, say.
Seal ==
    /\ Writing
    /\ sealed' = TRUE
    /\ UNCHANGED <<step, elapsed, cpu, child, helpers, guard, workspace, signals, verdict>>

\* The first Ctrl-C: asyncio.run only marks the task cancelled, grading goes
\* on; pytest, in the same process group, stops or not.
FirstSignal ==
    /\ signals = 0
    /\ signals < MaxSignals
    /\ signals' = 1
    /\ child' \in IF child = "running" THEN {"running", "signal"} ELSE {child}
    /\ UNCHANGED <<step, elapsed, cpu, helpers, guard, workspace, sealed, verdict>>

\* Any later one raises KeyboardInterrupt where the grader is, and the with and
\* the finally run: the workspace or the guard directory is half made, the
\* process started but unknown to Popen, or a removal cut short.
LaterSignal ==
    /\ signals \in 1 .. MaxSignals - 1
    /\ signals' = signals + 1
    /\ verdict' = Undecided
    /\ \/ /\ step = "idle" /\ step' = "leaked"
          /\ workspace' \in BOOLEAN
          /\ UNCHANGED <<child, guard>>
       \/ /\ step = "extracting" /\ step' = "cleanup"
          /\ UNCHANGED <<child, guard, workspace>>
       \/ /\ step = "spawning"
          /\ \/ step' = "cleanup" /\ guard' \in BOOLEAN /\ UNCHANGED child
             \/ step' = "leaving" /\ guard' = TRUE /\ child' \in {child, "running"}
          /\ UNCHANGED workspace
       \/ /\ step = "waiting" /\ step' = "leaving"
          /\ child' = IF child = "running" THEN "killed" ELSE child
          /\ UNCHANGED <<guard, workspace>>
       \/ /\ step = "leaving" /\ step' = "cleanup"
          /\ guard' \in BOOLEAN
          /\ UNCHANGED <<child, workspace>>
       \/ /\ step = "cleanup" /\ step' = "over"
          /\ workspace' \in BOOLEAN
          /\ UNCHANGED <<child, guard>>
    /\ UNCHANGED <<elapsed, cpu, helpers, sealed>>

-----------------------------------------------------------------------------

Grader == \/ Provision \/ Submit \/ Spawn \/ SpawnFails
          \/ Finish \/ Expire \/ Leave \/ Cleanup

Submission == \/ ChildExits \/ Seal
              \/ \E h \in Helpers : HelperStarts(h) \/ HelperEnds(h)

User == FirstSignal \/ LaterSignal

Over == step \in {"over", "leaked"} /\ UNCHANGED vars

Next == Grader \/ Tick \/ OverCpu \/ Submission \/ User \/ Over

Spec == Init /\ [][Next]_vars

(* The grader runs and time passes; the submission and the user may do     *)
(* nothing for ever.                                                       *)
FairSpec == Spec /\ WF_vars(Grader) /\ WF_vars(Tick \/ OverCpu)

-----------------------------------------------------------------------------
(* Properties.                                                             *)

TypeOK ==
    /\ step \in {"idle", "extracting", "spawning", "waiting", "leaving", "cleanup", "over", "leaked"}
    /\ elapsed \in 0 .. WallCap
    /\ cpu \in 0 .. ConfigCap
    /\ child \in {"none", "running"} \cup Ended
    /\ helpers \in [Helpers -> {"unborn", "holding", "detached", "gone"}]
    /\ guard \in BOOLEAN /\ workspace \in BOOLEAN /\ sealed \in BOOLEAN
    /\ signals \in 0 .. MaxSignals
    /\ verdict \in [passed : BOOLEAN,
                    fault : {"undecided", "none", "test_crash",
                             "malformed_submission", "grader_error"}]

(* Tests that passed are never counted as a wrong answer: the attempt        *)
(* passes, or it carries a fault and `bench compare` leaves it out           *)
(* (grade_unit_tests, ExecutionResult.ok).  Nothing else passes.             *)
PassingTestsNeverCountWrong ==
    (step = "over" /\ verdict.fault \in {"none", "test_crash"}) =>
        /\ verdict.passed => child = "zero"
        /\ child = "zero" => verdict.passed \/ verdict.fault = "test_crash"

(* However a grading ends, its directories are gone (the `with` of           *)
(* SandboxExecutor.run, the `finally` of _grade).  The workspace is left only *)
(* when a process of the submission is still there at that moment, when the  *)
(* submission has sealed it, or when that very removal was interrupted.  The *)
(* guard directory is left only after a submission that started a helper, or *)
(* after a second Ctrl-C, and then never by an attempt that counts.          *)
DirectoriesRemoved ==
    [][(step # "over" /\ step' = "over") =>
          /\ workspace' => Writing \/ sealed \/ signals' # signals
          /\ guard' => /\ verdict'.fault \in {"grader_error", "undecided"}
                       /\ (\E h \in Helpers : helpers[h] # "unborn") \/ signals' >= 2]_vars

(* Whatever the submission does, holding its pipes open for ever included,   *)
(* the grading comes to an end.                                              *)
GradingEnds == (step = "extracting") ~> (step = "over")
=============================================================================
