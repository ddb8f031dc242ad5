------------------------------ MODULE BenchRun ------------------------------
(***************************************************************************)
(* `bench run` (cli/app.py run and _run_all, agent/runner.py) against the  *)
(* results database (storage/storage.py start_run and record).             *)
(*                                                                         *)
(* Several invocations may run at once and share the database file.  Each  *)
(* is one process with one event loop: it awaits only inside               *)
(* chat_completion and aclose, so grading and recording run without an     *)
(* await, while other processes go on.  Each database transaction is one   *)
(* step.  The client is used through the promise of ChatCompletion: a call *)
(* ends in a response or in an exception.                                  *)
(***************************************************************************)
EXTENDS Naturals, Sequences

CONSTANTS Invocations,     \* processes of `bench run`
          NoStore,         \* those given --no-store
          NTasks, Repeats, \* the selected tasks and the attempts of each
          Sandboxed,       \* tasks graded by unit tests in a sandbox
          GraderVerdicts,  \* what a grader may return
          MaxCrashes,      \* bound: processes killed, over the behaviour
          MaxInterrupts    \* bound: Ctrl-C, over the behaviour

ASSUME BenchAssumption ==
    /\ NoStore \subseteq Invocations
    /\ NTasks \in Nat \ {0} /\ Repeats \in Nat \ {0}
    /\ Sandboxed \subseteq 1 .. NTasks
    /\ MaxCrashes \in Nat /\ MaxInterrupts \in Nat

VARIABLES
    \* The database: one entry per run, in id order.
    runs,         \* runs[id]: its owner and its created_at
    rows,         \* rows[id]: its attempt rows, in insertion order
    clock,
    \* Each process.
    stage,
    runId,        \* the id start_run returned, 0 before
    stamp,        \* created_at of the BenchRun object, before it is inserted
    task, attempt,           \* the loops of _run_all and run_task
    results,      \* the attempts finished, in order
    cancel,       \* Ctrl-C was pressed: the main task is, or is to be, cancelled
    \* What an observer sees.
    calls,        \* chat_completion calls begun by each process
    seen,         \* how many runs were stored when the process stamped its own
    workspaces,   \* the attempts whose sandbox directory is on disk
    outlived,     \* those whose submission was not out of it when it was removed
    crashes, interrupts

database == <<runs, rows, clock>>
directories == <<workspaces, outlived>>
counters == <<seen, crashes, interrupts>>
vars == <<runs, rows, clock, stage, runId, stamp, task, attempt, results, cancel,
          calls, seen, workspaces, outlived, crashes, interrupts>>

\* In asyncio.run(_run_all(...)).
InLoop == {"ready", "calling", "answered", "grading", "recording", "closing", "unwinding"}
Ended == {"refused", "done", "aborted", "crashed"}
Stages == {"idle", "selected", "stamped"} \cup InLoop \cup Ended

Verdicts == GraderVerdicts \cup {"api_error", "grader_error"}
Slots == (1 .. NTasks) \X (1 .. Repeats)
Rows == [slot : Slots, verdict : Verdicts]

Init == /\ runs = <<>>
        /\ rows = <<>>
        /\ clock = 0
        /\ stage = [p \in Invocations |-> "idle"]
        /\ runId = [p \in Invocations |-> 0]
        /\ stamp = [p \in Invocations |-> 0]
        /\ task = [p \in Invocations |-> 1]
        /\ attempt = [p \in Invocations |-> 1]
        /\ results = [p \in Invocations |-> <<>>]
        /\ cancel = [p \in Invocations |-> FALSE]
        /\ calls = [p \in Invocations |-> 0]
        /\ seen = [p \in Invocations |-> 0]
        /\ workspaces = [p \in Invocations |-> {}]
        /\ outlived = [p \in Invocations |-> {}]
        /\ crashes = 0
        /\ interrupts = 0

Goto(p, s) == stage' = [stage EXCEPT ![p] = s]

\* The attempt the loops are at.
Current(p) == <<task[p], attempt[p]>>

-----------------------------------------------------------------------------
\* run(), up to the database: the key, the catalog, the model and the tasks.
Preflight(p) ==
    /\ stage[p] = "idle"
    /\ \/ Goto(p, "refused")
       \/ Goto(p, IF p \in NoStore THEN "ready" ELSE "selected")
    /\ UNCHANGED <<database, runId, stamp, task, attempt, results, cancel, calls,
                   directories, counters>>

\* ResultStore(db) opens (see ResultStore) or raises; then start_run builds
\* the row, which stamps created_at with the clock.
StampRun(p) ==
    /\ stage[p] = "selected"
    /\ \/ /\ Goto(p, "aborted")
          /\ UNCHANGED <<clock, stamp, seen>>
       \/ /\ Goto(p, "stamped")
          /\ clock' \in {clock, clock + 1}
          /\ stamp' = [stamp EXCEPT ![p] = clock']
          /\ seen' = [seen EXCEPT ![p] = Len(runs)]
    /\ UNCHANGED <<runs, rows, runId, task, attempt, results, cancel, calls,
                   directories, crashes, interrupts>>

\* start_run's transaction; the id is one more than the largest.
InsertRun(p) ==
    /\ stage[p] = "stamped"
    /\ \/ /\ Goto(p, "aborted")
          /\ UNCHANGED <<runs, rows, runId>>
       \/ /\ Goto(p, "ready")
          /\ runs' = Append(runs, [owner |-> p, created |-> stamp[p]])
          /\ rows' = Append(rows, <<>>)
          /\ runId' = [runId EXCEPT ![p] = Len(runs) + 1]
    /\ UNCHANGED <<clock, stamp, task, attempt, results, cancel, calls, directories, counters>>

\* The head of the loops.  A pending cancellation is delivered at the first
\* await, before a request goes out.
BeginAttempt(p) ==
    /\ stage[p] = "ready"
    /\ \/ /\ cancel[p]
          /\ Goto(p, "unwinding")
          /\ UNCHANGED calls
       \/ /\ ~cancel[p]
          /\ Goto(p, "calling")
          /\ calls' = [calls EXCEPT ![p] = @ + 1]
    /\ UNCHANGED <<database, runId, stamp, task, attempt, results, cancel, directories, counters>>

\* run_attempt returns and run_task appends its result.
Result(p, verdict) ==
    /\ Goto(p, "recording")
    /\ results' = [results EXCEPT ![p] =
                     Append(@, [slot |-> Current(p), verdict |-> verdict])]

\* chat_completion raised, or it returned.
CallEnds(p) ==
    /\ stage[p] = "calling"
    /\ \/ Result(p, "api_error")
       \/ Goto(p, "answered") /\ UNCHANGED results
    /\ UNCHANGED <<database, runId, stamp, task, attempt, cancel, calls, directories, counters>>

\* _grade without a sandbox: a verdict, or an exception (a grader that needs
\* a judge runner has none).
GradeText(p) ==
    /\ stage[p] = "answered"
    /\ task[p] \notin Sandboxed
    /\ \E v \in GraderVerdicts \cup {"grader_error"} : Result(p, v)
    /\ UNCHANGED <<database, runId, stamp, task, attempt, cancel, calls, directories, counters>>

\* The directory of the attempt is made, or removed.
Occupied(p) == [workspaces EXCEPT ![p] = @ \cup {Current(p)}]
Vacated(p) == [workspaces EXCEPT ![p] = @ \ {Current(p)}]

\* SandboxWorkspace.create: mkdtemp, then the seed files.  It precedes the
\* try of _grade, so a directory whose files cannot be written stays.
CreateWorkspace(p) ==
    /\ stage[p] = "answered"
    /\ task[p] \in Sandboxed
    /\ \/ /\ workspaces' = Occupied(p)
          /\ Goto(p, "grading")
          /\ UNCHANGED results
       \/ /\ workspaces' \in {workspaces, Occupied(p)}
          /\ Result(p, "grader_error")
    /\ UNCHANGED <<database, runId, stamp, task, attempt, cancel, calls, outlived, counters>>

\* Mutant of GradeInSandbox: cleanup only after passing tests.
GradeKeepingFailures(p) ==
    /\ stage[p] = "grading"
    /\ \E v \in GraderVerdicts \cup {"grader_error"} :
          /\ Result(p, v)
          /\ workspaces' = IF v = "pass" THEN Vacated(p) ELSE workspaces
    /\ UNCHANGED <<database, runId, stamp, task, attempt, cancel, calls, outlived, counters>>

\* grade_unit_tests returns or raises; the finally clause removes the tree with
\* ignore_errors=True, which fails without a word when a process of the
\* submission still writes there or it left what cannot be removed (Sandbox).
GradeInSandbox(p) ==
    /\ stage[p] = "grading"
    /\ \E v \in GraderVerdicts \cup {"grader_error"} : Result(p, v)
    /\ \/ /\ workspaces' = Vacated(p)
          /\ UNCHANGED outlived
       \/ /\ workspaces' \in {workspaces, Vacated(p)}
          /\ outlived' = [outlived EXCEPT ![p] = @ \cup {Current(p)}]
    /\ UNCHANGED <<database, runId, stamp, task, attempt, cancel, calls, counters>>

\* Mutant of Advance: one attempt too many.
AdvancePastEnd(p) ==
    \/ /\ attempt[p] <= Repeats
       /\ attempt' = [attempt EXCEPT ![p] = @ + 1]
       /\ UNCHANGED task
       /\ Goto(p, "ready")
    \/ /\ attempt[p] > Repeats
       /\ UNCHANGED <<task, attempt>>
       /\ Goto(p, "closing")

\* Mutant of Advance: the attempt counter runs on into the next task.
AdvanceWithoutReset(p) ==
    \/ /\ attempt[p] < Repeats
       /\ attempt' = [attempt EXCEPT ![p] = @ + 1]
       /\ UNCHANGED task
       /\ Goto(p, "ready")
    \/ /\ attempt[p] >= Repeats
       /\ task[p] < NTasks
       /\ task' = [task EXCEPT ![p] = @ + 1]
       /\ UNCHANGED attempt
       /\ Goto(p, "ready")
    \/ /\ attempt[p] >= Repeats
       /\ task[p] >= NTasks
       /\ UNCHANGED <<task, attempt>>
       /\ Goto(p, "closing")

\* The loops of run_task and _run_all move on, or end.
Advance(p) ==
    \/ /\ attempt[p] < Repeats
       /\ attempt' = [attempt EXCEPT ![p] = @ + 1]
       /\ UNCHANGED task
       /\ Goto(p, "ready")
    \/ /\ attempt[p] >= Repeats
       /\ task[p] < NTasks
       /\ task' = [task EXCEPT ![p] = @ + 1]
       /\ attempt' = [attempt EXCEPT ![p] = 1]
       /\ Goto(p, "ready")
    \/ /\ attempt[p] >= Repeats
       /\ task[p] >= NTasks
       /\ UNCHANGED <<task, attempt>>
       /\ Goto(p, "closing")

\* Mutant of Record: the row goes to the latest run of the database.
RecordToLatest(p) ==
    /\ stage[p] = "recording"
    /\ p \notin NoStore
    /\ rows' = [rows EXCEPT ![Len(rows)] = Append(@, results[p][Len(results[p])])]
    /\ Advance(p)
    /\ UNCHANGED <<runs, clock, runId, stamp, results, cancel, calls, directories, counters>>

\* Mutant of Record: a failed write is logged and the loop goes on.
RecordOrGoOn(p) ==
    /\ stage[p] = "recording"
    /\ \/ /\ p \notin NoStore
          /\ rows' = [rows EXCEPT ![runId[p]] = Append(@, results[p][Len(results[p])])]
       \/ UNCHANGED rows
    /\ Advance(p)
    /\ UNCHANGED <<runs, clock, runId, stamp, results, cancel, calls, directories, counters>>

\* The transaction of store.record: one row more.
RowAdded(p) == [rows EXCEPT ![runId[p]] = Append(@, results[p][Len(results[p])])]

\* _on_result: store.record commits one row, or raises; an exception leaves
\* the loops.
Record(p) ==
    /\ stage[p] = "recording"
    /\ \/ /\ p \notin NoStore
          /\ rows' = RowAdded(p)
          /\ Advance(p)
       \/ /\ p \notin NoStore
          /\ Goto(p, "unwinding")
          /\ UNCHANGED <<rows, task, attempt>>
       \/ /\ p \in NoStore
          /\ Advance(p)
          /\ UNCHANGED rows
    /\ UNCHANGED <<runs, clock, runId, stamp, results, cancel, calls, directories, counters>>

\* Mutant of Close: the exception of the loops is swallowed.
CloseQuietly(p) ==
    /\ stage[p] \in {"closing", "unwinding"}
    /\ Goto(p, "done")
    /\ UNCHANGED <<database, runId, stamp, task, attempt, results, cancel, calls,
                   directories, counters>>

\* Mutant of Close: aclose is tried again while the cancellation is pending.
CloseRetrying(p) ==
    /\ \/ stage[p] = "closing" /\ ~cancel[p] /\ Goto(p, "done")
       \/ stage[p] = "closing" /\ cancel[p] /\ Goto(p, "unwinding")
       \/ stage[p] = "unwinding" /\ Goto(p, "closing")
    /\ UNCHANGED <<database, runId, stamp, task, attempt, results, cancel, calls,
                   directories, counters>>

\* The finally clause closes the client; then the summary is printed from
\* results, unless the loops were left by an exception or the cancellation
\* is delivered inside aclose.
Close(p) ==
    /\ \/ stage[p] = "closing" /\ Goto(p, "done")
       \/ stage[p] = "closing" /\ cancel[p] /\ Goto(p, "aborted")
       \/ stage[p] = "unwinding" /\ Goto(p, "aborted")
    /\ UNCHANGED <<database, runId, stamp, task, attempt, results, cancel, calls,
                   directories, counters>>

\* The first Ctrl-C cancels the main task: at once when it waits for the
\* reply, else at its next await.
Interrupt(p) ==
    /\ interrupts < MaxInterrupts
    /\ interrupts' = interrupts + 1
    /\ ~cancel[p]
    /\ cancel' = [cancel EXCEPT ![p] = TRUE]
    /\ \/ /\ stage[p] = "calling"
          /\ Goto(p, "unwinding")
       \/ /\ stage[p] \in InLoop \ {"calling"}
          /\ UNCHANGED stage
    /\ UNCHANGED <<database, runId, stamp, task, attempt, results, calls, seen,
                   directories, crashes>>

\* Any other one raises KeyboardInterrupt in what the process is doing: making
\* or removing a directory is cut short, a transaction is committed or not, and
\* aclose is left.
InterruptAgain(p) ==
    /\ interrupts < MaxInterrupts
    /\ interrupts' = interrupts + 1
    /\ cancel[p]
    /\ \/ /\ stage[p] = "ready"
          /\ Goto(p, "unwinding")
          /\ UNCHANGED <<rows, workspaces>>
       \/ /\ stage[p] = "answered"
          /\ Goto(p, "unwinding")
          /\ workspaces' \in {workspaces} \cup (IF task[p] \in Sandboxed THEN {Occupied(p)} ELSE {})
          /\ UNCHANGED rows
       \/ /\ stage[p] = "grading"
          /\ Goto(p, "unwinding")
          /\ workspaces' \in {workspaces, Vacated(p)}
          /\ UNCHANGED rows
       \/ /\ stage[p] = "recording"
          /\ Goto(p, "unwinding")
          /\ rows' \in {rows} \cup (IF p \in NoStore THEN {} ELSE {RowAdded(p)})
          /\ UNCHANGED workspaces
       \/ /\ stage[p] \in {"closing", "unwinding"}
          /\ Goto(p, "aborted")
          /\ UNCHANGED <<rows, workspaces>>
    /\ UNCHANGED <<runs, clock, runId, stamp, task, attempt, results, cancel, calls, seen,
                   outlived, crashes>>

\* The process is killed; SQLite rolls an open transaction back.
Crash(p) ==
    /\ crashes < MaxCrashes
    /\ crashes' = crashes + 1
    /\ stage[p] \notin Ended \cup {"idle"}
    /\ Goto(p, "crashed")
    /\ UNCHANGED <<database, runId, stamp, task, attempt, results, cancel, calls, seen,
                   directories, interrupts>>

Work(p) == \/ StampRun(p) \/ InsertRun(p) \/ BeginAttempt(p) \/ CallEnds(p)
           \/ GradeText(p) \/ CreateWorkspace(p) \/ GradeInSandbox(p) \/ Record(p)
           \/ Close(p)

\* Mutant of ListedBefore: sorted by created_at alone.
ListedBeforeByTime(i, j) == runs[i].created > runs[j].created

\* runs(): sorted by (created_at, id), descending; latest_run is the first.
ListedBefore(i, j) ==
    \/ runs[i].created > runs[j].created
    \/ runs[i].created = runs[j].created /\ i > j

\* Every invocation has ended.
AllEnded == (\A p \in Invocations : stage[p] \in Ended) /\ UNCHANGED vars

Next == \/ \E p \in Invocations :
              Preflight(p) \/ Work(p) \/ Interrupt(p) \/ InterruptAgain(p) \/ Crash(p)
        \/ AllEnded

\* A process runs on; calls end (RetryClient), graders are bounded by their
\* timeout, a locked database makes record fail after sqlite3's timeout.
Fairness == \A p \in Invocations : WF_vars(Work(p))

Spec == Init /\ [][Next]_vars
FairSpec == Spec /\ Fairness

-----------------------------------------------------------------------------
TypeOK ==
    /\ runs \in Seq([owner : Invocations, created : Nat])
    /\ rows \in Seq(Seq(Rows))
    /\ clock \in Nat
    /\ stage \in [Invocations -> Stages]
    /\ runId \in [Invocations -> Nat]
    /\ stamp \in [Invocations -> Nat]
    /\ task \in [Invocations -> 1 .. NTasks]
    /\ attempt \in [Invocations -> 1 .. Repeats]
    /\ results \in [Invocations -> Seq(Rows)]
    /\ cancel \in [Invocations -> BOOLEAN]
    /\ calls \in [Invocations -> Nat]
    /\ seen \in [Invocations -> Nat]
    /\ workspaces \in [Invocations -> SUBSET Slots]
    /\ outlived \in [Invocations -> SUBSET Slots]
    /\ crashes \in 0 .. MaxCrashes
    /\ interrupts \in 0 .. MaxInterrupts

(* The rows of a run are the attempts of the process that owns it, in order, *)
(* all of them or all but the one being recorded, however many other runs    *)
(* are written at the same time and wherever the process stopped.            *)
RowsMatchResults ==
    \A p \in Invocations : runId[p] # 0 =>
        LET mine == rows[runId[p]] IN
        /\ runs[runId[p]].owner = p
        /\ Len(mine) \in {Len(results[p]), Len(results[p]) - 1}
        /\ \A k \in 1 .. Len(mine) : mine[k] = results[p][k]

(* runs() lists "newest first": a run stamped when another was already       *)
(* stored comes before it, even when both have the same created_at, so       *)
(* `bench report` never takes a finished run for the latest one once a newer *)
(* one is stored.  (The clock is assumed not to be set back.)                *)
NewestFirst ==
    \A newer \in DOMAIN runs : \A older \in 1 .. seen[runs[newer].owner] :
        ListedBefore(newer, older)

(* A paid completion is lost at most once per invocation: no call begins     *)
(* while the outcome of the previous one is not durable, whatever crashes,   *)
(* interrupts and failed writes happen (run_task's on_result).               *)
AtMostOneLost ==
    \A p \in Invocations : runId[p] # 0 => calls[p] <= Len(rows[runId[p]]) + 1

(* An invocation that reports success has stored its whole schedule.         *)
DoneIsComplete ==
    \A p \in Invocations \ NoStore :
        stage[p] = "done" => /\ Len(rows[runId[p]]) = NTasks * Repeats
                             /\ rows[runId[p]] = results[p]

(* Each sandbox directory on disk is that of the attempt being graded, or it *)
(* is left for a cause that lies in its own attempt: the process was killed  *)
(* or interrupted twice in it, it is stored as a grader_error, or its        *)
(* submission was not out of it (the `finally` of _grade).                   *)
WorkspacesAccounted ==
    \A p \in Invocations : \A s \in workspaces[p] :
        \/ s \in outlived[p]
        \/ \E k \in DOMAIN results[p] : results[p][k] = [slot |-> s, verdict |-> "grader_error"]
        \/ /\ s = Current(p)
           /\ \/ stage[p] \in {"grading", "crashed"}
              \/ stage[p] \in {"unwinding", "aborted"} /\ cancel[p]

(* Every invocation that gets past its checks ends, whatever fails.          *)
RunEnds == \A p \in Invocations : (stage[p] \notin Ended \cup {"idle"}) ~> (stage[p] \in Ended)

(* The database keeps the promise of RunJournal.                             *)
Journal == INSTANCE RunJournal WITH
    journal <- [id \in DOMAIN rows |-> [k \in DOMAIN rows[id] |-> rows[id][k].slot]]
ImplementsJournal == Journal!Spec
=============================================================================
