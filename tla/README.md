# openrouter-agent-bench in TLA+

This directory holds TLA+ models of openrouter-agent-bench, the TLC runs that
check them and the TLAPS proofs about them. The modules are written from the
code under `src/openrouter_agent_bench/` (paths below are relative to it) and
`scripts/gen_suite/`; where a doc, a docstring or a test says something else, that
is a finding. The `PROJECT.json` next to this file maps every definition to its
lines.

## 1. The system

`bench run` sends the tasks of a suite to one model over OpenRouter, grades each
reply and stores one row per attempt in SQLite. `bench report`, `bench compare`
and `bench regrade` read those databases afterwards. `bench-web` serves a
dashboard with a chat playground on the same client. The tasks are YAML files
that two scripts generate and every command loads.

| Component | State | Operations | Talks to |
|---|---|---|---|
| chat client (`client/api.py`) | connection pool, retry log `throttle_events`, the retry state of the call | `chat_completion`, `chat_completion_stream`, `aclose` | provider (HTTP); called by bench run and the server |
| results database (`storage/storage.py`) | the SQLite file: tables, columns, rows | open (`create_all`, `_migrate`), `start_run`, `record`, `record_many`, `runs`, `attempts` | shared by all commands, in different processes |
| bench run (`cli/app.py` `run`, `_run_all`; `agent/runner.py`) | the loops over tasks and repeats, results so far, pending cancellation | `run_task`, `run_attempt`, `_grade`, `_on_result` | client, graders, database |
| test execution (`sandbox/executor.py`, `evaluation/graders.py`) | workspace and guard directories, the pytest process and whatever it starts | `grade_unit_tests`, `run_pytest`, `cleanup` | operating system |
| regrade (`evaluation/regrade.py`, `cli/app.py`) | the corpus, the outcomes so far | `extract_with_policy`, `regrade_attempt`, `summarize_regrade` | database (read), sandbox |
| compare (`reporting/compare.py`) | the rows read so far | `aggregate`, `plot_comparison` | databases that may still be written |
| report (`reporting/report.py`) | none | group summaries: tables, Markdown, plot | database (read) |
| web server (`server/app.py`) | the environment it reads its settings from | `/api/health`, `/api/models`, `/api/suites`, `/api/chat` | client, registry, loader |
| dashboard (`server/static/app.js`) | toggle, model list, selection, chat log, pending requests | `checkHealth`, `loadModels`, `sendChat`, Clear | server |
| suite generators (`scripts/gen_suite/`) | the definitions a script has imported, the files it has still to write, the failures so far | `build_coding_suite` (write, verify), `build_extra_suites` (validate, write) | the task files; authors |
| suite loader, task schema (`tasks/`) | the directories still to read, the suites so far | `load_suites`, validation | the task files, while scripts and authors write them; called by `run`, `suites`, `validate`, `/api/suites` |
| model registry (`models/registry.py`) | none, read for each command and request | `load`, `is_free`, `free` | `models.yaml`, edited by authors |
| pricing, config, provenance | none | tables and parsing | files, environment, git |

### What is hard in it, and what makes it correct

- **Client.** A POST can be executed and billed although its reply is lost or a
  gateway answers 502, 503, 504 or 524 for it, and is then sent again. The retry
  log is shared by all calls of a client. Correct: the log says exactly what the
  current call did, every duplicate bill can be read off it as a transport or a
  server error, sleeps are bounded whatever the provider asks for, a call ends; a
  stream's final response is its own, and its connection comes back.
- **Database.** Every command migrates the file when it opens it, in statements
  that no transaction binds together, possibly in two processes at once and with
  a crash in between. Correct: whoever has the file open sees the whole schema,
  old rows satisfy the declared types, a loser opens on the next attempt.
- **Bench run.** A completion is paid for before it is durable. Ctrl-C, a kill,
  a locked database or a full disk can come at any point, and several runs share
  one file. Correct: rows belong to their run and follow its schedule, at most
  one paid completion is lost per process, success means everything is stored,
  the latest run is listed first, a directory that stays has an attempt that
  explains it.
- **Test execution.** The submission is arbitrary code: it spins, leaves
  processes with the pipes open, ignores signals. Correct: tests that passed are
  never counted as a wrong answer, a directory stays only where a named obstacle
  kept it, grading ends.
- **Compare.** Each run is read in its own session while writers go on. Correct:
  no row missed or counted twice, the published numbers agree with each other,
  no incomplete model heads the chart.
- **Regrade.** Verdicts under four policies are compared attempt by attempt.
  Correct: a flip has a changed submission behind it, `strict` is what the run's own
  grader did, the reported delta is what the flips add up to.
- **Dashboard and server.** Answers come in any order, prompts overlap, settings
  and the catalog change under an open page. Correct: an answer lands in its own
  bubble, each prompt ends, the button comes back, free-only mode never pays.
- **Suites.** The generators overwrite shipped files one by one, the coding script
  before it has verified the task; they can be killed, refuse a definition or fail
  a verification half way, and a load can meet all of that. Correct: a build that
  ends with 0 is what is on the disk, what a dead build tore is repaired by the
  next, a load is all or nothing and names the file at fault, a stored run has a
  proper schedule and the digest of its own tasks.

## 2. Modules

```
ChatCompletion  <-implements-  RetryClient  <- RetryClientProofs, MCRetryClient
RunJournal      <-implements-  BenchRun     <- BenchRunProofs,    MCBenchRun
                               ResultStore  <- ResultStoreProofs, MCResultStore
                               Sandbox      <- SandboxProofs,     MCSandbox
                               Comparison   <- RunReport <- ComparisonProofs, MCComparison
                               Regrade      <- RegradeProofs,     MCRegrade
                               Dashboard    <- DashboardProofs,   MCDashboard
                               SuiteBuild   <- SuiteLoad <- SuiteProofs, MCTaskSuites
```

The components meet at abstract promises. `BenchRun` and `Dashboard` use the
client as `ChatCompletion` describes it: a call ends, once, in a response or an
exception; `RetryClient` is shown to keep that. `BenchRun` takes grading in a
sandbox as one step whose outcomes, directories that outlive it included, `Sandbox`
shows. `Comparison` and
`Regrade` read rows of the shape `BenchRun` writes. `SuiteLoad` shows of the
schedules what the three of them take for granted (`SchedulesProper`).

**ChatCompletion** is the caller's view of the client: calls one at a time,
between one and `Budget` requests each, one outcome each.

**RetryClient** is `OpenRouterClient`. A step is what the event loop runs from
one `await` to the next: `StartCall` (body and first POST), `Answered`, `Failed`
(classification, `_is_retryable`, backoff, stop condition, `_record_retry`, in
tenacity's order), `WakeUp`, `CancelledAsleep`, `Aclose`. `Backoff` is
`BackoffPolicy` with `Retry-After`. A stream (`chat_completion_stream`, which no
command uses yet) is `StartStream`, `SendRaises` or `BadStatus` or `StreamOpens`,
then `Delta` and `Final` with the caller's `Resume` or `Abandon` after each, or
`StreamBreaks`; `FinalizeGenerator` is the event loop closing an abandoned one.
Only the type of an exception, the numbers that backoff needs and the number of
deltas are kept. `on_retry` is never passed by the program and is left out.

**ResultStore** is the opening of a database: `InspectTables`, `CreateTable`, the
table's `CreateIndex` statements, `StartMigrate`, `TableInfo`, `AddColumn`, `Opened`, then `Insert`. A process can
be interrupted anywhere and be run again. SQLite makes each statement atomic;
Python's `sqlite3` begins a transaction before INSERT, UPDATE and DELETE only, so
the DDL statements are steps of their own. `_migrate` makes no index, so one that an
interruption between a CREATE TABLE and its CREATE INDEX left out stays missing; the
commands then give the same answers and only scan.

**BenchRun** is `bench run`: the checks before a run (`Preflight`), the stamp and
the insert of the run (two steps, the object is made before the transaction), the
loops (`BeginAttempt`, `CallEnds`, `Advance`), grading (`GradeText`,
`CreateWorkspace`, `GradeInSandbox`), `Record`, `Close`, and `Interrupt`,
`InterruptAgain` and `Crash`. The process awaits only in the client, so the
cancellation of the first Ctrl-C is delivered there and nowhere else; another Ctrl-C
is a KeyboardInterrupt wherever the process is, in a cleanup or a transaction too.
`outlived` says of which attempts the workspace was removed, with errors ignored,
while the submission was not out of it.

**RunJournal** is the promise of the database: a run grows by the next slot of
its schedule, and what is stored stays.

**Sandbox** is one grading seen from inside, in ticks: `Provision`, `Submit`,
`Spawn` or `SpawnFails`, `Finish` or `Expire`, `Leave` (the guard directory, whose
cleanup can raise), `Cleanup` (the workspace, with errors ignored), against a
submission (`ChildExits`, `HelperStarts`, `HelperEnds`, `Seal`), the CPU limit
(`OverCpu`) and a user who presses Ctrl-C (`FirstSignal`, `LaterSignal`).

**Comparison** is `aggregate`: `ListRuns` and `ReadAttempts` are sessions of
their own between which `StartRun` and `Record` of running benchmarks may come;
the summaries per model, suite and task and the order of the figure are operators
on the rows read.

**RunReport** is `bench report` on the same rows: `GroupBy` and `Sections` are its
tables, and `PublishedNumbersAgree` relates them to the comparison.

**Regrade** is `bench regrade`. A reply is the sequence of its markers and
blocks, a block's body a name of which the policies see size, definitions,
imports and whether it parses. `ExtractFileBlocks`, `Strict`, `Largest`,
`Splices` and `Extract` are the policies, `RegradeAttempt` one grading, `Report`
the summary and the table. `ShippedWrites` is the loop of `grade_unit_tests` over the
same blocks, which `strict` says it reproduces. Each task has a target and seed files
of its own. A marker inside the body of a block, which `_parse_file_blocks` finds as
well, is not represented (section 5). What the tests say of given files is not known in
advance but does not change (`known`), except that a run may time out.

**Dashboard** is the page and the server behind it. A handler runs up to its
`await` (`Toggle`, `SendChat`) and from there on (`HealthArrives`,
`ModelsArrive`, `ReplyArrives`); `ServeHealth`, `ServeModels`, `ServeChat` and
`CallEnds` are the server, which reads the registry for each request (`Loads`,
`IsFree`); `Restart` replaces it by one with other settings, `EditCatalog` changes
`models.yaml`. Bubbles that Clear has taken from the page are still filled.

**SuiteBuild** is the two generators over one map from paths to contents. A file
is empty from `Open` to `Write`; `Verify` runs the hidden tests on the buggy files
and on the solution, and what comes of that, or of the schema (`Refuse`) or of the
table of solutions (`NoSolution`), is the kind of the definition. `Die` leaves what
had arrived of the file (`Cuts`), `Start` runs a script again, `EditDefinition` and
`EditFile` are authors.

**SuiteLoad** adds a command that loads: `ReadManifest`, `Glob`, `ReadTask` and
`EndDirectory` are one read each, between which the scripts and authors may go on;
`StoreRun` is the selection of `bench run` (`SelectTasks`) and its digest
(`SuiteHash`).

Operators and actions marked `Mutant of ...` are plausible bugs. No model uses
them; each shows that a property notices.

## 3. Runs

| Run | Instance | Shows |
|---|---|---|
| `retry` | 2 calls or streams, 3 attempts, `Retry-After` past, below `min_wait`, above `max_wait` or absent, 2 deltas | `RetryLogExact`, `DuplicatesAreLogged`, `SleepBounded`, `StreamsWhole`, `ConnectionsAccounted`, `ImplementsChat` (with the end of every call) |
| `store` | 2 processes, 2 tables, two of the columns with an index, a fresh, half-created, old or current file, 1 interruption | `OpenedHasSchema`, `RowsKeepType`, `EventuallyOpen` |
| `store_race` | 2 processes, an old file | finding: `OpenNeverFails` |
| `bench` | 2 stored runs side by side, 2 tasks, 1 kill, 2 Ctrl-C, failing writes | `RowsMatchResults`, `NewestFirst`, `AtMostOneLost` |
| `bench_repeats` | 1 run of 2 tasks with 2 attempts, stored or not, 1 kill, 2 Ctrl-C | `DoneIsComplete`, `WorkspacesAccounted`, `ImplementsJournal`, `RunEnds` |
| `sandbox` | wall limit 5, CPU limit 2, 2 helpers, 3 Ctrl-C | `PassingTestsNeverCountWrong`, `DirectoriesRemoved`, `GradingEnds` |
| `compare` | 2 files, 2 models, 2 suites, 2 runs | `EveryStoredRowCountedOnce`, `IncompleteNeverOnTop`, `PublishedNumbersAgree` |
| `regrade` | any reply of up to 3 markers and blocks; two models and two tasks with few replies; 4 policies | `FlipsComeFromChanges`, `StrictIsShipped`, `DeltaIsDifference` |
| `regrade_repeats` | one model, one task, two attempts | finding: `BaselineDeltaZero` |
| `dashboard` | 2 prompts, 1 move of the toggle, 1 restart or edit of the catalog, key present or not | `AnswersInTheirBubble`, `SendComesBack`, `FreeModeNeverPays`, `EveryPromptAnswered` |
| `dashboard_toggle` | boot, 1 move of the toggle | finding: `ListFollowsToggle` |
| `suites` | 2 coding tasks, 1 agentic task, 1 edit of a definition or a file, 1 death, loads of one suite or of all | `FinishedBuildIsGood`, `LoadsAllOrNamesTheError`, `SchedulesProper`, `TornFilesHeal` |

The runs `retry`, `store`, `bench`, `sandbox`, `compare`, `dashboard` and `suites`
also check `TypeOK` of their module.

### Bounds and why they are enough

- *retry*: three attempts reach the minimum, the growth and the cap of the
  exponential; the second call shows that the shared log and the pool carry over, a second
  stream what an abandoned one leaves behind. The proofs cover any number of both.
- *store*: two processes are the least that race; two tables put a crash between
  two CREATEs and between the migrations of two tables; two indexes one
  between them; the columns are one nullable, one with a default and the original
  ones. The proofs cover any number.
- *bench*: `NewestFirst` and `RowsMatchResults` need two runs; two tasks are
  enough to lose one of two completions. Symmetry over the two processes is used
  in this run only, which checks invariants only. *bench_repeats* has two tasks
  with two attempts, the least where the inner counter must be reset; a
  `--no-store` run shares nothing and is taken by itself (`Apart`). Two Ctrl-C are a
  cancellation and a KeyboardInterrupt; a third would do what the second does.
- *sandbox*: the proportions are those shipped (300 s per coding task, 60 s of
  `sandbox_timeout_s`): the CPU limit can come first, or the wall limit when the
  submission sleeps. One helper can hold the pipes while another does not. Three
  Ctrl-C are a cancellation, one that ends the waiting and one that cuts a cleanup
  short.
- *compare*: two models, two suites and two runs over two files make shared files,
  split models, partial coverage and ties.
- *regrade*: three markers and blocks are the least with two markers before one
  block, and with a path in the info string that overrides markers. Three bodies
  (whole file, fragment, broken) reach every branch of `splice_fragment`. The target
  of one of the two tasks has "test" in its name, so that the fallback path of a block
  without a name is one that the graders refuse.
- *dashboard*: two prompts overlap in every order; with the first list two requests
  for models are out at once. One model is free by its suffix; of the other the
  price goes up, or `models.yaml` names it twice.
- *suites*: two coding tasks are the least where one is verified and the next is
  not written yet, and are listed in another order than their files sort; the
  agentic suite has a manifest. The edits are one of each kind: a definition whose
  tests do not tell, one without a solution, one the schema refuses, one removed;
  a manifest with the name of another suite, a copy of a task as JSON, a file
  removed. One death or one edit is what a property needs to go wrong.

`MaxCrashes`, `MaxInterrupts`, `MaxRows`, `MaxCalls`, `MaxRuns`, `MaxSignals`,
`MaxPrompts`, `MaxToggles`, `MaxChanges`, `MaxEdits` and `MaxDeaths` only bound the
model.
`CHECK_DEADLOCK FALSE` is set for `compare`, which ends while writers may have
reached their bound, and for the dashboard, which rests when nobody uses it.

### Fairness

- *RetryClient*: a POST resolves (httpx times each read out) and a sleep ends.
  Nothing is assumed of a stream or of its caller, and there is no deadline for
  a whole call.
- *ResultStore*: a process that opens the file goes on, and a command that failed
  is given again.
- *BenchRun*: a process goes on; calls end (proved of nothing, checked of
  `RetryClient`), graders have a timeout, SQLite gives up on a locked file.
- *Sandbox*: the grader runs and time passes. Nothing is assumed of the submission
  or the user.
- *Dashboard*: the server answers, a call ends, a settled fetch resumes its handler.
- *SuiteBuild*: a script runs on (weak fairness), and a dead one is run again in the
  end; that is strong fairness, since while the other script is running it cannot.
  Nothing is assumed of authors or of loads.

## 4. Proofs

Each component has a module of proofs: `RetryClientProofs`, `ResultStoreProofs`,
`BenchRunProofs`, `SandboxProofs`, `ComparisonProofs` (with `RunReport`),
`RegradeProofs`, `DashboardProofs` and `SuiteProofs` (scripts and loads). They prove, for
every value of the constants that satisfies the module's named assumption, the
type invariant and every safety property the passing runs check. Each defines
an inductive `IInv`, proves `Init => IInv`, one lemma per action (or per
group of actions that disturb the same conjuncts), and the theorems by PTL.

| Module | Theorems | Why the invariant is stronger than the property |
|---|---|---|
| RetryClientProofs | `TypeCorrect`, `LogIsExact`, `DuplicatesLogged`, `SleepIsBounded`, `StreamsAreWhole`, `ConnectionsAreAccounted`, `ImplementsCall` | between the failure and the sleep the log is one ahead, so `CallProgress` says in which phase it is where; `StreamProgress` says that parts and deltas keep pace and that no final response comes before the body ends |
| ResultStoreProofs | `TypeCorrect`, `SchemaComplete`, `RowsTyped`, `SerialOpensSucceed` | `Progress`: what a process has still to create, inspect and add covers what the file lacks, and columns never go, whatever other processes do; `Backfillable`: a column that is missing is nullable or has a default; `FreshIndexes` and `IndexesKept`: an index of a table that was created is there, still to be made, or lost to an interruption; `UpToDate` is added for `SerialOpensSucceed` |
| BenchRunProofs | `TypeCorrect`, `RowsAreResults`, `ListedNewestFirst`, `LosesAtMostOne`, `DoneStoresAll`, `DirectoriesAccounted`, `ImplementsTheJournal`, `StepsRunOut` | `DatabaseInv` (ids, owners, stamps from the past) and per process `RunInv` (who has a run when), `LoopInv` (where in the schedule, how many calls), `StoredInv` (what is stored of it), `WorkInv` (which attempts' directories may be there: those outlived by their submission, those `Marked` as a grader error or `Broken` off by a kill or Ctrl-C); `Ordered`, that results carry the slots in schedule order, is added for the refinement |
| SandboxProofs | `TypeCorrect`, `PassingNeverCountsWrong`, `DirectoriesGo` | `VerdictOfTests` (the verdict and the exit agree from the end of the tests on, and nothing changes an exit), `Waiting` (when there is a test process and a guard directory), `GuardLeft` (a guard directory that its cleanup left has a cause, a helper that was started or a second Ctrl-C, and its attempt does not count) |
| ComparisonProofs | `TypeCorrect`, `RowsCountedOnce`, `CompleteOnTop`, `NumbersAgree`, `SnapshotsOfRuns` | `CountedOrPending` (a run that was there at the start is counted or still to be read), `ReadsBehind` and `ReadOnce` (what is read is no longer pending), `StoredStays` (files only grow), `FollowsSchedule` and `ReadsKept` (whose rows were read), `ChunksFill` (the queries' row counts add up to the rows read); `PrefixInv` is added for `SnapshotsOfRuns` |
| RegradeProofs | `StrictAsShipped`, `FlipsExplained`, `DeltaExplained` | `FromItsTurn` (an outcome is that of the reply and policy whose turn it was) and `VerdictsStand` (the tests never both passed and failed one set of files); the policies are lemmas about any reply (`StrictIs`, `SplicedIs`, `ExtractIs`), as is the agreement of the two loops (`StrictWritesShipped`), which rests on a reply having either named files or one nameless block (`NamedOrAlone`) |
| DashboardProofs | `TypeCorrect`, `AnswersFindTheirBubble`, `SendButtonReturns`, `FreeModeIsFree` | `Shapes` (what a fetch can bring), `KeylessOnceTold` (the health check comes once, so nothing takes the missing key back) and `UsageOfAPrompt`; that a free model is free in each of its entries rests on the registry's check for duplicates (`FreeThroughout`) |
| SuiteProofs | `TypeCorrect`, `BuildsAreGood`, `LoadsAreWhole`, `RunsAreProper` | scripts: `Progress` says which files a script has `Written` and which tasks it has `Verified`, which holds while the other script runs because their files are disjoint, and tells what an author changed from what a script tore; loads: `ListedOrRead` (a file that stood still is read or still to be read), `HeadIsDeclared`, `InOrder`, `ReadIsLoaded`, `ListedOrChanged` |

In order of what they say of the program:

- Durability (`BenchRunProofs`): the induction needs where a process stands in
  its schedule (`LoopInv`) to know that the row it stores is the next one. With
  `ImplementsTheJournal` on the writer's side and `SnapshotsOfRuns` on the reader's,
  what `compare` counts of a run is a prefix of a journal as `RunJournal` describes it.
- `SerialOpensSucceed` is the other half of finding 1: if no two processes open the
  file at the same time, no open fails, whatever interrupted ones have left. A
  process's list of what is missing goes stale only through another opener (`UpToDate`).
- `StepsRunOut` is the part of `RunEnds` that needs no fairness: `StepsLeft` is a natural
  number that every step of a process lowers and no other process raises.
- `FlipsExplained` and `DeltaExplained` have the hypothesis that no task is replayed twice for
  one model (`OncePerModel`); finding 2 shows that it is needed. The second also has
  that no policy is named twice (`PoliciesDiffer`): `summarize_regrade` would count
  each of its passes twice. Both hold of every default invocation.

Assumptions: the constants have their types; `ResultStore` assumes of the
schemas an old file can have that a missing column is nullable or has a default
(true of every column added so far; it is what `_migrate` relies on); `Regrade`
assumes that no FILE marker is without a path, as its pattern says, and nothing of a
task's target, which `tasks/schema.py:79` lets be any string; `SuiteBuild`
and `SuiteLoad` assume that the scripts' and the loader's orders list ids of their
suites, each once, and that an edit puts into a file what a file of that path can
hold, except a torn multi-byte character.

Induction over data is out of the provers' reach when it takes a predicate, so
the proofs do it over sets: from the well-foundedness of `<` on Nat (and of cardinality)
they derive facts about sums over finite sets (`SumAny`, `SumOfFibres`, `ChunksAddUp`),
about lists in a given order (`ListExists`, `ListCovers`) and about concatenations
(`FlattenIs`). `SelectSeq` and `SortSeq` cannot be expanded, which is why the models pick
with sets of positions (`Where` in `Comparison`, `Pick` in `SuiteBuild`) and order with
`InOrder`.

Only model-checked: `EventuallyOpen`, `RunEnds`, `GradingEnds`, `TornFilesHeal`,
`EveryPromptAnswered` and the liveness half of `ImplementsChat`, since TLAPS does
not reason about fairness here; and of course the two properties that findings 1
and 3 refute as they stand.

## 5. Findings

1. `store_race` (`storage/storage.py:129`): two commands that open the same
   database from before a column existed both find it missing, and the second
   ALTER TABLE fails. It is harmless once the command is given again
   (`EventuallyOpen`).
2. `regrade_repeats` (`evaluation/regrade.py:305`): the baseline keeps the last
   verdict per task and model while passes are counted over attempts. With `--repeats`,
   or a model in two of the databases, `strict` gets a delta to itself
   (`BaselineDeltaZero`): of two attempts, the first passed and the second failed, it
   has one pass over a baseline of none.
3. `dashboard_toggle` (`server/static/app.js:109`): the health check moves the
   toggle after the list was asked for. With `OAB_FREE_MODELS_ONLY=0` the page
   shows the toggle off and free models only.

Seen while modelling, without a run of their own:

- `Retry-After: 0` is not `> 0`, so the exponential delay is used
  (`client/api.py:100`); `Backoff` models it.
- A test run that the CPU limit ends is a plain wrong answer: only the wall-clock
  timeout is tagged (`evaluation/graders.py:184`, against the comment at line 48);
  `Sandbox` has it (`OverCpu`).
- A stream is not retried, and its failures are httpx and JSON errors, not
  `APIError`s (`client/api.py:346`); a body that ends early gives a final response
  without usage.
- `sandbox_timeout_s` is called a wall-clock cap (`agent/runner.py:52`) and bounds
  only CPU time, because `grade_unit_tests` passes the task's timeout.
- After a timeout only the test process is killed; processes it started live on
  (`sandbox/executor.py:188`); `Sandbox` has them. What they write can make the removal
  of the guard directory raise, which turns the result into a `grader_error`
  (`sandbox/executor.py:165`, `Leave`).
- `complete` in the comparison is relative to the tasks of the rows that were read,
  so a model that stopped early is complete when nobody got further
  (`reporting/compare.py:87`).
- `strict` finds a reply that has only test files malformed; the grader it
  reproduces runs the tests on the seed files (`evaluation/regrade.py:189`).
  `StrictIsShipped` is about the files written, which are none in both.
- Files are kept from the workspace by having "test" in their name, and by nothing
  else: `largest_block` and `concat_blocks` write the target without that check
  (`evaluation/regrade.py:204`, 213), and a hidden test under another name would not
  be kept safe by it (`evaluation/graders.py:164`).
- A FILE marker inside a fenced block, in a comment of the code say, is paired with the
  next block as any other, but the search for its body starts inside the first block,
  whose closing fence can pass for an opening one (`evaluation/graders.py:88`).
- `--policies splice` alone has no baseline: the table formats `None` and the
  command ends before `--out-json` is written (`cli/app.py:508`); `Report` has the
  state `crashed`.
- `--policies splice,splice` counts every pass of the policy twice, since outcomes are
  grouped by the policy's name (`cli/app.py:432`, 485).
- One exception of `regrade_attempt` ends the command without a report, after all
  the test runs before it (`cli/app.py:488`).
- A chat that fails reaches the page as a plain 500 (`server/app.py:167`). An answer
  that comes after Clear fills a bubble that is no longer on the page and sets the
  footer (`server/static/app.js:317`).
- A malformed `models.yaml` raises a `YAMLError`, which `except (OSError,
  ValueError)` does not catch (`server/app.py:100`, `cli/app.py:104`).
- A malformed `suite.yaml` raises what YAML or pydantic raise, not the
  `TaskValidationError` of the docstring, and `bench validate` ends in a traceback
  (`tasks/loader.py:63`); a manifest that is no mapping is passed over. A task file
  that is gone between the listing and the reading, or is not UTF-8, raises an
  `OSError` or `UnicodeDecodeError` (`tasks/loader.py:38`). In `SuiteLoad` these are
  the result `exception`, and `LoadsAllOrNamesTheError` says when it can happen.
- Two directories that declare the same name: the later replaces the earlier
  (`tasks/loader.py:100`), which the property allows; a task's own `suite` is not
  compared with its directory, and one task id in two suites is one row of
  compare's task table (`reporting/compare.py:105`).
- `build_coding_suite` writes a task over the last good one and then verifies it; an
  invalid definition ends with 0 although the docstring lists the schema (line 6),
  and a task without a solution is a `KeyError` after its file was written. Neither
  script deletes the file of a task that was renamed or removed.
- Verification runs without a memory limit, grading with one.
- `--limit -1` leaves the last task out (`cli/app.py:171`); `UpTo` models it.
- `suite_hash` is a digest of ids and prompts (`provenance.py:64`), so that hidden
  tests can change under it, where the README (line 19) has "a hash of the exact
  tasks used"; no command reads it.
- `exact_match` compares strictly when the expected answer has a capital, also
  without `case_sensitive` (`evaluation/graders.py:118`).

## 6. Environment assumptions

- POSIX: on Windows the CPU and memory limits of the sandbox do not exist.
- `sqlite3` in its default (legacy) transaction mode.
- The clock is not set back between two runs (`NewestFirst`).
- A directory whose removal fails is one that a live process writes to or that the
  submission has sealed; disks do not fail while a directory is removed.
- `write_text` truncates the file and writes it in one go; the scripts are run one at
  a time; what authors write is UTF-8.
- The hidden tests give the same verdict for the same files, or time out.

## 7. Not modelled

- The text graders: string comparison. `llm_judge` has no judge in the program and
  is the `grader_error` of `GradeText`.
- `coding_defs_a.py` and `coding_defs_b.py`, and the prompts in the extra generator:
  data. What a definition is worth is its kind in `SuiteBuild`.
- `estimate_cost`: one multiplication per token count.
- Drawing, HTML, CSS, theme, presets, the suite browser; the printing of `models`,
  `suites` and `validate`, and `web`; `.env` parsing; git hashes.

## 8. Plan

Done: the modules above, in the order client, database, bench run, sandbox,
compare, regrade, dashboard, report, streams, suites, catalog; then the theorems on
every safety property, component by component.

Next:

1. The part of the other liveness properties that needs no fairness, as `StepsRunOut` does
   for `RunEnds`: a bound on the steps of a grading, of a call and of a load.
2. `ListFollowsToggle` under the conditions in which it does hold (finding 3).
3. Grading in `BenchRun` composed with `Sandbox` step by step, so that an interrupt
   that reaches pytest is one step of both.
