----------------------------- MODULE Comparison -----------------------------
(***************************************************************************)
(* `bench compare`: aggregate() reads several result databases, run by run *)
(* and each in a session of its own, while `bench run` processes may still *)
(* be adding rows to them; the rows are then summarised per model, the     *)
(* models ordered, and drawn.                                              *)
(*                                                                         *)
(* Latency, tokens, cost and provenance are sums and unions over the same  *)
(* rows and are left out.  Models are numbers in the order of their names. *)
(***************************************************************************)
EXTENDS Naturals, FiniteSets, Sequences, SequencesExt

CONSTANTS NFiles,        \* the databases on the command line, all different
          NModels,
          Schedules,     \* the task lists a run can have: sequences of tasks
          SuiteOf,       \* the suite of each task
          MaxRuns        \* bound: runs in all files together

ASSUME ComparisonAssumption ==
    /\ NFiles \in Nat \ {0} /\ NModels \in Nat \ {0} /\ MaxRuns \in Nat
    /\ Schedules \subseteq Seq(DOMAIN SuiteOf)

VARIABLES files,         \* files[f][id]: a run, its model, schedule and rows
          step,          \* where aggregate is
          at,            \* the file it reads
          pending,       \* the runs of that file it has still to read
          got,           \* the rows it has read
          reads,         \* history: <<file, run, rows read>>, one per query
          atStart        \* history: the rows of each run when compare began

vars == <<files, step, at, pending, got, reads, atStart>>
reader == <<step, at, pending, got, reads, atStart>>

Tasks == DOMAIN SuiteOf
Models == 1 .. NModels
Outcomes == {"pass", "fail", "fault"}
Rows == [task : Tasks, model : Models, outcome : Outcomes]

Init == /\ files = [f \in 1 .. NFiles |-> <<>>]
        /\ step = "idle"
        /\ at = 1
        /\ pending = <<>>
        /\ got = <<>>
        /\ reads = <<>>
        /\ atStart = <<>>

-----------------------------------------------------------------------------
(* The writers: `bench run` on any of the files.                           *)

RunCount == LET counts == [f \in 1 .. NFiles |-> Len(files[f])]
            IN  SumFunction(counts)

StartRun(f, model, schedule) ==
    /\ RunCount < MaxRuns
    /\ files' = [files EXCEPT ![f] =
                    Append(@, [model |-> model, schedule |-> schedule, rows |-> <<>>])]
    /\ UNCHANGED reader

\* A run may stop after any row.
Record(f, id, outcome) ==
    LET run == files[f][id]
        done == Len(run.rows)
    IN  /\ done < Len(run.schedule)
        /\ files' = [files EXCEPT ![f][id].rows =
                        Append(@, [task |-> run.schedule[done + 1],
                                   model |-> run.model,
                                   outcome |-> outcome])]
        /\ UNCHANGED reader

-----------------------------------------------------------------------------
(* The reader.                                                             *)

RowCounts == [f \in 1 .. NFiles |-> [id \in DOMAIN files[f] |-> Len(files[f][id].rows)]]

Begin == /\ step = "idle"
         /\ step' = "listing"
         /\ atStart' = RowCounts
         /\ UNCHANGED <<files, at, pending, got, reads>>

\* Mutant of ListRuns: only the latest run of a file is compared.
ListLatestRun ==
    /\ step = "listing"
    /\ pending' = IF files[at] = <<>> THEN <<>> ELSE <<Len(files[at])>>
    /\ step' = "reading"
    /\ UNCHANGED <<files, at, got, reads, atStart>>

\* Mutant of ListRuns: the ids are taken to start at 0.
ListRunsFromZero ==
    /\ step = "listing"
    /\ pending' = Reverse([id \in DOMAIN files[at] |-> id - 1])
    /\ step' = "reading"
    /\ UNCHANGED <<files, at, got, reads, atStart>>

\* store.runs(): newest first.
ListRuns ==
    /\ step = "listing"
    /\ pending' = Reverse([id \in DOMAIN files[at] |-> id])
    /\ step' = "reading"
    /\ UNCHANGED <<files, at, got, reads, atStart>>

\* rows.extend(store.attempts(run.id))
ReadAttempts ==
    /\ step = "reading"
    /\ pending # <<>>
    /\ LET id == Head(pending)
           rows == files[at][id].rows
       IN  /\ got' = got \o rows
           /\ reads' = Append(reads, <<at, id, Len(rows)>>)
    /\ pending' = Tail(pending)
    /\ UNCHANGED <<files, step, at, atStart>>

NextFile ==
    /\ step = "reading"
    /\ pending = <<>>
    /\ IF at < NFiles THEN at' = at + 1 /\ step' = "listing"
                      ELSE at' = at /\ step' = "done"
    /\ UNCHANGED <<files, pending, got, reads, atStart>>

-----------------------------------------------------------------------------
(* The summary: pure functions of the rows that were read, of which a set   *)
(* of positions picks some.                                                *)

Where(rows, Test(_)) == {i \in DOMAIN rows : Test(rows[i])}

Graded(rows, model) == Where(rows, LAMBDA r : r.model = model /\ r.outcome # "fault")

Passed(rows, picked) == {i \in picked : rows[i].outcome = "pass"}

SuiteCell(rows, model, suite) ==
    LET sub == {i \in Graded(rows, model) : SuiteOf[rows[i].task] = suite}
    IN  [attempts |-> Cardinality(sub), passed |-> Cardinality(Passed(rows, sub))]

TasksOf(rows, picked) == {rows[i].task : i \in picked}
SuitesOf(rows) == {SuiteOf[t] : t \in TasksOf(rows, DOMAIN rows)}

Entry(rows, model) ==
    LET mine == Where(rows, LAMBDA r : r.model = model)
        graded == Graded(rows, model)
        seen == TasksOf(rows, graded)
    IN  [model |-> model,
         total |-> Cardinality(mine),
         graded |-> Cardinality(graded),
         faults |-> Cardinality(mine) - Cardinality(graded),
         passed |-> Cardinality(Passed(rows, graded)),
         seen |-> Cardinality(seen),
         complete |-> Cardinality(seen) = Cardinality(TasksOf(rows, DOMAIN rows))]

Entries(rows) == {Entry(rows, m) : m \in {rows[i].model : i \in DOMAIN rows}}

Rated(e) == e.graded # 0

\* pass_rate of a above that of b; both rated.
Above(a, b) == a.passed * b.graded > b.passed * a.graded

\* The elements of a set, in an order that is total on it.
InOrder(S, Before(_, _)) ==
    CHOOSE list \in SetToSeqs(S) :
        \A i, j \in DOMAIN list : i < j => Before(list[i], list[j])

\* models.sort(key=(pass_rate is None, -pass_rate)), stable over the names.
ListedBefore(a, b) ==
    \/ Rated(a) /\ ~Rated(b)
    \/ Rated(a) = Rated(b) /\ IF Rated(a) /\ (Above(a, b) \/ Above(b, a))
                              THEN Above(a, b)
                              ELSE a.model < b.model

Listed(rows) == InOrder(Entries(rows), ListedBefore)

\* Mutant of DrawnBefore: the bars are sorted by rate alone.
DrawnBeforeByRate(a, b, place) ==
    IF Rated(a) # Rated(b) THEN ~Rated(a)
    ELSE IF Rated(a) /\ (Above(a, b) \/ Above(b, a)) THEN Above(b, a)
    ELSE place[a] < place[b]

\* unrated + sorted(rated, key=(complete, pass_rate)): bottom to top.
DrawnBefore(a, b, place) ==
    IF Rated(a) # Rated(b) THEN ~Rated(a)
    ELSE IF Rated(a) /\ a.complete # b.complete THEN b.complete
    ELSE IF Rated(a) /\ (Above(a, b) \/ Above(b, a)) THEN Above(b, a)
    ELSE place[a] < place[b]

Figure(rows) ==
    LET list == Listed(rows)
        place == [e \in Entries(rows) |-> CHOOSE i \in DOMAIN list : list[i] = e]
    IN  InOrder(Entries(rows), LAMBDA a, b : DrawnBefore(a, b, place))

\* tasks[task_id], over the rows without a fault.
TaskCell(rows, task) ==
    LET of == Where(rows, LAMBDA r : r.task = task /\ r.outcome # "fault")
    IN  [n |-> Cardinality(of), passed |-> Cardinality(Passed(rows, of))]

-----------------------------------------------------------------------------

Writers == \/ \E f \in 1 .. NFiles, m \in Models, s \in Schedules : StartRun(f, m, s)
           \/ \E f \in 1 .. NFiles : \E id \in DOMAIN files[f], o \in Outcomes : Record(f, id, o)

Reader == Begin \/ ListRuns \/ ReadAttempts \/ NextFile

Next == Writers \/ Reader

Spec == Init /\ [][Next]_vars

-----------------------------------------------------------------------------
(* Properties.                                                             *)

TypeOK ==
    /\ \A f \in 1 .. NFiles : \A id \in DOMAIN files[f] :
          files[f][id] \in [model : Models, schedule : Schedules, rows : Seq(Rows)]
    /\ step \in {"idle", "listing", "reading", "done"}
    /\ at \in 1 .. NFiles
    /\ \A i \in DOMAIN pending : pending[i] \in DOMAIN files[at]
    /\ got \in Seq(Rows)

(* Whatever is written meanwhile, every row that was stored when compare     *)
(* began is counted, and no run is read twice (aggregate's two loops).       *)
EveryStoredRowCountedOnce ==
    step = "done" =>
        /\ \A f \in 1 .. NFiles : \A id \in DOMAIN atStart[f] :
              \E i \in DOMAIN reads : /\ reads[i][1] = f /\ reads[i][2] = id
                                      /\ reads[i][3] >= atStart[f][id]
        /\ \A i, j \in DOMAIN reads :
              reads[i][1] = reads[j][1] /\ reads[i][2] = reads[j][2] => i = j

(* The published numbers reconcile: per model, graded attempts and faults    *)
(* are its attempts, its suites add up to its graded attempts, and the       *)
(* tasks add up to the graded attempts of all models (aggregate).            *)
NumbersReconcile ==
    step = "done" =>
        /\ \A e \in Entries(got) :
              LET cells == [s \in SuitesOf(got) |-> SuiteCell(got, e.model, s)]
              IN  /\ SumFunction([s \in SuitesOf(got) |-> cells[s].attempts]) = e.graded
                  /\ SumFunction([s \in SuitesOf(got) |-> cells[s].passed]) = e.passed
                  /\ e.passed <= e.graded
        /\ SumFunction([t \in TasksOf(got, DOMAIN got) |-> TaskCell(got, t).n])
              = SumFunction([e \in Entries(got) |-> e.graded])

\* The run of the i-th query had stored its whole schedule.
WholeRun(i) == reads[i][3] = Len(files[reads[i][1]][reads[i][2]].schedule)

(* "Incomplete runs are [...] sorted below the complete ones", so none of    *)
(* them heads the chart (plot_comparison), whatever the ties.  What counts   *)
(* as complete is relative to the rows that were read, but never less than   *)
(* the schedule of a run that was read whole: a model that was not graded on *)
(* all of its tasks is incomplete (aggregate's total_tasks).                 *)
IncompleteNeverOnTop ==
    step = "done" =>
        LET bars == Figure(got)
        IN  /\ \A i, j \in DOMAIN bars :
                  (i < j /\ Rated(bars[i]) /\ bars[i].complete) => bars[j].complete
            /\ \A e \in Entries(got), i \in DOMAIN reads :
                  (e.complete /\ WholeRun(i)) =>
                      ToSet(files[reads[i][1]][reads[i][2]].schedule)
                          \subseteq TasksOf(got, Graded(got, e.model))
=============================================================================
