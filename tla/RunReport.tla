------------------------------ MODULE RunReport ------------------------------
(***************************************************************************)
(* `bench report`: the tables of one stored run, beside the comparison     *)
(* that reads the same rows.  Cost, latency, tokens and the mean score are *)
(* further sums over a group and are left out, as is the rendering.        *)
(***************************************************************************)
EXTENDS Comparison

\* Mutant of SummarizeGroup: the faults are taken out of the group's N.
SummarizeGroupGraded(rows, group) ==
    LET faults == {i \in group : rows[i].outcome = "fault"}
    IN  [attempts |-> Cardinality(group \ faults),
         passed   |-> Cardinality(Passed(rows, group)),
         faults   |-> Cardinality(faults)]

\* Unlike compare's, the rate of a group is passed / attempts, faults included.
SummarizeGroup(rows, group) ==
    [attempts |-> Cardinality(group),
     passed   |-> Cardinality(Passed(rows, group)),
     faults   |-> Cardinality({i \in group : rows[i].outcome = "fault"})]

GroupBy(rows, KeyOf(_)) ==
    [k \in {KeyOf(rows[i]) : i \in DOMAIN rows} |->
        SummarizeGroup(rows, Where(rows, LAMBDA r : KeyOf(r) = k))]

\* The three tables of a report, and the three sections of its Markdown file.
Sections(rows) == [model |-> GroupBy(rows, LAMBDA r : r.model),
                   suite |-> GroupBy(rows, LAMBDA r : SuiteOf[r.task]),
                   task  |-> GroupBy(rows, LAMBDA r : r.task)]

\* The tables `report --run` shows of a run whose rows are these: none if empty.
ReportOf(rows) == IF rows = <<>> THEN <<>> ELSE <<Sections(rows)>>

-----------------------------------------------------------------------------
\* The rows that the i-th query of the comparison returned.
RowsRead(i) ==
    LET before == SumFunction([j \in 1 .. i - 1 |-> reads[j][3]])
    IN  SubSeq(got, before + 1, before + reads[i][3])

\* A number of one line of one table, over the reports of all the runs.
Reported(table, key, number) ==
    SumFunction([i \in DOMAIN reads |->
        LET report == ReportOf(RowsRead(i))
        IN  IF report = <<>> \/ key \notin DOMAIN report[1][table]
            THEN 0
            ELSE report[1][table][key][number]])

(* The reports of the single runs add up, model by model, to the             *)
(* comparison's attempts, passes and faults, and task by task and suite by   *)
(* suite to its graded attempts once the faults are taken out                *)
(* (summarize_by_model, summarize_by_task against aggregate).                *)
ReportsAddUpToComparison ==
    step = "done" =>
        /\ \A e \in Entries(got) :
              /\ Reported("model", e.model, "attempts") = e.total
              /\ Reported("model", e.model, "passed") = e.passed
              /\ Reported("model", e.model, "faults") = e.faults
        /\ \A t \in TasksOf(got, DOMAIN got) :
              /\ Reported("task", t, "attempts") - Reported("task", t, "faults")
                    = TaskCell(got, t).n
              /\ Reported("task", t, "passed") = TaskCell(got, t).passed
        /\ \A s \in SuitesOf(got) :
              Reported("suite", s, "attempts") - Reported("suite", s, "faults")
                 = SumFunction([e \in Entries(got) |-> SuiteCell(got, e.model, s).attempts])

(* All published numbers agree: the comparison's with each other, and with   *)
(* the reports of the same rows, although the two treat faults differently.  *)
PublishedNumbersAgree == NumbersReconcile /\ ReportsAddUpToComparison
=============================================================================
