------------------------------ MODULE SuiteLoad ------------------------------
(***************************************************************************)
(* Reading the suites: load_suites (tasks/loader.py) for the commands and  *)
(* the server, the selection of `bench run` and the row that start_run     *)
(* stores with the digest of the tasks (provenance.py), while the scripts  *)
(* of SuiteBuild write and authors edit.                                   *)
(*                                                                         *)
(* A load reads directory by directory and file by file and holds nothing  *)
(* back from anybody who writes.  What it returns is in memory and cannot  *)
(* change under the run.                                                   *)
(***************************************************************************)
EXTENDS SuiteBuild, Integers

CONSTANTS DirOrder,      \* the directories, sorted
          NameOrder,     \* per directory its YAML task files, sorted
          Wanted,        \* the suite a command wants, None: all of them
          Selections     \* <<task, limit>>: what of it `bench run` is told to run

ASSUME SuiteLoadAssumption ==
    /\ ToSet(DirOrder) = Suites /\ IsInjective(DirOrder)
    /\ DirOrder \in Seq(Suites)
    /\ \A s \in Suites : /\ NameOrder[s] \in Seq(TaskIds(s)) /\ IsInjective(NameOrder[s])
                         /\ ToSet(NameOrder[s]) = TaskIds(s)
    /\ Selections \subseteq (AllIds \union {None}) \X (Int \union {None})

VARIABLES wanted,        \* what this load is for
          at,            \* where it is
          left,          \* the directories still to read, the current one first
          head,          \* the current directory's name, and whether it has a manifest
          names,         \* its task files still to read
          got,           \* the tasks read from it
          loaded,        \* name -> the directory and the tasks
          result,
          run            \* the run a command has stored: its digest and its tasks

loadVars == <<wanted, at, left, head, names, got, loaded, result, run>>
vars == <<buildVars, loadVars>>

NoHead == [name |-> None, has |-> FALSE]
NoRun == [hash |-> {}, tasks |-> <<>>]

Init == /\ BuildInit
        /\ wanted = None
        /\ at = "idle"
        /\ left = <<>>
        /\ head = NoHead
        /\ names = <<>>
        /\ got = <<>>
        /\ loaded = <<>>
        /\ result = None
        /\ run = NoRun

-----------------------------------------------------------------------------

Begin(w) ==
    /\ at = "idle"
    /\ at' = "manifest"
    /\ wanted' = w
    /\ left' = DirOrder
    /\ loaded' = <<>>
    /\ changed' = {}
    /\ UNCHANGED <<defs, files, stage, source, todo, failures, edits, deaths, touched,
                   head, names, got, result, run>>

Return(outcome) == at' = "returned" /\ result' = outcome

Here(name) == files[<<Head(left), name>>]

\* read_text, safe_load and SuiteManifest raise what they raise: nobody turns it into
\* a TaskValidationError.  What is no mapping counts as no manifest data.
ReadManifest ==
    /\ at = "manifest"
    /\ IF Here(Manifest).form \in {"broken", "garbled"}
       THEN Return("exception") /\ UNCHANGED head
       ELSE /\ at' = "listing"
            /\ head' = [name |-> IF Here(Manifest).form = "whole" THEN Here(Manifest).holds
                                                                  ELSE Head(left),
                        has |-> Here(Manifest).form # "absent"]
            /\ UNCHANGED result
    /\ UNCHANGED <<buildVars, wanted, left, names, got, loaded, run>>

\* Mutant of Listing: the manifest is not left out.
ListingAll ==
    LET all == Append(NameOrder[Head(left)], Manifest)
    IN  Pick(all, {i \in DOMAIN all : Here(all[i]) # Absent})

Listing ==
    LET all == NameOrder[Head(left)]
    IN  Pick(all, {i \in DOMAIN all : Here(all[i]) # Absent})

Glob ==
    /\ at = "listing"
    /\ names' = Listing
    /\ at' = "reading"
    /\ UNCHANGED <<buildVars, wanted, left, head, got, loaded, result, run>>

\* _parse_task_file: it turns YAML and schema errors into its own, not those of
\* read_text, for a file that is gone by now or is not UTF-8.
Parses(file) == file.form \in {"whole", "short"} /\ file.version.kind # "invalid"

Failure(file) == IF file.form \in {"absent", "garbled"} THEN "exception"
                                                       ELSE "TaskValidationError"

\* Mutant of ReadTask: a file that does not validate is passed over.
ReadTaskSkipping ==
    /\ at = "reading"
    /\ names # <<>>
    /\ IF Here(Head(names)) = Absent THEN Return("exception") /\ UNCHANGED <<names, got>>
       ELSE /\ names' = Tail(names)
            /\ got' = IF Parses(Here(Head(names))) THEN Append(got, Here(Head(names))) ELSE got
            /\ UNCHANGED <<at, result>>
    /\ UNCHANGED <<buildVars, wanted, left, head, loaded, run>>

\* One file of the listing.
ReadTask ==
    /\ at = "reading"
    /\ names # <<>>
    /\ IF Parses(Here(Head(names)))
       THEN /\ names' = Tail(names)
            /\ got' = Append(got, Here(Head(names)))
            /\ UNCHANGED <<at, result>>
       ELSE /\ Return(Failure(Here(Head(names))))
            /\ UNCHANGED <<names, got>>
    /\ UNCHANGED <<buildVars, wanted, left, head, loaded, run>>

\* The suites after the current directory: none when it was not asked for, or is
\* empty and undeclared; else under its name, in the place of an earlier one.
Collected(tasks) ==
    IF \/ wanted \notin {None, head.name}
       \/ tasks = <<>> /\ ~head.has
    THEN loaded
    ELSE [name \in DOMAIN loaded \union {head.name} |->
             IF name = head.name THEN [dir |-> Head(left), tasks |-> tasks] ELSE loaded[name]]

\* Mutant of Distinct: duplicates are looked for before the JSON files are read.
DistinctSoFar(tasks) == IsInjective([i \in DOMAIN got |-> got[i].holds])

Distinct(tasks) == IsInjective([i \in DOMAIN tasks |-> tasks[i].holds])

\* The JSON files, the check for duplicates, the entry, the next directory.
EndDirectory ==
    /\ at = "reading"
    /\ names = <<>>
    /\ LET tasks == IF Here(ByHand) = Absent THEN got ELSE Append(got, Here(ByHand))
       IN  IF (Here(ByHand) = Absent \/ Parses(Here(ByHand))) /\ Distinct(tasks)
           THEN /\ loaded' = Collected(tasks)
                /\ left' = Tail(left)
                /\ IF Len(left) > 1 THEN at' = "manifest" /\ UNCHANGED result
                   ELSE Return(IF wanted \in {None} \union DOMAIN loaded'
                               THEN "ok" ELSE "TaskValidationError")
           ELSE /\ Return(IF Here(ByHand) = Absent \/ Parses(Here(ByHand))
                          THEN "TaskValidationError" ELSE Failure(Here(ByHand)))
                /\ UNCHANGED <<loaded, left>>
    /\ got' = <<>>
    /\ head' = NoHead
    /\ UNCHANGED <<buildVars, wanted, names, run>>

-----------------------------------------------------------------------------
(* `bench run`: a command that wants one suite.                            *)

\* Python's tasks[:n]
UpTo(tasks, n) == SubSeq(tasks, 1, IF n < 0 THEN Len(tasks) + n ELSE Min({n, Len(tasks)}))

Named(tasks, id) ==
    IF id = None THEN tasks ELSE Pick(tasks, {i \in DOMAIN tasks : tasks[i].holds = id})

Limited(tasks, n) == IF n = None THEN tasks ELSE UpTo(tasks, n)

SelectTasks(selection) == Limited(Named(loaded[wanted].tasks, selection[1]), selection[2])

\* The digest reads the prompts.
SuiteHash(tasks) == {<<tasks[i].holds, tasks[i].version.prompt>> : i \in DOMAIN tasks}

StoreRun ==
    /\ at = "returned"
    /\ result = "ok"
    /\ wanted # None
    /\ \E selection \in Selections :
          /\ SelectTasks(selection) # <<>>
          /\ run' = [hash |-> SuiteHash(SelectTasks(selection)), tasks |-> SelectTasks(selection)]
    /\ at' = "stored"
    /\ UNCHANGED <<buildVars, wanted, left, head, names, got, loaded, result>>

\* The command ends: an error is shown, nothing was selected, or the run is over.
Leave ==
    /\ at \in {"returned", "stored"}
    /\ at' = "idle"
    /\ wanted' = None
    /\ left' = <<>>
    /\ head' = NoHead
    /\ names' = <<>>
    /\ got' = <<>>
    /\ loaded' = <<>>
    /\ result' = None
    /\ run' = NoRun
    /\ changed' = Paths
    /\ UNCHANGED <<defs, files, stage, source, todo, failures, edits, deaths, touched>>

-----------------------------------------------------------------------------

Load == \/ \E w \in Wanted : Begin(w)
        \/ ReadManifest \/ Glob \/ ReadTask \/ EndDirectory \/ StoreRun \/ Leave

Next == \/ BuildNext /\ UNCHANGED loadVars
        \/ Load

Spec == Init /\ [][Next]_vars

\* A script runs on; when one has died and none is running, it is run again, in
\* the end, whatever else people run.
Fairness == /\ \A b \in Scripts : WF_vars(Script(b) /\ UNCHANGED loadVars)
            /\ SF_vars((\E b \in Scripts : Rerun(b)) /\ UNCHANGED loadVars)

FairSpec == Spec /\ Fairness

-----------------------------------------------------------------------------
(* Properties.                                                             *)

TypeOK ==
    /\ BuildTypeOK
    /\ at \in {"idle", "manifest", "listing", "reading", "returned", "stored"}
    /\ wanted \in Wanted \union {None}
    /\ at \in {"manifest", "listing", "reading"} => left # <<>>
    /\ left \in Seq(Suites)
    /\ head \in [name : Suites \union {OtherName, None}, has : BOOLEAN]
    /\ names \in Seq(AllIds)
    /\ got \in Seq(Files)
    /\ \A n \in DOMAIN loaded : loaded[n] \in [dir : Suites, tasks : Seq(Files)]
    /\ result \in {None, "ok", "TaskValidationError", "exception"}
    /\ run \in [hash : SUBSET (AllIds \X {v.prompt : v \in Versions}), tasks : Seq(Files)]

\* The task files of a directory that nobody has changed since the load began.
Undisturbed(s) == {p \in Paths : /\ p[1] = s /\ p[2] # Manifest
                                 /\ p \notin changed /\ files[p] # Absent}

Place(s) == CHOOSE i \in DOMAIN DirOrder : DirOrder[i] = s

DeclaredName(s) == LET f == files[<<s, Manifest>>] IN IF f.form = "whole" THEN f.holds ELSE s

\* Every one of them is valid, and its task is in the suite its directory declares,
\* or in none because a later directory declares the same name.
EverythingLoaded ==
    \A s \in Suites : \A p \in Undisturbed(s) :
        LET name == DeclaredName(s)
        IN  /\ Parses(files[p])
            /\ (<<s, Manifest>> \notin changed /\ wanted \in {None, name}) =>
                  /\ name \in DOMAIN loaded
                  /\ \/ files[p] \in ToSet(loaded[name].tasks)
                     \/ Place(loaded[name].dir) > Place(s)

\* The manifest is malformed or just being written; the task file was changed before
\* it was read, or is not UTF-8.
NobodysError ==
    IF names = <<>>
    THEN Here(Manifest) = Broken \/ <<Head(left), Manifest>> \in changed
    ELSE Here(Head(names)) = Garbled \/ <<Head(left), Head(names)>> \in changed

(* A load is all or nothing.  When load_suites returns, every task file      *)
(* that was there all the time is valid, also those of suites nobody asked   *)
(* for, and is loaded as it is on the disk.  When a task file is at fault,   *)
(* the load fails with the error the commands and the server handle          *)
(* (_parse_task_file, load_suite, load_suites).                              *)
LoadsAllOrNamesTheError ==
    at = "returned" =>
        /\ result = "ok" => EverythingLoaded
        /\ result = "exception" => NobodysError

(* What _run_all loops over: a run that is stored has at least one task,   *)
(* no task twice, and the digest was taken of these tasks; so that task    *)
(* and attempt number name a row: the schedules BenchRun, Comparison and   *)
(* Regrade take for granted.                                               *)
SchedulesProper ==
    at = "stored" =>
        /\ run.tasks # <<>>
        /\ IsInjective([k \in DOMAIN run.tasks |-> run.tasks[k].holds])
        /\ Cardinality(run.hash) = Len(run.tasks)
=============================================================================
