----------------------------- MODULE SuiteBuild -----------------------------
(***************************************************************************)
(* The two generators of the shipped tasks (scripts/gen_suite) and the     *)
(* directories they write.  build_coding_suite writes the file of a task   *)
(* and then runs its hidden tests twice, on the buggy files and on the     *)
(* reference solution; build_extra_suites writes a manifest and the tasks  *)
(* of one suite after the other, validated before they are written.        *)
(*                                                                         *)
(* write_text truncates the file when it opens it and writes it in one go; *)
(* a process that is killed, or a full disk, leaves what had arrived.      *)
(* Scripts never delete.  Authors edit definitions and files meanwhile.    *)
(***************************************************************************)
EXTENDS Naturals, FiniteSets, Sequences, SequencesExt

CONSTANTS Coding,        \* the suite build_coding_suite writes
          ExtraSuites,   \* the suites build_extra_suites writes, in order
          TaskOrder,     \* per suite its task ids, as the script lists them
          OtherName,     \* a suite name that is no directory
          Versions,      \* what a definition can be, see Kinds
          None,
          DefinitionEdits, \* what authors do: <<task id, version or None (removed)>>
          FileEdits,       \* and <<path, content>>, by hand
          MaxEdits,      \* bound: edits
          MaxDeaths      \* bound: scripts killed, or stopped by a full disk

\* What comes of a definition: its tests fail on the buggy files and pass on the
\* solution; they do not; no solution is registered; TaskSpec refuses it.
Kinds == {"sound", "unsound", "unsolved", "invalid"}

Scripts == {"coding", "extra"}
Suites == {Coding} \union ToSet(ExtraSuites)
TaskIds(s) == ToSet(TaskOrder[s])
AllIds == UNION {TaskIds(s) : s \in Suites}

Manifest == "suite.yaml"
ByHand == "by_hand.json"          \* a task file that no script writes
Paths == UNION {{s} \X (TaskIds(s) \union {Manifest, ByHand}) : s \in Suites}

VARIABLES defs,          \* the definition of each task in the scripts, None: removed
          files,         \* the content of each path
          stage,         \* where each script is
          source,        \* the definitions a script has imported
          todo,          \* the files it has still to write, the current one first
          failures,      \* build_coding_suite: tasks that failed verification
          edits, deaths,
          touched,       \* history: paths an author changed since the script began
          changed        \* history: paths changed since the last load began

buildVars == <<defs, files, stage, source, todo, failures, edits, deaths, touched, changed>>

\* `holds` is a task id, or the name a manifest declares.
File(form, holds, version) == [form |-> form, holds |-> holds, version |-> version]

Absent == File("absent", None, None)
Empty == File("empty", None, None)
Broken == File("broken", None, None)     \* is not YAML, or not what the reader expects
Garbled == File("garbled", None, None)   \* is not UTF-8
TaskFile(id, version) == File("whole", id, version)
ManifestFile(name) == File("whole", name, None)

Files == [form : {"absent", "empty", "broken", "garbled", "short", "whole"},
          holds : AllIds \union Suites \union {OtherName, None},
          version : Versions \union {None}]

\* What can be found at a path: of a task also the beginning alone.
Contents(path) ==
    {Absent, Empty, Broken} \union
    IF path[2] = Manifest THEN {ManifestFile(name) : name \in Suites \union {OtherName}}
    ELSE [form : {"short", "whole"}, holds : AllIds, version : Versions]
         \union IF path[2] = ByHand THEN {} ELSE {Garbled}

ASSUME SuiteBuildAssumption ==
    /\ ExtraSuites \in Seq(ToSet(ExtraSuites))
    /\ Coding \notin ToSet(ExtraSuites) /\ IsInjective(ExtraSuites)
    /\ \A s \in Suites : /\ TaskOrder[s] \in Seq(TaskIds(s)) /\ IsInjective(TaskOrder[s])
                         /\ TaskIds(s) \cap {Manifest, ByHand} = {}
    /\ OtherName \notin Suites
    /\ \A v \in Versions : v.kind \in Kinds
    /\ None \notin Versions /\ None \notin AllIds
    /\ DefinitionEdits \subseteq AllIds \X (Versions \union {None})
    /\ \A e \in FileEdits : e[1] \in Paths /\ e[2] \in Contents(e[1]) \ {Garbled}
    /\ MaxEdits \in Nat /\ MaxDeaths \in Nat

\* The part of a file that had arrived when its writer died.  A coding task is ASCII
\* and ends within a quoted test; the other tasks are not, and have their grader
\* before the last keys, so that the beginning of one can be a task that asks for
\* less.  Of a manifest a part of its name may be left, `name:` alone is null.
Cuts(path, whole) ==
    {Empty, Broken} \union
    IF path[2] = Manifest THEN {ManifestFile(OtherName), whole}
    ELSE IF path[1] = Coding THEN {}
    ELSE {Garbled, [whole EXCEPT !.form = "short"]}

-----------------------------------------------------------------------------
(* What a script writes, from the definitions it imported.                 *)

Ids(script) == IF script = "coding" THEN TaskIds(Coding)
                                    ELSE UNION {TaskIds(s) : s \in ToSet(ExtraSuites)}

\* The elements of a sequence at some of its positions, in their order.
Pick(seq, positions) ==
    [k \in 1 .. Cardinality(positions) |->
        seq[CHOOSE i \in positions : Cardinality({j \in positions : j < i}) = k - 1]]

TaskPaths(s, definitions) ==
    LET paths == [i \in DOMAIN TaskOrder[s] |-> <<s, TaskOrder[s][i]>>]
    IN  Pick(paths, {i \in DOMAIN paths : definitions[TaskOrder[s][i]] # None})

Plan(script, definitions) ==
    IF script = "coding" THEN TaskPaths(Coding, definitions)
    ELSE FlattenSeq([i \in DOMAIN ExtraSuites |->
             <<<<ExtraSuites[i], Manifest>>>> \o TaskPaths(ExtraSuites[i], definitions)])

Payload(script, path) ==
    IF path[2] = Manifest THEN ManifestFile(path[1])
                          ELSE TaskFile(path[2], source[script][path[2]])

\* build_extra_suites makes the TaskSpecs of a suite right before it writes the suite.
Refused(script, path) ==
    /\ path[2] = Manifest
    /\ \E t \in TaskIds(path[1]) : source[script][t] # None /\ source[script][t].kind = "invalid"

-----------------------------------------------------------------------------

\* As the repository ships it: both scripts have been run.
BuildInit ==
    /\ \E v \in Versions : v.kind = "sound" /\ defs = [t \in AllIds |-> v]
    /\ files = [p \in Paths |->
                   IF p[2] = ByHand \/ p = <<Coding, Manifest>> THEN Absent
                   ELSE IF p[2] = Manifest THEN ManifestFile(p[1])
                   ELSE TaskFile(p[2], defs[p[2]])]
    /\ stage = [b \in Scripts |-> "ok"]
    /\ source = [b \in Scripts |-> [t \in Ids(b) |-> defs[t]]]
    /\ todo = [b \in Scripts |-> <<>>]
    /\ failures = {}
    /\ edits = 0 /\ deaths = 0
    /\ touched = [b \in Scripts |-> {}]
    /\ changed = Paths

Put(path, content) == /\ files' = [files EXCEPT ![path] = content]
                      /\ changed' = changed \union {path}

Active == {"open", "write", "verify"}

\* The scripts are run one at a time.
Start(b) ==
    /\ \A other \in Scripts : stage[other] \notin Active
    /\ source' = [source EXCEPT ![b] = [t \in Ids(b) |-> defs[t]]]
    /\ todo' = [todo EXCEPT ![b] = Plan(b, defs)]
    /\ stage' = [stage EXCEPT ![b] = IF Plan(b, defs) = <<>> THEN "ok" ELSE "open"]
    /\ failures' = IF b = "coding" THEN {} ELSE failures
    /\ touched' = [touched EXCEPT ![b] = {}]
    /\ UNCHANGED <<defs, files, edits, deaths, changed>>

\* Mutant of Open: a file that is there already is not written again.
OpenMissing(b) ==
    /\ stage[b] = "open"
    /\ ~Refused(b, Head(todo[b]))
    /\ IF files[Head(todo[b])] = Absent
       THEN Put(Head(todo[b]), Empty) /\ stage' = [stage EXCEPT ![b] = "write"] /\ UNCHANGED todo
       ELSE /\ todo' = [todo EXCEPT ![b] = Tail(@)]
            /\ stage' = [stage EXCEPT ![b] = IF Len(todo[b]) = 1 THEN "ok" ELSE "open"]
            /\ UNCHANGED <<files, changed>>
    /\ UNCHANGED <<defs, source, failures, edits, deaths, touched>>

Open(b) ==
    /\ stage[b] = "open"
    /\ ~Refused(b, Head(todo[b]))
    /\ Put(Head(todo[b]), Empty)
    /\ stage' = [stage EXCEPT ![b] = "write"]
    /\ UNCHANGED <<defs, source, todo, failures, edits, deaths, touched>>

\* The process is gone, and what it knew.
Gone(b, how) ==
    /\ stage' = [stage EXCEPT ![b] = how]
    /\ source' = [source EXCEPT ![b] = [t \in Ids(b) |-> None]]
    /\ todo' = [todo EXCEPT ![b] = <<>>]
    /\ failures' = IF b = "coding" THEN {} ELSE failures

\* A ValidationError of a TaskSpec; the suites before this one are written.
Refuse(b) ==
    /\ stage[b] = "open"
    /\ Refused(b, Head(todo[b]))
    /\ Gone(b, "failed")
    /\ UNCHANGED <<defs, files, edits, deaths, touched, changed>>

\* The script goes on to the next file, or ends with 0 when nothing failed.
Advance(b, failed) ==
    /\ todo' = [todo EXCEPT ![b] = Tail(@)]
    /\ stage' = [stage EXCEPT ![b] = IF Len(todo[b]) > 1 THEN "open"
                                     ELSE IF failed = {} THEN "ok" ELSE "failed"]

Write(b) ==
    /\ stage[b] = "write"
    /\ Put(Head(todo[b]), Payload(b, Head(todo[b])))
    /\ IF b = "coding" THEN stage' = [stage EXCEPT ![b] = "verify"] /\ UNCHANGED todo
                       ELSE Advance(b, {})
    /\ UNCHANGED <<defs, source, failures, edits, deaths, touched>>

Kind(b) == source[b][Head(todo[b])[2]].kind

\* Mutant of Verify: a failure is printed, not collected.
VerifyPrinting(b) ==
    /\ stage[b] = "verify"
    /\ Kind(b) # "unsolved"
    /\ Advance(b, failures)
    /\ UNCHANGED <<defs, files, source, failures, edits, deaths, touched, changed>>

\* The tests run in workspaces of their own; a schema error goes unnoticed.
Verify(b) ==
    /\ stage[b] = "verify"
    /\ Kind(b) # "unsolved"
    /\ failures' = failures \union (IF Kind(b) = "unsound" THEN {Head(todo[b])[2]} ELSE {})
    /\ Advance(b, failures')
    /\ UNCHANGED <<defs, files, source, edits, deaths, touched, changed>>

\* _solution_for raises KeyError, after the file was written.
NoSolution(b) ==
    /\ stage[b] = "verify"
    /\ Kind(b) = "unsolved"
    /\ Gone(b, "failed")
    /\ UNCHANGED <<defs, files, edits, deaths, touched, changed>>

Die(b) ==
    /\ stage[b] \in Active
    /\ deaths < MaxDeaths
    /\ deaths' = deaths + 1
    /\ Gone(b, "dead")
    /\ IF stage[b] = "write"
       THEN \E part \in Cuts(Head(todo[b]), Payload(b, Head(todo[b]))) : Put(Head(todo[b]), part)
       ELSE UNCHANGED <<files, changed>>
    /\ UNCHANGED <<defs, edits, touched>>

-----------------------------------------------------------------------------
(* Authors.                                                                *)

EditDefinition ==
    /\ edits < MaxEdits
    /\ edits' = edits + 1
    /\ \E e \in DefinitionEdits : defs' = [defs EXCEPT ![e[1]] = e[2]]
    /\ UNCHANGED <<files, stage, source, todo, failures, deaths, touched, changed>>

\* A task written or copied to a file of its own, a manifest of any name or a
\* malformed one, a file that is removed or spoilt.
EditFile ==
    /\ edits < MaxEdits
    /\ edits' = edits + 1
    /\ \E e \in FileEdits :
          /\ Put(e[1], e[2])
          /\ touched' = [b \in Scripts |-> touched[b] \union {e[1]}]
    /\ UNCHANGED <<defs, stage, source, todo, failures, deaths>>

Script(b) == Open(b) \/ Refuse(b) \/ Write(b) \/ Verify(b) \/ NoSolution(b)

Rerun(b) == stage[b] = "dead" /\ Start(b)

BuildNext == \/ EditDefinition \/ EditFile
             \/ \E b \in Scripts : Start(b) \/ Script(b) \/ Die(b)

-----------------------------------------------------------------------------
(* Properties.                                                             *)

BuildTypeOK ==
    /\ defs \in [AllIds -> Versions \union {None}]
    /\ files \in [Paths -> Files]
    /\ stage \in [Scripts -> {"ok", "failed", "dead"} \union Active]
    /\ DOMAIN source = Scripts
    /\ todo \in [Scripts -> Seq(Paths)]
    /\ \A b \in Scripts : /\ source[b] \in [Ids(b) -> Versions \union {None}]
                          /\ stage[b] \in Active => todo[b] # <<>>
    /\ failures \subseteq TaskIds(Coding)
    /\ edits \in 0 .. MaxEdits /\ deaths \in 0 .. MaxDeaths
    /\ touched \in [Scripts -> SUBSET Paths]
    /\ changed \subseteq Paths

(* What a script that ended with 0 says of the disk: every file of the     *)
(* definitions it imported is there and whole, whatever an earlier build   *)
(* that died or failed had left, and of the coding tasks the tests fail on *)
(* the buggy files and pass on the solution; unless an author has changed  *)
(* the file (build_coding_suite.main, build_extra_suites._write_suite).    *)
FinishedBuildIsGood ==
    \A b \in Scripts : stage[b] = "ok" =>
        \A p \in ToSet(Plan(b, source[b])) \ touched[b] :
            /\ files[p] = Payload(b, p)
            /\ b = "coding" => files[p].version.kind \notin {"unsound", "unsolved"}

\* Files that a script writes, and what it has not written whole.
Writes(b) == {p \in Paths : p[2] \in Ids(b) \/ (b = "extra" /\ p[1] # Coding /\ p[2] = Manifest)}

Torn(p) == \/ files[p].form \in {"empty", "broken", "garbled", "short"}
           \/ p[2] = Manifest /\ files[p].form = "whole" /\ files[p].holds # p[1]

\* No definition stops the script before it has written everything.
Buildable(b) ==
    \A t \in Ids(b) : defs[t] # None =>
        defs[t].kind # (IF b = "coding" THEN "unsolved" ELSE "invalid")

(* What a dead script has left empty or cut does not stay so: run again,   *)
(* it writes the file, unless the definition was removed meanwhile (the    *)
(* file is then nobody's) or another one stops the script on its way.      *)
TornFilesHeal ==
    \A b \in Scripts : \A p \in Writes(b) :
        (stage[b] = "dead" /\ Torn(p))
            ~> \/ ~Torn(p)
               \/ p[2] # Manifest /\ defs[p[2]] = None
               \/ ~Buildable(b)
=============================================================================
