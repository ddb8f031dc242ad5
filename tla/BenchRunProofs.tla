---------------------------- MODULE BenchRunProofs ----------------------------
(* Proofs about BenchRun for any number of invocations, tasks, repeats,       *)
(* grader verdicts, crashes and interrupts.                                   *)
EXTENDS BenchRun, Integers, SequenceTheorems, TLAPS

-----------------------------------------------------------------------------
(* The database alone: one row list per run, stamps from the past, and the    *)
(* owner of a run knows it under exactly that id.                             *)
DatabaseInv ==
    /\ Len(rows) = Len(runs)
    /\ \A id \in 1 .. Len(runs) :
          /\ runs[id].created <= clock
          /\ runId[runs[id].owner] = id
          /\ seen[runs[id].owner] < id
          /\ \A older \in 1 .. seen[runs[id].owner] :
                runs[older].created <= runs[id].created

(* A process before it has stored a run.                                      *)
Early == {"idle", "selected", "stamped", "refused"}
Mid == {"ready", "calling", "answered", "grading"}

RunInv(p) ==
    /\ runId[p] # 0 => /\ runId[p] \in 1 .. Len(runs)
                       /\ runs[runId[p]].owner = p
    /\ p \in NoStore => runId[p] = 0
    /\ stage[p] \in {"selected", "stamped"} => p \notin NoStore
    /\ stage[p] \in Early => runId[p] = 0
    /\ p \notin NoStore /\ stage[p] \in InLoop \cup {"done"} => runId[p] # 0
    /\ stage[p] = "stamped" =>
          /\ stamp[p] <= clock
          /\ seen[p] <= Len(runs)
          /\ \A older \in 1 .. seen[p] : runs[older].created <= stamp[p]

(* Where a process stands in its schedule, and how many calls that took.      *)
LoopInv(p) ==
    /\ stage[p] \in Early => /\ results[p] = <<>> /\ calls[p] = 0
                             /\ task[p] = 1 /\ attempt[p] = 1
    /\ stage[p] \in Mid =>
          Len(results[p]) + 1 = (task[p] - 1) * Repeats + attempt[p]
    /\ stage[p] = "recording" =>
          /\ Len(results[p]) = (task[p] - 1) * Repeats + attempt[p]
          /\ Len(results[p]) >= 1
    /\ stage[p] \in {"closing", "done"} => Len(results[p]) = NTasks * Repeats
    /\ stage[p] \in {"ready", "recording", "closing"} => calls[p] = Len(results[p])
    /\ stage[p] \in {"calling", "answered", "grading"} => calls[p] = Len(results[p]) + 1

(* What is stored of a process that has a run.                                *)
StoredInv(p) ==
    runId[p] # 0 =>
        LET mine == rows[runId[p]] IN
        /\ stage[p] \in Mid \cup {"closing", "done"} => Len(mine) = Len(results[p])
        /\ stage[p] = "recording" => Len(mine) + 1 = Len(results[p])
        /\ Len(mine) \in {Len(results[p]), Len(results[p]) - 1}
        /\ \A k \in 1 .. Len(mine) : mine[k] = results[p][k]
        /\ calls[p] <= Len(mine) + 1

(* Why the directory of an attempt is on disk.                                *)
Marked(p, s) == \E k \in DOMAIN results[p] :
                   results[p][k] = [slot |-> s, verdict |-> "grader_error"]
Broken(p, s) == /\ s = Current(p)
                /\ \/ stage[p] \in {"grading", "crashed"}
                   \/ stage[p] \in {"unwinding", "aborted"} /\ cancel[p]

WorkInv(p) == \A s \in workspaces[p] : s \in outlived[p] \/ Marked(p, s) \/ Broken(p, s)

Inv(p) == RunInv(p) /\ LoopInv(p) /\ StoredInv(p) /\ WorkInv(p)
IInv == TypeOK /\ DatabaseInv /\ \A p \in Invocations : Inv(p)

LEMMA InitIInv == Init => IInv
<1> SUFFICES ASSUME Init PROVE IInv
  OBVIOUS
<1>1. TypeOK
  BY BenchAssumption DEF Init, TypeOK, Stages
<1>2. DatabaseInv
  BY DEF Init, DatabaseInv
<1>3. \A p \in Invocations : Inv(p)
  BY DEF Init, Inv, RunInv, LoopInv, StoredInv, WorkInv, Early, Mid, InLoop
<1> QED BY <1>1, <1>2, <1>3 DEF IInv

Local(p) == <<stage[p], runId[p], stamp[p], task[p], attempt[p], results[p], calls[p], seen[p],
              cancel[p], workspaces[p], outlived[p]>>

(* A process is not disturbed by others that add runs and rows of their own.  *)
LEMMA Undisturbed ==
    ASSUME IInv, NEW q \in Invocations, Local(q)' = Local(q),
           Len(runs) <= Len(runs'), Len(runs') \in Nat, clock <= clock', clock' \in Nat,
           \A id \in 1 .. Len(runs) : runs'[id] = runs[id],
           runId[q] # 0 => rows'[runId[q]] = rows[runId[q]]
    PROVE  Inv(q)'
<1>1. /\ stage'[q] = stage[q] /\ runId'[q] = runId[q] /\ stamp'[q] = stamp[q]
      /\ task'[q] = task[q] /\ attempt'[q] = attempt[q] /\ results'[q] = results[q]
      /\ calls'[q] = calls[q] /\ seen'[q] = seen[q] /\ cancel'[q] = cancel[q]
      /\ workspaces'[q] = workspaces[q] /\ outlived'[q] = outlived[q]
  BY DEF Local
<1>2. /\ RunInv(q) /\ LoopInv(q) /\ StoredInv(q) /\ WorkInv(q)
      /\ stamp[q] \in Nat /\ seen[q] \in Nat /\ runId[q] \in Nat /\ clock \in Nat
      /\ Len(runs) \in Nat
  BY DEF IInv, Inv, TypeOK
<1>3. RunInv(q)'
  BY <1>1, <1>2 DEF RunInv
<1>4. LoopInv(q)'
  BY <1>1, <1>2 DEF LoopInv
<1>5. StoredInv(q)'
  BY <1>1, <1>2 DEF StoredInv
<1>6. WorkInv(q)'
  BY <1>1, <1>2 DEF WorkInv, Marked, Broken, Current
<1> QED BY <1>3, <1>4, <1>5, <1>6 DEF Inv

(* A step that stays within its process keeps the invariant if the process    *)
(* itself does.                                                               *)
LEMMA StaysLocal ==
    ASSUME IInv, NEW p \in Invocations,
           UNCHANGED <<runs, rows, clock, runId, stamp, seen>>,
           \A q \in Invocations \ {p} : Local(q)' = Local(q),
           TypeOK', Inv(p)'
    PROVE  IInv'
<1>1. DatabaseInv'
  BY DEF IInv, DatabaseInv
<1>2. Len(runs) \in Nat /\ clock \in Nat
  BY DEF IInv, TypeOK
<1>3. ASSUME NEW q \in Invocations \ {p}
      PROVE  Inv(q)'
  BY <1>2, Undisturbed
<1> QED BY <1>1, <1>3 DEF IInv

(* run_attempt's result takes the slot the loops stand at.                    *)
LEMMA ResultIInv ==
    ASSUME IInv, NEW p \in Invocations, NEW verdict \in Verdicts, Result(p, verdict),
           stage[p] \in {"calling", "answered", "grading"},
           UNCHANGED <<database, runId, stamp, task, attempt, cancel, calls, counters>>,
           workspaces' \in [Invocations -> SUBSET Slots],
           outlived' \in [Invocations -> SUBSET Slots],
           \A q \in Invocations \ {p} :
              workspaces'[q] = workspaces[q] /\ outlived'[q] = outlived[q],
           outlived[p] \subseteq outlived'[p],
           \A s \in workspaces'[p] \ workspaces[p] : s = Current(p) /\ verdict = "grader_error",
           stage[p] = "grading" => Current(p) \notin workspaces'[p] \ outlived'[p]
    PROVE  IInv'
<1> DEFINE row == [slot |-> Current(p), verdict |-> verdict]
<1>1. row \in Rows
  BY DEF IInv, TypeOK, Rows, Slots, Current
<1>2. results[p] \in Seq(Rows) /\ results'[p] = Append(results[p], row)
  BY DEF IInv, TypeOK, Result
<1> HIDE DEF row
<1>3. /\ results'[p] \in Seq(Rows)
      /\ Len(results'[p]) = Len(results[p]) + 1
      /\ \A k \in 1 .. Len(results[p]) : results'[p][k] = results[p][k]
  BY <1>1, <1>2
<1>4. stage'[p] = "recording" /\ \A q \in Invocations \ {p} : stage'[q] = stage[q]
  BY DEF IInv, TypeOK, Result, Goto
<1>5. results' \in [Invocations -> Seq(Rows)] /\ stage' \in [Invocations -> Stages]
  <2>1. results' = [results EXCEPT ![p] = Append(@, row)]
    BY DEF Result, row
  <2>2. results' = [results EXCEPT ![p] = results'[p]]
    BY <2>1, <1>2
  <2>3. results' \in [Invocations -> Seq(Rows)]
    BY <2>2, <1>3 DEF IInv, TypeOK
  <2>4. "recording" \in Stages
    BY DEF Stages, InLoop
  <2>5. stage' \in [Invocations -> Stages]
    BY <2>4 DEF IInv, TypeOK, Result, Goto
  <2> QED BY <2>3, <2>5
<1>6. TypeOK'
  BY <1>5 DEF IInv, TypeOK, database, counters
<1>7. LoopInv(p)'
  BY <1>3, <1>4 DEF IInv, Inv, TypeOK, LoopInv, Early, Mid
<1>8. RunInv(p)'
  BY <1>4 DEF IInv, Inv, TypeOK, RunInv, Early, Mid, InLoop, database, counters
<1>9. StoredInv(p)'
  <2>1. ASSUME runId[p] # 0
        PROVE  rows[runId[p]] \in Seq(Rows)
    BY <2>1 DEF IInv, Inv, TypeOK, RunInv, DatabaseInv
  <2>2. /\ StoredInv(p) /\ LoopInv(p) /\ runId' = runId /\ rows' = rows /\ calls' = calls
        /\ Len(results[p]) \in Nat
    BY <1>2 DEF IInv, Inv, database
  <2> QED BY <2>1, <2>2, <1>3, <1>4 DEF StoredInv, LoopInv, Mid
<1>10. WorkInv(p)'
  <2>1. results'[p][Len(results[p]) + 1] = row
    BY <1>2, <1>1
  <2>2. WorkInv(p) /\ Len(results[p]) \in Nat /\ Current(p)' = Current(p) /\ cancel' = cancel
    BY <1>2 DEF IInv, Inv, TypeOK, Current
  <2>3. /\ DOMAIN results[p] = 1 .. Len(results[p])
        /\ DOMAIN results'[p] = 1 .. Len(results[p]) + 1
    BY <1>2, <1>3
  <2>4. \A s : Marked(p, s) => Marked(p, s)'
    BY <1>3, <2>2, <2>3 DEF Marked
  <2>5. ASSUME NEW s \in workspaces'[p]
        PROVE  s \in outlived'[p] \/ Marked(p, s)'
    <3>1. CASE s \in workspaces[p]
      <4>1. s \in outlived[p] \/ Marked(p, s) \/ (s = Current(p) /\ stage[p] = "grading")
        BY <2>2, <3>1 DEF WorkInv, Broken
      <4> QED BY <2>4, <2>5, <4>1
    <3>2. CASE s \notin workspaces[p]
      <4>1. row = [slot |-> s, verdict |-> "grader_error"]
        BY <2>5, <3>2 DEF row
      <4>2. Len(results[p]) + 1 \in DOMAIN results'[p]
        BY <2>2, <2>3
      <4> QED BY <2>1, <4>1, <4>2 DEF Marked
    <3> QED BY <3>1, <3>2
  <2> QED BY <2>5 DEF WorkInv
<1>11. \A q \in Invocations \ {p} : Local(q)' = Local(q)
  BY <1>4 DEF IInv, TypeOK, Result, Local, counters
<1> QED BY <1>6, <1>7, <1>8, <1>9, <1>10, <1>11, StaysLocal DEF Inv, database, counters

(* The steps that only move a process between stages, with the one that also  *)
(* begins a call.                                                             *)
LEMMA StageIInv ==
    ASSUME IInv, NEW p \in Invocations,
           NEW s \in Stages, Goto(p, s),
           UNCHANGED <<runs, rows, clock, runId, stamp, task, attempt, results, seen>>,
           cancel' \in [Invocations -> BOOLEAN], outlived' = outlived,
           workspaces' \in [Invocations -> SUBSET Slots],
           \A q \in Invocations \ {p} :
              workspaces'[q] = workspaces[q] /\ cancel'[q] = cancel[q],
           cancel[p] => cancel'[p],
           \A d \in workspaces'[p] \ workspaces[p] :
              d = Current(p) /\ (s = "grading" \/ (s = "unwinding" /\ cancel'[p])),
           \/ stage[p] \notin {"grading", "crashed", "unwinding", "aborted"}
           \/ s = stage[p]
           \/ s = "crashed"
           \/ s = "unwinding" /\ cancel'[p]
           \/ stage[p] = "unwinding" /\ s = "aborted",
           crashes' \in 0 .. MaxCrashes, interrupts' \in 0 .. MaxInterrupts,
           \/ calls' = calls /\ s \in {"unwinding", "aborted", "crashed"}
                 /\ (s = "unwinding" => stage[p] \in Mid \cup {"recording"})
           \/ calls' = calls /\ s = stage[p]
           \/ calls' = calls /\ stage[p] = "calling" /\ s = "answered"
           \/ calls' = calls /\ stage[p] = "answered" /\ s = "grading"
           \/ calls' = calls /\ stage[p] = "closing" /\ s = "done"
           \/ calls' = calls /\ stage[p] = "idle" /\ s \in {"refused", "selected"}
                 /\ (s = "selected" => p \notin NoStore)
           \/ calls' = calls /\ stage[p] = "idle" /\ s = "ready" /\ p \in NoStore
           \/ /\ calls' = [calls EXCEPT ![p] = @ + 1]
              /\ stage[p] = "ready" /\ s = "calling"
    PROVE  IInv'
<1>1. stage'[p] = s /\ \A q \in Invocations \ {p} : stage'[q] = stage[q]
  BY DEF IInv, TypeOK, Goto
<1>2. /\ calls' \in [Invocations -> Nat]
      /\ \A q \in Invocations \ {p} : calls'[q] = calls[q]
  <2>1. CASE calls' = calls
    BY <2>1 DEF IInv, TypeOK
  <2>2. CASE calls' = [calls EXCEPT ![p] = @ + 1]
    BY <2>2 DEF IInv, TypeOK
  <2> QED BY <2>1, <2>2
<1>3. TypeOK'
  BY <1>2 DEF IInv, TypeOK, Goto
<1>4. RunInv(p)'
  BY <1>1 DEF IInv, Inv, RunInv, Early, Mid, InLoop
<1>5. LoopInv(p)' /\ StoredInv(p)'
  <2>1. /\ LoopInv(p) /\ RunInv(p) /\ StoredInv(p)
        /\ results[p] \in Seq(Rows) /\ Len(results[p]) \in Nat /\ calls[p] \in Nat
    BY DEF IInv, Inv, TypeOK
  <2>2. CASE calls' = calls /\ s \in {"unwinding", "aborted", "crashed"}
    <3>1. LoopInv(p)'
      BY <1>1, <2>2 DEF LoopInv, Early, Mid
    <3>2. StoredInv(p)'
      BY <1>1, <2>1, <2>2 DEF StoredInv, Mid
    <3> QED BY <3>1, <3>2
  <2>3. CASE calls' = calls /\ s = stage[p]
    BY <1>1, <2>1, <2>3 DEF LoopInv, StoredInv
  <2>4. CASE \/ stage[p] = "calling" /\ s = "answered"
             \/ stage[p] = "answered" /\ s = "grading"
    <3>1. calls' = calls
      BY <2>4
    <3> QED BY <1>1, <2>1, <2>4, <3>1 DEF LoopInv, StoredInv, Early, Mid
  <2>5. CASE calls' = calls /\ stage[p] = "closing" /\ s = "done"
    BY <1>1, <2>1, <2>5 DEF LoopInv, StoredInv, Early, Mid
  <2>6. CASE calls' = calls /\ stage[p] = "idle" /\ s \in {"refused", "selected"}
    BY <1>1, <2>1, <2>6 DEF LoopInv, StoredInv, RunInv, Early, Mid
  <2>7. CASE calls' = calls /\ stage[p] = "idle" /\ s = "ready"
    <3>1. Len(results[p]) = 0 /\ task[p] = 1 /\ attempt[p] = 1 /\ runId[p] = 0 /\ calls[p] = 0
      BY <2>1, <2>7 DEF LoopInv, RunInv, Early
    <3>2. Len(results[p]) + 1 = (task[p] - 1) * Repeats + attempt[p]
      BY <3>1, BenchAssumption
    <3> QED BY <1>1, <2>7, <3>1, <3>2 DEF LoopInv, StoredInv, Early, Mid
  <2>8. CASE calls' = [calls EXCEPT ![p] = @ + 1] /\ stage[p] = "ready" /\ s = "calling"
    <3>1. calls'[p] = calls[p] + 1
      BY <2>8 DEF IInv, TypeOK
    <3> QED BY <1>1, <2>1, <2>8, <3>1 DEF LoopInv, StoredInv, RunInv, Early, Mid
  <2> QED BY <2>2, <2>3, <2>4, <2>5, <2>6, <2>7, <2>8
<1>6. WorkInv(p)'
  <2>1. /\ WorkInv(p) /\ results' = results /\ outlived' = outlived /\ Current(p)' = Current(p)
        /\ \A d : Marked(p, d)' = Marked(p, d)
    BY DEF IInv, Inv, Current, Marked
  <2>2. ASSUME NEW d \in workspaces'[p]
        PROVE  d \in outlived'[p] \/ Marked(p, d)' \/ Broken(p, d)'
    <3>1. CASE d \notin workspaces[p]
      <4>1. d = Current(p) /\ (s = "grading" \/ (s = "unwinding" /\ cancel'[p]))
        BY <2>2, <3>1
      <4> QED BY <1>1, <2>1, <4>1 DEF Broken
    <3>2. CASE d \in workspaces[p]
      <4>1. Broken(p, d) => Broken(p, d)'
        BY <1>1, <2>1 DEF Broken
      <4> QED BY <2>1, <3>2, <4>1 DEF WorkInv
    <3> QED BY <3>1, <3>2
  <2> QED BY <2>2 DEF WorkInv
<1>7. \A q \in Invocations \ {p} : Local(q)' = Local(q)
  BY <1>1, <1>2 DEF Local
<1> QED BY <1>3, <1>4, <1>5, <1>6, <1>7, StaysLocal DEF Inv

(* A stored run belongs to a process that knows it.                           *)
LEMMA StoredRun ==
    ASSUME IInv, NEW id \in 1 .. Len(runs)
    PROVE  /\ runs[id].owner \in Invocations /\ runs[id].created \in Nat
           /\ runId[runs[id].owner] = id /\ runId[runs[id].owner] # 0
           /\ seen[runs[id].owner] \in Nat
<1>1. runs[id] \in [owner : Invocations, created : Nat]
  <2> DEFINE RunSet == [owner : Invocations, created : Nat]
  <2>1. runs \in Seq(RunSet)
    BY DEF IInv, TypeOK
  <2> HIDE DEF RunSet
  <2>2. runs[id] \in RunSet
    BY <2>1
  <2> QED BY <2>2 DEF RunSet
<1>2. runId[runs[id].owner] = id
  BY DEF IInv, DatabaseInv
<1>3. id # 0
  OBVIOUS
<1>4. runs[id].owner \in Invocations /\ runs[id].created \in Nat
  BY <1>1
<1>5. seen[runs[id].owner] \in Nat
  BY <1>4 DEF IInv, TypeOK
<1> QED BY <1>2, <1>3, <1>4, <1>5

LEMMA StampRunIInv ==
    ASSUME IInv, NEW p \in Invocations, StampRun(p)
    PROVE  IInv'
<1>1. CASE Goto(p, "aborted") /\ UNCHANGED <<clock, stamp, seen>>
  <2>1. UNCHANGED <<runs, rows, clock, runId, stamp, task, attempt, results, seen,
                    cancel, workspaces, outlived, crashes, interrupts, calls>>
    BY <1>1 DEF StampRun, directories
  <2>2. "aborted" \in Stages /\ "aborted" \in {"unwinding", "aborted", "crashed"}
    BY DEF Stages, Ended
  <2>3. /\ cancel' \in [Invocations -> BOOLEAN] /\ workspaces' \in [Invocations -> SUBSET Slots]
        /\ crashes' \in 0 .. MaxCrashes /\ interrupts' \in 0 .. MaxInterrupts
    BY <2>1 DEF IInv, TypeOK
  <2>4. stage[p] = "selected" /\ workspaces' = workspaces /\ cancel' = cancel /\ calls' = calls
    BY <2>1 DEF StampRun
  <2> QED BY <1>1, <2>1, <2>2, <2>3, <2>4, StageIInv
<1>2. CASE /\ Goto(p, "stamped") /\ clock' \in {clock, clock + 1}
           /\ stamp' = [stamp EXCEPT ![p] = clock']
           /\ seen' = [seen EXCEPT ![p] = Len(runs)]
  <2>1. /\ UNCHANGED <<runs, rows, runId, task, attempt, results, cancel, calls,
                       workspaces, outlived, crashes, interrupts>>
        /\ stage[p] = "selected" /\ runId[p] = 0
    BY DEF StampRun, directories, IInv, Inv, RunInv, Early
  <2>2. /\ clock \in Nat /\ clock' \in Nat /\ clock <= clock' /\ Len(runs) \in Nat
        /\ stage'[p] = "stamped" /\ stamp'[p] = clock' /\ seen'[p] = Len(runs)
        /\ \A q \in Invocations \ {p} :
              stage'[q] = stage[q] /\ stamp'[q] = stamp[q] /\ seen'[q] = seen[q]
    BY <1>2 DEF IInv, TypeOK, Goto
  <2>3. TypeOK'
    <3>1. "stamped" \in Stages
      BY DEF Stages
    <3> QED BY <1>2, <2>1, <2>2, <3>1 DEF IInv, TypeOK, Goto
  <2>4. \A id \in 1 .. Len(runs) : /\ runs[id].owner \in Invocations /\ runs[id].owner # p
                                   /\ runs[id].created \in Nat
    BY <2>1, StoredRun
  <2>5. DatabaseInv'
    BY <2>1, <2>2, <2>4 DEF IInv, DatabaseInv
  <2>6. \A id \in 1 .. Len(runs) : runs[id].created <= clock'
    BY <2>2, <2>4 DEF IInv, DatabaseInv
  <2>7. Inv(p)'
    <3>1. RunInv(p)' /\ LoopInv(p)' /\ StoredInv(p)'
      BY <2>1, <2>2, <2>6 DEF IInv, Inv, RunInv, LoopInv, StoredInv, Early, Mid, InLoop
    <3>2. WorkInv(p)'
      BY <2>1, <2>2 DEF IInv, Inv, WorkInv, Marked, Broken, Current
    <3> QED BY <3>1, <3>2 DEF Inv
  <2>8. ASSUME NEW q \in Invocations \ {p}
        PROVE  Inv(q)'
    <3>1. Local(q)' = Local(q)
      BY <2>1, <2>2 DEF Local
    <3> QED BY <3>1, <2>1, <2>2, Undisturbed
  <2> QED BY <2>3, <2>5, <2>7, <2>8 DEF IInv
<1> QED BY <1>1, <1>2 DEF StampRun

(* start_run appends, so the new id is fresh and no stored run changes.       *)
LEMMA InsertRunIInv ==
    ASSUME IInv, NEW p \in Invocations, InsertRun(p)
    PROVE  IInv'
<1>1. CASE Goto(p, "aborted") /\ UNCHANGED <<runs, rows, runId>>
  <2>1. UNCHANGED <<runs, rows, clock, runId, stamp, task, attempt, results, seen,
                    cancel, workspaces, outlived, crashes, interrupts, calls>>
    BY <1>1 DEF InsertRun, counters, directories
  <2>2. "aborted" \in Stages /\ "aborted" \in {"unwinding", "aborted", "crashed"}
    BY DEF Stages, Ended
  <2>3. /\ cancel' \in [Invocations -> BOOLEAN] /\ workspaces' \in [Invocations -> SUBSET Slots]
        /\ crashes' \in 0 .. MaxCrashes /\ interrupts' \in 0 .. MaxInterrupts
    BY <2>1 DEF IInv, TypeOK
  <2>4. stage[p] = "stamped" /\ workspaces' = workspaces /\ cancel' = cancel /\ calls' = calls
    BY <2>1 DEF InsertRun
  <2> QED BY <1>1, <2>1, <2>2, <2>3, <2>4, StageIInv
<1>2. CASE /\ Goto(p, "ready")
           /\ runs' = Append(runs, [owner |-> p, created |-> stamp[p]])
           /\ rows' = Append(rows, <<>>)
           /\ runId' = [runId EXCEPT ![p] = Len(runs) + 1]
  <2> DEFINE new == [owner |-> p, created |-> stamp[p]]
             n == Len(runs)
  <2>1. /\ UNCHANGED <<clock, stamp, task, attempt, results, cancel, calls, seen,
                       workspaces, outlived, crashes, interrupts>>
        /\ stage[p] = "stamped" /\ runId[p] = 0
    BY DEF InsertRun, IInv, Inv, RunInv, Early, counters, directories
  <2>2. new \in [owner : Invocations, created : Nat] /\ new.owner = p /\ new.created = stamp[p]
    BY DEF IInv, TypeOK
  <2>3. runs \in Seq([owner : Invocations, created : Nat]) /\ rows \in Seq(Seq(Rows))
        /\ <<>> \in Seq(Rows) /\ n \in Nat /\ Len(rows) = n
    BY DEF IInv, TypeOK, DatabaseInv
  <2>4. /\ runs' \in Seq([owner : Invocations, created : Nat])
        /\ Len(runs') = n + 1 /\ runs'[n + 1] = new
        /\ \A id \in 1 .. n : runs'[id] = runs[id]
    <3> HIDE DEF new
    <3> QED BY <1>2, <2>2, <2>3 DEF new
  <2>5. /\ rows' \in Seq(Seq(Rows))
        /\ Len(rows') = n + 1 /\ rows'[n + 1] = <<>>
        /\ \A id \in 1 .. n : rows'[id] = rows[id]
    BY <1>2, <2>3
  <2>6. /\ stage'[p] = "ready" /\ runId'[p] = n + 1
        /\ \A q \in Invocations \ {p} : stage'[q] = stage[q] /\ runId'[q] = runId[q]
    BY <1>2 DEF IInv, TypeOK, Goto
  <2> HIDE DEF new, n
  <2>7. TypeOK'
    <3>1. "ready" \in Stages
      BY DEF Stages, InLoop
    <3>2. stage' \in [Invocations -> Stages]
      BY <1>2, <3>1 DEF IInv, TypeOK, Goto
    <3>3. runId' \in [Invocations -> Nat]
      BY <1>2, <2>3 DEF IInv, TypeOK
    <3> QED BY <2>1, <2>4, <2>5, <3>2, <3>3 DEF IInv, TypeOK
  <2>8. \A id \in 1 .. n : runs[id].owner \in Invocations \ {p} /\ runs[id].created \in Nat
    BY <2>1, StoredRun DEF n
  <2>9. /\ stamp[p] <= clock /\ seen[p] <= n
        /\ \A older \in 1 .. seen[p] : runs[older].created <= stamp[p]
        /\ seen[p] \in Nat
    BY <2>1 DEF IInv, Inv, TypeOK, RunInv, n
  <2>10. DatabaseInv'
    <3>1. ASSUME NEW id \in 1 .. n
          PROVE  /\ runs'[id].created <= clock'
                 /\ runId'[runs'[id].owner] = id
                 /\ seen'[runs'[id].owner] < id
                 /\ \A older \in 1 .. seen'[runs'[id].owner] :
                       runs'[older].created <= runs'[id].created
      <4>1. /\ runs[id].created <= clock
            /\ runId[runs[id].owner] = id
            /\ seen[runs[id].owner] < id
            /\ \A older \in 1 .. seen[runs[id].owner] : runs[older].created <= runs[id].created
        BY DEF IInv, DatabaseInv, n
      <4>2. seen[runs[id].owner] \in Nat
        BY <2>8 DEF IInv, TypeOK
      <4>3. \A older \in 1 .. seen[runs[id].owner] : runs'[older] = runs[older]
        <5> SUFFICES ASSUME NEW older \in 1 .. seen[runs[id].owner]
                     PROVE  runs'[older] = runs[older]
          OBVIOUS
        <5>1. older \in 1 .. n
          <6> DEFINE k == seen[runs[id].owner]
          <6>1. k \in Nat /\ k < id /\ older \in 1 .. k
            BY <4>1, <4>2
          <6> HIDE DEF k
          <6> QED BY <6>1, <2>3
        <5> QED BY <5>1, <2>4
      <4>4. runs'[id] = runs[id] /\ runId'[runs[id].owner] = runId[runs[id].owner]
        BY <2>4, <2>6, <2>8
      <4> QED BY <4>1, <4>3, <4>4, <2>1
    <3>2. /\ runs'[n + 1].created <= clock'
          /\ runId'[runs'[n + 1].owner] = n + 1
          /\ seen'[runs'[n + 1].owner] < n + 1
          /\ \A older \in 1 .. seen'[runs'[n + 1].owner] :
                runs'[older].created <= runs'[n + 1].created
      <4>1. \A older \in 1 .. seen[p] : runs'[older] = runs[older]
        BY <2>3, <2>4, <2>9
      <4>2. /\ runs'[n + 1].created = stamp[p] /\ runs'[n + 1].owner = p
            /\ seen' = seen /\ clock' = clock /\ seen[p] < n + 1
        BY <2>1, <2>2, <2>3, <2>4, <2>9
      <4> QED BY <4>1, <4>2, <2>6, <2>9
    <3>3. \A id \in 1 .. Len(runs') : id \in 1 .. n \/ id = n + 1
      BY <2>3, <2>4
    <3> QED BY <3>1, <3>2, <3>3, <2>4, <2>5 DEF DatabaseInv
  <2>11. Inv(p)'
    <3>1. results[p] = <<>> /\ calls[p] = 0 /\ task[p] = 1 /\ attempt[p] = 1 /\ p \notin NoStore
          /\ Len(results[p]) = 0
      BY <2>1, <1>2 DEF IInv, Inv, LoopInv, Early, InsertRun, RunInv
    <3>2. RunInv(p)'
      BY <2>2, <2>3, <2>4, <2>6, <3>1 DEF RunInv, Early, InLoop
    <3>3. (1 - 1) * Repeats + 1 = 1
      BY BenchAssumption
    <3>4. LoopInv(p)'
      BY <2>1, <2>6, <3>1, <3>3 DEF LoopInv, Early, Mid
    <3>5. StoredInv(p)'
      BY <2>1, <2>5, <2>6, <3>1 DEF StoredInv, Mid
    <3>6. WorkInv(p)'
      BY <2>1, <2>6 DEF IInv, Inv, WorkInv, Marked, Broken, Current
    <3> QED BY <3>2, <3>4, <3>5, <3>6 DEF Inv
  <2>12. ASSUME NEW q \in Invocations \ {p}
         PROVE  Inv(q)'
    <3>1. Local(q)' = Local(q)
      BY <2>1, <2>6 DEF Local
    <3>2. clock \in Nat /\ clock' = clock /\ (runId[q] # 0 => runId[q] \in 1 .. n)
      BY <2>1 DEF IInv, Inv, TypeOK, RunInv, n
    <3>3. /\ Len(runs) <= Len(runs') /\ Len(runs') \in Nat
          /\ \A id \in 1 .. Len(runs) : runs'[id] = runs[id]
      BY <2>3, <2>4 DEF n
    <3>4. (runId[q] # 0 => rows'[runId[q]] = rows[runId[q]]) /\ clock <= clock' /\ clock' \in Nat
      BY <3>2, <2>5
    <3> QED BY <3>1, <3>3, <3>4, Undisturbed
  <2> QED BY <2>7, <2>10, <2>11, <2>12 DEF IInv
<1> QED BY <1>1, <1>2 DEF InsertRun

(* The loops move to the next slot of the schedule, or past its end.          *)
LEMMA AdvanceLoop ==
    ASSUME IInv, NEW p \in Invocations, stage[p] = "recording", Advance(p),
           UNCHANGED <<results, calls>>
    PROVE  /\ task' \in [Invocations -> 1 .. NTasks]
           /\ attempt' \in [Invocations -> 1 .. Repeats]
           /\ stage' \in [Invocations -> Stages]
           /\ stage'[p] \in {"ready", "closing"}
           /\ \A q \in Invocations \ {p} : /\ stage'[q] = stage[q]
                                           /\ task'[q] = task[q] /\ attempt'[q] = attempt[q]
           /\ LoopInv(p)'
<1>1. /\ task \in [Invocations -> 1 .. NTasks] /\ attempt \in [Invocations -> 1 .. Repeats]
      /\ stage \in [Invocations -> Stages] /\ {"ready", "closing"} \subseteq Stages
      /\ NTasks \in Nat /\ Repeats \in Nat /\ 1 \in 1 .. Repeats
  BY BenchAssumption DEF IInv, TypeOK, Stages, InLoop
<1>2. /\ Len(results[p]) \in Nat /\ calls[p] = Len(results[p])
      /\ Len(results[p]) = (task[p] - 1) * Repeats + attempt[p]
  BY DEF IInv, Inv, TypeOK, LoopInv
<1>3. (task[p] - 1) * Repeats + Repeats = task[p] * Repeats
  BY <1>1
<1>4. CASE /\ attempt[p] < Repeats /\ attempt' = [attempt EXCEPT ![p] = @ + 1]
           /\ task' = task /\ Goto(p, "ready")
  <2>1. attempt[p] + 1 \in 1 .. Repeats
    BY <1>1, <1>4
  <2>2. attempt' \in [Invocations -> 1 .. Repeats] /\ attempt'[p] = attempt[p] + 1
    BY <1>1, <1>4, <2>1
  <2>3. stage' \in [Invocations -> Stages] /\ stage'[p] = "ready"
    BY <1>1, <1>4 DEF Goto
  <2>4. Len(results[p]) + 1 = (task[p] - 1) * Repeats + (attempt[p] + 1)
    <3>1. attempt[p] \in Nat /\ (task[p] - 1) * Repeats \in Int
      BY <1>1
    <3> QED BY <3>1, <1>2
  <2>5. LoopInv(p)'
    BY <1>2, <1>4, <2>2, <2>3, <2>4 DEF LoopInv, Early, Mid
  <2> QED BY <1>1, <1>4, <2>2, <2>3, <2>5 DEF Goto
<1>5. CASE /\ attempt[p] >= Repeats /\ task[p] < NTasks
           /\ task' = [task EXCEPT ![p] = @ + 1] /\ attempt' = [attempt EXCEPT ![p] = 1]
           /\ Goto(p, "ready")
  <2>1. task[p] + 1 \in 1 .. NTasks /\ attempt[p] = Repeats
    BY <1>1, <1>5
  <2>2. /\ task' \in [Invocations -> 1 .. NTasks] /\ task'[p] = task[p] + 1
        /\ attempt' \in [Invocations -> 1 .. Repeats] /\ attempt'[p] = 1
    BY <1>1, <1>5, <2>1
  <2>3. stage' \in [Invocations -> Stages] /\ stage'[p] = "ready"
    BY <1>1, <1>5 DEF Goto
  <2>4. Len(results[p]) + 1 = ((task[p] + 1) - 1) * Repeats + 1
    <3>1. (task[p] + 1) - 1 = task[p]
      BY <1>1
    <3> QED BY <3>1, <1>2, <1>3, <2>1
  <2>5. LoopInv(p)'
    BY <1>2, <1>5, <2>2, <2>3, <2>4 DEF LoopInv, Early, Mid
  <2> QED BY <1>1, <1>5, <2>2, <2>3, <2>5 DEF Goto
<1>6. CASE /\ attempt[p] >= Repeats /\ task[p] >= NTasks
           /\ UNCHANGED <<task, attempt>> /\ Goto(p, "closing")
  <2>1. task[p] = NTasks /\ attempt[p] = Repeats
    BY <1>1, <1>6
  <2>2. Len(results[p]) = NTasks * Repeats
    BY <1>2, <1>3, <2>1
  <2>3. stage' \in [Invocations -> Stages] /\ stage'[p] = "closing"
    BY <1>1, <1>6 DEF Goto
  <2>4. LoopInv(p)'
    BY <1>2, <1>6, <2>2, <2>3 DEF LoopInv, Early, Mid
  <2> QED BY <1>1, <1>6, <2>3, <2>4 DEF Goto
<1> QED BY <1>4, <1>5, <1>6 DEF Advance

(* No directory of an attempt that is recorded has its cause in the stage.    *)
LEMMA RecordedWork ==
    ASSUME NEW p \in Invocations, WorkInv(p), stage[p] = "recording",
           results'[p] = results[p], workspaces'[p] = workspaces[p], outlived'[p] = outlived[p]
    PROVE  WorkInv(p)'
<1>1. \A d \in workspaces[p] : d \in outlived[p] \/ Marked(p, d)
  BY DEF WorkInv, Broken
<1>2. \A d : Marked(p, d)' = Marked(p, d)
  BY DEF Marked
<1> QED BY <1>1, <1>2 DEF WorkInv

(* A committed row is the one of the attempt just finished.                   *)
LEMMA CommitIInv ==
    ASSUME IInv, NEW p \in Invocations, stage[p] = "recording", p \notin NoStore,
           rows' = RowAdded(p),
           UNCHANGED <<runs, clock, runId, stamp, results, cancel, calls, workspaces, outlived,
                       seen, crashes>>,
           interrupts' \in 0 .. MaxInterrupts,
           task' \in [Invocations -> 1 .. NTasks], attempt' \in [Invocations -> 1 .. Repeats],
           stage' \in [Invocations -> Stages],
           stage'[p] \in {"ready", "closing", "unwinding"},
           \A q \in Invocations \ {p} : /\ stage'[q] = stage[q]
                                         /\ task'[q] = task[q] /\ attempt'[q] = attempt[q],
           LoopInv(p)'
    PROVE  IInv'
<1>1. /\ RunInv(p) /\ LoopInv(p) /\ StoredInv(p) /\ WorkInv(p) /\ DatabaseInv
      /\ rows \in Seq(Seq(Rows)) /\ results[p] \in Seq(Rows) /\ results'[p] = results[p]
      /\ Len(results[p]) \in Nat /\ Len(results[p]) >= 1 /\ calls[p] \in Nat
      /\ Len(runs) \in Nat /\ Len(rows) = Len(runs)
  <2>1. /\ RunInv(p) /\ LoopInv(p) /\ StoredInv(p) /\ WorkInv(p) /\ DatabaseInv /\ TypeOK
    BY DEF IInv, Inv
  <2>2. /\ rows \in Seq(Seq(Rows)) /\ runs \in Seq([owner : Invocations, created : Nat])
        /\ results[p] \in Seq(Rows) /\ calls[p] \in Nat
    BY <2>1 DEF TypeOK
  <2>3. results'[p] = results[p] /\ Len(results[p]) \in Nat /\ Len(runs) \in Nat
    BY <2>2
  <2>4. Len(results[p]) >= 1 /\ Len(rows) = Len(runs)
    BY <2>1 DEF LoopInv, DatabaseInv
  <2> QED BY <2>1, <2>2, <2>3, <2>4
<1> DEFINE id == runId[p]
           mine == rows[id]
           row == results[p][Len(results[p])]
<1>2. id # 0 /\ id \in 1 .. Len(rows) /\ runs[id].owner = p /\ row \in Rows
  BY <1>1 DEF RunInv, InLoop
<1>3. mine \in Seq(Rows) /\ Len(mine) + 1 = Len(results[p])
      /\ \A k \in 1 .. Len(mine) : mine[k] = results[p][k]
  BY <1>1, <1>2 DEF StoredInv
<1>4. rows' = [rows EXCEPT ![id] = Append(mine, row)]
  BY DEF RowAdded
<1> HIDE DEF id, mine, row
<1>5. /\ Append(mine, row) \in Seq(Rows) /\ Len(Append(mine, row)) = Len(mine) + 1
      /\ \A k \in 1 .. Len(mine) : Append(mine, row)[k] = mine[k]
      /\ Append(mine, row)[Len(mine) + 1] = row
  BY <1>2, <1>3
<1>6. /\ rows' \in Seq(Seq(Rows)) /\ Len(rows') = Len(rows)
      /\ rows'[id] = Append(mine, row)
      /\ \A i \in 1 .. Len(rows) : i # id => rows'[i] = rows[i]
  BY <1>1, <1>2, <1>4, <1>5
<1>7. TypeOK'
  BY <1>6 DEF IInv, TypeOK
<1>8. DatabaseInv'
  BY <1>6 DEF IInv, DatabaseInv
<1>9. Inv(p)'
  <2>1. runId'[p] = id
    BY DEF id
  <2>2. RunInv(p)'
    BY <1>1, <1>2, <2>1 DEF RunInv, Early, InLoop, id
  <2>3. \A k \in 1 .. Len(results[p]) : rows'[id][k] = results[p][k]
    BY <1>1, <1>3, <1>5, <1>6 DEF row
  <2>4. StoredInv(p)'
    <3>1. Len(rows'[id]) = Len(results[p])
      BY <1>3, <1>5, <1>6
    <3>2. calls'[p] = Len(results[p])
      BY <1>1 DEF LoopInv
    <3> QED BY <1>1, <2>1, <2>3, <3>1, <3>2 DEF StoredInv, Mid
  <2>5. WorkInv(p)'
    BY <1>1, RecordedWork
  <2> QED BY <2>2, <2>4, <2>5 DEF Inv
<1>10. ASSUME NEW q \in Invocations \ {p}
       PROVE  Inv(q)'
  <2>1. Local(q)' = Local(q)
    BY DEF Local
  <2>2. runId[q] # 0 => runId[q] \in 1 .. Len(rows) /\ runId[q] # id
    BY <1>1, <1>2 DEF IInv, Inv, RunInv
  <2>3. clock' = clock /\ runs' = runs /\ clock \in Nat /\ clock <= clock' /\ clock' \in Nat
        /\ Len(runs) <= Len(runs') /\ Len(runs') \in Nat
        /\ \A i \in 1 .. Len(runs) : runs'[i] = runs[i]
    BY <1>1 DEF IInv, TypeOK
  <2>4. runId[q] # 0 => rows'[runId[q]] = rows[runId[q]]
    BY <1>6, <2>2
  <2> QED BY <2>1, <2>3, <2>4, Undisturbed
<1> QED BY <1>7, <1>8, <1>9, <1>10 DEF IInv

LEMMA RecordIInv ==
    ASSUME IInv, NEW p \in Invocations, Record(p)
    PROVE  IInv'
<1>1. /\ UNCHANGED <<runs, clock, runId, stamp, results, cancel, calls, workspaces, outlived,
                     seen, crashes, interrupts>>
      /\ stage[p] = "recording"
  BY DEF Record, counters, directories
<1>2. RunInv(p) /\ LoopInv(p) /\ StoredInv(p) /\ WorkInv(p) /\ interrupts \in 0 .. MaxInterrupts
  BY DEF IInv, Inv, TypeOK
<1>3. CASE Goto(p, "unwinding") /\ UNCHANGED <<rows, task, attempt>>
  <2>1. "unwinding" \in Stages
    BY DEF Stages, InLoop
  <2>2. /\ cancel' \in [Invocations -> BOOLEAN] /\ workspaces' \in [Invocations -> SUBSET Slots]
        /\ crashes' \in 0 .. MaxCrashes /\ interrupts' \in 0 .. MaxInterrupts
        /\ calls' = calls /\ workspaces' = workspaces /\ cancel' = cancel
    BY <1>1 DEF IInv, TypeOK
  <2> QED BY <1>1, <1>3, <2>1, <2>2, StageIInv
<1>4. CASE p \notin NoStore /\ Advance(p) /\ rows' = RowAdded(p)
  <2>1. /\ task' \in [Invocations -> 1 .. NTasks] /\ attempt' \in [Invocations -> 1 .. Repeats]
        /\ stage' \in [Invocations -> Stages] /\ stage'[p] \in {"ready", "closing", "unwinding"}
        /\ \A q \in Invocations \ {p} : /\ stage'[q] = stage[q]
                                        /\ task'[q] = task[q] /\ attempt'[q] = attempt[q]
        /\ LoopInv(p)'
    BY <1>1, <1>4, AdvanceLoop
  <2> QED BY <1>1, <1>2, <1>4, <2>1, CommitIInv
<1>5. CASE p \in NoStore /\ Advance(p) /\ UNCHANGED rows
  <2>1. runId[p] = 0
    BY <1>2, <1>5 DEF RunInv
  <2>2. stage'[p] \in {"ready", "closing"} /\ LoopInv(p)'
    BY <1>1, <1>5, AdvanceLoop
  <2>3. TypeOK'
    BY <1>1, <1>5, AdvanceLoop DEF IInv, TypeOK
  <2>4. RunInv(p)' /\ StoredInv(p)'
    BY <1>1, <1>2, <1>5, <2>1, <2>2 DEF RunInv, StoredInv, Early
  <2>5. WorkInv(p)'
    BY <1>1, <1>2, RecordedWork
  <2>6. \A q \in Invocations \ {p} : Local(q)' = Local(q)
    BY <1>1, <1>5, AdvanceLoop DEF Local
  <2> QED BY <1>1, <1>5, <2>2, <2>3, <2>4, <2>5, <2>6, StaysLocal DEF Inv
<1> QED BY <1>3, <1>4, <1>5 DEF Record

(* The second Ctrl-C ends the attempt, or the run, where it stands.           *)
LEMMA InterruptAgainIInv ==
    ASSUME IInv, NEW p \in Invocations, InterruptAgain(p)
    PROVE  IInv'
<1>1. /\ UNCHANGED <<runs, clock, runId, stamp, task, attempt, results, cancel, calls, seen,
                     outlived, crashes>>
      /\ cancel[p] /\ interrupts' \in 0 .. MaxInterrupts
      /\ cancel' \in [Invocations -> BOOLEAN] /\ crashes' \in 0 .. MaxCrashes
      /\ workspaces \in [Invocations -> SUBSET Slots] /\ Current(p) \in Slots
      /\ task \in [Invocations -> 1 .. NTasks] /\ attempt \in [Invocations -> 1 .. Repeats]
      /\ stage \in [Invocations -> Stages] /\ {"unwinding", "aborted"} \subseteq Stages
  BY BenchAssumption DEF InterruptAgain, IInv, TypeOK, Current, Slots, Stages, InLoop, Ended
<1>2. CASE rows' = rows
  <2>1. PICK s \in {"unwinding", "aborted"} :
           /\ Goto(p, s)
           /\ s = "unwinding" => stage[p] \in Mid \cup {"recording"}
           /\ s = "aborted" => stage[p] \in {"closing", "unwinding"}
    BY DEF InterruptAgain, Mid
  <2>2. workspaces' \in {workspaces, Vacated(p)} \/ (workspaces' = Occupied(p) /\ s = "unwinding")
    BY <1>1, <2>1 DEF InterruptAgain, Mid
  <2>3. /\ workspaces' \in [Invocations -> SUBSET Slots]
        /\ \A q \in Invocations \ {p} : workspaces'[q] = workspaces[q] /\ cancel'[q] = cancel[q]
        /\ \A d \in workspaces'[p] \ workspaces[p] : d = Current(p) /\ s = "unwinding" /\ cancel'[p]
    <3>1. CASE workspaces' = workspaces
      BY <1>1, <3>1
    <3>2. CASE workspaces' = Vacated(p)
      BY <1>1, <3>2 DEF Vacated
    <3>3. CASE workspaces' = Occupied(p) /\ s = "unwinding"
      BY <1>1, <3>3 DEF Occupied
    <3> QED BY <2>2, <3>1, <3>2, <3>3
  <2> QED BY <1>1, <1>2, <2>1, <2>3, StageIInv
<1>3. CASE rows' # rows
  <2>1. /\ stage[p] = "recording" /\ p \notin NoStore /\ rows' = RowAdded(p)
        /\ Goto(p, "unwinding") /\ workspaces' = workspaces
    BY <1>3 DEF InterruptAgain
  <2>2. /\ stage' \in [Invocations -> Stages] /\ stage'[p] = "unwinding"
        /\ \A q \in Invocations \ {p} : stage'[q] = stage[q]
    BY <1>1, <2>1 DEF Goto
  <2>3. LoopInv(p)'
    BY <2>2 DEF LoopInv, Early, Mid
  <2> QED BY <1>1, <2>1, <2>2, <2>3, CommitIInv
<1> QED BY <1>2, <1>3

LEMMA StepIInv == IInv /\ [Next]_vars => IInv'
<1> SUFFICES ASSUME IInv, [Next]_vars PROVE IInv'
  OBVIOUS
<1>1. /\ cancel \in [Invocations -> BOOLEAN] /\ workspaces \in [Invocations -> SUBSET Slots]
      /\ outlived \in [Invocations -> SUBSET Slots] /\ \A p \in Invocations : Current(p) \in Slots
      /\ crashes \in 0 .. MaxCrashes /\ interrupts \in 0 .. MaxInterrupts
      /\ stage \in [Invocations -> Stages] /\ MaxCrashes \in Nat /\ MaxInterrupts \in Nat
      /\ InLoop \cup Ended \cup {"idle", "selected", "stamped"} = Stages
      /\ \A p \in Invocations : Inv(p)
  BY BenchAssumption DEF IInv, TypeOK, Stages, Current, Slots
<1>2. ASSUME NEW p \in Invocations, Preflight(p)
      PROVE  IInv'
  <2>1. UNCHANGED <<database, runId, stamp, task, attempt, results, cancel, calls,
                    directories, counters>> /\ stage[p] = "idle"
    BY <1>2 DEF Preflight
  <2>2. PICK s \in {"refused", "selected", "ready"} :
           Goto(p, s) /\ (s = "selected" => p \notin NoStore) /\ (s = "ready" => p \in NoStore)
    BY <1>2 DEF Preflight
  <2>3. s \in Stages
    BY DEF Stages, Ended, InLoop
  <2> QED BY <1>1, <2>1, <2>2, <2>3, StageIInv DEF database, counters, directories
<1>3. ASSUME NEW p \in Invocations, BeginAttempt(p)
      PROVE  IInv'
  <2>1. UNCHANGED <<database, runId, stamp, task, attempt, results, cancel,
                    directories, counters>> /\ stage[p] = "ready"
    BY <1>3 DEF BeginAttempt
  <2>2. PICK s \in {"unwinding", "calling"} :
           Goto(p, s) /\ calls' = IF s = "calling" THEN [calls EXCEPT ![p] = @ + 1] ELSE calls
    BY <1>3 DEF BeginAttempt
  <2>3. s \in Stages
    BY DEF Stages, InLoop
  <2> QED BY <1>1, <2>1, <2>2, <2>3, StageIInv DEF database, counters, directories, Mid
<1>4. ASSUME NEW p \in Invocations, CallEnds(p)
      PROVE  IInv'
  <2>1. UNCHANGED <<database, runId, stamp, task, attempt, cancel, calls,
                    directories, counters>> /\ stage[p] = "calling"
    BY <1>4 DEF CallEnds
  <2>2. CASE Result(p, "api_error")
    <3>1. "api_error" \in Verdicts
      BY DEF Verdicts
    <3> QED BY <1>1, <2>1, <2>2, <3>1, ResultIInv DEF directories
  <2>3. CASE Goto(p, "answered") /\ UNCHANGED results
    <3>1. "answered" \in Stages
      BY DEF Stages, InLoop
    <3> QED BY <1>1, <2>1, <2>3, <3>1, StageIInv DEF database, counters, directories
  <2> QED BY <1>4, <2>2, <2>3 DEF CallEnds
<1>5. ASSUME NEW p \in Invocations, GradeText(p)
      PROVE  IInv'
  <2>1. UNCHANGED <<database, runId, stamp, task, attempt, cancel, calls,
                    directories, counters>> /\ stage[p] = "answered"
    BY <1>5 DEF GradeText
  <2>2. PICK v \in Verdicts : Result(p, v)
    BY <1>5 DEF GradeText, Verdicts
  <2> QED BY <1>1, <2>1, <2>2, ResultIInv DEF directories
<1>6. ASSUME NEW p \in Invocations, CreateWorkspace(p)
      PROVE  IInv'
  <2>1. UNCHANGED <<database, runId, stamp, task, attempt, cancel, calls, outlived, counters>>
        /\ stage[p] = "answered"
    BY <1>6 DEF CreateWorkspace
  <2>2. ASSUME workspaces' \in {workspaces, Occupied(p)}
        PROVE  /\ workspaces' \in [Invocations -> SUBSET Slots]
               /\ \A q \in Invocations \ {p} : workspaces'[q] = workspaces[q]
               /\ \A d \in workspaces'[p] \ workspaces[p] : d = Current(p)
    <3>1. CASE workspaces' = workspaces
      BY <1>1, <3>1
    <3>2. CASE workspaces' = Occupied(p)
      BY <1>1, <3>2 DEF Occupied
    <3> QED BY <2>2, <3>1, <3>2
  <2>3. CASE workspaces' = Occupied(p) /\ Goto(p, "grading") /\ UNCHANGED results
    <3>1. "grading" \in Stages
      BY DEF Stages, InLoop
    <3>2. /\ UNCHANGED <<runs, rows, clock, runId, stamp, task, attempt, results, seen, calls>>
          /\ cancel' = cancel /\ outlived' = outlived /\ crashes' = crashes
          /\ interrupts' = interrupts
      BY <2>1, <2>3 DEF database, counters
    <3> QED BY <1>1, <2>1, <2>2, <2>3, <3>1, <3>2, StageIInv
  <2>4. CASE workspaces' \in {workspaces, Occupied(p)} /\ Result(p, "grader_error")
    <3>1. "grader_error" \in Verdicts
      BY DEF Verdicts
    <3> QED BY <1>1, <2>1, <2>2, <2>4, <3>1, ResultIInv
  <2> QED BY <1>6, <2>3, <2>4 DEF CreateWorkspace
<1>7. ASSUME NEW p \in Invocations, GradeInSandbox(p)
      PROVE  IInv'
  <2>1. UNCHANGED <<database, runId, stamp, task, attempt, cancel, calls, counters>>
        /\ stage[p] = "grading"
    BY <1>7 DEF GradeInSandbox
  <2>2. PICK v \in Verdicts : Result(p, v)
    BY <1>7 DEF GradeInSandbox, Verdicts
  <2>3. /\ workspaces' \in [Invocations -> SUBSET Slots]
        /\ workspaces'[p] \subseteq workspaces[p]
        /\ \A q \in Invocations \ {p} : workspaces'[q] = workspaces[q]
    <3>1. CASE workspaces' = workspaces
      BY <1>1, <3>1
    <3>2. CASE workspaces' = Vacated(p)
      BY <1>1, <3>2 DEF Vacated
    <3> QED BY <1>7, <3>1, <3>2 DEF GradeInSandbox
  <2>4. /\ outlived' \in [Invocations -> SUBSET Slots]
        /\ outlived[p] \subseteq outlived'[p]
        /\ \A q \in Invocations \ {p} : outlived'[q] = outlived[q]
        /\ Current(p) \notin workspaces'[p] \ outlived'[p]
    <3>1. CASE workspaces' = Vacated(p) /\ outlived' = outlived
      BY <1>1, <3>1 DEF Vacated
    <3>2. CASE outlived' = [outlived EXCEPT ![p] = @ \cup {Current(p)}]
      BY <1>1, <3>2
    <3> QED BY <1>7, <3>1, <3>2 DEF GradeInSandbox
  <2> QED BY <2>1, <2>2, <2>3, <2>4, ResultIInv
<1>8. ASSUME NEW p \in Invocations, Close(p)
      PROVE  IInv'
  <2>1. UNCHANGED <<database, runId, stamp, task, attempt, results, cancel, calls,
                    directories, counters>>
    BY <1>8 DEF Close
  <2>2. PICK s \in {"done", "aborted"} :
           Goto(p, s) /\ stage[p] \in {"closing", "unwinding"} /\ (s = "done" => stage[p] = "closing")
    BY <1>8 DEF Close
  <2>3. s \in Stages
    BY DEF Stages, Ended
  <2> QED BY <1>1, <2>1, <2>2, <2>3, StageIInv DEF database, counters, directories
<1>9. ASSUME NEW p \in Invocations, Interrupt(p)
      PROVE  IInv'
  <2>1. /\ UNCHANGED <<database, runId, stamp, task, attempt, results, calls, seen,
                       workspaces, outlived, crashes>>
        /\ interrupts' \in 0 .. MaxInterrupts
        /\ cancel' \in [Invocations -> BOOLEAN] /\ cancel'[p]
        /\ \A q \in Invocations \ {p} : cancel'[q] = cancel[q]
    BY <1>1, <1>9 DEF Interrupt, directories
  <2>2. CASE stage[p] = "calling" /\ Goto(p, "unwinding")
    <3>1. "unwinding" \in Stages
      BY DEF Stages, InLoop
    <3> QED BY <1>1, <2>1, <2>2, <3>1, StageIInv DEF database, Mid
  <2>3. CASE UNCHANGED stage
    <3>1. Goto(p, stage[p]) /\ stage[p] \in Stages
      BY <1>1, <2>3 DEF Goto
    <3> QED BY <1>1, <2>1, <3>1, StageIInv DEF database
  <2> QED BY <1>9, <2>2, <2>3 DEF Interrupt
<1>10. ASSUME NEW p \in Invocations, Crash(p)
       PROVE  IInv'
  <2>1. UNCHANGED <<database, runId, stamp, task, attempt, results, cancel, calls, seen,
                    workspaces, outlived, interrupts>> /\ crashes' \in 0 .. MaxCrashes
        /\ stage[p] # "crashed" /\ Goto(p, "crashed")
    BY <1>1, <1>10 DEF Crash, Ended, directories
  <2>2. "crashed" \in Stages
    BY DEF Stages, Ended
  <2> QED BY <1>1, <2>1, <2>2, StageIInv DEF database
<1>11. CASE UNCHANGED vars
  <2>1. TypeOK' /\ DatabaseInv'
    BY <1>11 DEF vars, IInv, TypeOK, DatabaseInv
  <2>2. \A p \in Invocations : Inv(p)'
    BY <1>1, <1>11 DEF vars, Inv, RunInv, LoopInv, StoredInv, WorkInv, Marked, Broken, Current
  <2> QED BY <2>1, <2>2 DEF IInv
<1> QED BY <1>2, <1>3, <1>4, <1>5, <1>6, <1>7, <1>8, <1>9, <1>10, <1>11,
           StampRunIInv, InsertRunIInv, RecordIInv, InterruptAgainIInv DEF Next, Work, AllEnded

(* The invariant of `bench run`.                                              *)
THEOREM Invariance == Spec => []IInv
BY InitIInv, StepIInv, PTL DEF Spec

(* Every variable keeps its type.                                             *)
THEOREM TypeCorrect == Spec => []TypeOK
<1>1. IInv => TypeOK
  BY DEF IInv
<1> QED BY <1>1, Invariance, PTL

(* The rows of a run are the attempts of its owner, all but at most the last. *)
THEOREM RowsAreResults == Spec => []RowsMatchResults
<1>1. IInv => RowsMatchResults
  BY DEF IInv, Inv, RunInv, StoredInv, RowsMatchResults
<1> QED BY <1>1, Invariance, PTL

(* runs() lists a run before every run that was stored when it was stamped.   *)
THEOREM ListedNewestFirst == Spec => []NewestFirst
<1>1. IInv => NewestFirst
  <2> SUFFICES ASSUME IInv, NEW newer \in DOMAIN runs,
                      NEW older \in 1 .. seen[runs[newer].owner]
               PROVE  ListedBefore(newer, older)
    BY DEF NewestFirst
  <2>1. newer \in 1 .. Len(runs) /\ newer \in Nat /\ Len(runs) \in Nat
    <3> DEFINE RunSet == [owner : Invocations, created : Nat]
    <3>1. runs \in Seq(RunSet)
      BY DEF IInv, TypeOK
    <3> HIDE DEF RunSet
    <3> QED BY <3>1
  <2>2. seen[runs[newer].owner] \in Nat /\ seen[runs[newer].owner] < newer
        /\ runs[older].created <= runs[newer].created
    BY <2>1, StoredRun DEF IInv, DatabaseInv
  <2>3. older \in 1 .. Len(runs) /\ older < newer
    BY <2>1, <2>2
  <2>4. runs[older].created \in Nat /\ runs[newer].created \in Nat
    BY <2>1, <2>3, StoredRun
  <2> QED BY <2>2, <2>3, <2>4 DEF ListedBefore
<1> QED BY <1>1, Invariance, PTL

(* A call begins only when every earlier attempt of the run is durable.       *)
THEOREM LosesAtMostOne == Spec => []AtMostOneLost
<1>1. IInv => AtMostOneLost
  BY DEF IInv, Inv, StoredInv, AtMostOneLost
<1> QED BY <1>1, Invariance, PTL

(* Success means that the whole schedule is stored.                           *)
THEOREM DoneStoresAll == Spec => []DoneIsComplete
<1>1. IInv => DoneIsComplete
  <2> SUFFICES ASSUME IInv, NEW p \in Invocations \ NoStore, stage[p] = "done"
               PROVE  /\ Len(rows[runId[p]]) = NTasks * Repeats
                      /\ rows[runId[p]] = results[p]
    BY DEF DoneIsComplete
  <2>1. /\ runId[p] # 0 /\ Len(results[p]) = NTasks * Repeats
        /\ Len(rows[runId[p]]) = Len(results[p])
        /\ \A k \in 1 .. Len(rows[runId[p]]) : rows[runId[p]][k] = results[p][k]
    BY DEF IInv, Inv, RunInv, LoopInv, StoredInv
  <2>2. results[p] \in Seq(Rows) /\ rows[runId[p]] \in Seq(Rows)
    BY <2>1 DEF IInv, Inv, TypeOK, RunInv, DatabaseInv
  <2> QED BY <2>1, <2>2
<1> QED BY <1>1, Invariance, PTL

(* A directory that is left has its cause in its own attempt: a kill, a       *)
(* second Ctrl-C, a grader that raised, or a submission that outlived it.     *)
THEOREM DirectoriesAccounted == Spec => []WorkspacesAccounted
<1>1. IInv => WorkspacesAccounted
  BY DEF IInv, Inv, WorkInv, Marked, Broken, WorkspacesAccounted
<1> QED BY <1>1, Invariance, PTL

-----------------------------------------------------------------------------
(* The order of the schedule: an attempt follows its predecessor's slot.      *)
OrderInv(p) ==
    /\ results[p] # <<>> => results[p][1].slot = <<1, 1>>
    /\ \A k \in 2 .. Len(results[p]) :
          results[p][k].slot = Journal!Successor(results[p][k - 1].slot)
    /\ stage[p] \in Mid \cup Early =>
          <<task[p], attempt[p]>> =
              IF results[p] = <<>> THEN <<1, 1>>
              ELSE Journal!Successor(results[p][Len(results[p])].slot)
    /\ stage[p] = "recording" =>
          /\ results[p] # <<>>
          /\ results[p][Len(results[p])].slot = <<task[p], attempt[p]>>

Ordered == \A p \in Invocations : OrderInv(p)

(* A step of another process, or one that only moves between stages.          *)
LEMMA StillOrdered ==
    ASSUME IInv, NEW p \in Invocations, OrderInv(p),
           UNCHANGED <<task[p], attempt[p], results[p]>>,
           \/ stage'[p] = stage[p]
           \/ stage'[p] \notin Mid \cup Early \cup {"recording"}
           \/ stage[p] \in Mid \cup Early /\ stage'[p] # "recording"
    PROVE  OrderInv(p)'
BY DEF OrderInv, Mid, Early, Journal!Successor

LEMMA ResultOrdered ==
    ASSUME IInv, NEW p \in Invocations, NEW verdict \in Verdicts, OrderInv(p),
           stage[p] \in Mid, Result(p, verdict), UNCHANGED <<task, attempt>>
    PROVE  OrderInv(p)'
<1> DEFINE row == [slot |-> <<task[p], attempt[p]>>, verdict |-> verdict]
           n == Len(results[p])
<1>1. row \in Rows /\ row.slot = <<task[p], attempt[p]>>
  BY DEF IInv, TypeOK, Rows, Slots
<1>2. /\ results[p] \in Seq(Rows) /\ results'[p] = Append(results[p], row)
      /\ stage'[p] = "recording"
  BY DEF IInv, TypeOK, Result, Goto, Current
<1> HIDE DEF row
<1>3. /\ n \in Nat /\ Len(results'[p]) = n + 1 /\ results'[p] # <<>>
      /\ results'[p][n + 1] = row
      /\ \A k \in 1 .. n : results'[p][k] = results[p][k]
      /\ (n = 0) <=> (results[p] = <<>>)
  <2>1. n \in Nat /\ ((n = 0) <=> (results[p] = <<>>))
    BY <1>2
  <2>2. /\ Len(results'[p]) = n + 1 /\ results'[p][n + 1] = row
        /\ \A k \in 1 .. n : results'[p][k] = results[p][k]
    BY <1>1, <1>2
  <2>3. results'[p] # <<>>
    BY <2>1, <2>2
  <2> QED BY <2>1, <2>2, <2>3
<1>4. row.slot = IF results[p] = <<>> THEN <<1, 1>>
                 ELSE Journal!Successor(results[p][n].slot)
  BY <1>1 DEF OrderInv
<1> HIDE DEF n
<1>5. results'[p][1].slot = <<1, 1>>
  BY <1>3, <1>4 DEF OrderInv, n
<1>6. ASSUME NEW k \in 2 .. n + 1
      PROVE  results'[p][k].slot = Journal!Successor(results'[p][k - 1].slot)
  <2>1. CASE k = n + 1
    <3>1. results'[p][k - 1] = results[p][n] /\ results[p] # <<>>
      BY <1>3, <2>1
    <3> QED BY <1>3, <1>4, <2>1, <3>1
  <2>2. CASE k # n + 1
    <3>1. /\ k \in 2 .. n /\ k - 1 \in 1 .. n /\ k \in 1 .. n
      BY <1>3, <2>2
    <3>2. results[p][k].slot = Journal!Successor(results[p][k - 1].slot)
      BY <3>1 DEF OrderInv, n
    <3> QED BY <1>3, <3>1, <3>2
  <2> QED BY <2>1, <2>2
<1> QED BY <1>1, <1>2, <1>3, <1>5, <1>6 DEF OrderInv, Mid, Early

LEMMA AdvanceOrdered ==
    ASSUME IInv, NEW p \in Invocations, OrderInv(p), stage[p] = "recording",
           Advance(p), UNCHANGED results
    PROVE  OrderInv(p)'
<1>1. /\ task[p] \in Nat /\ attempt[p] \in 1 .. Repeats /\ Repeats \in Nat
      /\ results[p] # <<>> /\ results[p][Len(results[p])].slot = <<task[p], attempt[p]>>
  BY BenchAssumption DEF IInv, TypeOK, OrderInv
<1>2. \/ /\ stage'[p] = "ready"
         /\ <<task'[p], attempt'[p]>> = Journal!Successor(<<task[p], attempt[p]>>)
      \/ stage'[p] = "closing"
  <2>1. \/ /\ attempt[p] < Repeats /\ attempt'[p] = attempt[p] + 1
           /\ task'[p] = task[p] /\ stage'[p] = "ready"
        \/ /\ attempt[p] >= Repeats /\ task'[p] = task[p] + 1 /\ attempt'[p] = 1
           /\ stage'[p] = "ready"
        \/ stage'[p] = "closing"
    BY DEF Advance, Goto, IInv, TypeOK
  <2> QED BY <1>1, <2>1 DEF Journal!Successor
<1> QED BY <1>1, <1>2 DEF OrderInv, Mid, Early

LEMMA OthersOrdered ==
    ASSUME IInv, Ordered, NEW p \in Invocations, OrderInv(p)',
           \A q \in Invocations \ {p} :
              UNCHANGED <<stage[q], task[q], attempt[q], results[q]>>
    PROVE  Ordered'
BY StillOrdered DEF Ordered

(* A step of p that leaves its loops and results alone.                       *)
LEMMA MovesOrdered ==
    ASSUME IInv, Ordered, NEW p \in Invocations, UNCHANGED <<task, attempt, results>>,
           NEW s, Goto(p, s),
           \/ s = stage[p]
           \/ s \notin Mid \cup Early \cup {"recording"}
           \/ stage[p] \in Mid \cup Early /\ s # "recording"
    PROVE  Ordered'
<1>1. stage'[p] = s /\ \A q \in Invocations \ {p} : stage'[q] = stage[q]
  BY DEF IInv, TypeOK, Goto
<1>2. OrderInv(p)'
  BY <1>1, StillOrdered DEF Ordered
<1> QED BY <1>1, <1>2, OthersOrdered

LEMMA RecordOrdered ==
    ASSUME IInv, Ordered, NEW p \in Invocations, Record(p)
    PROVE  Ordered'
<1>1. stage[p] = "recording" /\ UNCHANGED <<results, calls>>
  BY DEF Record
<1>2. CASE Goto(p, "unwinding") /\ UNCHANGED <<task, attempt>>
  BY <1>1, <1>2, MovesOrdered DEF Mid, Early
<1>3. CASE Advance(p)
  <2>1. OrderInv(p)'
    BY <1>1, <1>3, AdvanceOrdered DEF Ordered
  <2>2. \A q \in Invocations \ {p} : UNCHANGED <<stage[q], task[q], attempt[q], results[q]>>
    BY <1>1, <1>3, AdvanceLoop
  <2> QED BY <2>1, <2>2, OthersOrdered
<1> QED BY <1>2, <1>3 DEF Record

LEMMA GradedOrdered ==
    ASSUME IInv, Ordered, NEW p \in Invocations, stage[p] \in Mid,
           NEW verdict \in Verdicts, Result(p, verdict), UNCHANGED <<task, attempt>>
    PROVE  Ordered'
<1>1. OrderInv(p)'
  BY ResultOrdered DEF Ordered
<1>2. \A q \in Invocations \ {p} : UNCHANGED <<stage[q], task[q], attempt[q], results[q]>>
  BY DEF Result, Goto, IInv, TypeOK
<1> QED BY <1>1, <1>2, OthersOrdered

LEMMA StepOrdered == IInv /\ Ordered /\ [Next]_vars => Ordered'
<1> SUFFICES ASSUME IInv, Ordered, [Next]_vars PROVE Ordered'
  OBVIOUS
<1>1. ASSUME NEW p \in Invocations, Preflight(p)
      PROVE  Ordered'
  <2>1. UNCHANGED <<task, attempt, results>> /\ stage[p] \in Early
    BY <1>1 DEF Preflight, Early
  <2>2. PICK s \in {"refused", "selected", "ready"} : Goto(p, s)
    BY <1>1 DEF Preflight
  <2> QED BY <2>1, <2>2, MovesOrdered
<1>2. ASSUME NEW p \in Invocations, StampRun(p)
      PROVE  Ordered'
  <2>1. UNCHANGED <<task, attempt, results>> /\ stage[p] \in Early
    BY <1>2 DEF StampRun, Early
  <2>2. PICK s \in {"aborted", "stamped"} : Goto(p, s)
    BY <1>2 DEF StampRun
  <2> QED BY <2>1, <2>2, MovesOrdered
<1>3. ASSUME NEW p \in Invocations, InsertRun(p)
      PROVE  Ordered'
  <2>1. UNCHANGED <<task, attempt, results>> /\ stage[p] \in Early
    BY <1>3 DEF InsertRun, Early
  <2>2. PICK s \in {"aborted", "ready"} : Goto(p, s)
    BY <1>3 DEF InsertRun
  <2> QED BY <2>1, <2>2, MovesOrdered
<1>4. ASSUME NEW p \in Invocations, BeginAttempt(p)
      PROVE  Ordered'
  <2>1. UNCHANGED <<task, attempt, results>> /\ stage[p] \in Mid
    BY <1>4 DEF BeginAttempt, Mid
  <2>2. PICK s \in {"unwinding", "calling"} : Goto(p, s)
    BY <1>4 DEF BeginAttempt
  <2> QED BY <2>1, <2>2, MovesOrdered
<1>5. ASSUME NEW p \in Invocations, CallEnds(p)
      PROVE  Ordered'
  <2>1. UNCHANGED <<task, attempt>> /\ stage[p] \in Mid /\ "api_error" \in Verdicts
    BY <1>5 DEF CallEnds, Mid, Verdicts
  <2> QED BY <1>5, <2>1, GradedOrdered, MovesOrdered DEF CallEnds
<1>6. ASSUME NEW p \in Invocations, GradeText(p)
      PROVE  Ordered'
  <2>1. UNCHANGED <<task, attempt>> /\ stage[p] \in Mid
    BY <1>6 DEF GradeText, Mid
  <2>2. PICK v \in Verdicts : Result(p, v)
    BY <1>6 DEF GradeText, Verdicts
  <2> QED BY <2>1, <2>2, GradedOrdered
<1>7. ASSUME NEW p \in Invocations, CreateWorkspace(p)
      PROVE  Ordered'
  <2>1. UNCHANGED <<task, attempt>> /\ stage[p] \in Mid /\ "grader_error" \in Verdicts
    BY <1>7 DEF CreateWorkspace, Mid, Verdicts
  <2>2. (Goto(p, "grading") /\ UNCHANGED results) \/ Result(p, "grader_error")
    BY <1>7 DEF CreateWorkspace
  <2> QED BY <2>1, <2>2, GradedOrdered, MovesOrdered
<1>8. ASSUME NEW p \in Invocations, GradeInSandbox(p)
      PROVE  Ordered'
  <2>1. UNCHANGED <<task, attempt>> /\ stage[p] \in Mid
    BY <1>8 DEF GradeInSandbox, Mid
  <2>2. PICK v \in Verdicts : Result(p, v)
    BY <1>8 DEF GradeInSandbox, Verdicts
  <2> QED BY <2>1, <2>2, GradedOrdered
<1>9. ASSUME NEW p \in Invocations, Close(p)
      PROVE  Ordered'
  <2>1. UNCHANGED <<task, attempt, results>>
    BY <1>9 DEF Close
  <2>2. PICK s \in {"done", "aborted"} : Goto(p, s)
    BY <1>9 DEF Close
  <2> QED BY <2>1, <2>2, MovesOrdered DEF Mid, Early
<1>10. ASSUME NEW p \in Invocations, Interrupt(p)
       PROVE  Ordered'
  <2>1. UNCHANGED <<task, attempt, results>>
    BY <1>10 DEF Interrupt
  <2>2. CASE stage[p] = "calling" /\ Goto(p, "unwinding")
    BY <2>1, <2>2, MovesOrdered DEF Mid, Early
  <2>3. CASE UNCHANGED stage
    <3>1. \A q \in Invocations : UNCHANGED <<stage[q], task[q], attempt[q], results[q]>>
      BY <2>1, <2>3
    <3> QED BY <3>1, StillOrdered DEF Ordered
  <2> QED BY <1>10, <2>2, <2>3 DEF Interrupt
<1>11. ASSUME NEW p \in Invocations, Crash(p)
       PROVE  Ordered'
  <2>1. UNCHANGED <<task, attempt, results>> /\ Goto(p, "crashed")
    BY <1>11 DEF Crash
  <2> QED BY <2>1, MovesOrdered DEF Mid, Early
<1>12. ASSUME NEW p \in Invocations, InterruptAgain(p)
       PROVE  Ordered'
  <2>1. UNCHANGED <<task, attempt, results>> /\ \E s \in {"unwinding", "aborted"} : Goto(p, s)
    BY <1>12 DEF InterruptAgain
  <2> QED BY <2>1, MovesOrdered DEF Mid, Early
<1>13. CASE UNCHANGED vars
  <2>1. \A p \in Invocations : UNCHANGED <<stage[p], task[p], attempt[p], results[p]>>
    BY <1>13 DEF vars
  <2> QED BY <2>1, StillOrdered DEF Ordered
<1> QED BY <1>1, <1>2, <1>3, <1>4, <1>5, <1>6, <1>7, <1>8, <1>9, <1>10, <1>11, <1>12, <1>13,
           RecordOrdered DEF Next, Work, AllEnded

-----------------------------------------------------------------------------

(* A function on 1 .. n is a sequence.                                        *)
LEMMA FunctionIsSeq ==
    ASSUME NEW S, NEW n \in Nat, NEW f \in [1 .. n -> S]
    PROVE  f \in Seq(S) /\ Len(f) = n
BY SeqDef

(* The slots of the stored rows r, the journal of a database.                 *)
SlotsOf(mine) == [k \in DOMAIN mine |-> mine[k].slot]
SlotsIn(r) == [id \in DOMAIN r |-> SlotsOf(r[id])]
SlotSeqs == Seq(Slots)

LEMMA SlotsOfFacts ==
    ASSUME NEW mine \in Seq(Rows)
    PROVE  /\ SlotsOf(mine) \in SlotSeqs /\ Len(SlotsOf(mine)) = Len(mine)
           /\ \A k \in 1 .. Len(mine) : SlotsOf(mine)[k] = mine[k].slot
<1>1. Len(mine) \in Nat /\ DOMAIN mine = 1 .. Len(mine)
  OBVIOUS
<1>2. \A k \in 1 .. Len(mine) : mine[k].slot \in Slots
  <2>1. \A k \in 1 .. Len(mine) : mine[k] \in Rows
    OBVIOUS
  <2> QED BY <2>1 DEF Rows
<1>3. \A k \in 1 .. Len(mine) : SlotsOf(mine)[k] = mine[k].slot
  BY <1>1 DEF SlotsOf
<1>4. SlotsOf(mine) \in [1 .. Len(mine) -> Slots]
  BY <1>1, <1>2 DEF SlotsOf
<1> QED BY <1>1, <1>3, <1>4, FunctionIsSeq DEF SlotSeqs

LEMMA SlotsInFacts ==
    ASSUME NEW r \in Seq(Seq(Rows))
    PROVE  /\ SlotsIn(r) \in Seq(SlotSeqs) /\ Len(SlotsIn(r)) = Len(r)
           /\ \A id \in 1 .. Len(r) : SlotsIn(r)[id] = SlotsOf(r[id])
<1>1. Len(r) \in Nat /\ DOMAIN r = 1 .. Len(r)
  OBVIOUS
<1>2. \A id \in 1 .. Len(r) : r[id] \in Seq(Rows)
  OBVIOUS
<1>3. SlotsIn(r) \in [1 .. Len(r) -> SlotSeqs]
  BY <1>1, <1>2, SlotsOfFacts DEF SlotsIn
<1>4. \A id \in 1 .. Len(r) : SlotsIn(r)[id] = SlotsOf(r[id])
  BY <1>1 DEF SlotsIn
<1> QED BY <1>1, <1>3, <1>4, FunctionIsSeq

(* start_run adds an empty run to the journal.                                *)
LEMMA StartsJournal ==
    ASSUME IInv, rows' = Append(rows, <<>>)
    PROVE  SlotsIn(rows') = Append(SlotsIn(rows), <<>>)
<1>1. /\ rows \in Seq(Seq(Rows)) /\ rows' \in Seq(Seq(Rows)) /\ Len(rows) \in Nat
      /\ <<>> \in SlotSeqs
  <2>1. rows \in Seq(Seq(Rows)) /\ <<>> \in Seq(Rows)
    BY DEF IInv, TypeOK
  <2> QED BY <2>1 DEF SlotSeqs
<1>2. /\ Len(rows') = Len(rows) + 1 /\ rows'[Len(rows) + 1] = <<>>
      /\ \A id \in 1 .. Len(rows) : rows'[id] = rows[id]
  BY <1>1
<1> DEFINE S == SlotsIn(rows)
           T == SlotsIn(rows')
           n == Len(rows)
<1>3. SlotsOf(<<>>) = <<>>
  BY DEF SlotsOf
<1>4. /\ S \in Seq(SlotSeqs) /\ Len(S) = n
      /\ T \in Seq(SlotSeqs) /\ Len(T) = n + 1
      /\ T[n + 1] = <<>> /\ \A id \in 1 .. n : T[id] = S[id]
  <2>1. /\ S \in Seq(SlotSeqs) /\ Len(S) = n
        /\ \A id \in 1 .. n : S[id] = SlotsOf(rows[id])
    BY <1>1, SlotsInFacts
  <2>2. /\ T \in Seq(SlotSeqs) /\ Len(T) = n + 1
        /\ \A id \in 1 .. n + 1 : T[id] = SlotsOf(rows'[id])
    BY <1>1, <1>2, SlotsInFacts
  <2> HIDE DEF S, T
  <2> QED BY <1>1, <1>2, <1>3, <2>1, <2>2
<1> HIDE DEF S, T, n
<1>5. n \in Nat
  BY <1>1 DEF n
<1>6. /\ Append(S, <<>>) \in Seq(SlotSeqs) /\ Len(Append(S, <<>>)) = n + 1
      /\ Append(S, <<>>)[n + 1] = <<>> /\ \A id \in 1 .. n : Append(S, <<>>)[id] = S[id]
  BY <1>1, <1>4
<1>7. \A id \in 1 .. n + 1 : T[id] = Append(S, <<>>)[id]
  BY <1>4, <1>5, <1>6
<1>8. T = Append(S, <<>>)
  BY <1>4, <1>6, <1>7, SeqEqual
<1> QED BY <1>8 DEF S, T

(* A committed row is the next slot of its run.                               *)
LEMMA LogsNextSlot ==
    ASSUME IInv, Ordered, NEW p \in Invocations, stage[p] = "recording", p \notin NoStore,
           rows' = RowAdded(p)
    PROVE  \E id \in DOMAIN SlotsIn(rows) :
              LET next == Journal!NextSlot(SlotsIn(rows)[id])
              IN  /\ next \in Slots
                  /\ SlotsIn(rows') =
                        [SlotsIn(rows) EXCEPT ![id] = Append(SlotsIn(rows)[id], next)]
<1> DEFINE id == runId[p]
           mine == rows[id]
           n == Len(mine)
           row == results[p][Len(results[p])]
<1>1. /\ RunInv(p) /\ LoopInv(p) /\ StoredInv(p) /\ OrderInv(p)
      /\ rows \in Seq(Seq(Rows)) /\ results[p] \in Seq(Rows)
      /\ Len(runs) \in Nat /\ Len(rows) = Len(runs)
  BY DEF IInv, Inv, TypeOK, DatabaseInv, Ordered
<1>2. id # 0 /\ id \in 1 .. Len(rows) /\ Len(results[p]) >= 1 /\ row \in Rows
  BY <1>1 DEF RunInv, LoopInv, InLoop
<1>3. /\ mine \in Seq(Rows) /\ n \in Nat /\ n + 1 = Len(results[p])
      /\ \A k \in 1 .. n : mine[k] = results[p][k]
  BY <1>1, <1>2 DEF StoredInv
<1>4. rows' = [rows EXCEPT ![id] = Append(mine, row)]
  BY DEF RowAdded
<1>5. row.slot = Journal!NextSlot(SlotsOf(mine))
  <2>1. /\ SlotsOf(mine) \in SlotSeqs /\ Len(SlotsOf(mine)) = n
        /\ \A k \in 1 .. n : SlotsOf(mine)[k] = mine[k].slot
    BY <1>3, SlotsOfFacts
  <2>2. CASE n = 0
    <3>1. SlotsOf(mine) = <<>> /\ row.slot = <<1, 1>>
      <4>1. SlotsOf(mine) = <<>>
        <5> DEFINE slots == SlotsOf(mine)
        <5>1. slots \in Seq(Slots) /\ Len(slots) = 0
          BY <2>1, <2>2 DEF SlotSeqs
        <5> HIDE DEF slots
        <5>2. slots = <<>>
          BY <5>1
        <5> QED BY <5>2 DEF slots
      <4>2. Len(results[p]) = 1
        BY <1>3, <2>2
      <4>3. results[p][1].slot = <<1, 1>>
        BY <1>1, <4>2 DEF OrderInv
      <4> QED BY <4>1, <4>2, <4>3
    <3>2. Journal!NextSlot(<<>>) = <<1, 1>>
      BY DEF Journal!NextSlot, Journal!FirstSlot
    <3> QED BY <3>1, <3>2
  <2>3. CASE n # 0
    <3>1. SlotsOf(mine) # <<>> /\ SlotsOf(mine)[Len(SlotsOf(mine))] = results[p][n].slot
      BY <1>3, <2>1, <2>3
    <3>2. n + 1 \in 2 .. Len(results[p]) /\ (n + 1) - 1 = n
      BY <1>3, <2>3
    <3>3. results[p][n + 1].slot = Journal!Successor(results[p][(n + 1) - 1].slot)
      BY <1>1, <3>2 DEF OrderInv
    <3>4. row.slot = Journal!Successor(results[p][n].slot)
      BY <1>3, <3>2, <3>3
    <3> QED BY <3>1, <3>4 DEF Journal!NextSlot
  <2> QED BY <2>2, <2>3
<1>6. row.slot \in Slots
  BY <1>2 DEF Rows
<1> HIDE DEF id, mine, n, row
<1> DEFINE more == Append(mine, row)
           S == SlotsIn(rows)
<1>7. /\ more \in Seq(Rows) /\ Len(more) = n + 1 /\ more[n + 1] = row
      /\ \A k \in 1 .. n : more[k] = mine[k]
  BY <1>2, <1>3 DEF n
<1>8. SlotsOf(more) = Append(SlotsOf(mine), row.slot)
  <2>1. /\ SlotsOf(mine) \in SlotSeqs /\ Len(SlotsOf(mine)) = n
        /\ \A k \in 1 .. n : SlotsOf(mine)[k] = mine[k].slot
        /\ SlotsOf(more) \in SlotSeqs /\ Len(SlotsOf(more)) = n + 1
        /\ \A k \in 1 .. n + 1 : SlotsOf(more)[k] = more[k].slot
    BY <1>3, <1>7, SlotsOfFacts DEF n
  <2> HIDE DEF more
  <2> DEFINE app == Append(SlotsOf(mine), row.slot)
  <2>2. /\ app \in SlotSeqs /\ Len(app) = n + 1 /\ app[n + 1] = row.slot
        /\ \A k \in 1 .. n : app[k] = SlotsOf(mine)[k]
    BY <1>6, <2>1 DEF SlotSeqs
  <2> HIDE DEF app
  <2>3. ASSUME NEW k \in 1 .. n + 1 PROVE SlotsOf(more)[k] = app[k]
    <3>1. n \in Nat
      BY <1>3 DEF n
    <3>2. k \in 1 .. n \/ k = n + 1
      BY <3>1
    <3>3. CASE k \in 1 .. n
      BY <1>7, <2>1, <2>2, <3>3
    <3>4. CASE k = n + 1
      BY <1>7, <2>1, <2>2, <3>4
    <3> QED BY <3>2, <3>3, <3>4
  <2>4. SlotsOf(more) = app
    BY <2>1, <2>2, <2>3, SeqEqual DEF SlotSeqs
  <2> QED BY <2>4 DEF app
<1> HIDE DEF more
<1>9. /\ rows' \in Seq(Seq(Rows)) /\ Len(rows') = Len(rows) /\ rows'[id] = more
      /\ \A i \in 1 .. Len(rows) : i # id => rows'[i] = rows[i]
  <2>1. rows' = [rows EXCEPT ![id] = more]
    BY <1>4 DEF more
  <2> DEFINE RowSeqs == Seq(Rows)
  <2>2. rows \in Seq(RowSeqs) /\ more \in RowSeqs /\ id \in 1 .. Len(rows)
    BY <1>1, <1>2, <1>7
  <2> HIDE DEF RowSeqs
  <2>3. /\ rows' \in Seq(RowSeqs) /\ Len(rows') = Len(rows)
        /\ \A i \in 1 .. Len(rows) : rows'[i] = IF i = id THEN more ELSE rows[i]
    <3>1. /\ [rows EXCEPT ![id] = more] \in Seq(RowSeqs)
          /\ Len([rows EXCEPT ![id] = more]) = Len(rows)
          /\ \A i \in 1 .. Len(rows) :
                [rows EXCEPT ![id] = more][i] = IF i = id THEN more ELSE rows[i]
      BY <2>2, ExceptSeq
    <3> QED BY <2>1, <3>1
  <2> QED BY <2>2, <2>3 DEF RowSeqs
<1>10. /\ S \in Seq(SlotSeqs) /\ Len(S) = Len(rows) /\ Len(rows) \in Nat
       /\ SlotsIn(rows') \in Seq(SlotSeqs) /\ Len(SlotsIn(rows')) = Len(rows)
       /\ \A i \in 1 .. Len(rows) : /\ S[i] = SlotsOf(rows[i])
                                     /\ SlotsIn(rows')[i] = SlotsOf(rows'[i])
       /\ SlotsOf(more) \in SlotSeqs
  BY <1>1, <1>7, <1>9, SlotsInFacts, SlotsOfFacts
<1> HIDE DEF S
<1>11. SlotsIn(rows') = [S EXCEPT ![id] = SlotsOf(more)]
  <2> DEFINE upd == [S EXCEPT ![id] = SlotsOf(more)]
  <2>1. /\ upd \in Seq(SlotSeqs) /\ Len(upd) = Len(rows) /\ upd[id] = SlotsOf(more)
        /\ \A i \in 1 .. Len(rows) : i # id => upd[i] = S[i]
    <3> DEFINE value == SlotsOf(more)
    <3>1. S \in Seq(SlotSeqs) /\ id \in 1 .. Len(S) /\ value \in SlotSeqs /\ Len(S) = Len(rows)
      BY <1>2, <1>10
    <3> HIDE DEF value
    <3>2. /\ [S EXCEPT ![id] = value] \in Seq(SlotSeqs)
          /\ Len([S EXCEPT ![id] = value]) = Len(S)
          /\ \A i \in 1 .. Len(S) :
                [S EXCEPT ![id] = value][i] = IF i = id THEN value ELSE S[i]
      BY <3>1, ExceptSeq
    <3> QED BY <3>1, <3>2 DEF value
  <2> HIDE DEF upd
  <2>2. ASSUME NEW i \in 1 .. Len(rows) PROVE SlotsIn(rows')[i] = upd[i]
    <3>1. SlotsIn(rows')[i] = SlotsOf(rows'[i]) /\ S[i] = SlotsOf(rows[i])
      BY <1>10
    <3>2. CASE i = id
      BY <3>1, <3>2, <1>9, <2>1
    <3>3. CASE i # id
      <4>1. rows'[i] = rows[i] /\ upd[i] = S[i]
        BY <3>3, <1>9, <2>1
      <4> QED BY <3>1, <4>1
    <3> QED BY <3>2, <3>3
  <2>3. SlotsIn(rows') = upd
    BY <1>10, <2>1, <2>2, SeqEqual
  <2> QED BY <2>3 DEF upd
<1>12. id \in DOMAIN S /\ S[id] = SlotsOf(mine)
  BY <1>2, <1>10 DEF mine
<1> QED BY <1>5, <1>6, <1>8, <1>11, <1>12 DEF S

(* The database implements the abstract journal.                              *)
THEOREM ImplementsTheJournal == Spec => ImplementsJournal
<1>1. Init => Journal!Init /\ Ordered
  <2>1. Init => Journal!Init
    BY DEF Init, Journal!Init
  <2>2. Init => Ordered
    <3> SUFFICES ASSUME Init, NEW p \in Invocations PROVE OrderInv(p)
      BY DEF Ordered
    <3>1. results[p] = <<>> /\ task[p] = 1 /\ attempt[p] = 1 /\ stage[p] = "idle"
      BY DEF Init
    <3>2. 2 .. Len(results[p]) = {}
      BY <3>1
    <3> QED BY <3>1, <3>2 DEF OrderInv
  <2> QED BY <2>1, <2>2
<1>2. ASSUME IInv, Ordered, [Next]_vars
      PROVE  Journal!Next \/ UNCHANGED SlotsIn(rows)
  <2>1. CASE UNCHANGED rows
    BY <2>1
  <2>2. ASSUME NEW p \in Invocations, InsertRun(p), rows' # rows
        PROVE  Journal!Next
    <3>1. rows' = Append(rows, <<>>)
      BY <2>2 DEF InsertRun
    <3>2. SlotsIn(rows') = Append(SlotsIn(rows), <<>>)
      BY <1>2, <3>1, StartsJournal
    <3> QED BY <3>2 DEF Journal!Next, Journal!StartRun, SlotsIn, SlotsOf
  <2>3. ASSUME NEW p \in Invocations, Record(p) \/ InterruptAgain(p), rows' # rows
        PROVE  Journal!Next
    <3>1. stage[p] = "recording" /\ p \notin NoStore /\ rows' = RowAdded(p)
      BY <2>3 DEF Record, InterruptAgain
    <3>2. PICK id \in DOMAIN SlotsIn(rows) :
              /\ Journal!NextSlot(SlotsIn(rows)[id]) \in Slots
              /\ SlotsIn(rows') = [SlotsIn(rows) EXCEPT ![id] =
                    Append(SlotsIn(rows)[id], Journal!NextSlot(SlotsIn(rows)[id]))]
      BY <1>2, <3>1, LogsNextSlot
    <3> QED BY <3>2 DEF Journal!Next, Journal!Log, Journal!Slots, Slots, SlotsIn, SlotsOf
  <2>4. ASSUME NEW p \in Invocations,
               Preflight(p) \/ StampRun(p) \/ BeginAttempt(p) \/ CallEnds(p) \/ GradeText(p)
               \/ CreateWorkspace(p) \/ GradeInSandbox(p) \/ Close(p) \/ Interrupt(p) \/ Crash(p)
        PROVE  UNCHANGED rows
    BY <2>4 DEF Preflight, StampRun, BeginAttempt, CallEnds, GradeText, CreateWorkspace,
                GradeInSandbox, Close, Interrupt, Crash, database
  <2>5. UNCHANGED vars => UNCHANGED rows
    BY DEF vars
  <2> QED BY <1>2, <2>1, <2>2, <2>3, <2>4, <2>5 DEF Next, Work, AllEnded
<1>3. IInv /\ Ordered /\ [Next]_vars => [Journal!Next]_(SlotsIn(rows))
  BY <1>2
<1> QED BY <1>1, <1>3, Invariance, StepOrdered, PTL
        DEF Spec, ImplementsJournal, Journal!Spec, SlotsIn, SlotsOf

-----------------------------------------------------------------------------
(* What there is of RunEnds without fairness: a run comes nearer to its end   *)
(* with every step it takes.                                                  *)

\* A bound on the steps a process has still to take when this many slots of its
\* schedule have no result: six for each (begin, call, create, grade, record) and
\* a few around.
StepsAt(s, todo) ==
    CASE s = "idle"      -> 6 * todo + 4
      [] s = "selected"  -> 6 * todo + 3
      [] s = "stamped"   -> 6 * todo + 2
      [] s = "ready"     -> 6 * todo + 1
      [] s = "calling"   -> 6 * todo
      [] s = "answered"  -> 6 * todo - 1
      [] s = "grading"   -> 6 * todo - 2
      [] s = "recording" -> 6 * todo + 2
      [] s \in {"closing", "unwinding"} -> 1
      [] OTHER -> 0

ToDo(p) == NTasks * Repeats - Len(results[p])
StepsLeft(p) == StepsAt(stage[p], ToDo(p))

(* A process never goes back and never goes round: every step of its own that *)
(* moves it, failed writes and cancellations included, takes it nearer to its *)
(* end, and no step of another process takes it away from there (_run_all).   *)
RunsGetOn ==
    [][\A p \in Invocations :
          /\ StepsLeft(p) \in Nat /\ StepsLeft(p)' \in Nat
          /\ stage'[p] # stage[p] => StepsLeft(p)' < StepsLeft(p)
          /\ stage'[p] = stage[p] => StepsLeft(p)' = StepsLeft(p)]_vars

(* The results of a process are within its schedule, and it begins no attempt *)
(* when they fill it.                                                         *)
LEMMA WithinSchedule ==
    ASSUME IInv, NEW p \in Invocations
    PROVE  /\ NTasks * Repeats \in Nat \ {0} /\ Len(results[p]) \in Nat
           /\ stage[p] \in Early => Len(results[p]) = 0
           /\ stage[p] \in Mid => Len(results[p]) + 1 <= NTasks * Repeats
           /\ stage[p] = "recording" => Len(results[p]) <= NTasks * Repeats
<1>1. /\ NTasks \in Nat \ {0} /\ Repeats \in Nat \ {0} /\ task[p] \in 1 .. NTasks
      /\ attempt[p] \in 1 .. Repeats /\ results[p] \in Seq(Rows)
  BY BenchAssumption DEF IInv, TypeOK
<1>2. \A n, r \in Nat \ {0} : \A t \in 1 .. n : \A a \in 1 .. r :
         n * r \in Nat \ {0} /\ (t - 1) * r + a <= n * r
  <2> SUFFICES ASSUME NEW n \in Nat \ {0}, NEW r \in Nat \ {0}, NEW t \in 1 .. n, NEW a \in 1 .. r
               PROVE  n * r \in Nat \ {0} /\ (t - 1) * r + a <= n * r
    OBVIOUS
  <2>1. PICK left \in Nat : n = t + left
    <3>1. n - t \in Nat /\ n = t + (n - t)
      OBVIOUS
    <3> QED BY <3>1
  <2>2. n * r = (t - 1) * r + r + left * r
    BY <2>1
  <2>3. (t - 1) * r \in Nat /\ left * r \in Nat
    BY <2>1
  <2> QED BY <2>2, <2>3
<1>3. LoopInv(p)
  BY DEF IInv, Inv
<1>4. (task[p] - 1) * Repeats + attempt[p] <= NTasks * Repeats /\ NTasks * Repeats \in Nat \ {0}
  BY <1>1, <1>2
<1>5. stage[p] \in Early => Len(results[p]) = 0
  BY <1>3 DEF LoopInv
<1> QED BY <1>1, <1>3, <1>4, <1>5 DEF LoopInv

\* The steps of one process leave what another has to do.
LEMMA OthersStand ==
    ASSUME NEW q \in Invocations, stage'[q] = stage[q], results'[q] = results[q]
    PROVE  StepsLeft(q)' = StepsLeft(q)
BY DEF StepsLeft, ToDo

\* The bound in numbers.
Busy == {"idle", "selected", "stamped"} \cup Mid \cup {"recording"}

LEMMA SettledSteps ==
    ASSUME NEW n \in Int
    PROVE  /\ StepsAt("closing", n) = 1 /\ StepsAt("unwinding", n) = 1
           /\ \A s \in Ended : StepsAt(s, n) = 0
BY DEF StepsAt, Ended

LEMMA StepsAre ==
    ASSUME IInv, NEW p \in Invocations
    PROVE  /\ ToDo(p) \in Int
           /\ stage[p] \in Busy => ToDo(p) \in Nat
           /\ stage[p] \in Mid => ToDo(p) >= 1
           /\ StepsLeft(p) \in Nat
           /\ stage[p] \in Busy => StepsLeft(p) >= 2
           /\ stage[p] \in {"closing", "unwinding"} => StepsLeft(p) = 1
           /\ stage[p] \in Ended => StepsLeft(p) = 0
<1>1. PICK done, all : done = Len(results[p]) /\ all = NTasks * Repeats
  OBVIOUS
<1>2. /\ all \in Nat \ {0} /\ done \in Nat
      /\ stage[p] \in Early => done = 0
      /\ stage[p] \in Mid => done + 1 <= all
      /\ stage[p] = "recording" => done <= all
  BY <1>1, WithinSchedule
<1>3. stage[p] \in Busy \cup {"closing", "unwinding"} \cup Ended
  BY DEF IInv, TypeOK, Stages, InLoop, Busy, Mid
<1>4. ToDo(p) = all - done
  BY <1>1 DEF ToDo
<1>5. /\ stage[p] \in Busy => ToDo(p) \in Nat
      /\ stage[p] \in Mid => ToDo(p) >= 1
  BY <1>2, <1>4 DEF Busy, Early, Mid
<1>6. ASSUME NEW s \in Busy, NEW n \in Nat, s \in Mid => n >= 1
      PROVE  StepsAt(s, n) \in Nat /\ StepsAt(s, n) >= 2
  <2>1. CASE s \in Mid
    BY <1>6, <2>1 DEF StepsAt, Mid
  <2>2. CASE s \in {"idle", "selected", "stamped", "recording"}
    BY <1>6, <2>2 DEF StepsAt
  <2> QED BY <2>1, <2>2 DEF Busy
<1>7. ToDo(p) \in Int
  BY <1>2, <1>4
<1> QED BY <1>3, <1>5, <1>6, <1>7, SettledSteps DEF StepsLeft

\* A step to the next stage of an attempt, and one that ends in its result.
Onward == {<<"idle", "ready">>, <<"idle", "selected">>, <<"selected", "stamped">>,
           <<"stamped", "ready">>, <<"ready", "calling">>, <<"calling", "answered">>,
           <<"answered", "grading">>, <<"recording", "ready">>}

LEMMA OnwardLowers ==
    /\ \A n \in Nat, step \in Onward : StepsAt(step[2], n) < StepsAt(step[1], n)
    /\ \A n \in Nat, s \in {"calling", "answered", "grading"} :
          StepsAt("recording", n - 1) < StepsAt(s, n)
<1>1. ASSUME NEW n \in Nat, NEW step \in Onward
      PROVE  StepsAt(step[2], n) < StepsAt(step[1], n)
  BY DEF StepsAt, Onward
<1>2. ASSUME NEW n \in Nat, NEW s \in {"calling", "answered", "grading"}
      PROVE  StepsAt("recording", n - 1) < StepsAt(s, n)
  BY DEF StepsAt
<1> QED BY <1>1, <1>2

\* A process that moves to this stage without a result comes nearer to its end.
LEMMA MoveLowers ==
    ASSUME IInv, IInv', NEW p \in Invocations, NEW t, Goto(p, t), results'[p] = results[p],
           \/ stage[p] \notin Ended /\ t \in Ended
           \/ stage[p] \in Busy /\ t \in {"closing", "unwinding"}
           \/ <<stage[p], t>> \in Onward
    PROVE  stage'[p] = t /\ stage'[p] # stage[p] /\ StepsLeft(p)' < StepsLeft(p)
<1>1. stage \in [Invocations -> Stages] /\ stage'[p] = t
  BY DEF IInv, TypeOK, Goto
<1>2. ToDo(p)' = ToDo(p)
  BY DEF ToDo
<1>3. CASE stage[p] \notin Ended /\ t \in Ended
  <2>1. StepsLeft(p)' = 0
    <3>1. StepsAt(t, ToDo(p)) = 0
      BY <1>3, StepsAre, SettledSteps
    <3> QED BY <1>1, <1>2, <3>1 DEF StepsLeft
  <2>2. stage[p] \in Busy \cup {"closing", "unwinding"}
    BY <1>1, <1>3 DEF Stages, InLoop, Busy, Mid
  <2>3. StepsLeft(p) \in Nat /\ StepsLeft(p) >= 1
    BY <2>2, StepsAre
  <2> QED BY <1>1, <1>3, <2>1, <2>3
<1>4. CASE stage[p] \in Busy /\ t \in {"closing", "unwinding"}
  <2>1. StepsLeft(p) \in Nat /\ StepsLeft(p) >= 2
    BY <1>4, StepsAre
  <2>2. StepsLeft(p)' = 1
    <3>1. StepsAt("closing", ToDo(p)) = 1 /\ StepsAt("unwinding", ToDo(p)) = 1
      BY <1>4, StepsAre, SettledSteps
    <3> QED BY <1>1, <1>2, <1>4, <3>1 DEF StepsLeft
  <2>3. t \notin Busy
    BY <1>4 DEF Busy, Mid
  <2> QED BY <1>1, <1>4, <2>1, <2>2, <2>3
<1>5. CASE <<stage[p], t>> \in Onward
  <2>1. stage[p] \in Busy /\ t # stage[p]
    BY <1>5 DEF Onward, Busy, Mid
  <2>2. ToDo(p) \in Nat
    BY <2>1, StepsAre
  <2>3. StepsAt(t, ToDo(p)) < StepsAt(stage[p], ToDo(p))
    BY <1>5, <2>2, OnwardLowers
  <2> QED BY <1>1, <1>2, <2>1, <2>3 DEF StepsLeft
<1> QED BY <1>3, <1>4, <1>5

LEMMA ResultLowers ==
    ASSUME IInv, IInv', NEW p \in Invocations, NEW verdict, Result(p, verdict),
           stage[p] \in {"calling", "answered", "grading"}
    PROVE  stage'[p] # stage[p] /\ StepsLeft(p)' < StepsLeft(p)
<1>1. stage'[p] = "recording" /\ stage[p] \in Mid
  BY DEF IInv, TypeOK, Result, Goto, Mid
<1>2. Len(results'[p]) = Len(results[p]) + 1 /\ Len(results[p]) \in Nat
  <2>1. results \in [Invocations -> Seq(Rows)]
    BY DEF IInv, TypeOK
  <2> DEFINE row == [slot |-> Current(p), verdict |-> verdict]
  <2>2. results'[p] = Append(results[p], row)
    BY <2>1 DEF Result
  <2> HIDE DEF row
  <2>3. results[p] \in Seq(Rows)
    BY <2>1
  <2>4. Len(Append(results[p], row)) = Len(results[p]) + 1 /\ Len(results[p]) \in Nat
    BY <2>3
  <2> QED BY <2>2, <2>4
<1>3. NTasks * Repeats \in Nat
  BY WithinSchedule
<1>4. ToDo(p) \in Nat /\ ToDo(p)' = ToDo(p) - 1
  <2>1. PICK all : all = NTasks * Repeats
    OBVIOUS
  <2>2. ToDo(p) = all - Len(results[p]) /\ ToDo(p)' = all - Len(results'[p])
    BY <2>1 DEF ToDo
  <2>3. ToDo(p) \in Nat
    BY <1>1, StepsAre DEF Busy
  <2> QED BY <1>2, <1>3, <2>1, <2>2, <2>3
<1>5. StepsAt("recording", ToDo(p) - 1) < StepsAt(stage[p], ToDo(p))
  BY <1>4, OnwardLowers
<1>6. "recording" # stage[p]
  BY <1>1 DEF Mid
<1> QED BY <1>1, <1>4, <1>5, <1>6 DEF StepsLeft

(* The steps of a process, one by one.                                        *)
LEMMA OwnStepLowers ==
    ASSUME IInv, IInv', NEW p \in Invocations,
           Preflight(p) \/ Work(p) \/ Interrupt(p) \/ InterruptAgain(p) \/ Crash(p)
    PROVE  /\ \/ stage'[p] # stage[p] /\ StepsLeft(p)' < StepsLeft(p)
              \/ stage'[p] = stage[p] /\ StepsLeft(p)' = StepsLeft(p)
           /\ \A q \in Invocations \ {p} : stage'[q] = stage[q] /\ results'[q] = results[q]
<1>1. stage \in [Invocations -> Stages] /\ results \in [Invocations -> Seq(Rows)]
  BY DEF IInv, TypeOK
<1>2. ASSUME NEW t, Goto(p, t), UNCHANGED results
      PROVE  \A q \in Invocations \ {p} : stage'[q] = stage[q] /\ results'[q] = results[q]
  BY <1>1, <1>2 DEF Goto
<1>3. ASSUME NEW v, Result(p, v)
      PROVE  \A q \in Invocations \ {p} : stage'[q] = stage[q] /\ results'[q] = results[q]
  BY <1>1, <1>3 DEF Result, Goto
<1>4. CASE Preflight(p) \/ StampRun(p) \/ InsertRun(p) \/ BeginAttempt(p)
  <2>1. /\ UNCHANGED results
        /\ \E t \in Stages : /\ Goto(p, t)
                             /\ \/ stage[p] \notin Ended /\ t \in Ended
                                \/ stage[p] \in Busy /\ t \in {"closing", "unwinding"}
                                \/ <<stage[p], t>> \in Onward
    BY <1>4 DEF Preflight, StampRun, InsertRun, BeginAttempt, Stages, InLoop, Ended, Busy, Mid, Onward
  <2> QED BY <1>2, <2>1, MoveLowers
<1>5. CASE CallEnds(p)
  <2>1. CASE Result(p, "api_error")
    BY <1>3, <1>5, <2>1, ResultLowers DEF CallEnds
  <2>2. CASE Goto(p, "answered") /\ UNCHANGED results
    <3>1. <<stage[p], "answered">> \in Onward
      BY <1>5 DEF CallEnds, Onward
    <3> QED BY <1>2, <2>2, <3>1, MoveLowers
  <2> QED BY <1>5, <2>1, <2>2 DEF CallEnds
<1>6. CASE GradeText(p) \/ GradeInSandbox(p)
  <2>1. PICK v : Result(p, v)
    BY <1>6 DEF GradeText, GradeInSandbox
  <2>2. stage[p] \in {"calling", "answered", "grading"}
    BY <1>6 DEF GradeText, GradeInSandbox
  <2> QED BY <1>3, <2>1, <2>2, ResultLowers
<1>7. CASE CreateWorkspace(p)
  <2>1. CASE Result(p, "grader_error")
    BY <1>3, <1>7, <2>1, ResultLowers DEF CreateWorkspace
  <2>2. CASE Goto(p, "grading") /\ UNCHANGED results
    <3>1. <<stage[p], "grading">> \in Onward
      BY <1>7 DEF CreateWorkspace, Onward
    <3> QED BY <1>2, <2>2, <3>1, MoveLowers
  <2> QED BY <1>7, <2>1, <2>2 DEF CreateWorkspace
<1>8. CASE Record(p)
  <2>1. UNCHANGED results /\ \E t \in {"ready", "closing", "unwinding"} : Goto(p, t)
    BY <1>8 DEF Record, Advance
  <2>2. stage[p] = "recording"
    BY <1>8 DEF Record
  <2>3. \A t \in {"ready", "closing", "unwinding"} :
           \/ stage[p] \in Busy /\ t \in {"closing", "unwinding"}
           \/ <<stage[p], t>> \in Onward
    BY <2>2 DEF Busy, Onward
  <2> QED BY <1>2, <2>1, <2>3, MoveLowers
<1>9. CASE Close(p) \/ Crash(p)
  <2>1. /\ UNCHANGED results
        /\ \E t \in Ended : Goto(p, t)
        /\ stage[p] \notin Ended
    BY <1>9 DEF Close, Crash, Ended
  <2> QED BY <1>2, <2>1, MoveLowers
<1>10. CASE Interrupt(p)
  <2>1. UNCHANGED results
    BY <1>10 DEF Interrupt
  <2>2. CASE stage[p] = "calling" /\ Goto(p, "unwinding")
    <3>1. stage[p] \in Busy
      BY <2>2 DEF Busy, Mid
    <3> QED BY <1>2, <2>1, <2>2, <3>1, MoveLowers
  <2>3. CASE UNCHANGED stage
    BY <2>1, <2>3, OthersStand
  <2> QED BY <1>10, <2>2, <2>3 DEF Interrupt
<1>11. CASE InterruptAgain(p)
  <2>1. UNCHANGED results /\ \E t \in {"unwinding", "aborted"} :
           /\ Goto(p, t)
           /\ \/ stage[p] \in Busy /\ t = "unwinding"
              \/ stage[p] \in {"closing", "unwinding"} /\ t = "aborted"
    BY <1>11 DEF InterruptAgain, Busy, Mid
  <2>2. \A t \in {"unwinding", "aborted"} : t = "aborted" => t \in Ended
    BY DEF Ended
  <2>3. stage[p] \in {"closing", "unwinding"} => stage[p] \notin Ended
    BY DEF Ended
  <2> QED BY <1>2, <2>1, <2>2, <2>3, MoveLowers
<1> QED BY <1>4, <1>5, <1>6, <1>7, <1>8, <1>9, <1>10, <1>11 DEF Work

(* Whatever the other processes, the provider and the disk do, a process      *)
(* takes at most 6 * NTasks * Repeats + 4 steps to another stage.  What is    *)
(* left of RunEnds is that one which can take a step takes it.                *)
THEOREM StepsRunOut == Spec => RunsGetOn
<1> DEFINE Counted == \A p \in Invocations : StepsLeft(p) \in Nat
           Nearer(p) == /\ StepsLeft(p) \in Nat /\ StepsLeft(p)' \in Nat
                        /\ stage'[p] # stage[p] => StepsLeft(p)' < StepsLeft(p)
                        /\ stage'[p] = stage[p] => StepsLeft(p)' = StepsLeft(p)
<1>1. IInv => Counted
  <2> SUFFICES ASSUME IInv, NEW p \in Invocations PROVE StepsLeft(p) \in Nat
    OBVIOUS
  <2> QED BY StepsAre
<1>2. ASSUME IInv, IInv', Counted, Counted', [Next]_vars, NEW p \in Invocations
      PROVE  Nearer(p)
  <2>1. StepsLeft(p) \in Nat /\ StepsLeft(p)' \in Nat
    BY <1>2
  <2>2. CASE UNCHANGED vars
    <3>1. stage'[p] = stage[p] /\ results'[p] = results[p]
      BY <2>2 DEF vars
    <3> QED BY <2>1, <3>1, OthersStand
  <2>3. CASE Preflight(p) \/ Work(p) \/ Interrupt(p) \/ InterruptAgain(p) \/ Crash(p)
    BY <1>2, <2>1, <2>3, OwnStepLowers
  <2>4. ASSUME NEW other \in Invocations \ {p},
               Preflight(other) \/ Work(other) \/ Interrupt(other) \/ InterruptAgain(other)
               \/ Crash(other)
        PROVE  Nearer(p)
    <3>1. stage'[p] = stage[p] /\ results'[p] = results[p]
      BY <1>2, <2>4, OwnStepLowers
    <3> QED BY <2>1, <3>1, OthersStand
  <2> QED BY <1>2, <2>2, <2>3, <2>4 DEF Next, AllEnded
<1> HIDE DEF Counted
<1>3. IInv /\ IInv' /\ Counted /\ Counted' /\ [Next]_vars => [\A p \in Invocations : Nearer(p)]_vars
  BY <1>2
<1> QED BY <1>1, <1>3, Invariance, PTL DEF Spec, RunsGetOn
=============================================================================
