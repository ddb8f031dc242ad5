----------------------------- MODULE RunJournal -----------------------------
(***************************************************************************)
(* What the results database promises about `bench run`: a run's attempts  *)
(* become durable one at a time, in the order of the schedule (task by     *)
(* task, the repeats of a task in a row), and what is durable stays as it  *)
(* is.  A run may stop early; nothing says when.                           *)
(***************************************************************************)
EXTENDS Naturals, Sequences

CONSTANTS NTasks, Repeats      \* the schedule: NTasks tasks, Repeats attempts each

VARIABLE journal               \* journal[id]: the slots run id has made durable

Slots == (1 .. NTasks) \X (1 .. Repeats)

FirstSlot == <<1, 1>>
LastSlot == <<NTasks, Repeats>>

Successor(slot) == IF slot[2] < Repeats THEN <<slot[1], slot[2] + 1>>
                                        ELSE <<slot[1] + 1, 1>>

\* The slot that follows the slots of a run so far.
NextSlot(slots) == IF slots = <<>> THEN FirstSlot ELSE Successor(slots[Len(slots)])

Init == journal = <<>>

StartRun == journal' = Append(journal, <<>>)

Log(id) == /\ NextSlot(journal[id]) \in Slots
           /\ journal' = [journal EXCEPT ![id] = Append(@, NextSlot(@))]

Next == StartRun \/ \E id \in DOMAIN journal : Log(id)

Spec == Init /\ [][Next]_journal
=============================================================================
