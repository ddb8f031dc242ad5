----------------------------- MODULE MCBenchRun -----------------------------
(* Instances of BenchRun: two stored runs side by side, whose second task is *)
(* graded in a sandbox, and single runs with two attempts per task.          *)
EXTENDS BenchRun, TLC

CONSTANTS p1, p2, p3

Stored == {p1, p2}
OneAndUnstored == {p1, p3}
Unstored == {p3}
None == {}
SecondTask == {2}
InvocationSymmetry == Permutations(Stored)
OnlyPass == {"pass"}
PassOrFault == {"pass", "fail", "test_crash"}

\* A run with --no-store shares nothing with another: it is taken by itself, so
\* that a behavior has either stored runs or unstored ones.
Apart(p) == \A q \in Invocations : (p \in NoStore) # (q \in NoStore) => stage[q] = "idle"
AllRest == (\A p \in Invocations : stage[p] \in Ended \cup {"idle"}) /\ UNCHANGED vars
NextApart == \/ \E p \in Invocations : Apart(p) /\ (Preflight(p) \/ Work(p) \/ Interrupt(p)
                                                     \/ InterruptAgain(p) \/ Crash(p))
             \/ AllRest
FairSpecApart == Init /\ [][NextApart]_vars
                 /\ \A p \in Invocations : WF_vars(Apart(p) /\ Work(p))
=============================================================================
