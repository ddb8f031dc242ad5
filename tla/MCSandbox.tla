----------------------------- MODULE MCSandbox -----------------------------
(* An instance of Sandbox with the shipped proportions: the coding tasks have *)
(* timeout_s 300 and sandbox_timeout_s is 60, so a submission that spins      *)
(* reaches the CPU cap before the wall cap.  Two helpers, so that one can     *)
(* hold the pipes while the other does not.                                   *)
EXTENDS Sandbox
CONSTANTS h1, h2
TwoHelpers == {h1, h2}
=============================================================================
