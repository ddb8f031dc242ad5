---------------------------- MODULE MCComparison ----------------------------
(* Two suites, of two tasks and of one, as `bench run` runs one suite at a    *)
(* time; two models and two files, so that a model's runs can be split over   *)
(* files and two models can share one.                                        *)
EXTENDS RunReport
TwoSuites == {<<1, 2>>, <<3>>}
SuiteOfTask == <<"coding", "coding", "agentic">>
=============================================================================
