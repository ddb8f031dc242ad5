--------------------------- MODULE MCResultStore ---------------------------
(* The columns that matter: one that came later in each table and may be    *)
(* NULL, one that came later and may not ("answer"), the original ones, two *)
(* of them with an index.                                                   *)
EXTENDS ResultStore

CONSTANTS o1, o2

BothOpeners == {o1, o2}

MCTables == {"benchrun", "attemptrow"}
MCColumns == [benchrun |-> {"model", "git_sha"},
              attemptrow |-> {"run_id", "task_id", "answer", "provider"}]
MCNotNull == [benchrun |-> {"model"}, attemptrow |-> {"run_id", "task_id", "answer"}]
\* A default of None is no default to _migrate.
MCDefaulted == [benchrun |-> {}, attemptrow |-> {"answer"}]
MCIndexed == [benchrun |-> {}, attemptrow |-> {"run_id", "task_id"}]

Fresh == [t \in MCTables |-> {}]
\* What CREATE TABLE of the first statement leaves when the process dies then.
HalfCreated == [benchrun |-> MCColumns["benchrun"], attemptrow |-> {}]
Old == [benchrun |-> {"model"}, attemptrow |-> {"run_id", "task_id"}]
AllSchemas == {Fresh, HalfCreated, Old, MCColumns}
OldSchema == {Old}
=============================================================================
