----------------------------- MODULE ResultStore -----------------------------
(***************************************************************************)
(* storage/storage.py: what opening a results database does to it.  Every  *)
(* `bench` command that touches a database (run, report, compare, regrade) *)
(* constructs a ResultStore, which creates the missing tables (create_all) *)
(* and then adds the missing columns of each table (_migrate).             *)
(*                                                                         *)
(* The commands are processes that share only the file.  SQLite runs each  *)
(* statement atomically, but sqlite3's default transaction control begins  *)
(* a transaction only before INSERT, UPDATE and DELETE: the inspection of  *)
(* the tables, each CREATE TABLE and CREATE INDEX, each PRAGMA table_info  *)
(* and each ALTER TABLE is a step of its own, and what was read may be     *)
(* stale when acted upon.  Statements within one pass come in a fixed      *)
(* order in the code and in any order here.                                *)
(***************************************************************************)
EXTENDS Naturals, Sequences, FiniteSets

CONSTANTS Openers,         \* processes that open the database
          Tables,          \* the tables of the models
          Columns,         \* Columns[t]: the columns the model of t declares
          NotNull,         \* NotNull[t]: those that are not nullable
          Defaulted,       \* Defaulted[t]: those with a default value
          Indexed,         \* Indexed[t]: those with an index of their own
          Schemas,         \* column sets the file may have at first
          MaxInterrupts,   \* bound: crashes and I/O errors while opening
          MaxRows          \* bound: rows per table

Indexes(t) == {t} \X Indexed[t]
Cells == UNION {{t} \X Columns[t] : t \in Tables}

(* The assumption on Schemas is what makes _migrate sufficient: a column that *)
(* an older database lacks is nullable or has a default, and has no index.    *)
ASSUME StoreAssumption ==
    /\ \A t \in Tables : /\ Columns[t] # {}
                         /\ NotNull[t] \subseteq Columns[t]
                         /\ Defaulted[t] \subseteq Columns[t]
                         /\ Indexed[t] \subseteq Columns[t]
    /\ \A s \in Schemas : \A t \in Tables :
          /\ s[t] \subseteq Columns[t]
          /\ s[t] # {} => /\ NotNull[t] \subseteq s[t] \cup Defaulted[t]
                           /\ Indexed[t] \subseteq s[t]
    /\ Schemas \subseteq [Tables -> SUBSET UNION {Columns[t] : t \in Tables}]
    /\ MaxInterrupts \in Nat /\ MaxRows \in Nat

VARIABLES
    \* The file.
    columns,      \* columns[t]: the columns of t; empty while t does not exist
    rows,         \* rows[t]: for each row of t, the columns where it is NULL
    indexes,      \* <<table, column>> pairs with an index
    \* Each process.
    stage,        \* "closed", "creating", "migrating", "open" or "failed"
    toCreate,     \* tables found missing and not yet created
    toIndex,      \* indexes still to make of the table just created
    toInspect,    \* tables _migrate has still to look at
    toAdd,        \* <<table, column>> pairs found missing and not yet added
    interrupts    \* crashes and I/O errors so far

file == <<columns, rows, indexes>>
process == <<stage, toCreate, toIndex, toInspect, toAdd>>
vars == <<columns, rows, indexes, stage, toCreate, toIndex, toInspect, toAdd, interrupts>>

Init == /\ columns \in Schemas
        /\ rows = [t \in Tables |-> IF columns[t] = {} THEN <<>> ELSE <<{}>>]
        /\ indexes = UNION {Indexes(t) : t \in {u \in Tables : columns[u] # {}}}
        /\ stage = [o \in Openers |-> "closed"]
        /\ toCreate = [o \in Openers |-> {}]
        /\ toIndex = [o \in Openers |-> {}]
        /\ toInspect = [o \in Openers |-> {}]
        /\ toAdd = [o \in Openers |-> {}]
        /\ interrupts = 0

-----------------------------------------------------------------------------
\* Mutant of InspectTables: create_all(checkfirst=False).
InspectNothing(o) ==
    /\ stage[o] = "closed"
    /\ stage' = [stage EXCEPT ![o] = "creating"]
    /\ toCreate' = [toCreate EXCEPT ![o] = Tables]
    /\ toIndex' = [toIndex EXCEPT ![o] = {}]
    /\ UNCHANGED <<file, toInspect, toAdd, interrupts>>

\* create_all(checkfirst): all tables are looked up before any is created.
InspectTables(o) ==
    /\ stage[o] = "closed"
    /\ stage' = [stage EXCEPT ![o] = "creating"]
    /\ toCreate' = [toCreate EXCEPT ![o] = {t \in Tables : columns[t] = {}}]
    /\ toIndex' = [toIndex EXCEPT ![o] = {}]
    /\ UNCHANGED <<file, toInspect, toAdd, interrupts>>

\* CREATE TABLE of a table that was missing, once the indexes of the previous
\* one are made; an error if it exists by now.
CreateTable(o, t) ==
    /\ stage[o] = "creating"
    /\ toIndex[o] = {}
    /\ t \in toCreate[o]
    /\ \/ /\ columns[t] = {}
          /\ columns' = [columns EXCEPT ![t] = Columns[t]]
          /\ toCreate' = [toCreate EXCEPT ![o] = @ \ {t}]
          /\ toIndex' = [toIndex EXCEPT ![o] = Indexes(t)]
          /\ UNCHANGED stage
       \/ /\ columns[t] # {}
          /\ stage' = [stage EXCEPT ![o] = "failed"]
          /\ UNCHANGED <<columns, toCreate, toIndex>>
    /\ UNCHANGED <<rows, indexes, toInspect, toAdd, interrupts>>

\* CREATE INDEX: only who has created the table makes its indexes, so none is
\* there (FreshIndexes, proved).
CreateIndex(o, t, c) ==
    /\ stage[o] = "creating"
    /\ <<t, c>> \in toIndex[o]
    /\ indexes' = indexes \cup {<<t, c>>}
    /\ toIndex' = [toIndex EXCEPT ![o] = @ \ {<<t, c>>}]
    /\ UNCHANGED <<columns, rows, stage, toCreate, toInspect, toAdd, interrupts>>

\* Mutant of StartMigrate: only one table is migrated.
StartMigrateOne(o) ==
    /\ stage[o] = "creating"
    /\ toCreate[o] = {} /\ toIndex[o] = {}
    /\ stage' = [stage EXCEPT ![o] = "migrating"]
    /\ toInspect' = [toInspect EXCEPT ![o] = {CHOOSE t \in Tables : TRUE}]
    /\ toAdd' = [toAdd EXCEPT ![o] = {}]
    /\ UNCHANGED <<file, toCreate, toIndex, interrupts>>

StartMigrate(o) ==
    /\ stage[o] = "creating"
    /\ toCreate[o] = {} /\ toIndex[o] = {}
    /\ stage' = [stage EXCEPT ![o] = "migrating"]
    /\ toInspect' = [toInspect EXCEPT ![o] = Tables]
    /\ toAdd' = [toAdd EXCEPT ![o] = {}]
    /\ UNCHANGED <<file, toCreate, toIndex, interrupts>>

\* Mutant of TableInfo: the columns of all models are looked for in each table.
TableInfoOfAll(o, t) ==
    /\ stage[o] = "migrating"
    /\ toAdd[o] = {}
    /\ t \in toInspect[o]
    /\ toInspect' = [toInspect EXCEPT ![o] = @ \ {t}]
    /\ toAdd' = [toAdd EXCEPT ![o] =
                    IF columns[t] = {} THEN {}
                    ELSE {<<t, c>> : c \in UNION {Columns[u] : u \in Tables} \ columns[t]}]
    /\ UNCHANGED <<file, stage, toCreate, toIndex, interrupts>>

\* PRAGMA table_info; a table without columns would be skipped.
TableInfo(o, t) ==
    /\ stage[o] = "migrating"
    /\ toAdd[o] = {}
    /\ t \in toInspect[o]
    /\ toInspect' = [toInspect EXCEPT ![o] = @ \ {t}]
    /\ toAdd' = [toAdd EXCEPT ![o] =
                    IF columns[t] = {} THEN {}
                    ELSE {<<t, c>> : c \in Columns[t] \ columns[t]}]
    /\ UNCHANGED <<file, stage, toCreate, toIndex, interrupts>>

\* Mutant of Backfilled: no default in the ALTER TABLE.
BackfilledNull(t, c, nulls) == nulls \cup {c}

\* The rows the table already has get the default of a NOT NULL column, and
\* NULL in any other.
Backfilled(t, c, nulls) ==
    IF c \in NotNull[t] /\ c \in Defaulted[t] THEN nulls ELSE nulls \cup {c}

\* ALTER TABLE ADD COLUMN; an error ("duplicate column name") if it is there.
AddColumn(o, t, c) ==
    /\ stage[o] = "migrating"
    /\ <<t, c>> \in toAdd[o]
    /\ \/ /\ c \notin columns[t]
          /\ columns' = [columns EXCEPT ![t] = @ \cup {c}]
          /\ rows' = [rows EXCEPT ![t] = [i \in DOMAIN @ |-> Backfilled(t, c, @[i])]]
          /\ toAdd' = [toAdd EXCEPT ![o] = @ \ {<<t, c>>}]
          /\ UNCHANGED stage
       \/ /\ c \in columns[t]
          /\ stage' = [stage EXCEPT ![o] = "failed"]
          /\ UNCHANGED <<columns, rows, toAdd>>
    /\ UNCHANGED <<indexes, toCreate, toIndex, toInspect, interrupts>>

Opened(o) ==
    /\ stage[o] = "migrating"
    /\ toInspect[o] = {}
    /\ toAdd[o] = {}
    /\ stage' = [stage EXCEPT ![o] = "open"]
    /\ UNCHANGED <<file, toCreate, toIndex, toInspect, toAdd, interrupts>>

\* start_run, record: an INSERT names every column of the model.
Insert(o, t) ==
    /\ stage[o] = "open"
    /\ Len(rows[t]) < MaxRows
    /\ Columns[t] \subseteq columns[t]
    /\ \E nulls \in {{}, Columns[t] \ NotNull[t]} :
          rows' = [rows EXCEPT ![t] = Append(@, nulls)]
    /\ UNCHANGED <<columns, indexes, process, interrupts>>

\* The process ends: with the database open, killed while opening it, or by
\* an error of the file system or a lock that was not released in time.
Leave(o) ==
    /\ stage[o] = "open"
    /\ stage' = [stage EXCEPT ![o] = "closed"]
    /\ UNCHANGED <<file, toCreate, toIndex, toInspect, toAdd, interrupts>>

Interrupted(o) ==
    /\ stage[o] \in {"creating", "migrating"}
    /\ interrupts < MaxInterrupts
    /\ interrupts' = interrupts + 1
    /\ stage' = [stage EXCEPT ![o] = "closed"]
    /\ UNCHANGED <<file, toCreate, toIndex, toInspect, toAdd>>

\* The command that ended with an error is given again.
Rerun(o) ==
    /\ stage[o] = "failed"
    /\ stage' = [stage EXCEPT ![o] = "closed"]
    /\ UNCHANGED <<file, toCreate, toIndex, toInspect, toAdd, interrupts>>

Open(o) == \/ InspectTables(o)
           \/ \E t \in Tables : CreateTable(o, t)
           \/ \E t \in Tables : \E c \in Indexed[t] : CreateIndex(o, t, c)
           \/ StartMigrate(o)
           \/ \E t \in Tables : TableInfo(o, t)
           \/ \E t \in Tables : \E c \in Columns[t] : AddColumn(o, t, c)
           \/ Opened(o)

Next == \E o \in Openers : \/ Open(o)
                           \/ \E t \in Tables : Insert(o, t)
                           \/ Leave(o)
                           \/ Interrupted(o)
                           \/ Rerun(o)

\* A process that runs goes on.  That a command that failed, was killed or has
\* ended is given again is the user's doing, assumed for liveness only.
Fairness == \A o \in Openers : WF_vars(Open(o)) /\ WF_vars(Rerun(o))

Spec == Init /\ [][Next]_vars
FairSpec == Spec /\ Fairness

-----------------------------------------------------------------------------
AllColumns == UNION {Columns[t] : t \in Tables}

TypeOK ==
    /\ columns \in [Tables -> SUBSET AllColumns]
    /\ \A t \in Tables : columns[t] \subseteq Columns[t]
    /\ indexes \subseteq Cells
    /\ rows \in [Tables -> Seq(SUBSET AllColumns)]
    /\ stage \in [Openers -> {"closed", "creating", "migrating", "open", "failed"}]
    /\ toCreate \in [Openers -> SUBSET Tables]
    /\ toIndex \in [Openers -> SUBSET Cells]
    /\ toInspect \in [Openers -> SUBSET Tables]
    /\ toAdd \in [Openers -> SUBSET Cells]
    /\ interrupts \in 0 .. MaxInterrupts

(* A process that has the database open can insert and read every column of  *)
(* the models, whatever the other processes were doing to the schema while   *)
(* it opened the file (ResultStore.__init__).  Their indexes are there too,  *)
(* unless whoever created the table is still at it or was killed in between: *)
(* _migrate makes no index, so that one is then missing for good.            *)
OpenedHasSchema ==
    \A o \in Openers : stage[o] = "open" =>
        \A t \in Tables :
            /\ Columns[t] \subseteq columns[t]
            /\ \A i \in Indexes(t) :
                  \/ i \in indexes
                  \/ interrupts > 0
                  \/ \E p \in Openers : stage[p] = "creating" /\ i \in toIndex[p]

(* _migrate: "rows predating the column still satisfy their declared type on *)
(* read", at every moment, also when a migration was interrupted half way.   *)
RowsKeepType ==
    \A t \in Tables : \A i \in DOMAIN rows[t] : rows[t][i] \cap NotNull[t] = {}

(* Any file opens, half-created and half-migrated ones included:             *)
(* tests/test_storage.py, "A database written before these columns existed   *)
(* must still open."                                                         *)
OpenNeverFails == \A o \in Openers : stage[o] # "failed"

(* A command given again after it lost a race to create the schema gets the  *)
(* database open in the end.                                                 *)
EventuallyOpen == \A o \in Openers : (stage[o] = "failed") ~> (stage[o] = "open")
=============================================================================
