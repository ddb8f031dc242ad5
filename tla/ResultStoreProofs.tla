-------------------------- MODULE ResultStoreProofs --------------------------
(* Proofs about ResultStore for any number of processes, tables and columns, *)
(* any initial schema StoreAssumption admits, and any number of interrupts.  *)
EXTENDS ResultStore, TLAPS

(* How far a process may trust what it read, although others write: a table  *)
(* it has created or found exists, and a table it has inspected lacks only   *)
(* columns it still intends to add.                                          *)
Progress(o) ==
    /\ stage[o] = "creating"
          => \A t \in Tables \ toCreate[o] : columns[t] # {}
    /\ stage[o] \in {"migrating", "open"}
          => /\ \A t \in Tables : columns[t] # {}
             /\ \A t \in Tables \ toInspect[o] : \A c \in Columns[t] :
                   c \in columns[t] \/ <<t, c>> \in toAdd[o]
    /\ stage[o] = "open" => toInspect[o] = {} /\ toAdd[o] = {}

(* The columns that are there when a NOT NULL column is missing: it then has *)
(* a default to backfill.                                                    *)
Backfillable ==
    \A t \in Tables : columns[t] # {} => NotNull[t] \subseteq columns[t] \cup Defaulted[t]

(* An index is still to be made by the process that created its table, and   *)
(* by no other; CREATE INDEX never meets one that is there.                  *)
Making(o, t, c) == stage[o] = "creating" /\ <<t, c>> \in toIndex[o]

FreshIndexes ==
    \A t \in Tables : \A c \in Columns[t] :
        /\ \A o \in Openers : Making(o, t, c) =>
              /\ <<t, c>> \notin indexes /\ columns[t] # {}
              /\ \A p \in Openers : Making(p, t, c) => p = o
        /\ <<t, c>> \in indexes => columns[t] # {}

(* It is there as soon as its table is, or it is being made, or somebody was *)
(* interrupted.                                                              *)
IndexesKept ==
    \A t \in Tables : columns[t] # {} =>
        \A c \in Indexed[t] :
            <<t, c>> \in indexes \/ interrupts > 0 \/ \E p \in Openers : Making(p, t, c)

IInv == /\ TypeOK
        /\ \A o \in Openers : Progress(o)
        /\ Backfillable
        /\ RowsKeepType
        /\ FreshIndexes
        /\ IndexesKept

LEMMA CellsTyped ==
    /\ \A t \in Tables : Indexes(t) \subseteq Cells /\ Columns[t] \subseteq AllColumns
    /\ \A t \in Tables : \A c \in Columns[t] : <<t, c>> \in Cells
<1>1. ASSUME NEW t \in Tables, NEW c \in Columns[t] PROVE <<t, c>> \in Cells
  BY DEF Cells
<1> QED BY <1>1, StoreAssumption DEF Indexes, AllColumns

LEMMA InitIInv == Init => IInv
<1> SUFFICES ASSUME Init PROVE IInv
  OBVIOUS
<1>1. columns \in [Tables -> SUBSET AllColumns]
  BY StoreAssumption DEF Init, AllColumns
<1>2. rows \in [Tables -> Seq(SUBSET AllColumns)]
  <2>1. <<>> \in Seq(SUBSET AllColumns) /\ <<{}>> \in Seq(SUBSET AllColumns)
    OBVIOUS
  <2> QED BY <2>1 DEF Init
<1>3. TypeOK
  <2>1. indexes \subseteq Cells
    BY CellsTyped DEF Init
  <2>2. \A t \in Tables : columns[t] \subseteq Columns[t]
    BY StoreAssumption DEF Init
  <2> QED BY <1>1, <1>2, <2>1, <2>2, StoreAssumption DEF Init, TypeOK
<1>4. \A o \in Openers : Progress(o)
  BY DEF Init, Progress
<1>5. Backfillable
  BY StoreAssumption DEF Init, Backfillable
<1>6. RowsKeepType
  BY DEF Init, RowsKeepType
<1>7. ASSUME NEW t \in Tables, NEW c \in Columns[t]
      PROVE  /\ \A o \in Openers : ~Making(o, t, c)
             /\ <<t, c>> \in indexes => columns[t] # {}
             /\ columns[t] # {} /\ c \in Indexed[t] => <<t, c>> \in indexes
  BY DEF Init, Making, Indexes
<1>8. FreshIndexes
  BY <1>7 DEF FreshIndexes
<1>9. IndexesKept
  BY <1>7, StoreAssumption DEF IndexesKept
<1> QED BY <1>3, <1>4, <1>5, <1>6, <1>8, <1>9 DEF IInv

(* No statement of one process undoes what another has seen: columns are     *)
(* only ever added, and tables only created.                                 *)
LEMMA ProgressStable ==
    ASSUME IInv, NEW o \in Openers,
           stage'[o] = stage[o], toCreate'[o] = toCreate[o],
           toInspect'[o] = toInspect[o], toAdd'[o] = toAdd[o],
           \A t \in Tables : columns[t] \subseteq columns'[t]
    PROVE  Progress(o)'
BY DEF IInv, Progress

LEMMA CreateTableIInv ==
    ASSUME IInv, NEW o \in Openers, NEW t \in Tables, CreateTable(o, t)
    PROVE  IInv'
<1>1. TypeOK'
  <2>1. Columns[t] \subseteq AllColumns
    BY DEF AllColumns
  <2>2. \/ columns' = [columns EXCEPT ![t] = Columns[t]]
        \/ columns' = columns
    BY DEF CreateTable
  <2>3. columns' \in [Tables -> SUBSET AllColumns]
    BY <2>1, <2>2 DEF IInv, TypeOK
  <2>4. /\ stage' \in [Openers -> {"closed", "creating", "migrating", "open", "failed"}]
        /\ toCreate' \in [Openers -> SUBSET Tables]
    <3>1. \/ toCreate' = [toCreate EXCEPT ![o] = @ \ {t}] /\ stage' = stage
          \/ toCreate' = toCreate /\ stage' = [stage EXCEPT ![o] = "failed"]
      BY DEF CreateTable
    <3>2. toCreate[o] \ {t} \in SUBSET Tables
      BY DEF IInv, TypeOK
    <3> QED BY <3>1, <3>2 DEF IInv, TypeOK
  <2>5. toIndex' \in [Openers -> SUBSET Cells]
    <3>1. \/ toIndex' = [toIndex EXCEPT ![o] = Indexes(t)]
          \/ toIndex' = toIndex
      BY DEF CreateTable
    <3>2. Indexes(t) \in SUBSET Cells
      BY CellsTyped
    <3> QED BY <3>1, <3>2 DEF IInv, TypeOK
  <2>6. UNCHANGED <<rows, indexes, toInspect, toAdd, interrupts>>
    BY DEF CreateTable
  <2>7. \A u \in Tables : columns'[u] \subseteq Columns[u]
    BY <2>2 DEF IInv, TypeOK
  <2> QED BY <2>3, <2>4, <2>5, <2>6, <2>7 DEF IInv, TypeOK
<1>2. \A u \in Tables : columns[u] \subseteq columns'[u]
  BY DEF IInv, TypeOK, CreateTable
<1>3. ASSUME NEW p \in Openers PROVE Progress(p)'
  <2>1. CASE p # o
    BY <2>1, <1>2, ProgressStable DEF IInv, TypeOK, CreateTable
  <2>2. CASE p = o
    <3>1. CASE columns[t] = {}
      <4>1. /\ stage'[o] = "creating" /\ toCreate'[o] = toCreate[o] \ {t}
            /\ columns'[t] # {}
        BY <3>1, StoreAssumption DEF IInv, TypeOK, CreateTable
      <4>2. toInspect'[o] = toInspect[o] /\ toAdd'[o] = toAdd[o] /\ stage[o] = "creating"
        BY DEF CreateTable
      <4> QED BY <2>2, <4>1, <4>2, <1>2 DEF IInv, Progress
    <3>2. CASE columns[t] # {}
      <4>1. stage'[o] = "failed"
        BY <3>2 DEF IInv, TypeOK, CreateTable
      <4> QED BY <2>2, <4>1 DEF Progress
    <3> QED BY <3>1, <3>2
  <2> QED BY <2>1, <2>2
<1>4. Backfillable'
  <2>1. \/ columns' = [columns EXCEPT ![t] = Columns[t]]
        \/ columns' = columns
    BY DEF CreateTable
  <2>2. NotNull[t] \subseteq Columns[t]
    BY StoreAssumption
  <2> QED BY <2>1, <2>2 DEF IInv, TypeOK, Backfillable
<1>5. RowsKeepType'
  BY DEF IInv, RowsKeepType, CreateTable
<1>6. FreshIndexes' /\ IndexesKept'
  <2>1. CASE columns[t] # {}
    <3>1. /\ stage' = [stage EXCEPT ![o] = "failed"] /\ toIndex[o] = {}
          /\ UNCHANGED <<columns, toIndex, indexes, interrupts>>
      BY <2>1 DEF CreateTable
    <3>2. \A p \in Openers, u \in Tables : \A c : Making(p, u, c)' <=> Making(p, u, c)
      BY <3>1 DEF Making, IInv, TypeOK
    <3> QED BY <3>1, <3>2 DEF IInv, FreshIndexes, IndexesKept
  <2>2. CASE columns[t] = {}
    <3>1. /\ stage' = stage /\ stage[o] = "creating" /\ toIndex[o] = {}
          /\ toIndex' = [toIndex EXCEPT ![o] = Indexes(t)]
          /\ columns' = [columns EXCEPT ![t] = Columns[t]]
          /\ UNCHANGED <<indexes, interrupts>>
      BY <2>2 DEF CreateTable
    <3>2. /\ \A p \in Openers, u \in Tables \ {t} : \A c : Making(p, u, c)' <=> Making(p, u, c)
          /\ \A p \in Openers, c \in Columns[t] :
                Making(p, t, c)' <=> p = o /\ c \in Indexed[t]
      <4>1. \A c \in Columns[t] : \A p \in Openers : ~Making(p, t, c)
        BY <2>2 DEF IInv, FreshIndexes
      <4>2. \A p \in Openers : p # o => toIndex'[p] = toIndex[p]
        BY <3>1 DEF IInv, TypeOK
      <4>3. toIndex'[o] = {t} \X Indexed[t]
        BY <3>1 DEF IInv, TypeOK, Indexes
      <4> QED BY <3>1, <4>1, <4>2, <4>3 DEF Making
    <3>3. /\ columns'[t] # {} /\ \A u \in Tables \ {t} : columns'[u] = columns[u]
          /\ Indexed[t] \subseteq Columns[t]
      BY <3>1, StoreAssumption DEF IInv, TypeOK
    <3>4. FreshIndexes'
      <4>1. ASSUME NEW c \in Columns[t]
            PROVE  /\ <<t, c>> \notin indexes'
                   /\ \A p \in Openers : Making(p, t, c)' => p = o
        BY <2>2, <3>1, <3>2 DEF IInv, FreshIndexes
      <4>2. ASSUME NEW u \in Tables \ {t}, NEW c \in Columns[u], NEW p \in Openers, Making(p, u, c)'
            PROVE  /\ <<u, c>> \notin indexes' /\ columns'[u] # {}
                   /\ \A q \in Openers : Making(q, u, c)' => q = p
        BY <3>1, <3>2, <3>3, <4>2 DEF IInv, FreshIndexes
      <4>3. \A u \in Tables \ {t} : \A c \in Columns[u] : <<u, c>> \in indexes' => columns'[u] # {}
        BY <3>1, <3>3 DEF IInv, FreshIndexes
      <4> QED BY <3>3, <4>1, <4>2, <4>3 DEF FreshIndexes, Making
    <3>5. IndexesKept'
      BY <3>1, <3>2, <3>3, StoreAssumption DEF IInv, IndexesKept
    <3> QED BY <3>4, <3>5
  <2> QED BY <2>1, <2>2
<1> QED BY <1>1, <1>3, <1>4, <1>5, <1>6 DEF IInv

(* An index is made: it is no longer to be made.                             *)
LEMMA CreateIndexIInv ==
    ASSUME IInv, NEW o \in Openers, NEW t \in Tables, NEW c \in Indexed[t], CreateIndex(o, t, c)
    PROVE  IInv'
<1>1. /\ stage[o] = "creating" /\ <<t, c>> \in toIndex[o] /\ c \in Columns[t]
      /\ indexes' = indexes \cup {<<t, c>>}
      /\ toIndex' = [toIndex EXCEPT ![o] = @ \ {<<t, c>>}]
      /\ UNCHANGED <<columns, rows, stage, toCreate, toInspect, toAdd, interrupts>>
  BY StoreAssumption DEF CreateIndex
<1>2. TypeOK'
  BY <1>1, CellsTyped DEF IInv, TypeOK
<1>3. \A p \in Openers : Progress(p)'
  BY <1>1 DEF IInv, Progress
<1>4. \A p \in Openers, u \in Tables : \A d :
         Making(p, u, d)' <=> Making(p, u, d) /\ ~(p = o /\ u = t /\ d = c)
  BY <1>1 DEF IInv, TypeOK, Making
<1>5. Making(o, t, c)
  BY <1>1 DEF Making
<1>6. FreshIndexes'
  <2>1. ASSUME NEW u \in Tables, NEW d \in Columns[u], NEW p \in Openers, Making(p, u, d)'
        PROVE  /\ <<u, d>> \notin indexes' /\ columns'[u] # {}
               /\ \A q \in Openers : Making(q, u, d)' => q = p
    <3>1. Making(p, u, d) /\ ~(p = o /\ u = t /\ d = c)
      BY <1>4, <2>1
    <3>2. /\ <<u, d>> \notin indexes /\ columns[u] # {}
          /\ \A q \in Openers : Making(q, u, d) => q = p
      BY <3>1 DEF IInv, FreshIndexes
    <3>3. ~(u = t /\ d = c)
      BY <1>5, <3>1, <3>2
    <3> QED BY <1>1, <1>4, <3>2, <3>3
  <2>2. \A u \in Tables : \A d \in Columns[u] : <<u, d>> \in indexes' => columns'[u] # {}
    <3>1. columns[t] # {}
      BY <1>1, <1>5 DEF IInv, FreshIndexes
    <3> QED BY <1>1, <3>1 DEF IInv, FreshIndexes
  <2> QED BY <2>1, <2>2 DEF FreshIndexes, Making
<1>7. IndexesKept'
  BY <1>1, <1>4 DEF IInv, IndexesKept
<1> QED BY <1>1, <1>2, <1>3, <1>6, <1>7 DEF IInv, Backfillable, RowsKeepType

(* The steps that leave the indexes, the tables there are, and what is to be  *)
(* made.                                                                     *)
LEMMA IndexesStand ==
    ASSUME IInv, UNCHANGED indexes, interrupts' \in Nat, interrupts' >= interrupts,
           \A t \in Tables : (columns'[t] = {}) <=> (columns[t] = {}),
           \/ \A p \in Openers, t \in Tables : \A c : Making(p, t, c)' <=> Making(p, t, c)
           \/ /\ interrupts' > 0
              /\ \A p \in Openers, t \in Tables : \A c : Making(p, t, c)' => Making(p, t, c)
    PROVE  FreshIndexes' /\ IndexesKept'
<1>1. interrupts \in Nat
  BY StoreAssumption DEF IInv, TypeOK
<1>2. \A p \in Openers, t \in Tables : \A c : Making(p, t, c)' => Making(p, t, c)
  OBVIOUS
<1>3. FreshIndexes'
  <2>1. ASSUME NEW t \in Tables, NEW c \in Columns[t], NEW p \in Openers, Making(p, t, c)'
        PROVE  /\ <<t, c>> \notin indexes' /\ columns'[t] # {}
               /\ \A q \in Openers : Making(q, t, c)' => q = p
    <3>1. /\ <<t, c>> \notin indexes /\ columns[t] # {}
          /\ \A q \in Openers : Making(q, t, c) => q = p
      BY <1>2, <2>1 DEF IInv, FreshIndexes
    <3> QED BY <1>2, <3>1
  <2>2. \A t \in Tables : \A c \in Columns[t] : <<t, c>> \in indexes' => columns'[t] # {}
    BY DEF IInv, FreshIndexes
  <2> QED BY <2>1, <2>2 DEF FreshIndexes, Making
<1>4. IndexesKept'
  BY <1>1 DEF IInv, IndexesKept
<1> QED BY <1>3, <1>4

(* The migration itself: existing rows get the default in a NOT NULL column. *)
LEMMA AddColumnIInv ==
    ASSUME IInv, NEW o \in Openers, NEW t \in Tables, NEW c \in Columns[t],
           AddColumn(o, t, c)
    PROVE  IInv'
<1>1. CASE c \in columns[t]
  <2>1. /\ stage' = [stage EXCEPT ![o] = "failed"] /\ stage[o] = "migrating"
        /\ UNCHANGED <<columns, rows, indexes, toAdd, toCreate, toIndex, toInspect, interrupts>>
    BY <1>1 DEF AddColumn
  <2>2. TypeOK'
    BY <2>1 DEF IInv, TypeOK
  <2>3. \A p \in Openers : Progress(p)'
    BY <2>1 DEF IInv, TypeOK, Progress
  <2>4. FreshIndexes' /\ IndexesKept'
    <3>1. \A p \in Openers, u \in Tables : \A d : Making(p, u, d)' <=> Making(p, u, d)
      BY <2>1 DEF Making, IInv, TypeOK
    <3> QED BY <2>1, <3>1, StoreAssumption, IndexesStand DEF IInv, TypeOK
  <2> QED BY <2>1, <2>2, <2>3, <2>4 DEF IInv, Backfillable, RowsKeepType
<1>2. CASE c \notin columns[t]
  <2>1. /\ columns' = [columns EXCEPT ![t] = @ \cup {c}]
        /\ rows' = [rows EXCEPT ![t] = [i \in DOMAIN @ |-> Backfilled(t, c, @[i])]]
        /\ toAdd' = [toAdd EXCEPT ![o] = @ \ {<<t, c>>}]
        /\ UNCHANGED <<indexes, stage, toCreate, toIndex, toInspect, interrupts>>
        /\ stage[o] = "migrating" /\ <<t, c>> \in toAdd[o]
    BY <1>2 DEF AddColumn
  <2>2. c \in AllColumns
    BY DEF AllColumns
  <2> DEFINE new == [i \in DOMAIN rows[t] |-> Backfilled(t, c, rows[t][i])]
  <2>3. new \in Seq(SUBSET AllColumns)
    <3>1. rows[t] \in Seq(SUBSET AllColumns)
      BY DEF IInv, TypeOK
    <3>2. DOMAIN rows[t] = 1 .. Len(rows[t]) /\ Len(rows[t]) \in Nat
      BY <3>1
    <3>3. \A i \in 1 .. Len(rows[t]) : Backfilled(t, c, rows[t][i]) \in SUBSET AllColumns
      BY <3>1, <2>2 DEF Backfilled
    <3> QED BY <3>2, <3>3
  <2>4. rows' = [rows EXCEPT ![t] = new]
    BY <2>1
  <2>5. TypeOK'
    <3> HIDE DEF new
    <3>1. rows' \in [Tables -> Seq(SUBSET AllColumns)]
      BY <2>3, <2>4 DEF IInv, TypeOK
    <3>2. /\ columns' \in [Tables -> SUBSET AllColumns]
          /\ \A u \in Tables : columns'[u] \subseteq Columns[u]
      BY <2>1, <2>2 DEF IInv, TypeOK
    <3>3. toAdd' \in [Openers -> SUBSET Cells]
      BY <2>1 DEF IInv, TypeOK
    <3> QED BY <2>1, <3>1, <3>2, <3>3 DEF IInv, TypeOK
  <2>6. \A u \in Tables : columns[u] \subseteq columns'[u]
    BY <2>1 DEF IInv, TypeOK
  <2>7. ASSUME NEW p \in Openers PROVE Progress(p)'
    <3>1. CASE p # o
      BY <3>1, <2>1, <2>6, ProgressStable DEF IInv, TypeOK
    <3>2. CASE p = o
      <4>1. /\ stage'[o] = "migrating" /\ toInspect'[o] = toInspect[o]
            /\ toAdd'[o] = toAdd[o] \ {<<t, c>>}
        BY <2>1 DEF IInv, TypeOK
      <4>2. \A u \in Tables : columns'[u] # {}
        BY <2>1, <2>6 DEF IInv, Progress
      <4>3. ASSUME NEW u \in Tables \ toInspect[o], NEW d \in Columns[u]
            PROVE  d \in columns'[u] \/ <<u, d>> \in toAdd'[o]
        <5>1. CASE u = t /\ d = c
          BY <5>1, <2>1 DEF IInv, TypeOK
        <5>2. CASE ~(u = t /\ d = c)
          BY <5>2, <4>1, <2>1, <2>6 DEF IInv, Progress
        <5> QED BY <5>1, <5>2
      <4> QED BY <3>2, <4>1, <4>2, <4>3 DEF Progress
    <3> QED BY <3>1, <3>2
  <2>8. Backfillable'
    BY <2>1, <2>6 DEF IInv, TypeOK, Backfillable, Progress
  <2>9. RowsKeepType'
    <3>1. ASSUME c \in NotNull[t] PROVE c \in Defaulted[t]
      BY <3>1, <2>1, <1>2 DEF IInv, Progress, Backfillable
    <3>2. ASSUME NEW i \in DOMAIN rows[t]
          PROVE  Backfilled(t, c, rows[t][i]) \cap NotNull[t] = {}
      BY <3>1, <3>2 DEF IInv, RowsKeepType, Backfilled
    <3>3. \A u \in Tables : rows'[u] = IF u = t THEN new ELSE rows[u]
      BY <2>4 DEF IInv, TypeOK
    <3>4. ASSUME NEW u \in Tables, NEW i \in DOMAIN rows'[u]
          PROVE  rows'[u][i] \cap NotNull[u] = {}
      <4>1. CASE u = t
        <5>1. rows'[u] = new
          BY <4>1, <3>3
        <5>2. i \in DOMAIN rows[t] /\ new[i] = Backfilled(t, c, rows[t][i])
          BY <5>1
        <5> HIDE DEF new
        <5> QED BY <4>1, <5>1, <5>2, <3>2
      <4>2. CASE u # t
        BY <4>2, <3>3 DEF IInv, RowsKeepType
      <4> QED BY <4>1, <4>2
    <3> QED BY <3>4 DEF RowsKeepType
  <2>10. FreshIndexes' /\ IndexesKept'
    <3>1. \A p \in Openers, u \in Tables : \A d : Making(p, u, d)' <=> Making(p, u, d)
      BY <2>1 DEF Making
    <3>2. \A u \in Tables : columns[u] # {} /\ columns'[u] # {}
      BY <2>1, <2>6 DEF IInv, Progress
    <3> QED BY <2>1, <3>1, <3>2, StoreAssumption, IndexesStand DEF IInv, TypeOK
  <2> QED BY <2>5, <2>7, <2>8, <2>9, <2>10 DEF IInv
<1> QED BY <1>1, <1>2

(* The steps of a process that only read the file or change its own state.   *)
LEMMA LocalIInv ==
    ASSUME IInv, NEW o \in Openers,
           \/ InspectTables(o) \/ StartMigrate(o) \/ \E t \in Tables : TableInfo(o, t)
           \/ Opened(o) \/ Leave(o) \/ Interrupted(o) \/ Rerun(o)
    PROVE  IInv'
<1>1. UNCHANGED file
  BY DEF InspectTables, StartMigrate, TableInfo, Opened, Leave, Interrupted, Rerun
<1>2. TypeOK'
  <2>1. CASE \E t \in Tables : TableInfo(o, t)
    <3> PICK t \in Tables : TableInfo(o, t)
      BY <2>1
    <3>1. {<<t, c>> : c \in Columns[t] \ columns[t]} \subseteq Cells
      BY CellsTyped
    <3> QED BY <3>1, <1>1 DEF IInv, TypeOK, TableInfo, file
  <2>2. CASE InspectTables(o) \/ StartMigrate(o) \/ Opened(o) \/ Leave(o) \/ Rerun(o)
    BY <2>2, <1>1
    DEF IInv, TypeOK, file, InspectTables, StartMigrate, Opened, Leave, Rerun
  <2>3. CASE Interrupted(o)
    BY <2>3, <1>1, StoreAssumption DEF IInv, TypeOK, file, Interrupted
  <2> QED BY <2>1, <2>2, <2>3
<1>3. ASSUME NEW p \in Openers PROVE Progress(p)'
  <2>1. CASE p # o
    BY <2>1, <1>1, ProgressStable
    DEF IInv, TypeOK, file, InspectTables, StartMigrate, TableInfo, Opened, Leave,
        Interrupted, Rerun
  <2>2. CASE p = o
    <3>1. columns' = columns
      BY <1>1 DEF file
    <3>2. CASE InspectTables(o)
      BY <2>2, <3>1, <3>2 DEF IInv, TypeOK, Progress, InspectTables
    <3>3. CASE StartMigrate(o)
      BY <2>2, <3>1, <3>3 DEF IInv, TypeOK, Progress, StartMigrate
    <3>4. CASE \E t \in Tables : TableInfo(o, t)
      <4> PICK t \in Tables : TableInfo(o, t)
        BY <3>4
      <4>1. /\ stage'[o] = "migrating"
            /\ toInspect'[o] = toInspect[o] \ {t}
            /\ toAdd[o] = {} /\ columns[t] # {}
            /\ toAdd'[o] = {<<t, c>> : c \in Columns[t] \ columns[t]}
        BY DEF IInv, TypeOK, TableInfo, Progress
      <4>2. \A u \in Tables : columns[u] # {}
        BY DEF IInv, Progress, TableInfo
      <4>3. ASSUME NEW u \in Tables \ toInspect'[o], NEW d \in Columns[u]
            PROVE  d \in columns[u] \/ <<u, d>> \in toAdd'[o]
        <5>1. CASE u = t
          BY <5>1, <4>1
        <5>2. CASE u # t
          BY <5>2, <4>1 DEF IInv, Progress, TableInfo
        <5> QED BY <5>1, <5>2
      <4> QED BY <2>2, <3>1, <4>1, <4>2, <4>3 DEF Progress
    <3>5. CASE Opened(o)
      BY <2>2, <3>1, <3>5 DEF IInv, TypeOK, Progress, Opened
    <3>6. CASE Leave(o) \/ Interrupted(o) \/ Rerun(o)
      <4>1. stage'[o] = "closed"
        BY <3>6 DEF IInv, TypeOK, Leave, Interrupted, Rerun
      <4> QED BY <2>2, <4>1 DEF Progress
    <3> QED BY <3>2, <3>3, <3>4, <3>5, <3>6
  <2> QED BY <2>1, <2>2
<1>4. FreshIndexes' /\ IndexesKept'
  <2>1. interrupts \in Nat /\ interrupts' \in Nat /\ interrupts' >= interrupts
    BY StoreAssumption DEF IInv, TypeOK, InspectTables, StartMigrate, TableInfo, Opened, Leave,
       Interrupted, Rerun
  <2>2. CASE ~Interrupted(o)
    <3>1. \A p \in Openers, u \in Tables : \A d : Making(p, u, d)' <=> Making(p, u, d)
      BY <2>2 DEF Making, IInv, TypeOK, InspectTables, StartMigrate, TableInfo, Opened, Leave, Rerun
    <3> QED BY <1>1, <2>1, <3>1, IndexesStand DEF file
  <2>3. CASE Interrupted(o)
    <3>1. \A p \in Openers, u \in Tables : \A d : Making(p, u, d)' => Making(p, u, d)
      BY <2>3 DEF Making, IInv, TypeOK, Interrupted
    <3>2. interrupts' > 0
      BY <2>1, <2>3 DEF Interrupted
    <3> QED BY <1>1, <2>1, <3>1, <3>2, IndexesStand DEF file
  <2> QED BY <2>2, <2>3
<1> QED BY <1>1, <1>2, <1>3, <1>4 DEF IInv, file, Backfillable, RowsKeepType

LEMMA InsertIInv ==
    ASSUME IInv, NEW o \in Openers, NEW t \in Tables, Insert(o, t)
    PROVE  IInv'
<1> PICK nulls \in {{}, Columns[t] \ NotNull[t]} :
       rows' = [rows EXCEPT ![t] = Append(@, nulls)]
  BY DEF Insert
<1>1. UNCHANGED <<columns, indexes, stage, toCreate, toIndex, toInspect, toAdd, interrupts>>
  BY DEF Insert, process
<1>2. nulls \in SUBSET AllColumns /\ nulls \cap NotNull[t] = {}
  BY DEF AllColumns
<1>3. rows[t] \in Seq(SUBSET AllColumns)
  BY DEF IInv, TypeOK
<1>4. rows'[t] = Append(rows[t], nulls) /\ rows'[t] \in Seq(SUBSET AllColumns)
  BY <1>2, <1>3 DEF IInv, TypeOK
<1>5. TypeOK'
  BY <1>1, <1>4 DEF IInv, TypeOK
<1>6. RowsKeepType'
  <2>1. ASSUME NEW i \in DOMAIN rows'[t] PROVE rows'[t][i] \cap NotNull[t] = {}
    BY <2>1, <1>2, <1>3, <1>4 DEF IInv, RowsKeepType
  <2>2. \A u \in Tables \ {t} : rows'[u] = rows[u]
    BY DEF IInv, TypeOK
  <2> QED BY <2>1, <2>2 DEF IInv, RowsKeepType
<1>7. \A p \in Openers : Progress(p)'
  BY <1>1 DEF IInv, Progress
<1>8. FreshIndexes' /\ IndexesKept'
  BY <1>1 DEF IInv, FreshIndexes, IndexesKept, Making
<1> QED BY <1>1, <1>5, <1>6, <1>7, <1>8 DEF IInv, Backfillable

LEMMA StepIInv == IInv /\ [Next]_vars => IInv'
<1> SUFFICES ASSUME IInv, [Next]_vars PROVE IInv'
  OBVIOUS
<1>1. CASE Next
  <2> PICK o \in Openers : \/ Open(o)
                           \/ \E t \in Tables : Insert(o, t)
                           \/ Leave(o) \/ Interrupted(o) \/ Rerun(o)
    BY <1>1 DEF Next
  <2>1. CASE \E t \in Tables : CreateTable(o, t)
    BY <2>1, CreateTableIInv
  <2>2. CASE \E t \in Tables : \E c \in Columns[t] : AddColumn(o, t, c)
    BY <2>2, AddColumnIInv
  <2>3. CASE \E t \in Tables : Insert(o, t)
    BY <2>3, InsertIInv
  <2>4. CASE \E t \in Tables : \E c \in Indexed[t] : CreateIndex(o, t, c)
    BY <2>4, CreateIndexIInv
  <2> QED BY <2>1, <2>2, <2>3, <2>4, LocalIInv DEF Open
<1>2. CASE UNCHANGED vars
  <2>1. TypeOK' /\ (\A o \in Openers : Progress(o)') /\ Backfillable' /\ RowsKeepType'
    BY <1>2 DEF vars, IInv, TypeOK, Progress, Backfillable, RowsKeepType
  <2>2. FreshIndexes' /\ IndexesKept'
    BY <1>2 DEF vars, IInv, FreshIndexes, IndexesKept, Making
  <2> QED BY <2>1, <2>2 DEF IInv
<1> QED BY <1>1, <1>2

THEOREM Invariance == Spec => []IInv
BY InitIInv, StepIInv, PTL DEF Spec

(* Every variable has its type, for any number of processes.                 *)
THEOREM TypeCorrect == Spec => []TypeOK
BY Invariance, PTL DEF IInv

(* Whoever opened the database finds every column of the models, although    *)
(* any number of processes create and migrate it at once and die doing so;   *)
(* and every index that is made or that nobody was kept from making.         *)
THEOREM SchemaComplete == Spec => []OpenedHasSchema
<1>1. IInv => OpenedHasSchema
  <2> SUFFICES ASSUME IInv, NEW o \in Openers, stage[o] = "open", NEW t \in Tables
               PROVE  /\ Columns[t] \subseteq columns[t]
                      /\ \A i \in Indexes(t) :
                            \/ i \in indexes
                            \/ interrupts > 0
                            \/ \E p \in Openers : stage[p] = "creating" /\ i \in toIndex[p]
    BY DEF OpenedHasSchema
  <2>1. Columns[t] \subseteq columns[t] /\ columns[t] # {}
    BY DEF IInv, Progress
  <2>2. \A c \in Indexed[t] :
           <<t, c>> \in indexes \/ interrupts > 0 \/ \E p \in Openers : Making(p, t, c)
    BY <2>1 DEF IInv, IndexesKept
  <2> QED BY <2>1, <2>2 DEF Indexes, Making
<1> QED BY <1>1, Invariance, PTL

(* Old rows satisfy the declared types at every moment of a migration.       *)
THEOREM RowsTyped == Spec => []RowsKeepType
BY Invariance, PTL DEF IInv

-----------------------------------------------------------------------------
(* When opening can fail.  A process relies on what it has read from the     *)
(* moment it inspects a table to the moment it changes it, and only another  *)
(* process that is opening the file in between can prove it wrong.           *)
Opening(o) == stage[o] \in {"creating", "migrating"}

OneAtATime == \A o, p \in Openers : Opening(o) /\ Opening(p) => o = p

(* What a process found missing is still missing.                            *)
UpToDate(o) ==
    /\ stage[o] = "creating" => \A t \in toCreate[o] : columns[t] = {}
    /\ stage[o] = "migrating" =>
          \A t \in Tables : \A c \in Columns[t] : <<t, c>> \in toAdd[o] => c \notin columns[t]

SerialInv == OpenNeverFails /\ \A o \in Openers : UpToDate(o)

LEMMA SerialCreates ==
    ASSUME IInv, SerialInv, OneAtATime,
           NEW o \in Openers, NEW t \in Tables, CreateTable(o, t)
    PROVE  SerialInv'
<1>1. /\ stage[o] = "creating" /\ t \in toCreate[o] /\ columns[t] = {}
      /\ UNCHANGED <<stage, toAdd>>
      /\ columns' = [columns EXCEPT ![t] = Columns[t]]
      /\ toCreate' = [toCreate EXCEPT ![o] = @ \ {t}]
  BY DEF CreateTable, SerialInv, UpToDate
<1>2. ASSUME NEW p \in Openers PROVE UpToDate(p)'
  <2>1. CASE p = o
    BY <1>1, <2>1 DEF IInv, TypeOK, SerialInv, UpToDate
  <2>2. CASE p # o
    BY <1>1, <2>2 DEF OneAtATime, Opening, UpToDate
  <2> QED BY <2>1, <2>2
<1> QED BY <1>1, <1>2 DEF SerialInv, OpenNeverFails

LEMMA SerialAdds ==
    ASSUME IInv, SerialInv, OneAtATime,
           NEW o \in Openers, NEW t \in Tables, NEW c \in Columns[t], AddColumn(o, t, c)
    PROVE  SerialInv'
<1>1. /\ stage[o] = "migrating" /\ <<t, c>> \in toAdd[o] /\ c \notin columns[t]
      /\ UNCHANGED <<stage, toCreate>>
      /\ columns' = [columns EXCEPT ![t] = @ \cup {c}]
      /\ toAdd' = [toAdd EXCEPT ![o] = @ \ {<<t, c>>}]
  BY DEF AddColumn, SerialInv, UpToDate
<1>2. ASSUME NEW p \in Openers PROVE UpToDate(p)'
  <2>1. CASE p = o
    BY <1>1, <2>1 DEF IInv, TypeOK, SerialInv, UpToDate
  <2>2. CASE p # o
    BY <1>1, <2>2 DEF OneAtATime, Opening, UpToDate
  <2> QED BY <2>1, <2>2
<1> QED BY <1>1, <1>2 DEF SerialInv, OpenNeverFails

LEMMA SerialReads ==
    ASSUME IInv, SerialInv, NEW o \in Openers,
           \/ InspectTables(o) \/ StartMigrate(o) \/ \E t \in Tables : TableInfo(o, t)
           \/ Opened(o) \/ Leave(o) \/ Interrupted(o) \/ Rerun(o)
           \/ \E t \in Tables : Insert(o, t)
           \/ \E t \in Tables : \E c \in Indexed[t] : CreateIndex(o, t, c)
    PROVE  SerialInv'
<1>1. columns' = columns
  BY DEF InspectTables, StartMigrate, TableInfo, Opened, Leave, Interrupted, Rerun, Insert,
         CreateIndex, file
<1>2. ASSUME NEW p \in Openers PROVE UpToDate(p)' /\ stage'[p] # "failed"
  <2>1. CASE InspectTables(o)
    BY <1>1, <2>1 DEF IInv, TypeOK, SerialInv, UpToDate, OpenNeverFails, InspectTables
  <2>2. CASE StartMigrate(o)
    BY <1>1, <2>2 DEF IInv, TypeOK, SerialInv, UpToDate, OpenNeverFails, StartMigrate
  <2>3. CASE \E t \in Tables : TableInfo(o, t)
    <3> PICK t \in Tables : TableInfo(o, t)
      BY <2>3
    <3>1. /\ UNCHANGED <<stage, toCreate>>
          /\ toAdd' = [toAdd EXCEPT ![o] = IF columns[t] = {} THEN {}
                                           ELSE {<<t, c>> : c \in Columns[t] \ columns[t]}]
      BY DEF TableInfo
    <3>2. \A u \in Tables : \A c \in Columns[u] :
             <<u, c>> \in toAdd'[p] => <<u, c>> \in toAdd[p] \/ c \notin columns[u]
      BY <3>1 DEF IInv, TypeOK
    <3> QED BY <1>1, <3>1, <3>2 DEF SerialInv, UpToDate, OpenNeverFails
  <2>4. CASE Opened(o) \/ Leave(o) \/ Interrupted(o) \/ Rerun(o)
    <3>1. /\ UNCHANGED <<toCreate, toAdd>>
          /\ stage'[p] = stage[p] \/ stage'[p] \in {"open", "closed"}
      BY <2>4 DEF IInv, TypeOK, Opened, Leave, Interrupted, Rerun
    <3> QED BY <1>1, <3>1 DEF SerialInv, UpToDate, OpenNeverFails
  <2>5. CASE \E t \in Tables : Insert(o, t)
    BY <1>1, <2>5 DEF SerialInv, UpToDate, OpenNeverFails, Insert, process
  <2>6. CASE \E t \in Tables : \E c \in Indexed[t] : CreateIndex(o, t, c)
    BY <1>1, <2>6 DEF SerialInv, UpToDate, OpenNeverFails, CreateIndex
  <2> QED BY <2>1, <2>2, <2>3, <2>4, <2>5, <2>6
<1> QED BY <1>2 DEF SerialInv, OpenNeverFails

(* Opens that do not overlap never fail, on any file: fresh, old, or left    *)
(* half-created or half-migrated by any number of interrupted ones, which is *)
(* what tests/test_storage.py has in mind.  OneAtATime is only needed while  *)
(* a file is opened; commands that have it open may come and go.             *)
THEOREM SerialOpensSucceed == Spec /\ []OneAtATime => []OpenNeverFails
<1>1. Init => SerialInv
  BY DEF Init, SerialInv, OpenNeverFails, UpToDate
<1>2. IInv /\ SerialInv /\ OneAtATime /\ [Next]_vars => SerialInv'
  <2> SUFFICES ASSUME IInv, SerialInv, OneAtATime, [Next]_vars PROVE SerialInv'
    OBVIOUS
  <2>1. CASE Next
    <3> PICK o \in Openers : \/ Open(o)
                             \/ \E t \in Tables : Insert(o, t)
                             \/ Leave(o) \/ Interrupted(o) \/ Rerun(o)
      BY <2>1 DEF Next
    <3>1. CASE \E t \in Tables : CreateTable(o, t)
      BY <3>1, SerialCreates
    <3>2. CASE \E t \in Tables : \E c \in Columns[t] : AddColumn(o, t, c)
      BY <3>2, SerialAdds
    <3> QED BY <3>1, <3>2, SerialReads DEF Open
  <2>2. CASE UNCHANGED vars
    BY <2>2 DEF vars, SerialInv, UpToDate, OpenNeverFails
  <2> QED BY <2>1, <2>2
<1>3. SerialInv => OpenNeverFails
  BY DEF SerialInv
<1> QED BY <1>1, <1>2, <1>3, Invariance, PTL DEF Spec
=============================================================================
