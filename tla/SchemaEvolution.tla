-------------------------- MODULE SchemaEvolution --------------------------
(***************************************************************************)
(* The life of a schema: developers edit models and generate migrations    *)
(* against the snapshot, operators run and revert them and change the      *)
(* database by hand, and a schema check reads the catalogue while they do. *)
(* How a command is cut off, and how commands overlap, is the subject of   *)
(* MigrationRunner; here one file is one step and its content matters.     *)
(***************************************************************************)
EXTENDS SchemaDiff, FiniteSets

CONSTANTS Models,        \* the models that developers may write
          Lost,          \* not a schema
          MaxFile,       \* bound: migrations generated
          MaxByHand      \* bound: changes by hand

ASSUME ModelsAssumption ==
    \A models \in Models :
        /\ DOMAIN models \subseteq TableName
        /\ \A t \in DOMAIN models :
              /\ DOMAIN models[t] \subseteq ColumnName
              /\ DOMAIN models[t] # {}
              /\ \A c \in DOMAIN models[t] : models[t][c] \in Field

ASSUME LostAssumption == \A models \in Models : Lost # Built(models)

ASSUME BoundAssumption == MaxFile \in Nat /\ MaxByHand \in Nat

VARIABLES
    models,     \* the source
    snapshot,   \* the snapshot file: a schema, or Lost
    files,      \* the migrations: up, down, and the schema they were made for
    applied,    \* orm_migrations
    db,         \* the database
    check,      \* a schema check
    regular,    \* every file came from its predecessor's snapshot, the last applied
                \* one was always the one reverted, nothing was changed by hand
    byHand      \* the number of changes by hand

vars == <<models, snapshot, files, applied, db, check, regular, byHand>>

NoSchema == [t \in {} |-> {}]
Idle == [pc |-> "idle", tables |-> {}, columns |-> NoSchema,
         constraints |-> NoSchema, clean |-> FALSE, quiet |-> TRUE]

SchemaAfter(n) == IF n = 0 THEN NoSchema ELSE files[n].schema

TypeOK ==
    /\ models \in Models
    /\ snapshot = Lost \/ \E n \in 0..Len(files) : snapshot = SchemaAfter(n)
    /\ Len(files) <= MaxFile
    /\ applied \subseteq DOMAIN files
    /\ DOMAIN db \subseteq TableName
    /\ \A t \in DOMAIN db :
          /\ \A c \in DOMAIN db[t].columns : db[t].columns[c].type \in Type \ {"date"}
          /\ \A n \in DOMAIN db[t].indexes :
                db[t].indexes[n].columns \subseteq DOMAIN db[t].columns
          /\ \A k \in DOMAIN db[t].constraints :
                db[t].constraints[k].columns \subseteq DOMAIN db[t].columns
    /\ check.pc \in {"idle", "tables", "columns", "constraints", "indexes", "done"}
    /\ regular \in BOOLEAN
    /\ byHand \in 0..MaxByHand

Init ==
    /\ models \in {m \in Models : DOMAIN m = {}}
    /\ snapshot = NoSchema
    /\ files = <<>>
    /\ applied = {}
    /\ db = NoSchema
    /\ check = Idle
    /\ regular = TRUE
    /\ byHand = 0

-----------------------------------------------------------------------------
(* Developers.                                                             *)

\* Bound: not during a check, which has built its schema from the models before.
EditModels(m) ==
    /\ check.pc \in {"idle", "done"}
    /\ models' = m
    /\ check' = Idle
    /\ UNCHANGED <<snapshot, files, applied, db, regular, byHand>>

\* A snapshot that cannot be loaded counts as none.
Previous == IF snapshot = Lost THEN NoSchema ELSE snapshot

\* Generate and Write, uninterrupted.
Generate ==
    LET diff == Compare(Built(models), Previous)
    IN  /\ Len(files) < MaxFile
        /\ diff # <<>>
        /\ files' = Append(files, [up |-> diff, down |-> InvertDiff(diff),
                                   schema |-> Built(models)])
        /\ snapshot' = Built(models)
        /\ regular' = (regular /\ snapshot = SchemaAfter(Len(files)))
        /\ UNCHANGED <<models, applied, db, check, byHand>>

SnapshotIsLost ==
    /\ snapshot # Lost
    /\ byHand < MaxByHand
    /\ snapshot' = Lost
    /\ byHand' = byHand + 1
    /\ UNCHANGED <<models, files, applied, db, check, regular>>

-----------------------------------------------------------------------------
(* Operators.                                                              *)

Pending == DOMAIN files \ applied

\* The schema changes under a check that is going on or was made.
Disturbed == [check EXCEPT !.quiet = check = Idle]

\* Run, file by file in the order of their names.
RunNext ==
    LET n == Min(Pending)
    IN  /\ Pending # {}
        /\ Executes(db, files[n].up)
        /\ db' = ExecutedFile(db, files[n].up)
        /\ applied' = applied \cup {n}
        /\ check' = Disturbed
        /\ UNCHANGED <<models, snapshot, files, regular, byHand>>

\* Any file there is: nothing asks whether it is applied, or the last one.
Revert(n) ==
    /\ n \in DOMAIN files
    /\ Executes(db, files[n].down)
    /\ db' = ExecutedFile(db, files[n].down)
    /\ applied' = applied \ {n}
    /\ regular' = (regular /\ n \in applied /\ n = Max(applied))
    /\ check' = Disturbed
    /\ UNCHANGED <<models, snapshot, files, byHand>>

ChangedByHand(t, c) ==
    /\ byHand < MaxByHand
    /\ t \in DOMAIN db
    /\ c \in DOMAIN db[t].columns
    /\ db' = [db EXCEPT ![t] = WithoutColumn(@, c)]
    /\ byHand' = byHand + 1
    /\ regular' = FALSE
    /\ check' = Disturbed
    /\ UNCHANGED <<models, snapshot, files, applied>>

-----------------------------------------------------------------------------
(* DetectDriftFromSource: the models are built, then the four queries of   *)
(* the inspector, each of its own, then the snapshot.                      *)

CheckStarts ==
    /\ check.pc \in {"idle", "done"}
    /\ check' = [Idle EXCEPT !.pc = "tables"]
    /\ UNCHANGED <<models, snapshot, files, applied, db, regular, byHand>>

ReadTables ==
    /\ check.pc = "tables"
    /\ check' = [check EXCEPT !.pc = "columns", !.tables = DOMAIN db]
    /\ UNCHANGED <<models, snapshot, files, applied, db, regular, byHand>>

ReadColumns ==
    /\ check.pc = "columns"
    /\ check' = [check EXCEPT !.pc = "constraints",
                              !.columns = [t \in DOMAIN db |-> db[t].columns]]
    /\ UNCHANGED <<models, snapshot, files, applied, db, regular, byHand>>

ReadConstraints ==
    /\ check.pc = "constraints"
    /\ check' = [check EXCEPT !.pc = "indexes",
                              !.constraints = [t \in DOMAIN db |-> db[t].constraints]]
    /\ UNCHANGED <<models, snapshot, files, applied, db, regular, byHand>>

\* Clean: no drift from the models, and none from the snapshot if there is one.
ReadIndexes ==
    LET actual == Inspected(check.tables, check.columns, check.constraints,
                            [t \in DOMAIN db |-> db[t].indexes])
    IN  /\ check.pc = "indexes"
        /\ check' = [Idle EXCEPT
               !.pc = "done",
               !.quiet = check.quiet,
               !.clean = /\ Compare(Built(models), actual) = <<>>
                         /\ snapshot # Lost => Compare(snapshot, actual) = <<>>]
        /\ UNCHANGED <<models, snapshot, files, applied, db, regular, byHand>>

-----------------------------------------------------------------------------
Next ==
    \/ \E m \in Models : EditModels(m)
    \/ Generate
    \/ SnapshotIsLost
    \/ RunNext
    \/ \E n \in DOMAIN files : Revert(n)
    \/ \E t \in TableName, c \in ColumnName : ChangedByHand(t, c)
    \/ CheckStarts
    \/ ReadTables
    \/ ReadColumns
    \/ ReadConstraints
    \/ ReadIndexes

Spec == Init /\ [][Next]_vars

-----------------------------------------------------------------------------
(* Properties.                                                             *)

SameShape(table, other) ==
    /\ Shape(table.columns) = Shape(other.columns)
    /\ table.constraints = other.constraints

\* A migration that drops t is not applied, and cannot give t back.
LostByRevert(t) ==
    \E n \in Pending : \E i \in DOMAIN files[n].up :
        files[n].up[i].kind = "drop_table" /\ files[n].up[i].table = t

\* PostgreSQL makes keys and identity columns NOT NULL whatever their tags say.
Declarable(schema) ==
    \A t \in DOMAIN schema : \A c \in DOMAIN schema[t].columns :
        schema[t].columns[c].null =>
            ~ schema[t].columns[c].pk /\ ~ schema[t].columns[c].identity

Orderly == regular /\ \A n \in DOMAIN files : Declarable(files[n].schema)

\* While migrations are generated from kept snapshots and reverted last one first,
\* the tables of the database have the columns (type, NOT NULL, default) and the
\* constraints of the models that the last applied migration was generated from,
\* whatever was run and reverted before; only a table whose drop was reverted is
\* missing.  Indexes are not part of it: see DeclaredIndexesExist.
RegistryDescribesSchema ==
    Orderly =>
        LET last == SchemaAfter(Cardinality(applied))
        IN  /\ DOMAIN db \subseteq DOMAIN last
            /\ \A t \in DOMAIN last :
                  IF t \in DOMAIN db THEN SameShape(db[t], last[t]) ELSE LostByRevert(t)

\* The primary key is built anew under its name, or a column of it becomes nullable.
ChangesKey(file) ==
    \E i \in DOMAIN file :
        /\ file[i].table \in DOMAIN db
        /\ \/ /\ file[i].kind = "create_constraint"
              /\ file[i].name \in DOMAIN db[file[i].table].constraints
           \/ /\ file[i].kind = "alter_column"
              /\ file[i].def.to.null
              /\ InKey(db[file[i].table], file[i].name)

AltersForGood(file) ==
    \E i \in DOMAIN file :
        /\ file[i].kind = "alter_column"
        /\ file[i].table \in DOMAIN db
        /\ Unalterable(db[file[i].table].columns[file[i].name], file[i].def.from, file[i].def.to)

\* The order of the operations of a file, by table and then by the name of the kind,
\* is one that PostgreSQL can execute: the next file only ever fails for a primary
\* key that changes (the old one goes last), for a column that PostgreSQL does not
\* alter in this way, and for tables lost by a revert.
NextFileExecutes ==
    LET n == Cardinality(applied) + 1
    IN  Orderly /\ Pending # {} /\ DOMAIN db = DOMAIN SchemaAfter(n - 1) =>
            \/ Executes(db, files[n].up)
            \/ ChangesKey(files[n].up)
            \/ AltersForGood(files[n].up)

DropsIndexedColumn(file) ==
    \E i, j \in DOMAIN file :
        /\ file[i].kind = "drop_column"
        /\ file[j].kind \in {"drop_index", "drop_constraint"}
        /\ file[j].table = file[i].table
        /\ file[i].name \in file[j].def.columns

\* A migration that drops no indexed or unique column and alters no column in a way
\* that cannot be undone can be reverted right after it was applied: the inverse
\* operations execute in the opposite order.
LastFileReverts ==
    LET n == Cardinality(applied)
    IN  Orderly /\ applied # {} /\ DOMAIN db = DOMAIN SchemaAfter(n) =>
            \/ Executes(db, files[n].down)
            \/ DropsIndexedColumn(files[n].up)
            \/ AltersForGood(files[n].down)

\* A clean report of a check with no schema change since it began says the truth, as
\* far as the inspector can tell types apart, whatever happened to snapshots,
\* registry and database before: the database has the tables, columns and constraints
\* of the models.
CleanReportIsTrue ==
    check.pc = "done" /\ check.clean /\ check.quiet =>
        /\ DOMAIN db = DOMAIN models
        /\ \A t \in DOMAIN db :
              /\ KnownShape(db[t].columns) = KnownShape(BuiltTable(models[t]).columns)
              /\ db[t].constraints = BuiltTable(models[t]).constraints

\* "run `dorm migrate generate` and `dorm migrate run` to reconcile": when there is
\* nothing to generate and nothing to run, the indexes of the models are there.
DeclaredIndexesExist ==
    regular /\ snapshot = Built(models) /\ Pending = {} =>
        \A t \in DOMAIN snapshot \cap DOMAIN db :
            DOMAIN snapshot[t].indexes \subseteq DOMAIN db[t].indexes
=============================================================================
