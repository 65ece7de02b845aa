----------------------------- MODULE SchemaDiff -----------------------------
(***************************************************************************)
(* From models to schemas, from two schemas to the operations between      *)
(* them, from operations to what PostgreSQL does with their statements,    *)
(* and from the catalogue back to a schema: the pure part of packages      *)
(* schema (builder, diff, inspector), dialect/postgres and migrate.        *)
(*                                                                         *)
(* A name is the number of its place in the alphabetical order, which the  *)
(* code sorts by.  The key and the index of a column are named after it,   *)
(* and the primary key has the name 0: the builder names constraints as    *)
(* PostgreSQL names those without a name.  SQL types stand for themselves, *)
(* an identity column for any attribute the dialect cannot alter.          *)
(***************************************************************************)
EXTENDS Naturals, SequencesExt

CONSTANTS TableName, ColumnName,
          IdColumn     \* the column called id

ASSUME NameAssumption ==
    /\ TableName \subseteq Nat \ {0} /\ ColumnName \subseteq Nat \ {0} /\ IdColumn \in ColumnName
    /\ IsFiniteSet(TableName) /\ IsFiniteSet(ColumnName)

Type == {"bigint", "text", "varchar", "date", "timestamptz"}

\* A field of a model: its type, a pointer or not, and its tags; pk also says that an
\* id has no type tag.  PostgreSQL has no identity columns but integers without default.
Field == {field \in [type : Type, pointer : BOOLEAN, null : BOOLEAN, default : {"none", "1"},
                     identity : BOOLEAN, pk : BOOLEAN, unique : BOOLEAN,
                     index : {"none", "plain", "partial"}] :
             field.identity => field.type = "bigint" /\ field.default = "none"}

Column == [type : Type, pointer : BOOLEAN, null : BOOLEAN, default : {"none", "1"},
           identity : BOOLEAN, pk : BOOLEAN, unique : BOOLEAN]
PrimaryKeyName == 0

-----------------------------------------------------------------------------
(* The builder: a table from the fields of a struct.                       *)

KeyColumns(fields) ==
    LET tagged == {c \in DOMAIN fields : fields[c].pk}
    IN  IF tagged # {} THEN tagged ELSE DOMAIN fields \cap {IdColumn}

BuiltTable(fields) ==
    LET key == KeyColumns(fields)
        uniques == {c \in DOMAIN fields \ key : fields[c].unique}
    IN  [columns |-> [c \in DOMAIN fields |->
             [type |-> fields[c].type, pointer |-> fields[c].pointer, null |-> fields[c].null,
              default |-> fields[c].default, identity |-> fields[c].identity,
              pk |-> c \in key, unique |-> fields[c].unique \/ c \in key]],
         indexes |-> [c \in {d \in DOMAIN fields : fields[d].index # "none"} |->
             [columns |-> {c}, partial |-> fields[c].index = "partial"]],
         constraints |-> [k \in uniques \cup {n \in {PrimaryKeyName} : key # {}} |->
             [columns |-> IF k = PrimaryKeyName THEN key ELSE {k}]]]

Built(models) == [t \in DOMAIN models |-> BuiltTable(models[t])]

-----------------------------------------------------------------------------
(* Compare.                                                                *)

KindRank == [add_column |-> 1, alter_column |-> 2, create_constraint |-> 3, create_index |-> 4,
             create_table |-> 5, drop_column |-> 6, drop_constraint |-> 7, drop_index |-> 8,
             drop_table |-> 9]

Operation(kind, table, name, def) ==
    [kind |-> kind, table |-> table, name |-> name, def |-> def]

ColumnsEqual(a, b) == a = b

ColumnOperations(t, expected, actual) ==
    {Operation("add_column", t, c, expected[c]) : c \in DOMAIN expected \ DOMAIN actual}
    \cup {Operation("alter_column", t, c, [to |-> expected[c], from |-> actual[c]]) :
             c \in {d \in DOMAIN expected \cap DOMAIN actual :
                       ~ ColumnsEqual(expected[d], actual[d])}}
    \cup {Operation("drop_column", t, c, actual[c]) : c \in DOMAIN actual \ DOMAIN expected}

\* Indexes and constraints that differ are created, under the name that is taken.
PartOperations(create, drop, t, expected, actual) ==
    {Operation(create, t, n, expected[n]) :
        n \in {m \in DOMAIN expected : m \in DOMAIN actual => expected[m] # actual[m]}}
    \cup {Operation(drop, t, n, actual[n]) : n \in DOMAIN actual \ DOMAIN expected}

CompareTable(t, expected, actual) ==
    ColumnOperations(t, expected.columns, actual.columns)
    \cup PartOperations("create_index", "drop_index", t, expected.indexes, actual.indexes)
    \cup PartOperations("create_constraint", "drop_constraint", t,
                        expected.constraints, actual.constraints)

\* Mutant: nothing is done about tables without a model.
OperationsButDropTable(expected, actual) ==
    {Operation("create_table", t, 0, expected[t]) : t \in DOMAIN expected \ DOMAIN actual}
    \cup UNION {CompareTable(t, expected[t], actual[t]) : t \in DOMAIN expected \cap DOMAIN actual}

\* Of a new table there is one operation, of its indexes none.
Operations(expected, actual) ==
    {Operation("create_table", t, 0, expected[t]) : t \in DOMAIN expected \ DOMAIN actual}
    \cup {Operation("drop_table", t, 0, actual[t]) : t \in DOMAIN actual \ DOMAIN expected}
    \cup UNION {CompareTable(t, expected[t], actual[t]) : t \in DOMAIN expected \cap DOMAIN actual}

\* Mutant: the kinds in the opposite order.
BeforeInReverse(op, other) ==
    \/ op.table < other.table
    \/ op.table = other.table /\ KindRank[op.kind] > KindRank[other.kind]
    \/ op.table = other.table /\ op.kind = other.kind /\ op.name < other.name

Before(op, other) ==
    \/ op.table < other.table
    \/ op.table = other.table /\ KindRank[op.kind] < KindRank[other.kind]
    \/ op.table = other.table /\ op.kind = other.kind /\ op.name < other.name

\* A finite set in sequence, from what comes before each of its elements.
Listed(before) ==
    [n \in 1..Cardinality(DOMAIN before) |->
        CHOOSE x \in DOMAIN before : Cardinality(before[x]) = n - 1]

Compare(expected, actual) ==
    LET ops == Operations(expected, actual)
    IN  Listed([op \in ops |-> {other \in ops : Before(other, op)}])

-----------------------------------------------------------------------------
(* invertDiff: nothing brings a dropped table back.                        *)

\* Mutant: a created constraint is created by the down file, too.
InverseKindRepeatsConstraints ==
    [create_table |-> "drop_table", add_column |-> "drop_column", drop_column |-> "add_column",
     alter_column |-> "alter_column", create_index |-> "drop_index",
     drop_index |-> "create_index", create_constraint |-> "create_constraint",
     drop_constraint |-> "create_constraint"]

InverseKind ==
    [create_table |-> "drop_table", add_column |-> "drop_column", drop_column |-> "add_column",
     alter_column |-> "alter_column", create_index |-> "drop_index",
     drop_index |-> "create_index", create_constraint |-> "drop_constraint",
     drop_constraint |-> "create_constraint"]

\* Mutant: the down file alters a column the way the up file did.
InverseKeepsDirection(op) == [op EXCEPT !.kind = InverseKind[op.kind]]

InverseOf(op) ==
    [op EXCEPT !.kind = InverseKind[op.kind],
               !.def = IF op.kind = "alter_column" THEN [to |-> @.from, from |-> @.to] ELSE @]

InvertDiff(diff) ==
    LET undone == {i \in DOMAIN diff : diff[i].kind # "drop_table"}
        backwards == Listed([i \in undone |-> {j \in undone : j > i}])
    IN  [n \in DOMAIN backwards |-> InverseOf(diff[backwards[n]])]

-----------------------------------------------------------------------------
(* The statements of the dialect, executed by PostgreSQL on a database:    *)
(* for every table its columns, indexes and constraints.                   *)

\* Mutant: a type that is named is rendered as it is named.
RenderTypeAsNamed(type) == type

RenderType(type) == IF type = "date" THEN "timestamptz" ELSE type

\* ColumnDefinition; an identity column is never null.
Defined(column) ==
    [type |-> RenderType(column.type), null |-> (column.null \/ column.pk) /\ ~ column.identity,
     default |-> column.default, identity |-> column.identity]

Keyed(columns, key) ==
    [c \in DOMAIN columns |->
        IF c \in key THEN [columns[c] EXCEPT !.null = FALSE] ELSE columns[c]]

\* renderCreateTable: columns and constraints.
Created(table) ==
    [columns |-> Keyed([c \in DOMAIN table.columns |-> Defined(table.columns[c])],
                       IF PrimaryKeyName \in DOMAIN table.constraints
                       THEN table.constraints[PrimaryKeyName].columns ELSE {}),
     indexes |-> [n \in {} |-> {}],
     constraints |-> table.constraints]

\* renderAlterColumn: type, NOT NULL and default, where they differ.
Altered(column, from, to) ==
    [column EXCEPT !.type = IF to.type # from.type THEN RenderType(to.type) ELSE @,
                   !.null = IF to.null # from.null THEN to.null ELSE @,
                   !.default = IF to.default # from.default THEN to.default ELSE @]

AltersNothing(op) ==
    op.kind = "alter_column" /\ \A a \in {"type", "null", "default"} : op.def.to[a] = op.def.from[a]

\* PostgreSQL casts to a character type by itself, and to no other; of an identity
\* column it changes neither type nor default nor NOT NULL.
Unalterable(column, from, to) ==
    \/ to.type # from.type /\ RenderType(to.type) \notin {column.type, "text", "varchar"}
    \/ /\ column.identity
       /\ \/ to.type # from.type /\ RenderType(to.type) # column.type
          \/ to.null /\ ~ from.null
          \/ to.default # from.default

InKey(table, c) ==
    /\ PrimaryKeyName \in DOMAIN table.constraints
    /\ c \in table.constraints[PrimaryKeyName].columns

\* Dropping a column drops its indexes and its constraints.
WithoutColumn(table, c) ==
    LET hasColumn(parts) == {n \in DOMAIN parts : c \notin parts[n].columns}
    IN  [columns |-> Restrict(table.columns, DOMAIN table.columns \ {c}),
         indexes |-> Restrict(table.indexes, hasColumn(table.indexes)),
         constraints |-> Restrict(table.constraints, hasColumn(table.constraints))]

Refused(db, op) ==
    /\ ~ AltersNothing(op)
    /\ op.kind \notin {"create_table", "drop_table", "drop_index"}
    /\ \/ op.table \notin DOMAIN db
       \/ /\ op.kind = "alter_column"
          /\ \/ op.name \notin DOMAIN db[op.table].columns
             \/ Unalterable(db[op.table].columns[op.name], op.def.from, op.def.to)
             \/ op.def.to.null /\ ~ op.def.from.null /\ InKey(db[op.table], op.name)
       \/ op.kind = "create_constraint" /\ op.name \in DOMAIN db[op.table].constraints
       \/ /\ op.kind \in {"create_constraint", "create_index"}
          /\ ~ (op.def.columns \subseteq DOMAIN db[op.table].columns)

\* What is there stays as it is.
Extended(f, x, value) == [y \in DOMAIN f \cup {x} |-> IF y \in DOMAIN f THEN f[y] ELSE value]

AlteredTable(table, op) ==
    CASE op.kind = "add_column" ->
           [table EXCEPT !.columns = Extended(@, op.name, Defined(op.def))]
      [] op.kind = "drop_column" -> WithoutColumn(table, op.name)
      [] op.kind = "alter_column" ->
           [table EXCEPT !.columns = [c \in DOMAIN @ |->
               IF c = op.name THEN Altered(@[c], op.def.from, op.def.to) ELSE @[c]]]
      [] op.kind = "create_index" ->
           [table EXCEPT !.indexes = Extended(@, op.name, op.def)]
      [] op.kind = "drop_index" ->
           [table EXCEPT !.indexes = Restrict(@, DOMAIN @ \ {op.name})]
      [] op.kind = "create_constraint" ->
           [table EXCEPT !.constraints = Extended(@, op.name, op.def),
                         !.columns = Keyed(@, IF op.name = PrimaryKeyName
                                              THEN op.def.columns ELSE {})]
      [] op.kind = "drop_constraint" ->
           [table EXCEPT !.constraints = Restrict(@, DOMAIN @ \ {op.name})]

\* With IF [NOT] EXISTS, what is there stays as it is.
Executed(db, op) ==
    CASE op.kind = "create_table" -> Extended(db, op.table, Created(op.def))
      [] op.kind = "drop_table" -> Restrict(db, DOMAIN db \ {op.table})
      [] OTHER -> [t \in DOMAIN db |->
                      IF t = op.table THEN AlteredTable(db[t], op) ELSE db[t]]

\* The databases on the way through a file.
Along(db, file) ==
    LET after[n \in 0..Len(file)] ==
            IF n = 0 THEN db ELSE Executed(after[n - 1], file[n])
    IN  after

\* A file is one implicit transaction: everything or nothing.  It may be refused for
\* the rows of a table, too, and then nothing happens either.
Executes(db, file) == \A n \in DOMAIN file : ~ Refused(Along(db, file)[n - 1], file[n])

ExecutedFile(db, file) == Along(db, file)[Len(file)]

-----------------------------------------------------------------------------
(* The inspector: tables, columns, constraints and indexes are read one    *)
(* after the other.                                                        *)

InspectType(type) == IF type = "varchar" THEN "text" ELSE type

\* readPostgresColumns, applyConstraintMetadata.
InspectedColumns(columns, constraints) ==
    [c \in DOMAIN columns |->
        [type |-> InspectType(columns[c].type),
         pointer |-> columns[c].null, null |-> columns[c].null,
         default |-> columns[c].default, identity |-> FALSE,
         pk |-> /\ PrimaryKeyName \in DOMAIN constraints
                /\ c \in constraints[PrimaryKeyName].columns,
         unique |-> \E k \in DOMAIN constraints : c \in constraints[k].columns]]

\* readPostgresIndexes: the name, and none of what Compare compares.
InspectedIndexes(indexes) ==
    [n \in DOMAIN indexes |-> [columns |-> {}, partial |-> FALSE]]

\* What each of the four queries has of a table that it did not see.
NoParts == [n \in {} |-> {}]
Seen(parts, t) == IF t \in DOMAIN parts THEN parts[t] ELSE NoParts

Inspected(tables, columns, constraints, indexes) ==
    [t \in tables |->
        [columns |-> InspectedColumns(Seen(columns, t), Seen(constraints, t)),
         indexes |-> InspectedIndexes(Seen(indexes, t)),
         constraints |-> Seen(constraints, t)]]

\* What of a table the models and the migrations agree on, and as much of it as the
\* inspector knows.
Shape(columns) ==
    [c \in DOMAIN columns |-> [type |-> RenderType(columns[c].type), null |-> columns[c].null,
                               default |-> columns[c].default]]

KnownShape(columns) ==
    [c \in DOMAIN columns |-> [Shape(columns)[c] EXCEPT !.type = InspectType(@)]]
=============================================================================
