----------------------- MODULE SchemaEvolutionProofs -----------------------
(***************************************************************************)
(* Proofs about SchemaEvolution, for every set of models, tables and       *)
(* columns: what the registry says of the database, which files execute,   *)
(* and what a clean report means.                                          *)
(*                                                                         *)
(* Compare lists the differences of two schemas, each once and in its      *)
(* order (CompareLists), and so does its inverse backwards (InvertLists).  *)
(* A database that executes such a list is described by what it has behind *)
(* it and what it has still before it, column by column and constraint by  *)
(* constraint (OnTheWay, Underway); the file is done when nothing waits.   *)
(* An operation that could be refused meets a database in which what it    *)
(* needs is there already or has not gone yet (NotRefused).                *)
(***************************************************************************)
EXTENDS SchemaEvolution, Integers, FiniteSetTheorems, WellFoundedInduction, TLAPS

-----------------------------------------------------------------------------
\* Induction, and sequences from orders

LEMMA LeastOf ==
    ASSUME NEW S \in SUBSET Nat, S # {}
    PROVE  Min(S) \in S /\ \A x \in S : Min(S) <= x
  <1>1. PICK x \in S : \A y \in S : ~ (<<y, x>> \in OpToRel(<, Nat))
    BY NatLessThanWellFounded, WFMin
  <1>2. ASSUME NEW y \in S, y < x PROVE FALSE
    <2> DEFINE pair == <<y, x>>
    <2>1. pair \in Nat \X Nat /\ pair[1] = y /\ pair[2] = x
      OBVIOUS
    <2> HIDE DEF pair
    <2>2. pair \in OpToRel(<, Nat)
      BY <1>2, <2>1 DEF OpToRel
    <2> QED
      BY <1>1, <2>2 DEF pair
  <1>3. \A y \in S : x <= y
    BY <1>2
  <1> QED
    BY <1>3 DEF Min

\* Induction up to n, with the numbers it holds for as a set.
LEMMA UpTo ==
    ASSUME NEW n \in Nat, NEW T, 0 \in T, \A k \in 0..n-1 : k \in T => k + 1 \in T
    PROVE  n \in T
  <1> DEFINE missing == {k \in 0..n : k \notin T}
  <1> SUFFICES ASSUME missing # {} PROVE FALSE
    OBVIOUS
  <1>1. missing \in SUBSET Nat
    OBVIOUS
  <1>2. Min(missing) \in missing /\ \A x \in missing : Min(missing) <= x
    BY <1>1, LeastOf
  <1> DEFINE k == Min(missing) - 1
  <1>3. k \in 0..n-1 /\ k + 1 = Min(missing)
    BY <1>2
  <1>4. k \in T
    BY <1>2, <1>3
  <1> QED
    BY <1>2, <1>3, <1>4

\* What comes before each element of O makes a strict total order.
Orders(before, O) ==
    /\ before \in [O -> SUBSET O]
    /\ \A x \in O : x \notin before[x]
    /\ \A x \in O, y \in O : x \in before[y] => before[x] \subseteq before[y]
    /\ \A x \in O, y \in O : x = y \/ x \in before[y] \/ y \in before[x]

LEMMA ListedInOrder ==
    ASSUME NEW O, IsFiniteSet(O), NEW before, Orders(before, O)
    PROVE  LET s == Listed(before)
           IN  /\ Cardinality(O) \in Nat /\ DOMAIN s = 1..Cardinality(O) /\ Len(s) = Cardinality(O)
               /\ s \in Seq(O)
               /\ \A n \in DOMAIN s : s[n] \in O
               /\ \A x \in O : \E n \in DOMAIN s : s[n] = x
               /\ \A m \in DOMAIN s, n \in DOMAIN s : s[m] \in before[s[n]] <=> m < n
  <1> DEFINE N == Cardinality(O)
             place == [x \in O |-> Cardinality(before[x])]
             s == Listed(before)
  <1>1. N \in Nat /\ DOMAIN before = O
    BY FS_CardinalityType DEF Orders
  <1>2. \A x \in O : IsFiniteSet(before[x]) /\ place[x] \in Nat /\ place[x] <= N
    <2> TAKE x \in O
    <2>1. before[x] \in SUBSET O
      BY DEF Orders
    <2>2. IsFiniteSet(before[x]) /\ Cardinality(before[x]) <= Cardinality(O)
      BY <2>1, FS_Subset
    <2>3. Cardinality(before[x]) \in Nat
      BY <2>2, FS_CardinalityType
    <2>4. place[x] = Cardinality(before[x])
      OBVIOUS
    <2> HIDE DEF place
    <2> QED
      BY <2>2, <2>3, <2>4
  <1>3. \A x \in O : place[x] < N
    <2> TAKE x \in O
    <2>1. before[x] \in SUBSET O /\ before[x] # O
      BY DEF Orders
    <2>2. Cardinality(before[x]) <= N /\ Cardinality(before[x]) # N
      BY <2>1, FS_Subset
    <2>3. Cardinality(before[x]) \in Nat
      BY <1>2
    <2>4. Cardinality(before[x]) < N
      <3> HIDE DEF N
      <3> QED
        BY <1>1, <2>2, <2>3
    <2> QED
      BY <2>4
  <1>4. \A x \in O, y \in O : x \in before[y] => place[x] < place[y]
    <2> TAKE x \in O, y \in O
    <2> HAVE x \in before[y]
    <2>1. before[x] \in SUBSET before[y] /\ before[x] # before[y]
      BY DEF Orders
    <2>2. /\ Cardinality(before[x]) <= Cardinality(before[y])
          /\ Cardinality(before[x]) # Cardinality(before[y])
      BY <1>2, <2>1, FS_Subset
    <2>3. Cardinality(before[x]) \in Nat /\ Cardinality(before[y]) \in Nat
      BY <1>2
    <2>4. Cardinality(before[x]) < Cardinality(before[y])
      BY <2>2, <2>3
    <2> QED
      BY <2>4
  <1> HIDE DEF place, N
  <1>5. \A x \in O, y \in O : x \in before[y] <=> place[x] < place[y]
    BY <1>2, <1>4 DEF Orders
  <1>6. \A x \in O, y \in O : place[x] = place[y] => x = y
    BY <1>2, <1>4 DEF Orders
  <1>7. \A n \in 0..N-1 : \E x \in O : place[x] = n
    <2>1. place \in Injection(O, 0..N-1)
      <3>1. place \in [O -> 0..N-1]
        <4>1. place = [x \in O |-> place[x]]
          BY DEF place
        <4>2. \A x \in O : place[x] \in 0..N-1
          BY <1>1, <1>2, <1>3
        <4> QED
          BY <4>1, <4>2
      <3> QED
        BY <1>6, <3>1 DEF Injection, IsInjective
    <2> DEFINE image == {place[x] : x \in O}
    <2>2. image \subseteq 0..N-1
      BY <1>1, <1>2, <1>3
    <2>3. IsFiniteSet(0..N-1) /\ Cardinality(0..N-1) = N
      BY <1>1, FS_Interval
    <2>4. place \in Bijection(O, image)
      <3>1. place \in [O -> image]
        BY DEF place
      <3> QED
        BY <1>6, <3>1 DEF Bijection, Injection, IsInjective, Surjection
    <2>5. Cardinality(image) = N
      <3>1. ExistsBijection(O, image)
        BY <2>4 DEF ExistsBijection
      <3> QED
        BY <3>1, FS_Bijection DEF N
    <2>6. image = 0..N-1
      BY <1>1, <2>2, <2>3, <2>5, FS_Subset
    <2> QED
      BY <2>6
  <1>8. DOMAIN s = 1..N /\ \A n \in 1..N : s[n] \in O /\ place[s[n]] = n - 1
    <2>1. s = [n \in 1..N |-> CHOOSE x \in O : Cardinality(before[x]) = n - 1]
      BY <1>1 DEF Listed, N
    <2>2. \A n \in 1..N : \E x \in O : Cardinality(before[x]) = n - 1
      <3> TAKE n \in 1..N
      <3>1. n - 1 \in 0..N-1
        BY <1>1
      <3> QED
        BY <1>7, <3>1 DEF place
    <2> HIDE DEF s
    <2>3. ASSUME NEW n \in 1..N
          PROVE  s[n] \in O /\ Cardinality(before[s[n]]) = n - 1
      <3>1. s[n] = CHOOSE x \in O : Cardinality(before[x]) = n - 1
        BY <2>1
      <3> QED
        BY <2>2, <3>1
    <2> QED
      BY <2>1, <2>3 DEF place
  <1>9. \A x \in O : \E n \in 1..N : s[n] = x
    <2> HIDE DEF s
    <2> TAKE x \in O
    <2>1. place[x] + 1 \in 1..N
      BY <1>1, <1>2, <1>3
    <2>2. place[s[place[x] + 1]] = place[x]
      BY <1>2, <1>8, <2>1
    <2> QED
      BY <1>6, <1>8, <2>1, <2>2
  <1>10. \A m \in 1..N, n \in 1..N : s[m] \in before[s[n]] <=> m < n
    <2> HIDE DEF s
    <2> QED
      BY <1>1, <1>5, <1>8
  <1>11. s \in Seq(O) /\ Len(s) = N
    <2>1. s = [n \in 1..N |-> s[n]]
      BY <1>1 DEF Listed, N
    <2> HIDE DEF s
    <2>2. s \in [1..N -> O]
      BY <1>8, <2>1
    <2> QED
      BY <1>1, <2>2
  <1> QED
    BY <1>1, <1>8, <1>9, <1>10, <1>11 DEF N

-----------------------------------------------------------------------------
\* On the way through a file

LEMMA AlongSteps ==
    ASSUME NEW d, NEW file, Len(file) \in Nat
    PROVE  /\ DOMAIN Along(d, file) = 0..Len(file)
           /\ Along(d, file)[0] = d
           /\ \A n \in 1..Len(file) : Along(d, file)[n] = Executed(Along(d, file)[n - 1], file[n])
  <1> DEFINE N == Len(file)
             IsAlong(f, m) ==
                 f = [n \in 0..m |-> IF n = 0 THEN d ELSE Executed(f[n - 1], file[n])]
             T == {m \in Nat : \E f : IsAlong(f, m)}
  <1>1. 0 \in T
    <2> DEFINE f == [n \in 0..0 |-> d]
    <2>1. IsAlong(f, 0)
      <3>1. \A n \in 0..0 : n = 0
        OBVIOUS
      <3> QED
        BY <3>1
    <2> QED
      BY <2>1
  <1>2. ASSUME NEW m \in Nat, m \in T PROVE m + 1 \in T
    <2>1. PICK f : IsAlong(f, m)
      BY <1>2
    <2> DEFINE g == [n \in 0..m+1 |-> IF n = 0 THEN d ELSE Executed(f[n - 1], file[n])]
    <2>2. \A n \in 0..m : g[n] = f[n]
      <3> TAKE n \in 0..m
      <3>1. n \in 0..m+1 /\ f[n] = IF n = 0 THEN d ELSE Executed(f[n - 1], file[n])
        BY <2>1
      <3> QED
        BY <3>1
    <2>3. \A n \in 0..m+1 : n # 0 => g[n - 1] = f[n - 1]
      <3> HIDE DEF g
      <3> TAKE n \in 0..m+1
      <3> HAVE n # 0
      <3>1. n - 1 \in 0..m
        OBVIOUS
      <3> QED
        BY <2>2, <3>1
    <2>4. g = [n \in 0..m+1 |-> IF n = 0 THEN d ELSE Executed(g[n - 1], file[n])]
      <3> DEFINE h == [n \in 0..m+1 |-> IF n = 0 THEN d ELSE Executed(g[n - 1], file[n])]
      <3>1. \A n \in 0..m+1 : (IF n = 0 THEN d ELSE Executed(g[n - 1], file[n]))
                             = (IF n = 0 THEN d ELSE Executed(f[n - 1], file[n]))
        <4> HIDE DEF g
        <4> QED
          BY <2>3
      <3> HIDE DEF g
      <3>2. h = [n \in 0..m+1 |-> IF n = 0 THEN d ELSE Executed(f[n - 1], file[n])]
        BY <3>1
      <3> QED
        BY <3>2 DEF g
    <2>5. IsAlong(g, m + 1)
      <3> HIDE DEF g
      <3> QED
        BY <2>4
    <2> HIDE DEF g, IsAlong
    <2>6. \E f2 : IsAlong(f2, m + 1)
      BY <2>5
    <2> QED
      BY <2>6
  <1>3. N \in T
    <2> HIDE DEF T
    <2>1. N \in Nat
      OBVIOUS
    <2> HIDE DEF N
    <2>2. \A m \in 0..N-1 : m \in T => m + 1 \in T
      BY <1>2, <2>1
    <2> QED
      BY <1>1, <2>1, <2>2, UpTo
  <1>4. PICK f : IsAlong(f, N)
    BY <1>3
  <1> DEFINE after == Along(d, file)
  <1>5. after = [n \in 0..N |-> IF n = 0 THEN d ELSE Executed(after[n - 1], file[n])]
    BY <1>4 DEF Along
  <1> HIDE DEF after
  <1>6. DOMAIN after = 0..N /\ after[0] = d
    BY <1>5
  <1>7. \A n \in 1..N : after[n] = Executed(after[n - 1], file[n])
    <2> TAKE n \in 1..N
    <2>1. n \in 0..N /\ n # 0
      OBVIOUS
    <2> QED
      BY <1>5, <2>1
  <1> QED
    BY <1>6, <1>7 DEF after

-----------------------------------------------------------------------------
\* Schemas, databases and operations as they can be

IsFunction(f) == f = [x \in DOMAIN f |-> f[x]]

DbColumn == [type : Type \ {"date"}, null : BOOLEAN, default : {"none", "1"}, identity : BOOLEAN]

\* Indexes or constraints: each is of some of the columns.
PartsOf(parts, names, columns) ==
    /\ IsFunction(parts) /\ DOMAIN parts \subseteq names
    /\ \A n \in DOMAIN parts : parts[n].columns \subseteq columns

ConstraintName == ColumnName \cup {PrimaryKeyName}

GoodTable(a, C) ==
    /\ a = [columns |-> a.columns, indexes |-> a.indexes, constraints |-> a.constraints]
    /\ IsFunction(a.columns) /\ DOMAIN a.columns \subseteq ColumnName
    /\ \A c \in DOMAIN a.columns : a.columns[c] \in C
    /\ PartsOf(a.indexes, ColumnName, DOMAIN a.columns)
    /\ PartsOf(a.constraints, ConstraintName, DOMAIN a.columns)

ModelTable(a) ==
    /\ GoodTable(a, Column)
    /\ \A c \in DOMAIN a.columns : a.columns[c].pk <=> InKey(a, c)

GoodDb(d) ==
    /\ IsFunction(d) /\ DOMAIN d \subseteq TableName
    /\ \A t \in DOMAIN d : GoodTable(d[t], DbColumn)

GoodSchema(S) ==
    /\ DOMAIN S \subseteq TableName
    /\ \A t \in DOMAIN S : ModelTable(S[t])

\* What Compare looks at is named.
Named(S) ==
    /\ DOMAIN S \subseteq TableName
    /\ \A t \in DOMAIN S :
          /\ DOMAIN S[t].columns \subseteq ColumnName
          /\ DOMAIN S[t].indexes \subseteq ColumnName
          /\ DOMAIN S[t].constraints \subseteq ConstraintName

LEMMA GoodSchemasAreNamed == ASSUME NEW S, GoodSchema(S) PROVE Named(S)
  BY DEF GoodSchema, ModelTable, GoodTable, PartsOf, Named

LEMMA BuiltIsGood == ASSUME NEW m \in Models PROVE GoodSchema(Built(m)) /\ DOMAIN Built(m) = DOMAIN m
  <1> DEFINE S == Built(m)
  <1>1. DOMAIN S = DOMAIN m /\ \A t \in DOMAIN m : S[t] = BuiltTable(m[t])
    BY DEF Built
  <1>2. ASSUME NEW t \in DOMAIN m PROVE ModelTable(BuiltTable(m[t]))
    <2> DEFINE fields == m[t]
               key == KeyColumns(fields)
               uniques == {c \in DOMAIN fields \ key : fields[c].unique}
               a == BuiltTable(fields)
               names == uniques \cup {n \in {PrimaryKeyName} : key # {}}
               indexed == {d \in DOMAIN fields : fields[d].index # "none"}
    <2>1. DOMAIN fields \subseteq ColumnName /\ \A c \in DOMAIN fields : fields[c] \in Field
      BY ModelsAssumption
    <2>2. key \subseteq DOMAIN fields
      BY DEF KeyColumns
    <2>3. a = [columns |-> a.columns, indexes |-> a.indexes, constraints |-> a.constraints]
      BY DEF BuiltTable
    <2>4. /\ a.columns = [c \in DOMAIN fields |->
                 [type |-> fields[c].type, pointer |-> fields[c].pointer, null |-> fields[c].null,
                  default |-> fields[c].default, identity |-> fields[c].identity,
                  pk |-> c \in key, unique |-> fields[c].unique \/ c \in key]]
          /\ a.indexes = [c \in indexed |->
                 [columns |-> {c}, partial |-> fields[c].index = "partial"]]
          /\ a.constraints = [k \in names |->
                 [columns |-> IF k = PrimaryKeyName THEN key ELSE {k}]]
      BY DEF BuiltTable
    <2> HIDE DEF a, key
    <2>5. \A c \in DOMAIN fields : a.columns[c] \in Column /\ (a.columns[c].pk <=> c \in key)
      <3> TAKE c \in DOMAIN fields
      <3> DEFINE f == fields[c]
      <3>1. f \in Field
        BY <2>1
      <3>2. /\ f.type \in Type /\ f.pointer \in BOOLEAN /\ f.null \in BOOLEAN
            /\ f.default \in {"none", "1"} /\ f.identity \in BOOLEAN /\ f.unique \in BOOLEAN
        BY <3>1 DEF Field
      <3> DEFINE pk == c \in key
                 unique == f.unique \/ pk
      <3>3. a.columns[c] = [type |-> f.type, pointer |-> f.pointer, null |-> f.null,
                  default |-> f.default, identity |-> f.identity, pk |-> pk, unique |-> unique]
        BY <2>4
      <3>4. pk \in BOOLEAN /\ unique \in BOOLEAN
        BY <3>2
      <3> HIDE DEF f, pk, unique
      <3>5. a.columns[c] \in Column
        BY <3>2, <3>3, <3>4 DEF Column
      <3>6. a.columns[c].pk = pk
        BY <3>3
      <3> QED
        BY <3>5, <3>6 DEF pk
    <2>6. /\ IsFunction(a.columns) /\ DOMAIN a.columns = DOMAIN fields
          /\ IsFunction(a.indexes) /\ DOMAIN a.indexes = indexed
          /\ IsFunction(a.constraints) /\ DOMAIN a.constraints = names
      BY <2>4 DEF IsFunction
    <2>7. PrimaryKeyName \notin ColumnName
      BY NameAssumption DEF PrimaryKeyName
    <2>8. names \subseteq ConstraintName
      BY <2>1 DEF ConstraintName
    <2>9. \A n \in indexed : a.indexes[n].columns \subseteq DOMAIN fields
      BY <2>4
    <2>10. \A k \in names : a.constraints[k].columns \subseteq DOMAIN fields
      <3> TAKE k \in names
      <3>1. a.constraints[k].columns = IF k = PrimaryKeyName THEN key ELSE {k}
        BY <2>4
      <3> QED
        BY <2>2, <3>1
    <2>11. GoodTable(a, Column)
      BY <2>1, <2>3, <2>5, <2>6, <2>8, <2>9, <2>10 DEF GoodTable, PartsOf
    <2>12. PrimaryKeyName \in names <=> key # {}
      BY <2>1, <2>7
    <2>13. \A c \in DOMAIN fields : InKey(a, c) <=> c \in key
      <3>1. PrimaryKeyName \in names => a.constraints[PrimaryKeyName].columns = key
        BY <2>4
      <3> QED
        BY <2>6, <2>12, <3>1 DEF InKey
    <2> QED
      BY <2>5, <2>6, <2>11, <2>13 DEF ModelTable, a
  <1>3. DOMAIN m \subseteq TableName
    BY ModelsAssumption
  <1> QED
    BY <1>1, <1>2, <1>3 DEF GoodSchema

\* Operations(expected, actual), as the conditions on an operation.
DiffersInTable(op, expected, actual) ==
    \/ /\ op.kind = "add_column"
       /\ op.name \in DOMAIN expected.columns \ DOMAIN actual.columns
       /\ op.def = expected.columns[op.name]
    \/ /\ op.kind = "alter_column"
       /\ op.name \in DOMAIN expected.columns \cap DOMAIN actual.columns
       /\ expected.columns[op.name] # actual.columns[op.name]
       /\ op.def = [to |-> expected.columns[op.name], from |-> actual.columns[op.name]]
    \/ /\ op.kind = "drop_column"
       /\ op.name \in DOMAIN actual.columns \ DOMAIN expected.columns
       /\ op.def = actual.columns[op.name]
    \/ /\ op.kind = "create_index"
       /\ op.name \in DOMAIN expected.indexes
       /\ op.name \in DOMAIN actual.indexes => expected.indexes[op.name] # actual.indexes[op.name]
       /\ op.def = expected.indexes[op.name]
    \/ /\ op.kind = "drop_index"
       /\ op.name \in DOMAIN actual.indexes \ DOMAIN expected.indexes
       /\ op.def = actual.indexes[op.name]
    \/ /\ op.kind = "create_constraint"
       /\ op.name \in DOMAIN expected.constraints
       /\ op.name \in DOMAIN actual.constraints =>
              expected.constraints[op.name] # actual.constraints[op.name]
       /\ op.def = expected.constraints[op.name]
    \/ /\ op.kind = "drop_constraint"
       /\ op.name \in DOMAIN actual.constraints \ DOMAIN expected.constraints
       /\ op.def = actual.constraints[op.name]

Differs(op, expected, actual) ==
    /\ op = Operation(op.kind, op.table, op.name, op.def)
    /\ \/ /\ op.kind = "create_table" /\ op.name = 0
          /\ op.table \in DOMAIN expected \ DOMAIN actual
          /\ op.def = expected[op.table]
       \/ /\ op.kind = "drop_table" /\ op.name = 0
          /\ op.table \in DOMAIN actual \ DOMAIN expected
          /\ op.def = actual[op.table]
       \/ /\ op.table \in DOMAIN expected \cap DOMAIN actual
          /\ DiffersInTable(op, expected[op.table], actual[op.table])

LEMMA OperationFields ==
    ASSUME NEW kind, NEW table, NEW name, NEW def
    PROVE  LET op == Operation(kind, table, name, def)
           IN  /\ op.kind = kind /\ op.table = table /\ op.name = name /\ op.def = def
               /\ op = Operation(op.kind, op.table, op.name, op.def)
  BY DEF Operation

LEMMA TableOperations ==
    ASSUME NEW t, NEW e, NEW a, NEW op
    PROVE  op \in CompareTable(t, e, a) <=>
             /\ op = Operation(op.kind, op.table, op.name, op.def) /\ op.table = t
             /\ DiffersInTable(op, e, a)
  <1>1. ASSUME op \in CompareTable(t, e, a)
        PROVE  /\ op = Operation(op.kind, op.table, op.name, op.def) /\ op.table = t
               /\ DiffersInTable(op, e, a)
    <2>1. CASE op \in ColumnOperations(t, e.columns, a.columns)
      <3>1. CASE \E c \in DOMAIN e.columns \ DOMAIN a.columns :
                     op = Operation("add_column", t, c, e.columns[c])
        BY <3>1, OperationFields DEF DiffersInTable
      <3>2. CASE \E c \in DOMAIN e.columns \cap DOMAIN a.columns :
                     /\ e.columns[c] # a.columns[c]
                     /\ op = Operation("alter_column", t, c, [to |-> e.columns[c], from |-> a.columns[c]])
        BY <3>2, OperationFields DEF DiffersInTable
      <3>3. CASE \E c \in DOMAIN a.columns \ DOMAIN e.columns :
                     op = Operation("drop_column", t, c, a.columns[c])
        BY <3>3, OperationFields DEF DiffersInTable
      <3> QED
        BY <2>1, <3>1, <3>2, <3>3 DEF ColumnOperations, ColumnsEqual
    <2>2. CASE op \in PartOperations("create_index", "drop_index", t, e.indexes, a.indexes)
      BY <2>2, OperationFields DEF DiffersInTable, PartOperations
    <2>3. CASE op \in PartOperations("create_constraint", "drop_constraint", t,
                                     e.constraints, a.constraints)
      BY <2>3, OperationFields DEF DiffersInTable, PartOperations
    <2> QED
      BY <1>1, <2>1, <2>2, <2>3 DEF CompareTable
  <1>2. ASSUME op = Operation(op.kind, op.table, op.name, op.def), op.table = t,
               DiffersInTable(op, e, a)
        PROVE  op \in CompareTable(t, e, a)
    <2>1. CASE op.kind \in {"add_column", "alter_column", "drop_column"}
      <3>1. op \in ColumnOperations(t, e.columns, a.columns)
        BY <1>2, <2>1 DEF ColumnOperations, ColumnsEqual, DiffersInTable
      <3> QED
        BY <3>1 DEF CompareTable
    <2>2. CASE op.kind \in {"create_index", "drop_index"}
      <3>1. op \in PartOperations("create_index", "drop_index", t, e.indexes, a.indexes)
        BY <1>2, <2>2 DEF PartOperations, DiffersInTable
      <3> QED
        BY <3>1 DEF CompareTable
    <2>3. CASE op.kind \in {"create_constraint", "drop_constraint"}
      <3>1. op \in PartOperations("create_constraint", "drop_constraint", t,
                                  e.constraints, a.constraints)
        BY <1>2, <2>3 DEF PartOperations, DiffersInTable
      <3> QED
        BY <3>1 DEF CompareTable
    <2> QED
      BY <1>2, <2>1, <2>2, <2>3 DEF DiffersInTable
  <1> QED
    BY <1>1, <1>2

LEMMA OperationsDiffer ==
    ASSUME NEW T, NEW S, NEW op
    PROVE  op \in Operations(T, S) <=> Differs(op, T, S)
  <1>1. op \in {Operation("create_table", t, 0, T[t]) : t \in DOMAIN T \ DOMAIN S} <=>
            /\ op = Operation(op.kind, op.table, op.name, op.def)
            /\ op.kind = "create_table" /\ op.name = 0
            /\ op.table \in DOMAIN T \ DOMAIN S
            /\ op.def = T[op.table]
    BY OperationFields
  <1>2. op \in {Operation("drop_table", t, 0, S[t]) : t \in DOMAIN S \ DOMAIN T} <=>
            /\ op = Operation(op.kind, op.table, op.name, op.def)
            /\ op.kind = "drop_table" /\ op.name = 0
            /\ op.table \in DOMAIN S \ DOMAIN T
            /\ op.def = S[op.table]
    BY OperationFields
  <1>3. op \in UNION {CompareTable(t, T[t], S[t]) : t \in DOMAIN T \cap DOMAIN S} <=>
            /\ op = Operation(op.kind, op.table, op.name, op.def)
            /\ op.table \in DOMAIN T \cap DOMAIN S
            /\ DiffersInTable(op, T[op.table], S[op.table])
    BY TableOperations
  <1> DEFINE A == {Operation("create_table", t, 0, T[t]) : t \in DOMAIN T \ DOMAIN S}
             B == {Operation("drop_table", t, 0, S[t]) : t \in DOMAIN S \ DOMAIN T}
             C == UNION {CompareTable(t, T[t], S[t]) : t \in DOMAIN T \cap DOMAIN S}
  <1>4. Operations(T, S) = A \cup B \cup C
    BY DEF Operations
  <1> HIDE DEF A, B, C
  <1>5. op \in Operations(T, S) <=> op \in A \/ op \in B \/ op \in C
    BY <1>4
  <1>6. op \in A => Differs(op, T, S)
    BY <1>1 DEF Differs, A
  <1>7. op \in B => Differs(op, T, S)
    BY <1>2 DEF Differs, B
  <1>8. op \in C => Differs(op, T, S)
    BY <1>3 DEF Differs, C
  <1>9. ASSUME Differs(op, T, S) PROVE op \in A \/ op \in B \/ op \in C
    <2>1. CASE op.kind = "create_table" /\ op.name = 0 /\ op.table \in DOMAIN T \ DOMAIN S
                   /\ op.def = T[op.table]
      BY <1>1, <1>9, <2>1 DEF Differs, A
    <2>2. CASE op.kind = "drop_table" /\ op.name = 0 /\ op.table \in DOMAIN S \ DOMAIN T
                   /\ op.def = S[op.table]
      BY <1>2, <1>9, <2>2 DEF Differs, B
    <2>3. CASE op.table \in DOMAIN T \cap DOMAIN S
                   /\ DiffersInTable(op, T[op.table], S[op.table])
      BY <1>3, <1>9, <2>3 DEF Differs, C
    <2> QED
      BY <1>9, <2>1, <2>2, <2>3 DEF Differs
  <1> QED
    BY <1>5, <1>6, <1>7, <1>8, <1>9

\* An operation is what its kind, its table and its name make it.
LEMMA OperationsAreDistinct ==
    ASSUME NEW T, NEW S, NEW op \in Operations(T, S), NEW other \in Operations(T, S),
           op.kind = other.kind, op.table = other.table, op.name = other.name
    PROVE  op = other
  <1>1. Differs(op, T, S) /\ Differs(other, T, S)
    BY OperationsDiffer
  <1>2. op.def = other.def
    <2>1. CASE op.kind \in {"create_table", "drop_table"}
      BY <1>1, <2>1 DEF Differs, DiffersInTable
    <2>2. CASE op.kind \notin {"create_table", "drop_table"}
      <3>1. /\ DiffersInTable(op, T[op.table], S[op.table])
            /\ DiffersInTable(other, T[op.table], S[op.table])
        BY <1>1, <2>2 DEF Differs
      <3> QED
        BY <3>1 DEF DiffersInTable
    <2> QED
      BY <2>1, <2>2
  <1> QED
    BY <1>1, <1>2 DEF Differs

LEMMA NamesOfOperations ==
    ASSUME NEW T, NEW S, Named(T), Named(S), NEW op \in Operations(T, S)
    PROVE  /\ op.kind \in DOMAIN KindRank /\ op.table \in TableName
           /\ op.name \in ConstraintName
           /\ op.kind \in {"add_column", "alter_column", "drop_column", "create_index", "drop_index"} =>
                  op.name \in ColumnName
  <1>1. Differs(op, T, S)
    BY OperationsDiffer
  <1>2. CASE op.kind \in {"create_table", "drop_table"}
    <2>1. op.name = 0 /\ op.table \in DOMAIN T \cup DOMAIN S
      BY <1>1, <1>2 DEF Differs, DiffersInTable
    <2> QED
      BY <1>2, <2>1 DEF Named, KindRank, ConstraintName, PrimaryKeyName
  <1>3. CASE op.kind \notin {"create_table", "drop_table"}
    <2>1. /\ op.table \in DOMAIN T \cap DOMAIN S
          /\ DiffersInTable(op, T[op.table], S[op.table])
      BY <1>1, <1>3 DEF Differs
    <2>2. op.kind \in DOMAIN KindRank
      BY <2>1 DEF DiffersInTable, KindRank
    <2> QED
      BY <2>1, <2>2 DEF Named, DiffersInTable, ConstraintName
  <1> QED
    BY <1>2, <1>3

LEMMA OperationsAreFinite ==
    ASSUME NEW T, NEW S, Named(T), Named(S)
    PROVE  IsFiniteSet(Operations(T, S))
  <1> DEFINE ops == Operations(T, S)
             kinds == DOMAIN KindRank
             keys == (kinds \X TableName) \X ConstraintName
             key == [op \in ops |-> <<<<op.kind, op.table>>, op.name>>]
  <1>1. IsFiniteSet(kinds)
    <2>1. kinds = {"add_column", "alter_column", "create_constraint", "create_index"}
                  \cup {"create_table", "drop_column", "drop_constraint", "drop_index", "drop_table"}
      BY DEF KindRank
    <2>2. IsFiniteSet({"add_column"} \cup {"alter_column"} \cup {"create_constraint"} \cup {"create_index"}
                      \cup {"create_table"} \cup {"drop_column"} \cup {"drop_constraint"}
                      \cup {"drop_index"} \cup {"drop_table"})
      BY FS_Singleton, FS_Union
    <2>3. kinds = {"add_column"} \cup {"alter_column"} \cup {"create_constraint"} \cup {"create_index"}
                      \cup {"create_table"} \cup {"drop_column"} \cup {"drop_constraint"}
                      \cup {"drop_index"} \cup {"drop_table"}
      BY <2>1
    <2> QED
      BY <2>2, <2>3
  <1>2. IsFiniteSet(ConstraintName)
    BY NameAssumption, FS_Singleton, FS_Union DEF ConstraintName
  <1>3. IsFiniteSet(keys)
    BY <1>1, <1>2, NameAssumption, FS_Product
  <1> HIDE DEF ops
  <1>4. key \in Injection(ops, keys)
    <2>1. \A op \in ops : key[op] \in keys
      BY NamesOfOperations DEF ops
    <2>2. \A op \in ops, other \in ops : key[op] = key[other] => op = other
      BY OperationsAreDistinct DEF ops
    <2>3. key \in [ops -> keys]
      BY <2>1
    <2> HIDE DEF key, keys
    <2> QED
      BY <2>2, <2>3 DEF Injection, IsInjective
  <1> HIDE DEF key, keys
  <1> QED
    BY <1>3, <1>4, FS_Injection DEF ops

\* Before is a strict total order of the operations.
LEMMA BeforeOrders ==
    ASSUME NEW T, NEW S, Named(T), Named(S)
    PROVE  LET ops == Operations(T, S)
           IN  Orders([op \in ops |-> {other \in ops : Before(other, op)}], ops)
  <1> DEFINE ops == Operations(T, S)
             before == [op \in ops |-> {other \in ops : Before(other, op)}]
  <1>1. \A op \in ops : /\ op.table \in Nat /\ op.name \in Nat /\ KindRank[op.kind] \in Nat
                        /\ op.kind \in DOMAIN KindRank
    <2> TAKE op \in ops
    <2>1. op.kind \in DOMAIN KindRank /\ op.table \in TableName /\ op.name \in ConstraintName
      BY NamesOfOperations
    <2>2. \A kind \in DOMAIN KindRank : KindRank[kind] \in Nat
      BY DEF KindRank
    <2>3. TableName \subseteq Nat /\ ConstraintName \subseteq Nat
      BY NameAssumption DEF ConstraintName, PrimaryKeyName
    <2>4. KindRank[op.kind] \in Nat
      BY <2>1, <2>2
    <2> HIDE DEF ops
    <2> QED
      BY <2>1, <2>3, <2>4
  <1>2. \A k \in DOMAIN KindRank, l \in DOMAIN KindRank : KindRank[k] = KindRank[l] => k = l
    BY DEF KindRank
  <1>3. \A x \in ops, y \in ops : x.kind = y.kind /\ x.table = y.table /\ x.name = y.name => x = y
    BY OperationsAreDistinct
  <1> HIDE DEF ops
  <1>4. \A x \in ops : x \notin before[x]
    BY <1>1 DEF Before
  <1>5. \A x \in ops, y \in ops : x \in before[y] => before[x] \subseteq before[y]
    <2> SUFFICES ASSUME NEW x \in ops, NEW y \in ops, NEW z \in ops, Before(x, y), Before(z, x)
                 PROVE  Before(z, y)
      OBVIOUS
    <2>1. /\ x.table \in Nat /\ x.name \in Nat /\ KindRank[x.kind] \in Nat
          /\ y.table \in Nat /\ y.name \in Nat /\ KindRank[y.kind] \in Nat
          /\ z.table \in Nat /\ z.name \in Nat /\ KindRank[z.kind] \in Nat
      BY <1>1
    <2>2. z.table <= x.table /\ x.table <= y.table
      BY <2>1 DEF Before
    <2>3. CASE z.table < y.table
      BY <2>3 DEF Before
    <2>4. CASE z.table = y.table
      <3>1. z.table = x.table /\ x.table = y.table
        BY <2>1, <2>2, <2>4
      <3>2. \/ KindRank[z.kind] < KindRank[x.kind]
            \/ z.kind = x.kind /\ z.name < x.name
        BY <2>1, <3>1 DEF Before
      <3>3. \/ KindRank[x.kind] < KindRank[y.kind]
            \/ x.kind = y.kind /\ x.name < y.name
        BY <2>1, <3>1 DEF Before
      <3>4. \/ KindRank[z.kind] < KindRank[y.kind]
            \/ z.kind = y.kind /\ z.name < y.name
        BY <2>1, <3>2, <3>3
      <3> QED
        BY <2>4, <3>4 DEF Before
    <2> QED
      BY <2>1, <2>2, <2>3, <2>4
  <1>6. \A x \in ops, y \in ops : x = y \/ x \in before[y] \/ y \in before[x]
    <2> SUFFICES ASSUME NEW x \in ops, NEW y \in ops, ~ Before(x, y), ~ Before(y, x)
                 PROVE  x = y
      OBVIOUS
    <2>1. x.table = y.table
      BY <1>1 DEF Before
    <2>2. KindRank[x.kind] = KindRank[y.kind]
      BY <1>1, <2>1 DEF Before
    <2>3. x.kind = y.kind
      BY <1>1, <1>2, <2>2
    <2>4. x.name = y.name
      BY <1>1, <2>1, <2>3 DEF Before
    <2> QED
      BY <1>3, <2>1, <2>3, <2>4
  <1>7. before \in [ops -> SUBSET ops]
    OBVIOUS
  <1> HIDE DEF before
  <1>8. Orders(before, ops)
    BY <1>4, <1>5, <1>6, <1>7 DEF Orders
  <1> QED
    BY <1>8 DEF before, ops

LEMMA CompareLists ==
    ASSUME NEW T, NEW S, Named(T), Named(S)
    PROVE  LET s == Compare(T, S)
           IN  /\ s \in Seq(Operations(T, S)) /\ Len(s) \in Nat /\ DOMAIN s = 1..Len(s)
               /\ \A n \in DOMAIN s : Differs(s[n], T, S)
               /\ \A op : Differs(op, T, S) => \E n \in DOMAIN s : s[n] = op
               /\ \A m \in DOMAIN s, n \in DOMAIN s : Before(s[m], s[n]) <=> m < n
               /\ s = <<>> <=> Operations(T, S) = {}
  <1> DEFINE ops == Operations(T, S)
             before == [op \in ops |-> {other \in ops : Before(other, op)}]
             s == Listed(before)
  <1>1. Compare(T, S) = s
    BY DEF Compare
  <1>2. IsFiniteSet(ops) /\ Orders(before, ops)
    BY OperationsAreFinite, BeforeOrders
  <1>3. \A op : op \in ops <=> Differs(op, T, S)
    BY OperationsDiffer
  <1> HIDE DEF before, ops
  <1>4. /\ Cardinality(ops) \in Nat /\ DOMAIN s = 1..Cardinality(ops) /\ Len(s) = Cardinality(ops)
        /\ s \in Seq(ops)
        /\ \A n \in DOMAIN s : s[n] \in ops
        /\ \A x \in ops : \E n \in DOMAIN s : s[n] = x
        /\ \A m \in DOMAIN s, n \in DOMAIN s : s[m] \in before[s[n]] <=> m < n
    BY <1>2, ListedInOrder
  <1> HIDE DEF s
  <1>5. \A m \in DOMAIN s, n \in DOMAIN s : s[m] \in before[s[n]] <=> Before(s[m], s[n])
    <2>1. \A x \in ops, y \in ops : x \in before[y] <=> Before(x, y)
      BY DEF before
    <2> QED
      BY <1>4, <2>1
  <1>6. s = <<>> <=> ops = {}
    <2>1. ops = {} <=> Cardinality(ops) = 0
      BY <1>2, FS_EmptySet
    <2>2. s = <<>> <=> Len(s) = 0
      BY <1>4
    <2> QED
      BY <1>4, <2>1, <2>2
  <1>7. Len(s) \in Nat /\ DOMAIN s = 1..Len(s)
    BY <1>4
  <1>8. /\ s \in Seq(ops) /\ Len(s) \in Nat /\ DOMAIN s = 1..Len(s)
        /\ \A n \in DOMAIN s : Differs(s[n], T, S)
        /\ \A op : Differs(op, T, S) => \E n \in DOMAIN s : s[n] = op
        /\ \A m \in DOMAIN s, n \in DOMAIN s : Before(s[m], s[n]) <=> m < n
        /\ s = <<>> <=> ops = {}
    BY <1>3, <1>4, <1>5, <1>6, <1>7
  <1> QED
    BY <1>1, <1>8 DEF ops

\* The inverse of a file goes through what can be undone from its end.
LEMMA InvertLists ==
    ASSUME NEW diff, Len(diff) \in Nat, DOMAIN diff = 1..Len(diff)
    PROVE  LET down == InvertDiff(diff)
               undone == {i \in DOMAIN diff : diff[i].kind # "drop_table"}
           IN  /\ Len(down) \in Nat /\ DOMAIN down = 1..Len(down)
               /\ \E back \in [DOMAIN down -> undone] :
                     /\ \A n \in DOMAIN down : down[n] = InverseOf(diff[back[n]])
                     /\ \A i \in undone : \E n \in DOMAIN down : back[n] = i
                     /\ \A m \in DOMAIN down, n \in DOMAIN down : back[n] < back[m] <=> m < n
  <1> DEFINE undone == {i \in DOMAIN diff : diff[i].kind # "drop_table"}
             before == [i \in undone |-> {j \in undone : j > i}]
             back == Listed(before)
             down == InvertDiff(diff)
  <1>1. IsFiniteSet(undone)
    <2>1. undone \in SUBSET (1..Len(diff))
      OBVIOUS
    <2>2. IsFiniteSet(1..Len(diff))
      BY FS_Interval
    <2> QED
      BY <2>1, <2>2, FS_Subset
  <1>2. Orders(before, undone)
    <2>1. undone \subseteq Nat
      OBVIOUS
    <2> HIDE DEF undone
    <2>2. before \in [undone -> SUBSET undone]
      OBVIOUS
    <2>3. \A x \in undone, y \in undone : x \in before[y] <=> x > y
      OBVIOUS
    <2>4. \A x \in undone, y \in undone : x \in before[y] => before[x] \subseteq before[y]
      <3> SUFFICES ASSUME NEW x \in undone, NEW y \in undone, NEW z \in undone, x > y, z > x
                   PROVE  z > y
        BY <2>2, <2>3
      <3> QED
        BY <2>1
    <2> HIDE DEF before
    <2> QED
      BY <2>1, <2>2, <2>3, <2>4 DEF Orders
  <1>3. /\ Cardinality(undone) \in Nat /\ DOMAIN back = 1..Cardinality(undone)
        /\ back \in Seq(undone) /\ Len(back) = Cardinality(undone)
        /\ \A n \in DOMAIN back : back[n] \in undone
        /\ \A x \in undone : \E n \in DOMAIN back : back[n] = x
        /\ \A m \in DOMAIN back, n \in DOMAIN back : back[m] \in before[back[n]] <=> m < n
    <2> HIDE DEF before, undone
    <2> QED
      BY <1>1, <1>2, ListedInOrder
  <1>4. down = [n \in DOMAIN back |-> InverseOf(diff[back[n]])]
    BY DEF InvertDiff
  <1> HIDE DEF back, down
  <1>5. Len(down) = Cardinality(undone) /\ DOMAIN down = DOMAIN back
    <2> DEFINE N == Cardinality(undone)
    <2>1. N \in Nat /\ DOMAIN back = 1..N
      BY <1>3
    <2> HIDE DEF N, undone
    <2>2. down = [n \in 1..N |-> InverseOf(diff[back[n]])]
      BY <1>4, <2>1
    <2> QED
      BY <2>1, <2>2 DEF N
  <1>6. \A m \in DOMAIN back, n \in DOMAIN back : back[n] < back[m] <=> m < n
    <2>1. \A x \in undone, y \in undone : x \in before[y] <=> y < x
      <3>1. undone \subseteq Nat
        OBVIOUS
      <3> HIDE DEF undone
      <3> QED
        BY <3>1
    <2> HIDE DEF before, undone
    <2> QED
      BY <1>3, <2>1
  <1>7. back \in [DOMAIN down -> undone]
    <2> HIDE DEF undone
    <2> QED
      BY <1>3, <1>5
  <1>8. /\ Len(down) \in Nat /\ DOMAIN down = 1..Len(down)
        /\ \A n \in DOMAIN down : down[n] = InverseOf(diff[back[n]])
        /\ \A i \in undone : \E n \in DOMAIN down : back[n] = i
        /\ \A m \in DOMAIN down, n \in DOMAIN down : back[n] < back[m] <=> m < n
    <2> HIDE DEF undone
    <2> QED
      BY <1>3, <1>4, <1>5, <1>6
  <1> HIDE DEF undone
  <1>9. \E f \in [DOMAIN down -> undone] :
            /\ \A n \in DOMAIN down : down[n] = InverseOf(diff[f[n]])
            /\ \A i \in undone : \E n \in DOMAIN down : f[n] = i
            /\ \A m \in DOMAIN down, n \in DOMAIN down : f[n] < f[m] <=> m < n
    BY <1>7, <1>8
  <1> QED
    BY <1>8, <1>9 DEF down, undone

\* An operation that the dialect can render.
GoodOp(op) ==
    /\ op.kind \in DOMAIN KindRank /\ op.table \in TableName
    /\ op.kind = "create_table" => ModelTable(op.def)
    /\ op.kind = "add_column" => op.name \in ColumnName /\ op.def \in Column
    /\ op.kind = "alter_column" => op.def.to \in Column /\ op.def.from \in Column
    /\ op.kind = "create_index" => op.name \in ColumnName
    /\ op.kind = "create_constraint" => op.name \in ConstraintName

GoodFile(file) ==
    /\ Len(file) \in Nat /\ DOMAIN file = 1..Len(file)
    /\ \A i \in DOMAIN file : GoodOp(file[i])

LEMMA InverseFields ==
    ASSUME NEW op, op = Operation(op.kind, op.table, op.name, op.def), op.kind \in DOMAIN InverseKind
    PROVE  LET inverse == InverseOf(op)
           IN  /\ inverse.kind = InverseKind[op.kind]
               /\ inverse.table = op.table /\ inverse.name = op.name
               /\ op.kind = "alter_column" => inverse.def = [to |-> op.def.from, from |-> op.def.to]
               /\ op.kind # "alter_column" => inverse.def = op.def
  <1>1. InverseOf(op) = [kind |-> InverseKind[op.kind], table |-> op.table, name |-> op.name,
                         def |-> IF op.kind = "alter_column"
                                 THEN [to |-> op.def.from, from |-> op.def.to] ELSE op.def]
    <2> DEFINE kind == InverseKind[op.kind]
               def == IF op.kind = "alter_column" THEN [to |-> op.def.from, from |-> op.def.to]
                                                  ELSE op.def
    <2>1. op = [kind |-> op.kind, table |-> op.table, name |-> op.name, def |-> op.def]
      BY DEF Operation
    <2>2. InverseOf(op) = [op EXCEPT !.kind = kind, !.def = def]
      BY <2>1 DEF InverseOf
    <2> HIDE DEF kind, def
    <2>3. InverseOf(op) = [kind |-> kind, table |-> op.table, name |-> op.name, def |-> def]
      BY <2>1, <2>2
    <2> QED
      BY <2>3 DEF kind, def
  <1> QED
    BY <1>1

LEMMA DifferencesAreGood ==
    ASSUME NEW T, NEW S, GoodSchema(T), GoodSchema(S), NEW op, Differs(op, T, S)
    PROVE  GoodOp(op) /\ (op.kind # "drop_table" => GoodOp(InverseOf(op)))
  <1>1. op \in Operations(T, S) /\ Named(T) /\ Named(S)
    BY OperationsDiffer, GoodSchemasAreNamed
  <1>2. /\ op.kind \in DOMAIN KindRank /\ op.table \in TableName /\ op.name \in ConstraintName
        /\ op.kind \in {"add_column", "alter_column", "drop_column", "create_index", "drop_index"} =>
               op.name \in ColumnName
    BY <1>1, NamesOfOperations
  <1>3. op.kind \in {"create_table", "drop_table"} => ModelTable(op.def)
    BY DEF Differs, DiffersInTable, GoodSchema
  <1>4. /\ op.kind \in {"add_column", "drop_column"} => op.def \in Column
        /\ op.kind = "alter_column" => op.def.to \in Column /\ op.def.from \in Column
    <2> SUFFICES ASSUME op.kind \in {"add_column", "drop_column", "alter_column"}
                 PROVE  /\ op.kind # "alter_column" => op.def \in Column
                        /\ op.kind = "alter_column" => op.def.to \in Column /\ op.def.from \in Column
      OBVIOUS
    <2>1. op.table \in DOMAIN T /\ op.table \in DOMAIN S /\ DiffersInTable(op, T[op.table], S[op.table])
      BY DEF Differs
    <2>2. /\ \A c \in DOMAIN T[op.table].columns : T[op.table].columns[c] \in Column
          /\ \A c \in DOMAIN S[op.table].columns : S[op.table].columns[c] \in Column
      BY <2>1 DEF GoodSchema, ModelTable, GoodTable
    <2> QED
      BY <2>1, <2>2 DEF DiffersInTable
  <1>5. GoodOp(op)
    BY <1>2, <1>3, <1>4 DEF GoodOp
  <1>6. ASSUME op.kind # "drop_table" PROVE GoodOp(InverseOf(op))
    <2> DEFINE inverse == InverseOf(op)
    <2>1. op.kind \in DOMAIN InverseKind
      BY <1>2, <1>6 DEF KindRank, InverseKind
    <2>2. /\ inverse.kind = InverseKind[op.kind]
          /\ inverse.table = op.table /\ inverse.name = op.name
          /\ op.kind = "alter_column" => inverse.def = [to |-> op.def.from, from |-> op.def.to]
          /\ op.kind # "alter_column" => inverse.def = op.def
      BY <2>1, InverseFields DEF Differs
    <2> HIDE DEF inverse
    <2>3. /\ inverse.kind \in DOMAIN KindRank /\ inverse.kind # "create_table"
          /\ inverse.kind = "add_column" <=> op.kind = "drop_column"
          /\ inverse.kind = "alter_column" <=> op.kind = "alter_column"
          /\ inverse.kind = "create_index" <=> op.kind = "drop_index"
          /\ inverse.kind = "create_constraint" => op.kind = "drop_constraint"
      BY <2>1, <2>2 DEF InverseKind, KindRank
    <2>4. GoodOp(inverse)
      BY <1>2, <1>4, <2>2, <2>3 DEF GoodOp
    <2> QED
      BY <2>4 DEF inverse
  <1> QED
    BY <1>5, <1>6

LEMMA ComparedIsGood ==
    ASSUME NEW T, NEW S, GoodSchema(T), GoodSchema(S)
    PROVE  GoodFile(Compare(T, S)) /\ GoodFile(InvertDiff(Compare(T, S)))
  <1> DEFINE up == Compare(T, S)
             down == InvertDiff(up)
             undone == {i \in DOMAIN up : up[i].kind # "drop_table"}
  <1>1. /\ Len(up) \in Nat /\ DOMAIN up = 1..Len(up)
        /\ \A n \in DOMAIN up : Differs(up[n], T, S)
    BY GoodSchemasAreNamed, CompareLists
  <1> HIDE DEF up
  <1>2. /\ Len(down) \in Nat /\ DOMAIN down = 1..Len(down)
        /\ \E back \in [DOMAIN down -> undone] :
               \A n \in DOMAIN down : down[n] = InverseOf(up[back[n]])
    BY <1>1, InvertLists
  <1>3. GoodFile(up)
    BY <1>1, DifferencesAreGood DEF GoodFile
  <1> HIDE DEF down
  <1>4. \A n \in DOMAIN down : GoodOp(down[n])
    BY <1>1, <1>2, DifferencesAreGood
  <1>5. GoodFile(down)
    BY <1>2, <1>4 DEF GoodFile
  <1> QED
    BY <1>3, <1>5 DEF down, up

-----------------------------------------------------------------------------
\* What the statements do to databases

LEMMA ExtendedIs ==
    ASSUME NEW f, NEW x, NEW v
    PROVE  LET g == Extended(f, x, v)
           IN  /\ IsFunction(g) /\ DOMAIN g = DOMAIN f \cup {x}
               /\ \A y \in DOMAIN f : g[y] = f[y]
               /\ x \notin DOMAIN f => g[x] = v
  BY DEF Extended, IsFunction

LEMMA RestrictIs ==
    ASSUME NEW f, NEW D
    PROVE  LET g == Restrict(f, D)
           IN  IsFunction(g) /\ DOMAIN g = D /\ \A y \in D : g[y] = f[y]
  BY DEF Restrict, IsFunction

LEMMA KeyedIs ==
    ASSUME NEW columns, NEW key
    PROVE  LET g == Keyed(columns, key)
           IN  /\ IsFunction(g) /\ DOMAIN g = DOMAIN columns
               /\ \A c \in DOMAIN columns :
                      g[c] = IF c \in key THEN [columns[c] EXCEPT !.null = FALSE] ELSE columns[c]
  BY DEF Keyed, IsFunction

LEMMA DefinedIs ==
    ASSUME NEW column \in Column
    PROVE  /\ Defined(column) \in DbColumn
           /\ Defined(column).type = RenderType(column.type)
           /\ Defined(column).null = ((column.null \/ column.pk) /\ ~ column.identity)
           /\ Defined(column).default = column.default
           /\ Defined(column).identity = column.identity
  <1> DEFINE null == (column.null \/ column.pk) /\ ~ column.identity
             type == RenderType(column.type)
  <1>1. Defined(column) = [type |-> type, null |-> null, default |-> column.default,
                           identity |-> column.identity]
    BY DEF Defined
  <1>2. null \in BOOLEAN /\ column.default \in {"none", "1"} /\ column.identity \in BOOLEAN
    BY DEF Column
  <1>3. type \in Type \ {"date"}
    BY DEF Column, RenderType, Type
  <1> HIDE DEF null, type
  <1>4. Defined(column) \in DbColumn
    BY <1>1, <1>2, <1>3 DEF DbColumn
  <1>5. /\ Defined(column).null = null /\ Defined(column).type = type
        /\ Defined(column).default = column.default /\ Defined(column).identity = column.identity
    BY <1>1
  <1> QED
    BY <1>4, <1>5 DEF null, type

LEMMA KeyedColumns ==
    ASSUME NEW column \in DbColumn
    PROVE  LET keyed == [column EXCEPT !.null = FALSE]
           IN  /\ keyed \in DbColumn
               /\ keyed.type = column.type /\ keyed.null = FALSE
               /\ keyed.default = column.default /\ keyed.identity = column.identity
  BY DEF DbColumn

LEMMA AlteredIs ==
    ASSUME NEW column \in DbColumn, NEW from \in Column, NEW to \in Column
    PROVE  LET altered == Altered(column, from, to)
           IN  /\ altered \in DbColumn
               /\ altered.type = IF to.type # from.type THEN RenderType(to.type) ELSE column.type
               /\ altered.null = IF to.null # from.null THEN to.null ELSE column.null
               /\ altered.default = IF to.default # from.default THEN to.default ELSE column.default
               /\ altered.identity = column.identity
  <1> DEFINE type == IF to.type # from.type THEN RenderType(to.type) ELSE column.type
             null == IF to.null # from.null THEN to.null ELSE column.null
             default == IF to.default # from.default THEN to.default ELSE column.default
             altered == Altered(column, from, to)
  <1>1. column = [type |-> column.type, null |-> column.null, default |-> column.default,
                  identity |-> column.identity]
    BY DEF DbColumn
  <1>2. altered = [type |-> type, null |-> null, default |-> default, identity |-> column.identity]
    <2>1. altered = [column EXCEPT !.type = type, !.null = null, !.default = default]
      BY <1>1 DEF Altered
    <2> HIDE DEF altered, type, null, default
    <2> QED
      BY <1>1, <2>1
  <1>3. RenderType(to.type) \in Type \ {"date"}
    BY DEF Column, RenderType, Type
  <1>4. type \in Type \ {"date"}
    BY <1>3 DEF DbColumn
  <1>5. null \in BOOLEAN /\ default \in {"none", "1"} /\ column.identity \in BOOLEAN
    BY DEF DbColumn, Column
  <1> HIDE DEF altered, type, null, default
  <1>6. altered \in DbColumn
    BY <1>2, <1>4, <1>5 DEF DbColumn
  <1>7. /\ altered.type = type /\ altered.null = null /\ altered.default = default
        /\ altered.identity = column.identity
    BY <1>2
  <1> QED
    BY <1>6, <1>7 DEF altered, type, null, default

LEMMA AlteredTableIs ==
    ASSUME NEW a, a = [columns |-> a.columns, indexes |-> a.indexes, constraints |-> a.constraints],
           NEW op
    PROVE  LET b == AlteredTable(a, op)
           IN  /\ op.kind = "add_column" =>
                      b = [columns |-> Extended(a.columns, op.name, Defined(op.def)),
                           indexes |-> a.indexes, constraints |-> a.constraints]
               /\ op.kind = "drop_column" => b = WithoutColumn(a, op.name)
               /\ op.kind = "alter_column" =>
                      b = [columns |-> [c \in DOMAIN a.columns |->
                               IF c = op.name THEN Altered(a.columns[c], op.def.from, op.def.to)
                                              ELSE a.columns[c]],
                           indexes |-> a.indexes, constraints |-> a.constraints]
               /\ op.kind = "create_index" =>
                      b = [columns |-> a.columns, indexes |-> Extended(a.indexes, op.name, op.def),
                           constraints |-> a.constraints]
               /\ op.kind = "drop_index" =>
                      b = [columns |-> a.columns,
                           indexes |-> Restrict(a.indexes, DOMAIN a.indexes \ {op.name}),
                           constraints |-> a.constraints]
               /\ op.kind = "create_constraint" =>
                      b = [columns |-> Keyed(a.columns, IF op.name = PrimaryKeyName
                                                        THEN op.def.columns ELSE {}),
                           indexes |-> a.indexes,
                           constraints |-> Extended(a.constraints, op.name, op.def)]
               /\ op.kind = "drop_constraint" =>
                      b = [columns |-> a.columns, indexes |-> a.indexes,
                           constraints |-> Restrict(a.constraints, DOMAIN a.constraints \ {op.name})]
  <1> DEFINE added == Extended(a.columns, op.name, Defined(op.def))
             altered == [c \in DOMAIN a.columns |->
                            IF c = op.name THEN Altered(a.columns[c], op.def.from, op.def.to)
                                           ELSE a.columns[c]]
             indexed == Extended(a.indexes, op.name, op.def)
             unindexed == Restrict(a.indexes, DOMAIN a.indexes \ {op.name})
             keyed == Keyed(a.columns, IF op.name = PrimaryKeyName THEN op.def.columns ELSE {})
             constrained == Extended(a.constraints, op.name, op.def)
             unconstrained == Restrict(a.constraints, DOMAIN a.constraints \ {op.name})
             b == AlteredTable(a, op)
  <1>1. /\ op.kind = "add_column" => b = [a EXCEPT !.columns = added]
        /\ op.kind = "drop_column" => b = WithoutColumn(a, op.name)
        /\ op.kind = "alter_column" => b = [a EXCEPT !.columns = altered]
        /\ op.kind = "create_index" => b = [a EXCEPT !.indexes = indexed]
        /\ op.kind = "drop_index" => b = [a EXCEPT !.indexes = unindexed]
        /\ op.kind = "create_constraint" =>
               b = [a EXCEPT !.constraints = constrained, !.columns = keyed]
        /\ op.kind = "drop_constraint" => b = [a EXCEPT !.constraints = unconstrained]
    BY DEF AlteredTable
  <1> HIDE DEF b, added, altered, indexed, unindexed, keyed, constrained, unconstrained
  <1>2. /\ op.kind = "add_column" =>
               b = [columns |-> added, indexes |-> a.indexes, constraints |-> a.constraints]
        /\ op.kind = "drop_column" => b = WithoutColumn(a, op.name)
        /\ op.kind = "alter_column" =>
               b = [columns |-> altered, indexes |-> a.indexes, constraints |-> a.constraints]
        /\ op.kind = "create_index" =>
               b = [columns |-> a.columns, indexes |-> indexed, constraints |-> a.constraints]
        /\ op.kind = "drop_index" =>
               b = [columns |-> a.columns, indexes |-> unindexed, constraints |-> a.constraints]
        /\ op.kind = "create_constraint" =>
               b = [columns |-> keyed, indexes |-> a.indexes, constraints |-> constrained]
        /\ op.kind = "drop_constraint" =>
               b = [columns |-> a.columns, indexes |-> a.indexes, constraints |-> unconstrained]
    BY <1>1
  <1> QED
    BY <1>2 DEF b, added, altered, indexed, unindexed, keyed, constrained, unconstrained

LEMMA WithoutColumnIs ==
    ASSUME NEW a, NEW c
    PROVE  LET b == WithoutColumn(a, c)
           IN  /\ b = [columns |-> b.columns, indexes |-> b.indexes, constraints |-> b.constraints]
               /\ IsFunction(b.columns) /\ DOMAIN b.columns = DOMAIN a.columns \ {c}
               /\ \A d \in DOMAIN b.columns : b.columns[d] = a.columns[d]
               /\ IsFunction(b.indexes)
               /\ DOMAIN b.indexes = {n \in DOMAIN a.indexes : c \notin a.indexes[n].columns}
               /\ \A n \in DOMAIN b.indexes : b.indexes[n] = a.indexes[n]
               /\ IsFunction(b.constraints)
               /\ DOMAIN b.constraints =
                      {k \in DOMAIN a.constraints : c \notin a.constraints[k].columns}
               /\ \A k \in DOMAIN b.constraints : b.constraints[k] = a.constraints[k]
  <1> DEFINE columns == Restrict(a.columns, DOMAIN a.columns \ {c})
             keptIndexes == {n \in DOMAIN a.indexes : c \notin a.indexes[n].columns}
             indexes == Restrict(a.indexes, keptIndexes)
             keptConstraints == {k \in DOMAIN a.constraints : c \notin a.constraints[k].columns}
             constraints == Restrict(a.constraints, keptConstraints)
             b == WithoutColumn(a, c)
  <1>1. b = [columns |-> columns, indexes |-> indexes, constraints |-> constraints]
    BY DEF WithoutColumn
  <1>2. /\ IsFunction(columns) /\ DOMAIN columns = DOMAIN a.columns \ {c}
        /\ \A d \in DOMAIN columns : columns[d] = a.columns[d]
        /\ IsFunction(indexes) /\ DOMAIN indexes = keptIndexes
        /\ \A n \in DOMAIN indexes : indexes[n] = a.indexes[n]
        /\ IsFunction(constraints) /\ DOMAIN constraints = keptConstraints
        /\ \A k \in DOMAIN constraints : constraints[k] = a.constraints[k]
    BY RestrictIs
  <1> HIDE DEF b, columns, indexes, constraints, keptIndexes, keptConstraints
  <1>3. b.columns = columns /\ b.indexes = indexes /\ b.constraints = constraints
    BY <1>1
  <1>4. b = [columns |-> b.columns, indexes |-> b.indexes, constraints |-> b.constraints]
    BY <1>1, <1>3
  <1> QED
    BY <1>2, <1>3, <1>4 DEF b, keptIndexes, keptConstraints

LEMMA WithoutColumnIsGood ==
    ASSUME NEW a, GoodTable(a, DbColumn), NEW c
    PROVE  GoodTable(WithoutColumn(a, c), DbColumn)
  <1> DEFINE b == WithoutColumn(a, c)
  <1>1. /\ b = [columns |-> b.columns, indexes |-> b.indexes, constraints |-> b.constraints]
        /\ IsFunction(b.columns) /\ DOMAIN b.columns = DOMAIN a.columns \ {c}
        /\ \A d \in DOMAIN b.columns : b.columns[d] = a.columns[d]
        /\ IsFunction(b.indexes)
        /\ DOMAIN b.indexes = {n \in DOMAIN a.indexes : c \notin a.indexes[n].columns}
        /\ \A n \in DOMAIN b.indexes : b.indexes[n] = a.indexes[n]
        /\ IsFunction(b.constraints)
        /\ DOMAIN b.constraints = {k \in DOMAIN a.constraints : c \notin a.constraints[k].columns}
        /\ \A k \in DOMAIN b.constraints : b.constraints[k] = a.constraints[k]
    BY WithoutColumnIs
  <1> HIDE DEF b
  <1>2. /\ DOMAIN a.columns \subseteq ColumnName /\ \A d \in DOMAIN a.columns : a.columns[d] \in DbColumn
        /\ DOMAIN a.indexes \subseteq ColumnName
        /\ \A n \in DOMAIN a.indexes : a.indexes[n].columns \subseteq DOMAIN a.columns
        /\ DOMAIN a.constraints \subseteq ConstraintName
        /\ \A k \in DOMAIN a.constraints : a.constraints[k].columns \subseteq DOMAIN a.columns
    BY DEF GoodTable, PartsOf
  <1>3. DOMAIN b.columns \subseteq ColumnName /\ \A d \in DOMAIN b.columns : b.columns[d] \in DbColumn
    BY <1>1, <1>2
  <1>4. PartsOf(b.indexes, ColumnName, DOMAIN b.columns)
    <2>1. \A n \in DOMAIN b.indexes : b.indexes[n].columns \subseteq DOMAIN a.columns \ {c}
      BY <1>1, <1>2
    <2> QED
      BY <1>1, <1>2, <2>1 DEF PartsOf
  <1>5. PartsOf(b.constraints, ConstraintName, DOMAIN b.columns)
    <2>1. \A k \in DOMAIN b.constraints : b.constraints[k].columns \subseteq DOMAIN a.columns \ {c}
      BY <1>1, <1>2
    <2> QED
      BY <1>1, <1>2, <2>1 DEF PartsOf
  <1>6. GoodTable(b, DbColumn)
    BY <1>1, <1>3, <1>4, <1>5 DEF GoodTable
  <1> QED
    BY <1>6 DEF b

LEMMA CreatedIsGood ==
    ASSUME NEW a, ModelTable(a)
    PROVE  LET b == Created(a)
               key == IF PrimaryKeyName \in DOMAIN a.constraints
                      THEN a.constraints[PrimaryKeyName].columns ELSE {}
           IN  /\ GoodTable(b, DbColumn)
               /\ DOMAIN b.columns = DOMAIN a.columns
               /\ \A c \in DOMAIN a.columns :
                      /\ b.columns[c].type = RenderType(a.columns[c].type)
                      /\ b.columns[c].default = a.columns[c].default
                      /\ b.columns[c].null = (/\ c \notin key
                                              /\ a.columns[c].null \/ a.columns[c].pk
                                              /\ ~ a.columns[c].identity)
               /\ b.constraints = a.constraints
  <1> DEFINE b == Created(a)
             key == IF PrimaryKeyName \in DOMAIN a.constraints
                    THEN a.constraints[PrimaryKeyName].columns ELSE {}
             defined == [c \in DOMAIN a.columns |-> Defined(a.columns[c])]
             columns == Keyed(defined, key)
             none == [n \in {} |-> {}]
  <1>1. b = [columns |-> columns, indexes |-> none, constraints |-> a.constraints]
    BY DEF Created
  <1>2. \A c \in DOMAIN a.columns : a.columns[c] \in Column
    BY DEF ModelTable, GoodTable
  <1>3. /\ IsFunction(columns) /\ DOMAIN columns = DOMAIN a.columns
        /\ \A c \in DOMAIN a.columns :
               columns[c] = IF c \in key THEN [defined[c] EXCEPT !.null = FALSE] ELSE defined[c]
    <2>1. DOMAIN defined = DOMAIN a.columns
      OBVIOUS
    <2> HIDE DEF defined, key
    <2> QED
      BY <2>1, KeyedIs
  <1>4. \A c \in DOMAIN a.columns : defined[c] = Defined(a.columns[c])
    OBVIOUS
  <1>5. IsFunction(none) /\ DOMAIN none = {}
    BY DEF IsFunction
  <1> HIDE DEF b, key, defined, columns, none
  <1>6. ASSUME NEW c \in DOMAIN a.columns
        PROVE  /\ columns[c] \in DbColumn
               /\ columns[c].type = RenderType(a.columns[c].type)
               /\ columns[c].default = a.columns[c].default
               /\ columns[c].null = (/\ c \notin key
                                     /\ a.columns[c].null \/ a.columns[c].pk
                                     /\ ~ a.columns[c].identity)
    <2>1. /\ defined[c] \in DbColumn
          /\ defined[c].type = RenderType(a.columns[c].type)
          /\ defined[c].null = ((a.columns[c].null \/ a.columns[c].pk) /\ ~ a.columns[c].identity)
          /\ defined[c].default = a.columns[c].default
      BY <1>2, <1>4, DefinedIs
    <2>2. CASE c \in key
      <3>1. columns[c] = [defined[c] EXCEPT !.null = FALSE]
        BY <1>3, <2>2
      <3>2. /\ columns[c] \in DbColumn /\ columns[c].type = defined[c].type
            /\ columns[c].null = FALSE /\ columns[c].default = defined[c].default
        BY <2>1, <3>1, KeyedColumns
      <3> QED
        BY <2>1, <2>2, <3>2
    <2>3. CASE c \notin key
      <3>1. columns[c] = defined[c]
        BY <1>3, <2>3
      <3> QED
        BY <2>1, <2>3, <3>1
    <2> QED
      BY <2>2, <2>3
  <1>7. b.columns = columns /\ b.indexes = none /\ b.constraints = a.constraints
    BY <1>1
  <1>8. b = [columns |-> b.columns, indexes |-> b.indexes, constraints |-> b.constraints]
    BY <1>1, <1>7
  <1>9. PartsOf(b.indexes, ColumnName, DOMAIN b.columns)
    BY <1>5, <1>7 DEF PartsOf
  <1>10. PartsOf(b.constraints, ConstraintName, DOMAIN b.columns)
    BY <1>3, <1>7 DEF PartsOf, ModelTable, GoodTable
  <1>11. GoodTable(b, DbColumn)
    <2>1. DOMAIN a.columns \subseteq ColumnName
      BY DEF ModelTable, GoodTable
    <2>2. \A c \in DOMAIN b.columns : b.columns[c] \in DbColumn
      BY <1>3, <1>6, <1>7
    <2> QED
      BY <1>3, <1>7, <1>8, <1>9, <1>10, <2>1, <2>2 DEF GoodTable
  <1>12. /\ DOMAIN b.columns = DOMAIN a.columns
         /\ \A c \in DOMAIN a.columns :
                /\ b.columns[c].type = RenderType(a.columns[c].type)
                /\ b.columns[c].default = a.columns[c].default
                /\ b.columns[c].null = (/\ c \notin key
                                        /\ a.columns[c].null \/ a.columns[c].pk
                                        /\ ~ a.columns[c].identity)
    BY <1>3, <1>6, <1>7
  <1> QED
    BY <1>7, <1>11, <1>12 DEF b, key

LEMMA AlteredTableIsGood ==
    ASSUME NEW a, GoodTable(a, DbColumn), NEW op, GoodOp(op),
           op.kind \notin {"create_table", "drop_table"},
           op.kind \in {"create_constraint", "create_index"} => op.def.columns \subseteq DOMAIN a.columns
    PROVE  GoodTable(AlteredTable(a, op), DbColumn)
  <1> DEFINE b == AlteredTable(a, op)
  <1>1. /\ a = [columns |-> a.columns, indexes |-> a.indexes, constraints |-> a.constraints]
        /\ IsFunction(a.columns) /\ DOMAIN a.columns \subseteq ColumnName
        /\ \A c \in DOMAIN a.columns : a.columns[c] \in DbColumn
        /\ PartsOf(a.indexes, ColumnName, DOMAIN a.columns)
        /\ PartsOf(a.constraints, ConstraintName, DOMAIN a.columns)
    BY DEF GoodTable
  <1>2. /\ op.kind = "add_column" =>
               b = [columns |-> Extended(a.columns, op.name, Defined(op.def)),
                    indexes |-> a.indexes, constraints |-> a.constraints]
        /\ op.kind = "drop_column" => b = WithoutColumn(a, op.name)
        /\ op.kind = "alter_column" =>
               b = [columns |-> [c \in DOMAIN a.columns |->
                        IF c = op.name THEN Altered(a.columns[c], op.def.from, op.def.to)
                                       ELSE a.columns[c]],
                    indexes |-> a.indexes, constraints |-> a.constraints]
        /\ op.kind = "create_index" =>
               b = [columns |-> a.columns, indexes |-> Extended(a.indexes, op.name, op.def),
                    constraints |-> a.constraints]
        /\ op.kind = "drop_index" =>
               b = [columns |-> a.columns,
                    indexes |-> Restrict(a.indexes, DOMAIN a.indexes \ {op.name}),
                    constraints |-> a.constraints]
        /\ op.kind = "create_constraint" =>
               b = [columns |-> Keyed(a.columns, IF op.name = PrimaryKeyName
                                                 THEN op.def.columns ELSE {}),
                    indexes |-> a.indexes,
                    constraints |-> Extended(a.constraints, op.name, op.def)]
        /\ op.kind = "drop_constraint" =>
               b = [columns |-> a.columns, indexes |-> a.indexes,
                    constraints |-> Restrict(a.constraints, DOMAIN a.constraints \ {op.name})]
    BY <1>1, AlteredTableIs
  <1> HIDE DEF b
  <1>3. CASE op.kind = "drop_column"
    <2>1. b = WithoutColumn(a, op.name)
      BY <1>2, <1>3
    <2> QED
      BY <2>1, WithoutColumnIsGood DEF b
  <1>4. CASE op.kind = "add_column"
    <2> DEFINE columns == Extended(a.columns, op.name, Defined(op.def))
    <2>1. b = [columns |-> columns, indexes |-> a.indexes, constraints |-> a.constraints]
      BY <1>2, <1>4
    <2>2. /\ IsFunction(columns) /\ DOMAIN columns = DOMAIN a.columns \cup {op.name}
          /\ \A c \in DOMAIN a.columns : columns[c] = a.columns[c]
          /\ op.name \notin DOMAIN a.columns => columns[op.name] = Defined(op.def)
      BY ExtendedIs
    <2>3. op.name \in ColumnName /\ Defined(op.def) \in DbColumn
      BY <1>4, DefinedIs DEF GoodOp
    <2> HIDE DEF columns
    <2>4. DOMAIN columns \subseteq ColumnName /\ \A c \in DOMAIN columns : columns[c] \in DbColumn
      BY <1>1, <2>2, <2>3
    <2>5. /\ PartsOf(a.indexes, ColumnName, DOMAIN columns)
          /\ PartsOf(a.constraints, ConstraintName, DOMAIN columns)
      BY <1>1, <2>2 DEF PartsOf
    <2> QED
      BY <2>1, <2>2, <2>4, <2>5 DEF GoodTable, b
  <1>5. CASE op.kind = "alter_column"
    <2> DEFINE columns == [c \in DOMAIN a.columns |->
                              IF c = op.name THEN Altered(a.columns[c], op.def.from, op.def.to)
                                             ELSE a.columns[c]]
    <2>1. b = [columns |-> columns, indexes |-> a.indexes, constraints |-> a.constraints]
      BY <1>2, <1>5
    <2>2. IsFunction(columns) /\ DOMAIN columns = DOMAIN a.columns
      BY DEF IsFunction
    <2>3. op.def.from \in Column /\ op.def.to \in Column
      BY <1>5 DEF GoodOp
    <2>4. \A c \in DOMAIN a.columns : Altered(a.columns[c], op.def.from, op.def.to) \in DbColumn
      BY <1>1, <2>3, AlteredIs
    <2>5. \A c \in DOMAIN columns : columns[c] \in DbColumn
      BY <1>1, <2>4
    <2> HIDE DEF columns
    <2> QED
      BY <1>1, <2>1, <2>2, <2>5 DEF GoodTable, b
  <1>6. CASE op.kind \in {"create_index", "drop_index"}
    <2> DEFINE indexes == b.indexes
    <2>1. b = [columns |-> a.columns, indexes |-> indexes, constraints |-> a.constraints]
      BY <1>2, <1>6
    <2>2. PartsOf(indexes, ColumnName, DOMAIN a.columns)
      <3>1. CASE op.kind = "create_index"
        <4> DEFINE extended == Extended(a.indexes, op.name, op.def)
        <4>1. indexes = extended
          BY <1>2, <3>1
        <4>2. /\ IsFunction(extended) /\ DOMAIN extended = DOMAIN a.indexes \cup {op.name}
              /\ \A c \in DOMAIN a.indexes : extended[c] = a.indexes[c]
              /\ op.name \notin DOMAIN a.indexes => extended[op.name] = op.def
          BY ExtendedIs
        <4>3. op.name \in ColumnName /\ op.def.columns \subseteq DOMAIN a.columns
          BY <3>1 DEF GoodOp
        <4> HIDE DEF indexes, extended
        <4> QED
          BY <1>1, <4>1, <4>2, <4>3 DEF PartsOf
      <3>2. CASE op.kind = "drop_index"
        <4>1. indexes = Restrict(a.indexes, DOMAIN a.indexes \ {op.name})
          BY <1>2, <3>2
        <4>2. /\ IsFunction(indexes) /\ DOMAIN indexes = DOMAIN a.indexes \ {op.name}
              /\ \A c \in DOMAIN a.indexes \ {op.name} : indexes[c] = a.indexes[c]
          BY <4>1, RestrictIs
        <4> HIDE DEF indexes
        <4> QED
          BY <1>1, <4>2 DEF PartsOf
      <3> QED
        BY <1>6, <3>1, <3>2
    <2> HIDE DEF indexes
    <2> QED
      BY <1>1, <2>1, <2>2 DEF GoodTable, b
  <1>7. CASE op.kind = "create_constraint"
    <2> DEFINE key == IF op.name = PrimaryKeyName THEN op.def.columns ELSE {}
               columns == Keyed(a.columns, key)
               constraints == Extended(a.constraints, op.name, op.def)
    <2>1. b = [columns |-> columns, indexes |-> a.indexes, constraints |-> constraints]
      BY <1>2, <1>7
    <2>2. /\ IsFunction(columns) /\ DOMAIN columns = DOMAIN a.columns
          /\ \A c \in DOMAIN a.columns :
                 columns[c] = IF c \in key THEN [a.columns[c] EXCEPT !.null = FALSE] ELSE a.columns[c]
      BY KeyedIs
    <2>3. /\ IsFunction(constraints) /\ DOMAIN constraints = DOMAIN a.constraints \cup {op.name}
          /\ \A c \in DOMAIN a.constraints : constraints[c] = a.constraints[c]
          /\ op.name \notin DOMAIN a.constraints => constraints[op.name] = op.def
      BY ExtendedIs
    <2>4. op.name \in ConstraintName /\ op.def.columns \subseteq DOMAIN a.columns
      BY <1>7 DEF GoodOp
    <2> HIDE DEF key, columns, constraints
    <2>5. \A c \in DOMAIN columns : columns[c] \in DbColumn
      BY <1>1, <2>2, KeyedColumns
    <2>6. PartsOf(constraints, ConstraintName, DOMAIN a.columns)
      BY <1>1, <2>3, <2>4 DEF PartsOf
    <2> QED
      BY <1>1, <2>1, <2>2, <2>5, <2>6 DEF GoodTable, b
  <1>8. CASE op.kind = "drop_constraint"
    <2> DEFINE constraints == Restrict(a.constraints, DOMAIN a.constraints \ {op.name})
    <2>1. b = [columns |-> a.columns, indexes |-> a.indexes, constraints |-> constraints]
      BY <1>2, <1>8
    <2>2. /\ IsFunction(constraints) /\ DOMAIN constraints = DOMAIN a.constraints \ {op.name}
          /\ \A c \in DOMAIN a.constraints \ {op.name} : constraints[c] = a.constraints[c]
      BY RestrictIs
    <2> HIDE DEF constraints
    <2>3. PartsOf(constraints, ConstraintName, DOMAIN a.columns)
      BY <1>1, <2>2 DEF PartsOf
    <2> QED
      BY <1>1, <2>1, <2>3 DEF GoodTable, b
  <1>9. op.kind \in {"add_column", "alter_column", "create_constraint", "create_index", "drop_column",
                     "drop_constraint", "drop_index"}
    BY DEF GoodOp, KindRank
  <1> QED
    BY <1>3, <1>4, <1>5, <1>6, <1>7, <1>8, <1>9

\* The database after an operation, table by table.
LEMMA ExecutedIs ==
    ASSUME NEW d, NEW op
    PROVE  LET e == Executed(d, op)
           IN  /\ IsFunction(e)
               /\ op.kind = "create_table" =>
                      /\ DOMAIN e = DOMAIN d \cup {op.table}
                      /\ \A t \in DOMAIN d : e[t] = d[t]
                      /\ op.table \notin DOMAIN d => e[op.table] = Created(op.def)
               /\ op.kind = "drop_table" =>
                      /\ DOMAIN e = DOMAIN d \ {op.table}
                      /\ \A t \in DOMAIN e : e[t] = d[t]
               /\ op.kind \notin {"create_table", "drop_table"} =>
                      /\ DOMAIN e = DOMAIN d
                      /\ \A t \in DOMAIN d : t # op.table => e[t] = d[t]
                      /\ op.table \in DOMAIN d => e[op.table] = AlteredTable(d[op.table], op)
  <1> DEFINE e == Executed(d, op)
  <1>1. CASE op.kind = "create_table"
    <2> DEFINE extended == Extended(d, op.table, Created(op.def))
    <2>1. e = extended
      BY <1>1 DEF Executed
    <2>2. /\ IsFunction(extended) /\ DOMAIN extended = DOMAIN d \cup {op.table}
          /\ \A t \in DOMAIN d : extended[t] = d[t]
          /\ op.table \notin DOMAIN d => extended[op.table] = Created(op.def)
      BY ExtendedIs
    <2> HIDE DEF e, extended
    <2> QED
      BY <1>1, <2>1, <2>2 DEF e
  <1>2. CASE op.kind = "drop_table"
    <2>1. e = Restrict(d, DOMAIN d \ {op.table})
      BY <1>2 DEF Executed
    <2> QED
      BY <1>2, <2>1, RestrictIs
  <1>3. CASE op.kind \notin {"create_table", "drop_table"}
    <2>1. e = [t \in DOMAIN d |-> IF t = op.table THEN AlteredTable(d[t], op) ELSE d[t]]
      BY <1>3 DEF Executed
    <2> HIDE DEF e
    <2>2. /\ IsFunction(e) /\ DOMAIN e = DOMAIN d
          /\ \A t \in DOMAIN d : t # op.table => e[t] = d[t]
          /\ op.table \in DOMAIN d => e[op.table] = AlteredTable(d[op.table], op)
      BY <2>1 DEF IsFunction
    <2> QED
      BY <1>3, <2>2 DEF e
  <1> QED
    BY <1>1, <1>2, <1>3

LEMMA ExecutedIsGood ==
    ASSUME NEW d, GoodDb(d), NEW op, GoodOp(op), ~ Refused(d, op)
    PROVE  GoodDb(Executed(d, op))
  <1> DEFINE e == Executed(d, op)
  <1>1. /\ IsFunction(e)
        /\ op.kind = "create_table" =>
               /\ DOMAIN e = DOMAIN d \cup {op.table}
               /\ \A t \in DOMAIN d : e[t] = d[t]
               /\ op.table \notin DOMAIN d => e[op.table] = Created(op.def)
        /\ op.kind = "drop_table" =>
               /\ DOMAIN e = DOMAIN d \ {op.table}
               /\ \A t \in DOMAIN e : e[t] = d[t]
        /\ op.kind \notin {"create_table", "drop_table"} =>
               /\ DOMAIN e = DOMAIN d
               /\ \A t \in DOMAIN d : t # op.table => e[t] = d[t]
               /\ op.table \in DOMAIN d => e[op.table] = AlteredTable(d[op.table], op)
    BY ExecutedIs
  <1> HIDE DEF e
  <1>2. /\ DOMAIN d \subseteq TableName /\ \A t \in DOMAIN d : GoodTable(d[t], DbColumn)
        /\ op.table \in TableName
    BY DEF GoodDb, GoodOp
  <1>3. CASE op.kind = "create_table"
    <2>1. GoodTable(Created(op.def), DbColumn)
      BY <1>3, CreatedIsGood DEF GoodOp
    <2> QED
      BY <1>1, <1>2, <1>3, <2>1 DEF GoodDb, e
  <1>4. CASE op.kind = "drop_table"
    BY <1>1, <1>2, <1>4 DEF GoodDb, e
  <1>5. CASE op.kind \notin {"create_table", "drop_table"}
    <2>1. ASSUME op.table \in DOMAIN d PROVE GoodTable(AlteredTable(d[op.table], op), DbColumn)
      <3>1. op.kind \in {"create_constraint", "create_index"} =>
                op.def.columns \subseteq DOMAIN d[op.table].columns
        BY <2>1 DEF Refused, AltersNothing
      <3> QED
        BY <1>2, <1>5, <2>1, <3>1, AlteredTableIsGood
    <2> QED
      BY <1>1, <1>2, <1>5, <2>1 DEF GoodDb, e
  <1> QED
    BY <1>3, <1>4, <1>5

LEMMA AlongIsGood ==
    ASSUME NEW d, GoodDb(d), NEW file, GoodFile(file), Executes(d, file)
    PROVE  /\ \A n \in 0..Len(file) : GoodDb(Along(d, file)[n])
           /\ GoodDb(ExecutedFile(d, file))
  <1> DEFINE N == Len(file)
             after == Along(d, file)
             T == {m \in Nat : m <= N => GoodDb(after[m])}
  <1>1. /\ N \in Nat /\ DOMAIN file = 1..N /\ \A i \in 1..N : GoodOp(file[i])
        /\ after[0] = d /\ \A n \in 1..N : after[n] = Executed(after[n - 1], file[n])
        /\ \A n \in 1..N : ~ Refused(after[n - 1], file[n])
    BY AlongSteps DEF GoodFile, Executes
  <1> HIDE DEF N, after
  <1>2. 0 \in T
    BY <1>1
  <1>3. \A m \in Nat : m \in T => m + 1 \in T
    <2> SUFFICES ASSUME NEW m \in Nat, m \in T, m + 1 <= N PROVE GoodDb(after[m + 1])
      OBVIOUS
    <2>1. m <= N /\ m + 1 \in 1..N /\ (m + 1) - 1 = m
      BY <1>1
    <2>2. GoodDb(after[m])
      BY <2>1
    <2>3. /\ after[m + 1] = Executed(after[m], file[m + 1])
          /\ ~ Refused(after[m], file[m + 1]) /\ GoodOp(file[m + 1])
      BY <1>1, <2>1
    <2> QED
      BY <2>2, <2>3, ExecutedIsGood
  <1>4. ASSUME NEW n \in 0..N PROVE GoodDb(after[n])
    <2>1. n \in T
      <3> HIDE DEF T
      <3>1. n \in Nat /\ \A k \in 0..n-1 : k \in T => k + 1 \in T
        BY <1>1, <1>3
      <3> QED
        BY <1>2, <3>1, UpTo
    <2> QED
      BY <2>1
  <1>5. GoodDb(after[N])
    BY <1>1, <1>4
  <1> QED
    BY <1>4, <1>5 DEF after, N, ExecutedFile

-----------------------------------------------------------------------------
\* Type correctness

Schemas == {NoSchema} \cup {Built(m) : m \in Models}

FileOf(T, S) == [up |-> Compare(T, S), down |-> InvertDiff(Compare(T, S)), schema |-> T]

FileSet == {FileOf(Built(m), S) : m \in Models, S \in Schemas}

CheckState ==
    /\ check = [pc |-> check.pc, tables |-> check.tables, columns |-> check.columns,
                constraints |-> check.constraints, clean |-> check.clean, quiet |-> check.quiet]
    /\ check.pc \in {"idle", "tables", "columns", "constraints", "indexes", "done"}
    /\ check.quiet \in BOOLEAN

TypeInv ==
    /\ models \in Models
    /\ snapshot = Lost \/ \E n \in 0..Len(files) : snapshot = SchemaAfter(n)
    /\ files \in Seq(FileSet) /\ Len(files) <= MaxFile
    /\ applied \subseteq DOMAIN files
    /\ GoodDb(db)
    /\ CheckState
    /\ regular \in BOOLEAN
    /\ byHand \in 0..MaxByHand

LEMMA SchemasAreGood == ASSUME NEW S \in Schemas PROVE GoodSchema(S)
  <1>1. CASE S = NoSchema
    BY <1>1 DEF NoSchema, GoodSchema
  <1>2. CASE \E m \in Models : S = Built(m)
    BY <1>2, BuiltIsGood
  <1> QED
    BY <1>1, <1>2 DEF Schemas

LEMMA FilesAreGood ==
    ASSUME files \in Seq(FileSet), NEW n \in DOMAIN files
    PROVE  /\ files[n].schema \in Schemas
           /\ GoodFile(files[n].up) /\ GoodFile(files[n].down)
  <1>1. files[n] \in FileSet
    OBVIOUS
  <1>2. PICK m \in Models, S \in Schemas : files[n] = FileOf(Built(m), S)
    BY <1>1 DEF FileSet
  <1>3. /\ files[n].up = Compare(Built(m), S) /\ files[n].down = InvertDiff(Compare(Built(m), S))
        /\ files[n].schema = Built(m)
    BY <1>2 DEF FileOf
  <1>4. Built(m) \in Schemas
    BY DEF Schemas
  <1>5. GoodFile(Compare(Built(m), S)) /\ GoodFile(InvertDiff(Compare(Built(m), S)))
    BY <1>4, SchemasAreGood, ComparedIsGood
  <1> QED
    BY <1>3, <1>4, <1>5

LEMMA SchemasAfter ==
    ASSUME files \in Seq(FileSet), NEW n \in 0..Len(files)
    PROVE  SchemaAfter(n) \in Schemas
  <1>1. CASE n = 0
    BY <1>1 DEF SchemaAfter, Schemas
  <1>2. CASE n # 0
    <2>1. n \in DOMAIN files
      BY <1>2
    <2> QED
      BY <1>2, <2>1, FilesAreGood DEF SchemaAfter
  <1> QED
    BY <1>1, <1>2

LEMMA PreviousIsSchema == ASSUME TypeInv PROVE Previous \in Schemas
  BY SchemasAfter DEF TypeInv, Previous, Schemas

LEMMA AppendedFiles ==
    ASSUME files \in Seq(FileSet), NEW file \in FileSet, files' = Append(files, file)
    PROVE  /\ files' \in Seq(FileSet) /\ Len(files') = Len(files) + 1 /\ Len(files) \in Nat
           /\ DOMAIN files = 1..Len(files) /\ DOMAIN files' = 1..Len(files)+1
           /\ \A n \in 1..Len(files) : files'[n] = files[n]
           /\ files'[Len(files) + 1] = file
           /\ \A n \in 0..Len(files) : SchemaAfter(n)' = SchemaAfter(n)
           /\ \A n \in 0..Len(files)+1 : n = Len(files) + 1 => SchemaAfter(n)' = file.schema
  <1>1. /\ files' \in Seq(FileSet) /\ Len(files') = Len(files) + 1 /\ Len(files) \in Nat
        /\ DOMAIN files = 1..Len(files) /\ DOMAIN files' = 1..Len(files)+1
        /\ \A n \in 1..Len(files) : files'[n] = files[n]
        /\ files'[Len(files) + 1] = file
    OBVIOUS
  <1>2. ASSUME NEW n \in 0..Len(files) PROVE SchemaAfter(n)' = SchemaAfter(n)
    <2>1. CASE n = 0
      BY <2>1 DEF SchemaAfter
    <2>2. CASE n # 0
      <3>1. n \in 1..Len(files)
        BY <1>1, <2>2
      <3> QED
        BY <1>1, <2>2, <3>1 DEF SchemaAfter
    <2> QED
      BY <2>1, <2>2
  <1>3. ASSUME NEW n \in 0..Len(files)+1, n = Len(files) + 1 PROVE SchemaAfter(n)' = file.schema
    <2>1. n # 0 /\ files'[n] = file
      BY <1>1, <1>3
    <2> QED
      BY <2>1 DEF SchemaAfter
  <1> QED
    BY <1>1, <1>2, <1>3

LEMMA NextPending ==
    ASSUME TypeInv, Pending # {}
    PROVE  Min(Pending) \in Pending /\ Min(Pending) \in DOMAIN files /\ \A n \in Pending : Min(Pending) <= n
  <1>1. Pending \in SUBSET Nat /\ Pending \subseteq DOMAIN files
    BY DEF TypeInv, Pending
  <1> QED
    BY <1>1, LeastOf

LEMMA IdleIs ==
    /\ Idle = [pc |-> Idle.pc, tables |-> Idle.tables, columns |-> Idle.columns,
               constraints |-> Idle.constraints, clean |-> Idle.clean, quiet |-> Idle.quiet]
    /\ Idle.pc = "idle" /\ Idle.clean = FALSE /\ Idle.quiet = TRUE
  BY DEF Idle

\* What a disturbed check is.
LEMMA DisturbedIs ==
    ASSUME CheckState, check' = Disturbed
    PROVE  /\ CheckState'
           /\ check'.pc = check.pc /\ check'.clean = check.clean
           /\ check'.quiet => check.pc = "idle"
  <1> DEFINE quiet == check = Idle
  <1>1. check' = [pc |-> check.pc, tables |-> check.tables, columns |-> check.columns,
                  constraints |-> check.constraints, clean |-> check.clean, quiet |-> quiet]
    BY DEF CheckState, Disturbed
  <1>2. quiet \in BOOLEAN /\ (quiet => check.pc = "idle")
    BY IdleIs
  <1> HIDE DEF quiet
  <1> QED
    BY <1>1, <1>2 DEF CheckState

LEMMA InitTypes == ASSUME Init PROVE TypeInv
  <1>1. files \in Seq(FileSet) /\ Len(files) = 0
    BY DEF Init
  <1>2. snapshot = SchemaAfter(0)
    BY DEF Init, SchemaAfter
  <1>3. GoodDb(db)
    BY DEF Init, NoSchema, GoodDb, IsFunction
  <1>4. CheckState
    BY IdleIs DEF Init, CheckState
  <1>5. 0 <= MaxFile /\ 0 \in 0..MaxByHand
    BY BoundAssumption
  <1>6. 0 \in 0..Len(files)
    BY <1>1
  <1> QED
    BY <1>1, <1>2, <1>3, <1>4, <1>5, <1>6 DEF Init, TypeInv

LEMMA TypeInvIsInductive == ASSUME TypeInv, [Next]_vars PROVE TypeInv'
  <1>1. ASSUME NEW m \in Models, EditModels(m) PROVE TypeInv'
    <2>1. CheckState'
      BY <1>1, IdleIs DEF EditModels, CheckState
    <2> QED
      BY <1>1, <2>1 DEF TypeInv, EditModels, SchemaAfter
  <1>2. ASSUME Generate PROVE TypeInv'
    <2> DEFINE file == FileOf(Built(models), Previous)
    <2>1. file \in FileSet
      BY PreviousIsSchema DEF TypeInv, FileSet
    <2>2. files' = Append(files, file)
      BY <1>2 DEF Generate, FileOf
    <2>3. file.schema = Built(models)
      BY DEF FileOf
    <2> HIDE DEF file
    <2>4. /\ files' \in Seq(FileSet) /\ Len(files') = Len(files) + 1 /\ Len(files) \in Nat
          /\ DOMAIN files = 1..Len(files) /\ DOMAIN files' = 1..Len(files)+1
          /\ \A n \in 0..Len(files)+1 : n = Len(files) + 1 => SchemaAfter(n)' = Built(models)
      BY <2>1, <2>2, <2>3, AppendedFiles DEF TypeInv
    <2>5. Len(files') <= MaxFile
      BY <1>2, <2>4, BoundAssumption DEF Generate
    <2>6. \E n \in 0..Len(files') : snapshot' = SchemaAfter(n)'
      <3>1. PICK n \in 0..Len(files)+1 : n = Len(files) + 1
        BY <2>4
      <3>2. SchemaAfter(n)' = Built(models) /\ n \in 0..Len(files')
        BY <2>4, <3>1
      <3>3. snapshot' = Built(models)
        BY <1>2 DEF Generate
      <3> QED
        BY <3>2, <3>3
    <2>7. applied' \subseteq DOMAIN files'
      BY <1>2, <2>4 DEF Generate, TypeInv
    <2>8. regular' \in BOOLEAN
      BY <1>2 DEF Generate, TypeInv
    <2> QED
      BY <1>2, <2>4, <2>5, <2>6, <2>7, <2>8 DEF TypeInv, Generate, CheckState
  <1>3. ASSUME SnapshotIsLost PROVE TypeInv'
    <2>1. byHand' \in 0..MaxByHand
      BY <1>3, BoundAssumption DEF SnapshotIsLost, TypeInv
    <2> QED
      BY <1>3, <2>1 DEF TypeInv, SnapshotIsLost, CheckState
  <1>4. ASSUME RunNext PROVE TypeInv'
    <2> DEFINE n == Min(Pending)
    <2>1. n \in DOMAIN files
      BY <1>4, NextPending DEF RunNext
    <2>2. /\ Executes(db, files[n].up) /\ db' = ExecutedFile(db, files[n].up)
          /\ applied' = applied \cup {n} /\ check' = Disturbed
      BY <1>4 DEF RunNext
    <2> HIDE DEF n
    <2>3. GoodFile(files[n].up)
      BY <2>1, FilesAreGood DEF TypeInv
    <2>4. GoodDb(db')
      BY <2>2, <2>3, AlongIsGood DEF TypeInv
    <2>5. CheckState'
      BY <2>2, DisturbedIs DEF TypeInv
    <2> QED
      BY <1>4, <2>1, <2>2, <2>4, <2>5 DEF TypeInv, RunNext, SchemaAfter
  <1>5. ASSUME NEW n \in DOMAIN files, Revert(n) PROVE TypeInv'
    <2>1. n \in DOMAIN files
      OBVIOUS
    <2>2. /\ Executes(db, files[n].down) /\ db' = ExecutedFile(db, files[n].down)
          /\ applied' = applied \ {n} /\ check' = Disturbed
      BY <1>5 DEF Revert
    <2>3. GoodFile(files[n].down)
      BY <2>1, FilesAreGood DEF TypeInv
    <2>4. GoodDb(db')
      BY <2>2, <2>3, AlongIsGood DEF TypeInv
    <2>5. CheckState'
      BY <2>2, DisturbedIs DEF TypeInv
    <2>6. regular' \in BOOLEAN
      BY <1>5 DEF Revert, TypeInv
    <2> QED
      BY <1>5, <2>1, <2>2, <2>4, <2>5, <2>6 DEF TypeInv, Revert, SchemaAfter
  <1>6. ASSUME NEW t \in TableName, NEW c \in ColumnName, ChangedByHand(t, c) PROVE TypeInv'
    <2>1. t \in DOMAIN db /\ GoodTable(WithoutColumn(db[t], c), DbColumn)
      BY <1>6, WithoutColumnIsGood DEF ChangedByHand, TypeInv, GoodDb
    <2>2. db' = [db EXCEPT ![t] = WithoutColumn(db[t], c)]
      BY <1>6 DEF ChangedByHand
    <2>3. GoodDb(db')
      <3>1. IsFunction(db) /\ DOMAIN db \subseteq TableName /\ \A u \in DOMAIN db : GoodTable(db[u], DbColumn)
        BY DEF TypeInv, GoodDb
      <3> DEFINE table == WithoutColumn(db[t], c)
      <3>2. db' = [u \in DOMAIN db |-> IF u = t THEN table ELSE db[u]]
        BY <2>1, <2>2, <3>1 DEF IsFunction
      <3> HIDE DEF table
      <3>3. /\ DOMAIN db' = DOMAIN db /\ IsFunction(db')
            /\ \A u \in DOMAIN db : db'[u] = IF u = t THEN table ELSE db[u]
        BY <3>2 DEF IsFunction
      <3>4. GoodTable(table, DbColumn)
        BY <2>1 DEF table
      <3>5. \A u \in DOMAIN db : GoodTable(db'[u], DbColumn)
        BY <3>1, <3>3, <3>4
      <3> QED
        BY <3>1, <3>3, <3>5 DEF GoodDb
    <2>4. CheckState'
      BY <1>6, DisturbedIs DEF TypeInv, ChangedByHand
    <2>5. byHand' \in 0..MaxByHand
      BY <1>6, BoundAssumption DEF ChangedByHand, TypeInv
    <2> QED
      BY <1>6, <2>3, <2>4, <2>5 DEF TypeInv, ChangedByHand, SchemaAfter
  <1>7. ASSUME CheckStarts \/ ReadTables \/ ReadColumns \/ ReadConstraints \/ ReadIndexes
        PROVE  TypeInv'
    <2>1. CheckState'
      <3>1. CASE CheckStarts
        BY <3>1, IdleIs DEF CheckStarts, CheckState
      <3>2. CASE ReadTables
        BY <3>2 DEF ReadTables, TypeInv, CheckState
      <3>3. CASE ReadColumns
        BY <3>3 DEF ReadColumns, TypeInv, CheckState
      <3>4. CASE ReadConstraints
        BY <3>4 DEF ReadConstraints, TypeInv, CheckState
      <3>5. CASE ReadIndexes
        BY <3>5, IdleIs DEF ReadIndexes, TypeInv, CheckState
      <3> QED
        BY <1>7, <3>1, <3>2, <3>3, <3>4, <3>5
    <2>2. UNCHANGED <<models, snapshot, files, applied, db, regular, byHand>>
      BY <1>7 DEF CheckStarts, ReadTables, ReadColumns, ReadConstraints, ReadIndexes
    <2> QED
      BY <2>1, <2>2 DEF TypeInv, SchemaAfter
  <1>8. ASSUME UNCHANGED vars PROVE TypeInv'
    BY <1>8 DEF vars, TypeInv, SchemaAfter, CheckState
  <1> QED
    BY <1>1, <1>2, <1>3, <1>4, <1>5, <1>6, <1>7, <1>8 DEF Next

\* The state of models, snapshot, migrations, registry, database and check is always
\* well-formed: whatever is run, reverted or changed by hand, the database has no column
\* of a type that PostgreSQL does not show, and no index or constraint without columns.
THEOREM TypeCorrect == Spec => []TypeOK
  <1>1. TypeInv => TypeOK
    <2> SUFFICES ASSUME TypeInv PROVE TypeOK
      OBVIOUS
    <2>1. ASSUME NEW t \in DOMAIN db
          PROVE  /\ \A c \in DOMAIN db[t].columns : db[t].columns[c].type \in Type \ {"date"}
                 /\ \A n \in DOMAIN db[t].indexes :
                        db[t].indexes[n].columns \subseteq DOMAIN db[t].columns
                 /\ \A k \in DOMAIN db[t].constraints :
                        db[t].constraints[k].columns \subseteq DOMAIN db[t].columns
      BY DEF TypeInv, GoodDb, GoodTable, PartsOf, DbColumn
    <2> QED
      BY <2>1 DEF TypeInv, TypeOK, GoodDb, CheckState
  <1> QED
    BY <1>1, InitTypes, TypeInvIsInductive, PTL DEF Spec

-----------------------------------------------------------------------------
\* Clean reports

Agrees(d, m) ==
    /\ DOMAIN d = DOMAIN m
    /\ \A t \in DOMAIN d :
          /\ KnownShape(d[t].columns) = KnownShape(BuiltTable(m[t]).columns)
          /\ d[t].constraints = BuiltTable(m[t]).constraints

LEMMA KnownShapeIs ==
    ASSUME NEW columns
    PROVE  KnownShape(columns) =
               [c \in DOMAIN columns |-> [type |-> InspectType(RenderType(columns[c].type)),
                                          null |-> columns[c].null, default |-> columns[c].default]]
  <1> DEFINE shape == Shape(columns)
  <1>1. \A c \in DOMAIN columns :
            shape[c] = [type |-> RenderType(columns[c].type), null |-> columns[c].null,
                        default |-> columns[c].default]
    BY DEF Shape
  <1> HIDE DEF shape
  <1>2. \A c \in DOMAIN columns :
            [shape[c] EXCEPT !.type = InspectType(@)] =
                [type |-> InspectType(RenderType(columns[c].type)),
                 null |-> columns[c].null, default |-> columns[c].default]
    <2> TAKE c \in DOMAIN columns
    <2> DEFINE type == RenderType(columns[c].type)
               known == InspectType(type)
               null == columns[c].null
               default == columns[c].default
    <2>1. shape[c] = [type |-> type, null |-> null, default |-> default]
      BY <1>1
    <2> HIDE DEF type, null, default
    <2>2. [shape[c] EXCEPT !.type = InspectType(@)] = [shape[c] EXCEPT !.type = known]
      BY <2>1
    <2> HIDE DEF known
    <2>3. [shape[c] EXCEPT !.type = known] = [type |-> known, null |-> null, default |-> default]
      BY <2>1
    <2> QED
      BY <2>2, <2>3 DEF type, known, null, default
  <1>3. KnownShape(columns) =
            [c \in DOMAIN columns |-> [shape[c] EXCEPT !.type = InspectType(@)]]
    BY DEF KnownShape, shape
  <1> QED
    BY <1>2, <1>3

LEMMA InspectedIs ==
    ASSUME NEW d, GoodDb(d)
    PROVE  LET actual == Inspected(DOMAIN d, [t \in DOMAIN d |-> d[t].columns],
                                   [t \in DOMAIN d |-> d[t].constraints],
                                   [t \in DOMAIN d |-> d[t].indexes])
           IN  /\ Named(actual) /\ DOMAIN actual = DOMAIN d
               /\ \A t \in DOMAIN d :
                     /\ DOMAIN actual[t].columns = DOMAIN d[t].columns
                     /\ \A c \in DOMAIN d[t].columns :
                           /\ actual[t].columns[c].type = InspectType(d[t].columns[c].type)
                           /\ actual[t].columns[c].null = d[t].columns[c].null
                           /\ actual[t].columns[c].default = d[t].columns[c].default
                     /\ actual[t].constraints = d[t].constraints
  <1> DEFINE columns == [t \in DOMAIN d |-> d[t].columns]
             constraints == [t \in DOMAIN d |-> d[t].constraints]
             indexes == [t \in DOMAIN d |-> d[t].indexes]
             actual == Inspected(DOMAIN d, columns, constraints, indexes)
  <1>1. \A t \in DOMAIN d :
            /\ Seen(columns, t) = d[t].columns /\ Seen(constraints, t) = d[t].constraints
            /\ Seen(indexes, t) = d[t].indexes
    BY DEF Seen
  <1> HIDE DEF columns, constraints, indexes
  <1>2. actual = [t \in DOMAIN d |->
                     [columns |-> InspectedColumns(Seen(columns, t), Seen(constraints, t)),
                      indexes |-> InspectedIndexes(Seen(indexes, t)),
                      constraints |-> Seen(constraints, t)]]
    BY DEF Inspected
  <1> HIDE DEF actual
  <1>3. DOMAIN actual = DOMAIN d
    BY <1>2
  <1>4. ASSUME NEW t \in DOMAIN d
        PROVE  /\ actual[t].columns = InspectedColumns(d[t].columns, d[t].constraints)
               /\ actual[t].indexes = InspectedIndexes(d[t].indexes)
               /\ actual[t].constraints = d[t].constraints
    BY <1>1, <1>2
  <1>5. ASSUME NEW cs, NEW ks
        PROVE  LET i == InspectedColumns(cs, ks)
               IN  /\ DOMAIN i = DOMAIN cs
                   /\ \A c \in DOMAIN cs :
                         /\ i[c].type = InspectType(cs[c].type)
                         /\ i[c].null = cs[c].null /\ i[c].default = cs[c].default
    BY DEF InspectedColumns
  <1>6. ASSUME NEW t \in DOMAIN d
        PROVE  /\ DOMAIN actual[t].columns = DOMAIN d[t].columns
               /\ \A c \in DOMAIN d[t].columns :
                     /\ actual[t].columns[c].type = InspectType(d[t].columns[c].type)
                     /\ actual[t].columns[c].null = d[t].columns[c].null
                     /\ actual[t].columns[c].default = d[t].columns[c].default
               /\ DOMAIN actual[t].indexes = DOMAIN d[t].indexes
               /\ actual[t].constraints = d[t].constraints
    <2> DEFINE cs == d[t].columns
               ks == d[t].constraints
               is == d[t].indexes
    <2>1. /\ actual[t].columns = InspectedColumns(cs, ks)
          /\ actual[t].indexes = InspectedIndexes(is)
          /\ actual[t].constraints = ks
      BY <1>4
    <2> HIDE DEF cs, ks, is
    <2>2. DOMAIN actual[t].indexes = DOMAIN is
      BY <2>1 DEF InspectedIndexes
    <2>3. /\ DOMAIN actual[t].columns = DOMAIN cs
          /\ \A c \in DOMAIN cs :
                /\ actual[t].columns[c].type = InspectType(cs[c].type)
                /\ actual[t].columns[c].null = cs[c].null
                /\ actual[t].columns[c].default = cs[c].default
      BY <2>1, <1>5
    <2> QED
      BY <2>1, <2>2, <2>3 DEF cs, ks, is
  <1>7. DOMAIN d \subseteq TableName
    BY DEF GoodDb
  <1>8. ASSUME NEW t \in DOMAIN d
        PROVE  /\ DOMAIN d[t].columns \subseteq ColumnName
               /\ DOMAIN d[t].indexes \subseteq ColumnName
               /\ DOMAIN d[t].constraints \subseteq ConstraintName
    BY DEF GoodDb, GoodTable, PartsOf
  <1>9. Named(actual)
    BY <1>3, <1>6, <1>7, <1>8 DEF Named
  <1> QED
    BY <1>3, <1>6, <1>9 DEF actual, columns, constraints, indexes

\* Two schemas without an operation between them.
LEMMA NothingDiffers ==
    ASSUME NEW T, NEW S, Named(T), Named(S), Compare(T, S) = <<>>
    PROVE  /\ DOMAIN T = DOMAIN S
           /\ \A t \in DOMAIN T :
                 /\ DOMAIN T[t].columns = DOMAIN S[t].columns
                 /\ \A c \in DOMAIN T[t].columns : T[t].columns[c] = S[t].columns[c]
                 /\ DOMAIN T[t].constraints = DOMAIN S[t].constraints
                 /\ \A k \in DOMAIN T[t].constraints : T[t].constraints[k] = S[t].constraints[k]
  <1>1. ASSUME NEW kind, NEW table, NEW name, NEW def PROVE ~ Differs(Operation(kind, table, name, def), T, S)
    <2>1. Operations(T, S) = {}
      BY CompareLists
    <2> QED
      BY <2>1, OperationsDiffer
  <1>2. ASSUME NEW t PROVE (t \in DOMAIN T) = (t \in DOMAIN S)
    <2>1. CASE t \in DOMAIN T \ DOMAIN S
      <3> DEFINE op == Operation("create_table", t, 0, T[t])
      <3>1. op.kind = "create_table" /\ op.table = t /\ op.name = 0 /\ op.def = T[t]
            /\ op = Operation(op.kind, op.table, op.name, op.def)
        BY OperationFields
      <3>2. ~ Differs(op, T, S)
        BY <1>1
      <3> HIDE DEF op
      <3> QED
        BY <2>1, <3>1, <3>2 DEF Differs
    <2>2. CASE t \in DOMAIN S \ DOMAIN T
      <3> DEFINE op == Operation("drop_table", t, 0, S[t])
      <3>1. op.kind = "drop_table" /\ op.table = t /\ op.name = 0 /\ op.def = S[t]
            /\ op = Operation(op.kind, op.table, op.name, op.def)
        BY OperationFields
      <3>2. ~ Differs(op, T, S)
        BY <1>1
      <3> HIDE DEF op
      <3> QED
        BY <2>2, <3>1, <3>2 DEF Differs
    <2> QED
      BY <2>1, <2>2
  <1>3. DOMAIN T = DOMAIN S
    BY <1>2
  <1>4. ASSUME NEW t \in DOMAIN T, NEW kind, NEW name, NEW def,
               kind \notin {"create_table", "drop_table"}
        PROVE  LET op == Operation(kind, t, name, def)
               IN  /\ op.kind = kind /\ op.name = name /\ op.def = def
                   /\ ~ DiffersInTable(op, T[t], S[t])
    <2> DEFINE op == Operation(kind, t, name, def)
    <2>1. op.kind = kind /\ op.table = t /\ op.name = name /\ op.def = def
          /\ op = Operation(op.kind, op.table, op.name, op.def)
      BY OperationFields
    <2>2. ~ Differs(op, T, S)
      BY <1>1
    <2> HIDE DEF op
    <2>3. ~ DiffersInTable(op, T[t], S[t])
      BY <1>3, <1>4, <2>1, <2>2 DEF Differs
    <2> QED
      BY <2>1, <2>3 DEF op
  <1>5. ASSUME NEW t \in DOMAIN T, NEW c
        PROVE  /\ ~ (c \in DOMAIN T[t].columns \ DOMAIN S[t].columns)
               /\ ~ (c \in DOMAIN S[t].columns \ DOMAIN T[t].columns)
               /\ c \in DOMAIN T[t].columns \cap DOMAIN S[t].columns =>
                      T[t].columns[c] = S[t].columns[c]
    <2> DEFINE added == Operation("add_column", t, c, T[t].columns[c])
               dropped == Operation("drop_column", t, c, S[t].columns[c])
               altered == Operation("alter_column", t, c,
                                    [to |-> T[t].columns[c], from |-> S[t].columns[c]])
    <2>1. added.kind = "add_column" /\ added.name = c /\ added.def = T[t].columns[c]
          /\ ~ DiffersInTable(added, T[t], S[t])
      BY <1>4
    <2>2. dropped.kind = "drop_column" /\ dropped.name = c /\ dropped.def = S[t].columns[c]
          /\ ~ DiffersInTable(dropped, T[t], S[t])
      BY <1>4
    <2>3. altered.kind = "alter_column" /\ altered.name = c
          /\ altered.def = [to |-> T[t].columns[c], from |-> S[t].columns[c]]
          /\ ~ DiffersInTable(altered, T[t], S[t])
      BY <1>4
    <2> HIDE DEF added, dropped, altered
    <2> QED
      BY <2>1, <2>2, <2>3 DEF DiffersInTable
  <1>6. ASSUME NEW t \in DOMAIN T, NEW k
        PROVE  /\ k \in DOMAIN T[t].constraints =>
                      /\ k \in DOMAIN S[t].constraints
                      /\ T[t].constraints[k] = S[t].constraints[k]
               /\ ~ (k \in DOMAIN S[t].constraints \ DOMAIN T[t].constraints)
    <2> DEFINE created == Operation("create_constraint", t, k, T[t].constraints[k])
               dropped == Operation("drop_constraint", t, k, S[t].constraints[k])
    <2>1. created.kind = "create_constraint" /\ created.name = k /\ created.def = T[t].constraints[k]
          /\ ~ DiffersInTable(created, T[t], S[t])
      BY <1>4
    <2>2. dropped.kind = "drop_constraint" /\ dropped.name = k /\ dropped.def = S[t].constraints[k]
          /\ ~ DiffersInTable(dropped, T[t], S[t])
      BY <1>4
    <2> HIDE DEF created, dropped
    <2> QED
      BY <2>1, <2>2 DEF DiffersInTable
  <1> QED
    BY <1>3, <1>5, <1>6

LEMMA CleanMeansAgreed ==
    ASSUME NEW m \in Models, NEW d, GoodDb(d),
           Compare(Built(m), Inspected(DOMAIN d, [t \in DOMAIN d |-> d[t].columns],
                                       [t \in DOMAIN d |-> d[t].constraints],
                                       [t \in DOMAIN d |-> d[t].indexes])) = <<>>
    PROVE  Agrees(d, m)
  <1> DEFINE schema == Built(m)
             actual == Inspected(DOMAIN d, [t \in DOMAIN d |-> d[t].columns],
                                 [t \in DOMAIN d |-> d[t].constraints],
                                 [t \in DOMAIN d |-> d[t].indexes])
  <1>1. GoodSchema(schema) /\ Named(schema) /\ DOMAIN schema = DOMAIN m
        /\ \A t \in DOMAIN m : schema[t] = BuiltTable(m[t])
    BY BuiltIsGood, GoodSchemasAreNamed DEF Built
  <1>2. /\ Named(actual) /\ DOMAIN actual = DOMAIN d
        /\ \A t \in DOMAIN d :
              /\ DOMAIN actual[t].columns = DOMAIN d[t].columns
              /\ \A c \in DOMAIN d[t].columns :
                    /\ actual[t].columns[c].type = InspectType(d[t].columns[c].type)
                    /\ actual[t].columns[c].null = d[t].columns[c].null
                    /\ actual[t].columns[c].default = d[t].columns[c].default
              /\ actual[t].constraints = d[t].constraints
    BY InspectedIs
  <1>3. Compare(schema, actual) = <<>>
    OBVIOUS
  <1> HIDE DEF schema, actual
  <1>4. /\ DOMAIN schema = DOMAIN actual
        /\ \A t \in DOMAIN schema :
              /\ DOMAIN schema[t].columns = DOMAIN actual[t].columns
              /\ \A c \in DOMAIN schema[t].columns : schema[t].columns[c] = actual[t].columns[c]
              /\ DOMAIN schema[t].constraints = DOMAIN actual[t].constraints
              /\ \A k \in DOMAIN schema[t].constraints :
                    schema[t].constraints[k] = actual[t].constraints[k]
    BY <1>1, <1>2, <1>3, NothingDiffers
  <1>5. ASSUME NEW t \in DOMAIN d
        PROVE  /\ KnownShape(d[t].columns) = KnownShape(schema[t].columns)
               /\ d[t].constraints = schema[t].constraints
    <2> DEFINE cs == d[t].columns
               es == schema[t].columns
    <2>1. /\ DOMAIN es = DOMAIN cs
          /\ \A c \in DOMAIN cs : /\ es[c].type = InspectType(cs[c].type)
                                  /\ es[c].null = cs[c].null /\ es[c].default = cs[c].default
      BY <1>2, <1>4
    <2>2. \A c \in DOMAIN cs : cs[c].type \in Type \ {"date"}
      BY DEF GoodDb, GoodTable, DbColumn
    <2> HIDE DEF cs, es
    <2>3. \A type \in Type \ {"date"} :
              InspectType(RenderType(InspectType(type))) = InspectType(RenderType(type))
      BY DEF Type, RenderType, InspectType
    <2>4. KnownShape(cs) = KnownShape(es)
      BY <2>1, <2>2, <2>3, KnownShapeIs
    <2>5. d[t].constraints = schema[t].constraints
      <3>1. IsFunction(d[t].constraints)
        BY DEF GoodDb, GoodTable, PartsOf
      <3>2. IsFunction(schema[t].constraints)
        BY <1>1, <1>2, <1>4 DEF GoodSchema, ModelTable, GoodTable, PartsOf
      <3>3. /\ DOMAIN schema[t].constraints = DOMAIN d[t].constraints
            /\ \A k \in DOMAIN d[t].constraints : schema[t].constraints[k] = d[t].constraints[k]
        BY <1>2, <1>4
      <3> QED
        BY <3>1, <3>2, <3>3 DEF IsFunction
    <2> QED
      BY <2>4, <2>5 DEF cs, es
  <1> QED
    BY <1>1, <1>2, <1>4, <1>5 DEF Agrees

\* A check that nobody disturbed has read the database as it is.
CheckInv ==
    check.quiet =>
        /\ check.pc \in {"columns", "constraints", "indexes"} => check.tables = DOMAIN db
        /\ check.pc \in {"constraints", "indexes"} =>
               check.columns = [t \in DOMAIN db |-> db[t].columns]
        /\ check.pc = "indexes" => check.constraints = [t \in DOMAIN db |-> db[t].constraints]
        /\ check.pc = "done" /\ check.clean => Agrees(db, models)

LEMMA CheckInvIsInductive == ASSUME TypeInv, CheckInv, [Next]_vars PROVE CheckInv'
  <1>1. ASSUME check'.pc = "idle" PROVE CheckInv'
    BY <1>1 DEF CheckInv
  <1>2. ASSUME check' = Disturbed PROVE CheckInv'
    BY <1>1, <1>2, DisturbedIs DEF TypeInv, CheckInv
  <1>3. ASSUME UNCHANGED <<models, db, check>> PROVE CheckInv'
    BY <1>3 DEF CheckInv, Agrees
  <1>4. ASSUME NEW m \in Models, EditModels(m) PROVE CheckInv'
    BY <1>1, <1>4, IdleIs DEF EditModels
  <1>5. CASE Generate \/ SnapshotIsLost \/ UNCHANGED vars
    BY <1>3, <1>5 DEF Generate, SnapshotIsLost, vars
  <1>6. CASE RunNext \/ (\E n \in DOMAIN files : Revert(n))
             \/ \E t \in TableName, c \in ColumnName : ChangedByHand(t, c)
    BY <1>2, <1>6 DEF RunNext, Revert, ChangedByHand
  <1>7. CASE CheckStarts
    <2>1. check'.pc = "tables"
      BY <1>7, IdleIs DEF CheckStarts
    <2> QED
      BY <2>1 DEF CheckInv
  <1>8. CASE ReadTables
    <2>1. check'.pc = "columns" /\ check'.tables = DOMAIN db /\ db' = db
      BY <1>8 DEF ReadTables, TypeInv, CheckState
    <2> QED
      BY <2>1 DEF CheckInv
  <1>9. CASE ReadColumns
    <2>1. /\ check.pc = "columns" /\ check'.pc = "constraints" /\ check'.tables = check.tables
          /\ check'.columns = [t \in DOMAIN db |-> db[t].columns]
          /\ check'.quiet = check.quiet /\ db' = db
      BY <1>9 DEF ReadColumns, TypeInv, CheckState
    <2> QED
      BY <2>1 DEF CheckInv
  <1>10. CASE ReadConstraints
    <2>1. /\ check.pc = "constraints" /\ check'.pc = "indexes" /\ check'.tables = check.tables
          /\ check'.columns = check.columns
          /\ check'.constraints = [t \in DOMAIN db |-> db[t].constraints]
          /\ check'.quiet = check.quiet /\ db' = db
      BY <1>10 DEF ReadConstraints, TypeInv, CheckState
    <2> QED
      BY <2>1 DEF CheckInv
  <1>11. CASE ReadIndexes
    <2> DEFINE actual == Inspected(check.tables, check.columns, check.constraints,
                                   [t \in DOMAIN db |-> db[t].indexes])
               none == Compare(Built(models), actual) = <<>>
               clean == none /\ (snapshot # Lost => Compare(snapshot, actual) = <<>>)
    <2>1. check.pc = "indexes" /\ UNCHANGED <<models, db>>
      BY <1>11 DEF ReadIndexes
    <2>2. check' = [Idle EXCEPT !.pc = "done", !.quiet = check.quiet, !.clean = clean]
      BY <1>11 DEF ReadIndexes
    <2>3. clean => none
      OBVIOUS
    <2> HIDE DEF clean, none
    <2>4. check'.pc = "done" /\ check'.quiet = check.quiet /\ (check'.clean = clean)
      BY <2>2, IdleIs
    <2>5. ASSUME check.quiet, none PROVE Agrees(db, models)
      <3>1. actual = Inspected(DOMAIN db, [t \in DOMAIN db |-> db[t].columns],
                               [t \in DOMAIN db |-> db[t].constraints],
                               [t \in DOMAIN db |-> db[t].indexes])
        BY <2>1, <2>5 DEF CheckInv
      <3>2. Compare(Built(models), actual) = <<>>
        BY <2>5 DEF none
      <3> HIDE DEF actual
      <3> QED
        BY <3>1, <3>2, CleanMeansAgreed DEF TypeInv
    <2>6. check'.quiet /\ check'.clean => Agrees(db, models)
      BY <2>3, <2>4, <2>5
    <2>7. Agrees(db, models) => Agrees(db', models')
      BY <2>1
    <2> QED
      BY <2>4, <2>6, <2>7 DEF CheckInv
  <1> QED
    BY <1>4, <1>5, <1>6, <1>7, <1>8, <1>9, <1>10, <1>11 DEF Next

\* A clean report of a check during which nobody changed the schema is true of the
\* database: the same tables, columns (as far as the inspector tells types apart) and
\* constraints as the models, whatever happened to snapshot and registry.
THEOREM CleanReportsAreTrue == Spec => []CleanReportIsTrue
  <1>1. Init => CheckInv
    BY IdleIs DEF Init, CheckInv
  <1>2. CheckInv => CleanReportIsTrue
    BY DEF CheckInv, CleanReportIsTrue, Agrees
  <1> QED
    BY <1>1, <1>2, InitTypes, TypeInvIsInductive, CheckInvIsInductive, PTL DEF Spec

-----------------------------------------------------------------------------
\* A table on its way from one schema to another

\* What is still to be done to a table: pairs of a kind and a name.
Waits(W, kind, name) == <<kind, name>> \in W

LEMMA WaitsAfter ==
    ASSUME NEW W, NEW done, NEW it
    PROVE  \A kind, name : Waits(W \ {<<done, it>>}, kind, name) <=>
                               Waits(W, kind, name) /\ ~ (kind = done /\ name = it)
  BY DEF Waits

\* A table of a database as a schema describes it.
Like(a, s) ==
    /\ DOMAIN a.columns = DOMAIN s.columns
    /\ \A c \in DOMAIN s.columns :
          /\ a.columns[c].type = RenderType(s.columns[c].type)
          /\ a.columns[c].null = s.columns[c].null
          /\ a.columns[c].default = s.columns[c].default
    /\ a.constraints = s.constraints

Declared(s) ==
    \A c \in DOMAIN s.columns :
        s.columns[c].null => ~ s.columns[c].pk /\ ~ s.columns[c].identity

\* What is to be done to get from the one table to the other, apart from indexes.
Leads(W, old, new) ==
    /\ \A c : Waits(W, "add_column", c) <=> c \in DOMAIN new.columns \ DOMAIN old.columns
    /\ \A c : Waits(W, "drop_column", c) <=> c \in DOMAIN old.columns \ DOMAIN new.columns
    /\ \A c : Waits(W, "alter_column", c) <=>
                  /\ c \in DOMAIN old.columns \cap DOMAIN new.columns
                  /\ new.columns[c] # old.columns[c]
    /\ \A k : Waits(W, "create_constraint", k) <=>
                  /\ k \in DOMAIN new.constraints
                  /\ k \in DOMAIN old.constraints => new.constraints[k] # old.constraints[k]
    /\ \A k : Waits(W, "drop_constraint", k) <=>
                  k \in DOMAIN old.constraints \ DOMAIN new.constraints

\* The columns cs are on their way to new; from are those it all began with.
ColumnsOnTheWay(W, from, cs, new) ==
    /\ \A c \in DOMAIN cs : c \in DOMAIN new \/ Waits(W, "drop_column", c)
    /\ \A c \in DOMAIN new : c \in DOMAIN cs \/ Waits(W, "add_column", c)
    /\ \A c \in DOMAIN new : Waits(W, "add_column", c) =>
           /\ c \notin DOMAIN cs
           /\ new[c].pk => Waits(W, "create_constraint", PrimaryKeyName)
    /\ \A c \in DOMAIN cs \cap DOMAIN new : ~ Waits(W, "alter_column", c) =>
           /\ cs[c].type = RenderType(new[c].type)
           /\ cs[c].default = new[c].default
           /\ \/ cs[c].null = new[c].null
              \/ new[c].pk /\ Waits(W, "create_constraint", PrimaryKeyName)
    /\ \A c \in DOMAIN new : Waits(W, "alter_column", c) =>
           /\ c \in DOMAIN cs
           /\ cs[c].type = from[c].type /\ cs[c].default = from[c].default
           /\ cs[c].identity = from[c].identity
           /\ cs[c].null = from[c].null \/ cs[c].null = new[c].null

\* The constraints ks are on their way to new; the columns that are gone go, too.
ConstraintsOnTheWay(W, from, ks, gone, new) ==
    /\ \A k \in DOMAIN ks :
          \/ k \in DOMAIN new /\ ks[k] = new[k] /\ ~ Waits(W, "create_constraint", k)
          \/ /\ k \in DOMAIN from /\ ks[k] = from[k]
             /\ Waits(W, "drop_constraint", k) \/ Waits(W, "create_constraint", k)
    /\ \A k \in DOMAIN new : k \in DOMAIN ks \/ Waits(W, "create_constraint", k)
    /\ \A k \in DOMAIN from : k \in DOMAIN new =>
          k \in DOMAIN ks \/ \E c \in gone : ~ Waits(W, "drop_column", c)

OnTheWay(W, a, b, old, new) ==
    /\ ColumnsOnTheWay(W, a.columns, b.columns, new.columns)
    /\ ConstraintsOnTheWay(W, a.constraints, b.constraints,
                           DOMAIN old.columns \ DOMAIN new.columns, new.constraints)

LEMMA SetsOut ==
    ASSUME NEW old, NEW new, ModelTable(old), ModelTable(new),
           NEW a, Like(a, old), NEW W, Leads(W, old, new)
    PROVE  OnTheWay(W, a, a, old, new)
  <1> DEFINE cs == a.columns
             ks == a.constraints
             os == old.columns
             ns == new.columns
             oks == old.constraints
             nks == new.constraints
  <1>1. /\ DOMAIN cs = DOMAIN os
        /\ \A c \in DOMAIN os : /\ cs[c].type = RenderType(os[c].type)
                                /\ cs[c].null = os[c].null /\ cs[c].default = os[c].default
        /\ ks = oks
    BY DEF Like
  <1>2. /\ \A c : Waits(W, "add_column", c) <=> c \in DOMAIN ns \ DOMAIN os
        /\ \A c : Waits(W, "drop_column", c) <=> c \in DOMAIN os \ DOMAIN ns
        /\ \A c : Waits(W, "alter_column", c) <=> c \in DOMAIN os \cap DOMAIN ns /\ ns[c] # os[c]
        /\ \A k : Waits(W, "create_constraint", k) <=>
                      k \in DOMAIN nks /\ (k \in DOMAIN oks => nks[k] # oks[k])
        /\ \A k : Waits(W, "drop_constraint", k) <=> k \in DOMAIN oks \ DOMAIN nks
    BY DEF Leads
  <1>3. ASSUME NEW c \in DOMAIN ns \ DOMAIN os, ns[c].pk
        PROVE  Waits(W, "create_constraint", PrimaryKeyName)
    <2>1. PrimaryKeyName \in DOMAIN nks /\ c \in nks[PrimaryKeyName].columns
      BY <1>3 DEF ModelTable, InKey
    <2>2. PrimaryKeyName \in DOMAIN oks => oks[PrimaryKeyName].columns \subseteq DOMAIN os
      BY DEF ModelTable, GoodTable, PartsOf
    <2> QED
      BY <1>2, <2>1, <2>2
  <1> HIDE DEF cs, ks, os, ns, oks, nks
  <1>4. ColumnsOnTheWay(W, cs, cs, ns)
    BY <1>1, <1>2, <1>3 DEF ColumnsOnTheWay
  <1>5. ConstraintsOnTheWay(W, ks, ks, DOMAIN os \ DOMAIN ns, nks)
    BY <1>1, <1>2 DEF ConstraintsOnTheWay
  <1> QED
    BY <1>4, <1>5 DEF OnTheWay, cs, ks, os, ns, nks

LEMMA Arrives ==
    ASSUME NEW old, NEW new, NEW a, NEW b, ModelTable(new), GoodTable(b, DbColumn),
           OnTheWay({}, a, b, old, new)
    PROVE  Like(b, new)
  <1> DEFINE cs == b.columns
             ks == b.constraints
             ns == new.columns
             nks == new.constraints
  <1>1. \A kind, name : ~ Waits({}, kind, name)
    BY DEF Waits
  <1>2. /\ ColumnsOnTheWay({}, a.columns, cs, ns)
        /\ ConstraintsOnTheWay({}, a.constraints, ks, DOMAIN old.columns \ DOMAIN ns, nks)
    BY DEF OnTheWay
  <1>3. IsFunction(ks) /\ IsFunction(nks)
    BY DEF GoodTable, ModelTable, PartsOf
  <1> HIDE DEF cs, ks, ns, nks
  <1>4. /\ DOMAIN cs = DOMAIN ns
        /\ \A c \in DOMAIN ns : /\ cs[c].type = RenderType(ns[c].type)
                                /\ cs[c].null = ns[c].null /\ cs[c].default = ns[c].default
    BY <1>1, <1>2 DEF ColumnsOnTheWay
  <1>5. DOMAIN ks = DOMAIN nks /\ \A k \in DOMAIN nks : ks[k] = nks[k]
    BY <1>1, <1>2 DEF ConstraintsOnTheWay
  <1>6. ks = nks
    BY <1>3, <1>5 DEF IsFunction
  <1> QED
    BY <1>4, <1>6 DEF Like, cs, ks, ns, nks

LEMMA ColumnAdded ==
    ASSUME NEW W, NEW from, NEW cs, NEW new, ColumnsOnTheWay(W, from, cs, new),
           NEW c \in DOMAIN new, Waits(W, "add_column", c), ~ Waits(W, "alter_column", c),
           new[c] \in Column, new[c].null => ~ new[c].pk /\ ~ new[c].identity,
           NEW after, after = Extended(cs, c, Defined(new[c]))
    PROVE  ColumnsOnTheWay(W \ {<<"add_column", c>>}, from, after, new)
  <1> DEFINE V == W \ {<<"add_column", c>>}
  <1>1. \A kind, name : Waits(V, kind, name) <=>
                            Waits(W, kind, name) /\ ~ (kind = "add_column" /\ name = c)
    BY WaitsAfter
  <1>2. c \notin DOMAIN cs
    BY DEF ColumnsOnTheWay
  <1> DEFINE extended == Extended(cs, c, Defined(new[c]))
  <1>3. /\ DOMAIN extended = DOMAIN cs \cup {c} /\ \A d \in DOMAIN cs : extended[d] = cs[d]
        /\ c \notin DOMAIN cs => extended[c] = Defined(new[c])
    <2> DEFINE value == Defined(new[c])
               longer == Extended(cs, c, value)
    <2> HIDE DEF value
    <2>1. longer = [d \in DOMAIN cs \cup {c} |-> IF d \in DOMAIN cs THEN cs[d] ELSE value]
      BY DEF Extended
    <2> HIDE DEF longer
    <2>2. /\ DOMAIN longer = DOMAIN cs \cup {c} /\ \A d \in DOMAIN cs : longer[d] = cs[d]
          /\ c \notin DOMAIN cs => longer[c] = value
      BY <2>1
    <2> QED
      BY <2>2 DEF longer, value
  <1>9. after = extended
    OBVIOUS
  <1> HIDE DEF extended
  <1>4. /\ after[c].type = RenderType(new[c].type) /\ after[c].default = new[c].default
        /\ after[c].null = ((new[c].null \/ new[c].pk) /\ ~ new[c].identity)
    <2>1. after[c] = Defined(new[c])
      BY <1>2, <1>3, <1>9
    <2> QED
      BY <2>1, DefinedIs
  <1>5. new[c].pk => Waits(W, "create_constraint", PrimaryKeyName)
    BY DEF ColumnsOnTheWay
  <1>6. /\ new[c].null \in BOOLEAN /\ new[c].pk \in BOOLEAN /\ new[c].identity \in BOOLEAN
    BY DEF Column
  <1>7. after[c].null = new[c].null \/ new[c].pk
    BY <1>4, <1>6
  <1> HIDE DEF V
  <1>8. ColumnsOnTheWay(V, from, after, new)
    BY <1>1, <1>2, <1>3, <1>4, <1>5, <1>7, <1>9 DEF ColumnsOnTheWay
  <1> QED
    BY <1>8 DEF V

LEMMA ColumnDropped ==
    ASSUME NEW W, NEW from, NEW cs, NEW new, ColumnsOnTheWay(W, from, cs, new),
           NEW c, c \notin DOMAIN new,
           NEW after, DOMAIN after = DOMAIN cs \ {c}, \A d \in DOMAIN after : after[d] = cs[d]
    PROVE  ColumnsOnTheWay(W \ {<<"drop_column", c>>}, from, after, new)
  <1> DEFINE V == W \ {<<"drop_column", c>>}
  <1>1. \A kind, name : Waits(V, kind, name) <=>
                            Waits(W, kind, name) /\ ~ (kind = "drop_column" /\ name = c)
    BY WaitsAfter, ZenonT(40)
  <1> HIDE DEF V
  <1>2. ColumnsOnTheWay(V, from, after, new)
    BY <1>1 DEF ColumnsOnTheWay
  <1> QED
    BY <1>2 DEF V

LEMMA ColumnAltered ==
    ASSUME NEW W, NEW from, NEW cs, NEW old, NEW new, ColumnsOnTheWay(W, from, cs, new),
           NEW c \in DOMAIN new, Waits(W, "alter_column", c),
           new[c] \in Column, old[c] \in Column, cs[c] \in DbColumn,
           from[c].type = RenderType(old[c].type), from[c].null = old[c].null,
           from[c].default = old[c].default,
           NEW after,
           after = [d \in DOMAIN cs |-> IF d = c THEN Altered(cs[c], old[c], new[c]) ELSE cs[d]]
    PROVE  ColumnsOnTheWay(W \ {<<"alter_column", c>>}, from, after, new)
  <1> DEFINE V == W \ {<<"alter_column", c>>}
  <1>1. \A kind, name : Waits(V, kind, name) <=>
                            Waits(W, kind, name) /\ ~ (kind = "alter_column" /\ name = c)
    BY WaitsAfter
  <1>2. /\ c \in DOMAIN cs
        /\ cs[c].type = from[c].type /\ cs[c].default = from[c].default
        /\ cs[c].null = from[c].null \/ cs[c].null = new[c].null
    BY DEF ColumnsOnTheWay
  <1> DEFINE altered == Altered(cs[c], old[c], new[c])
  <1>3. /\ altered.type = IF new[c].type # old[c].type THEN RenderType(new[c].type) ELSE cs[c].type
        /\ altered.null = IF new[c].null # old[c].null THEN new[c].null ELSE cs[c].null
        /\ altered.default = IF new[c].default # old[c].default THEN new[c].default
                                                                ELSE cs[c].default
    BY AlteredIs
  <1>4. /\ DOMAIN after = DOMAIN cs /\ after[c] = altered
        /\ \A d \in DOMAIN cs : d # c => after[d] = cs[d]
    BY <1>2
  <1> HIDE DEF V, altered
  <1>5. /\ after[c].type = RenderType(new[c].type) /\ after[c].null = new[c].null
        /\ after[c].default = new[c].default
    BY <1>2, <1>3, <1>4
  <1>6. ColumnsOnTheWay(V, from, after, new)
    BY <1>1, <1>4, <1>5 DEF ColumnsOnTheWay
  <1> QED
    BY <1>6 DEF V

\* A key takes NULL from its columns; another constraint takes nothing.
LEMMA KeyCreated ==
    ASSUME NEW W, NEW from, NEW cs, NEW new, ColumnsOnTheWay(W, from, cs, new),
           \A c \in DOMAIN cs : cs[c] \in DbColumn,
           \A c \in DOMAIN new : new[c].null => ~ new[c].pk,
           \A c \in DOMAIN new : new[c] \in Column,
           NEW k, NEW key, k # PrimaryKeyName => key = {},
           k = PrimaryKeyName => key \subseteq DOMAIN cs /\ \A c \in DOMAIN new : new[c].pk <=> c \in key,
           NEW after, after = Keyed(cs, key)
    PROVE  ColumnsOnTheWay(W \ {<<"create_constraint", k>>}, from, after, new)
  <1> DEFINE V == W \ {<<"create_constraint", k>>}
  <1>1. \A kind, name : Waits(V, kind, name) <=>
                            Waits(W, kind, name) /\ ~ (kind = "create_constraint" /\ name = k)
    BY WaitsAfter
  <1>2. /\ DOMAIN after = DOMAIN cs
        /\ \A c \in DOMAIN cs :
               after[c] = IF c \in key THEN [cs[c] EXCEPT !.null = FALSE] ELSE cs[c]
    BY KeyedIs
  <1>3. ASSUME NEW c \in DOMAIN cs
        PROVE  /\ after[c].type = cs[c].type /\ after[c].default = cs[c].default
               /\ after[c].identity = cs[c].identity
               /\ after[c].null = IF c \in key THEN FALSE ELSE cs[c].null
    <2> DEFINE column == cs[c]
               keyed == [column EXCEPT !.null = FALSE]
    <2>1. column \in DbColumn
      OBVIOUS
    <2>2. after[c] = IF c \in key THEN keyed ELSE column
      BY <1>2
    <2> HIDE DEF column
    <2>3. /\ keyed.type = column.type /\ keyed.null = FALSE
          /\ keyed.default = column.default /\ keyed.identity = column.identity
      BY <2>1, KeyedColumns
    <2> HIDE DEF keyed
    <2> QED
      BY <2>2, <2>3 DEF column
  <1>4. \A c \in DOMAIN new : new[c].pk \in BOOLEAN /\ new[c].null \in BOOLEAN
    BY DEF Column
  <1> HIDE DEF V
  <1>5. ASSUME NEW c \in DOMAIN cs \cap DOMAIN new, c \in key PROVE new[c].null = FALSE
    BY <1>4, <1>5
  <1>6. CASE k = PrimaryKeyName
    <2>1. \A name : ~ Waits(V, "create_constraint", PrimaryKeyName)
      BY <1>1, <1>6
    <2>2. \A c \in DOMAIN new : Waits(V, "add_column", c) => c \notin DOMAIN cs /\ ~ new[c].pk
      BY <1>1, <1>6 DEF ColumnsOnTheWay
    <2>3. \A c \in DOMAIN cs \cap DOMAIN new : ~ Waits(V, "alter_column", c) =>
             /\ after[c].type = RenderType(new[c].type)
             /\ after[c].default = new[c].default
             /\ after[c].null = new[c].null
      BY <1>1, <1>3, <1>5, <1>6, ZenonT(40) DEF ColumnsOnTheWay
    <2>4. \A c \in DOMAIN new : Waits(V, "alter_column", c) =>
             /\ c \in DOMAIN cs
             /\ after[c].type = from[c].type /\ after[c].default = from[c].default
             /\ after[c].identity = from[c].identity
             /\ after[c].null = from[c].null \/ after[c].null = new[c].null
      BY <1>1, <1>3, <1>5, <1>6, ZenonT(40) DEF ColumnsOnTheWay
    <2>5. ColumnsOnTheWay(V, from, after, new)
      BY <1>1, <1>2, <2>2, <2>3, <2>4 DEF ColumnsOnTheWay
    <2> QED
      BY <2>5 DEF V
  <1>7. CASE k # PrimaryKeyName
    <2>1. \A c \in DOMAIN cs : after[c] = cs[c]
      BY <1>2, <1>7
    <2>2. ColumnsOnTheWay(V, from, after, new)
      BY <1>1, <1>2, <1>7, <2>1 DEF ColumnsOnTheWay
    <2> QED
      BY <2>2 DEF V
  <1> QED
    BY <1>6, <1>7

LEMMA ColumnsStay ==
    ASSUME NEW W, NEW from, NEW cs, NEW new, ColumnsOnTheWay(W, from, cs, new),
           NEW kind \in {"create_index", "drop_index", "drop_constraint"}, NEW name
    PROVE  ColumnsOnTheWay(W \ {<<kind, name>>}, from, cs, new)
  <1> DEFINE V == W \ {<<kind, name>>}
  <1>1. \A other, it : Waits(V, other, it) <=> Waits(W, other, it) /\ ~ (other = kind /\ it = name)
    BY WaitsAfter
  <1> HIDE DEF V
  <1>2. ColumnsOnTheWay(V, from, cs, new)
    BY <1>1 DEF ColumnsOnTheWay
  <1> QED
    BY <1>2 DEF V

LEMMA ConstraintCreated ==
    ASSUME NEW W, NEW from, NEW ks, NEW gone, NEW new, ConstraintsOnTheWay(W, from, ks, gone, new),
           NEW k \in DOMAIN new, k \notin DOMAIN ks,
           NEW after, after = Extended(ks, k, new[k])
    PROVE  ConstraintsOnTheWay(W \ {<<"create_constraint", k>>}, from, after, gone, new)
  <1> DEFINE V == W \ {<<"create_constraint", k>>}
  <1>1. \A kind, name : Waits(V, kind, name) <=>
                            Waits(W, kind, name) /\ ~ (kind = "create_constraint" /\ name = k)
    BY WaitsAfter
  <1> DEFINE extended == Extended(ks, k, new[k])
  <1>2. /\ DOMAIN extended = DOMAIN ks \cup {k} /\ \A l \in DOMAIN ks : extended[l] = ks[l]
        /\ k \notin DOMAIN ks => extended[k] = new[k]
    BY ExtendedIs, ZenonT(40)
  <1>5. after = extended
    OBVIOUS
  <1> HIDE DEF extended
  <1> HIDE DEF V
  <1>3. ConstraintsOnTheWay(V, from, after, gone, new)
    BY <1>1, <1>2, <1>5 DEF ConstraintsOnTheWay
  <1> QED
    BY <1>3 DEF V

LEMMA ConstraintDropped ==
    ASSUME NEW W, NEW from, NEW ks, NEW gone, NEW new, ConstraintsOnTheWay(W, from, ks, gone, new),
           NEW k, k \notin DOMAIN new,
           NEW after, after = Restrict(ks, DOMAIN ks \ {k})
    PROVE  ConstraintsOnTheWay(W \ {<<"drop_constraint", k>>}, from, after, gone, new)
  <1> DEFINE V == W \ {<<"drop_constraint", k>>}
  <1>1. \A kind, name : Waits(V, kind, name) <=>
                            Waits(W, kind, name) /\ ~ (kind = "drop_constraint" /\ name = k)
    BY WaitsAfter
  <1>2. DOMAIN after = DOMAIN ks \ {k} /\ \A l \in DOMAIN after : after[l] = ks[l]
    BY RestrictIs
  <1> HIDE DEF V
  <1>3. ConstraintsOnTheWay(V, from, after, gone, new)
    BY <1>1, <1>2 DEF ConstraintsOnTheWay
  <1> QED
    BY <1>3 DEF V

\* With a column go its constraints, and none that is to stay.
LEMMA ConstraintsDropped ==
    ASSUME NEW W, NEW from, NEW ks, NEW gone, NEW new, ConstraintsOnTheWay(W, from, ks, gone, new),
           \A k \in DOMAIN new : ~ Waits(W, "drop_constraint", k),
           NEW c \in gone, \A k \in DOMAIN new : c \notin new[k].columns,
           NEW after, DOMAIN after = {k \in DOMAIN ks : c \notin ks[k].columns},
           \A k \in DOMAIN after : after[k] = ks[k]
    PROVE  ConstraintsOnTheWay(W \ {<<"drop_column", c>>}, from, after, gone, new)
  <1> DEFINE V == W \ {<<"drop_column", c>>}
  <1>1. \A kind, name : Waits(V, kind, name) <=>
                            Waits(W, kind, name) /\ ~ (kind = "drop_column" /\ name = c)
    BY WaitsAfter
  <1> HIDE DEF V
  <1>2. \A k \in DOMAIN new : k \in DOMAIN after \/ Waits(V, "create_constraint", k)
    BY <1>1 DEF ConstraintsOnTheWay
  <1>3. \E d \in gone : ~ Waits(V, "drop_column", d)
    BY <1>1
  <1>4. ConstraintsOnTheWay(V, from, after, gone, new)
    BY <1>1, <1>2, <1>3 DEF ConstraintsOnTheWay
  <1> QED
    BY <1>4 DEF V

LEMMA ConstraintsStay ==
    ASSUME NEW W, NEW from, NEW ks, NEW gone, NEW new, ConstraintsOnTheWay(W, from, ks, gone, new),
           NEW kind \in {"add_column", "alter_column", "create_index", "drop_index"}, NEW name
    PROVE  ConstraintsOnTheWay(W \ {<<kind, name>>}, from, ks, gone, new)
  <1> DEFINE V == W \ {<<kind, name>>}
  <1>1. \A other, it : Waits(V, other, it) <=> Waits(W, other, it) /\ ~ (other = kind /\ it = name)
    BY WaitsAfter
  <1> HIDE DEF V
  <1>2. ConstraintsOnTheWay(V, from, ks, gone, new)
    BY <1>1 DEF ConstraintsOnTheWay
  <1> QED
    BY <1>2 DEF V

\* One operation further.
LEMMA GoesOn ==
    ASSUME NEW old, NEW new, ModelTable(old), ModelTable(new), Declared(new),
           NEW a, Like(a, old), NEW b, GoodTable(b, DbColumn),
           NEW all, Leads(all, old, new), NEW W \in SUBSET all, OnTheWay(W, a, b, old, new),
           NEW op, Waits(W, op.kind, op.name),
           op.kind \in {"create_index", "drop_index"} \/ DiffersInTable(op, new, old),
           op.kind = "create_constraint" =>
               op.name \notin DOMAIN b.constraints /\ op.def.columns \subseteq DOMAIN b.columns
    PROVE  OnTheWay(W \ {<<op.kind, op.name>>}, a, AlteredTable(b, op), old, new)
  <1> DEFINE V == W \ {<<op.kind, op.name>>}
             cs == b.columns
             ks == b.constraints
             os == old.columns
             ns == new.columns
             nks == new.constraints
             gone == DOMAIN os \ DOMAIN ns
             after == AlteredTable(b, op)
             it == op.name
  <1>1. /\ ColumnsOnTheWay(W, a.columns, cs, ns)
        /\ ConstraintsOnTheWay(W, a.constraints, ks, gone, nks)
    BY DEF OnTheWay
  <1>2. b = [columns |-> cs, indexes |-> b.indexes, constraints |-> ks]
    BY DEF GoodTable
  <1>3. \A c \in DOMAIN ns : ns[c] \in Column /\ (ns[c].null => ~ ns[c].pk /\ ~ ns[c].identity)
    BY DEF ModelTable, GoodTable, Declared
  <1>4. ASSUME ColumnsOnTheWay(V, a.columns, after.columns, ns),
               ConstraintsOnTheWay(V, a.constraints, after.constraints, gone, nks)
        PROVE  OnTheWay(V, a, after, old, new)
    BY <1>4 DEF OnTheWay
  <1>5. \A kind, name : Waits(W, kind, name) => Waits(all, kind, name)
    BY DEF Waits
  <1>6. ASSUME op.kind = "add_column" PROVE OnTheWay(V, a, after, old, new)
    <2>1. it \in DOMAIN ns /\ it \notin DOMAIN os /\ op.def = ns[it]
      BY <1>6 DEF DiffersInTable
    <2>2. /\ after.columns = Extended(cs, it, Defined(ns[it])) /\ after.constraints = ks
      <3>1. after = [columns |-> Extended(cs, it, Defined(op.def)),
                     indexes |-> b.indexes, constraints |-> ks]
        BY <1>2, <1>6, AlteredTableIs
      <3> QED
        BY <2>1, <3>1
    <2>3. ~ Waits(W, "alter_column", it)
      BY <1>5, <2>1 DEF Leads
    <2> DEFINE extended == after.columns
    <2>4. extended = Extended(cs, it, Defined(ns[it])) /\ Waits(W, "add_column", it)
      BY <1>6, <2>2
    <2> HIDE DEF after, cs, ks, os, ns, nks, gone, it, extended
    <2>5. ColumnsOnTheWay(W \ {<<"add_column", it>>}, a.columns, extended, ns)
      BY <1>1, <1>3, <2>1, <2>3, <2>4, ColumnAdded
    <2>6. ConstraintsOnTheWay(W \ {<<"add_column", it>>}, a.constraints, ks, gone, nks)
      BY <1>1, ConstraintsStay
    <2> QED
      BY <1>4, <1>6, <2>2, <2>5, <2>6 DEF extended, it
  <1>7. ASSUME op.kind = "drop_column" PROVE OnTheWay(V, a, after, old, new)
    <2>1. it \in gone /\ it \notin DOMAIN ns
      BY <1>7 DEF DiffersInTable
    <2>2. after = WithoutColumn(b, it)
      BY <1>2, <1>7, AlteredTableIs
    <2>3. /\ DOMAIN after.columns = DOMAIN cs \ {it}
          /\ \A d \in DOMAIN after.columns : after.columns[d] = cs[d]
          /\ DOMAIN after.constraints = {k \in DOMAIN ks : it \notin ks[k].columns}
          /\ \A k \in DOMAIN after.constraints : after.constraints[k] = ks[k]
      <3> DEFINE without == WithoutColumn(b, it)
      <3>1. /\ DOMAIN without.columns = DOMAIN cs \ {it}
            /\ \A d \in DOMAIN without.columns : without.columns[d] = cs[d]
            /\ DOMAIN without.constraints = {k \in DOMAIN ks : it \notin ks[k].columns}
            /\ \A k \in DOMAIN without.constraints : without.constraints[k] = ks[k]
        BY WithoutColumnIs
      <3>2. after = without
        BY <2>2
      <3> HIDE DEF without, after
      <3> QED
        BY <3>1, <3>2
    <2>4. \A k \in DOMAIN nks : ~ Waits(W, "drop_constraint", k) /\ it \notin nks[k].columns
      <3>1. \A k \in DOMAIN nks : ~ Waits(all, "drop_constraint", k)
        BY DEF Leads
      <3>2. \A k \in DOMAIN nks : nks[k].columns \subseteq DOMAIN ns
        BY DEF ModelTable, GoodTable, PartsOf
      <3> QED
        BY <1>5, <2>1, <3>1, <3>2
    <2> DEFINE columns == after.columns
               constraints == after.constraints
    <2> HIDE DEF after, cs, ks, os, ns, nks, gone, it
    <2>5. ColumnsOnTheWay(W \ {<<"drop_column", it>>}, a.columns, columns, ns)
      <3>1. DOMAIN columns = DOMAIN cs \ {it} /\ \A d \in DOMAIN columns : columns[d] = cs[d]
        BY <2>3
      <3> HIDE DEF columns
      <3> QED
        BY <1>1, <2>1, <3>1, ColumnDropped
    <2>6. ConstraintsOnTheWay(W \ {<<"drop_column", it>>}, a.constraints, constraints, gone, nks)
      <3>1. /\ DOMAIN constraints = {k \in DOMAIN ks : it \notin ks[k].columns}
            /\ \A k \in DOMAIN constraints : constraints[k] = ks[k]
        BY <2>3
      <3> HIDE DEF constraints, columns
      <3> QED
        BY <1>1, <2>1, <2>4, <3>1, ConstraintsDropped
    <2> QED
      BY <1>4, <1>7, <2>5, <2>6 DEF it
  <1>8. ASSUME op.kind = "alter_column" PROVE OnTheWay(V, a, after, old, new)
    <2>1. /\ it \in DOMAIN ns /\ it \in DOMAIN os
          /\ op.def.to = ns[it] /\ op.def.from = os[it]
      BY <1>8 DEF DiffersInTable
    <2>2. /\ after.columns = [d \in DOMAIN cs |-> IF d = it THEN Altered(cs[d], os[it], ns[it])
                                                            ELSE cs[d]]
          /\ after.constraints = ks
      <3> DEFINE altered == [d \in DOMAIN cs |-> IF d = it
                                                 THEN Altered(cs[d], op.def.from, op.def.to)
                                                 ELSE cs[d]]
      <3>1. after = [columns |-> altered, indexes |-> b.indexes, constraints |-> ks]
        BY <1>2, <1>8, AlteredTableIs, ZenonT(40)
      <3>2. altered = [d \in DOMAIN cs |-> IF d = it THEN Altered(cs[d], os[it], ns[it]) ELSE cs[d]]
        BY <2>1
      <3> HIDE DEF altered, after
      <3> QED
        BY <3>1, <3>2
    <2>3. os[it] \in Column
      BY <2>1 DEF ModelTable, GoodTable
    <2>4. Waits(W, "alter_column", it) /\ it \in DOMAIN cs
      BY <1>1, <1>8, <2>1 DEF ColumnsOnTheWay
    <2>5. cs[it] \in DbColumn
      BY <2>4 DEF GoodTable
    <2> DEFINE from == a.columns
               altered == after.columns
    <2>6. /\ from[it].type = RenderType(os[it].type) /\ from[it].null = os[it].null
          /\ from[it].default = os[it].default
      BY <2>1 DEF Like
    <2> HIDE DEF after, cs, ks, os, ns, nks, gone, it, from
    <2>7. altered = [d \in DOMAIN cs |-> IF d = it THEN Altered(cs[it], os[it], ns[it]) ELSE cs[d]]
      BY <2>2
    <2> HIDE DEF altered
    <2>8. ColumnsOnTheWay(W, from, cs, ns) /\ ns[it] \in Column /\ it \in DOMAIN ns
      BY <1>1, <1>3, <2>1 DEF from
    <2>9. ColumnsOnTheWay(W \ {<<"alter_column", it>>}, from, altered, ns)
      BY <2>3, <2>4, <2>5, <2>6, <2>7, <2>8, ColumnAltered
    <2>10. ConstraintsOnTheWay(W \ {<<"alter_column", it>>}, a.constraints, ks, gone, nks)
      BY <1>1, ConstraintsStay
    <2> QED
      BY <1>4, <1>8, <2>2, <2>9, <2>10 DEF altered, from, it
  <1>9. ASSUME op.kind \in {"create_index", "drop_index"} PROVE OnTheWay(V, a, after, old, new)
    <2>1. after.columns = cs /\ after.constraints = ks
      <3>1. \/ after = [columns |-> cs, indexes |-> Extended(b.indexes, it, op.def),
                        constraints |-> ks]
            \/ after = [columns |-> cs, indexes |-> Restrict(b.indexes, DOMAIN b.indexes \ {it}),
                        constraints |-> ks]
        BY <1>2, <1>9, AlteredTableIs
      <3> QED
        BY <3>1
    <2> HIDE DEF after, cs, ks, os, ns, nks, gone
    <2>2. ColumnsOnTheWay(V, a.columns, cs, ns)
      BY <1>1, <1>9, ColumnsStay
    <2>3. ConstraintsOnTheWay(V, a.constraints, ks, gone, nks)
      BY <1>1, <1>9, ConstraintsStay
    <2> QED
      BY <1>4, <2>1, <2>2, <2>3
  <1>10. ASSUME op.kind = "create_constraint" PROVE OnTheWay(V, a, after, old, new)
    <2> DEFINE key == IF it = PrimaryKeyName THEN op.def.columns ELSE {}
    <2>1. it \in DOMAIN nks /\ op.def = nks[it]
      BY <1>10 DEF DiffersInTable
    <2>2. it = PrimaryKeyName => \A c \in DOMAIN ns : ns[c].pk <=> c \in key
      BY <2>1 DEF ModelTable, InKey
    <2>3. after.columns = Keyed(cs, key) /\ after.constraints = Extended(ks, it, nks[it])
      <3>1. after = [columns |-> Keyed(cs, key), indexes |-> b.indexes,
                     constraints |-> Extended(ks, it, op.def)]
        BY <1>2, <1>10, AlteredTableIs
      <3> HIDE DEF after
      <3> QED
        BY <2>1, <3>1
    <2>4. /\ it # PrimaryKeyName => key = {}
          /\ it = PrimaryKeyName => key \subseteq DOMAIN cs
          /\ it \notin DOMAIN ks
      BY <1>10
    <2>5. \A c \in DOMAIN cs : cs[c] \in DbColumn
      BY DEF GoodTable
    <2> DEFINE columns == after.columns
               constraints == after.constraints
    <2> HIDE DEF after, cs, ks, os, ns, nks, gone, it, key
    <2>6. columns = Keyed(cs, key) /\ constraints = Extended(ks, it, nks[it])
      BY <2>3
    <2> HIDE DEF columns, constraints
    <2>7. ColumnsOnTheWay(W \ {<<"create_constraint", it>>}, a.columns, columns, ns)
      BY <1>1, <1>3, <2>2, <2>4, <2>5, <2>6, KeyCreated
    <2>8. ConstraintsOnTheWay(W \ {<<"create_constraint", it>>}, a.constraints, constraints, gone, nks)
      BY <1>1, <2>1, <2>4, <2>6, ConstraintCreated
    <2> QED
      BY <1>4, <1>10, <2>7, <2>8 DEF columns, constraints, it
  <1>11. ASSUME op.kind = "drop_constraint" PROVE OnTheWay(V, a, after, old, new)
    <2>1. it \notin DOMAIN nks
      BY <1>11 DEF DiffersInTable
    <2>2. after.columns = cs /\ after.constraints = Restrict(ks, DOMAIN ks \ {it})
      <3>1. after = [columns |-> cs, indexes |-> b.indexes,
                     constraints |-> Restrict(ks, DOMAIN ks \ {it})]
        BY <1>2, <1>11, AlteredTableIs
      <3> HIDE DEF after
      <3> QED
        BY <3>1
    <2> DEFINE constraints == after.constraints
    <2> HIDE DEF after, cs, ks, os, ns, nks, gone, it
    <2>3. constraints = Restrict(ks, DOMAIN ks \ {it})
      BY <2>2
    <2> HIDE DEF constraints
    <2>4. ColumnsOnTheWay(W \ {<<"drop_constraint", it>>}, a.columns, cs, ns)
      BY <1>1, ColumnsStay
    <2>5. ConstraintsOnTheWay(W \ {<<"drop_constraint", it>>}, a.constraints, constraints, gone, nks)
      BY <1>1, <2>1, <2>3, ConstraintDropped
    <2> QED
      BY <1>4, <1>11, <2>2, <2>4, <2>5 DEF constraints, it
  <1>12. op.kind \in {"add_column", "drop_column", "alter_column", "create_index", "drop_index",
                      "create_constraint", "drop_constraint"}
    BY DEF DiffersInTable
  <1>13. OnTheWay(V, a, after, old, new)
    BY <1>6, <1>7, <1>8, <1>9, <1>10, <1>11, <1>12
  <1> QED
    BY <1>13

-----------------------------------------------------------------------------
\* A database on its way from one schema to another

Waiting(file, n, t) ==
    {<<file[j].kind, file[j].name>> : j \in {i \in DOMAIN file : i > n /\ file[i].table = t}}

Distinct(file) ==
    \A i \in DOMAIN file, j \in DOMAIN file :
        file[i].kind = file[j].kind /\ file[i].table = file[j].table /\ file[i].name = file[j].name
            => i = j

\* The operations of a file lead from the schema O to N: none is superfluous, and none is
\* missing but what creates tables, and indexes.
FileLeads(file, O, N) ==
    /\ Len(file) \in Nat /\ DOMAIN file = 1..Len(file) /\ Distinct(file)
    /\ \A i \in DOMAIN file :
          \/ /\ file[i].kind = "create_table" /\ file[i].table \in DOMAIN N \ DOMAIN O
             /\ file[i].def = N[file[i].table]
          \/ file[i].kind = "drop_table" /\ file[i].table \in DOMAIN O \ DOMAIN N
          \/ /\ file[i].table \in DOMAIN O \cap DOMAIN N
             /\ \/ file[i].kind \in {"create_index", "drop_index"}
                \/ DiffersInTable(file[i], N[file[i].table], O[file[i].table])
    /\ \A t \in DOMAIN O \cap DOMAIN N : Leads(Waiting(file, 0, t), O[t], N[t])
    /\ \A t \in DOMAIN O \ DOMAIN N : \E i \in DOMAIN file :
          file[i].kind = "drop_table" /\ file[i].table = t

Describes(O, d) ==
    DOMAIN d \subseteq DOMAIN O /\ \A t \in DOMAIN d : Like(d[t], O[t])

\* The database e has the first n operations of a file behind it, that began with d.
Underway(file, n, d, e, O, N) ==
    /\ \A t \in DOMAIN e :
          \/ /\ t \in DOMAIN O \ DOMAIN N
             /\ \E i \in DOMAIN file : i > n /\ file[i].kind = "drop_table" /\ file[i].table = t
          \/ t \in DOMAIN N \ DOMAIN O /\ Like(e[t], N[t])
          \/ /\ t \in DOMAIN O \cap DOMAIN N \cap DOMAIN d
             /\ OnTheWay(Waiting(file, n, t), d[t], e[t], O[t], N[t])
    /\ \A t \in DOMAIN d : t \in DOMAIN N => t \in DOMAIN e
    /\ \A i \in DOMAIN file : i <= n /\ file[i].kind = "create_table" => file[i].table \in DOMAIN e

LEMMA WaitingSteps ==
    ASSUME NEW file, Len(file) \in Nat, DOMAIN file = 1..Len(file), Distinct(file), NEW t,
           NEW n \in DOMAIN file
    PROVE  /\ Waiting(file, n, t) =
                  IF file[n].table = t
                  THEN Waiting(file, n - 1, t) \ {<<file[n].kind, file[n].name>>}
                  ELSE Waiting(file, n - 1, t)
           /\ file[n].table = t => Waits(Waiting(file, n - 1, t), file[n].kind, file[n].name)
  <1> DEFINE before == {i \in DOMAIN file : i > n - 1 /\ file[i].table = t}
             after == {i \in DOMAIN file : i > n /\ file[i].table = t}
  <1>1. before = IF file[n].table = t THEN after \cup {n} ELSE after
    <2>1. \A i \in DOMAIN file : i > n - 1 <=> i > n \/ i = n
      OBVIOUS
    <2> QED
      BY <2>1
  <1>2. n \notin after /\ after \subseteq DOMAIN file
    OBVIOUS
  <1>3. /\ Waiting(file, n - 1, t) = {<<file[j].kind, file[j].name>> : j \in before}
        /\ Waiting(file, n, t) = {<<file[j].kind, file[j].name>> : j \in after}
    BY DEF Waiting
  <1>4. \A j \in after : file[j].table = t
    OBVIOUS
  <1> HIDE DEF before, after
  <1>5. CASE file[n].table # t
    BY <1>1, <1>3, <1>5
  <1>6. CASE file[n].table = t
    <2> DEFINE pair == <<file[n].kind, file[n].name>>
    <2>1. \A j \in after : <<file[j].kind, file[j].name>> # pair
      <3> TAKE j \in after
      <3>1. ~ (file[j].kind = file[n].kind /\ file[j].name = file[n].name)
        BY <1>2, <1>4, <1>6 DEF Distinct
      <3> QED
        BY <3>1
    <2>2. Waiting(file, n - 1, t) = {<<file[j].kind, file[j].name>> : j \in after} \cup {pair}
      BY <1>1, <1>3, <1>6
    <2> HIDE DEF pair
    <2>3. Waiting(file, n, t) = Waiting(file, n - 1, t) \ {pair}
      BY <1>3, <2>1, <2>2
    <2>4. pair \in Waiting(file, n - 1, t)
      BY <2>2
    <2> QED
      BY <1>6, <2>3, <2>4 DEF pair, Waits
  <1> QED
    BY <1>5, <1>6

LEMMA WaitingIs ==
    ASSUME NEW file, Len(file) \in Nat, DOMAIN file = 1..Len(file), NEW n \in Nat, NEW t
    PROVE  /\ \A kind, name : Waits(Waiting(file, n, t), kind, name) <=>
                  \E j \in DOMAIN file : /\ j > n /\ file[j].table = t
                                         /\ file[j].kind = kind /\ file[j].name = name
           /\ Waiting(file, n, t) \in SUBSET Waiting(file, 0, t)
           /\ n = Len(file) => Waiting(file, n, t) = {}
  <1>1. ASSUME NEW kind, NEW name
        PROVE  Waits(Waiting(file, n, t), kind, name) <=>
                   \E j \in DOMAIN file : /\ j > n /\ file[j].table = t
                                          /\ file[j].kind = kind /\ file[j].name = name
    BY DEF Waits, Waiting
  <1>2. Waiting(file, n, t) \in SUBSET Waiting(file, 0, t)
    BY DEF Waiting
  <1>3. n = Len(file) => Waiting(file, n, t) = {}
    BY DEF Waiting
  <1> QED
    BY <1>1, <1>2, <1>3

LEMMA CreatedIsLike ==
    ASSUME NEW s, ModelTable(s), Declared(s)
    PROVE  Like(Created(s), s)
  <1> DEFINE b == Created(s)
             key == IF PrimaryKeyName \in DOMAIN s.constraints
                    THEN s.constraints[PrimaryKeyName].columns ELSE {}
  <1>1. /\ DOMAIN b.columns = DOMAIN s.columns
        /\ \A c \in DOMAIN s.columns :
               /\ b.columns[c].type = RenderType(s.columns[c].type)
               /\ b.columns[c].default = s.columns[c].default
               /\ b.columns[c].null = (/\ c \notin key
                                       /\ s.columns[c].null \/ s.columns[c].pk
                                       /\ ~ s.columns[c].identity)
        /\ b.constraints = s.constraints
    BY CreatedIsGood
  <1>2. \A c \in DOMAIN s.columns : s.columns[c].pk <=> c \in key
    BY DEF ModelTable, InKey
  <1>3. \A c \in DOMAIN s.columns : /\ s.columns[c].pk \in BOOLEAN
                                    /\ s.columns[c].null \in BOOLEAN
                                    /\ s.columns[c].identity \in BOOLEAN
    BY DEF ModelTable, GoodTable, Column
  <1> HIDE DEF b, key
  <1>4. \A c \in DOMAIN s.columns : b.columns[c].null = s.columns[c].null
    BY <1>1, <1>2, <1>3 DEF Declared
  <1> QED
    BY <1>1, <1>4 DEF Like, b

LEMMA FileSetsOut ==
    ASSUME NEW O, NEW N, GoodSchema(O), GoodSchema(N), NEW file, FileLeads(file, O, N),
           NEW d, Describes(O, d)
    PROVE  Underway(file, 0, d, d, O, N)
  <1>1. ASSUME NEW t \in DOMAIN d, t \in DOMAIN N
        PROVE  OnTheWay(Waiting(file, 0, t), d[t], d[t], O[t], N[t])
    <2>1. t \in DOMAIN O /\ Like(d[t], O[t])
      BY DEF Describes
    <2>2. Leads(Waiting(file, 0, t), O[t], N[t])
      BY <1>1, <2>1 DEF FileLeads
    <2>3. ModelTable(O[t]) /\ ModelTable(N[t])
      BY <1>1, <2>1 DEF GoodSchema
    <2> QED
      BY <2>1, <2>2, <2>3, SetsOut
  <1>2. ASSUME NEW t \in DOMAIN d, t \notin DOMAIN N
        PROVE  t \in DOMAIN O /\ \E i \in DOMAIN file : /\ i > 0 /\ file[i].kind = "drop_table"
                                                        /\ file[i].table = t
    BY <1>2 DEF Describes, FileLeads
  <1>3. \A i \in DOMAIN file : ~ i <= 0
    BY DEF FileLeads
  <1>4. DOMAIN d \subseteq DOMAIN O
    BY DEF Describes
  <1> QED
    BY <1>1, <1>2, <1>3, <1>4 DEF Underway

LEMMA FileGoesOn ==
    ASSUME NEW O, NEW N, GoodSchema(O), GoodSchema(N), Declarable(N),
           NEW d, Describes(O, d), NEW file, FileLeads(file, O, N),
           NEW n \in DOMAIN file, NEW e, GoodDb(e), Underway(file, n - 1, d, e, O, N),
           ~ Refused(e, file[n])
    PROVE  Underway(file, n, d, Executed(e, file[n]), O, N)
  <1> DEFINE op == file[n]
             f == Executed(e, op)
  <1>1. /\ Len(file) \in Nat /\ DOMAIN file = 1..Len(file) /\ Distinct(file) /\ n \in Nat /\ n - 1 \in Nat
        /\ \A i \in DOMAIN file : i > n - 1 <=> i > n \/ i = n
        /\ \A i \in DOMAIN file : i <= n <=> i <= n - 1 \/ i = n
    BY DEF FileLeads
  <1>2. \/ op.kind = "create_table" /\ op.table \in DOMAIN N \ DOMAIN O /\ op.def = N[op.table]
        \/ op.kind = "drop_table" /\ op.table \in DOMAIN O \ DOMAIN N
        \/ /\ op.table \in DOMAIN O \cap DOMAIN N
           /\ \/ op.kind \in {"create_index", "drop_index"}
              \/ DiffersInTable(op, N[op.table], O[op.table])
    BY DEF FileLeads
  <1>3. \A t \in DOMAIN O \cap DOMAIN N : Leads(Waiting(file, 0, t), O[t], N[t])
    BY DEF FileLeads
  <1>4. ASSUME NEW t
        PROVE  /\ Waiting(file, n, t) =
                      IF op.table = t THEN Waiting(file, n - 1, t) \ {<<op.kind, op.name>>}
                                      ELSE Waiting(file, n - 1, t)
               /\ op.table = t => Waits(Waiting(file, n - 1, t), op.kind, op.name)
               /\ Waiting(file, n - 1, t) \in SUBSET Waiting(file, 0, t)
    BY <1>1, WaitingSteps, WaitingIs
  <1>5. /\ op.kind = "create_table" =>
               /\ DOMAIN f = DOMAIN e \cup {op.table}
               /\ \A t \in DOMAIN e : f[t] = e[t]
               /\ op.table \notin DOMAIN e => f[op.table] = Created(op.def)
        /\ op.kind = "drop_table" =>
               /\ DOMAIN f = DOMAIN e \ {op.table}
               /\ \A t \in DOMAIN f : f[t] = e[t]
        /\ op.kind \notin {"create_table", "drop_table"} =>
               /\ DOMAIN f = DOMAIN e
               /\ \A t \in DOMAIN e : t # op.table => f[t] = e[t]
               /\ op.table \in DOMAIN e => f[op.table] = AlteredTable(e[op.table], op)
    BY ExecutedIs, ZenonT(40)
  <1>6. ~ Refused(e, op)
    OBVIOUS
  <1> HIDE DEF f
  <1>7. ASSUME NEW t \in DOMAIN e, t \in DOMAIN f, f[t] = e[t], t # op.table
        PROVE  \/ /\ t \in DOMAIN O \ DOMAIN N
                  /\ \E i \in DOMAIN file : /\ i > n /\ file[i].kind = "drop_table"
                                            /\ file[i].table = t
               \/ t \in DOMAIN N \ DOMAIN O /\ Like(f[t], N[t])
               \/ /\ t \in DOMAIN O \cap DOMAIN N \cap DOMAIN d
                  /\ OnTheWay(Waiting(file, n, t), d[t], f[t], O[t], N[t])
    <2>1. Waiting(file, n, t) = Waiting(file, n - 1, t)
      BY <1>4, <1>7
    <2>2. \A i \in DOMAIN file : i > n - 1 /\ file[i].table = t => i > n
      BY <1>1, <1>7
    <2> QED
      BY <1>7, <2>1, <2>2 DEF Underway
  <1> DEFINE Stays(t) == \/ /\ t \in DOMAIN O \ DOMAIN N
                            /\ \E i \in DOMAIN file : /\ i > n /\ file[i].kind = "drop_table"
                                                      /\ file[i].table = t
                         \/ t \in DOMAIN N \ DOMAIN O /\ Like(f[t], N[t])
                         \/ /\ t \in DOMAIN O \cap DOMAIN N \cap DOMAIN d
                            /\ OnTheWay(Waiting(file, n, t), d[t], f[t], O[t], N[t])
  <1>8. \A t \in DOMAIN e : t \in DOMAIN f /\ f[t] = e[t] /\ t # op.table => Stays(t)
    BY <1>7
  <1>9. ASSUME \A t \in DOMAIN f : Stays(t),
               \A t \in DOMAIN d : t \in DOMAIN N => t \in DOMAIN f,
               \A i \in DOMAIN file : i <= n /\ file[i].kind = "create_table" => file[i].table \in DOMAIN f
        PROVE  Underway(file, n, d, f, O, N)
    BY <1>9 DEF Underway
  <1> HIDE DEF Stays
  <1>10. ASSUME op.kind = "create_table" PROVE Underway(file, n, d, f, O, N)
    <2>1. op.table \in DOMAIN N \ DOMAIN O /\ op.def = N[op.table]
      BY <1>2, <1>10 DEF DiffersInTable
    <2>2. Like(f[op.table], N[op.table])
      <3>1. CASE op.table \in DOMAIN e
        BY <1>5, <1>10, <2>1, <3>1 DEF Underway
      <3>2. CASE op.table \notin DOMAIN e
        <4>1. ModelTable(N[op.table]) /\ Declared(N[op.table])
          BY <2>1 DEF GoodSchema, Declarable, Declared
        <4> QED
          BY <1>5, <1>10, <2>1, <3>2, <4>1, CreatedIsLike
      <3> QED
        BY <3>1, <3>2
    <2>3. Stays(op.table)
      BY <2>1, <2>2 DEF Stays
    <2>4. \A t \in DOMAIN f : Stays(t)
      BY <1>5, <1>8, <1>10, <2>3
    <2> QED
      BY <1>1, <1>5, <1>9, <1>10, <2>4 DEF Underway
  <1>11. ASSUME op.kind = "drop_table" PROVE Underway(file, n, d, f, O, N)
    <2>1. op.table \in DOMAIN O \ DOMAIN N
      BY <1>2, <1>11 DEF DiffersInTable
    <2>2. \A t \in DOMAIN f : Stays(t)
      BY <1>5, <1>8, <1>11
    <2>3. \A i \in DOMAIN file : file[i].kind = "create_table" => file[i].table # op.table
      BY <2>1 DEF FileLeads, DiffersInTable
    <2> QED
      BY <1>1, <1>5, <1>9, <1>11, <2>1, <2>2, <2>3 DEF Underway
  <1>12. ASSUME op.kind \notin {"create_table", "drop_table"} PROVE Underway(file, n, d, f, O, N)
    <2> DEFINE t == op.table
    <2>1. /\ t \in DOMAIN O /\ t \in DOMAIN N
          /\ op.kind \in {"create_index", "drop_index"} \/ DiffersInTable(op, N[t], O[t])
      BY <1>2, <1>12
    <2>2. ASSUME t \in DOMAIN e PROVE Stays(t)
      <3> DEFINE W == Waiting(file, n - 1, t)
      <3>1. t \in DOMAIN d /\ OnTheWay(W, d[t], e[t], O[t], N[t])
        BY <2>1, <2>2 DEF Underway
      <3>2. /\ Waiting(file, n, t) = W \ {<<op.kind, op.name>>}
            /\ Waits(W, op.kind, op.name) /\ W \in SUBSET Waiting(file, 0, t)
        BY <1>4
      <3>3. ModelTable(O[t]) /\ ModelTable(N[t]) /\ Declared(N[t])
        BY <2>1 DEF GoodSchema, Declarable, Declared
      <3>4. Like(d[t], O[t]) /\ GoodTable(e[t], DbColumn)
        BY <2>2, <3>1 DEF Describes, GoodDb
      <3>5. Leads(Waiting(file, 0, t), O[t], N[t])
        BY <1>3, <2>1
      <3>6. op.kind = "create_constraint" =>
                op.name \notin DOMAIN e[t].constraints /\ op.def.columns \subseteq DOMAIN e[t].columns
        BY <1>6 DEF Refused, AltersNothing
      <3>7. f[t] = AlteredTable(e[t], op)
        BY <1>5, <1>12, <2>2
      <3> HIDE DEF W, t, op
      <3>8. OnTheWay(W \ {<<op.kind, op.name>>}, d[t], AlteredTable(e[t], op), O[t], N[t])
        BY <2>1, <3>1, <3>2, <3>3, <3>4, <3>5, <3>6, GoesOn
      <3> QED
        BY <2>1, <3>1, <3>2, <3>7, <3>8 DEF Stays
    <2>3. \A u \in DOMAIN f : Stays(u)
      BY <1>5, <1>8, <1>12, <2>2
    <2> QED
      BY <1>1, <1>5, <1>9, <1>12, <2>3 DEF Underway
  <1>13. Underway(file, n, d, f, O, N)
    BY <1>10, <1>11, <1>12
  <1> QED
    BY <1>13 DEF f

LEMMA FileIsUnderway ==
    ASSUME NEW O, NEW N, GoodSchema(O), GoodSchema(N), Declarable(N),
           NEW d, GoodDb(d), Describes(O, d), NEW file, GoodFile(file), FileLeads(file, O, N),
           NEW n \in 0..Len(file), \A i \in 1..n : ~ Refused(Along(d, file)[i - 1], file[i])
    PROVE  GoodDb(Along(d, file)[n]) /\ Underway(file, n, d, Along(d, file)[n], O, N)
  <1> DEFINE after == Along(d, file)
             T == {m \in 0..n : GoodDb(after[m]) /\ Underway(file, m, d, after[m], O, N)}
  <1>1. /\ Len(file) \in Nat /\ DOMAIN file = 1..Len(file) /\ \A i \in DOMAIN file : GoodOp(file[i])
        /\ after[0] = d /\ \A i \in 1..Len(file) : after[i] = Executed(after[i - 1], file[i])
    BY AlongSteps DEF GoodFile
  <1>2. \A i \in 1..n : ~ Refused(after[i - 1], file[i])
    OBVIOUS
  <1>3. n \in Nat /\ n <= Len(file)
    BY <1>1
  <1> HIDE DEF after
  <1>4. 0 \in T
    BY <1>1, <1>3, FileSetsOut
  <1>5. ASSUME NEW m \in 0..n-1, m \in T PROVE m + 1 \in T
    <2> DEFINE i == m + 1
    <2>1. i \in 1..n /\ i \in DOMAIN file /\ i - 1 = m /\ i \in 0..n
      BY <1>1, <1>3
    <2> HIDE DEF i
    <2>2. /\ GoodDb(after[i - 1]) /\ Underway(file, i - 1, d, after[i - 1], O, N)
          /\ ~ Refused(after[i - 1], file[i]) /\ GoodOp(file[i])
          /\ after[i] = Executed(after[i - 1], file[i])
      BY <1>1, <1>2, <1>5, <2>1
    <2> DEFINE e == after[i - 1]
    <2> HIDE DEF e
    <2>3. GoodDb(Executed(e, file[i]))
      BY <2>2, ExecutedIsGood DEF e
    <2>4. GoodDb(e) /\ Underway(file, i - 1, d, e, O, N) /\ ~ Refused(e, file[i])
      BY <2>2 DEF e
    <2>5. Underway(file, i, d, Executed(e, file[i]), O, N)
      BY <2>1, <2>4, FileGoesOn
    <2>6. i \in T
      BY <2>1, <2>2, <2>3, <2>5 DEF e
    <2> QED
      BY <2>6 DEF i
  <1>6. n \in T
    <2> HIDE DEF T
    <2> QED
      BY <1>3, <1>4, <1>5, UpTo
  <1> QED
    BY <1>6 DEF after

LEMMA FileArrives ==
    ASSUME NEW O, NEW N, GoodSchema(O), GoodSchema(N), Declarable(N),
           NEW d, GoodDb(d), Describes(O, d), NEW file, GoodFile(file), FileLeads(file, O, N),
           Executes(d, file)
    PROVE  LET e == ExecutedFile(d, file)
           IN  /\ Describes(N, e)
               /\ \A t \in DOMAIN d : t \in DOMAIN N => t \in DOMAIN e
               /\ \A i \in DOMAIN file : file[i].kind = "create_table" => file[i].table \in DOMAIN e
  <1> DEFINE n == Len(file)
             e == Along(d, file)[n]
  <1>1. n \in Nat /\ n \in 0..Len(file) /\ DOMAIN file = 1..n
    BY DEF GoodFile
  <1>2. \A i \in 1..n : ~ Refused(Along(d, file)[i - 1], file[i])
    BY <1>1 DEF Executes
  <1>3. GoodDb(e) /\ Underway(file, n, d, e, O, N)
    <2> HIDE DEF n
    <2> QED
      BY <1>1, <1>2, FileIsUnderway
  <1>4. \A t : Waiting(file, n, t) = {}
    BY <1>1, WaitingIs
  <1>5. ExecutedFile(d, file) = e
    BY DEF ExecutedFile
  <1> HIDE DEF e
  <1>6. \A i \in DOMAIN file : i <= n /\ ~ i > n
    BY <1>1
  <1> HIDE DEF n
  <1>7. ASSUME NEW t \in DOMAIN e PROVE t \in DOMAIN N /\ Like(e[t], N[t])
    <2>1. CASE t \in DOMAIN N \ DOMAIN O /\ Like(e[t], N[t])
      BY <2>1
    <2>2. CASE t \in DOMAIN N /\ OnTheWay({}, d[t], e[t], O[t], N[t])
      <3>1. ModelTable(N[t]) /\ GoodTable(e[t], DbColumn)
        BY <1>3, <2>2 DEF GoodSchema, GoodDb
      <3> QED
        BY <2>2, <3>1, Arrives
    <2> QED
      BY <1>3, <1>4, <1>6, <2>1, <2>2 DEF Underway
  <1>8. /\ Describes(N, e)
        /\ \A t \in DOMAIN d : t \in DOMAIN N => t \in DOMAIN e
        /\ \A i \in DOMAIN file : file[i].kind = "create_table" => file[i].table \in DOMAIN e
    BY <1>3, <1>6, <1>7 DEF Underway, Describes
  <1> QED
    BY <1>5, <1>8

-----------------------------------------------------------------------------
\* The two directions of a migration

LEMMA UpLeads ==
    ASSUME NEW T, NEW S, GoodSchema(T), GoodSchema(S)
    PROVE  LET up == Compare(T, S)
           IN  /\ FileLeads(up, S, T)
               /\ \A t \in DOMAIN T \ DOMAIN S : \E i \in DOMAIN up :
                     up[i].kind = "create_table" /\ up[i].table = t
  <1> DEFINE up == Compare(T, S)
  <1>1. /\ up \in Seq(Operations(T, S)) /\ Len(up) \in Nat /\ DOMAIN up = 1..Len(up)
        /\ \A n \in DOMAIN up : Differs(up[n], T, S)
        /\ \A op : Differs(op, T, S) => \E n \in DOMAIN up : up[n] = op
        /\ \A m \in DOMAIN up, n \in DOMAIN up : Before(up[m], up[n]) <=> m < n
    BY GoodSchemasAreNamed, CompareLists
  <1> HIDE DEF up
  <1>2. Distinct(up)
    <2> SUFFICES ASSUME NEW i \in DOMAIN up, NEW j \in DOMAIN up, up[i].kind = up[j].kind,
                        up[i].table = up[j].table, up[i].name = up[j].name
                 PROVE  i = j
      BY DEF Distinct
    <2>1. up[i] = up[j]
      <3>1. up[i] \in Operations(T, S) /\ up[j] \in Operations(T, S)
        BY <1>1, OperationsDiffer
      <3> QED
        BY <3>1, OperationsAreDistinct
    <2>2. ~ i < j /\ ~ j < i
      <3>1. Before(up[i], up[j]) <=> Before(up[i], up[i])
        BY <2>1
      <3>2. Before(up[j], up[i]) <=> Before(up[i], up[i])
        BY <2>1
      <3>3. ~ Before(up[i], up[i])
        BY <1>1
      <3> QED
        BY <1>1, <3>1, <3>2, <3>3
    <2> QED
      BY <1>1, <2>2
  <1>3. \A i \in DOMAIN up :
            \/ /\ up[i].kind = "create_table" /\ up[i].table \in DOMAIN T \ DOMAIN S
               /\ up[i].def = T[up[i].table]
            \/ up[i].kind = "drop_table" /\ up[i].table \in DOMAIN S \ DOMAIN T
            \/ /\ up[i].table \in DOMAIN S \cap DOMAIN T
               /\ DiffersInTable(up[i], T[up[i].table], S[up[i].table])
    BY <1>1 DEF Differs
  <1>4. ASSUME NEW t \in DOMAIN S \cap DOMAIN T, NEW kind, NEW name, NEW def,
               LET op == Operation(kind, t, name, def) IN DiffersInTable(op, T[t], S[t])
        PROVE  Waits(Waiting(up, 0, t), kind, name)
    <2> DEFINE op == Operation(kind, t, name, def)
    <2>1. /\ op.kind = kind /\ op.table = t /\ op.name = name
          /\ op = Operation(op.kind, op.table, op.name, op.def)
      BY OperationFields
    <2>2. DiffersInTable(op, T[t], S[t])
      BY <1>4
    <2> HIDE DEF op
    <2>3. Differs(op, T, S)
      BY <2>1, <2>2 DEF Differs
    <2>4. PICK n \in DOMAIN up : up[n] = op
      BY <1>1, <2>3
    <2>5. n > 0
      BY <1>1
    <2> QED
      BY <1>1, <2>1, <2>4, <2>5, WaitingIs
  <1>5. ASSUME NEW t \in DOMAIN S \cap DOMAIN T PROVE Leads(Waiting(up, 0, t), S[t], T[t])
    <2> DEFINE W == Waiting(up, 0, t)
               os == S[t].columns
               ns == T[t].columns
               oks == S[t].constraints
               nks == T[t].constraints
    <2>1. ASSUME NEW kind, NEW name, Waits(W, kind, name)
          PROVE  \E i \in DOMAIN up : /\ up[i].kind = kind /\ up[i].name = name
                                      /\ DiffersInTable(up[i], T[t], S[t])
      <3>1. PICK i \in DOMAIN up : up[i].table = t /\ up[i].kind = kind /\ up[i].name = name
        BY <1>1, <2>1, WaitingIs
      <3> QED
        BY <1>3, <3>1
    <2> HIDE DEF W
    <2>2. ASSUME NEW kind, NEW name, Waits(W, kind, name)
          PROVE  /\ kind = "add_column" => name \in DOMAIN ns \ DOMAIN os
                 /\ kind = "drop_column" => name \in DOMAIN os \ DOMAIN ns
                 /\ kind = "alter_column" => name \in DOMAIN os \cap DOMAIN ns /\ ns[name] # os[name]
                 /\ kind = "create_constraint" => /\ name \in DOMAIN nks
                                                  /\ name \in DOMAIN oks => nks[name] # oks[name]
                 /\ kind = "drop_constraint" => name \in DOMAIN oks \ DOMAIN nks
      <3>1. PICK i \in DOMAIN up : /\ up[i].kind = kind /\ up[i].name = name
                                   /\ DiffersInTable(up[i], T[t], S[t])
        BY <2>1, <2>2
      <3> DEFINE op == up[i]
      <3>2. op.kind = kind /\ op.name = name /\ DiffersInTable(op, T[t], S[t])
        BY <3>1
      <3> HIDE DEF op
      <3> QED
        BY <3>2 DEF DiffersInTable
    <2>3. ASSUME NEW c \in DOMAIN ns \ DOMAIN os PROVE Waits(W, "add_column", c)
      <3> DEFINE op == Operation("add_column", t, c, ns[c])
      <3>1. op.kind = "add_column" /\ op.name = c /\ op.def = ns[c]
        BY OperationFields
      <3> HIDE DEF op
      <3>2. DiffersInTable(op, T[t], S[t])
        BY <3>1 DEF DiffersInTable
      <3> QED
        BY <1>4, <3>2 DEF op, W
    <2>4. ASSUME NEW c \in DOMAIN os \ DOMAIN ns PROVE Waits(W, "drop_column", c)
      <3> DEFINE op == Operation("drop_column", t, c, os[c])
      <3>1. op.kind = "drop_column" /\ op.name = c /\ op.def = os[c]
        BY OperationFields
      <3> HIDE DEF op
      <3>2. DiffersInTable(op, T[t], S[t])
        BY <3>1 DEF DiffersInTable
      <3> QED
        BY <1>4, <3>2 DEF op, W
    <2>5. ASSUME NEW c \in DOMAIN os \cap DOMAIN ns, ns[c] # os[c] PROVE Waits(W, "alter_column", c)
      <3> DEFINE def == [to |-> ns[c], from |-> os[c]]
                 op == Operation("alter_column", t, c, def)
      <3>1. op.kind = "alter_column" /\ op.name = c /\ op.def = [to |-> ns[c], from |-> os[c]]
        BY OperationFields
      <3> HIDE DEF op
      <3>2. DiffersInTable(op, T[t], S[t])
        BY <2>5, <3>1 DEF DiffersInTable
      <3> QED
        BY <1>4, <3>2 DEF op, W
    <2>6. ASSUME NEW k \in DOMAIN nks, k \in DOMAIN oks => nks[k] # oks[k]
          PROVE  Waits(W, "create_constraint", k)
      <3> DEFINE op == Operation("create_constraint", t, k, nks[k])
      <3>1. op.kind = "create_constraint" /\ op.name = k /\ op.def = nks[k]
        BY OperationFields
      <3> HIDE DEF op
      <3>2. DiffersInTable(op, T[t], S[t])
        BY <2>6, <3>1 DEF DiffersInTable
      <3> QED
        BY <1>4, <3>2 DEF op, W
    <2>7. ASSUME NEW k \in DOMAIN oks \ DOMAIN nks PROVE Waits(W, "drop_constraint", k)
      <3> DEFINE op == Operation("drop_constraint", t, k, oks[k])
      <3>1. op.kind = "drop_constraint" /\ op.name = k /\ op.def = oks[k]
        BY OperationFields
      <3> HIDE DEF op
      <3>2. DiffersInTable(op, T[t], S[t])
        BY <3>1 DEF DiffersInTable
      <3> QED
        BY <1>4, <3>2 DEF op, W
    <2> HIDE DEF os, ns, oks, nks
    <2>8. /\ \A c : Waits(W, "add_column", c) <=> c \in DOMAIN ns \ DOMAIN os
          /\ \A c : Waits(W, "drop_column", c) <=> c \in DOMAIN os \ DOMAIN ns
          /\ \A c : Waits(W, "alter_column", c) <=> c \in DOMAIN os \cap DOMAIN ns /\ ns[c] # os[c]
          /\ \A k : Waits(W, "create_constraint", k) <=>
                        k \in DOMAIN nks /\ (k \in DOMAIN oks => nks[k] # oks[k])
          /\ \A k : Waits(W, "drop_constraint", k) <=> k \in DOMAIN oks \ DOMAIN nks
      BY <2>2, <2>3, <2>4, <2>5, <2>6, <2>7
    <2> QED
      BY <2>8 DEF Leads, W, os, ns, oks, nks
  <1>6. ASSUME NEW t \in DOMAIN T \ DOMAIN S
        PROVE  \E i \in DOMAIN up : up[i].kind = "create_table" /\ up[i].table = t
    <2> DEFINE op == Operation("create_table", t, 0, T[t])
    <2>1. op.kind = "create_table" /\ op.table = t /\ op.name = 0 /\ op.def = T[t]
          /\ op = Operation(op.kind, op.table, op.name, op.def)
      BY OperationFields
    <2> HIDE DEF op
    <2>2. Differs(op, T, S)
      BY <2>1 DEF Differs
    <2> QED
      BY <1>1, <2>1, <2>2
  <1>7. ASSUME NEW t \in DOMAIN S \ DOMAIN T
        PROVE  \E i \in DOMAIN up : up[i].kind = "drop_table" /\ up[i].table = t
    <2> DEFINE op == Operation("drop_table", t, 0, S[t])
    <2>1. op.kind = "drop_table" /\ op.table = t /\ op.name = 0 /\ op.def = S[t]
          /\ op = Operation(op.kind, op.table, op.name, op.def)
      BY OperationFields
    <2> HIDE DEF op
    <2>2. Differs(op, T, S)
      BY <2>1 DEF Differs
    <2> QED
      BY <1>1, <2>1, <2>2
  <1>8. FileLeads(up, S, T)
    BY <1>1, <1>2, <1>3, <1>5, <1>7 DEF FileLeads
  <1> QED
    BY <1>6, <1>8 DEF up

\* No constraint is to be created under a name that is taken.
NamesAreFree(up, S) ==
    \A i \in DOMAIN up : up[i].kind = "create_constraint" =>
        up[i].name \notin DOMAIN S[up[i].table].constraints

LEMMA InverseDiffers ==
    ASSUME NEW op, NEW inverse, NEW expected, NEW actual, DiffersInTable(op, expected, actual),
           inverse.kind = InverseKind[op.kind], inverse.name = op.name,
           op.kind = "alter_column" => inverse.def = [to |-> op.def.from, from |-> op.def.to],
           op.kind # "alter_column" => inverse.def = op.def,
           op.kind = "create_constraint" => op.name \notin DOMAIN actual.constraints
    PROVE  inverse.kind \in {"create_index", "drop_index"} \/ DiffersInTable(inverse, actual, expected)
  <1>1. CASE op.kind = "add_column"
    BY <1>1 DEF DiffersInTable, InverseKind
  <1>2. CASE op.kind = "drop_column"
    BY <1>2 DEF DiffersInTable, InverseKind
  <1>3. CASE op.kind = "alter_column"
    <2>1. /\ op.name \in DOMAIN expected.columns \cap DOMAIN actual.columns
          /\ expected.columns[op.name] # actual.columns[op.name]
          /\ op.def.to = expected.columns[op.name] /\ op.def.from = actual.columns[op.name]
      BY <1>3 DEF DiffersInTable
    <2>2. inverse.kind = "alter_column"
      BY <1>3 DEF InverseKind
    <2>3. inverse.def = [to |-> actual.columns[op.name], from |-> expected.columns[op.name]]
      BY <1>3, <2>1
    <2> QED
      BY <2>1, <2>2, <2>3 DEF DiffersInTable
  <1>4. CASE op.kind \in {"create_index", "drop_index"}
    BY <1>4 DEF InverseKind
  <1>5. CASE op.kind = "create_constraint"
    BY <1>5 DEF DiffersInTable, InverseKind
  <1>6. CASE op.kind = "drop_constraint"
    BY <1>6 DEF DiffersInTable, InverseKind
  <1> QED
    BY <1>1, <1>2, <1>3, <1>4, <1>5, <1>6 DEF DiffersInTable

\* Where the operations of the down file come from.
LEMMA DownIs ==
    ASSUME NEW T, NEW S, GoodSchema(T), GoodSchema(S)
    PROVE  LET up == Compare(T, S)
               down == InvertDiff(up)
           IN  /\ Len(down) \in Nat /\ DOMAIN down = 1..Len(down)
               /\ \E back \in [DOMAIN down -> DOMAIN up] :
                     /\ \A n \in DOMAIN down :
                           LET op == up[back[n]]
                           IN  /\ op.kind # "drop_table" /\ op.kind \in DOMAIN InverseKind
                               /\ down[n].kind = InverseKind[op.kind]
                               /\ down[n].table = op.table /\ down[n].name = op.name
                               /\ op.kind = "alter_column" =>
                                      down[n].def = [to |-> op.def.from, from |-> op.def.to]
                               /\ op.kind # "alter_column" => down[n].def = op.def
                     /\ \A i \in DOMAIN up : up[i].kind # "drop_table" =>
                           \E n \in DOMAIN down : back[n] = i
                     /\ \A m \in DOMAIN down, n \in DOMAIN down : back[n] < back[m] <=> m < n
  <1> DEFINE up == Compare(T, S)
             down == InvertDiff(up)
             undone == {i \in DOMAIN up : up[i].kind # "drop_table"}
  <1>1. /\ Len(up) \in Nat /\ DOMAIN up = 1..Len(up)
        /\ \A n \in DOMAIN up : Differs(up[n], T, S)
    BY GoodSchemasAreNamed, CompareLists
  <1>2. \A n \in DOMAIN up : up[n].kind \in DOMAIN KindRank
    BY <1>1, GoodSchemasAreNamed, NamesOfOperations, OperationsDiffer
  <1> HIDE DEF up
  <1>3. /\ Len(down) \in Nat /\ DOMAIN down = 1..Len(down)
        /\ \E back \in [DOMAIN down -> undone] :
              /\ \A n \in DOMAIN down : down[n] = InverseOf(up[back[n]])
              /\ \A i \in undone : \E n \in DOMAIN down : back[n] = i
              /\ \A m \in DOMAIN down, n \in DOMAIN down : back[n] < back[m] <=> m < n
    BY <1>1, InvertLists
  <1> HIDE DEF down
  <1>4. PICK back \in [DOMAIN down -> undone] :
              /\ \A n \in DOMAIN down : down[n] = InverseOf(up[back[n]])
              /\ \A i \in undone : \E n \in DOMAIN down : back[n] = i
              /\ \A m \in DOMAIN down, n \in DOMAIN down : back[n] < back[m] <=> m < n
    BY <1>3
  <1>5. ASSUME NEW n \in DOMAIN down
        PROVE  LET op == up[back[n]]
               IN  /\ op.kind # "drop_table" /\ op.kind \in DOMAIN InverseKind
                   /\ down[n].kind = InverseKind[op.kind]
                   /\ down[n].table = op.table /\ down[n].name = op.name
                   /\ op.kind = "alter_column" =>
                          down[n].def = [to |-> op.def.from, from |-> op.def.to]
                   /\ op.kind # "alter_column" => down[n].def = op.def
    <2> DEFINE op == up[back[n]]
               inverse == InverseOf(op)
    <2>1. back[n] \in DOMAIN up /\ op.kind # "drop_table"
      BY <1>4
    <2>2. op.kind \in DOMAIN KindRank /\ op = Operation(op.kind, op.table, op.name, op.def)
      BY <1>1, <1>2, <2>1 DEF Differs
    <2>3. op.kind \in DOMAIN InverseKind
      BY <2>1, <2>2 DEF KindRank, InverseKind
    <2>4. down[n] = inverse
      BY <1>4
    <2> HIDE DEF op
    <2>5. /\ inverse.kind = InverseKind[op.kind]
          /\ inverse.table = op.table /\ inverse.name = op.name
          /\ op.kind = "alter_column" => inverse.def = [to |-> op.def.from, from |-> op.def.to]
          /\ op.kind # "alter_column" => inverse.def = op.def
      BY <2>2, <2>3, InverseFields
    <2> HIDE DEF inverse
    <2>6. /\ op.kind # "drop_table" /\ op.kind \in DOMAIN InverseKind
          /\ down[n].kind = InverseKind[op.kind]
          /\ down[n].table = op.table /\ down[n].name = op.name
          /\ op.kind = "alter_column" => down[n].def = [to |-> op.def.from, from |-> op.def.to]
          /\ op.kind # "alter_column" => down[n].def = op.def
      BY <2>1, <2>3, <2>4, <2>5
    <2> QED
      BY <2>6 DEF op
  <1>6. back \in [DOMAIN down -> DOMAIN up]
    BY <1>4
  <1>7. \A i \in DOMAIN up : up[i].kind # "drop_table" => \E n \in DOMAIN down : back[n] = i
    BY <1>4
  <1>8. \E f \in [DOMAIN down -> DOMAIN up] :
            /\ \A n \in DOMAIN down :
                  LET op == up[f[n]]
                  IN  /\ op.kind # "drop_table" /\ op.kind \in DOMAIN InverseKind
                      /\ down[n].kind = InverseKind[op.kind]
                      /\ down[n].table = op.table /\ down[n].name = op.name
                      /\ op.kind = "alter_column" =>
                             down[n].def = [to |-> op.def.from, from |-> op.def.to]
                      /\ op.kind # "alter_column" => down[n].def = op.def
            /\ \A i \in DOMAIN up : up[i].kind # "drop_table" => \E n \in DOMAIN down : f[n] = i
            /\ \A m \in DOMAIN down, n \in DOMAIN down : f[n] < f[m] <=> m < n
    BY <1>4, <1>5, <1>6, <1>7
  <1> QED
    BY <1>3, <1>8 DEF up, down

LEMMA DownLeads ==
    ASSUME NEW T, NEW S, GoodSchema(T), GoodSchema(S), NamesAreFree(Compare(T, S), S)
    PROVE  FileLeads(InvertDiff(Compare(T, S)), T, S)
  <1> DEFINE up == Compare(T, S)
             down == InvertDiff(up)
  <1>1. /\ FileLeads(up, S, T)
        /\ \A t \in DOMAIN T \ DOMAIN S : \E i \in DOMAIN up :
              up[i].kind = "create_table" /\ up[i].table = t
    BY UpLeads
  <1>2. /\ Len(down) \in Nat /\ DOMAIN down = 1..Len(down)
        /\ \E back \in [DOMAIN down -> DOMAIN up] :
              /\ \A n \in DOMAIN down :
                    LET op == up[back[n]]
                    IN  /\ op.kind # "drop_table" /\ op.kind \in DOMAIN InverseKind
                        /\ down[n].kind = InverseKind[op.kind]
                        /\ down[n].table = op.table /\ down[n].name = op.name
                        /\ op.kind = "alter_column" =>
                               down[n].def = [to |-> op.def.from, from |-> op.def.to]
                        /\ op.kind # "alter_column" => down[n].def = op.def
              /\ \A i \in DOMAIN up : up[i].kind # "drop_table" =>
                    \E n \in DOMAIN down : back[n] = i
              /\ \A m \in DOMAIN down, n \in DOMAIN down : back[n] < back[m] <=> m < n
    BY DownIs
  <1>3. NamesAreFree(up, S)
    OBVIOUS
  <1> HIDE DEF up, down
  <1>4. PICK back \in [DOMAIN down -> DOMAIN up] :
              /\ \A n \in DOMAIN down :
                    LET op == up[back[n]]
                    IN  /\ op.kind # "drop_table" /\ op.kind \in DOMAIN InverseKind
                        /\ down[n].kind = InverseKind[op.kind]
                        /\ down[n].table = op.table /\ down[n].name = op.name
                        /\ op.kind = "alter_column" =>
                               down[n].def = [to |-> op.def.from, from |-> op.def.to]
                        /\ op.kind # "alter_column" => down[n].def = op.def
              /\ \A i \in DOMAIN up : up[i].kind # "drop_table" =>
                    \E n \in DOMAIN down : back[n] = i
              /\ \A m \in DOMAIN down, n \in DOMAIN down : back[n] < back[m] <=> m < n
    BY <1>2
  <1>5. /\ Len(up) \in Nat /\ DOMAIN up = 1..Len(up) /\ Distinct(up)
    BY <1>1 DEF FileLeads
  <1>6. Distinct(down)
    <2> SUFFICES ASSUME NEW i \in DOMAIN down, NEW j \in DOMAIN down, down[i].kind = down[j].kind,
                        down[i].table = down[j].table, down[i].name = down[j].name
                 PROVE  i = j
      BY DEF Distinct
    <2>1. \A k \in DOMAIN InverseKind, l \in DOMAIN InverseKind : InverseKind[k] = InverseKind[l] => k = l
      BY DEF InverseKind
    <2> DEFINE op == up[back[i]]
               other == up[back[j]]
    <2>2. op.kind = other.kind /\ op.table = other.table /\ op.name = other.name
      <3>1. /\ op.kind \in DOMAIN InverseKind /\ down[i].kind = InverseKind[op.kind]
            /\ down[i].table = op.table /\ down[i].name = op.name
        BY <1>4
      <3>2. /\ other.kind \in DOMAIN InverseKind /\ down[j].kind = InverseKind[other.kind]
            /\ down[j].table = other.table /\ down[j].name = other.name
        BY <1>4
      <3> HIDE DEF op, other
      <3> QED
        BY <2>1, <3>1, <3>2
    <2>3. back[i] = back[j]
      BY <1>5, <2>2 DEF Distinct
    <2>4. back[i] \in Nat /\ back[j] \in Nat
      BY <1>5
    <2>5. ~ i < j /\ ~ j < i
      BY <1>4, <2>3, <2>4
    <2> QED
      BY <1>2, <2>5
  <1>7. ASSUME NEW n \in DOMAIN down
        PROVE  \/ down[n].kind = "drop_table" /\ down[n].table \in DOMAIN T \ DOMAIN S
               \/ /\ down[n].table \in DOMAIN T \cap DOMAIN S
                  /\ \/ down[n].kind \in {"create_index", "drop_index"}
                     \/ DiffersInTable(down[n], S[down[n].table], T[down[n].table])
    <2> DEFINE op == up[back[n]]
               t == op.table
               inverse == down[n]
    <2>1. back[n] \in DOMAIN up
      OBVIOUS
    <2>2. /\ op.kind # "drop_table" /\ op.kind \in DOMAIN InverseKind
          /\ inverse.kind = InverseKind[op.kind]
          /\ inverse.table = op.table /\ inverse.name = op.name
          /\ op.kind = "alter_column" => inverse.def = [to |-> op.def.from, from |-> op.def.to]
          /\ op.kind # "alter_column" => inverse.def = op.def
      BY <1>4
    <2>3. \/ op.kind = "create_table" /\ t \in DOMAIN T \ DOMAIN S
          \/ /\ t \in DOMAIN S \cap DOMAIN T
             /\ op.kind \in {"create_index", "drop_index"} \/ DiffersInTable(op, T[t], S[t])
      BY <1>1, <2>1, <2>2 DEF FileLeads
    <2>4. op.kind = "create_constraint" => op.name \notin DOMAIN S[t].constraints
      BY <1>3, <2>1 DEF NamesAreFree
    <2> HIDE DEF op, inverse
    <2>5. CASE op.kind = "create_table" /\ t \in DOMAIN T \ DOMAIN S
      <3>1. inverse.kind = "drop_table"
        BY <2>2, <2>5 DEF InverseKind
      <3> QED
        BY <2>2, <2>5, <3>1 DEF inverse
    <2>6. CASE t \in DOMAIN S \cap DOMAIN T /\ op.kind \in {"create_index", "drop_index"}
      <3>1. inverse.kind \in {"create_index", "drop_index"}
        BY <2>2, <2>6 DEF InverseKind
      <3> QED
        BY <2>2, <2>6, <3>1 DEF inverse
    <2>7. CASE t \in DOMAIN S \cap DOMAIN T /\ DiffersInTable(op, T[t], S[t])
      <3>1. \/ inverse.kind \in {"create_index", "drop_index"}
            \/ DiffersInTable(inverse, S[t], T[t])
        BY <2>2, <2>4, <2>7, InverseDiffers
      <3> QED
        BY <2>2, <2>7, <3>1 DEF inverse
    <2> QED
      BY <2>3, <2>5, <2>6, <2>7
  <1>8. ASSUME NEW t, NEW kind, kind # "drop_table", NEW name, Waits(Waiting(up, 0, t), kind, name)
        PROVE  Waits(Waiting(down, 0, t), InverseKind[kind], name)
    <2>1. PICK i \in DOMAIN up : up[i].table = t /\ up[i].kind = kind /\ up[i].name = name
      BY <1>5, <1>8, WaitingIs
    <2>2. PICK n \in DOMAIN down : back[n] = i
      BY <1>4, <1>8, <2>1
    <2>3. /\ down[n].kind = InverseKind[kind] /\ down[n].table = t /\ down[n].name = name
      BY <1>4, <2>1, <2>2
    <2>4. n > 0
      BY <1>2
    <2> QED
      BY <1>2, <2>3, <2>4, WaitingIs
  <1>9. ASSUME NEW t \in DOMAIN T \cap DOMAIN S PROVE Leads(Waiting(down, 0, t), T[t], S[t])
    <2> DEFINE W == Waiting(down, 0, t)
               V == Waiting(up, 0, t)
               os == T[t].columns
               ns == S[t].columns
               oks == T[t].constraints
               nks == S[t].constraints
    <2>1. ASSUME NEW kind, NEW name, Waits(W, kind, name)
          PROVE  /\ kind = "add_column" => name \in DOMAIN ns \ DOMAIN os
                 /\ kind = "drop_column" => name \in DOMAIN os \ DOMAIN ns
                 /\ kind = "alter_column" => name \in DOMAIN os \cap DOMAIN ns /\ ns[name] # os[name]
                 /\ kind = "create_constraint" => /\ name \in DOMAIN nks
                                                  /\ name \in DOMAIN oks => nks[name] # oks[name]
                 /\ kind = "drop_constraint" => name \in DOMAIN oks \ DOMAIN nks
      <3>1. PICK i \in DOMAIN down : down[i].table = t /\ down[i].kind = kind /\ down[i].name = name
        BY <1>2, <2>1, WaitingIs
      <3> DEFINE op == down[i]
      <3>2. /\ op.kind = kind /\ op.name = name
            /\ kind \in {"create_index", "drop_index", "drop_table"} \/ DiffersInTable(op, S[t], T[t])
        BY <1>7, <3>1
      <3> HIDE DEF op
      <3> QED
        BY <3>2 DEF DiffersInTable
    <2>2. Leads(V, S[t], T[t])
      BY <1>1 DEF FileLeads
    <2>3. \A kind, name : kind # "drop_table" /\ Waits(V, kind, name) => Waits(W, InverseKind[kind], name)
      BY <1>8
    <2> HIDE DEF W, V
    <2>4. /\ \A c : c \in DOMAIN os \ DOMAIN ns => Waits(V, "add_column", c)
          /\ \A c : c \in DOMAIN ns \ DOMAIN os => Waits(V, "drop_column", c)
          /\ \A c : c \in DOMAIN ns \cap DOMAIN os /\ os[c] # ns[c] => Waits(V, "alter_column", c)
          /\ \A k : k \in DOMAIN oks /\ (k \in DOMAIN nks => oks[k] # nks[k]) =>
                        Waits(V, "create_constraint", k)
          /\ \A k : k \in DOMAIN nks \ DOMAIN oks => Waits(V, "drop_constraint", k)
      BY <2>2 DEF Leads
    <2>5. ASSUME NEW k \in DOMAIN nks, Waits(V, "create_constraint", k) PROVE FALSE
      <3>1. PICK i \in DOMAIN up : /\ up[i].table = t /\ up[i].kind = "create_constraint"
                                   /\ up[i].name = k
        BY <1>5, <2>5, WaitingIs DEF V
      <3> QED
        BY <1>3, <3>1 DEF NamesAreFree
    <2>6. /\ InverseKind["add_column"] = "drop_column" /\ InverseKind["drop_column"] = "add_column"
          /\ InverseKind["alter_column"] = "alter_column"
          /\ InverseKind["create_constraint"] = "drop_constraint"
          /\ InverseKind["drop_constraint"] = "create_constraint"
      BY DEF InverseKind
    <2> HIDE DEF os, ns, oks, nks
    <2>7. /\ \A c : c \in DOMAIN os \ DOMAIN ns => Waits(W, "drop_column", c)
          /\ \A c : c \in DOMAIN ns \ DOMAIN os => Waits(W, "add_column", c)
          /\ \A c : c \in DOMAIN ns \cap DOMAIN os /\ os[c] # ns[c] => Waits(W, "alter_column", c)
          /\ \A k : k \in DOMAIN oks \ DOMAIN nks => Waits(W, "drop_constraint", k)
          /\ \A k : k \in DOMAIN nks \ DOMAIN oks => Waits(W, "create_constraint", k)
          /\ \A k : k \in DOMAIN nks \cap DOMAIN oks => oks[k] = nks[k]
      BY <2>3, <2>4, <2>5, <2>6
    <2>8. /\ \A c : Waits(W, "add_column", c) <=> c \in DOMAIN ns \ DOMAIN os
          /\ \A c : Waits(W, "drop_column", c) <=> c \in DOMAIN os \ DOMAIN ns
          /\ \A c : Waits(W, "alter_column", c) <=> c \in DOMAIN os \cap DOMAIN ns /\ ns[c] # os[c]
          /\ \A k : Waits(W, "create_constraint", k) <=>
                        k \in DOMAIN nks /\ (k \in DOMAIN oks => nks[k] # oks[k])
          /\ \A k : Waits(W, "drop_constraint", k) <=> k \in DOMAIN oks \ DOMAIN nks
      BY <2>1, <2>7
    <2> QED
      BY <2>8 DEF Leads, W, os, ns, oks, nks
  <1>10. ASSUME NEW t \in DOMAIN T \ DOMAIN S
         PROVE  \E i \in DOMAIN down : down[i].kind = "drop_table" /\ down[i].table = t
    <2>1. PICK i \in DOMAIN up : up[i].kind = "create_table" /\ up[i].table = t
      BY <1>1
    <2>2. PICK n \in DOMAIN down : back[n] = i
      BY <1>4, <2>1
    <2>3. down[n].kind = InverseKind["create_table"] /\ down[n].table = t
      BY <1>4, <2>1, <2>2
    <2> QED
      BY <2>3 DEF InverseKind
  <1>11. FileLeads(down, T, S)
    BY <1>2, <1>6, <1>7, <1>9, <1>10 DEF FileLeads
  <1> QED
    BY <1>11 DEF up, down

\* Where a file executes, no name was taken: what drops columns comes later.
LEMMA ExecutesFreely ==
    ASSUME NEW T, NEW S, GoodSchema(T), GoodSchema(S), Declarable(T),
           NEW d, GoodDb(d), Describes(S, d), Executes(d, Compare(T, S))
    PROVE  NamesAreFree(Compare(T, S), S)
  <1> DEFINE up == Compare(T, S)
  <1>1. FileLeads(up, S, T) /\ GoodFile(up)
    BY UpLeads, ComparedIsGood
  <1>2. /\ Len(up) \in Nat /\ DOMAIN up = 1..Len(up)
        /\ \A m \in DOMAIN up, n \in DOMAIN up : Before(up[m], up[n]) <=> m < n
    BY GoodSchemasAreNamed, CompareLists
  <1>3. Executes(d, up)
    OBVIOUS
  <1> HIDE DEF up
  <1> SUFFICES ASSUME NEW i \in DOMAIN up, up[i].kind = "create_constraint",
                      up[i].name \in DOMAIN S[up[i].table].constraints
               PROVE  FALSE
    BY DEF NamesAreFree, up
  <1> DEFINE op == up[i]
             t == op.table
             k == op.name
             e == Along(d, up)[i - 1]
             W == Waiting(up, i - 1, t)
  <1>4. /\ i - 1 \in 0..Len(up) /\ i \in Nat /\ i - 1 \in Nat
        /\ \A j \in 1..i-1 : j \in DOMAIN up
        /\ \A j \in DOMAIN up : i < j => j > i - 1
    BY <1>2
  <1>5. /\ ~ Refused(e, op)
        /\ \A j \in 1..i-1 : ~ Refused(Along(d, up)[j - 1], up[j])
    BY <1>3, <1>4 DEF Executes
  <1>6. Underway(up, i - 1, d, e, S, T)
    BY <1>1, <1>4, <1>5, FileIsUnderway
  <1>7. t \in DOMAIN S \cap DOMAIN T /\ DiffersInTable(op, T[t], S[t])
    BY <1>1 DEF FileLeads
  <1>8. t \in DOMAIN e /\ k \notin DOMAIN e[t].constraints
    BY <1>5 DEF Refused, AltersNothing
  <1>9. t \in DOMAIN d /\ OnTheWay(W, d[t], e[t], S[t], T[t])
    BY <1>6, <1>7, <1>8 DEF Underway
  <1>10. k \in DOMAIN d[t].constraints /\ k \in DOMAIN T[t].constraints
    BY <1>7, <1>9 DEF Describes, Like, DiffersInTable
  <1>11. PICK c \in DOMAIN S[t].columns \ DOMAIN T[t].columns : ~ Waits(W, "drop_column", c)
    BY <1>8, <1>9, <1>10 DEF OnTheWay, ConstraintsOnTheWay
  <1>12. Waits(Waiting(up, 0, t), "drop_column", c)
    BY <1>1, <1>7 DEF FileLeads, Leads
  <1>13. PICK j \in DOMAIN up : up[j].table = t /\ up[j].kind = "drop_column" /\ up[j].name = c
    BY <1>2, <1>12, WaitingIs
  <1>14. Before(op, up[j])
    BY <1>13 DEF Before, KindRank
  <1>15. i < j
    BY <1>2, <1>14
  <1>16. Waits(W, "drop_column", c)
    BY <1>2, <1>4, <1>13, <1>15, WaitingIs
  <1> QED
    BY <1>11, <1>16

-----------------------------------------------------------------------------
\* The registry describes the schema

\* Every file was made from its predecessor's schema.
Chained == \A n \in DOMAIN files : files[n] = FileOf(files[n].schema, SchemaAfter(n - 1))

\* The first k files are applied.
Described(k) ==
    /\ \A n \in 1..k : NamesAreFree(files[n].up, SchemaAfter(n - 1))
    /\ Describes(SchemaAfter(k), db)
    /\ \A t \in DOMAIN SchemaAfter(k) : t \notin DOMAIN db => LostByRevert(t)

RegistryInv ==
    regular =>
        \E k \in 0..Len(files) :
            /\ applied = 1..k
            /\ Chained
            /\ (\A n \in DOMAIN files : Declarable(files[n].schema)) => Described(k)

LEMMA AppliedAre ==
    ASSUME NEW k \in Nat, applied = 1..k
    PROVE  Cardinality(applied) = k /\ (k # 0 => Max(applied) = k)
  <1>1. Cardinality(applied) = k
    BY FS_Interval
  <1>2. ASSUME k # 0 PROVE Max(applied) = k
    <2>1. k \in applied /\ \A y \in applied : k >= y
      BY <1>2
    <2>2. \A x \in applied : (\A y \in applied : x >= y) => x = k
      BY <1>2
    <2> QED
      BY <2>1, <2>2 DEF Max
  <1> QED
    BY <1>1, <1>2

LEMMA PendingAre ==
    ASSUME TypeInv, NEW k \in 0..Len(files), applied = 1..k, Pending # {}
    PROVE  Min(Pending) = k + 1 /\ k + 1 \in DOMAIN files
  <1>1. Min(Pending) \in Pending /\ \A n \in Pending : Min(Pending) <= n
    BY NextPending
  <1> DEFINE least == Min(Pending)
  <1>2. Len(files) \in Nat /\ DOMAIN files = 1..Len(files)
    BY DEF TypeInv
  <1>3. \A n : n \in Pending <=> n \in k+1..Len(files)
    BY <1>2 DEF Pending
  <1>4. least \in k+1..Len(files) /\ \A n \in k+1..Len(files) : least <= n
    BY <1>1, <1>3
  <1> HIDE DEF least
  <1>5. k + 1 \in k+1..Len(files)
    BY <1>2, <1>4
  <1>6. least = k + 1
    BY <1>2, <1>4, <1>5
  <1> QED
    BY <1>2, <1>5, <1>6 DEF least

LEMMA DeclarableAfter ==
    ASSUME TypeInv, \A n \in DOMAIN files : Declarable(files[n].schema), NEW k \in 0..Len(files)
    PROVE  Declarable(SchemaAfter(k))
  <1>1. CASE k = 0
    BY <1>1 DEF SchemaAfter, NoSchema, Declarable
  <1>2. CASE k # 0
    <2>1. k \in DOMAIN files
      BY <1>2 DEF TypeInv
    <2> QED
      BY <1>2, <2>1 DEF SchemaAfter
  <1> QED
    BY <1>1, <1>2

\* Up: the file k is executed by a database that its predecessor's schema describes.
LEMMA UpDescribes ==
    ASSUME TypeInv, Chained, NEW k \in DOMAIN files,
           \A n \in DOMAIN files : Declarable(files[n].schema), Described(k - 1),
           applied = 1..k-1, Executes(db, files[k].up),
           db' = ExecutedFile(db, files[k].up), applied' = applied \cup {k}, files' = files
    PROVE  Described(k)'
  <1> DEFINE S == SchemaAfter(k - 1)
             T == files[k].schema
             up == files[k].up
             e == ExecutedFile(db, up)
  <1>1. k \in Nat /\ k # 0 /\ k - 1 \in 0..Len(files) /\ k \in 0..Len(files) /\ DOMAIN files = 1..Len(files)
    BY DEF TypeInv
  <1>2. S \in Schemas /\ T \in Schemas /\ SchemaAfter(k) = T
    BY <1>1, SchemasAfter, FilesAreGood DEF TypeInv, SchemaAfter
  <1>3. GoodSchema(S) /\ GoodSchema(T) /\ Declarable(T)
    BY <1>2, SchemasAreGood
  <1>4. up = Compare(T, S)
    <2>1. files[k] = FileOf(T, S)
      BY DEF Chained
    <2> HIDE DEF T, S
    <2> QED
      BY <2>1 DEF FileOf
  <1>5. GoodDb(db) /\ Describes(S, db) /\ Executes(db, up)
    BY DEF TypeInv, Described
  <1>6. /\ FileLeads(up, S, T) /\ GoodFile(up)
        /\ \A t \in DOMAIN T \ DOMAIN S : \E i \in DOMAIN up :
              up[i].kind = "create_table" /\ up[i].table = t
    BY <1>3, <1>4, UpLeads, ComparedIsGood
  <1>7. NamesAreFree(up, S)
    BY <1>3, <1>4, <1>5, ExecutesFreely
  <1>8. /\ Describes(T, e)
        /\ \A t \in DOMAIN db : t \in DOMAIN T => t \in DOMAIN e
        /\ \A i \in DOMAIN up : up[i].kind = "create_table" => up[i].table \in DOMAIN e
    <2> HIDE DEF S, T, up, e
    <2> QED
      BY <1>3, <1>5, <1>6, FileArrives DEF e
  <1>9. \A n \in 1..k : NamesAreFree(files[n].up, SchemaAfter(n - 1))
    <2>1. \A n \in 1..k-1 : NamesAreFree(files[n].up, SchemaAfter(n - 1))
      BY DEF Described
    <2>2. \A n \in 1..k : n = k \/ n \in 1..k-1
      BY <1>1
    <2> QED
      BY <1>7, <2>1, <2>2
  <1>10. ASSUME NEW t \in DOMAIN T, t \notin DOMAIN e PROVE LostByRevert(t)'
    <2>1. t \in DOMAIN S
      BY <1>6, <1>8, <1>10
    <2>2. LostByRevert(t)
      BY <1>8, <1>10, <2>1 DEF Described
    <2>3. PICK n \in Pending : \E i \in DOMAIN files[n].up :
              files[n].up[i].kind = "drop_table" /\ files[n].up[i].table = t
      BY <2>2 DEF LostByRevert
    <2>4. n # k
      <3> SUFFICES ASSUME n = k PROVE FALSE
        OBVIOUS
      <3>1. PICK i \in DOMAIN up : up[i].kind = "drop_table" /\ up[i].table = t
        BY <2>3
      <3>2. t \in DOMAIN S \ DOMAIN T
        BY <1>6, <3>1 DEF FileLeads, DiffersInTable
      <3> QED
        BY <1>10, <3>2
    <2>5. n \in Pending'
      BY <2>3, <2>4 DEF Pending
    <2> QED
      BY <2>3, <2>5 DEF LostByRevert
  <1>11. /\ \A n \in 1..k : NamesAreFree(files'[n].up, SchemaAfter(n - 1)')
         /\ SchemaAfter(k)' = T /\ db' = e
    BY <1>2, <1>9 DEF SchemaAfter
  <1> QED
    BY <1>8, <1>10, <1>11 DEF Described

\* Down: the file k is reverted in a database that its schema describes.
LEMMA DownDescribes ==
    ASSUME TypeInv, Chained, NEW k \in DOMAIN files,
           \A n \in DOMAIN files : Declarable(files[n].schema), Described(k),
           applied = 1..k, Executes(db, files[k].down),
           db' = ExecutedFile(db, files[k].down), applied' = applied \ {k}, files' = files
    PROVE  Described(k - 1)'
  <1> DEFINE S == SchemaAfter(k - 1)
             T == files[k].schema
             up == files[k].up
             down == files[k].down
             e == ExecutedFile(db, down)
  <1>1. k \in Nat /\ k # 0 /\ k - 1 \in 0..Len(files) /\ k \in 0..Len(files) /\ DOMAIN files = 1..Len(files)
        /\ k \in 1..k
    BY DEF TypeInv
  <1>2. S \in Schemas /\ T \in Schemas /\ SchemaAfter(k) = T
    BY <1>1, SchemasAfter, FilesAreGood DEF TypeInv, SchemaAfter
  <1>3. GoodSchema(S) /\ GoodSchema(T) /\ Declarable(S)
    BY <1>1, <1>2, SchemasAreGood, DeclarableAfter
  <1>4. up = Compare(T, S) /\ down = InvertDiff(Compare(T, S))
    <2>1. files[k] = FileOf(T, S)
      BY DEF Chained
    <2> HIDE DEF T, S
    <2> QED
      BY <2>1 DEF FileOf
  <1>5. GoodDb(db) /\ Describes(T, db) /\ Executes(db, down)
    BY <1>2 DEF TypeInv, Described
  <1>6. NamesAreFree(Compare(T, S), S)
    BY <1>1, <1>4 DEF Described
  <1>7. FileLeads(down, T, S) /\ GoodFile(down) /\ FileLeads(up, S, T)
    BY <1>3, <1>4, <1>6, DownLeads, UpLeads, ComparedIsGood
  <1>8. /\ Describes(S, e)
        /\ \A t \in DOMAIN db : t \in DOMAIN S => t \in DOMAIN e
    <2> HIDE DEF S, T, up, down, e
    <2> QED
      BY <1>3, <1>5, <1>7, FileArrives DEF e
  <1>9. \A n \in 1..k-1 : NamesAreFree(files[n].up, SchemaAfter(n - 1))
    <2>1. \A n \in 1..k-1 : n \in 1..k
      BY <1>1
    <2> QED
      BY <2>1 DEF Described
  <1>10. ASSUME NEW t \in DOMAIN S, t \notin DOMAIN e PROVE LostByRevert(t)'
    <2>1. CASE t \in DOMAIN T
      <3>1. LostByRevert(t)
        BY <1>2, <1>8, <1>10, <2>1 DEF Described
      <3>2. PICK n \in Pending : \E i \in DOMAIN files[n].up :
                files[n].up[i].kind = "drop_table" /\ files[n].up[i].table = t
        BY <3>1 DEF LostByRevert
      <3>3. n \in Pending'
        BY <3>2 DEF Pending
      <3> QED
        BY <3>2, <3>3 DEF LostByRevert
    <2>2. CASE t \notin DOMAIN T
      <3>1. \E i \in DOMAIN up : up[i].kind = "drop_table" /\ up[i].table = t
        BY <1>7, <1>10, <2>2 DEF FileLeads
      <3>2. k \in Pending'
        BY DEF Pending
      <3> QED
        BY <3>1, <3>2 DEF LostByRevert
    <2> QED
      BY <2>1, <2>2
  <1>11. /\ \A n \in 1..k-1 : NamesAreFree(files'[n].up, SchemaAfter(n - 1)')
         /\ SchemaAfter(k - 1)' = S /\ db' = e
    BY <1>9 DEF SchemaAfter
  <1> QED
    BY <1>8, <1>10, <1>11 DEF Described

LEMMA RegistryStays ==
    ASSUME RegistryInv, UNCHANGED <<files, applied, db, regular>>
    PROVE  RegistryInv'
  BY DEF RegistryInv, Chained, Described, SchemaAfter, LostByRevert, Pending

LEMMA RegistryInvIsInductive ==
    ASSUME TypeInv, TypeInv', RegistryInv, [Next]_vars
    PROVE  RegistryInv'
  <1>1. CASE Generate
    <2> SUFFICES ASSUME regular' PROVE RegistryInv'
      BY DEF RegistryInv
    <2>1. regular /\ snapshot = SchemaAfter(Len(files))
      BY <1>1 DEF Generate
    <2>2. PICK k \in 0..Len(files) :
              /\ applied = 1..k
              /\ Chained
              /\ (\A n \in DOMAIN files : Declarable(files[n].schema)) => Described(k)
      BY <2>1 DEF RegistryInv
    <2> DEFINE file == FileOf(Built(models), Previous)
    <2>3. file \in FileSet
      BY PreviousIsSchema DEF TypeInv, FileSet
    <2>4. files' = Append(files, file) /\ UNCHANGED <<applied, db>>
      BY <1>1 DEF Generate, FileOf
    <2>5. file.schema = Built(models)
      BY DEF FileOf
    <2>6. Len(files) \in Nat /\ SchemaAfter(Len(files)) \in Schemas
      <3>1. Len(files) \in Nat /\ Len(files) \in 0..Len(files)
        BY DEF TypeInv
      <3> QED
        BY <3>1, SchemasAfter DEF TypeInv
    <2>7. Previous = SchemaAfter(Len(files))
      <3>1. CASE snapshot = Lost
        <4>1. \A m \in Models : Built(m) # Lost
          BY LostAssumption
        <4>2. SchemaAfter(Len(files)) = NoSchema
          BY <2>1, <2>6, <3>1, <4>1 DEF Schemas
        <4> QED
          BY <3>1, <4>2 DEF Previous
      <3>2. CASE snapshot # Lost
        BY <2>1, <3>2 DEF Previous
      <3> QED
        BY <3>1, <3>2
    <2>8. file = FileOf(file.schema, SchemaAfter(Len(files)))
      BY <2>5, <2>7
    <2> HIDE DEF file
    <2>9. /\ files' \in Seq(FileSet) /\ Len(files') = Len(files) + 1
          /\ DOMAIN files = 1..Len(files) /\ DOMAIN files' = 1..Len(files)+1
          /\ \A n \in 1..Len(files) : files'[n] = files[n]
          /\ files'[Len(files) + 1] = file
          /\ \A n \in 0..Len(files) : SchemaAfter(n)' = SchemaAfter(n)
      BY <2>3, <2>4, AppendedFiles DEF TypeInv
    <2>10. k \in 0..Len(files') /\ applied' = 1..k
      BY <2>2, <2>4, <2>6, <2>9
    <2>11. Chained'
      <3> SUFFICES ASSUME NEW n \in DOMAIN files'
                   PROVE  files'[n] = FileOf(files'[n].schema, SchemaAfter(n - 1)')
        BY DEF Chained, FileOf
      <3>1. n - 1 \in 0..Len(files)
        BY <2>6, <2>9
      <3>2. SchemaAfter(n - 1)' = SchemaAfter(n - 1)
        BY <2>9, <3>1
      <3>3. CASE n \in DOMAIN files
        BY <2>2, <2>9, <3>2, <3>3 DEF Chained
      <3>4. CASE n \notin DOMAIN files
        <4>1. n = Len(files) + 1 /\ n - 1 = Len(files)
          BY <2>6, <2>9, <3>4
        <4>2. SchemaAfter(n - 1) = SchemaAfter(Len(files))
          BY <4>1
        <4>3. files'[n] = file
          BY <2>9, <4>1
        <4> QED
          BY <2>8, <3>2, <4>2, <4>3
      <3> QED
        BY <3>3, <3>4
    <2>12. ASSUME \A n \in DOMAIN files' : Declarable(files'[n].schema) PROVE Described(k)'
      <3>1. \A n \in DOMAIN files : Declarable(files[n].schema)
        BY <2>6, <2>9, <2>12
      <3>2. Described(k)
        BY <2>2, <3>1
      <3>3. ASSUME NEW t, LostByRevert(t) PROVE LostByRevert(t)'
        <4>1. PICK n \in Pending : \E i \in DOMAIN files[n].up :
                  files[n].up[i].kind = "drop_table" /\ files[n].up[i].table = t
          BY <3>3 DEF LostByRevert
        <4>2. n \in Pending' /\ files'[n] = files[n]
          BY <2>4, <2>6, <2>9, <4>1 DEF Pending
        <4> QED
          BY <4>1, <4>2 DEF LostByRevert
      <3>4. SchemaAfter(k)' = SchemaAfter(k) /\ db' = db
        BY <2>4, <2>9
      <3>5. ASSUME NEW n \in 1..k PROVE NamesAreFree(files'[n].up, SchemaAfter(n - 1)')
        <4>1. n \in 1..Len(files) /\ n - 1 \in 0..Len(files)
          BY <2>6
        <4>2. files'[n] = files[n] /\ SchemaAfter(n - 1)' = SchemaAfter(n - 1)
          BY <2>9, <4>1
        <4> QED
          BY <3>2, <4>2 DEF Described
      <3>6. /\ Describes(SchemaAfter(k)', db')
            /\ \A t \in DOMAIN SchemaAfter(k)' : t \notin DOMAIN db' => LostByRevert(t)'
        BY <3>2, <3>3, <3>4 DEF Described
      <3> QED
        BY <3>5, <3>6 DEF Described, NamesAreFree
    <2> QED
      BY <2>10, <2>11, <2>12 DEF RegistryInv
  <1>2. CASE RunNext
    <2> SUFFICES ASSUME regular' PROVE RegistryInv'
      BY DEF RegistryInv
    <2>1. regular /\ Pending # {} /\ files' = files /\ regular' = regular
      BY <1>2 DEF RunNext
    <2>2. PICK k \in 0..Len(files) :
              /\ applied = 1..k
              /\ Chained
              /\ (\A n \in DOMAIN files : Declarable(files[n].schema)) => Described(k)
      BY <2>1 DEF RegistryInv
    <2>3. PICK m : m = k + 1
      OBVIOUS
    <2>4. m = Min(Pending) /\ m \in DOMAIN files /\ k = m - 1 /\ k \in Nat
      BY <2>1, <2>2, <2>3, PendingAre
    <2>5. /\ Executes(db, files[m].up) /\ db' = ExecutedFile(db, files[m].up)
          /\ applied' = applied \cup {m}
      BY <1>2, <2>4 DEF RunNext
    <2>6. applied' = 1..m /\ m \in 0..Len(files')
      BY <2>1, <2>2, <2>4, <2>5 DEF TypeInv
    <2>7. Chained'
      BY <2>1, <2>2 DEF Chained, SchemaAfter
    <2>8. ASSUME \A n \in DOMAIN files' : Declarable(files'[n].schema) PROVE Described(m)'
      <3>1. \A n \in DOMAIN files : Declarable(files[n].schema)
        BY <2>1, <2>8
      <3>2. Described(m - 1) /\ applied = 1..m-1
        BY <2>2, <2>4, <3>1
      <3> QED
        BY <2>1, <2>2, <2>4, <2>5, <3>1, <3>2, UpDescribes
    <2> QED
      BY <2>6, <2>7, <2>8 DEF RegistryInv
  <1>3. ASSUME NEW m \in DOMAIN files, Revert(m) PROVE RegistryInv'
    <2> SUFFICES ASSUME regular' PROVE RegistryInv'
      BY DEF RegistryInv
    <2>1. regular /\ m \in applied /\ m = Max(applied) /\ files' = files
      BY <1>3 DEF Revert
    <2>2. PICK k \in 0..Len(files) :
              /\ applied = 1..k
              /\ Chained
              /\ (\A n \in DOMAIN files : Declarable(files[n].schema)) => Described(k)
      BY <2>1 DEF RegistryInv
    <2>3. k \in Nat /\ m = k /\ k # 0 /\ m \in DOMAIN files
      BY <2>1, <2>2, AppliedAre DEF TypeInv
    <2>4. /\ Executes(db, files[m].down) /\ db' = ExecutedFile(db, files[m].down)
          /\ applied' = applied \ {m}
      BY <1>3 DEF Revert
    <2>5. applied' = 1..m-1 /\ m - 1 \in 0..Len(files')
      BY <2>1, <2>2, <2>3, <2>4 DEF TypeInv
    <2>6. Chained'
      BY <2>1, <2>2 DEF Chained, SchemaAfter
    <2>7. ASSUME \A n \in DOMAIN files' : Declarable(files'[n].schema) PROVE Described(m - 1)'
      <3>1. \A n \in DOMAIN files : Declarable(files[n].schema)
        BY <2>1, <2>7
      <3>2. Described(m) /\ applied = 1..m
        BY <2>2, <2>3, <3>1
      <3> QED
        BY <2>1, <2>2, <2>3, <2>4, <3>1, <3>2, DownDescribes
    <2> QED
      BY <2>5, <2>6, <2>7 DEF RegistryInv
  <1>4. ASSUME NEW t \in TableName, NEW c \in ColumnName, ChangedByHand(t, c) PROVE RegistryInv'
    BY <1>4 DEF ChangedByHand, RegistryInv
  <1>5. ASSUME NEW m \in Models, EditModels(m) PROVE RegistryInv'
    BY <1>5, RegistryStays DEF EditModels
  <1>6. CASE SnapshotIsLost \/ CheckStarts \/ ReadTables \/ ReadColumns \/ ReadConstraints
             \/ ReadIndexes \/ UNCHANGED vars
    BY <1>6, RegistryStays
       DEF SnapshotIsLost, CheckStarts, ReadTables, ReadColumns, ReadConstraints, ReadIndexes, vars
  <1> QED
    BY <1>1, <1>2, <1>3, <1>4, <1>5, <1>6 DEF Next

LEMMA RegistryInvInitially == ASSUME Init PROVE RegistryInv
  <1>1. Len(files) = 0 /\ DOMAIN files = {} /\ 0 \in 0..Len(files) /\ applied = 1..0
    BY DEF Init
  <1>2. Chained
    BY <1>1 DEF Chained
  <1>3. Described(0)
    <2>1. SchemaAfter(0) = NoSchema /\ db = NoSchema /\ DOMAIN NoSchema = {}
      BY DEF Init, SchemaAfter, NoSchema
    <2>2. \A n \in 1..0 : FALSE
      OBVIOUS
    <2> QED
      BY <2>1, <2>2 DEF Described, Describes
  <1> QED
    BY <1>1, <1>2, <1>3 DEF RegistryInv

\* What an orderly history says of the database.
LEMMA OrderlyDescribes ==
    ASSUME TypeInv, RegistryInv, Orderly
    PROVE  LET k == Cardinality(applied)
           IN  /\ k \in 0..Len(files) /\ applied = 1..k /\ Chained /\ Described(k)
               /\ \A n \in DOMAIN files : Declarable(files[n].schema)
  <1>1. PICK k \in 0..Len(files) : applied = 1..k /\ Chained /\ Described(k)
    BY DEF Orderly, RegistryInv
  <1>2. k \in Nat
    BY DEF TypeInv
  <1>3. Cardinality(applied) = k
    BY <1>1, <1>2, AppliedAre
  <1> QED
    BY <1>1, <1>3 DEF Orderly

LEMMA LikeHasShape ==
    ASSUME NEW a, GoodTable(a, DbColumn), NEW s, ModelTable(s), Like(a, s)
    PROVE  SameShape(a, s)
  <1>1. \A c \in DOMAIN a.columns : RenderType(a.columns[c].type) = a.columns[c].type
    <2>1. \A c \in DOMAIN a.columns : a.columns[c].type # "date"
      BY DEF GoodTable, DbColumn
    <2> QED
      BY <2>1 DEF RenderType
  <1>2. Shape(a.columns) = Shape(s.columns)
    <2> DEFINE cs == a.columns
               ss == s.columns
    <2>1. /\ DOMAIN cs = DOMAIN ss
          /\ \A c \in DOMAIN ss : /\ RenderType(cs[c].type) = RenderType(ss[c].type)
                                  /\ cs[c].null = ss[c].null /\ cs[c].default = ss[c].default
      BY <1>1 DEF Like
    <2> HIDE DEF cs, ss
    <2>2. Shape(cs) = Shape(ss)
      BY <2>1 DEF Shape
    <2> QED
      BY <2>2 DEF cs, ss
  <1> QED
    BY <1>2 DEF SameShape, Like

\* While migrations come from kept snapshots and the last one is the one reverted, the
\* last applied file says what the database looks like, for every sequence of edits,
\* runs and reverts: what is missing are only tables whose drop was reverted.
THEOREM RegistryTellsTheSchema == Spec => []RegistryDescribesSchema
  <1>1. ASSUME TypeInv, RegistryInv PROVE RegistryDescribesSchema
    <2> SUFFICES ASSUME Orderly PROVE RegistryDescribesSchema
      BY DEF RegistryDescribesSchema
    <2> DEFINE k == Cardinality(applied)
               last == SchemaAfter(k)
    <2>1. k \in 0..Len(files) /\ Described(k)
      BY <1>1, OrderlyDescribes
    <2> HIDE DEF k
    <2>2. GoodSchema(last)
      BY <1>1, <2>1, SchemasAfter, SchemasAreGood DEF TypeInv
    <2>3. /\ DOMAIN db \subseteq DOMAIN last /\ \A t \in DOMAIN db : Like(db[t], last[t])
          /\ \A t \in DOMAIN last : t \notin DOMAIN db => LostByRevert(t)
      BY <2>1 DEF Described, Describes
    <2> HIDE DEF last
    <2>4. ASSUME NEW t \in DOMAIN db PROVE SameShape(db[t], last[t])
      <3>1. GoodTable(db[t], DbColumn) /\ ModelTable(last[t]) /\ Like(db[t], last[t])
        BY <1>1, <2>2, <2>3 DEF TypeInv, GoodDb, GoodSchema
      <3> QED
        BY <3>1, LikeHasShape
    <2> QED
      BY <2>3, <2>4 DEF RegistryDescribesSchema, last, k
  <1>2. TypeInv /\ RegistryInv => RegistryDescribesSchema
    BY <1>1
  <1> QED
    BY <1>2, InitTypes, TypeInvIsInductive, RegistryInvInitially, RegistryInvIsInductive, PTL DEF Spec

-----------------------------------------------------------------------------
\* Files that execute

LEMMA NeverRefused ==
    ASSUME NEW O, NEW N, GoodSchema(O), GoodSchema(N), Declarable(N),
           NEW d, GoodDb(d), Describes(O, d), NEW file, GoodFile(file), FileLeads(file, O, N),
           ASSUME NEW i \in DOMAIN file, NEW e, GoodDb(e), Underway(file, i - 1, d, e, O, N)
           PROVE  ~ Refused(e, file[i])
    PROVE  Executes(d, file)
  <1> DEFINE after == Along(d, file)
             T == {m \in 0..Len(file) : \A i \in 1..m : ~ Refused(after[i - 1], file[i])}
  <1>1. Len(file) \in Nat /\ DOMAIN file = 1..Len(file)
    BY DEF GoodFile
  <1>2. 0 \in T
    BY <1>1
  <1>3. ASSUME NEW m \in 0..Len(file)-1, m \in T PROVE m + 1 \in T
    <2>1. PICK i \in DOMAIN file : i = m + 1
      BY <1>1
    <2>2. m \in 0..Len(file) /\ \A j \in 1..m : ~ Refused(after[j - 1], file[j])
      BY <1>3
    <2>3. GoodDb(after[m]) /\ Underway(file, m, d, after[m], O, N)
      BY <2>2, FileIsUnderway
    <2>4. m = i - 1 /\ i \in 0..Len(file)
      BY <1>1, <2>1
    <2> HIDE DEF after
    <2>5. ~ Refused(after[i - 1], file[i])
      BY <2>3, <2>4
    <2>6. \A j \in 1..i : ~ Refused(after[j - 1], file[j])
      <3>1. \A j \in 1..i : j = i \/ j \in 1..m
        BY <1>1, <2>4
      <3> QED
        BY <2>2, <2>5, <3>1
    <2> QED
      BY <2>1, <2>4, <2>6
  <1>4. Len(file) \in T
    <2> HIDE DEF T
    <2>1. \A k \in 0..Len(file)-1 : k \in T => k + 1 \in T
      BY <1>3
    <2> DEFINE L == Len(file)
    <2>2. L \in Nat /\ \A k \in 0..L-1 : k \in T => k + 1 \in T
      BY <1>1, <2>1
    <2> HIDE DEF L
    <2>3. L \in T
      BY <1>2, <2>2, UpTo
    <2> QED
      BY <2>3 DEF L
  <1> QED
    BY <1>1, <1>4 DEF Executes

\* Why an operation is executed when it is its turn.
LEMMA NotRefused ==
    ASSUME NEW O, NEW N, GoodSchema(O), GoodSchema(N), Declarable(N),
           NEW d, Describes(O, d), DOMAIN d = DOMAIN O, NEW file, FileLeads(file, O, N),
           NEW i \in DOMAIN file, NEW e, Underway(file, i - 1, d, e, O, N),
           NEW op, op = file[i], NEW t, t = op.table, NEW W, W = Waiting(file, i - 1, t),
           op.kind = "alter_column" =>
               /\ ~ Unalterable(d[t].columns[op.name], op.def.from, op.def.to)
               /\ \/ ~ (op.def.to.null /\ InKey(d[t], op.name))
                  \/ /\ ~ Waits(W, "drop_constraint", PrimaryKeyName)
                     /\ ~ Waits(W, "create_constraint", PrimaryKeyName),
           op.kind = "create_constraint" => op.name \notin DOMAIN d[t].constraints,
           op.kind \in {"create_constraint", "create_index"} =>
               \A c \in op.def.columns : c \in DOMAIN N[t].columns /\ ~ Waits(W, "add_column", c)
    PROVE  ~ Refused(e, op)
  <1> SUFFICES ASSUME op.kind \notin {"create_table", "drop_table", "drop_index"}
               PROVE  ~ Refused(e, op)
    BY DEF Refused
  <1>1. /\ t \in DOMAIN O \cap DOMAIN N
        /\ op.kind = "create_index" \/ DiffersInTable(op, N[t], O[t])
    BY DEF FileLeads
  <1>2. t \in DOMAIN d /\ t \in DOMAIN e /\ OnTheWay(W, d[t], e[t], O[t], N[t])
    BY <1>1 DEF Underway
  <1>3. Waits(W, op.kind, op.name)
    <2>1. Len(file) \in Nat /\ DOMAIN file = 1..Len(file) /\ Distinct(file)
      BY DEF FileLeads
    <2> QED
      BY <2>1, WaitingSteps
  <1> DEFINE cs == e[t].columns
             ks == e[t].constraints
             from == d[t].columns
             fromKs == d[t].constraints
             ns == N[t].columns
             nks == N[t].constraints
             c == op.name
  <1>4. ColumnsOnTheWay(W, from, cs, ns)
        /\ ConstraintsOnTheWay(W, fromKs, ks, DOMAIN O[t].columns \ DOMAIN N[t].columns, nks)
    BY <1>2 DEF OnTheWay
  <1>5. ASSUME op.kind = "alter_column"
        PROVE  /\ c \in DOMAIN cs
               /\ ~ Unalterable(cs[c], op.def.from, op.def.to)
               /\ ~ (op.def.to.null /\ InKey(e[t], c))
    <2>1. c \in DOMAIN ns /\ op.def.to = ns[c]
      BY <1>1, <1>5 DEF DiffersInTable
    <2>2. c \in DOMAIN cs /\ cs[c].type = from[c].type /\ cs[c].identity = from[c].identity
      <3>1. Waits(W, "alter_column", c)
        BY <1>3, <1>5
      <3> HIDE DEF cs, from, ns, c
      <3> QED
        BY <1>4, <2>1, <3>1 DEF ColumnsOnTheWay
    <2>3. ~ Unalterable(from[c], op.def.from, op.def.to)
      BY <1>5
    <2>4. ~ Unalterable(cs[c], op.def.from, op.def.to)
      <3> HIDE DEF cs, from, c
      <3> QED
        BY <2>2, <2>3 DEF Unalterable
    <2>5. ASSUME op.def.to.null, InKey(e[t], c) PROVE FALSE
      <3>1. PrimaryKeyName \in DOMAIN ks /\ c \in ks[PrimaryKeyName].columns
        BY <2>5 DEF InKey
      <3>2. CASE PrimaryKeyName \in DOMAIN nks /\ ks[PrimaryKeyName] = nks[PrimaryKeyName]
        <4>1. InKey(N[t], c)
          BY <3>1, <3>2 DEF InKey
        <4>2. ns[c].pk
          BY <1>1, <2>1, <4>1 DEF GoodSchema, ModelTable
        <4> QED
          BY <1>1, <2>1, <2>5, <4>2 DEF Declarable
      <3>3. CASE /\ PrimaryKeyName \in DOMAIN fromKs /\ ks[PrimaryKeyName] = fromKs[PrimaryKeyName]
                 /\ \/ Waits(W, "drop_constraint", PrimaryKeyName)
                    \/ Waits(W, "create_constraint", PrimaryKeyName)
        <4>1. InKey(d[t], c)
          BY <3>1, <3>3 DEF InKey
        <4> QED
          BY <1>5, <2>5, <3>3, <4>1
      <3> QED
        BY <1>4, <3>1, <3>2, <3>3 DEF ConstraintsOnTheWay
    <2> QED
      BY <2>2, <2>4, <2>5
  <1>6. ASSUME op.kind = "create_constraint" PROVE c \notin DOMAIN ks
    BY <1>3, <1>4, <1>6 DEF ConstraintsOnTheWay
  <1>7. ASSUME op.kind \in {"create_constraint", "create_index"} PROVE op.def.columns \subseteq DOMAIN cs
    BY <1>4, <1>7 DEF ColumnsOnTheWay
  <1> QED
    BY <1>2, <1>5, <1>6, <1>7 DEF Refused

LEMMA UpExecutes ==
    ASSUME TypeInv, NEW T, NEW S, GoodSchema(T), GoodSchema(S), Declarable(T),
           Describes(S, db), DOMAIN db = DOMAIN S, NEW up, up = Compare(T, S),
           ~ ChangesKey(up), ~ AltersForGood(up)
    PROVE  Executes(db, up)
  <1>1. FileLeads(up, S, T) /\ GoodFile(up) /\ GoodDb(db)
    BY UpLeads, ComparedIsGood DEF TypeInv
  <1>2. /\ Len(up) \in Nat /\ DOMAIN up = 1..Len(up)
        /\ \A n \in DOMAIN up : Differs(up[n], T, S)
        /\ \A m \in DOMAIN up, n \in DOMAIN up : Before(up[m], up[n]) <=> m < n
    BY GoodSchemasAreNamed, CompareLists
  <1>3. ASSUME NEW i \in DOMAIN up, NEW e, GoodDb(e), Underway(up, i - 1, db, e, S, T)
        PROVE  ~ Refused(e, up[i])
    <2> DEFINE op == up[i]
               t == op.table
               W == Waiting(up, i - 1, t)
    <2>1. i - 1 \in Nat /\ i \in Nat /\ \A j \in DOMAIN up : j > i - 1 => j = i \/ i < j
      BY <1>2
    <2>2. op.kind \in DOMAIN KindRank /\ t \in Nat
      BY <1>1, NameAssumption DEF GoodFile, GoodOp
    <2>3. Differs(op, T, S)
      BY <1>2
    <2>4. op.kind \notin {"create_table", "drop_table"} =>
              t \in DOMAIN S \cap DOMAIN T /\ t \in DOMAIN db /\ DiffersInTable(op, T[t], S[t])
      BY <2>3 DEF Differs
    <2>5. ASSUME op.kind \in {"create_constraint", "create_index"}, NEW c \in op.def.columns
          PROVE  c \in DOMAIN T[t].columns /\ ~ Waits(W, "add_column", c)
      <3>1. c \in DOMAIN T[t].columns
        <4>1. \/ op.name \in DOMAIN T[t].constraints /\ op.def = T[t].constraints[op.name]
              \/ op.name \in DOMAIN T[t].indexes /\ op.def = T[t].indexes[op.name]
          BY <2>4, <2>5 DEF DiffersInTable
        <4>2. t \in DOMAIN T
          BY <2>4, <2>5
        <4>3. PartsOf(T[t].constraints, ConstraintName, DOMAIN T[t].columns)
              /\ PartsOf(T[t].indexes, ColumnName, DOMAIN T[t].columns)
          BY <4>2 DEF GoodSchema, ModelTable, GoodTable
        <4> HIDE DEF t
        <4> QED
          BY <2>5, <4>1, <4>3 DEF PartsOf
      <3>2. ASSUME Waits(W, "add_column", c) PROVE FALSE
        <4>1. PICK j \in DOMAIN up : j > i - 1 /\ up[j].table = t /\ up[j].kind = "add_column"
          BY <1>2, <2>1, <3>2, WaitingIs
        <4>2. j = i \/ Before(op, up[j])
          BY <1>2, <2>1, <4>1
        <4> HIDE DEF op
        <4>3. ~ t < t
          BY <2>2
        <4>4. j = i
          BY <2>5, <4>1, <4>2, <4>3 DEF Before, KindRank
        <4> QED
          BY <2>5, <4>1, <4>4 DEF op
      <3> QED
        BY <3>1, <3>2
    <2>6. ASSUME op.kind = "alter_column"
          PROVE  /\ ~ Unalterable(db[t].columns[op.name], op.def.from, op.def.to)
                 /\ ~ (op.def.to.null /\ InKey(db[t], op.name))
      BY <2>4, <2>6 DEF AltersForGood, ChangesKey
    <2>7. ASSUME op.kind = "create_constraint" PROVE op.name \notin DOMAIN db[t].constraints
      BY <2>4, <2>7 DEF ChangesKey
    <2>8. op = up[i] /\ t = op.table /\ W = Waiting(up, i - 1, t)
      OBVIOUS
    <2> HIDE DEF op, t, W
    <2>9. ~ Refused(e, op)
      BY <1>1, <1>3, <2>5, <2>6, <2>7, <2>8, NotRefused
    <2> QED
      BY <2>9 DEF op
  <1> DEFINE d == db
  <1>4. GoodDb(d) /\ Describes(S, d)
    BY <1>1
  <1>5. ASSUME NEW i \in DOMAIN up, NEW e, GoodDb(e), Underway(up, i - 1, d, e, S, T)
        PROVE  ~ Refused(e, up[i])
    BY <1>3, <1>5
  <1>6. Executes(d, up)
    <2> HIDE DEF d
    <2> QED
      BY <1>1, <1>4, <1>5, NeverRefused
  <1> QED
    BY <1>6

\* Behind the last applied file, the next one.
LEMMA NextIs ==
    ASSUME TypeInv, RegistryInv, Orderly, NEW k, k = Cardinality(applied) + 1, Pending # {}
    PROVE  /\ k \in DOMAIN files /\ Min(Pending) = k
           /\ LET T == files[k].schema
                  S == SchemaAfter(k - 1)
              IN  /\ GoodSchema(T) /\ GoodSchema(S) /\ Declarable(T) /\ Describes(S, db)
                  /\ files[k].up = Compare(T, S)
  <1>1. PICK last \in Nat : last = Cardinality(applied) /\ last \in 0..Len(files)
                            /\ applied = 1..last /\ Chained /\ Described(last)
                            /\ \A n \in DOMAIN files : Declarable(files[n].schema)
    <2>1. Len(files) \in Nat
      BY DEF TypeInv
    <2> QED
      BY <2>1, OrderlyDescribes
  <1>2. k = last + 1 /\ k - 1 = last
    BY <1>1
  <1>3. Min(Pending) = k /\ k \in DOMAIN files
    BY <1>1, <1>2, PendingAre
  <1> DEFINE T == files[k].schema
             S == SchemaAfter(k - 1)
  <1>4. T \in Schemas /\ S \in Schemas
    BY <1>1, <1>2, <1>3, SchemasAfter, FilesAreGood DEF TypeInv
  <1>5. files[k] = FileOf(T, S)
    BY <1>1, <1>3 DEF Chained
  <1>6. Declarable(T) /\ Describes(S, db)
    BY <1>1, <1>2, <1>3 DEF Described
  <1>7. files[k].up = Compare(T, S)
    <2> HIDE DEF T, S
    <2> QED
      BY <1>5 DEF FileOf
  <1> QED
    BY <1>3, <1>4, <1>6, <1>7, SchemasAreGood

\* In an orderly history the next file executes, but for a primary key that changes, for
\* columns that PostgreSQL does not alter in this way, and for tables lost by a revert:
\* Compare's order of the operations is one that PostgreSQL can execute.
THEOREM NextFilesExecute == Spec => []NextFileExecutes
  <1>1. ASSUME TypeInv, RegistryInv PROVE NextFileExecutes
    <2> DEFINE k == Cardinality(applied) + 1
    <2> SUFFICES ASSUME Orderly, Pending # {}, DOMAIN db = DOMAIN SchemaAfter(k - 1),
                        ~ ChangesKey(files[k].up), ~ AltersForGood(files[k].up)
                 PROVE  Executes(db, files[k].up)
      BY DEF NextFileExecutes
    <2> HIDE DEF k
    <2>1. LET T == files[k].schema
              S == SchemaAfter(k - 1)
          IN  /\ GoodSchema(T) /\ GoodSchema(S) /\ Declarable(T) /\ Describes(S, db)
              /\ files[k].up = Compare(T, S)
      BY <1>1, NextIs DEF k
    <2> QED
      BY <1>1, <2>1, UpExecutes
  <1>2. TypeInv /\ RegistryInv => NextFileExecutes
    BY <1>1
  <1> QED
    BY <1>2, InitTypes, TypeInvIsInductive, RegistryInvInitially, RegistryInvIsInductive, PTL DEF Spec

LEMMA DownExecutes ==
    ASSUME TypeInv, NEW T, NEW S, GoodSchema(T), GoodSchema(S), Declarable(S),
           Describes(T, db), DOMAIN db = DOMAIN T, NamesAreFree(Compare(T, S), S),
           ~ DropsIndexedColumn(Compare(T, S)), ~ AltersForGood(InvertDiff(Compare(T, S)))
    PROVE  Executes(db, InvertDiff(Compare(T, S)))
  <1> DEFINE up == Compare(T, S)
             down == InvertDiff(up)
  <1>1. FileLeads(down, T, S) /\ GoodFile(down) /\ GoodDb(db)
    BY DownLeads, ComparedIsGood DEF TypeInv
  <1>2. /\ Len(up) \in Nat /\ DOMAIN up = 1..Len(up)
        /\ \A n \in DOMAIN up : Differs(up[n], T, S)
        /\ \A m \in DOMAIN up, n \in DOMAIN up : Before(up[m], up[n]) <=> m < n
    BY GoodSchemasAreNamed, CompareLists
  <1>3. Len(down) \in Nat /\ DOMAIN down = 1..Len(down)
    BY DownIs
  <1>4. PICK back \in [DOMAIN down -> DOMAIN up] :
              /\ \A n \in DOMAIN down :
                    LET op == up[back[n]]
                    IN  /\ op.kind # "drop_table" /\ op.kind \in DOMAIN InverseKind
                        /\ down[n].kind = InverseKind[op.kind]
                        /\ down[n].table = op.table /\ down[n].name = op.name
                        /\ op.kind = "alter_column" =>
                               down[n].def = [to |-> op.def.from, from |-> op.def.to]
                        /\ op.kind # "alter_column" => down[n].def = op.def
              /\ \A m \in DOMAIN down, n \in DOMAIN down : back[n] < back[m] <=> m < n
    BY DownIs
  <1> ~ DropsIndexedColumn(up) /\ ~ AltersForGood(down)
    OBVIOUS
  <1> HIDE DEF up, down
  <1>5. ASSUME NEW n \in DOMAIN down
        PROVE  /\ back[n] \in DOMAIN up
               /\ down[n].kind = "add_column" => up[back[n]].kind = "drop_column"
               /\ down[n].kind = "alter_column" => up[back[n]].kind = "alter_column"
               /\ down[n].kind = "create_index" => up[back[n]].kind = "drop_index"
               /\ down[n].kind = "create_constraint" => up[back[n]].kind = "drop_constraint"
               /\ down[n].kind = "drop_constraint" => up[back[n]].kind = "create_constraint"
    <2>1. back[n] \in DOMAIN up
      BY <1>4
    <2>2. up[back[n]].kind \in DOMAIN InverseKind /\ down[n].kind = InverseKind[up[back[n]].kind]
          /\ up[back[n]].kind # "drop_table"
      BY <1>4
    <2> DEFINE kind == up[back[n]].kind
    <2>3. kind \in DOMAIN InverseKind /\ down[n].kind = InverseKind[kind]
      BY <2>2
    <2>4. /\ down[n].kind = "add_column" => kind = "drop_column"
          /\ down[n].kind = "alter_column" => kind = "alter_column"
          /\ down[n].kind = "create_index" => kind = "drop_index"
          /\ down[n].kind = "create_constraint" => kind = "drop_constraint"
          /\ down[n].kind = "drop_constraint" => kind = "create_constraint"
      <3> HIDE DEF kind
      <3> QED
        BY <2>3 DEF InverseKind
    <2> QED
      BY <2>1, <2>4
  <1>6. ASSUME NEW i \in DOMAIN down, NEW e, GoodDb(e), Underway(down, i - 1, db, e, T, S)
        PROVE  ~ Refused(e, down[i])
    <2> DEFINE op == down[i]
               t == op.table
               W == Waiting(down, i - 1, t)
               done == up[back[i]]
    <2>1. i - 1 \in Nat /\ i \in Nat /\ \A j \in DOMAIN down : j > i - 1 => j = i \/ i < j
      BY <1>3
    <2>2. op.kind \in DOMAIN KindRank /\ t \in Nat
      BY <1>1, NameAssumption DEF GoodFile, GoodOp
    <2>3. /\ Differs(done, T, S) /\ done.table = t /\ done.name = op.name
          /\ done.kind # "alter_column" => op.def = done.def
      BY <1>2, <1>4, <1>5
    <2>4. done.kind \in {"alter_column", "drop_index", "drop_constraint"} =>
              t \in DOMAIN S \cap DOMAIN T /\ t \in DOMAIN db /\ DiffersInTable(done, T[t], S[t])
      <3> HIDE DEF done, t
      <3> QED
        BY <2>3 DEF Differs
    <2>5. ASSUME op.kind \in {"create_constraint", "create_index"}, NEW c \in op.def.columns
          PROVE  c \in DOMAIN S[t].columns /\ ~ Waits(W, "add_column", c)
      <3>1. done.kind \in {"drop_index", "drop_constraint"} /\ op.def = done.def
        BY <1>5, <2>3, <2>5
      <3>2. c \in DOMAIN S[t].columns
        <4>1. t \in DOMAIN S /\ DiffersInTable(done, T[t], S[t]) /\ c \in done.def.columns
          BY <2>4, <2>5, <3>1
        <4> HIDE DEF done, t
        <4>2. \/ done.name \in DOMAIN S[t].constraints /\ done.def = S[t].constraints[done.name]
              \/ done.name \in DOMAIN S[t].indexes /\ done.def = S[t].indexes[done.name]
          BY <3>1, <4>1 DEF DiffersInTable
        <4>3. PartsOf(S[t].constraints, ConstraintName, DOMAIN S[t].columns)
              /\ PartsOf(S[t].indexes, ColumnName, DOMAIN S[t].columns)
          BY <4>1 DEF GoodSchema, ModelTable, GoodTable
        <4> QED
          BY <4>1, <4>2, <4>3 DEF PartsOf
      <3>3. ASSUME Waits(W, "add_column", c) PROVE FALSE
        <4>1. PICK j \in DOMAIN down : down[j].table = t /\ down[j].kind = "add_column" /\ down[j].name = c
          BY <1>3, <2>1, <3>3, WaitingIs
        <4>2. /\ back[j] \in DOMAIN up /\ up[back[j]].kind = "drop_column"
              /\ up[back[j]].table = t /\ up[back[j]].name = c
          BY <1>4, <1>5, <4>1
        <4>3. back[i] \in DOMAIN up /\ c \in up[back[i]].def.columns
          BY <1>5, <2>5, <3>1
        <4> QED
          BY <2>3, <3>1, <4>2, <4>3 DEF DropsIndexedColumn
      <3> QED
        BY <3>2, <3>3
    <2>6. ASSUME op.kind = "alter_column"
          PROVE  /\ ~ Unalterable(db[t].columns[op.name], op.def.from, op.def.to)
                 /\ ~ Waits(W, "drop_constraint", PrimaryKeyName)
                 /\ ~ Waits(W, "create_constraint", PrimaryKeyName)
      <3>1. done.kind = "alter_column"
        BY <1>5, <2>6
      <3>2. ~ Unalterable(db[t].columns[op.name], op.def.from, op.def.to)
        BY <2>4, <2>6, <3>1 DEF AltersForGood
      <3>3. ASSUME NEW kind \in {"drop_constraint", "create_constraint"}, Waits(W, kind, PrimaryKeyName)
            PROVE  FALSE
        <4>1. PICK j \in DOMAIN down : j > i - 1 /\ down[j].table = t /\ down[j].kind = kind
          BY <1>3, <2>1, <3>3, WaitingIs
        <4>2. j # i /\ i < j
          BY <2>1, <2>6, <3>3, <4>1
        <4>3. back[j] < back[i]
          BY <1>4, <4>2
        <4>4. up[back[j]].kind \in {"create_constraint", "drop_constraint"} /\ up[back[j]].table = t
          BY <1>4, <1>5, <3>3, <4>1
        <4>5. Before(up[back[j]], done)
          BY <1>2, <1>5, <4>3
        <4> DEFINE other == up[back[j]]
        <4>6. other.kind \in {"create_constraint", "drop_constraint"} /\ other.table = t /\ Before(other, done)
          BY <4>4, <4>5
        <4> HIDE DEF other, done
        <4>7. ~ t < t
          BY <2>2
        <4> QED
          BY <2>3, <3>1, <4>6, <4>7 DEF Before, KindRank
      <3> QED
        BY <3>2, <3>3
    <2>7. ASSUME op.kind = "create_constraint" PROVE op.name \notin DOMAIN db[t].constraints
      <3>1. done.kind = "drop_constraint"
        BY <1>5, <2>7
      <3>2. t \in DOMAIN db /\ DiffersInTable(done, T[t], S[t])
        BY <2>4, <3>1
      <3>3. db[t].constraints = T[t].constraints
        BY <3>2 DEF Describes, Like
      <3> HIDE DEF done, op, t
      <3> QED
        BY <2>3, <3>1, <3>2, <3>3 DEF DiffersInTable
    <2>8. op = down[i] /\ t = op.table /\ W = Waiting(down, i - 1, t)
      OBVIOUS
    <2> HIDE DEF op, t, W, done
    <2>9. ~ Refused(e, op)
      BY <1>1, <1>6, <2>5, <2>6, <2>7, <2>8, NotRefused
    <2> QED
      BY <2>9 DEF op
  <1> DEFINE d == db
  <1>7. GoodDb(d) /\ Describes(T, d)
    BY <1>1
  <1>8. ASSUME NEW i \in DOMAIN down, NEW e, GoodDb(e), Underway(down, i - 1, d, e, T, S)
        PROVE  ~ Refused(e, down[i])
    BY <1>6, <1>8
  <1>9. Executes(d, down)
    <2> HIDE DEF d
    <2> QED
      BY <1>1, <1>7, <1>8, NeverRefused
  <1> QED
    BY <1>9 DEF up, down

\* The last applied file.
LEMMA LastIs ==
    ASSUME TypeInv, RegistryInv, Orderly, NEW k, k = Cardinality(applied), applied # {}
    PROVE  /\ k \in DOMAIN files
           /\ LET T == files[k].schema
                  S == SchemaAfter(k - 1)
              IN  /\ GoodSchema(T) /\ GoodSchema(S) /\ Declarable(S) /\ Describes(T, db)
                  /\ files[k].up = Compare(T, S) /\ files[k].down = InvertDiff(Compare(T, S))
                  /\ NamesAreFree(Compare(T, S), S) /\ SchemaAfter(k) = T
  <1>1. k \in 0..Len(files) /\ applied = 1..k /\ Chained /\ Described(k)
        /\ \A n \in DOMAIN files : Declarable(files[n].schema)
    BY OrderlyDescribes
  <1>2. Len(files) \in Nat /\ DOMAIN files = 1..Len(files)
    BY DEF TypeInv
  <1>3. k \in DOMAIN files /\ k # 0 /\ k - 1 \in 0..Len(files) /\ k \in 1..k
    <2>1. k \in Nat /\ k <= Len(files)
      BY <1>1, <1>2
    <2>2. k # 0
      <3>1. 1..0 = {}
        OBVIOUS
      <3> QED
        BY <1>1, <3>1
    <2> QED
      BY <1>2, <2>1, <2>2
  <1> DEFINE T == files[k].schema
             S == SchemaAfter(k - 1)
  <1>4. T \in Schemas /\ S \in Schemas /\ SchemaAfter(k) = T
    BY <1>3, SchemasAfter, FilesAreGood DEF TypeInv, SchemaAfter
  <1>5. files[k] = FileOf(T, S)
    BY <1>1, <1>3 DEF Chained
  <1>6. Declarable(S)
    BY <1>1, <1>3, DeclarableAfter
  <1>7. NamesAreFree(files[k].up, S) /\ Describes(T, db)
    BY <1>1, <1>3, <1>4 DEF Described
  <1>8. files[k].up = Compare(T, S) /\ files[k].down = InvertDiff(Compare(T, S))
    <2> HIDE DEF T, S
    <2> QED
      BY <1>5 DEF FileOf
  <1> QED
    BY <1>3, <1>4, <1>6, <1>7, <1>8, SchemasAreGood

\* In an orderly history the last applied file can be reverted, but for columns it
\* dropped with an index or a constraint, for columns that cannot be altered back, and
\* for tables lost by a revert: the inverse operations execute in the opposite order.
THEOREM LastFilesRevert == Spec => []LastFileReverts
  <1>1. ASSUME TypeInv, RegistryInv PROVE LastFileReverts
    <2> DEFINE k == Cardinality(applied)
    <2> SUFFICES ASSUME Orderly, applied # {}, DOMAIN db = DOMAIN SchemaAfter(k),
                        ~ DropsIndexedColumn(files[k].up), ~ AltersForGood(files[k].down)
                 PROVE  Executes(db, files[k].down)
      BY DEF LastFileReverts
    <2> HIDE DEF k
    <2>1. LET T == files[k].schema
              S == SchemaAfter(k - 1)
          IN  /\ GoodSchema(T) /\ GoodSchema(S) /\ Declarable(S) /\ Describes(T, db)
              /\ files[k].up = Compare(T, S) /\ files[k].down = InvertDiff(Compare(T, S))
              /\ NamesAreFree(Compare(T, S), S) /\ SchemaAfter(k) = T
      BY <1>1, LastIs DEF k
    <2> QED
      BY <1>1, <2>1, DownExecutes
  <1>2. TypeInv /\ RegistryInv => LastFileReverts
    BY <1>1
  <1> QED
    BY <1>2, InitTypes, TypeInvIsInductive, RegistryInvInitially, RegistryInvIsInductive, PTL DEF Spec
=============================================================================
