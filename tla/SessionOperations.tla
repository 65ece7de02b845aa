------------------------- MODULE SessionOperations --------------------------
(***************************************************************************)
(* What a session of package orm does under the access policy of its       *)
(* context: Find, Load, Create, Update, UpdateWhere, Delete, SoftDelete,   *)
(* the batch operations and Raw, on the rows of one table.  Count and      *)
(* Exists change nothing, no struct of the program either.                 *)
(*                                                                         *)
(* Programs share model structs: an operation takes any struct and any     *)
(* session.  Statements read committed rows and wait for the rows that an  *)
(* open batch has written.  Only what policies are about is kept of a row: *)
(* its scope columns, the users in its audit columns, whether it is        *)
(* deleted.  updated_by is written by every insert and update, from the    *)
(* context, and is left out.  There is no version column (OptimisticLock). *)
(*                                                                         *)
(* An operation that is refused, by a Before hook, by the policy, or for   *)
(* want of columns to write (Create and Update under System), changes      *)
(* nothing and is no step.  An After hook that fails changes nothing that  *)
(* the statement did: outside a batch, it is the step that succeeds.       *)
(***************************************************************************)
EXTENDS AccessPolicy, Naturals, FiniteSets, Sequences

CONSTANTS Value,         \* users, companies, ...: what contexts and columns hold
          ValueOf,       \* the values of each kind of scope
          Id,            \* primary keys, drawn from a sequence
          Model,         \* model structs in the memory of programs
          Requests,      \* the contexts of requests, their policies included
          Tables,        \* the tables the operations are examined on
          BatchSize,     \* Config.BatchSize, 0 for the default
          Batches,       \* the sequences of structs given to batch operations
          MaxWrite,      \* bound: writing operations in a behaviour
          Disciplined    \* programs create or load a struct anew before they
                         \* update with it after its Create failed, and call
                         \* UpdateWhere with a struct that was not loaded

ASSUME ValueAssumption ==
    Nil \notin Value /\ ValueOf \in [Scope -> SUBSET Value]
ASSUME NamesAssumption == Nil \notin Id /\ Nil \notin Model
ASSUME RequestsAssumption ==
    \A ac \in Requests :
        /\ ac \in [values : [Scope -> Value \cup {Nil}], policy : Level]
        /\ \A k \in Scope : ac.values[k] \in ValueOf[k] \cup {Nil}
ASSUME TablesAssumption == Tables \subseteq Table
ASSUME BatchAssumption == BatchSize \in Nat /\ \A items \in Batches : items \in Seq(Model) /\ items # <<>>
ASSUME BoundAssumption == MaxWrite \in Nat /\ Disciplined \in BOOLEAN

VARIABLES
    table,    \* the table, chosen once
    rows,     \* the committed rows
    used,     \* the keys drawn
    model,    \* the structs
    batch,    \* the batch operation under way
    writes    \* the writing operations so far

vars == <<table, rows, used, model, batch, writes>>

MaybeValue == Value \cup {Nil}
Scoping == {f \in [Scope -> MaybeValue] : \A k \in Scope : f[k] \in ValueOf[k] \cup {Nil}}
User == ValueOf["user"]

Context == [values : Scoping, policy : Level]

Session == {DbSession(ac) : ac \in Requests} \cup {SessionWithDeleted(DbSession(ac)) : ac \in Requests}

\* home, creator and origin are not columns: the scope a row was inserted with,
\* the user who inserted it, and the struct that it was inserted from.
RowState == [status : {"absent", "present", "removed"}, scope : Scoping,
             createdBy : User \cup {Nil}, deleted : BOOLEAN, home : Scoping, creator : User \cup {Nil},
             origin : Model \cup {Nil}]

\* failed is not a field: the struct's last Create did not insert its row.
Struct == [id : Id \cup {Nil}, scope : Scoping, createdBy : User \cup {Nil},
           deleted : BOOLEAN, failed : BOOLEAN]

BatchOp == {"create", "update", "delete"}

\* The loops over the chunks and their items, and what the transaction has
\* written: to which structs, and to which rows.
BatchState == [op : BatchOp \cup {"none"}, ac : Context, items : Seq(Model), start : Nat, index : Nat,
               rows : [Id -> RowState], written : SUBSET Id, done : Seq(Model)]

TypeOK ==
    /\ table \in Tables
    /\ rows \in [Id -> RowState]
    /\ used \in SUBSET Id
    /\ model \in [Model -> Struct]
    /\ writes \in 0..MaxWrite
    /\ batch \in BatchState
    /\ batch.index \in 0..batch.start + Len(batch.items)

Unscoped == [k \in Scope |-> Nil]
ZeroStruct == [id |-> Nil, scope |-> Unscoped, createdBy |-> Nil, deleted |-> FALSE, failed |-> FALSE]
NoRow(status) ==
    [status |-> status, scope |-> Unscoped, createdBy |-> Nil, deleted |-> FALSE, home |-> Unscoped, creator |-> Nil, origin |-> Nil]
Absent == NoRow("absent")
Removed == NoRow("removed")
NoRows == [i \in Id |-> Absent]
NoBatch == [op |-> "none", ac |-> [values |-> Unscoped, policy |-> "default"], items |-> <<>>,
            start |-> 0, index |-> 0, rows |-> NoRows, written |-> {}, done |-> <<>>]

-----------------------------------------------------------------------------
\* Queries

Exists(row) == row.status = "present"

\* accessPredicates: the error of Apply is dropped, and its predicates with it.
AccessPredicates(ac) ==
    IF Denied(ac, table, "query") THEN [k \in {} |-> Nil] ELSE Predicates(ac, table, "query")

\* The rows of R that access predicates select.
Scoped(R, preds) ==
    {i \in Id : Exists(R[i]) /\ \A k \in DOMAIN preds : R[i].scope[k] = preds[k]}

\* soft IS NULL, unless the session was made WithDeleted.
FilteredForFind(s) ==
    {i \in Id : Exists(rows[i])
                   /\ (SoftDeletes(table) /\ EnforcesSoftDelete(s.ac) /\ ~ s.withDeleted
                          => ~ rows[i].deleted)}

Found(s) ==
    IF Denied(s.ac, table, "query") THEN {}
    ELSE Scoped(rows, Predicates(s.ac, table, "query")) \cap FilteredForFind(s)

\* What Load finds behind a foreign key: no soft delete predicate.
Related(ac) == Scoped(rows, AccessPredicates(ac))

\* A row read into a struct.
StructOf(i) ==
    [id |-> i, scope |-> rows[i].scope, createdBy |-> rows[i].createdBy,
     deleted |-> rows[i].deleted, failed |-> FALSE]

\* The rows inserted from m are from now on another struct's.
Disowned(R, m) ==
    [i \in Id |-> IF Exists(R[i]) /\ R[i].origin = m THEN [R[i] EXCEPT !.origin = Nil] ELSE R[i]]

\* A struct that was given to a batch is the batch's until it ends.
Free(m) == \A j \in DOMAIN batch.items : batch.items[j] # m

\* The program takes a struct for something else, outside a batch on it.
Takes(m, struct) ==
    /\ Free(m)
    /\ model' = [model EXCEPT ![m] = struct]
    /\ rows' = Disowned(rows, m)
    /\ batch' = [batch EXCEPT !.rows = Disowned(batch.rows, m)]
    /\ UNCHANGED <<table, used, writes>>

NewStruct(m) == Takes(m, ZeroStruct)

\* Find and FindOne.  An AfterFind hook that fails has seen the same struct.
Find(s, m) == \E i \in Found(s) : Takes(m, StructOf(i))

\* Load of a belongs-to or has-many relation.
Load(ac, m) == \E i \in Related(ac) : Takes(m, StructOf(i))

-----------------------------------------------------------------------------
\* Statements that write: the rows they lead to, the struct as it is sent and
\* as it is after a success

\* Mutant: a user that the struct already has is kept.
InsertStructKeepsUser(ac, s) ==
    LET scopes == ScopeWrites(ac, table, "insert")
        users == AuditWrites(ac, table, "insert")
    IN  [s EXCEPT !.scope = [k \in Scope |-> IF k \in DOMAIN scopes THEN scopes[k] ELSE @[k]],
                  !.createdBy = IF @ = Nil /\ "created_by" \in DOMAIN users
                                THEN users["created_by"] ELSE @]

\* populateAuditAndScope and applyStructFieldValues for an insert.
InsertStruct(ac, s) ==
    LET scopes == ScopeWrites(ac, table, "insert")
        users == AuditWrites(ac, table, "insert")
    IN  [s EXCEPT !.scope = [k \in Scope |-> IF k \in DOMAIN scopes THEN scopes[k] ELSE @[k]],
                  !.createdBy = IF "created_by" \in DOMAIN users THEN users["created_by"] ELSE @]

\* Columns that the table does not have stay empty.
InsertedRow(ac, s, m) ==
    LET scope == [k \in Scope |-> IF k \in table.scopes THEN s.scope[k] ELSE Nil] IN
    [status |-> "present", scope |-> scope, createdBy |-> s.createdBy,
     deleted |-> s.deleted, home |-> scope, origin |-> m,
     creator |-> IF "created_by" \in table.audit THEN ac.values["user"] ELSE Nil]

\* For an update: a DeletedAt of the Audit trait that is empty is set.
UpdateStruct(s) == [s EXCEPT !.deleted = @ \/ table.removal = "audit"]

\* Mutant: zero values are written like any other.
UpdatedRowWithZeros(row, s) ==
    [row EXCEPT !.scope = [k \in Scope |-> IF k \in table.scopes THEN s.scope[k] ELSE @[k]],
                !.createdBy = s.createdBy,
                !.deleted = s.deleted]

\* SET the fields of the struct, a zero scope or user excepted.
UpdatedRow(row, s) ==
    LET Set(value, old) == IF value = Nil THEN old ELSE value IN
    [row EXCEPT !.scope = [k \in Scope |-> IF k \in table.scopes THEN Set(s.scope[k], @[k]) ELSE @[k]],
                !.createdBy = Set(s.createdBy, @),
                !.deleted = s.deleted]

\* Mutant: the WHERE clause of an update has the primary key only.
MatchesKeyOnly(R, ac, s) == {i \in Id : i = s.id /\ Exists(R[i])}

\* WHERE primary key AND access predicates
Matches(R, ac, s) == Scoped(R, AccessPredicates(ac)) \cap {s.id}

Changed(R, at, row(_)) == [i \in Id |-> IF i \in at THEN row(R[i]) ELSE R[i]]

\* Mutant: RETURNING is read after the After hook.
ReturnsAfterHook(s, i) == s

\* RETURNING fills in the key.
Returned(s, i) == [s EXCEPT !.id = i]

\* An insert under the key i; there is a row with it already, or not.
Insertion(R, ac, m, i) ==
    LET sent == InsertStruct(ac, model[m]) IN
    [allowed |-> EnforcesAudit(ac) /\ ~ Denied(ac, table, "insert"),
     works |-> ~ Exists(R[i]),
     rows |-> [R EXCEPT ![i] = InsertedRow(ac, sent, m)],
     sent |-> [sent EXCEPT !.failed = TRUE],
     after |-> [Returned(sent, i) EXCEPT !.failed = FALSE]]

Change(R, ac, m) ==
    LET sent == UpdateStruct(model[m]) IN
    [allowed |-> EnforcesAudit(ac) /\ ~ Denied(ac, table, "update"),
     works |-> TRUE,
     rows |-> Changed(R, Matches(R, ac, model[m]), LAMBDA row : UpdatedRow(row, sent)),
     sent |-> sent,
     after |-> sent]

SoftDeletion(R, ac, m) ==
    LET sent == [model[m] EXCEPT !.deleted = TRUE] IN
    [allowed |-> ~ Denied(ac, table, "delete"),
     works |-> TRUE,
     rows |-> Changed(R, Matches(R, ac, model[m]), LAMBDA row : [row EXCEPT !.deleted = TRUE]),
     sent |-> sent,
     after |-> sent]

\* DELETE, which does not ask the policy anything but its predicates.
HardDeletion(R, ac, m) ==
    [allowed |-> TRUE,
     works |-> TRUE,
     rows |-> Changed(R, Matches(R, ac, model[m]), LAMBDA row : Removed),
     sent |-> model[m],
     after |-> model[m]]

Deletion(R, ac, m) ==
    IF SoftDeletes(table) /\ EnforcesSoftDelete(ac)
    THEN SoftDeletion(R, ac, m) ELSE HardDeletion(R, ac, m)

\* The key of an insert: the struct's own, or the next of the sequence.  The
\* key of a removed row is not used again.
InsertKeys(R, m) ==
    IF model[m].id = Nil THEN Id \ used
    ELSE {i \in {model[m].id} : R[i] # Removed}

\* A struct whose Create failed holds what that Create has put into it.
MayUpdate(m) == Disciplined => ~ model[m].failed

Effects(op, R, ac, m) ==
    CASE op = "create" -> {Insertion(R, ac, m, i) : i \in InsertKeys(R, m)}
      [] op = "update" -> {e \in {Change(R, ac, m)} : MayUpdate(m)}
      [] op = "delete" -> {Deletion(R, ac, m)}

KeysOf(R, new) == {i \in Id : new[i] # R[i]}

\* A statement in a transaction of its own.  It fails with an error, or the
\* connection breaks when it has been executed, or it succeeds.
Autocommit(m, e) ==
    LET written == KeysOf(rows, e.rows) IN
    /\ e.allowed
    /\ writes < MaxWrite
    /\ written \cap batch.written = {}
    /\ \/ /\ e.works
          /\ rows' = e.rows
          /\ model' = [model EXCEPT ![m] = e.after]
       \/ /\ rows' = rows
          /\ model' = [model EXCEPT ![m] = e.sent]
       \/ /\ e.works
          /\ rows' = [i \in Id |-> IF i \in written /\ Exists(e.rows[i]) /\ ~ Exists(rows[i])
                                   THEN [e.rows[i] EXCEPT !.origin = Nil] ELSE e.rows[i]]
          /\ model' = [model EXCEPT ![m] = e.sent]
    /\ used' = used \cup {i \in Id : Exists(rows'[i])}
    /\ writes' = writes + 1
    /\ UNCHANGED <<table, batch>>

Write(op, ac, m) ==
    /\ Free(m)
    /\ \E e \in Effects(op, rows, ac, m) : Autocommit(m, e)

Create(ac, m) == Write("create", ac, m)
Update(ac, m) == Write("update", ac, m)
Delete(ac, m) == Write("delete", ac, m)

\* SoftDelete deletes softly under every policy.
SoftDelete(ac, m) ==
    /\ SoftDeletes(table)
    /\ Free(m)
    /\ Autocommit(m, SoftDeletion(rows, ac, m))

\* UpdateWhere with a condition that the rows in where meet: the struct gets
\* the key of the first row returned.
WhereChange(ac, m, where) ==
    LET sent == UpdateStruct(model[m])
        matched == where \cap Scoped(rows, AccessPredicates(ac))
    IN  {[allowed |-> EnforcesAudit(ac) /\ ~ Denied(ac, table, "update"),
          works |-> TRUE,
          rows |-> Changed(rows, matched, LAMBDA row : UpdatedRow(row, sent)),
          sent |-> sent,
          after |-> IF matched = {} THEN sent ELSE Returned(sent, i)] :
             i \in IF matched = {} THEN {Nil} ELSE matched}

UpdateWhere(ac, m, where) ==
    /\ Disciplined => model[m] = ZeroStruct
    /\ Free(m)
    /\ \E e \in WhereChange(ac, m, where) : Autocommit(m, e)

\* Raw(...).WithoutPolicy().Exec(), here a statement that deletes one row.
RawExec(i) ==
    /\ Exists(rows[i])
    /\ i \notin batch.written
    /\ rows' = [rows EXCEPT ![i] = Removed]
    /\ UNCHANGED <<table, used, model, batch, writes>>

-----------------------------------------------------------------------------
\* CreateMany, UpdateMany, DeleteMany

\* batchSizeLimit, after New has put the default for 0.
ChunkSize(total) ==
    LET size == IF BatchSize = 0 THEN 100 ELSE BatchSize IN
    IF total > size THEN size ELSE total

BatchRows == [i \in Id |-> IF i \in batch.written THEN batch.rows[i] ELSE rows[i]]

BatchBegins(op, ac, items) ==
    /\ batch.op = "none"
    /\ writes < MaxWrite
    /\ writes' = writes + 1
    /\ batch' = [NoBatch EXCEPT !.op = op, !.ac = ac, !.items = items]
    /\ UNCHANGED <<table, rows, used, model>>

\* Mutant: the loop over the chunks stops before the last one.
MoreChunksButLast(b) == b.start + ChunkSize(Len(b.items)) < Len(b.items)

\* start < len(items)
MoreChunks(b) == b.start < Len(b.items)

ChunkEnd(b) ==
    LET end == b.start + ChunkSize(Len(b.items)) IN
    IF end > Len(b.items) THEN Len(b.items) ELSE end

\* The two loop indices after an item.
Advanced(b) ==
    IF b.index + 1 < ChunkEnd(b) THEN [b EXCEPT !.index = @ + 1]
    ELSE [b EXCEPT !.start = @ + ChunkSize(Len(b.items)), !.index = b.start + ChunkSize(Len(b.items))]

\* The next item is written in the transaction.
BatchItem ==
    /\ batch.op # "none" /\ MoreChunks(batch)
    /\ LET m == batch.items[batch.index + 1] IN
       \E e \in Effects(batch.op, BatchRows, batch.ac, m) :
          LET written == batch.written \cup KeysOf(BatchRows, e.rows) IN
          /\ e.allowed /\ e.works
          /\ batch' = [Advanced(batch) EXCEPT
                          !.rows = [i \in Id |-> IF i \in written THEN e.rows[i] ELSE Absent],
                          !.written = written,
                          !.done = Append(@, m)]
          /\ model' = [model EXCEPT ![m] = e.after]
          /\ used' = used \cup written
    /\ UNCHANGED <<table, rows, writes>>

\* The structs that the rolled back batch has created rows from.
Undone(structs) ==
    [m \in Model |-> IF batch.op = "create" /\ m \in {batch.done[j] : j \in DOMAIN batch.done}
                     THEN [structs[m] EXCEPT !.failed = TRUE] ELSE structs[m]]

\* A hook, the policy, the database: the error of an item rolls back, and the
\* item's struct has been sent or not.
BatchItemFails ==
    /\ batch.op # "none" /\ MoreChunks(batch)
    /\ LET m == batch.items[batch.index + 1] IN
       \/ model' = Undone(model)
       \/ \E e \in Effects(batch.op, BatchRows, batch.ac, m) :
             e.allowed /\ model' = Undone([model EXCEPT ![m] = e.sent])
    /\ batch' = NoBatch
    /\ UNCHANGED <<table, rows, used, writes>>

BatchCommits ==
    /\ batch.op # "none" /\ ~ MoreChunks(batch)
    /\ rows' = BatchRows
    /\ batch' = NoBatch
    /\ UNCHANGED <<table, used, model, writes>>

\* COMMIT fails, with or without effect.
BatchCommitFails ==
    /\ batch.op # "none" /\ ~ MoreChunks(batch)
    /\ rows' \in {rows, BatchRows}
    /\ model' = Undone(model)
    /\ batch' = NoBatch
    /\ UNCHANGED <<table, used, writes>>

-----------------------------------------------------------------------------
\* There may be a row already, inserted for one of the requests.
Init ==
    /\ table \in Tables
    /\ \/ rows = NoRows
       \/ \E i \in Id, ac \in Requests :
             /\ EnforcesAudit(ac) /\ ~ Denied(ac, table, "insert")
             /\ rows = [NoRows EXCEPT ![i] = InsertedRow(ac, InsertStruct(ac, ZeroStruct), Nil)]
    /\ used = {i \in Id : Exists(rows[i])}
    /\ model = [m \in Model |-> ZeroStruct]
    /\ batch = NoBatch
    /\ writes = 0

Next ==
    \/ \E m \in Model : NewStruct(m)
    \/ \E s \in Session, m \in Model : Find(s, m)
    \/ \E ac \in Requests, m \in Model : Load(ac, m)
    \/ \E ac \in Requests, m \in Model : Create(ac, m)
    \/ \E ac \in Requests, m \in Model : Update(ac, m)
    \/ \E ac \in Requests, m \in Model : Delete(ac, m)
    \/ \E ac \in Requests, m \in Model : SoftDelete(ac, m)
    \/ \E ac \in Requests, m \in Model, where \in SUBSET Id : UpdateWhere(ac, m, where)
    \/ \E i \in Id : RawExec(i)
    \/ \E op \in BatchOp, ac \in Requests, items \in Batches : BatchBegins(op, ac, items)
    \/ BatchItem
    \/ BatchItemFails
    \/ BatchCommits
    \/ BatchCommitFails

Spec == Init /\ [][Next]_vars

-----------------------------------------------------------------------------
\* Properties

InScope(ac, row) ==
    Exists(row) => \A k \in ActiveScopes(ac, table) : row.scope[k] = ac.values[k]

\* A struct whose scope, where it has one, is that of the context.
OwnStruct(ac, m) ==
    \A k \in ActiveScopes(ac, table) : model[m].scope[k] \in {Nil, ac.values[k]}

\* docs/adr/ADR-020: tenant scope is an invariant, not a convention.  With a
\* context that has every scope its policy enforces, no operation changes a row
\* of another scope or takes a row out of its own, whatever rows, stale structs
\* and other sessions' batches it meets.
WritesStayInScope ==
    \A R \in {rows, BatchRows}, ac \in Requests, m \in Model, op \in BatchOp :
        HasScope(ac, table) /\ OwnStruct(ac, m) =>
            \A e \in Effects(op, R, ac, m) :
                e.allowed /\ e.works =>
                    \A i \in KeysOf(R, e.rows) : InScope(ac, R[i]) /\ InScope(ac, e.rows[i])

\* A row keeps the scope it was inserted with, through updates from structs
\* that were loaded, created or undone under any policy.
RowsKeepTheirScope ==
    Disciplined => \A i \in Id : Exists(rows[i]) => rows[i].scope = rows[i].home

\* docs/adr/ADR-020: audit fields cannot be forged silently.  created_by names
\* the user who inserted the row, although every update writes it.
CreatedByNamesCreator ==
    \A i \in Id : Exists(rows[i]) => rows[i].createdBy = rows[i].creator

\* A struct, however often its Create is tried again after a hook, a batch or a
\* statement has failed, stands for one row, unless the connection broke while
\* the statement was executed.
RetriedCreateMakesOneRow ==
    \A m \in Model : Cardinality({i \in Id : Exists(rows[i]) /\ rows[i].origin = m}) <= 1

\* docs/adr/ADR-030: a batch is atomic.  It is committed when every item was
\* written, each once and in order.
BatchWritesEveryItem ==
    [][BatchCommits => batch.done = batch.items]_vars
=============================================================================
