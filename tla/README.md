# dorm in TLA+

A verification project for dorm, an ORM and migration tool for PostgreSQL in Go:
TLA+ modules of its stateful parts, TLC configurations that check them on small
instances, and TLAPS proofs that hold for every instance. Every definition of
the modules that models code is translated from the source files under `src/`;
`PROJECT.json` ("map") names the lines.

## 1. The system and its parts

| Part | State | Operations | What is hard | Module |
|---|---|---|---|---|
| Transactions, `orm/transaction.go` | per handle: the `*sql.Tx` it shares, a savepoint name, a closed flag; a package-wide savepoint counter | `Begin`, `Commit`, `Rollback`, `Transaction`, `Tx`, every statement through a handle | handles form a tree over one server transaction and know only themselves; statements check the closed flag without a lock; finishing may fail; contexts end transactions behind the handles; callbacks fail, swallow errors, panic | `OrmTransaction`, `TransactionCallback`, `NestedTransactions` |
| Versioned writes, `orm/orm.go` | the caller's model structs; the rows | `Create`, `Find`, `Update`, `Delete`, `SoftDelete` of models with a version | version checks against concurrent clients; structs changed by statements that are later undone | `OptimisticLock` |
| Sessions, `orm/orm.go`, `orm/batch.go`, `orm/raw.go`, `orm/hooks_relations.go` | structs, rows, the batch under way | `Find`, `Count`, `Exists`, `Load`, `Create`, `Update`, `UpdateWhere`, `Delete`, `SoftDelete`, `CreateMany`, `UpdateMany`, `DeleteMany`, `Raw` | scopes and audit columns put into structs that are used again elsewhere; hooks and statements that fail halfway | `SessionOperations` |
| Access policy, `access` | policy, scopes and user in the context | `Apply` | a missing scope must refuse, some callers drop the error | `AccessPolicy` |
| Handle, pool, prepared statements, `orm/orm.go`, `dorm.go`, `driver/postgres` | the `sql.DB`, a map of `*sql.Stmt`, two mutexes | `Open`, statements, `Begin`, `Close` | mutexes held while waiting for connections; a statement in use while the cache is closed; an Open that fails halfway | `ConnectionPool` |
| Migrations, `migrate` | files, snapshot, registry table, schema | `Generate`, `Write`, `Run`, `Revert`, `Status` | several non-atomic steps, crashes, concurrent runners | `MigrationRunner` |
| Schema, `schema`, `dialect/postgres` | models, snapshot, catalogue | `Build`, `Compare`, rendering, `Inspect`, drift detection | a diff must reach its target and its inverse must return; four queries while the schema changes | `SchemaDiff`, `SchemaEvolution` |
| Seeding, `seed` | registry of seeders, rows | `Register`, `Run`, `Sync`, `Reset` | order of dependencies, check-then-act, partial runs | `SeedRunner` |
| CLI, `cmd/orm` | none | `migrate`, `schema check`, `seed` | the commands overlap on one database | actions of `SchemaEvolution`, `SeedRunner` |
| Analyzer, dry run, observability, errors, examples | none that others read | advice, reports, spans, printing | | not modelled, see section 7 |

How they interact: every ORM operation ends in `execContext` or `queryContext`,
which use the handle's `sql.Tx` if there is one and the pool otherwise;
`batch.go`, `Tx` and `seed.Run` go through `Transaction`; the writes consult
`access` for predicates and audit values and call hooks before and after;
`migrate` compares the `schema` built from source with its snapshot and
executes rendered SQL on its own `sql.DB`, outside the ORM.

What makes each part correct, in one line: **transactions** - what Commit and
Rollback report is what happens to the writes, and every transaction gives its
connection back; **optimistic locking** - no update overwrites content its
model was not read from; **sessions** - no row leaves its scope or loses its
creator, a retry makes nothing twice;
**batches** - all items or none; **pool** - every operation ends and Close
leaves nothing open; **migrations** - every generated change is applied once
and in order, also across crashes; **schema** - the database has what the
applied migrations' models say, and a clean report is true; **seeding** - each
record once, dependencies first.

## 2. Modules

- `PostgresTx` - external code as the ORM relies on it: one server transaction
  as a record of status, pending writes and savepoint stack, and what SAVEPOINT,
  RELEASE, ROLLBACK TO, COMMIT, ROLLBACK, a failing statement and a broken
  connection do to it.
- `OrmTransaction` - the manual API. A handle's `txState`, `tx` and `savepoint`
  are the fields of `DB` and `transactionState`; a `sql.Tx` is named by the
  handle whose Begin created it. `BeginRoot`/`BeginNested`/`BeginNestedFails`,
  `CommitRoot`/`CommitNested` and `RollbackRoot`/`RollbackNested` are the
  branches of `Begin`, `Commit` and `Rollback`; each holds the handle's mutex
  throughout, so each is one step. A statement is two steps, `ExecCheck` (the
  closed flag, read without the mutex) and `ExecRun` or `ExecFails`.
  `ConnectionLost` and `ContextDone`, the end of the context of a root's BeginTx,
  are the environment. SAVEPOINT, RELEASE, ROLLBACK TO and the other statements are
  sent with a context of their own, that of the nested handle or of the session,
  and `database/sql` does not send a statement whose context is done: it returns
  the context's error, and the `sql.Tx` goes on. So `BeginNestedFails` may happen to
  a transaction that is active, `ExecFails` may leave the server as it was, and
  `CommitNested` and `RollbackNested` have a third branch that closes the handle
  and changes nothing else, with the outcome `commit_unsent` or `rollback_unsent`.
- `NestedTransactions` - the abstract promise of the callback API: nested scopes,
  each kept or dropped as a whole, that know nothing of savepoints; and what becomes
  of an inner scope whose end does not reach the database: it is abandoned, and its
  writes are the enclosing scope's (`Abandon`).
- `TransactionCallback` - `Transaction` on top of `OrmTransaction`: goroutines
  with stacks of calls, statements through any enclosing handle, swallowed
  errors, failing Begins. `CallPanics` is a separate action of `PanicSpec`.
  What `fn` may do is bounded by the contract of the callback API: it leaves
  Commit and Rollback of the handle it is given to `Transaction`. `Fresh` has Begin
  take one of the unused handles instead of any: nothing tells them apart.
- `OptimisticLock` - single-model writes by clients that hold one struct per
  row, on tables that delete rows, tag a column `soft_delete`, or embed `Audit`.
  `Updated` is the SET clause, `MatchesModel` the WHERE clause, `ModelOf` the
  copy of the RETURNING row into the struct. Row locks and READ COMMITTED
  visibility (`Unlocked`, `Visible`) are PostgreSQL's. `touched` and `unsafe`
  record which structs carry values of an undone write.
- `AccessPolicy` - the decision of `Engine.Apply` as operators: which scopes a
  policy enforces (`ActiveScopes`), when an operation is refused (`Denied`),
  which predicates and column values it gets. It has no state.
- `SessionOperations` - the session's operations on one table that are decided
  by it. A row keeps its scope columns, its creator and whether it is deleted;
  a struct the same and its key. An operation's `Effects` are the rows it would
  lead to, the struct as it is when the statement is sent, and after a success;
  `Autocommit` is the statement with its three outcomes (success, error, a
  connection that breaks after it), `BatchItem`, `BatchItemFails`,
  `BatchCommits`, `BatchCommitFails` the steps of a batch, whose rows others do
  not see and wait for. `home`, `creator` and `origin` of a row are history.
- `SchemaDiff` - the pure part of the schema: the builder (`BuiltTable`),
  `Compare` with its order (`Before`; `Listed` puts a finite set in the order it
  is given), `InvertDiff`, what each rendered statement does to a database
  (`Executed`), which statements PostgreSQL refuses (`Refused`: a name that is
  taken, a column that is missing, a nullable column in a key, a cast that it
  does not make by itself, an attribute of an identity column), and what the
  inspector reads back (`Inspected`). An identity column stands for every
  attribute that the dialect renders on creation and never alters.
- `SchemaEvolution` - models edited by developers, `Generate` against the
  snapshot, `RunNext` and `Revert` (of any file) by operators, changes by hand, a lost
  snapshot, and `schema check`, whose four catalogue queries (`ReadTables` to
  `ReadIndexes`) are steps among them. A file is one step here; how commands
  are cut off is the subject of `MigrationRunner`. `regular` is history: what
  kept to the way migrations are meant to be used.
- `MigrationRunner` - `migrate/migrate.go`. A schema is a set of tables and
  their parts, a migration a pair of files per number. The developer's
  `Generate` and the three file writes of `Write` are an action each, and so are
  the statements of an operator's `Run` (registry read, directory listing, then
  per file execution and record) and `Revert` (down file, registry row).
  `WriteFails` and `CommandCutOff` end them between any two. `Compare`,
  `InvertDiff`, `Executable` and `Executed` say what the rendered statements do,
  `IF [NOT] EXISTS` and `CASCADE` included. `executed`, `torn` and `disciplined`
  are history: what ran, where a command was cut off, whether the operators
  kept to one command at a time.
- `SeedRunner` - processes with a registry each (`Registered`, `Resolution` is
  `resolveSeederOrder`), runs in one transaction, one per seeder or none
  (`Sync` on the handle itself), and `Sync` in its steps `SyncFind`,
  `SyncCreate`, `SyncUpdate` on a table that other processes write too, with
  PostgreSQL's visibility, waiting, unique violations and deadlocks.
- `ConnectionPool` - the life of a root handle: `Open`, `Execute` with the
  statement cache (`Lookup`, `Prepare`, `Start`), `Begin`, callbacks and
  `Close`, with `stmtMu`, `txMu` and the connections of the pool as what
  goroutines wait for. A goroutine's `pc` is the line it waits at.
- `OrmTransactionProofs`, `TransactionCallbackProofs`, `OptimisticLockProofs`,
  `SessionOperationsProofs`, `MigrationRunnerProofs`, `SchemaEvolutionProofs`,
  `SeedRunnerProofs`, `ConnectionPoolProofs` - theorems about the module of that
  name; section 5 says what they are.
- `MC*` - instances for TLC.

Each definition whose comment starts with "Mutant:" is a variant of the
definition after it with a plausible mistake, used to show that a property
notices it; it is no part of any specification.

## 3. Runs

| Run | Instance | Shows |
|---|---|---|
| `transactions` | 3 handles, 2 writes, 2 savepoint names | the safety of the manual API, and that `IInv`, the inductive invariant of the proofs, holds |
| `callback` | 3 handles, 2 writes, 2 savepoint names, 1 goroutine, fairness | what the calls around a write return tells its fate; `NestedTransactions` is implemented; no call leaves a connection behind; every transaction ends |
| `callback_panic` | 2 handles, 1 write, 1 goroutine, `PanicSpec` | counterexample: a panic leaks the transaction |
| `optimistic_lock` | 2 clients, a soft-deleting and a deleting table's row, 3 writes | no lost update, version and content move together |
| `optimistic_lock_retry` | 2 clients, 1 row, `RetrySpec` | counterexample: a retry after a rollback loses an update |
| `update_deletes` | 1 row of an `Audit` model | counterexample: an update deletes |
| `sessions` | 2 companies with a user each, under 4 policies, and an empty context; 3 tables, one per way to delete; 2 structs, 2 keys, 2 writing operations; batches of 2 and 3 items in chunks of 2 | rows keep scope and creator, operations stay in their scope, one row per Create, batches write every item |
| `schema` | 10 versions of the models with 2 tables and 2 columns, 2 migrations, 1 interference by hand | database, registry and models agree; files execute and revert; clean reports are true |
| `schema_indexes` | same | counterexample: a declared index is never created |
| `migrations` | 2 operators, 1 developer, 2 migrations, a table with a column and a constraint | files are executed in order; registry and schema stay together across crashes |
| `seeding` | 2 processes, 4 programs of seeders, 3 rows, 2 keys, 3 runs, 1 soft deletion, with and without a unique index | order, one record per key, convergence, whole transactions |
| `connection_pool` | 3 goroutines, 2 of which open and close, 1 connection, 1 statement, transactions inside a callback, fairness | every operation ends, nothing is left open |

Bounds and why they are enough. Three handles are a root with two savepoints
(nested or siblings) or two roots of which one has a savepoint: every pair of
actors that share a `sql.Tx`, with one more to come between. Two writes tell an
undone write from a kept one in the same transaction. Calls of different
goroutines have different root handles and meet only in the savepoint counter,
so `callback` spends its three handles on the stack of one goroutine;
goroutines that share handles are in `transactions`. `MaxSavepoint` bounds the
counter, not the depth; names are never reused, so a third name adds nothing
that the second does not. Three writes of content are a create and two
conflicting updates, or an undone update between a write and an update; one more
repeats one of these. Two migrations are one that others come after and one that
comes after others; the objects are one of each kind of statement: created and
dropped with its parts, repeatable, not repeatable.

In `sessions`, loads, new structs and raw statements are not bounded; two
writing operations, of which a batch is one, are one that leaves something in a
struct, a row or a batch and one that meets it. A row may be there from the
start, inserted under any of the policies. With chunks of two, two items are a chunk
and three are one more that is shorter, in which the first struct comes again; sizes
of one and above the number of items are left to `BatchesAreComplete`, which is
about any.
`schema` has a column in every kind of change: added, dropped, altered in type,
NOT NULL and default, indexed, partially indexed, unique, the primary key and no
longer; a table whose key moves to another column; an identity column; and a table
that comes and goes. In `seeding`, the programs disagree on
values and on the row a key belongs to, depend on each other (also through a
seeder without records), replace a seeder, and form a cycle; three runs are two that overlap and one that repeats. In
`connection_pool` one connection is a pool that is exhausted by any
transaction, which is where waiting starts; with three goroutines one holds the
connection, one waits with a mutex, and one waits for that one.

Deadlock checking is off where handles, writes, runs and keys run out, because
the model may then really stop. It is on in `optimistic_lock` (clients can
always begin or end a transaction), `migrations` and `schema` (the models can
always change) and `connection_pool` (a handle can always be used).

Fairness. `FairCallSpec`: weak fairness of the database's answer to each
statement (`StatementSucceeds \/ StatementFails`; drivers answer or report a
broken connection) and of each goroutine's return from `fn`. Nothing is assumed
of connections, contexts or which way a statement or a callback ends.
`ConnectionPool!FairSpec`: strong fairness of a goroutine's steps, because Go's
mutexes (a waiter of a millisecond gets the mutex) and `database/sql` (waiters
are served in their order) give what they guard to somebody who waits; strong
fairness of the return of a callback; and, only when callbacks use the root
handle while they hold a connection, weak fairness of the end of their contexts,
without which a pool that is used up by its own users stops by its nature.

## 4. Disagreements between the code and its documentation

Shown by a run:

1. `callback_panic`: ADR-028 says the framework manages Commit and Rollback for
   the callback API; `Transaction` defers nothing, so a panic that a caller
   recovers from (an HTTP server does) leaves the `sql.Tx` open and its
   connection taken.
2. `optimistic_lock_retry`: ADR-034 wants lost updates prevented. Load version 1,
   update it in a transaction (the struct says 2), roll back; another client
   updates the row to version 2; retry with the struct: version 2 matches.
3. `update_deletes`: `applyStructFieldValues` fills a nil `DeletedAt` of an
   audited model with the present time for everything that is not an insert, so
   Update soft-deletes. Models with a column only tagged `soft_delete`, as in
   the integration tests, are not affected.
4. `schema_indexes`: `Compare` has one operation for a new table and none for
   its indexes, and the snapshot that is saved has them; "run `dorm migrate
   generate` and `dorm migrate run` to reconcile" does not bring them.

Met in the models, where a property would state them as violated or is stated
around them:

5. A nested call whose `fn` swallows the error of a statement: RELEASE fails and
   the handle is closed without ROLLBACK TO (`transaction.go:232`), so the outer
   transaction is aborted, although ADR-028 says a nested transaction must not
   break the outer one.
6. A soft delete does not advance the version (`orm.go:1568`), and an Update
   from a struct loaded before writes its empty `deleted_at` back.
7. A Run cut off between executing a file and recording it executes it again:
   CREATE TABLE and ADD COLUMN are IF NOT EXISTS and pass, ADD CONSTRAINT fails,
   now and in every later Run (`migrate.go:172`).
8. `accessPredicates` (`orm.go:1501`) drops the error of `Apply` and the
   predicates with it: a hard Delete, an Update and a Load by a context that
   lacks a scope are not confined, although ADR-020 wants incomplete scope data
   refused. `WritesStayInScope` is about contexts that have every scope.
9. `created_by` is a column like any other in an UPDATE (`orm.go:1426`):
   `CreatedByNamesCreator` needs that programs do not update with a struct whose
   Create has failed, which then carries the user of the failed Create
   (`Disciplined`).
10. `Count` (`orm.go:878`) does not look at `WithDeleted`, `Load` has no soft delete
    filter at all: the one counts fewer rows than `Find` finds in such a session,
    the other finds more than `Find` does in any.
11. Down files: a dropped table does not come back (`migrate.go:238`); when a
    column is dropped with its index or its unique key, the inverse makes the
    index or the constraint before the column and never executes (`LastFileReverts`
    excludes it). A column that a migration makes `text` is not altered back to
    `bigint`: the dialect writes no USING, and PostgreSQL casts to character
    types only (`AltersForGood`).
12. A changed primary key has the name of the old one and always fails, and a
    column of it that becomes nullable is altered before the key goes
    (`ChangesKey` in `NextFileExecutes`); a changed index keeps its name and
    CREATE INDEX IF NOT EXISTS does nothing.
13. A snapshot that cannot be read counts as none (`migrate.go:62`): the next
    migration creates everything again.
14. A database in agreement with its models is often reported as drifted: the
    inspector reads names of indexes and not their columns, knows no identity,
    has `text` for `varchar`, and takes every nullable column for a pointer.
    `CleanReportIsTrue` is the direction that holds, of checks during which the
    schema does not change (four queries in between two migrations may add up to
    the schema of the models, and nothing notices), and only as far as the
    inspector tells types apart (`KnownShape`): a field that becomes `text` while
    its column is still a `varchar`, its migration being generated and not run, is
    no drift from models or snapshot (`inspect_postgres.go:145`), although ADR-006
    wants to detect "when actual PostgreSQL state no longer matches the expected
    schema".
15. `Sync` compares the key fields and everything but audit fields, the id
    included; without a unique index two runs at once create a record twice, and
    a soft-deleted duplicate is revived by the update of the live one.
16. With `PrepareStatements`, a callback that executes on the root handle of an
    exhausted pool waits in `PrepareContext` without a deadline and holds
    `stmtMu`: every statement and Close wait with it, whatever deadlines their
    contexts have. `Init` of `ConnectionPool` leaves this combination out.
17. A nested call whose own context is done while the root's is not (a timeout for
    the inner part, say): RELEASE or ROLLBACK TO is not sent (`transaction.go:232`,
    `:259`), the handle is closed, the call returns an error, and its writes stay
    pending in the `sql.Tx`. If the enclosing callback swallows that error and
    returns nil, its COMMIT publishes them, although ADR-028 says "non-nil return
    value rolls the transaction back". `CallsTellFateOfWrites` and
    `NestedTransactions` (`Abandon`) name this as the exception.

`optimistic_lock` passes because its clients load a model again when an undone
write has changed it (`DisciplinedUpdate`), and because a deleted row's key is
not used again: a row created anew starts at version 1.

`migrations` holds of `ExecutedInOrder` whatever the operators do.
`SchemaFollowsRegistry` holds while they are `disciplined`: one command at a
time, a revert that was cut off is repeated before anything else, only the last
migration is reverted and none that dropped a table. `RegistryDescribesSchema`,
`NextFileExecutes` and `LastFileReverts` hold while the history is `Orderly`:
every file was generated from its predecessor's snapshot, the last applied one
was always the one reverted, nobody changed the database by hand (`regular`), and
no model calls a key or an identity column nullable, which PostgreSQL makes NOT
NULL all the same (`Declarable`); `CleanReportIsTrue` asks for none of this. Files are executed whole or not at
all: pgx sends a text without arguments by the simple protocol, as one implicit
transaction.

## 5. Proofs

`OrmTransactionProofs` proves, for any sets of handles and writes and any
`MaxSavepoint`, that every behaviour of `OrmTransaction!Spec` satisfies

- `TypeCorrect`: `[]TypeOK`;
- `RolledBackStaysGone`: `[]RolledBackNeverDurable`;
- `NoEarlyPublication`: `[]DurableOnlyAfterRootCommit`;
- `RootsGiveTheirConnectionBack`: `[]ClosedRootReleasesConnection`;
- `RootOutcomesTellTheTruth`: `[]RootOutcomeTruthful`;
- `OrphansStayInert`: `OrphansAreInert`, an action property.

They rest on the named assumptions of `OrmTransaction` (`NoneAssumption`,
`MaxSavepointAssumption`) and on no other. None of the properties is inductive:
that a write was undone says nothing of where it is unless one knows that the
savepoints of a transaction are in the order of their names, each of one handle
only, that no write is in the mark of its own handle's savepoint or of an earlier
one, and that a rolled back handle's writes are in no mark that a later ROLLBACK
TO could restore. The conjunction of these facts is `IInv`, checked by TLC in
`transactions` first; the lemma `Invariance` proves `Spec => []IInv` with one
step per action, from three kinds of lemmas: what a quiet step (no change of the
server), a shrinking step (ROLLBACK TO) and an end of a root does to it.

`TransactionCallbackProofs` extends both, and proves of `CallSpec`, for any
handles, goroutines and writes, under the same two assumptions,

- `CallTypesCorrect`: `[]CallTypeOK`;
- `CallOutcomesTellTheTruth`: `[]CallsTellFateOfWrites`;
- `CallsGiveTheirConnectionBack`: `[]ReturnedCallsHoldNoConnection`;
- `CurrentCallFindsItsSavepoint`: `[]CurrentSavepointExists`.

`CallIInv` adds to `IInv` what the callbacks' discipline gives. `StackInv`: the
open handles are exactly those on the stacks of the goroutines, the handles of a
stack share the root's sql.Tx and have ascending savepoints, and a write in
flight was issued by the innermost call. `TellInv`: what the mark of an open call
holds was written before it and by calls that were kept (`CallTells`), what is
pending belongs to calls none of which was undone (`PendingKept`), and an
acknowledged write none of whose calls failed is still pending
(`UnfailedPending`). Without `CallTells` a ROLLBACK TO could bring back the write
of a call that had failed; without the order of the stack a call inside could
have a mark from before the one around it. TLC checked `CallIInv` before
(189,132 states).

`TransactionCallbackProofs` also proves, under the same two assumptions, the
refinement that `callback` checks on an instance:

- `CallsImplementNestedTransactions`: `CallSpec => ImplementsNestedTransactions`.
  Each step of the calls on their savepoints, faults of the server, failed commits
  and ends that are not sent included, is a step of `NestedTransactions` or a stutter.

`RefinementInv` adds one fact to `CallIInv`: a mark holds nothing but what is
pending and what later marks hold (`MarksNested`). With it, the writes that the
mapping reads off the savepoints as a scope's own are the pending writes made in
that call and in no open call inside it (`OwnWritesAreMine`), and no later step
looks at a savepoint. Each action of `NestedTransactions` has a lemma that says
which changes of what the mapping reads make it up (`IsOpen`, `IsPut`, `IsKeep`,
`IsDrop`, `IsDoomTree`, ...), and each action of the calls a lemma that it makes
such a change. The refinement is one of safety: `NestedTransactions` states no
fairness.

`OptimisticLockProofs` proves of `OptimisticLock!Spec`, for any clients, rows,
kinds of tables and numbers of writes,

- `TypeCorrect`: `[]TypeOK`;
- `VersionIsContent`: `[]VersionIdentifiesContent`;
- `UpdatesLoseNothing`: `NoLostUpdate`, an action property;
- `VersionsGrow`: `CommittedVersionGrows`, an action property.

They rest on `NoClientAssumption`, `ExistingAssumption` and
`MaxWriteAssumption`. That equal versions mean equal contents is not inductive:
a commit shows the other clients a pending version, so one must know that what
is pending is new to everybody else (`PendingIsNew`), that a row lock belongs to
an open transaction (`LocksBelong`), that a model which no undone write has
changed is never ahead of its row (`ModelsAreBehind`), and that no version or
content is of a write to come (`NothingFromTheFuture`). TLC checked this `IInv`
before (519,308 states).

`SessionOperationsProofs` proves of `SessionOperations!Spec`, for any requests and
policies, scopes, tables with any way to delete, structs, keys, batches, batch size
and numbers of writes,

- `TypeCorrect`: `[]TypeOK`;
- `OperationsStayInScope`: `[]WritesStayInScope`;
- `ScopesAreKept`: `[]RowsKeepTheirScope`, which itself is about disciplined programs;
- `CreatorsAreNamed`: `[]CreatedByNamesCreator` when programs are disciplined;
- `OneRowPerStruct`: `[]RetriedCreateMakesOneRow`;
- `BatchesAreComplete`: `BatchWritesEveryItem`, an action property.

They rest on the module's assumptions: `ScopeAssumption` of `AccessPolicy`,
`ValueAssumption`, `NamesAssumption` (`Nil` is no key and no struct),
`RequestsAssumption` (a context's values are of their scopes), `TablesAssumption`,
`BatchAssumption` and `BoundAssumption`. The discipline is two habits: a struct
whose Create failed is created or loaded anew before an update is made with it, and
`UpdateWhere` gets a struct that was not loaded.

The invariant has to speak of what is not committed. `Core` holds of four things:
the committed rows, the rows as the open batch sees them, the structs, and the keys
drawn. Both views of the rows satisfy the same `RowsInv`, and `Follows` says that
they are of the same rows, so that a statement of another session may be applied to
both and the batch may then commit or be undone. For created_by and the scopes,
`Faithful` adds what is known of a struct: unless its last Create failed, it agrees
with the row of its key in all that an update would write. For Create tried again,
`OneRowEach` and `OneStructEach`: a struct that a row was inserted from holds the
key of a row, and a key without a row is in one struct only. When a batch is undone
its structs keep their keys, and none that may be used for an update differs from
before (`Resent`). For the loops of a batch, `BatchInv` relates what was written to the index, chunk by chunk. The steps
fall into few kinds (`IsEdit`, `IsInsertion`, a struct taken up), each with a lemma
that it preserves `Core`. TLC checked this `IInv` before (122,016 states, with chunks of one).

`MigrationRunnerProofs` proves of `MigrationRunner!Spec`, for any operators,
tables, parts and numbers of files,

- `TypeCorrect`: `[]TypeOK`;
- `MigrationsAreExecutedInOrder`: `[]ExecutedInOrder`, with any number of commands
  at once;
- `RegistryAndSchemaAgree`: `[]SchemaFollowsRegistry`.

They rest on `PartAssumption`, `DisjointAssumption`, `MaxFileAssumption` and
`NoFileAssumption`. The order needs that files are numbered without a gap, the
one being written included (`FilesAreNumbered`), and that what a run has left to
do, with what was executed, covers every number below (`RunsPassOverTheExecuted`).
The schema needs `Consistent`: under the discipline and for chained files there is
an `n` such that the database stands after migration `n`, and the registry is that
of `n` or one statement away from it on a side that `torn` or the running command
tells. Three lemmas say what the statements of a change do to its own two ends
(`ExecutedIsSchema`, `UpExecuted`, `DownExecuted`). TLC checked this `IInv` before
(2.78 million states).

`SchemaEvolutionProofs` proves of `SchemaEvolution!Spec`, for any tables, columns,
models and numbers of migrations and changes by hand,

- `TypeCorrect`: `[]TypeOK`;
- `CleanReportsAreTrue`: `[]CleanReportIsTrue`;
- `RegistryTellsTheSchema`: `[]RegistryDescribesSchema`;
- `NextFilesExecute`: `[]NextFileExecutes`;
- `LastFilesRevert`: `[]LastFileReverts`.

They rest on `NameAssumption` (names are numbers, finitely many),
`ModelsAssumption`, `LostAssumption` (an unreadable snapshot is no schema) and
`BoundAssumption`. `TypeInv` adds to `TypeOK` that every file is `Compare` of a
schema of models with another, and its inverse. `CheckInv` says what the parts of
a report are at each of its four steps, as long as nothing changes the schema; that
a report without differences then means agreement is `CleanMeansAgreed`.

The three others are about sequences of operations and rest on two facts about
`Compare`. It lists the differences of two schemas, each once and in the order
`Before` (`CompareLists`, from `ListedInOrder`: an element of a finite strict order
stands where the number of its predecessors says), and `InvertDiff` lists their
inverses backwards (`InvertLists`, `DownIs`). So the differences that are still to
come are a set (`Waiting`), from which every operation takes itself away. A table in
the middle of a file is `OnTheWay`: a column is as in the new schema unless
something waits for it, and as in the old one as far as something does; the same for
constraints, which a dropped column may take along before their turn; the NOT NULL
of a key column may wait for the key. Each kind of statement has a lemma that it
keeps this (`ColumnAdded`, `ColumnDropped`, `ColumnAltered`, `KeyCreated`,
`ConstraintsDropped`, ...), `GoesOn` and `FileGoesOn` put them together, and when
nothing waits the new schema is reached (`Arrives`, `FileArrives`), up and down
alike. `RegistryInv` then says that the applied files are the first `k`, that each
was made from its predecessor's schema, and that the database is described by the
`k`th. A constraint that is created under a name that is taken would be dropped by
the inverse, so the invariant also remembers that no applied file did that
(`NamesAreFree`), which holds because such a file is refused (`ExecutesFreely`).

That a file executes is shown operation by operation in a database that is under
way (`NotRefused`): what an operation needs is neither waiting to come, by its rank
in `KindRank`, nor gone. Down, the order is the opposite one, and the proof needs
that no constraint waits when a column is altered, which the ranks give, too.
That is where the exceptions in the two properties come from, each a file that
PostgreSQL refuses. In an earlier form the properties named fewer of them, and the
attempt to prove them led to models the runs had not contained: a column of the
primary key that becomes nullable, an identity column that is altered, a cast that
cannot be undone. They are in the module and in the run `schema` now. TLC also
checked it with 3 migrations, reverts of applied ones only and nothing changed by
hand (7.46 million states).

`SeedRunnerProofs` proves of `SeedRunner!Spec`, for any processes, programs of
seeders, keys, values, rows and numbers of runs and deletions,

- `TypeCorrect`: `[]TypeOK`;
- `DependenciesGoFirst`: `[]DependenciesFirst`;
- `KeysHaveOneRecord`: `[]OneRecordPerKey`, with a unique index or for runs that do
  not overlap;
- `OthersSeeOnlyWholes`: `OthersSeeWholeTransactions`, an action property;
- `SuccessfulRunsConverge`: `[]SuccessfulRunConverges`.

They rest on `ProgramsAssumption` (a program is a sequence of one or more seeders),
`IdAssumption` (a table has finitely many ids: "fewer than two records were found"
says nothing of an infinite set), `NothingAssumption` and `BoundAssumption`. The order needs to be known of all that a
run has left, not of the seeder at hand alone: each depends on what has returned or
comes before it (`InOrder`). It comes from `Resolution`, and that from registries in
which order and names agree (`GoodRegistry`); both are folds, so lemmas prove by
induction over the prefixes of a sequence what they keep at every step
(`ProgramsRegister`, `ResolutionIsInOrder`, `ItemsAlong`, from `UpTo`, a least
counterexample, and `IterationExists`). That a key has one live record is about rows that a rollback
may bring back: a row that a transaction has written is there and had the same key
before (`DatabaseInv`), so that what any process sees has the keys of `rows`, which
differ (`KeysDiffer`), whether rows are live or not. Without an index, what
`SyncFind` did not find must not be there when `SyncCreate` writes (`LookupHolds`),
which holds because one run at most is under way (`OneRuns`) and all it sees is live
(`AllLive`). That others see whole transactions needs to know where none is open
(`NothingToUndo`). That a run converges has an invariant of its own, `ConvergeInv`: while nothing has
disturbed a run, the last item of every key among those of the seeders that have
returned and those already synced of the one at hand is in the table, in the only row
of its key (`SyncedHold`); what the lookup has found is still so when the next
statement writes; and everyone else's run has ended (`AloneInv`), so that nobody's
uncommitted rows hide anything. `ItemsOf` is a fold over the seeders, of which the
proof needs that one more seeder appends its items (`ItemsOfMore`); then an item of
the new seeder takes the place of an older one with its key (`OneMoreHolds`,
`AllHold`). TLC checked `IInv` and `ConvergeInv` before (1,089,542 states). The
proof of `TypeOK` found a state the runs had missed: a seeder without records, which
is now in a program of `seeding`.

`ConnectionPoolProofs` proves, for any goroutines, statements, size of the pool
and depth of nesting, that every behaviour of `ConnectionPool!Spec` satisfies

- `TypeCorrect`: `[]TypeOK`, which says who holds each of the two mutexes;
- `NothingIsLeftOpen`: `[]NothingLeaks`.

They rest on `CallersAssumption`, `PoolAssumption` and `StmtAssumption`.
`NothingLeaks` is not inductive: that a prepared statement enters the cache in
the place of no other needs to know that whoever prepares has not found its SQL
there (`Uncached`), which holds because the mutex kept everyone else out since
the lookup; that no pool is left behind needs to know that one goroutine at most
is opening (`OneOpens`) and that there is no pool before the driver returns one
(`NoPoolYet`). `RoomToNest` is for the bound on nesting. Here the lemmas go by
what is preserved (mutexes, transactions, statements, cache, handle and pool),
each with one step per action that changes it and one for all that do not.

## 6. Only model-checked

- All liveness (`EveryTransactionEnds` and `OperationsEnd`), which needs fairness
  and ENABLED and is beyond the prover. Every other property of a passing run is a
  theorem. The library's induction theorems take an operator as a parameter, which
  no installed prover instantiates; where a definition is a fold or runs along a
  sequence (`Registered`, `Resolution`, `ItemsOf`, `Along`), the induction is done
  by hand, over the set of the numbers for which the fact holds (`UpTo`).
- The counterexamples, which are TLC's by their nature.

## 7. Not modelled

Components that keep no state others read (analyzer, dry run, observability,
errors, the CLI's flags and printing, examples), the schema cache (whose hit is
a clone of what a miss computes as long as files that change also change size or
time), and the text of SQL. In the modelled parts: callbacks that call Commit or
Rollback themselves (`Transaction` then reports a closed transaction, although
the writes are committed); two goroutines in one model struct at once; `Upsert`,
which PostgreSQL rejects; hooks that write to the database; `updated_by`, which
every write fills in from its context; Go source, enums and views of the builder
and the inspector; a file cut off in its middle (an empty one is modelled),
the moment in which `os.WriteFile` has created a file and not yet filled it, when a
concurrent Run may read it empty (`WriteUp` is one step for readers;
`migrate.go:122`), a directory from which files are removed or into which branches are merged; the
registry of drivers, in which a name is marked before `sql.Register` ran, so
that an Open at the same time may fail once. `Resolution` places
a seeder when its dependencies are placed, which `seed.go:242-274` finds out by
counting them down; the order is the code's, the counting is not modelled. `PROJECT.json` ("hazards") lists
what they may hide.

## 8. Plan

1. An abstract schema that moves along the files one migration at a time, which
   `SchemaEvolution` and `MigrationRunner` both implement.
