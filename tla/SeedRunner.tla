----------------------------- MODULE SeedRunner -----------------------------
(***************************************************************************)
(* Package seed: processes register seeders, resolve their order and run   *)
(* them, each seeder in a transaction or all in one, or call Sync outside  *)
(* of any; Sync looks every record up by its key and then creates it,      *)
(* updates it or leaves it, while other processes do the same.             *)
(*                                                                         *)
(* The records are of one table with a primary key, a key column with or   *)
(* without a unique index, a value, and a column tagged soft_delete.  The  *)
(* database is PostgreSQL at READ COMMITTED.                               *)
(***************************************************************************)
EXTENDS Naturals, SequencesExt, FiniteSets

CONSTANTS Process,
          Id, Key, Value,
          Programs,     \* the sequences of seeders that a process may register
          Nothing,
          MaxRun,       \* bound: runs started
          MaxDelete     \* bound: soft deletions by the application

\* Names are numbered in their alphabetical order.
Seeder == [name : Nat, deps : SUBSET Nat, items : Seq([id : Id, key : Key, value : Value])]

ASSUME ProgramsAssumption == \A program \in Programs : program \in Seq(Seeder) /\ program # <<>>
ASSUME IdAssumption == IsFiniteSet(Id)
ASSUME NothingAssumption == Nothing \notin [key : Key, value : Value, live : BOOLEAN]
ASSUME BoundAssumption == MaxRun \in Nat /\ MaxDelete \in Nat

Mode == {"single", "per_seeder", "direct"}
NoSeeder == [name |-> 0, deps |-> {}, items |-> <<>>]
NoRegistry == [order |-> <<>>, seeders |-> <<>>]

VARIABLES
    registry,   \* per process: the names in the order of registration, the seeders
    run,        \* per process: the Run or Sync it is in, or the last one
    rows,       \* the table, with what uncommitted transactions wrote
    undo,       \* per process: the rows its transaction wrote, as they were before
    unique,     \* the key column has a unique index
    deletions,  \* soft deletions so far
    runs,       \* runs started
    overlapped  \* two runs have been under way at the same time

dbVars == <<rows, undo>>
vars == <<registry, run, rows, undo, unique, deletions, runs, overlapped>>

\* f, and g where f says nothing.
Over(f, g) == [x \in DOMAIN f \cup DOMAIN g |-> IF x \in DOMAIN f THEN f[x] ELSE g[x]]

Row == [key : Key, value : Value, live : BOOLEAN]
Idle == [pc |-> "idle", mode |-> "single", todo |-> <<>>, done |-> <<>>, current |-> NoSeeder,
         item |-> 0, alone |-> FALSE]

TypeOK ==
    /\ \A p \in Process :
          /\ Range(registry[p].order) = DOMAIN registry[p].seeders
          /\ IsInjective(registry[p].order)
          /\ run[p].pc \in {"idle", "next", "find", "create", "update", "return", "ok", "failed"}
          /\ run[p].mode \in Mode
          /\ run[p].pc \in {"find", "create", "update"} =>
                run[p].item \in DOMAIN run[p].current.items
          /\ undo[p] \in [DOMAIN undo[p] -> Row \cup {Nothing}]
          /\ DOMAIN undo[p] \subseteq Id
          /\ \A q \in Process \ {p} : DOMAIN undo[p] \cap DOMAIN undo[q] = {}
    /\ rows \in [Id -> Row \cup {Nothing}]
    /\ deletions \in 0..MaxDelete
    /\ runs \in 0..MaxRun

Init ==
    /\ registry = [p \in Process |-> NoRegistry]
    /\ run = [p \in Process |-> Idle]
    /\ rows = [i \in Id |-> Nothing]
    /\ undo = [p \in Process |-> <<>>]
    /\ unique \in BOOLEAN
    /\ deletions = 0
    /\ runs = 0
    /\ overlapped = FALSE

-----------------------------------------------------------------------------
(* The registry.                                                           *)

\* Mutant: every registration has a place.
RegisteredTwice(reg, seeder) ==
    [order |-> Append(reg.order, seeder.name),
     seeders |-> Over([n \in {seeder.name} |-> seeder], reg.seeders)]

\* A seeder of a name that is known takes its place.
Registered(reg, seeder) ==
    [order |-> IF seeder.name \in DOMAIN reg.seeders THEN reg.order
               ELSE Append(reg.order, seeder.name),
     seeders |-> Over([n \in {seeder.name} |-> seeder], reg.seeders)]

\* A process sets its registry up between runs.
Register(p, program) ==
    /\ run[p].pc = "idle"
    /\ registry[p] = NoRegistry
    /\ registry' = [registry EXCEPT ![p] = FoldLeft(Registered, @, program)]
    /\ UNCHANGED <<run, dbVars, unique, deletions, runs, overlapped>>

Reset(p) ==
    /\ run[p].pc \in {"ok", "failed"}
    /\ registry' = [registry EXCEPT ![p] = NoRegistry]
    /\ run' = [run EXCEPT ![p] = Idle]
    /\ UNCHANGED <<dbVars, unique, deletions, runs, overlapped>>

UnknownDependency(reg) ==
    \E n \in DOMAIN reg.seeders : ~ (reg.seeders[n].deps \subseteq DOMAIN reg.seeders)

\* Mutant: the first by name.
PlaceableByName(reg, placed) == DOMAIN reg.seeders \ placed

\* Of the seeders whose dependencies are placed, the first by name.
Placeable(reg, placed) ==
    {n \in DOMAIN reg.seeders \ placed : reg.seeders[n].deps \subseteq placed}

Resolution(reg) ==
    LET Place(order, i) ==
            LET ready == Placeable(reg, Range(order))
            IN  IF ready = {} THEN order ELSE Append(order, Min(ready))
    IN  FoldLeft(Place, <<>>, reg.order)

\* resolveSeederOrder: short of a seeder there is a cycle.
Resolvable(reg) ==
    ~ UnknownDependency(reg) /\ Len(Resolution(reg)) = Cardinality(DOMAIN reg.seeders)

-----------------------------------------------------------------------------
(* The database.                                                           *)

Others(p) == Process \ {p}
WrittenByOthers(p) == UNION {DOMAIN undo[q] : q \in Others(p)}

\* What a statement of p sees of row i.
Visible(p, i) ==
    IF i \in WrittenByOthers(p)
    THEN undo[CHOOSE q \in Others(p) : i \in DOMAIN undo[q]][i]
    ELSE rows[i]

\* Writing and, unless in a transaction, committing.
Write(p, new) ==
    /\ rows' = Over(new, rows)
    /\ undo' = [undo EXCEPT ![p] = IF run[p].mode = "direct" THEN @
                                   ELSE Over(@, [i \in DOMAIN new |-> rows[i]])]

Commit(p) == undo' = [undo EXCEPT ![p] = <<>>] /\ UNCHANGED rows

RollBack(p) ==
    /\ rows' = Over(undo[p], rows)
    /\ undo' = [undo EXCEPT ![p] = <<>>]

-----------------------------------------------------------------------------
(* Run and Sync.                                                           *)

Ended(p) == run[p].pc \in {"idle", "ok", "failed"}

\* Two processes that are under way at the same time disturb each other.
Started(p, new) ==
    LET others == {q \in Others(p) : ~ Ended(q)}
    IN  /\ run' = [q \in Process |->
                      IF q = p THEN [new EXCEPT !.alone = others = {}]
                      ELSE [run[q] EXCEPT !.alone = FALSE]]
        /\ overlapped' = (overlapped \/ others # {})
        /\ runs < MaxRun
        /\ runs' = runs + 1

Run(p, mode) ==
    /\ Ended(p)
    /\ Started(p, IF Resolvable(registry[p])
                  THEN [Idle EXCEPT
                            !.pc = "next", !.mode = mode,
                            !.todo = [i \in DOMAIN Resolution(registry[p]) |->
                                registry[p].seeders[Resolution(registry[p])[i]]]]
                  ELSE [Idle EXCEPT !.pc = "failed"])
    /\ UNCHANGED <<registry, dbVars, unique, deletions>>

\* Sync with the database itself.
SyncDirectly(p, seeder) ==
    /\ Ended(p)
    /\ seeder.items # <<>>
    /\ Started(p, [Idle EXCEPT !.pc = "next", !.mode = "direct",
                               !.todo = <<[seeder EXCEPT !.deps = {}]>>])
    /\ UNCHANGED <<registry, dbVars, unique, deletions>>

ChangeRun(p, new) ==
    /\ run' = [run EXCEPT ![p] = new]
    /\ UNCHANGED <<registry, unique, deletions, runs, overlapped>>

NextSeeder(p) ==
    /\ run[p].pc = "next"
    /\ run[p].todo # <<>>
    /\ ChangeRun(p, [run[p] EXCEPT !.pc = IF Head(run[p].todo).items = <<>> THEN "return" ELSE "find",
                                   !.item = 1, !.current = Head(run[p].todo), !.todo = Tail(@)])
    /\ UNCHANGED dbVars

Item(p) == run[p].current.items[run[p].item]

AfterItem(p) ==
    IF run[p].item < Len(run[p].current.items)
    THEN [run[p] EXCEPT !.pc = "find", !.item = @ + 1]
    ELSE [run[p] EXCEPT !.pc = "return"]

\* Mutant: the lookup is outside of the transaction, and sees what is committed.
ExistingOutside(p) ==
    {i \in Id \ DOMAIN undo[p] : /\ Visible(p, i) # Nothing
                                 /\ Visible(p, i).key = Item(p).key
                                 /\ Visible(p, i).live}

\* fetchExisting: live rows with the key of the item.
Existing(p) ==
    {i \in Id : /\ Visible(p, i) # Nothing
                /\ Visible(p, i).key = Item(p).key
                /\ Visible(p, i).live}

\* Mutant: the keys are equal, and that is all.
SeedKeysEqual(i, row, item) == row.key = item.key

\* seedValuesEqual: everything but audit fields, the id, too.
SeedValuesEqual(i, row, item) == i = item.id /\ row.value = item.value

SyncFind(p) ==
    /\ run[p].pc = "find"
    /\ Cardinality(Existing(p)) < 2
    /\ ChangeRun(p,
           IF Existing(p) = {} THEN [run[p] EXCEPT !.pc = "create"]
           ELSE IF \A i \in Existing(p) : SeedValuesEqual(i, Visible(p, i), Item(p))
           THEN AfterItem(p)
           ELSE [run[p] EXCEPT !.pc = "update"])
    /\ UNCHANGED dbVars

\* Rows that a new one would violate the primary key or the unique index with,
\* soft-deleted ones among them.
InTheWay(p) ==
    {i \in Id : /\ rows[i] # Nothing
                /\ i = Item(p).id \/ (unique /\ rows[i].key = Item(p).key)}

\* An INSERT waits for the transactions that wrote what is in its way, an UPDATE
\* for those that wrote the rows it is to write.
Targets(p) ==
    {i \in Id : Visible(p, i) # Nothing /\ Visible(p, i).key = Item(p).key}
Awaited(p) ==
    CASE run[p].pc = "create" -> InTheWay(p) \cap WrittenByOthers(p)
      [] run[p].pc = "update" -> Targets(p) \cap WrittenByOthers(p)
      [] OTHER -> {}

SyncCreate(p) ==
    /\ run[p].pc = "create"
    /\ InTheWay(p) = {}
    /\ Write(p, [i \in {Item(p).id} |->
                    [key |-> Item(p).key, value |-> Item(p).value, live |-> TRUE]])
    /\ ChangeRun(p, AfterItem(p))

\* UpdateWhere: every column but the primary key, deleted_at as NULL, on the rows
\* with the key, soft-deleted or not.
SyncUpdate(p) ==
    /\ run[p].pc = "update"
    /\ Awaited(p) = {}
    /\ Write(p, [i \in Targets(p) |->
                    [rows[i] EXCEPT !.value = Item(p).value, !.live = TRUE]])
    /\ ChangeRun(p, AfterItem(p))

\* Mutant: every transaction ends with its seeder.
CommitsEverySeeder == {"per_seeder", "single"}

\* The modes in which the end of a seeder is the end of a transaction.
CommitsEachSeeder == {"per_seeder"}

SeederReturns(p) ==
    /\ run[p].pc = "return"
    /\ IF run[p].mode \in CommitsEachSeeder THEN Commit(p) ELSE UNCHANGED dbVars
    /\ ChangeRun(p, [run[p] EXCEPT !.pc = "next", !.done = Append(@, run[p].current.name),
                                   !.current = NoSeeder, !.item = 0])

RunEnds(p) ==
    /\ run[p].pc = "next"
    /\ run[p].todo = <<>>
    /\ Commit(p)
    /\ ChangeRun(p, [run[p] EXCEPT !.pc = "ok"])

\* An error ends the run, and the transaction with it.
Fail(p) ==
    /\ RollBack(p)
    /\ ChangeRun(p, [run[p] EXCEPT !.pc = "failed", !.current = NoSeeder, !.item = 0,
                                   !.todo = <<>>])

\* SeedConflict: two records with one key.
SyncConflict(p) == run[p].pc = "find" /\ Cardinality(Existing(p)) >= 2 /\ Fail(p)

DuplicateKey(p) ==
    /\ run[p].pc = "create"
    /\ InTheWay(p) \ WrittenByOthers(p) # {}
    /\ Fail(p)

\* Two transactions wait for each other: one gets an error.
Deadlocked(p) ==
    \E q \in Others(p) : /\ Awaited(p) \cap DOMAIN undo[q] # {}
                         /\ Awaited(q) \cap DOMAIN undo[p] # {}

DeadlockDetected(p) == Deadlocked(p) /\ Fail(p)

\* An error of the seeder's own.
SeederFails(p) == run[p].pc = "return" /\ run[p].mode # "direct" /\ Fail(p)

-----------------------------------------------------------------------------
(* The application deletes a record.                                       *)

SoftDelete(i) ==
    /\ deletions < MaxDelete
    /\ \A p \in Process : i \notin DOMAIN undo[p]
    /\ rows[i] # Nothing
    /\ rows[i].live
    /\ rows' = [rows EXCEPT ![i].live = FALSE]
    /\ deletions' = deletions + 1
    /\ run' = [p \in Process |-> [run[p] EXCEPT !.alone = FALSE]]
    /\ UNCHANGED <<registry, undo, unique, runs, overlapped>>

-----------------------------------------------------------------------------
Step(p) ==
    \/ NextSeeder(p)
    \/ SyncFind(p)
    \/ SyncCreate(p)
    \/ SyncUpdate(p)
    \/ SeederReturns(p)
    \/ RunEnds(p)
    \/ SyncConflict(p)
    \/ DuplicateKey(p)
    \/ DeadlockDetected(p)

Next ==
    \/ \E p \in Process :
          \/ \E program \in Programs : Register(p, program)
          \/ Reset(p)
          \/ \E mode \in {"single", "per_seeder"} : Run(p, mode)
          \/ \E program \in Programs : SyncDirectly(p, Head(program))
          \/ Step(p)
          \/ SeederFails(p)
    \/ \E i \in Id : SoftDelete(i)

Spec == Init /\ [][Next]_vars

-----------------------------------------------------------------------------
(* Properties.                                                             *)

Committed(i) ==
    IF \E q \in Process : i \in DOMAIN undo[q]
    THEN undo[CHOOSE q \in Process : i \in DOMAIN undo[q]][i]
    ELSE rows[i]

\* A seeder runs when the seeders it depends on have returned, in whatever order
\* they were registered, and no seeder runs of a registry that cannot be ordered.
DependenciesFirst ==
    \A p \in Process :
        run[p].mode # "direct" => run[p].current.deps \subseteq Range(run[p].done)

\* Without a unique index a key has one live record as long as no two runs overlap
\* and the application deletes nothing, for whichever transactions the items of a
\* key are in, and with one it always has.
OneRecordPerKey ==
    unique \/ (~ overlapped /\ deletions = 0) =>
        \A p \in Process : \A k \in Key :
            Cardinality({i \in Id : /\ Visible(p, i) # Nothing
                                    /\ Visible(p, i).key = k
                                    /\ Visible(p, i).live}) <= 1

\* What others see changes with whole transactions: of a run in one transaction they
\* see nothing before it succeeds, of any other everything up to the last seeder
\* that returned, and of a seeder that fails nothing.
OthersSeeWholeTransactions ==
    [][\A p \in Process :
           /\ ~ Ended(p)
           /\ run[p].mode # "direct"
           /\ run'[p] # run[p]
           /\ deletions' = deletions
           /\ \E i \in Id : Committed(i)' # Committed(i)
           => IF run[p].mode = "single" THEN run'[p].pc = "ok"
              ELSE run[p].pc = "return" /\ run'[p].pc = "next"]_vars

\* The items of a run in their order.
ItemsOf(reg, done) ==
    FoldLeft(LAMBDA items, n : items \o reg.seeders[n].items, <<>>, done)

\* A run that succeeds, and that nothing disturbed, leaves for every key one live
\* record with the value of the last item for that key; so the same run again
\* changes nothing.
SuccessfulRunConverges ==
    \A p \in Process :
        /\ run[p].pc = "ok"
        /\ run[p].mode # "direct"
        /\ run[p].alone
        /\ deletions = 0
        /\ \A q \in Others(p) : Ended(q)
        => LET items == ItemsOf(registry[p], run[p].done)
           IN  \A j \in DOMAIN items :
                   (\A h \in DOMAIN items : items[h].key = items[j].key => h <= j) =>
                       \E i \in Id : /\ Committed(i) = [key |-> items[j].key,
                                                       value |-> items[j].value,
                                                       live |-> TRUE]
                                      /\ \A other \in Id \ {i} :
                                             \/ Committed(other) = Nothing
                                             \/ Committed(other).key # items[j].key
=============================================================================
