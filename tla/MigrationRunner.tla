-------------------------- MODULE MigrationRunner ---------------------------
(***************************************************************************)
(* The migration service of migrate/migrate.go: Generate and Write by a    *)
(* developer, Run and Revert by operators, each a sequence of reads and    *)
(* writes of files, of the registry table and of the schema that a crash,  *)
(* an error or another process may come between.                           *)
(*                                                                         *)
(* A schema is a set of tables and of their parts (columns, constraints).  *)
(* A migration is the change from one schema to another, rendered as an up *)
(* file of statements and a down file of their inverses, except that a     *)
(* dropped table is not made again.  A file is sent without arguments, so  *)
(* PostgreSQL executes all of it or nothing.  Every statement can be       *)
(* repeated (IF [NOT] EXISTS), ADD CONSTRAINT excepted.                    *)
(***************************************************************************)
EXTENDS Naturals, FiniteSetsExt

CONSTANTS Operator,
          Table,
          Part,         \* the columns and constraints of tables
          Constraint,   \* the parts added by ADD CONSTRAINT
          TableOf,      \* the table of a part
          MaxFile,      \* bound: migrations generated
          NoFile

ASSUME PartAssumption == Constraint \subseteq Part /\ TableOf \in [Part -> Table]
ASSUME DisjointAssumption == Table \cap Part = {}
ASSUME MaxFileAssumption == MaxFile \in Nat

Object == Table \cup Part

\* A part is in a schema only with its table.
Schema == {s \in SUBSET Object : \A p \in s \cap Part : TableOf[p] \in s}

Change == [from : Schema, to : Schema]
EmptyFile == [from |-> {}, to |-> {}]

ASSUME NoFileAssumption == NoFile \notin Change

VARIABLES
    source,       \* the schema that the models describe
    snapshot,     \* the snapshot file
    up, down,     \* per migration number: the file
    draft,        \* the developer: what Generate returned, how far Write is
    registry,     \* orm_migrations
    db,           \* the schema of the database
    command,      \* per operator: the Run or Revert it is in
    executed,     \* the migrations whose up file was executed at some time
    torn,         \* the migration a command left between its two statements
    disciplined   \* no operator has overlapped or mixed up commands so far

fileVars == <<source, snapshot, up, down, draft>>
runVars == <<registry, db, command, executed, torn, disciplined>>
vars == <<fileVars, runVars>>

Number == 1..MaxFile
NoDraft == [step |-> "none", number |-> 0, change |-> EmptyFile]
Idle == [pc |-> "idle", applied |-> {}, todo |-> {}, number |-> 0]
NotTorn == [by |-> "nobody", number |-> 0]

TypeOK ==
    /\ source \in Schema
    /\ snapshot \in Schema
    /\ up \in [Number -> Change \cup {NoFile}]
    /\ down \in [Number -> Change \cup {NoFile}]
    /\ draft \in [step : {"none", "up", "down", "snapshot"}, number : 0..MaxFile, change : Change]
    /\ registry \in SUBSET Number
    /\ db \in Schema
    /\ command \in [Operator ->
           [pc : {"idle", "glob", "apply", "record", "remove"}, applied : SUBSET Number,
            todo : SUBSET Number, number : 0..MaxFile]]
    /\ executed \in SUBSET Number
    /\ torn \in [by : {"nobody", "run", "revert"}, number : 0..MaxFile]
    /\ disciplined \in BOOLEAN

Init ==
    /\ source = {}
    /\ snapshot = {}
    /\ up = [n \in Number |-> NoFile]
    /\ down = [n \in Number |-> NoFile]
    /\ draft = NoDraft
    /\ registry = {}
    /\ db = {}
    /\ command = [o \in Operator |-> Idle]
    /\ executed = {}
    /\ torn = NotTorn
    /\ disciplined = TRUE

UpFiles == {n \in Number : up[n] # NoFile}

-----------------------------------------------------------------------------
\* The developer

\* The models change by a table, its parts included, or by a part.
EditModels ==
    /\ \/ \E t \in Table \cap source : source' = source \ ({t} \cup {p \in Part : TableOf[p] = t})
       \/ \E x \in source \cap Part : source' = source \ {x}
       \/ \E x \in Object \ source : source' \in Schema \cap {source \cup {x}}
    /\ UNCHANGED <<snapshot, up, down, draft, runVars>>

\* Mutant: the first free number, from the end of the directory listing.
NextNumberOffByOne == Cardinality(UpFiles) + 2

\* nextMigrationName
NextNumber == Cardinality(UpFiles) + 1

\* Generate: the change from the snapshot to the models, if there is any.
Generate ==
    /\ draft.step = "none"
    /\ source # snapshot
    /\ Cardinality(UpFiles) < MaxFile
    /\ draft' = [step |-> "up", number |-> NextNumber, change |-> [from |-> snapshot, to |-> source]]
    /\ UNCHANGED <<source, snapshot, up, down, runVars>>

WriteUp ==
    /\ draft.step = "up"
    /\ up' = [up EXCEPT ![draft.number] = draft.change]
    /\ draft' = [draft EXCEPT !.step = "down"]
    /\ UNCHANGED <<source, snapshot, down, runVars>>

WriteDown ==
    /\ draft.step = "down"
    /\ down' = [down EXCEPT ![draft.number] = draft.change]
    /\ draft' = [draft EXCEPT !.step = "snapshot"]
    /\ UNCHANGED <<source, snapshot, up, runVars>>

\* SaveSnapshot, which replaces the file by a rename.
WriteSnapshot ==
    /\ draft.step = "snapshot"
    /\ snapshot' = draft.change.to
    /\ draft' = NoDraft
    /\ UNCHANGED <<source, up, down, runVars>>

\* Write ends early, by an error or a crash: before or after creating the file
\* it is about to write.
WriteFails ==
    LET created(step) == IF draft.step = step THEN {draft.number} ELSE {} IN
    /\ draft.step # "none"
    /\ up' \in {up} \cup {[up EXCEPT ![n] = EmptyFile] : n \in created("up")}
    /\ down' \in {down} \cup {[down EXCEPT ![n] = EmptyFile] : n \in created("down")}
    /\ draft' = NoDraft
    /\ UNCHANGED <<source, snapshot, runVars>>

-----------------------------------------------------------------------------
\* Files

\* Compare: the operations of a change.  A table is created with its parts and
\* dropped with them (CASCADE).
Compare(change) ==
    LET added == change.to \ change.from
        dropped == change.from \ change.to
    IN  [create |-> {x \in added : x \in Table \/ TableOf[x] \in added},
         drop |-> dropped \cap Table,
         add |-> {x \in added \cap Part : TableOf[x] \notin added},
         remove |-> {x \in dropped \cap Part : TableOf[x] \notin dropped}]

\* invertDiff: nothing stands for a dropped table.
InvertDiff(diff) ==
    [create |-> {}, drop |-> diff.create \cap Table, add |-> diff.remove, remove |-> diff.add]

\* ALTER TABLE needs the table, and ADD CONSTRAINT that the constraint is new.
Executable(diff) ==
    /\ \A x \in diff.add \cup diff.remove : TableOf[x] \in db
    /\ diff.add \cap Constraint \cap db = {}

\* The schema after the statements.  A table that is there is left as it is.
Executed(diff) ==
    LET created == {x \in diff.create : (IF x \in Table THEN x ELSE TableOf[x]) \notin db}
        dropped == diff.drop \cup {x \in Part : TableOf[x] \in diff.drop}
    IN  ((db \cup created \cup diff.add) \ diff.remove) \ dropped

UpDiff(n) == Compare(up[n])
DownDiff(n) == InvertDiff(Compare(down[n]))

-----------------------------------------------------------------------------
\* The operators

OthersIdle(o) == \A p \in Operator \ {o} : command[p].pc = "idle"

\* Run: the registry is read.
RunReadsRegistry(o) ==
    /\ command[o].pc = "idle"
    /\ command' = [command EXCEPT ![o] = [Idle EXCEPT !.pc = "glob", !.applied = registry]]
    /\ disciplined' = (disciplined /\ OthersIdle(o) /\ torn.by # "revert")
    /\ UNCHANGED <<fileVars, registry, db, executed, torn>>

\* Run: the up files are listed; those in the registry are passed over.
RunListsFiles(o) ==
    LET todo == UpFiles \ command[o].applied IN
    /\ command[o].pc = "glob"
    /\ command' = [command EXCEPT ![o] =
                      IF todo = {} THEN Idle ELSE [Idle EXCEPT !.pc = "apply", !.todo = todo]]
    /\ UNCHANGED <<fileVars, registry, db, executed, torn, disciplined>>

\* Mutant: the files are taken in the reverse order of their names.
NextOfDescending(o) == Max(command[o].todo)

\* The files are taken in the order of their names.
NextOf(o) == Min(command[o].todo)

\* Run: the next file is executed, or its error ends the command.
RunExecutes(o) ==
    LET n == NextOf(o) IN
    /\ command[o].pc = "apply"
    /\ \/ /\ Executable(UpDiff(n))
          /\ db' = Executed(UpDiff(n))
          /\ executed' = executed \cup {n}
          /\ torn' = NotTorn
          /\ command' = [command EXCEPT ![o].pc = "record", ![o].number = n]
       \/ /\ ~ Executable(UpDiff(n))
          /\ command' = [command EXCEPT ![o] = Idle]
          /\ UNCHANGED <<db, executed, torn>>
    /\ UNCHANGED <<fileVars, registry, disciplined>>

\* Run: the migration is recorded, ON CONFLICT DO NOTHING.
RunRecords(o) ==
    LET todo == command[o].todo \ {command[o].number} IN
    /\ command[o].pc = "record"
    /\ registry' = registry \cup {command[o].number}
    /\ command' = [command EXCEPT ![o] =
                      IF todo = {} THEN Idle ELSE [Idle EXCEPT !.pc = "apply", !.todo = todo]]
    /\ UNCHANGED <<fileVars, db, executed, torn, disciplined>>

\* The operator reverts what was applied last, or what a command was cut off
\* at, and no migration that has dropped a table.
IsOrderly(n) ==
    /\ IF torn = NotTorn THEN registry # {} /\ n = Max(registry) ELSE n = torn.number
    /\ UpDiff(n).drop = {}

\* Revert: the down file of any migration is executed, applied or not.  When
\* that fails nothing has happened.
RevertExecutes(o, n) ==
    /\ command[o].pc = "idle"
    /\ down[n] # NoFile
    /\ Executable(DownDiff(n))
    /\ db' = Executed(DownDiff(n))
    /\ torn' = NotTorn
    /\ command' = [command EXCEPT ![o].pc = "remove", ![o].number = n]
    /\ disciplined' = (disciplined /\ OthersIdle(o) /\ IsOrderly(n))
    /\ UNCHANGED <<fileVars, registry, executed>>

\* Mutant: Revert leaves the registry alone.
RevertForgets(o) ==
    /\ command[o].pc = "remove"
    /\ command' = [command EXCEPT ![o] = Idle]
    /\ UNCHANGED <<fileVars, registry, db, executed, torn, disciplined>>

\* Revert: the migration is removed from the registry.
RevertRemoves(o) ==
    /\ command[o].pc = "remove"
    /\ registry' = registry \ {command[o].number}
    /\ command' = [command EXCEPT ![o] = Idle]
    /\ UNCHANGED <<fileVars, db, executed, torn, disciplined>>

\* The process dies, or the next statement fails.
CommandCutOff(o) ==
    /\ command[o].pc # "idle"
    /\ torn' = CASE command[o].pc = "record" -> [by |-> "run", number |-> command[o].number]
                 [] command[o].pc = "remove" -> [by |-> "revert", number |-> command[o].number]
                 [] OTHER -> torn
    /\ command' = [command EXCEPT ![o] = Idle]
    /\ UNCHANGED <<fileVars, registry, db, executed, disciplined>>

Next ==
    \/ EditModels
    \/ Generate
    \/ WriteUp
    \/ WriteDown
    \/ WriteSnapshot
    \/ WriteFails
    \/ \E o \in Operator : RunReadsRegistry(o)
    \/ \E o \in Operator : RunListsFiles(o)
    \/ \E o \in Operator : RunExecutes(o)
    \/ \E o \in Operator : RunRecords(o)
    \/ \E o \in Operator, n \in Number : RevertExecutes(o, n)
    \/ \E o \in Operator : RevertRemoves(o)
    \/ \E o \in Operator : CommandCutOff(o)

Spec == Init /\ [][Next]_vars

-----------------------------------------------------------------------------
\* Properties

\* docs/adr/ADR-010: migrate run applies pending migrations in order.  However
\* runs overlap, are cut off and repeated, and however migrations are reverted
\* in between: no migration is ever executed for the first time before every
\* migration with a smaller number was, and none is registered that was not
\* executed.
ExecutedInOrder ==
    /\ registry \subseteq executed
    /\ \A n \in executed : 1..n \subseteq executed

\* Write was never cut off: each migration starts where the one before it
\* ended, and its down file undoes it.
Chained ==
    \A n \in UpFiles :
        /\ up[n].from = IF n = 1 THEN {} ELSE up[n - 1].to
        /\ down[n] \in {up[n], NoFile}

\* The migration that the schema stands after, going by the registry, by the
\* command that is between its two statements, and by the one that was cut off
\* there.
Level ==
    LET At(pc) == {command[o].number : o \in {p \in Operator : command[p].pc = pc}} IN
    CASE At("record") # {} -> Max(At("record"))
      [] At("remove") # {} -> Max(At("remove")) - 1
      [] torn.by = "run" -> torn.number
      [] torn.by = "revert" -> torn.number - 1
      [] OTHER -> IF registry = {} THEN 0 ELSE Max(registry)

\* As long as operators issue one command at a time, repeat one that was cut
\* off before any other, and revert the last migration only, the registry is a
\* prefix of the migrations and the schema is the one they lead to, give or
\* take the migration a command is at: no crash makes the two drift apart.
SchemaFollowsRegistry ==
    disciplined /\ Chained =>
        /\ \A n \in registry : 1..n \subseteq registry
        /\ db = IF Level = 0 THEN {} ELSE up[Level].to
=============================================================================
