----------------------- MODULE MigrationRunnerProofs ------------------------
(***************************************************************************)
(* Migrations are first executed in order, and the schema follows the      *)
(* registry, for any operators, tables, parts and number of migrations.    *)
(*                                                                         *)
(* The order rests on the numbers being consecutive and on a run passing   *)
(* over what was executed already.  The schema rests on what the           *)
(* statements of a change do to the schemas at its two ends.               *)
(***************************************************************************)
EXTENDS MigrationRunner, FiniteSetTheorems, WellFoundedInduction, TLAPS

\* The files are numbered from 1 without a gap, and the draft is the next or the last.
NumberedTo(k) ==
    /\ UpFiles = 1..k
    /\ \A n \in Number : n > k => down[n] = NoFile
    /\ draft.step = "up" => draft.number = k + 1 /\ k < MaxFile
    /\ draft.step \in {"down", "snapshot"} => draft.number = k /\ k > 0
    /\ draft.step = "down" => down[k] = NoFile

FilesAreNumbered == \E k \in 0..MaxFile : NumberedTo(k)

\* What a Run has yet to do is all that was not executed before its last file.
RunsPassOverTheExecuted ==
    \A o \in Operator :
        /\ command[o].pc = "glob" => command[o].applied \subseteq executed
        /\ command[o].pc \in {"apply", "record"} =>
              /\ command[o].todo # {} /\ command[o].todo \subseteq UpFiles
              /\ \A n \in command[o].todo : 1..n \subseteq command[o].todo \cup executed
        /\ command[o].pc = "record" => command[o].number \in command[o].todo \cap executed

OrderInv ==
    /\ TypeOK
    /\ FilesAreNumbered
    /\ RunsPassOverTheExecuted
    /\ ExecutedInOrder

\* The schema after migration n.
SchemaAfter(n) == IF n = 0 THEN {} ELSE up[n].to

Busy(o) == command[o].pc # "idle"
Between(o) == command[o].pc \in {"record", "remove"}

\* Migration n is between its two statements, which pc stands for, or was left there.
At(n, pc) == \E o \in Operator : command[o].pc = pc /\ command[o].number = n
Left(n, by) == torn = [by |-> by, number |-> n] /\ \A o \in Operator : ~ Between(o)

\* The database stands after migration n, and the registry is there or one off.
StandsAfter(n) ==
    /\ n \in 0..MaxFile
    /\ 1..n \subseteq UpFiles
    /\ db = SchemaAfter(n)
    /\ \/ /\ registry = 1..n
          /\ torn = NotTorn /\ \A o \in Operator : ~ Between(o)
       \/ /\ n > 0 /\ registry = 1..(n - 1)
          /\ \/ At(n, "record") /\ torn = NotTorn
             \/ Left(n, "run")
       \/ /\ n + 1 \in UpFiles /\ registry \in {1..n, 1..(n + 1)}
          /\ \/ At(n + 1, "remove") /\ torn = NotTorn
             \/ Left(n + 1, "revert") /\ \A o \in Operator : ~ Busy(o)

\* One command at a time, and what a Run has yet to do follows the registry.
OneCommand ==
    /\ \A o, p \in Operator : Busy(o) /\ Busy(p) => o = p
    /\ \A o \in Operator :
          /\ command[o].pc = "glob" => command[o].applied = registry
          /\ command[o].pc \in {"apply", "record"} =>
                \E m \in 0..MaxFile : 1..m \subseteq UpFiles /\ command[o].todo = (1..m) \ registry

Consistent == disciplined /\ Chained => OneCommand /\ \E n \in 0..MaxFile : StandsAfter(n)

IInv == OrderInv /\ Consistent

-----------------------------------------------------------------------------
\* Numbers.

LEMMA MinIsLeast ==
    ASSUME NEW S \in SUBSET Nat, S # {}
    PROVE  Min(S) \in S /\ \A x \in S : Min(S) <= x
  <1>1. PICK x \in S : \A y \in S : ~ (<<y, x>> \in OpToRel(<, Nat))
    BY NatLessThanWellFounded, WFMin
  <1>2. ASSUME NEW y \in S, y < x PROVE FALSE
    <2> DEFINE pair == <<y, x>>
    <2>1. pair \in Nat \X Nat /\ pair[1] = y /\ pair[2] = x
      OBVIOUS
    <2> HIDE DEF pair
    <2>2. pair \in OpToRel(<, Nat)
      BY <1>2, <2>1 DEF OpToRel
    <2> QED
      BY <1>1, <2>2 DEF pair
  <1>3. \A y \in S : x <= y
    BY <1>2
  <1> QED
    BY <1>3 DEF Min

LEMMA MaxOfPrefix == ASSUME NEW n \in Nat, n > 0 PROVE 1..n # {} /\ Max(1..n) = n
  <1>1. n \in 1..n /\ \A y \in 1..n : n >= y
    OBVIOUS
  <1>2. \A x \in 1..n : (\A y \in 1..n : x >= y) => x = n
    BY <1>1
  <1> QED
    BY <1>1, <1>2 DEF Max

LEMMA MaxOfOne == ASSUME NEW n \in Nat PROVE Max({n}) = n
  BY DEF Max

\* nextMigrationName: the number of the files is the number of the last.
LEMMA NextIsNew == ASSUME NEW k \in Nat, UpFiles = 1..k PROVE Cardinality(UpFiles) = k
  BY FS_Interval

-----------------------------------------------------------------------------
\* Schemas: whatever the statements are executed on, parts stay with their tables.

LEMMA ExecutedIsSchema ==
    ASSUME db \in Schema, NEW change \in Change, NEW diff,
           diff = Compare(change) \/ diff = InvertDiff(Compare(change)), Executable(diff)
    PROVE  Executed(diff) \in Schema
  <1> USE PartAssumption, DisjointAssumption DEF Schema, Object
  <1>1. \A p \in Part : TableOf[p] \in Table /\ p \notin Table
    OBVIOUS
  <1>2. /\ diff.create \subseteq Object /\ diff.add \subseteq Part /\ diff.remove \subseteq Part
        /\ \A p \in diff.create \cap Part : TableOf[p] \in diff.create
    <2>1. CASE diff = Compare(change)
      BY <1>1, <2>1 DEF Compare, Change
    <2>2. CASE diff = InvertDiff(Compare(change))
      BY <1>1, <2>2 DEF Compare, InvertDiff, Change
    <2> QED
      BY <2>1, <2>2
  <1> DEFINE created == {x \in diff.create : (IF x \in Table THEN x ELSE TableOf[x]) \notin db}
             dropped == diff.drop \cup {x \in Part : TableOf[x] \in diff.drop}
  <1>3. Executed(diff) = ((db \cup created \cup diff.add) \ diff.remove) \ dropped
    BY DEF Executed
  <1>4. created \subseteq Object /\ \A p \in created \cap Part : TableOf[p] \in created
    BY <1>1, <1>2
  <1>5. \A p \in diff.add : TableOf[p] \in db
    BY DEF Executable
  <1>6. \A p \in Part : TableOf[p] \in dropped => p \in dropped
    BY <1>1
  <1> HIDE DEF created, dropped
  <1> QED
    BY <1>1, <1>2, <1>3, <1>4, <1>5, <1>6

\* The statements lead from the one end of the change to the other, and repeated,
\* after a crash, they stay there.
LEMMA UpExecuted ==
    ASSUME NEW change \in Change, db \in {change.from, change.to}
    PROVE  Executed(Compare(change)) = change.to
  <1> USE PartAssumption, DisjointAssumption DEF Schema, Object
  <1> DEFINE A == change.from
             B == change.to
             diff == Compare(change)
             created == {x \in diff.create : (IF x \in Table THEN x ELSE TableOf[x]) \notin db}
             dropped == diff.drop \cup {x \in Part : TableOf[x] \in diff.drop}
  <1>1. /\ A \in SUBSET Object /\ \A p \in A \cap Part : TableOf[p] \in A
        /\ B \in SUBSET Object /\ \A p \in B \cap Part : TableOf[p] \in B
        /\ db \in {A, B}
    BY DEF Change
  <1>2. \A p \in Part : TableOf[p] \in Table /\ p \notin Table
    OBVIOUS
  <1>3. /\ diff.create = {x \in B \ A : x \in Table \/ TableOf[x] \in B \ A}
        /\ diff.drop = (A \ B) \cap Table
        /\ diff.add = {x \in (B \ A) \cap Part : TableOf[x] \notin B \ A}
        /\ diff.remove = {x \in (A \ B) \cap Part : TableOf[x] \notin A \ B}
    BY DEF Compare
  <1>4. Executed(diff) = ((db \cup created \cup diff.add) \ diff.remove) \ dropped
    BY DEF Executed
  <1>5. created \cup diff.add \subseteq B
    BY <1>3
  <1>6. diff.remove \cap B = {} /\ dropped \cap B = {}
    BY <1>1, <1>2, <1>3
  <1>7. A \ B \subseteq diff.remove \cup dropped
    BY <1>1, <1>2, <1>3
  <1>8. B \subseteq db \cup created \cup diff.add
    BY <1>1, <1>2, <1>3
  <1> HIDE DEF A, B, diff, created, dropped
  <1>9. Executed(diff) = B
    BY <1>1, <1>4, <1>5, <1>6, <1>7, <1>8
  <1> QED
    BY <1>9 DEF B, diff

\* So do the statements of the down file, unless the change dropped a table.
LEMMA DownExecuted ==
    ASSUME NEW change \in Change, db \in {change.from, change.to}, Compare(change).drop = {}
    PROVE  Executed(InvertDiff(Compare(change))) = change.from
  <1> USE PartAssumption, DisjointAssumption DEF Schema, Object
  <1> DEFINE A == change.from
             B == change.to
             diff == InvertDiff(Compare(change))
             dropped == diff.drop \cup {x \in Part : TableOf[x] \in diff.drop}
  <1>1. /\ A \in SUBSET Object /\ \A p \in A \cap Part : TableOf[p] \in A
        /\ B \in SUBSET Object /\ \A p \in B \cap Part : TableOf[p] \in B
        /\ db \in {A, B}
    BY DEF Change
  <1>2. \A p \in Part : TableOf[p] \in Table /\ p \notin Table
    OBVIOUS
  <1>3. A \cap Table \subseteq B
    BY DEF Compare
  <1>4. /\ diff.drop = (B \ A) \cap Table
        /\ diff.add = (A \ B) \cap Part
        /\ diff.remove = {x \in (B \ A) \cap Part : TableOf[x] \notin B \ A}
        /\ diff.create = {}
    BY <1>1, <1>2, <1>3 DEF Compare, InvertDiff
  <1>5. Executed(diff) = ((db \cup diff.add) \ diff.remove) \ dropped
    BY <1>4 DEF Executed
  <1>6. diff.remove \cap A = {} /\ dropped \cap A = {}
    BY <1>1, <1>2, <1>4
  <1>7. B \ A \subseteq diff.remove \cup dropped
    BY <1>1, <1>2, <1>4
  <1>8. A \subseteq B \cup diff.add
    BY <1>1, <1>3, <1>4
  <1>10. diff.add \subseteq A
    BY <1>4
  <1> HIDE DEF A, B, diff, dropped
  <1>9. Executed(diff) = A
    BY <1>1, <1>5, <1>6, <1>7, <1>8, <1>10
  <1> QED
    BY <1>9 DEF A, diff

-----------------------------------------------------------------------------
\* The order.

LEMMA EmptySchema == {} \in Schema /\ EmptyFile \in Change
  BY DEF Schema, EmptyFile, Change

LEMMA InitOrder == Init => OrderInv
  <1> SUFFICES ASSUME Init PROVE OrderInv
    OBVIOUS
  <1> USE EmptySchema, MaxFileAssumption DEF Init, NoDraft, Idle, NotTorn
  <1>1. TypeOK
    BY DEF TypeOK
  <1>2. NumberedTo(0)
    BY DEF NumberedTo, UpFiles, Number
  <1>3. RunsPassOverTheExecuted /\ ExecutedInOrder
    BY DEF RunsPassOverTheExecuted, ExecutedInOrder
  <1> QED
    BY <1>1, <1>2, <1>3 DEF OrderInv, FilesAreNumbered

\* The developer's steps.
Developer == EditModels \/ Generate \/ WriteUp \/ WriteDown \/ WriteSnapshot \/ WriteFails

LEMMA EditedModels == ASSUME TypeOK, EditModels PROVE source' \in Schema
  <1> USE PartAssumption, DisjointAssumption DEF TypeOK, Schema, Object
  <1>1. ASSUME NEW t \in Table \cap source, source' = source \ ({t} \cup {p \in Part : TableOf[p] = t})
        PROVE  source' \in Schema
    BY <1>1
  <1>2. ASSUME NEW x \in source \cap Part, source' = source \ {x} PROVE source' \in Schema
    BY <1>2
  <1> QED
    BY <1>1, <1>2 DEF EditModels

\* The number of the draft is in range, and its files are files.
LEMMA DraftIsTyped ==
    ASSUME OrderInv
    PROVE  /\ draft.change \in Change
           /\ draft.step # "none" => draft.number \in Number
           /\ UpFiles \subseteq Number
  BY MaxFileAssumption DEF OrderInv, TypeOK, FilesAreNumbered, NumberedTo, UpFiles, Number

LEMMA DeveloperTypes == ASSUME OrderInv, Developer PROVE TypeOK'
  <1> USE MaxFileAssumption, EmptySchema, DraftIsTyped
  <1>0. TypeOK
    BY DEF OrderInv
  <1>1. /\ source' \in Schema
        /\ snapshot' \in Schema
    BY <1>0, EditedModels DEF Developer, Generate, WriteUp, WriteDown, WriteSnapshot, WriteFails, EditModels, TypeOK, Change
  <1>2. /\ up' \in [Number -> Change \cup {NoFile}]
        /\ down' \in [Number -> Change \cup {NoFile}]
    <2>1. CASE EditModels \/ Generate \/ WriteUp \/ WriteDown \/ WriteSnapshot
      BY <1>0, <2>1 DEF EditModels, Generate, WriteUp, WriteDown, WriteSnapshot, TypeOK
    <2>2. CASE WriteFails
      BY <1>0, <2>2 DEF WriteFails, TypeOK
    <2> QED
      BY <2>1, <2>2 DEF Developer
  <1>3. draft' \in [step : {"none", "up", "down", "snapshot"}, number : 0..MaxFile, change : Change]
    <2>1. CASE Generate
      <3>1. PICK k \in 0..MaxFile : UpFiles = 1..k
        BY DEF OrderInv, FilesAreNumbered, NumberedTo
      <3>2. NextNumber = k + 1 /\ k < MaxFile
        BY <2>1, <3>1, NextIsNew DEF Generate, NextNumber
      <3> QED
        BY <1>0, <2>1, <3>2 DEF Generate, TypeOK, Change
    <2>2. CASE EditModels \/ WriteUp \/ WriteDown
      BY <1>0, <2>2 DEF EditModels, WriteUp, WriteDown, TypeOK
    <2>3. CASE WriteSnapshot \/ WriteFails
      BY <1>0, <2>3 DEF WriteSnapshot, WriteFails, NoDraft
    <2> QED
      BY <2>1, <2>2, <2>3 DEF Developer
  <1>4. UNCHANGED runVars
    BY DEF Developer, EditModels, Generate, WriteUp, WriteDown, WriteSnapshot, WriteFails
  <1> QED
    BY <1>0, <1>1, <1>2, <1>3, <1>4 DEF TypeOK, runVars

LEMMA DeveloperNumbers == ASSUME OrderInv, Developer PROVE FilesAreNumbered'
  <1> USE MaxFileAssumption, EmptySchema, NoFileAssumption, DraftIsTyped DEF Number
  <1>0. TypeOK
    BY DEF OrderInv
  <1>1. PICK k \in 0..MaxFile : NumberedTo(k)
    BY DEF OrderInv, FilesAreNumbered
  <1>2. CASE EditModels \/ WriteSnapshot
    <2>1. NumberedTo(k)'
      BY <1>1, <1>2 DEF EditModels, WriteSnapshot, NumberedTo, UpFiles, NoDraft
    <2> QED
      BY <2>1 DEF FilesAreNumbered
  <1>3. CASE Generate
    <2>1. NextNumber = k + 1 /\ k < MaxFile
      BY <1>1, <1>3, NextIsNew DEF Generate, NextNumber, NumberedTo
    <2>2. NumberedTo(k)'
      BY <1>1, <1>3, <2>1 DEF Generate, NumberedTo, UpFiles
    <2> QED
      BY <2>2 DEF FilesAreNumbered
  <1>4. CASE WriteUp
    <2>1. draft.number = k + 1 /\ k + 1 \in Number
      BY <1>1, <1>4 DEF WriteUp, NumberedTo
    <2>2. up' = [up EXCEPT ![k + 1] = draft.change] /\ draft.change # NoFile
      BY <1>4, <2>1 DEF WriteUp
    <2>3. UpFiles' = 1..(k + 1)
      BY <1>0, <1>1, <2>1, <2>2 DEF TypeOK, UpFiles, NumberedTo
    <2>4. down' = down /\ draft'.step = "down" /\ draft'.number = k + 1
      BY <1>0, <1>4, <2>1 DEF WriteUp, TypeOK
    <2>5. NumberedTo(k + 1)'
      BY <1>1, <2>1, <2>3, <2>4 DEF NumberedTo
    <2> QED
      BY <2>1, <2>5 DEF FilesAreNumbered
  <1>5. CASE WriteDown
    <2>1. draft.number = k /\ k > 0
      BY <1>1, <1>5 DEF WriteDown, NumberedTo
    <2>2. UNCHANGED up /\ draft'.step = "snapshot" /\ draft'.number = k
      BY <1>0, <1>5, <2>1 DEF WriteDown, TypeOK
    <2>3. \A n \in Number : n > k => down'[n] = NoFile
      BY <1>0, <1>1, <1>5, <2>1 DEF WriteDown, TypeOK, NumberedTo
    <2>4. NumberedTo(k)'
      BY <1>1, <2>1, <2>2, <2>3 DEF NumberedTo, UpFiles
    <2> QED
      BY <2>4 DEF FilesAreNumbered
  <1>6. CASE WriteFails
    <2>1. draft'.step = "none"
      BY <1>6 DEF WriteFails, NoDraft
    <2>2. CASE up' = up
      <3>1. \A n \in Number : n > k => down'[n] = NoFile
        BY <1>0, <1>1, <1>6 DEF WriteFails, TypeOK, NumberedTo
      <3>2. NumberedTo(k)'
        BY <1>1, <2>1, <2>2, <3>1 DEF NumberedTo, UpFiles
      <3> QED
        BY <3>2 DEF FilesAreNumbered
    <2>3. CASE up' # up
      <3>1. draft.step = "up" /\ draft.number = k + 1 /\ k + 1 \in Number
            /\ up' = [up EXCEPT ![k + 1] = EmptyFile]
        BY <1>1, <1>6, <2>3 DEF WriteFails, NumberedTo
      <3>2. EmptyFile # NoFile
        OBVIOUS
      <3>3. UpFiles' = 1..(k + 1)
        BY <1>0, <1>1, <3>1, <3>2 DEF TypeOK, UpFiles, NumberedTo
      <3>4. down' = down
        BY <1>6, <3>1 DEF WriteFails
      <3>5. NumberedTo(k + 1)'
        BY <1>1, <2>1, <3>1, <3>3, <3>4 DEF NumberedTo
      <3> QED
        BY <3>1, <3>5 DEF FilesAreNumbered
    <2> QED
      BY <2>2, <2>3
  <1> QED
    BY <1>2, <1>3, <1>4, <1>5, <1>6 DEF Developer

\* Write never changes an up file that is there.
LEMMA FilesStay == ASSUME OrderInv, Developer PROVE \A n \in UpFiles : n \in UpFiles' /\ up'[n] = up[n]
  <1> USE NoFileAssumption DEF Number
  <1>1. PICK k \in 0..MaxFile : NumberedTo(k)
    BY DEF OrderInv, FilesAreNumbered
  <1>2. \A n \in UpFiles : n <= k /\ n \in Number /\ up[n] # NoFile
    BY <1>1 DEF NumberedTo, UpFiles
  <1>3. up' = up \/ \E f : up' = [up EXCEPT ![k + 1] = f]
    BY <1>1 DEF Developer, EditModels, Generate, WriteUp, WriteDown, WriteSnapshot, WriteFails, NumberedTo
  <1>4. DOMAIN up = Number /\ \A n \in UpFiles : n # k + 1
    BY <1>2 DEF OrderInv, TypeOK
  <1>5. \A n \in UpFiles : up'[n] = up[n]
    BY <1>2, <1>3, <1>4
  <1> QED
    BY <1>2, <1>5 DEF UpFiles

LEMMA DeveloperKeepsOrder == ASSUME OrderInv, Developer PROVE OrderInv'
  <1>1. UNCHANGED runVars
    BY DEF Developer, EditModels, Generate, WriteUp, WriteDown, WriteSnapshot, WriteFails
  <1>2. RunsPassOverTheExecuted' /\ ExecutedInOrder'
    BY <1>1, FilesStay DEF OrderInv, RunsPassOverTheExecuted, ExecutedInOrder, runVars
  <1> QED
    BY <1>2, DeveloperTypes, DeveloperNumbers DEF OrderInv

\* The operators' steps.
LEMMA UpFilesAreTyped ==
    ASSUME OrderInv
    PROVE  /\ \A n \in Number : n \in UpFiles => up[n] \in Change
           /\ \A n \in Number : down[n] # NoFile => down[n] \in Change
  BY DEF OrderInv, TypeOK, UpFiles

\* The file that a Run takes next, after everything before it.
LEMMA NextIsDue ==
    ASSUME OrderInv, NEW o \in Operator, command[o].pc = "apply"
    PROVE  /\ NextOf(o) \in command[o].todo
           /\ NextOf(o) \in Number
           /\ \A m \in command[o].todo : NextOf(o) <= m
           /\ 1..NextOf(o) \subseteq executed \cup {NextOf(o)}
  <1>1. command[o].todo \in SUBSET Number /\ command[o].todo # {}
    BY DEF OrderInv, TypeOK, RunsPassOverTheExecuted
  <1>2. command[o].todo \in SUBSET Nat
    BY <1>1 DEF Number
  <1>3. /\ NextOf(o) \in command[o].todo
        /\ \A m \in command[o].todo : NextOf(o) <= m
    BY <1>1, <1>2, MinIsLeast DEF NextOf
  <1>4. \A m \in 1..NextOf(o) : m \in command[o].todo => m = NextOf(o)
    BY <1>2, <1>3
  <1> QED
    BY <1>1, <1>3, <1>4 DEF OrderInv, RunsPassOverTheExecuted

Run(o) == RunReadsRegistry(o) \/ RunListsFiles(o) \/ RunExecutes(o) \/ RunRecords(o)
Revert(o) == (\E n \in Number : RevertExecutes(o, n)) \/ RevertRemoves(o)

\* What a statement leaves of the database has the type of a schema.
LEMMA FileExecuted ==
    ASSUME OrderInv, NEW n \in Number
    PROVE  /\ n \in UpFiles /\ Executable(UpDiff(n)) => Executed(UpDiff(n)) \in Schema
           /\ down[n] # NoFile /\ Executable(DownDiff(n)) => Executed(DownDiff(n)) \in Schema
  <1>1. db \in Schema
    BY DEF OrderInv, TypeOK
  <1> QED
    BY <1>1, UpFilesAreTyped, ExecutedIsSchema DEF UpDiff, DownDiff

CommandState == [pc : {"idle", "glob", "apply", "record", "remove"}, applied : SUBSET Number,
                 todo : SUBSET Number, number : 0..MaxFile]

LEMMA CommandTypes ==
    ASSUME OrderInv, NEW o \in Operator, Run(o) \/ Revert(o) \/ CommandCutOff(o)
    PROVE  TypeOK'
  <1> USE MaxFileAssumption DEF Number
  <1>0. TypeOK
    BY DEF OrderInv
  <1>1. /\ Idle \in CommandState /\ NotTorn \in [by : {"nobody", "run", "revert"}, number : 0..MaxFile]
        /\ command[o] \in CommandState /\ UpFiles \subseteq Number /\ registry \subseteq Number
        /\ torn \in [by : {"nobody", "run", "revert"}, number : 0..MaxFile]
    BY <1>0 DEF Idle, NotTorn, CommandState, UpFiles, TypeOK
  <1>2. disciplined' \in BOOLEAN
    BY <1>0 DEF Run, Revert, RunReadsRegistry, RunListsFiles, RunExecutes, RunRecords, RevertExecutes,
                RevertRemoves, CommandCutOff, TypeOK
  <1>3. UNCHANGED fileVars
    BY DEF Run, Revert, RunReadsRegistry, RunListsFiles, RunExecutes, RunRecords, RevertExecutes,
           RevertRemoves, CommandCutOff
  <1>4. \E state \in CommandState : command' = [command EXCEPT ![o] = state]
    <2>1. CASE RunReadsRegistry(o)
      <3>1. [Idle EXCEPT !.pc = "glob", !.applied = registry] \in CommandState
        BY <1>1 DEF CommandState
      <3> QED
        BY <2>1, <3>1 DEF RunReadsRegistry
    <2>2. CASE RunListsFiles(o)
      <3> DEFINE todo == UpFiles \ command[o].applied
      <3>1. [Idle EXCEPT !.pc = "apply", !.todo = todo] \in CommandState
        BY <1>1 DEF CommandState
      <3> QED
        BY <1>1, <2>2, <3>1 DEF RunListsFiles
    <2>3. CASE RunExecutes(o)
      <3>0. NextOf(o) \in 0..MaxFile
        BY <2>3, NextIsDue DEF RunExecutes
      <3>1. [command[o] EXCEPT !.pc = "record", !.number = NextOf(o)] \in CommandState
        BY <1>1, <3>0 DEF CommandState
      <3>2. \/ command' = [command EXCEPT ![o] = Idle]
            \/ command' = [command EXCEPT ![o].pc = "record", ![o].number = NextOf(o)]
        BY <2>3 DEF RunExecutes
      <3>3. [command EXCEPT ![o].pc = "record", ![o].number = NextOf(o)]
              = [command EXCEPT ![o] = [command[o] EXCEPT !.pc = "record", !.number = NextOf(o)]]
        BY <1>0 DEF TypeOK
      <3> QED
        BY <1>1, <3>1, <3>2, <3>3
    <2>4. CASE RunRecords(o)
      <3> DEFINE todo == command[o].todo \ {command[o].number}
      <3>1. [Idle EXCEPT !.pc = "apply", !.todo = todo] \in CommandState
        BY <1>1 DEF CommandState
      <3> QED
        BY <1>1, <2>4, <3>1 DEF RunRecords
    <2>5. ASSUME NEW n \in Number, RevertExecutes(o, n)
          PROVE  \E state \in CommandState : command' = [command EXCEPT ![o] = state]
      <3>0. n \in 0..MaxFile
        OBVIOUS
      <3>1. [command[o] EXCEPT !.pc = "remove", !.number = n] \in CommandState
        BY <1>1, <3>0 DEF CommandState
      <3>2. [command EXCEPT ![o].pc = "remove", ![o].number = n]
              = [command EXCEPT ![o] = [command[o] EXCEPT !.pc = "remove", !.number = n]]
        BY <1>0 DEF TypeOK
      <3> QED
        BY <2>5, <3>1, <3>2 DEF RevertExecutes
    <2>6. CASE RevertRemoves(o) \/ CommandCutOff(o)
      BY <1>1, <2>6 DEF RevertRemoves, CommandCutOff
    <2> QED
      BY <2>1, <2>2, <2>3, <2>4, <2>5, <2>6 DEF Run, Revert
  <1>5. registry' \subseteq Number
    BY <1>1, <1>0, UpFilesAreTyped
    DEF Run, Revert, RunReadsRegistry, RunListsFiles, RunExecutes, RunRecords, RevertExecutes,
        RevertRemoves, CommandCutOff, CommandState, OrderInv, RunsPassOverTheExecuted
  <1>6. db' \in Schema /\ executed' \subseteq Number
    <2>1. CASE RunExecutes(o)
      <3>1. NextOf(o) \in Number /\ NextOf(o) \in UpFiles
        BY <2>1, NextIsDue DEF RunExecutes, OrderInv, RunsPassOverTheExecuted
      <3> QED
        BY <1>0, <2>1, <3>1, FileExecuted DEF RunExecutes, TypeOK
    <2>2. ASSUME NEW n \in Number, RevertExecutes(o, n) PROVE db' \in Schema /\ executed' \subseteq Number
      BY <1>0, <2>2, FileExecuted DEF RevertExecutes, TypeOK
    <2>3. CASE UNCHANGED <<db, executed>>
      BY <1>0, <2>3 DEF TypeOK
    <2> QED
      BY <2>1, <2>2, <2>3 DEF Run, Revert, RunReadsRegistry, RunListsFiles, RunRecords, RevertRemoves, CommandCutOff
  <1>7. torn' \in [by : {"nobody", "run", "revert"}, number : 0..MaxFile]
    <2>1. CASE Run(o) \/ Revert(o)
      BY <1>1, <2>1 DEF Run, Revert, RunReadsRegistry, RunListsFiles, RunExecutes, RunRecords, RevertExecutes,
                        RevertRemoves
    <2>2. CASE CommandCutOff(o)
      BY <1>1, <2>2 DEF CommandCutOff, CommandState
    <2> QED
      BY <2>1, <2>2
  <1> QED
    <2>1. command' \in [Operator -> CommandState]
      BY <1>0, <1>4 DEF TypeOK, CommandState
    <2> QED
      BY <1>0, <1>2, <1>3, <1>5, <1>6, <1>7, <2>1 DEF TypeOK, fileVars, CommandState

\* The order of one command.
PassesOver(state, done) ==
    /\ state.pc = "glob" => state.applied \subseteq done
    /\ state.pc \in {"apply", "record"} =>
          /\ state.todo # {} /\ state.todo \subseteq UpFiles
          /\ \A n \in state.todo : 1..n \subseteq state.todo \cup done
    /\ state.pc = "record" => state.number \in state.todo \cap done

LEMMA OneCommandOfRuns ==
    ASSUME OrderInv, NEW o \in Operator, NEW state,
           command' = [command EXCEPT ![o] = state], UNCHANGED up,
           executed \subseteq executed', PassesOver(state, executed')
    PROVE  RunsPassOverTheExecuted'
  <1>1. UpFiles' = UpFiles
    BY DEF UpFiles
  <1>2. \A p \in Operator : PassesOver(command[p], executed)
    BY DEF OrderInv, RunsPassOverTheExecuted, PassesOver
  <1>3. \A p \in Operator : command'[p] = IF p = o THEN state ELSE command[p]
    BY DEF OrderInv, TypeOK
  <1>4. \A p \in Operator : PassesOver(command[p], executed')
    BY <1>2 DEF PassesOver
  <1>5. \A p \in Operator : PassesOver(command'[p], executed')
    BY <1>3, <1>4
  <1> QED
    BY <1>1, <1>5 DEF RunsPassOverTheExecuted, PassesOver

LEMMA CommandKeepsOrder ==
    ASSUME OrderInv, NEW o \in Operator, Run(o) \/ Revert(o) \/ CommandCutOff(o)
    PROVE  OrderInv'
  <1>0. TypeOK /\ TypeOK' /\ PassesOver(command[o], executed) /\ PassesOver(Idle, executed)
    BY CommandTypes DEF OrderInv, RunsPassOverTheExecuted, PassesOver, Idle
  <1>1. UNCHANGED fileVars
    BY DEF Run, Revert, RunReadsRegistry, RunListsFiles, RunExecutes, RunRecords, RevertExecutes,
           RevertRemoves, CommandCutOff
  <1>2. FilesAreNumbered'
    BY <1>1 DEF OrderInv, FilesAreNumbered, NumberedTo, UpFiles, fileVars
  <1>3. \/ RunsPassOverTheExecuted' /\ ExecutedInOrder'
        \/ RunExecutes(o)
    <2>1. CASE RunReadsRegistry(o)
      <3>1. PassesOver([Idle EXCEPT !.pc = "glob", !.applied = registry], executed)
        BY DEF PassesOver, Idle, OrderInv, ExecutedInOrder
      <3> QED
        BY <1>1, <2>1, <3>1, OneCommandOfRuns DEF RunReadsRegistry, OrderInv, ExecutedInOrder, fileVars
    <2>2. CASE RunListsFiles(o)
      <3> DEFINE todo == UpFiles \ command[o].applied
                 state == IF todo = {} THEN Idle ELSE [Idle EXCEPT !.pc = "apply", !.todo = todo]
      <3>1. PICK k \in 0..MaxFile : UpFiles = 1..k
        BY DEF OrderInv, FilesAreNumbered, NumberedTo
      <3>2. \A n \in todo : 1..n \subseteq todo \cup executed
        BY <1>0, <2>2, <3>1 DEF RunListsFiles, PassesOver
      <3> HIDE DEF todo
      <3>3. todo \subseteq UpFiles /\ PassesOver(state, executed)
        BY <1>0, <3>2 DEF PassesOver, Idle, todo
      <3> QED
        BY <1>1, <2>2, <3>3, OneCommandOfRuns DEF RunListsFiles, OrderInv, ExecutedInOrder, fileVars, todo
    <2>3. CASE RunRecords(o)
      <3> DEFINE todo == command[o].todo \ {command[o].number}
                 state == IF todo = {} THEN Idle ELSE [Idle EXCEPT !.pc = "apply", !.todo = todo]
      <3>1. PassesOver(state, executed)
        BY <1>0, <2>3 DEF PassesOver, Idle, RunRecords
      <3>2. ExecutedInOrder'
        BY <1>0, <2>3 DEF RunRecords, OrderInv, ExecutedInOrder, PassesOver
      <3> QED
        BY <1>1, <2>3, <3>1, <3>2, OneCommandOfRuns DEF RunRecords, fileVars
    <2>4. ASSUME NEW n \in Number, RevertExecutes(o, n) PROVE RunsPassOverTheExecuted' /\ ExecutedInOrder'
      <3>1. command' = [command EXCEPT ![o] = [command[o] EXCEPT !.pc = "remove", !.number = n]]
        BY <1>0, <2>4 DEF RevertExecutes, TypeOK
      <3>2. [command[o] EXCEPT !.pc = "remove", !.number = n].pc = "remove"
        BY <1>0 DEF TypeOK
      <3>3. PassesOver([command[o] EXCEPT !.pc = "remove", !.number = n], executed)
        BY <3>2 DEF PassesOver
      <3> QED
        BY <1>1, <2>4, <3>1, <3>3, OneCommandOfRuns DEF RevertExecutes, OrderInv, ExecutedInOrder, fileVars
    <2>5. CASE RevertRemoves(o) \/ CommandCutOff(o)
      <3>1. RunsPassOverTheExecuted'
        BY <1>0, <1>1, <2>5, OneCommandOfRuns DEF RevertRemoves, CommandCutOff, fileVars
      <3> QED
        BY <2>5, <3>1 DEF RevertRemoves, CommandCutOff, OrderInv, ExecutedInOrder
    <2> QED
      BY <2>1, <2>2, <2>3, <2>4, <2>5 DEF Run, Revert
  <1>4. CASE RunExecutes(o)
    <2> DEFINE n == NextOf(o)
    <2>1. /\ n \in command[o].todo /\ n \in Number
          /\ 1..n \subseteq executed \cup {n}
          /\ command[o].pc = "apply"
      BY <1>4, NextIsDue DEF RunExecutes
    <2> HIDE DEF n
    <2>2. CASE /\ executed' = executed \cup {n}
               /\ command' = [command EXCEPT ![o].pc = "record", ![o].number = n]
      <3> DEFINE state == [command[o] EXCEPT !.pc = "record", !.number = n]
      <3>1. command' = [command EXCEPT ![o] = state]
        BY <1>0, <2>2 DEF TypeOK
      <3>2. state.pc = "record" /\ state.number = n /\ state.todo = command[o].todo
        BY <1>0 DEF TypeOK
      <3>3. PassesOver(state, executed')
        BY <1>0, <2>1, <2>2, <3>2 DEF PassesOver
      <3>4. ExecutedInOrder'
        BY <1>4, <2>1, <2>2 DEF OrderInv, ExecutedInOrder, RunExecutes
      <3> HIDE DEF state
      <3> QED
        BY <1>1, <1>2, <1>0, <2>2, <3>1, <3>3, <3>4, OneCommandOfRuns DEF OrderInv, fileVars
    <2>3. CASE UNCHANGED executed /\ command' = [command EXCEPT ![o] = Idle]
      <3>1. RunsPassOverTheExecuted'
        BY <1>0, <1>1, <2>3, OneCommandOfRuns DEF fileVars
      <3>2. ExecutedInOrder'
        BY <1>4, <2>3 DEF RunExecutes, OrderInv, ExecutedInOrder
      <3> QED
        BY <1>0, <1>2, <3>1, <3>2 DEF OrderInv
    <2> QED
      BY <1>4, <2>2, <2>3 DEF RunExecutes, n
  <1> QED
    BY <1>0, <1>2, <1>3, <1>4 DEF OrderInv

LEMMA StepCases ==
    ASSUME [Next]_vars
    PROVE  \/ Developer
           \/ \E o \in Operator : Run(o) \/ Revert(o) \/ CommandCutOff(o)
           \/ UNCHANGED vars
  BY DEF Next, Developer, Run, Revert

LEMMA NextOrder == OrderInv /\ [Next]_vars => OrderInv'
  <1> SUFFICES ASSUME OrderInv, [Next]_vars PROVE OrderInv'
    OBVIOUS
  <1>1. CASE UNCHANGED vars
    BY <1>1 DEF vars, fileVars, runVars, OrderInv, TypeOK, FilesAreNumbered, NumberedTo, UpFiles,
                RunsPassOverTheExecuted, ExecutedInOrder
  <1> QED
    BY <1>1, StepCases, DeveloperKeepsOrder, CommandKeepsOrder

-----------------------------------------------------------------------------
\* The schema.

LEMMA InitConsistent == Init => Consistent
  <1> SUFFICES ASSUME Init PROVE OneCommand /\ StandsAfter(0)
    BY MaxFileAssumption DEF Consistent
  <1> QED
    BY MaxFileAssumption DEF Init, Idle, OneCommand, StandsAfter, Busy, Between, SchemaAfter

\* The files: those that were chained are, and lead to the same schemas.
LEMMA DownFilesStay ==
    ASSUME OrderInv, Developer
    PROVE  \A n \in UpFiles : down'[n] = down[n] \/ down[n] = NoFile
  <1>1. PICK k \in 0..MaxFile : NumberedTo(k)
    BY DEF OrderInv, FilesAreNumbered
  <1>2. down' = down \/ (down[k] = NoFile /\ \E f : down' = [down EXCEPT ![k] = f])
    BY <1>1 DEF Developer, EditModels, Generate, WriteUp, WriteDown, WriteSnapshot, WriteFails, NumberedTo
  <1>3. DOMAIN down = Number /\ UpFiles \subseteq Number
    BY DEF OrderInv, TypeOK, UpFiles
  <1> QED
    BY <1>2, <1>3

LEMMA WasChained == ASSUME OrderInv, Developer, Chained' PROVE Chained
  <1>1. PICK k \in 0..MaxFile : UpFiles = 1..k
    BY DEF OrderInv, FilesAreNumbered, NumberedTo
  <1>2. ASSUME NEW n \in UpFiles
        PROVE  /\ up[n].from = IF n = 1 THEN {} ELSE up[n - 1].to
               /\ down[n] \in {up[n], NoFile}
    <2>1. /\ up'[n].from = IF n = 1 THEN {} ELSE up'[n - 1].to
          /\ down'[n] \in {up'[n], NoFile}
      BY FilesStay DEF Chained
    <2>2. n # 1 => n - 1 \in UpFiles
      BY <1>1
    <2> QED
      BY <2>1, <2>2, FilesStay, DownFilesStay
  <1> QED
    BY <1>2 DEF Chained

LEMMA DeveloperKeepsSchema == ASSUME OrderInv, Consistent, Developer PROVE Consistent'
  <1>0. UNCHANGED runVars
    BY DEF Developer, EditModels, Generate, WriteUp, WriteDown, WriteSnapshot, WriteFails
  <1> SUFFICES ASSUME disciplined', Chained' PROVE OneCommand' /\ \E n \in 0..MaxFile : StandsAfter(n)'
    BY DEF Consistent
  <1>1. OneCommand /\ \E n \in 0..MaxFile : StandsAfter(n)
    BY <1>0, WasChained DEF Consistent, runVars
  <1>2. PICK n \in 0..MaxFile : StandsAfter(n)
    BY <1>1
  <1>3. UpFiles \subseteq UpFiles'
    BY FilesStay
  <1>4. OneCommand'
    BY <1>0, <1>1, <1>3 DEF runVars, OneCommand, Busy
  <1>5. SchemaAfter(n)' = SchemaAfter(n)
    <2>1. n # 0 => n \in UpFiles
      BY <1>2 DEF StandsAfter
    <2> QED
      BY <2>1, FilesStay DEF SchemaAfter
  <1>6. StandsAfter(n)'
    BY <1>0, <1>2, <1>3, <1>5 DEF runVars, StandsAfter, At, Left, Between, Busy
  <1> QED
    BY <1>4, <1>6

\* The commands, one at a time.
Steady(state) == state.pc \notin {"record", "remove"}

StandsWith(n, state) ==
    /\ n \in 0..MaxFile
    /\ 1..n \subseteq UpFiles
    /\ db = SchemaAfter(n)
    /\ \/ registry = 1..n /\ torn = NotTorn /\ Steady(state)
       \/ /\ n > 0 /\ registry = 1..(n - 1)
          /\ \/ state.pc = "record" /\ state.number = n /\ torn = NotTorn
             \/ torn = [by |-> "run", number |-> n] /\ Steady(state)
       \/ /\ n + 1 \in UpFiles /\ registry \in {1..n, 1..(n + 1)}
          /\ \/ state.pc = "remove" /\ state.number = n + 1 /\ torn = NotTorn
             \/ torn = [by |-> "revert", number |-> n + 1] /\ state.pc = "idle"

Follows(state) ==
    /\ state.pc = "glob" => state.applied = registry
    /\ state.pc \in {"apply", "record"} =>
          \E m \in 0..MaxFile : 1..m \subseteq UpFiles /\ state.todo = (1..m) \ registry

LEMMA BeforeOneCommand ==
    ASSUME OneCommand, NEW o \in Operator, OthersIdle(o), NEW n, StandsAfter(n)
    PROVE  StandsWith(n, command[o]) /\ Follows(command[o])
  BY DEF StandsAfter, StandsWith, Steady, At, Left, Between, Busy, OthersIdle, OneCommand, Follows

LEMMA AfterOneCommand ==
    ASSUME TypeOK, NEW o \in Operator, OthersIdle(o), NEW state,
           command' = [command EXCEPT ![o] = state],
           NEW n, StandsWith(n, state)', Follows(state)'
    PROVE  OneCommand' /\ \E m \in 0..MaxFile : StandsAfter(m)'
  <1>1. command'[o] = state /\ \A p \in Operator \ {o} : command'[p].pc = "idle"
    BY DEF TypeOK, OthersIdle
  <1>2. OneCommand'
    BY <1>1 DEF OneCommand, Busy, Follows
  <1>3. StandsAfter(n)'
    BY <1>1 DEF StandsAfter, StandsWith, Steady, At, Left, Between, Busy
  <1>4. n \in 0..MaxFile
    BY DEF StandsWith
  <1> QED
    BY <1>2, <1>3, <1>4

\* What the operator o's discipline says.
LEMMA Discipline ==
    ASSUME OrderInv, NEW o \in Operator, disciplined', Run(o) \/ Revert(o) \/ CommandCutOff(o)
    PROVE  /\ disciplined
           /\ RunReadsRegistry(o) => OthersIdle(o) /\ torn.by # "revert"
           /\ \A r \in Number : RevertExecutes(o, r) => disciplined' = (disciplined /\ OthersIdle(o) /\ IsOrderly(r))
  <1>1. CASE RunReadsRegistry(o)
    BY <1>1 DEF RunReadsRegistry, RevertExecutes
  <1>2. CASE \E r \in Number : RevertExecutes(o, r)
    BY <1>2 DEF RunReadsRegistry, RevertExecutes
  <1>3. CASE UNCHANGED disciplined /\ ~ RunReadsRegistry(o) /\ ~ \E r \in Number : RevertExecutes(o, r)
    BY <1>3
  <1> QED
    BY <1>1, <1>2, <1>3 DEF Run, Revert, RunListsFiles, RunExecutes, RunRecords, RevertRemoves, CommandCutOff

LEMMA OthersAreIdle ==
    ASSUME OneCommand, NEW o \in Operator, Busy(o)
    PROVE  OthersIdle(o)
  BY DEF OneCommand, OthersIdle, Busy

\* The situation of a command that is alone.
Alone(o) ==
    /\ OrderInv /\ Chained /\ OneCommand /\ OthersIdle(o)
    /\ \E n \in 0..MaxFile : StandsAfter(n)

LEMMA RunReadsRegistryKeeps ==
    ASSUME NEW o \in Operator, Alone(o), RunReadsRegistry(o), torn.by # "revert"
    PROVE  OneCommand' /\ \E n \in 0..MaxFile : StandsAfter(n)'
  <1>1. PICK n \in 0..MaxFile : StandsWith(n, command[o])
    BY BeforeOneCommand DEF Alone
  <1>2. PICK state : state = [Idle EXCEPT !.pc = "glob", !.applied = registry]
    OBVIOUS
  <1>3. state.pc = "glob" /\ state.applied = registry
    BY <1>2 DEF Idle
  <1>4. UpFiles' = UpFiles /\ SchemaAfter(n)' = SchemaAfter(n) /\ UNCHANGED <<registry, db, torn>>
    BY DEF RunReadsRegistry, fileVars, UpFiles, SchemaAfter
  <1>5. command[o].pc = "idle" /\ command' = [command EXCEPT ![o] = state]
    BY <1>2 DEF RunReadsRegistry
  <1>6. StandsWith(n, state)'
    BY <1>1, <1>3, <1>4, <1>5 DEF StandsWith, Steady
  <1>7. Follows(state)'
    BY <1>3, <1>4 DEF Follows
  <1> QED
    BY <1>5, <1>6, <1>7, AfterOneCommand DEF Alone, OrderInv

LEMMA RunListsFilesKeeps ==
    ASSUME NEW o \in Operator, Alone(o), RunListsFiles(o)
    PROVE  OneCommand' /\ \E n \in 0..MaxFile : StandsAfter(n)'
  <1>1. PICK n \in 0..MaxFile : StandsWith(n, command[o]) /\ Follows(command[o])
    BY BeforeOneCommand DEF Alone
  <1>2. PICK k \in 0..MaxFile : UpFiles = 1..k
    BY DEF Alone, OrderInv, FilesAreNumbered, NumberedTo
  <1> DEFINE todo == UpFiles \ command[o].applied
  <1>3. PICK state : state = IF todo = {} THEN Idle ELSE [Idle EXCEPT !.pc = "apply", !.todo = todo]
    OBVIOUS
  <1>4. todo = (1..k) \ registry
    BY <1>1, <1>2 DEF RunListsFiles, Follows
  <1>5. command[o].pc = "glob" /\ command' = [command EXCEPT ![o] = state]
    BY <1>3 DEF RunListsFiles
  <1> HIDE DEF todo
  <1>6. state.pc = "idle" \/ (state.pc = "apply" /\ state.todo = todo)
    BY <1>3 DEF Idle
  <1>7. UpFiles' = UpFiles /\ SchemaAfter(n)' = SchemaAfter(n) /\ UNCHANGED <<registry, db, torn>>
    BY DEF RunListsFiles, fileVars, UpFiles, SchemaAfter
  <1>8. StandsWith(n, state)'
    BY <1>1, <1>5, <1>6, <1>7 DEF StandsWith, Steady
  <1>9. Follows(state)'
    BY <1>2, <1>4, <1>6, <1>7 DEF Follows
  <1> QED
    BY <1>5, <1>8, <1>9, AfterOneCommand DEF Alone, OrderInv

\* A migration leads from the schema of the one before it.
LEMMA ChainedFile ==
    ASSUME OrderInv, Chained, NEW n \in Nat, n + 1 \in UpFiles
    PROVE  /\ n + 1 \in Number
           /\ up[n + 1] \in Change
           /\ up[n + 1].from = SchemaAfter(n)
           /\ up[n + 1].to = SchemaAfter(n + 1)
           /\ down[n + 1] \in {up[n + 1], NoFile}
  BY UpFilesAreTyped DEF Chained, SchemaAfter, UpFiles

\* The next file of a Run is the first that is not registered.
LEMMA RunExecutesNext ==
    ASSUME NEW o \in Operator, Alone(o), command[o].pc = "apply", NEW n \in Nat, registry = 1..n
    PROVE  NextOf(o) = n + 1 /\ n + 1 \in UpFiles
  <1>1. PICK m \in 0..MaxFile : 1..m \subseteq UpFiles /\ command[o].todo = (1..m) \ (1..n)
    BY DEF Alone, OneCommand
  <1>2. /\ NextOf(o) \in command[o].todo
        /\ \A x \in command[o].todo : NextOf(o) <= x
    BY NextIsDue DEF Alone
  <1>3. NextOf(o) \in Nat /\ NextOf(o) > n /\ NextOf(o) <= m
    BY <1>1, <1>2
  <1>4. n + 1 \in command[o].todo
    BY <1>1, <1>3
  <1>5. NextOf(o) <= n + 1 /\ n + 1 \in 1..m
    BY <1>1, <1>2, <1>4
  <1> QED
    BY <1>1, <1>3, <1>5

LEMMA RunExecutesKeeps ==
    ASSUME NEW o \in Operator, Alone(o), RunExecutes(o)
    PROVE  OneCommand' /\ \E n \in 0..MaxFile : StandsAfter(n)'
  <1>0. TypeOK /\ OrderInv /\ Chained /\ OthersIdle(o) /\ command[o].pc = "apply"
    BY DEF Alone, OrderInv, RunExecutes
  <1>1. PICK n \in 0..MaxFile : StandsWith(n, command[o]) /\ Follows(command[o])
    BY BeforeOneCommand DEF Alone
  <1>2. UpFiles' = UpFiles /\ registry' = registry /\ \A m : SchemaAfter(m)' = SchemaAfter(m)
    BY DEF RunExecutes, fileVars, UpFiles, SchemaAfter
  <1>3. CASE UNCHANGED <<db, torn>> /\ command' = [command EXCEPT ![o] = Idle]
    <2>1. StandsWith(n, Idle)' /\ Follows(Idle)'
      BY <1>0, <1>1, <1>2, <1>3 DEF StandsWith, Follows, Idle, Steady
    <2> QED
      BY <1>0, <1>3, <2>1, AfterOneCommand
  <1>4. CASE /\ db' = Executed(UpDiff(NextOf(o)))
             /\ torn' = NotTorn
             /\ command' = [command EXCEPT ![o].pc = "record", ![o].number = NextOf(o)]
    <2>1. PICK d \in Nat : /\ d + 1 \in UpFiles /\ d + 1 \in Number /\ 1..(d + 1) \subseteq UpFiles
                           /\ registry = 1..d
                           /\ db \in {SchemaAfter(d), SchemaAfter(d + 1)}
      <3>1. CASE registry = 1..n
        <4>1. n + 1 \in UpFiles
          BY <1>0, <3>1, RunExecutesNext
        <4>2. 1..(n + 1) \subseteq UpFiles
          BY <1>1, <4>1 DEF StandsWith
        <4> QED
          BY <1>0, <1>1, <3>1, <4>1, <4>2, ChainedFile DEF StandsWith
      <3>2. CASE n > 0 /\ registry = 1..(n - 1)
        <4>1. n - 1 \in Nat /\ (n - 1) + 1 = n
          BY <3>2
        <4>2. n \in UpFiles
          BY <1>1, <3>2 DEF StandsWith
        <4>3. n \in Number
          BY <4>2 DEF UpFiles
        <4> QED
          BY <1>1, <3>2, <4>1, <4>2, <4>3 DEF StandsWith
      <3> QED
        BY <1>0, <1>1, <3>1, <3>2 DEF StandsWith
    <2>2. NextOf(o) = d + 1
      BY <1>0, <2>1, RunExecutesNext
    <2>3. /\ up[d + 1] \in Change /\ up[d + 1].from = SchemaAfter(d)
          /\ up[d + 1].to = SchemaAfter(d + 1)
      BY <1>0, <2>1, ChainedFile
    <2>4. db' = SchemaAfter(d + 1)
      BY <1>4, <2>1, <2>2, <2>3, UpExecuted DEF UpDiff
    <2>5. PICK state : state = [command[o] EXCEPT !.pc = "record", !.number = d + 1]
      OBVIOUS
    <2>6. /\ command' = [command EXCEPT ![o] = state]
          /\ state.pc = "record" /\ state.number = d + 1 /\ state.todo = command[o].todo
      BY <1>0, <1>4, <2>2, <2>5 DEF TypeOK
    <2>7. d + 1 \in 0..MaxFile /\ d + 1 > 0 /\ (d + 1) - 1 = d
      BY <2>1, MaxFileAssumption DEF Number
    <2>8. StandsWith(d + 1, state)'
      BY <1>2, <1>4, <2>1, <2>4, <2>6, <2>7 DEF StandsWith
    <2>9. Follows(state)'
      BY <1>0, <1>1, <1>2, <2>6 DEF Follows
    <2> QED
      BY <1>0, <2>6, <2>8, <2>9, AfterOneCommand
  <1> QED
    BY <1>3, <1>4 DEF RunExecutes

LEMMA RunRecordsKeeps ==
    ASSUME NEW o \in Operator, Alone(o), RunRecords(o)
    PROVE  OneCommand' /\ \E n \in 0..MaxFile : StandsAfter(n)'
  <1>0. TypeOK /\ OthersIdle(o) /\ command[o].pc = "record"
    BY DEF Alone, OrderInv, RunRecords
  <1>1. PICK n \in 0..MaxFile : StandsWith(n, command[o]) /\ Follows(command[o])
    BY BeforeOneCommand DEF Alone
  <1>2. UpFiles' = UpFiles /\ SchemaAfter(n)' = SchemaAfter(n) /\ UNCHANGED <<db, torn>>
    BY DEF RunRecords, fileVars, UpFiles, SchemaAfter
  <1>3. n > 0 /\ registry = 1..(n - 1) /\ command[o].number = n /\ torn = NotTorn
    BY <1>0, <1>1 DEF StandsWith, Steady
  <1>4. registry' = 1..n
    BY <1>3 DEF RunRecords
  <1>5. PICK m \in 0..MaxFile : 1..m \subseteq UpFiles /\ command[o].todo = (1..m) \ registry
    BY <1>0, <1>1 DEF Follows
  <1> DEFINE todo == command[o].todo \ {command[o].number}
  <1>6. todo = (1..m) \ registry'
    BY <1>3, <1>4, <1>5
  <1>7. PICK state : state = IF todo = {} THEN Idle ELSE [Idle EXCEPT !.pc = "apply", !.todo = todo]
    OBVIOUS
  <1>8. command' = [command EXCEPT ![o] = state]
    BY <1>7 DEF RunRecords
  <1> HIDE DEF todo
  <1>9. state.pc = "idle" \/ (state.pc = "apply" /\ state.todo = todo)
    BY <1>7 DEF Idle
  <1>10. StandsWith(n, state)'
    BY <1>1, <1>2, <1>3, <1>4, <1>9 DEF StandsWith, Steady
  <1>11. Follows(state)'
    BY <1>2, <1>5, <1>6, <1>9 DEF Follows
  <1> QED
    BY <1>0, <1>8, <1>10, <1>11, AfterOneCommand

LEMMA RevertExecutesKeeps ==
    ASSUME NEW o \in Operator, Alone(o), NEW r \in Number, RevertExecutes(o, r), IsOrderly(r)
    PROVE  OneCommand' /\ \E n \in 0..MaxFile : StandsAfter(n)'
  <1>0. TypeOK /\ OrderInv /\ Chained /\ OthersIdle(o) /\ command[o].pc = "idle"
    BY DEF Alone, OrderInv, RevertExecutes
  <1>1. PICK n \in 0..MaxFile : StandsWith(n, command[o])
    BY BeforeOneCommand DEF Alone
  <1>2. /\ \A by : [by |-> by, number |-> r].number = r
        /\ [by |-> "run", number |-> n] # NotTorn
        /\ [by |-> "revert", number |-> n + 1] # NotTorn
    BY DEF NotTorn
  <1>3. PICK d \in Nat : /\ r = d + 1 /\ d \in 0..MaxFile
                         /\ 1..d \subseteq UpFiles /\ d + 1 \in UpFiles
                         /\ registry \in {1..d, 1..(d + 1)}
                         /\ db \in {SchemaAfter(d), SchemaAfter(d + 1)}
    <2>1. CASE torn = NotTorn
      <3>1. registry = 1..n /\ registry # {} /\ r = Max(registry)
        BY <1>0, <1>1, <1>2, <2>1 DEF StandsWith, IsOrderly
      <3>2. n > 0
        BY <3>1
      <3>3. r = n
        BY <3>1, <3>2, MaxOfPrefix
      <3>4. n - 1 \in Nat /\ (n - 1) + 1 = n /\ n - 1 \in 0..MaxFile /\ n \in 1..n
        BY <3>2, MaxFileAssumption
      <3>5. n \in UpFiles /\ 1..(n - 1) \subseteq UpFiles /\ db = SchemaAfter(n)
        BY <1>1, <3>4 DEF StandsWith
      <3>6. /\ r = (n - 1) + 1 /\ 1..(n - 1) \subseteq UpFiles /\ (n - 1) + 1 \in UpFiles
            /\ registry \in {1..(n - 1), 1..((n - 1) + 1)}
            /\ db \in {SchemaAfter(n - 1), SchemaAfter((n - 1) + 1)}
        BY <3>1, <3>3, <3>4, <3>5
      <3> QED
        BY <3>4, <3>6
    <2>2. CASE torn # NotTorn
      <3>1. r = torn.number
        BY <2>2 DEF IsOrderly
      <3>2. CASE n > 0 /\ registry = 1..(n - 1) /\ torn = [by |-> "run", number |-> n]
        <4>1. n - 1 \in Nat /\ (n - 1) + 1 = n /\ n - 1 \in 0..MaxFile /\ n \in 1..n /\ r = n
          BY <3>1, <3>2, MaxFileAssumption
        <4>2. n \in UpFiles /\ 1..(n - 1) \subseteq UpFiles /\ db = SchemaAfter(n)
          BY <1>1, <4>1 DEF StandsWith
        <4>3. /\ r = (n - 1) + 1 /\ 1..(n - 1) \subseteq UpFiles /\ (n - 1) + 1 \in UpFiles
              /\ registry \in {1..(n - 1), 1..((n - 1) + 1)}
              /\ db \in {SchemaAfter(n - 1), SchemaAfter((n - 1) + 1)}
          BY <3>2, <4>1, <4>2
        <4> QED
          BY <4>1, <4>3
      <3>3. CASE /\ n + 1 \in UpFiles /\ registry \in {1..n, 1..(n + 1)}
                 /\ torn = [by |-> "revert", number |-> n + 1]
        BY <1>1, <3>1, <3>3 DEF StandsWith
      <3> QED
        BY <1>0, <1>1, <2>2, <3>2, <3>3 DEF StandsWith
    <2> QED
      BY <2>1, <2>2
  <1>4. /\ up[r] \in Change /\ up[r].from = SchemaAfter(d)
        /\ up[r].to = SchemaAfter(d + 1) /\ down[r] = up[r]
    BY <1>0, <1>3, ChainedFile DEF RevertExecutes
  <1>5. Compare(up[r]).drop = {} /\ DownDiff(r) = InvertDiff(Compare(up[r]))
    BY <1>4 DEF IsOrderly, UpDiff, DownDiff
  <1>6. db' = SchemaAfter(d)
    BY <1>3, <1>4, <1>5, DownExecuted DEF RevertExecutes
  <1>7. PICK state : state = [command[o] EXCEPT !.pc = "remove", !.number = r]
    OBVIOUS
  <1>8. /\ command' = [command EXCEPT ![o] = state]
        /\ state.pc = "remove" /\ state.number = r
    BY <1>0, <1>7 DEF TypeOK, RevertExecutes
  <1>9. UpFiles' = UpFiles /\ SchemaAfter(d)' = SchemaAfter(d) /\ registry' = registry /\ torn' = NotTorn
    BY DEF RevertExecutes, fileVars, UpFiles, SchemaAfter
  <1>10. StandsWith(d, state)'
    BY <1>3, <1>6, <1>8, <1>9 DEF StandsWith
  <1>11. Follows(state)'
    BY <1>8 DEF Follows
  <1> QED
    BY <1>0, <1>8, <1>10, <1>11, AfterOneCommand

LEMMA RevertRemovesKeeps ==
    ASSUME NEW o \in Operator, Alone(o), RevertRemoves(o)
    PROVE  OneCommand' /\ \E n \in 0..MaxFile : StandsAfter(n)'
  <1>0. TypeOK /\ OthersIdle(o) /\ command[o].pc = "remove"
    BY DEF Alone, OrderInv, RevertRemoves
  <1>1. PICK n \in 0..MaxFile : StandsWith(n, command[o])
    BY BeforeOneCommand DEF Alone
  <1>2. UpFiles' = UpFiles /\ SchemaAfter(n)' = SchemaAfter(n) /\ UNCHANGED <<db, torn>>
    BY DEF RevertRemoves, fileVars, UpFiles, SchemaAfter
  <1>3. /\ registry \in {1..n, 1..(n + 1)} /\ command[o].number = n + 1 /\ torn = NotTorn
    BY <1>0, <1>1 DEF StandsWith, Steady
  <1>4. registry' = 1..n
    BY <1>3 DEF RevertRemoves
  <1>5. StandsWith(n, Idle)' /\ Follows(Idle)'
    BY <1>1, <1>2, <1>3, <1>4 DEF StandsWith, Steady, Follows, Idle
  <1> QED
    BY <1>0, <1>5, AfterOneCommand DEF RevertRemoves

LEMMA CommandCutOffKeeps ==
    ASSUME NEW o \in Operator, Alone(o), CommandCutOff(o)
    PROVE  OneCommand' /\ \E n \in 0..MaxFile : StandsAfter(n)'
  <1>0. TypeOK /\ OthersIdle(o) /\ command[o].pc # "idle"
    BY DEF Alone, OrderInv, CommandCutOff
  <1>1. PICK n \in 0..MaxFile : StandsWith(n, command[o])
    BY BeforeOneCommand DEF Alone
  <1>2. UpFiles' = UpFiles /\ SchemaAfter(n)' = SchemaAfter(n) /\ UNCHANGED <<registry, db>>
    BY DEF CommandCutOff, fileVars, UpFiles, SchemaAfter
  <1>3. /\ command[o].pc = "record" => torn' = [by |-> "run", number |-> command[o].number]
        /\ command[o].pc = "remove" => torn' = [by |-> "revert", number |-> command[o].number]
        /\ Steady(command[o]) => torn' = torn
    BY DEF CommandCutOff, Steady
  <1>4. StandsWith(n, Idle)'
    BY <1>0, <1>1, <1>2, <1>3 DEF StandsWith, Steady, Idle
  <1>5. Follows(Idle)'
    BY DEF Follows, Idle
  <1> QED
    BY <1>0, <1>4, <1>5, AfterOneCommand DEF CommandCutOff

LEMMA CommandKeepsSchema ==
    ASSUME OrderInv, Consistent, NEW o \in Operator, Run(o) \/ Revert(o) \/ CommandCutOff(o)
    PROVE  Consistent'
  <1> SUFFICES ASSUME disciplined', Chained' PROVE OneCommand' /\ \E n \in 0..MaxFile : StandsAfter(n)'
    BY DEF Consistent
  <1>1. Chained
    BY DEF Run, Revert, RunReadsRegistry, RunListsFiles, RunExecutes, RunRecords, RevertExecutes,
           RevertRemoves, CommandCutOff, fileVars, Chained, UpFiles
  <1>2. disciplined
    BY Discipline
  <1>3. OneCommand /\ \E n \in 0..MaxFile : StandsAfter(n)
    BY <1>1, <1>2 DEF Consistent
  <1>4. OthersIdle(o) => Alone(o)
    BY <1>1, <1>3 DEF Alone
  <1>5. Busy(o) => Alone(o)
    BY <1>3, <1>4, OthersAreIdle
  <1>6. CASE RunReadsRegistry(o)
    BY <1>4, <1>6, Discipline, RunReadsRegistryKeeps
  <1>7. ASSUME NEW r \in Number, RevertExecutes(o, r)
        PROVE  OneCommand' /\ \E n \in 0..MaxFile : StandsAfter(n)'
    <2>1. OthersIdle(o) /\ IsOrderly(r)
      BY <1>7, Discipline
    <2> QED
      BY <1>4, <1>7, <2>1, RevertExecutesKeeps
  <1>8. CASE RunListsFiles(o) \/ RunExecutes(o) \/ RunRecords(o) \/ RevertRemoves(o) \/ CommandCutOff(o)
    <2>1. Busy(o)
      BY <1>8 DEF Busy, RunListsFiles, RunExecutes, RunRecords, RevertRemoves, CommandCutOff
    <2> QED
      BY <1>5, <1>8, <2>1, RunListsFilesKeeps, RunExecutesKeeps, RunRecordsKeeps, RevertRemovesKeeps,
         CommandCutOffKeeps
  <1> QED
    BY <1>6, <1>7, <1>8 DEF Run, Revert

LEMMA NextIInv == IInv /\ [Next]_vars => IInv'
  <1> SUFFICES ASSUME OrderInv, Consistent, [Next]_vars PROVE Consistent'
    BY NextOrder DEF IInv
  <1>1. CASE UNCHANGED vars
    BY <1>1 DEF vars, fileVars, runVars, Consistent, Chained, UpFiles, OneCommand, Busy, StandsAfter,
                SchemaAfter, At, Left, Between
  <1> QED
    BY <1>1, StepCases, DeveloperKeepsSchema, CommandKeepsSchema

LEMMA Invariance == Spec => []IInv
  <1>1. Init => IInv
    BY InitOrder, InitConsistent DEF IInv
  <1> QED
    BY <1>1, NextIInv, PTL DEF Spec

-----------------------------------------------------------------------------
\* The files, the registry and the schema keep their shape: whatever statements are
\* executed on whatever schema, parts stay with their tables.
THEOREM TypeCorrect == Spec => []TypeOK
  <1>1. IInv => TypeOK
    BY DEF IInv, OrderInv
  <1> QED
    BY <1>1, Invariance, PTL

\* ADR-010, for any number of operators and migrations: however runs overlap, are cut
\* off and repeated, and however Revert is used in between, no migration is executed
\* before those with smaller numbers were, and none is registered without being so.
THEOREM MigrationsAreExecutedInOrder == Spec => []ExecutedInOrder
  <1>1. IInv => ExecutedInOrder
    BY DEF IInv, OrderInv
  <1> QED
    BY <1>1, Invariance, PTL

\* Level is where the schema stands.
NumbersAt(pc) == {command[o].number : o \in {p \in Operator : command[p].pc = pc}}

LEMMA LevelOf ==
    ASSUME NEW recorded, NEW removed, recorded = NumbersAt("record"), removed = NumbersAt("remove")
    PROVE  /\ recorded # {} /\ removed = {} /\ torn = NotTorn => Level = Max(recorded)
           /\ recorded = {} /\ removed # {} /\ torn = NotTorn => Level = Max(removed) - 1
           /\ recorded = {} /\ removed = {} =>
                 /\ torn.by = "run" => Level = torn.number
                 /\ torn.by = "revert" => Level = torn.number - 1
                 /\ torn.by \notin {"run", "revert"} => Level = IF registry = {} THEN 0 ELSE Max(registry)
  <1>1. Level = CASE recorded # {} -> Max(recorded)
                  [] removed # {} -> Max(removed) - 1
                  [] torn.by = "run" -> torn.number
                  [] torn.by = "revert" -> torn.number - 1
                  [] OTHER -> IF registry = {} THEN 0 ELSE Max(registry)
    BY DEF Level, NumbersAt
  <1>2. CASE recorded # {} /\ removed = {} /\ torn = NotTorn
    BY <1>1, <1>2 DEF NotTorn
  <1>3. CASE recorded = {} /\ removed # {} /\ torn = NotTorn
    BY <1>1, <1>3 DEF NotTorn
  <1>4. CASE recorded = {} /\ removed = {}
    BY <1>1, <1>4
  <1> QED
    BY <1>2, <1>3, <1>4

LEMMA LevelIs ==
    ASSUME OrderInv, OneCommand, NEW n \in 0..MaxFile, StandsAfter(n)
    PROVE  Level = n
  <1>1. PICK recorded, removed : recorded = NumbersAt("record") /\ removed = NumbersAt("remove")
    OBVIOUS
  <1>2. /\ recorded # {} /\ removed = {} /\ torn = NotTorn => Level = Max(recorded)
        /\ recorded = {} /\ removed # {} /\ torn = NotTorn => Level = Max(removed) - 1
        /\ recorded = {} /\ removed = {} =>
              /\ torn.by = "run" => Level = torn.number
              /\ torn.by = "revert" => Level = torn.number - 1
              /\ torn.by \notin {"run", "revert"} => Level = IF registry = {} THEN 0 ELSE Max(registry)
    BY <1>1, LevelOf
  <1>3. (\A o \in Operator : ~ Between(o)) => recorded = {} /\ removed = {}
    BY <1>1 DEF Between, NumbersAt
  <1>4. /\ \A m : At(m, "record") => recorded = {m} /\ removed = {}
        /\ \A m : At(m, "remove") => removed = {m} /\ recorded = {}
    BY <1>1 DEF At, OneCommand, Busy, NumbersAt
  <1>5. n \in Nat /\ n + 1 \in Nat /\ Max({n}) = n /\ Max({n + 1}) = n + 1
    BY MaxOfOne
  <1>6. CASE registry = 1..n /\ torn = NotTorn /\ \A o \in Operator : ~ Between(o)
    <2>1. Level = IF registry = {} THEN 0 ELSE Max(registry)
      BY <1>2, <1>3, <1>6 DEF NotTorn
    <2> QED
      BY <1>5, <1>6, <2>1, MaxOfPrefix
  <1>7. CASE At(n, "record") /\ torn = NotTorn
    <2>1. recorded = {n} /\ removed = {}
      BY <1>4, <1>7
    <2> QED
      BY <1>2, <1>5, <1>7, <2>1
  <1>8. CASE At(n + 1, "remove") /\ torn = NotTorn
    <2>1. removed = {n + 1} /\ recorded = {}
      BY <1>4, <1>8
    <2> QED
      BY <1>2, <1>5, <1>8, <2>1
  <1>9. CASE Left(n, "run")
    BY <1>2, <1>3, <1>9 DEF Left
  <1>10. CASE Left(n + 1, "revert")
    BY <1>2, <1>3, <1>5, <1>10 DEF Left
  <1> QED
    BY <1>6, <1>7, <1>8, <1>9, <1>10 DEF StandsAfter

\* No crash makes the registry and the schema drift apart, for any operators, tables,
\* parts and migrations, as long as operators issue one command at a time, repeat one
\* that was cut off, and revert the last migration only.
THEOREM RegistryAndSchemaAgree == Spec => []SchemaFollowsRegistry
  <1>1. ASSUME IInv, disciplined, Chained
        PROVE  /\ \A m \in registry : 1..m \subseteq registry
               /\ db = IF Level = 0 THEN {} ELSE up[Level].to
    <2>1. PICK n \in 0..MaxFile : StandsAfter(n)
      BY <1>1 DEF IInv, Consistent
    <2>2. Level = n
      BY <1>1, <2>1, LevelIs DEF IInv, Consistent
    <2>3. \E m \in Nat : registry = 1..m
      BY <2>1 DEF StandsAfter
    <2> QED
      BY <2>1, <2>2, <2>3 DEF StandsAfter, SchemaAfter
  <1>2. IInv => SchemaFollowsRegistry
    BY <1>1 DEF SchemaFollowsRegistry
  <1> QED
    BY <1>2, Invariance, PTL
=============================================================================
