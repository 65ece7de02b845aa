--------------------------- MODULE OptimisticLock ---------------------------
(***************************************************************************)
(* The single-model writes of orm/orm.go on tables with a version column:  *)
(* Create, Update, Delete and SoftDelete, and the FindOne that loads a     *)
(* model, by clients that each keep one model struct per row.              *)
(*                                                                         *)
(* Update checks and increments the version in the statement itself, so    *)
(* the server's row lock makes the check atomic: at READ COMMITTED a       *)
(* statement waits for the transaction that wrote the row, then evaluates  *)
(* its WHERE clause on what that transaction left.  The clients' memory is *)
(* the other half: RETURNING copies the new version into the model as the  *)
(* statement executes, and nothing takes it back when the transaction, or  *)
(* the batch of UpdateMany, is rolled back afterwards.                     *)
(*                                                                         *)
(* A row's other fields are one content value, fresh at every write.       *)
(***************************************************************************)
EXTENDS Naturals

CONSTANTS Client,
          Row,
          None,       \* no client
          Existing,   \* the rows that are there, at version 1, from the start
          Removal,    \* per row: how its table deletes, see RemovalKind
          MaxWrite    \* bound: writes of content in a behaviour

\* "row": DELETE.  "tag": a column tagged soft_delete.  "audit": the DeletedAt
\* of the Audit trait (or of Entity, which embeds it).
RemovalKind == {"row", "tag", "audit"}

ASSUME NoClientAssumption == None \notin Client
ASSUME ExistingAssumption == Existing \subseteq Row
ASSUME RemovalAssumption == Removal \in [Row -> RemovalKind]
ASSUME MaxWriteAssumption == MaxWrite \in Nat \ {0}

VARIABLES
    committed,   \* per row: what other transactions see
    pending,     \* per row: what the transaction that wrote it sees
    writer,      \* per row: the client whose transaction holds the row lock
    inTx,        \* the clients with an open transaction
    held,        \* per client and row: the model struct
    touched,     \* per client: the models its open transaction has changed
    unsafe,      \* per client: changed by a write that was undone, not reloaded
    writes       \* the content values drawn so far

rowVars == <<committed, pending, writer>>
vars == <<rowVars, inTx, held, touched, unsafe, writes>>

Content == [by : Client \cup {None}, nr : 0..MaxWrite]
NoContent == [by |-> None, nr |-> 0]
Fresh(c) == [by |-> c, nr |-> writes + 1]

RowState == [status : {"absent", "live", "deleted", "removed"},
             version : 0..MaxWrite + 1, content : Content]
Model == [version : 0..MaxWrite + 1, content : Content, deleted : BOOLEAN]

TypeOK ==
    /\ committed \in [Row -> RowState]
    /\ pending \in [Row -> RowState]
    /\ writer \in [Row -> Client \cup {None}]
    /\ inTx \in SUBSET Client
    /\ held \in [Client -> [Row -> Model]]
    /\ touched \in [Client -> SUBSET Row]
    /\ unsafe \in [Client -> SUBSET Row]
    /\ writes \in 0..MaxWrite

Absent == [status |-> "absent", version |-> 0, content |-> NoContent]
Original == [status |-> "live", version |-> 1, content |-> [by |-> None, nr |-> 1]]
ZeroModel == [version |-> 0, content |-> NoContent, deleted |-> FALSE]

Init ==
    /\ committed = [r \in Row |-> IF r \in Existing THEN Original ELSE Absent]
    /\ pending = [r \in Row |-> Absent]
    /\ writer = [r \in Row |-> None]
    /\ inTx = {}
    /\ held = [c \in Client |-> [r \in Row |-> ZeroModel]]
    /\ touched = [c \in Client |-> {}]
    /\ unsafe = [c \in Client |-> {}]
    /\ writes = 0

Visible(c, r) == IF writer[r] = c THEN pending[r] ELSE committed[r]

\* A statement on r has not to wait for another transaction's row lock.
Unlocked(c, r) == writer[r] \in {None, c}

Exists(row) == row.status \in {"live", "deleted"}

ModelOf(row) ==
    [version |-> row.version, content |-> row.content, deleted |-> row.status = "deleted"]

-----------------------------------------------------------------------------
\* Transactions

Begin(c) ==
    /\ c \notin inTx
    /\ inTx' = inTx \cup {c}
    /\ UNCHANGED <<rowVars, held, touched, unsafe, writes>>

EndTx(c) ==
    /\ inTx' = inTx \ {c}
    /\ writer' = [r \in Row |-> IF writer[r] = c THEN None ELSE writer[r]]
    /\ pending' = [r \in Row |-> IF writer[r] = c THEN Absent ELSE pending[r]]
    /\ touched' = [touched EXCEPT ![c] = {}]

Commit(c) ==
    /\ c \in inTx
    /\ committed' = [r \in Row |-> Visible(c, r)]
    /\ EndTx(c)
    /\ UNCHANGED <<held, unsafe, writes>>

\* Rollback, whoever asked for it: fn's error, a conflict on a later model of
\* the batch, a failed COMMIT, the deadlock detector.  The models stay.
Rollback(c) ==
    /\ c \in inTx
    /\ EndTx(c)
    /\ unsafe' = [unsafe EXCEPT ![c] = @ \cup touched[c]]
    /\ UNCHANGED <<committed, held, writes>>

-----------------------------------------------------------------------------
\* Statements

\* The statement of client c leaves row in r, in its transaction if it has one.
Store(c, r, row) ==
    IF c \in inTx
    THEN /\ pending' = [pending EXCEPT ![r] = row]
         /\ writer' = [writer EXCEPT ![r] = c]
         /\ touched' = [touched EXCEPT ![c] = @ \cup {r}]
         /\ UNCHANGED committed
    ELSE /\ committed' = [committed EXCEPT ![r] = row]
         /\ UNCHANGED <<pending, writer, touched>>

\* FindOne, which leaves soft-deleted rows out.
Load(c, r) ==
    /\ Visible(c, r).status = "live"
    /\ held' = [held EXCEPT ![c][r] = ModelOf(Visible(c, r))]
    /\ unsafe' = [unsafe EXCEPT ![c] = @ \ {r}]
    /\ UNCHANGED <<rowVars, inTx, touched, writes>>

\* INSERT leaves the version to its default, 1, which RETURNING reads back.
\* The key of a deleted row is not used again.
Create(c, r) ==
    LET row == [status |-> "live", version |-> 1, content |-> Fresh(c)] IN
    /\ writes < MaxWrite
    /\ Unlocked(c, r)
    /\ Visible(c, r).status = "absent"
    /\ Store(c, r, row)
    /\ held' = [held EXCEPT ![c][r] = ModelOf(row)]
    /\ unsafe' = [unsafe EXCEPT ![c] = @ \ {r}]
    /\ writes' = writes + 1
    /\ UNCHANGED inTx

\* What SET deleted_at writes: applyStructFieldValues puts the model's own
\* value, and the present time for a zero value of an Audit column.
UpdatedStatus(c, r) ==
    IF Removal[r] = "audit" \/ (Removal[r] = "tag" /\ held[c][r].deleted)
    THEN "deleted" ELSE "live"

\* Mutant: the version predicate is left out of the WHERE clause.
MatchesAnyVersion(c, r) == Exists(Visible(c, r))

\* WHERE primary key AND version = the model's
MatchesModel(c, r) == Exists(Visible(c, r)) /\ Visible(c, r).version = held[c][r].version

\* Mutant: the version is left out of the SET clause.
UpdatedKeepsVersion(c, r) ==
    [status |-> UpdatedStatus(c, r), version |-> Visible(c, r).version, content |-> Fresh(c)]

\* Mutant: the ORM sends the incremented version, and the statement adds one.
UpdatedTwice(c, r) ==
    [status |-> UpdatedStatus(c, r), version |-> Visible(c, r).version + 2, content |-> Fresh(c)]

\* SET every field of the model, version = version + 1
Updated(c, r) ==
    [status |-> UpdatedStatus(c, r), version |-> Visible(c, r).version + 1, content |-> Fresh(c)]

CanUpdate(c, r) == writes < MaxWrite /\ Unlocked(c, r) /\ MatchesModel(c, r)

UpdateRow(c, r) ==
    /\ CanUpdate(c, r)
    /\ Store(c, r, Updated(c, r))
    /\ held' = [held EXCEPT ![c][r] = ModelOf(Updated(c, r))]
    /\ writes' = writes + 1
    /\ UNCHANGED <<inTx, unsafe>>

\* Before the statement executes, applyStructFieldValues has put the present
\* time into an Audit model's DeletedAt.
MarkedModel(c, r) == [held EXCEPT ![c][r].deleted = @ \/ Removal[r] = "audit"]

\* Mutant: a conflict brings the model's version up to date for the next try.
ConflictRefreshesVersion(c, r) ==
    /\ ~ MatchesModel(c, r)
    /\ held' = [held EXCEPT ![c][r].version = Visible(c, r).version]
    /\ UNCHANGED <<rowVars, inTx, touched, unsafe, writes>>

\* No row matches, so there is no lock to wait for: ErrOptimisticLockFailed,
\* and the model keeps its version.
UpdateConflict(c, r) ==
    /\ ~ MatchesModel(c, r)
    /\ held' = MarkedModel(c, r)
    /\ UNCHANGED <<rowVars, inTx, touched, unsafe, writes>>

\* The connection breaks during an Update outside a transaction: the caller
\* gets an error, with or without the row changed on the server, with or
\* without the returned row already copied into the model.
UpdateBroken(c, r) ==
    /\ c \notin inTx
    /\ CanUpdate(c, r)
    /\ committed' \in {committed, [committed EXCEPT ![r] = Updated(c, r)]}
    /\ \/ /\ held' = MarkedModel(c, r)
          /\ UNCHANGED unsafe
       \/ /\ held' = [held EXCEPT ![c][r] = ModelOf(Updated(c, r))]
          /\ unsafe' = [unsafe EXCEPT ![c] = @ \cup {r}]
    /\ writes' = writes + 1
    /\ UNCHANGED <<pending, writer, inTx, touched>>

\* Delete or SoftDelete: by primary key alone, whatever the version; a missing
\* row is no error.  A soft delete has set the model's field before it executes.
Delete(c, r) ==
    LET row == Visible(c, r)
        status == IF Removal[r] = "row" THEN "removed" ELSE "deleted" IN
    /\ \/ /\ Exists(row)
          /\ Unlocked(c, r)
          /\ Store(c, r, [status |-> status, version |-> row.version, content |-> row.content])
       \/ /\ ~ Exists(row)
          /\ UNCHANGED <<rowVars, touched>>
    /\ held' = [held EXCEPT ![c][r].deleted = @ \/ Removal[r] # "row"]
    /\ UNCHANGED <<inTx, unsafe, writes>>

\* The caller updates only models that no undone write has changed.
DisciplinedUpdate(c, r) ==
    /\ r \notin unsafe[c]
    /\ UpdateRow(c, r) \/ UpdateConflict(c, r) \/ UpdateBroken(c, r)

Other ==
    \/ \E c \in Client : Begin(c)
    \/ \E c \in Client : Commit(c)
    \/ \E c \in Client : Rollback(c)
    \/ \E c \in Client, r \in Row : Load(c, r)
    \/ \E c \in Client, r \in Row : Create(c, r)
    \/ \E c \in Client, r \in Row : Delete(c, r)

Next == Other \/ \E c \in Client, r \in Row : DisciplinedUpdate(c, r)

Spec == Init /\ [][Next]_vars

\* The same for callers that use a model again after a rollback.
RetriedUpdate(c, r) == UpdateRow(c, r) \/ UpdateConflict(c, r)

RetrySpec == Init /\ [][Other \/ \E c \in Client, r \in Row : RetriedUpdate(c, r)]_vars

-----------------------------------------------------------------------------
\* Properties

\* The step writes new content of client c into row r.
Writes(c, r) == committed'[r].content = Fresh(c) \/ pending'[r].content = Fresh(c)

\* docs/adr/ADR-034: optimistic locking prevents lost updates.  The content
\* that an Update replaces is the content its model was read from.
NoLostUpdate ==
    [][\A c \in Client, r \in Row :
          Writes(c, r) /\ Visible(c, r).status # "absent"
             => held[c][r].content = Visible(c, r).content]_vars

\* The version stands for the content: a model and the row its client sees
\* agree on the one exactly when they agree on the other.  So a matching
\* version never hides a change, and a conflict is never a false alarm.
VersionIdentifiesContent ==
    \A c \in Client, r \in Row :
        r \notin unsafe[c] =>
            (held[c][r].version = Visible(c, r).version
                <=> held[c][r].content = Visible(c, r).content)

\* What other transactions see of a row never returns to an earlier version,
\* and never changes content under the same one.
CommittedVersionGrows ==
    [][\A r \in Row :
          /\ committed'[r].version >= committed[r].version
          /\ committed'[r].content # committed[r].content
                => committed'[r].version > committed[r].version]_vars

\* Only Delete and SoftDelete delete: a row that an Update finds live, from a
\* model that is not marked as deleted, is live afterwards.
UpdateKeepsRowsLive ==
    [][\A c \in Client, r \in Row :
          Writes(c, r) /\ ~ held[c][r].deleted => Visible(c, r)'.status = "live"]_vars
=============================================================================
