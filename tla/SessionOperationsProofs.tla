----------------------- MODULE SessionOperationsProofs -----------------------
(***************************************************************************)
(* What keeps rows in their scope and with their creator, structs with one *)
(* row each, and batches complete, for any tables, requests, structs, keys *)
(* and batches.  The invariant speaks of rows as they are committed and of *)
(* rows as the open batch sees them in the same words: what another        *)
(* session's statement does between two items of a batch is done to both.  *)
(***************************************************************************)
EXTENDS SessionOperations, FiniteSetTheorems, TLAPS

Taken(row) == row.status # "absent"

\* What an update with the struct writes into the row's scopes and creator is
\* there already.
Agrees(s, row) ==
    /\ \A k \in table.scopes : s.scope[k] \in {Nil, row.home[k]}
    /\ s.createdBy \in {Nil, row.creator}

\* Rows are as they were inserted, and structs that may be used for an update
\* agree with them.
Faithful(R, S) ==
    \A i \in Id : Exists(R[i]) =>
        /\ R[i].scope = R[i].home
        /\ R[i].createdBy = R[i].creator
        /\ \A m \in Model : S[m].id = i /\ ~ S[m].failed => Agrees(S[m], R[i])

\* A struct that a row was inserted from holds the key of a row, and no second
\* row was inserted from it.
OneRowEach(R, S) ==
    \A i \in Id, m \in Model : Exists(R[i]) /\ R[i].origin = m =>
        /\ S[m].id # Nil
        /\ Taken(R[S[m].id])
        /\ \A j \in Id : Exists(R[j]) /\ R[j].origin = m => j = i

\* For rows as a session sees them, the structs, and the keys drawn.
RowsInv(R, S, K) ==
    /\ R \in [Id -> RowState]
    /\ \A i \in Id : R[i].status = "removed" => R[i] = Removed
    /\ \A i \in Id : Taken(R[i]) => i \in K
    /\ "created_by" \notin table.audit => \A i \in Id : R[i].createdBy = Nil
    /\ OneRowEach(R, S)
    /\ Disciplined => Faithful(R, S)

StructsInv(S, K) ==
    /\ S \in [Model -> Struct]
    /\ \A m \in Model : S[m].id \in K \cup {Nil}
    /\ "created_by" \notin table.audit => \A m \in Model : S[m].createdBy = Nil

\* A key without a row is in one struct at most: the one it was drawn for.
OneStructEach(R, S) ==
    \A m \in Model, n \in Model :
        S[m].id = S[n].id /\ S[m].id # Nil /\ ~ Taken(R[S[m].id]) => m = n

\* V sees the rows of R, some of them written or removed.
Follows(V, R) ==
    \A i \in Id : Taken(R[i]) =>
        /\ Taken(V[i])
        /\ Exists(R[i]) /\ Exists(V[i]) => V[i].home = R[i].home /\ V[i].creator = R[i].creator

\* Rows as they are committed and as the open batch sees them, structs, and keys.
Core(R, V, S, K) ==
    /\ StructsInv(S, K)
    /\ RowsInv(R, S, K)
    /\ RowsInv(V, S, K)
    /\ OneStructEach(R, S)
    /\ Follows(V, R)

\* The loops of a batch, and the structs and rows that were written.
BatchInv ==
    /\ batch.op = "none" => batch.written = {}
    /\ \A i \in batch.written : Taken(batch.rows[i])
    /\ batch.start <= batch.index
    /\ MoreChunks(batch) => batch.index < ChunkEnd(batch)
    /\ Len(batch.done) = IF batch.index < Len(batch.items) THEN batch.index ELSE Len(batch.items)
    /\ \A j \in 1..Len(batch.done) : batch.done[j] = batch.items[j]

IInv == TypeOK /\ Core(rows, BatchRows, model, used) /\ BatchInv

-----------------------------------------------------------------------------
\* Types

LEMMA UserIsScope == "user" \in Scope /\ User = ValueOf["user"]
  BY ScopeAssumption DEF User

LEMMA RequestTypes == Requests \subseteq Context
  BY RequestsAssumption DEF Context, Scoping, MaybeValue

LEMMA ContextTypes ==
    ASSUME NEW ac \in Context
    PROVE  /\ ac.values \in Scoping
           /\ ac.policy \in Level
           /\ ac.values["user"] \in User \cup {Nil}
           /\ \A k \in Scope : ac.values[k] \in ValueOf[k] \cup {Nil}
  BY UserIsScope DEF Context, Scoping

LEMMA ScopingTypes ==
    ASSUME NEW f, f = [k \in Scope |-> f[k]], \A k \in Scope : f[k] \in ValueOf[k] \cup {Nil}
    PROVE  f \in Scoping
  BY ValueAssumption DEF Scoping, MaybeValue

LEMMA RowTypes == Absent \in RowState /\ Removed \in RowState
  <1>1. Unscoped \in Scoping
    BY ScopingTypes DEF Unscoped
  <1> QED
    BY <1>1 DEF Absent, Removed, NoRow, RowState

LEMMA ZeroTypes == ZeroStruct \in Struct /\ ZeroStruct.id = Nil /\ ZeroStruct.createdBy = Nil
  <1>1. Unscoped \in Scoping
    BY ScopingTypes DEF Unscoped
  <1> QED
    BY <1>1 DEF ZeroStruct, Struct

\* What an insert sends.
LEMMA InsertStructTypes ==
    ASSUME table \in Tables, NEW ac \in Context, NEW s \in Struct
    PROVE  LET t == InsertStruct(ac, s) IN
           /\ t \in Struct
           /\ t.id = s.id /\ t.failed = s.failed
           /\ \A k \in ActiveScopes(ac, table) : t.scope[k] = ac.values[k]
           /\ "created_by" \in table.audit /\ EnforcesAudit(ac) => t.createdBy = ac.values["user"]
           /\ "created_by" \notin table.audit => t.createdBy = s.createdBy
  <1> DEFINE t == InsertStruct(ac, s)
  <1>1. table.scopes \subseteq Scope
    BY TablesAssumption DEF Table
  <1>2. s.scope \in Scoping /\ s.createdBy \in User \cup {Nil}
    BY DEF Struct
  <1> DEFINE scopes == ScopeWrites(ac, table, "insert")
             users == AuditWrites(ac, table, "insert")
             scope == [k \in Scope |-> IF k \in DOMAIN scopes THEN scopes[k] ELSE s.scope[k]]
             user == IF "created_by" \in DOMAIN users THEN users["created_by"] ELSE s.createdBy
  <1>3. t = [s EXCEPT !.scope = scope, !.createdBy = user]
    BY DEF InsertStruct
  <1>4. /\ DOMAIN scopes = ActiveScopes(ac, table)
        /\ \A k \in DOMAIN scopes : scopes[k] = ac.values[k]
    BY DEF ScopeWrites
  <1>5. ActiveScopes(ac, table) \subseteq Scope
    BY <1>1 DEF ActiveScopes
  <1>6. /\ DOMAIN users \subseteq table.audit
        /\ "created_by" \in table.audit /\ EnforcesAudit(ac) => "created_by" \in DOMAIN users
        /\ \A f \in DOMAIN users : users[f] = ac.values["user"]
    BY DEF AuditWrites, AuditedBy, AuditColumn
  <1>7. scope \in Scoping
    <2>1. \A k \in Scope : scope[k] \in ValueOf[k] \cup {Nil}
      BY <1>2, <1>4, ContextTypes DEF Scoping
    <2> QED
      BY <2>1, ScopingTypes
  <1>8. user \in User \cup {Nil}
    BY <1>2, <1>6, ContextTypes
  <1>9. /\ t = [id |-> s.id, scope |-> scope, createdBy |-> user, deleted |-> s.deleted, failed |-> s.failed]
        /\ t \in Struct
    <2> HIDE DEF scope, user
    <2> QED
      BY <1>3, <1>7, <1>8 DEF Struct
  <1>10. t.scope = scope /\ t.createdBy = user /\ t.id = s.id /\ t.failed = s.failed
    <2> HIDE DEF scope, user, t
    <2> QED
      BY <1>9
  <1>11. \A k \in ActiveScopes(ac, table) : scope[k] = ac.values[k]
    BY <1>4, <1>5
  <1> QED
    BY <1>6, <1>9, <1>10, <1>11

\* The row that it makes.
LEMMA InsertedRowTypes ==
    ASSUME table \in Tables, NEW ac \in Context, NEW s \in Struct, NEW o \in Model \cup {Nil}
    PROVE  LET r == InsertedRow(ac, s, o) IN
           /\ r \in RowState
           /\ r.status = "present" /\ r.scope = r.home /\ r.origin = o /\ r.createdBy = s.createdBy
           /\ \A k \in table.scopes : r.home[k] = s.scope[k]
           /\ r.creator = IF "created_by" \in table.audit THEN ac.values["user"] ELSE Nil
  <1> DEFINE scope == [k \in Scope |-> IF k \in table.scopes THEN s.scope[k] ELSE Nil]
  <1>1. table.scopes \subseteq Scope
    BY TablesAssumption DEF Table
  <1>2. scope \in Scoping
    <2>1. \A k \in Scope : scope[k] \in ValueOf[k] \cup {Nil}
      BY DEF Struct, Scoping
    <2> QED
      BY <2>1, ScopingTypes
  <1>3. \A k \in table.scopes : scope[k] = s.scope[k]
    BY <1>1
  <1>4. InsertedRow(ac, s, o) =
          [status |-> "present", scope |-> scope, createdBy |-> s.createdBy,
           deleted |-> s.deleted, home |-> scope, origin |-> o,
           creator |-> IF "created_by" \in table.audit THEN ac.values["user"] ELSE Nil]
    BY DEF InsertedRow
  <1> HIDE DEF scope
  <1> QED
    BY <1>2, <1>3, <1>4, ContextTypes DEF RowState, Struct

\* A row after an UPDATE.
LEMMA UpdatedRowTypes ==
    ASSUME table \in Tables, NEW r \in RowState, NEW s \in Struct
    PROVE  LET u == UpdatedRow(r, s) IN
           /\ u \in RowState
           /\ u.status = r.status /\ u.home = r.home /\ u.creator = r.creator /\ u.origin = r.origin
           /\ u.createdBy = IF s.createdBy = Nil THEN r.createdBy ELSE s.createdBy
           /\ \A k \in Scope : u.scope[k] =
                 IF k \in table.scopes /\ s.scope[k] # Nil THEN s.scope[k] ELSE r.scope[k]
  <1> DEFINE scope == [k \in Scope |-> IF k \in table.scopes
                                       THEN IF s.scope[k] = Nil THEN r.scope[k] ELSE s.scope[k]
                                       ELSE r.scope[k]]
             user == IF s.createdBy = Nil THEN r.createdBy ELSE s.createdBy
  <1>1. scope \in Scoping
    <2>1. \A k \in Scope : scope[k] \in ValueOf[k] \cup {Nil}
      BY DEF Struct, RowState, Scoping
    <2> QED
      BY <2>1, ScopingTypes
  <1>2. \A k \in Scope : scope[k] =
           IF k \in table.scopes /\ s.scope[k] # Nil THEN s.scope[k] ELSE r.scope[k]
    OBVIOUS
  <1>3. UpdatedRow(r, s) = [r EXCEPT !.scope = scope, !.createdBy = user, !.deleted = s.deleted]
    BY DEF UpdatedRow
  <1>4. user \in User \cup {Nil}
    BY DEF Struct, RowState
  <1>5. /\ UpdatedRow(r, s) \in RowState
        /\ UpdatedRow(r, s).scope = scope
        /\ UpdatedRow(r, s).createdBy = user
        /\ UpdatedRow(r, s).status = r.status
        /\ UpdatedRow(r, s).home = r.home
        /\ UpdatedRow(r, s).creator = r.creator
        /\ UpdatedRow(r, s).origin = r.origin
    <2> HIDE DEF scope, user
    <2>1. s.deleted \in BOOLEAN
      BY DEF Struct
    <2> DEFINE u == [r EXCEPT !.scope = scope, !.createdBy = user, !.deleted = s.deleted]
    <2>2. u \in RowState
      BY <1>1, <1>4, <2>1 DEF RowState
    <2>3. /\ u.scope = scope /\ u.createdBy = user /\ u.status = r.status /\ u.home = r.home
          /\ u.creator = r.creator /\ u.origin = r.origin
      BY DEF RowState
    <2> QED
      BY <1>3, <2>2, <2>3
  <1> QED
    BY <1>2, <1>5

-----------------------------------------------------------------------------
\* What happens to rows as one session sees them

\* Some rows are updated or removed; none is inserted.
Edited(R, V) ==
    /\ V \in [Id -> RowState]
    /\ \A i \in Id :
          \/ V[i] = R[i]
          \/ Exists(R[i]) /\ V[i] = Removed
          \/ /\ Exists(R[i]) /\ Exists(V[i])
             /\ V[i].home = R[i].home /\ V[i].creator = R[i].creator /\ V[i].origin = R[i].origin
             /\ Disciplined => V[i].scope = R[i].scope /\ V[i].createdBy = R[i].createdBy
             /\ "created_by" \notin table.audit => V[i].createdBy = Nil

LEMMA RemovedFields == Taken(Removed) /\ ~ Exists(Removed) /\ Removed.createdBy = Nil
  BY DEF Taken, Exists, Removed, NoRow

LEMMA ExistsTaken == \A row : Exists(row) => Taken(row)
  BY DEF Exists, Taken

LEMMA EditedRows ==
    ASSUME NEW R, NEW V, NEW S, NEW K, RowsInv(R, S, K), StructsInv(S, K), Edited(R, V)
    PROVE  RowsInv(V, S, K) /\ \A i \in Id : Taken(V[i]) <=> Taken(R[i])
  <1>1. \A i \in Id : Taken(V[i]) <=> Taken(R[i])
    BY RemovedFields, ExistsTaken DEF Edited
  <1>2. \A i \in Id : V[i].status = "removed" => V[i] = Removed
    BY DEF Edited, RowsInv, Exists
  <1>3. "created_by" \notin table.audit => \A i \in Id : V[i].createdBy = Nil
    BY RemovedFields DEF Edited, RowsInv
  <1>4. \A i \in Id : Exists(V[i]) => Exists(R[i]) /\ V[i].origin = R[i].origin
    BY RemovedFields DEF Edited
  <1>5. OneRowEach(V, S)
    <2> SUFFICES ASSUME NEW i \in Id, NEW m \in Model, Exists(V[i]), V[i].origin = m
                 PROVE  /\ S[m].id # Nil
                        /\ Taken(V[S[m].id])
                        /\ \A j \in Id : Exists(V[j]) /\ V[j].origin = m => j = i
      BY DEF OneRowEach
    <2>1. /\ S[m].id # Nil
          /\ Taken(R[S[m].id])
          /\ \A j \in Id : Exists(R[j]) /\ R[j].origin = m => j = i
      BY <1>4 DEF RowsInv, OneRowEach
    <2>2. S[m].id \in Id
      BY <2>1 DEF StructsInv, Struct
    <2> QED
      BY <1>1, <1>4, <2>1, <2>2
  <1>6. ASSUME Disciplined PROVE Faithful(V, S)
    <2> SUFFICES ASSUME NEW i \in Id, Exists(V[i])
                 PROVE  /\ V[i].scope = V[i].home
                        /\ V[i].createdBy = V[i].creator
                        /\ \A m \in Model : S[m].id = i /\ ~ S[m].failed => Agrees(S[m], V[i])
      BY DEF Faithful
    <2>1. /\ Exists(R[i])
          /\ V[i].scope = R[i].scope /\ V[i].createdBy = R[i].createdBy
          /\ V[i].home = R[i].home /\ V[i].creator = R[i].creator
      BY <1>6, RemovedFields DEF Edited
    <2> QED
      BY <1>6, <2>1 DEF RowsInv, Faithful, Agrees
  <1> QED
    BY <1>1, <1>2, <1>3, <1>5, <1>6 DEF RowsInv, Edited

LEMMA MoreKeys ==
    ASSUME NEW R, NEW S, NEW K, NEW L, K \subseteq L
    PROVE  /\ RowsInv(R, S, K) => RowsInv(R, S, L)
           /\ StructsInv(S, K) => StructsInv(S, L)
  BY DEF RowsInv, StructsInv

\* Structs keep their keys, and those that may be used for an update all they have.
Resent(S, T) ==
    /\ T \in [Model -> Struct]
    /\ \A n \in Model :
          /\ T[n].id = S[n].id
          /\ \/ T[n].failed
             \/ ~ S[n].failed /\ T[n].scope = S[n].scope /\ T[n].createdBy = S[n].createdBy
          /\ "created_by" \notin table.audit => T[n].createdBy = Nil

LEMMA ResentStructs ==
    ASSUME NEW R, NEW S, NEW T, NEW K, StructsInv(S, K), Resent(S, T)
    PROVE  /\ StructsInv(T, K)
           /\ RowsInv(R, S, K) => RowsInv(R, T, K)
           /\ OneStructEach(R, S) => OneStructEach(R, T)
  <1>1. StructsInv(T, K)
    BY DEF StructsInv, Resent
  <1>2. OneRowEach(R, S) => OneRowEach(R, T)
    BY DEF OneRowEach, Resent
  <1>3. Faithful(R, S) => Faithful(R, T)
    BY DEF Faithful, Agrees, Resent
  <1>4. OneStructEach(R, S) => OneStructEach(R, T)
    BY DEF OneStructEach, Resent
  <1> QED
    BY <1>1, <1>2, <1>3, <1>4 DEF RowsInv

\* m stands for another row, or for none; in either case it has not inserted any,
\* or has the key of a row now.
LEMMA StructTaken ==
    ASSUME NEW R, NEW S, NEW K, NEW m \in Model, NEW t \in Struct,
           RowsInv(R, S, K), StructsInv(S, K),
           "created_by" \notin table.audit => t.createdBy = Nil,
           t.id \in Id => Taken(R[t.id]),
           t.id = Nil => \A i \in Id : Exists(R[i]) => R[i].origin # m,
           Disciplined /\ t.id \in Id /\ Exists(R[t.id]) => Agrees(t, R[t.id])
    PROVE  /\ RowsInv(R, [S EXCEPT ![m] = t], K)
           /\ StructsInv([S EXCEPT ![m] = t], K)
           /\ OneStructEach(R, S) => OneStructEach(R, [S EXCEPT ![m] = t])
  <1> DEFINE T == [S EXCEPT ![m] = t]
  <1>1. S \in [Model -> Struct] /\ T \in [Model -> Struct] /\ T[m] = t
        /\ \A n \in Model : n # m => T[n] = S[n]
    BY DEF StructsInv
  <1> HIDE DEF T
  <1>2. t.id \in Id \cup {Nil} /\ Nil \notin Id
    BY NamesAssumption DEF Struct
  <1>3. StructsInv(T, K)
    BY <1>1, <1>2 DEF StructsInv, RowsInv
  <1>4. OneRowEach(R, T)
    <2> SUFFICES ASSUME NEW i \in Id, NEW n \in Model, Exists(R[i]), R[i].origin = n
                 PROVE  /\ T[n].id # Nil
                        /\ Taken(R[T[n].id])
                        /\ \A j \in Id : Exists(R[j]) /\ R[j].origin = n => j = i
      BY DEF OneRowEach
    <2>1. /\ S[n].id # Nil
          /\ Taken(R[S[n].id])
          /\ \A j \in Id : Exists(R[j]) /\ R[j].origin = n => j = i
      BY DEF RowsInv, OneRowEach
    <2> QED
      BY <1>1, <1>2, <2>1
  <1>5. ASSUME Disciplined PROVE Faithful(R, T)
    BY <1>1, <1>5 DEF RowsInv, Faithful
  <1>6. ASSUME OneStructEach(R, S) PROVE OneStructEach(R, T)
    <2> SUFFICES ASSUME NEW n \in Model, NEW o \in Model,
                        T[n].id = T[o].id, T[n].id # Nil, ~ Taken(R[T[n].id])
                 PROVE  n = o
      BY DEF OneStructEach
    <2>1. n # m /\ o # m
      BY <1>1, <1>2
    <2> QED
      BY <1>1, <1>6, <2>1 DEF OneStructEach
  <1> QED
    BY <1>3, <1>4, <1>5, <1>6 DEF RowsInv, T

LEMMA ForgottenOrigin ==
    ASSUME NEW r \in RowState
    PROVE  LET v == [r EXCEPT !.origin = Nil] IN
           /\ v \in RowState /\ v.origin = Nil
           /\ v.status = r.status /\ v.scope = r.scope /\ v.createdBy = r.createdBy
           /\ v.home = r.home /\ v.creator = r.creator
  BY DEF RowState

\* Rows whose origin is forgotten.
LEMMA DisownedRows ==
    ASSUME NEW R, NEW S, NEW K, NEW m \in Model, RowsInv(R, S, K), StructsInv(S, K),
           NEW V, V = Disowned(R, m)
    PROVE  /\ RowsInv(V, S, K)
           /\ \A i \in Id : Exists(V[i]) => V[i].origin # m
           /\ \A i \in Id : /\ V[i].status = R[i].status
                            /\ Exists(R[i]) => /\ V[i].scope = R[i].scope
                                               /\ V[i].createdBy = R[i].createdBy
                                               /\ V[i].home = R[i].home
                                               /\ V[i].creator = R[i].creator
  <1>1. \A i \in Id : V[i] = IF Exists(R[i]) /\ R[i].origin = m
                             THEN [R[i] EXCEPT !.origin = Nil] ELSE R[i]
    BY DEF Disowned
  <1>2. V = [i \in Id |-> V[i]]
    BY DEF Disowned
  <1>3. \A i \in Id : /\ V[i] \in RowState
                      /\ V[i].status = R[i].status /\ V[i].scope = R[i].scope
                      /\ V[i].createdBy = R[i].createdBy
                      /\ V[i].home = R[i].home /\ V[i].creator = R[i].creator
                      /\ ~ Exists(R[i]) => V[i] = R[i]
                      /\ V[i].origin = R[i].origin \/ V[i].origin = Nil
                      /\ Exists(R[i]) => V[i].origin # m
    <2> SUFFICES ASSUME NEW i \in Id
                 PROVE  /\ V[i] \in RowState
                        /\ V[i].status = R[i].status /\ V[i].scope = R[i].scope
                        /\ V[i].createdBy = R[i].createdBy
                        /\ V[i].home = R[i].home /\ V[i].creator = R[i].creator
                        /\ ~ Exists(R[i]) => V[i] = R[i]
                        /\ V[i].origin = R[i].origin \/ V[i].origin = Nil
                        /\ Exists(R[i]) => V[i].origin # m
      OBVIOUS
    <2>1. R[i] \in RowState
      BY DEF RowsInv
    <2>2. CASE Exists(R[i]) /\ R[i].origin = m
      <3>1. V[i] = [R[i] EXCEPT !.origin = Nil]
        BY <1>1, <2>2
      <3> QED
        BY <2>1, <2>2, <3>1, ForgottenOrigin, NamesAssumption
    <2>3. CASE ~ (Exists(R[i]) /\ R[i].origin = m)
      BY <1>1, <2>1, <2>3
    <2> QED
      BY <2>2, <2>3
  <1>4. \A i \in Id : (Exists(V[i]) <=> Exists(R[i])) /\ (Taken(V[i]) <=> Taken(R[i]))
    BY <1>3 DEF Exists, Taken
  <1>5. ASSUME NEW i \in Id, V[i].status = "removed" PROVE V[i] = Removed
    BY <1>3, <1>5 DEF RowsInv, Exists
  <1>6. OneRowEach(V, S)
    <2> SUFFICES ASSUME NEW i \in Id, NEW n \in Model, Exists(V[i]), V[i].origin = n
                 PROVE  /\ S[n].id # Nil
                        /\ Taken(V[S[n].id])
                        /\ \A j \in Id : Exists(V[j]) /\ V[j].origin = n => j = i
      BY DEF OneRowEach
    <2>1. R[i].origin = n
      BY <1>3, NamesAssumption
    <2>2. /\ S[n].id # Nil
          /\ Taken(R[S[n].id])
          /\ \A j \in Id : Exists(R[j]) /\ R[j].origin = n => j = i
      BY <1>4, <2>1 DEF RowsInv, OneRowEach
    <2>3. S[n].id \in Id
      BY <2>2 DEF StructsInv, Struct
    <2>4. \A j \in Id : V[j].origin = n => R[j].origin = n
      BY <1>3, NamesAssumption
    <2> QED
      BY <1>4, <2>2, <2>3, <2>4
  <1>7. ASSUME Disciplined PROVE Faithful(V, S)
    BY <1>3, <1>4, <1>7 DEF RowsInv, Faithful, Agrees
  <1> QED
    BY <1>2, <1>3, <1>4, <1>5, <1>6, <1>7 DEF RowsInv

\* A row that is new to every session.
NewRow(r) ==
    /\ r \in RowState /\ Exists(r)
    /\ r.scope = r.home /\ r.createdBy = r.creator
    /\ "created_by" \notin table.audit => r.createdBy = Nil

With(f, i, x) == [f EXCEPT ![i] = x]

\* A struct gets the key of a row that is inserted from it, and this session sees
\* the row or not.
LEMMA RowInserted ==
    ASSUME NEW R, NEW V, NEW S, NEW K, NEW m \in Model, NEW i \in Id, NEW t \in Struct, NEW r,
           RowsInv(R, S, K), StructsInv(S, K),
           ~ Taken(R[i]), S[m].id \in {i, Nil}, \A n \in Model : S[n].id = i => n = m,
           NewRow(r), r.origin = m,
           t.id = i, Agrees(t, r), "created_by" \notin table.audit => t.createdBy = Nil,
           V = R \/ V = With(R, i, r)
    PROVE  /\ RowsInv(V, With(S, m, t), K \cup {i})
           /\ StructsInv(With(S, m, t), K \cup {i})
           /\ OneStructEach(R, S) => OneStructEach(R, With(S, m, t))
  <1> DEFINE T == With(S, m, t)
  <1>1. /\ S \in [Model -> Struct] /\ T \in [Model -> Struct] /\ T[m] = t
        /\ \A n \in Model : n # m => T[n] = S[n]
    BY DEF StructsInv, With
  <1>2. /\ R \in [Id -> RowState] /\ V \in [Id -> RowState]
        /\ \A j \in Id : j # i => V[j] = R[j]
        /\ V[i] \in {R[i], r}
    BY DEF RowsInv, NewRow, With
  <1> HIDE DEF T
  <1>3. \A j \in Id : Exists(R[j]) => R[j].origin # m
    BY NamesAssumption DEF RowsInv, OneRowEach
  <1>4. ~ Exists(R[i])
    BY ExistsTaken
  <1>5. StructsInv(T, K \cup {i})
    BY <1>1 DEF StructsInv
  <1>6. OneRowEach(V, T)
    <2> SUFFICES ASSUME NEW j \in Id, NEW n \in Model, Exists(V[j]), V[j].origin = n
                 PROVE  /\ T[n].id # Nil
                        /\ Taken(V[T[n].id])
                        /\ \A l \in Id : Exists(V[l]) /\ V[l].origin = n => l = j
      BY DEF OneRowEach
    <2>1. CASE j = i
      <3>1. V[i] = r /\ n = m
        BY <1>2, <1>4, <2>1
      <3> QED
        BY <1>1, <1>2, <1>3, <2>1, <3>1, ExistsTaken, NamesAssumption
    <2>2. CASE j # i
      <3>1. Exists(R[j]) /\ R[j].origin = n /\ n # m
        BY <1>2, <1>3, <2>2
      <3>2. /\ S[n].id # Nil
            /\ Taken(R[S[n].id])
            /\ \A l \in Id : Exists(R[l]) /\ R[l].origin = n => l = j
        BY <3>1 DEF RowsInv, OneRowEach
      <3>3. S[n].id \in Id
        BY <3>2 DEF StructsInv, Struct
      <3>4. \A l \in Id : Exists(V[l]) /\ V[l].origin = n => Exists(R[l]) /\ R[l].origin = n
        BY <1>2, <3>1
      <3> QED
        BY <1>1, <1>2, <3>1, <3>2, <3>3, <3>4
    <2> QED
      BY <2>1, <2>2
  <1>7. ASSUME Disciplined PROVE Faithful(V, T)
    <2> SUFFICES ASSUME NEW j \in Id, Exists(V[j])
                 PROVE  /\ V[j].scope = V[j].home
                        /\ V[j].createdBy = V[j].creator
                        /\ \A n \in Model : T[n].id = j /\ ~ T[n].failed => Agrees(T[n], V[j])
      BY DEF Faithful
    <2>1. CASE j = i
      <3>1. V[i] = r
        BY <1>2, <1>4, <2>1
      <3>2. \A n \in Model : T[n].id = i => n = m
        BY <1>1
      <3> QED
        BY <1>1, <2>1, <3>1, <3>2 DEF NewRow
    <2>2. CASE j # i
      BY <1>1, <1>2, <1>7, <2>2 DEF RowsInv, Faithful
    <2> QED
      BY <2>1, <2>2
  <1>8. ASSUME NEW j \in Id PROVE /\ V[j].status = "removed" => V[j] = Removed
                                  /\ Taken(V[j]) => j \in K \cup {i}
                                  /\ "created_by" \notin table.audit => V[j].createdBy = Nil
    BY <1>2 DEF RowsInv, NewRow, Exists
  <1>9. ASSUME OneStructEach(R, S) PROVE OneStructEach(R, T)
    BY <1>1, <1>9 DEF OneStructEach
  <1> QED
    BY <1>2, <1>5, <1>6, <1>7, <1>8, <1>9 DEF RowsInv, T

\* A row is inserted, and the program that sent it does not hear of it.
LEMMA RowInsertedUnheard ==
    ASSUME NEW R, NEW S, NEW K, NEW i \in Id, NEW r,
           RowsInv(R, S, K), StructsInv(S, K),
           ~ Taken(R[i]), \A n \in Model : S[n].id = i => S[n].failed,
           NewRow(r), r.origin = Nil
    PROVE  RowsInv([R EXCEPT ![i] = r], S, K \cup {i})
  <1> DEFINE V == [R EXCEPT ![i] = r]
  <1>1. /\ R \in [Id -> RowState] /\ V \in [Id -> RowState]
        /\ \A j \in Id : j # i => V[j] = R[j]
        /\ V[i] = r
    BY DEF RowsInv, NewRow
  <1> HIDE DEF V
  <1>2. OneRowEach(V, S)
    <2> SUFFICES ASSUME NEW j \in Id, NEW n \in Model, Exists(V[j]), V[j].origin = n
                 PROVE  /\ S[n].id # Nil
                        /\ Taken(V[S[n].id])
                        /\ \A l \in Id : Exists(V[l]) /\ V[l].origin = n => l = j
      BY DEF OneRowEach
    <2>1. j # i /\ Exists(R[j]) /\ R[j].origin = n
      BY <1>1, NamesAssumption
    <2>2. /\ S[n].id # Nil
          /\ Taken(R[S[n].id])
          /\ \A l \in Id : Exists(R[l]) /\ R[l].origin = n => l = j
      BY <2>1 DEF RowsInv, OneRowEach
    <2>3. S[n].id \in Id
      BY <2>2 DEF StructsInv, Struct
    <2> QED
      BY <1>1, <2>1, <2>2, <2>3, NamesAssumption
  <1>3. ASSUME Disciplined PROVE Faithful(V, S)
    BY <1>1, <1>3 DEF RowsInv, Faithful, NewRow
  <1>4. ASSUME NEW j \in Id PROVE /\ V[j].status = "removed" => V[j] = Removed
                                  /\ Taken(V[j]) => j \in K \cup {i}
                                  /\ "created_by" \notin table.audit => V[j].createdBy = Nil
    BY <1>1 DEF RowsInv, NewRow, Exists
  <1> QED
    BY <1>1, <1>2, <1>3, <1>4 DEF RowsInv, V

LEMMA MoreRows ==
    ASSUME NEW R, NEW V, NEW S, NEW K, StructsInv(S, K), OneStructEach(R, S),
           \A i \in Id : Taken(R[i]) => Taken(V[i])
    PROVE  OneStructEach(V, S)
  BY NamesAssumption DEF OneStructEach, StructsInv, Struct

-----------------------------------------------------------------------------
\* What statements do

LEMMA UpdatedRowIsEdited ==
    ASSUME table \in Tables, NEW r \in RowState, NEW s \in Struct, Exists(r),
           "created_by" \notin table.audit => r.createdBy = Nil /\ s.createdBy = Nil,
           Disciplined => r.scope = r.home /\ r.createdBy = r.creator /\ Agrees(s, r)
    PROVE  LET u == UpdatedRow(r, s) IN
           /\ u \in RowState /\ Exists(u)
           /\ u.home = r.home /\ u.creator = r.creator /\ u.origin = r.origin
           /\ Disciplined => u.scope = r.scope /\ u.createdBy = r.createdBy
           /\ "created_by" \notin table.audit => u.createdBy = Nil
  <1> DEFINE u == UpdatedRow(r, s)
  <1>1. /\ u \in RowState
        /\ u.status = r.status /\ u.home = r.home /\ u.creator = r.creator /\ u.origin = r.origin
        /\ u.createdBy = IF s.createdBy = Nil THEN r.createdBy ELSE s.createdBy
        /\ \A k \in Scope : u.scope[k] =
              IF k \in table.scopes /\ s.scope[k] # Nil THEN s.scope[k] ELSE r.scope[k]
    BY UpdatedRowTypes
  <1> HIDE DEF u
  <1>2. ASSUME Disciplined PROVE u.scope = r.scope /\ u.createdBy = r.createdBy
    <2>1. u.scope \in [Scope -> MaybeValue] /\ r.scope \in [Scope -> MaybeValue]
      BY <1>1 DEF RowState, Scoping
    <2>2. \A k \in Scope : u.scope[k] = r.scope[k]
      BY <1>1, <1>2 DEF Agrees
    <2> QED
      BY <1>1, <1>2, <2>1, <2>2 DEF Agrees
  <1> QED
    BY <1>1, <1>2 DEF Exists, u

LEMMA UpdateStructTypes ==
    ASSUME NEW s \in Struct
    PROVE  LET t == UpdateStruct(s) IN
           /\ t \in Struct
           /\ t.id = s.id /\ t.scope = s.scope /\ t.createdBy = s.createdBy /\ t.failed = s.failed
  BY DEF UpdateStruct, Struct

\* The rows at some keys are updated from a struct.
LEMMA UpdateEdits ==
    ASSUME table \in Tables, NEW R, NEW S, NEW K, RowsInv(R, S, K), NEW s \in Struct, NEW at \in SUBSET Id,
           \A i \in at : Exists(R[i]),
           "created_by" \notin table.audit => s.createdBy = Nil,
           Disciplined => \A i \in at : Agrees(s, R[i])
    PROVE  Edited(R, Changed(R, at, LAMBDA row : UpdatedRow(row, s)))
  <1> DEFINE V == Changed(R, at, LAMBDA row : UpdatedRow(row, s))
  <1>1. V = [i \in Id |-> IF i \in at THEN UpdatedRow(R[i], s) ELSE R[i]]
    BY DEF Changed
  <1> HIDE DEF V
  <1>2. R \in [Id -> RowState]
    BY DEF RowsInv
  <1>3. ASSUME NEW i \in at
        PROVE  LET u == UpdatedRow(R[i], s) IN
               /\ u \in RowState /\ Exists(u)
               /\ u.home = R[i].home /\ u.creator = R[i].creator /\ u.origin = R[i].origin
               /\ Disciplined => u.scope = R[i].scope /\ u.createdBy = R[i].createdBy
               /\ "created_by" \notin table.audit => u.createdBy = Nil
    <2>1. Disciplined => R[i].scope = R[i].home /\ R[i].createdBy = R[i].creator /\ Agrees(s, R[i])
      BY DEF RowsInv, Faithful
    <2>2. "created_by" \notin table.audit => R[i].createdBy = Nil /\ s.createdBy = Nil
      BY DEF RowsInv
    <2>3. R[i] \in RowState /\ Exists(R[i])
      BY <1>2
    <2> QED
      BY <2>1, <2>2, <2>3, UpdatedRowIsEdited
  <1>4. \A i \in Id : V[i] = IF i \in at THEN UpdatedRow(R[i], s) ELSE R[i]
    BY <1>1
  <1>5. V \in [Id -> RowState]
    BY <1>1, <1>2, <1>3
  <1> QED
    BY <1>3, <1>4, <1>5 DEF Edited, V

\* The rows at some keys are deleted.
LEMMA RemovalEdits ==
    ASSUME NEW R, NEW S, NEW K, RowsInv(R, S, K), NEW at \in SUBSET Id, \A i \in at : Exists(R[i])
    PROVE  Edited(R, Changed(R, at, LAMBDA row : Removed))
  <1>1. R \in [Id -> RowState]
    BY DEF RowsInv
  <1> QED
    BY <1>1, RowTypes DEF Edited, Changed

\* The rows at some keys are marked as deleted.
LEMMA TagEdits ==
    ASSUME NEW R, NEW S, NEW K, RowsInv(R, S, K), NEW at \in SUBSET Id, \A i \in at : Exists(R[i])
    PROVE  Edited(R, Changed(R, at, LAMBDA row : [row EXCEPT !.deleted = TRUE]))
  <1> DEFINE V == Changed(R, at, LAMBDA row : [row EXCEPT !.deleted = TRUE])
  <1>1. R \in [Id -> RowState]
    BY DEF RowsInv
  <1>2. V = [i \in Id |-> IF i \in at THEN [R[i] EXCEPT !.deleted = TRUE] ELSE R[i]]
    BY DEF Changed
  <1> HIDE DEF V
  <1>3. ASSUME NEW i \in at
        PROVE  LET u == [R[i] EXCEPT !.deleted = TRUE] IN
               /\ u \in RowState /\ Exists(u)
               /\ u.home = R[i].home /\ u.creator = R[i].creator /\ u.origin = R[i].origin
               /\ u.scope = R[i].scope /\ u.createdBy = R[i].createdBy
    BY <1>1 DEF RowState, Exists
  <1>4. \A i \in Id : V[i] = IF i \in at THEN [R[i] EXCEPT !.deleted = TRUE] ELSE R[i]
    BY <1>2
  <1>5. V \in [Id -> RowState]
    BY <1>1, <1>2, <1>3
  <1>6. "created_by" \notin table.audit => \A i \in Id : R[i].createdBy = Nil
    BY DEF RowsInv
  <1>7. ASSUME NEW i \in Id, V[i] # R[i]
        PROVE  /\ Exists(R[i]) /\ Exists(V[i])
               /\ V[i].home = R[i].home /\ V[i].creator = R[i].creator /\ V[i].origin = R[i].origin
               /\ V[i].scope = R[i].scope /\ V[i].createdBy = R[i].createdBy
    BY <1>3, <1>4, <1>7
  <1> QED
    BY <1>5, <1>6, <1>7 DEF Edited, V

LEMMA MatchesExist ==
    ASSUME NEW R, NEW ac, NEW s
    PROVE  /\ Matches(R, ac, s) \subseteq Id
           /\ \A i \in Matches(R, ac, s) : Exists(R[i]) /\ i = s.id
           /\ Scoped(R, AccessPredicates(ac)) \subseteq Id
           /\ \A i \in Scoped(R, AccessPredicates(ac)) : Exists(R[i])
  BY DEF Matches, Scoped

LEMMA ResentOne ==
    ASSUME NEW S, NEW K, StructsInv(S, K), NEW m \in Model, NEW t \in Struct, t.id = S[m].id,
           t.failed \/ (~ S[m].failed /\ t.scope = S[m].scope /\ t.createdBy = S[m].createdBy),
           "created_by" \notin table.audit => t.createdBy = Nil
    PROVE  Resent(S, [S EXCEPT ![m] = t])
  <1> DEFINE T == [S EXCEPT ![m] = t]
  <1>1. /\ T \in [Model -> Struct] /\ T[m] = t
        /\ \A n \in Model : n # m => T[n] = S[n]
        /\ \A n \in Model : S[n].failed \in BOOLEAN
    BY DEF StructsInv, Struct
  <1> HIDE DEF T
  <1>2. ASSUME NEW n \in Model
        PROVE  /\ T[n].id = S[n].id
               /\ \/ T[n].failed
                  \/ ~ S[n].failed /\ T[n].scope = S[n].scope /\ T[n].createdBy = S[n].createdBy
               /\ "created_by" \notin table.audit => T[n].createdBy = Nil
    BY <1>1 DEF StructsInv
  <1> QED
    BY <1>1, <1>2 DEF Resent, T

\* An effect that inserts nothing and sends the struct's key, scope and creator.
IsEdit(e, R, m) ==
    /\ Edited(R, e.rows)
    /\ Resent(model, [model EXCEPT ![m] = e.sent])
    /\ e.after = e.sent

LEMMA SameContent ==
    ASSUME NEW K, StructsInv(model, K), NEW m \in Model, NEW t \in Struct,
           t.id = model[m].id, t.scope = model[m].scope, t.createdBy = model[m].createdBy,
           t.failed = model[m].failed
    PROVE  Resent(model, [model EXCEPT ![m] = t])
  <1>1. model[m].failed \in BOOLEAN
    BY DEF StructsInv, Struct
  <1> QED
    BY <1>1, ResentOne DEF StructsInv

LEMMA ChangeIsEdit ==
    ASSUME table \in Tables, NEW R, NEW K, RowsInv(R, model, K), StructsInv(model, K),
           NEW ac \in Context, NEW m \in Model, MayUpdate(m)
    PROVE  IsEdit(Change(R, ac, m), R, m)
  <1> DEFINE t == UpdateStruct(model[m])
             at == Matches(R, ac, model[m])
             e == Change(R, ac, m)
  <1>1. /\ e.rows = Changed(R, at, LAMBDA row : UpdatedRow(row, t))
        /\ e.sent = t /\ e.after = t
    BY DEF Change
  <1> HIDE DEF e
  <1>2. model[m] \in Struct /\ ("created_by" \notin table.audit => model[m].createdBy = Nil)
    BY DEF StructsInv
  <1>3. t \in Struct
        /\ t.id = model[m].id /\ t.scope = model[m].scope /\ t.createdBy = model[m].createdBy
        /\ t.failed = model[m].failed
    BY <1>2, UpdateStructTypes
  <1> HIDE DEF t
  <1>4. at \in SUBSET Id /\ \A i \in at : Exists(R[i]) /\ i = model[m].id
    BY MatchesExist
  <1> HIDE DEF at
  <1>5. Disciplined => \A i \in at : Agrees(t, R[i])
    BY <1>3, <1>4 DEF MayUpdate, RowsInv, Faithful, Agrees
  <1>6. Edited(R, e.rows)
    BY <1>1, <1>2, <1>3, <1>4, <1>5, UpdateEdits
  <1> QED
    BY <1>1, <1>3, <1>6, SameContent DEF IsEdit, e

LEMMA SoftDeletionIsEdit ==
    ASSUME NEW R, NEW K, RowsInv(R, model, K), StructsInv(model, K), NEW ac, NEW m \in Model
    PROVE  IsEdit(SoftDeletion(R, ac, m), R, m)
  <1> DEFINE t == [model[m] EXCEPT !.deleted = TRUE]
             at == Matches(R, ac, model[m])
             e == SoftDeletion(R, ac, m)
  <1>1. /\ e.rows = Changed(R, at, LAMBDA row : [row EXCEPT !.deleted = TRUE])
        /\ e.sent = t /\ e.after = t
    BY DEF SoftDeletion
  <1> HIDE DEF e
  <1>2. model[m] \in Struct
    BY DEF StructsInv
  <1>3. t \in Struct
        /\ t.id = model[m].id /\ t.scope = model[m].scope /\ t.createdBy = model[m].createdBy
        /\ t.failed = model[m].failed
    BY <1>2 DEF Struct
  <1> HIDE DEF t
  <1>4. at \in SUBSET Id /\ \A i \in at : Exists(R[i])
    BY MatchesExist
  <1> HIDE DEF at
  <1>5. Edited(R, e.rows)
    BY <1>1, <1>4, TagEdits
  <1> QED
    BY <1>1, <1>3, <1>5, SameContent DEF IsEdit, e

LEMMA DeletionIsEdit ==
    ASSUME NEW R, NEW K, RowsInv(R, model, K), StructsInv(model, K), NEW ac, NEW m \in Model
    PROVE  IsEdit(Deletion(R, ac, m), R, m)
  <1>1. CASE SoftDeletes(table) /\ EnforcesSoftDelete(ac)
    BY <1>1, SoftDeletionIsEdit DEF Deletion
  <1>2. CASE ~ (SoftDeletes(table) /\ EnforcesSoftDelete(ac))
    <2> DEFINE at == Matches(R, ac, model[m])
               e == HardDeletion(R, ac, m)
    <2>1. /\ e.rows = Changed(R, at, LAMBDA row : Removed)
          /\ e.sent = model[m] /\ e.after = model[m]
      BY DEF HardDeletion
    <2> HIDE DEF e
    <2>2. at \in SUBSET Id /\ \A i \in at : Exists(R[i])
      BY MatchesExist
    <2> HIDE DEF at
    <2>3. Edited(R, e.rows)
      BY <2>1, <2>2, RemovalEdits
    <2>4. IsEdit(e, R, m)
      BY <2>1, <2>3, SameContent DEF IsEdit, StructsInv
    <2> QED
      BY <1>2, <2>4 DEF Deletion, e
  <1> QED
    BY <1>1, <1>2

\* An insert under the key i, which no row has had.
IsInsertion(e, R, m, i, r) ==
    /\ NewRow(r) /\ r.origin = m
    /\ e.rows = [R EXCEPT ![i] = r]
    /\ Resent(model, [model EXCEPT ![m] = e.sent]) /\ e.sent.failed
    /\ e.after \in Struct /\ e.after.id = i /\ Agrees(e.after, r)
    /\ "created_by" \notin table.audit => e.after.createdBy = Nil

LEMMA InsertionIsOne ==
    ASSUME table \in Tables, NEW R, NEW K, StructsInv(model, K),
           NEW ac \in Context, NEW m \in Model, NEW i \in Id,
           Insertion(R, ac, m, i).allowed
    PROVE  \E r : IsInsertion(Insertion(R, ac, m, i), R, m, i, r)
  <1> DEFINE s == InsertStruct(ac, model[m])
             r == InsertedRow(ac, s, m)
             e == Insertion(R, ac, m, i)
  <1>1. /\ e.rows = [R EXCEPT ![i] = r]
        /\ e.sent = [s EXCEPT !.failed = TRUE]
        /\ e.after = [Returned(s, i) EXCEPT !.failed = FALSE]
        /\ EnforcesAudit(ac)
    BY DEF Insertion
  <1> HIDE DEF e
  <1>2. model[m] \in Struct /\ ("created_by" \notin table.audit => model[m].createdBy = Nil)
    BY DEF StructsInv
  <1>3. /\ s \in Struct
        /\ s.id = model[m].id
        /\ "created_by" \in table.audit => s.createdBy = ac.values["user"]
        /\ "created_by" \notin table.audit => s.createdBy = Nil
    BY <1>1, <1>2, InsertStructTypes
  <1> HIDE DEF s
  <1>4. /\ r \in RowState
        /\ r.status = "present" /\ r.scope = r.home /\ r.origin = m /\ r.createdBy = s.createdBy
        /\ \A k \in table.scopes : r.home[k] = s.scope[k]
        /\ r.creator = IF "created_by" \in table.audit THEN ac.values["user"] ELSE Nil
    BY <1>3, InsertedRowTypes
  <1> HIDE DEF r
  <1>5. NewRow(r)
    BY <1>3, <1>4 DEF NewRow, Exists
  <1>6. /\ e.sent \in Struct /\ e.sent.id = model[m].id /\ e.sent.failed
        /\ e.sent.createdBy = s.createdBy
    BY <1>1, <1>3 DEF Struct
  <1>7. /\ e.after \in Struct /\ e.after.id = i /\ e.after.scope = s.scope
        /\ e.after.createdBy = s.createdBy
    BY <1>1, <1>3 DEF Struct, Returned
  <1>8. Agrees(e.after, r)
    BY <1>3, <1>4, <1>7 DEF Agrees
  <1>9. Resent(model, [model EXCEPT ![m] = e.sent])
    BY <1>3, <1>6, ResentOne
  <1> QED
    BY <1>1, <1>3, <1>4, <1>5, <1>6, <1>7, <1>8, <1>9 DEF IsInsertion, e

LEMMA EffectKinds ==
    ASSUME table \in Tables, NEW R, NEW K, RowsInv(R, model, K), StructsInv(model, K),
           NEW op \in BatchOp, NEW ac \in Context, NEW m \in Model,
           NEW e \in Effects(op, R, ac, m), e.allowed
    PROVE  \/ IsEdit(e, R, m)
           \/ /\ op = "create"
              /\ \E i \in InsertKeys(R, m) : \E r :
                    i \in Id /\ IsInsertion(e, R, m, i, r) /\ (e.works <=> ~ Exists(R[i]))
  <1>1. CASE op = "create"
    <2>1. PICK i \in InsertKeys(R, m) : e = Insertion(R, ac, m, i)
      BY <1>1 DEF Effects
    <2>2. i \in Id
      BY NamesAssumption DEF InsertKeys, StructsInv, Struct
    <2>3. e.works <=> ~ Exists(R[i])
      BY <2>1 DEF Insertion
    <2> QED
      BY <1>1, <2>1, <2>2, <2>3, InsertionIsOne
  <1>2. CASE op = "update"
    <2>1. e = Change(R, ac, m) /\ MayUpdate(m)
      BY <1>2 DEF Effects
    <2> QED
      BY <2>1, ChangeIsEdit
  <1>3. CASE op = "delete"
    <2>1. e = Deletion(R, ac, m)
      BY <1>3 DEF Effects
    <2> QED
      BY <2>1, DeletionIsEdit
  <1> QED
    BY <1>1, <1>2, <1>3 DEF BatchOp

\* A key under which an insert works has had no row, and is in no other struct.
LEMMA InsertKeysAreFree ==
    ASSUME NEW Q, NEW R, RowsInv(R, model, used), StructsInv(model, used), OneStructEach(Q, model),
           \A i \in Id : Taken(Q[i]) => Taken(R[i]),
           NEW m \in Model, NEW i \in InsertKeys(R, m), i \in Id, ~ Exists(R[i])
    PROVE  /\ ~ Taken(R[i]) /\ ~ Taken(Q[i])
           /\ model[m].id \in {i, Nil}
           /\ \A n \in Model : model[n].id = i => n = m
  <1>1. R[i] \in RowState /\ model[m].id \in Id \cup {Nil} /\ Nil \notin Id
    BY NamesAssumption DEF RowsInv, StructsInv, Struct
  <1>2. ~ Taken(R[i])
    <2>1. CASE model[m].id = Nil
      BY <2>1 DEF InsertKeys, RowsInv
    <2>2. CASE model[m].id # Nil
      <3>1. R[i] # Removed
        BY <2>2 DEF InsertKeys
      <3> QED
        BY <1>1, <3>1 DEF RowsInv, RowState, Exists, Taken
    <2> QED
      BY <2>1, <2>2
  <1>3. CASE model[m].id = Nil
    <2>1. i \notin used
      BY <1>3 DEF InsertKeys
    <2>2. \A n \in Model : model[n].id # i
      BY <1>1, <2>1 DEF StructsInv
    <2> QED
      BY <1>2, <1>3, <2>2
  <1>4. CASE model[m].id # Nil
    <2>1. i = model[m].id
      BY <1>4 DEF InsertKeys
    <2> QED
      BY <1>1, <1>2, <2>1 DEF OneStructEach
  <1> QED
    BY <1>3, <1>4

-----------------------------------------------------------------------------
\* What steps do to rows, structs and keys

LEMMA EditedReflexive == ASSUME NEW R \in [Id -> RowState] PROVE Edited(R, R)
  BY DEF Edited

LEMMA EditedCore ==
    ASSUME NEW R, NEW V, NEW S, NEW K, Core(R, V, S, K),
           NEW R1, NEW V1, NEW S1, NEW K1, Edited(R, R1), Edited(V, V1), Resent(S, S1), K \subseteq K1
    PROVE  Core(R1, V1, S1, K1)
  <1>1. /\ StructsInv(S1, K) /\ RowsInv(R, S1, K) /\ RowsInv(V, S1, K) /\ OneStructEach(R, S1)
    BY ResentStructs DEF Core
  <1>2. /\ RowsInv(R1, S1, K) /\ \A i \in Id : Taken(R1[i]) <=> Taken(R[i])
    BY <1>1, EditedRows
  <1>3. /\ RowsInv(V1, S1, K) /\ \A i \in Id : Taken(V1[i]) <=> Taken(V[i])
    BY <1>1, EditedRows
  <1>4. OneStructEach(R1, S1)
    BY <1>1, <1>2, MoreRows
  <1>5. Follows(V1, R1)
    <2>1. \A i \in Id : Exists(R1[i]) => Exists(R[i]) /\ R1[i].home = R[i].home /\ R1[i].creator = R[i].creator
      BY RemovedFields DEF Edited
    <2>2. \A i \in Id : Exists(V1[i]) => Exists(V[i]) /\ V1[i].home = V[i].home /\ V1[i].creator = V[i].creator
      BY RemovedFields DEF Edited
    <2> QED
      BY <1>2, <1>3, <2>1, <2>2 DEF Core, Follows
  <1> QED
    BY <1>1, <1>2, <1>3, <1>4, <1>5, MoreKeys DEF Core

LEMMA ResentReflexive == ASSUME NEW S, NEW K, StructsInv(S, K) PROVE Resent(S, S)
  BY DEF Resent, StructsInv, Struct

\* A row is inserted, for both or for the batch alone, and its struct knows.
LEMMA InsertedCore ==
    ASSUME NEW R, NEW V, NEW S, NEW K, Core(R, V, S, K), NEW m \in Model, NEW i \in Id, NEW t \in Struct, NEW r,
           ~ Taken(R[i]), ~ Taken(V[i]), S[m].id \in {i, Nil}, \A n \in Model : S[n].id = i => n = m,
           NewRow(r), r.origin = m,
           t.id = i, Agrees(t, r), "created_by" \notin table.audit => t.createdBy = Nil,
           NEW R1, R1 = R \/ R1 = With(R, i, r), NEW K1, K \cup {i} \subseteq K1
    PROVE  Core(R1, With(V, i, r), With(S, m, t), K1)
  <1> DEFINE W == With(V, i, r)
             T == With(S, m, t)
  <1>a. StructsInv(S, K) /\ RowsInv(R, S, K) /\ RowsInv(V, S, K) /\ OneStructEach(R, S)
    BY DEF Core
  <1>1. /\ StructsInv(T, K \cup {i}) /\ RowsInv(R1, T, K \cup {i}) /\ OneStructEach(R, T)
    BY <1>a, RowInserted, ZenonT(40)
  <1>2. RowsInv(W, T, K \cup {i})
    BY <1>a, RowInserted, ZenonT(40)
  <1> HIDE DEF T
  <1>3. R \in [Id -> RowState] /\ V \in [Id -> RowState] /\ Taken(r)
    BY ExistsTaken DEF Core, RowsInv, NewRow
  <1>4. /\ \A j \in Id : j # i => R1[j] = R[j] /\ W[j] = V[j]
        /\ W[i] = r /\ R1[i] \in {R[i], r}
    BY <1>3 DEF With
  <1> HIDE DEF W
  <1>5. OneStructEach(R1, T)
    <2>1. \A j \in Id : Taken(R[j]) => Taken(R1[j])
      BY <1>4
    <2> QED
      BY <1>1, <2>1, MoreRows
  <1>6. Follows(W, R1)
    BY <1>3, <1>4 DEF Core, Follows
  <1> QED
    BY <1>1, <1>2, <1>5, <1>6, MoreKeys DEF Core, W, T

LEMMA UnheardCore ==
    ASSUME NEW R, NEW V, NEW S, NEW K, Core(R, V, S, K), NEW i \in Id, NEW r,
           ~ Taken(R[i]), ~ Taken(V[i]), \A n \in Model : S[n].id = i => S[n].failed,
           NewRow(r), r.origin = Nil, NEW K1, K \cup {i} \subseteq K1
    PROVE  Core([R EXCEPT ![i] = r], [V EXCEPT ![i] = r], S, K1)
  <1> DEFINE Q == [R EXCEPT ![i] = r]
             W == [V EXCEPT ![i] = r]
  <1>1. RowsInv(Q, S, K \cup {i}) /\ RowsInv(W, S, K \cup {i})
    BY RowInsertedUnheard DEF Core
  <1>2. R \in [Id -> RowState] /\ V \in [Id -> RowState] /\ Taken(r)
    BY ExistsTaken DEF Core, RowsInv, NewRow
  <1>3. /\ \A j \in Id : j # i => Q[j] = R[j] /\ W[j] = V[j]
        /\ Q[i] = r /\ W[i] = r
    BY <1>2
  <1> HIDE DEF Q, W
  <1>4. OneStructEach(Q, S)
    <2>1. \A j \in Id : Taken(R[j]) => Taken(Q[j])
      BY <1>2, <1>3
    <2> QED
      BY <2>1, MoreRows DEF Core
  <1>5. Follows(W, Q)
    BY <1>3 DEF Core, Follows
  <1> QED
    BY <1>1, <1>4, <1>5, MoreKeys DEF Core, Q, W

\* A struct takes up another row.
LEMMA TakenCore ==
    ASSUME NEW R, NEW V, NEW S, NEW K, Core(R, V, S, K), NEW m \in Model, NEW t \in Struct,
           "created_by" \notin table.audit => t.createdBy = Nil,
           t.id \in Id => Taken(R[t.id]),
           t.id = Nil => \A i \in Id : /\ Exists(R[i]) => R[i].origin # m
                                       /\ Exists(V[i]) => V[i].origin # m,
           Disciplined /\ t.id \in Id =>
              /\ Exists(R[t.id]) => Agrees(t, R[t.id])
              /\ Exists(V[t.id]) => Agrees(t, V[t.id])
    PROVE  Core(R, V, [S EXCEPT ![m] = t], K)
  <1>1. t.id \in Id => Taken(V[t.id])
    BY DEF Core, Follows
  <1>2. /\ StructsInv([S EXCEPT ![m] = t], K) /\ RowsInv(R, [S EXCEPT ![m] = t], K)
        /\ OneStructEach(R, [S EXCEPT ![m] = t])
    BY StructTaken DEF Core
  <1>3. RowsInv(V, [S EXCEPT ![m] = t], K)
    BY <1>1, StructTaken DEF Core
  <1> QED
    BY <1>2, <1>3 DEF Core

-----------------------------------------------------------------------------
\* Every step preserves the invariant

LEMMA CorePrime ==
    ASSUME table' = table, Core(rows', BatchRows', model', used')
    PROVE  Core(rows, BatchRows, model, used)'
  BY DEF Core, StructsInv, RowsInv, Faithful, Agrees, OneRowEach, OneStructEach, Follows

LEMMA TypesPrime ==
    ASSUME TypeOK, table' = table, Core(rows', BatchRows', model', used'), used' \subseteq Id,
           writes' \in 0..MaxWrite, batch' \in BatchState, batch'.index \in 0..batch'.start + Len(batch'.items)
    PROVE  TypeOK'
  BY DEF TypeOK, Core, RowsInv, StructsInv

LEMMA BatchRowsTypes ==
    ASSUME NEW i \in Id
    PROVE  BatchRows[i] = IF i \in batch.written THEN batch.rows[i] ELSE rows[i]
  BY DEF BatchRows

LEMMA StructOfTypes ==
    ASSUME rows \in [Id -> RowState], NEW i \in Id
    PROVE  /\ StructOf(i) \in Struct /\ StructOf(i).id = i
           /\ StructOf(i).scope = rows[i].scope /\ StructOf(i).createdBy = rows[i].createdBy
  BY DEF StructOf, Struct, RowState

LEMMA DisownedStatus ==
    ASSUME NEW R \in [Id -> RowState], NEW m
    PROVE  /\ Disowned(R, m) \in [Id -> RowState]
           /\ \A i \in Id : Disowned(R, m)[i].status = R[i].status
  <1>1. ASSUME NEW i \in Id
        PROVE  [R[i] EXCEPT !.origin = Nil] \in RowState /\ [R[i] EXCEPT !.origin = Nil].status = R[i].status
    BY ForgottenOrigin
  <1> QED
    BY <1>1 DEF Disowned

\* A program takes a struct for a new one, or for a row that it has read.
LEMMA TakesStep ==
    ASSUME IInv, NEW m \in Model, NEW t \in Struct, Takes(m, t),
           \/ t.id = Nil /\ t.createdBy = Nil
           \/ /\ t.id \in Id /\ Exists(rows[t.id])
              /\ t.scope = rows[t.id].scope /\ t.createdBy = rows[t.id].createdBy
    PROVE  IInv'
  <1> DEFINE R == Disowned(rows, m)
             V == Disowned(BatchRows, m)
  <1>1. /\ Core(rows, BatchRows, model, used)
        /\ TypeOK /\ BatchInv
        /\ rows \in [Id -> RowState]
    BY DEF IInv, TypeOK
  <1>2. /\ rows' = R
        /\ model' = [model EXCEPT ![m] = t]
        /\ batch' = [batch EXCEPT !.rows = Disowned(batch.rows, m)]
        /\ table' = table /\ used' = used /\ writes' = writes
    BY DEF Takes
  <1>3. /\ batch \in BatchState /\ batch' \in BatchState
        /\ batch'.rows = Disowned(batch.rows, m)
        /\ batch'.op = batch.op /\ batch'.items = batch.items /\ batch'.start = batch.start
        /\ batch'.index = batch.index /\ batch'.written = batch.written /\ batch'.done = batch.done
    BY <1>1, <1>2, DisownedStatus DEF TypeOK, BatchState
  <1>4. BatchRows' = V
    <2>1. BatchRows' = [i \in Id |-> IF i \in batch.written THEN Disowned(batch.rows, m)[i] ELSE R[i]]
      BY <1>2, <1>3 DEF BatchRows
    <2>2. V = [i \in Id |-> IF i \in batch.written THEN Disowned(batch.rows, m)[i] ELSE R[i]]
      BY BatchRowsTypes DEF Disowned
    <2> QED
      BY <2>1, <2>2
  <1> R = Disowned(rows, m) /\ V = Disowned(BatchRows, m)
    OBVIOUS
  <1> HIDE DEF R, V
  <1>0. StructsInv(model, used) /\ RowsInv(rows, model, used) /\ RowsInv(BatchRows, model, used)
    BY <1>1 DEF Core
  <1>5. /\ RowsInv(R, model, used)
        /\ \A i \in Id : Exists(R[i]) => R[i].origin # m
        /\ \A i \in Id : /\ R[i].status = rows[i].status
                         /\ Exists(rows[i]) => /\ R[i].scope = rows[i].scope
                                               /\ R[i].createdBy = rows[i].createdBy
                                               /\ R[i].home = rows[i].home
                                               /\ R[i].creator = rows[i].creator
    BY <1>0, DisownedRows
  <1>6. /\ RowsInv(V, model, used)
        /\ \A i \in Id : Exists(V[i]) => V[i].origin # m
        /\ \A i \in Id : /\ V[i].status = BatchRows[i].status
                         /\ Exists(BatchRows[i]) => /\ V[i].scope = BatchRows[i].scope
                                                    /\ V[i].createdBy = BatchRows[i].createdBy
                                                    /\ V[i].home = BatchRows[i].home
                                                    /\ V[i].creator = BatchRows[i].creator
    BY <1>0, DisownedRows
  <1>7. Follows(V, R)
    BY <1>1, <1>5, <1>6 DEF Core, Follows, Taken, Exists
  <1>8. OneStructEach(R, model)
    <2>1. \A i \in Id : Taken(rows[i]) => Taken(R[i])
      BY <1>5 DEF Taken
    <2> QED
      BY <1>1, <2>1, MoreRows DEF Core
  <1>9. Core(R, V, model, used)
    BY <1>1, <1>5, <1>6, <1>7, <1>8 DEF Core
  <1>10. "created_by" \notin table.audit => t.createdBy = Nil
    BY <1>1 DEF Core, RowsInv
  <1>11. t.id \in Id => Exists(rows[t.id]) /\ Exists(R[t.id])
                        /\ t.scope = rows[t.id].scope /\ t.createdBy = rows[t.id].createdBy
    BY <1>5, NamesAssumption DEF Exists
  <1>12. ASSUME Disciplined, t.id \in Id
         PROVE  Agrees(t, R[t.id]) /\ (Exists(V[t.id]) => Agrees(t, V[t.id]))
    <2>1. t.scope = R[t.id].home /\ t.createdBy = R[t.id].creator
      BY <1>1, <1>5, <1>11, <1>12 DEF Core, RowsInv, Faithful
    <2>2. Exists(V[t.id]) => V[t.id].home = R[t.id].home /\ V[t.id].creator = R[t.id].creator
      BY <1>7, <1>11, <1>12, ExistsTaken DEF Follows
    <2> QED
      BY <2>1, <2>2 DEF Agrees
  <1>13. Core(R, V, [model EXCEPT ![m] = t], used)
    BY <1>5, <1>6, <1>9, <1>10, <1>11, <1>12, ExistsTaken, TakenCore
  <1>14. Core(rows, BatchRows, model, used)'
    BY <1>2, <1>4, <1>13, CorePrime
  <1>15. TypeOK'
    BY <1>1, <1>2, <1>3, <1>4, <1>13, TypesPrime DEF TypeOK
  <1>16. BatchInv'
    <2>1. \A i \in batch.written : batch'.rows[i].status = batch.rows[i].status
      BY <1>3, DisownedStatus DEF BatchState
    <2>2. MoreChunks(batch') <=> MoreChunks(batch)
      BY <1>3 DEF MoreChunks
    <2>3. ChunkEnd(batch') = ChunkEnd(batch)
      BY <1>3 DEF ChunkEnd
    <2> QED
      BY <1>1, <1>3, <2>1, <2>2, <2>3 DEF BatchInv, Taken
  <1> QED
    BY <1>14, <1>15, <1>16 DEF IInv

LEMMA SameBatch ==
    ASSUME IInv, table' = table, batch' = batch, writes' \in 0..MaxWrite, used' \subseteq Id,
           Core(rows', BatchRows', model', used')
    PROVE  IInv'
  <1>1. TypeOK'
    BY TypesPrime DEF IInv, TypeOK
  <1>2. BatchInv'
    BY DEF IInv, BatchInv, MoreChunks, ChunkEnd, ChunkSize
  <1> QED
    BY <1>1, <1>2, CorePrime DEF IInv

\* The open batch sees what others commit, except where it has written.
LEMMA EditBeside ==
    ASSUME IInv, batch' = batch, Edited(rows, rows')
    PROVE  Edited(BatchRows, BatchRows')
  <1>1. /\ BatchRows \in [Id -> RowState]
        /\ batch.rows \in [Id -> RowState]
        /\ rows' \in [Id -> RowState]
    BY DEF IInv, Core, RowsInv, TypeOK, BatchState, Edited
  <1>2. BatchRows' = [i \in Id |-> IF i \in batch.written THEN batch.rows[i] ELSE rows'[i]]
    BY DEF BatchRows
  <1>3. BatchRows' \in [Id -> RowState]
    BY <1>1, <1>2
  <1>4. \A i \in Id : \/ BatchRows'[i] = BatchRows[i]
                      \/ BatchRows'[i] = rows'[i] /\ BatchRows[i] = rows[i]
    BY <1>2, BatchRowsTypes
  <1> QED
    BY <1>3, <1>4 DEF Edited

\* What every outcome of a statement leaves.
LEMMA AutocommitFrame ==
    ASSUME IInv, NEW m \in Model, NEW e, Autocommit(m, e)
    PROVE  /\ table' = table /\ batch' = batch
           /\ used \subseteq used' /\ used' \subseteq Id
           /\ \A i \in Id : Exists(rows'[i]) => i \in used'
           /\ writes' \in 0..MaxWrite
  BY BoundAssumption DEF Autocommit, IInv, TypeOK

\* A statement that updates or deletes.
LEMMA AutocommitEdit ==
    ASSUME IInv, NEW m \in Model, NEW e, Autocommit(m, e), Edited(rows, e.rows),
           Resent(model, [model EXCEPT ![m] = e.sent])
    PROVE  /\ Core(rows', BatchRows', [model EXCEPT ![m] = e.sent], used')
           /\ \/ rows' = e.rows /\ model' = [model EXCEPT ![m] = e.after]
              \/ model' = [model EXCEPT ![m] = e.sent]
  <1>1. Core(rows, BatchRows, model, used) /\ rows \in [Id -> RowState]
    BY DEF IInv, TypeOK
  <1>2. rows' \in {rows, e.rows}
    <2> DEFINE written == KeysOf(rows, e.rows)
               R == [i \in Id |-> IF i \in written /\ Exists(e.rows[i]) /\ ~ Exists(rows[i])
                                  THEN [e.rows[i] EXCEPT !.origin = Nil] ELSE e.rows[i]]
    <2>1. rows' = rows \/ rows' = e.rows \/ rows' = R
      BY DEF Autocommit
    <2>2. \A i \in Id : Exists(e.rows[i]) => Exists(rows[i])
      BY RemovedFields DEF Edited
    <2>3. e.rows \in [Id -> RowState]
      BY DEF Edited
    <2>4. R = e.rows
      BY <2>2, <2>3
    <2> QED
      BY <2>1, <2>4
  <1>3. Edited(rows, rows')
    BY <1>1, <1>2, EditedReflexive
  <1>4. Edited(BatchRows, BatchRows')
    BY <1>3, AutocommitFrame, EditBeside
  <1>5. Core(rows', BatchRows', [model EXCEPT ![m] = e.sent], used')
    BY <1>1, <1>3, <1>4, AutocommitFrame, EditedCore
  <1> QED
    BY <1>5 DEF Autocommit

LEMMA EditStep ==
    ASSUME IInv, NEW m \in Model, NEW e, Autocommit(m, e), IsEdit(e, rows, m)
    PROVE  IInv'
  <1>1. /\ Core(rows', BatchRows', [model EXCEPT ![m] = e.sent], used')
        /\ model' = [model EXCEPT ![m] = e.sent]
    BY AutocommitEdit DEF IsEdit
  <1> QED
    BY <1>1, AutocommitFrame, SameBatch

\* A statement that inserts: it succeeds, it fails, or nobody hears of it.
LEMMA InsertStep ==
    ASSUME IInv, NEW m \in Model, NEW e, Autocommit(m, e),
           NEW i \in InsertKeys(rows, m), i \in Id, NEW r, IsInsertion(e, rows, m, i, r),
           e.works <=> ~ Exists(rows[i])
    PROVE  IInv'
  <1> DEFINE T == [model EXCEPT ![m] = e.sent]
  <1>1. /\ Core(rows, BatchRows, model, used)
        /\ rows \in [Id -> RowState] /\ BatchRows \in [Id -> RowState]
        /\ StructsInv(model, used) /\ RowsInv(rows, model, used) /\ OneStructEach(rows, model)
        /\ model \in [Model -> Struct]
    BY DEF IInv, Core, RowsInv, StructsInv
  <1>2. /\ NewRow(r) /\ r.origin = m
        /\ e.rows = [rows EXCEPT ![i] = r]
        /\ Resent(model, T) /\ e.sent.failed
        /\ e.after \in Struct /\ e.after.id = i /\ Agrees(e.after, r)
        /\ "created_by" \notin table.audit => e.after.createdBy = Nil
    BY DEF IsInsertion
  <1>3. /\ Edited(rows, rows) /\ Edited(BatchRows, BatchRows)
    BY <1>1, EditedReflexive
  <1>4. CASE rows' = rows /\ model' = T
    <2>1. Edited(rows, rows')
      BY <1>3, <1>4
    <2>2. Edited(BatchRows, BatchRows')
      BY <2>1, AutocommitFrame, EditBeside
    <2>3. Core(rows', BatchRows', model', used')
      BY <1>1, <1>2, <1>4, <2>1, <2>2, AutocommitFrame, EditedCore
    <2> QED
      BY <2>3, AutocommitFrame, SameBatch
  <1>5. CASE e.works
    <2>1. ~ Exists(rows[i])
      BY <1>5
    <2>2. /\ ~ Taken(rows[i])
          /\ model[m].id \in {i, Nil}
          /\ \A n \in Model : model[n].id = i => n = m
      BY <1>1, <2>1, InsertKeysAreFree
    <2>3. /\ Exists(r) /\ r \in RowState
          /\ e.rows \in [Id -> RowState] /\ e.rows[i] = r /\ \A j \in Id : j # i => e.rows[j] = rows[j]
      BY <1>1, <1>2 DEF NewRow
    <2>4. KeysOf(rows, e.rows) = {i}
      BY <2>1, <2>3 DEF KeysOf
    <2>5. i \notin batch.written
      BY <2>4 DEF Autocommit
    <2>6. BatchRows[i] = rows[i] /\ ~ Taken(BatchRows[i])
      BY <2>2, <2>5, BatchRowsTypes
    <2>7. ASSUME NEW q, rows' = [rows EXCEPT ![i] = q] PROVE BatchRows' = [BatchRows EXCEPT ![i] = q]
      <3>1. BatchRows' = [j \in Id |-> IF j \in batch.written THEN batch.rows[j] ELSE rows'[j]]
        BY AutocommitFrame DEF BatchRows
      <3>2. \A j \in Id : BatchRows'[j] = IF j = i THEN q ELSE BatchRows[j]
        BY <1>1, <2>5, <2>7, <3>1, BatchRowsTypes
      <3> QED
        BY <1>1, <3>1, <3>2
    <2>8. CASE rows' = e.rows /\ model' = [model EXCEPT ![m] = e.after]
      <3>1. rows' = [rows EXCEPT ![i] = r] /\ BatchRows' = [BatchRows EXCEPT ![i] = r]
        BY <1>2, <2>7, <2>8
      <3>2. used \cup {i} \subseteq used'
        BY <2>3, <2>8, AutocommitFrame
      <3> HIDE DEF T
      <3>3. rows' = With(rows, i, r) /\ BatchRows' = With(BatchRows, i, r) /\ model' = With(model, m, e.after)
        BY <2>8, <3>1 DEF With
      <3>4. Core(rows', BatchRows', model', used')
        <4>1. /\ Core(rows, BatchRows, model, used) /\ i \in Id
              /\ ~ Taken(rows[i]) /\ ~ Taken(BatchRows[i])
              /\ model[m].id \in {i, Nil} /\ \A n \in Model : model[n].id = i => n = m
              /\ NewRow(r) /\ r.origin = m
          BY <1>1, <1>2, <2>2, <2>6
        <4>2. /\ e.after \in Struct /\ e.after.id = i /\ Agrees(e.after, r)
              /\ "created_by" \notin table.audit => e.after.createdBy = Nil
          BY <1>2
        <4>3. Core(With(rows, i, r), With(BatchRows, i, r), With(model, m, e.after), used')
          BY <3>2, <4>1, <4>2, InsertedCore
        <4> QED
          BY <3>3, <4>3
      <3> QED
        BY <3>4, AutocommitFrame, SameBatch
    <2>9. CASE /\ rows' = [j \in Id |-> IF j \in KeysOf(rows, e.rows) /\ Exists(e.rows[j]) /\ ~ Exists(rows[j])
                                        THEN [e.rows[j] EXCEPT !.origin = Nil] ELSE e.rows[j]]
               /\ model' = T
      <3> DEFINE q == [r EXCEPT !.origin = Nil]
      <3>1. NewRow(q) /\ q.origin = Nil
        <4>1. /\ q \in RowState /\ q.origin = Nil
              /\ q.status = r.status /\ q.scope = r.scope /\ q.createdBy = r.createdBy
              /\ q.home = r.home /\ q.creator = r.creator
          BY <2>3, ForgottenOrigin
        <4> QED
          BY <1>2, <4>1 DEF NewRow, Exists
      <3>2. rows' = [rows EXCEPT ![i] = q]
        BY <1>1, <2>1, <2>3, <2>4, <2>9
      <3> HIDE DEF q
      <3>3. BatchRows' = [BatchRows EXCEPT ![i] = q]
        BY <2>7, <3>2
      <3>4. Core(rows, BatchRows, T, used)
        BY <1>1, <1>2, <1>3, EditedCore
      <3>5. \A n \in Model : T[n].id = i => T[n].failed
        BY <1>1, <1>2, <2>2 DEF Resent
      <3>6. used \cup {i} \subseteq used'
        <4>1. rows'[i] = q
          BY <1>1, <3>2
        <4> QED
          BY <3>1, <4>1, AutocommitFrame DEF NewRow
      <3> HIDE DEF T
      <3>7. Core(rows', BatchRows', T, used')
        BY <2>2, <2>6, <3>1, <3>2, <3>3, <3>4, <3>5, <3>6, UnheardCore
      <3> QED
        BY <2>9, <3>7, AutocommitFrame, SameBatch
    <2> QED
      BY <1>4, <2>8, <2>9 DEF Autocommit
  <1>6. CASE ~ e.works
    BY <1>4, <1>6 DEF Autocommit
  <1> QED
    BY <1>5, <1>6

\* UpdateWhere: the struct may have the key of another row afterwards.
LEMMA UpdateWhereStep ==
    ASSUME IInv, NEW ac \in Requests, NEW m \in Model, NEW where \in SUBSET Id, UpdateWhere(ac, m, where)
    PROVE  IInv'
  <1> DEFINE s == UpdateStruct(model[m])
             matched == where \cap Scoped(rows, AccessPredicates(ac))
             T == [model EXCEPT ![m] = s]
  <1>1. PICK e \in WhereChange(ac, m, where) : Autocommit(m, e)
    BY DEF UpdateWhere
  <1>2. /\ e.rows = Changed(rows, matched, LAMBDA row : UpdatedRow(row, s))
        /\ e.sent = s
        /\ e.after = s \/ \E i \in matched : e.after = Returned(s, i)
    <2> DEFINE R == [i \in Id |-> IF i \in matched THEN UpdatedRow(rows[i], s) ELSE rows[i]]
    <2>1. R = Changed(rows, matched, LAMBDA row : UpdatedRow(row, s))
      BY DEF Changed
    <2>2. PICK i \in IF matched = {} THEN {Nil} ELSE matched :
             e = [allowed |-> EnforcesAudit(ac) /\ ~ Denied(ac, table, "update"),
                  works |-> TRUE, rows |-> R, sent |-> s,
                  after |-> IF matched = {} THEN s ELSE Returned(s, i)]
      BY <1>1 DEF WhereChange, Changed
    <2> HIDE DEF R, s, matched
    <2>3. e.rows = R /\ e.sent = s /\ e.after = IF matched = {} THEN s ELSE Returned(s, i)
      BY <2>2
    <2> QED
      BY <2>1, <2>3
  <1>3. /\ StructsInv(model, used) /\ RowsInv(rows, model, used)
        /\ table \in Tables
        /\ model \in [Model -> Struct]
        /\ "created_by" \notin table.audit => model[m].createdBy = Nil
    BY DEF IInv, TypeOK, Core, StructsInv
  <1>4. /\ s \in Struct /\ s.id = model[m].id /\ s.scope = model[m].scope
        /\ s.createdBy = model[m].createdBy /\ s.failed = model[m].failed
    BY <1>3, UpdateStructTypes
  <1>5. ASSUME Disciplined, NEW r PROVE Agrees(s, r)
    <2>1. model[m] = ZeroStruct
      BY <1>5 DEF UpdateWhere
    <2>2. table.scopes \subseteq Scope
      BY <1>3, TablesAssumption DEF Table
    <2>3. s.createdBy = Nil /\ s.scope = Unscoped
      BY <1>4, <2>1 DEF ZeroStruct
    <2> QED
      BY <2>2, <2>3 DEF Agrees, Unscoped
  <1> HIDE DEF s
  <1>6. matched \in SUBSET Id /\ \A i \in matched : Exists(rows[i])
    BY MatchesExist
  <1> HIDE DEF matched
  <1>7. Edited(rows, e.rows)
    BY <1>2, <1>3, <1>4, <1>5, <1>6, UpdateEdits
  <1>8. Resent(model, T)
    BY <1>3, <1>4, SameContent
  <1>9. /\ Core(rows', BatchRows', T, used')
        /\ \/ rows' = e.rows /\ model' = [model EXCEPT ![m] = e.after]
           \/ model' = T
    BY <1>1, <1>2, <1>7, <1>8, AutocommitEdit
  <1>10. CASE model' = T
    BY <1>1, <1>9, <1>10, AutocommitFrame, SameBatch
  <1>11. ASSUME NEW i \in matched, rows' = e.rows, model' = [model EXCEPT ![m] = Returned(s, i)]
         PROVE  IInv'
    <2> DEFINE t == Returned(s, i)
    <2>1. t \in Struct /\ t.id = i /\ t.scope = s.scope /\ t.createdBy = s.createdBy
      BY <1>4, <1>6 DEF Returned, Struct
    <2>2. \A r : Agrees(s, r) => Agrees(t, r)
      BY <2>1 DEF Agrees
    <2>3. model' = [T EXCEPT ![m] = t]
      BY <1>3, <1>11
    <2> HIDE DEF t, T
    <2>4. Taken(rows'[i]) /\ i \in Id
      BY <1>6, <1>7, <1>11, ExistsTaken, RemovedFields DEF Edited
    <2>5. Core(rows', BatchRows', [T EXCEPT ![m] = t], used')
      BY <1>3, <1>4, <1>5, <1>9, <2>1, <2>2, <2>4, NamesAssumption, TakenCore
    <2> QED
      BY <1>1, <2>3, <2>5, AutocommitFrame, SameBatch
  <1> QED
    BY <1>2, <1>9, <1>10, <1>11

LEMMA RawExecStep ==
    ASSUME IInv, NEW i \in Id, RawExec(i)
    PROVE  IInv'
  <1>1. Core(rows, BatchRows, model, used) /\ rows \in [Id -> RowState] /\ StructsInv(model, used)
    BY DEF IInv, TypeOK, Core
  <1>2. Edited(rows, rows')
    BY <1>1, RowTypes DEF RawExec, Edited
  <1>3. Edited(BatchRows, BatchRows')
    BY <1>2, EditBeside DEF RawExec
  <1>4. Core(rows', BatchRows', model', used')
    BY <1>1, <1>2, <1>3, ResentReflexive, EditedCore DEF RawExec
  <1> QED
    BY <1>4, SameBatch DEF RawExec, IInv, TypeOK

LEMMA WriteStep ==
    ASSUME IInv, NEW op \in BatchOp, NEW ac \in Requests, NEW m \in Model, Write(op, ac, m)
    PROVE  IInv'
  <1>1. PICK e \in Effects(op, rows, ac, m) : Autocommit(m, e)
    BY DEF Write
  <1>2. e.allowed
    BY <1>1 DEF Autocommit
  <1>3. table \in Tables /\ RowsInv(rows, model, used) /\ StructsInv(model, used) /\ ac \in Context
    BY RequestTypes DEF IInv, TypeOK, Core
  <1>4. \/ IsEdit(e, rows, m)
        \/ \E i \in InsertKeys(rows, m) : \E r :
              i \in Id /\ IsInsertion(e, rows, m, i, r) /\ (e.works <=> ~ Exists(rows[i]))
    BY <1>2, <1>3, EffectKinds
  <1> QED
    BY <1>1, <1>4, EditStep, InsertStep

LEMMA SoftDeleteStep ==
    ASSUME IInv, NEW ac \in Requests, NEW m \in Model, SoftDelete(ac, m)
    PROVE  IInv'
  <1>1. IsEdit(SoftDeletion(rows, ac, m), rows, m)
    BY SoftDeletionIsEdit DEF IInv, Core
  <1> QED
    BY <1>1, EditStep DEF SoftDelete

LEMMA NewStructStep ==
    ASSUME IInv, NEW m \in Model, NewStruct(m)
    PROVE  IInv'
  BY TakesStep, ZeroTypes DEF NewStruct

LEMMA FindStep ==
    ASSUME IInv, NEW s, NEW m \in Model, Find(s, m)
    PROVE  IInv'
  <1>1. PICK i \in Found(s) : Takes(m, StructOf(i))
    BY DEF Find
  <1>2. i \in Id /\ Exists(rows[i]) /\ rows \in [Id -> RowState]
    BY <1>1 DEF Found, FilteredForFind, IInv, TypeOK
  <1> QED
    BY <1>1, <1>2, StructOfTypes, TakesStep

LEMMA LoadStep ==
    ASSUME IInv, NEW ac, NEW m \in Model, Load(ac, m)
    PROVE  IInv'
  <1>1. PICK i \in Related(ac) : Takes(m, StructOf(i))
    BY DEF Load
  <1>2. i \in Id /\ Exists(rows[i]) /\ rows \in [Id -> RowState]
    BY <1>1 DEF Related, Scoped, IInv, TypeOK
  <1> QED
    BY <1>1, <1>2, StructOfTypes, TakesStep

-----------------------------------------------------------------------------
\* Batches

LEMMA NoBatchTypes ==
    /\ NoBatch \in BatchState
    /\ NoBatch.op = "none" /\ NoBatch.written = {} /\ NoBatch.start = 0 /\ NoBatch.index = 0
    /\ NoBatch.items = <<>> /\ NoBatch.done = <<>>
  <1>1. Unscoped \in Scoping
    BY ScopingTypes DEF Unscoped
  <1>2. NoRows \in [Id -> RowState]
    BY RowTypes DEF NoRows
  <1> QED
    BY <1>1, <1>2 DEF NoBatch, BatchState, Context, Level

LEMMA ChunkSizes ==
    ASSUME NEW total \in Nat, total > 0
    PROVE  ChunkSize(total) \in Nat \ {0}
  BY BatchAssumption DEF ChunkSize

\* A batch that has not begun, or has just begun.
LEMMA FreshBatch ==
    ASSUME batch' \in BatchState, batch'.written = {}, batch'.start = 0, batch'.index = 0, batch'.done = <<>>
    PROVE  BatchInv' /\ BatchRows' = [i \in Id |-> rows'[i]]
           /\ batch'.index \in 0..batch'.start + Len(batch'.items)
  <1>1. Len(batch'.items) \in Nat
    BY DEF BatchState
  <1>2. MoreChunks(batch') => batch'.index < ChunkEnd(batch')
    <2> SUFFICES ASSUME MoreChunks(batch') PROVE batch'.index < ChunkEnd(batch')
      OBVIOUS
    <2>1. 0 < Len(batch'.items)
      BY DEF MoreChunks
    <2>2. ChunkSize(Len(batch'.items)) \in Nat \ {0}
      BY <1>1, <2>1, ChunkSizes
    <2> HIDE DEF MoreChunks
    <2> QED
      BY <1>1, <2>1, <2>2 DEF ChunkEnd
  <1>3. BatchInv'
    BY <1>1, <1>2 DEF BatchInv
  <1>4. BatchRows' = [i \in Id |-> rows'[i]]
    BY DEF BatchRows
  <1> QED
    BY <1>1, <1>3, <1>4

LEMMA BatchBeginsStep ==
    ASSUME IInv, NEW op \in BatchOp, NEW ac \in Requests, NEW items \in Batches, BatchBegins(op, ac, items)
    PROVE  IInv'
  <1>1. /\ Core(rows, BatchRows, model, used) /\ rows \in [Id -> RowState]
        /\ TypeOK /\ BatchInv
    BY DEF IInv, TypeOK
  <1>2. items \in Seq(Model) /\ ac \in Context
    BY BatchAssumption, RequestTypes
  <1>3. batch' = [NoBatch EXCEPT !.op = op, !.ac = ac, !.items = items]
        /\ rows' = rows /\ model' = model /\ used' = used /\ table' = table
        /\ writes' \in 0..MaxWrite
    BY <1>1, BoundAssumption DEF BatchBegins, TypeOK
  <1>4. /\ batch' \in BatchState
        /\ batch'.written = {} /\ batch'.start = 0 /\ batch'.index = 0 /\ batch'.done = <<>>
    BY <1>2, <1>3, NoBatchTypes DEF BatchState
  <1>5. BatchInv' /\ BatchRows' = [i \in Id |-> rows'[i]]
        /\ batch'.index \in 0..batch'.start + Len(batch'.items)
    BY <1>4, FreshBatch
  <1>6. batch.written = {}
    BY <1>1 DEF BatchBegins, BatchInv
  <1>7. BatchRows = rows /\ BatchRows' = rows
    BY <1>1, <1>3, <1>5, <1>6 DEF BatchRows
  <1>8. Core(rows', BatchRows', model', used')
    BY <1>1, <1>3, <1>7
  <1>9. TypeOK'
    BY <1>1, <1>3, <1>4, <1>5, <1>8, TypesPrime DEF TypeOK
  <1> QED
    BY <1>3, <1>5, <1>8, <1>9, CorePrime DEF IInv

LEMMA NextIndex ==
    ASSUME NEW b \in BatchState, NEW y \in Nat, NEW a, a = [b EXCEPT !.index = y]
    PROVE  /\ a \in BatchState /\ a.op = b.op /\ a.items = b.items /\ a.ac = b.ac
           /\ a.start = b.start /\ a.index = y
  BY DEF BatchState

\* The loops over the chunks go over every item.
LEMMA AdvancedLoops ==
    ASSUME NEW b \in BatchState, MoreChunks(b), b.start <= b.index, b.index < ChunkEnd(b),
           NEW a, a = Advanced(b)
    PROVE  /\ a \in BatchState
           /\ a.op = b.op /\ a.items = b.items /\ a.ac = b.ac
           /\ a.start <= a.index
           /\ a.index \in 0..a.start + Len(a.items)
           /\ MoreChunks(a) => a.index < ChunkEnd(a)
           /\ b.index < Len(b.items)
           /\ (IF a.index < Len(a.items) THEN a.index ELSE Len(a.items)) = b.index + 1
  <1> DEFINE total == Len(b.items)
             c == ChunkSize(total)
  <1>1. b.start \in Nat /\ b.index \in Nat /\ total \in Nat
    BY DEF BatchState
  <1>2. b.start < total
    BY DEF MoreChunks
  <1>3. c \in Nat \ {0}
    BY <1>1, <1>2, ChunkSizes
  <1>4. ChunkEnd(b) = IF b.start + c > total THEN total ELSE b.start + c
    BY DEF ChunkEnd
  <1> HIDE DEF c, total
  <1>5. b.index < total
    BY <1>1, <1>2, <1>3, <1>4
  <1>6. CASE b.index + 1 < ChunkEnd(b)
    <2>1. a = [b EXCEPT !.index = b.index + 1]
      BY <1>6 DEF Advanced
    <2>2. /\ a \in BatchState /\ a.op = b.op /\ a.items = b.items /\ a.ac = b.ac
          /\ a.start = b.start /\ a.index = b.index + 1
      <3>1. b.index + 1 \in Nat
        BY <1>1
      <3> QED
        BY <2>1, <3>1, NextIndex
    <2>3. ChunkEnd(a) = ChunkEnd(b)
      BY <2>2 DEF ChunkEnd
    <2>4. Len(a.items) = total
      BY <2>2 DEF total
    <2>5. /\ a.start <= a.index /\ a.index \in 0..a.start + total
          /\ a.index < ChunkEnd(a)
      BY <1>1, <1>2, <1>3, <1>4, <1>6, <2>2, <2>3
    <2>6. (IF a.index < total THEN a.index ELSE total) = b.index + 1
      BY <1>1, <1>2, <1>3, <1>4, <1>6, <2>2
    <2>7. /\ a.index \in 0..a.start + Len(a.items)
          /\ (IF a.index < Len(a.items) THEN a.index ELSE Len(a.items)) = b.index + 1
      BY <2>4, <2>5, <2>6
    <2>8. b.index < Len(b.items)
      BY <1>5 DEF total
    <2> QED
      BY <2>2, <2>5, <2>7, <2>8
  <1>7. CASE ~ (b.index + 1 < ChunkEnd(b))
    <2>1. a = [b EXCEPT !.start = b.start + c, !.index = b.start + c]
      BY <1>7 DEF Advanced, c, total
    <2>2. /\ a \in BatchState /\ a.op = b.op /\ a.items = b.items /\ a.ac = b.ac
          /\ a.start = b.start + c /\ a.index = b.start + c
      <3>1. b.start + c \in Nat
        BY <1>1, <1>3
      <3>2. PICK x \in Nat : x = b.start + c
        BY <3>1
      <3>3. a = [b EXCEPT !.start = x, !.index = x]
        BY <2>1, <3>2
      <3>4. /\ a \in BatchState /\ a.op = b.op /\ a.items = b.items /\ a.ac = b.ac
            /\ a.start = x /\ a.index = x
        <4>1. /\ x \in Nat /\ b \in BatchState /\ a = [b EXCEPT !.start = x, !.index = x]
          BY <3>3
        <4> QED
          BY <4>1 DEF BatchState
      <3> QED
        BY <3>2, <3>4
    <2>3. Len(a.items) = total
      BY <2>2 DEF total
    <2>4. ChunkEnd(a) = IF a.start + c > total THEN total ELSE a.start + c
      BY <2>2 DEF ChunkEnd, c, total
    <2>5. MoreChunks(a) => a.start < total
      BY <2>3 DEF MoreChunks
    <2>6. b.index + 1 = ChunkEnd(b)
      BY <1>1, <1>3, <1>4, <1>7
    <2>7. MoreChunks(a) => a.index < ChunkEnd(a)
      BY <1>1, <1>3, <2>2, <2>4, <2>5
    <2>8. (IF a.index < total THEN a.index ELSE total) = b.index + 1
      BY <1>1, <1>3, <1>4, <2>2, <2>6
    <2>9. a.index \in 0..a.start + total /\ a.start <= a.index
      BY <1>1, <1>3, <2>2
    <2> QED
      BY <1>5, <2>2, <2>3, <2>7, <2>8, <2>9 DEF total
  <1> QED
    BY <1>6, <1>7

\* What an item writes becomes what the batch sees.
LEMMA WrittenBatchRows ==
    ASSUME NEW R \in [Id -> RowState], NEW W, W = batch.written \cup KeysOf(BatchRows, R),
           rows' = rows, batch'.written = W,
           batch'.rows = [i \in Id |-> IF i \in W THEN R[i] ELSE Absent]
    PROVE  BatchRows' = R
  <1>1. BatchRows' = [i \in Id |-> IF i \in W THEN [j \in Id |-> IF j \in W THEN R[j] ELSE Absent][i] ELSE rows[i]]
    BY DEF BatchRows
  <1>2. ASSUME NEW i \in Id, i \notin W PROVE R[i] = rows[i]
    BY <1>2, BatchRowsTypes DEF KeysOf
  <1> QED
    BY <1>1, <1>2

LEMMA BatchItemStep ==
    ASSUME IInv, BatchItem
    PROVE  IInv'
  <1> DEFINE m == batch.items[batch.index + 1]
             a == Advanced(batch)
  <1>1. /\ Core(rows, BatchRows, model, used)
        /\ TypeOK /\ BatchInv /\ batch \in BatchState /\ used \subseteq Id
        /\ rows \in [Id -> RowState] /\ BatchRows \in [Id -> RowState]
        /\ StructsInv(model, used) /\ RowsInv(BatchRows, model, used) /\ OneStructEach(rows, model)
        /\ model \in [Model -> Struct] /\ table \in Tables
    BY DEF IInv, TypeOK, Core, RowsInv, StructsInv
  <1>2. MoreChunks(batch) /\ batch.op \in BatchOp /\ batch.ac \in Context
    BY <1>1 DEF BatchItem, BatchState
  <1>3. /\ a \in BatchState
        /\ a.op = batch.op /\ a.items = batch.items
        /\ a.start <= a.index
        /\ a.index \in 0..a.start + Len(a.items)
        /\ MoreChunks(a) => a.index < ChunkEnd(a)
        /\ batch.index < Len(batch.items)
        /\ (IF a.index < Len(a.items) THEN a.index ELSE Len(a.items)) = batch.index + 1
    BY <1>1, <1>2, AdvancedLoops DEF BatchInv
  <1>4. m \in Model
    BY <1>1, <1>3 DEF BatchState
  <1>5. PICK e \in Effects(batch.op, BatchRows, batch.ac, m) :
           LET written == batch.written \cup KeysOf(BatchRows, e.rows) IN
           /\ e.allowed /\ e.works
           /\ batch' = [a EXCEPT !.rows = [i \in Id |-> IF i \in written THEN e.rows[i] ELSE Absent],
                                 !.written = written,
                                 !.done = Append(@, m)]
           /\ model' = [model EXCEPT ![m] = e.after]
           /\ used' = used \cup written
    BY DEF BatchItem
  <1>6. /\ table' = table /\ rows' = rows /\ writes' = writes
    BY DEF BatchItem
  <1> DEFINE written == batch.written \cup KeysOf(BatchRows, e.rows)
             seen == [i \in Id |-> IF i \in written THEN e.rows[i] ELSE Absent]
  <1>7. \/ IsEdit(e, BatchRows, m)
        \/ \E i \in InsertKeys(BatchRows, m) : \E r :
              i \in Id /\ IsInsertion(e, BatchRows, m, i, r) /\ (e.works <=> ~ Exists(BatchRows[i]))
    BY <1>1, <1>2, <1>4, <1>5, EffectKinds
  <1>8. e.rows \in [Id -> RowState]
    BY <1>1, <1>7 DEF IsEdit, Edited, IsInsertion, NewRow
  <1>9. written \in SUBSET Id /\ seen \in [Id -> RowState]
    BY <1>1, <1>8, RowTypes DEF KeysOf, BatchState
  <1>10. a.done \in Seq(Model) /\ a.done = batch.done
    <2>1. a.done = batch.done
      BY <1>1 DEF Advanced, BatchState
    <2> QED
      BY <1>3, <2>1 DEF BatchState
  <1> HIDE DEF a, m, seen, written
  <1>11. /\ batch' \in BatchState
         /\ batch'.op = a.op /\ batch'.items = a.items /\ batch'.start = a.start /\ batch'.index = a.index
         /\ batch'.rows = seen /\ batch'.written = written /\ batch'.done = Append(batch.done, m)
    <2>1. batch' = [a EXCEPT !.rows = seen, !.written = written, !.done = Append(a.done, m)]
      BY <1>5 DEF seen, written
    <2>2. Append(a.done, m) \in Seq(Model)
      BY <1>4, <1>10
    <2> QED
      BY <1>3, <1>9, <1>10, <2>1, <2>2 DEF BatchState
  <1>12. BatchRows' = e.rows
    BY <1>6, <1>8, <1>11, WrittenBatchRows DEF seen, written
  <1>13. used' = used \cup written /\ model' = [model EXCEPT ![m] = e.after] /\ e.works
    BY <1>5 DEF written
  <1>14. Edited(rows, rows') /\ Edited(BatchRows, BatchRows)
    BY <1>1, <1>6, EditedReflexive
  <1>15. ASSUME IsEdit(e, BatchRows, m)
         PROVE  /\ Core(rows', BatchRows', model', used')
                /\ \A j \in written : Taken(e.rows[j])
    <2>1. Edited(BatchRows, BatchRows') /\ Resent(model, model')
      BY <1>12, <1>13, <1>15 DEF IsEdit
    <2>2. Core(rows', BatchRows', model', used')
      BY <1>1, <1>13, <1>14, <2>1, EditedCore
    <2>3. ASSUME NEW i \in written PROVE Taken(e.rows[i])
      <3>1. i \in Id
        BY <1>9
      <3>2. Taken(BatchRows[i]) \/ e.rows[i] # BatchRows[i]
        BY <1>1, <2>3, <3>1, BatchRowsTypes DEF written, KeysOf, BatchInv
      <3> QED
        BY <1>12, <2>1, <3>1, <3>2, ExistsTaken, RemovedFields DEF Edited
    <2> QED
      BY <2>2, <2>3
  <1>16. ASSUME NEW i \in InsertKeys(BatchRows, m), i \in Id, NEW r,
                IsInsertion(e, BatchRows, m, i, r), ~ Exists(BatchRows[i])
         PROVE  /\ Core(rows', BatchRows', model', used')
                /\ \A j \in written : Taken(e.rows[j])
    <2>1. \A j \in Id : Taken(rows[j]) => Taken(BatchRows[j])
      BY <1>1 DEF Core, Follows
    <2>2. /\ ~ Taken(BatchRows[i]) /\ ~ Taken(rows[i])
          /\ model[m].id \in {i, Nil}
          /\ \A n \in Model : model[n].id = i => n = m
      BY <1>1, <1>4, <1>16, <2>1, InsertKeysAreFree
    <2>3. /\ NewRow(r) /\ r.origin = m
          /\ e.rows = [BatchRows EXCEPT ![i] = r]
          /\ e.after \in Struct /\ e.after.id = i /\ Agrees(e.after, r)
          /\ "created_by" \notin table.audit => e.after.createdBy = Nil
      BY <1>16 DEF IsInsertion
    <2>4. e.rows[i] = r /\ \A j \in Id : j # i => e.rows[j] = BatchRows[j]
      BY <1>1, <1>16, <2>3
    <2>5. i \in written
      BY <1>16, <2>3, <2>4 DEF written, KeysOf, NewRow
    <2>6. used \cup {i} \subseteq used'
      BY <1>13, <2>5
    <2>7. Core(rows, With(BatchRows, i, r), With(model, m, e.after), used')
      BY <1>1, <1>4, <1>16, <2>2, <2>3, <2>6, InsertedCore
    <2>8. Core(rows', BatchRows', model', used')
      BY <1>6, <1>12, <1>13, <2>3, <2>7 DEF With
    <2>9. ASSUME NEW j \in written PROVE Taken(e.rows[j])
      <3>1. j \in Id
        BY <1>9
      <3>2. Taken(BatchRows[j]) \/ e.rows[j] # BatchRows[j]
        BY <1>1, <2>9, <3>1, BatchRowsTypes DEF written, KeysOf, BatchInv
      <3> QED
        BY <2>3, <2>4, <3>1, <3>2, ExistsTaken DEF NewRow
    <2> QED
      BY <2>8, <2>9
  <1>17. /\ Core(rows', BatchRows', model', used')
         /\ \A j \in written : Taken(e.rows[j])
    BY <1>7, <1>13, <1>15, <1>16
  <1>18. TypeOK'
    <2>1. used' \subseteq Id /\ writes' \in 0..MaxWrite
      BY <1>1, <1>6, <1>9, <1>13 DEF TypeOK
    <2> QED
      BY <1>1, <1>3, <1>6, <1>11, <1>17, <2>1, TypesPrime
  <1>19. BatchInv'
    <2>1. \A i \in batch'.written : Taken(batch'.rows[i])
      BY <1>9, <1>11, <1>17 DEF seen
    <2>2. batch'.start <= batch'.index /\ batch'.op # "none"
      BY <1>2, <1>3, <1>11 DEF BatchOp
    <2>3. MoreChunks(batch') => batch'.index < ChunkEnd(batch')
      BY <1>3, <1>11 DEF MoreChunks, ChunkEnd
    <2>4. Len(batch.done) = batch.index /\ batch.done \in Seq(Model)
      BY <1>1, <1>3, <1>10 DEF BatchInv
    <2>5. Len(batch'.done) = batch.index + 1
      BY <1>4, <1>11, <2>4
    <2>6. Len(batch'.done) = IF batch'.index < Len(batch'.items) THEN batch'.index ELSE Len(batch'.items)
      BY <1>3, <1>11, <2>5
    <2>7. ASSUME NEW j \in 1..Len(batch'.done) PROVE batch'.done[j] = batch'.items[j]
      <3>1. batch.index \in Nat
        BY <1>1 DEF BatchState
      <3>2. CASE j = batch.index + 1
        BY <1>3, <1>4, <1>11, <2>4, <3>2 DEF m
      <3>3. CASE j # batch.index + 1
        <4>1. j \in 1..Len(batch.done)
          BY <2>4, <2>5, <3>1, <3>3
        <4>2. batch'.done[j] = batch.done[j]
          BY <1>4, <1>11, <2>4, <4>1
        <4> QED
          BY <1>1, <1>3, <1>11, <4>1, <4>2 DEF BatchInv
      <3> QED
        BY <3>2, <3>3
    <2> QED
      BY <2>1, <2>2, <2>3, <2>6, <2>7 DEF BatchInv
  <1> QED
    BY <1>6, <1>17, <1>18, <1>19, CorePrime DEF IInv

LEMMA UndoneIsResent ==
    ASSUME NEW S, NEW K, StructsInv(S, K)
    PROVE  Resent(S, Undone(S))
  <1>1. ASSUME NEW n \in Model
        PROVE  LET t == [S[n] EXCEPT !.failed = TRUE] IN
               t \in Struct /\ t.id = S[n].id /\ t.failed /\ t.createdBy = S[n].createdBy
    BY DEF StructsInv, Struct
  <1>2. ASSUME NEW n \in Model
        PROVE  /\ Undone(S)[n] \in Struct /\ Undone(S)[n].id = S[n].id
               /\ Undone(S)[n].createdBy = S[n].createdBy
               /\ Undone(S)[n].failed \/ Undone(S)[n] = S[n]
    BY <1>1 DEF Undone, StructsInv
  <1>3. Undone(S) \in [Model -> Struct]
    BY <1>2 DEF Undone
  <1>4. ASSUME NEW n \in Model PROVE S[n].failed \in BOOLEAN
    BY DEF StructsInv, Struct
  <1> QED
    BY <1>2, <1>3, <1>4 DEF Resent, StructsInv

\* The batch ends with what was committed, or with what it saw.
LEMMA BatchEnds ==
    ASSUME IInv, Core(rows, BatchRows, model', used),
           batch' = NoBatch, rows' = rows \/ rows' = BatchRows,
           table' = table, used' = used, writes' = writes
    PROVE  IInv'
  <1>1. TypeOK /\ used \subseteq Id /\ writes \in 0..MaxWrite
    BY DEF IInv, TypeOK
  <1>2. /\ batch' \in BatchState
        /\ BatchInv' /\ BatchRows' = [i \in Id |-> rows'[i]]
        /\ batch'.index \in 0..batch'.start + Len(batch'.items)
    BY NoBatchTypes, FreshBatch
  <1>3. rows' \in [Id -> RowState]
    BY DEF Core, RowsInv
  <1>4. BatchRows' = rows'
    BY <1>2, <1>3
  <1>5. OneStructEach(BatchRows, model')
    BY MoreRows DEF Core, Follows
  <1>6. Follows(rows', rows')
    BY DEF Follows
  <1>7. Core(rows', rows', model', used)
    BY <1>5, <1>6 DEF Core
  <1>8. Core(rows', BatchRows', model', used')
    BY <1>4, <1>7
  <1>9. TypeOK'
    BY <1>1, <1>2, <1>8, TypesPrime
  <1> QED
    BY <1>2, <1>8, <1>9, CorePrime DEF IInv

\* Structs that are sent, or undone, leave the rows as they are.
LEMMA ResentCore ==
    ASSUME NEW S, NEW T, Core(rows, BatchRows, S, used), Resent(S, T)
    PROVE  Core(rows, BatchRows, T, used)
  <1>1. Edited(rows, rows) /\ Edited(BatchRows, BatchRows)
    BY EditedReflexive DEF Core, RowsInv
  <1> QED
    BY <1>1, EditedCore

LEMMA BatchItemFailsStep ==
    ASSUME IInv, BatchItemFails
    PROVE  IInv'
  <1> DEFINE m == batch.items[batch.index + 1]
  <1>1. /\ Core(rows, BatchRows, model, used)
        /\ batch \in BatchState /\ BatchInv /\ table \in Tables
        /\ StructsInv(model, used) /\ RowsInv(BatchRows, model, used)
    BY DEF IInv, TypeOK, Core
  <1>2. MoreChunks(batch) /\ batch.op \in BatchOp /\ batch.ac \in Context
    BY <1>1 DEF BatchItemFails, BatchState
  <1>3. batch.index < Len(batch.items)
    <2> DEFINE a == Advanced(batch)
    <2> QED
      BY <1>1, <1>2, AdvancedLoops DEF BatchInv
  <1>4. m \in Model
    BY <1>1, <1>3 DEF BatchState
  <1>5. \/ model' = Undone(model)
        \/ \E e \in Effects(batch.op, BatchRows, batch.ac, m) :
              e.allowed /\ model' = Undone([model EXCEPT ![m] = e.sent])
    BY DEF BatchItemFails
  <1> HIDE DEF m
  <1>6. CASE model' = Undone(model)
    <2>1. Core(rows, BatchRows, model', used)
      BY <1>1, <1>6, UndoneIsResent, ResentCore
    <2> QED
      BY <2>1, BatchEnds DEF BatchItemFails
  <1>7. ASSUME NEW e \in Effects(batch.op, BatchRows, batch.ac, m), e.allowed,
               model' = Undone([model EXCEPT ![m] = e.sent])
        PROVE  IInv'
    <2> DEFINE T == [model EXCEPT ![m] = e.sent]
    <2>1. \/ IsEdit(e, BatchRows, m)
          \/ \E i \in InsertKeys(BatchRows, m) : \E r : IsInsertion(e, BatchRows, m, i, r)
      BY <1>1, <1>2, <1>4, <1>7, EffectKinds
    <2>2. Resent(model, T)
      BY <2>1 DEF IsEdit, IsInsertion
    <2>3. model' = Undone(T)
      BY <1>7
    <2> HIDE DEF T
    <2>4. Core(rows, BatchRows, T, used)
      BY <1>1, <2>2, ResentCore
    <2>5. StructsInv(T, used)
      BY <2>4 DEF Core
    <2>6. Core(rows, BatchRows, model', used)
      BY <2>3, <2>4, <2>5, UndoneIsResent, ResentCore
    <2> QED
      BY <2>6, BatchEnds DEF BatchItemFails
  <1> QED
    BY <1>5, <1>6, <1>7

LEMMA BatchCommitsStep ==
    ASSUME IInv, BatchCommits
    PROVE  IInv'
  BY BatchEnds DEF BatchCommits, IInv

LEMMA BatchCommitFailsStep ==
    ASSUME IInv, BatchCommitFails
    PROVE  IInv'
  <1>1. Core(rows, BatchRows, model, used) /\ StructsInv(model, used)
    BY DEF IInv, Core
  <1>2. Core(rows, BatchRows, model', used)
    BY <1>1, UndoneIsResent, ResentCore DEF BatchCommitFails
  <1> QED
    BY <1>2, BatchEnds DEF BatchCommitFails

-----------------------------------------------------------------------------
\* Initial states

LEMMA InitIInv == Init => IInv
  <1> SUFFICES ASSUME Init PROVE IInv
    OBVIOUS
  <1>1. /\ table \in Tables
        /\ used = {i \in Id : Exists(rows[i])}
        /\ model = [m \in Model |-> ZeroStruct]
        /\ batch = NoBatch /\ writes = 0
    BY DEF Init
  <1>2. /\ NoRows \in [Id -> RowState]
        /\ \A i \in Id : ~ Taken(NoRows[i]) /\ NoRows[i].status # "removed"
                         /\ ~ Exists(NoRows[i]) /\ NoRows[i].createdBy = Nil
    BY RowTypes DEF NoRows, Absent, NoRow, Taken, Exists
  <1>3. \/ rows = NoRows
        \/ \E i \in Id : \E r : NewRow(r) /\ r.origin = Nil /\ rows = [NoRows EXCEPT ![i] = r]
    <2>1. CASE rows = NoRows
      BY <2>1
    <2>2. ASSUME NEW i \in Id, NEW ac \in Requests,
                 EnforcesAudit(ac), rows = [NoRows EXCEPT ![i] = InsertedRow(ac, InsertStruct(ac, ZeroStruct), Nil)]
          PROVE  \E r : NewRow(r) /\ r.origin = Nil /\ rows = [NoRows EXCEPT ![i] = r]
      <3> DEFINE s == InsertStruct(ac, ZeroStruct)
                 r == InsertedRow(ac, s, Nil)
      <3>1. ac \in Context
        BY RequestTypes
      <3>2. /\ s \in Struct
            /\ "created_by" \in table.audit => s.createdBy = ac.values["user"]
            /\ "created_by" \notin table.audit => s.createdBy = Nil
        BY <1>1, <2>2, <3>1, ZeroTypes, InsertStructTypes
      <3> HIDE DEF s
      <3>3. /\ r \in RowState
            /\ r.status = "present" /\ r.scope = r.home /\ r.origin = Nil /\ r.createdBy = s.createdBy
            /\ r.creator = IF "created_by" \in table.audit THEN ac.values["user"] ELSE Nil
        BY <1>1, <3>1, <3>2, InsertedRowTypes
      <3>4. rows = [NoRows EXCEPT ![i] = r]
        BY <2>2 DEF s
      <3> HIDE DEF r
      <3> QED
        BY <3>2, <3>3, <3>4 DEF NewRow, Exists
    <2> QED
      BY <2>1, <2>2 DEF Init
  <1>4. StructsInv(model, used)
    BY <1>1, ZeroTypes DEF StructsInv
  <1>5. rows \in [Id -> RowState]
    BY <1>2, <1>3 DEF NewRow
  <1>6. ASSUME NEW i \in Id
        PROVE  /\ Taken(rows[i]) => Exists(rows[i])
               /\ rows[i].status # "removed"
               /\ Exists(rows[i]) => rows[i].origin = Nil /\ rows[i].scope = rows[i].home
                                     /\ rows[i].createdBy = rows[i].creator
               /\ "created_by" \notin table.audit => rows[i].createdBy = Nil
    BY <1>2, <1>3 DEF NewRow, Exists
  <1>7. \A m \in Model : model[m].id = Nil
    BY <1>1, ZeroTypes
  <1>8. RowsInv(rows, model, used)
    BY <1>1, <1>5, <1>6, <1>7, NamesAssumption DEF RowsInv, OneRowEach, Faithful
  <1>9. OneStructEach(rows, model) /\ Follows(rows, rows)
    BY <1>7 DEF OneStructEach, Follows
  <1>10. BatchRows = rows
    BY <1>1, <1>5, NoBatchTypes DEF BatchRows
  <1>11. TypeOK
    BY <1>1, <1>4, <1>5, NoBatchTypes, BoundAssumption DEF TypeOK, StructsInv
  <1>12. BatchInv
    BY <1>1, NoBatchTypes DEF BatchInv, MoreChunks
  <1> QED
    BY <1>4, <1>8, <1>9, <1>10, <1>11, <1>12 DEF IInv, Core

LEMMA Stutter == ASSUME IInv, UNCHANGED vars PROVE IInv'
  <1>1. BatchRows' = BatchRows
    BY DEF vars, BatchRows
  <1>2. Core(rows', BatchRows', model', used')
    BY <1>1 DEF vars, IInv
  <1> QED
    BY <1>2, SameBatch DEF vars, IInv, TypeOK

LEMMA NextIInv == ASSUME IInv, [Next]_vars PROVE IInv'
  <1>1. ASSUME NEW m \in Model, NewStruct(m) PROVE IInv'
    BY <1>1, NewStructStep
  <1>2. ASSUME NEW s \in Session, NEW m \in Model, Find(s, m) PROVE IInv'
    BY <1>2, FindStep
  <1>3. ASSUME NEW ac \in Requests, NEW m \in Model, Load(ac, m) PROVE IInv'
    BY <1>3, LoadStep
  <1>4. ASSUME NEW ac \in Requests, NEW m \in Model, Create(ac, m) \/ Update(ac, m) \/ Delete(ac, m) PROVE IInv'
    BY <1>4, WriteStep DEF Create, Update, Delete, BatchOp
  <1>5. ASSUME NEW ac \in Requests, NEW m \in Model, SoftDelete(ac, m) PROVE IInv'
    BY <1>5, SoftDeleteStep
  <1>6. ASSUME NEW ac \in Requests, NEW m \in Model, NEW where \in SUBSET Id, UpdateWhere(ac, m, where) PROVE IInv'
    BY <1>6, UpdateWhereStep
  <1>7. ASSUME NEW i \in Id, RawExec(i) PROVE IInv'
    BY <1>7, RawExecStep
  <1>8. ASSUME NEW op \in BatchOp, NEW ac \in Requests, NEW items \in Batches, BatchBegins(op, ac, items) PROVE IInv'
    BY <1>8, BatchBeginsStep
  <1>9. CASE BatchItem
    BY <1>9, BatchItemStep
  <1>10. CASE BatchItemFails
    BY <1>10, BatchItemFailsStep
  <1>11. CASE BatchCommits
    BY <1>11, BatchCommitsStep
  <1>12. CASE BatchCommitFails
    BY <1>12, BatchCommitFailsStep
  <1>13. CASE UNCHANGED vars
    BY <1>13, Stutter
  <1> QED
    BY <1>1, <1>2, <1>3, <1>4, <1>5, <1>6, <1>7, <1>8, <1>9, <1>10, <1>11, <1>12, <1>13 DEF Next

LEMMA Invariance == Spec => []IInv
  <1>1. IInv /\ [Next]_vars => IInv'
    BY NextIInv
  <1> QED
    BY <1>1, InitIInv, PTL DEF Spec

-----------------------------------------------------------------------------
\* The state of sessions, structs, rows and batches is well-formed.
THEOREM TypeCorrect == Spec => []TypeOK
  BY Invariance, PTL DEF IInv

\* When programs keep the discipline, a row keeps the scope it was inserted with,
\* whichever of their structs it is updated from.
THEOREM ScopesAreKept == Spec => []RowsKeepTheirScope
  <1>1. IInv => RowsKeepTheirScope
    BY DEF IInv, Core, RowsInv, Faithful, RowsKeepTheirScope
  <1> QED
    BY <1>1, Invariance, PTL

\* When programs keep the discipline, created_by names the user who inserted the row.
THEOREM CreatorsAreNamed == Disciplined => (Spec => []CreatedByNamesCreator)
  <1> SUFFICES ASSUME Disciplined PROVE Spec => []CreatedByNamesCreator
    OBVIOUS
  <1>1. IInv => CreatedByNamesCreator
    BY DEF IInv, Core, RowsInv, Faithful, CreatedByNamesCreator
  <1> QED
    BY <1>1, Invariance, PTL

\* However often Create is tried again, one row at most was inserted from a struct
\* through an INSERT whose outcome the session heard.
THEOREM OneRowPerStruct == Spec => []RetriedCreateMakesOneRow
  <1>1. ASSUME IInv, NEW m \in Model
        PROVE  Cardinality({i \in Id : Exists(rows[i]) /\ rows[i].origin = m}) <= 1
    <2> DEFINE made == {i \in Id : Exists(rows[i]) /\ rows[i].origin = m}
    <2>1. \A i \in made, j \in made : i = j
      BY <1>1 DEF IInv, Core, RowsInv, OneRowEach
    <2> HIDE DEF made
    <2>2. ASSUME made = {} PROVE Cardinality(made) <= 1
      BY <2>2, FS_EmptySet
    <2>3. ASSUME NEW i \in made PROVE Cardinality(made) <= 1
      <3>1. made = {i}
        BY <2>1
      <3> QED
        BY <3>1, FS_Singleton
    <2>4. Cardinality(made) <= 1
      BY <2>2, <2>3
    <2> QED
      BY <2>4 DEF made
  <1>2. IInv => RetriedCreateMakesOneRow
    BY <1>1 DEF RetriedCreateMakesOneRow
  <1> QED
    BY <1>2, Invariance, PTL

\* A batch that commits has written every item, each once and in order.
THEOREM BatchesAreComplete == Spec => BatchWritesEveryItem
  <1>1. ASSUME IInv, BatchCommits PROVE batch.done = batch.items
    <2>1. /\ batch \in BatchState /\ BatchInv
          /\ ~ MoreChunks(batch)
      BY <1>1 DEF IInv, TypeOK, BatchCommits
    <2>2. /\ batch.done \in Seq(Model) /\ batch.items \in Seq(Model)
          /\ batch.start \in Nat /\ batch.index \in Nat
      BY <2>1 DEF BatchState
    <2>3. Len(batch.done) = Len(batch.items)
      BY <2>1, <2>2 DEF BatchInv, MoreChunks
    <2>4. \A j \in 1..Len(batch.done) : batch.done[j] = batch.items[j]
      BY <2>1 DEF BatchInv
    <2> QED
      BY <2>2, <2>3, <2>4
  <1> QED
    BY <1>1, Invariance, PTL DEF Spec, BatchWritesEveryItem

-----------------------------------------------------------------------------
\* What a statement reaches

LEMMA ScopedPredicates ==
    ASSUME table \in Tables, NEW ac \in Context, HasScope(ac, table), NEW R, NEW s, NEW i \in Matches(R, ac, s)
    PROVE  InScope(ac, R[i])
  <1>1. ~ Denied(ac, table, "query")
    BY DEF Denied, AuditedBy
  <1>2. \A k \in ActiveScopes(ac, table) : R[i].scope[k] = ac.values[k]
    BY <1>1 DEF Matches, Scoped, AccessPredicates, Predicates
  <1> QED
    BY <1>2 DEF InScope

LEMMA RemovedInScope == ASSUME NEW ac PROVE InScope(ac, Removed)
  BY RemovedFields DEF InScope

\* A Create, Update or Delete by a context with its scopes changes rows of these
\* scopes only, and leaves them there.
LEMMA EffectsStayInScope ==
    ASSUME table \in Tables, NEW R \in [Id -> RowState], model \in [Model -> Struct],
           NEW ac \in Context, NEW m \in Model, NEW op \in BatchOp,
           HasScope(ac, table), OwnStruct(ac, m),
           NEW e \in Effects(op, R, ac, m), e.allowed, e.works, NEW i \in KeysOf(R, e.rows)
    PROVE  InScope(ac, R[i]) /\ InScope(ac, e.rows[i])
  <1> DEFINE at == Matches(R, ac, model[m])
  <1>1. i \in Id /\ e.rows[i] # R[i] /\ at \subseteq Id
    BY MatchesExist DEF KeysOf
  <1>2. table.scopes \subseteq Scope /\ ActiveScopes(ac, table) \subseteq table.scopes
    BY TablesAssumption DEF Table, ActiveScopes
  <1>3. i \in at => InScope(ac, R[i]) /\ Exists(R[i])
    BY ScopedPredicates, MatchesExist
  <1>4. CASE op = "create"
    <2>1. PICK j \in InsertKeys(R, m) : e = Insertion(R, ac, m, j)
      BY <1>4 DEF Effects
    <2> DEFINE s == InsertStruct(ac, model[m])
               r == InsertedRow(ac, s, m)
    <2>2. e.rows = [R EXCEPT ![j] = r] /\ ~ Exists(R[j])
      BY <2>1 DEF Insertion
    <2>3. /\ s \in Struct
          /\ \A k \in ActiveScopes(ac, table) : s.scope[k] = ac.values[k]
      BY InsertStructTypes
    <2> HIDE DEF s
    <2>4. r.scope = r.home /\ \A k \in table.scopes : r.home[k] = s.scope[k]
      BY <2>3, InsertedRowTypes
    <2> HIDE DEF r
    <2>5. i = j /\ e.rows[i] = r
      BY <1>1, <2>2
    <2> QED
      BY <1>2, <2>2, <2>3, <2>4, <2>5 DEF InScope
  <1>5. CASE op = "update"
    <2> DEFINE s == UpdateStruct(model[m])
    <2>1. e.rows = Changed(R, at, LAMBDA row : UpdatedRow(row, s))
      BY <1>5 DEF Effects, Change
    <2>2. s \in Struct /\ s.scope = model[m].scope
      BY UpdateStructTypes
    <2> HIDE DEF at, s
    <2>3. i \in at /\ e.rows[i] = UpdatedRow(R[i], s)
      BY <1>1, <2>1 DEF Changed
    <2>4. \A k \in Scope : e.rows[i].scope[k] =
             IF k \in table.scopes /\ s.scope[k] # Nil THEN s.scope[k] ELSE R[i].scope[k]
      BY <1>1, <2>2, <2>3, UpdatedRowTypes
    <2>5. InScope(ac, R[i]) /\ Exists(R[i])
      BY <1>3, <2>3
    <2>6. \A k \in ActiveScopes(ac, table) : s.scope[k] \in {Nil, ac.values[k]}
      BY <2>2 DEF OwnStruct
    <2> QED
      BY <1>2, <2>4, <2>5, <2>6 DEF InScope
  <1>6. CASE op = "delete" /\ SoftDeletes(table) /\ EnforcesSoftDelete(ac)
    <2>1. e.rows = Changed(R, at, LAMBDA row : [row EXCEPT !.deleted = TRUE])
      BY <1>6 DEF Effects, Deletion, SoftDeletion
    <2> HIDE DEF at
    <2>2. i \in at /\ e.rows[i] = [R[i] EXCEPT !.deleted = TRUE]
      BY <1>1, <2>1 DEF Changed
    <2>3. e.rows[i].status = R[i].status /\ e.rows[i].scope = R[i].scope
      BY <1>1, <2>2 DEF RowState
    <2> QED
      BY <1>3, <2>2, <2>3 DEF InScope, Exists
  <1>7. CASE op = "delete" /\ ~ (SoftDeletes(table) /\ EnforcesSoftDelete(ac))
    <2>1. e.rows = Changed(R, at, LAMBDA row : Removed)
      BY <1>7 DEF Effects, Deletion, HardDeletion
    <2> HIDE DEF at
    <2>2. i \in at /\ e.rows[i] = Removed
      BY <1>1, <2>1 DEF Changed
    <2> QED
      BY <1>3, <2>2, RemovedInScope
  <1> QED
    BY <1>4, <1>5, <1>6, <1>7 DEF BatchOp

\* With a context that has every scope its policy enforces, no operation reaches
\* a row of another scope or takes one out of its own.
THEOREM OperationsStayInScope == Spec => []WritesStayInScope
  <1>1. ASSUME IInv PROVE WritesStayInScope
    <2>1. /\ table \in Tables /\ model \in [Model -> Struct]
          /\ rows \in [Id -> RowState] /\ BatchRows \in [Id -> RowState]
      BY <1>1 DEF IInv, TypeOK, Core, RowsInv
    <2>2. ASSUME NEW R \in [Id -> RowState], NEW ac \in Requests, NEW m \in Model, NEW op \in BatchOp,
                 HasScope(ac, table), OwnStruct(ac, m),
                 NEW e \in Effects(op, R, ac, m), e.allowed, e.works, NEW i \in KeysOf(R, e.rows)
          PROVE  InScope(ac, R[i]) /\ InScope(ac, e.rows[i])
      <3>1. ac \in Context
        BY RequestTypes
      <3> QED
        BY <2>1, <2>2, <3>1, EffectsStayInScope
    <2> QED
      BY <2>1, <2>2 DEF WritesStayInScope
  <1> QED
    BY <1>1, Invariance, PTL
=============================================================================
