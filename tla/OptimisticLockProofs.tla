------------------------ MODULE OptimisticLockProofs ------------------------
(***************************************************************************)
(* No lost updates, for any clients, rows, ways to delete and number of    *)
(* writes.  What a matching version proves about content rests on where    *)
(* versions and contents can be: in what is committed, in what an open     *)
(* transaction has written, and in the models of every client.             *)
(***************************************************************************)
EXTENDS OptimisticLock, TLAPS

\* The content x is not to be drawn any more.
Drawn(x) == x.by = None \/ x.nr <= writes

RowDrawn(row) ==
    /\ row.version <= writes + 1
    /\ Drawn(row.content)
    /\ row.status = "absent" => row.version = 0

\* The versions and contents of rows and models come from past writes.
NothingFromTheFuture ==
    /\ \A r \in Row : RowDrawn(committed[r]) /\ RowDrawn(pending[r])
    /\ \A c \in Client, r \in Row :
          held[c][r].version <= writes + 1 /\ Drawn(held[c][r].content)

\* A row lock belongs to an open transaction, which knows the model it changed.
LocksBelong ==
    \A r \in Row : writer[r] # None => writer[r] \in inTx /\ r \in touched[writer[r]]

\* What a transaction has written to a row is new to everybody else, or is what it
\* found there.
PendingIsNew ==
    \A r \in Row : writer[r] # None =>
        \/ /\ pending[r].version = committed[r].version
           /\ pending[r].content = committed[r].content
        \/ /\ pending[r].version > committed[r].version
           /\ pending[r].content # committed[r].content
           /\ \A d \in Client \ {writer[r]} : held[d][r].content # pending[r].content

\* A model that no undone write has changed is of its row's past or present.
ModelsAreBehind ==
    \A c \in Client, r \in Row :
        r \notin unsafe[c] => held[c][r].version <= Visible(c, r).version

IInv ==
    /\ TypeOK
    /\ NothingFromTheFuture
    /\ LocksBelong
    /\ PendingIsNew
    /\ ModelsAreBehind
    /\ VersionIdentifiesContent

-----------------------------------------------------------------------------
LEMMA InitIInv == Init => IInv
  <1> SUFFICES ASSUME Init PROVE IInv
    OBVIOUS
  <1> USE NoClientAssumption, ExistingAssumption, MaxWriteAssumption
      DEF Init, Absent, Original, ZeroModel, NoContent
  <1>1. Absent \in RowState /\ Original \in RowState /\ ZeroModel \in Model
    BY DEF RowState, Model, Content
  <1>2. TypeOK
    BY <1>1 DEF TypeOK
  <1>3. NothingFromTheFuture
    BY DEF NothingFromTheFuture, RowDrawn, Drawn
  <1>4. LocksBelong /\ PendingIsNew
    BY DEF LocksBelong, PendingIsNew
  <1>5. ModelsAreBehind
    BY DEF ModelsAreBehind, Visible
  <1>6. VersionIdentifiesContent
    BY DEF VersionIdentifiesContent, Visible
  <1> QED
    BY <1>2, <1>3, <1>4, <1>5, <1>6 DEF IInv

-----------------------------------------------------------------------------
\* Transactions.

LEMMA BeginKeeps == ASSUME IInv, NEW c \in Client, Begin(c) PROVE IInv'
  BY DEF IInv, Begin, rowVars, TypeOK, NothingFromTheFuture, RowDrawn, Drawn, LocksBelong, PendingIsNew,
         ModelsAreBehind, VersionIdentifiesContent, Visible

\* The others see of the row what is newer than any model of theirs.
LEMMA CommitKeeps == ASSUME IInv, NEW c \in Client, Commit(c) PROVE IInv'
  <1> USE NoClientAssumption DEF Commit, EndTx, IInv
  <1>0. TypeOK
    OBVIOUS
  <1>1. Absent \in RowState
    BY MaxWriteAssumption DEF Absent, RowState, NoContent, Content
  <1>2. TypeOK'
    BY <1>0, <1>1 DEF TypeOK, Visible
  <1>3. NothingFromTheFuture'
    BY <1>0 DEF NothingFromTheFuture, RowDrawn, Drawn, TypeOK, Visible, Absent, NoContent
  <1>4. LocksBelong'
    BY <1>0 DEF LocksBelong, TypeOK
  <1>5. PendingIsNew'
    BY <1>0 DEF PendingIsNew, TypeOK, Visible
  <1>6. ModelsAreBehind' /\ VersionIdentifiesContent'
    <2> SUFFICES ASSUME NEW d \in Client, NEW r \in Row, r \notin unsafe[d]
                 PROVE  /\ held[d][r].version <= Visible(d, r)'.version
                        /\ held[d][r].version = Visible(d, r)'.version
                              <=> held[d][r].content = Visible(d, r)'.content
      BY DEF ModelsAreBehind, VersionIdentifiesContent
    <2>1. CASE writer[r] = c /\ d # c
      <3>1. Visible(d, r) = committed[r] /\ Visible(d, r)' = pending[r]
        BY <1>0, <2>1 DEF Visible, TypeOK
      <3>2. /\ held[d][r].version <= committed[r].version
            /\ held[d][r].version = committed[r].version <=> held[d][r].content = committed[r].content
        BY <3>1 DEF ModelsAreBehind, VersionIdentifiesContent
      <3>3. /\ held[d][r].version \in Nat
            /\ committed[r].version \in Nat
            /\ pending[r].version \in Nat
        BY <1>0 DEF TypeOK, RowState, Model
      <3>4. \/ /\ pending[r].version = committed[r].version
               /\ pending[r].content = committed[r].content
            \/ /\ pending[r].version > committed[r].version
               /\ held[d][r].content # pending[r].content
        BY <2>1 DEF PendingIsNew
      <3> QED
        BY <3>1, <3>2, <3>3, <3>4
    <2>2. CASE ~ (writer[r] = c /\ d # c)
      BY <1>0, <2>2 DEF ModelsAreBehind, VersionIdentifiesContent, Visible, TypeOK
    <2> QED
      BY <2>1, <2>2
  <1> QED
    BY <1>2, <1>3, <1>4, <1>5, <1>6

\* What the client's models have from the transaction, the client knows to be undone.
LEMMA RollbackKeeps == ASSUME IInv, NEW c \in Client, Rollback(c) PROVE IInv'
  <1> USE NoClientAssumption DEF Rollback, EndTx, IInv
  <1>0. TypeOK
    OBVIOUS
  <1>1. Absent \in RowState
    BY MaxWriteAssumption DEF Absent, RowState, NoContent, Content
  <1>2. TypeOK'
    BY <1>0, <1>1 DEF TypeOK
  <1>3. NothingFromTheFuture'
    BY <1>0 DEF NothingFromTheFuture, RowDrawn, Drawn, TypeOK, Absent, NoContent
  <1>4. LocksBelong'
    BY <1>0 DEF LocksBelong, TypeOK
  <1>5. PendingIsNew'
    BY <1>0 DEF PendingIsNew, TypeOK
  <1>6. ModelsAreBehind' /\ VersionIdentifiesContent'
    BY <1>0 DEF LocksBelong, ModelsAreBehind, VersionIdentifiesContent, Visible, TypeOK
  <1> QED
    BY <1>2, <1>3, <1>4, <1>5, <1>6

-----------------------------------------------------------------------------
\* Statements.

LEMMA LoadKeeps == ASSUME IInv, NEW c \in Client, NEW r \in Row, Load(c, r) PROVE IInv'
  <1> USE NoClientAssumption DEF Load, IInv, rowVars
  <1>0. TypeOK
    OBVIOUS
  <1>1. Visible(c, r) \in RowState /\ ModelOf(Visible(c, r)) \in Model
    BY <1>0 DEF TypeOK, Visible, RowState, Model, ModelOf
  <1>2. TypeOK'
    BY <1>0, <1>1 DEF TypeOK
  <1>3. NothingFromTheFuture'
    BY <1>0 DEF NothingFromTheFuture, RowDrawn, Drawn, TypeOK, ModelOf, Visible
  <1>4. LocksBelong'
    BY <1>0 DEF LocksBelong, TypeOK
  <1>5. PendingIsNew'
    BY <1>0 DEF PendingIsNew, TypeOK, ModelOf, Visible
  <1>6. ModelsAreBehind' /\ VersionIdentifiesContent'
    BY <1>0, <1>1 DEF ModelsAreBehind, VersionIdentifiesContent, Visible, TypeOK, ModelOf, RowState
  <1> QED
    BY <1>2, <1>3, <1>4, <1>5, <1>6

\* A statement that writes: the row is new, version and content, or is marked as
\* deleted and otherwise what it was; and the client's model is of the row, or of
\* the version and the content it was of before.
NewRow(c, r, row) ==
    /\ writes < MaxWrite /\ writes' = writes + 1
    /\ row \in RowState
    /\ row.status # "absent"
    /\ row.version = Visible(c, r).version + 1
    /\ row.content = Fresh(c)

SameRow(c, r, row) ==
    /\ writes' = writes
    /\ row \in RowState
    /\ row.status # "absent"
    /\ row.version = Visible(c, r).version
    /\ row.content = Visible(c, r).content

SameModel(m, n) == m \in Model /\ m.version = n.version /\ m.content = n.content

LEMMA FreshIsNew ==
    ASSUME IInv, NEW c \in Client, writes < MaxWrite
    PROVE  /\ Fresh(c) \in Content
           /\ ~ Drawn(Fresh(c))
           /\ \A r \in Row : committed[r].content # Fresh(c) /\ pending[r].content # Fresh(c)
           /\ \A d \in Client, r \in Row : held[d][r].content # Fresh(c)
  <1> USE NoClientAssumption, MaxWriteAssumption
  <1>1. writes \in 0..MaxWrite
    BY DEF IInv, TypeOK
  <1>2. Fresh(c) \in Content /\ ~ Drawn(Fresh(c))
    BY <1>1 DEF Fresh, Content, Drawn
  <1> QED
    BY <1>2 DEF IInv, NothingFromTheFuture, RowDrawn

LEMMA ModelOfRow == ASSUME NEW row \in RowState PROVE ModelOf(row) \in Model
  BY DEF RowState, Model, ModelOf

\* In a transaction, the row is pending.
LEMMA StoreInTx ==
    ASSUME IInv, NEW c \in Client, NEW r \in Row, NEW row, NEW m,
           c \in inTx, Unlocked(c, r), UNCHANGED <<inTx, committed>>,
           \/ NewRow(c, r, row) /\ m = ModelOf(row)
           \/ SameRow(c, r, row) /\ SameModel(m, held[c][r]),
           pending' = [pending EXCEPT ![r] = row],
           writer' = [writer EXCEPT ![r] = c],
           touched' = [touched EXCEPT ![c] = @ \cup {r}],
           held' = [held EXCEPT ![c][r] = m],
           unsafe' \in {unsafe, [unsafe EXCEPT ![c] = @ \ {r}]},
           SameRow(c, r, row) => unsafe' = unsafe
    PROVE  IInv'
  <1> USE NoClientAssumption DEF IInv
  <1>0. TypeOK
    OBVIOUS
  <1>1. row \in RowState /\ m \in Model /\ writes' \in 0..MaxWrite
    <2>1. row \in RowState
      BY DEF NewRow, SameRow
    <2>2. m \in Model
      BY <2>1, ModelOfRow DEF SameModel
    <2>3. writes' \in 0..MaxWrite
      BY <1>0, MaxWriteAssumption DEF NewRow, SameRow, TypeOK
    <2> QED
      BY <2>1, <2>2, <2>3
  <1>2. TypeOK'
    <2>1. /\ committed' \in [Row -> RowState] /\ pending' \in [Row -> RowState]
          /\ writer' \in [Row -> Client \cup {None}] /\ inTx' \in SUBSET Client
          /\ touched' \in [Client -> SUBSET Row]
      BY <1>0, <1>1 DEF TypeOK
    <2>2. held' \in [Client -> [Row -> Model]]
      BY <1>0, <1>1 DEF TypeOK
    <2>3. unsafe' \in [Client -> SUBSET Row]
      BY <1>0 DEF TypeOK
    <2> QED
      BY <1>1, <2>1, <2>2, <2>3 DEF TypeOK
  <1>3. \* What is everywhere but in r and in the client's model of r.
        /\ \A q \in Row \ {r} : pending'[q] = pending[q] /\ writer'[q] = writer[q]
        /\ pending'[r] = row /\ writer'[r] = c
        /\ \A d \in Client, q \in Row : d # c \/ q # r => held'[d][q] = held[d][q]
        /\ held'[c][r] = m
        /\ \A d \in Client, q \in Row : d # c \/ q # r => (q \in unsafe'[d] <=> q \in unsafe[d])
        /\ r \notin unsafe'[c] => r \notin unsafe[c] \/ NewRow(c, r, row)
    BY <1>0 DEF TypeOK
  <1>4. /\ writes \in Nat /\ writes' \in Nat /\ writes <= writes'
        /\ \A q \in Row : /\ committed[q].version \in Nat /\ committed[q].content \in Content
                          /\ pending[q].version \in Nat /\ pending[q].content \in Content
        /\ \A d \in Client, q \in Row :
              held[d][q].version \in Nat /\ held[d][q].content \in Content
    BY <1>0 DEF TypeOK, RowState, Model, NewRow, SameRow
  <1>5. NewRow(c, r, row) =>
            /\ ~ Drawn(Fresh(c))
            /\ Fresh(c).nr = writes'
            /\ \A q \in Row : committed[q].content # Fresh(c) /\ pending[q].content # Fresh(c)
            /\ \A d \in Client, q \in Row : held[d][q].content # Fresh(c)
    BY FreshIsNew DEF NewRow, Fresh
  <1>6. \A x \in Content : Drawn(x) => Drawn(x)'
    BY <1>4 DEF Drawn, Content
  <1>7. Visible(c, r).version \in Nat /\ RowDrawn(Visible(c, r))
        /\ Visible(c, r) \in {committed[r], pending[r]}
        /\ (writer[r] = None => Visible(c, r) = committed[r])
        /\ (writer[r] = c => Visible(c, r) = pending[r])
    BY <1>4 DEF Visible, NothingFromTheFuture
  <1>8. RowDrawn(row)' /\ m.version <= writes' + 1 /\ Drawn(m.content)'
    <2>1. CASE NewRow(c, r, row) /\ m = ModelOf(row)
      BY <1>4, <1>5, <1>7, <2>1 DEF NewRow, RowDrawn, Drawn, ModelOf
    <2>2. CASE SameRow(c, r, row) /\ SameModel(m, held[c][r])
      BY <1>4, <1>7, <2>2 DEF SameRow, SameModel, RowDrawn, Drawn, NothingFromTheFuture
    <2> QED
      BY <2>1, <2>2
  <1>9. NothingFromTheFuture'
    BY <1>3, <1>4, <1>6, <1>8 DEF NothingFromTheFuture, RowDrawn
  <1>10. LocksBelong'
    BY <1>0 DEF LocksBelong, TypeOK
  <1>11. PendingIsNew'
    <2> SUFFICES ASSUME NEW q \in Row, writer'[q] # None
                 PROVE  \/ /\ pending'[q].version = committed[q].version
                           /\ pending'[q].content = committed[q].content
                        \/ /\ pending'[q].version > committed[q].version
                           /\ pending'[q].content # committed[q].content
                           /\ \A d \in Client \ {writer'[q]} : held'[d][q].content # pending'[q].content
      BY DEF PendingIsNew
    <2>1. CASE q # r
      BY <1>3, <2>1 DEF PendingIsNew
    <2>2. CASE q = r /\ NewRow(c, r, row)
      BY <1>3, <1>4, <1>5, <1>7, <2>2 DEF PendingIsNew, NewRow, Unlocked
    <2>3. CASE q = r /\ SameRow(c, r, row)
      BY <1>3, <1>4, <1>7, <2>3 DEF PendingIsNew, SameRow, Unlocked
    <2> QED
      BY <2>1, <2>2, <2>3
  <1>12. ModelsAreBehind' /\ VersionIdentifiesContent'
    <2> SUFFICES ASSUME NEW d \in Client, NEW q \in Row, q \notin unsafe'[d]
                 PROVE  /\ held'[d][q].version <= Visible(d, q)'.version
                        /\ held'[d][q].version = Visible(d, q)'.version
                              <=> held'[d][q].content = Visible(d, q)'.content
      BY DEF ModelsAreBehind, VersionIdentifiesContent
    <2>1. CASE d # c \/ q # r
      <3>1. Visible(d, q)' = Visible(d, q)
        BY <1>3, <2>1 DEF Visible, Unlocked
      <3> QED
        BY <1>3, <2>1, <3>1 DEF ModelsAreBehind, VersionIdentifiesContent
    <2>2. CASE d = c /\ q = r
      <3>1. Visible(d, q)' = row
        BY <1>3, <2>2 DEF Visible
      <3>2. CASE NewRow(c, r, row) /\ m = ModelOf(row)
        BY <1>3, <1>7, <2>2, <3>1, <3>2 DEF ModelOf, NewRow
      <3>3. CASE SameRow(c, r, row) /\ SameModel(m, held[c][r])
        BY <1>3, <2>2, <3>1, <3>3 DEF SameRow, SameModel, ModelsAreBehind, VersionIdentifiesContent
      <3> QED
        BY <3>2, <3>3
    <2> QED
      BY <2>1, <2>2
  <1> QED
    BY <1>2, <1>9, <1>10, <1>11, <1>12

\* Outside one nobody has the row locked, and everybody sees it.  When the connection
\* breaks the row may be new and the model not, or the other way about, which the
\* client knows.
NewModel(c, r, m) == m.version = Visible(c, r).version + 1 /\ m.content = Fresh(c)

LEMMA StoreOutside ==
    ASSUME IInv, NEW c \in Client, NEW r \in Row, NEW row \in RowState, NEW m \in Model,
           c \notin inTx, Unlocked(c, r), UNCHANGED <<pending, writer, inTx, touched>>,
           committed' = [committed EXCEPT ![r] = row],
           held' = [held EXCEPT ![c][r] = m],
           NewRow(c, r, row) \/ row = committed[r] \/ SameRow(c, r, row),
           NewModel(c, r, m) \/ SameModel(m, held[c][r]),
           \/ writes' = writes + 1 /\ writes < MaxWrite
           \/ writes' = writes /\ SameModel(m, held[c][r]) /\ ~ NewRow(c, r, row),
           unsafe' \in {unsafe, [unsafe EXCEPT ![c] = @ \ {r}], [unsafe EXCEPT ![c] = @ \cup {r}]},
           r \notin unsafe'[c] =>
              \/ NewRow(c, r, row) /\ NewModel(c, r, m)
              \/ r \notin unsafe[c] /\ SameModel(m, held[c][r])
    PROVE  IInv'
  <1> USE NoClientAssumption DEF IInv
  <1>0. TypeOK
    OBVIOUS
  <1>1. writer[r] = None /\ Visible(c, r) = committed[r]
    BY <1>0 DEF TypeOK, LocksBelong, Unlocked, Visible
  <1>2. TypeOK'
    <2>1. committed' \in [Row -> RowState] /\ writes' \in 0..MaxWrite
      BY <1>0, MaxWriteAssumption DEF TypeOK
    <2>2. held' \in [Client -> [Row -> Model]]
      BY <1>0 DEF TypeOK
    <2>3. unsafe' \in [Client -> SUBSET Row]
      BY <1>0 DEF TypeOK
    <2> QED
      BY <1>0, <2>1, <2>2, <2>3 DEF TypeOK
  <1>3. /\ \A q \in Row \ {r} : committed'[q] = committed[q]
        /\ committed'[r] = row
        /\ \A d \in Client, q \in Row : d # c \/ q # r => held'[d][q] = held[d][q]
        /\ held'[c][r] = m
        /\ \A d \in Client, q \in Row : d # c \/ q # r => (q \in unsafe'[d] <=> q \in unsafe[d])
    BY <1>0 DEF TypeOK
  <1>4. /\ writes \in Nat /\ writes' \in Nat /\ writes <= writes'
        /\ \A q \in Row : /\ committed[q].version \in Nat /\ committed[q].content \in Content
                          /\ pending[q].version \in Nat /\ pending[q].content \in Content
        /\ \A d \in Client, q \in Row :
              held[d][q].version \in Nat /\ held[d][q].content \in Content
    BY <1>0 DEF TypeOK, RowState, Model
  <1>5. NewRow(c, r, row) \/ (NewModel(c, r, m) /\ writes' = writes + 1 /\ writes < MaxWrite) =>
            /\ Fresh(c).nr = writes'
            /\ \A q \in Row : committed[q].content # Fresh(c) /\ pending[q].content # Fresh(c)
            /\ \A d \in Client, q \in Row : held[d][q].content # Fresh(c)
    BY FreshIsNew DEF NewRow, Fresh
  <1>6. \A x \in Content : Drawn(x) => Drawn(x)'
    BY <1>4 DEF Drawn, Content
  <1>7. RowDrawn(committed[r]) /\ held[c][r].version <= writes + 1 /\ Drawn(held[c][r].content)
    BY DEF NothingFromTheFuture
  <1>8. RowDrawn(row)'
    <2>1. CASE NewRow(c, r, row)
      BY <1>1, <1>4, <1>5, <1>7, <2>1 DEF NewRow, RowDrawn, Drawn
    <2>2. CASE row = committed[r] \/ SameRow(c, r, row)
      <3>1. row.version = committed[r].version /\ row.content = committed[r].content
            /\ (row.status = "absent" => row = committed[r])
        BY <1>1, <2>2 DEF SameRow
      <3> QED
        BY <1>4, <1>6, <1>7, <3>1 DEF RowDrawn
    <2> QED
      BY <2>1, <2>2
  <1>13. m.version <= writes' + 1 /\ Drawn(m.content)'
    <2>1. CASE SameModel(m, held[c][r])
      BY <1>4, <1>6, <1>7, <2>1 DEF SameModel
    <2>2. CASE NewModel(c, r, m) /\ writes' = writes + 1 /\ writes < MaxWrite
      BY <1>1, <1>4, <1>5, <1>7, <2>2 DEF NewModel, RowDrawn, Drawn
    <2> QED
      BY <2>1, <2>2
  <1>9. NothingFromTheFuture'
    BY <1>3, <1>4, <1>6, <1>8, <1>13 DEF NothingFromTheFuture, RowDrawn
  <1>10. LocksBelong'
    BY <1>0 DEF LocksBelong, TypeOK
  <1>11. PendingIsNew'
    BY <1>1, <1>3 DEF PendingIsNew, SameModel, LocksBelong
  <1>12. ModelsAreBehind' /\ VersionIdentifiesContent'
    <2> SUFFICES ASSUME NEW d \in Client, NEW q \in Row, q \notin unsafe'[d]
                 PROVE  /\ held'[d][q].version <= Visible(d, q)'.version
                        /\ held'[d][q].version = Visible(d, q)'.version
                              <=> held'[d][q].content = Visible(d, q)'.content
      BY DEF ModelsAreBehind, VersionIdentifiesContent
    <2>1. CASE q # r
      <3>1. Visible(d, q)' = Visible(d, q)
        BY <1>3, <2>1 DEF Visible
      <3> QED
        BY <1>3, <2>1, <3>1 DEF ModelsAreBehind, VersionIdentifiesContent
    <2>2. CASE q = r
      <3>1. Visible(d, q)' = row /\ Visible(d, q) = committed[r]
        BY <1>1, <1>3, <2>2 DEF Visible
      <3>2. CASE NewRow(c, r, row) /\ NewModel(c, r, m) /\ d = c
        BY <1>1, <1>3, <1>4, <2>2, <3>1, <3>2 DEF NewModel, NewRow
      <3>3. CASE q \notin unsafe[d] /\ (d # c \/ SameModel(m, held[c][r]))
        <4>1. held'[d][q].version = held[d][q].version /\ held'[d][q].content = held[d][q].content
          BY <1>3, <2>2, <3>3 DEF SameModel
        <4>2. /\ held[d][r].version <= committed[r].version
              /\ held[d][r].version = committed[r].version <=> held[d][r].content = committed[r].content
          BY <2>2, <3>1, <3>3 DEF ModelsAreBehind, VersionIdentifiesContent
        <4> QED
          <5>1. CASE NewRow(c, r, row)
            BY <1>1, <1>4, <1>5, <2>2, <3>1, <4>1, <4>2, <5>1 DEF NewRow
          <5>2. CASE row = committed[r] \/ SameRow(c, r, row)
            BY <1>1, <2>2, <3>1, <4>1, <4>2, <5>2 DEF SameRow
          <5> QED
            BY <5>1, <5>2
      <3> QED
        BY <1>3, <2>2, <3>2, <3>3
    <2> QED
      BY <2>1, <2>2
  <1> QED
    BY <1>2, <1>9, <1>10, <1>11, <1>12

\* A model that is only marked as deleted.
Marked(c, r, b) == [held[c][r] EXCEPT !.deleted = @ \/ b]

LEMMA MarkedIsSame ==
    ASSUME TypeOK, NEW c \in Client, NEW r \in Row, NEW b \in BOOLEAN
    PROVE  /\ SameModel(Marked(c, r, b), held[c][r])
           /\ [held EXCEPT ![c][r].deleted = @ \/ b] = [held EXCEPT ![c][r] = Marked(c, r, b)]
  <1>1. held[c][r] \in Model
    BY DEF TypeOK
  <1>2. held[c][r].deleted \/ b \in BOOLEAN
    BY <1>1 DEF Model
  <1> QED
    BY <1>1, <1>2 DEF Model, Marked, SameModel

LEMMA MarkKeeps ==
    ASSUME IInv, NEW c \in Client, NEW r \in Row, NEW m, SameModel(m, held[c][r]),
           held' = [held EXCEPT ![c][r] = m],
           UNCHANGED <<rowVars, inTx, touched, unsafe, writes>>
    PROVE  IInv'
  <1> USE DEF IInv, rowVars, SameModel
  <1>1. TypeOK'
    BY DEF TypeOK
  <1>2. \A d \in Client, q \in Row : /\ held'[d][q].version = held[d][q].version
                                     /\ held'[d][q].content = held[d][q].content
    BY DEF TypeOK
  <1>3. \A d \in Client, q \in Row : Visible(d, q)' = Visible(d, q)
    BY DEF Visible
  <1>4. NothingFromTheFuture' /\ LocksBelong' /\ PendingIsNew'
    BY <1>2 DEF NothingFromTheFuture, RowDrawn, Drawn, LocksBelong, PendingIsNew
  <1>5. ModelsAreBehind' /\ VersionIdentifiesContent'
    BY <1>2, <1>3 DEF ModelsAreBehind, VersionIdentifiesContent
  <1> QED
    BY <1>1, <1>4, <1>5

\* What a client sees is a row, of drawn content.
LEMMA VisibleRow ==
    ASSUME IInv, NEW c \in Client, NEW r \in Row
    PROVE  /\ Visible(c, r) \in RowState
           /\ RowDrawn(Visible(c, r))
           /\ writes \in 0..MaxWrite
  BY DEF IInv, TypeOK, NothingFromTheFuture, Visible

\* Store for a statement that leaves a new row, or the row marked as deleted.
LEMMA StoreKeeps ==
    ASSUME IInv, NEW c \in Client, NEW r \in Row, NEW row, NEW m,
           Unlocked(c, r), Store(c, r, row), UNCHANGED inTx,
           \/ NewRow(c, r, row) /\ m = ModelOf(row)
           \/ SameRow(c, r, row) /\ SameModel(m, held[c][r]),
           held' = [held EXCEPT ![c][r] = m],
           unsafe' \in {unsafe, [unsafe EXCEPT ![c] = @ \ {r}]},
           SameRow(c, r, row) => unsafe' = unsafe
    PROVE  IInv'
  <1>1. CASE c \in inTx
    BY <1>1, StoreInTx DEF Store
  <1>2. CASE c \notin inTx
    <2>1. row \in RowState /\ m \in Model
      BY ModelOfRow DEF NewRow, SameRow, SameModel
    <2>2. NewRow(c, r, row) /\ m = ModelOf(row) => NewModel(c, r, m)
      BY DEF NewRow, NewModel, ModelOf
    <2>3. /\ committed' = [committed EXCEPT ![r] = row]
          /\ UNCHANGED <<pending, writer, touched>>
      BY <1>2 DEF Store
    <2>4. \/ writes' = writes + 1 /\ writes < MaxWrite
          \/ writes' = writes /\ SameModel(m, held[c][r]) /\ ~ NewRow(c, r, row)
      BY VisibleRow DEF NewRow, SameRow
    <2>5. r \notin unsafe'[c] =>
              \/ NewRow(c, r, row) /\ NewModel(c, r, m)
              \/ r \notin unsafe[c] /\ SameModel(m, held[c][r])
      BY <2>2
    <2> QED
      BY <1>2, <2>1, <2>2, <2>3, <2>4, <2>5, StoreOutside
  <1> QED
    BY <1>1, <1>2

LEMMA CreateKeeps == ASSUME IInv, NEW c \in Client, NEW r \in Row, Create(c, r) PROVE IInv'
  <1> DEFINE row == [status |-> "live", version |-> 1, content |-> Fresh(c)]
  <1>1. NewRow(c, r, row)
    BY VisibleRow, FreshIsNew, MaxWriteAssumption DEF Create, NewRow, RowState, RowDrawn
  <1> HIDE DEF row
  <1>2. /\ Unlocked(c, r) /\ Store(c, r, row) /\ UNCHANGED inTx
        /\ held' = [held EXCEPT ![c][r] = ModelOf(row)]
        /\ unsafe' = [unsafe EXCEPT ![c] = @ \ {r}]
    BY DEF Create, row
  <1>3. ~ SameRow(c, r, row)
    BY <1>1, VisibleRow DEF NewRow, SameRow
  <1> QED
    BY <1>1, <1>2, <1>3, StoreKeeps

LEMMA UpdatedIsNew ==
    ASSUME IInv, NEW c \in Client, NEW r \in Row, CanUpdate(c, r), writes' = writes + 1
    PROVE  /\ NewRow(c, r, Updated(c, r))
           /\ NewModel(c, r, ModelOf(Updated(c, r)))
           /\ ModelOf(Updated(c, r)) \in Model
  <1>1. UpdatedStatus(c, r) \in {"live", "deleted"}
    BY DEF UpdatedStatus
  <1>2. NewRow(c, r, Updated(c, r))
    BY <1>1, VisibleRow, FreshIsNew, MaxWriteAssumption
    DEF CanUpdate, Updated, NewRow, RowState, RowDrawn
  <1> QED
    BY <1>2, ModelOfRow DEF NewRow, NewModel, ModelOf

LEMMA UpdateRowKeeps == ASSUME IInv, NEW c \in Client, NEW r \in Row, UpdateRow(c, r) PROVE IInv'
  <1>1. NewRow(c, r, Updated(c, r))
    BY UpdatedIsNew DEF UpdateRow
  <1>2. ~ SameRow(c, r, Updated(c, r))
    BY <1>1, VisibleRow DEF NewRow, SameRow
  <1> QED
    BY <1>1, <1>2, StoreKeeps DEF UpdateRow, CanUpdate

LEMMA UpdateConflictKeeps ==
    ASSUME IInv, NEW c \in Client, NEW r \in Row, UpdateConflict(c, r) PROVE IInv'
  <1>1. (Removal[r] = "audit") \in BOOLEAN
    OBVIOUS
  <1>2. TypeOK
    BY DEF IInv
  <1> QED
    BY <1>1, <1>2, MarkedIsSame, MarkKeeps DEF UpdateConflict, MarkedModel

LEMMA UpdateBrokenKeeps ==
    ASSUME IInv, NEW c \in Client, NEW r \in Row, UpdateBroken(c, r) PROVE IInv'
  <1> DEFINE marked == Marked(c, r, Removal[r] = "audit")
  <1>0. TypeOK
    BY DEF IInv
  <1>1. SameModel(marked, held[c][r]) /\ MarkedModel(c, r) = [held EXCEPT ![c][r] = marked]
    BY <1>0, MarkedIsSame DEF MarkedModel
  <1> HIDE DEF marked
  <1>2. /\ c \notin inTx /\ Unlocked(c, r) /\ UNCHANGED <<pending, writer, inTx, touched>>
        /\ CanUpdate(c, r) /\ writes < MaxWrite /\ writes' = writes + 1
    BY DEF UpdateBroken, CanUpdate
  <1>3. /\ NewRow(c, r, Updated(c, r)) /\ NewModel(c, r, ModelOf(Updated(c, r)))
        /\ ModelOf(Updated(c, r)) \in Model
    BY <1>2, UpdatedIsNew
  <1>4. PICK row \in {committed[r], Updated(c, r)} : committed' = [committed EXCEPT ![r] = row]
    BY <1>0 DEF UpdateBroken, TypeOK
  <1>5. row \in RowState /\ (NewRow(c, r, row) \/ row = committed[r])
    BY <1>0, <1>3, <1>4 DEF TypeOK, NewRow
  <1>6. CASE held' = MarkedModel(c, r) /\ UNCHANGED unsafe
    BY <1>1, <1>2, <1>4, <1>5, <1>6, StoreOutside DEF SameModel
  <1>7. CASE /\ held' = [held EXCEPT ![c][r] = ModelOf(Updated(c, r))]
             /\ unsafe' = [unsafe EXCEPT ![c] = @ \cup {r}]
    <2>1. r \in unsafe'[c]
      BY <1>0, <1>7 DEF TypeOK
    <2> QED
      BY <1>2, <1>3, <1>4, <1>5, <1>7, <2>1, StoreOutside
  <1> QED
    BY <1>6, <1>7 DEF UpdateBroken

LEMMA DeleteKeeps == ASSUME IInv, NEW c \in Client, NEW r \in Row, Delete(c, r) PROVE IInv'
  <1> DEFINE marked == Marked(c, r, Removal[r] # "row")
             old == Visible(c, r)
             row == [status |-> IF Removal[r] = "row" THEN "removed" ELSE "deleted",
                     version |-> old.version, content |-> old.content]
  <1>0. TypeOK
    BY DEF IInv
  <1>1. SameModel(marked, held[c][r]) /\ held' = [held EXCEPT ![c][r] = marked]
    BY <1>0, MarkedIsSame DEF Delete
  <1>2. CASE Unlocked(c, r) /\ Store(c, r, row) /\ UNCHANGED <<inTx, unsafe, writes>>
    <2>1. SameRow(c, r, row)
      BY <1>2, VisibleRow DEF SameRow, RowState
    <2> HIDE DEF row, marked
    <2> QED
      BY <1>1, <1>2, <2>1, StoreKeeps
  <1>3. CASE UNCHANGED <<rowVars, touched, inTx, unsafe, writes>>
    <2> HIDE DEF marked
    <2> QED
      BY <1>1, <1>3, MarkKeeps
  <1> QED
    BY <1>2, <1>3 DEF Delete

-----------------------------------------------------------------------------
\* Next, by its actions.
LEMMA StepCases ==
    ASSUME [Next]_vars
    PROVE  \/ \E c \in Client : Begin(c) \/ Commit(c) \/ Rollback(c)
           \/ \E c \in Client, r \in Row :
                 \/ Load(c, r) \/ Create(c, r) \/ Delete(c, r)
                 \/ r \notin unsafe[c] /\ UpdateRow(c, r)
                 \/ UpdateConflict(c, r)
                 \/ r \notin unsafe[c] /\ UpdateBroken(c, r)
           \/ UNCHANGED vars
  BY DEF Next, Other, DisciplinedUpdate

LEMMA NextIInv == IInv /\ [Next]_vars => IInv'
  <1> SUFFICES ASSUME IInv, [Next]_vars PROVE IInv'
    OBVIOUS
  <1>1. ASSUME NEW c \in Client, Begin(c) \/ Commit(c) \/ Rollback(c) PROVE IInv'
    BY <1>1, BeginKeeps, CommitKeeps, RollbackKeeps
  <1>2. ASSUME NEW c \in Client, NEW r \in Row, Load(c, r) \/ Create(c, r) \/ Delete(c, r) PROVE IInv'
    BY <1>2, LoadKeeps, CreateKeeps, DeleteKeeps
  <1>3. ASSUME NEW c \in Client, NEW r \in Row,
               UpdateRow(c, r) \/ UpdateConflict(c, r) \/ UpdateBroken(c, r)
        PROVE  IInv'
    BY <1>3, UpdateRowKeeps, UpdateConflictKeeps, UpdateBrokenKeeps
  <1>4. CASE UNCHANGED vars
    BY <1>4 DEF vars, rowVars, IInv, TypeOK, NothingFromTheFuture, RowDrawn, Drawn, LocksBelong,
                PendingIsNew, ModelsAreBehind, VersionIdentifiesContent, Visible
  <1> QED
    BY <1>1, <1>2, <1>3, <1>4, StepCases

LEMMA Invariance == Spec => []IInv
  BY InitIInv, NextIInv, PTL DEF Spec

\* Locks, rows and models keep their shape through every interleaving of the
\* statements and transactions of orm/orm.go.
THEOREM TypeCorrect == Spec => []TypeOK
  <1>1. IInv => TypeOK
    BY DEF IInv
  <1> QED
    BY <1>1, Invariance, PTL

\* The version that Update puts in its WHERE clause stands for the content: for a
\* model that no undone write has changed, a matching version never hides a change
\* and a conflict is never a false alarm.
THEOREM VersionIsContent == Spec => []VersionIdentifiesContent
  <1>1. IInv => VersionIdentifiesContent
    BY DEF IInv
  <1> QED
    BY <1>1, Invariance, PTL

-----------------------------------------------------------------------------
\* Who writes what.

LEMMA FreshIsNotThere ==
    ASSUME IInv, NEW c \in Client, NEW r \in Row
    PROVE  committed[r].content # Fresh(c) /\ pending[r].content # Fresh(c)
  <1>1. writes \in Nat
    BY DEF IInv, TypeOK
  <1>2. ~ Drawn(Fresh(c))
    BY <1>1, NoClientAssumption DEF Drawn, Fresh
  <1> QED
    BY <1>2 DEF IInv, NothingFromTheFuture, RowDrawn

LEMMA StoredContent ==
    ASSUME IInv, NEW c \in Client, NEW r \in Row, NEW d \in Client, NEW q \in Row, NEW row,
           Store(d, q, row), Writes(c, r)
    PROVE  q = r /\ row.content = Fresh(c)
  <1>1. TypeOK
    BY DEF IInv
  <1>2. /\ committed'[r] = committed[r] \/ (q = r /\ committed'[r] = row)
        /\ pending'[r] = pending[r] \/ (q = r /\ pending'[r] = row)
    BY <1>1 DEF Store, TypeOK
  <1> QED
    BY <1>2, FreshIsNotThere DEF Writes

LEMMA EndWritesNothing ==
    ASSUME IInv, NEW c \in Client, NEW r \in Row, NEW d \in Client, Commit(d) \/ Rollback(d)
    PROVE  ~ Writes(c, r)
  <1>1. /\ committed'[r] = committed[r] \/ committed'[r] = pending[r]
        /\ pending'[r] = pending[r] \/ pending'[r] = Absent
    BY DEF Commit, Rollback, EndTx, Visible
  <1>2. Absent.content # Fresh(c)
    BY NoClientAssumption DEF Absent, NoContent, Fresh
  <1> QED
    BY <1>1, <1>2, FreshIsNotThere DEF Writes

LEMMA WriteReplacesWhatWasRead ==
    ASSUME IInv, [Next]_vars, NEW c \in Client, NEW r \in Row,
           Writes(c, r), Visible(c, r).status # "absent"
    PROVE  held[c][r].content = Visible(c, r).content
  <1>1. ~ UNCHANGED rowVars
    BY FreshIsNotThere DEF Writes, rowVars
  <1>2. \A d \in Client : ~ Begin(d) /\ ~ Commit(d) /\ ~ Rollback(d)
    BY <1>1, EndWritesNothing DEF Begin
  <1>3. \A d, q : ~ Load(d, q) /\ ~ UpdateConflict(d, q)
    BY <1>1 DEF Load, UpdateConflict
  <1>4. \A x, y : Fresh(x) = Fresh(y) => x = y
    BY DEF Fresh
  <1>5. ASSUME NEW d \in Client, NEW q \in Row, Create(d, q) PROVE FALSE
    <2> DEFINE row == [status |-> "live", version |-> 1, content |-> Fresh(d)]
    <2>1. Store(d, q, row) /\ Visible(d, q).status = "absent"
      BY <1>5 DEF Create
    <2>2. q = r /\ row.content = Fresh(c)
      BY <2>1, StoredContent
    <2> QED
      BY <1>4, <2>1, <2>2
  <1>6. ASSUME NEW d \in Client, NEW q \in Row, Delete(d, q) PROVE FALSE
    <2> DEFINE row == [status |-> IF Removal[q] = "row" THEN "removed" ELSE "deleted",
                       version |-> Visible(d, q).version, content |-> Visible(d, q).content]
    <2>1. Store(d, q, row)
      BY <1>1, <1>6 DEF Delete
    <2>2. q = r /\ row.content = Fresh(c)
      BY <2>1, StoredContent
    <2>3. row.content = committed[r].content \/ row.content = pending[r].content
      BY <2>2 DEF Visible
    <2> QED
      BY <2>2, <2>3, FreshIsNotThere
  <1>7. ASSUME NEW d \in Client, NEW q \in Row, q \notin unsafe[d], UpdateRow(d, q) \/ UpdateBroken(d, q)
        PROVE  held[c][r].content = Visible(c, r).content
    <2>1. MatchesModel(d, q)
      BY <1>7 DEF UpdateRow, UpdateBroken, CanUpdate
    <2>2. q = r /\ d = c
      <3>1. Updated(d, q).content = Fresh(d)
        BY DEF Updated
      <3>2. CASE UpdateRow(d, q)
        BY <1>4, <3>1, <3>2, StoredContent DEF UpdateRow
      <3>3. CASE UpdateBroken(d, q)
        <4>1. committed'[r] = committed[r] \/ (q = r /\ committed'[r] = Updated(d, q))
          BY <3>3 DEF UpdateBroken, IInv, TypeOK
        <4>2. pending' = pending
          BY <3>3 DEF UpdateBroken
        <4> QED
          BY <1>4, <3>1, <4>1, <4>2, FreshIsNotThere DEF Writes
      <3> QED
        BY <1>7, <3>2, <3>3
    <2>3. held[c][r].version = Visible(c, r).version
      BY <2>1, <2>2 DEF MatchesModel
    <2> QED
      BY <1>7, <2>2, <2>3 DEF IInv, VersionIdentifiesContent
  <1> QED
    BY <1>1, <1>2, <1>3, <1>5, <1>6, <1>7, StepCases DEF vars

\* ADR-034 for every number of clients and rows: whoever's Update writes a row that is
\* there, in a transaction or not, with or without its connection breaking, replaces
\* the content its model was read from.
THEOREM UpdatesLoseNothing == Spec => NoLostUpdate
  <1>1. IInv /\ [Next]_vars =>
           [\A c \in Client, r \in Row :
               Writes(c, r) /\ Visible(c, r).status # "absent"
                  => held[c][r].content = Visible(c, r).content]_vars
    BY WriteReplacesWhatWasRead
  <1> QED
    BY <1>1, Invariance, PTL DEF Spec, NoLostUpdate

-----------------------------------------------------------------------------
\* What a step does to a committed row.
Grows(r) ==
    /\ committed'[r].version >= committed[r].version
    /\ committed'[r].content # committed[r].content
          => committed'[r].version > committed[r].version

LEMMA SameGrows ==
    ASSUME IInv, NEW r \in Row,
           committed'[r].version = committed[r].version, committed'[r].content = committed[r].content
    PROVE  Grows(r)
  <1>1. committed[r].version \in Nat
    BY DEF IInv, TypeOK, RowState
  <1> QED
    BY <1>1 DEF Grows

LEMMA StoreGrows ==
    ASSUME IInv, NEW r \in Row, NEW d \in Client, NEW q \in Row, NEW row,
           Unlocked(d, q), Store(d, q, row), NewRow(d, q, row) \/ SameRow(d, q, row)
    PROVE  Grows(r)
  <1>1. CASE committed'[r] = committed[r]
    BY <1>1, SameGrows
  <1>2. CASE committed'[r] # committed[r]
    <2>1. d \notin inTx /\ q = r /\ committed'[r] = row
      BY <1>2 DEF Store, IInv, TypeOK
    <2>2. Visible(d, q) = committed[r]
      BY <2>1, NoClientAssumption DEF Visible, Unlocked, IInv, LocksBelong
    <2>3. committed[r].version \in Nat
      BY DEF IInv, TypeOK, RowState
    <2> QED
      BY <2>1, <2>2, <2>3, SameGrows DEF NewRow, SameRow, Grows
  <1> QED
    BY <1>1, <1>2

LEMMA StepGrows == ASSUME IInv, [Next]_vars, NEW r \in Row PROVE Grows(r)
  <1>1. CASE UNCHANGED committed
    BY <1>1, SameGrows
  <1>2. ASSUME NEW d \in Client, Commit(d) PROVE Grows(r)
    <2>1. committed'[r] = Visible(d, r) /\ d # None
      BY <1>2, NoClientAssumption DEF Commit
    <2>2. committed[r].version \in Nat /\ pending[r].version \in Nat
      BY DEF IInv, TypeOK, RowState
    <2>3. CASE writer[r] = d
      BY <2>1, <2>2, <2>3 DEF Visible, IInv, PendingIsNew, Grows
    <2>4. CASE writer[r] # d
      BY <2>1, <2>4, SameGrows DEF Visible
    <2> QED
      BY <2>3, <2>4
  <1>3. ASSUME NEW d \in Client, NEW q \in Row, Create(d, q) PROVE Grows(r)
    <2> DEFINE row == [status |-> "live", version |-> 1, content |-> Fresh(d)]
    <2>1. NewRow(d, q, row) /\ Unlocked(d, q) /\ Store(d, q, row)
      BY <1>3, VisibleRow, FreshIsNew, MaxWriteAssumption DEF Create, NewRow, RowState, RowDrawn
    <2> HIDE DEF row
    <2> QED
      BY <2>1, StoreGrows
  <1>4. ASSUME NEW d \in Client, NEW q \in Row, Delete(d, q) PROVE Grows(r)
    <2> DEFINE row == [status |-> IF Removal[q] = "row" THEN "removed" ELSE "deleted",
                       version |-> Visible(d, q).version, content |-> Visible(d, q).content]
    <2>1. UNCHANGED committed \/ (SameRow(d, q, row) /\ Unlocked(d, q) /\ Store(d, q, row))
      BY <1>4, VisibleRow DEF Delete, SameRow, RowState, rowVars
    <2> HIDE DEF row
    <2> QED
      BY <1>1, <2>1, StoreGrows
  <1>5. ASSUME NEW d \in Client, NEW q \in Row, UpdateRow(d, q) PROVE Grows(r)
    BY <1>5, UpdatedIsNew, StoreGrows DEF UpdateRow, CanUpdate
  <1>6. ASSUME NEW d \in Client, NEW q \in Row, UpdateBroken(d, q) PROVE Grows(r)
    <2>1. NewRow(d, q, Updated(d, q)) /\ Unlocked(d, q) /\ d \notin inTx
      BY <1>6, UpdatedIsNew DEF UpdateBroken, CanUpdate
    <2>2. UNCHANGED committed \/ Store(d, q, Updated(d, q))
      BY <1>6, <2>1 DEF UpdateBroken, Store
    <2> QED
      BY <1>1, <2>1, <2>2, StoreGrows
  <1>7. \A d, q : Begin(d) \/ Rollback(d) \/ Load(d, q) \/ UpdateConflict(d, q) => UNCHANGED committed
    BY DEF Begin, Rollback, Load, UpdateConflict, rowVars
  <1> QED
    BY <1>1, <1>2, <1>3, <1>4, <1>5, <1>6, <1>7, StepCases DEF vars, rowVars

\* version = version + 1 in the SET clause, under the row lock: what the other
\* transactions see of a row never goes back, and never changes under one version.
THEOREM VersionsGrow == Spec => CommittedVersionGrows
  <1>1. IInv /\ [Next]_vars =>
           [\A r \in Row :
               /\ committed'[r].version >= committed[r].version
               /\ committed'[r].content # committed[r].content
                     => committed'[r].version > committed[r].version]_vars
    BY StepGrows DEF Grows
  <1> QED
    BY <1>1, Invariance, PTL DEF Spec, CommittedVersionGrows
=============================================================================
