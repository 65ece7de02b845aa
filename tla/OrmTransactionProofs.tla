------------------------ MODULE OrmTransactionProofs ------------------------
(***************************************************************************)
(* Proofs about OrmTransaction, for every set of handles and writes and    *)
(* every bound on savepoint names.                                         *)
(*                                                                         *)
(* The inductive invariant IInv says, beyond the types: what an unused and *)
(* a used handle look like; that a savepoint name belongs to one handle;   *)
(* that the stack of a sql.Tx is sorted by name; and that no write made    *)
(* through a handle is in the mark of its own or of an earlier savepoint,  *)
(* so that ROLLBACK TO removes all of them.                                *)
(***************************************************************************)
EXTENDS OrmTransaction, TLAPS

\* A handle before and after its Begin.
HandleOK(h) ==
    /\ txState[h] = "none" =>
          /\ savepoint[h] = 0
          /\ outcome[h] = "none"
          /\ server[h] = NoTransaction
          /\ tx[h] = None
          /\ \A w \in Write : via[w] # h
    /\ txState[h] # "none" =>
          /\ tx[h] \in Handle
          /\ savepoint[h] \in 0..savepointSeq
          /\ savepoint[h] = 0 <=> tx[h] = h
          /\ tx[tx[h]] = tx[h]
    /\ txState[h] = "open" => outcome[h] = "none"
    /\ server[h].status # "none" => tx[h] = h
    /\ server[h].status = "none" => tx[h] # h

HandleInv == \A h \in Handle : HandleOK(h)

\* A savepoint name is allocated once.
NamesDistinct ==
    \A g, h \in Handle : savepoint[g] = savepoint[h] /\ savepoint[g] # 0 => g = h

\* A savepoint stack is sorted by name, and holds allocated names only.
StackSorted ==
    \A t \in Handle :
        /\ \A i \in DOMAIN server[t].savepoints :
              server[t].savepoints[i].name \in 1..savepointSeq
        /\ \A i, j \in DOMAIN server[t].savepoints :
              i < j => server[t].savepoints[i].name < server[t].savepoints[j].name

\* The writes of a handle came after its savepoint, and after every earlier one.
MarksPrecede ==
    \A h, t \in Handle, w \in Write :
        savepoint[h] # 0 /\ via[w] = h =>
            \A i \in DOMAIN server[t].savepoints :
                server[t].savepoints[i].name <= savepoint[h]
                    => w \notin server[t].savepoints[i].mark

\* Where acknowledged writes can be.
WriteInv ==
    /\ \A w \in acked \cup inflight \cup durable : via[w] # None
    /\ durable \subseteq acked
    /\ late \subseteq acked
    /\ inflight \cap acked = {}
    /\ \A t \in Handle :
          /\ server[t].pending \subseteq AckedIn(t)
          /\ \A i \in DOMAIN server[t].savepoints :
                server[t].savepoints[i].mark \subseteq AckedIn(t)

\* The writes of a rolled back handle are gone from every place they could
\* come back from.
RolledBackGone ==
    \A w \in acked \ late, t \in Handle :
        outcome[via[w]] = "rolled_back" =>
            /\ w \notin durable
            /\ w \notin server[t].pending
            /\ \A i \in DOMAIN server[t].savepoints : w \notin server[t].savepoints[i].mark

\* Nothing acknowledged leaves a running transaction but by a nested rollback.
NothingLost ==
    \A t \in Handle :
        server[t].status \in {"active", "aborted"} /\ ~ PartlyUndone(t)
            => AckedIn(t) \subseteq server[t].pending

\* The inductive invariant: no step of any handle leads out of it.
IInv ==
    /\ TypeOK
    /\ HandleInv
    /\ NamesDistinct
    /\ StackSorted
    /\ MarksPrecede
    /\ WriteInv
    /\ RolledBackGone
    /\ NothingLost
    /\ DurableOnlyAfterRootCommit
    /\ ClosedRootReleasesConnection
    /\ RootOutcomeTruthful
-----------------------------------------------------------------------------
\* The transaction operators, field by field.

LEMMA FailedFields ==
    ASSUME NEW s \in Transaction
    PROVE  /\ Failed(s) \in Transaction
           /\ Failed(s).pending = s.pending
           /\ Failed(s).savepoints = s.savepoints
           /\ Failed(s).status = IF s.status = "active" THEN "aborted" ELSE s.status
  BY DEF Failed, Transaction, TxStatus

LEMMA InsertedFields ==
    ASSUME NEW s \in Transaction, NEW w \in Write
    PROVE  /\ Inserted(s, w) \in Transaction
           /\ Inserted(s, w).pending = s.pending \cup {w}
           /\ Inserted(s, w).savepoints = s.savepoints
           /\ Inserted(s, w).status = s.status
  BY DEF Inserted, Transaction

LEMMA SavedFields ==
    ASSUME NEW s \in Transaction, NEW n \in Nat
    PROVE  /\ Saved(s, n) \in Transaction
           /\ Saved(s, n).pending = s.pending
           /\ Saved(s, n).status = s.status
           /\ DOMAIN s.savepoints \subseteq Nat
           /\ DOMAIN Saved(s, n).savepoints \subseteq Nat
           /\ \A i \in DOMAIN Saved(s, n).savepoints :
                 \/ /\ i \in DOMAIN s.savepoints
                    /\ Saved(s, n).savepoints[i] = s.savepoints[i]
                 \/ /\ i \notin DOMAIN s.savepoints
                    /\ \A j \in DOMAIN Saved(s, n).savepoints : j <= i
                    /\ Saved(s, n).savepoints[i].name = n
                    /\ Saved(s, n).savepoints[i].mark = s.pending
  <1>1. [name |-> n, mark |-> s.pending] \in Savepoint
    BY DEF Transaction, Savepoint
  <1> DEFINE q == Append(s.savepoints, [name |-> n, mark |-> s.pending])
             l == Len(s.savepoints)
  <1>2. s.savepoints \in Seq(Savepoint) /\ s.pending \in SUBSET Write /\ s.status \in TxStatus
    BY DEF Transaction
  <1>3. /\ q \in Seq(Savepoint)
        /\ l \in Nat
        /\ DOMAIN s.savepoints = 1..l
        /\ DOMAIN q = 1..(l + 1)
        /\ \A i \in 1..l : q[i] = s.savepoints[i]
        /\ q[l + 1] = [name |-> n, mark |-> s.pending]
    BY <1>1, <1>2
  <1>4. Saved(s, n) = [status |-> s.status, pending |-> s.pending, savepoints |-> q]
    BY DEF Saved
  <1> HIDE DEF q, l
  <1>5. \A i \in DOMAIN q :
           \/ i \in DOMAIN s.savepoints /\ q[i] = s.savepoints[i]
           \/ /\ i \notin DOMAIN s.savepoints
              /\ \A j \in DOMAIN q : j <= i
              /\ q[i].name = n
              /\ q[i].mark = s.pending
    <2> SUFFICES ASSUME NEW i \in 1..(l + 1), i \notin 1..l
                 PROVE  /\ \A j \in 1..(l + 1) : j <= i
                        /\ q[i].name = n
                        /\ q[i].mark = s.pending
      BY <1>3
    <2>1. i = l + 1
      BY <1>3
    <2>2. QED
      BY <1>3, <2>1
  <1>6. DOMAIN s.savepoints \subseteq Nat /\ DOMAIN q \subseteq Nat
    BY <1>3
  <1>7. QED
    BY <1>2, <1>3, <1>4, <1>5, <1>6 DEF Transaction

LEMMA DiscardedFields ==
    ASSUME NEW s \in Transaction
    PROVE  /\ Discarded(s) \in Transaction
           /\ Broken(s) \in Transaction
           /\ NewTransaction \in Transaction
           /\ NoTransaction \in Transaction
           /\ Published(s) \in Transaction
           /\ Published(s).pending = s.pending
           /\ Published(s).savepoints = <<>>
           /\ Published(s).status = "ended"
  <1>1. <<>> \in Seq(Savepoint) /\ {} \in SUBSET Write
    OBVIOUS
  <1>2. s.pending \in SUBSET Write
    BY DEF Transaction
  <1>3. \A x \in TxStatus, p \in SUBSET Write :
          [status |-> x, pending |-> p, savepoints |-> <<>>] \in Transaction
    BY <1>1 DEF Transaction
  <1>4. Published(s) = [status |-> "ended", pending |-> s.pending, savepoints |-> <<>>]
    BY DEF Published
  <1>5. QED
    BY <1>1, <1>2, <1>3, <1>4 DEF Discarded, Broken, NewTransaction, NoTransaction, TxStatus

\* With a sorted stack a savepoint name has one position.
LEMMA PositionFound ==
    ASSUME NEW s \in Transaction, NEW n \in Nat, HasSavepoint(s, n),
           \A i, j \in DOMAIN s.savepoints :
              i < j => s.savepoints[i].name < s.savepoints[j].name
    PROVE  /\ Position(s, n) \in DOMAIN s.savepoints
           /\ s.savepoints[Position(s, n)].name = n
  <1> DEFINE P(i) == /\ s.savepoints[i].name = n
                     /\ \A j \in DOMAIN s.savepoints : s.savepoints[j].name = n => j <= i
  <1>1. PICK i \in DOMAIN s.savepoints : s.savepoints[i].name = n
    BY DEF HasSavepoint
  <1>2. \A j \in DOMAIN s.savepoints : s.savepoints[j].name = n => j <= i
    <2> SUFFICES ASSUME NEW j \in DOMAIN s.savepoints, s.savepoints[j].name = n, ~ (j <= i)
                 PROVE  FALSE
      OBVIOUS
    <2>1. i < j
      BY DEF Transaction
    <2>2. QED
      BY <1>1, <2>1 DEF Transaction, Savepoint
  <1>3. \E k \in DOMAIN s.savepoints : P(k)
    BY <1>1, <1>2
  <1>4. Position(s, n) \in DOMAIN s.savepoints /\ P(Position(s, n))
    BY <1>3 DEF Position
  <1>5. QED
    BY <1>4

LEMMA ReleasedFields ==
    ASSUME NEW s \in Transaction, NEW n, Position(s, n) \in DOMAIN s.savepoints
    PROVE  /\ Released(s, n) \in Transaction
           /\ Released(s, n).pending = s.pending
           /\ Released(s, n).status = s.status
           /\ DOMAIN Released(s, n).savepoints = 1..(Position(s, n) - 1)
           /\ \A i \in 1..(Position(s, n) - 1) : Released(s, n).savepoints[i] = s.savepoints[i]
  <1> DEFINE p == Position(s, n)
             q == SubSeq(s.savepoints, 1, p - 1)
  <1>1. s.savepoints \in Seq(Savepoint) /\ s.pending \in SUBSET Write /\ s.status \in TxStatus
    BY DEF Transaction
  <1>2. p \in 1..Len(s.savepoints)
    BY <1>1
  <1> HIDE DEF p
  <1>3. /\ q \in Seq(Savepoint)
        /\ DOMAIN q = 1..(p - 1)
        /\ \A i \in 1..(p - 1) : q[i] = s.savepoints[i]
    BY <1>1, <1>2
  <1>4. Released(s, n) = [status |-> s.status, pending |-> s.pending, savepoints |-> q]
    BY DEF Released, p
  <1> HIDE DEF q
  <1>5. QED
    BY <1>1, <1>3, <1>4 DEF Transaction, p

LEMMA RolledBackToFields ==
    ASSUME NEW s \in Transaction, NEW n, Position(s, n) \in DOMAIN s.savepoints
    PROVE  /\ RolledBackTo(s, n) \in Transaction
           /\ RolledBackTo(s, n).pending = s.savepoints[Position(s, n)].mark
           /\ RolledBackTo(s, n).status = "active"
           /\ DOMAIN RolledBackTo(s, n).savepoints = 1..Position(s, n)
           /\ \A i \in 1..Position(s, n) : RolledBackTo(s, n).savepoints[i] = s.savepoints[i]
  <1> DEFINE p == Position(s, n)
             q == SubSeq(s.savepoints, 1, p)
  <1>1. s.savepoints \in Seq(Savepoint)
    BY DEF Transaction
  <1>a. p \in 1..Len(s.savepoints)
    BY <1>1
  <1> HIDE DEF p
  <1>b. s.savepoints[p] \in Savepoint
    BY <1>1, <1>a
  <1>2. p \in 1..Len(s.savepoints) /\ s.savepoints[p].mark \in SUBSET Write
    BY <1>a, <1>b DEF Savepoint
  <1>3. /\ q \in Seq(Savepoint)
        /\ DOMAIN q = 1..p
        /\ \A i \in 1..p : q[i] = s.savepoints[i]
    BY <1>1, <1>2
  <1>4. RolledBackTo(s, n) =
          [status |-> "active", pending |-> s.savepoints[p].mark, savepoints |-> q]
    BY DEF RolledBackTo, p
  <1> HIDE DEF q
  <1>5. QED
    BY <1>2, <1>3, <1>4 DEF Transaction, TxStatus, p

-----------------------------------------------------------------------------
\* Steps that several actions have in common.

\* A new handle takes no part in what happened before its Begin.
LEMMA NewHandleKeeps ==
    ASSUME IInv, NEW h \in Handle, txState[h] = "none", NEW t, NEW n, NewHandle(h, t, n),
           via' = via, acked' = acked, outcome' = outcome
    PROVE  \A u \in Handle : /\ AckedIn(u)' = AckedIn(u)
                             /\ PartlyUndone(u)' <=> PartlyUndone(u)
  <1> SUFFICES ASSUME NEW u \in Handle
               PROVE  /\ AckedIn(u)' = AckedIn(u)
                      /\ PartlyUndone(u)' <=> PartlyUndone(u)
    OBVIOUS
  <1>1. \A g \in Handle \ {h} : tx'[g] = tx[g] /\ savepoint'[g] = savepoint[g]
    BY DEF NewHandle, IInv, TypeOK
  <1>2. \A w \in acked : via[w] \in Handle \ {h}
    BY DEF IInv, TypeOK, HandleInv, HandleOK, WriteInv
  <1>3. AckedIn(u)' = AckedIn(u)
    BY <1>1, <1>2 DEF AckedIn
  <1>4. outcome[h] = "none"
    BY DEF IInv, HandleInv, HandleOK
  <1>5. PartlyUndone(u)' <=> PartlyUndone(u)
    BY <1>1, <1>4 DEF PartlyUndone
  <1>6. QED
    BY <1>3, <1>5

\* A step that adds no write and no savepoint to the sql.Tx it changes keeps
\* the parts of the invariant about handles, stacks, marks and writes.
LEMMA ShrinkInv ==
    ASSUME IInv, NEW t \in Handle, NEW r \in Transaction,
           server' = [server EXCEPT ![t] = r],
           server[t].status # "none", r.status # "none",
           r.pending \subseteq AckedIn(t),
           DOMAIN r.savepoints \subseteq DOMAIN server[t].savepoints,
           \A i \in DOMAIN r.savepoints : r.savepoints[i] = server[t].savepoints[i],
           UNCHANGED <<tx, savepoint, savepointSeq, via, acked, late>>,
           inflight' \subseteq inflight,
           durable' \subseteq durable \cup server[t].pending,
           \A h \in Handle : /\ txState'[h] = "none" <=> txState[h] = "none"
                             /\ txState[h] = "none" => outcome'[h] = outcome[h]
                             /\ txState'[h] = "open" => outcome'[h] = "none"
    PROVE  /\ HandleInv'
           /\ NamesDistinct'
           /\ StackSorted'
           /\ MarksPrecede'
           /\ WriteInv'
  <1>i. /\ HandleInv /\ NamesDistinct /\ StackSorted /\ MarksPrecede /\ WriteInv
        /\ acked \subseteq Write
    BY DEF IInv, TypeOK
  <1>u. server'[t] = r /\ \A u \in Handle \ {t} : server'[u] = server[u]
    BY DEF IInv, TypeOK
  <1>1. HandleInv'
    <2> SUFFICES ASSUME NEW g \in Handle
                 PROVE  HandleOK(g)'
      BY DEF HandleInv
    <2>1. HandleOK(g) /\ HandleOK(t)
      BY <1>i DEF HandleInv
    <2>2. CASE g = t
      <3>1. txState[t] # "none"
        BY <2>1 DEF HandleOK, NoTransaction
      <3>2. QED
        BY <1>u, <2>1, <2>2, <3>1 DEF HandleOK
    <2>3. CASE g # t
      BY <1>u, <2>1, <2>3 DEF HandleOK
    <2>4. QED
      BY <2>2, <2>3
  <1>2. NamesDistinct'
    BY <1>i DEF NamesDistinct
  <1>3. StackSorted'
    BY <1>i, <1>u DEF StackSorted
  <1>4. MarksPrecede'
    BY <1>i, <1>u DEF MarksPrecede
  <1>5. WriteInv'
    <2>1. \A u \in Handle :
             /\ server'[u].pending \subseteq AckedIn(u)
             /\ \A i \in DOMAIN server'[u].savepoints :
                   server'[u].savepoints[i].mark \subseteq AckedIn(u)
      BY <1>i, <1>u DEF WriteInv
    <2>2. \A u \in Handle : AckedIn(u)' = AckedIn(u)
      BY DEF AckedIn
    <2>3. server[t].pending \subseteq acked
      BY <1>i DEF WriteInv, AckedIn
    <2>4. QED
      BY <1>i, <2>1, <2>2, <2>3 DEF WriteInv
  <1>6. QED
    BY <1>1, <1>2, <1>3, <1>4, <1>5

\* A step that may fail, release or end a sql.Tx, and may close a nested handle
\* without rolling it back.
LEMMA QuietInv ==
    ASSUME IInv, TypeOK', NEW t \in Handle, NEW r \in Transaction,
           server' = [server EXCEPT ![t] = r],
           server[t].status # "none", r.status # "none",
           server[t].status = "ended" => r.status = "ended",
           r.status \in {"active", "aborted"}
              => server[t].status \in {"active", "aborted"} /\ r.pending = server[t].pending,
           r.pending \subseteq server[t].pending,
           DOMAIN r.savepoints \subseteq DOMAIN server[t].savepoints,
           \A i \in DOMAIN r.savepoints : r.savepoints[i] = server[t].savepoints[i],
           UNCHANGED <<tx, savepoint, savepointSeq, durable, via, acked, late>>,
           inflight' \subseteq inflight,
           \A g \in Handle :
              \/ txState'[g] = txState[g] /\ outcome'[g] = outcome[g]
              \/ /\ txState[g] = "open" /\ txState'[g] = "closed" /\ tx[g] # g
                 /\ outcome'[g] \notin {"none", "rolled_back"}
    PROVE  IInv'
  <1>i. /\ HandleInv /\ WriteInv /\ RolledBackGone /\ NothingLost
        /\ DurableOnlyAfterRootCommit /\ ClosedRootReleasesConnection /\ RootOutcomeTruthful
        /\ acked \subseteq Write /\ durable \subseteq Write
        /\ \A w \in Write : via[w] \in Handle \cup {None}
    BY DEF IInv, TypeOK
  <1>u. server'[t] = r /\ \A u \in Handle \ {t} : server'[u] = server[u]
    BY DEF IInv, TypeOK
  <1>o. \A g \in Handle : txState[g] \in {"none", "open"} => outcome[g] = "none"
    BY <1>i DEF HandleInv, HandleOK
  <1>v. \A w \in acked : via[w] \in Handle /\ tx[via[w]] \in Handle
    BY <1>i DEF WriteInv, HandleInv, HandleOK
  <1>k. \A u \in Handle : AckedIn(u)' = AckedIn(u) /\ (PartlyUndone(u)' <=> PartlyUndone(u))
    BY <1>o DEF AckedIn, PartlyUndone
  <1>1. HandleInv' /\ NamesDistinct' /\ StackSorted' /\ MarksPrecede' /\ WriteInv'
    <2>1. r.pending \subseteq AckedIn(t)
      BY <1>i DEF WriteInv
    <2>2. QED
      BY <1>o, <2>1, ShrinkInv, ZenonT(60)
  <1>2. RolledBackGone'
    <2>1. \A w \in acked : outcome'[via[w]] = "rolled_back" => outcome[via[w]] = "rolled_back"
      BY <1>v
    <2>2. QED
      BY <1>i, <1>u, <2>1 DEF RolledBackGone
  <1>3. NothingLost'
    BY <1>i, <1>u, <1>k DEF NothingLost
  <1>4. DurableOnlyAfterRootCommit'
    BY <1>i, <1>o, <1>v DEF DurableOnlyAfterRootCommit, WriteInv
  <1>5. ClosedRootReleasesConnection'
    BY <1>i, <1>u DEF ClosedRootReleasesConnection
  <1>6. RootOutcomeTruthful'
    BY <1>i, <1>k DEF RootOutcomeTruthful
  <1>7. QED
    BY <1>1, <1>2, <1>3, <1>4, <1>5, <1>6 DEF IInv

\* A step that asks the server nothing, and may close a nested handle that it
\* does not report rolled back.
LEMMA UntouchedInv ==
    ASSUME IInv, UNCHANGED <<server, tx, savepoint, savepointSeq, durable, via, acked, late>>,
           inflight' \subseteq inflight,
           txState' \in [Handle -> {"none", "open", "closed"}],
           outcome' \in [Handle -> Outcome],
           \A g \in Handle :
              \/ txState'[g] = txState[g] /\ outcome'[g] = outcome[g]
              \/ /\ txState[g] = "open" /\ txState'[g] = "closed" /\ tx[g] # g
                 /\ outcome'[g] \notin {"none", "rolled_back"},
           NEW t \in Handle, server[t].status # "none"
    PROVE  IInv'
  <1>1. TypeOK'
    BY DEF IInv, TypeOK
  <1>2. server[t] \in Transaction /\ server' = [server EXCEPT ![t] = server[t]]
    BY DEF IInv, TypeOK
  <1>3. /\ server[t].pending \subseteq server[t].pending
        /\ DOMAIN server[t].savepoints \subseteq DOMAIN server[t].savepoints
        /\ \A i \in DOMAIN server[t].savepoints : server[t].savepoints[i] = server[t].savepoints[i]
    OBVIOUS
  <1>4. QED
    BY <1>1, <1>2, <1>3, QuietInv, ZenonT(60)

\* A step that closes a root handle and ends its sql.Tx.
LEMMA RootEndInv ==
    ASSUME IInv, TypeOK', NEW h \in Handle, NEW r \in Transaction, NEW result,
           txState[h] = "open", savepoint[h] = 0,
           server' = [server EXCEPT ![h] = r],
           r.status = "ended", r.savepoints = <<>>, r.pending \subseteq server[h].pending,
           txState' = [txState EXCEPT ![h] = "closed"],
           outcome' = [outcome EXCEPT ![h] = result],
           UNCHANGED <<tx, savepoint, savepointSeq, inflight, via, acked, late>>,
           \/ /\ result \in {"committed", "commit_failed"}
              /\ server[h].status = "active"
              /\ durable' = durable \cup server[h].pending
           \/ result = "commit_failed" /\ durable' = durable
           \/ result \in {"rolled_back", "rollback_failed"} /\ durable' = durable /\ r.pending = {}
    PROVE  IInv'
  <1>i. /\ HandleInv /\ WriteInv /\ RolledBackGone /\ NothingLost
        /\ DurableOnlyAfterRootCommit /\ ClosedRootReleasesConnection /\ RootOutcomeTruthful
        /\ acked \subseteq Write /\ durable \subseteq Write
    BY DEF IInv, TypeOK
  <1>u. server'[h] = r /\ \A u \in Handle \ {h} : server'[u] = server[u]
    BY DEF IInv, TypeOK
  <1>o. /\ txState'[h] = "closed" /\ outcome'[h] = result
        /\ \A g \in Handle \ {h} : txState'[g] = txState[g] /\ outcome'[g] = outcome[g]
    BY DEF IInv, TypeOK
  <1>r. outcome[h] = "none" /\ tx[h] = h /\ server[h].status # "none"
    BY <1>i DEF HandleInv, HandleOK
  <1>v. \A w \in acked : via[w] \in Handle /\ tx[via[w]] \in Handle
    BY <1>i DEF WriteInv, HandleInv, HandleOK, IInv, TypeOK
  <1>p. server[h].pending \subseteq AckedIn(h) /\ AckedIn(h) \cap durable = {}
    BY <1>i, <1>r DEF WriteInv, DurableOnlyAfterRootCommit, AckedIn
  <1>k. \A u \in Handle : AckedIn(u)' = AckedIn(u) /\ (PartlyUndone(u)' <=> PartlyUndone(u))
    BY <1>o, <1>r DEF AckedIn, PartlyUndone
  <1>1. HandleInv' /\ NamesDistinct' /\ StackSorted' /\ MarksPrecede' /\ WriteInv'
    <2>1. \A g \in Handle : /\ txState'[g] = "none" <=> txState[g] = "none"
                            /\ txState[g] = "none" => outcome'[g] = outcome[g]
                            /\ txState'[g] = "open" => outcome'[g] = "none"
      BY <1>o, <1>i DEF HandleInv, HandleOK
    <2>2. DOMAIN r.savepoints = {}
      OBVIOUS
    <2>3. r.pending \subseteq AckedIn(h) /\ durable' \subseteq durable \cup server[h].pending
      BY <1>p
    <2>4. QED
      BY <1>r, <2>1, <2>2, <2>3, ShrinkInv, ZenonT(60)
  <1>2. RolledBackGone'
    <2> SUFFICES ASSUME NEW w \in acked \ late, NEW u \in Handle,
                        outcome'[via[w]] = "rolled_back"
                 PROVE  /\ w \notin durable'
                        /\ w \notin server'[u].pending
                        /\ \A i \in DOMAIN server'[u].savepoints :
                              w \notin server'[u].savepoints[i].mark
      BY DEF RolledBackGone
    <2>1. CASE via[w] = h
      <3>1. durable' = durable /\ r.pending = {} /\ w \in AckedIn(h)
        BY <1>o, <1>r, <2>1 DEF AckedIn
      <3>2. u # h => w \notin AckedIn(u)
        BY <2>1, <1>r DEF AckedIn
      <3>3. QED
        BY <1>i, <1>u, <1>p, <3>1, <3>2 DEF WriteInv
    <2>2. CASE via[w] # h
      BY <1>i, <1>u, <1>o, <1>v, <2>2 DEF RolledBackGone
    <2>3. QED
      BY <2>1, <2>2
  <1>3. NothingLost'
    BY <1>i, <1>u, <1>k DEF NothingLost
  <1>4. DurableOnlyAfterRootCommit'
    <2>1. \A w \in durable : tx[via[w]] # h
      BY <1>i, <1>r DEF DurableOnlyAfterRootCommit
    <2>2. \A w \in durable : tx[via[w]] \in Handle
      BY <1>i, <1>v DEF WriteInv
    <2>3. \A w \in durable' \ durable : tx[via[w]] = h /\ result \in {"committed", "commit_failed"}
      BY <1>p DEF AckedIn
    <2>4. QED
      BY <1>i, <1>o, <2>1, <2>2, <2>3 DEF DurableOnlyAfterRootCommit
  <1>5. ClosedRootReleasesConnection'
    BY <1>i, <1>u, <1>o DEF ClosedRootReleasesConnection
  <1>6. RootOutcomeTruthful'
    <2>1. \A u \in Handle \ {h} : AckedIn(u) \cap durable' = AckedIn(u) \cap durable
      BY <1>p DEF AckedIn
    <2>2. server[h].status = "active" /\ ~ PartlyUndone(h) => AckedIn(h) \subseteq server[h].pending
      BY <1>i DEF NothingLost
    <2>3. /\ result = "committed" /\ ~ PartlyUndone(h) => AckedIn(h) \subseteq durable'
          /\ result \in {"rolled_back", "rollback_failed"} => AckedIn(h) \cap durable' = {}
          /\ result = "commit_failed" /\ ~ PartlyUndone(h)
                => AckedIn(h) \subseteq durable' \/ AckedIn(h) \cap durable' = {}
      BY <1>p, <2>2
    <2> SUFFICES ASSUME NEW u \in Handle
                 PROVE
        /\ outcome'[u] = "committed" /\ tx[u] = u /\ ~ PartlyUndone(u)
              => AckedIn(u) \subseteq durable'
        /\ outcome'[u] \in {"rolled_back", "rollback_failed"} /\ tx[u] = u
              => AckedIn(u) \cap durable' = {}
        /\ outcome'[u] = "commit_failed" /\ tx[u] = u /\ ~ PartlyUndone(u)
              => AckedIn(u) \subseteq durable' \/ AckedIn(u) \cap durable' = {}
      BY <1>k DEF RootOutcomeTruthful
    <2>4. CASE u = h
      BY <1>o, <2>3, <2>4
    <2>5. CASE u # h
      BY <1>i, <1>o, <2>1, <2>5 DEF RootOutcomeTruthful
    <2>6. QED
      BY <2>4, <2>5
  <1>7. QED
    BY <1>1, <1>2, <1>3, <1>4, <1>5, <1>6 DEF IInv

\* What an open nested handle stands on.
LEMMA NestedHandle ==
    ASSUME IInv, NEW h \in Handle, txState[h] = "open", savepoint[h] # 0
    PROVE  /\ tx[h] \in Handle /\ tx[h] # h
           /\ server[tx[h]] \in Transaction
           /\ server[tx[h]].status # "none"
           /\ savepoint[h] \in Nat
           /\ outcome[h] = "none"
           /\ HasSavepoint(server[tx[h]], savepoint[h]) =>
                 LET p == Position(server[tx[h]], savepoint[h])
                 IN  /\ p \in DOMAIN server[tx[h]].savepoints
                     /\ server[tx[h]].savepoints[p].name = savepoint[h]
  <1>1. /\ tx[h] \in Handle /\ tx[h] # h
        /\ server[tx[h]] \in Transaction
        /\ server[tx[h]].status # "none"
        /\ savepoint[h] \in Nat
        /\ outcome[h] = "none"
    BY DEF IInv, TypeOK, HandleInv, HandleOK
  <1>2. \A i, j \in DOMAIN server[tx[h]].savepoints :
           i < j => server[tx[h]].savepoints[i].name < server[tx[h]].savepoints[j].name
    BY <1>1 DEF IInv, StackSorted
  <1>3. QED
    BY <1>1, <1>2, PositionFound

-----------------------------------------------------------------------------
\* Each action preserves the invariant.

\* The invariant holds initially.
LEMMA InitInv == Init => IInv
  <1> SUFFICES ASSUME Init PROVE IInv
    OBVIOUS
  <1>1. TypeOK
    BY DiscardedFields, MaxSavepointAssumption DEF Init, TypeOK, Outcome, Unsent, Transaction, NoTransaction, TxStatus
  <1>2. HandleInv /\ NamesDistinct /\ StackSorted /\ MarksPrecede
    BY NoneAssumption DEF Init, HandleInv, HandleOK, NamesDistinct, StackSorted, MarksPrecede, NoTransaction
  <1>3. WriteInv /\ RolledBackGone
    BY DEF Init, WriteInv, RolledBackGone, NoTransaction, AckedIn
  <1>4. NothingLost /\ DurableOnlyAfterRootCommit /\ ClosedRootReleasesConnection /\ RootOutcomeTruthful
    BY DEF Init, NothingLost, DurableOnlyAfterRootCommit, ClosedRootReleasesConnection,
           RootOutcomeTruthful, NoTransaction, AckedIn
  <1>5. QED
    BY <1>1, <1>2, <1>3, <1>4 DEF IInv

\* Begin on the root DB.
LEMMA BeginRootInv ==
    ASSUME IInv, NEW h \in Handle, BeginRoot(h)
    PROVE  IInv'
  <1>i. /\ HandleInv /\ NamesDistinct /\ StackSorted /\ MarksPrecede /\ WriteInv /\ RolledBackGone
        /\ NothingLost /\ DurableOnlyAfterRootCommit /\ ClosedRootReleasesConnection
        /\ RootOutcomeTruthful
        /\ acked \subseteq Write /\ savepointSeq \in Nat
    BY MaxSavepointAssumption DEF IInv, TypeOK
  <1> SUFFICES ASSUME NEW r \in Transaction, r = NewTransaction
               PROVE  IInv'
    BY DiscardedFields, <1>i DEF IInv, TypeOK
  <1>s. r.status = "active" /\ r.pending = {} /\ DOMAIN r.savepoints = {}
    BY DEF NewTransaction
  <1>e. /\ txState[h] = "none"
        /\ txState' = [txState EXCEPT ![h] = "open"]
        /\ tx' = [tx EXCEPT ![h] = h]
        /\ savepoint' = [savepoint EXCEPT ![h] = 0]
        /\ server' = [server EXCEPT ![h] = r]
        /\ UNCHANGED <<savepointSeq, durable, inflight, via, acked, late, outcome>>
    BY DEF BeginRoot, NewHandle, statementVars
  <1>u. server'[h] = r /\ \A u \in Handle \ {h} : server'[u] = server[u]
    BY <1>e DEF IInv, TypeOK
  <1>o. /\ txState'[h] = "open" /\ tx'[h] = h /\ savepoint'[h] = 0
        /\ savepoint[h] = 0 /\ outcome[h] = "none" /\ tx[h] = None
        /\ \A g \in Handle \ {h} : txState'[g] = txState[g] /\ tx'[g] = tx[g] /\ savepoint'[g] = savepoint[g]
    BY <1>e, <1>i DEF IInv, TypeOK, HandleInv, HandleOK
  <1>k. \A u \in Handle : AckedIn(u)' = AckedIn(u) /\ (PartlyUndone(u)' <=> PartlyUndone(u))
    BY <1>e, NewHandleKeeps DEF NewHandle
  <1>n. AckedIn(h) = {}
    <2>1. \A g \in Handle : tx[g] # h
      BY <1>i, <1>o, <1>e, NoneAssumption DEF HandleInv, HandleOK, NoTransaction, IInv, TypeOK
    <2>2. QED
      BY <2>1, <1>i DEF AckedIn, WriteInv, IInv, TypeOK
  <1>1. TypeOK'
    BY <1>e DEF IInv, TypeOK
  <1>2. HandleInv'
    <2> SUFFICES ASSUME NEW g \in Handle
                 PROVE  HandleOK(g)'
      BY DEF HandleInv
    <2>1. CASE g = h
      BY <1>o, <1>u, <1>s, <1>e, <1>i, <2>1 DEF HandleOK
    <2>2. CASE g # h
      <3>1. HandleOK(g) /\ HandleOK(h)
        BY <1>i DEF HandleInv
      <3>2. txState[g] # "none" => tx[g] # h
        BY <3>1, <1>o, <1>e, NoneAssumption DEF HandleOK
      <3>3. QED
        BY <1>o, <1>u, <1>e, <2>2, <3>1, <3>2 DEF HandleOK
    <2>3. QED
      BY <2>1, <2>2
  <1>3. NamesDistinct'
    BY <1>o, <1>i DEF NamesDistinct
  <1>4. StackSorted'
    BY <1>e, <1>u, <1>s, <1>i DEF StackSorted
  <1>5. MarksPrecede'
    BY <1>e, <1>o, <1>u, <1>s, <1>i DEF MarksPrecede
  <1>6. WriteInv'
    <2>1. \A u \in Handle :
             /\ server'[u].pending \subseteq AckedIn(u)
             /\ \A i \in DOMAIN server'[u].savepoints :
                   server'[u].savepoints[i].mark \subseteq AckedIn(u)
      BY <1>u, <1>s, <1>i DEF WriteInv
    <2>2. QED
      BY <1>e, <1>i, <1>k, <2>1 DEF WriteInv
  <1>7. RolledBackGone'
    BY <1>e, <1>u, <1>s, <1>i DEF RolledBackGone
  <1>8. NothingLost'
    BY <1>u, <1>s, <1>k, <1>n, <1>i DEF NothingLost
  <1>9. DurableOnlyAfterRootCommit'
    <2>1. \A w \in durable : via[w] \in Handle \ {h}
      BY <1>i, <1>e DEF WriteInv, HandleInv, HandleOK, IInv, TypeOK
    <2>2. QED
      BY <1>e, <1>o, <1>i, <2>1 DEF DurableOnlyAfterRootCommit
  <1>10. ClosedRootReleasesConnection'
    BY <1>o, <1>u, <1>i DEF ClosedRootReleasesConnection
  <1>11. RootOutcomeTruthful'
    BY <1>e, <1>o, <1>k, <1>i DEF RootOutcomeTruthful
  <1>12. QED
    BY <1>1, <1>2, <1>3, <1>4, <1>5, <1>6, <1>7, <1>8, <1>9, <1>10, <1>11 DEF IInv

\* Begin on a handle: the new savepoint is the last by name and by position.
LEMMA BeginNestedInv ==
    ASSUME IInv, NEW p \in Handle, NEW h \in Handle, BeginNested(p, h)
    PROVE  IInv'
  <1>a. /\ tx[p] \in Handle /\ savepointSeq + 1 \in Nat /\ server[tx[p]] \in Transaction
        /\ tx[tx[p]] = tx[p] /\ tx[p] # h /\ p # h
    <2>1. txState[p] = "open" /\ txState[h] = "none"
      BY DEF BeginNested
    <2>2. QED
      BY <2>1, NoneAssumption, MaxSavepointAssumption DEF IInv, TypeOK, HandleInv, HandleOK
  <1> SUFFICES ASSUME NEW t \in Handle, t = tx[p], NEW n \in Nat, n = savepointSeq + 1,
                      NEW s \in Transaction, s = Saved(server[t], n)
               PROVE  IInv'
    BY <1>a, SavedFields
  <1>e. /\ txState[p] = "open" /\ txState[h] = "none"
        /\ server[t].status = "active"
        /\ n \in 0..MaxSavepoint
        /\ savepointSeq' = n
        /\ txState' = [txState EXCEPT ![h] = "open"]
        /\ tx' = [tx EXCEPT ![h] = t]
        /\ savepoint' = [savepoint EXCEPT ![h] = n]
        /\ server' = [server EXCEPT ![t] = s]
        /\ UNCHANGED <<durable, inflight, via, acked, late, outcome>>
    BY MaxSavepointAssumption DEF BeginNested, NewHandle, statementVars, IInv, TypeOK
  <1>s. /\ s.pending = server[t].pending
        /\ s.status = "active"
        /\ DOMAIN s.savepoints \subseteq Nat
        /\ DOMAIN server[t].savepoints \subseteq Nat
    BY <1>a, <1>e, SavedFields
  <1>k. \A u \in Handle : AckedIn(u)' = AckedIn(u) /\ (PartlyUndone(u)' <=> PartlyUndone(u))
    BY <1>e, NewHandleKeeps DEF NewHandle
  <1>u. server'[t] = s /\ \A u \in Handle \ {t} : server'[u] = server[u]
    BY <1>e DEF IInv, TypeOK
  <1>n. savepointSeq \in Nat /\ n = savepointSeq + 1
    BY MaxSavepointAssumption DEF IInv, TypeOK
  <1>i. /\ HandleInv /\ StackSorted /\ MarksPrecede /\ WriteInv /\ RolledBackGone
        /\ \A w \in Write : via[w] \in Handle \cup {None}
        /\ acked \subseteq Write
    BY DEF IInv, TypeOK
  <1>m. \A i \in DOMAIN s.savepoints :
           \/ i \in DOMAIN server[t].savepoints /\ s.savepoints[i] = server[t].savepoints[i]
           \/ /\ \A j \in DOMAIN s.savepoints : j <= i
              /\ s.savepoints[i].name = n
              /\ s.savepoints[i].mark = server[t].pending
    BY <1>a, SavedFields
  <1>1. TypeOK'
    BY <1>e DEF IInv, TypeOK
  <1>2. HandleInv'
    <2> SUFFICES ASSUME NEW g \in Handle
                 PROVE  HandleOK(g)'
      BY DEF HandleInv
    <2>1. CASE g = h
      <3>1. /\ txState'[h] = "open" /\ tx'[h] = t /\ savepoint'[h] = n
            /\ tx'[t] = t /\ server'[h] = server[h] /\ outcome'[h] = outcome[h]
        BY <1>a, <1>e, <1>u DEF IInv, TypeOK
      <3>2. QED
        BY <1>a, <1>n, <1>e, <1>i, <2>1, <3>1, NoneAssumption DEF HandleInv, HandleOK, NoTransaction
    <2>2. CASE g # h
      <3>1. /\ txState'[g] = txState[g] /\ tx'[g] = tx[g] /\ savepoint'[g] = savepoint[g]
            /\ outcome'[g] = outcome[g]
            /\ txState[g] # "none" => tx[g] # h /\ tx'[tx[g]] = tx[tx[g]]
        BY <1>a, <1>e, <1>i, <2>2, NoneAssumption DEF IInv, TypeOK, HandleInv, HandleOK
      <3>2. server'[g].status = server[g].status /\ (g # t => server'[g] = server[g])
        BY <1>u, <1>s, <1>e
      <3>3. g = t => txState[g] # "none"
        BY <1>a, <1>e, <1>i, NoneAssumption DEF HandleInv, HandleOK
      <3>4. QED
        BY <1>e, <1>n, <1>i, <2>2, <3>1, <3>2, <3>3 DEF HandleInv, HandleOK
    <2>3. QED
      BY <2>1, <2>2
  <1>3. NamesDistinct'
    BY <1>a, <1>e DEF IInv, TypeOK, HandleInv, HandleOK, NamesDistinct
  <1>4. StackSorted'
    <2>1. \A i \in DOMAIN s.savepoints : s.savepoints[i].name \in 1..n
      BY <1>m, <1>n, <1>i DEF StackSorted
    <2>2. \A i, j \in DOMAIN s.savepoints :
             i < j => s.savepoints[i].name < s.savepoints[j].name
      BY <1>m, <1>n, <1>s, <1>i DEF StackSorted
    <2>3. \A u \in Handle \ {t} : \A i \in DOMAIN server[u].savepoints :
              server[u].savepoints[i].name \in 1..n
      BY <1>n, <1>i DEF StackSorted
    <2>4. QED
      BY <1>e, <1>u, <1>i, <2>1, <2>2, <2>3, SMTT(20) DEF StackSorted
  <1>5. MarksPrecede'
    <2> SUFFICES ASSUME NEW g \in Handle, NEW u \in Handle, NEW w \in Write,
                        savepoint'[g] # 0, via[w] = g,
                        NEW i \in DOMAIN server'[u].savepoints,
                        server'[u].savepoints[i].name <= savepoint'[g]
                 PROVE  w \notin server'[u].savepoints[i].mark
      BY <1>e DEF MarksPrecede
    <2>1. g # h /\ savepoint'[g] = savepoint[g] /\ savepoint[g] \in Nat /\ savepoint[g] < n
      BY <1>e, MaxSavepointAssumption DEF IInv, TypeOK, HandleInv, HandleOK
    <2>2. CASE u = t
      BY <1>m, <1>u, <1>i, <2>1, <2>2 DEF MarksPrecede
    <2>3. CASE u # t
      BY <1>e, <2>1, <2>3 DEF IInv, TypeOK, MarksPrecede
    <2>4. QED
      BY <2>2, <2>3
  <1>6. WriteInv'
    <2>1. \A u \in Handle :
             /\ server'[u].pending \subseteq AckedIn(u)
             /\ \A i \in DOMAIN server'[u].savepoints :
                   server'[u].savepoints[i].mark \subseteq AckedIn(u)
      BY <1>u, <1>m, <1>s, <1>i DEF WriteInv
    <2>2. QED
      BY <1>e, <1>i, <1>k, <2>1 DEF WriteInv
  <1>7. RolledBackGone'
    BY <1>e, <1>u, <1>m, <1>s, <1>i DEF RolledBackGone
  <1>8. NothingLost'
    BY <1>e, <1>s, <1>k DEF IInv, TypeOK, NothingLost
  <1>9. DurableOnlyAfterRootCommit'
    BY <1>e, NoneAssumption DEF IInv, TypeOK, HandleInv, HandleOK, WriteInv, DurableOnlyAfterRootCommit
  <1>10. ClosedRootReleasesConnection'
    BY <1>e, <1>a DEF IInv, TypeOK, HandleInv, HandleOK, ClosedRootReleasesConnection
  <1>11. RootOutcomeTruthful'
    <2>1. outcome[h] = "none" /\ \A u \in Handle \ {h} : tx'[u] = tx[u]
      BY <1>e DEF IInv, TypeOK, HandleInv, HandleOK
    <2>2. QED
      BY <1>e, <1>k, <2>1 DEF IInv, RootOutcomeTruthful
  <1>12. QED
    BY <1>1, <1>2, <1>3, <1>4, <1>5, <1>6, <1>7, <1>8, <1>9, <1>10, <1>11 DEF IInv

\* A Begin that fails spends a name.
LEMMA BeginNestedFailsInv ==
    ASSUME IInv, NEW p \in Handle, BeginNestedFails(p)
    PROVE  IInv'
  <1>e. /\ savepointSeq' = savepointSeq + 1
        /\ savepointSeq' \in 0..MaxSavepoint
        /\ savepointSeq \in Nat
        /\ UNCHANGED <<txState, tx, savepoint, server, durable, inflight, via, acked, late, outcome>>
    BY MaxSavepointAssumption DEF BeginNestedFails, statementVars, IInv, TypeOK
  <1>1. TypeOK'
    BY <1>e DEF IInv, TypeOK
  <1>2. HandleInv'
    BY <1>e DEF IInv, HandleInv, HandleOK
  <1>3. NamesDistinct' /\ MarksPrecede' /\ ClosedRootReleasesConnection'
    BY <1>e DEF IInv, NamesDistinct, MarksPrecede, ClosedRootReleasesConnection
  <1>4. StackSorted'
    BY <1>e DEF IInv, StackSorted
  <1>5. WriteInv' /\ RolledBackGone' /\ NothingLost' /\ DurableOnlyAfterRootCommit' /\ RootOutcomeTruthful'
    BY <1>e DEF IInv, WriteInv, RolledBackGone, NothingLost, DurableOnlyAfterRootCommit,
                RootOutcomeTruthful, AckedIn, PartlyUndone
  <1>6. QED
    BY <1>1, <1>2, <1>3, <1>4, <1>5 DEF IInv

\* A statement passes the closed check.
LEMMA ExecCheckInv ==
    ASSUME IInv, NEW h \in Handle, NEW w \in Write, ExecCheck(h, w)
    PROVE  IInv'
  <1>e. /\ via[w] = None /\ txState[h] = "open"
        /\ inflight' = inflight \cup {w}
        /\ via' = [via EXCEPT ![w] = h]
        /\ UNCHANGED <<txState, tx, savepoint, savepointSeq, server, durable, acked, late, outcome>>
    BY DEF ExecCheck, handleVars
  <1>i. /\ HandleInv /\ MarksPrecede /\ WriteInv /\ RolledBackGone
        /\ NothingLost /\ DurableOnlyAfterRootCommit /\ RootOutcomeTruthful
    BY DEF IInv
  <1>u. via'[w] = h /\ \A v \in Write \ {w} : via'[v] = via[v]
    BY <1>e DEF IInv, TypeOK
  <1>n. /\ w \notin acked /\ w \notin inflight /\ w \notin durable
        /\ acked \subseteq Write /\ inflight \subseteq Write /\ durable \subseteq Write
        /\ None \notin Handle /\ h # None
    BY <1>e, <1>i, NoneAssumption DEF WriteInv, IInv, TypeOK
  <1>k. \A u \in Handle : AckedIn(u)' = AckedIn(u) /\ (PartlyUndone(u)' <=> PartlyUndone(u))
    BY <1>e, <1>u, <1>n DEF AckedIn, PartlyUndone
  <1>1. TypeOK'
    BY <1>e DEF IInv, TypeOK
  <1>2. HandleInv'
    BY <1>e, <1>u, <1>i DEF HandleInv, HandleOK
  <1>3. NamesDistinct' /\ StackSorted' /\ ClosedRootReleasesConnection'
    BY <1>e DEF IInv, NamesDistinct, StackSorted, ClosedRootReleasesConnection
  <1>5. MarksPrecede'
    <2>1. \A t \in Handle : \A i \in DOMAIN server[t].savepoints :
             w \notin server[t].savepoints[i].mark
      BY <1>i, <1>n DEF WriteInv, AckedIn
    <2>2. QED
      BY <1>e, <1>u, <1>i, <2>1 DEF MarksPrecede
  <1>6. WriteInv'
    BY <1>e, <1>u, <1>n, <1>k, <1>i DEF WriteInv
  <1>7. RolledBackGone'
    BY <1>e, <1>u, <1>n, <1>i DEF RolledBackGone
  <1>8. NothingLost' /\ RootOutcomeTruthful'
    BY <1>e, <1>k, <1>i DEF NothingLost, RootOutcomeTruthful
  <1>9. DurableOnlyAfterRootCommit'
    BY <1>e, <1>u, <1>n, <1>i DEF DurableOnlyAfterRootCommit
  <1>10. QED
    BY <1>1, <1>2, <1>3, <1>5, <1>6, <1>7, <1>8, <1>9 DEF IInv

\* A statement succeeds; it is late when its handle was closed meanwhile.
LEMMA ExecRunInv ==
    ASSUME IInv, NEW w \in Write, ExecRun(w)
    PROVE  IInv'
  <1> DEFINE h == via[w]
  <1>i. /\ HandleInv /\ NamesDistinct /\ StackSorted /\ MarksPrecede /\ WriteInv /\ RolledBackGone
        /\ NothingLost /\ DurableOnlyAfterRootCommit /\ ClosedRootReleasesConnection
        /\ RootOutcomeTruthful
        /\ acked \subseteq Write /\ inflight \subseteq Write /\ durable \subseteq Write
        /\ late \subseteq Write
        /\ \A v \in Write : via[v] \in Handle \cup {None}
    BY DEF IInv, TypeOK
  <1>a. /\ w \in inflight /\ w \notin acked /\ w \notin durable /\ w \notin late
        /\ h \in Handle /\ txState[h] # "none" /\ tx[h] \in Handle
        /\ tx[tx[h]] = tx[h]
    BY <1>i DEF ExecRun, WriteInv, HandleInv, HandleOK
  <1> SUFFICES ASSUME NEW t \in Handle, t = tx[h], NEW r \in Transaction, r = Inserted(server[t], w)
               PROVE  IInv'
    BY <1>a, InsertedFields DEF IInv, TypeOK
  <1>s. r.pending = server[t].pending \cup {w} /\ r.savepoints = server[t].savepoints
        /\ r.status = server[t].status
    BY InsertedFields DEF IInv, TypeOK
  <1>e. /\ server[t].status = "active"
        /\ server' = [server EXCEPT ![t] = r]
        /\ inflight' = inflight \ {w}
        /\ acked' = acked \cup {w}
        /\ late' = IF txState[h] = "closed" THEN late \cup {w} ELSE late
        /\ UNCHANGED <<txState, tx, savepoint, savepointSeq, durable, via, outcome>>
    BY DEF ExecRun, handleVars
  <1>u. server'[t] = r /\ \A u \in Handle \ {t} : server'[u] = server[u]
    BY <1>e DEF IInv, TypeOK
  <1>k. /\ AckedIn(t)' = AckedIn(t) \cup {w}
        /\ \A u \in Handle \ {t} : AckedIn(u)' = AckedIn(u)
        /\ \A u \in Handle : PartlyUndone(u)' <=> PartlyUndone(u)
    BY <1>e, <1>a DEF AckedIn, PartlyUndone
  <1> HIDE DEF h
  <1>1. TypeOK'
    BY <1>e DEF IInv, TypeOK
  <1>2. HandleInv'
    BY <1>e, <1>u, <1>s, <1>a, <1>i DEF HandleInv, HandleOK, NoTransaction
  <1>3. NamesDistinct' /\ StackSorted'
    BY <1>e, <1>u, <1>s, <1>i, SMTT(20) DEF NamesDistinct, StackSorted
  <1>5. MarksPrecede'
    BY <1>e, <1>u, <1>s, <1>i DEF MarksPrecede
  <1>6. WriteInv'
    <2>1. \A u \in Handle :
             /\ server'[u].pending \subseteq AckedIn(u)'
             /\ \A i \in DOMAIN server'[u].savepoints :
                   server'[u].savepoints[i].mark \subseteq AckedIn(u)'
      BY <1>i, <1>u, <1>s, <1>k DEF WriteInv
    <2>2. QED
      BY <1>e, <1>a, <1>i, <2>1 DEF WriteInv
  <1>7. RolledBackGone'
    <2>1. w \notin late' => outcome[h] # "rolled_back"
      BY <1>e, <1>i, <1>a DEF HandleInv, HandleOK, IInv, TypeOK
    <2>2. \A v \in acked' \ late' : v = w \/ v \in acked \ late
      BY <1>e
    <2>3. \A u \in Handle, v \in acked \ late :
             outcome[via[v]] = "rolled_back" =>
               /\ v \notin server'[u].pending
               /\ \A i \in DOMAIN server'[u].savepoints : v \notin server'[u].savepoints[i].mark
      BY <1>u, <1>s, <1>i, <1>a DEF RolledBackGone
    <2>4. QED
      BY <1>e, <1>i, <2>1, <2>2, <2>3, SMTT(20) DEF RolledBackGone, h
  <1>8. NothingLost'
    BY <1>u, <1>s, <1>k, <1>i DEF NothingLost
  <1>9. DurableOnlyAfterRootCommit'
    BY <1>e, <1>i DEF DurableOnlyAfterRootCommit
  <1>10. ClosedRootReleasesConnection'
    BY <1>e, <1>u, <1>s, <1>i DEF ClosedRootReleasesConnection
  <1>11. RootOutcomeTruthful'
    <2>1. outcome[t] = "none"
      <3>1. txState[t] # "closed"
        BY <1>e, <1>a, <1>i DEF ClosedRootReleasesConnection
      <3>2. QED
        BY <3>1, <1>i DEF HandleInv, HandleOK, IInv, TypeOK
    <2>2. QED
      BY <1>e, <1>k, <1>i, <2>1 DEF RootOutcomeTruthful
  <1>12. QED
    BY <1>1, <1>2, <1>3, <1>5, <1>6, <1>7, <1>8, <1>9, <1>10, <1>11 DEF IInv

\* A statement fails.
LEMMA ExecFailsInv ==
    ASSUME IInv, NEW w \in Write, ExecFails(w)
    PROVE  IInv'
  <1>a. /\ via[w] \in Handle /\ tx[via[w]] \in Handle /\ server[tx[via[w]]].status # "none"
    BY DEF ExecFails, IInv, TypeOK, WriteInv, HandleInv, HandleOK
  <1>b. /\ inflight' = inflight \ {w}
        /\ UNCHANGED <<txState, tx, savepoint, savepointSeq, durable, via, acked, late, outcome>>
    BY DEF ExecFails, handleVars
  <1>1. CASE UNCHANGED server
    <2>1. /\ txState' \in [Handle -> {"none", "open", "closed"}]
          /\ outcome' \in [Handle -> Outcome]
          /\ inflight' \subseteq inflight
          /\ \A g \in Handle : txState'[g] = txState[g] /\ outcome'[g] = outcome[g]
      BY <1>b DEF IInv, TypeOK
    <2>2. QED
      BY <1>a, <1>b, <1>1, <2>1, UntouchedInv
  <1>2. CASE server' = [server EXCEPT ![tx[via[w]]] = Failed(@)]
    <2> SUFFICES ASSUME NEW t \in Handle, t = tx[via[w]], NEW r \in Transaction, r = Failed(server[t])
                 PROVE  IInv'
      BY <1>a, FailedFields DEF IInv, TypeOK
    <2>s. /\ r.pending = server[t].pending /\ r.savepoints = server[t].savepoints
          /\ r.status = IF server[t].status = "active" THEN "aborted" ELSE server[t].status
      BY FailedFields DEF IInv, TypeOK
    <2>e. server' = [server EXCEPT ![t] = r]
      BY <1>2
    <2>1. TypeOK'
      BY <1>b, <2>e DEF IInv, TypeOK
    <2>2. QED
      BY <1>a, <1>b, <2>s, <2>e, <2>1, QuietInv, ZenonT(60)
  <1>3. QED
    BY <1>1, <1>2 DEF ExecFails

\* RELEASE SAVEPOINT, or its failure.
LEMMA CommitNestedInv ==
    ASSUME IInv, NEW h \in Handle, CommitNested(h)
    PROVE  IInv'
  <1>a. txState[h] = "open" /\ savepoint[h] # 0
    BY DEF CommitNested
  <1>b. /\ tx[h] \in Handle /\ tx[h] # h /\ server[tx[h]].status # "none"
        /\ Failed(server[tx[h]]) \in Transaction
    BY <1>a, NestedHandle, FailedFields
  <1> SUFFICES ASSUME NEW t \in Handle, t = tx[h]
               PROVE  IInv'
    BY <1>b
  <1>c. CanRelease(server[t], savepoint[h])
           => /\ Released(server[t], savepoint[h]) \in Transaction
              /\ server[t].status = "active"
              /\ Position(server[t], savepoint[h]) \in DOMAIN server[t].savepoints
    BY <1>a, NestedHandle, ReleasedFields DEF CanRelease
  <1>d. CanRelease(server[t], savepoint[h]) =>
           LET r == Released(server[t], savepoint[h])
           IN  /\ r.pending = server[t].pending /\ r.status = server[t].status
               /\ DOMAIN r.savepoints \subseteq DOMAIN server[t].savepoints
               /\ \A i \in DOMAIN r.savepoints : r.savepoints[i] = server[t].savepoints[i]
    <2> SUFFICES ASSUME CanRelease(server[t], savepoint[h]),
                        NEW s \in Transaction, s = server[t],
                        NEW p \in DOMAIN s.savepoints, p = Position(s, savepoint[h]),
                        NEW r \in Transaction, r = Released(s, savepoint[h])
                 PROVE  /\ r.pending = s.pending /\ r.status = s.status
                        /\ DOMAIN r.savepoints \subseteq DOMAIN s.savepoints
                        /\ \A i \in DOMAIN r.savepoints : r.savepoints[i] = s.savepoints[i]
      BY <1>c, <1>a, NestedHandle
    <2>1. /\ r.pending = s.pending /\ r.status = s.status
          /\ DOMAIN r.savepoints = 1..(p - 1)
          /\ \A i \in 1..(p - 1) : r.savepoints[i] = s.savepoints[i]
      BY ReleasedFields
    <2>2. 1..(p - 1) \subseteq DOMAIN s.savepoints
      BY DEF Transaction
    <2>3. QED
      BY <2>1, <2>2
  <1>g. UNCHANGED <<tx, savepoint, savepointSeq, durable, inflight, via, acked, late>>
    BY DEF CommitNested, Finish, statementVars
  <1>e. /\ txState' = [txState EXCEPT ![h] = "closed"]
        /\ \/ /\ CanRelease(server[t], savepoint[h])
              /\ server' = [server EXCEPT ![t] = Released(server[t], savepoint[h])]
              /\ outcome' = [outcome EXCEPT ![h] = "committed"]
           \/ /\ server' = [server EXCEPT ![t] = Failed(server[t])]
              /\ outcome' = [outcome EXCEPT ![h] = "commit_failed"]
           \/ /\ server' = server
              /\ outcome' = [outcome EXCEPT ![h] = "commit_unsent"]
    BY DEF CommitNested, Finish, statementVars
  <1>f. LET r == Failed(server[t])
        IN  /\ r.pending = server[t].pending /\ r.savepoints = server[t].savepoints
            /\ r.status = IF server[t].status = "active" THEN "aborted" ELSE server[t].status
    BY FailedFields DEF IInv, TypeOK
  <1>1. TypeOK'
    BY <1>b, <1>c, <1>e, <1>g DEF IInv, TypeOK, Outcome, Unsent
  <1>o. \A g \in Handle :
          \/ txState'[g] = txState[g] /\ outcome'[g] = outcome[g]
          \/ /\ txState[g] = "open" /\ txState'[g] = "closed" /\ tx[g] # g
             /\ outcome'[g] \notin {"none", "rolled_back"}
    BY <1>a, <1>b, <1>e DEF IInv, TypeOK
  <1>2. CASE CanRelease(server[t], savepoint[h])
             /\ server' = [server EXCEPT ![t] = Released(server[t], savepoint[h])]
    <2> SUFFICES ASSUME NEW r \in Transaction, r = Released(server[t], savepoint[h])
                 PROVE  IInv'
      BY <1>2, <1>c
    <2>1. /\ r.pending = server[t].pending /\ r.status = server[t].status
          /\ DOMAIN r.savepoints \subseteq DOMAIN server[t].savepoints
          /\ \A i \in DOMAIN r.savepoints : r.savepoints[i] = server[t].savepoints[i]
          /\ server[t].status = "active"
          /\ server' = [server EXCEPT ![t] = r]
      BY <1>2, <1>c, <1>d
    <2>2. /\ server[t].status # "none" /\ r.status # "none"
          /\ server[t].status = "ended" => r.status = "ended"
          /\ r.status \in {"active", "aborted"}
                => server[t].status \in {"active", "aborted"} /\ r.pending = server[t].pending
          /\ inflight' \subseteq inflight
          /\ r.pending \subseteq server[t].pending
      BY <1>b, <2>1, <1>g
    <2>3. QED
      BY <1>g, <1>1, <1>o, <2>1, <2>2, QuietInv, ZenonT(60)
  <1>3. CASE server' = [server EXCEPT ![t] = Failed(server[t])]
    <2> SUFFICES ASSUME NEW r \in Transaction, r = Failed(server[t])
                 PROVE  IInv'
      BY <1>b
    <2>1. /\ r.pending = server[t].pending /\ r.savepoints = server[t].savepoints
          /\ r.status = IF server[t].status = "active" THEN "aborted" ELSE server[t].status
          /\ server' = [server EXCEPT ![t] = r]
      BY <1>3, <1>f
    <2>2. /\ server[t].status # "none" /\ r.status # "none"
          /\ server[t].status = "ended" => r.status = "ended"
          /\ r.status \in {"active", "aborted"}
                => server[t].status \in {"active", "aborted"} /\ r.pending = server[t].pending
          /\ inflight' \subseteq inflight
          /\ r.pending \subseteq server[t].pending
      BY <1>b, <2>1, <1>g
    <2>3. QED
      BY <1>g, <1>1, <1>o, <2>1, <2>2, QuietInv, ZenonT(60)
  <1>4. CASE UNCHANGED server
    <2>1. txState' \in [Handle -> {"none", "open", "closed"}] /\ outcome' \in [Handle -> Outcome]
      BY <1>1 DEF TypeOK
    <2>2. QED
      BY <1>b, <1>g, <1>o, <1>4, <2>1, UntouchedInv
  <1>5. QED
    BY <1>e, <1>2, <1>3, <1>4

\* COMMIT, applied or not.
LEMMA CommitRootInv ==
    ASSUME IInv, NEW h \in Handle, CommitRoot(h)
    PROVE  IInv'
  <1>a. /\ Discarded(server[h]) \in Transaction /\ Published(server[h]) \in Transaction
        /\ Published(server[h]).status = "ended" /\ Published(server[h]).savepoints = <<>>
        /\ Published(server[h]).pending = server[h].pending
        /\ Discarded(server[h]).status = "ended" /\ Discarded(server[h]).savepoints = <<>>
        /\ Discarded(server[h]).pending = {}
    BY DiscardedFields DEF IInv, TypeOK, Discarded
  <1> SUFFICES ASSUME NEW r \in Transaction, NEW result \in {"committed", "commit_failed"},
                      server' = [server EXCEPT ![h] = r],
                      outcome' = [outcome EXCEPT ![h] = result],
                      \/ /\ server[h].status = "active"
                         /\ r = Published(server[h])
                         /\ durable' = durable \cup server[h].pending
                      \/ /\ r = Discarded(server[h])
                         /\ result = "commit_failed"
                         /\ durable' = durable
               PROVE  IInv'
    BY <1>a DEF CommitRoot, Finish
  <1>e. /\ txState[h] = "open" /\ savepoint[h] = 0
        /\ txState' = [txState EXCEPT ![h] = "closed"]
        /\ UNCHANGED <<tx, savepoint, savepointSeq, inflight, via, acked, late>>
    BY DEF CommitRoot, Finish, statementVars
  <1>1. TypeOK'
    <2>1. server[h].pending \subseteq Write
      BY DEF IInv, TypeOK, Transaction
    <2>2. QED
      BY <1>e, <2>1 DEF IInv, TypeOK, Outcome, Unsent
  <1>2. QED
    BY <1>a, <1>e, <1>1, RootEndInv, ZenonT(60)

\* ROLLBACK TO SAVEPOINT, or its failure.  The marks left on the stack are those
\* of savepoints no later than the handle's, which hold none of its writes.
LEMMA RollbackNestedInv ==
    ASSUME IInv, NEW h \in Handle, RollbackNested(h)
    PROVE  IInv'
  <1>a. txState[h] = "open" /\ savepoint[h] # 0
    BY DEF RollbackNested
  <1>b. /\ tx[h] \in Handle /\ tx[h] # h /\ server[tx[h]].status # "none"
        /\ outcome[h] = "none"
        /\ Failed(server[tx[h]]) \in Transaction
    BY <1>a, NestedHandle, FailedFields
  <1> SUFFICES ASSUME NEW t \in Handle, t = tx[h]
               PROVE  IInv'
    BY <1>b
  <1>e. /\ txState' = [txState EXCEPT ![h] = "closed"]
        /\ UNCHANGED <<tx, savepoint, savepointSeq, durable, inflight, via, acked, late>>
    BY DEF RollbackNested, Finish, statementVars
  <1>g. UNCHANGED <<tx, savepoint, savepointSeq, durable, inflight, via, acked, late>>
    BY <1>e
  <1>1. CASE /\ server' = [server EXCEPT ![t] = Failed(server[t])]
             /\ outcome' = [outcome EXCEPT ![h] = "rollback_failed"]
    <2> SUFFICES ASSUME NEW r \in Transaction, r = Failed(server[t])
                 PROVE  IInv'
      BY <1>b
    <2>1. /\ r.pending = server[t].pending /\ r.savepoints = server[t].savepoints
          /\ r.status = IF server[t].status = "active" THEN "aborted" ELSE server[t].status
          /\ server' = [server EXCEPT ![t] = r]
      BY <1>1, FailedFields DEF IInv, TypeOK
    <2>2. TypeOK'
      BY <1>e, <1>1, <2>1 DEF IInv, TypeOK, Outcome, Unsent
    <2>3. \A g \in Handle :
            \/ txState'[g] = txState[g] /\ outcome'[g] = outcome[g]
            \/ /\ txState[g] = "open" /\ txState'[g] = "closed" /\ tx[g] # g
               /\ outcome'[g] \notin {"none", "rolled_back"}
      BY <1>a, <1>b, <1>e, <1>1 DEF IInv, TypeOK
    <2>4. /\ server[t].status # "none" /\ r.status # "none"
          /\ server[t].status = "ended" => r.status = "ended"
          /\ r.status \in {"active", "aborted"}
                => server[t].status \in {"active", "aborted"} /\ r.pending = server[t].pending
          /\ inflight' \subseteq inflight
          /\ r.pending \subseteq server[t].pending
      BY <1>b, <2>1, <1>e
    <2>5. QED
      BY <1>g, <2>1, <2>2, <2>3, <2>4, QuietInv, ZenonT(60)
  <1>2. CASE /\ CanRollbackTo(server[t], savepoint[h])
             /\ server' = [server EXCEPT ![t] = RolledBackTo(server[t], savepoint[h])]
             /\ outcome' = [outcome EXCEPT ![h] = "rolled_back"]
    <2>1. /\ Position(server[t], savepoint[h]) \in DOMAIN server[t].savepoints
          /\ server[t].savepoints[Position(server[t], savepoint[h])].name = savepoint[h]
          /\ server[t].status \in {"active", "aborted"}
          /\ RolledBackTo(server[t], savepoint[h]) \in Transaction
      BY <1>a, <1>2, NestedHandle, RolledBackToFields DEF CanRollbackTo
    <2> SUFFICES ASSUME NEW s \in Transaction, s = server[t],
                        NEW p \in DOMAIN s.savepoints, p = Position(s, savepoint[h]),
                        NEW r \in Transaction, r = RolledBackTo(s, savepoint[h])
                 PROVE  IInv'
      BY <1>b, <2>1 DEF IInv, TypeOK
    <2>2. /\ r.pending = s.savepoints[p].mark /\ r.status = "active"
          /\ DOMAIN r.savepoints = 1..p
          /\ \A i \in 1..p : r.savepoints[i] = s.savepoints[i]
      BY RolledBackToFields
    <2>3. 1..p \subseteq DOMAIN s.savepoints /\ p \in Nat /\ p \in 1..p
      BY DEF Transaction
    <2>4. server' = [server EXCEPT ![t] = r]
      BY <1>2
    <2>i. /\ HandleInv /\ StackSorted /\ MarksPrecede /\ WriteInv /\ RolledBackGone /\ NothingLost
          /\ DurableOnlyAfterRootCommit /\ ClosedRootReleasesConnection /\ RootOutcomeTruthful
          /\ acked \subseteq Write /\ durable \subseteq Write
      BY DEF IInv, TypeOK
    <2>u. server'[t] = r /\ \A u \in Handle \ {t} : server'[u] = server[u]
      BY <2>4 DEF IInv, TypeOK
    <2>o. /\ txState'[h] = "closed" /\ outcome'[h] = "rolled_back"
          /\ \A g \in Handle \ {h} : txState'[g] = txState[g] /\ outcome'[g] = outcome[g]
      BY <1>e, <1>2 DEF IInv, TypeOK
    <2>v. \A w \in acked : via[w] \in Handle /\ tx[via[w]] \in Handle
      BY DEF IInv, TypeOK, WriteInv, HandleInv, HandleOK
    <2>k. /\ \A u \in Handle : AckedIn(u)' = AckedIn(u)
          /\ \A u \in Handle : PartlyUndone(u) => PartlyUndone(u)'
          /\ PartlyUndone(t)'
      BY <1>a, <1>b, <1>e, <2>o DEF AckedIn, PartlyUndone
    <2>5. TypeOK'
      BY <1>e, <1>2, <2>4 DEF IInv, TypeOK, Outcome, Unsent
    <2>6. HandleInv' /\ NamesDistinct' /\ StackSorted' /\ MarksPrecede' /\ WriteInv'
      <3>1. \A g \in Handle : /\ txState'[g] = "none" <=> txState[g] = "none"
                              /\ txState[g] = "none" => outcome'[g] = outcome[g]
                              /\ txState'[g] = "open" => outcome'[g] = "none"
        BY <1>a, <2>o, <2>i DEF HandleInv, HandleOK
      <3>2. r.pending \subseteq AckedIn(t)
        BY <2>2, <2>i DEF WriteInv
      <3>3. DOMAIN r.savepoints \subseteq DOMAIN server[t].savepoints
            /\ \A i \in DOMAIN r.savepoints : r.savepoints[i] = server[t].savepoints[i]
        BY <2>2, <2>3
      <3>4. QED
        BY <1>b, <1>e, <2>2, <2>4, <3>1, <3>2, <3>3, ShrinkInv, ZenonT(60)
    <2>7. RolledBackGone'
      <3> SUFFICES ASSUME NEW w \in acked \ late, NEW u \in Handle,
                          outcome'[via[w]] = "rolled_back"
                   PROVE  /\ w \notin durable
                          /\ w \notin server'[u].pending
                          /\ \A i \in DOMAIN server'[u].savepoints :
                                w \notin server'[u].savepoints[i].mark
        BY <1>e DEF RolledBackGone
      <3>1. CASE via[w] = h
        <4>1. w \in Write /\ tx[via[w]] = t
          BY <2>i, <3>1
        <4>2. \A i \in 1..p : w \notin s.savepoints[i].mark
          <5> SUFFICES ASSUME NEW i \in 1..p
                       PROVE  w \notin s.savepoints[i].mark
            OBVIOUS
          <5>1. i \in DOMAIN server[t].savepoints /\ (i < p \/ i = p) /\ p \in DOMAIN server[t].savepoints
            BY <2>3
          <5>2. /\ server[t].savepoints[p].name = savepoint[h]
                /\ server[t].savepoints[i].name \in Nat
            BY <2>1, <2>i, <5>1 DEF StackSorted
          <5>3. server[t].savepoints[i].name <= savepoint[h]
            BY <2>i, <5>1, <5>2 DEF StackSorted
          <5>4. QED
            BY <1>a, <2>i, <3>1, <4>1, <5>1, <5>3 DEF MarksPrecede
        <4>3. w \notin r.pending /\ \A i \in DOMAIN r.savepoints : w \notin r.savepoints[i].mark
          BY <2>2, <2>3, <4>2, SMTT(20)
        <4>4. w \notin durable
          <5>1. outcome[t] = "none"
            BY <2>1, <2>i DEF ClosedRootReleasesConnection, HandleInv, HandleOK, IInv, TypeOK
          <5>2. QED
            BY <2>i, <4>1, <5>1 DEF DurableOnlyAfterRootCommit
        <4>5. u # t => w \notin AckedIn(u)
          BY <4>1 DEF AckedIn
        <4>6. QED
          BY <2>i, <2>u, <4>3, <4>4, <4>5 DEF WriteInv
      <3>2. CASE via[w] # h
        <4>1. outcome[via[w]] = "rolled_back"
          BY <2>o, <2>v, <3>2
        <4>2. w \notin r.pending /\ \A i \in DOMAIN r.savepoints : w \notin r.savepoints[i].mark
          BY <2>2, <2>3, <2>i, <4>1, SMTT(20) DEF RolledBackGone
        <4>3. QED
          BY <2>i, <2>u, <4>1, <4>2 DEF RolledBackGone
      <3>3. QED
        BY <3>1, <3>2
    <2>8. NothingLost'
      BY <2>i, <2>u, <2>k DEF NothingLost
    <2>9. DurableOnlyAfterRootCommit'
      BY <1>b, <1>e, <2>i, <2>o, <2>v DEF DurableOnlyAfterRootCommit, WriteInv
    <2>10. ClosedRootReleasesConnection'
      <3>1. txState[t] # "closed"
        BY <2>1, <2>i DEF ClosedRootReleasesConnection, HandleInv, HandleOK
      <3>2. QED
        BY <1>b, <1>e, <2>i, <2>u, <2>o, <3>1 DEF ClosedRootReleasesConnection
    <2>11. RootOutcomeTruthful'
      BY <1>b, <1>e, <2>i, <2>o, <2>k DEF RootOutcomeTruthful
    <2>12. QED
      BY <2>5, <2>6, <2>7, <2>8, <2>9, <2>10, <2>11 DEF IInv
  <1>3. CASE /\ UNCHANGED server
             /\ outcome' = [outcome EXCEPT ![h] = "rollback_unsent"]
    <2>1. txState' \in [Handle -> {"none", "open", "closed"}] /\ outcome' \in [Handle -> Outcome]
      BY <1>e, <1>3 DEF IInv, TypeOK, Outcome, Unsent
    <2>2. \A g \in Handle :
            \/ txState'[g] = txState[g] /\ outcome'[g] = outcome[g]
            \/ /\ txState[g] = "open" /\ txState'[g] = "closed" /\ tx[g] # g
               /\ outcome'[g] \notin {"none", "rolled_back"}
      BY <1>a, <1>b, <1>e, <1>3 DEF IInv, TypeOK
    <2>3. QED
      BY <1>b, <1>g, <1>3, <2>1, <2>2, UntouchedInv
  <1>4. QED
    BY <1>1, <1>2, <1>3 DEF RollbackNested, Finish

\* ROLLBACK.
LEMMA RollbackRootInv ==
    ASSUME IInv, NEW h \in Handle, RollbackRoot(h)
    PROVE  IInv'
  <1>a. /\ Discarded(server[h]) \in Transaction
        /\ Discarded(server[h]).status = "ended" /\ Discarded(server[h]).savepoints = <<>>
        /\ Discarded(server[h]).pending = {}
    BY DiscardedFields DEF IInv, TypeOK, Discarded
  <1> SUFFICES ASSUME NEW r \in Transaction, NEW result \in {"rolled_back", "rollback_failed"},
                      r = Discarded(server[h]),
                      server' = [server EXCEPT ![h] = r],
                      outcome' = [outcome EXCEPT ![h] = result]
               PROVE  IInv'
    BY <1>a DEF RollbackRoot, Finish
  <1>e. /\ txState[h] = "open" /\ savepoint[h] = 0
        /\ txState' = [txState EXCEPT ![h] = "closed"]
        /\ UNCHANGED <<tx, savepoint, savepointSeq, inflight, via, acked, late, durable>>
    BY DEF RollbackRoot, Finish, statementVars
  <1>1. TypeOK'
    BY <1>e DEF IInv, TypeOK, Outcome, Unsent
  <1>2. QED
    BY <1>a, <1>e, <1>1, RootEndInv, ZenonT(60)

\* The connection breaks, or the context is done.
LEMMA FaultInv ==
    ASSUME IInv, NEW t \in Handle, ConnectionLost(t) \/ ContextDone(t)
    PROVE  IInv'
  <1>a. /\ Discarded(server[t]) \in Transaction /\ Broken(server[t]) \in Transaction
    BY DiscardedFields DEF IInv, TypeOK
  <1> SUFFICES ASSUME NEW r \in Transaction, r = Discarded(server[t]) \/ r = Broken(server[t]),
                      server' = [server EXCEPT ![t] = r],
                      server[t].status \in {"active", "aborted", "lost"}
               PROVE  IInv'
    BY <1>a DEF ConnectionLost, ContextDone, Live
  <1>s. /\ r.pending = {} /\ DOMAIN r.savepoints = {} /\ r.status \in {"lost", "ended"}
    BY DEF Discarded, Broken
  <1>e. UNCHANGED <<txState, tx, savepoint, savepointSeq, durable, inflight, via, acked, late, outcome>>
    BY DEF ConnectionLost, ContextDone, handleVars, statementVars
  <1>1. TypeOK'
    BY <1>e DEF IInv, TypeOK
  <1>2. QED
    BY <1>s, <1>e, <1>1, QuietInv, ZenonT(60)

\* Every step preserves the invariant.
LEMMA NextInv == IInv /\ [Next]_vars => IInv'
  <1> SUFFICES ASSUME IInv, [Next]_vars
               PROVE  IInv'
    OBVIOUS
  <1>1. ASSUME NEW h \in Handle, BeginRoot(h) PROVE IInv'
    BY <1>1, BeginRootInv
  <1>2. ASSUME NEW p \in Handle, NEW h \in Handle, BeginNested(p, h) PROVE IInv'
    BY <1>2, BeginNestedInv
  <1>3. ASSUME NEW p \in Handle, BeginNestedFails(p) PROVE IInv'
    BY <1>3, BeginNestedFailsInv
  <1>4. ASSUME NEW h \in Handle, NEW w \in Write, ExecCheck(h, w) PROVE IInv'
    BY <1>4, ExecCheckInv
  <1>5. ASSUME NEW w \in Write, ExecRun(w) PROVE IInv'
    BY <1>5, ExecRunInv
  <1>6. ASSUME NEW w \in Write, ExecFails(w) PROVE IInv'
    BY <1>6, ExecFailsInv
  <1>7. ASSUME NEW h \in Handle, CommitNested(h) PROVE IInv'
    BY <1>7, CommitNestedInv
  <1>8. ASSUME NEW h \in Handle, CommitRoot(h) PROVE IInv'
    BY <1>8, CommitRootInv
  <1>9. ASSUME NEW h \in Handle, RollbackNested(h) PROVE IInv'
    BY <1>9, RollbackNestedInv
  <1>10. ASSUME NEW h \in Handle, RollbackRoot(h) PROVE IInv'
    BY <1>10, RollbackRootInv
  <1>11. ASSUME NEW t \in Handle, ConnectionLost(t) \/ ContextDone(t) PROVE IInv'
    BY <1>11, FaultInv
  <1>12. CASE UNCHANGED vars
    BY <1>12 DEF vars, IInv, TypeOK, HandleInv, HandleOK, NamesDistinct, StackSorted, MarksPrecede,
                 WriteInv, RolledBackGone, NothingLost, DurableOnlyAfterRootCommit,
                 ClosedRootReleasesConnection, RootOutcomeTruthful, AckedIn, PartlyUndone
  <1>13. QED
    BY <1>1, <1>2, <1>3, <1>4, <1>5, <1>6, <1>7, <1>8, <1>9, <1>10, <1>11, <1>12 DEF Next

-----------------------------------------------------------------------------
\* Theorems

\* The inductive invariant holds in every reachable state.
LEMMA Invariance == Spec => []IInv
  BY InitInv, NextInv, PTL DEF Spec

\* Every variable keeps its type.
THEOREM TypeCorrect == Spec => []TypeOK
  <1>1. IInv => TypeOK
    BY DEF IInv
  <1>2. QED
    BY <1>1, Invariance, PTL

\* A Rollback that returned nil is final: nothing written through its handle
\* before it was closed is ever durable.  Transaction relies on it when fn fails
\* and the enclosing scopes go on to commit.
THEOREM RolledBackStaysGone == Spec => []RolledBackNeverDurable
  <1>1. IInv => RolledBackNeverDurable
    BY DEF IInv, TypeOK, WriteInv, RolledBackGone, RolledBackNeverDurable
  <1>2. QED
    BY <1>1, Invariance, PTL

\* Only closing the root handle with Commit makes writes durable.
THEOREM NoEarlyPublication == Spec => []DurableOnlyAfterRootCommit
  <1>1. IInv => DurableOnlyAfterRootCommit
    BY DEF IInv
  <1>2. QED
    BY <1>1, Invariance, PTL

\* Commit and Rollback of a root handle end its sql.Tx whatever they return.
THEOREM RootsGiveTheirConnectionBack == Spec => []ClosedRootReleasesConnection
  <1>1. IInv => ClosedRootReleasesConnection
    BY DEF IInv
  <1>2. QED
    BY <1>1, Invariance, PTL

\* What Commit or Rollback of the root handle returned is what happened to the
\* writes of every handle of its sql.Tx.
THEOREM RootOutcomesTellTheTruth == Spec => []RootOutcomeTruthful
  <1>1. IInv => RootOutcomeTruthful
    BY DEF IInv
  <1>2. QED
    BY <1>1, Invariance, PTL

\* A handle left open when its sql.Tx ended can change nothing any more.
THEOREM OrphansStayInert == Spec => OrphansAreInert
  <1>1. ASSUME IInv, [Next]_vars, NEW h \in Handle,
               txState[h] = "open", server[tx[h]].status = "ended"
        PROVE  /\ outcome'[h] \in {"none", "commit_failed", "rollback_failed"}
               /\ \A w \in acked' \ acked : via[w] # h
               /\ durable' \cap AckedIn(tx[h]) = durable \cap AckedIn(tx[h])
    <2>1. /\ outcome[h] = "none" /\ tx[h] \in Handle
          /\ savepoint[h] = 0 <=> tx[h] = h
          /\ \A u \in Handle : server[u].pending \subseteq AckedIn(u)
          /\ outcome \in [Handle -> Outcome]
      BY <1>1 DEF IInv, TypeOK, HandleInv, HandleOK, WriteInv
    <2>2. CASE UNCHANGED <<durable, acked, outcome>>
      BY <2>1, <2>2
    <2>3. ASSUME NEW w \in Write, ExecRun(w)
          PROVE  UNCHANGED <<durable, outcome>> /\ acked' = acked \cup {w} /\ via[w] # h
      BY <1>1, <2>3 DEF ExecRun
    <2>4. ASSUME NEW g \in Handle, CommitNested(g) \/ RollbackNested(g) \/ RollbackRoot(g)
          PROVE  /\ UNCHANGED <<durable, acked>>
                 /\ outcome'[h] \in {"none", "commit_failed", "rollback_failed"}
      <3>1. CASE g = h
        BY <1>1, <2>1, <2>4, <3>1 DEF CommitNested, RollbackNested, RollbackRoot, Finish,
                                      statementVars, CanRelease, CanRollbackTo
      <3>2. CASE g # h
        BY <2>1, <2>4, <3>2 DEF CommitNested, RollbackNested, RollbackRoot, Finish, statementVars
      <3>3. QED
        BY <3>1, <3>2
    <2>5. ASSUME NEW g \in Handle, CommitRoot(g)
          PROVE  /\ acked' = acked
                 /\ outcome'[h] \in {"none", "commit_failed"}
                 /\ \/ durable' = durable
                    \/ durable' = durable \cup server[g].pending /\ tx[h] # g
      BY <1>1, <2>1, <2>5 DEF CommitRoot, Finish, statementVars
    <2>6. \A g \in Handle : tx[h] # g => AckedIn(tx[h]) \cap server[g].pending = {}
      BY <2>1 DEF AckedIn
    <2>7. \/ UNCHANGED <<durable, acked, outcome>>
          \/ \E w \in Write : ExecRun(w)
          \/ \E g \in Handle : CommitNested(g) \/ RollbackNested(g) \/ RollbackRoot(g)
          \/ \E g \in Handle : CommitRoot(g)
      BY <1>1 DEF Next, BeginRoot, BeginNested, BeginNestedFails, ExecCheck, ExecFails,
                  ConnectionLost, ContextDone, statementVars, vars
    <2>8. QED
      BY <2>1, <2>2, <2>3, <2>4, <2>5, <2>6, <2>7
  <1>2. IInv /\ [Next]_vars =>
           [\A h \in Handle :
               txState[h] = "open" /\ server[tx[h]].status = "ended"
                  => /\ outcome'[h] \in {"none", "commit_failed", "rollback_failed"}
                     /\ \A w \in acked' \ acked : via[w] # h
                     /\ durable' \cap AckedIn(tx[h]) = durable \cap AckedIn(tx[h])]_vars
    BY <1>1
  <1>3. QED
    BY <1>2, Invariance, PTL DEF Spec, OrphansAreInert
=============================================================================
