--------------------------- MODULE OrmTransaction ---------------------------
(***************************************************************************)
(* The manual transaction API of orm/transaction.go: DB handles, Begin,    *)
(* Commit, Rollback and the statements executed through them, on handles   *)
(* that goroutines may share.                                              *)
(*                                                                         *)
(* Begin on the root DB opens a sql.Tx; Begin on a handle that already has *)
(* one issues a SAVEPOINT on the SAME sql.Tx and returns a new handle.  So *)
(* handles form a tree over one server transaction, but a handle knows     *)
(* only its sql.Tx pointer, its savepoint name and its own closed flag:    *)
(* finishing one handle leaves the flags of every other one as they were.  *)
(*                                                                         *)
(* A sql.Tx is named by the handle whose Begin created it.  A statement is *)
(* two steps, because execContext and queryContext read the closed flag    *)
(* without the handle's mutex: the handle may be finished in between.      *)
(*                                                                         *)
(* A statement carries a context of its own, SAVEPOINT, RELEASE and        *)
(* ROLLBACK TO that of the nested handle.  When it is done while the       *)
(* root's is not, database/sql returns its error without sending anything: *)
(* the caller is told of a failure the server knows nothing of.            *)
(***************************************************************************)
EXTENDS PostgresTx, FiniteSets

CONSTANTS Handle,        \* the DB handles that Begin can return
          Write,         \* the data statements, each issued at most once
          None,          \* no handle, no sql.Tx
          MaxSavepoint   \* bound: savepoint names allocated in a behaviour

ASSUME NoneAssumption == None \notin Handle
ASSUME MaxSavepointAssumption == MaxSavepoint \in Nat

VARIABLES
    txState,       \* per handle: "none" until Begin, then txState.closed
    tx,            \* per handle: the db.tx pointer
    savepoint,     \* per handle: txState.savepoint, 0 for the empty string
    savepointSeq,  \* the package's atomic counter of savepoint names
    server,        \* per sql.Tx: the PostgreSQL transaction behind it
    durable,       \* the committed writes
    inflight,      \* statements past the closed check, not yet executed
    via,           \* per write: the handle it was issued through
    acked,         \* writes whose statement succeeded
    late,          \* the acked writes that ran after their handle was closed
    outcome        \* per handle: what Commit or Rollback reported

handleVars == <<txState, tx, savepoint, savepointSeq>>
statementVars == <<inflight, via, acked, late>>
vars == <<txState, tx, savepoint, savepointSeq, server, durable, inflight, via, acked, late, outcome>>

\* Unsent: an error of the nested handle's own context, the server not asked.
Unsent == {"commit_unsent", "rollback_unsent"}
Outcome == {"none", "committed", "commit_failed", "rolled_back", "rollback_failed"} \cup Unsent

Savepoint == [name : Nat, mark : SUBSET Write]
Transaction == [status : TxStatus, pending : SUBSET Write, savepoints : Seq(Savepoint)]

TypeOK ==
    /\ txState \in [Handle -> {"none", "open", "closed"}]
    /\ tx \in [Handle -> Handle \cup {None}]
    /\ savepoint \in [Handle -> Nat]
    /\ savepointSeq \in 0..MaxSavepoint
    /\ server \in [Handle -> Transaction]
    /\ durable \in SUBSET Write
    /\ inflight \in SUBSET Write
    /\ via \in [Write -> Handle \cup {None}]
    /\ acked \in SUBSET Write
    /\ late \in SUBSET Write
    /\ outcome \in [Handle -> Outcome]

Init ==
    /\ txState = [h \in Handle |-> "none"]
    /\ tx = [h \in Handle |-> None]
    /\ savepoint = [h \in Handle |-> 0]
    /\ savepointSeq = 0
    /\ server = [h \in Handle |-> NoTransaction]
    /\ durable = {}
    /\ inflight = {}
    /\ via = [w \in Write |-> None]
    /\ acked = {}
    /\ late = {}
    /\ outcome = [h \in Handle |-> "none"]

-----------------------------------------------------------------------------
\* Begin

\* Mutant: the handle remembers the name before the one it used.
NewHandleOffByOne(h, t, name) ==
    /\ txState' = [txState EXCEPT ![h] = "open"]
    /\ tx' = [tx EXCEPT ![h] = t]
    /\ savepoint' = [savepoint EXCEPT ![h] = name - 1]

\* The handle cloneForTransaction returns: a flag of its own, a shared sql.Tx.
NewHandle(h, t, name) ==
    /\ txState' = [txState EXCEPT ![h] = "open"]
    /\ tx' = [tx EXCEPT ![h] = t]
    /\ savepoint' = [savepoint EXCEPT ![h] = name]

\* Begin on the root DB.  A failing BeginTx returns an error and no handle.
BeginRoot(h) ==
    /\ txState[h] = "none"
    /\ NewHandle(h, h, 0)
    /\ server' = [server EXCEPT ![h] = NewTransaction]
    /\ UNCHANGED <<savepointSeq, durable, statementVars, outcome>>

\* Mutant: every savepoint of a sql.Tx gets the same name.
BeginNestedOneName(p, h) ==
    /\ txState[p] = "open"
    /\ txState[h] = "none"
    /\ savepointSeq < MaxSavepoint
    /\ server[tx[p]].status = "active"
    /\ savepointSeq' = savepointSeq + 1
    /\ NewHandle(h, tx[p], 1)
    /\ server' = [server EXCEPT ![tx[p]] = Saved(@, 1)]
    /\ UNCHANGED <<durable, statementVars, outcome>>

\* Mutant: nextSavepointName is called once for the statement, once for the handle.
BeginNestedTwoNames(p, h) ==
    /\ txState[p] = "open"
    /\ txState[h] = "none"
    /\ savepointSeq + 1 < MaxSavepoint
    /\ server[tx[p]].status = "active"
    /\ savepointSeq' = savepointSeq + 2
    /\ NewHandle(h, tx[p], savepointSeq + 2)
    /\ server' = [server EXCEPT ![tx[p]] = Saved(@, savepointSeq + 1)]
    /\ UNCHANGED <<durable, statementVars, outcome>>

\* Begin on handle p: a savepoint of its sql.Tx under the next name.
BeginNested(p, h) ==
    /\ txState[p] = "open"
    /\ txState[h] = "none"
    /\ savepointSeq < MaxSavepoint
    /\ server[tx[p]].status = "active"
    /\ savepointSeq' = savepointSeq + 1
    /\ NewHandle(h, tx[p], savepointSeq + 1)
    /\ server' = [server EXCEPT ![tx[p]] = Saved(@, savepointSeq + 1)]
    /\ UNCHANGED <<durable, statementVars, outcome>>

\* Begin on handle p when SAVEPOINT fails, refused by a server that is not in
\* an active transaction, or unsent: the name is spent, no handle made.
BeginNestedFails(p) ==
    /\ txState[p] = "open"
    /\ savepointSeq < MaxSavepoint
    /\ savepointSeq' = savepointSeq + 1
    /\ UNCHANGED <<txState, tx, savepoint, server, durable, statementVars, outcome>>

-----------------------------------------------------------------------------
\* Statements: execContext and queryContext

\* transactionClosedError passes.
ExecCheck(h, w) ==
    /\ via[w] = None
    /\ txState[h] = "open"
    /\ inflight' = inflight \cup {w}
    /\ via' = [via EXCEPT ![w] = h]
    /\ UNCHANGED <<handleVars, server, durable, acked, late, outcome>>

\* tx.ExecContext succeeds.
ExecRun(w) ==
    LET h == via[w] IN
    /\ w \in inflight
    /\ server[tx[h]].status = "active"
    /\ server' = [server EXCEPT ![tx[h]] = Inserted(@, w)]
    /\ inflight' = inflight \ {w}
    /\ acked' = acked \cup {w}
    /\ late' = IF txState[h] = "closed" THEN late \cup {w} ELSE late
    /\ UNCHANGED <<handleVars, durable, via, outcome>>

\* tx.ExecContext or tx.QueryContext fails: on its own account, because the
\* transaction is aborted, lost or ended, or unsent, its context being done.
ExecFails(w) ==
    LET t == tx[via[w]] IN
    /\ w \in inflight
    /\ \/ server' = [server EXCEPT ![t] = Failed(@)]
       \/ UNCHANGED server
    /\ inflight' = inflight \ {w}
    /\ UNCHANGED <<handleVars, durable, via, acked, late, outcome>>

-----------------------------------------------------------------------------
\* Commit and Rollback.  The deferred markTransactionClosed closes the
\* handle whatever the database answers.

Finish(h, result) ==
    /\ txState' = [txState EXCEPT ![h] = "closed"]
    /\ outcome' = [outcome EXCEPT ![h] = result]
    /\ UNCHANGED <<tx, savepoint, savepointSeq, statementVars>>

\* Mutant: a nested Commit ends the whole sql.Tx.
CommitNestedCommitsAll(h) ==
    /\ txState[h] = "open"
    /\ savepoint[h] # 0
    /\ server[tx[h]].status = "active"
    /\ server' = [server EXCEPT ![tx[h]] = Published(@)]
    /\ durable' = durable \cup server[tx[h]].pending
    /\ Finish(h, "committed")

\* Mutant: the error of RELEASE SAVEPOINT is dropped.
CommitNestedDropsError(h) ==
    /\ txState[h] = "open"
    /\ savepoint[h] # 0
    /\ \/ server' = [server EXCEPT ![tx[h]] =
                        IF CanRelease(@, savepoint[h]) THEN Released(@, savepoint[h]) ELSE Failed(@)]
       \/ UNCHANGED server
    /\ Finish(h, "committed")
    /\ UNCHANGED durable

\* RELEASE SAVEPOINT: done; refused; or unsent, when the handle is closed with
\* its savepoint and its writes still in an active transaction.
CommitNested(h) ==
    LET t == tx[h] IN
    /\ txState[h] = "open"
    /\ savepoint[h] # 0
    /\ \/ /\ CanRelease(server[t], savepoint[h])
          /\ server' = [server EXCEPT ![t] = Released(@, savepoint[h])]
          /\ Finish(h, "committed")
       \/ /\ ~ CanRelease(server[t], savepoint[h])
          /\ server' = [server EXCEPT ![t] = Failed(@)]
          /\ Finish(h, "commit_failed")
       \/ /\ server[t].status = "active"
          /\ Finish(h, "commit_unsent")
          /\ UNCHANGED server
    /\ UNCHANGED durable

\* Mutant: the error of tx.Commit is dropped.
CommitRootDropsError(h) ==
    /\ txState[h] = "open"
    /\ savepoint[h] = 0
    /\ \/ /\ server[h].status = "active"
          /\ server' = [server EXCEPT ![h] = Published(@)]
          /\ durable' = durable \cup server[h].pending
       \/ /\ server' = [server EXCEPT ![h] = Discarded(@)]
          /\ UNCHANGED durable
    /\ Finish(h, "committed")

\* tx.Commit: published; or rolled back with an error, the transaction being
\* aborted, lost or already ended; or the connection breaks during COMMIT and
\* the caller gets an error, whether or not the server applied it.
CommitRoot(h) ==
    /\ txState[h] = "open"
    /\ savepoint[h] = 0
    /\ \/ /\ server[h].status = "active"
          /\ server' = [server EXCEPT ![h] = Published(@)]
          /\ durable' = durable \cup server[h].pending
          /\ Finish(h, "committed")
       \/ /\ server[h].status = "active"
          /\ server' = [server EXCEPT ![h] = Published(@)]
          /\ durable' = durable \cup server[h].pending
          /\ Finish(h, "commit_failed")
       \/ /\ server' = [server EXCEPT ![h] = Discarded(@)]
          /\ Finish(h, "commit_failed")
          /\ UNCHANGED durable

\* Mutant: a nested Rollback releases its savepoint instead of returning to it.
RollbackNestedReleases(h) ==
    /\ txState[h] = "open"
    /\ savepoint[h] # 0
    /\ \/ /\ CanRelease(server[tx[h]], savepoint[h])
          /\ server' = [server EXCEPT ![tx[h]] = Released(@, savepoint[h])]
          /\ Finish(h, "rolled_back")
       \/ /\ ~ CanRelease(server[tx[h]], savepoint[h])
          /\ server' = [server EXCEPT ![tx[h]] = Failed(@)]
          /\ Finish(h, "rollback_failed")
       \/ /\ server[tx[h]].status \in {"active", "aborted"}
          /\ Finish(h, "rollback_unsent")
          /\ UNCHANGED server
    /\ UNCHANGED durable

\* ROLLBACK TO SAVEPOINT: done; refused; or unsent, the transaction left as it
\* was, active or aborted, with the writes it should have undone.
RollbackNested(h) ==
    LET t == tx[h] IN
    /\ txState[h] = "open"
    /\ savepoint[h] # 0
    /\ \/ /\ CanRollbackTo(server[t], savepoint[h])
          /\ server' = [server EXCEPT ![t] = RolledBackTo(@, savepoint[h])]
          /\ Finish(h, "rolled_back")
       \/ /\ ~ CanRollbackTo(server[t], savepoint[h])
          /\ server' = [server EXCEPT ![t] = Failed(@)]
          /\ Finish(h, "rollback_failed")
       \/ /\ server[t].status \in {"active", "aborted"}
          /\ Finish(h, "rollback_unsent")
          /\ UNCHANGED server
    /\ UNCHANGED durable

\* Mutant: an aborted sql.Tx is taken for one that has ended.
RollbackRootSkipsAborted(h) ==
    /\ txState[h] = "open"
    /\ savepoint[h] = 0
    /\ server' = [server EXCEPT ![h] = IF @.status = "aborted" THEN @ ELSE Discarded(@)]
    /\ Finish(h, "rolled_back")
    /\ UNCHANGED durable

\* tx.Rollback, which fails on a lost connection and on an ended sql.Tx but
\* leaves the sql.Tx done in every case.
RollbackRoot(h) ==
    /\ txState[h] = "open"
    /\ savepoint[h] = 0
    /\ server' = [server EXCEPT ![h] = Discarded(@)]
    /\ Finish(h, IF server[h].status \in {"active", "aborted"}
                 THEN "rolled_back" ELSE "rollback_failed")
    /\ UNCHANGED durable

Commit(h) == CommitNested(h) \/ CommitRoot(h)
Rollback(h) == RollbackNested(h) \/ RollbackRoot(h)

-----------------------------------------------------------------------------
\* Faults

\* The connection breaks under an open sql.Tx.
ConnectionLost(t) ==
    /\ server[t].status \in {"active", "aborted"}
    /\ server' = [server EXCEPT ![t] = Broken(@)]
    /\ UNCHANGED <<handleVars, durable, statementVars, outcome>>

\* The context given to BeginTx is done: database/sql rolls the sql.Tx back
\* behind the handles, whose flags stay as they are.
ContextDone(t) ==
    /\ Live(server[t])
    /\ server' = [server EXCEPT ![t] = Discarded(@)]
    /\ UNCHANGED <<handleVars, durable, statementVars, outcome>>

Next ==
    \/ \E h \in Handle : BeginRoot(h)
    \/ \E p, h \in Handle : BeginNested(p, h)
    \/ \E p \in Handle : BeginNestedFails(p)
    \/ \E h \in Handle, w \in Write : ExecCheck(h, w)
    \/ \E w \in Write : ExecRun(w)
    \/ \E w \in Write : ExecFails(w)
    \/ \E h \in Handle : CommitNested(h)
    \/ \E h \in Handle : CommitRoot(h)
    \/ \E h \in Handle : RollbackNested(h)
    \/ \E h \in Handle : RollbackRoot(h)
    \/ \E t \in Handle : ConnectionLost(t)
    \/ \E t \in Handle : ContextDone(t)

Spec == Init /\ [][Next]_vars

-----------------------------------------------------------------------------
\* Properties

\* The acknowledged writes of a sql.Tx, through whichever of its handles.
AckedIn(t) == {w \in acked : tx[via[w]] = t}

\* Some Rollback of a nested handle of t undid part of the transaction.
PartlyUndone(t) ==
    \E h \in Handle : tx[h] = t /\ savepoint[h] # 0 /\ outcome[h] = "rolled_back"

\* What a handle wrote is never committed once its Rollback has returned nil,
\* whatever the other handles of the same sql.Tx do afterwards: commit, begin
\* again, or reuse the savepoint that ROLLBACK TO leaves on the stack.  Only
\* a statement that passed the closed check before the Rollback and ran after
\* it (late) escapes.
RolledBackNeverDurable ==
    \A w \in acked \ late : outcome[via[w]] = "rolled_back" => w \notin durable

\* What the root handle reports is what happened to the whole tree's writes:
\* after a nil Commit nothing acknowledged is missing unless a nested handle
\* was rolled back, after a Rollback (even a failed one) nothing survives, and
\* a failed Commit published everything or nothing.
RootOutcomeTruthful ==
    \A t \in Handle :
        /\ outcome[t] = "committed" /\ tx[t] = t /\ ~ PartlyUndone(t)
              => AckedIn(t) \subseteq durable
        /\ outcome[t] \in {"rolled_back", "rollback_failed"} /\ tx[t] = t
              => AckedIn(t) \cap durable = {}
        /\ outcome[t] = "commit_failed" /\ tx[t] = t /\ ~ PartlyUndone(t)
              => AckedIn(t) \subseteq durable \/ AckedIn(t) \cap durable = {}

\* Nothing becomes durable before the root handle of its sql.Tx is closed: no
\* nested Commit, savepoint traffic or abandoned handle publishes anything.
DurableOnlyAfterRootCommit ==
    \A w \in durable : outcome[tx[via[w]]] \in {"committed", "commit_failed"}

\* A closed root handle has given its connection back, also when the database
\* refused the COMMIT or the ROLLBACK.
ClosedRootReleasesConnection ==
    \A h \in Handle :
        txState[h] = "closed" /\ tx[h] = h => server[h].status = "ended"

\* A nested handle left open when its sql.Tx ended stays open, and is inert:
\* no statement through it succeeds, and finishing it reports a failure.
OrphansAreInert ==
    [][\A h \in Handle :
          txState[h] = "open" /\ server[tx[h]].status = "ended"
             => /\ outcome'[h] \in {"none", "commit_failed", "rollback_failed"}
                /\ \A w \in acked' \ acked : via[w] # h
                /\ durable' \cap AckedIn(tx[h]) = durable \cap AckedIn(tx[h])]_vars
=============================================================================
