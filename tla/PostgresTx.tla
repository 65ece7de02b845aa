----------------------------- MODULE PostgresTx -----------------------------
(***************************************************************************)
(* One PostgreSQL transaction as the code in orm/transaction.go uses it: a *)
(* database/sql Tx holding a server-side transaction with a stack of named *)
(* savepoints.  It is external code (pgx, database/sql and the server), so *)
(* only what the ORM relies on is modelled:                                *)
(*                                                                         *)
(*   - a failed statement aborts the transaction, and until a ROLLBACK TO  *)
(*     SAVEPOINT every other statement fails as well;                      *)
(*   - a savepoint name denotes the most recent savepoint of that name;    *)
(*   - RELEASE destroys the savepoint and every later one, keeping the     *)
(*     writes; ROLLBACK TO destroys the later ones only, undoing the       *)
(*     writes made since, and KEEPS the named savepoint;                   *)
(*   - COMMIT of an aborted transaction rolls it back and reports an error.*)
(*                                                                         *)
(* A transaction is a record                                               *)
(*   status      "none"    no sql.Tx has been created                      *)
(*               "active"  statements succeed                              *)
(*               "aborted" a statement failed; only ROLLBACK [TO] succeeds *)
(*               "lost"    the connection broke; the sql.Tx is not done    *)
(*               "ended"   the sql.Tx is done (committed or rolled back)   *)
(*   pending     the writes that COMMIT would make durable                 *)
(*   savepoints  the stack, each with the pending writes it restores       *)
(***************************************************************************)
EXTENDS Naturals, Sequences

TxStatus == {"none", "active", "aborted", "lost", "ended"}

NoTransaction == [status |-> "none", pending |-> {}, savepoints |-> <<>>]

\* db.BeginTx: a fresh transaction.
NewTransaction == [status |-> "active", pending |-> {}, savepoints |-> <<>>]

\* The sql.Tx is still usable by Commit and Rollback.
Live(s) == s.status \in {"active", "aborted", "lost"}

HasSavepoint(s, name) == \E i \in DOMAIN s.savepoints : s.savepoints[i].name = name

\* The position of the most recent savepoint of that name.
Position(s, name) ==
    CHOOSE i \in DOMAIN s.savepoints :
        /\ s.savepoints[i].name = name
        /\ \A j \in DOMAIN s.savepoints : s.savepoints[j].name = name => j <= i

\* A statement that fails on a usable transaction aborts it.
Failed(s) ==
    [status |-> IF s.status = "active" THEN "aborted" ELSE s.status,
     pending |-> s.pending, savepoints |-> s.savepoints]

Inserted(s, w) ==
    [status |-> s.status, pending |-> s.pending \cup {w}, savepoints |-> s.savepoints]

\* SAVEPOINT name
Saved(s, name) ==
    [status |-> s.status, pending |-> s.pending,
     savepoints |-> Append(s.savepoints, [name |-> name, mark |-> s.pending])]

CanRelease(s, name) == s.status = "active" /\ HasSavepoint(s, name)

\* RELEASE SAVEPOINT name
Released(s, name) ==
    [status |-> s.status, pending |-> s.pending,
     savepoints |-> SubSeq(s.savepoints, 1, Position(s, name) - 1)]

CanRollbackTo(s, name) == s.status \in {"active", "aborted"} /\ HasSavepoint(s, name)

\* ROLLBACK TO SAVEPOINT name
RolledBackTo(s, name) ==
    [status |-> "active", pending |-> s.savepoints[Position(s, name)].mark,
     savepoints |-> SubSeq(s.savepoints, 1, Position(s, name))]

\* COMMIT that took effect: pending stays as the record of what it published.
Published(s) == [status |-> "ended", pending |-> s.pending, savepoints |-> <<>>]

\* ROLLBACK, or any end that discards the writes.
Discarded(s) == [status |-> "ended", pending |-> {}, savepoints |-> <<>>]

\* The connection breaks: the server rolls back, the sql.Tx does not know yet.
Broken(s) == [status |-> "lost", pending |-> {}, savepoints |-> <<>>]
=============================================================================
