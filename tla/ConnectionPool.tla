--------------------------- MODULE ConnectionPool ---------------------------
(***************************************************************************)
(* The life of a root handle: Open with its ping and its preflight,        *)
(* statements with and without prepared statements, transactions that hold *)
(* a connection while their callback runs, and Close; who waits for whom   *)
(* among the handle's two mutexes and the connections of its pool.         *)
(*                                                                         *)
(* What a transaction does to data is the subject of OrmTransaction.  Here *)
(* the statements of a transaction's own handle are no steps: they use its *)
(* connection and wait for nothing in the process.                         *)
(***************************************************************************)
EXTENDS Naturals, FiniteSets, Sequences

CONSTANTS Caller,        \* goroutines
          Owner,         \* those that open and close the handle
          Text,          \* the SQL of statements
          Stmt,          \* prepared statements
          None,
          MaxOpenConns,  \* of the pool
          MaxNested      \* bound: transactions of one goroutine, one in the other

ASSUME CallersAssumption == IsFiniteSet(Caller) /\ Owner \subseteq Caller /\ None \notin Caller
ASSUME StmtAssumption == Stmt \subseteq Nat /\ None \notin Stmt
ASSUME PoolAssumption == MaxOpenConns \in Nat \ {0} /\ MaxNested \in Nat

VARIABLES
    handle,    \* of the root handle: not there, being opened, open, closed
    pool,      \* the sql.DB is open
    pc,        \* where each goroutine is
    txs,       \* its transactions: TRUE for those that have their connection
    text,      \* the statement it executes
    stmt,      \* and the prepared statement it has for it
    stmts,     \* the cache
    open,      \* the prepared statements that are not closed
    stmtMu, txMu,  \* who holds the mutexes of the root handle
    prepare,   \* Config.PrepareStatements
    rootInTx   \* callbacks use the root handle, too

vars == <<handle, pool, pc, txs, text, stmt, stmts, open, stmtMu, txMu, prepare, rootInTx>>
config == <<prepare, rootInTx>>
cache == <<stmts, open>>

PC == {"idle", "driver", "ping", "preflight",
       "lookup", "prepare", "start", "conn", "exec",
       "txlock", "begin", "closelock", "closestmts", "close"}

TypeOK ==
    /\ handle \in {"none", "opening", "open", "closed"}
    /\ pool \in BOOLEAN
    /\ pc \in [Caller -> PC]
    /\ txs \in [Caller -> Seq(BOOLEAN)] /\ \A c \in Caller : Len(txs[c]) <= MaxNested
    /\ text \in [Caller -> Text \cup {None}]
    /\ stmt \in [Caller -> Stmt \cup {None}]
    /\ stmts \in [Text -> Stmt \cup {None}]
    /\ open \subseteq Stmt
    /\ stmtMu \in Caller \cup {None}
    /\ txMu \in Caller \cup {None}
    /\ \A c \in Caller :
          /\ stmtMu = c <=> pc[c] \in {"prepare", "closestmts"}
          /\ txMu = c <=> pc[c] = "begin"

Init ==
    /\ handle = "none" /\ pool = FALSE
    /\ pc = [c \in Caller |-> "idle"]
    /\ txs = [c \in Caller |-> <<>>]
    /\ text = [c \in Caller |-> None]
    /\ stmt = [c \in Caller |-> None]
    /\ stmts = [t \in Text |-> None]
    /\ open = {}
    /\ stmtMu = None /\ txMu = None
    /\ prepare \in BOOLEAN
    /\ rootInTx \in BOOLEAN
    /\ ~ (prepare /\ rootInTx)

-----------------------------------------------------------------------------
(* database/sql: a connection is in the hands of a live transaction or of a *)
(* statement.                                                              *)

Held ==
    {c \in Caller : pc[c] = "exec"} \X {0}
    \cup {h \in Caller \X (1..MaxNested) : h[2] \in DOMAIN txs[h[1]] /\ txs[h[1]][h[2]]}

Available == Cardinality(Held) < MaxOpenConns

Moves(c, to) == pc' = [pc EXCEPT ![c] = to]
OpensAndCloses == <<handle, pool>>
Statements == <<text, stmt, cache>>
Mutexes == <<stmtMu, txMu>>

-----------------------------------------------------------------------------
(* dorm.Open.                                                              *)

Open(c) ==
    /\ handle = "none" /\ pc[c] = "idle"
    /\ handle' = "opening"
    /\ Moves(c, "driver")
    /\ UNCHANGED <<pool, txs, Statements, Mutexes, config>>

\* Validate and the driver's Open.
DriverOpens(c) ==
    /\ pc[c] = "driver"
    /\ \/ pool' = TRUE /\ Moves(c, "ping") /\ UNCHANGED handle
       \/ handle' = "none" /\ Moves(c, "idle") /\ UNCHANGED pool
    /\ UNCHANGED <<txs, Statements, Mutexes, config>>

Pings(c) ==
    /\ pc[c] = "ping"
    /\ Moves(c, "preflight")
    /\ UNCHANGED <<OpensAndCloses, txs, Statements, Mutexes, config>>

\* The ping or the preflight fails: db.Close.
OpenFails(c) ==
    /\ pc[c] \in {"ping", "preflight"}
    /\ pool' = FALSE
    /\ handle' = "none"
    /\ Moves(c, "idle")
    /\ UNCHANGED <<txs, Statements, Mutexes, config>>

OpenReturns(c) ==
    /\ pc[c] = "preflight"
    /\ handle' = "open"
    /\ Moves(c, "idle")
    /\ UNCHANGED <<pool, txs, Statements, Mutexes, config>>

-----------------------------------------------------------------------------
(* execContext and queryContext of the root handle.                        *)

\* The root handle is there, and this goroutine uses it now.
UsesRoot(c) ==
    /\ pc[c] = "idle"
    /\ handle \in {"open", "closed"}
    /\ txs[c] # <<>> => rootInTx

Execute(c, t) ==
    /\ UsesRoot(c)
    /\ text' = [text EXCEPT ![c] = t]
    /\ Moves(c, IF prepare THEN "lookup" ELSE "conn")
    /\ UNCHANGED <<OpensAndCloses, txs, stmt, cache, Mutexes, config>>

\* Mutant: the mutex protects the lookup, and not the preparation.
StmtMuIsFreeOrPreparing == stmtMu \in {None} \cup {c \in Caller : pc[c] = "prepare"}

StmtMuIsFree == stmtMu = None

\* prepared: a hit unlocks at once, a miss keeps the mutex.
Lookup(c) ==
    /\ pc[c] = "lookup"
    /\ StmtMuIsFree
    /\ IF stmts[text[c]] # None
       THEN /\ stmt' = [stmt EXCEPT ![c] = stmts[text[c]]]
            /\ Moves(c, "start")
            /\ UNCHANGED stmtMu
       ELSE /\ stmtMu' = c
            /\ Moves(c, "prepare")
            /\ UNCHANGED stmt
    /\ UNCHANGED <<OpensAndCloses, txs, text, cache, txMu, config>>

\* The prepared statements that are new to everybody.  Bound: there is one.
FreshStmts == Stmt \ (open \cup {stmt[c] : c \in Caller})
NewStmt == CHOOSE s \in FreshStmts : TRUE

\* Mutant: when it fails, the mutex stays locked.
PrepareKeepsMutex(c) ==
    /\ pc[c] = "prepare"
    /\ \/ /\ pool /\ Available /\ FreshStmts # {}
          /\ LET s == NewStmt IN
                /\ open' = open \cup {s}
                /\ stmts' = [stmts EXCEPT ![text[c]] = s]
                /\ stmt' = [stmt EXCEPT ![c] = s]
          /\ stmtMu' = None
          /\ Moves(c, "start")
       \/ /\ ~ pool \/ Available
          /\ Moves(c, "conn")
          /\ UNCHANGED <<stmt, cache, stmtMu>>
    /\ UNCHANGED <<OpensAndCloses, txs, text, txMu, config>>

\* PrepareContext with the background context: it waits for a connection as long
\* as it takes.  When it fails, the statement is executed unprepared.
Prepare(c) ==
    /\ pc[c] = "prepare"
    /\ \/ /\ pool /\ Available /\ FreshStmts # {}
          /\ LET s == NewStmt IN
                /\ open' = open \cup {s}
                /\ stmts' = [stmts EXCEPT ![text[c]] = s]
                /\ stmt' = [stmt EXCEPT ![c] = s]
          /\ Moves(c, "start")
       \/ /\ ~ pool \/ Available
          /\ Moves(c, "conn")
          /\ UNCHANGED <<stmt, cache>>
    /\ stmtMu' = None
    /\ UNCHANGED <<OpensAndCloses, txs, text, txMu, config>>

\* The operation returns, with an error or not.
Returns(c) ==
    /\ Moves(c, "idle")
    /\ text' = [text EXCEPT ![c] = None]
    /\ stmt' = [stmt EXCEPT ![c] = None]
    /\ UNCHANGED <<OpensAndCloses, txs, cache, Mutexes, config>>

\* The statement's own lock: it is closed, or cannot be closed until this is over.
Start(c) ==
    /\ pc[c] = "start"
    /\ IF stmt[c] \notin open THEN Returns(c)
       ELSE /\ Moves(c, "conn")
            /\ UNCHANGED <<OpensAndCloses, txs, Statements, Mutexes, config>>

TakesConnection(c) ==
    /\ pc[c] = "conn"
    /\ pool /\ Available
    /\ Moves(c, "exec")
    /\ UNCHANGED <<OpensAndCloses, txs, Statements, Mutexes, config>>

PoolIsClosed(c) == pc[c] = "conn" /\ ~ pool /\ Returns(c)

Executed(c) == pc[c] = "exec" /\ Returns(c)

-----------------------------------------------------------------------------
(* Transactions of the root handle.                                        *)

Begin(c) ==
    /\ UsesRoot(c)
    /\ Len(txs[c]) < MaxNested
    /\ Moves(c, "txlock")
    /\ UNCHANGED <<OpensAndCloses, txs, Statements, Mutexes, config>>

\* Begin holds txMu while BeginTx waits for a connection.
BeginLocks(c) ==
    /\ pc[c] = "txlock"
    /\ txMu = None
    /\ txMu' = c
    /\ Moves(c, "begin")
    /\ UNCHANGED <<OpensAndCloses, txs, Statements, stmtMu, config>>

BeginTx(c) ==
    /\ pc[c] = "begin"
    /\ \/ pool /\ Available /\ txs' = [txs EXCEPT ![c] = Append(@, TRUE)]
       \/ ~ pool /\ UNCHANGED txs
    /\ txMu' = None
    /\ Moves(c, "idle")
    /\ UNCHANGED <<OpensAndCloses, Statements, stmtMu, config>>

\* The callback of the innermost transaction returns: Commit or Rollback.
CallbackReturns(c) ==
    /\ pc[c] = "idle" /\ txs[c] # <<>>
    /\ txs' = [txs EXCEPT ![c] = SubSeq(@, 1, Len(@) - 1)]
    /\ UNCHANGED <<OpensAndCloses, pc, Statements, Mutexes, config>>

\* The context of a transaction is done: database/sql takes its connection back.
TxContextDone(c, i) ==
    /\ i \in DOMAIN txs[c] /\ txs[c][i]
    /\ txs' = [txs EXCEPT ![c][i] = FALSE]
    /\ UNCHANGED <<OpensAndCloses, pc, Statements, Mutexes, config>>

\* The context of an operation is done while it waits for a connection.
StatementContextDone(c) == pc[c] = "conn" /\ Returns(c)

\* Mutant: BeginTx waits with the background context, as PrepareContext does.
BeginWaitsOn(c) == FALSE

BeginContextDone(c) ==
    /\ pc[c] = "begin"
    /\ txMu' = None
    /\ Moves(c, "idle")
    /\ UNCHANGED <<OpensAndCloses, txs, Statements, stmtMu, config>>

ContextDone(c) == StatementContextDone(c) \/ BeginContextDone(c)

-----------------------------------------------------------------------------
(* Close.                                                                  *)

Close(c) ==
    /\ UsesRoot(c)
    /\ Moves(c, "closelock")
    /\ UNCHANGED <<OpensAndCloses, txs, Statements, Mutexes, config>>

CloseLocks(c) ==
    /\ pc[c] = "closelock"
    /\ stmtMu = None
    /\ stmtMu' = c
    /\ Moves(c, "closestmts")
    /\ UNCHANGED <<OpensAndCloses, txs, Statements, txMu, config>>

Cached == {stmts[t] : t \in Text} \ {None}

\* Closing a statement waits until nobody executes it.
CloseStatements(c) ==
    /\ pc[c] = "closestmts"
    /\ \A d \in Caller : pc[d] \in {"conn", "exec"} => stmt[d] \notin Cached
    /\ open' = open \ Cached
    /\ stmts' = [t \in Text |-> None]
    /\ stmtMu' = None
    /\ Moves(c, "close")
    /\ UNCHANGED <<OpensAndCloses, txs, text, stmt, txMu, config>>

CloseReturns(c) ==
    /\ pc[c] = "close"
    /\ pool' = FALSE
    /\ handle' = "closed"
    /\ Moves(c, "idle")
    /\ UNCHANGED <<txs, Statements, Mutexes, config>>

-----------------------------------------------------------------------------
\* What a goroutine does by itself once it has begun an operation.
Step(c) ==
    \/ DriverOpens(c) \/ Pings(c) \/ OpenFails(c) \/ OpenReturns(c)
    \/ Lookup(c) \/ Prepare(c) \/ Start(c) \/ TakesConnection(c) \/ PoolIsClosed(c)
    \/ Executed(c)
    \/ BeginLocks(c) \/ BeginTx(c)
    \/ CloseLocks(c) \/ CloseStatements(c) \/ CloseReturns(c)

Next ==
    \E c \in Caller :
        \/ c \in Owner /\ (Open(c) \/ Close(c))
        \/ \E t \in Text : Execute(c, t)
        \/ Begin(c)
        \/ Step(c)
        \/ CallbackReturns(c)
        \/ \E i \in 1..MaxNested : TxContextDone(c, i)
        \/ ContextDone(c)

Spec == Init /\ [][Next]_vars

\* A goroutine whose turn comes again and again gets the mutex or the connection it
\* waits for: Go's mutexes and database/sql hand them to somebody who waits.
\* Callbacks return.  Contexts that callbacks wait with while they hold a
\* connection have a deadline.
Fairness ==
    \A c \in Caller :
        /\ SF_vars(Step(c))
        /\ SF_vars(CallbackReturns(c))
        /\ WF_vars(rootInTx /\ ContextDone(c))

FairSpec == Spec /\ Fairness

-----------------------------------------------------------------------------
(* Properties.                                                             *)

\* Every operation on the root handle ends, Close included, and gives everyone else
\* a chance to: without prepared statements whatever the callbacks wait for, as
\* long as their contexts end; with them when callbacks keep to the handle of
\* their transaction, however long PrepareContext makes the whole handle wait.
OperationsEnd == \A c \in Caller : pc[c] # "idle" ~> pc[c] = "idle"

\* Every prepared statement that is open can be found, and closed, by Close, also
\* when several goroutines miss the cache at once; and every pool that is open
\* belongs to a handle that somebody has, or to an Open that goes on.
NothingLeaks ==
    /\ open \subseteq Cached
    /\ pool => handle \in {"open", "opening"}
=============================================================================
