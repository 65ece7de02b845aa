------------------------ MODULE ConnectionPoolProofs ------------------------
(***************************************************************************)
(* For any goroutines, statements and size of the pool: the two mutexes of *)
(* a root handle are held by whom they should be, and nothing that was     *)
(* opened is left behind.                                                  *)
(***************************************************************************)
EXTENDS ConnectionPool, SequenceTheorems, TLAPS

InOpen == {"driver", "ping", "preflight"}

\* At most one goroutine opens the handle, and meanwhile nobody uses it.
OneOpens ==
    /\ \A c \in Caller : pc[c] \in InOpen => handle = "opening"
    /\ \A c, d \in Caller : pc[c] \in InOpen /\ pc[d] \in InOpen => c = d
    /\ \A c \in Caller : pc[c] \notin InOpen \cup {"idle"} => handle \in {"open", "closed"}

\* The driver has not made a pool before it returns one.
NoPoolYet == \A c \in Caller : pc[c] = "driver" => ~ pool

\* A goroutine on its way to begin a transaction has room for it.
RoomToNest == \A c \in Caller : pc[c] \in {"txlock", "begin"} => Len(txs[c]) < MaxNested

\* Who looks a statement up has one, and who prepares it has not found it: the
\* mutex that it holds keeps others from putting it into the cache.
Uncached ==
    /\ \A c \in Caller : pc[c] \in {"lookup", "prepare"} => text[c] \in Text
    /\ \A c \in Caller : pc[c] = "prepare" => stmts[text[c]] = None

IInv == TypeOK /\ OneOpens /\ NoPoolYet /\ RoomToNest /\ Uncached /\ NothingLeaks

-----------------------------------------------------------------------------
LEMMA NewStmtIsFresh == FreshStmts # {} => NewStmt \in Stmt
  BY DEF NewStmt, FreshStmts

LEMMA InitIInv == Init => IInv
  <1> SUFFICES ASSUME Init PROVE IInv
    OBVIOUS
  <1> USE CallersAssumption, PoolAssumption DEF Init
  <1>1. txs \in [Caller -> Seq(BOOLEAN)] /\ \A c \in Caller : Len(txs[c]) <= MaxNested
    <2>1. << >> \in Seq(BOOLEAN) /\ Len(<< >>) = 0
      BY EmptySeq
    <2> QED
      BY <2>1
  <1>2. TypeOK
    <2>1. pc \in [Caller -> PC]
      BY DEF PC
    <2>2. stmts \in [Text -> Stmt \cup {None}] /\ text \in [Caller -> Text \cup {None}]
             /\ stmt \in [Caller -> Stmt \cup {None}]
      OBVIOUS
    <2> QED
      BY <1>1, <2>1, <2>2 DEF TypeOK
  <1>3. OneOpens /\ NoPoolYet /\ RoomToNest /\ Uncached
    BY DEF OneOpens, InOpen, NoPoolYet, RoomToNest, Uncached
  <1>4. NothingLeaks
    BY DEF NothingLeaks, Cached
  <1> QED
    BY <1>2, <1>3, <1>4 DEF IInv

\* TypeOK in the parts that a step can disturb each by itself.
TypesOfHandle == handle \in {"none", "opening", "open", "closed"} /\ pool \in BOOLEAN
TypesOfStatements ==
    /\ text \in [Caller -> Text \cup {None}]
    /\ stmt \in [Caller -> Stmt \cup {None}]
    /\ stmts \in [Text -> Stmt \cup {None}]
    /\ open \subseteq Stmt
TypesOfTxs == txs \in [Caller -> Seq(BOOLEAN)] /\ \A c \in Caller : Len(txs[c]) <= MaxNested
TypesOfMutexes ==
    /\ pc \in [Caller -> PC]
    /\ stmtMu \in Caller \cup {None}
    /\ txMu \in Caller \cup {None}
    /\ \A c \in Caller :
          /\ stmtMu = c <=> pc[c] \in {"prepare", "closestmts"}
          /\ txMu = c <=> pc[c] = "begin"

LEMMA TypeParts == TypeOK <=> TypesOfHandle /\ TypesOfStatements /\ TypesOfTxs /\ TypesOfMutexes
  BY DEF TypeOK, TypesOfHandle, TypesOfStatements, TypesOfTxs, TypesOfMutexes

\* What a goroutine may do.
Acts(c) ==
    \/ Open(c) \/ Close(c) \/ Begin(c) \/ CallbackReturns(c) \/ ContextDone(c)
    \/ \E t \in Text : Execute(c, t)
    \/ \E i \in 1..MaxNested : TxContextDone(c, i)
    \/ DriverOpens(c) \/ Pings(c) \/ OpenFails(c) \/ OpenReturns(c)
    \/ Lookup(c) \/ Prepare(c) \/ Start(c) \/ TakesConnection(c) \/ PoolIsClosed(c) \/ Executed(c)
    \/ BeginLocks(c) \/ BeginTx(c)
    \/ CloseLocks(c) \/ CloseStatements(c) \/ CloseReturns(c)

LEMMA NextActs == Next => \E c \in Caller : Acts(c)
  BY DEF Next, Step, Acts

-----------------------------------------------------------------------------
\* A mutex is locked by whom finds it free, and unlocked on every way out.
LEMMA MutexesAreHeldRightly == IInv /\ Next => TypesOfMutexes'
  <1> DEFINE Goal == TypesOfMutexes'
  <1> SUFFICES ASSUME IInv, NEW c \in Caller, Acts(c) PROVE Goal
    BY NextActs
  <1> USE TypeParts, CallersAssumption DEF IInv, TypesOfMutexes, PC, OpensAndCloses, Statements, Mutexes, config, cache, Moves
  <1>1. CASE Open(c)
    BY <1>1 DEF Open
  <1>2. CASE DriverOpens(c)
    BY <1>2 DEF DriverOpens
  <1>3. CASE Pings(c)
    BY <1>3 DEF Pings
  <1>4. CASE OpenFails(c)
    BY <1>4 DEF OpenFails
  <1>5. CASE OpenReturns(c)
    BY <1>5 DEF OpenReturns
  <1>6. ASSUME NEW t \in Text, Execute(c, t) PROVE Goal
    BY <1>6 DEF Execute, UsesRoot
  <1>7. CASE Lookup(c)
    BY <1>7 DEF Lookup, StmtMuIsFree
  <1>8. CASE Prepare(c)
    BY <1>8 DEF Prepare
  <1>9. CASE Start(c)
    BY <1>9 DEF Start, Returns
  <1>10. CASE TakesConnection(c)
    BY <1>10 DEF TakesConnection
  <1>11. CASE PoolIsClosed(c)
    BY <1>11 DEF PoolIsClosed, Returns
  <1>12. CASE Executed(c)
    BY <1>12 DEF Executed, Returns
  <1>13. CASE Begin(c)
    BY <1>13 DEF Begin, UsesRoot
  <1>14. CASE BeginLocks(c)
    BY <1>14 DEF BeginLocks
  <1>15. CASE BeginTx(c)
    BY <1>15 DEF BeginTx
  <1>16. CASE CallbackReturns(c)
    BY <1>16 DEF CallbackReturns
  <1>17. ASSUME NEW i \in 1..MaxNested, TxContextDone(c, i) PROVE Goal
    BY <1>17 DEF TxContextDone
  <1>18. CASE ContextDone(c)
    BY <1>18 DEF ContextDone, StatementContextDone, BeginContextDone, Returns
  <1>19. CASE Close(c)
    BY <1>19 DEF Close, UsesRoot
  <1>20. CASE CloseLocks(c)
    BY <1>20 DEF CloseLocks
  <1>21. CASE CloseStatements(c)
    BY <1>21 DEF CloseStatements
  <1>22. CASE CloseReturns(c)
    BY <1>22 DEF CloseReturns
  <1> QED
    BY <1>1, <1>2, <1>3, <1>4, <1>5, <1>6, <1>7, <1>8, <1>9, <1>10, <1>11, <1>12, <1>13, <1>14, <1>15, <1>16, <1>17, <1>18, <1>19, <1>20, <1>21, <1>22 DEF Acts

\* Transactions come and go at the end of a goroutine's sequence, and there is room
\* for the one that is on its way.
LEMMA TransactionsNest == IInv /\ Next => TypesOfTxs' /\ RoomToNest'
  <1> SUFFICES ASSUME IInv, NEW c \in Caller, Acts(c) PROVE TypesOfTxs' /\ RoomToNest'
    BY NextActs
  <1>0. /\ txs \in [Caller -> Seq(BOOLEAN)] /\ \A d \in Caller : Len(txs[d]) <= MaxNested
        /\ pc \in [Caller -> PC]
        /\ \A d \in Caller : pc[d] \in {"txlock", "begin"} => Len(txs[d]) < MaxNested
        /\ MaxNested \in Nat
    BY TypeParts, PoolAssumption DEF IInv, TypesOfTxs, TypesOfMutexes, RoomToNest
  <1>1. CASE BeginTx(c)
    <2> DEFINE longer == Append(txs[c], TRUE)
    <2>1. longer \in Seq(BOOLEAN) /\ Len(longer) = Len(txs[c]) + 1 /\ Len(txs[c]) \in Nat
      BY <1>0
    <2>2. Len(txs[c]) < MaxNested
      BY <1>0, <1>1 DEF BeginTx
    <2>3. /\ txs' = txs \/ txs' = [txs EXCEPT ![c] = longer]
          /\ pc' = [pc EXCEPT ![c] = "idle"]
      BY <1>1 DEF BeginTx, Moves
    <2> HIDE DEF longer
    <2>4. Len(longer) <= MaxNested
      BY <1>0, <2>1, <2>2
    <2>5. CASE txs' = txs
      BY <1>0, <2>3, <2>5 DEF TypesOfTxs, RoomToNest
    <2>6. CASE txs' = [txs EXCEPT ![c] = longer]
      BY <1>0, <2>1, <2>3, <2>4, <2>6 DEF TypesOfTxs, RoomToNest
    <2> QED
      BY <2>3, <2>5, <2>6
  <1>2. CASE CallbackReturns(c)
    <2> DEFINE front == SubSeq(txs[c], 1, Len(txs[c]) - 1)
    <2>1. txs[c] # << >> /\ pc[c] = "idle" /\ txs' = [txs EXCEPT ![c] = front] /\ pc' = pc
      BY <1>2 DEF CallbackReturns
    <2>2. Len(txs[c]) >= 1
      BY <1>0, <2>1, EmptySeq, SeqDef
    <2>3. Len(txs[c]) \in Nat /\ \A i \in 1..(Len(txs[c]) - 1) : txs[c][i] \in BOOLEAN
      BY <1>0
    <2>4. front \in Seq(BOOLEAN) /\ Len(front) = Len(txs[c]) - 1
      BY <2>2, <2>3, SubSeqProperties
    <2> HIDE DEF front
    <2> QED
      BY <1>0, <2>1, <2>2, <2>4 DEF TypesOfTxs, RoomToNest
  <1>3. ASSUME NEW i \in 1..MaxNested, TxContextDone(c, i) PROVE TypesOfTxs' /\ RoomToNest'
    <2> DEFINE ended == [txs[c] EXCEPT ![i] = FALSE]
    <2>1. txs' = [txs EXCEPT ![c] = ended] /\ pc' = pc /\ i \in DOMAIN txs[c]
      BY <1>3 DEF TxContextDone
    <2>2. ended \in Seq(BOOLEAN) /\ Len(ended) = Len(txs[c])
      BY <1>0, <2>1, ExceptSeq
    <2> HIDE DEF ended
    <2> QED
      BY <1>0, <2>1, <2>2 DEF TypesOfTxs, RoomToNest
  <1>4. CASE Begin(c)
    BY <1>0, <1>4 DEF Begin, UsesRoot, Moves, TypesOfTxs, RoomToNest
  <1>5. CASE BeginLocks(c)
    BY <1>0, <1>5 DEF BeginLocks, Moves, TypesOfTxs, RoomToNest
  \* Every other step leaves the transactions alone and goes elsewhere.
  <1>6. CASE txs' = txs /\ \E to \in PC \ {"txlock", "begin"} : Moves(c, to)
    BY <1>0, <1>6 DEF Moves, TypesOfTxs, RoomToNest
  <1> QED
    BY <1>1, <1>2, <1>3, <1>4, <1>5, <1>6
    DEF Acts, PC, Open, DriverOpens, Pings, OpenFails, OpenReturns, Execute, Lookup, Prepare, Returns,
        Start, TakesConnection, PoolIsClosed, Executed, ContextDone, StatementContextDone,
        BeginContextDone, Close, CloseLocks, CloseStatements, CloseReturns

\* A goroutine has one statement to execute; the cache and the prepared statements
\* change together.
LEMMA StatementsAreWellTyped == IInv /\ Next => TypesOfStatements'
  <1> SUFFICES ASSUME IInv, NEW c \in Caller, Acts(c) PROVE TypesOfStatements'
    BY NextActs
  <1>0. /\ text \in [Caller -> Text \cup {None}]
        /\ stmt \in [Caller -> Stmt \cup {None}]
        /\ stmts \in [Text -> Stmt \cup {None}]
        /\ open \subseteq Stmt
        /\ \A d \in Caller : pc[d] \in {"lookup", "prepare"} => text[d] \in Text
    BY TypeParts DEF IInv, TypesOfStatements, Uncached
  <1>1. ASSUME NEW t \in Text, Execute(c, t) PROVE TypesOfStatements'
    BY <1>0, <1>1 DEF Execute, cache, TypesOfStatements
  <1>2. CASE Lookup(c)
    BY <1>0, <1>2 DEF Lookup, cache, TypesOfStatements
  <1>3. CASE Prepare(c)
    BY <1>0, <1>3, NewStmtIsFresh DEF Prepare, cache, TypesOfStatements
  <1>4. CASE CloseStatements(c)
    BY <1>0, <1>4 DEF CloseStatements, TypesOfStatements
  <1>5. CASE Returns(c)
    BY <1>0, <1>5 DEF Returns, cache, TypesOfStatements
  <1>6. CASE UNCHANGED Statements
    BY <1>0, <1>6 DEF Statements, cache, TypesOfStatements
  <1> QED
    BY <1>1, <1>2, <1>3, <1>4, <1>5, <1>6
    DEF Acts, Statements, cache, Open, DriverOpens, Pings, OpenFails, OpenReturns, Begin, BeginLocks, BeginTx,
        CallbackReturns, TxContextDone, Start, TakesConnection, PoolIsClosed, Executed, ContextDone,
        StatementContextDone, BeginContextDone, Close, CloseLocks, CloseReturns

\* A statement enters the cache when it is prepared, in the place of no other: the
\* mutex was held since it was looked up and not found.
LEMMA StatementsAreFound == IInv /\ Next => Uncached' /\ (open \subseteq Cached)'
  <1> SUFFICES ASSUME IInv, NEW c \in Caller, Acts(c) PROVE Uncached' /\ (open \subseteq Cached)'
    BY NextActs
  <1>0. /\ TypesOfStatements /\ TypesOfMutexes
        /\ Uncached /\ open \subseteq Cached
        /\ None \notin Caller /\ None \notin Stmt
    BY TypeParts, CallersAssumption, StmtAssumption DEF IInv, NothingLeaks
  <1>1. ASSUME NEW t \in Text, Execute(c, t) PROVE Uncached' /\ (open \subseteq Cached)'
    BY <1>0, <1>1 DEF Execute, Moves, cache, TypesOfStatements, TypesOfMutexes, Uncached, Cached
  <1>2. CASE Lookup(c)
    BY <1>0, <1>2 DEF Lookup, Moves, cache, TypesOfStatements, TypesOfMutexes, Uncached, Cached
  <1>3. CASE Prepare(c)
    <2>1. pc[c] = "prepare" /\ text[c] \in Text /\ stmts[text[c]] = None
      BY <1>0, <1>3 DEF Prepare, Uncached
    <2>2. \A d \in Caller : pc'[d] # "prepare"
      BY <1>0, <1>3, <2>1 DEF Prepare, Moves, TypesOfMutexes
    <2>3. \A d \in Caller : pc'[d] = "lookup" => text'[d] \in Text
      BY <1>0, <1>3 DEF Prepare, Moves, TypesOfMutexes, Uncached
    <2>4. CASE UNCHANGED cache
      BY <1>0, <2>2, <2>3, <2>4 DEF cache, Uncached, Cached
    <2>5. CASE /\ NewStmt \in Stmt
               /\ open' = open \cup {NewStmt}
               /\ stmts' = [stmts EXCEPT ![text[c]] = NewStmt]
      <3>1. NewStmt \in Cached'
        BY <1>0, <2>1, <2>5 DEF Cached, TypesOfStatements
      <3>2. Cached \subseteq Cached'
        BY <1>0, <2>1, <2>5 DEF Cached, TypesOfStatements
      <3> QED
        BY <1>0, <2>2, <2>3, <2>5, <3>1, <3>2 DEF Uncached
    <2> QED
      BY <1>3, <2>4, <2>5, NewStmtIsFresh DEF Prepare, cache
  <1>4. CASE CloseStatements(c)
    <2>1. open' = {}
      BY <1>0, <1>4 DEF CloseStatements
    <2>2. stmts' = [t \in Text |-> None] /\ text' = text /\ pc' = [pc EXCEPT ![c] = "close"]
      BY <1>4 DEF CloseStatements, Moves
    <2> QED
      BY <1>0, <2>1, <2>2 DEF TypesOfMutexes, Uncached
  <1>5. CASE Returns(c)
    BY <1>0, <1>5 DEF Returns, Moves, cache, TypesOfStatements, TypesOfMutexes, Uncached, Cached
  \* Every other step leaves the statements alone and goes elsewhere.
  <1>6. CASE /\ text' = text /\ UNCHANGED cache
             /\ \/ pc' = pc
                \/ \E to \in PC \ {"lookup", "prepare"} : Moves(c, to)
    BY <1>0, <1>6 DEF Moves, cache, TypesOfMutexes, Uncached, Cached
  <1> QED
    BY <1>1, <1>2, <1>3, <1>4, <1>5, <1>6
    DEF Acts, PC, Statements, cache, Open, DriverOpens, Pings, OpenFails, OpenReturns, Begin, BeginLocks, BeginTx,
        CallbackReturns, TxContextDone, Start, TakesConnection, PoolIsClosed, Executed, ContextDone,
        StatementContextDone, BeginContextDone, Close, CloseLocks, CloseReturns

\* There is no pool but that of the one Open that is on its way, or of the handle it
\* has returned; and whoever uses a handle does so after Open.
PoolHasAHandle == pool => handle \in {"open", "opening"}

LEMMA OpenAndCloseArePaired ==
    IInv /\ Next => TypesOfHandle' /\ OneOpens' /\ NoPoolYet' /\ PoolHasAHandle'
  <1> DEFINE Goal == TypesOfHandle' /\ OneOpens' /\ NoPoolYet' /\ PoolHasAHandle'
  <1> SUFFICES ASSUME IInv, NEW c \in Caller, Acts(c) PROVE Goal
    BY NextActs
  <1>0. /\ TypesOfHandle /\ OneOpens /\ NoPoolYet /\ PoolHasAHandle
        /\ pc \in [Caller -> PC]
    BY TypeParts DEF IInv, NothingLeaks, PoolHasAHandle, TypesOfMutexes
  <1> USE DEF Moves, TypesOfHandle, OneOpens, InOpen, NoPoolYet, PoolHasAHandle
  <1>1. CASE Open(c)
    <2>1. ~ pool /\ \A d \in Caller : pc[d] = "idle"
      BY <1>0, <1>1 DEF Open
    <2> QED
      BY <1>0, <1>1, <2>1 DEF Open
  <1>2. CASE DriverOpens(c)
    <2>1. ~ pool /\ handle = "opening" /\ \A d \in Caller \ {c} : pc[d] = "idle"
      BY <1>0, <1>2 DEF DriverOpens
    <2>2. CASE pool' = TRUE /\ Moves(c, "ping") /\ UNCHANGED handle
      BY <1>0, <2>1, <2>2
    <2>3. CASE handle' = "none" /\ Moves(c, "idle") /\ UNCHANGED pool
      BY <1>0, <2>1, <2>3
    <2> QED
      BY <1>2, <2>2, <2>3 DEF DriverOpens
  <1>3. CASE Pings(c)
    BY <1>0, <1>3 DEF Pings, OpensAndCloses
  <1>4. CASE OpenFails(c)
    BY <1>0, <1>4 DEF OpenFails
  <1>5. CASE OpenReturns(c)
    BY <1>0, <1>5 DEF OpenReturns
  <1>6. CASE CloseReturns(c)
    BY <1>0, <1>6 DEF CloseReturns
  \* Every other step uses the handle that Open has returned.
  <1>7. CASE /\ UNCHANGED OpensAndCloses
             /\ \/ pc' = pc
                \/ /\ handle \in {"open", "closed"}
                   /\ \E to \in PC \ InOpen : Moves(c, to)
    BY <1>0, <1>7 DEF OpensAndCloses
  <1>8. pc[c] \notin InOpen \cup {"idle"} => handle \in {"open", "closed"}
    BY <1>0
  <1> QED
    BY <1>1, <1>2, <1>3, <1>4, <1>5, <1>6, <1>7, <1>8
    DEF Acts, PC, OpensAndCloses, UsesRoot, Execute, Lookup, Prepare, Returns, Begin, BeginLocks, BeginTx,
        CallbackReturns, TxContextDone, Start, TakesConnection, PoolIsClosed, Executed, ContextDone,
        StatementContextDone, BeginContextDone, Close, CloseLocks, CloseStatements

-----------------------------------------------------------------------------
LEMMA NextIInv == IInv /\ [Next]_vars => IInv'
  <1> SUFFICES ASSUME IInv, [Next]_vars PROVE IInv'
    OBVIOUS
  <1>1. CASE Next
    <2>1. TypeOK'
      BY <1>1, TypeParts, OpenAndCloseArePaired, StatementsAreWellTyped, TransactionsNest, MutexesAreHeldRightly
      DEF TypeOK, TypesOfHandle, TypesOfStatements, TypesOfTxs, TypesOfMutexes
    <2>2. OneOpens' /\ NoPoolYet' /\ RoomToNest' /\ Uncached'
      BY <1>1, OpenAndCloseArePaired, TransactionsNest, StatementsAreFound
    <2>3. NothingLeaks'
      BY <1>1, OpenAndCloseArePaired, StatementsAreFound DEF NothingLeaks, PoolHasAHandle
    <2> QED
      BY <2>1, <2>2, <2>3 DEF IInv
  <1>2. CASE UNCHANGED vars
    BY <1>2 DEF vars, IInv, TypeOK, OneOpens, NoPoolYet, RoomToNest, Uncached, NothingLeaks, Cached
  <1> QED
    BY <1>1, <1>2

LEMMA Invariance == Spec => []IInv
  <1> QED
    BY InitIInv, NextIInv, PTL DEF Spec

\* However many goroutines there are, each mutex of a handle belongs to the one
\* goroutine that is in the section it protects (prepared and Close; Begin), and to
\* nobody when none is.
THEOREM TypeCorrect == Spec => []TypeOK
  <1>1. IInv => TypeOK
    BY DEF IInv
  <1> QED
    BY <1>1, Invariance, PTL

\* Close reaches every prepared statement that is open, whatever goroutines prepared
\* the same SQL at once; and every pool that is open has its handle, or an Open that
\* will return it or close it.
THEOREM NothingIsLeftOpen == Spec => []NothingLeaks
  <1>1. IInv => NothingLeaks
    BY DEF IInv
  <1> QED
    BY <1>1, Invariance, PTL

=============================================================================
