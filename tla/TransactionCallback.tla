------------------------ MODULE TransactionCallback -------------------------
(***************************************************************************)
(* db.Transaction(ctx, fn): the callback API over OrmTransaction.  Each    *)
(* goroutine runs a stack of Transaction calls; a call begins a handle,    *)
(* runs fn with it, and commits when fn returns nil and rolls back when fn *)
(* returns an error.  In between fn may execute statements through its own *)
(* handle or through that of an enclosing call, swallow the errors it      *)
(* gets, or call Transaction again; Commit and Rollback of its handle it   *)
(* leaves to Transaction.  CallPanics, where fn panics, is apart.          *)
(***************************************************************************)
EXTENDS OrmTransaction

CONSTANT Goroutine

VARIABLES frames,   \* per goroutine: the handles of its Transaction calls
          within,   \* per handle: the handles on the stack when it was begun
          scope     \* per write: the handle of the innermost call at the time

callVars == <<frames, within, scope>>
allVars == <<vars, callVars>>

Stack(g) == {frames[g][i] : i \in DOMAIN frames[g]}
InCall(g) == frames[g] # <<>>
Current(g) == frames[g][Len(frames[g])]

\* A goroutine waits for the statement it executes.
Waiting(g) == \E w \in inflight : via[w] \in Stack(g)

CallTypeOK ==
    /\ frames \in [Goroutine -> Seq(Handle)]
    /\ within \in [Handle -> SUBSET Handle]
    /\ scope \in [Write -> Handle \cup {None}]

CallInit ==
    /\ Init
    /\ frames = [g \in Goroutine |-> <<>>]
    /\ within = [h \in Handle |-> {}]
    /\ scope = [w \in Write |-> None]

\* Begin allocates its handle: which of the unused ones it is plays no part.
Fresh(h) == h = CHOOSE x \in Handle : txState[x] = "none"

\* db.Transaction on the root DB, tx.Transaction on the current handle.
Call(g, h) ==
    /\ ~ Waiting(g)
    /\ IF InCall(g) THEN BeginNested(Current(g), h) ELSE BeginRoot(h)
    /\ Fresh(h)
    /\ frames' = [frames EXCEPT ![g] = Append(@, h)]
    /\ within' = [within EXCEPT ![h] = Stack(g) \cup {h}]
    /\ UNCHANGED scope

\* Mutant: fn is called although Begin failed.
CallFailsRunsCallback(g) ==
    /\ ~ Waiting(g)
    /\ InCall(g)
    /\ BeginNestedFails(Current(g))
    /\ frames' = [frames EXCEPT ![g] = Append(@, None)]
    /\ UNCHANGED <<within, scope>>

\* tx.Transaction when Begin fails: it returns the error, fn never runs.
CallFails(g) ==
    /\ ~ Waiting(g)
    /\ InCall(g)
    /\ BeginNestedFails(Current(g))
    /\ UNCHANGED callVars

\* fn executes a statement through a handle it can see.
Statement(g, w) ==
    /\ ~ Waiting(g)
    /\ \E h \in Stack(g) : ExecCheck(h, w)
    /\ scope' = [scope EXCEPT ![w] = Current(g)]
    /\ UNCHANGED <<frames, within>>

StatementSucceeds(w) == ExecRun(w) /\ UNCHANGED callVars

StatementFails(w) == ExecFails(w) /\ UNCHANGED callVars

Return(g) ==
    /\ frames' = [frames EXCEPT ![g] = SubSeq(@, 1, Len(@) - 1)]
    /\ UNCHANGED <<within, scope>>

\* fn returns nil: Transaction returns what Commit returns.
ReturnNil(g) ==
    /\ InCall(g)
    /\ ~ Waiting(g)
    /\ Commit(Current(g))
    /\ Return(g)

\* Mutant: fn's error is returned before the Rollback.
ReturnErrorReturnsEarly(g) ==
    /\ InCall(g)
    /\ ~ Waiting(g)
    /\ Return(g)
    /\ UNCHANGED vars

\* fn returns an error: Transaction rolls back and returns it, joined with
\* the error of the Rollback if that fails too.
ReturnError(g) ==
    /\ InCall(g)
    /\ ~ Waiting(g)
    /\ Rollback(Current(g))
    /\ Return(g)

\* fn panics and a caller of one of the enclosing Transaction calls, or of the
\* outermost, recovers.  Transaction defers nothing: it runs neither Commit nor
\* Rollback on the way.
CallPanics(g) ==
    /\ InCall(g)
    /\ ~ Waiting(g)
    /\ \E n \in 0..(Len(frames[g]) - 1) : frames' = [frames EXCEPT ![g] = SubSeq(@, 1, n)]
    /\ UNCHANGED <<vars, within, scope>>

CallFault(t) == (ConnectionLost(t) \/ ContextDone(t)) /\ UNCHANGED callVars

CallNext ==
    \/ \E g \in Goroutine, h \in Handle : Call(g, h)
    \/ \E g \in Goroutine : CallFails(g)
    \/ \E g \in Goroutine, w \in Write : Statement(g, w)
    \/ \E w \in Write : StatementSucceeds(w)
    \/ \E w \in Write : StatementFails(w)
    \/ \E g \in Goroutine : ReturnNil(g)
    \/ \E g \in Goroutine : ReturnError(g)
    \/ \E t \in Handle : CallFault(t)

CallSpec == CallInit /\ [][CallNext]_allVars

\* The same with callbacks that may panic.
PanicSpec == CallInit /\ [][CallNext \/ \E g \in Goroutine : CallPanics(g)]_allVars

\* The database answers every statement, and every callback returns: nested
\* calls, statements and swallowed errors are bounded, so fn comes to an end.
FairCallSpec ==
    /\ CallSpec
    /\ \A w \in Write : WF_allVars(StatementSucceeds(w) \/ StatementFails(w))
    /\ \A g \in Goroutine : WF_allVars(ReturnNil(g) \/ ReturnError(g))

-----------------------------------------------------------------------------
\* Refinement of NestedTransactions

\* The pending writes that were there when h's scope began.
Mark(h) ==
    IF savepoint[h] = 0 THEN {}
    ELSE LET s == server[tx[h]] IN s.savepoints[Position(s, savepoint[h])].mark

InnermostOf(h) == \A r \in Handle : txState[r] = "open" /\ h \in within[r] => r = h

DoomedScope(h) ==
    /\ txState[h] = "open"
    /\ \/ server[tx[h]].status \in {"lost", "ended"}
       \/ server[tx[h]].status = "aborted" /\ InnermostOf(h)

\* The writes after h's savepoint and before that of the scope inside it.
OwnWrites(h) ==
    IF txState[h] # "open" \/ DoomedScope(h) THEN {}
    ELSE LET inner == {r \in Handle : txState[r] = "open" /\ within[r] \ {r} = within[h]}
             end == IF inner = {} THEN server[tx[h]].pending
                    ELSE Mark(CHOOSE r \in inner : TRUE)
         IN end \ Mark(h)

ScopeStatus(h) ==
    CASE txState[h] = "none" -> "idle"
      [] txState[h] = "open" -> "open"
      [] outcome[h] = "committed" -> "kept"
      [] outcome[h] = "commit_failed" /\ savepoint[h] = 0 -> "unsure"
      [] outcome[h] \in Unsent -> "abandoned"
      [] OTHER -> "dropped"

Abstract == INSTANCE NestedTransactions WITH
    Scope <- Handle,
    status <- [h \in Handle |-> ScopeStatus(h)],
    own <- [h \in Handle |-> OwnWrites(h)],
    doomed <- {h \in Handle : DoomedScope(h)}

\* The savepoint protocol implements nested scopes, atomic but for an inner
\* call whose RELEASE or ROLLBACK TO is not sent: its writes become those of
\* the enclosing call.
ImplementsNestedTransactions == Abstract!Spec

-----------------------------------------------------------------------------
\* Properties

\* What the Transaction calls around a write report tells its fate.  When all
\* of them returned nil it is durable.  When it is durable, none of them
\* rolled back or was refused its RELEASE: each returned nil, but for a root
\* whose COMMIT failed, which leaves the fate of its writes open, and a nested
\* call whose RELEASE or ROLLBACK TO was not sent, its own context being done:
\* that call returns an error, and the enclosing one may yet commit its writes.
CallsTellFateOfWrites ==
    \A w \in acked :
        /\ (\A h \in within[scope[w]] : outcome[h] = "committed") => w \in durable
        /\ w \in durable =>
              \A h \in within[scope[w]] :
                  \/ outcome[h] = "committed"
                  \/ savepoint[h] = 0 /\ outcome[h] = "commit_failed"
                  \/ savepoint[h] # 0 /\ outcome[h] \in Unsent

\* docs/adr/ADR-028: the framework manages Commit and Rollback automatically.
\* A Transaction call that is over left no open transaction behind: with no
\* call on its stack a goroutine holds no connection.
ReturnedCallsHoldNoConnection ==
    \A t \in Handle :
        Live(server[t]) => \E g \in Goroutine : t \in Stack(g)

\* The stack discipline makes every savepoint findable: finishing the current
\* call never fails for want of its savepoint.
CurrentSavepointExists ==
    \A g \in Goroutine :
        InCall(g) /\ server[tx[Current(g)]].status \in {"active", "aborted"}
           /\ savepoint[Current(g)] # 0
              => HasSavepoint(server[tx[Current(g)]], savepoint[Current(g)])

\* Every transaction that is opened ends, whatever fails on the way.
EveryTransactionEnds ==
    \A t \in Handle : Live(server[t]) ~> server[t].status = "ended"
=============================================================================
