---------------------- MODULE TransactionCallbackProofs ----------------------
(***************************************************************************)
(* Proofs about db.Transaction(ctx, fn), for every set of goroutines,      *)
(* handles and writes: what the Transaction calls around a write report    *)
(* tells its fate, no call leaves a transaction open, the current call     *)
(* finds its savepoint, and the calls implement NestedTransactions.        *)
(*                                                                         *)
(* CallSpec takes only steps of OrmTransaction, so the inductive invariant *)
(* of that module holds.  What it lacks is the discipline of the stacks:   *)
(* the open handles are those on the stacks, each above the savepoints of  *)
(* the ones below; and what was pending when a call began are the writes   *)
(* of calls that are over or below, never its own.                         *)
(***************************************************************************)
EXTENDS TransactionCallback, OrmTransactionProofs

\* The frames of a goroutine are open handles of one sql.Tx, each with a savepoint
\* after those below it.
StackOK(g) ==
    LET f == frames[g] IN
    \A i \in 1..Len(f) :
        /\ txState[f[i]] = "open"
        /\ tx[f[i]] = f[1]
        /\ within[f[i]] = {f[k] : k \in 1..i}
        /\ \A j \in 1..Len(f) : i < j => savepoint[f[i]] < savepoint[f[j]]

StacksOK == \A g \in Goroutine : StackOK(g)

StacksDisjoint == \A g, k \in Goroutine : g # k => Stack(g) \cap Stack(k) = {}

OpenIsOnStack == \A h \in Handle : txState[h] = "open" => \E g \in Goroutine : h \in Stack(g)

\* The calls that a call was made in are of its sql.Tx, and are not to come.
WithinOK ==
    \A h \in Handle :
        /\ txState[h] = "none" => within[h] = {}
        /\ txState[h] # "none" => tx[h] \in within[h]
        /\ \A x \in within[h] : txState[x] # "none" /\ tx[x] = tx[h]

\* A statement is of the sql.Tx of the call it was made in, which waits for it.
ScopesOK ==
    /\ \A w \in Write : via[w] # None =>
          /\ scope[w] \in Handle
          /\ txState[scope[w]] # "none"
          /\ via[w] \in within[scope[w]]
    /\ \A w \in inflight : \E g \in Goroutine : InCall(g) /\ scope[w] = Current(g)

StackInv ==
    /\ CallTypeOK
    /\ StacksOK
    /\ StacksDisjoint
    /\ OpenIsOnStack
    /\ WithinOK
    /\ ScopesOK

\* The handle's savepoint is on the server's stack, as long as there is one.
MarkFound(h) == savepoint[h] # 0 => HasSavepoint(server[tx[h]], savepoint[h])

Running(t) == server[t].status \in {"active", "aborted"}

\* A call that is over and undid nothing: committed, or its end was not sent.
Stands(h) == outcome[h] = "committed" \/ (savepoint[h] # 0 /\ outcome[h] \in Unsent)

\* The COMMIT of a root failed.
RootUnsure(h) == savepoint[h] = 0 /\ outcome[h] = "commit_failed"

\* Every call the write was made in that is over stands.
KeptSoFar(w) == \A h \in within[scope[w]] : txState[h] = "closed" => Stands(h)

\* No call the write was made in has failed.
Unfailed(w) == \A h \in within[scope[w]] : outcome[h] \in {"none", "committed"}

\* The savepoint of a call under way is there, and what was pending when it began
\* holds nothing of this call or of one inside it, and nothing of a call that
\* was undone.  What came later, in the transaction or in the mark of a call inside
\* it, is of this call.
CallTells(h) ==
    LET Inside(y) == txState[y] = "open" /\ tx[y] = tx[h]
    IN  txState[h] = "open" /\ Running(tx[h]) =>
            /\ MarkFound(h)
            /\ \A w \in server[tx[h]].pending \ Mark(h) : h \in within[scope[w]]
            /\ \A y \in Handle : Inside(y) /\ savepoint[h] < savepoint[y] =>
                  \A w \in Mark(y) \ Mark(h) : h \in within[scope[w]]
            /\ \A w \in Mark(h) : KeptSoFar(w)
            /\ \A y \in Handle : Inside(y) /\ savepoint[h] <= savepoint[y] =>
                  \A w \in Mark(h) : y \notin within[scope[w]]

CallsTell == \A h \in Handle : CallTells(h)

\* What is pending, and what of it a COMMIT makes durable.
PendingKept ==
    \A t \in Handle : server[t].status = "active" => \A w \in server[t].pending : KeptSoFar(w)

UnfailedPending ==
    \A w \in acked : Running(tx[via[w]]) /\ Unfailed(w) => w \in server[tx[via[w]]].pending

TellInv ==
    /\ CallsTell
    /\ PendingKept
    /\ UnfailedPending
    /\ CallsTellFateOfWrites

CallIInv == IInv /\ StackInv /\ TellInv

-----------------------------------------------------------------------------
\* The stacks.

LEMMA CallIsStep == ASSUME CallTypeOK, [CallNext]_allVars PROVE [Next]_vars
  <1>1. \A g \in Goroutine : InCall(g) => Current(g) \in Handle
    BY DEF CallTypeOK, InCall, Current
  <1>2. \A g \in Goroutine : \A x \in Stack(g) : x \in Handle
    BY DEF CallTypeOK, Stack
  <1>3. CASE UNCHANGED allVars
    BY <1>3 DEF allVars
  <1>4. ASSUME NEW g \in Goroutine, NEW h \in Handle, Call(g, h) PROVE Next
    BY <1>1, <1>4 DEF Call, Next
  <1>5. ASSUME NEW g \in Goroutine, CallFails(g) \/ ReturnNil(g) \/ ReturnError(g) PROVE Next
    BY <1>1, <1>5 DEF CallFails, ReturnNil, ReturnError, Commit, Rollback, Next
  <1>6. ASSUME NEW g \in Goroutine, NEW w \in Write, Statement(g, w) PROVE Next
    BY <1>2, <1>6 DEF Statement, Next
  <1>7. ASSUME NEW w \in Write, StatementSucceeds(w) \/ StatementFails(w) PROVE Next
    BY <1>7 DEF StatementSucceeds, StatementFails, Next
  <1>8. ASSUME NEW t \in Handle, CallFault(t) PROVE Next
    BY <1>8 DEF CallFault, Next
  <1> QED
    BY <1>3, <1>4, <1>5, <1>6, <1>7, <1>8 DEF CallNext

\* The stack of a goroutine in a call, and what is left of it when the call returns.
LEMMA Frames ==
    ASSUME CallTypeOK, NEW g \in Goroutine
    PROVE  /\ frames[g] \in Seq(Handle) /\ Len(frames[g]) \in Nat
           /\ DOMAIN frames[g] = 1..Len(frames[g])
           /\ Stack(g) = {frames[g][i] : i \in 1..Len(frames[g])}
           /\ \A i \in 1..Len(frames[g]) : frames[g][i] \in Handle
           /\ InCall(g) => /\ Len(frames[g]) > 0 /\ Len(frames[g]) \in 1..Len(frames[g])
                            /\ Current(g) \in Handle /\ Current(g) \in Stack(g)
  <1>1. frames[g] \in Seq(Handle)
    BY DEF CallTypeOK
  <1>2. Len(frames[g]) \in Nat /\ DOMAIN frames[g] = 1..Len(frames[g])
    BY <1>1
  <1>3. \A i \in 1..Len(frames[g]) : frames[g][i] \in Handle
    BY <1>1
  <1>4. InCall(g) => Len(frames[g]) > 0 /\ Len(frames[g]) \in 1..Len(frames[g])
    BY <1>1 DEF InCall
  <1> QED
    BY <1>1, <1>2, <1>3, <1>4 DEF Stack, Current

LEMMA Pushed ==
    ASSUME CallTypeOK, NEW g \in Goroutine, NEW h \in Handle,
           frames' = [frames EXCEPT ![g] = Append(@, h)]
    PROVE  LET n == Len(frames[g]) IN
           /\ frames' \in [Goroutine -> Seq(Handle)]
           /\ Len(frames'[g]) = n + 1 /\ frames'[g][n + 1] = h
           /\ \A i \in 1..n : frames'[g][i] = frames[g][i]
           /\ \A k \in Goroutine \ {g} : frames'[k] = frames[k]
  <1>1. frames[g] \in Seq(Handle) /\ frames \in [Goroutine -> Seq(Handle)]
    BY DEF CallTypeOK
  <1>2. frames'[g] = Append(frames[g], h) /\ \A k \in Goroutine \ {g} : frames'[k] = frames[k]
    BY <1>1
  <1>3. Append(frames[g], h) \in Seq(Handle)
    BY <1>1
  <1>4. frames' \in [Goroutine -> Seq(Handle)]
    BY <1>1, <1>3
  <1> QED
    BY <1>1, <1>2, <1>4

LEMMA PushedImage ==
    ASSUME NEW f, NEW q, NEW n \in Nat, NEW h, q[n + 1] = h, \A i \in 1..n : q[i] = f[i]
    PROVE  {q[i] : i \in 1..(n + 1)} = {f[i] : i \in 1..n} \cup {h}
  <1>1. \A i \in 1..(n + 1) : i \in 1..n \/ i = n + 1
    OBVIOUS
  <1>2. \A i \in 1..n : i \in 1..(n + 1)
    OBVIOUS
  <1>3. n + 1 \in 1..(n + 1)
    OBVIOUS
  <1>4. {q[i] : i \in 1..(n + 1)} \subseteq {f[i] : i \in 1..n} \cup {h}
    BY <1>1
  <1>5. {f[i] : i \in 1..n} \cup {h} \subseteq {q[i] : i \in 1..(n + 1)}
    BY <1>2, <1>3
  <1> QED
    BY <1>4, <1>5

LEMMA Shorter ==
    ASSUME NEW S, NEW f \in Seq(S), NEW p \in 1..Len(f)
    PROVE  /\ SubSeq(f, 1, p - 1) \in Seq(S)
           /\ Len(SubSeq(f, 1, p - 1)) = p - 1
           /\ \A i \in 1..(p - 1) : SubSeq(f, 1, p - 1)[i] = f[i]
  OBVIOUS

LEMMA Popped ==
    ASSUME CallTypeOK, NEW g \in Goroutine, InCall(g), Return(g)
    PROVE  LET n == Len(frames[g]) IN
           /\ frames' \in [Goroutine -> Seq(Handle)]
           /\ Len(frames'[g]) = n - 1
           /\ \A i \in 1..(n - 1) : frames'[g][i] = frames[g][i]
           /\ \A k \in Goroutine \ {g} : frames'[k] = frames[k]
  <1>1. frames[g] \in Seq(Handle) /\ frames \in [Goroutine -> Seq(Handle)]
        /\ Len(frames[g]) \in Nat /\ Len(frames[g]) > 0
    BY Frames DEF CallTypeOK
  <1> DEFINE rest == SubSeq(frames[g], 1, Len(frames[g]) - 1)
  <1>2. frames'[g] = rest /\ \A k \in Goroutine \ {g} : frames'[k] = frames[k]
    BY <1>1 DEF Return
  <1>3. /\ rest \in Seq(Handle) /\ Len(rest) = Len(frames[g]) - 1
        /\ \A i \in 1..(Len(frames[g]) - 1) : rest[i] = frames[g][i]
    BY <1>1, Frames, Shorter
  <1> HIDE DEF rest
  <1>4. frames' \in [Goroutine -> Seq(Handle)]
    BY <1>1, <1>2, <1>3 DEF Return
  <1> QED
    BY <1>2, <1>3, <1>4

\* A handle is on one stack, and there once.
LEMMA OneFrame ==
    ASSUME IInv, StackInv, NEW g \in Goroutine, NEW i \in 1..Len(frames[g]), NEW j \in 1..Len(frames[g]),
           frames[g][i] = frames[g][j]
    PROVE  i = j
  <1>1. frames[g][i] \in Handle /\ Len(frames[g]) \in Nat
    BY Frames DEF StackInv
  <1>2. savepoint[frames[g][i]] \in Nat
    BY <1>1 DEF IInv, TypeOK
  <1>3. ~ (i < j) /\ ~ (j < i)
    BY <1>2 DEF StackInv, StacksOK, StackOK
  <1> QED
    BY <1>1, <1>3

\* The root of a stack is its sql.Tx.
LEMMA RootOfStack ==
    ASSUME IInv, StackInv, NEW g \in Goroutine, NEW i \in 1..Len(frames[g])
    PROVE  /\ 1 \in 1..Len(frames[g]) /\ frames[g][1] \in Handle
           /\ tx[frames[g][i]] = frames[g][1] /\ txState[frames[g][i]] = "open"
           /\ tx[frames[g][1]] = frames[g][1]
           /\ savepoint[frames[g][i]] = 0 <=> i = 1
           /\ server[frames[g][1]].status # "none"
  <1>1. /\ 1 \in 1..Len(frames[g]) /\ frames[g][1] \in Handle /\ frames[g][i] \in Handle
        /\ Len(frames[g]) \in Nat
    BY Frames DEF StackInv
  <1>2. /\ tx[frames[g][i]] = frames[g][1] /\ txState[frames[g][i]] = "open"
        /\ tx[frames[g][1]] = frames[g][1] /\ txState[frames[g][1]] = "open"
    BY <1>1 DEF StackInv, StacksOK, StackOK
  <1>3. savepoint[frames[g][i]] = 0 <=> tx[frames[g][i]] = frames[g][i]
    BY <1>1, <1>2 DEF IInv, HandleInv, HandleOK
  <1>4. frames[g][i] = frames[g][1] <=> i = 1
    BY <1>1, OneFrame
  <1>5. server[frames[g][1]].status # "none"
    BY <1>1, <1>2 DEF IInv, HandleInv, HandleOK
  <1> QED
    BY <1>1, <1>2, <1>3, <1>4, <1>5

\* A stack that loses at most its upper frames stays in order.
LEMMA StackStays ==
    ASSUME CallTypeOK, NEW k \in Goroutine, StackOK(k), NEW p \in 0..Len(frames[k]),
           Len(frames'[k]) = p,
           \A i \in 1..p : frames'[k][i] = frames[k][i],
           \A i \in 1..p : /\ txState'[frames[k][i]] = txState[frames[k][i]]
                           /\ tx'[frames[k][i]] = tx[frames[k][i]]
                           /\ savepoint'[frames[k][i]] = savepoint[frames[k][i]]
                           /\ within'[frames[k][i]] = within[frames[k][i]]
    PROVE  StackOK(k)'
  <1> DEFINE f == frames[k]
             newF == frames'[k]
  <1>1. Len(f) \in Nat /\ p \in Nat
    BY Frames
  <1> SUFFICES ASSUME NEW i \in 1..p
               PROVE  /\ txState'[newF[i]] = "open"
                      /\ tx'[newF[i]] = newF[1]
                      /\ within'[newF[i]] = {newF[j] : j \in 1..i}
                      /\ \A j \in 1..p : i < j => savepoint'[newF[i]] < savepoint'[newF[j]]
    BY DEF StackOK
  <1>2. /\ i \in 1..Len(f) /\ 1 \in 1..p /\ newF[i] = f[i] /\ newF[1] = f[1]
        /\ \A j \in 1..i : j \in 1..p
    BY <1>1
  <1>3. txState'[newF[i]] = "open" /\ tx'[newF[i]] = newF[1]
    BY <1>2 DEF StackOK
  <1>4. {newF[j] : j \in 1..i} = {f[j] : j \in 1..i}
    BY <1>2
  <1>5. within'[newF[i]] = {newF[j] : j \in 1..i}
    BY <1>2, <1>4 DEF StackOK
  <1>6. ASSUME NEW j \in 1..p, i < j PROVE savepoint'[newF[i]] < savepoint'[newF[j]]
    <2>1. j \in 1..Len(f) /\ newF[j] = f[j]
      BY <1>1
    <2>2. savepoint[f[i]] < savepoint[f[j]]
      BY <1>2, <1>6, <2>1 DEF StackOK
    <2>3. savepoint'[f[i]] = savepoint[f[i]] /\ savepoint'[f[j]] = savepoint[f[j]]
      OBVIOUS
    <2> QED
      BY <1>2, <2>1, <2>2, <2>3
  <1> QED
    BY <1>3, <1>5, <1>6

\* A goroutine that does not wait has no statement under way in its current call.
LEMMA NotWaiting ==
    ASSUME IInv, StackInv, NEW g \in Goroutine, InCall(g), ~ Waiting(g), NEW w \in inflight
    PROVE  scope[w] # Current(g)
  <1>1. w \in Write /\ via[w] # None
    BY DEF IInv, TypeOK, WriteInv
  <1>2. within[Current(g)] = Stack(g)
    BY Frames DEF StackInv, StacksOK, StackOK, Current
  <1> QED
    BY <1>1, <1>2 DEF StackInv, ScopesOK, Waiting

\* The call begins: a new handle on top of the stack.
LEMMA NewFrame ==
    ASSUME IInv, StackInv, NEW g \in Goroutine, NEW h \in Handle, Call(g, h)
    PROVE  /\ txState[h] = "none" /\ txState' = [txState EXCEPT ![h] = "open"]
           /\ \A x \in Handle \ {h} : tx'[x] = tx[x] /\ savepoint'[x] = savepoint[x]
           /\ tx'[h] = IF InCall(g) THEN frames[g][1] ELSE h
           /\ savepoint'[h] = IF InCall(g) THEN savepointSeq + 1 ELSE 0
           /\ \A k \in Goroutine : h \notin Stack(k)
           /\ \A k \in Goroutine : \A i \in 1..Len(frames[k]) : frames[k][i] # h
           /\ UNCHANGED <<via, inflight, acked, durable, outcome, scope>>
  <1>1. txState[h] = "none" /\ UNCHANGED <<via, inflight, acked, durable, outcome, scope>>
    BY DEF Call, BeginNested, BeginRoot, statementVars
  <1>2. \A k \in Goroutine : \A i \in 1..Len(frames[k]) : frames[k][i] # h
    BY <1>1 DEF StackInv, StacksOK, StackOK
  <1>3. \A k \in Goroutine : h \notin Stack(k)
    BY <1>2, Frames DEF StackInv
  <1>4. CASE InCall(g)
    <2>1. tx[Current(g)] = frames[g][1]
      BY <1>4, Frames, RootOfStack DEF StackInv, Current
    <2> QED
      BY <1>1, <1>2, <1>3, <1>4, <2>1 DEF Call, BeginNested, NewHandle, IInv, TypeOK
  <1>5. CASE ~ InCall(g)
    BY <1>1, <1>2, <1>3, <1>5 DEF Call, BeginRoot, NewHandle, IInv, TypeOK
  <1> QED
    BY <1>4, <1>5

LEMMA CallKeepsStacks ==
    ASSUME IInv, StackInv, NEW g \in Goroutine, NEW h \in Handle, Call(g, h)
    PROVE  StackInv'
  <1> DEFINE n == Len(frames[g])
             f == frames[g]
             newF == frames'[g]
  <1>1. /\ txState[h] = "none" /\ txState' = [txState EXCEPT ![h] = "open"]
        /\ \A x \in Handle \ {h} : tx'[x] = tx[x] /\ savepoint'[x] = savepoint[x]
        /\ tx'[h] = IF InCall(g) THEN frames[g][1] ELSE h
        /\ savepoint'[h] = IF InCall(g) THEN savepointSeq + 1 ELSE 0
        /\ \A k \in Goroutine : h \notin Stack(k)
        /\ \A k \in Goroutine : \A i \in 1..Len(frames[k]) : frames[k][i] # h
        /\ UNCHANGED <<via, inflight, acked, durable, outcome, scope>>
    BY NewFrame
  <1>2. /\ frames' \in [Goroutine -> Seq(Handle)]
        /\ Len(newF) = n + 1 /\ newF[n + 1] = h
        /\ \A i \in 1..n : newF[i] = f[i]
        /\ \A k \in Goroutine \ {g} : frames'[k] = frames[k]
    BY Pushed DEF Call, StackInv
  <1>3. CallTypeOK /\ TypeOK /\ n \in Nat /\ Stack(g) = {f[i] : i \in 1..n} /\ (InCall(g) <=> n > 0)
        /\ \A i \in 1..n : f[i] \in Handle
    <2>1. frames[g] \in Seq(Handle)
      BY DEF StackInv, CallTypeOK
    <2>2. InCall(g) <=> n > 0
      BY <2>1 DEF InCall
    <2> QED
      BY <2>2, Frames DEF StackInv, IInv
  <1>4. /\ within'[h] = Stack(g) \cup {h} /\ within' \in [Handle -> SUBSET Handle]
        /\ \A x \in Handle \ {h} : within'[x] = within[x]
    BY <1>3 DEF Call, CallTypeOK
  <1>5. CallTypeOK'
    BY <1>1, <1>2, <1>3, <1>4 DEF CallTypeOK
  <1>6. Stack(g)' = Stack(g) \cup {h} /\ \A k \in Goroutine \ {g} : Stack(k)' = Stack(k)
    <2>0. DOMAIN newF = 1..(n + 1)
      <3>1. newF \in Seq(Handle)
        BY <1>2
      <3> QED
        BY <1>2, <3>1
    <2>1. Stack(g)' = {newF[i] : i \in 1..(n + 1)}
      BY <2>0 DEF Stack
    <2>2. {newF[i] : i \in 1..(n + 1)} = {f[i] : i \in 1..n} \cup {h}
      <3> HIDE DEF n, f, newF
      <3> QED
        BY <1>2, <1>3, PushedImage
    <2>3. \A k \in Goroutine \ {g} : Stack(k)' = Stack(k)
      BY <1>2 DEF Stack
    <2> QED
      BY <1>3, <2>1, <2>2, <2>3
  <1>7. StacksOK'
    <2>1. ASSUME NEW k \in Goroutine \ {g} PROVE StackOK(k)'
      <3>1. StackOK(k)
        BY DEF StackInv, StacksOK
      <3>2. Len(frames[k]) \in Nat /\ \A i \in 1..Len(frames[k]) : frames[k][i] \in Handle \ {h}
        BY <1>1, Frames DEF StackInv
      <3>3. \A x \in Handle \ {h} : /\ txState'[x] = txState[x] /\ tx'[x] = tx[x]
                                   /\ savepoint'[x] = savepoint[x] /\ within'[x] = within[x]
        BY <1>1, <1>3, <1>4 DEF TypeOK
      <3>4. frames'[k] = frames[k]
        BY <1>2
      <3>5. Len(frames[k]) \in 0..Len(frames[k])
        BY <3>2
      <3> QED
        BY <1>3, <3>1, <3>2, <3>3, <3>4, <3>5, StackStays
    <2>2. StackOK(g)
      BY DEF StackInv, StacksOK
    <2>3. ASSUME NEW i \in 1..n
          PROVE  /\ txState'[newF[i]] = "open"
                 /\ tx'[newF[i]] = newF[1]
                 /\ within'[newF[i]] = {newF[k] : k \in 1..i}
                 /\ \A j \in 1..(n + 1) : i < j => savepoint'[newF[i]] < savepoint'[newF[j]]
      <3>1. newF[i] = f[i] /\ f[i] \in Handle \ {h} /\ newF[1] = f[1] /\ i \in Nat
        BY <1>1, <1>2, <1>3
      <3>2. txState'[newF[i]] = "open" /\ tx'[newF[i]] = newF[1]
        BY <1>1, <1>3, <2>2, <3>1 DEF StackOK, TypeOK
      <3>3. {newF[k] : k \in 1..i} = {f[k] : k \in 1..i}
        <4>1. \A k \in 1..i : k \in 1..n
          BY <1>3, <3>1
        <4>2. \A k \in 1..i : newF[k] = f[k]
          BY <1>2, <4>1
        <4> HIDE DEF n, f, newF
        <4> QED
          BY <4>2
      <3>4. within'[newF[i]] = {newF[k] : k \in 1..i}
        BY <1>4, <2>2, <3>1, <3>3 DEF StackOK
      <3>5. savepoint[f[i]] <= savepointSeq /\ savepoint[f[i]] \in Nat /\ savepointSeq \in Nat
        BY <1>3, <2>2, <3>1 DEF IInv, HandleInv, HandleOK, StackOK, TypeOK
      <3>6. savepoint'[newF[i]] < savepoint'[h]
        BY <1>1, <1>3, <3>1, <3>5
      <3>7. ASSUME NEW j \in 1..n, i < j PROVE savepoint'[newF[i]] < savepoint'[newF[j]]
        BY <1>1, <1>2, <1>3, <2>2, <3>1, <3>7 DEF StackOK
      <3> QED
        BY <1>2, <3>2, <3>4, <3>6, <3>7
    <2>4. /\ txState'[h] = "open"
          /\ tx'[h] = newF[1]
          /\ within'[h] = {newF[k] : k \in 1..(n + 1)}
      <3>1. txState'[h] = "open" /\ tx'[h] = newF[1]
        BY <1>1, <1>2, <1>3 DEF TypeOK
      <3>2. {newF[k] : k \in 1..(n + 1)} = {f[k] : k \in 1..n} \cup {h}
        <4> HIDE DEF n, f, newF
        <4> QED
          BY <1>2, <1>3, PushedImage
      <3> QED
        BY <1>3, <1>4, <3>1, <3>2
    <2>5. StackOK(g)'
      <3> SUFFICES ASSUME NEW i \in 1..(n + 1)
                   PROVE  /\ txState'[newF[i]] = "open"
                          /\ tx'[newF[i]] = newF[1]
                          /\ within'[newF[i]] = {newF[k] : k \in 1..i}
                          /\ \A j \in 1..(n + 1) : i < j => savepoint'[newF[i]] < savepoint'[newF[j]]
        BY <1>2 DEF StackOK
      <3>1. CASE i \in 1..n
        BY <2>3, <3>1
      <3>2. CASE i = n + 1
        <4>1. \A j \in 1..(n + 1) : ~ (i < j)
          BY <1>3, <3>2
        <4>2. newF[i] = h
          BY <1>2, <3>2
        <4> QED
          BY <2>4, <3>2, <4>1, <4>2
      <3> QED
        BY <1>3, <3>1, <3>2
    <2> QED
      BY <2>1, <2>5 DEF StacksOK
  <1>8. StacksDisjoint' /\ OpenIsOnStack'
    <2>1. \A k \in Goroutine \ {g} : Stack(k)' = Stack(k) /\ h \notin Stack(k)
      BY <1>1, <1>6
    <2>2. Stack(g)' = Stack(g) \cup {h}
      BY <1>6
    <2>3. StacksDisjoint'
      BY <2>1, <2>2 DEF StackInv, StacksDisjoint
    <2>4. \A x \in Handle : txState'[x] = "open" => txState[x] = "open" \/ x = h
      BY <1>1, <1>3 DEF TypeOK
    <2>5. OpenIsOnStack'
      BY <2>1, <2>2, <2>4 DEF StackInv, OpenIsOnStack
    <2> QED
      BY <2>3, <2>5
  <1>9. WithinOK'
    <2>1. ASSUME NEW y \in Handle \ {h}
          PROVE  /\ txState'[y] = "none" => within'[y] = {}
                 /\ txState'[y] # "none" => tx'[y] \in within'[y]
                 /\ \A x \in within'[y] : txState'[x] # "none" /\ tx'[x] = tx'[y]
      <3>1. \A x \in within[y] : x \in Handle \ {h}
        BY <1>1, <1>3 DEF StackInv, WithinOK, CallTypeOK
      <3>2. \A x \in Handle \ {h} : /\ txState'[x] = txState[x] /\ tx'[x] = tx[x]
                                   /\ within'[x] = within[x]
        BY <1>1, <1>3, <1>4 DEF TypeOK
      <3> QED
        BY <3>1, <3>2 DEF StackInv, WithinOK
    <2>2. tx'[h] \in within'[h]
      BY <1>1, <1>3, <1>4
    <2>3. ASSUME NEW x \in within'[h] PROVE txState'[x] # "none" /\ tx'[x] = tx'[h]
      <3>1. CASE x = h
        BY <1>1, <1>3, <3>1 DEF TypeOK
      <3>2. CASE x # h
        <4>1. PICK i \in 1..n : x = f[i]
          BY <1>3, <1>4, <3>2
        <4>2. tx[x] = f[1] /\ txState[x] = "open" /\ x \in Handle \ {h} /\ InCall(g)
          BY <1>3, <3>2, <4>1 DEF StackInv, StacksOK, StackOK
        <4> QED
          BY <1>1, <1>3, <4>2 DEF TypeOK
      <3> QED
        BY <3>1, <3>2
    <2>4. txState'[h] # "none"
      BY <1>1, <1>3 DEF TypeOK
    <2> QED
      BY <2>1, <2>2, <2>3, <2>4 DEF WithinOK
  <1>10. ScopesOK'
    <2>1. ASSUME NEW w \in Write, via[w] # None
          PROVE  /\ scope[w] \in Handle
                 /\ txState'[scope[w]] # "none"
                 /\ via[w] \in within'[scope[w]]
      BY <1>1, <1>3, <1>4, <2>1 DEF StackInv, ScopesOK, TypeOK
    <2>2. ASSUME NEW w \in inflight PROVE \E k \in Goroutine : InCall(k)' /\ scope[w] = Current(k)'
      <3>1. PICK k \in Goroutine : InCall(k) /\ scope[w] = Current(k)
        BY DEF StackInv, ScopesOK
      <3>2. k # g
        BY <3>1, NotWaiting DEF Call
      <3> QED
        BY <1>2, <3>1, <3>2 DEF InCall, Current
    <2> QED
      BY <1>1, <2>1, <2>2 DEF ScopesOK
  <1> QED
    BY <1>5, <1>7, <1>8, <1>9, <1>10 DEF StackInv

\* The current call is over: its handle is closed and leaves the stack.
LEMMA TopFrame ==
    ASSUME IInv, StackInv, NEW g \in Goroutine, ReturnNil(g) \/ ReturnError(g)
    PROVE  LET n == Len(frames[g])
               c == Current(g)
           IN /\ n \in Nat /\ n \in 1..n /\ n - 1 \in 0..n /\ c = frames[g][n] /\ c \in Handle
              /\ txState[c] = "open" /\ txState'[c] = "closed"
              /\ \A x \in Handle \ {c} : txState'[x] = txState[x] /\ outcome'[x] = outcome[x]
              /\ UNCHANGED <<tx, savepoint, savepointSeq, inflight, via, acked, late, within, scope>>
              /\ within[c] = Stack(g) /\ c \in Stack(g) /\ tx[c] = frames[g][1]
              /\ frames' \in [Goroutine -> Seq(Handle)]
              /\ Len(frames'[g]) = n - 1
              /\ \A i \in 1..(n - 1) : frames'[g][i] = frames[g][i] /\ frames[g][i] \in Handle \ {c}
              /\ \A k \in Goroutine \ {g} : frames'[k] = frames[k] /\ c \notin Stack(k)
              /\ \A w \in inflight : scope[w] # c
  <1> DEFINE n == Len(frames[g])
             c == Current(g)
  <1>0. CallTypeOK /\ TypeOK /\ InCall(g) /\ ~ Waiting(g) /\ Return(g)
    BY DEF StackInv, IInv, ReturnNil, ReturnError
  <1>1. /\ n \in Nat /\ n > 0 /\ c = frames[g][n] /\ c \in Handle /\ c \in Stack(g)
        /\ \A i \in 1..n : frames[g][i] \in Handle
    BY <1>0, Frames DEF Current
  <1>2. /\ txState[c] = "open" /\ txState' = [txState EXCEPT ![c] = "closed"]
        /\ \A x \in Handle \ {c} : outcome'[x] = outcome[x]
        /\ UNCHANGED <<tx, savepoint, savepointSeq, inflight, via, acked, late, within, scope>>
    <2>1. CASE ReturnNil(g)
      BY <1>0, <1>1, <2>1 DEF ReturnNil, Commit, CommitNested, CommitRoot, Finish, Return, statementVars, TypeOK
    <2>2. CASE ReturnError(g)
      BY <1>0, <1>1, <2>2 DEF ReturnError, Rollback, RollbackNested, RollbackRoot, Finish, Return,
                              statementVars, TypeOK
    <2> QED
      BY <2>1, <2>2
  <1>3. txState'[c] = "closed" /\ \A x \in Handle \ {c} : txState'[x] = txState[x]
    BY <1>0, <1>1, <1>2 DEF TypeOK
  <1>4. n \in 1..n /\ n - 1 \in 0..n /\ \A i \in 1..(n - 1) : i \in 1..n /\ i # n
    BY <1>1
  <1>5. within[c] = Stack(g) /\ tx[c] = frames[g][1]
    BY <1>0, <1>1, <1>4, Frames DEF StackInv, StacksOK, StackOK
  <1>6. /\ frames' \in [Goroutine -> Seq(Handle)]
        /\ Len(frames'[g]) = n - 1
        /\ \A i \in 1..(n - 1) : frames'[g][i] = frames[g][i]
        /\ \A k \in Goroutine \ {g} : frames'[k] = frames[k]
    BY <1>0, Popped
  <1>7. \A i \in 1..(n - 1) : frames[g][i] \in Handle \ {c}
    BY <1>1, <1>4, OneFrame
  <1>8. \A k \in Goroutine \ {g} : c \notin Stack(k)
    BY <1>1 DEF StackInv, StacksDisjoint
  <1>9. \A w \in inflight : scope[w] # c
    BY <1>0, NotWaiting
  <1> HIDE DEF n, c
  <1>10. /\ n \in Nat /\ n \in 1..n /\ n - 1 \in 0..n /\ c = frames[g][n] /\ c \in Handle
         /\ txState[c] = "open" /\ txState'[c] = "closed"
         /\ \A x \in Handle \ {c} : txState'[x] = txState[x] /\ outcome'[x] = outcome[x]
         /\ UNCHANGED <<tx, savepoint, savepointSeq, inflight, via, acked, late, within, scope>>
    BY <1>1, <1>2, <1>3, <1>4
  <1> QED
    BY <1>1, <1>5, <1>6, <1>7, <1>8, <1>9, <1>10 DEF n, c

LEMMA ReturnKeepsStacks ==
    ASSUME IInv, StackInv, NEW g \in Goroutine, ReturnNil(g) \/ ReturnError(g)
    PROVE  StackInv'
  <1> DEFINE n == Len(frames[g])
             c == Current(g)
  <1>1. /\ n \in Nat /\ n \in 1..n /\ n - 1 \in 0..n /\ c = frames[g][n] /\ c \in Handle
        /\ txState[c] = "open" /\ txState'[c] = "closed"
        /\ \A x \in Handle \ {c} : txState'[x] = txState[x] /\ outcome'[x] = outcome[x]
        /\ UNCHANGED <<tx, savepoint, savepointSeq, inflight, via, acked, late, within, scope>>
        /\ frames' \in [Goroutine -> Seq(Handle)]
        /\ Len(frames'[g]) = n - 1
        /\ \A i \in 1..(n - 1) : frames'[g][i] = frames[g][i] /\ frames[g][i] \in Handle \ {c}
        /\ \A k \in Goroutine \ {g} : frames'[k] = frames[k] /\ c \notin Stack(k)
        /\ \A w \in inflight : scope[w] # c
    BY TopFrame
  <1>0. CallTypeOK /\ \A k \in Goroutine : StackOK(k)
    BY DEF StackInv, StacksOK
  <1> HIDE DEF n, c
  <1>2. CallTypeOK'
    BY <1>0, <1>1 DEF CallTypeOK
  <1>3. Stack(g) = {frames[g][i] : i \in 1..n} /\ \A i \in 1..n : frames[g][i] \in Handle
    BY <1>0, Frames DEF n
  <1>4. Stack(g)' = Stack(g) \ {c} /\ \A k \in Goroutine \ {g} : Stack(k)' = Stack(k)
    <2>1. DOMAIN frames'[g] = 1..(n - 1)
      <3>1. frames'[g] \in Seq(Handle)
        BY <1>1
      <3> QED
        BY <1>1, <3>1
    <2>2. Stack(g)' = {frames'[g][i] : i \in 1..(n - 1)}
      BY <2>1 DEF Stack
    <2>3. \A i \in 1..n : i = n \/ i \in 1..(n - 1)
      BY <1>1
    <2>4. \A i \in 1..(n - 1) : i \in 1..n
      BY <1>1
    <2>5. {frames'[g][i] : i \in 1..(n - 1)} = Stack(g) \ {c}
      BY <1>1, <1>3, <2>3, <2>4
    <2>6. \A k \in Goroutine \ {g} : Stack(k)' = Stack(k)
      BY <1>1 DEF Stack
    <2> QED
      BY <2>2, <2>5, <2>6
  <1>5. StacksOK'
    <2>1. ASSUME NEW k \in Goroutine \ {g} PROVE StackOK(k)'
      <3>1. Len(frames[k]) \in 0..Len(frames[k]) /\ frames'[k] = frames[k]
        BY <1>0, <1>1, Frames
      <3>2. \A i \in 1..Len(frames[k]) : frames[k][i] \in Handle \ {c}
        BY <1>0, <1>1, Frames
      <3> QED
        BY <1>0, <1>1, <3>1, <3>2, StackStays
    <2>2. StackOK(g)'
      BY <1>0, <1>1, StackStays DEF n
    <2> QED
      BY <2>1, <2>2 DEF StacksOK
  <1>6. StacksDisjoint'
    BY <1>4 DEF StackInv, StacksDisjoint
  <1>7. OpenIsOnStack'
    <2>1. \A x \in Handle : txState'[x] = "open" => txState[x] = "open" /\ x # c
      BY <1>1
    <2> QED
      BY <1>4, <2>1 DEF StackInv, OpenIsOnStack
  <1>8. WithinOK'
    <2>1. \A x \in Handle : txState'[x] = "none" <=> txState[x] = "none"
      BY <1>1
    <2> QED
      BY <1>0, <1>1, <2>1 DEF StackInv, WithinOK, CallTypeOK
  <1>9. ScopesOK'
    <2>1. \A x \in Handle : txState'[x] = "none" <=> txState[x] = "none"
      BY <1>1
    <2>2. ASSUME NEW w \in inflight PROVE \E k \in Goroutine : InCall(k)' /\ scope[w] = Current(k)'
      <3>1. PICK k \in Goroutine : InCall(k) /\ scope[w] = Current(k)
        BY DEF StackInv, ScopesOK
      <3>2. k # g
        BY <1>1, <3>1 DEF c
      <3> QED
        BY <1>1, <3>1, <3>2 DEF InCall, Current
    <2> QED
      BY <1>1, <2>1, <2>2 DEF StackInv, ScopesOK
  <1> QED
    BY <1>2, <1>5, <1>6, <1>7, <1>8, <1>9 DEF StackInv

\* Every other step leaves the stacks as they are.
LEMMA StillStacks ==
    ASSUME StackInv, UNCHANGED <<frames, within, txState, tx, savepoint>>
    PROVE  StacksOK' /\ StacksDisjoint' /\ OpenIsOnStack' /\ WithinOK'
  <1>1. StacksOK'
    BY DEF StackInv, StacksOK, StackOK
  <1>2. StacksDisjoint' /\ OpenIsOnStack'
    BY DEF StackInv, StacksDisjoint, OpenIsOnStack, Stack
  <1>3. WithinOK'
    BY DEF StackInv, WithinOK
  <1> QED
    BY <1>1, <1>2, <1>3

LEMMA QuietKeepsStacks ==
    ASSUME StackInv, UNCHANGED <<frames, within, txState, tx, savepoint, via, scope>>, inflight' \subseteq inflight
    PROVE  StackInv'
  <1>1. CallTypeOK'
    BY DEF StackInv, CallTypeOK
  <1>2. ScopesOK'
    BY DEF StackInv, ScopesOK, InCall, Current
  <1> QED
    BY <1>1, <1>2, StillStacks DEF StackInv

LEMMA StatementKeepsStacks ==
    ASSUME IInv, StackInv, NEW g \in Goroutine, NEW w \in Write, Statement(g, w)
    PROVE  StackInv'
  <1>1. PICK h \in Stack(g) : ExecCheck(h, w)
    BY DEF Statement
  <1>2. CallTypeOK /\ TypeOK
    BY DEF StackInv, IInv
  <1>3. /\ via[w] = None /\ inflight' = inflight \cup {w}
        /\ UNCHANGED <<frames, within, txState, tx, savepoint>>
    BY <1>1 DEF Statement, ExecCheck, handleVars
  <1>4. /\ InCall(g) /\ Current(g) \in Handle /\ h \in Handle
        /\ txState[Current(g)] = "open" /\ h \in within[Current(g)]
    <2>1. PICK i \in 1..Len(frames[g]) : h = frames[g][i]
      BY <1>2, Frames
    <2>2. InCall(g) /\ h \in Handle
      BY <1>2, <2>1, Frames DEF InCall
    <2>3. /\ Len(frames[g]) \in 1..Len(frames[g]) /\ Current(g) = frames[g][Len(frames[g])]
          /\ Current(g) \in Handle /\ Stack(g) = {frames[g][k] : k \in 1..Len(frames[g])}
      BY <1>2, <2>2, Frames DEF Current
    <2>4. txState[Current(g)] = "open" /\ within[Current(g)] = Stack(g)
      BY <2>3 DEF StackInv, StacksOK, StackOK
    <2> QED
      BY <2>2, <2>3, <2>4
  <1>5. /\ via'[w] = h /\ scope'[w] = Current(g)
        /\ \A x \in Write \ {w} : via'[x] = via[x] /\ scope'[x] = scope[x]
    BY <1>1, <1>2 DEF ExecCheck, Statement, TypeOK, CallTypeOK
  <1>6. CallTypeOK'
    BY <1>2, <1>3, <1>4 DEF Statement, CallTypeOK
  <1>7. ScopesOK'
    <2>1. ASSUME NEW x \in Write, via'[x] # None
          PROVE  /\ scope'[x] \in Handle
                 /\ txState'[scope'[x]] # "none"
                 /\ via'[x] \in within'[scope'[x]]
      <3>1. CASE x = w
        BY <1>3, <1>4, <1>5, <3>1
      <3>2. CASE x # w
        BY <1>3, <1>5, <2>1, <3>2 DEF StackInv, ScopesOK
      <3> QED
        BY <3>1, <3>2
    <2>2. ASSUME NEW x \in inflight' PROVE \E k \in Goroutine : InCall(k)' /\ scope'[x] = Current(k)'
      <3>1. CASE x = w
        BY <1>3, <1>4, <1>5, <3>1 DEF InCall, Current
      <3>2. CASE x # w
        BY <1>2, <1>3, <1>5, <3>2 DEF StackInv, ScopesOK, InCall, Current, TypeOK
      <3> QED
        BY <3>1, <3>2
    <2> QED
      BY <2>1, <2>2 DEF ScopesOK
  <1> QED
    BY <1>3, <1>6, <1>7, StillStacks DEF StackInv

\* Every step keeps the discipline of the stacks.
LEMMA StacksKept == ASSUME IInv, StackInv, [CallNext]_allVars PROVE StackInv'
  <1>1. ASSUME NEW g \in Goroutine, NEW h \in Handle, Call(g, h) PROVE StackInv'
    BY <1>1, CallKeepsStacks
  <1>2. ASSUME NEW g \in Goroutine, CallFails(g) PROVE StackInv'
    BY <1>2, QuietKeepsStacks DEF CallFails, BeginNestedFails, callVars, statementVars
  <1>3. ASSUME NEW g \in Goroutine, NEW w \in Write, Statement(g, w) PROVE StackInv'
    BY <1>3, StatementKeepsStacks
  <1>4. ASSUME NEW w \in Write, StatementSucceeds(w) PROVE StackInv'
    <2>1. inflight' \subseteq inflight
      BY <1>4 DEF StatementSucceeds, ExecRun
    <2> QED
      BY <1>4, <2>1, QuietKeepsStacks DEF StatementSucceeds, ExecRun, callVars, handleVars
  <1>5. ASSUME NEW w \in Write, StatementFails(w) PROVE StackInv'
    <2>1. inflight' \subseteq inflight
      BY <1>5 DEF StatementFails, ExecFails
    <2> QED
      BY <1>5, <2>1, QuietKeepsStacks DEF StatementFails, ExecFails, callVars, handleVars
  <1>6. ASSUME NEW g \in Goroutine, ReturnNil(g) \/ ReturnError(g) PROVE StackInv'
    BY <1>6, ReturnKeepsStacks
  <1>7. ASSUME NEW t \in Handle, CallFault(t) PROVE StackInv'
    BY <1>7, QuietKeepsStacks DEF CallFault, ConnectionLost, ContextDone, callVars, handleVars, statementVars
  <1>8. CASE UNCHANGED allVars
    BY <1>8, QuietKeepsStacks DEF allVars, callVars, vars
  <1> QED
    BY <1>1, <1>2, <1>3, <1>4, <1>5, <1>6, <1>7, <1>8 DEF CallNext

LEMMA StacksStart == CallInit => StackInv
  <1> SUFFICES ASSUME CallInit PROVE StackInv
    OBVIOUS
  <1>1. CallTypeOK
    BY DEF CallInit, CallTypeOK
  <1>2. \A g \in Goroutine : Len(frames[g]) = 0 /\ Stack(g) = {}
    BY DEF CallInit, Stack
  <1>3. StacksOK /\ StacksDisjoint /\ OpenIsOnStack
    BY <1>2 DEF CallInit, Init, StacksOK, StackOK, StacksDisjoint, OpenIsOnStack
  <1>4. WithinOK /\ ScopesOK
    BY DEF CallInit, Init, WithinOK, ScopesOK
  <1> QED
    BY <1>1, <1>3, <1>4 DEF StackInv

-----------------------------------------------------------------------------
\* Savepoints and their marks.

LEMMA PositionIs ==
    ASSUME NEW s \in Transaction, NEW n \in Nat,
           NEW i \in DOMAIN s.savepoints, s.savepoints[i].name = n,
           \A j, k \in DOMAIN s.savepoints :
              j < k => s.savepoints[j].name < s.savepoints[k].name
    PROVE  HasSavepoint(s, n) /\ Position(s, n) = i
  <1> DEFINE p == Position(s, n)
  <1>1. HasSavepoint(s, n)
    BY DEF HasSavepoint
  <1>2. p \in DOMAIN s.savepoints /\ s.savepoints[p].name = n
    BY <1>1, PositionFound
  <1> HIDE DEF p
  <1>3. p \in Nat /\ i \in Nat
    BY <1>2 DEF Transaction
  <1>4. ~ (p < i) /\ ~ (i < p)
    BY <1>2
  <1> QED
    BY <1>1, <1>3, <1>4 DEF p

\* The mark of a handle whose savepoint is on the server's stack.
LEMMA MarkOf ==
    ASSUME IInv, NEW t \in Handle, NEW h \in Handle, tx[h] = t, savepoint[h] # 0, MarkFound(h)
    PROVE  LET p == Position(server[t], savepoint[h]) IN
           /\ p \in DOMAIN server[t].savepoints /\ p \in Nat
           /\ server[t].savepoints[p].name = savepoint[h]
           /\ Mark(h) = server[t].savepoints[p].mark
           /\ Mark(h) \subseteq AckedIn(t)
  <1> DEFINE p == Position(server[t], savepoint[h])
  <1>1. server[t] \in Transaction /\ savepoint[h] \in Nat /\ HasSavepoint(server[t], savepoint[h])
    BY DEF IInv, TypeOK, MarkFound
  <1>2. \A i, j \in DOMAIN server[t].savepoints :
           i < j => server[t].savepoints[i].name < server[t].savepoints[j].name
    BY DEF IInv, StackSorted
  <1>3. p \in DOMAIN server[t].savepoints /\ server[t].savepoints[p].name = savepoint[h]
    BY <1>1, <1>2, PositionFound
  <1>4. p \in Nat
    BY <1>1, <1>3 DEF Transaction
  <1>5. Mark(h) = server[t].savepoints[p].mark
    BY DEF Mark
  <1>6. server[t].savepoints[p].mark \subseteq AckedIn(t)
    BY <1>3 DEF IInv, WriteInv
  <1> QED
    BY <1>3, <1>4, <1>5, <1>6

\* A savepoint that a step leaves where it is keeps its mark.
LEMMA MarkStays ==
    ASSUME IInv, IInv', NEW t \in Handle, NEW h \in Handle, tx[h] = t, tx'[h] = t,
           savepoint'[h] = savepoint[h], MarkFound(h),
           savepoint[h] # 0 =>
               LET p == Position(server[t], savepoint[h])
               IN  p \in DOMAIN server'[t].savepoints /\ server'[t].savepoints[p] = server[t].savepoints[p]
    PROVE  MarkFound(h)' /\ Mark(h)' = Mark(h)
  <1>1. CASE savepoint[h] = 0
    BY <1>1 DEF MarkFound, Mark
  <1>2. CASE savepoint[h] # 0
    <2> DEFINE p == Position(server[t], savepoint[h])
    <2>1. /\ p \in DOMAIN server'[t].savepoints /\ server'[t].savepoints[p] = server[t].savepoints[p]
          /\ server[t].savepoints[p].name = savepoint[h] /\ Mark(h) = server[t].savepoints[p].mark
      BY <1>2, MarkOf
    <2> HIDE DEF p
    <2>2. server'[t] \in Transaction /\ savepoint[h] \in Nat
      BY DEF IInv, TypeOK
    <2>3. \A i, j \in DOMAIN server'[t].savepoints :
             i < j => server'[t].savepoints[i].name < server'[t].savepoints[j].name
      BY DEF IInv, StackSorted
    <2>4. HasSavepoint(server'[t], savepoint[h]) /\ Position(server'[t], savepoint[h]) = p
      BY <2>1, <2>2, <2>3, PositionIs
    <2>5. MarkFound(h)'
      BY <2>4 DEF MarkFound
    <2>6. Mark(h)' = server'[t].savepoints[p].mark
      BY <1>2, <2>4 DEF Mark
    <2> QED
      BY <2>1, <2>5, <2>6
  <1> QED
    BY <1>1, <1>2

\* An earlier savepoint is further down.
LEMMA LowerPosition ==
    ASSUME IInv, NEW t \in Handle, NEW h \in Handle, NEW c \in Handle, tx[h] = t, tx[c] = t,
           savepoint[h] # 0, savepoint[h] < savepoint[c], MarkFound(h), MarkFound(c)
    PROVE  Position(server[t], savepoint[h]) < Position(server[t], savepoint[c])
  <1> DEFINE p == Position(server[t], savepoint[h])
             q == Position(server[t], savepoint[c])
  <1>1. savepoint[h] \in Nat /\ savepoint[c] \in Nat /\ savepoint[c] # 0
    BY DEF IInv, TypeOK
  <1>2. /\ p \in DOMAIN server[t].savepoints /\ p \in Nat /\ server[t].savepoints[p].name = savepoint[h]
        /\ q \in DOMAIN server[t].savepoints /\ q \in Nat /\ server[t].savepoints[q].name = savepoint[c]
    BY <1>1, MarkOf
  <1> HIDE DEF p, q
  <1>3. ~ (q < p) /\ q # p
    BY <1>1, <1>2 DEF IInv, StackSorted
  <1> QED
    BY <1>2, <1>3 DEF p, q

-----------------------------------------------------------------------------
\* Which call a write is of.

\* The calls an acknowledged write was made in are of the sql.Tx it went to.
LEMMA Owner ==
    ASSUME IInv, StackInv, NEW t \in Handle, NEW w \in AckedIn(t)
    PROVE  /\ w \in acked /\ w \in Write /\ scope[w] \in Handle /\ txState[scope[w]] # "none"
           /\ t \in within[scope[w]] /\ via[w] \in within[scope[w]]
           /\ \A x \in within[scope[w]] : x \in Handle /\ tx[x] = t /\ txState[x] \in {"open", "closed"}
  <1>1. w \in acked /\ w \in Write /\ via[w] # None /\ tx[via[w]] = t
    BY DEF IInv, TypeOK, WriteInv, AckedIn
  <1>2. scope[w] \in Handle /\ txState[scope[w]] # "none" /\ via[w] \in within[scope[w]]
    BY <1>1 DEF StackInv, ScopesOK
  <1>3. \A x \in within[scope[w]] : x \in Handle /\ txState[x] # "none" /\ tx[x] = tx[scope[w]]
    BY <1>2 DEF StackInv, WithinOK, CallTypeOK
  <1>4. tx[scope[w]] = t /\ t \in within[scope[w]]
    BY <1>1, <1>2, <1>3 DEF StackInv, WithinOK
  <1> QED
    BY <1>1, <1>2, <1>3, <1>4 DEF IInv, TypeOK

\* An open handle is on the stack that begins with its sql.Tx.
LEMMA StackOfTx ==
    ASSUME IInv, StackInv, NEW g \in Goroutine, InCall(g), NEW x \in Handle, txState[x] = "open",
           tx[x] = frames[g][1]
    PROVE  x \in Stack(g)
  <1>1. PICK k \in Goroutine : x \in Stack(k)
    BY DEF StackInv, OpenIsOnStack
  <1>2. PICK i \in 1..Len(frames[k]) : x = frames[k][i]
    BY <1>1, Frames DEF StackInv
  <1>3. frames[g][1] = frames[k][1] /\ 1 \in 1..Len(frames[k])
    BY <1>2, RootOfStack
  <1>4. 1 \in 1..Len(frames[g])
    BY Frames DEF StackInv
  <1>5. frames[g][1] \in Stack(g) /\ frames[g][1] \in Stack(k)
    BY <1>3, <1>4, Frames DEF StackInv
  <1>6. g = k
    BY <1>5 DEF StackInv, StacksDisjoint
  <1> QED
    BY <1>1, <1>6

LEMMA OtherTx ==
    ASSUME IInv, StackInv, NEW g \in Goroutine, InCall(g), NEW k \in Goroutine \ {g}, InCall(k)
    PROVE  frames[k][1] # frames[g][1]
  <1>1. 1 \in 1..Len(frames[g]) /\ 1 \in 1..Len(frames[k])
    BY Frames DEF StackInv
  <1>2. frames[g][1] \in Stack(g) /\ frames[k][1] \in Stack(k)
    BY <1>1, Frames DEF StackInv
  <1> QED
    BY <1>2 DEF StackInv, StacksDisjoint

\* A step that leaves the calls it does not end and their savepoints alone, adds
\* nothing pending but writes of these calls, and lets no call fail but one that
\* ends, as seen by an open handle h of the sql.Tx t.  A call that it begins has
\* nothing but pending writes in its mark.
Undisturbed(h, t) ==
    /\ tx[h] = t /\ tx'[h] = t /\ txState[h] = "open" /\ txState'[h] = "open"
    /\ savepoint'[h] = savepoint[h]
    /\ \A y \in Handle : txState'[y] = "open" /\ tx'[y] = t =>
          \/ txState[y] = "open" /\ tx[y] = t /\ savepoint'[y] = savepoint[y]
          \/ Mark(y)' \subseteq server[t].pending /\ \A w \in AckedIn(t) : y \notin within[scope[w]]
    /\ Running(t)' =>
          /\ Running(t)
          /\ \A y \in Handle : txState[y] = "open" /\ txState'[y] = "open" /\ tx'[y] = t /\ savepoint[y] # 0 =>
                LET q == Position(server[t], savepoint[y])
                IN  q \in DOMAIN server'[t].savepoints /\ server'[t].savepoints[q] = server[t].savepoints[q]
          /\ \A w \in server'[t].pending :
                \/ w \in server[t].pending
                \/ \E c \in Handle : /\ txState[c] = "open" /\ tx[c] = t /\ savepoint[h] < savepoint[c]
                                     /\ w \in Mark(c)
                \/ h \in within'[scope'[w]]
    /\ \A w \in AckedIn(t) :
          /\ within'[scope'[w]] = within[scope[w]]
          /\ /\ KeptSoFar(w)
             /\ \A y \in Handle :
                   txState[y] = "open" /\ tx[y] = t /\ savepoint[h] <= savepoint[y] /\ txState'[y] # "open"
                      => y \notin within[scope[w]]
             => KeptSoFar(w)'

\* What the marks tell is kept by such a step.
LEMMA TellsStay ==
    ASSUME IInv, IInv', CallsTell, NEW t \in Handle, NEW h \in Handle, Undisturbed(h, t)
    PROVE  CallTells(h)'
  <1> USE DEF Undisturbed
  <1>1. SUFFICES ASSUME Running(t)'
                 PROVE  /\ MarkFound(h)'
                        /\ \A w \in server'[t].pending \ Mark(h)' : h \in within'[scope'[w]]
                        /\ \A y \in Handle : txState'[y] = "open" /\ tx'[y] = t /\ savepoint'[h] < savepoint'[y] =>
                              \A w \in Mark(y)' \ Mark(h)' : h \in within'[scope'[w]]
                        /\ \A w \in Mark(h)' : KeptSoFar(w)'
                        /\ \A y \in Handle : txState'[y] = "open" /\ tx'[y] = t /\ savepoint'[h] <= savepoint'[y] =>
                              \A w \in Mark(h)' : y \notin within'[scope'[w]]
    BY DEF CallTells
  <1>2. ASSUME NEW y \in Handle, txState'[y] = "open", tx'[y] = t,
               txState[y] = "open", tx[y] = t, savepoint'[y] = savepoint[y]
        PROVE  /\ MarkFound(y) /\ MarkFound(y)' /\ Mark(y)' = Mark(y)
               /\ Mark(y) \subseteq AckedIn(t)
    <2>1. txState[y] = "open" /\ tx[y] = t /\ savepoint'[y] = savepoint[y]
      BY <1>2
    <2>2. MarkFound(y)
      BY <1>1, <2>1 DEF CallsTell, CallTells
    <2>3. MarkFound(y)' /\ Mark(y)' = Mark(y)
      BY <1>1, <1>2, <2>1, <2>2, MarkStays
    <2>4. Mark(y) \subseteq AckedIn(t)
      <3>1. CASE savepoint[y] = 0
        BY <3>1 DEF Mark
      <3>2. CASE savepoint[y] # 0
        BY <2>1, <2>2, <3>2, MarkOf
      <3> QED
        BY <3>1, <3>2
    <2> QED
      BY <2>1, <2>2, <2>3, <2>4
  <1>3. /\ MarkFound(h)' /\ Mark(h)' = Mark(h) /\ Mark(h) \subseteq AckedIn(t) /\ savepoint'[h] = savepoint[h]
        /\ MarkFound(h)
    BY <1>2
  <1>4. /\ server[t].pending \subseteq AckedIn(t)
        /\ \A c \in Handle : txState[c] = "open" /\ tx[c] = t /\ MarkFound(c) => Mark(c) \subseteq AckedIn(t)
    <2>1. server[t].pending \subseteq AckedIn(t)
      BY DEF IInv, WriteInv
    <2>2. ASSUME NEW c \in Handle, tx[c] = t, MarkFound(c) PROVE Mark(c) \subseteq AckedIn(t)
      <3>1. CASE savepoint[c] = 0
        BY <3>1 DEF Mark
      <3>2. CASE savepoint[c] # 0
        BY <2>2, <3>2, MarkOf
      <3> QED
        BY <3>1, <3>2
    <2> QED
      BY <2>1, <2>2
  <1>5. /\ \A w \in server[t].pending \ Mark(h) : h \in within[scope[w]]
        /\ \A y \in Handle : txState[y] = "open" /\ tx[y] = t /\ savepoint[h] < savepoint[y] =>
              \A w \in Mark(y) \ Mark(h) : h \in within[scope[w]]
        /\ \A w \in Mark(h) : KeptSoFar(w)
        /\ \A y \in Handle : txState[y] = "open" /\ tx[y] = t /\ savepoint[h] <= savepoint[y] =>
              \A w \in Mark(h) : y \notin within[scope[w]]
    BY <1>1 DEF CallsTell, CallTells
  <1>6. \A c \in Handle : txState[c] = "open" /\ tx[c] = t => MarkFound(c)
    BY <1>1 DEF CallsTell, CallTells
  <1>7. ASSUME NEW w \in server'[t].pending \ Mark(h)' PROVE h \in within'[scope'[w]]
    <2>1. CASE w \in server[t].pending
      BY <1>3, <1>4, <1>5, <1>7, <2>1
    <2>2. ASSUME NEW c \in Handle, txState[c] = "open", tx[c] = t, savepoint[h] < savepoint[c], w \in Mark(c)
          PROVE  h \in within'[scope'[w]]
      BY <1>3, <1>4, <1>5, <1>6, <1>7, <2>2
    <2> QED
      BY <1>1, <1>7, <2>1, <2>2
  <1>8. ASSUME NEW y \in Handle, txState'[y] = "open", tx'[y] = t, savepoint'[h] < savepoint'[y],
               NEW w \in Mark(y)' \ Mark(h)'
        PROVE  h \in within'[scope'[w]]
    <2>1. CASE txState[y] = "open" /\ tx[y] = t /\ savepoint'[y] = savepoint[y]
      BY <1>2, <1>3, <1>5, <1>8, <2>1
    <2>2. CASE Mark(y)' \subseteq server[t].pending
      BY <1>3, <1>4, <1>5, <1>8, <2>2
    <2> QED
      BY <1>8, <2>1, <2>2
  <1>9. ASSUME NEW w \in Mark(h)' PROVE KeptSoFar(w)'
    <2>1. w \in Mark(h) /\ w \in AckedIn(t)
      BY <1>3, <1>9
    <2>2. KeptSoFar(w)
      BY <1>5, <2>1
    <2>3. \A y \in Handle : txState[y] = "open" /\ tx[y] = t /\ savepoint[h] <= savepoint[y] =>
             y \notin within[scope[w]]
      BY <1>5, <2>1
    <2> QED
      BY <2>1, <2>2, <2>3 DEF KeptSoFar
  <1>10. ASSUME NEW y \in Handle, txState'[y] = "open", tx'[y] = t, savepoint'[h] <= savepoint'[y],
                NEW w \in Mark(h)'
         PROVE  y \notin within'[scope'[w]]
    <2>1. CASE txState[y] = "open" /\ tx[y] = t /\ savepoint'[y] = savepoint[y]
      BY <1>3, <1>5, <1>10, <2>1
    <2>2. CASE \A x \in AckedIn(t) : y \notin within[scope[x]]
      BY <1>3, <1>10, <2>2
    <2> QED
      BY <1>10, <2>1, <2>2
  <1> QED
    BY <1>3, <1>7, <1>8, <1>9, <1>10

\* What has not changed for the calls of a write has not changed for the write.
LEMMA KeptStays ==
    ASSUME NEW w, KeptSoFar(w), within'[scope'[w]] = within[scope[w]],
           \A x \in within[scope[w]] :
               txState'[x] = txState[x] /\ outcome'[x] = outcome[x] /\ savepoint'[x] = savepoint[x]
    PROVE  KeptSoFar(w)'
  BY DEF KeptSoFar, Stands

\* A step that ends no call and makes nothing pending: a Begin that fails, the
\* check of a statement, a statement that fails, and the faults.
LEMMA QuietTells ==
    ASSUME IInv, IInv', StackInv, TellInv,
           UNCHANGED <<within, txState, tx, savepoint, outcome, durable, acked>>,
           \A w \in acked : scope'[w] = scope[w] /\ via'[w] = via[w],
           \A t \in Handle :
              /\ Running(t)' => /\ Running(t)
                                /\ server'[t].savepoints = server[t].savepoints
                                /\ server'[t].pending = server[t].pending
              /\ server'[t].status = "active" => server[t].status = "active"
    PROVE  TellInv'
  <1>1. \A w \in acked : within'[scope'[w]] = within[scope[w]]
    OBVIOUS
  <1>2. \A w \in acked : KeptSoFar(w) => KeptSoFar(w)'
    BY <1>1 DEF KeptSoFar, Stands
  <1>3. \A t \in Handle : server[t].pending \subseteq AckedIn(t) /\ AckedIn(t) \subseteq acked
    BY DEF IInv, WriteInv, AckedIn
  <1>4. CallsTell'
    <2> SUFFICES ASSUME NEW h \in Handle, txState[h] = "open" PROVE CallTells(h)'
      BY DEF CallsTell, CallTells
    <2> DEFINE t == tx[h]
    <2>1. t \in Handle /\ CallTells(h)
      BY DEF IInv, HandleInv, HandleOK, TellInv, CallsTell
    <2>2. Running(t)' => Running(t)
      BY <2>1
    <2>3. ASSUME Running(t)', NEW y \in Handle, txState[y] = "open", tx[y] = t, savepoint[y] # 0
          PROVE  Position(server[t], savepoint[y]) \in DOMAIN server[t].savepoints
      <3>1. MarkFound(y)
        BY <2>2, <2>3 DEF TellInv, CallsTell, CallTells
      <3> QED
        BY <2>1, <2>3, <3>1, MarkOf
    <2>4. \A w \in AckedIn(t) : within'[scope'[w]] = within[scope[w]] /\ (KeptSoFar(w) => KeptSoFar(w)')
      BY <1>1, <1>2, <1>3, <2>1
    <2>5. Undisturbed(h, t)
      BY <2>1, <2>2, <2>3, <2>4 DEF Undisturbed
    <2> QED
      BY <2>1, <2>5, TellsStay DEF TellInv
  <1>5. PendingKept'
    BY <1>2, <1>3 DEF TellInv, PendingKept, Running
  <1>6. UnfailedPending'
    <2> SUFFICES ASSUME NEW w \in acked, Running(tx[via[w]])', Unfailed(w)'
                 PROVE  w \in server'[tx[via[w]]].pending
      BY DEF UnfailedPending, Running
    <2>1. tx[via[w]] \in Handle
      BY DEF IInv, TypeOK, WriteInv, HandleInv, HandleOK
    <2>2. Unfailed(w)
      BY <1>1 DEF Unfailed
    <2> QED
      BY <2>1, <2>2 DEF TellInv, UnfailedPending
  <1>7. CallsTellFateOfWrites'
    BY <1>1 DEF TellInv, CallsTellFateOfWrites
  <1> QED
    BY <1>4, <1>5, <1>6, <1>7 DEF TellInv

\* The calls a statement under way was made in are the open handles of its sql.Tx.
LEMMA UnderWay ==
    ASSUME IInv, StackInv, NEW w \in inflight
    PROVE  /\ w \in Write /\ w \notin acked /\ via[w] \in within[scope[w]] /\ tx[via[w]] \in Handle
           /\ \A x \in Handle : x \in within[scope[w]] <=> txState[x] = "open" /\ tx[x] = tx[via[w]]
           /\ within[scope[w]] \subseteq Handle
  <1>1. w \in Write /\ w \notin acked /\ via[w] \in Handle
    BY DEF IInv, TypeOK, WriteInv
  <1>2. PICK g \in Goroutine : InCall(g) /\ scope[w] = Current(g)
    BY DEF StackInv, ScopesOK
  <1>3. via[w] \in within[scope[w]]
    BY <1>1, NoneAssumption DEF StackInv, ScopesOK
  <1>4. within[scope[w]] = Stack(g) /\ Stack(g) = {frames[g][i] : i \in 1..Len(frames[g])}
    BY <1>2, Frames DEF StackInv, StacksOK, StackOK, Current
  <1>5. \A x \in Stack(g) : x \in Handle /\ txState[x] = "open" /\ tx[x] = frames[g][1]
    BY <1>4, Frames DEF StackInv, StacksOK, StackOK
  <1>6. \A x \in Handle : txState[x] = "open" /\ tx[x] = frames[g][1] => x \in Stack(g)
    BY <1>2, StackOfTx
  <1>7. tx[via[w]] = frames[g][1] /\ frames[g][1] \in Handle
    BY <1>2, <1>3, <1>4, <1>5, Frames DEF StackInv
  <1> QED
    BY <1>1, <1>3, <1>4, <1>5, <1>6, <1>7

\* A statement succeeds: its write is pending, and of every call under way.
LEMMA SucceedsTells ==
    ASSUME IInv, IInv', StackInv, TellInv, NEW w \in Write, StatementSucceeds(w)
    PROVE  TellInv'
  <1> DEFINE t == tx[via[w]]
  <1>1. /\ w \in inflight /\ server[t].status = "active"
        /\ server' = [server EXCEPT ![t] = Inserted(server[t], w)]
        /\ acked' = acked \cup {w}
        /\ UNCHANGED <<within, scope, txState, tx, savepoint, outcome, durable, via>>
    BY DEF StatementSucceeds, ExecRun, handleVars, callVars
  <1>2. /\ w \notin acked /\ via[w] \in within[scope[w]] /\ t \in Handle
        /\ \A x \in Handle : x \in within[scope[w]] <=> txState[x] = "open" /\ tx[x] = t
        /\ within[scope[w]] \subseteq Handle
    BY <1>1, UnderWay
  <1>3. /\ server'[t].pending = server[t].pending \cup {w}
        /\ server'[t].savepoints = server[t].savepoints
        /\ server'[t].status = server[t].status
        /\ \A u \in Handle \ {t} : server'[u] = server[u]
    BY <1>1, <1>2, InsertedFields DEF IInv, TypeOK
  <1> HIDE DEF t
  <1>4. \A x : KeptSoFar(x)' <=> KeptSoFar(x)
    BY <1>1 DEF KeptSoFar, Stands
  <1>5. \A u \in Handle : Running(u)' <=> Running(u)
    BY <1>3 DEF Running
  <1>6. CallsTell'
    <2> SUFFICES ASSUME NEW h \in Handle, txState[h] = "open" PROVE CallTells(h)'
      BY <1>1 DEF CallsTell, CallTells
    <2>1. PICK u \in Handle : u = tx[h]
      BY DEF IInv, HandleInv, HandleOK
    <2>2. ASSUME Running(u), NEW y \in Handle, txState[y] = "open", tx[y] = u, savepoint[y] # 0
          PROVE  Position(server[u], savepoint[y]) \in DOMAIN server[u].savepoints
      <3>1. MarkFound(y)
        BY <2>2 DEF TellInv, CallsTell, CallTells
      <3> QED
        BY <2>1, <2>2, <3>1, MarkOf
    <2>3. server'[u].savepoints = server[u].savepoints
      BY <1>3
    <2>4. ASSUME NEW x \in server'[u].pending
          PROVE  x \in server[u].pending \/ h \in within'[scope'[x]]
      BY <1>1, <1>2, <1>3, <2>1, <2>4
    <2>5. Undisturbed(h, u)
      BY <1>1, <1>4, <1>5, <2>1, <2>2, <2>3, <2>4 DEF Undisturbed
    <2> QED
      BY <2>1, <2>5, TellsStay DEF TellInv
  <1>7. PendingKept'
    <2>1. KeptSoFar(w)
      BY <1>2 DEF KeptSoFar
    <2> QED
      BY <1>3, <1>4, <2>1 DEF TellInv, PendingKept
  <1>8. UnfailedPending'
    <2> SUFFICES ASSUME NEW x \in acked \cup {w}, Running(tx[via[x]])', Unfailed(x)'
                 PROVE  x \in server'[tx[via[x]]].pending
      BY <1>1 DEF UnfailedPending, Running
    <2>1. CASE x = w
      BY <1>3, <2>1 DEF t
    <2>2. CASE x # w
      <3>1. x \in acked /\ tx[via[x]] \in Handle
        BY <2>2 DEF IInv, TypeOK, WriteInv, HandleInv, HandleOK
      <3>2. Unfailed(x)
        BY <1>1 DEF Unfailed
      <3>3. Running(tx[via[x]])
        BY <1>1, <1>5, <3>1 DEF Running
      <3> QED
        BY <1>3, <3>1, <3>2, <3>3 DEF TellInv, UnfailedPending
    <2> QED
      BY <2>1, <2>2
  <1>9. CallsTellFateOfWrites'
    <2>1. outcome[via[w]] = "none" /\ w \notin durable
      BY <1>2 DEF IInv, HandleInv, HandleOK, WriteInv
    <2> QED
      BY <1>1, <1>2, <2>1 DEF TellInv, CallsTellFateOfWrites
  <1> QED
    BY <1>6, <1>7, <1>8, <1>9 DEF TellInv

\* The savepoint that Begin adds is the last, with the pending writes as its mark.
LEMMA SavedTop ==
    ASSUME NEW s \in Transaction, NEW n \in Nat
    PROVE  LET r == Saved(s, n)
               i == Len(s.savepoints) + 1
           IN  /\ i \in DOMAIN r.savepoints
               /\ r.savepoints[i].name = n /\ r.savepoints[i].mark = s.pending
               /\ \A j \in DOMAIN s.savepoints : j \in DOMAIN r.savepoints /\ r.savepoints[j] = s.savepoints[j]
  <1> DEFINE e == [name |-> n, mark |-> s.pending]
             q == Append(s.savepoints, e)
  <1>1. e \in Savepoint /\ s.savepoints \in Seq(Savepoint)
    BY DEF Transaction, Savepoint
  <1>2. /\ Len(s.savepoints) + 1 \in DOMAIN q /\ q[Len(s.savepoints) + 1] = e
        /\ \A j \in DOMAIN s.savepoints : j \in DOMAIN q /\ q[j] = s.savepoints[j]
    BY <1>1
  <1>3. Saved(s, n).savepoints = q
    BY DEF Saved
  <1> QED
    BY <1>2, <1>3

\* A call begins.  Its mark is what is pending, and nothing is of it.
LEMMA CallTellsInv ==
    ASSUME IInv, IInv', StackInv, TellInv, NEW g \in Goroutine, NEW h \in Handle, Call(g, h)
    PROVE  TellInv'
  <1> DEFINE t == IF InCall(g) THEN frames[g][1] ELSE h
  <1>1. /\ txState[h] = "none" /\ txState' = [txState EXCEPT ![h] = "open"]
        /\ \A x \in Handle \ {h} : tx'[x] = tx[x] /\ savepoint'[x] = savepoint[x]
        /\ tx'[h] = t
        /\ savepoint'[h] = IF InCall(g) THEN savepointSeq + 1 ELSE 0
        /\ UNCHANGED <<via, acked, durable, outcome, scope>>
    BY NewFrame
  <1>2. txState'[h] = "open" /\ \A x \in Handle \ {h} : txState'[x] = txState[x]
    BY <1>1 DEF IInv, TypeOK
  <1>3. t \in Handle /\ t # h => InCall(g)
    BY Frames DEF StackInv
  <1>4. /\ InCall(g) => t \in Handle /\ tx[Current(g)] = t /\ txState[t] = "open"
        /\ t \in Handle
    BY RootOfStack, Frames DEF StackInv, Current
  <1>5. within' = [within EXCEPT ![h] = Stack(g) \cup {h}]
    BY DEF Call
  <1>6. /\ \A u \in Handle \ {t} : server'[u] = server[u]
        /\ InCall(g) => server[t].status = "active" /\ server'[t] = Saved(server[t], savepointSeq + 1)
        /\ ~ InCall(g) => server'[t] = NewTransaction
    BY <1>4 DEF Call, BeginNested, BeginRoot, IInv, TypeOK
  <1> HIDE DEF t
  <1>7. /\ \A x \in within[h] : FALSE
        /\ \A x \in Handle : h \notin within[x]
    BY <1>1 DEF StackInv, WithinOK
  <1>8. \A w \in acked : /\ scope[w] \in Handle \ {h} /\ within'[scope[w]] = within[scope[w]]
                         /\ h \notin within[scope[w]] /\ via[w] \in Handle \ {h} /\ tx[via[w]] \in Handle
    <2> SUFFICES ASSUME NEW w \in acked
                 PROVE  /\ scope[w] \in Handle \ {h} /\ within'[scope[w]] = within[scope[w]]
                        /\ h \notin within[scope[w]] /\ via[w] \in Handle \ {h} /\ tx[via[w]] \in Handle
      OBVIOUS
    <2>1. w \in Write /\ via[w] # None /\ via[w] \in Handle
      BY DEF IInv, TypeOK, WriteInv
    <2>2. scope[w] \in Handle /\ txState[scope[w]] # "none" /\ via[w] \in within[scope[w]]
      BY <2>1 DEF StackInv, ScopesOK
    <2>3. scope[w] # h /\ via[w] # h
      BY <1>1, <1>7, <2>2
    <2>4. tx[via[w]] \in Handle
      BY <2>1 DEF IInv, HandleInv, HandleOK
    <2> QED
      BY <1>5, <1>7, <2>1, <2>2, <2>3, <2>4 DEF StackInv, CallTypeOK
  <1>9. \A w \in acked : KeptSoFar(w) => KeptSoFar(w)'
    <2> SUFFICES ASSUME NEW w \in acked, KeptSoFar(w) PROVE KeptSoFar(w)'
      OBVIOUS
    <2>1. \A x \in within[scope[w]] : x \in Handle \ {h}
      BY <1>8 DEF StackInv, CallTypeOK
    <2> QED
      BY <1>1, <1>2, <1>8, <2>1, KeptStays
  <1>10. \A u \in Handle : server[u].pending \subseteq AckedIn(u) /\ AckedIn(u) \subseteq acked
    BY DEF IInv, WriteInv, AckedIn
  <1>11. ASSUME InCall(g)
         PROVE  /\ CallTells(h)'
                /\ \A x \in Handle \ {h} : txState[x] = "open" => CallTells(x)'
                /\ \A u \in Handle :
                      \/ u = h /\ server'[u].pending = {}
                      \/ server'[u].status = server[u].status /\ server'[u].pending = server[u].pending
    <2>1. /\ server[t] \in Transaction /\ savepointSeq + 1 \in Nat /\ savepointSeq \in Nat
          /\ server[t].status = "active" /\ server'[t] = Saved(server[t], savepointSeq + 1)
      BY <1>4, <1>6, <1>11, MaxSavepointAssumption DEF IInv, TypeOK
    <2>2. server'[t].status = "active" /\ server'[t].pending = server[t].pending
      BY <2>1, SavedFields
    <2>3. MarkFound(h)' /\ Mark(h)' = server[t].pending
      <3> DEFINE i == Len(server[t].savepoints) + 1
      <3>1. /\ i \in DOMAIN server'[t].savepoints /\ server'[t].savepoints[i].name = savepointSeq + 1
            /\ server'[t].savepoints[i].mark = server[t].pending
        BY <2>1, SavedTop
      <3> HIDE DEF i
      <3>2. server'[t] \in Transaction
        BY <1>4 DEF IInv, TypeOK
      <3>3. \A j, k \in DOMAIN server'[t].savepoints :
               j < k => server'[t].savepoints[j].name < server'[t].savepoints[k].name
        BY <1>4 DEF IInv, StackSorted
      <3>4. HasSavepoint(server'[t], savepointSeq + 1) /\ Position(server'[t], savepointSeq + 1) = i
        BY <2>1, <3>1, <3>2, <3>3, PositionIs
      <3>5. tx'[h] = t /\ savepoint'[h] = savepointSeq + 1 /\ savepoint'[h] # 0
        BY <1>1, <1>11, <2>1
      <3> QED
        BY <3>1, <3>4, <3>5 DEF MarkFound, Mark
    <2>4. CallTells(h)'
      <3>1. \A y \in Handle \ {h} : savepoint'[y] < savepoint'[h]
        <4>1. savepoint'[h] = savepointSeq + 1 /\ savepointSeq \in Nat
          BY <1>1, <1>11, MaxSavepointAssumption DEF IInv, TypeOK
        <4>2. \A y \in Handle : savepoint[y] \in 0..savepointSeq
          BY <4>1 DEF IInv, HandleInv, HandleOK, TypeOK
        <4> QED
          BY <1>1, <4>1, <4>2
      <3>2. savepoint'[h] \in Nat /\ \A y \in Handle : savepoint'[y] \in Nat
        BY DEF IInv, TypeOK
      <3>3. \A w \in server[t].pending : KeptSoFar(w)' /\ h \notin within'[scope'[w]]
        BY <1>1, <1>4, <1>8, <1>9, <1>10, <2>1 DEF TellInv, PendingKept
      <3>4. tx'[h] = t
        BY <1>1
      <3>5. ASSUME NEW y \in Handle PROVE ~ (savepoint'[h] < savepoint'[y]) /\ (savepoint'[h] <= savepoint'[y] => y = h)
        BY <3>1, <3>2
      <3> QED
        BY <2>2, <2>3, <3>3, <3>4, <3>5 DEF CallTells
    <2>5. ASSUME NEW x \in Handle \ {h}, txState[x] = "open" PROVE CallTells(x)'
      <3>1. PICK u \in Handle : u = tx[x]
        BY <2>5 DEF IInv, HandleInv, HandleOK
      <3>2. Running(u)' => Running(u)
        BY <1>6, <2>1 DEF Running
      <3>3. ASSUME Running(u), NEW y \in Handle, txState[y] = "open", tx[y] = u, savepoint[y] # 0
            PROVE  LET q == Position(server[u], savepoint[y])
                   IN  q \in DOMAIN server'[u].savepoints /\ server'[u].savepoints[q] = server[u].savepoints[q]
        <4>1. MarkFound(y)
          BY <3>3 DEF TellInv, CallsTell, CallTells
        <4>2. Position(server[u], savepoint[y]) \in DOMAIN server[u].savepoints
          BY <3>1, <3>3, <4>1, MarkOf
        <4>3. CASE u = t
          BY <2>1, <4>2, <4>3, SavedTop
        <4>4. CASE u # t
          BY <1>6, <4>2, <4>4
        <4> QED
          BY <4>3, <4>4
      <3>4. server'[u].pending = server[u].pending
        BY <1>6, <2>2
      <3>5. \A y \in Handle : txState'[y] = "open" /\ tx'[y] = u =>
               \/ txState[y] = "open" /\ tx[y] = u /\ savepoint'[y] = savepoint[y]
               \/ Mark(y)' \subseteq server[u].pending /\ \A w \in AckedIn(u) : y \notin within[scope[w]]
        BY <1>1, <1>2, <1>8, <1>10, <2>3
      <3>6. \A w \in AckedIn(u) : within'[scope'[w]] = within[scope[w]] /\ (KeptSoFar(w) => KeptSoFar(w)')
        BY <1>1, <1>8, <1>9, <1>10
      <3>7. Undisturbed(x, u)
        BY <1>1, <1>2, <2>5, <3>1, <3>2, <3>3, <3>4, <3>5, <3>6 DEF Undisturbed
      <3> QED
        BY <3>7, TellsStay DEF TellInv
    <2>6. \A u \in Handle : server'[u].status = server[u].status /\ server'[u].pending = server[u].pending
      BY <1>6, <2>1, <2>2
    <2> QED
      BY <2>4, <2>5, <2>6
  <1>12. ASSUME ~ InCall(g)
         PROVE  /\ CallTells(h)'
                /\ \A x \in Handle \ {h} : txState[x] = "open" => CallTells(x)'
                /\ \A u \in Handle :
                      \/ u = h /\ server'[u].pending = {}
                      \/ server'[u].status = server[u].status /\ server'[u].pending = server[u].pending
    <2>1. t = h /\ server'[h] = NewTransaction /\ tx[h] = None
      BY <1>1, <1>6, <1>12 DEF t, IInv, HandleInv, HandleOK
    <2>2. \A x \in Handle : txState[x] = "open" => x # h /\ tx[x] \in Handle \ {h}
      BY <1>1, <2>1, NoneAssumption DEF IInv, HandleInv, HandleOK
    <2>3. /\ server'[h].pending = {} /\ tx'[h] = h /\ savepoint'[h] = 0
          /\ \A u \in Handle \ {h} : server'[u] = server[u]
      BY <1>1, <1>6, <1>12, <2>1 DEF NewTransaction
    <2>4. CallTells(h)'
      <3>1. MarkFound(h)' /\ Mark(h)' = {}
        BY <2>3 DEF MarkFound, Mark
      <3>2. \A y \in Handle : txState'[y] = "open" /\ tx'[y] = h => y = h
        BY <1>1, <1>2, <2>2
      <3>3. ~ (savepoint'[h] < savepoint'[h])
        BY <2>3
      <3> QED
        BY <2>3, <3>1, <3>2, <3>3 DEF CallTells
    <2>5. ASSUME NEW x \in Handle \ {h}, txState[x] = "open" PROVE CallTells(x)'
      <3>1. PICK u \in Handle \ {h} : u = tx[x]
        BY <2>2, <2>5
      <3>2. server'[u] = server[u] /\ (Running(u)' => Running(u))
        BY <2>3 DEF Running
      <3>3. ASSUME Running(u), NEW y \in Handle, txState[y] = "open", tx[y] = u, savepoint[y] # 0
            PROVE  Position(server[u], savepoint[y]) \in DOMAIN server[u].savepoints
        <4>1. MarkFound(y)
          BY <3>3 DEF TellInv, CallsTell, CallTells
        <4> QED
          BY <3>1, <3>3, <4>1, MarkOf
      <3>4. \A y \in Handle : txState'[y] = "open" /\ tx'[y] = u =>
               txState[y] = "open" /\ tx[y] = u /\ savepoint'[y] = savepoint[y]
        BY <1>1, <1>2, <2>3
      <3>5. \A w \in AckedIn(u) : within'[scope'[w]] = within[scope[w]] /\ (KeptSoFar(w) => KeptSoFar(w)')
        BY <1>1, <1>8, <1>9, <1>10
      <3>6. Undisturbed(x, u)
        BY <1>1, <1>2, <2>5, <3>1, <3>2, <3>3, <3>4, <3>5 DEF Undisturbed
      <3> QED
        BY <3>6, TellsStay DEF TellInv
    <2>6. \A u \in Handle : \/ u = h /\ server'[u].pending = {}
                            \/ server'[u].status = server[u].status /\ server'[u].pending = server[u].pending
      BY <2>3
    <2> QED
      BY <2>4, <2>5, <2>6
  <1>13. CallsTell'
    <2>1. \A x \in Handle \ {h} : txState'[x] = "open" => txState[x] = "open"
      BY <1>2
    <2>2. ASSUME NEW x \in Handle PROVE CallTells(x)'
      BY <1>11, <1>12, <2>1 DEF CallTells
    <2> QED
      BY <2>2 DEF CallsTell
  <1>14. \A u \in Handle : \/ u = h /\ server'[u].pending = {}
                           \/ server'[u].status = server[u].status /\ server'[u].pending = server[u].pending
    BY <1>11, <1>12
  <1>15. PendingKept'
    BY <1>9, <1>10, <1>14 DEF TellInv, PendingKept
  <1>16. UnfailedPending'
    <2> SUFFICES ASSUME NEW w \in acked, NEW u \in Handle, u = tx[via[w]], Running(u)', Unfailed(w)'
                 PROVE  w \in server'[u].pending
      BY <1>1, <1>8 DEF UnfailedPending, Running
    <2>1. u # h
      <3>1. via[w] \in Handle /\ txState[via[w]] # "none"
        BY <1>8 DEF IInv, HandleInv, HandleOK, TypeOK
      <3> QED
        BY <1>1, <1>8, <3>1, NoneAssumption DEF IInv, HandleInv, HandleOK
    <2>2. Unfailed(w)
      BY <1>1, <1>8 DEF Unfailed
    <2> QED
      BY <1>14, <2>1, <2>2 DEF TellInv, UnfailedPending, Running
  <1>17. CallsTellFateOfWrites'
    <2>1. \A w \in acked : \A x \in within[scope[w]] : savepoint'[x] = savepoint[x]
      BY <1>1, <1>8 DEF StackInv, CallTypeOK
    <2> QED
      BY <1>1, <1>8, <2>1 DEF TellInv, CallsTellFateOfWrites
  <1> QED
    BY <1>13, <1>15, <1>16, <1>17 DEF TellInv

\* The call that ends is the innermost of its sql.Tx.
LEMMA Innermost ==
    ASSUME IInv, StackInv, NEW g \in Goroutine, ReturnNil(g) \/ ReturnError(g)
    PROVE  LET c == Current(g)
               t == tx[c]
           IN  /\ c \in Handle /\ t \in Handle /\ txState[c] = "open" /\ outcome[c] = "none"
               /\ txState[t] = "open" /\ tx[t] = t /\ (savepoint[c] = 0 <=> c = t)
               /\ \A x \in Handle : txState[x] = "open" /\ tx[x] = t /\ x # c => savepoint[x] < savepoint[c]
               /\ txState'[c] = "closed"
               /\ \A x \in Handle \ {c} : txState'[x] = txState[x] /\ outcome'[x] = outcome[x]
               /\ UNCHANGED <<tx, savepoint, savepointSeq, inflight, via, acked, late, within, scope>>
  <1> DEFINE n == Len(frames[g])
             c == Current(g)
             t == frames[g][1]
  <1>1. /\ n \in Nat /\ n \in 1..n /\ c = frames[g][n] /\ c \in Handle
        /\ txState[c] = "open" /\ txState'[c] = "closed" /\ tx[c] = t
        /\ \A x \in Handle \ {c} : txState'[x] = txState[x] /\ outcome'[x] = outcome[x]
        /\ UNCHANGED <<tx, savepoint, savepointSeq, inflight, via, acked, late, within, scope>>
    BY TopFrame
  <1>2. InCall(g)
    BY DEF ReturnNil, ReturnError
  <1>3. /\ t \in Handle /\ tx[t] = t /\ (savepoint[c] = 0 <=> n = 1)
    BY <1>1, RootOfStack
  <1>4. 1 \in 1..n
    BY <1>1
  <1>5. txState[t] = "open"
    BY <1>4, RootOfStack
  <1>6. c = t <=> n = 1
    BY <1>1, <1>4, OneFrame
  <1>7. ASSUME NEW x \in Handle, txState[x] = "open", tx[x] = t, x # c PROVE savepoint[x] < savepoint[c]
    <2>1. x \in Stack(g)
      BY <1>2, <1>7, StackOfTx
    <2>2. PICK i \in 1..n : x = frames[g][i]
      BY <2>1, Frames DEF StackInv
    <2>3. i < n
      BY <1>1, <1>7, <2>2
    <2> QED
      BY <1>1, <2>2, <2>3 DEF StackInv, StacksOK, StackOK
  <1>8. outcome[c] = "none"
    BY <1>1 DEF IInv, HandleInv, HandleOK
  <1> HIDE DEF n, c, t
  <1>9. /\ c \in Handle /\ t \in Handle /\ txState[c] = "open" /\ outcome[c] = "none" /\ tx[c] = t
        /\ txState[t] = "open" /\ tx[t] = t /\ (savepoint[c] = 0 <=> c = t)
        /\ \A x \in Handle : txState[x] = "open" /\ tx[x] = t /\ x # c => savepoint[x] < savepoint[c]
        /\ txState'[c] = "closed"
        /\ \A x \in Handle \ {c} : txState'[x] = txState[x] /\ outcome'[x] = outcome[x]
        /\ UNCHANGED <<tx, savepoint, savepointSeq, inflight, via, acked, late, within, scope>>
    BY <1>1, <1>3, <1>5, <1>6, <1>7, <1>8
  <1> QED
    BY <1>9 DEF c

\* What ending call c does to its sql.Tx t, if that is still usable: everything
\* pending stays, or what came after c's savepoint goes, and the savepoints
\* before it remain.
Ends(c, t) ==
    /\ \A u \in Handle \ {t} : server'[u] = server[u]
    /\ Running(t)' =>
          /\ Running(t)
          /\ \A q \in DOMAIN server[t].savepoints : q < Position(server[t], savepoint[c]) =>
                q \in DOMAIN server'[t].savepoints /\ server'[t].savepoints[q] = server[t].savepoints[q]
          /\ \/ /\ Stands(c)' /\ server[t].status = "active"
                /\ server'[t].pending = server[t].pending
             \/ outcome'[c] = "rolled_back" /\ server'[t].pending = Mark(c)
             \/ server'[t].status = "aborted" /\ server'[t].pending = server[t].pending
    /\ \/ c # t /\ durable' = durable
       \/ /\ c = t /\ server[t].status = "active" /\ durable' = durable \cup server[t].pending
          /\ outcome'[c] \in {"committed", "commit_failed"}
       \/ c = t /\ durable' = durable /\ outcome'[c] # "committed"
    /\ outcome'[c] # "none"

\* ... of a nested call, whose savepoint is there as long as t is usable
LEMMA NestedEnds ==
    ASSUME IInv, NEW c \in Handle, NEW t \in Handle, t = tx[c],
           CommitNested(c) \/ RollbackNested(c), CallTells(c)
    PROVE  Ends(c, t)
  <1> DEFINE n == savepoint[c]
             p == Position(server[t], n)
  <1>1. /\ t \in Handle /\ t # c /\ server[t] \in Transaction /\ n \in Nat
        /\ HasSavepoint(server[t], n) => p \in DOMAIN server[t].savepoints
    BY NestedHandle DEF CommitNested, RollbackNested
  <1>2. Running(t) => HasSavepoint(server[t], n)
    BY DEF CallTells, MarkFound, CommitNested, RollbackNested
  <1>3. /\ outcome \in [Handle -> Outcome] /\ server \in [Handle -> Transaction] /\ n # 0 /\ durable' = durable
    BY DEF IInv, TypeOK, CommitNested, RollbackNested
  <1>4. CASE /\ CanRelease(server[t], n) /\ server' = [server EXCEPT ![t] = Released(server[t], n)]
             /\ outcome' = [outcome EXCEPT ![c] = "committed"]
    <2>1. server[t].status = "active" /\ p \in DOMAIN server[t].savepoints
      BY <1>1, <1>4 DEF CanRelease
    <2>2. /\ server'[t].pending = server[t].pending
          /\ DOMAIN server'[t].savepoints = 1..(p - 1)
          /\ \A i \in 1..(p - 1) : server'[t].savepoints[i] = server[t].savepoints[i]
      BY <1>1, <1>3, <1>4, <2>1, ReleasedFields
    <2>3. /\ \A u \in Handle \ {t} : server'[u] = server[u]
          /\ outcome'[c] = "committed"
      BY <1>3, <1>4
    <2>4. \A q \in DOMAIN server[t].savepoints : q < p => q \in 1..(p - 1)
      BY <1>1, <2>1 DEF Transaction
    <2>5. Running(t)
      BY <2>1 DEF Running
    <2> HIDE DEF p
    <2> QED
      BY <1>1, <1>3, <2>1, <2>2, <2>3, <2>4, <2>5 DEF Ends, Stands, p
  <1>5. CASE /\ CanRollbackTo(server[t], n) /\ server' = [server EXCEPT ![t] = RolledBackTo(server[t], n)]
             /\ outcome' = [outcome EXCEPT ![c] = "rolled_back"]
    <2>1. server[t].status \in {"active", "aborted"} /\ p \in DOMAIN server[t].savepoints
      BY <1>1, <1>5 DEF CanRollbackTo
    <2>2. /\ server'[t].pending = server[t].savepoints[p].mark
          /\ DOMAIN server'[t].savepoints = 1..p
          /\ \A i \in 1..p : server'[t].savepoints[i] = server[t].savepoints[i]
      BY <1>1, <1>3, <1>5, <2>1, RolledBackToFields
    <2>3. /\ \A u \in Handle \ {t} : server'[u] = server[u]
          /\ outcome'[c] = "rolled_back"
      BY <1>3, <1>5
    <2>4. \A q \in DOMAIN server[t].savepoints : q < p => q \in 1..p
      BY <1>1, <2>1 DEF Transaction
    <2>5. Mark(c) = server[t].savepoints[p].mark
      BY <1>3 DEF Mark
    <2>6. Running(t)
      BY <2>1 DEF Running
    <2> HIDE DEF p
    <2> QED
      BY <1>1, <1>3, <2>1, <2>2, <2>3, <2>4, <2>5, <2>6 DEF Ends, p
  <1>6. CASE /\ server[t].status # "active" /\ server' = [server EXCEPT ![t] = Failed(server[t])]
             /\ \E result \in {"commit_failed", "rollback_failed"} : outcome' = [outcome EXCEPT ![c] = result]
    <2>1. /\ server'[t].pending = server[t].pending /\ server'[t].savepoints = server[t].savepoints
          /\ server'[t].status = server[t].status
          /\ \A u \in Handle \ {t} : server'[u] = server[u]
      BY <1>1, <1>3, <1>6, FailedFields
    <2>2. outcome'[c] # "none"
      BY <1>3, <1>6
    <2> HIDE DEF p
    <2> QED
      BY <1>1, <1>3, <1>6, <2>1, <2>2 DEF Ends, Running, p
  <1>9. CASE /\ server' = server /\ server[t].status \in {"active", "aborted"}
             /\ \E result \in Unsent : outcome' = [outcome EXCEPT ![c] = result]
    <2>1. outcome'[c] \in Unsent /\ outcome'[c] # "none"
      BY <1>3, <1>9 DEF Unsent
    <2>2. savepoint'[c] # 0
      BY <1>3 DEF CommitNested, RollbackNested, Finish
    <2> HIDE DEF p
    <2> QED
      BY <1>1, <1>3, <1>9, <2>1, <2>2 DEF Ends, Stands, Running, p
  <1>7. ~ CanRelease(server[t], n) => server[t].status # "active"
    BY <1>2 DEF CanRelease, Running
  <1>8. ~ CanRollbackTo(server[t], n) => server[t].status # "active"
    BY <1>2 DEF CanRollbackTo, Running
  <1> QED
    BY <1>4, <1>5, <1>6, <1>7, <1>8, <1>9 DEF CommitNested, RollbackNested, Finish, Unsent

\* ... of the outermost call, which ends t
LEMMA RootEnds ==
    ASSUME IInv, NEW c \in Handle, CommitRoot(c) \/ RollbackRoot(c)
    PROVE  Ends(c, c)
  <1>1. /\ outcome \in [Handle -> Outcome] /\ server \in [Handle -> Transaction]
    BY DEF IInv, TypeOK
  <1>2. /\ server'[c].status = "ended"
        /\ \A u \in Handle \ {c} : server'[u] = server[u]
    BY <1>1 DEF CommitRoot, RollbackRoot, Published, Discarded
  <1>3. /\ \/ /\ server[c].status = "active" /\ durable' = durable \cup server[c].pending
              /\ outcome'[c] \in {"committed", "commit_failed"}
           \/ durable' = durable /\ outcome'[c] # "committed"
        /\ outcome'[c] # "none"
    BY <1>1 DEF CommitRoot, RollbackRoot, Finish
  <1>4. ~ Running(c)'
    BY <1>2 DEF Running
  <1> QED
    BY <1>2, <1>3, <1>4 DEF Ends, Running

\* A call returns: what is pending afterwards is of no call that undid it, and what
\* becomes durable is what every call it was made in let stand.
LEMMA ReturnTells ==
    ASSUME IInv, IInv', StackInv, TellInv, NEW g \in Goroutine, ReturnNil(g) \/ ReturnError(g)
    PROVE  TellInv'
  <1>0. PICK c \in Handle : c = Current(g)
    BY Innermost
  <1>a. PICK t \in Handle : t = tx[c]
    BY <1>0, Innermost
  <1>1. /\ txState[c] = "open" /\ outcome[c] = "none" /\ tx[c] = t
        /\ txState[t] = "open" /\ tx[t] = t /\ (savepoint[c] = 0 <=> c = t)
        /\ \A x \in Handle : txState[x] = "open" /\ tx[x] = t /\ x # c => savepoint[x] < savepoint[c]
        /\ txState'[c] = "closed"
        /\ \A x \in Handle \ {c} : txState'[x] = txState[x] /\ outcome'[x] = outcome[x]
        /\ UNCHANGED <<tx, savepoint, via, acked, within, scope>>
    BY <1>0, <1>a, Innermost
  <1>b. CallTells(c) /\ CallsTell /\ PendingKept /\ UnfailedPending /\ CallsTellFateOfWrites
    BY DEF TellInv, CallsTell
  <1>2. Ends(c, t)
    <2>1. CASE CommitNested(c) \/ RollbackNested(c)
      BY <1>a, <1>b, <2>1, NestedEnds
    <2>2. CASE CommitRoot(c) \/ RollbackRoot(c)
      <3>1. c = t
        BY <1>1, <2>2 DEF CommitRoot, RollbackRoot
      <3> QED
        BY <2>2, <3>1, RootEnds
    <2> QED
      BY <1>0, <2>1, <2>2 DEF ReturnNil, ReturnError, Commit, Rollback
  <1>3. \A w \in acked : \E u \in Handle : w \in AckedIn(u)
    BY DEF IInv, TypeOK, WriteInv, HandleInv, HandleOK, AckedIn
  <1>4. \A u \in Handle \ {t} : \A w \in AckedIn(u) : c \notin within[scope[w]]
    BY <1>1, Owner
  <1>5. \A w \in acked : KeptSoFar(w) /\ c \notin within[scope[w]] => KeptSoFar(w)'
    <2> SUFFICES ASSUME NEW w \in acked, KeptSoFar(w), c \notin within[scope[w]]
                 PROVE  KeptSoFar(w)'
      OBVIOUS
    <2>1. \A x \in within[scope[w]] : x \in Handle \ {c}
      BY <1>3, Owner
    <2> QED
      BY <1>1, <2>1, KeptStays
  <1>6. \A u \in Handle : server[u].pending \subseteq AckedIn(u) /\ AckedIn(u) \subseteq acked
    BY DEF IInv, WriteInv, AckedIn
  <1>7. CallsTell'
    <2> SUFFICES ASSUME NEW h \in Handle \ {c}, txState[h] = "open" PROVE CallTells(h)'
      BY <1>1 DEF CallsTell, CallTells
    <2>1. PICK u \in Handle : u = tx[h]
      BY DEF IInv, HandleInv, HandleOK
    <2>2. /\ \A y \in Handle : txState'[y] = "open" => txState[y] = "open" /\ y # c
          /\ \A w \in AckedIn(u) : within'[scope'[w]] = within[scope[w]]
      BY <1>1
    <2>3. ASSUME Running(u), NEW y \in Handle, txState[y] = "open", tx[y] = u, savepoint[y] # 0
          PROVE  MarkFound(y) /\ Position(server[u], savepoint[y]) \in DOMAIN server[u].savepoints
      <3>1. MarkFound(y)
        BY <2>3 DEF TellInv, CallsTell, CallTells
      <3> QED
        BY <2>1, <2>3, <3>1, MarkOf
    <2>4. CASE u # t
      <3>1. server'[u] = server[u] /\ (Running(u)' => Running(u))
        BY <1>2, <2>4 DEF Ends, Running
      <3>2. \A w \in AckedIn(u) : KeptSoFar(w) => KeptSoFar(w)'
        BY <1>4, <1>5, <1>6, <2>4
      <3>3. Undisturbed(h, u)
        BY <1>1, <2>1, <2>2, <2>3, <3>1, <3>2 DEF Undisturbed
      <3> QED
        BY <1>b, <3>3, TellsStay
    <2>5. CASE u = t
      <3>1. savepoint[h] < savepoint[c] /\ savepoint[h] \in Nat /\ savepoint[c] \in Nat
        BY <1>1, <2>1, <2>5 DEF IInv, TypeOK
      <3>2. Running(t)' => Running(t)
        BY <1>2 DEF Ends
      <3>3. ASSUME Running(t)', NEW y \in Handle \ {c}, txState[y] = "open", tx[y] = t, savepoint[y] # 0
            PROVE  LET q == Position(server[t], savepoint[y])
                   IN  q \in DOMAIN server'[t].savepoints /\ server'[t].savepoints[q] = server[t].savepoints[q]
        <4>1. MarkFound(y) /\ Position(server[t], savepoint[y]) \in DOMAIN server[t].savepoints
          BY <2>3, <2>5, <3>2, <3>3
        <4>2. MarkFound(c)
          BY <1>1, <1>b, <3>2, <3>3 DEF CallTells
        <4>3. Position(server[t], savepoint[y]) < Position(server[t], savepoint[c])
          BY <1>1, <3>3, <4>1, <4>2, LowerPosition
        <4> QED
          BY <1>2, <3>3, <4>1, <4>3 DEF Ends
      <3>4. Running(t)' => server'[t].pending = server[t].pending \/ server'[t].pending = Mark(c)
        BY <1>2 DEF Ends
      <3>5. ASSUME NEW w \in AckedIn(t), KeptSoFar(w),
                   \A y \in Handle :
                      txState[y] = "open" /\ tx[y] = t /\ savepoint[h] <= savepoint[y] /\ txState'[y] # "open"
                         => y \notin within[scope[w]]
            PROVE  KeptSoFar(w)'
        <4>1. savepoint[h] <= savepoint[c] /\ txState'[c] # "open"
          BY <1>1, <3>1
        <4>2. c \notin within[scope[w]]
          BY <1>1, <3>5, <4>1
        <4> QED
          BY <1>5, <1>6, <3>5, <4>2
      <3>6. Undisturbed(h, t)
        BY <1>1, <2>1, <2>2, <2>5, <3>1, <3>2, <3>3, <3>4, <3>5 DEF Undisturbed
      <3> QED
        BY <1>b, <3>6, TellsStay
    <2> QED
      BY <2>4, <2>5
  <1>8. PendingKept'
    <2> SUFFICES ASSUME NEW u \in Handle, server'[u].status = "active", NEW w \in server'[u].pending
                 PROVE  KeptSoFar(w)'
      BY DEF PendingKept
    <2>1. CASE u # t
      BY <1>2, <1>4, <1>5, <1>6, <1>b, <2>1 DEF Ends, PendingKept
    <2>2. CASE u = t
      <3>1. Running(t)' /\ server'[t].status # "aborted"
        BY <2>2 DEF Running
      <3>2. Running(t)
        BY <1>2, <3>1 DEF Ends
      <3>3. CASE Stands(c)' /\ server[t].status = "active" /\ server'[t].pending = server[t].pending
        <4>1. KeptSoFar(w) /\ w \in AckedIn(t)
          BY <1>6, <1>b, <2>2, <3>3 DEF PendingKept
        <4>2. \A x \in within[scope[w]] : x \in Handle
          BY <4>1, Owner
        <4> QED
          BY <1>1, <3>3, <4>1, <4>2 DEF KeptSoFar, Stands
      <3>4. CASE server'[t].pending = Mark(c)
        <4>1. KeptSoFar(w)
          BY <1>1, <1>b, <2>2, <3>2, <3>4 DEF CallTells
        <4>2. savepoint[c] <= savepoint[c]
          BY DEF IInv, TypeOK
        <4>3. c \notin within[scope[w]]
          BY <1>1, <1>b, <2>2, <3>2, <3>4, <4>2 DEF CallTells
        <4>4. w \in acked
          BY <1>1, <2>2 DEF IInv, WriteInv, AckedIn
        <4> QED
          BY <1>1, <1>5, <4>1, <4>3, <4>4
      <3> QED
        BY <1>2, <3>1, <3>3, <3>4 DEF Ends
    <2> QED
      BY <2>1, <2>2
  <1>9. ASSUME NEW w \in acked, Unfailed(w)' PROVE Unfailed(w) /\ (c \in within[scope[w]] => outcome'[c] = "committed")
    <2>1. \A x \in within[scope[w]] : x \in Handle
      BY <1>3, Owner
    <2>2. outcome'[c] # "none"
      BY <1>2 DEF Ends
    <2> QED
      BY <1>1, <1>9, <2>1, <2>2 DEF Unfailed
  <1>10. UnfailedPending'
    <2> SUFFICES ASSUME NEW w \in acked, NEW u \in Handle, u = tx[via[w]], Running(u)', Unfailed(w)'
                 PROVE  w \in server'[u].pending
      BY <1>1, <1>3 DEF UnfailedPending, Running, AckedIn
    <2>1. CASE u # t
      BY <1>2, <1>9, <1>b, <2>1 DEF Ends, Running, UnfailedPending
    <2>2. CASE u = t
      <3>1. Running(t)
        BY <1>2, <2>2 DEF Ends
      <3>2. w \in server[t].pending
        BY <1>9, <1>b, <2>2, <3>1 DEF UnfailedPending
      <3>3. CASE outcome'[c] = "rolled_back" /\ server'[t].pending = Mark(c)
        <4>1. c \notin within[scope[w]]
          BY <1>9, <3>3
        <4> QED
          BY <1>1, <1>b, <2>2, <3>1, <3>2, <3>3, <4>1 DEF CallTells
      <3> QED
        BY <1>2, <2>2, <3>2, <3>3 DEF Ends
    <2> QED
      BY <2>1, <2>2
  <1>11. CallsTellFateOfWrites'
    <2> SUFFICES ASSUME NEW w \in acked
                 PROVE  /\ (\A x \in within[scope[w]] : outcome'[x] = "committed") => w \in durable'
                        /\ w \in durable' =>
                              \A x \in within[scope[w]] : Stands(x)' \/ RootUnsure(x)'
      BY <1>1 DEF CallsTellFateOfWrites, Stands, RootUnsure
    <2>1. PICK u \in Handle : w \in AckedIn(u)
      BY <1>3
    <2>2. /\ u \in within[scope[w]]
          /\ \A x \in within[scope[w]] : x \in Handle /\ tx[x] = u /\ txState[x] \in {"open", "closed"}
      BY <2>1, Owner
    <2>3. /\ (\A x \in within[scope[w]] : outcome[x] = "committed") => w \in durable
          /\ w \in durable =>
                \A x \in within[scope[w]] : Stands(x) \/ RootUnsure(x)
      BY <1>b DEF CallsTellFateOfWrites, Stands, RootUnsure
    <2>4. CASE c \notin within[scope[w]]
      <3>1. \A x \in within[scope[w]] : outcome'[x] = outcome[x]
        BY <1>1, <2>2, <2>4
      <3>2. t # u => w \notin server[t].pending
        BY <1>6, <2>1 DEF AckedIn
      <3>3. c # u
        BY <2>2, <2>4
      <3>4. w \in durable' <=> w \in durable
        BY <1>2, <3>2, <3>3 DEF Ends
      <3> QED
        BY <1>1, <2>3, <3>1, <3>4 DEF Stands, RootUnsure
    <2>5. CASE c \in within[scope[w]]
      <3>1. u = t /\ w \notin durable
        BY <1>1, <2>2, <2>3, <2>5 DEF Stands, RootUnsure, Unsent
      <3>2. CASE c # t /\ durable' = durable
        <4>1. outcome'[t] = "none"
          BY <1>1, <3>2 DEF IInv, HandleInv, HandleOK
        <4> QED
          BY <2>2, <3>1, <3>2, <4>1
      <3>3. CASE /\ c = t /\ server[t].status = "active" /\ durable' = durable \cup server[t].pending
                 /\ outcome'[c] \in {"committed", "commit_failed"}
        <4>1. ASSUME \A x \in within[scope[w]] : outcome'[x] = "committed" PROVE w \in durable'
          <5>1. Unfailed(w)
            BY <1>1, <2>2, <4>1 DEF Unfailed
          <5>2. Running(t) /\ tx[via[w]] = t
            BY <2>1, <3>1, <3>3 DEF Running, AckedIn
          <5> QED
            BY <1>b, <3>3, <5>1, <5>2 DEF UnfailedPending
        <4>2. ASSUME w \in durable', NEW x \in within[scope[w]]
              PROVE  Stands(x)' \/ RootUnsure(x)'
          <5>1. CASE x = c
            BY <1>1, <3>3, <5>1 DEF Stands, RootUnsure
          <5>2. CASE x # c
            <6>1. KeptSoFar(w)
              BY <1>b, <3>1, <3>3, <4>2 DEF PendingKept
            <6>2. x \in Handle /\ savepoint[x] \in Nat /\ savepoint[c] = 0
              BY <1>1, <2>2, <3>3 DEF IInv, TypeOK
            <6>3. txState[x] = "closed"
              BY <1>1, <2>2, <3>1, <5>2, <6>2
            <6> QED
              BY <1>1, <5>2, <6>1, <6>2, <6>3 DEF KeptSoFar, Stands
          <5> QED
            BY <5>1, <5>2
        <4> QED
          BY <4>1, <4>2
      <3>4. CASE c = t /\ durable' = durable /\ outcome'[c] # "committed"
        BY <2>5, <3>1, <3>4
      <3> QED
        BY <1>2, <3>2, <3>3, <3>4 DEF Ends
    <2> QED
      BY <2>4, <2>5
  <1> QED
    BY <1>7, <1>8, <1>10, <1>11 DEF TellInv

-----------------------------------------------------------------------------
\* Every step preserves the invariant.

LEMMA CallInitInv == CallInit => CallIInv
  <1> SUFFICES ASSUME CallInit PROVE CallIInv
    OBVIOUS
  <1>1. IInv /\ StackInv
    BY InitInv, StacksStart DEF CallInit
  <1>2. CallsTell
    BY DEF CallInit, Init, CallsTell, CallTells
  <1>3. PendingKept /\ UnfailedPending /\ CallsTellFateOfWrites
    BY DEF CallInit, Init, NoTransaction, PendingKept, UnfailedPending, CallsTellFateOfWrites
  <1> QED
    BY <1>1, <1>2, <1>3 DEF CallIInv, TellInv

LEMMA CallNextInv == CallIInv /\ [CallNext]_allVars => CallIInv'
  <1> SUFFICES ASSUME IInv, StackInv, TellInv, [CallNext]_allVars PROVE CallIInv'
    BY DEF CallIInv
  <1>1. IInv'
    BY CallIsStep, NextInv DEF StackInv
  <1>2. StackInv'
    BY StacksKept
  <1>w. \A w \in acked : w \in Write /\ via[w] # None /\ via[w] \in Handle /\ tx[via[w]] \in Handle
    BY DEF IInv, TypeOK, WriteInv, HandleInv, HandleOK
  <1>3. ASSUME NEW g \in Goroutine, NEW h \in Handle, Call(g, h) PROVE TellInv'
    BY <1>1, <1>3, CallTellsInv
  <1>4. ASSUME NEW g \in Goroutine, CallFails(g) PROVE TellInv'
    <2>1. UNCHANGED <<within, scope, txState, tx, savepoint, server, outcome, durable, via, acked>>
      BY <1>4 DEF CallFails, BeginNestedFails, callVars, statementVars
    <2> QED
      BY <1>1, <2>1, QuietTells DEF Running
  <1>5. ASSUME NEW g \in Goroutine, NEW x \in Write, Statement(g, x) PROVE TellInv'
    <2>1. /\ via[x] = None
          /\ \A w \in acked : scope'[w] = scope[w] /\ via'[w] = via[w]
          /\ UNCHANGED <<within, txState, tx, savepoint, server, outcome, durable, acked>>
      BY <1>5, <1>w DEF Statement, ExecCheck, handleVars, IInv, TypeOK, StackInv, CallTypeOK
    <2> QED
      BY <1>1, <2>1, QuietTells DEF Running
  <1>6. ASSUME NEW w \in Write, StatementSucceeds(w) PROVE TellInv'
    BY <1>1, <1>6, SucceedsTells
  <1>7. ASSUME NEW w \in Write, StatementFails(w) PROVE TellInv'
    <2>1. PICK t \in Handle : t = tx[via[w]]
      BY <1>7 DEF StatementFails, ExecFails, IInv, TypeOK, WriteInv, HandleInv, HandleOK
    <2>2. /\ server' = [server EXCEPT ![t] = Failed(server[t])] \/ server' = server
          /\ UNCHANGED <<within, scope, txState, tx, savepoint, outcome, durable, via, acked>>
      BY <1>7, <2>1 DEF StatementFails, ExecFails, handleVars, callVars
    <2>3. /\ server'[t].pending = server[t].pending /\ server'[t].savepoints = server[t].savepoints
          /\ \/ server'[t].status = IF server[t].status = "active" THEN "aborted" ELSE server[t].status
             \/ server'[t].status = server[t].status
          /\ \A u \in Handle \ {t} : server'[u] = server[u]
      BY <2>2, FailedFields DEF IInv, TypeOK
    <2> QED
      BY <1>1, <2>2, <2>3, QuietTells DEF Running
  <1>8. ASSUME NEW g \in Goroutine, ReturnNil(g) \/ ReturnError(g) PROVE TellInv'
    BY <1>1, <1>8, ReturnTells
  <1>9. ASSUME NEW t \in Handle, CallFault(t) PROVE TellInv'
    <2>1. /\ server'[t].status \in {"lost", "ended"}
          /\ \A u \in Handle \ {t} : server'[u] = server[u]
          /\ UNCHANGED <<within, scope, txState, tx, savepoint, outcome, durable, via, acked>>
      BY <1>9 DEF CallFault, ConnectionLost, ContextDone, Broken, Discarded, handleVars, statementVars,
                  callVars, IInv, TypeOK
    <2> QED
      BY <1>1, <2>1, QuietTells DEF Running
  <1>10. ASSUME UNCHANGED allVars PROVE TellInv'
    BY <1>1, <1>10, QuietTells DEF allVars, callVars, vars, Running
  <1> QED
    BY <1>1, <1>2, <1>3, <1>4, <1>5, <1>6, <1>7, <1>8, <1>9, <1>10 DEF CallNext, CallIInv

-----------------------------------------------------------------------------
\* Theorems

\* The inductive invariant holds in every reachable state.
LEMMA CallInvariance == CallSpec => []CallIInv
  BY CallInitInv, CallNextInv, PTL DEF CallSpec

\* The stacks of the goroutines hold handles, and every write has its scope.
THEOREM CallTypesCorrect == CallSpec => []CallTypeOK
  <1>1. CallIInv => CallTypeOK
    BY DEF CallIInv, StackInv
  <1>2. QED
    BY <1>1, CallInvariance, PTL

\* What the calls report tells the fate of the writes made in them: durable when
\* every call returned nil, and durable only when every call that returned an
\* error is a root whose COMMIT failed or a nested call whose RELEASE or ROLLBACK
\* TO was not sent, whatever failed, was swallowed or was rolled back on the way.
THEOREM CallOutcomesTellTheTruth == CallSpec => []CallsTellFateOfWrites
  <1>1. CallIInv => CallsTellFateOfWrites
    BY DEF CallIInv, TellInv
  <1>2. QED
    BY <1>1, CallInvariance, PTL

\* A transaction is open only under a Transaction call that has not returned.
THEOREM CallsGiveTheirConnectionBack == CallSpec => []ReturnedCallsHoldNoConnection
  <1>1. ASSUME CallIInv, NEW t \in Handle, Live(server[t]) PROVE \E g \in Goroutine : t \in Stack(g)
    <2>1. tx[t] = t /\ txState[t] # "none"
      BY <1>1, NoneAssumption DEF CallIInv, IInv, HandleInv, HandleOK, Live
    <2>2. txState[t] = "open"
      BY <1>1, <2>1 DEF CallIInv, IInv, TypeOK, ClosedRootReleasesConnection, Live
    <2> QED
      BY <1>1, <2>2 DEF CallIInv, StackInv, OpenIsOnStack
  <1>2. CallIInv => ReturnedCallsHoldNoConnection
    BY <1>1 DEF ReturnedCallsHoldNoConnection
  <1>3. QED
    BY <1>2, CallInvariance, PTL

\* The savepoint that RELEASE or ROLLBACK TO of the current call names exists.
THEOREM CurrentCallFindsItsSavepoint == CallSpec => []CurrentSavepointExists
  <1>1. ASSUME CallIInv, NEW g \in Goroutine, InCall(g), savepoint[Current(g)] # 0,
               server[tx[Current(g)]].status \in {"active", "aborted"}
        PROVE  HasSavepoint(server[tx[Current(g)]], savepoint[Current(g)])
    <2>1. PICK c \in Handle : c = Current(g) /\ txState[c] = "open"
      BY <1>1, Frames DEF CallIInv, StackInv, StacksOK, StackOK, Current
    <2>2. CallTells(c) /\ Running(tx[c])
      BY <1>1, <2>1 DEF CallIInv, TellInv, CallsTell, Running
    <2> QED
      BY <1>1, <2>1, <2>2 DEF CallTells, MarkFound
  <1>2. CallIInv => CurrentSavepointExists
    BY <1>1 DEF CurrentSavepointExists
  <1>3. QED
    BY <1>2, CallInvariance, PTL

-----------------------------------------------------------------------------
(* db.Transaction(ctx, fn) implements NestedTransactions: each step of the *)
(* calls on their savepoints is a step of nested scopes, or changes        *)
(* nothing that can be seen of them.                                       *)
(*                                                                         *)
(* The mapping reads a scope's own writes off the savepoints on the        *)
(* server.  The proof first shows that they are the pending writes made in *)
(* this call and in no open call inside it (OwnWritesAreMine), so that the *)
(* steps can be followed without looking at savepoints again.              *)

\* A mark holds nothing but what is pending and what later marks hold.
NestedMarks(s) ==
    \A i \in DOMAIN s.savepoints :
        /\ s.savepoints[i].mark \subseteq s.pending
        /\ \A j \in DOMAIN s.savepoints : i < j => s.savepoints[i].mark \subseteq s.savepoints[j].mark

MarksNested == \A t \in Handle : NestedMarks(server[t])

RefinementInv == CallIInv /\ MarksNested

-----------------------------------------------------------------------------
\* Marks are nested, whatever the server is asked to do.

LEMMA SameMarks ==
    ASSUME NEW s, NEW r, NestedMarks(s), r.pending = s.pending, r.savepoints = s.savepoints
    PROVE  NestedMarks(r)
  BY DEF NestedMarks

LEMMA EmptyMarks == ASSUME NEW r, r.savepoints = <<>> PROVE NestedMarks(r)
  BY DEF NestedMarks

LEMMA SavedMarks ==
    ASSUME NEW s \in Transaction, NEW n \in Nat, NestedMarks(s)
    PROVE  NestedMarks(Saved(s, n))
  <1> DEFINE r == Saved(s, n)
  <1>1. /\ r.pending = s.pending
        /\ DOMAIN s.savepoints \subseteq Nat /\ DOMAIN r.savepoints \subseteq Nat
        /\ \A i \in DOMAIN r.savepoints :
              \/ i \in DOMAIN s.savepoints /\ r.savepoints[i] = s.savepoints[i]
              \/ /\ i \notin DOMAIN s.savepoints
                 /\ \A j \in DOMAIN r.savepoints : j <= i
                 /\ r.savepoints[i].mark = s.pending
    BY SavedFields
  <1> HIDE DEF r
  <1> SUFFICES ASSUME NEW i \in DOMAIN r.savepoints
               PROVE  /\ r.savepoints[i].mark \subseteq s.pending
                      /\ \A j \in DOMAIN r.savepoints : i < j => r.savepoints[i].mark \subseteq r.savepoints[j].mark
    BY <1>1 DEF NestedMarks, r
  <1>2. CASE i \in DOMAIN s.savepoints /\ r.savepoints[i] = s.savepoints[i]
    BY <1>1, <1>2 DEF NestedMarks
  <1>3. CASE /\ \A j \in DOMAIN r.savepoints : j <= i
             /\ r.savepoints[i].mark = s.pending
    BY <1>1, <1>3
  <1> QED
    BY <1>1, <1>2, <1>3

LEMMA PrefixMarks ==
    ASSUME NEW s, NestedMarks(s), NEW r, NEW D, D \subseteq DOMAIN s.savepoints,
           DOMAIN r.savepoints = D, \A i \in D : r.savepoints[i] = s.savepoints[i],
           \A i \in D : s.savepoints[i].mark \subseteq r.pending
    PROVE  NestedMarks(r)
  BY DEF NestedMarks

LEMMA MarksStayNested == ASSUME IInv, MarksNested, [Next]_vars PROVE MarksNested'
  <1> USE DEF MarksNested
  <1>1. server \in [Handle -> Transaction] /\ savepointSeq + 1 \in Nat
    BY MaxSavepointAssumption DEF IInv, TypeOK
  <1>2. \A s \in Transaction :
           /\ Failed(s).pending = s.pending /\ Failed(s).savepoints = s.savepoints
           /\ Published(s).savepoints = <<>> /\ Discarded(s).savepoints = <<>> /\ Broken(s).savepoints = <<>>
    BY FailedFields DEF Published, Discarded, Broken
  <1>3. \A s \in Transaction : NestedMarks(s) =>
           NestedMarks(Failed(s)) /\ NestedMarks(Published(s)) /\ NestedMarks(Discarded(s)) /\ NestedMarks(Broken(s))
    BY <1>2, SameMarks, EmptyMarks
  <1>4. ASSUME NEW h \in Handle, BeginRoot(h) PROVE MarksNested'
    <2>1. NestedMarks(NewTransaction)
      BY EmptyMarks DEF NewTransaction
    <2> QED
      BY <1>1, <1>4, <2>1 DEF BeginRoot
  <1>5. ASSUME NEW p \in Handle, NEW h \in Handle, BeginNested(p, h) PROVE MarksNested'
    BY <1>1, <1>5, SavedMarks DEF BeginNested
  <1>6. ASSUME NEW w \in Write, ExecRun(w) PROVE MarksNested'
    <2>1. \A s \in Transaction : NestedMarks(s) => NestedMarks(Inserted(s, w))
      BY InsertedFields DEF NestedMarks
    <2> QED
      BY <1>1, <1>6, <2>1 DEF ExecRun
  <1>7. ASSUME NEW w \in Write, ExecFails(w) PROVE MarksNested'
    BY <1>1, <1>3, <1>7 DEF ExecFails
  <1>8. ASSUME NEW h \in Handle, CommitNested(h) \/ RollbackNested(h) PROVE MarksNested'
    <2> DEFINE t == tx[h]
               n == savepoint[h]
    <2>1. HasSavepoint(server[t], n) => Position(server[t], n) \in DOMAIN server[t].savepoints
      BY <1>8, NestedHandle DEF CommitNested, RollbackNested
    <2>2. t \in Handle
      BY <1>8, NestedHandle DEF CommitNested, RollbackNested
    <2>3. ASSUME HasSavepoint(server[t], n)
          PROVE  NestedMarks(Released(server[t], n)) /\ NestedMarks(RolledBackTo(server[t], n))
      <3>1. NestedMarks(server[t]) /\ server[t] \in Transaction
        BY <1>1, <2>2
      <3> DEFINE u == server[t]
                 p == Position(server[t], n)
                 r == Released(server[t], n)
                 b == RolledBackTo(server[t], n)
      <3>2. p \in DOMAIN u.savepoints /\ u.savepoints \in Seq(Savepoint)
        BY <2>1, <2>3, <3>1 DEF Transaction
      <3>3. r.pending = u.pending /\ DOMAIN r.savepoints = 1..(p - 1)
            /\ \A i \in 1..(p - 1) : r.savepoints[i] = u.savepoints[i]
        BY <3>1, <3>2, ReleasedFields
      <3>4. b.pending = u.savepoints[p].mark /\ DOMAIN b.savepoints = 1..p
            /\ \A i \in 1..p : b.savepoints[i] = u.savepoints[i]
        BY <3>1, <3>2, RolledBackToFields
      <3> HIDE DEF u, p, r, b
      <3>5. 1..(p - 1) \subseteq DOMAIN u.savepoints /\ 1..p \subseteq DOMAIN u.savepoints
            /\ \A i \in 1..p : i < p \/ i = p
        BY <3>2
      <3>6. NestedMarks(u)
        BY <3>1 DEF u
      <3>7. \A i \in 1..(p - 1) : u.savepoints[i].mark \subseteq r.pending
        BY <3>3, <3>5, <3>6 DEF NestedMarks
      <3>8. \A i \in 1..p : u.savepoints[i].mark \subseteq b.pending
        BY <3>2, <3>4, <3>5, <3>6 DEF NestedMarks
      <3>9. NestedMarks(r)
        BY <3>3, <3>5, <3>6, <3>7, PrefixMarks
      <3>10. NestedMarks(b)
        BY <3>4, <3>5, <3>6, <3>8, PrefixMarks
      <3> QED
        BY <3>9, <3>10 DEF r, b
    <2> QED
      BY <1>1, <1>3, <1>8, <2>2, <2>3 DEF CommitNested, RollbackNested, CanRelease, CanRollbackTo
  <1>9. ASSUME NEW h \in Handle, CommitRoot(h) \/ RollbackRoot(h) PROVE MarksNested'
    BY <1>1, <1>3, <1>9 DEF CommitRoot, RollbackRoot
  <1>10. ASSUME NEW t \in Handle, ConnectionLost(t) \/ ContextDone(t) PROVE MarksNested'
    BY <1>1, <1>3, <1>10 DEF ConnectionLost, ContextDone
  <1>11. CASE UNCHANGED server
    BY <1>11
  <1> QED
    BY <1>4, <1>5, <1>6, <1>7, <1>8, <1>9, <1>10, <1>11
       DEF Next, vars, BeginNestedFails, ExecCheck

LEMMA RefinementInvariance == CallSpec => []RefinementInv
  <1>1. CallInit => RefinementInv
    <2>1. CallInit => MarksNested
      BY EmptyMarks DEF CallInit, Init, MarksNested, NoTransaction
    <2> QED
      BY <2>1, CallInitInv DEF RefinementInv
  <1>2. RefinementInv /\ [CallNext]_allVars => RefinementInv'
    BY CallNextInv, CallIsStep, MarksStayNested DEF RefinementInv, CallIInv, StackInv
  <1> QED
    BY <1>1, <1>2, PTL DEF CallSpec

-----------------------------------------------------------------------------
\* Scopes.  The open calls of a sql.Tx are a chain in the order of their
\* savepoints, and a scope is within itself and those before it.

LEMMA Chain ==
    ASSUME IInv, StackInv, NEW s \in Handle, txState[s] = "open"
    PROVE  /\ \A x \in within[s] : x \in Handle /\ txState[x] = "open" /\ tx[x] = tx[s]
           /\ \A x \in Handle : txState[x] = "open" /\ tx[x] = tx[s] =>
                 /\ x \in within[s] <=> savepoint[x] <= savepoint[s]
                 /\ savepoint[x] = savepoint[s] => x = s
                 /\ savepoint[x] \in Nat
           /\ s \in within[s] /\ savepoint[s] \in Nat
           /\ tx[s] \in Handle /\ server[tx[s]] \in Transaction /\ server[tx[s]].status # "none"
  <1>1. PICK g \in Goroutine : s \in Stack(g)
    BY DEF StackInv, OpenIsOnStack
  <1> DEFINE f == frames[g]
             n == Len(frames[g])
  <1>2. PICK j \in 1..n : s = f[j]
    BY <1>1, Frames DEF StackInv
  <1>3. /\ n \in Nat /\ InCall(g) /\ Stack(g) = {f[i] : i \in 1..n} /\ \A i \in 1..n : f[i] \in Handle
        /\ tx[s] = f[1]
    <2>1. CallTypeOK /\ StackOK(g)
      BY DEF StackInv, StacksOK
    <2> QED
      BY <1>2, <2>1, Frames DEF StackOK, InCall
  <1>4. \A i \in 1..n : txState[f[i]] = "open" /\ tx[f[i]] = f[1] /\ savepoint[f[i]] \in Nat
    BY <1>3 DEF StackInv, StacksOK, StackOK, IInv, TypeOK
  <1>5. within[s] = {f[k] : k \in 1..j}
    BY <1>2 DEF StackInv, StacksOK, StackOK
  <1>6. \A i \in 1..n, k \in 1..n : i < k => savepoint[f[i]] < savepoint[f[k]]
    BY DEF StackInv, StacksOK, StackOK
  <1> HIDE DEF f, n
  <1>7. \A i \in 1..j : i \in 1..n
    BY <1>2, <1>3
  <1>8. ASSUME NEW x \in Handle, txState[x] = "open", tx[x] = tx[s]
        PROVE  /\ x \in within[s] <=> savepoint[x] <= savepoint[s]
               /\ savepoint[x] = savepoint[s] => x = s
               /\ savepoint[x] \in Nat
    <2>1. PICK i \in 1..n : x = f[i]
      BY <1>3, <1>8, StackOfTx DEF f
    <2>2. i <= j => f[i] \in within[s] /\ savepoint[f[i]] <= savepoint[f[j]]
      BY <1>2, <1>3, <1>4, <1>5, <1>6
    <2>3. j < i => savepoint[f[j]] < savepoint[f[i]]
      BY <1>2, <1>6
    <2>4. i < j => savepoint[f[i]] < savepoint[f[j]]
      BY <1>2, <1>6
    <2>5. f[i] \in within[s] => savepoint[f[i]] <= savepoint[f[j]]
      <3> SUFFICES ASSUME NEW k \in 1..j PROVE savepoint[f[k]] <= savepoint[f[j]]
        BY <1>5
      <3>1. k \in 1..n /\ (k < j \/ k = j)
        BY <1>2, <1>3
      <3> QED
        BY <1>2, <1>4, <1>6, <3>1
    <2>6. savepoint[f[i]] \in Nat /\ savepoint[f[j]] \in Nat /\ (i <= j \/ j < i) /\ (i = j \/ i < j \/ j < i)
      BY <1>2, <1>3, <1>4
    <2> QED
      BY <1>2, <2>1, <2>2, <2>3, <2>4, <2>5, <2>6
  <1>9. \A x \in within[s] : x \in Handle /\ txState[x] = "open" /\ tx[x] = tx[s]
    BY <1>3, <1>4, <1>5, <1>7
  <1>10. savepoint[s] \in Nat /\ s \in within[s]
    BY <1>2, <1>3, <1>4, <1>5
  <1>11. tx[s] \in Handle /\ server[tx[s]] \in Transaction /\ server[tx[s]].status # "none"
    BY DEF IInv, TypeOK, HandleInv, HandleOK
  <1> QED
    BY <1>8, <1>9, <1>10, <1>11

\* The innermost open call of its sql.Tx.
Inner(s) ==
    /\ txState[s] = "open"
    /\ \A r \in Handle : txState[r] = "open" /\ tx[r] = tx[s] => r \in within[s]

LEMMA CurrentIsInner ==
    ASSUME IInv, StackInv, NEW g \in Goroutine, InCall(g)
    PROVE  Current(g) \in Handle /\ Inner(Current(g)) /\ within[Current(g)] = Stack(g)
  <1> DEFINE f == frames[g]
             n == Len(frames[g])
  <1>1. /\ n \in Nat /\ n \in 1..n /\ Current(g) = f[n] /\ Current(g) \in Handle
        /\ Stack(g) = {f[i] : i \in 1..n}
    BY Frames DEF StackInv, Current
  <1>2. /\ within[f[n]] = {f[k] : k \in 1..n}
        /\ txState[f[n]] = "open" /\ tx[f[n]] = f[1]
    BY <1>1 DEF StackInv, StacksOK, StackOK
  <1>3. \A r \in Handle : txState[r] = "open" /\ tx[r] = f[1] => r \in Stack(g)
    BY StackOfTx
  <1> QED
    BY <1>1, <1>2, <1>3 DEF Inner

LEMMA ScopeIs ==
    ASSUME IInv, NEW h \in Handle
    PROVE  /\ txState[h] = "none" => ScopeStatus(h) = "idle"
           /\ txState[h] = "open" => ScopeStatus(h) = "open"
           /\ txState[h] = "closed" =>
                 /\ outcome[h] = "committed" => ScopeStatus(h) = "kept"
                 /\ outcome[h] = "commit_failed" /\ savepoint[h] = 0 => ScopeStatus(h) = "unsure"
                 /\ outcome[h] \in Unsent => ScopeStatus(h) = "abandoned"
                 /\ outcome[h] \notin Unsent \cup {"committed"} /\ ~ RootUnsure(h) => ScopeStatus(h) = "dropped"
           /\ ScopeStatus(h) = "open" <=> txState[h] = "open"
  <1>1. /\ txState[h] \in {"none", "open", "closed"}
        /\ txState[h] \in {"none", "open"} => outcome[h] = "none"
    BY DEF IInv, TypeOK, HandleInv, HandleOK
  <1>2. txState[h] = "none" => ScopeStatus(h) = "idle"
    BY <1>1 DEF ScopeStatus, Unsent
  <1>3. txState[h] = "open" => ScopeStatus(h) = "open"
    BY <1>1 DEF ScopeStatus, Unsent
  <1>4. ASSUME txState[h] = "closed", outcome[h] = "committed" PROVE ScopeStatus(h) = "kept"
    BY <1>4 DEF ScopeStatus, Unsent
  <1>5. ASSUME txState[h] = "closed", outcome[h] = "commit_failed", savepoint[h] = 0
        PROVE  ScopeStatus(h) = "unsure"
    BY <1>5 DEF ScopeStatus, Unsent
  <1>6. ASSUME txState[h] = "closed", outcome[h] \notin Unsent \cup {"committed"}, ~ RootUnsure(h)
        PROVE  ScopeStatus(h) = "dropped"
    BY <1>6 DEF ScopeStatus, RootUnsure
  <1>7. ASSUME txState[h] = "closed", outcome[h] \in Unsent PROVE ScopeStatus(h) = "abandoned"
    BY <1>7 DEF ScopeStatus, Unsent
  <1> QED
    BY <1>1, <1>2, <1>3, <1>4, <1>5, <1>6, <1>7 DEF Unsent, RootUnsure

LEMMA InnerIsInnermost ==
    ASSUME IInv, StackInv, NEW s \in Handle, Inner(s)
    PROVE  Abstract!Innermost(s)
  <1>1. ASSUME NEW r \in Handle, ScopeStatus(r) = "open", within[r] \cap within[s] # {}
        PROVE  r \in within[s]
    <2>1. txState[r] = "open" /\ txState[s] = "open"
      BY <1>1, ScopeIs DEF Inner
    <2>2. PICK x : x \in within[r] /\ x \in within[s]
      BY <1>1
    <2>3. tx[r] = tx[s]
      BY <2>1, <2>2, Chain
    <2> QED
      BY <2>1, <2>3 DEF Inner
  <1>2. ScopeStatus(s) = "open"
    BY ScopeIs DEF Inner
  <1> QED
    BY <1>1, <1>2 DEF Abstract!Innermost, Abstract!Tree

LEMMA InnermostIsInner ==
    ASSUME IInv, StackInv, NEW s \in Handle, txState[s] = "open"
    PROVE  InnermostOf(s) <=> Inner(s)
  <1>1. ASSUME Inner(s), NEW r \in Handle, txState[r] = "open", s \in within[r] PROVE r = s
    <2>1. tx[r] = tx[s]
      BY <1>1, Chain
    <2>2. savepoint[s] <= savepoint[r] /\ savepoint[r] <= savepoint[s]
      BY <1>1, <2>1, Chain DEF Inner
    <2>3. savepoint[r] \in Nat /\ savepoint[s] \in Nat
      BY <1>1, <2>1, Chain
    <2>4. savepoint[r] = savepoint[s]
      BY <2>2, <2>3
    <2> QED
      BY <1>1, <2>1, <2>4, Chain
  <1>2. ASSUME InnermostOf(s), NEW r \in Handle, txState[r] = "open", tx[r] = tx[s], r \notin within[s]
        PROVE  FALSE
    <2>1. ~ (savepoint[r] <= savepoint[s]) /\ savepoint[r] \in Nat /\ savepoint[s] \in Nat
      BY <1>2, Chain
    <2>2. savepoint[s] <= savepoint[r]
      BY <2>1
    <2>3. s \in within[r]
      BY <1>2, <2>2, Chain
    <2>4. r = s
      BY <1>2, <2>3 DEF InnermostOf
    <2> QED
      BY <1>2, <2>4, Chain
  <1> QED
    BY <1>1, <1>2 DEF InnermostOf, Inner

\* There is a call right above one that is not the innermost.
LEMMA NextAbove ==
    ASSUME IInv, StackInv, NEW h \in Handle, txState[h] = "open", ~ Inner(h)
    PROVE  \E r \in Handle : txState[r] = "open" /\ within[r] \ {r} = within[h]
  <1>1. PICK g \in Goroutine : h \in Stack(g)
    BY DEF StackInv, OpenIsOnStack
  <1> DEFINE f == frames[g]
             n == Len(frames[g])
  <1>2. CallTypeOK /\ StackOK(g)
    BY DEF StackInv, StacksOK
  <1>3. /\ n \in Nat /\ InCall(g) /\ n \in 1..n /\ Current(g) = f[n]
        /\ Stack(g) = {f[i] : i \in 1..n} /\ \A i \in 1..n : f[i] \in Handle
    BY <1>1, <1>2, Frames DEF InCall, Current
  <1>4. PICK j \in 1..n : h = f[j]
    BY <1>1, <1>3
  <1>5. j # n
    BY <1>3, <1>4, CurrentIsInner
  <1>6. j + 1 \in 1..n /\ j \in Nat
    BY <1>3, <1>5
  <1>7. /\ within[f[j + 1]] = {f[k] : k \in 1..(j + 1)} /\ within[f[j]] = {f[k] : k \in 1..j}
        /\ txState[f[j + 1]] = "open"
    BY <1>2, <1>6 DEF StackOK
  <1>8. \A k \in 1..j : f[k] # f[j + 1]
    <2> SUFFICES ASSUME NEW k \in 1..j, f[k] = f[j + 1] PROVE FALSE
      OBVIOUS
    <2>1. k \in 1..n /\ k # j + 1
      BY <1>3, <1>6
    <2> QED
      BY <1>6, <2>1, OneFrame
  <1> HIDE DEF f, n
  <1>9. {f[k] : k \in 1..(j + 1)} = {f[k] : k \in 1..j} \cup {f[j + 1]}
    BY <1>6, PushedImage
  <1> QED
    BY <1>3, <1>4, <1>6, <1>7, <1>8, <1>9

-----------------------------------------------------------------------------
\* The writes of a scope.

\* While the sql.Tx runs, the mark of an open call is what is pending of others.
LEMMA MarkIs ==
    ASSUME RefinementInv, NEW h \in Handle, txState[h] = "open", Running(tx[h])
    PROVE  /\ \A w \in Mark(h) : w \in server[tx[h]].pending
           /\ \A w \in server[tx[h]].pending : w \in Mark(h) <=> h \notin within[scope[w]]
           /\ \A w \in Mark(h), y \in Handle :
                 txState[y] = "open" /\ tx[y] = tx[h] /\ savepoint[h] <= savepoint[y] =>
                    y \notin within[scope[w]]
  <1>1. IInv /\ StackInv /\ CallTells(h)
    BY DEF RefinementInv, CallIInv, TellInv, CallsTell
  <1>2. savepoint[h] \in Nat /\ tx[h] \in Handle
    BY <1>1, Chain
  <1>3. /\ MarkFound(h)
        /\ \A w \in server[tx[h]].pending \ Mark(h) : h \in within[scope[w]]
        /\ \A w \in Mark(h), y \in Handle :
              txState[y] = "open" /\ tx[y] = tx[h] /\ savepoint[h] <= savepoint[y] =>
                 y \notin within[scope[w]]
    BY <1>1 DEF CallTells
  <1>4. Mark(h) \subseteq server[tx[h]].pending
    <2>1. CASE savepoint[h] = 0
      BY <2>1 DEF Mark
    <2>2. CASE savepoint[h] # 0
      BY <1>1, <1>2, <1>3, <2>2, MarkOf DEF RefinementInv, MarksNested, NestedMarks
    <2> QED
      BY <2>1, <2>2
  <1>5. \A w \in Mark(h) : h \notin within[scope[w]]
    BY <1>2, <1>3
  <1> QED
    BY <1>3, <1>4, <1>5

\* The pending writes made in this call and in no open call inside it.
Mine(h) ==
    {w \in server[tx[h]].pending :
        /\ h \in within[scope[w]]
        /\ \A y \in within[scope[w]] : txState[y] = "open" => y \in within[h]}

LEMMA OwnWritesAreMine ==
    ASSUME RefinementInv, NEW h \in Handle, txState[h] = "open", ~ DoomedScope(h)
    PROVE  OwnWrites(h) = Mine(h)
  <1>1. IInv /\ StackInv
    BY DEF RefinementInv, CallIInv
  <1> DEFINE t == tx[h]
             P == server[t].pending
             inner == {r \in Handle : txState[r] = "open" /\ within[r] \ {r} = within[h]}
  <1>2. t \in Handle /\ server[t].status \in TxStatus /\ server[t].status # "none"
    BY <1>1, Chain DEF Transaction
  <1>3. Running(t)
    BY <1>2 DEF DoomedScope, Running, TxStatus
  <1>4. \A w \in P : /\ w \in AckedIn(t)
                     /\ \A x \in within[scope[w]] : x \in Handle /\ tx[x] = t
    BY <1>1, <1>2, Owner DEF IInv, WriteInv
  <1>5. CASE Inner(h)
    <2>1. InnermostOf(h) /\ h \in within[h]
      BY <1>1, <1>5, InnermostIsInner, Chain
    <2>2. inner = {}
      BY <2>1 DEF InnermostOf
    <2>3. OwnWrites(h) = P \ Mark(h)
      BY <2>2 DEF OwnWrites
    <2>4. \A w \in P : \A y \in within[scope[w]] : txState[y] = "open" => y \in within[h]
      BY <1>4, <1>5 DEF Inner
    <2>5. \A w \in P : w \in Mark(h) <=> h \notin within[scope[w]]
      BY <1>3, MarkIs
    <2> QED
      BY <2>3, <2>4, <2>5 DEF Mine
  <1>6. CASE ~ Inner(h)
    <2> DEFINE r == CHOOSE x \in inner : TRUE
    <2>1. inner # {}
      BY <1>1, <1>6, NextAbove
    <2>2. r \in inner
      BY <2>1
    <2>3. OwnWrites(h) = Mark(r) \ Mark(h)
      BY <2>1 DEF OwnWrites
    <2> HIDE DEF r
    <2>4. /\ r \in Handle /\ txState[r] = "open" /\ within[r] \ {r} = within[h]
          /\ h \in within[h]
      BY <1>1, <2>2, Chain
    <2>5. tx[r] = t /\ r \in within[r]
      BY <1>1, <2>4, Chain
    <2>6. /\ \A w \in Mark(r) : w \in P
          /\ \A w \in P : w \in Mark(r) <=> r \notin within[scope[w]]
          /\ \A w \in Mark(r), y \in Handle :
                txState[y] = "open" /\ tx[y] = t /\ savepoint[r] <= savepoint[y] => y \notin within[scope[w]]
      BY <1>3, <2>4, <2>5, MarkIs
    <2>7. \A w \in P : w \in Mark(h) <=> h \notin within[scope[w]]
      BY <1>3, MarkIs
    <2>8. ASSUME NEW w \in P, r \notin within[scope[w]], NEW y \in within[scope[w]], txState[y] = "open",
                 y \notin within[h]
          PROVE  FALSE
      <3>1. w \in Mark(r) /\ y \in Handle /\ tx[y] = t
        BY <1>4, <2>6, <2>8
      <3>2. y # r /\ y \notin within[r]
        BY <2>4, <2>8
      <3>3. ~ (savepoint[y] <= savepoint[r]) /\ savepoint[y] \in Nat /\ savepoint[r] \in Nat
        BY <1>1, <2>4, <2>5, <2>8, <3>1, <3>2, Chain
      <3>4. savepoint[r] <= savepoint[y]
        BY <3>3
      <3> QED
        BY <2>6, <2>8, <3>1, <3>4
    <2>9. \A w \in P : r \in within[scope[w]] => txState[r] = "open" /\ r \notin within[h]
      BY <2>4
    <2> QED
      BY <2>3, <2>6, <2>7, <2>8, <2>9 DEF Mine
  <1> QED
    BY <1>5, <1>6

-----------------------------------------------------------------------------
\* The steps of NestedTransactions, scope by scope.

\* Nothing can be seen to happen to a scope.
Same(r) ==
    /\ ScopeStatus(r)' = ScopeStatus(r)
    /\ OwnWrites(r)' = OwnWrites(r)
    /\ DoomedScope(r)' <=> DoomedScope(r)

LEMMA IsStutter ==
    ASSUME \A r \in Handle : Same(r), UNCHANGED <<within, durable>>
    PROVE  UNCHANGED Abstract!vars
  <1>1. [h \in Handle |-> ScopeStatus(h)]' = [h \in Handle |-> ScopeStatus(h)]
    BY DEF Same
  <1>2. [h \in Handle |-> OwnWrites(h)]' = [h \in Handle |-> OwnWrites(h)]
    BY DEF Same
  <1>3. {h \in Handle : DoomedScope(h)}' = {h \in Handle : DoomedScope(h)}
    BY DEF Same
  <1> QED
    BY <1>1, <1>2, <1>3 DEF Abstract!vars

LEMMA IsPut ==
    ASSUME NEW s \in Handle, NEW w \in Write, Abstract!Innermost(s), ~ DoomedScope(s),
           w \notin durable, \A r \in Handle : w \notin OwnWrites(r),
           OwnWrites(s)' = OwnWrites(s) \cup {w}, ScopeStatus(s)' = ScopeStatus(s), ~ DoomedScope(s)',
           \A r \in Handle \ {s} : Same(r), UNCHANGED <<within, durable>>
    PROVE  Abstract!Next
  <1>1. [h \in Handle |-> ScopeStatus(h)]' = [h \in Handle |-> ScopeStatus(h)]
    BY DEF Same
  <1>2. [h \in Handle |-> OwnWrites(h)]' = [[h \in Handle |-> OwnWrites(h)] EXCEPT ![s] = @ \cup {w}]
    BY DEF Same
  <1>3. {h \in Handle : DoomedScope(h)}' = {h \in Handle : DoomedScope(h)}
    BY DEF Same
  <1>4. Abstract!Put(s, w)
    BY <1>1, <1>2, <1>3 DEF Abstract!Put
  <1> QED
    BY <1>4 DEF Abstract!Next

LEMMA IsOpen ==
    ASSUME NEW s \in Handle,
           ScopeStatus(s) = "idle",
           ScopeStatus(s)' = "open",
           OwnWrites(s)' = OwnWrites(s),
           DoomedScope(s)' <=> DoomedScope(s),
           \A r \in Handle \ {s} : Same(r),
           UNCHANGED durable,
           \/ within' = [within EXCEPT ![s] = {s}]
           \/ \E p \in Handle : /\ Abstract!Innermost(p) /\ ~ DoomedScope(p)
                                /\ within' = [within EXCEPT ![s] = within[p] \cup {s}]
    PROVE  Abstract!Next
  <1>1. [h \in Handle |-> ScopeStatus(h)]' = [[h \in Handle |-> ScopeStatus(h)] EXCEPT ![s] = "open"]
    BY DEF Same
  <1>2. [h \in Handle |-> OwnWrites(h)]' = [h \in Handle |-> OwnWrites(h)]
    BY DEF Same
  <1>3. {h \in Handle : DoomedScope(h)}' = {h \in Handle : DoomedScope(h)}
    BY DEF Same
  <1>4. Abstract!Open(s)
    BY <1>1, <1>2, <1>3 DEF Abstract!Open
  <1> QED
    BY <1>4 DEF Abstract!Next

LEMMA IsDoom ==
    ASSUME NEW s \in Handle,
           Abstract!Innermost(s),
           ~ DoomedScope(s),
           DoomedScope(s)',
           OwnWrites(s)' = {},
           ScopeStatus(s)' = ScopeStatus(s),
           \A r \in Handle \ {s} : Same(r),
           UNCHANGED <<within, durable>>
    PROVE  Abstract!Next
  <1>1. [h \in Handle |-> ScopeStatus(h)]' = [h \in Handle |-> ScopeStatus(h)]
    BY DEF Same
  <1>2. [h \in Handle |-> OwnWrites(h)]' = [[h \in Handle |-> OwnWrites(h)] EXCEPT ![s] = {}]
    BY DEF Same
  <1>3. {h \in Handle : DoomedScope(h)}' = {h \in Handle : DoomedScope(h)} \cup {s}
    BY DEF Same
  <1>4. Abstract!Doom(s)
    BY <1>1, <1>2, <1>3 DEF Abstract!Doom
  <1> QED
    BY <1>4 DEF Abstract!Next

LEMMA IsDoomTree ==
    ASSUME NEW s \in Handle,
           Abstract!Innermost(s),
           within[s] \subseteq Handle,
           \A r \in within[s] : DoomedScope(r)' /\ OwnWrites(r)' = {} /\ ScopeStatus(r)' = ScopeStatus(r),
           \A r \in Handle \ within[s] : Same(r),
           UNCHANGED <<within, durable>>
    PROVE  Abstract!Next
  <1>1. [h \in Handle |-> ScopeStatus(h)]' = [h \in Handle |-> ScopeStatus(h)]
    BY DEF Same
  <1>2. [h \in Handle |-> OwnWrites(h)]' = [h \in Handle |-> IF h \in within[s] THEN {} ELSE OwnWrites(h)]
    BY DEF Same
  <1>3. {h \in Handle : DoomedScope(h)}' = {h \in Handle : DoomedScope(h)} \cup within[s]
    BY DEF Same
  <1>4. Abstract!DoomTree(s)
    BY <1>1, <1>2, <1>3 DEF Abstract!DoomTree
  <1> QED
    BY <1>4 DEF Abstract!Next

LEMMA IsKeepOfRoot ==
    ASSUME NEW s \in Handle,
           Abstract!Innermost(s),
           ~ DoomedScope(s),
           within[s] = {s},
           ScopeStatus(s)' = "kept",
           OwnWrites(s)' = {},
           ~ DoomedScope(s)',
           \A r \in Handle \ {s} : Same(r),
           durable' = durable \cup OwnWrites(s),
           UNCHANGED within
    PROVE  Abstract!Next
  <1>1. [h \in Handle |-> ScopeStatus(h)]' = [[h \in Handle |-> ScopeStatus(h)] EXCEPT ![s] = "kept"]
    BY DEF Same
  <1>2. [h \in Handle |-> OwnWrites(h)]' = [[h \in Handle |-> OwnWrites(h)] EXCEPT ![s] = {}]
    BY DEF Same
  <1>3. {h \in Handle : DoomedScope(h)}' = {h \in Handle : DoomedScope(h)}
    BY DEF Same
  <1>4. Abstract!Keep(s)
    BY <1>1, <1>2, <1>3 DEF Abstract!Keep, Abstract!Root
  <1> QED
    BY <1>4 DEF Abstract!Next

\* The writes of a scope that is kept or abandoned pass to the enclosing one.
LEMMA IsKeepOrAbandon ==
    ASSUME NEW s \in Handle, NEW p \in Handle \ {s}, NEW result \in {"kept", "abandoned"},
           Abstract!Innermost(s),
           ~ DoomedScope(s),
           within[p] = within[s] \ {s},
           ScopeStatus(s)' = result,
           OwnWrites(s)' = {},
           ~ DoomedScope(s)',
           ScopeStatus(p)' = ScopeStatus(p),
           OwnWrites(p)' = OwnWrites(p) \cup OwnWrites(s),
           DoomedScope(p)' <=> DoomedScope(p),
           \A r \in Handle \ {s, p} : Same(r),
           UNCHANGED <<within, durable>>
    PROVE  Abstract!Next
  <1>1. [h \in Handle |-> ScopeStatus(h)]' = [[h \in Handle |-> ScopeStatus(h)] EXCEPT ![s] = result]
    BY DEF Same
  <1>2. [h \in Handle |-> OwnWrites(h)]' = [[h \in Handle |-> OwnWrites(h)] EXCEPT ![p] = @ \cup OwnWrites(s), ![s] = {}]
    BY DEF Same
  <1>3. {h \in Handle : DoomedScope(h)}' = {h \in Handle : DoomedScope(h)}
    BY DEF Same
  <1>4. CASE result = "kept"
    <2>1. Abstract!Keep(s)
      BY <1>1, <1>2, <1>3, <1>4 DEF Abstract!Keep, Abstract!Encloses
    <2> QED
      BY <2>1 DEF Abstract!Next
  <1>5. CASE result = "abandoned"
    <2>1. Abstract!Abandon(s)
      BY <1>1, <1>2, <1>3, <1>5 DEF Abstract!Abandon, Abstract!Encloses
    <2> QED
      BY <2>1 DEF Abstract!Next
  <1> QED
    BY <1>4, <1>5

LEMMA IsDrop ==
    ASSUME NEW s \in Handle,
           Abstract!Innermost(s),
           ScopeStatus(s)' = "dropped",
           OwnWrites(s)' = {},
           ~ DoomedScope(s)',
           \A r \in Handle \ {s} : Same(r),
           UNCHANGED <<within, durable>>
    PROVE  Abstract!Next
  <1>1. [h \in Handle |-> ScopeStatus(h)]' = [[h \in Handle |-> ScopeStatus(h)] EXCEPT ![s] = "dropped"]
    BY DEF Same
  <1>2. [h \in Handle |-> OwnWrites(h)]' = [[h \in Handle |-> OwnWrites(h)] EXCEPT ![s] = {}]
    BY DEF Same
  <1>3. {h \in Handle : DoomedScope(h)}' = {h \in Handle : DoomedScope(h)} \ {s}
    BY DEF Same
  <1>4. Abstract!Drop(s)
    BY <1>1, <1>2, <1>3 DEF Abstract!Drop
  <1> QED
    BY <1>4 DEF Abstract!Next

LEMMA IsDropAndDoom ==
    ASSUME NEW s \in Handle, NEW p \in Handle \ {s}, NEW result \in {"dropped", "abandoned"},
           Abstract!Innermost(s),
           DoomedScope(s),
           within[p] = within[s] \ {s},
           ScopeStatus(s)' = result,
           OwnWrites(s)' = OwnWrites(s),
           ~ DoomedScope(s)',
           ScopeStatus(p)' = ScopeStatus(p),
           OwnWrites(p)' = {},
           DoomedScope(p)',
           \A r \in Handle \ {s, p} : Same(r),
           UNCHANGED <<within, durable>>
    PROVE  Abstract!Next
  <1>1. [h \in Handle |-> ScopeStatus(h)]' = [[h \in Handle |-> ScopeStatus(h)] EXCEPT ![s] = result]
    BY DEF Same
  <1>2. [h \in Handle |-> OwnWrites(h)]' = [[h \in Handle |-> OwnWrites(h)] EXCEPT ![p] = {}]
    BY DEF Same
  <1>3. {h \in Handle : DoomedScope(h)}' = ({h \in Handle : DoomedScope(h)} \ {s}) \cup {p}
    BY DEF Same
  <1>4. Abstract!DropAndDoom(s)
    BY <1>1, <1>2, <1>3 DEF Abstract!DropAndDoom, Abstract!Encloses
  <1> QED
    BY <1>4 DEF Abstract!Next

LEMMA IsUnsure ==
    ASSUME NEW s \in Handle,
           Abstract!Innermost(s),
           within[s] = {s},
           ScopeStatus(s)' = "unsure",
           OwnWrites(s)' = {},
           ~ DoomedScope(s)',
           \A r \in Handle \ {s} : Same(r),
           durable' = durable \cup OwnWrites(s) \/ UNCHANGED durable,
           UNCHANGED within
    PROVE  Abstract!Next
  <1>1. [h \in Handle |-> ScopeStatus(h)]' = [[h \in Handle |-> ScopeStatus(h)] EXCEPT ![s] = "unsure"]
    BY DEF Same
  <1>2. [h \in Handle |-> OwnWrites(h)]' = [[h \in Handle |-> OwnWrites(h)] EXCEPT ![s] = {}]
    BY DEF Same
  <1>3. {h \in Handle : DoomedScope(h)}' = {h \in Handle : DoomedScope(h)} \ {s}
    BY DEF Same
  <1>4. Abstract!Unsure(s)
    BY <1>1, <1>2, <1>3 DEF Abstract!Unsure, Abstract!Root
  <1> QED
    BY <1>4 DEF Abstract!Next

-----------------------------------------------------------------------------
\* What the steps of the calls leave as it was.

\* What can be seen of a scope.
View(h) ==
    /\ txState[h] # "open" => ~ DoomedScope(h) /\ OwnWrites(h) = {}
    /\ txState[h] = "open" =>
          /\ ScopeStatus(h) = "open"
          /\ DoomedScope(h) <=> \/ server[tx[h]].status \in {"lost", "ended"}
                                \/ server[tx[h]].status = "aborted" /\ Inner(h)
          /\ ~ DoomedScope(h) => OwnWrites(h) = Mine(h)
    /\ DoomedScope(h) => OwnWrites(h) = {}

Views == \A h \in Handle : View(h)

LEMMA AllViews == RefinementInv => Views
  <1> SUFFICES ASSUME RefinementInv, NEW h \in Handle PROVE View(h)
    BY DEF Views
  <1>1. IInv /\ StackInv
    BY DEF RefinementInv, CallIInv
  <1>2. txState[h] = "open" => ScopeStatus(h) = "open"
    BY <1>1, ScopeIs
  <1>3. txState[h] = "open" => (InnermostOf(h) <=> Inner(h))
    BY <1>1, InnermostIsInner
  <1>4. txState[h] = "open" /\ ~ DoomedScope(h) => OwnWrites(h) = Mine(h)
    BY OwnWritesAreMine
  <1>5. txState[h] # "open" => ~ DoomedScope(h)
    BY DEF DoomedScope
  <1>6. txState[h] # "open" \/ DoomedScope(h) => OwnWrites(h) = {}
    BY DEF OwnWrites
  <1>7. txState[h] = "open" =>
           (DoomedScope(h) <=> \/ server[tx[h]].status \in {"lost", "ended"}
                               \/ server[tx[h]].status = "aborted" /\ Inner(h))
    BY <1>3 DEF DoomedScope
  <1> QED
    BY <1>2, <1>4, <1>5, <1>6, <1>7 DEF View

LEMMA ViewsNext == RefinementInv' => Views'
  BY AllViews, PTL

\* A handle that is not open before or after.
LEMMA SameClosed ==
    ASSUME NEW r \in Handle, txState[r] # "open", txState'[r] = txState[r],
           outcome'[r] = outcome[r], savepoint'[r] = savepoint[r]
    PROVE  Same(r)
  <1>1. ScopeStatus(r)' = ScopeStatus(r)
    BY DEF ScopeStatus
  <1>2. ~ DoomedScope(r) /\ ~ DoomedScope(r)' /\ OwnWrites(r) = {} /\ OwnWrites(r)' = {}
    BY DEF DoomedScope, OwnWrites
  <1> QED
    BY <1>1, <1>2 DEF Same

LEMMA SameOpen ==
    ASSUME Views, Views', NEW r \in Handle, txState[r] = "open", txState'[r] = "open",
           DoomedScope(r)' <=> DoomedScope(r), ~ DoomedScope(r) => Mine(r)' = Mine(r)
    PROVE  Same(r)
  <1>1. View(r) /\ View(r)'
    BY DEF Views
  <1> QED
    BY <1>1 DEF View, Same

\* A step at one sql.Tx, that may begin a call there.
Elsewhere(t) ==
    /\ \A x \in Handle : txState[x] # "none" =>
          within'[x] = within[x] /\ tx'[x] = tx[x] /\ savepoint'[x] = savepoint[x]
    /\ \A x \in Handle : txState[x] # "none" /\ tx[x] # t =>
          txState'[x] = txState[x] /\ outcome'[x] = outcome[x]
    /\ \A x \in Handle : txState[x] = "none" /\ txState'[x] # "none" => tx'[x] = t
    /\ \A u \in Handle \ {t} : server'[u] = server[u]
    /\ UNCHANGED scope

LEMMA SameElsewhere ==
    ASSUME RefinementInv, RefinementInv', NEW t \in Handle, Elsewhere(t),
           NEW r \in Handle, txState[r] # "none", tx[r] # t
    PROVE  Same(r)
  <1>1. IInv /\ StackInv /\ Views /\ Views'
    BY AllViews, ViewsNext DEF RefinementInv, CallIInv
  <1>2. /\ txState'[r] = txState[r] /\ outcome'[r] = outcome[r] /\ savepoint'[r] = savepoint[r]
        /\ tx'[r] = tx[r] /\ within'[r] = within[r] /\ tx[r] \in Handle
    BY <1>1 DEF Elsewhere, IInv, HandleInv, HandleOK
  <1>3. CASE txState[r] # "open"
    BY <1>2, <1>3, SameClosed
  <1>4. CASE txState[r] = "open"
    <2> DEFINE u == tx[r]
    <2>1. server'[u] = server[u] /\ u \in Handle /\ u # t
      BY <1>2 DEF Elsewhere
    <2>2. \A x \in Handle : txState'[x] = "open" /\ tx'[x] = u <=> txState[x] = "open" /\ tx[x] = u
      <3>1. \A x \in Handle : txState[x] = "none" => tx[x] = None
        BY <1>1 DEF IInv, HandleInv, HandleOK
      <3> QED
        BY <2>1, <3>1, NoneAssumption DEF Elsewhere
    <2>3. Inner(r)' <=> Inner(r)
      BY <1>2, <1>4, <2>2 DEF Inner
    <2>4. \A w \in server[u].pending :
             /\ scope[w] \in Handle /\ txState[scope[w]] # "none" /\ scope'[w] = scope[w]
             /\ \A x \in within[scope[w]] : x \in Handle /\ tx[x] = u /\ txState[x] # "none"
      BY <1>1, <2>1, Owner DEF IInv, WriteInv, Elsewhere
    <2>5. \A w \in server[u].pending :
             /\ within'[scope'[w]] = within[scope[w]]
             /\ \A x \in within[scope[w]] : txState'[x] = txState[x]
      BY <2>1, <2>4 DEF Elsewhere
    <2>6. Mine(r)' = Mine(r)
      BY <1>2, <2>1, <2>5 DEF Mine
    <2>7. View(r) /\ View(r)'
      BY <1>1 DEF Views
    <2>8. DoomedScope(r)' <=> DoomedScope(r)
      BY <1>2, <1>4, <2>1, <2>3, <2>7 DEF View
    <2> QED
      BY <1>1, <1>2, <1>4, <2>6, <2>8, SameOpen
  <1> QED
    BY <1>3, <1>4

-----------------------------------------------------------------------------
\* The steps, action by action.

\* A Begin that fails and the check of a statement change nothing of the scopes.
LEMMA UnseenStep ==
    ASSUME UNCHANGED <<txState, tx, savepoint, server, durable, outcome, within>>
    PROVE  UNCHANGED Abstract!vars
  <1>1. \A h \in Handle : ScopeStatus(h)' = ScopeStatus(h)
    BY DEF ScopeStatus
  <1>2. \A h \in Handle : DoomedScope(h)' <=> DoomedScope(h)
    BY DEF DoomedScope, InnermostOf
  <1>3. \A h \in Handle : OwnWrites(h)' = OwnWrites(h)
    BY DEF OwnWrites, DoomedScope, InnermostOf, Mark
  <1> QED
    BY <1>1, <1>2, <1>3, IsStutter DEF Same

\* The scope of a statement under way is the innermost of its sql.Tx.
LEMMA ScopeUnderWay ==
    ASSUME IInv, StackInv, NEW w \in inflight
    PROVE  /\ w \in Write /\ w \notin acked /\ w \notin durable
           /\ scope[w] \in Handle /\ Inner(scope[w]) /\ tx[scope[w]] = tx[via[w]]
           /\ tx[via[w]] \in Handle
  <1>1. PICK g \in Goroutine : InCall(g) /\ scope[w] = Current(g)
    BY DEF StackInv, ScopesOK
  <1>2. scope[w] \in Handle /\ Inner(scope[w])
    BY <1>1, CurrentIsInner
  <1>3. w \in Write /\ w \notin acked /\ via[w] \in within[scope[w]] /\ tx[via[w]] \in Handle
    BY UnderWay
  <1>4. tx[via[w]] = tx[scope[w]]
    BY <1>2, <1>3, Chain DEF Inner
  <1> QED
    BY <1>2, <1>3, <1>4 DEF IInv, WriteInv

\* The calls and the acknowledged writes they made are as they were.
CallsStay == UNCHANGED <<txState, tx, savepoint, outcome, within, scope>>

LEMMA CallsStayElsewhere ==
    ASSUME RefinementInv, RefinementInv', CallsStay, NEW t \in Handle,
           \A u \in Handle \ {t} : server'[u] = server[u]
    PROVE  \A r \in Handle : txState[r] # "open" \/ tx[r] # t => Same(r)
  <1>1. Elsewhere(t)
    BY DEF Elsewhere, CallsStay
  <1>2. \A r \in Handle : txState[r] # "open" => Same(r)
    BY SameClosed DEF CallsStay
  <1>3. \A r \in Handle : txState[r] = "open" /\ tx[r] # t => Same(r)
    BY <1>1, SameElsewhere
  <1> QED
    BY <1>2, <1>3

LEMMA SucceedsStep ==
    ASSUME RefinementInv, RefinementInv', NEW w \in Write, StatementSucceeds(w)
    PROVE  Abstract!Next
  <1>1. IInv /\ StackInv /\ Views /\ Views' /\ w \in inflight
    BY AllViews, ViewsNext DEF RefinementInv, CallIInv, StatementSucceeds, ExecRun
  <1>0. scope[w] \in Handle /\ tx[via[w]] \in Handle
    BY <1>1, ScopeUnderWay
  <1> PICK s \in Handle, t \in Handle : s = scope[w] /\ t = tx[via[w]]
    BY <1>0
  <1>2. w \notin acked /\ w \notin durable /\ Inner(s) /\ tx[s] = t
    BY <1>1, ScopeUnderWay
  <1>3. /\ CallsStay /\ UNCHANGED durable
        /\ server[t].status = "active" /\ server' = [server EXCEPT ![t] = Inserted(server[t], w)]
    BY DEF StatementSucceeds, ExecRun, CallsStay, handleVars, callVars
  <1>4. /\ server[t] \in Transaction
        /\ server'[t].status = "active" /\ server'[t].pending = server[t].pending \cup {w}
        /\ \A u \in Handle \ {t} : server'[u] = server[u]
    BY <1>1, <1>2, <1>3, InsertedFields DEF IInv, TypeOK
  <1>5. \A r \in Handle : txState[r] # "open" \/ tx[r] # t => Same(r)
    BY <1>2, <1>3, <1>4, CallsStayElsewhere
  <1>6. \A r \in Handle : txState[r] = "open" /\ tx[r] = t => ~ DoomedScope(r) /\ ~ DoomedScope(r)'
    BY <1>1, <1>3, <1>4 DEF Views, View, CallsStay
  <1>7. \A r \in Handle : txState[r] = "open" /\ tx[r] = t => OwnWrites(r) = Mine(r) /\ OwnWrites(r)' = Mine(r)'
    BY <1>1, <1>3, <1>6 DEF Views, View, CallsStay
  <1>8. ASSUME NEW r \in Handle, txState[r] = "open", tx[r] = t
        PROVE  Mine(r)' = IF r = s THEN Mine(r) \cup {w} ELSE Mine(r)
    <2>1. (r \in within[s] /\ \A y \in within[s] : txState[y] = "open" => y \in within[r]) <=> r = s
      <3>1. txState[s] = "open" /\ r \in within[s] /\ s \in within[s]
        BY <1>1, <1>2, <1>8, Chain DEF Inner
      <3>2. s \in within[r] => r = s
        BY <1>1, <1>2, <1>8, <3>1, InnermostIsInner DEF InnermostOf
      <3> QED
        BY <3>1, <3>2
    <2> QED
      BY <1>3, <1>4, <1>8, <2>1 DEF Mine, CallsStay
  <1>9. ASSUME NEW r \in Handle PROVE w \notin OwnWrites(r)
    <2>1. txState[r] = "open" /\ ~ DoomedScope(r) => OwnWrites(r) \subseteq server[tx[r]].pending /\ tx[r] \in Handle
      BY <1>1, Chain DEF Views, View, Mine
    <2>2. txState[r] # "open" \/ DoomedScope(r) => OwnWrites(r) = {}
      BY <1>1 DEF Views, View
    <2> QED
      BY <1>1, <1>2, <2>1, <2>2 DEF IInv, WriteInv, AckedIn
  <1>10. ASSUME NEW r \in Handle \ {s}, txState[r] = "open", tx[r] = t PROVE Same(r)
    BY <1>1, <1>3, <1>6, <1>8, <1>10, SameOpen DEF CallsStay
  <1>11. /\ txState[s] = "open" /\ OwnWrites(s)' = OwnWrites(s) \cup {w}
         /\ ~ DoomedScope(s) /\ ~ DoomedScope(s)' /\ ScopeStatus(s)' = ScopeStatus(s)
    BY <1>1, <1>2, <1>3, <1>6, <1>7, <1>8 DEF Inner, Views, View, CallsStay
  <1>12. Abstract!Innermost(s)
    BY <1>1, <1>2, InnerIsInnermost
  <1>13. UNCHANGED <<within, durable>>
    BY <1>3 DEF CallsStay
  <1> QED
    BY <1>2, <1>5, <1>9, <1>10, <1>11, <1>12, <1>13, IsPut

LEMMA FailsStep ==
    ASSUME RefinementInv, RefinementInv', NEW w \in Write, StatementFails(w)
    PROVE  Abstract!Next \/ UNCHANGED Abstract!vars
  <1>1. IInv /\ StackInv /\ Views /\ Views' /\ w \in inflight
    BY AllViews, ViewsNext DEF RefinementInv, CallIInv, StatementFails, ExecFails
  <1>0. scope[w] \in Handle /\ tx[via[w]] \in Handle
    BY <1>1, ScopeUnderWay
  <1> PICK s \in Handle, t \in Handle : s = scope[w] /\ t = tx[via[w]]
    BY <1>0
  <1>2. Inner(s) /\ tx[s] = t
    BY <1>1, ScopeUnderWay
  <1>3. /\ CallsStay /\ UNCHANGED durable
        /\ server' = [server EXCEPT ![t] = Failed(server[t])] \/ UNCHANGED server
    BY DEF StatementFails, ExecFails, CallsStay, handleVars, callVars
  <1>4. /\ server[t] \in Transaction /\ server \in [Handle -> Transaction]
        /\ \A u \in Handle \ {t} : server'[u] = server[u]
        /\ server'[t] = Failed(server[t]) \/ UNCHANGED server
    BY <1>1, <1>3 DEF IInv, TypeOK
  <1>5. CASE server[t].status # "active" \/ UNCHANGED server
    <2>1. UNCHANGED server \/ Failed(server[t]) = server[t]
      BY <1>4, <1>5 DEF Failed, Transaction
    <2>2. UNCHANGED server
      BY <1>3, <1>4, <2>1
    <2> QED
      BY <1>3, <2>2, UnseenStep DEF CallsStay
  <1>6. CASE server[t].status = "active" /\ server'[t] = Failed(server[t])
    <2>1. server'[t].status = "aborted" /\ server'[t].pending = server[t].pending
      BY <1>4, <1>6, FailedFields
    <2>2. \A r \in Handle : txState[r] # "open" \/ tx[r] # t => Same(r)
      BY <1>3, <1>4, CallsStayElsewhere
    <2>3. \A r \in Handle : Mine(r)' = Mine(r)
      <3> SUFFICES ASSUME NEW r \in Handle PROVE Mine(r)' = Mine(r)
        OBVIOUS
      <3>1. \A u \in Handle : server'[u].pending = server[u].pending
        BY <1>4, <2>1
      <3>2. tx[r] \in Handle \/ server'[tx[r]] = server[tx[r]]
        <4>1. CASE server' = server
          BY <4>1
        <4>2. CASE server' = [server EXCEPT ![t] = Failed(server[t])]
          BY <1>4, <4>2
        <4> QED
          BY <1>3, <4>1, <4>2
      <3> QED
        BY <1>3, <3>1, <3>2 DEF Mine, CallsStay
    <2>4. \A r \in Handle : Inner(r)' <=> Inner(r)
      BY <1>3 DEF Inner, CallsStay
    <2>5. ASSUME NEW r \in Handle \ {s}, txState[r] = "open", tx[r] = t PROVE Same(r)
      <3>1. ~ Inner(r)
        BY <1>1, <1>2, <2>5, Chain, InnermostIsInner DEF InnermostOf, Inner
      <3>2. ~ DoomedScope(r) /\ ~ DoomedScope(r)'
        BY <1>1, <1>3, <1>6, <2>1, <2>4, <2>5, <3>1 DEF Views, View, CallsStay
      <3> QED
        BY <1>1, <1>3, <2>3, <2>5, <3>2, SameOpen DEF CallsStay
    <2>6. /\ txState[s] = "open" /\ ~ DoomedScope(s) /\ DoomedScope(s)'
          /\ ScopeStatus(s)' = ScopeStatus(s) /\ OwnWrites(s)' = {}
      BY <1>1, <1>2, <1>3, <1>6, <2>1, <2>4 DEF Inner, Views, View, CallsStay
    <2>7. Abstract!Innermost(s) /\ UNCHANGED <<within, durable>>
      BY <1>1, <1>2, <1>3, InnerIsInnermost DEF CallsStay
    <2> QED
      BY <2>2, <2>5, <2>6, <2>7, IsDoom
  <1> QED
    BY <1>4, <1>5, <1>6

\* A running sql.Tx has an innermost open call.
LEMMA LiveHasInner ==
    ASSUME RefinementInv, NEW t \in Handle, Live(server[t])
    PROVE  \E s \in Handle : Inner(s) /\ tx[s] = t
  <1>1. IInv /\ StackInv
    BY DEF RefinementInv, CallIInv
  <1>2. tx[t] = t /\ txState[t] \in {"open", "closed"} /\ server[t].status # "ended"
    BY <1>1, NoneAssumption DEF IInv, HandleInv, HandleOK, TypeOK, Live
  <1>3. txState[t] = "open"
    BY <1>1, <1>2 DEF IInv, ClosedRootReleasesConnection
  <1>4. PICK g \in Goroutine : t \in Stack(g)
    BY <1>1, <1>3 DEF StackInv, OpenIsOnStack
  <1>5. InCall(g)
    BY <1>4 DEF Stack, InCall
  <1>6. Current(g) \in Handle /\ Inner(Current(g)) /\ t \in within[Current(g)]
    BY <1>1, <1>4, <1>5, CurrentIsInner
  <1> QED
    BY <1>1, <1>2, <1>6, Chain DEF Inner

LEMMA FaultStep ==
    ASSUME RefinementInv, RefinementInv', NEW t \in Handle, CallFault(t)
    PROVE  Abstract!Next
  <1>1. IInv /\ StackInv /\ Views /\ Views' /\ Live(server[t])
    BY AllViews, ViewsNext DEF RefinementInv, CallIInv, CallFault, ConnectionLost, ContextDone, Live
  <1>2. PICK s \in Handle : Inner(s) /\ tx[s] = t
    BY <1>1, LiveHasInner
  <1>3. /\ CallsStay /\ UNCHANGED durable
        /\ server' \in {[server EXCEPT ![t] = Broken(server[t])], [server EXCEPT ![t] = Discarded(server[t])]}
    BY DEF CallFault, ConnectionLost, ContextDone, CallsStay, handleVars, callVars
  <1>4. /\ server'[t].status \in {"lost", "ended"}
        /\ \A u \in Handle \ {t} : server'[u] = server[u]
    BY <1>1, <1>3 DEF IInv, TypeOK, Broken, Discarded
  <1>5. \A r \in Handle : txState[r] # "open" \/ tx[r] # t => Same(r)
    BY <1>3, <1>4, CallsStayElsewhere
  <1>6. \A r \in within[s] : r \in Handle /\ txState[r] = "open" /\ tx[r] = t
    BY <1>1, <1>2, Chain DEF Inner
  <1>7. \A r \in Handle : txState[r] = "open" /\ tx[r] = t => r \in within[s]
    BY <1>2 DEF Inner
  <1>8. ASSUME NEW r \in within[s]
        PROVE  DoomedScope(r)' /\ OwnWrites(r)' = {} /\ ScopeStatus(r)' = ScopeStatus(r)
    BY <1>1, <1>3, <1>4, <1>6 DEF Views, View, CallsStay
  <1>9. Abstract!Innermost(s) /\ UNCHANGED <<within, durable>>
    BY <1>1, <1>2, <1>3, InnerIsInnermost DEF CallsStay
  <1> QED
    BY <1>5, <1>6, <1>7, <1>8, <1>9, IsDoomTree

LEMMA CallStep ==
    ASSUME RefinementInv, RefinementInv', NEW g \in Goroutine, NEW h \in Handle, Call(g, h)
    PROVE  Abstract!Next
  <1>1. IInv /\ StackInv /\ Views /\ Views'
    BY AllViews, ViewsNext DEF RefinementInv, CallIInv
  <1>2. /\ txState[h] = "none" /\ txState' = [txState EXCEPT ![h] = "open"]
        /\ \A x \in Handle \ {h} : tx'[x] = tx[x] /\ savepoint'[x] = savepoint[x]
        /\ tx'[h] = IF InCall(g) THEN frames[g][1] ELSE h
        /\ UNCHANGED <<durable, outcome, scope>>
    BY <1>1, NewFrame
  <1>3. InCall(g) => frames[g][1] \in Handle
    BY <1>1, RootOfStack, Frames DEF StackInv
  <1> PICK t \in Handle : t = IF InCall(g) THEN frames[g][1] ELSE h
    BY <1>3
  <1>4. /\ within' = [within EXCEPT ![h] = Stack(g) \cup {h}]
        /\ within \in [Handle -> SUBSET Handle] /\ txState \in [Handle -> {"none", "open", "closed"}]
    BY <1>1 DEF Call, StackInv, CallTypeOK, IInv, TypeOK
  <1>5. /\ server'[t].status = "active"
        /\ \A u \in Handle \ {t} : server'[u] = server[u]
        /\ ~ InCall(g) => server'[t].pending = {}
        /\ InCall(g) => server'[t].pending = server[t].pending /\ server[t].status = "active"
    <2>1. server \in [Handle -> Transaction] /\ savepointSeq + 1 \in Nat
      BY <1>1, MaxSavepointAssumption DEF IInv, TypeOK
    <2>2. CASE InCall(g)
      <3>1. tx[Current(g)] = t
        BY <1>1, <2>2, RootOfStack, Frames DEF StackInv, Current
      <3>2. server' = [server EXCEPT ![t] = Saved(server[t], savepointSeq + 1)] /\ server[t].status = "active"
        BY <2>2, <3>1 DEF Call, BeginNested
      <3> QED
        BY <2>1, <2>2, <3>2, SavedFields
    <2>3. CASE ~ InCall(g)
      <3>1. server' = [server EXCEPT ![t] = NewTransaction]
        BY <2>3 DEF Call, BeginRoot
      <3> QED
        BY <2>1, <2>3, <3>1 DEF NewTransaction
    <2> QED
      BY <2>2, <2>3
  <1>6. Elsewhere(t)
    BY <1>2, <1>4, <1>5 DEF Elsewhere
  <1>7. \A r \in Handle \ {h} : txState[r] # "open" => Same(r)
    BY <1>2, <1>4, SameClosed
  <1>8. \A r \in Handle : txState[r] = "open" /\ tx[r] # t => Same(r)
    BY <1>6, SameElsewhere, <1>1
  <1>9. ASSUME NEW r \in Handle, txState[r] = "open", tx[r] = t PROVE InCall(g)
    BY <1>1, <1>2, <1>9, NoneAssumption DEF IInv, HandleInv, HandleOK
  <1>10. ASSUME NEW w \in server[t].pending
         PROVE  h \notin within[scope[w]] /\ within'[scope'[w]] = within[scope[w]]
    <2>1. /\ scope[w] \in Handle /\ txState[scope[w]] # "none"
          /\ \A x \in within[scope[w]] : x \in Handle /\ txState[x] # "none"
      BY <1>1, Owner DEF IInv, WriteInv
    <2> QED
      BY <1>2, <1>4, <2>1
  <1>11. ASSUME NEW r \in Handle, txState[r] = "open", tx[r] = t PROVE Same(r)
    <2>1. r # h /\ txState'[r] = "open" /\ tx'[r] = t /\ within'[r] = within[r] /\ InCall(g)
      BY <1>2, <1>4, <1>9, <1>11
    <2>2. ~ DoomedScope(r) /\ ~ DoomedScope(r)'
      BY <1>1, <1>5, <1>11, <2>1 DEF Views, View
    <2>3. \A w \in server[t].pending : \A y \in within[scope[w]] : txState'[y] = txState[y]
      BY <1>2, <1>4, <1>10
    <2>4. Mine(r)' = Mine(r)
      BY <1>5, <1>10, <1>11, <2>1, <2>3 DEF Mine
    <2> QED
      BY <1>1, <1>11, <2>1, <2>2, <2>4, SameOpen
  <1>12. /\ ScopeStatus(h) = "idle" /\ ScopeStatus(h)' = "open"
         /\ ~ DoomedScope(h) /\ ~ DoomedScope(h)' /\ OwnWrites(h) = {} /\ OwnWrites(h)' = {}
    <2>1. txState'[h] = "open" /\ tx'[h] = t
      BY <1>2, <1>4
    <2>2. ScopeStatus(h) = "idle" /\ ~ DoomedScope(h) /\ OwnWrites(h) = {}
      BY <1>1, <1>2, ScopeIs DEF Views, View
    <2>3. /\ ScopeStatus(h)' = "open" /\ ~ DoomedScope(h)'
          /\ OwnWrites(h)' = Mine(h)'
      BY <1>1, <1>5, <2>1 DEF Views, View
    <2>4. Mine(h)' = {}
      BY <1>5, <1>10, <2>1 DEF Mine
    <2> QED
      BY <2>2, <2>3, <2>4
  <1>13. \A r \in Handle \ {h} : Same(r)
    BY <1>7, <1>8, <1>11
  <1>14. CASE InCall(g)
    <2>1. /\ Current(g) \in Handle /\ Inner(Current(g)) /\ within[Current(g)] = Stack(g)
          /\ tx[Current(g)] = t
      BY <1>1, <1>14, CurrentIsInner, RootOfStack, Frames DEF StackInv, Current
    <2>2. Abstract!Innermost(Current(g)) /\ ~ DoomedScope(Current(g))
      BY <1>1, <1>5, <1>14, <2>1, InnerIsInnermost DEF Views, View, Inner
    <2> QED
      BY <1>2, <1>4, <1>12, <1>13, <2>1, <2>2, IsOpen
  <1>15. CASE ~ InCall(g)
    <2>1. Stack(g) = {}
      BY <1>15 DEF Stack, InCall
    <2> QED
      BY <1>2, <1>4, <1>12, <1>13, <2>1, IsOpen
  <1> QED
    BY <1>14, <1>15

\* The call c of the sql.Tx t returns.
Returns(c, t) ==
    /\ Inner(c) /\ tx[c] = t /\ txState'[c] = "closed"
    /\ \A x \in Handle \ {c} : txState'[x] = txState[x] /\ outcome'[x] = outcome[x]
    /\ \A u \in Handle \ {t} : server'[u] = server[u]
    /\ UNCHANGED <<tx, savepoint, within, scope>>

LEMMA ReturnOf ==
    ASSUME RefinementInv, NEW g \in Goroutine, ReturnNil(g) \/ ReturnError(g)
    PROVE  \E c \in Handle, t \in Handle :
              /\ c = Current(g) /\ Returns(c, t) /\ outcome[c] = "none"
              /\ savepoint[c] = 0 <=> c = t
  <1>1. IInv /\ StackInv /\ CallsTell
    BY DEF RefinementInv, CallIInv, TellInv
  <1> PICK c \in Handle, t \in Handle : c = Current(g) /\ t = tx[c]
    BY <1>1, Innermost
  <1>2. /\ txState[c] = "open" /\ outcome[c] = "none" /\ (savepoint[c] = 0 <=> c = t)
        /\ txState'[c] = "closed"
        /\ \A x \in Handle \ {c} : txState'[x] = txState[x] /\ outcome'[x] = outcome[x]
        /\ UNCHANGED <<tx, savepoint, within, scope>>
    BY <1>1, Innermost
  <1>3. Inner(c)
    BY <1>1, CurrentIsInner DEF ReturnNil, ReturnError
  <1>4. CallTells(c)
    BY <1>1 DEF CallsTell
  <1>5. CommitNested(c) \/ RollbackNested(c) \/ CommitRoot(c) \/ RollbackRoot(c)
    BY DEF ReturnNil, ReturnError, Commit, Rollback
  <1>6. CASE CommitNested(c) \/ RollbackNested(c)
    BY <1>1, <1>2, <1>3, <1>4, <1>6, NestedEnds DEF Ends, Returns
  <1>7. CASE CommitRoot(c) \/ RollbackRoot(c)
    <2>1. savepoint[c] = 0
      BY <1>7 DEF CommitRoot, RollbackRoot
    <2> QED
      BY <1>1, <1>2, <1>3, <1>7, <2>1, RootEnds DEF Ends, Returns
  <1> QED
    BY <1>5, <1>6, <1>7

LEMMA ReturnElsewhere ==
    ASSUME RefinementInv, RefinementInv', NEW c \in Handle, NEW t \in Handle, Returns(c, t)
    PROVE  \A r \in Handle \ {c} : txState[r] # "open" \/ tx[r] # t => Same(r)
  <1>1. Elsewhere(t)
    BY DEF Elsewhere, Returns
  <1>2. \A r \in Handle \ {c} : txState[r] # "open" => Same(r)
    BY SameClosed DEF Returns
  <1>3. \A r \in Handle \ {c} : txState[r] = "open" /\ tx[r] # t => Same(r)
    BY <1>1, SameElsewhere
  <1> QED
    BY <1>2, <1>3

\* What is seen of a call that is over.
LEMMA Returned ==
    ASSUME Views', NEW c \in Handle, txState'[c] = "closed"
    PROVE  /\ ~ DoomedScope(c)' /\ OwnWrites(c)' = {}
           /\ outcome'[c] = "committed" => ScopeStatus(c)' = "kept"
           /\ outcome'[c] = "commit_failed" /\ savepoint'[c] = 0 => ScopeStatus(c)' = "unsure"
           /\ outcome'[c] \in Unsent => ScopeStatus(c)' = "abandoned"
           /\ outcome'[c] \notin Unsent \cup {"committed"} /\ ~ RootUnsure(c)' => ScopeStatus(c)' = "dropped"
  <1>1. ASSUME outcome'[c] = "committed" PROVE ScopeStatus(c)' = "kept"
    BY <1>1 DEF ScopeStatus, Unsent
  <1>2. ASSUME outcome'[c] = "commit_failed", savepoint'[c] = 0 PROVE ScopeStatus(c)' = "unsure"
    BY <1>2 DEF ScopeStatus, Unsent
  <1>3. ASSUME outcome'[c] \notin Unsent \cup {"committed"}, ~ RootUnsure(c)'
        PROVE  ScopeStatus(c)' = "dropped"
    BY <1>3 DEF ScopeStatus, RootUnsure
  <1>5. ASSUME outcome'[c] \in Unsent PROVE ScopeStatus(c)' = "abandoned"
    BY <1>5 DEF ScopeStatus, Unsent
  <1>4. ~ DoomedScope(c)' /\ OwnWrites(c)' = {}
    BY DEF Views, View
  <1> QED
    BY <1>1, <1>2, <1>3, <1>4, <1>5

\* The root call returns: nothing else is open.
LEMMA RootStep ==
    ASSUME RefinementInv, RefinementInv', NEW c \in Handle, Returns(c, c), savepoint[c] = 0,
           CommitRoot(c) \/ RollbackRoot(c)
    PROVE  Abstract!Next
  <1>1. IInv /\ StackInv /\ Views /\ Views'
    BY AllViews, ViewsNext DEF RefinementInv, CallIInv
  <1>2. txState[c] = "open" /\ tx[c] = c /\ savepoint'[c] = 0
    BY DEF Returns, Inner
  <1>3. within[c] = {c} /\ \A r \in Handle : txState[r] = "open" /\ tx[r] = c => r = c
    <2>1. \A r \in Handle : txState[r] = "open" /\ tx[r] = c => savepoint[r] \in Nat /\ savepoint[r] <= 0
      BY <1>1, <1>2, Chain DEF Returns, Inner
    <2>2. \A r \in Handle : txState[r] = "open" /\ tx[r] = c => r = c
      BY <1>1, <1>2, <2>1, Chain
    <2> QED
      BY <1>1, <1>2, <2>2, Chain
  <1>4. \A r \in Handle \ {c} : Same(r)
    BY <1>3, ReturnElsewhere
  <1>5. ASSUME ~ DoomedScope(c) PROVE OwnWrites(c) = server[c].pending
    <2>1. OwnWrites(c) = Mine(c)
      BY <1>1, <1>2, <1>5 DEF Views, View
    <2>2. \A w \in server[c].pending :
             /\ c \in within[scope[w]]
             /\ \A y \in within[scope[w]] : y \in Handle /\ tx[y] = c
      BY <1>1, Owner DEF IInv, WriteInv
    <2>3. \A w \in server[c].pending : \A y \in within[scope[w]] : txState[y] = "open" => y \in within[c]
      BY <1>3, <2>2
    <2> QED
      BY <1>2, <2>1, <2>2, <2>3 DEF Mine
  <1>6. server[c].status = "active" => ~ DoomedScope(c)
    BY <1>1, <1>2 DEF Views, View
  <1>7. Abstract!Innermost(c) /\ UNCHANGED within /\ txState'[c] = "closed"
    BY <1>1, InnerIsInnermost DEF Returns
  <1>8. /\ ~ DoomedScope(c)' /\ OwnWrites(c)' = {}
        /\ outcome'[c] = "committed" => ScopeStatus(c)' = "kept"
        /\ outcome'[c] = "commit_failed" => ScopeStatus(c)' = "unsure"
        /\ outcome'[c] \in {"rolled_back", "rollback_failed"} => ScopeStatus(c)' = "dropped"
    BY <1>1, <1>2, <1>7, Returned DEF RootUnsure, Unsent
  <1>9. CASE /\ server[c].status = "active" /\ outcome'[c] = "committed"
              /\ durable' = durable \cup server[c].pending
    BY <1>3, <1>4, <1>5, <1>6, <1>7, <1>8, <1>9, IsKeepOfRoot
  <1>10. CASE /\ server[c].status = "active" /\ outcome'[c] = "commit_failed"
              /\ durable' = durable \cup server[c].pending
    BY <1>3, <1>4, <1>5, <1>6, <1>7, <1>8, <1>10, IsUnsure
  <1>11. CASE outcome'[c] = "commit_failed" /\ UNCHANGED durable
    BY <1>3, <1>4, <1>7, <1>8, <1>11, IsUnsure
  <1>12. CASE outcome'[c] \in {"rolled_back", "rollback_failed"} /\ UNCHANGED durable
    BY <1>4, <1>7, <1>8, <1>12, IsDrop
  <1> QED
    BY <1>1, <1>9, <1>10, <1>11, <1>12 DEF CommitRoot, RollbackRoot, Finish, IInv, TypeOK

\* The call around the one that returns, and those around it.
LEMMA Parent ==
    ASSUME IInv, StackInv, NEW c \in Handle, NEW t \in Handle, Returns(c, t), savepoint[c] # 0
    PROVE  \E p \in Handle \ {c} :
              /\ txState[p] = "open" /\ tx[p] = t
              /\ within[p] = within[c] \ {c}
              /\ Inner(p)'
              /\ \A r \in Handle \ {c} : txState[r] = "open" /\ tx[r] = t =>
                    /\ r \in within[p] /\ c \notin within[r] /\ ~ Inner(r)
                    /\ r # p => p \notin within[r] /\ ~ Inner(r)'
  <1>1. /\ Inner(c) /\ tx[c] = t /\ txState[c] = "open" /\ txState'[c] = "closed"
        /\ \A x \in Handle \ {c} : txState'[x] = txState[x]
        /\ UNCHANGED <<tx, within>>
    BY DEF Returns, Inner
  <1>2. PICK g \in Goroutine : c \in Stack(g)
    BY <1>1 DEF StackInv, OpenIsOnStack
  <1> DEFINE f == frames[g]
             n == Len(frames[g])
  <1>3. CallTypeOK /\ StackOK(g)
    BY DEF StackInv, StacksOK
  <1>4. /\ n \in Nat /\ InCall(g) /\ n \in 1..n /\ Current(g) = f[n]
        /\ Stack(g) = {f[i] : i \in 1..n} /\ \A i \in 1..n : f[i] \in Handle
    BY <1>2, <1>3, Frames DEF InCall, Current
  <1>5. PICK j \in 1..n : c = f[j]
    BY <1>2, <1>4
  <1>6. j # 1
    BY <1>5, RootOfStack
  <1>7. j - 1 \in 1..n /\ j \in Nat /\ j - 1 \in Nat /\ (j - 1) + 1 = j
    BY <1>4, <1>6
  <1>8. /\ within[f[j - 1]] = {f[k] : k \in 1..(j - 1)} /\ within[f[j]] = {f[k] : k \in 1..j}
        /\ txState[f[j - 1]] = "open" /\ tx[f[j - 1]] = f[1] /\ tx[f[j]] = f[1]
    BY <1>3, <1>7 DEF StackOK
  <1>9. \A k \in 1..(j - 1) : f[k] # f[j]
    <2> SUFFICES ASSUME NEW k \in 1..(j - 1), f[k] = f[j] PROVE FALSE
      OBVIOUS
    <2>1. k \in 1..n /\ k # j
      BY <1>4, <1>7
    <2> QED
      BY <2>1, OneFrame
  <1> PICK p \in Handle : p = f[j - 1]
    BY <1>4, <1>7
  <1> HIDE DEF f, n
  <1>10. {f[k] : k \in 1..j} = {f[k] : k \in 1..(j - 1)} \cup {f[j]}
    BY <1>7, PushedImage
  <1>11. within[p] = within[c] \ {c} /\ p # c /\ txState[p] = "open" /\ tx[p] = t
    BY <1>1, <1>5, <1>7, <1>8, <1>9, <1>10
  <1>12. \A r \in Handle \ {c} : txState[r] = "open" /\ tx[r] = t => r \in within[p]
    BY <1>1, <1>11 DEF Inner
  <1>13. ASSUME NEW r \in Handle \ {c}, txState[r] = "open", tx[r] = t
         PROVE  c \notin within[r] /\ (r # p => p \notin within[r])
    <2>1. c \in within[r] => r = c
      BY <1>1, <1>13, InnermostIsInner DEF InnermostOf
    <2>2. p \in within[r] => r = p
      <3> SUFFICES ASSUME p \in within[r] PROVE r = p
        OBVIOUS
      <3>1. savepoint[p] <= savepoint[r] /\ savepoint[r] \in Nat
        BY <1>11, <1>13, Chain
      <3>2. savepoint[r] <= savepoint[p] /\ savepoint[p] \in Nat
        BY <1>11, <1>12, <1>13, Chain
      <3>3. savepoint[r] = savepoint[p]
        BY <3>1, <3>2
      <3> QED
        BY <1>11, <1>13, <3>3, Chain
    <2> QED
      BY <2>1, <2>2
  <1>14. Inner(p)'
    BY <1>1, <1>11, <1>12 DEF Inner
  <1>15. \A r \in Handle \ {c} : txState[r] = "open" /\ tx[r] = t => ~ Inner(r) /\ (r # p => ~ Inner(r)')
    BY <1>1, <1>11, <1>13 DEF Inner
  <1> QED
    BY <1>11, <1>12, <1>13, <1>14, <1>15

\* A write of a running sql.Tx that was made in c was made in the call around it.
LEMMA MadeInParent ==
    ASSUME RefinementInv, NEW c \in Handle, NEW t \in Handle, NEW p \in Handle, Running(t),
           txState[c] = "open", txState[p] = "open", tx[c] = t, tx[p] = t, p \in within[c],
           NEW w \in server[t].pending, c \in within[scope[w]]
    PROVE  p \in within[scope[w]]
  <1>1. IInv /\ StackInv
    BY DEF RefinementInv, CallIInv
  <1>2. savepoint[p] <= savepoint[c]
    BY <1>1, Chain
  <1> SUFFICES ASSUME p \notin within[scope[w]] PROVE FALSE
    OBVIOUS
  <1>3. w \in Mark(p)
    BY MarkIs
  <1> QED
    BY <1>2, <1>3, MarkIs

\* What passes to the enclosing scope when c is over and its writes are still there.
LEMMA MinePasses ==
    ASSUME RefinementInv, NEW c \in Handle, NEW t \in Handle, Returns(c, t), Running(t),
           server'[t].pending = server[t].pending,
           NEW p \in Handle \ {c}, txState[p] = "open", tx[p] = t, within[p] = within[c] \ {c},
           NEW r \in Handle \ {c}, txState[r] = "open", tx[r] = t, r \in within[p], c \notin within[r],
           r # p => p \notin within[r]
    PROVE  Mine(r)' = IF r = p THEN Mine(p) \cup Mine(c) ELSE Mine(r)
  <1>1. IInv /\ StackInv
    BY DEF RefinementInv, CallIInv
  <1>2. /\ tx[c] = t /\ txState[c] = "open" /\ txState'[c] = "closed"
        /\ \A x \in Handle : txState[x] = "open" /\ tx[x] = t => x \in within[c]
        /\ \A x \in Handle \ {c} : txState'[x] = txState[x]
        /\ tx'[r] = t /\ UNCHANGED <<within, scope>>
    BY DEF Returns, Inner
  <1>3. p \in within[p] /\ c \in within[c]
    BY <1>1, <1>2, Chain
  <1> DEFINE P == server[t].pending
  <1>4. ASSUME NEW w \in P
        PROVE  /\ \A y \in within[scope[w]] : y \in Handle /\ tx[y] = t
               /\ c \in within[scope[w]] => p \in within[scope[w]]
    <2>1. \A y \in within[scope[w]] : y \in Handle /\ tx[y] = t
      BY <1>1, Owner DEF IInv, WriteInv
    <2>2. c \in within[scope[w]] => p \in within[scope[w]]
      BY <1>2, <1>3, MadeInParent
    <2> QED
      BY <2>1, <2>2
  <1>5. Mine(r)' = {w \in P : /\ r \in within[scope[w]]
                              /\ \A y \in within[scope[w]] : txState'[y] = "open" => y \in within[r]}
    BY <1>2 DEF Mine
  <1>6. \A w \in P : \A y \in within[scope[w]] : txState'[y] = "open" <=> txState[y] = "open" /\ y # c
    BY <1>2, <1>4
  <1>7. CASE r = p
    <2>1. \A w \in P : w \in Mine(c) <=> c \in within[scope[w]]
      BY <1>2, <1>4 DEF Mine
    <2>2. \A w \in P : w \in Mine(p) <=>
             p \in within[scope[w]] /\ \A y \in within[scope[w]] : txState[y] = "open" => y \in within[p]
      BY DEF Mine
    <2>3. \A w \in P : \A y \in within[scope[w]] : txState[y] = "open" /\ y # c => y \in within[p]
      BY <1>2, <1>4
    <2>4. \A w \in P : w \in Mine(r)' <=> p \in within[scope[w]]
      BY <1>5, <1>6, <1>7, <2>3
    <2>5. \A w \in P : w \in Mine(p) <=> p \in within[scope[w]] /\ c \notin within[scope[w]]
      BY <1>2, <1>3, <2>2, <2>3
    <2>6. Mine(r)' \subseteq P /\ Mine(p) \subseteq P /\ Mine(c) \subseteq P
      BY <1>2, <1>5 DEF Mine
    <2> QED
      BY <1>4, <1>7, <2>1, <2>4, <2>5, <2>6
  <1>8. CASE r # p
    <2>1. \A w \in P : c \in within[scope[w]] => p \in within[scope[w]] /\ txState'[p] = "open" /\ p \notin within[r]
      BY <1>2, <1>4, <1>8
    <2> QED
      BY <1>5, <1>6, <1>8, <2>1 DEF Mine
  <1> QED
    BY <1>7, <1>8

\* What RELEASE and ROLLBACK TO do: the savepoint is there while the sql.Tx runs.
LEMMA NestedOutcome ==
    ASSUME RefinementInv, NEW c \in Handle, NEW t \in Handle, t = tx[c],
           CommitNested(c) \/ RollbackNested(c)
    PROVE  /\ txState[c] = "open" /\ savepoint[c] # 0 /\ UNCHANGED durable
           /\ \/ /\ outcome'[c] \in Unsent \cup {"committed"} /\ server[t].status = "active"
                 /\ server'[t].status = "active" /\ server'[t].pending = server[t].pending
              \/ /\ outcome'[c] = "rolled_back" /\ Running(t)
                 /\ server'[t].status = "active" /\ server'[t].pending = Mark(c)
              \/ /\ outcome'[c] \in Unsent \cup {"commit_failed"} /\ server[t].status = "aborted"
                 /\ server'[t] = server[t]
              \/ /\ outcome'[c] \in {"commit_failed", "rollback_failed"}
                 /\ server[t].status \in {"lost", "ended"} /\ server'[t] = server[t]
  <1>1. IInv /\ StackInv /\ CallTells(c)
    BY DEF RefinementInv, CallIInv, TellInv, CallsTell
  <1>2. txState[c] = "open" /\ savepoint[c] # 0 /\ UNCHANGED durable
    BY DEF CommitNested, RollbackNested
  <1>3. /\ server[t] \in Transaction /\ server[t].status # "none" /\ server[t].status \in TxStatus
        /\ server \in [Handle -> Transaction] /\ outcome \in [Handle -> Outcome]
    BY <1>1, <1>2, NestedHandle DEF IInv, TypeOK, Transaction
  <1>4. /\ HasSavepoint(server[t], savepoint[c]) =>
              Position(server[t], savepoint[c]) \in DOMAIN server[t].savepoints
        /\ Running(t) => HasSavepoint(server[t], savepoint[c])
    BY <1>1, <1>2, NestedHandle DEF CallTells, MarkFound
  <1>5. server[t].status # "active" => Failed(server[t]) = server[t]
    BY <1>3 DEF Failed, Transaction
  <1>6. CASE /\ CanRelease(server[t], savepoint[c]) /\ CommitNested(c)
             /\ server' = [server EXCEPT ![t] = Released(server[t], savepoint[c])]
             /\ Finish(c, "committed")
    BY <1>2, <1>3, <1>4, <1>6, ReleasedFields DEF CanRelease, Finish
  <1>7. CASE /\ ~ CanRelease(server[t], savepoint[c]) /\ CommitNested(c)
             /\ server' = [server EXCEPT ![t] = Failed(server[t])]
             /\ Finish(c, "commit_failed")
    <2>1. server[t].status # "active"
      BY <1>4, <1>7 DEF CanRelease, Running
    <2>2. server'[t] = server[t] /\ outcome'[c] = "commit_failed"
      BY <1>3, <1>5, <1>7, <2>1 DEF Finish
    <2> QED
      BY <1>2, <1>3, <2>1, <2>2 DEF TxStatus
  <1>8. CASE /\ CanRollbackTo(server[t], savepoint[c]) /\ RollbackNested(c)
             /\ server' = [server EXCEPT ![t] = RolledBackTo(server[t], savepoint[c])]
             /\ Finish(c, "rolled_back")
    <2>1. Running(t) /\ HasSavepoint(server[t], savepoint[c])
      BY <1>8 DEF CanRollbackTo, Running
    <2>2. Mark(c) = server[t].savepoints[Position(server[t], savepoint[c])].mark
      BY <1>2 DEF Mark
    <2>3. server'[t] = RolledBackTo(server[t], savepoint[c]) /\ outcome'[c] = "rolled_back"
      BY <1>3, <1>8 DEF Finish
    <2> QED
      BY <1>2, <1>3, <1>4, <2>1, <2>2, <2>3, RolledBackToFields
  <1>9. CASE /\ ~ CanRollbackTo(server[t], savepoint[c]) /\ RollbackNested(c)
             /\ server' = [server EXCEPT ![t] = Failed(server[t])]
             /\ Finish(c, "rollback_failed")
    <2>1. ~ Running(t)
      BY <1>4, <1>9 DEF CanRollbackTo, Running
    <2>2. server'[t] = server[t] /\ outcome'[c] = "rollback_failed"
      BY <1>3, <1>5, <1>9, <2>1 DEF Finish, Running
    <2> QED
      BY <1>2, <1>3, <2>1, <2>2 DEF TxStatus, Running
  <1>11. CASE /\ UNCHANGED server /\ server[t].status \in {"active", "aborted"}
              /\ \E result \in Unsent : Finish(c, result)
    <2>1. outcome'[c] \in Unsent
      BY <1>3, <1>11 DEF Finish, Unsent
    <2> QED
      BY <1>2, <1>11, <2>1
  <1>10. \/ /\ CanRelease(server[t], savepoint[c]) /\ CommitNested(c)
            /\ server' = [server EXCEPT ![t] = Released(server[t], savepoint[c])]
            /\ Finish(c, "committed")
         \/ /\ ~ CanRelease(server[t], savepoint[c]) /\ CommitNested(c)
            /\ server' = [server EXCEPT ![t] = Failed(server[t])]
            /\ Finish(c, "commit_failed")
         \/ /\ CanRollbackTo(server[t], savepoint[c]) /\ RollbackNested(c)
            /\ server' = [server EXCEPT ![t] = RolledBackTo(server[t], savepoint[c])]
            /\ Finish(c, "rolled_back")
         \/ /\ ~ CanRollbackTo(server[t], savepoint[c]) /\ RollbackNested(c)
            /\ server' = [server EXCEPT ![t] = Failed(server[t])]
            /\ Finish(c, "rollback_failed")
         \/ /\ UNCHANGED server /\ server[t].status \in {"active", "aborted"}
            /\ \E result \in Unsent : Finish(c, result)
    <2>1. CASE CommitNested(c)
      BY <2>1 DEF CommitNested, Unsent
    <2>2. CASE RollbackNested(c)
      BY <2>2 DEF RollbackNested, Unsent
    <2> QED
      BY <2>1, <2>2
  <1> QED
    BY <1>6, <1>7, <1>8, <1>9, <1>10, <1>11

LEMMA NestedStep ==
    ASSUME RefinementInv, RefinementInv', NEW c \in Handle, NEW t \in Handle, Returns(c, t),
           CommitNested(c) \/ RollbackNested(c)
    PROVE  Abstract!Next
  <1>1. IInv /\ StackInv /\ Views /\ Views'
    BY AllViews, ViewsNext DEF RefinementInv, CallIInv
  <1>2. /\ tx[c] = t /\ tx'[c] = t /\ savepoint'[c] = savepoint[c] /\ Inner(c)
        /\ txState[c] = "open" /\ txState'[c] = "closed"
        /\ \A x \in Handle \ {c} : txState'[x] = txState[x]
        /\ UNCHANGED <<tx, within, scope>>
    BY DEF Returns, Inner
  <1>3. savepoint[c] # 0 /\ UNCHANGED durable
    BY DEF CommitNested, RollbackNested
  <1> PICK p \in Handle \ {c} :
              /\ txState[p] = "open" /\ tx[p] = t
              /\ within[p] = within[c] \ {c}
              /\ Inner(p)'
              /\ \A r \in Handle \ {c} : txState[r] = "open" /\ tx[r] = t =>
                    /\ r \in within[p] /\ c \notin within[r] /\ ~ Inner(r)
                    /\ r # p => p \notin within[r] /\ ~ Inner(r)'
    BY <1>1, <1>3, Parent
  <1>4. \A r \in Handle \ {c} : txState[r] # "open" \/ tx[r] # t => Same(r)
    BY ReturnElsewhere
  <1>5. Abstract!Innermost(c) /\ UNCHANGED <<within, durable>>
    BY <1>1, <1>2, <1>3, InnerIsInnermost
  <1>6. /\ ~ DoomedScope(c)' /\ OwnWrites(c)' = {}
        /\ outcome'[c] = "committed" => ScopeStatus(c)' = "kept"
        /\ outcome'[c] \in Unsent => ScopeStatus(c)' = "abandoned"
        /\ outcome'[c] \in {"commit_failed", "rolled_back", "rollback_failed"} => ScopeStatus(c)' = "dropped"
    BY <1>1, <1>2, <1>3, Returned DEF RootUnsure, Unsent
  \* The scopes around, which go on.
  <1>7. \A r \in Handle \ {c} : txState[r] = "open" /\ tx[r] = t =>
            txState'[r] = "open" /\ tx'[r] = t /\ View(r) /\ View(r)'
    BY <1>1, <1>2 DEF Views
  <1>8. CASE /\ outcome'[c] \in Unsent \cup {"committed"} /\ server[t].status = "active"
             /\ server'[t].status = "active" /\ server'[t].pending = server[t].pending
    <2>1. \A r \in Handle \ {c} : txState[r] = "open" /\ tx[r] = t =>
             /\ ~ DoomedScope(r) /\ ~ DoomedScope(r)'
             /\ OwnWrites(r) = Mine(r) /\ OwnWrites(r)' = Mine(r)'
             /\ ScopeStatus(r) = "open" /\ ScopeStatus(r)' = "open"
      BY <1>7, <1>8 DEF View
    <2>2. ~ DoomedScope(c) /\ OwnWrites(c) = Mine(c)
      BY <1>1, <1>2, <1>8 DEF Views, View
    <2>3. Running(t)
      BY <1>8 DEF Running
    <2>4. \A r \in Handle \ {c} : txState[r] = "open" /\ tx[r] = t =>
             Mine(r)' = IF r = p THEN Mine(p) \cup Mine(c) ELSE Mine(r)
      BY <1>8, <2>3, MinePasses
    <2>5. \A r \in Handle \ {c, p} : txState[r] = "open" /\ tx[r] = t => Same(r)
      BY <2>1, <2>4 DEF Same
    <2>6. /\ OwnWrites(p)' = OwnWrites(p) \cup OwnWrites(c) /\ ScopeStatus(p)' = ScopeStatus(p)
          /\ DoomedScope(p)' <=> DoomedScope(p)
      BY <2>1, <2>2, <2>4
    <2> QED
      BY <1>4, <1>5, <1>6, <1>8, <2>2, <2>5, <2>6, IsKeepOrAbandon
  <1>9. CASE /\ outcome'[c] = "rolled_back" /\ Running(t)
             /\ server'[t].status = "active" /\ server'[t].pending = Mark(c)
    <2>1. /\ \A w \in Mark(c) : w \in server[t].pending /\ c \notin within[scope[w]]
          /\ \A w \in server[t].pending : w \in Mark(c) <=> c \notin within[scope[w]]
      BY <1>2, <1>9, MarkIs
    <2>2. \A w \in server[t].pending : \A y \in within[scope[w]] : y \in Handle
      BY <1>1, Owner DEF IInv, WriteInv
    <2>3. ASSUME NEW r \in Handle \ {c}, txState[r] = "open", tx[r] = t PROVE Same(r)
      <3>1. ~ DoomedScope(r) /\ ~ DoomedScope(r)'
        <4>1. ~ Inner(r)
          BY <2>3
        <4> QED
          BY <1>7, <1>9, <2>3, <4>1 DEF View, Running
      <3>2. Mine(r)' = {w \in Mark(c) : /\ r \in within[scope[w]]
                                        /\ \A y \in within[scope[w]] : txState'[y] = "open" => y \in within[r]}
        BY <1>2, <1>9, <2>3 DEF Mine
      <3>3. \A w \in Mark(c) : \A y \in within[scope[w]] : txState'[y] = txState[y]
        BY <1>2, <2>1, <2>2
      <3>4. Mine(r) = {w \in server[t].pending : /\ r \in within[scope[w]]
                                                 /\ \A y \in within[scope[w]] : txState[y] = "open" => y \in within[r]}
        BY <2>3 DEF Mine
      <3>5. \A w \in Mine(r) : c \notin within[scope[w]]
        BY <1>2, <2>3, <3>4
      <3>6. Mine(r)' = Mine(r)
        BY <2>1, <3>2, <3>3, <3>4, <3>5
      <3> QED
        BY <1>1, <1>7, <2>3, <3>1, <3>6, SameOpen
    <2> QED
      BY <1>4, <1>5, <1>6, <1>9, <2>3, IsDrop
  <1>10. CASE /\ outcome'[c] \in Unsent \cup {"commit_failed"}
              /\ server[t].status = "aborted" /\ server'[t] = server[t]
    <2>1. Running(t) /\ server'[t].pending = server[t].pending
      BY <1>10 DEF Running
    <2>2. ASSUME NEW r \in Handle \ {c, p}, txState[r] = "open", tx[r] = t PROVE Same(r)
      <3>1. ~ Inner(r) /\ ~ Inner(r)'
        BY <2>2
      <3>2. ~ DoomedScope(r) /\ ~ DoomedScope(r)'
        BY <1>7, <1>10, <2>2, <3>1 DEF View
      <3>3. Mine(r)' = Mine(r)
        BY <2>1, <2>2, MinePasses
      <3> QED
        BY <1>1, <1>7, <2>2, <3>2, <3>3, SameOpen
    <2>3. /\ DoomedScope(p)' /\ OwnWrites(p)' = {} /\ ScopeStatus(p)' = ScopeStatus(p)
      BY <1>7, <1>10 DEF View
    <2>4. DoomedScope(c) /\ OwnWrites(c) = {}
      BY <1>1, <1>2, <1>10 DEF Views, View
    <2> QED
      BY <1>4, <1>5, <1>6, <1>10, <2>2, <2>3, <2>4, IsDropAndDoom
  <1>11. CASE /\ outcome'[c] \in {"commit_failed", "rollback_failed"}
              /\ server[t].status \in {"lost", "ended"} /\ server'[t] = server[t]
    <2>1. ASSUME NEW r \in Handle \ {c}, txState[r] = "open", tx[r] = t PROVE Same(r)
      <3>1. DoomedScope(r) /\ DoomedScope(r)'
        BY <1>7, <1>11, <2>1 DEF View
      <3> QED
        BY <1>1, <1>7, <2>1, <3>1, SameOpen
    <2> QED
      BY <1>4, <1>5, <1>6, <1>11, <2>1, IsDrop
  <1> QED
    BY <1>2, <1>8, <1>9, <1>10, <1>11, NestedOutcome

LEMMA ReturnStep ==
    ASSUME RefinementInv, RefinementInv', NEW g \in Goroutine, ReturnNil(g) \/ ReturnError(g)
    PROVE  Abstract!Next
  <1> PICK c \in Handle, t \in Handle :
              /\ c = Current(g) /\ Returns(c, t) /\ outcome[c] = "none"
              /\ savepoint[c] = 0 <=> c = t
    BY ReturnOf
  <1>1. CommitNested(c) \/ RollbackNested(c) \/ CommitRoot(c) \/ RollbackRoot(c)
    BY DEF ReturnNil, ReturnError, Commit, Rollback
  <1>2. CASE CommitNested(c) \/ RollbackNested(c)
    BY <1>2, NestedStep
  <1>3. CASE CommitRoot(c) \/ RollbackRoot(c)
    <2>1. savepoint[c] = 0 /\ c = t
      BY <1>3 DEF CommitRoot, RollbackRoot
    <2> QED
      BY <1>3, <2>1, RootStep
  <1> QED
    BY <1>1, <1>2, <1>3

-----------------------------------------------------------------------------
LEMMA ScopesStart == CallInit => Abstract!Init
  <1> SUFFICES ASSUME CallInit PROVE Abstract!Init
    OBVIOUS
  <1>1. /\ \A h \in Handle : txState[h] = "none"
        /\ within = [h \in Handle |-> {}] /\ durable = {}
    BY DEF CallInit, Init
  <1>2. IInv
    BY InitInv DEF CallInit
  <1>3. [h \in Handle |-> ScopeStatus(h)] = [h \in Handle |-> "idle"]
    BY <1>1, <1>2, ScopeIs
  <1>4. [h \in Handle |-> OwnWrites(h)] = [h \in Handle |-> {}]
    BY <1>1 DEF OwnWrites
  <1>5. {h \in Handle : DoomedScope(h)} = {}
    BY <1>1 DEF DoomedScope
  <1> QED
    BY <1>1, <1>3, <1>4, <1>5 DEF Abstract!Init

LEMMA ScopesStep ==
    RefinementInv /\ RefinementInv' /\ [CallNext]_allVars => [Abstract!Next]_(Abstract!vars)
  <1> SUFFICES ASSUME RefinementInv, RefinementInv', [CallNext]_allVars
               PROVE  Abstract!Next \/ UNCHANGED Abstract!vars
    OBVIOUS
  <1>1. CASE UNCHANGED allVars
    BY <1>1, UnseenStep DEF allVars, vars, callVars
  <1>2. ASSUME NEW g \in Goroutine, NEW h \in Handle, Call(g, h) PROVE Abstract!Next
    BY <1>2, CallStep
  <1>3. ASSUME NEW g \in Goroutine, CallFails(g) PROVE UNCHANGED Abstract!vars
    BY <1>3, UnseenStep DEF CallFails, BeginNestedFails, callVars
  <1>4. ASSUME NEW g \in Goroutine, NEW w \in Write, Statement(g, w) PROVE UNCHANGED Abstract!vars
    BY <1>4, UnseenStep DEF Statement, ExecCheck, handleVars
  <1>5. ASSUME NEW w \in Write, StatementSucceeds(w) PROVE Abstract!Next
    BY <1>5, SucceedsStep
  <1>6. ASSUME NEW w \in Write, StatementFails(w) PROVE Abstract!Next \/ UNCHANGED Abstract!vars
    BY <1>6, FailsStep
  <1>7. ASSUME NEW g \in Goroutine, ReturnNil(g) \/ ReturnError(g) PROVE Abstract!Next
    BY <1>7, ReturnStep
  <1>8. ASSUME NEW t \in Handle, CallFault(t) PROVE Abstract!Next
    BY <1>8, FaultStep
  <1> QED
    BY <1>1, <1>2, <1>3, <1>4, <1>5, <1>6, <1>7, <1>8 DEF CallNext

\* ADR-028 for every number of handles, goroutines and writes: seen through what
\* is open, whose writes are whose and what is durable, Transaction's savepoints
\* on a shared sql.Tx are scopes that nest, whatever fails on the way: each is
\* kept or dropped as a whole, or, its end not being sent, abandoned to the one
\* around it.
THEOREM CallsImplementNestedTransactions == CallSpec => ImplementsNestedTransactions
  BY RefinementInvariance, ScopesStart, ScopesStep, PTL
     DEF CallSpec, ImplementsNestedTransactions, Abstract!Spec
=============================================================================
