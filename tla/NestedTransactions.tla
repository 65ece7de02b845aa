------------------------- MODULE NestedTransactions -------------------------
(***************************************************************************)
(* What db.Transaction promises (orm/transaction.go), with no savepoint,   *)
(* sql.Tx or handle in sight: scopes nest, each scope owns the writes made *)
(* in it, and a scope ends in one of two ways.  Kept, its writes pass to   *)
(* the enclosing scope, or to the database when there is none.  Dropped,   *)
(* its writes are gone and the enclosing scope is as it was when the scope *)
(* began.  A failure may doom a scope, which can then only be dropped; the *)
(* client of a root scope may be left unsure, when COMMIT itself fails.    *)
(*                                                                         *)
(* An inner scope may also be abandoned: its end, whichever it was, did    *)
(* not reach the database.  Its client is told of a failure, and its       *)
(* writes stay where they are, now at the mercy of the enclosing scope.    *)
(***************************************************************************)
CONSTANTS Scope, Write

VARIABLES status,   \* per scope: idle, open, kept, dropped, abandoned or unsure
          within,   \* per scope: itself and the scopes it is nested in
          own,      \* per open scope: the writes that depend on it alone
          doomed,   \* the open scopes that can no longer be kept
          durable   \* the writes in the database

vars == <<status, within, own, doomed, durable>>

Init ==
    /\ status = [s \in Scope |-> "idle"]
    /\ within = [s \in Scope |-> {}]
    /\ own = [s \in Scope |-> {}]
    /\ doomed = {}
    /\ durable = {}

Root(s) == within[s] = {s}
Encloses(p, s) == within[p] = within[s] \ {s}
Tree(s) == {r \in Scope : within[r] \cap within[s] # {} /\ status[r] = "open"}
Innermost(s) == status[s] = "open" /\ \A r \in Tree(s) : r \in within[s]

\* A scope opens at the root, or inside the innermost scope of a tree.
Open(s) ==
    /\ status[s] = "idle"
    /\ status' = [status EXCEPT ![s] = "open"]
    /\ \/ within' = [within EXCEPT ![s] = {s}]
       \/ \E p \in Scope : /\ Innermost(p)
                           /\ p \notin doomed
                           /\ within' = [within EXCEPT ![s] = within[p] \cup {s}]
    /\ UNCHANGED <<own, doomed, durable>>

\* A write lands in the innermost scope.
Put(s, w) ==
    /\ Innermost(s)
    /\ s \notin doomed
    /\ w \notin durable
    /\ \A r \in Scope : w \notin own[r]
    /\ own' = [own EXCEPT ![s] = @ \cup {w}]
    /\ UNCHANGED <<status, within, doomed, durable>>

\* A statement fails: the innermost scope loses its writes, no other does.
Doom(s) ==
    /\ Innermost(s)
    /\ s \notin doomed
    /\ doomed' = doomed \cup {s}
    /\ own' = [own EXCEPT ![s] = {}]
    /\ UNCHANGED <<status, within, durable>>

\* The transaction is gone under a whole tree of scopes.
DoomTree(s) ==
    /\ Innermost(s)
    /\ doomed' = doomed \cup within[s]
    /\ own' = [r \in Scope |-> IF r \in within[s] THEN {} ELSE own[r]]
    /\ UNCHANGED <<status, within, durable>>

Keep(s) ==
    /\ Innermost(s)
    /\ s \notin doomed
    /\ status' = [status EXCEPT ![s] = "kept"]
    /\ \/ /\ Root(s)
          /\ durable' = durable \cup own[s]
          /\ own' = [own EXCEPT ![s] = {}]
       \/ /\ \E p \in Scope \ {s} :
                /\ Encloses(p, s)
                /\ own' = [own EXCEPT ![p] = @ \cup own[s], ![s] = {}]
          /\ UNCHANGED durable
    /\ UNCHANGED <<within, doomed>>

\* Dropped, and the enclosing scope is as it was.
Drop(s) ==
    /\ Innermost(s)
    /\ status' = [status EXCEPT ![s] = "dropped"]
    /\ own' = [own EXCEPT ![s] = {}]
    /\ doomed' = doomed \ {s}
    /\ UNCHANGED <<within, durable>>

\* The end of an inner scope is not carried out: its writes become writes of
\* the enclosing scope, although its client never heard them kept.
Abandon(s) ==
    /\ Innermost(s)
    /\ s \notin doomed
    /\ status' = [status EXCEPT ![s] = "abandoned"]
    /\ \E p \in Scope \ {s} :
          /\ Encloses(p, s)
          /\ own' = [own EXCEPT ![p] = @ \cup own[s], ![s] = {}]
    /\ UNCHANGED <<within, doomed, durable>>

\* A doomed scope whose client tried to keep it, or whose end is not carried
\* out, drags the enclosing one along.
DropAndDoom(s) ==
    /\ Innermost(s)
    /\ s \in doomed
    /\ \E result \in {"dropped", "abandoned"} : status' = [status EXCEPT ![s] = result]
    /\ \E p \in Scope \ {s} :
          /\ Encloses(p, s)
          /\ own' = [own EXCEPT ![p] = {}]
          /\ doomed' = (doomed \ {s}) \cup {p}
    /\ UNCHANGED <<within, durable>>

\* COMMIT failed: all of the root's writes are durable, or none.
Unsure(s) ==
    /\ Innermost(s)
    /\ Root(s)
    /\ status' = [status EXCEPT ![s] = "unsure"]
    /\ own' = [own EXCEPT ![s] = {}]
    /\ doomed' = doomed \ {s}
    /\ \/ durable' = durable \cup own[s]
       \/ UNCHANGED durable
    /\ UNCHANGED within

Next ==
    \/ \E s \in Scope : Open(s)
    \/ \E s \in Scope, w \in Write : Put(s, w)
    \/ \E s \in Scope : Doom(s)
    \/ \E s \in Scope : DoomTree(s)
    \/ \E s \in Scope : Keep(s)
    \/ \E s \in Scope : Drop(s)
    \/ \E s \in Scope : Abandon(s)
    \/ \E s \in Scope : DropAndDoom(s)
    \/ \E s \in Scope : Unsure(s)

Spec == Init /\ [][Next]_vars
=============================================================================
