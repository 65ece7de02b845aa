-------------------------- MODULE MCOptimisticLock --------------------------
(***************************************************************************)
(* Two clients and rows of tables that delete in different ways.           *)
(***************************************************************************)
EXTENDS OptimisticLock, TLC

CONSTANTS c1, c2, r1, r2

Clients == {c1, c2}
ClientSymmetry == Permutations(Clients)

TwoRows == {r1, r2}
NoRow == {}
RemovalPerTable == r1 :> "tag" @@ r2 :> "row"

OneRow == {r1}
TaggedTable == r1 :> "tag"
AuditedTable == r1 :> "audit"
=============================================================================
