------------------------- MODULE MCMigrationRunner --------------------------
(***************************************************************************)
(* Two operators and a table with a column and a constraint.              *)
(***************************************************************************)
EXTENDS MigrationRunner, TLC

CONSTANTS o1, o2, users, users_name, users_email_key

Operators == {o1, o2}
OperatorSymmetry == Permutations(Operators)

Tables == {users}
Constraints == {users_email_key}
Parts == {users_name, users_email_key}
TableOfPart == [p \in Parts |-> users]
=============================================================================
