-------------------------- MODULE MCOrmTransaction --------------------------
(* Model-checking instance of OrmTransaction and of the inductive invariant *)
(* its proofs rest on.                                                      *)
EXTENDS OrmTransactionProofs, TLC
=============================================================================
