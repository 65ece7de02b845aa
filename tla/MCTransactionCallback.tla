----------------------- MODULE MCTransactionCallback ------------------------
(* Model-checking instance of TransactionCallback. *)
EXTENDS TransactionCallback, TLC
=============================================================================
