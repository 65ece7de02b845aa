-------------------------- MODULE MCConnectionPool --------------------------
(* Three goroutines and one connection, which any transaction exhausts.    *)
EXTENDS ConnectionPool

CONSTANTS g1, g2, g3, q

Callers == {g1, g2, g3}
Owners == {g1, g2}
Texts == {q}
=============================================================================
