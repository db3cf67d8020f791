----------------------------- MODULE MCDbPool ------------------------------
(* Three requests for two connections: one handler joins two calls of run(), *)
(* the others only hold a connection.                                        *)
EXTENDS DbPool

CONSTANT q1

MCCalls == {<<q1, "a">>, <<q1, "b">>}
=============================================================================
