----------------------------- MODULE MCWritePath -----------------------------
(* Small instances of WritePath. *)
EXTENDS WritePathKV

CONSTANTS c1, c2

(* Both threads write all keys; or key 1 is c1's alone. *)
SharedKeys == [c \in Clients |-> Keys]
OwnKeys    == [c \in Clients |-> IF c = c1 THEN Keys ELSE Keys \ {1}]

NoCompaction == [type |-> "NoCompaction"]
=============================================================================
