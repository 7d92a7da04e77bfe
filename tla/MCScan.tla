------------------------------- MODULE MCScan -------------------------------
(* Small instances of Scan. *)
EXTENDS Scan

SharedKeys == [c \in Clients |-> Keys]

NoCompaction == [type |-> "NoCompaction"]

NoBounds == {[lower |-> Unbounded, upper |-> Unbounded]}
=============================================================================
