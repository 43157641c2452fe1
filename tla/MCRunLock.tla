----------------------------- MODULE MCRunLock -----------------------------
(* RunLock for TLC: c1 and c2 are requests of one web server for the same   *)
(* operation, every other client is a process of its own.                  *)
EXTENDS RunLock

CONSTANTS c1, c2

SharedOwner == [c \in Clients |-> IF c = c2 THEN c1 ELSE c]

=============================================================================
