----------------------------- MODULE MCNodeLock -----------------------------
(* Small instances of NodeLock for TLC. *)
EXTENDS NodeLock, TLC

CONSTANTS t1, t2
=============================================================================
