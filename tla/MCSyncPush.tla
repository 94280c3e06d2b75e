----------------------------- MODULE MCSyncPush -----------------------------
(* A small instance of SyncPush for TLC. *)
EXTENDS SyncPush

CONSTANTS alice, bob

The(s, n) == [s |-> s, l |-> n, id |-> IF s = alice THEN 1 ELSE 2]

(* Lamports 1..3 of alice and two of bob's, which tie with hers. *)
FiveRows == {The(alice, n) : n \in 1..3} \cup {The(bob, n) : n \in 2..3}

(* The newest row alice sent and the oldest are plugin updates. *)
TwoQuiet == {The(alice, 1), The(alice, 3)}
=============================================================================
