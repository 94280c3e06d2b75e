---------------------------- MODULE MCRendezvous ----------------------------
(* Two peers for TLC, of which Alice may reconnect once. *)
EXTENDS Rendezvous, TLC

CONSTANTS alice, bob, alice1, alice2, bob1, k1

Owners == [s \in Stream |-> IF s \in {alice1, alice2} THEN alice ELSE bob]
OneBucket == [s \in Stream |-> IF s \in {alice1, alice2} THEN {k1} ELSE {}]
Shares == [k \in Key |-> 2]
Reconnections == Permutations({alice1, alice2})

=============================================================================
