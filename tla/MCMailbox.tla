------------------------------ MODULE MCMailbox ------------------------------
(* Small mailboxes for TLC: three boxes, the first with two devices. *)
EXTENDS Mailbox, TLC

CONSTANTS b1, b2, b3, d1, d2, s1

FirstBox == [d \in Device |-> b1]

Devices == Permutations(Device)

=============================================================================
