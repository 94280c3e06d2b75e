----------------------------- MODULE MCRoomSync -----------------------------
(* Small instances of RoomSync for TLC. *)
EXTENDS RoomSyncInv, TLC

CONSTANTS p1, p2, alice, bob, me

Upto(S, n) == [s : S, l : 1..n, id : {1}]

The(s, n) == [s |-> s, l |-> n, id |-> 1]

AliceWrites == [p \in Peer |-> alice]

AllVerify == [p \in Peer |-> [r \in Row |-> "ok"]]

EveryRow == [p \in Peer |-> Row]

Alice2 == Upto({alice}, 2)

Alice3 == Upto({alice}, 3)

Alice4 == Upto({alice}, 4)

(* The first message of the room, held by everybody. *)
First == {The(alice, 1)}

EveryoneHasFirst == [p \in Peer |-> First]

(* Alice's third message does not verify for anybody, and is refused. *)
ThirdRefused == [p \in Peer |-> [r \in Row |-> IF r = The(alice, 3) THEN "refused" ELSE "ok"]]

(* Two devices of alice issued lamport 2. *)
Twins == Alice2 \cup {[s |-> alice, l |-> 2, id |-> 2]}

(* Three senders.  Alice's first row is refused; bob's first and one of    *)
(* our other device are suspect, and there is room for one floor.          *)
Others == {[s |-> bob, l |-> 1, id |-> 2], [s |-> bob, l |-> 2, id |-> 2],
           [s |-> me, l |-> 2, id |-> 3]}

Three == {The(alice, n) : n \in {1, 3}} \cup Others

AliceStarts == [p \in Peer |-> First \cup Others]

SomeBad ==
    [p \in Peer |-> [r \in Row |->
        CASE r = The(alice, 1) -> "refused"
          [] r.s = me \/ (r.s = bob /\ r.l = 1) -> "suspect"
          [] OTHER -> "ok"]]
=============================================================================
