--------------------------- MODULE SyncPushProofs ---------------------------
(***************************************************************************)
(* The order of a push on the wire, for every plan, every number of tries  *)
(* and every pattern of refusals.  What planPush cuts (PushIsAPlan,        *)
(* BatchesFit) is a matter of its loops and stays with TLC.                *)
(***************************************************************************)
EXTENDS SyncPush, TLAPS

(* What FramesInOrder needs of every state: nothing past the frame being   *)
(* sent has arrived, and every frame that was accepted has.                *)
WireInv ==
    /\ index \in Nat /\ wire \in Seq(Nat)
    /\ \A k \in DOMAIN wire : wire[k] <= index
    /\ \A i \in 0..(index - 1) : \E j \in DOMAIN wire : wire[j] = i
    /\ FramesInOrder

(* On w every frame up to number n has arrived, each behind those in front *)
(* of it, and none past it has.                                            *)
AllUpTo(w, n) ==
    /\ w \in Seq(Nat)
    /\ \A k \in DOMAIN w : w[k] <= n
    /\ \A i \in 0..n : \E j \in DOMAIN w : w[j] = i
    /\ \A k \in DOMAIN w : \A i \in 0..(w[k] - 1) : \E j \in 1..(k - 1) : w[j] = i

(* The frame being sent arrives: everything in front of it is there. *)
LEMMA FrameArrives ==
    ASSUME WireInv, NEW w, w = Append(wire, index)
    PROVE  AllUpTo(w, index)
<1> DEFINE n == Len(wire)
<1>1. /\ w \in Seq(Nat) /\ n \in Nat /\ DOMAIN w = 1..(n + 1) /\ DOMAIN wire = 1..n
      /\ w[n + 1] = index
      /\ \A k \in 1..n : w[k] = wire[k]
  BY DEF WireInv
<1> HIDE DEF n
<1>2. \A i \in 0..(index - 1) : \E j \in 1..n : w[j] = i
  BY <1>1, Zenon DEF WireInv
<1>3. ASSUME NEW k \in 1..(n + 1)
      PROVE  w[k] <= index
  <2>1. index \in Nat /\ \A j \in 1..n : wire[j] <= index
    BY <1>1, Zenon DEF WireInv
  <2>2. CASE k = n + 1
    BY <1>1, <2>1, <2>2
  <2>3. CASE k \in 1..n
    BY <1>1, <2>1, <2>3, Zenon
  <2> QED
    BY <1>1, <2>2, <2>3
<1>4. ASSUME NEW i \in 0..index
      PROVE  \E j \in 1..(n + 1) : w[j] = i
  BY <1>1, <1>2 DEF WireInv
<1>5. ASSUME NEW k \in 1..(n + 1), NEW i \in 0..(w[k] - 1)
      PROVE  \E j \in 1..(k - 1) : w[j] = i
  <2>1. CASE k = n + 1
    BY <1>1, <1>2, <1>5, <2>1
  <2>2. CASE k # n + 1
    <3>1. k \in 1..n /\ i \in 0..(wire[k] - 1)
      BY <1>1, <1>5, <2>2
    <3>2. PICK j \in 1..(k - 1) : wire[j] = i
      BY <1>1, <3>1 DEF WireInv, FramesInOrder
    <3> QED
      BY <1>1, <3>1, <3>2
  <2> QED
    BY <2>1, <2>2
<1> QED
  BY <1>1, <1>3, <1>4, <1>5 DEF AllUpTo

LEMMA WireKept ==
    ASSUME WireInv, [Next]_vars
    PROVE  WireInv'
<1>1. CASE UNCHANGED sendVars
  BY <1>1 DEF WireInv, FramesInOrder, sendVars
<1>2. CASE Accepted
  <2>1. wire' = Append(wire, index) /\ index' = index + 1
    BY <1>2 DEF Accepted
  <2>2. index \in Nat
    BY DEF WireInv
  <2>3. /\ wire' \in Seq(Nat)
        /\ \A k \in DOMAIN wire' : wire'[k] <= index
        /\ \A i \in 0..index : \E j \in DOMAIN wire' : wire'[j] = i
        /\ FramesInOrder'
    <3>1. AllUpTo(wire', index)
      BY <2>1, FrameArrives, Zenon
    <3> QED
      BY <3>1, Zenon DEF AllUpTo, FramesInOrder
  <2>4. \A k \in DOMAIN wire' : wire'[k] \in Nat
    BY <2>3
  <2>5. \A k \in DOMAIN wire' : wire'[k] <= index'
    BY <2>1, <2>2, <2>3, <2>4
  <2>6. 0..(index' - 1) = 0..index /\ index' \in Nat
    BY <2>1, <2>2
  <2> QED
    BY <2>3, <2>5, <2>6, Zenon DEF WireInv
<1>3. CASE Refused
  <2>1. index' = index /\ (wire' = wire \/ wire' = Append(wire, index))
    BY <1>3 DEF Refused
  <2>2. CASE wire' = wire
    BY <2>1, <2>2 DEF WireInv, FramesInOrder
  <2>3. CASE wire' = Append(wire, index)
    <3>1. /\ wire' \in Seq(Nat)
          /\ \A k \in DOMAIN wire' : wire'[k] <= index
          /\ \A i \in 0..index : \E j \in DOMAIN wire' : wire'[j] = i
          /\ FramesInOrder'
      <4>1. AllUpTo(wire', index)
        BY <2>3, FrameArrives, Zenon
      <4> QED
        BY <4>1, Zenon DEF AllUpTo, FramesInOrder
    <3>2. index \in Nat /\ \A i \in 0..(index - 1) : i \in 0..index
      BY DEF WireInv
    <3> QED
      BY <2>1, <3>1, <3>2, Zenon DEF WireInv
  <2> QED
    BY <2>1, <2>2, <2>3
<1> QED
  BY <1>1, <1>2, <1>3, Zenon DEF Next, vars, sendVars, planVars, ScanRow, ScanEnds, ChunkRow, ChunkEnds,
         NotAlive, Done

(* Whatever is refused, lost or sent twice, and wherever the push stops, a *)
(* frame arrives only behind every frame in front of it, SyncComplete last *)
(* (runPush in sync-push.ts).                                              *)
THEOREM FramesInOrderHolds == Spec => []FramesInOrder
<1>1. Init => WireInv
  BY DEF Init, WireInv, FramesInOrder
<1>2. WireInv => FramesInOrder
  BY DEF WireInv
<1> QED
  BY <1>1, <1>2, WireKept, PTL DEF Spec
=============================================================================
