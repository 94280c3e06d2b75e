----------------------------- MODULE RoomSyncInv -----------------------------
(***************************************************************************)
(* The inductive invariants behind the theorems of RoomSyncProofs: what    *)
(* every step relies on and re-establishes.  TLC checks them on small      *)
(* instances; the proofs use them for every value of the constants.        *)
(***************************************************************************)
EXTENDS RoomSync

(* The push open from a peer is one of that peer's, under a number already *)
(* issued, not ended, and counted by its room (pushes and RoomState.open   *)
(* in sync-inbound.ts).                                                    *)
OpenPushesCounted ==
    \A p \in Peer : cur[p] # 0 =>
        /\ cur[p] \in open /\ cur[p] <= started
        /\ push[cur[p]].peer = p /\ ~push[cur[p]].ended

HoldInv == HeldWhileUnsettled /\ OpenPushesCounted

(* Every row of a plan travels in one of its batches. *)
Spread(plan) == \A r \in plan.rows : plan.at[r] \in 1..plan.count

(* The head of a plan is newer than its rest, which goes oldest first. *)
Paced(plan) == \A r, t \in plan.rows : Before(r, t) => PacedPair(r, t, plan.heads, plan.at)

(* A batch carries what its plan says: the rows of that index, and "asc"   *)
(* only past the head of a paced plan.                                     *)
Faithful(b, plan) ==
    /\ b.rows = BatchRows(plan, b.index + 1)
    /\ b.order = "asc" => b.index >= plan.heads /\ Paced(plan)

(* What a member sends is cut from a plan (planPush, _pushRows). *)
FramesFaithful ==
    \A p \in Peer :
        /\ out[p].active => Spread(out[p].plan) /\ (p \notin Legacy => Paced(out[p].plan))
        /\ \A i \in 1..Len(chan[p]) : chan[p][i].kind = "batch" =>
              /\ Spread(chan[p][i].plan)
              /\ chan[p][i].total = chan[p][i].plan.count
              /\ Faithful(chan[p][i], chan[p][i].plan)

IsBatch(t) == t.kind = "batch"

OnlyBatches(x) == \A i \in 1..Len(x.tasks) : IsBatch(x.tasks[i])

(* The batches of a push are queued before the task that ends it. *)
QueueOrdered(x) ==
    \A i, j \in 1..Len(x.tasks) : i < j /\ IsBatch(x.tasks[j]) => IsBatch(x.tasks[i])

(* With the rows in S stored, r came, or the push can tell why not. *)
Covered(x, r, S) == r \in S \/ RefusedForGood(x.peer, r) \/ ClaimOf(r) \in x.floors

Queued(x, r) == \E i \in 1..Len(x.tasks) : IsBatch(x.tasks[i]) /\ x.tasks[i].index + 1 = x.plan.at[r]

(* A push has every batch up to the last it took, handled or still queued, *)
(* in order: only what is queued is not yet covered.                       *)
NothingSkipped(x, S) ==
    /\ Spread(x.plan) /\ x.total = x.plan.count
    /\ \A i \in 1..Len(x.tasks) : IsBatch(x.tasks[i]) =>
          x.tasks[i].index < x.next /\ Faithful(x.tasks[i], x.plan)
    /\ \A i, j \in 1..Len(x.tasks) :
          i < j /\ IsBatch(x.tasks[j]) => x.tasks[i].index < x.tasks[j].index
    /\ \A r \in x.plan.rows : x.plan.at[r] <= x.next => Covered(x, r, S) \/ Queued(x, r)

(* What the push is about to claim skips none of its rows. *)
ClaimsCovered(x, S) ==
    \A c \in x.todo : \A r \in x.plan.rows :
        r.s = c[1] /\ r.l <= c[2] => r \in S \/ RefusedForGood(x.peer, r)

PushOK(x, S) ==
    /\ QueueOrdered(x)
    /\ x.overflowed => x.broken
    /\ ~x.spliced /\ ~x.broken => NothingSkipped(x, S)
    /\ ~x.spliced => ClaimsCovered(x, S)

(* What makes the claims of a push right (batch, account and finish in     *)
(* sync-inbound.ts).                                                       *)
PushesOK ==
    /\ \A q \in PushId : PushOK(push[q], store)
    /\ \A p \in Peer : cur[p] # 0 => OnlyBatches(push[cur[p]])

DeliveryInv == FramesFaithful /\ PushesOK
=============================================================================
