------------------------------ MODULE PushPlan ------------------------------
(***************************************************************************)
(* Rows of a room's history and the ways one push may cut them into        *)
(* batches (frontend/src/lib/transport/sync-push.ts, message-order.ts).    *)
(*                                                                         *)
(* A row is reduced to what synchronisation looks at: its sender s, its    *)
(* lamport l and its id.  A plan assigns every row of a push to a batch    *)
(* number; only the order of the batches matters to the receiver, so a     *)
(* plan keeps batch contents as sets.  A batch closes early once it        *)
(* carries enough bytes; row sizes are left out, so Plans(S) admits every  *)
(* cut of at most BatchSize rows.  Module SyncPush holds planPush itself   *)
(* and checks that it only ever produces members of Plans(S).              *)
(***************************************************************************)
EXTENDS Integers, FiniteSets

CONSTANTS
    Sender,     \* identities that author messages
    Row,        \* the messages that can exist: records [s, l, id]
    Quiet,      \* the rows that are plugin updates, which no page shows
    PageSize,   \* PAGE_SIZE
    BatchSize   \* BATCH_SIZE

ASSUME RowAssumption == Row \subseteq [s : Sender, l : Nat, id : Nat]

ASSUME SizeAssumption == Quiet \subseteq Row /\ PageSize \in Nat \ {0} /\ BatchSize \in Nat \ {0}

(* compareMessages: by lamport, then by id. *)
Before(r, t) == r.l < t.l \/ (r.l = t.l /\ r.id < t.id)

(* One identity never issues a lamport twice in a room.  True of a single  *)
(* device (nextMessageLamport), not of two devices sharing an identity.    *)
UniqueLamports == \A r, t \in Row : r.s = t.s /\ r.l = t.l => r = t

(* What a row or a claim says about its sender: <<sender, lamport>>. *)
Claim == Sender \X Nat

ClaimOf(r) == <<r.s, r.l>>

ClaimsOf(S) == {ClaimOf(r) : r \in S}

(* A watermark map: per sender the highest lamport claimed, NoMark if none *)
(* is (the code's `?? -1`).                                                *)
NoMark == -1

Marks == [Sender -> Nat \cup {NoMark}]

NoMarks == [s \in Sender |-> NoMark]

Higher(a, b) == IF a < b THEN b ELSE a

(* The highest of a set of lamports, none if the set has no highest. *)
Top(L, none) ==
    IF \E n \in L : \A m \in L : m <= n THEN CHOOSE n \in L : \A m \in L : m <= n ELSE none

TopLamport(S) == Top({r.l : r \in S}, 0)

RaiseBlindly(marks, c) == [marks EXCEPT ![c[1]] = c[2]]

(* A watermark only ever advances. *)
Raise(marks, c) == [marks EXCEPT ![c[1]] = Higher(@, c[2])]

(* Rows above a digest's watermarks: what the peer that sent it lacks. *)
RowsAbove(S, marks) == {r \in S : r.l > marks[r.s]}

-----------------------------------------------------------------------------
(* A plan: rows, the number of batches, how many of them are head batches, *)
(* and the batch (from 1) each row travels in, 0 if it does not.           *)
PlanRecord == [rows : SUBSET Row, count : Nat, heads : Nat, at : [Row -> Nat]]

BatchRows(plan, i) == {r \in plan.rows : plan.at[r] = i}

(* The newest page: back to the PageSize-th row it would show.  Without a  *)
(* shown row left below it there is no head.                               *)
NewestPage(S) == {r \in S : Cardinality({t \in S \ Quiet : Before(r, t)}) < PageSize}

HeadRows(S) == IF S \subseteq NewestPage(S) \cup Quiet THEN {} ELSE NewestPage(S)

(* Rows r before t: the head is newer than the rest and goes newest first, *)
(* the rest goes oldest first.                                             *)
PacedPair(r, t, heads, at) ==
    \/ at[t] <= heads /\ at[r] > heads
    \/ at[t] <= heads /\ at[r] <= heads /\ at[t] <= at[r]
    \/ at[t] > heads /\ at[r] > heads /\ at[r] <= at[t]

(* chunk: batches are cut after the rows in ends, the head H sent newest   *)
(* first and the rest oldest first.                                        *)
Chunked(S, H, ends) ==
    LET heads == Cardinality(ends \cap H) IN
    [rows |-> S, count |-> Cardinality(ends), heads |-> heads,
     at |-> [r \in Row |->
               IF r \notin S THEN 0
               ELSE IF r \in H THEN 1 + Cardinality({e \in ends \cap H : Before(r, e)})
               ELSE 1 + heads + Cardinality({e \in ends \ H : Before(e, r)})]]

(* Every row has a batch, every batch a row, and none more than BatchSize. *)
Cut(plan) ==
    /\ plan \in PlanRecord
    /\ \A r \in plan.rows : plan.at[r] \in 1..plan.count
    /\ \A i \in 1..plan.count : Cardinality(BatchRows(plan, i)) \in 1..BatchSize

(* The plans of a current build for the rows S. *)
Plans(S) ==
    { plan \in {Chunked(S, HeadRows(S), ends) : ends \in SUBSET S} :
        /\ Cut(plan)
        /\ \A r, t \in S : Before(r, t) => PacedPair(r, t, plan.heads, plan.at) }

(* An older build: newest first throughout, and no order on the frames. *)
LegacyPlans(S) ==
    { plan \in {Chunked(S, S, ends) : ends \in SUBSET S} :
        /\ Cut(plan)
        /\ \A r, t \in S : Before(r, t) => plan.at[t] <= plan.at[r] }
=============================================================================
