--------------------------- MODULE RoomSyncProofs ---------------------------
(***************************************************************************)
(* One push and its queue: what keeps PushOK as frames are taken, batches  *)
(* handled and ends queued, and when rows may claim.  From there: what a   *)
(* push claims skips none of its rows, whatever is lost, repeated, refused *)
(* or interrupted, as long as no sender issues a lamport twice.            *)
(***************************************************************************)
EXTENDS RoomSyncHolds

(* Leaves are for the SMT solver, unless they name another prover. *)
USE SMTT(30)

-----------------------------------------------------------------------------
(* One push.  S is the set of rows stored. *)

(* What a push is judged by, all but its queue and its claims. *)
SameDelivery(x, y) ==
    /\ y.plan = x.plan /\ y.peer = x.peer /\ y.spliced = x.spliced
    /\ y.broken = x.broken /\ y.overflowed = x.overflowed /\ y.floors = x.floors
    /\ y.next = x.next /\ y.total = x.total

LEMMA FieldTypes ==
    ASSUME NEW x \in Push
    PROVE  /\ x.tasks \in Seq(Task) /\ x.todo \subseteq Claim /\ x.floors \subseteq Claim
           /\ x.pending \subseteq Claim
           /\ x.next \in Nat /\ x.total \in Nat
           /\ x.plan \in PlanRecord /\ x.peer \in Peer
           /\ x.broken \in BOOLEAN /\ x.spliced \in BOOLEAN /\ x.overflowed \in BOOLEAN
BY Zenon DEF Push

LEMMA TaskTypes ==
    ASSUME NEW x \in Push, NEW i \in 1..Len(x.tasks)
    PROVE  x.tasks[i] \in Task /\ x.tasks[i].index \in Nat
<1>1. x.tasks[i] \in Task
  BY FieldTypes
<1> QED
  BY <1>1 DEF Task

LEMMA LastOrBefore ==
    ASSUME NEW n \in Nat, NEW i \in 1..(n + 1)
    PROVE  i = n + 1 \/ i \in 1..n
OBVIOUS

(* Numbers of batches and places in a queue. *)
LEMMA NoPlaces ==
    1..Len(<<>>) = {}
OBVIOUS

LEMMA CountsFromOne ==
    ASSUME NEW n \in Nat, NEW a \in 1..n
    PROVE  ~(a <= 0)
OBVIOUS

LEMMA NotBelow ==
    ASSUME NEW a \in Nat, NEW b \in Nat, ~(a < b)
    PROVE  a >= b
OBVIOUS

LEMMA FirstOrLater ==
    ASSUME NEW n \in Nat, NEW i \in 1..n
    PROVE  i = 1 \/ 1 < i
OBVIOUS

LEMMA InBetween ==
    ASSUME NEW n \in Nat, NEW m \in Nat, NEW i \in 1..m, NEW j \in 1..(n + 1), i < j
    PROVE  i \in 1..n
OBVIOUS

LEMMA BothMoveUp ==
    ASSUME NEW n \in Nat, NEW i \in 1..n, NEW j \in 1..n, i < j
    PROVE  i + 1 < j + 1
OBVIOUS

LEMMA SmallerIfOther ==
    ASSUME NEW a \in Nat, NEW b \in Nat, a <= b, a # b
    PROVE  a < b
OBVIOUS

LEMMA NextIsNotPast ==
    ASSUME NEW a \in Nat
    PROVE  a + 1 <= a + 1
OBVIOUS

LEMMA UpToTheNext ==
    ASSUME NEW a \in Nat, NEW b \in Nat, NEW c \in Nat, a <= b + 1, b < c
    PROVE  a <= c
OBVIOUS

LEMMA NoneAfterTheLast ==
    ASSUME NEW a \in Nat, NEW b \in Nat, a < b, b + 1 <= a + 1
    PROVE  FALSE
OBVIOUS

LEMMA BeforeTheNext ==
    ASSUME NEW a \in Nat, NEW b \in Nat, a < b
    PROVE  a < b + 1
OBVIOUS

LEMMA TheNextIsPast ==
    ASSUME NEW a \in Nat
    PROVE  a < a + 1
OBVIOUS

LEMMA BehindOneOfThem ==
    ASSUME NEW n \in Nat, NEW m \in Nat, NEW i \in 1..m, NEW j \in 1..n, i < j
    PROVE  i \in 1..n
OBVIOUS

LEMMA NextIsNat ==
    ASSUME NEW n \in Nat
    PROVE  n + 1 \in Nat
OBVIOUS

LEMMA LastPlace ==
    ASSUME NEW n \in Nat
    PROVE  n + 1 \in 1..(n + 1)
OBVIOUS

LEMMA OneMorePlace ==
    ASSUME NEW n \in Nat, NEW i \in 1..n
    PROVE  i \in 1..(n + 1)
OBVIOUS

LEMMA UpToCount ==
    ASSUME NEW n \in Nat, NEW a \in 1..n
    PROVE  a <= n
OBVIOUS

LEMMA NextOrBefore ==
    ASSUME NEW n \in Nat, NEW a \in Nat, a <= n + 1
    PROVE  a <= n \/ a = n + 1
OBVIOUS

(* Past the head, a paced plan sends the older of two rows no later. *)
LEMMA OlderNotLater ==
    ASSUME NEW r, NEW h, NEW heads \in Nat, NEW at, NEW n \in Nat,
           PacedPair(r, h, heads, at), at[r] \in Nat, at[h] = n + 1, n >= heads
    PROVE  at[r] <= n + 1
BY DEF PacedPair

(* Rows are only ever added to the store. *)
LEMMA StoreGrows ==
    ASSUME NEW x, NEW S, NEW R, S \subseteq R, PushOK(x, S)
    PROVE  PushOK(x, R)
BY Zenon DEF PushOK, NothingSkipped, Covered, ClaimsCovered

LEMMA NoPushOK ==
    ASSUME NEW S
    PROVE  PushOK(NoPush, S)
<1>1. /\ NoPush.tasks = <<>> /\ NoPush.todo = {} /\ ~NoPush.overflowed
      /\ NoPush.plan = NoPlan /\ NoPush.total = 0
  BY Zenon DEF NoPush
<1>2. NoPlan.rows = {} /\ NoPlan.count = 0
  BY DEF NoPlan
<1>3. 1..Len(NoPush.tasks) = {}
  BY <1>1
<1> HIDE DEF NoPush, NoPlan
<1> QED
  BY <1>1, <1>2, <1>3, Zenon DEF PushOK, QueueOrdered, NothingSkipped, ClaimsCovered, Spread

(* A task goes to the end of a queue. *)
LEMMA QueuedLast ==
    ASSUME NEW ts \in Seq(Task), NEW e \in Task, NEW us, us = Append(ts, e), ~IsBatch(e)
    PROVE  /\ Len(us) = Len(ts) + 1 /\ Len(ts) \in Nat /\ Len(us) \in Nat
           /\ \A i \in 1..Len(ts) : i \in 1..Len(us) /\ us[i] = ts[i]
           /\ \A i \in 1..Len(us) : IsBatch(us[i]) => i \in 1..Len(ts)
BY Appended

(* The task that ends a push is queued. *)
LEMMA EndQueued ==
    ASSUME NEW S, NEW x \in Push, NEW y \in Push, NEW k \in {"finish", "short"},
           SameDelivery(x, y), y.todo = x.todo, y.tasks = Append(x.tasks, EndTask(k)),
           PushOK(x, S)
    PROVE  PushOK(y, S)
<1>1. x.tasks \in Seq(Task) /\ EndTask(k) \in Task /\ ~IsBatch(EndTask(k))
  BY FieldTypes, TasksType, Zenon DEF EndTask, IsBatch
<1>2. /\ Len(y.tasks) \in Nat /\ Len(x.tasks) \in Nat
      /\ \A i \in 1..Len(x.tasks) : i \in 1..Len(y.tasks) /\ y.tasks[i] = x.tasks[i]
      /\ \A i \in 1..Len(y.tasks) : IsBatch(y.tasks[i]) => i \in 1..Len(x.tasks)
  BY <1>1, QueuedLast, Zenon
<1>3. QueueOrdered(y)
  <2> SUFFICES ASSUME NEW i \in 1..Len(y.tasks), NEW j \in 1..Len(y.tasks),
                      i < j, IsBatch(y.tasks[j])
               PROVE  IsBatch(y.tasks[i])
    BY Zenon DEF QueueOrdered
  <2>1. j \in 1..Len(x.tasks)
    BY <1>2, Zenon
  <2>2. i \in 1..Len(x.tasks)
    BY <1>2, <2>1, BehindOneOfThem, Zenon
  <2>3. QueueOrdered(x)
    BY Zenon DEF PushOK
  <2> QED
    BY <1>2, <2>1, <2>2, <2>3, Zenon DEF QueueOrdered
<1>4. ASSUME ~y.spliced, ~y.broken
      PROVE  NothingSkipped(y, S)
  <2>1. NothingSkipped(x, S)
    BY <1>4, Zenon DEF PushOK, SameDelivery
  <2>2. \A r : Queued(x, r) => Queued(y, r)
    BY <1>2, Zenon DEF Queued, SameDelivery
  <2>3. \A r : Covered(x, r, S) => Covered(y, r, S)
    BY Zenon DEF Covered, SameDelivery
  <2> QED
    <3>1. \A i \in 1..Len(y.tasks) : IsBatch(y.tasks[i]) =>
             y.tasks[i].index < y.next /\ Faithful(y.tasks[i], y.plan)
      BY <1>2, <2>1, Zenon DEF NothingSkipped, SameDelivery
    <3>2. ASSUME NEW i \in 1..Len(y.tasks), NEW j \in 1..Len(y.tasks),
                 i < j, IsBatch(y.tasks[j])
          PROVE  y.tasks[i].index < y.tasks[j].index
      <4>1. j \in 1..Len(x.tasks)
        BY <1>2, <3>2, Zenon
      <4>2. i \in 1..Len(x.tasks)
        BY <1>2, <3>2, <4>1, BehindOneOfThem, Zenon
      <4>3. y.tasks[i] = x.tasks[i] /\ y.tasks[j] = x.tasks[j]
        BY <1>2, <4>1, <4>2, Zenon
      <4> QED
        BY <2>1, <3>2, <4>1, <4>2, <4>3, Zenon DEF NothingSkipped
    <3>3. \A r \in y.plan.rows : y.plan.at[r] <= y.next => Covered(y, r, S) \/ Queued(y, r)
      BY <2>1, <2>2, <2>3, Zenon DEF NothingSkipped, SameDelivery
    <3>4. Spread(y.plan) /\ y.total = y.plan.count
      BY <2>1, Zenon DEF NothingSkipped, SameDelivery
    <3> QED
      BY <3>1, <3>2, <3>3, <3>4, Zenon DEF NothingSkipped
<1>5. ~y.spliced => ClaimsCovered(y, S)
  BY Zenon DEF PushOK, ClaimsCovered, SameDelivery
<1> QED
  BY <1>3, <1>4, <1>5, Zenon DEF PushOK, SameDelivery

(* A push whose first task is no batch has none left. *)
LEMMA NoneLeft ==
    ASSUME NEW x \in Push, QueueOrdered(x), x.tasks # <<>>, ~IsBatch(Head(x.tasks))
    PROVE  \A i \in 1..Len(x.tasks) : ~IsBatch(x.tasks[i])
<1>1. x.tasks \in Seq(Task)
  BY FieldTypes, Zenon
<1>2. Head(x.tasks) = x.tasks[1] /\ Len(x.tasks) \in Nat /\ Len(x.tasks) > 0
  BY <1>1
<1> QED
  BY <1>2 DEF QueueOrdered

(* The end of a push moves on: no batch was left, and none is. *)
LEMMA EndingMovesOn ==
    ASSUME NEW S, NEW x \in Push, NEW y \in Push, PushOK(x, S), SameDelivery(x, y),
           \A i \in 1..Len(x.tasks) : ~IsBatch(x.tasks[i]),
           \A i \in 1..Len(y.tasks) : ~IsBatch(y.tasks[i]),
           ~y.spliced => ClaimsCovered(y, S)
    PROVE  PushOK(y, S)
<1>1. QueueOrdered(y)
  BY Zenon DEF QueueOrdered
<1>2. ASSUME ~y.spliced, ~y.broken
      PROVE  NothingSkipped(y, S)
  <2>1. NothingSkipped(x, S)
    BY <1>2, Zenon DEF PushOK, SameDelivery
  <2>2. \A r : ~Queued(x, r)
    BY DEF Queued
  <2>3. \A r : Covered(x, r, S) => Covered(y, r, S)
    BY Zenon DEF Covered, SameDelivery
  <2> QED
    BY <2>1, <2>2, <2>3, Zenon DEF NothingSkipped, SameDelivery
<1> QED
  BY <1>1, <1>2 DEF PushOK, SameDelivery

(* No claim below the floors of a push passes a row that set one. *)
LEMMA FloorsStopClaims ==
    ASSUME NEW floors, NEW C, NEW c \in Claimable(C, floors), c \in Claim,
           NEW r \in Row, r.s = c[1], r.l <= c[2]
    PROVE  ClaimOf(r) \notin floors
<1> SUFFICES ASSUME ClaimOf(r) \in floors
             PROVE  FALSE
  OBVIOUS
<1>1. c[2] < ClaimOf(r)[2]
  BY DEF Claimable, BelowFloor, ClaimOf
<1> QED
  BY <1>1, RowAssumption DEF ClaimOf, Claim

(* A batch goes to the end of a queue, and maybe one task behind it. *)
Lengthened(us, ts, b, tail) ==
    /\ Len(ts) \in Nat /\ Len(us) \in Nat
    /\ \A i \in 1..Len(ts) : us[i] = ts[i]
    /\ us[Len(ts) + 1] = b
    /\ \A i \in 1..(Len(ts) + 1) : i \in 1..Len(us)
    /\ \A i \in 1..Len(us) : i \notin 1..(Len(ts) + 1) =>
          i - (Len(ts) + 1) \in 1..Len(tail) /\ us[i] = tail[i - (Len(ts) + 1)]

LEMMA BatchQueued ==
    ASSUME NEW ts \in Seq(Task), NEW b \in Task, NEW tail \in Seq(Task),
           NEW us, us = ts \o <<b>> \o tail
    PROVE  Lengthened(us, ts, b, tail)
<1> DEFINE n == Len(ts)
<1>1. /\ ts \o <<b>> \in Seq(Task) /\ Len(ts \o <<b>>) = n + 1 /\ n \in Nat
      /\ \A i \in 1..n : (ts \o <<b>>)[i] = ts[i]
      /\ (ts \o <<b>>)[n + 1] = b
  OBVIOUS
<1>2. Len(us) = n + 1 + Len(tail) /\ Len(tail) \in Nat
  BY <1>1
<1> QED
  BY <1>1, <1>2 DEF Lengthened

(* The next frame is taken.  All that matters of a frame is that it was    *)
(* cut from its plan.                                                      *)
LEMMA FrameTaken ==
    ASSUME NEW S, NEW x \in Push, NEW y \in Push, NEW f \in Frame, NEW tail \in Seq(Task),
           Faithful(f, f.plan), OnlyBatches(x), PushOK(x, S),
           Len(tail) \in {0, 1}, \A i \in 1..Len(tail) : ~IsBatch(tail[i]),
           y.plan = x.plan, y.peer = x.peer, y.overflowed = x.overflowed,
           y.floors = x.floors, y.total = x.total, y.todo = x.todo,
           y.next = f.index + 1, y.tasks = x.tasks \o <<BatchTask(f)>> \o tail,
           ~y.spliced => ~x.spliced /\ f.plan = x.plan,
           ~y.broken => ~x.broken /\ f.index = x.next
    PROVE  PushOK(y, S)
<1> DEFINE n == Len(x.tasks)
<1>1. /\ x.tasks \in Seq(Task) /\ BatchTask(f) \in Task /\ n \in Nat
      /\ x.next \in Nat /\ f.index \in Nat /\ x.plan \in PlanRecord
  BY FieldTypes, TasksType DEF Frame
<1>3. /\ Len(y.tasks) \in Nat
      /\ \A i \in 1..n : y.tasks[i] = x.tasks[i]
      /\ y.tasks[n + 1] = BatchTask(f)
      /\ \A i \in 1..(n + 1) : i \in 1..Len(y.tasks)
      /\ \A i \in 1..Len(y.tasks) : i \notin 1..(n + 1) =>
            i - (n + 1) \in 1..Len(tail) /\ y.tasks[i] = tail[i - (n + 1)]
  <2>1. Lengthened(y.tasks, x.tasks, BatchTask(f), tail)
    BY <1>1, BatchQueued, Zenon
  <2> QED
    BY <2>1, Zenon DEF Lengthened
<1>4. /\ IsBatch(BatchTask(f)) /\ BatchTask(f).index = f.index
      /\ BatchTask(f).rows = f.rows /\ BatchTask(f).order = f.order
  BY Zenon DEF IsBatch, BatchTask
<1>5. /\ \A i \in 1..(n + 1) : i \in 1..Len(y.tasks) /\ IsBatch(y.tasks[i])
      /\ \A i \in 1..Len(y.tasks) : IsBatch(y.tasks[i]) => i \in 1..(n + 1)
  <2>2. ASSUME NEW i \in 1..(n + 1)
        PROVE  i \in 1..Len(y.tasks) /\ IsBatch(y.tasks[i])
    <3>2. i = n + 1 \/ i \in 1..n
      BY <1>1, LastOrBefore, Zenon
    <3> QED
      BY <1>3, <1>4, <3>2, Zenon DEF OnlyBatches
  <2>3. ASSUME NEW i \in 1..Len(y.tasks), ~(i \in 1..(n + 1))
        PROVE  ~IsBatch(y.tasks[i])
    BY <1>3, <2>3, Zenon
  <2> QED
    BY <2>2, <2>3, ZenonT(60)
<1> HIDE DEF n
<1>6. QueueOrdered(y)
  <2> SUFFICES ASSUME NEW i \in 1..Len(y.tasks), NEW j \in 1..Len(y.tasks),
                      i < j, IsBatch(y.tasks[j])
               PROVE  IsBatch(y.tasks[i])
    BY Zenon DEF QueueOrdered
  <2>1. j \in 1..(n + 1)
    BY <1>5, Zenon
  <2>2. i \in 1..(n + 1)
    <3>1. n + 1 \in Nat
      BY <1>1, NextIsNat, Zenon
    <3> QED
      BY <1>3, <2>1, <3>1, BehindOneOfThem, Zenon
  <2> QED
    BY <1>5, <2>2, Zenon
<1>7. ASSUME ~y.spliced, ~y.broken
      PROVE  NothingSkipped(y, S)
  <2>1. NothingSkipped(x, S) /\ f.plan = x.plan /\ f.index = x.next
    BY <1>7, Zenon DEF PushOK
  <2>2. \A i \in 1..n : x.tasks[i].index \in Nat /\ x.tasks[i].index < x.next /\ Faithful(x.tasks[i], x.plan)
    BY <2>1, TaskTypes, Zenon DEF NothingSkipped, OnlyBatches, n
  <2>3. Faithful(BatchTask(f), x.plan)
    BY <1>4, <2>1, Zenon DEF Faithful
  <2>4. ASSUME NEW i \in 1..Len(y.tasks), IsBatch(y.tasks[i])
        PROVE  y.tasks[i].index < y.next /\ Faithful(y.tasks[i], y.plan)
    <3> DEFINE G == y.tasks[i].index < y.next /\ Faithful(y.tasks[i], y.plan)
    <3>1. ASSUME i = n + 1
          PROVE  G
      <4>1. y.tasks[i] = BatchTask(f)
        BY <1>3, <3>1, Zenon
      <4>2. f.index < y.next
        BY <1>1, TheNextIsPast, Zenon
      <4> QED
        BY <1>4, <2>3, <4>1, <4>2, Zenon
    <3>2. ASSUME i \in 1..n
          PROVE  G
      <4>1. y.tasks[i] = x.tasks[i]
        BY <1>3, <3>2, Zenon
      <4>2. x.tasks[i].index \in Nat /\ x.tasks[i].index < x.next /\ Faithful(x.tasks[i], x.plan)
        BY <2>2, <3>2, Zenon
      <4>3. x.tasks[i].index < y.next
        BY <1>1, <2>1, <4>2, BeforeTheNext, Zenon
      <4> QED
        BY <4>1, <4>2, <4>3, Zenon
    <3>3. i = n + 1 \/ i \in 1..n
      BY <1>1, <1>5, <2>4, LastOrBefore, Zenon
    <3> HIDE DEF G
    <3>4. G
      BY <3>1, <3>2, <3>3, Zenon
    <3> QED
      BY <3>4, Zenon DEF G
  <2>5. \A i, j \in 1..Len(y.tasks) :
           i < j /\ IsBatch(y.tasks[j]) => y.tasks[i].index < y.tasks[j].index
    <3> SUFFICES ASSUME NEW i \in 1..Len(y.tasks), NEW j \in 1..Len(y.tasks),
                        i < j, IsBatch(y.tasks[j])
                 PROVE  y.tasks[i].index < y.tasks[j].index
      BY ZenonT(60)
    <3>0. j \in 1..(n + 1)
      BY <1>5, Zenon
    <3>1. i \in 1..n
      BY <1>1, <1>3, <3>0, InBetween, Zenon
    <3>2. CASE j = n + 1
      <4>1. y.tasks[i] = x.tasks[i] /\ y.tasks[j] = BatchTask(f)
        BY <1>3, <3>1, <3>2, Zenon
      <4> QED
        BY <1>4, <2>1, <2>2, <3>1, <4>1, Zenon
    <3>3. CASE j \in 1..n
      BY <1>3, <2>1, <3>1, <3>3, Zenon DEF NothingSkipped, OnlyBatches, n
    <3>4. j = n + 1 \/ j \in 1..n
      BY <1>1, <3>0, LastOrBefore, Zenon
    <3> QED
      BY <3>2, <3>3, <3>4, Zenon
  <2>6. ASSUME NEW r \in y.plan.rows, y.plan.at[r] <= y.next
        PROVE  Covered(y, r, S) \/ Queued(y, r)
    <3>1. x.plan.at[r] \in Nat
      BY <1>1, Zenon DEF PlanRecord
    <3>2. CASE x.plan.at[r] <= x.next
      <4>1. Covered(x, r, S) \/ Queued(x, r)
        BY <2>1, <2>6, <3>2, Zenon DEF NothingSkipped
      <4>2. Queued(x, r) => Queued(y, r)
        <5> SUFFICES ASSUME NEW i \in 1..n, x.tasks[i].index + 1 = x.plan.at[r]
                     PROVE  Queued(y, r)
          BY Zenon DEF Queued, n
        <5>1. i \in 1..(n + 1)
          BY <1>1, OneMorePlace, Zenon
        <5> QED
          BY <1>3, <1>5, <5>1, Zenon DEF Queued
      <4> QED
        BY <4>1, <4>2, Zenon DEF Covered
    <3>3. CASE x.plan.at[r] = f.index + 1
      <4>1. n + 1 \in 1..Len(y.tasks)
        BY <1>1, <1>3, LastPlace, Zenon
      <4> QED
        BY <1>3, <1>4, <3>3, <4>1, ZenonT(60) DEF Queued
    <3> QED
      BY <1>1, <2>1, <2>6, <3>1, <3>2, <3>3, NextOrBefore, Zenon
  <2> QED
    BY <2>1, <2>4, <2>5, <2>6, ZenonT(60) DEF NothingSkipped
<1>8. ~y.spliced => ClaimsCovered(y, S)
  BY Zenon DEF PushOK, ClaimsCovered
<1>9. y.overflowed => y.broken
  BY Zenon DEF PushOK
<1> QED
  BY <1>6, <1>7, <1>8, <1>9, Zenon DEF PushOK

(* Where the first task of a queue goes, the others move up. *)
LEMMA TailTasks ==
    ASSUME NEW ts \in Seq(Task), ts # <<>>, NEW us, us = Tail(ts)
    PROVE  /\ us \in Seq(Task) /\ Len(us) \in Nat /\ Len(ts) = Len(us) + 1
           /\ Head(ts) = ts[1]
           /\ \A i \in 1..Len(us) : i + 1 \in 1..Len(ts) /\ us[i] = ts[i + 1]
           /\ \A i \in 1..Len(ts) : i # 1 => i - 1 \in 1..Len(us) /\ us[i - 1] = ts[i]
OBVIOUS

LEMMA FirstTask ==
    ASSUME NEW ts \in Seq(Task), ts # <<>>
    PROVE  Head(ts) = ts[1] /\ Len(ts) \in Nat /\ 1 \in 1..Len(ts)
OBVIOUS

MovedUp(us, ts) == \A i \in 1..Len(us) : i + 1 \in 1..Len(ts) /\ us[i] = ts[i + 1]

LEMMA TailMovesUp ==
    ASSUME NEW ts \in Seq(Task), ts # <<>>, NEW us, us = Tail(ts)
    PROVE  MovedUp(us, ts)
BY TailTasks DEF MovedUp

LEMMA OnlyBatchesLeft ==
    ASSUME NEW x \in Push, NEW y, x.tasks # <<>>, y.tasks = Tail(x.tasks), OnlyBatches(x)
    PROVE  OnlyBatches(y)
<1>1. x.tasks \in Seq(Task)
  BY FieldTypes, Zenon
<1>2. MovedUp(y.tasks, x.tasks)
  BY <1>1, TailMovesUp, Zenon
<1> QED
  BY <1>2, Zenon DEF MovedUp, OnlyBatches

(* A batch that brought no claims is dealt with; broken or not, what is    *)
(* queued behind it keeps its order.                                       *)
LEMMA BatchGone ==
    ASSUME NEW S, NEW R, NEW x \in Push, NEW y \in Push, PushOK(x, S), S \subseteq R,
           x.tasks # <<>>, y.tasks = Tail(x.tasks), y.plan = x.plan, y.peer = x.peer,
           y.total = x.total, y.next = x.next, y.spliced = x.spliced,
           x.floors \subseteq y.floors,
           ~y.broken => ~x.broken /\ ~y.overflowed,
           ~y.spliced /\ ~y.broken =>
              \A r \in Head(x.tasks).rows : Covered(y, r, R),
           ~y.spliced => ClaimsCovered(y, R)
    PROVE  PushOK(y, R)
<1> DEFINE n == Len(y.tasks)
<1>1. /\ x.tasks \in Seq(Task) /\ n \in Nat /\ Len(x.tasks) = n + 1
      /\ Head(x.tasks) = x.tasks[1]
      /\ \A i \in 1..n : i + 1 \in 1..Len(x.tasks) /\ y.tasks[i] = x.tasks[i + 1]
      /\ \A i \in 1..Len(x.tasks) : i # 1 => i - 1 \in 1..n /\ y.tasks[i - 1] = x.tasks[i]
  <2>1. x.tasks \in Seq(Task)
    BY FieldTypes, Zenon
  <2>2. n \in Nat /\ Len(x.tasks) = n + 1 /\ Head(x.tasks) = x.tasks[1]
    BY <2>1, TailTasks, Zenon
  <2>3. \A i \in 1..n : i + 1 \in 1..Len(x.tasks) /\ y.tasks[i] = x.tasks[i + 1]
    <3>1. MovedUp(y.tasks, x.tasks)
      BY <2>1, TailMovesUp, Zenon
    <3> QED
      BY <3>1, Zenon DEF MovedUp
  <2>4. \A i \in 1..Len(x.tasks) : i # 1 => i - 1 \in 1..n /\ y.tasks[i - 1] = x.tasks[i]
    BY <2>1, TailTasks, Zenon
  <2> QED
    BY <2>1, <2>2, <2>3, <2>4, Zenon
<1> HIDE DEF n
<1>2. QueueOrdered(y)
  <2> SUFFICES ASSUME NEW i \in 1..n, NEW j \in 1..n, i < j, IsBatch(y.tasks[j])
               PROVE  IsBatch(y.tasks[i])
    BY Zenon DEF QueueOrdered, n
  <2>1. i + 1 < j + 1 /\ i + 1 \in 1..Len(x.tasks) /\ j + 1 \in 1..Len(x.tasks)
    BY <1>1, BothMoveUp, Zenon
  <2>2. y.tasks[i] = x.tasks[i + 1] /\ y.tasks[j] = x.tasks[j + 1]
    BY <1>1, Zenon
  <2> QED
    BY <2>1, <2>2, ZenonT(60) DEF PushOK, QueueOrdered
<1>3. ASSUME ~y.spliced, ~y.broken
      PROVE  NothingSkipped(y, R)
  <2>1. NothingSkipped(x, S)
    BY <1>3, Zenon DEF PushOK
  <2>2. ASSUME NEW i \in 1..n, IsBatch(y.tasks[i])
        PROVE  y.tasks[i].index < y.next /\ Faithful(y.tasks[i], y.plan)
    BY <1>1, <2>1, <2>2, Zenon DEF NothingSkipped
  <2>3. ASSUME NEW i \in 1..n, NEW j \in 1..n, i < j, IsBatch(y.tasks[j])
        PROVE  y.tasks[i].index < y.tasks[j].index
    <3>1. i + 1 < j + 1 /\ i + 1 \in 1..Len(x.tasks) /\ j + 1 \in 1..Len(x.tasks)
      BY <1>1, <2>3, BothMoveUp, Zenon
    <3>2. y.tasks[i] = x.tasks[i + 1] /\ y.tasks[j] = x.tasks[j + 1]
      BY <1>1, Zenon
    <3> QED
      BY <2>1, <2>3, <3>1, <3>2, Zenon DEF NothingSkipped
  <2>4. ASSUME NEW r \in y.plan.rows, y.plan.at[r] <= y.next
        PROVE  Covered(y, r, R) \/ Queued(y, r)
    <3>1. Covered(x, r, S) \/ Queued(x, r)
      BY <2>1, <2>4, Zenon DEF NothingSkipped
    <3>2. ASSUME Covered(x, r, S)
          PROVE  Covered(y, r, R)
      BY <3>2, Zenon DEF Covered
    <3>3. ASSUME Queued(x, r)
          PROVE  Covered(y, r, R) \/ Queued(y, r)
      <4>1. PICK i \in 1..Len(x.tasks) :
               IsBatch(x.tasks[i]) /\ x.tasks[i].index + 1 = x.plan.at[r]
        BY <3>3, Zenon DEF Queued
      <4>2. CASE i = 1
        <5>1. Faithful(x.tasks[i], x.plan)
          BY <2>1, <4>1, Zenon DEF NothingSkipped
        <5>2. r \in Head(x.tasks).rows
          BY <1>1, <4>1, <4>2, <5>1, Zenon DEF Faithful, BatchRows
        <5> QED
          BY <1>3, <5>2, Zenon
      <4>3. CASE i # 1
        <5>1. i - 1 \in 1..n /\ y.tasks[i - 1] = x.tasks[i]
          BY <1>1, <4>3, Zenon
        <5> QED
          BY <4>1, <5>1, ZenonT(60) DEF Queued, n
      <4> QED
        BY <4>2, <4>3, Zenon
    <3> QED
      BY <3>1, <3>2, <3>3, Zenon
  <2> QED
    BY <2>1, <2>2, <2>3, <2>4, Zenon DEF NothingSkipped, n
<1> QED
  BY <1>2, <1>3, Zenon DEF PushOK

(* Rows that came oldest first may claim: all below them came before. *)
LEMMA AscClaims ==
    ASSUME UniqueLamports, NEW S, NEW R, NEW x \in Push, NEW y \in Push, NEW H,
           NothingSkipped(x, S), QueueOrdered(x), S \subseteq R,
           x.tasks # <<>>, IsBatch(Head(x.tasks)), Head(x.tasks).order = "asc",
           H \subseteq Head(x.tasks).rows, y.plan = x.plan, y.peer = x.peer,
           x.floors \subseteq y.floors,
           \A r \in Head(x.tasks).rows : Covered(y, r, R),
           y.todo = Claimable(ClaimsOf(H), y.floors)
    PROVE  ClaimsCovered(y, R)
<1> DEFINE t == Head(x.tasks)
<1>1. /\ x.tasks \in Seq(Task) /\ t = x.tasks[1] /\ Len(x.tasks) \in Nat /\ 1 \in 1..Len(x.tasks)
      /\ x.plan \in PlanRecord /\ x.next \in Nat /\ y.todo \subseteq Claim
  <2>1. x.tasks \in Seq(Task) /\ x.plan \in PlanRecord /\ x.next \in Nat /\ y.todo \subseteq Claim
    BY FieldTypes, Zenon
  <2> QED
    BY <2>1, FirstTask, Zenon
<1>2. t.index \in Nat
  BY <1>1, TaskTypes, Zenon
<1>3. /\ t.index < x.next /\ t.rows = BatchRows(x.plan, t.index + 1)
      /\ t.index >= x.plan.heads /\ Paced(x.plan)
  BY <1>1, Zenon DEF NothingSkipped, Faithful
<1> HIDE DEF t
<1> SUFFICES ASSUME NEW c \in y.todo, NEW r \in x.plan.rows, r.s = c[1], r.l <= c[2]
             PROVE  r \in R \/ RefusedForGood(y.peer, r)
  BY Zenon DEF ClaimsCovered
<1>4. PICK h \in H : c = ClaimOf(h)
  BY Zenon DEF Claimable, ClaimsOf
<1>5. /\ h \in x.plan.rows /\ x.plan.at[h] = t.index + 1 /\ r.s = h.s /\ r.l <= h.l
      /\ r \in Row /\ h \in Row /\ r.l \in Nat /\ h.l \in Nat
  <2>1. h \in x.plan.rows /\ x.plan.at[h] = t.index + 1
    BY <1>3, Zenon DEF BatchRows, t
  <2>2. r \in Row /\ h \in Row
    BY <1>1, <2>1, Zenon DEF PlanRecord
  <2>3. r.l \in Nat /\ h.l \in Nat
    BY <2>2, RowAssumption, Zenon
  <2> QED
    BY <1>4, <2>1, <2>2, <2>3, Zenon DEF ClaimOf
<1>6. x.plan.at[r] \in Nat /\ x.plan.heads \in Nat
  BY <1>1, <1>5, Zenon DEF PlanRecord
<1>7. x.plan.at[r] <= t.index + 1
  <2>1. CASE r = h
    BY <1>2, <1>5, <2>1, NextIsNotPast, Zenon
  <2>2. CASE r # h
    <3>1. r.l # h.l
      BY <1>5, <2>2, Zenon DEF UniqueLamports
    <3>2. Before(r, h)
      BY <1>5, <3>1, SmallerIfOther, Zenon DEF Before
    <3>3. PacedPair(r, h, x.plan.heads, x.plan.at)
      BY <1>3, <1>5, <3>2, Zenon DEF Paced
    <3> QED
      BY <1>2, <1>3, <1>5, <1>6, <3>3, OlderNotLater, Zenon
  <2> QED
    BY <2>1, <2>2, Zenon
<1>8. Covered(x, r, S) \/ Queued(x, r)
  <2>1. x.plan.at[r] <= x.next
    BY <1>1, <1>2, <1>3, <1>6, <1>7, UpToTheNext, Zenon
  <2> QED
    BY <2>1, Zenon DEF NothingSkipped
<1>9. Covered(y, r, R)
  <2>1. CASE Covered(x, r, S)
    BY <2>1, Zenon DEF Covered
  <2>2. CASE Queued(x, r)
    <3>1. PICK i \in 1..Len(x.tasks) : IsBatch(x.tasks[i]) /\ x.tasks[i].index + 1 = x.plan.at[r]
      BY <2>2, Zenon DEF Queued
    <3>2. x.tasks[i].index \in Nat
      BY TaskTypes, Zenon
    <3>3. i = 1
      <4> SUFFICES ASSUME 1 < i
                   PROVE  FALSE
        BY <1>1, FirstOrLater, Zenon
      <4>1. x.tasks[1].index < x.tasks[i].index
        BY <1>1, <3>1, Zenon DEF NothingSkipped
      <4> QED
        BY <1>1, <1>2, <1>7, <3>1, <3>2, <4>1, NoneAfterTheLast, Zenon
    <3>4. r \in t.rows
      BY <1>1, <1>3, <3>1, <3>3, Zenon DEF BatchRows
    <3> QED
      BY <3>4, Zenon DEF t
  <2> QED
    BY <1>8, <2>1, <2>2, Zenon
<1>10. c \in Claim /\ c \in Claimable(ClaimsOf(H), y.floors)
  BY <1>1, Zenon
<1> QED
  BY <1>5, <1>9, <1>10, FloorsStopClaims, ZenonT(60) DEF Covered

(* A whole push may claim all it kept. *)
LEMMA WholeClaims ==
    ASSUME NEW S, NEW x \in Push, NothingSkipped(x, S), x.next = x.total,
           \A i \in 1..Len(x.tasks) : ~IsBatch(x.tasks[i])
    PROVE  \A c \in Claimable(x.pending, x.floors) : \A r \in x.plan.rows :
              r.s = c[1] /\ r.l <= c[2] => r \in S \/ RefusedForGood(x.peer, r)
<1> SUFFICES ASSUME NEW c \in Claimable(x.pending, x.floors), NEW r \in x.plan.rows,
                    r.s = c[1], r.l <= c[2]
             PROVE  r \in S \/ RefusedForGood(x.peer, r)
  BY Zenon
<1>1. x.plan \in PlanRecord /\ x.pending \subseteq Claim
  BY FieldTypes, Zenon
<1>2. r \in Row /\ x.plan.count \in Nat /\ x.plan.at[r] \in 1..x.plan.count
  BY <1>1, Zenon DEF PlanRecord, NothingSkipped, Spread
<1>3. x.plan.at[r] <= x.next
  BY <1>2, UpToCount, Zenon DEF NothingSkipped
<1>4. Covered(x, r, S)
  BY <1>3, Zenon DEF NothingSkipped, Queued
<1>5. c \in Claim
  BY <1>1, Zenon DEF Claimable
<1> QED
  BY <1>2, <1>4, <1>5, FloorsStopClaims, Zenon DEF Covered

-----------------------------------------------------------------------------
(* Every push *)

LEMMA OnePushChanges ==
    ASSUME TypeOK, PushesOK, NEW q \in PushId, NEW y, store \subseteq store',
           push' = [push EXCEPT ![q] = y], PushOK(y, store'),
           \A p \in Peer : cur'[p] # 0 => cur'[p] = cur[p] /\ (cur[p] = q => OnlyBatches(y))
    PROVE  PushesOK'
<1>1. push \in [PushId -> Push] /\ cur \in [Peer -> 0..MaxPushes]
  BY Zenon DEF TypeOK
<1>2. ASSUME NEW k \in PushId
      PROVE  PushOK(push'[k], store')
  <2>1. CASE k = q
    BY <1>1, <2>1
  <2>2. CASE k # q
    <3>1. push'[k] = push[k]
      BY <1>1, <2>2, Zenon
    <3> QED
      BY <3>1, StoreGrows, Zenon DEF PushesOK
  <2> QED
    BY <2>1, <2>2, Zenon
<1>3. ASSUME NEW p \in Peer, cur'[p] # 0
      PROVE  OnlyBatches(push'[cur'[p]])
  <2>1. cur'[p] = cur[p] /\ cur[p] \in PushId
    BY <1>1, <1>3 DEF PushId
  <2>2. CASE cur[p] = q
    BY <1>1, <1>3, <2>1, <2>2, Zenon
  <2>3. CASE cur[p] # q
    <3>1. push'[cur[p]] = push[cur[p]]
      BY <1>1, <2>1, <2>3, Zenon
    <3> QED
      BY <1>3, <2>1, <3>1, Zenon DEF PushesOK
  <2> QED
    BY <2>2, <2>3, Zenon
<1> QED
  BY <1>2, <1>3, Zenon DEF PushesOK

LEMMA PushesUntouched ==
    ASSUME PushesOK, store \subseteq store', UNCHANGED <<cur, push>>
    PROVE  PushesOK'
<1>1. ASSUME NEW k \in PushId
      PROVE  PushOK(push'[k], store')
  <2>1. push'[k] = push[k] /\ PushOK(push[k], store)
    BY DEF PushesOK
  <2> QED
    BY <2>1, StoreGrows
<1> QED
  BY <1>1, Zenon DEF PushesOK

-----------------------------------------------------------------------------
(* The tasks of a push *)

(* What account leaves of a push with no commit under way. *)
LEMMA AccountFields ==
    ASSUME NEW x \in Push, NEW t, NEW H \in SUBSET Row, NEW F \in SUBSET Claim,
           NEW a, a = Account(x, t, H, F), x.todo = {}, x.overflowed => x.broken
    PROVE  /\ a.plan = x.plan /\ a.peer = x.peer /\ a.total = x.total /\ a.next = x.next
           /\ a.spliced = x.spliced /\ a.tasks = x.tasks /\ x.floors \subseteq a.floors
           /\ ~a.broken => ~x.broken /\ ~a.overflowed /\ a.floors = x.floors \cup F
           /\ \/ a.todo = {}
              \/ ~a.broken /\ t.order = "asc" /\ a.todo = Claimable(ClaimsOf(H), a.floors)
<1> DEFINE floors == x.floors \cup F
           C == ClaimsOf(H)
           D == Claimable(C, floors)
<1>1. floors \in SUBSET Claim /\ C \in SUBSET Claim /\ D \in SUBSET Claim /\ x.pending \cup C \in SUBSET Claim
  BY FieldTypes, ClaimsType, ClaimableType, Zenon
<1>2. \/ x.overflowed /\ a = x
      \/ a = [x EXCEPT !.overflowed = TRUE, !.broken = TRUE, !.pending = {}]
      \/ ~x.overflowed /\ a = [x EXCEPT !.floors = floors, !.pending = @ \cup C]
      \/ ~x.overflowed /\ a = [x EXCEPT !.floors = floors, !.todo = {}]
      \/ ~x.overflowed /\ ~x.broken /\ t.order = "asc" /\ a = [x EXCEPT !.floors = floors, !.todo = D]
  BY ZenonT(60) DEF Account, ClaimsAtOnce
<1>3. x.floors \subseteq floors
  OBVIOUS
<1> DEFINE pending == x.pending \cup C
<1> HIDE DEF floors, C, D, pending
<1>4. CASE x.overflowed /\ a = x
  BY <1>4, Zenon
<1>5. CASE a = [x EXCEPT !.overflowed = TRUE, !.broken = TRUE, !.pending = {}]
  BY <1>5, Zenon DEF Push
<1>6. CASE ~x.overflowed /\ a = [x EXCEPT !.floors = floors, !.pending = @ \cup C]
  <2>1. a = [x EXCEPT !.floors = floors, !.pending = pending]
    BY <1>6 DEF pending
  <2>2. /\ a.plan = x.plan /\ a.peer = x.peer /\ a.total = x.total /\ a.next = x.next
        /\ a.spliced = x.spliced /\ a.tasks = x.tasks /\ a.floors = floors /\ a.todo = x.todo
        /\ a.broken = x.broken /\ a.overflowed = x.overflowed
    BY <2>1, Zenon DEF Push
  <2> QED
    BY <1>3, <1>6, <2>2 DEF floors
<1>7. ASSUME NEW T, ~x.overflowed, a = [x EXCEPT !.floors = floors, !.todo = T],
             T = {} \/ (~x.broken /\ t.order = "asc" /\ T = D)
      PROVE  /\ a.plan = x.plan /\ a.peer = x.peer /\ a.total = x.total /\ a.next = x.next
             /\ a.spliced = x.spliced /\ a.tasks = x.tasks /\ x.floors \subseteq a.floors
             /\ ~a.broken => ~x.broken /\ ~a.overflowed /\ a.floors = x.floors \cup F
             /\ \/ a.todo = {}
                \/ ~a.broken /\ t.order = "asc" /\ a.todo = Claimable(ClaimsOf(H), a.floors)
  <2>1. /\ a.plan = x.plan /\ a.peer = x.peer /\ a.total = x.total /\ a.next = x.next
        /\ a.spliced = x.spliced /\ a.tasks = x.tasks /\ a.floors = floors /\ a.todo = T
        /\ a.broken = x.broken /\ a.overflowed = x.overflowed
    BY <1>7, Zenon DEF Push
  <2> QED
    BY <1>3, <1>7, <2>1 DEF floors, C, D
<1> QED
  BY <1>2, <1>4, <1>5, <1>6, <1>7, Zenon

(* With a batch handled, each of its rows is stored, refused or a floor. *)
LEMMA BatchCovered ==
    ASSUME NEW p, NEW R \in SUBSET Row, NEW r \in R, Verdict[p][r] \in Verdicts
    PROVE  \/ r \in store \cup HeldOf(p, R)
           \/ RefusedForGood(p, r)
           \/ ClaimOf(r) \in FloorsOf(p, R)
BY DEF HeldOf, FloorsOf, ClaimsOf, RefusedForGood, Verdicts

LEMMA ProcessBatchKeeps ==
    ASSUME UniqueLamports, TypeOK, PushesOK, NEW q \in PushId, ProcessBatch(q)
    PROVE  PushesOK'
<1> DEFINE x == push[q]
           t == Head(x.tasks)
           H == HeldOf(x.peer, t.rows)
           F == FloorsOf(x.peer, t.rows)
           a == Account(x, t, H, F)
           y == [a EXCEPT !.tasks = Tail(@)]
<1>1. x \in Push /\ PushOK(x, store) /\ x.tasks # <<>> /\ x.todo = {} /\ IsBatch(t)
  BY Zenon DEF TypeOK, PushesOK, ProcessBatch, Runs, IsBatch
<1>2. store' = store \cup H /\ push' = [push EXCEPT ![q] = y] /\ UNCHANGED cur
  BY Zenon DEF ProcessBatch
<1>3. x.tasks \in Seq(Task) /\ t \in Task /\ t.rows \in SUBSET Row /\ x.peer \in Peer
  <2>1. x.tasks \in Seq(Task) /\ x.peer \in Peer
    BY <1>1, FieldTypes, Zenon
  <2>2. t \in Task
    BY <1>1, <2>1, HeadAndTail, Zenon
  <2> QED
    BY <2>1, <2>2, Zenon DEF Task
<1>4. H \in SUBSET Row /\ F \in SUBSET Claim /\ H \subseteq t.rows
  BY <1>3, BatchRowsTypes, Zenon DEF HeldOf
<1>5. \A r \in t.rows : r \in store' \/ RefusedForGood(x.peer, r) \/ ClaimOf(r) \in F
  BY <1>2, <1>3, BatchCovered, PeerAssumption, Zenon
<1>6. a \in Push /\ Tail(x.tasks) \in Seq(Task)
  BY <1>1, <1>3, <1>4, AccountType, HeadAndTail, Zenon
<1> HIDE DEF x, t, H, F
<1>7. /\ a.plan = x.plan /\ a.peer = x.peer /\ a.total = x.total /\ a.next = x.next
      /\ a.spliced = x.spliced /\ a.tasks = x.tasks /\ x.floors \subseteq a.floors
      /\ ~a.broken => ~x.broken /\ ~a.overflowed /\ a.floors = x.floors \cup F
      /\ \/ a.todo = {}
         \/ ~a.broken /\ t.order = "asc" /\ a.todo = Claimable(ClaimsOf(H), a.floors)
  BY <1>1, <1>4, AccountFields, ZenonT(60) DEF PushOK
<1> HIDE DEF a
<1>8. /\ y \in Push /\ y.tasks = Tail(x.tasks)
      /\ y.plan = a.plan /\ y.peer = a.peer /\ y.total = a.total /\ y.next = a.next
      /\ y.spliced = a.spliced /\ y.floors = a.floors /\ y.broken = a.broken
      /\ y.overflowed = a.overflowed /\ y.todo = a.todo
  <2> DEFINE ts == Tail(x.tasks)
  <2>1. y = [a EXCEPT !.tasks = ts] /\ ts \in Seq(Task)
    BY <1>6, <1>7
  <2> HIDE DEF y, ts
  <2>2. /\ y \in Push /\ y.tasks = ts
        /\ y.plan = a.plan /\ y.peer = a.peer /\ y.total = a.total /\ y.next = a.next
        /\ y.spliced = a.spliced /\ y.floors = a.floors /\ y.broken = a.broken
        /\ y.overflowed = a.overflowed /\ y.todo = a.todo
    BY <1>6, <2>1, Zenon DEF Push
  <2> QED
    BY <2>2, Zenon DEF ts
<1> HIDE DEF y
<1>9. ~y.broken => \A r \in t.rows : Covered(y, r, store')
  BY <1>5, <1>7, <1>8 DEF Covered
<1>10. ~y.spliced => ClaimsCovered(y, store')
  <2>1. CASE a.todo = {}
    BY <1>8, <2>1, Zenon DEF ClaimsCovered
  <2>2. CASE /\ ~a.broken /\ t.order = "asc"
             /\ a.todo = Claimable(ClaimsOf(H), a.floors) /\ ~y.spliced
    <3>1. NothingSkipped(x, store) /\ QueueOrdered(x)
      BY <1>1, <1>7, <1>8, <2>2, Zenon DEF PushOK
    <3>2. /\ y.todo = Claimable(ClaimsOf(H), y.floors) /\ y.plan = x.plan /\ y.peer = x.peer
          /\ x.floors \subseteq y.floors /\ store \subseteq store'
      BY <1>2, <1>7, <1>8, <2>2, Zenon
    <3>3. /\ IsBatch(Head(x.tasks)) /\ Head(x.tasks).order = "asc" /\ H \subseteq Head(x.tasks).rows
          /\ \A r \in Head(x.tasks).rows : Covered(y, r, store')
      BY <1>1, <1>4, <1>8, <1>9, <2>2, Zenon DEF t
    <3>4. x \in Push /\ y \in Push /\ x.tasks # <<>>
      BY <1>1, <1>8, Zenon
    <3> QED
      BY <3>1, <3>2, <3>3, <3>4, AscClaims, Zenon
  <2> QED
    BY <1>7, <2>1, <2>2, Zenon
<1>11. PushOK(y, store')
  <2>1. /\ y.tasks = Tail(x.tasks) /\ y.plan = x.plan /\ y.peer = x.peer /\ y.total = x.total
        /\ y.next = x.next /\ y.spliced = x.spliced /\ x.floors \subseteq y.floors
        /\ ~y.broken => ~x.broken /\ ~y.overflowed
    BY <1>7, <1>8, Zenon
  <2>2. x \in Push /\ y \in Push /\ x.tasks # <<>> /\ PushOK(x, store) /\ store \subseteq store'
    BY <1>1, <1>2, <1>8, Zenon
  <2>3. ~y.broken => \A r \in Head(x.tasks).rows : Covered(y, r, store')
    BY <1>9, Zenon DEF t
  <2> QED
    BY <1>10, <2>1, <2>2, <2>3, BatchGone, Zenon
<1>12. OnlyBatches(x) => OnlyBatches(y)
  BY <1>1, <1>8, OnlyBatchesLeft, Zenon
<1> QED
  BY <1>2, <1>11, <1>12, OnePushChanges, ZenonT(60) DEF x, PushesOK

LEMMA BrokenFields ==
    ASSUME NEW x \in Push
    PROVE  /\ Broken(x).tasks = Tail(x.tasks) /\ Broken(x).plan = x.plan
           /\ Broken(x).peer = x.peer /\ Broken(x).total = x.total /\ Broken(x).next = x.next
           /\ Broken(x).spliced = x.spliced /\ Broken(x).floors = x.floors
           /\ Broken(x).todo = x.todo /\ Broken(x).broken
<1> DEFINE ts == Tail(x.tasks)
<1> HIDE DEF ts
<1>1. Broken(x) = [x EXCEPT !.tasks = ts, !.broken = TRUE]
  BY DEF Broken, ts
<1>2. /\ Broken(x).tasks = ts /\ Broken(x).plan = x.plan
      /\ Broken(x).peer = x.peer /\ Broken(x).total = x.total /\ Broken(x).next = x.next
      /\ Broken(x).spliced = x.spliced /\ Broken(x).floors = x.floors
      /\ Broken(x).todo = x.todo /\ Broken(x).broken
  BY <1>1, Zenon DEF Push
<1> QED
  BY <1>2, Zenon DEF ts

LEMMA RefuseBatchKeeps ==
    ASSUME TypeOK, PushesOK, NEW q \in PushId, RefuseBatch(q)
    PROVE  PushesOK'
<1> DEFINE x == push[q]
           y == Broken(x)
<1>1. x \in Push /\ PushOK(x, store) /\ x.tasks # <<>> /\ x.todo = {}
  BY Zenon DEF TypeOK, PushesOK, RefuseBatch, Runs
<1>2. store' = store /\ push' = [push EXCEPT ![q] = y] /\ UNCHANGED cur
  BY DEF RefuseBatch, durable
<1>3. /\ y.tasks = Tail(x.tasks) /\ y.plan = x.plan /\ y.peer = x.peer /\ y.total = x.total
      /\ y.next = x.next /\ y.spliced = x.spliced /\ x.floors \subseteq y.floors
      /\ y.todo = {} /\ y.broken /\ y \in Push
  BY <1>1, BrokenFields, BrokenType, Zenon
<1> HIDE DEF x, y
<1>4. ClaimsCovered(y, store')
  BY <1>3, Zenon DEF ClaimsCovered
<1>5. PushOK(y, store')
  BY <1>1, <1>2, <1>3, <1>4, BatchGone, Zenon
<1>6. OnlyBatches(x) => OnlyBatches(y)
  BY <1>1, <1>3, OnlyBatchesLeft, Zenon
<1> QED
  BY <1>2, <1>5, <1>6, OnePushChanges, Zenon DEF x, PushesOK

(* Commits under way only become fewer. *)
LEMMA FewerClaims ==
    ASSUME NEW S, NEW x, NEW y, PushOK(x, S), SameDelivery(x, y), y.tasks = x.tasks,
           y.todo \subseteq x.todo
    PROVE  PushOK(y, S)
<1>1. QueueOrdered(y) /\ (y.overflowed => y.broken)
  BY Zenon DEF PushOK, QueueOrdered, SameDelivery
<1>2. ASSUME ~y.spliced, ~y.broken
      PROVE  NothingSkipped(y, S)
  <2>1. NothingSkipped(x, S)
    BY <1>2, Zenon DEF PushOK, SameDelivery
  <2>2. \A r : (Covered(x, r, S) => Covered(y, r, S)) /\ (Queued(x, r) => Queued(y, r))
    BY Zenon DEF Covered, Queued, SameDelivery
  <2> QED
    BY <2>1, <2>2, Zenon DEF NothingSkipped, SameDelivery
<1>3. ~y.spliced => ClaimsCovered(y, S)
  BY Zenon DEF PushOK, ClaimsCovered, SameDelivery
<1> QED
  BY <1>1, <1>2, <1>3, Zenon DEF PushOK

LEMMA CommitKeeps ==
    ASSUME TypeOK, PushesOK, NEW q \in PushId, NEW c, Commit(q, c)
    PROVE  PushesOK'
<1> DEFINE x == push[q]
           todo == x.todo \ {c}
           y == [x EXCEPT !.todo = todo]
<1>1. x \in Push /\ PushOK(x, store)
  BY Zenon DEF TypeOK, PushesOK
<1>2. store' = store /\ push' = [push EXCEPT ![q] = y] /\ UNCHANGED cur
  BY DEF Commit
<1>3. todo \subseteq x.todo
  OBVIOUS
<1> HIDE DEF x, todo
<1>4. SameDelivery(x, y) /\ y.tasks = x.tasks /\ y.todo = todo
  BY <1>1, Zenon DEF Push, SameDelivery
<1> HIDE DEF y
<1>5. PushOK(y, store')
  BY <1>1, <1>2, <1>3, <1>4, FewerClaims, Zenon
<1>6. OnlyBatches(x) => OnlyBatches(y)
  BY <1>4, Zenon DEF OnlyBatches
<1> QED
  BY <1>2, <1>5, <1>6, OnePushChanges, Zenon DEF x, PushesOK

(* The first task is replaced: what follows it stays. *)
LEMMA EndReplaced ==
    ASSUME NEW x \in Push, NEW ts, NEW k \in {"finish", "whole", "short"}, x.tasks # <<>>,
           ts = <<EndTask(k)>> \o Tail(x.tasks),
           \A i \in 1..Len(x.tasks) : ~IsBatch(x.tasks[i])
    PROVE  ts \in Seq(Task) /\ \A i \in 1..Len(ts) : ~IsBatch(ts[i])
<1> DEFINE tail == Tail(x.tasks)
           e == EndTask(k)
<1>1. /\ tail \in Seq(Task) /\ Len(tail) \in Nat
      /\ \A i \in 1..Len(tail) : i + 1 \in 1..Len(x.tasks) /\ tail[i] = x.tasks[i + 1]
  <2>1. x.tasks \in Seq(Task)
    BY FieldTypes, Zenon
  <2> QED
    BY <2>1, TailTasks, ZenonT(60)
<1>2. e \in Task /\ ~IsBatch(e)
  BY TasksType, ZenonT(60) DEF EndTask, IsBatch
<1> HIDE DEF tail, e
<1>3. /\ ts \in Seq(Task) /\ Len(ts) = Len(tail) + 1 /\ ts[1] = e
      /\ \A i \in 1..Len(ts) : i # 1 => ts[i] = tail[i - 1]
  <2> DEFINE one == <<e>>
  <2>1. ts = one \o tail
    BY DEF e, tail
  <2>2. one \in Seq(Task) /\ Len(one) = 1 /\ one[1] = e
    BY <1>2
  <2> HIDE DEF one
  <2>3. one \o tail \in Seq(Task)
    BY <1>1, <2>2, Joined, Zenon
  <2>4. Len(ts) = Len(tail) + 1
    <3>1. Len(one \o tail) = Len(one) + Len(tail)
      BY <1>1, <2>2, Joined, Zenon
    <3> QED
      BY <1>1, <2>1, <2>2, <3>1
  <2>5. ts[1] = one[1]
    BY <1>1, <2>1, <2>2
  <2>6. ASSUME NEW i \in 1..Len(ts), i # 1
        PROVE  ts[i] = tail[i - 1]
    BY <1>1, <2>1, <2>2, <2>4, <2>6
  <2> QED
    BY <2>1, <2>2, <2>3, <2>4, <2>5, <2>6, ZenonT(60)
<1>4. ASSUME NEW i \in 1..Len(ts)
      PROVE  ~IsBatch(ts[i])
  <2>1. CASE i = 1
    BY <1>2, <1>3, <2>1
  <2>2. CASE i # 1
    <3>1. i - 1 \in 1..Len(tail) /\ ts[i] = tail[i - 1]
      BY <1>1, <1>3, <2>2
    <3> QED
      BY <1>1, <3>1
  <2> QED
    BY <2>1, <2>2
<1> QED
  BY <1>3, <1>4, Zenon

(* A task that is no batch cannot be in the queue of an open push. *)
LEMMA EndingNotOpen ==
    ASSUME NEW x \in Push, x.tasks # <<>>, ~IsBatch(Head(x.tasks))
    PROVE  ~OnlyBatches(x)
<1>1. Head(x.tasks) = x.tasks[1] /\ 1 \in 1..Len(x.tasks)
  BY FieldTypes, FirstTask, Zenon
<1> QED
  BY <1>1, Zenon DEF OnlyBatches

LEMMA AbortedOK ==
    ASSUME NEW S, NEW x \in Push, PushOK(x, S)
    PROVE  PushOK(Aborted(x), S) /\ (OnlyBatches(x) => OnlyBatches(Aborted(x)))
<1> DEFINE ending == x.tasks # <<>> /\ Head(x.tasks).kind = "whole"
           y == Aborted(x)
<1>1. CASE ending
  <2> DEFINE ts == <<EndTask("short")>> \o Tail(x.tasks)
  <2>1. \A i \in 1..Len(x.tasks) : ~IsBatch(x.tasks[i])
    BY <1>1, NoneLeft, Zenon DEF PushOK, IsBatch
  <2>2. ts \in Seq(Task) /\ \A i \in 1..Len(ts) : ~IsBatch(ts[i])
    BY <1>1, <2>1, EndReplaced, ZenonT(60)
  <2>3. x.broken \in BOOLEAN
    BY FieldTypes, Zenon
  <2>4. y = [x EXCEPT !.todo = {}, !.broken = x.broken, !.tasks = ts]
    BY <1>1, <2>3, ZenonT(60) DEF Aborted
  <2> HIDE DEF ts, y, ending
  <2>5. SameDelivery(x, y) /\ y.todo = {} /\ y.tasks = ts /\ y \in Push
    BY <2>2, <2>3, <2>4, Zenon DEF SameDelivery, Push
  <2>6. ClaimsCovered(y, S)
    BY <2>5, Zenon DEF ClaimsCovered
  <2>7. PushOK(y, S)
    BY <2>1, <2>2, <2>5, <2>6, EndingMovesOn, Zenon
  <2>8. ~OnlyBatches(x)
    BY <1>1, EndingNotOpen, Zenon DEF IsBatch, ending
  <2> QED
    BY <2>7, <2>8 DEF y
<1>2. CASE ~ending
  <2>1. y = [x EXCEPT !.todo = {}, !.broken = TRUE, !.tasks = x.tasks]
    BY <1>2, ZenonT(60) DEF Aborted
  <2> HIDE DEF y, ending
  <2>2. y.todo = {} /\ y.tasks = x.tasks /\ y.broken
    BY <2>1, Zenon DEF Push
  <2>3. PushOK(y, S)
    BY <2>2, Zenon DEF PushOK, QueueOrdered, ClaimsCovered
  <2>4. OnlyBatches(x) => OnlyBatches(y)
    BY <2>2 DEF OnlyBatches
  <2> QED
    BY <2>3, <2>4 DEF y
<1> QED
  BY <1>1, <1>2

LEMMA CommitFailsKeeps ==
    ASSUME TypeOK, PushesOK, NEW q \in PushId, CommitFails(q)
    PROVE  PushesOK'
<1>1. push[q] \in Push /\ PushOK(push[q], store)
  BY Zenon DEF TypeOK, PushesOK
<1>2. store' = store /\ push' = [push EXCEPT ![q] = Aborted(push[q])] /\ UNCHANGED cur
  BY DEF CommitFails, durable
<1>3. PushOK(Aborted(push[q]), store') /\ (OnlyBatches(push[q]) => OnlyBatches(Aborted(push[q])))
  BY <1>1, <1>2, AbortedOK, Zenon
<1> QED
  BY <1>2, <1>3, OnePushChanges, ZenonT(60) DEF PushesOK

(* The rest of an ending push is run, with no commit under way. *)
LEMMA EndingKeeps ==
    ASSUME TypeOK, PushesOK, NEW q \in PushId, NEW y, store' = store,
           push[q].tasks # <<>>, ~IsBatch(Head(push[q].tasks)),
           push' = [push EXCEPT ![q] = y], PushOK(y, store),
           \A p \in Peer : cur'[p] # 0 => cur'[p] = cur[p]
    PROVE  PushesOK'
<1>1. push[q] \in Push /\ cur \in [Peer -> 0..MaxPushes]
  BY Zenon DEF TypeOK
<1>2. \A p \in Peer : cur[p] # q
  <2> SUFFICES ASSUME NEW p \in Peer, cur[p] = q
               PROVE  FALSE
    OBVIOUS
  <2>1. cur[p] # 0
    BY DEF PushId
  <2>2. OnlyBatches(push[q])
    BY <2>1, Zenon DEF PushesOK
  <2> QED
    BY <1>1, <2>2, EndingNotOpen, Zenon
<1> QED
  BY <1>2, OnePushChanges, Zenon

LEMMA FinishPushKeeps ==
    ASSUME TypeOK, PushesOK, NEW q \in PushId, FinishPush(q)
    PROVE  PushesOK'
<1> DEFINE x == push[q]
           y == Finished(x)
           k == IF IsWhole(x) THEN "whole" ELSE "short"
           todo == IF IsWhole(x) THEN Claimable(x.pending, x.floors) ELSE {}
           ts == <<EndTask(k)>> \o Tail(x.tasks)
<1>1. /\ x \in Push /\ PushOK(x, store) /\ x.tasks # <<>> /\ x.todo = {} /\ ~IsBatch(Head(x.tasks))
  BY Zenon DEF TypeOK, PushesOK, FinishPush, Runs, IsBatch
<1>2. store' = store /\ push' = [push EXCEPT ![q] = y] /\ UNCHANGED cur
  BY DEF FinishPush, durable
<1>3. \A i \in 1..Len(x.tasks) : ~IsBatch(x.tasks[i])
  BY <1>1, NoneLeft, Zenon DEF PushOK
<1>4. ts \in Seq(Task) /\ \A i \in 1..Len(ts) : ~IsBatch(ts[i])
  BY <1>1, <1>3, EndReplaced, ZenonT(60)
<1>5. y = [x EXCEPT !.todo = todo, !.tasks = ts]
  BY DEF Finished
<1>6. y \in Push
  BY <1>1, FinishedType, Zenon
<1> HIDE DEF x, y, ts
<1>7. SameDelivery(x, y) /\ y.todo = todo /\ y.tasks = ts
  <2> HIDE DEF todo
  <2> QED BY <1>1, <1>5, Zenon DEF SameDelivery, Push
<1>8. ASSUME ~y.spliced
      PROVE  ClaimsCovered(y, store)
  <2>1. CASE ~IsWhole(x)
    BY <1>7, <2>1, Zenon DEF ClaimsCovered
  <2>2. CASE IsWhole(x)
    <3>1. NothingSkipped(x, store) /\ x.next = x.total
      BY <1>1, <1>7, <1>8, <2>2, Zenon DEF PushOK, IsWhole, SameDelivery
    <3>2. \A c \in Claimable(x.pending, x.floors) : \A r \in x.plan.rows :
             r.s = c[1] /\ r.l <= c[2] => r \in store \/ RefusedForGood(x.peer, r)
      BY <1>1, <1>3, <3>1, WholeClaims, Zenon
    <3>3. y.todo = Claimable(x.pending, x.floors) /\ y.plan = x.plan /\ y.peer = x.peer
      BY <1>7, <2>2, Zenon DEF SameDelivery
    <3> QED
      BY <3>2, <3>3, Zenon DEF ClaimsCovered
  <2> QED
    BY <2>1, <2>2
<1>9. PushOK(y, store)
  BY <1>1, <1>3, <1>4, <1>6, <1>7, <1>8, EndingMovesOn, Zenon
<1> QED
  BY <1>1, <1>2, <1>9, EndingKeeps, ZenonT(60) DEF x

LEMMA EndPushKeeps ==
    ASSUME TypeOK, PushesOK, NEW q \in PushId, EndPush(q)
    PROVE  PushesOK'
<1> DEFINE x == push[q]
           ts == Tail(x.tasks)
           z == [x EXCEPT !.tasks = ts, !.ended = TRUE, !.armed = FALSE]
           y == IF ts = <<>> THEN NoPush ELSE z
<1>1. /\ x \in Push /\ PushOK(x, store) /\ x.tasks # <<>> /\ x.todo = {} /\ ~IsBatch(Head(x.tasks))
  BY Zenon DEF TypeOK, PushesOK, EndPush, Runs, IsBatch
<1>2. store' = store /\ push' = [push EXCEPT ![q] = y]
  BY Zenon DEF EndPush, durable
<1>3. \A p \in Peer : cur'[p] # 0 => cur'[p] = cur[p]
  <2>1. cur \in [Peer -> 0..MaxPushes]
    BY Zenon DEF TypeOK
  <2>2. UNCHANGED cur \/ cur' = [cur EXCEPT ![x.peer] = IF @ = q THEN 0 ELSE @]
    BY Zenon DEF EndPush
  <2> QED
    BY <2>1, <2>2
<1>4. \A i \in 1..Len(x.tasks) : ~IsBatch(x.tasks[i])
  BY <1>1, NoneLeft DEF PushOK
<1>5. ts \in Seq(Task) /\ \A i \in 1..Len(ts) : ~IsBatch(ts[i])
  <2>1. x.tasks \in Seq(Task)
    BY <1>1, FieldTypes, Zenon
  <2> HIDE DEF x
  <2>2. ts \in Seq(Task)
    BY <1>1, <2>1, TailTasks, Zenon
  <2>3. \A i \in 1..Len(ts) : i + 1 \in 1..Len(x.tasks) /\ ts[i] = x.tasks[i + 1]
    BY <1>1, <2>1, TailTasks, ZenonT(60)
  <2> QED
    BY <1>4, <2>2, <2>3, Zenon
<1>6. PushOK(y, store)
  <2>1. CASE ts = <<>>
    BY <2>1, NoPushOK
  <2>2. CASE ts # <<>>
    <3> HIDE DEF x, ts
    <3>1. SameDelivery(x, z) /\ z.todo = x.todo /\ z.tasks = ts /\ z \in Push
      BY <1>1, <1>5, Zenon DEF SameDelivery, Push
    <3> HIDE DEF z
    <3>2. ClaimsCovered(z, store)
      BY <1>1, <3>1, Zenon DEF ClaimsCovered
    <3>3. PushOK(z, store)
      BY <1>1, <1>4, <1>5, <3>1, <3>2, EndingMovesOn, Zenon
    <3> QED
      BY <2>2, <3>3
  <2> QED
    BY <2>1, <2>2, ZenonT(60)
<1> HIDE DEF y
<1> QED
  BY <1>1, <1>2, <1>3, <1>6, EndingKeeps, Zenon

-----------------------------------------------------------------------------
(* Frames and timers *)

LEMMA ClosedOK ==
    ASSUME NEW S, NEW x \in Push, NEW k \in {"finish", "short"}, PushOK(x, S)
    PROVE  PushOK(Closed(x, k), S)
<1> DEFINE ts == Append(x.tasks, EndTask(k))
           y == Closed(x, k)
<1>1. y = [x EXCEPT !.tasks = ts, !.armed = FALSE]
  BY DEF Closed
<1>2. y \in Push
  BY ClosedType
<1> HIDE DEF ts, y
<1>3. SameDelivery(x, y) /\ y.todo = x.todo /\ y.tasks = ts
  BY <1>1, Zenon DEF SameDelivery, Push
<1> QED
  BY <1>2, <1>3, EndQueued, Zenon DEF ts, y

LEMMA StallKeeps ==
    ASSUME TypeOK, HoldInv, PushesOK, NEW q \in PushId, Stall(q)
    PROVE  PushesOK'
<1>1. push[q] \in Push /\ PushOK(push[q], store) /\ cur \in [Peer -> 0..MaxPushes]
  BY Zenon DEF TypeOK, PushesOK
<1>2. /\ store' = store /\ push' = [push EXCEPT ![q] = Closed(push[q], "short")]
      /\ cur' = [cur EXCEPT ![push[q].peer] = IF @ = q THEN 0 ELSE @]
  BY Zenon DEF Stall
<1>3. PushOK(Closed(push[q], "short"), store')
  BY <1>1, <1>2, ClosedOK, Zenon
<1>4. ASSUME NEW p \in Peer, cur'[p] # 0
      PROVE  cur'[p] = cur[p] /\ cur[p] # q
  <2>1. CASE cur[p] = q
    <3>1. push[q].peer = p
      BY <2>1 DEF HoldInv, OpenPushesCounted, PushId
    <3> QED
      BY <1>1, <1>2, <1>4, <2>1, <3>1, Zenon
  <2>2. CASE cur[p] # q
    BY <1>1, <1>2, <2>2, Zenon
  <2> QED
    BY <2>1, <2>2, Zenon
<1> QED
  BY <1>2, <1>3, <1>4, OnePushChanges, ZenonT(60)

LEMMA CompleteKeeps ==
    ASSUME TypeOK, HoldInv, PushesOK, NEW p \in Peer, Complete(p)
    PROVE  PushesOK'
<1> DEFINE q == cur[p]
<1>1. push \in [PushId -> Push] /\ cur \in [Peer -> 0..MaxPushes] /\ store' = store
  BY Zenon DEF TypeOK, Complete
<1>2. CASE UNCHANGED <<push, cur>>
  BY <1>1, <1>2, PushesUntouched
<1>3. CASE /\ q # 0 /\ push' = [push EXCEPT ![q] = Closed(push[q], "finish")]
           /\ cur' = [cur EXCEPT ![p] = 0]
  <2>1. q \in PushId
    BY <1>1, <1>3 DEF PushId
  <2>2. PushOK(Closed(push[q], "finish"), store')
    BY <1>1, <2>1, ClosedOK DEF PushesOK
  <2>3. ASSUME NEW b \in Peer, cur'[b] # 0
        PROVE  cur'[b] = cur[b] /\ cur[b] # q
    <3>1. b # p /\ cur'[b] = cur[b]
      BY <1>1, <1>3, <2>3
    <3>2. cur[b] # cur[p]
      BY <1>3, <2>3, <3>1, Zenon DEF HoldInv, OpenPushesCounted
    <3> QED
      BY <3>1, <3>2
  <2> HIDE DEF q
  <2> QED
    BY <1>1, <1>3, <2>1, <2>2, <2>3, OnePushChanges, ZenonT(60)
<1> QED
  BY <1>2, <1>3, Zenon DEF Complete

LEMMA StartPushOK ==
    ASSUME NEW S, NEW p \in Peer, NEW f \in Frame, cur \in [Peer -> 0..MaxPushes],
           Spread(f.plan), f.total = f.plan.count
    PROVE  PushOK(StartPush(p, f), S) /\ OnlyBatches(StartPush(p, f))
<1> DEFINE x == StartPush(p, f)
<1>1. f.plan \in PlanRecord
  BY DEF Frame
<1>2. /\ x.tasks = <<>> /\ x.todo = {} /\ ~x.overflowed
      /\ x.plan = f.plan /\ x.total = f.total /\ x.next = 0
  BY NoPushType DEF StartPush, NoPush
<1> HIDE DEF x
<1>3. 1..Len(x.tasks) = {}
  BY <1>2, NoPlaces, Zenon
<1>4. NothingSkipped(x, S)
  <2>1. \A r \in x.plan.rows : ~(x.plan.at[r] <= x.next)
    BY <1>1, <1>2, CountsFromOne, Zenon DEF Spread, PlanRecord
  <2> QED
    BY <1>2, <1>3, <2>1, Zenon DEF NothingSkipped
<1> QED
  BY <1>2, <1>3, <1>4, Zenon DEF PushOK, QueueOrdered, ClaimsCovered, OnlyBatches, x

LEMMA TakeFrameOK ==
    ASSUME NEW S, NEW x \in Push, NEW f \in Frame, NEW joined \in BOOLEAN,
           Faithful(f, f.plan), OnlyBatches(x), PushOK(x, S)
    PROVE  LET y == TakeFrame(x, f, joined)
           IN  PushOK(y, S) /\ (y.armed => OnlyBatches(y))
<1> DEFINE over == x.total > 0 /\ f.index + 1 >= x.total
           tail == IF over THEN <<EndTask("finish")>> ELSE <<>>
           broken == x.broken \/ joined \/ f.index # x.next \/ f.total # x.total
                       \/ ~Fits(x, f.order)
           spliced == x.spliced \/ f.plan # x.plan
           tasks == x.tasks \o <<BatchTask(f)>> \o tail
           armed == ~over
           next == f.index + 1
           phase == f.order
           y == TakeFrame(x, f, joined)
<1>1. y = [x EXCEPT !.broken = broken, !.next = next, !.phase = phase,
                    !.armed = armed, !.tasks = tasks, !.spliced = spliced]
  BY DEF TakeFrame
<1>2. y \in Push
  BY TakeFrameType
<1>3. /\ ~broken => ~x.broken /\ f.index = x.next
      /\ ~spliced => ~x.spliced /\ f.plan = x.plan
  BY Zenon
<1>4. /\ tail \in Seq(Task) /\ Len(tail) \in {0, 1} /\ (armed => tail = <<>>)
      /\ \A i \in 1..Len(tail) : ~IsBatch(tail[i])
  <2>1. EndTask("finish") \in Task /\ ~IsBatch(EndTask("finish"))
    BY TasksType, Zenon DEF EndTask, IsBatch
  <2>2. CASE over
    BY <2>1, <2>2
  <2>3. CASE ~over
    BY <2>3
  <2> QED
    BY <2>2, <2>3, Zenon
<1> HIDE DEF broken, spliced, tasks, armed, next, phase, y, tail, over
<1>5. /\ y.plan = x.plan /\ y.peer = x.peer /\ y.overflowed = x.overflowed
      /\ y.floors = x.floors /\ y.total = x.total /\ y.todo = x.todo
      /\ y.next = next /\ y.tasks = tasks /\ y.spliced = spliced /\ y.broken = broken
      /\ y.armed = armed
  BY <1>1, Zenon DEF Push
<1>6. y.next = f.index + 1 /\ y.tasks = x.tasks \o <<BatchTask(f)>> \o tail
  BY <1>5, Zenon DEF next, tasks
<1>7. PushOK(y, S)
  BY <1>2, <1>3, <1>4, <1>5, <1>6, FrameTaken, Zenon
<1>8. ASSUME y.armed
      PROVE  OnlyBatches(y)
  <2>1. tail = <<>>
    BY <1>4, <1>5, <1>8, Zenon
  <2>2. x.tasks \in Seq(Task) /\ BatchTask(f) \in Task /\ IsBatch(BatchTask(f))
    BY FieldTypes, TasksType, Zenon DEF BatchTask, IsBatch
  <2>3. y.tasks = Append(x.tasks, BatchTask(f))
    BY <1>6, <2>1, <2>2
  <2>4. /\ Len(y.tasks) = Len(x.tasks) + 1 /\ y.tasks[Len(x.tasks) + 1] = BatchTask(f)
        /\ \A i \in 1..Len(x.tasks) : y.tasks[i] = x.tasks[i]
    BY <2>2, <2>3, Appended
  <2>5. Len(x.tasks) \in Nat
    BY <2>2, Lengths, Zenon
  <2> QED
    BY <2>2, <2>4, <2>5, LastOrBefore, Zenon DEF OnlyBatches
<1> QED
  BY <1>7, <1>8, Zenon DEF y

LEMMA ReplacedOK ==
    ASSUME NEW S, NEW x \in Push, PushOK(x, S)
    PROVE  PushOK([x EXCEPT !.tasks = Append(@, EndTask("short"))], S)
<1> DEFINE ts == Append(x.tasks, EndTask("short"))
           y == [x EXCEPT !.tasks = ts]
<1>1. y \in Push
  BY QueuedType, ZenonT(60)
<1> HIDE DEF ts
<1>2. SameDelivery(x, y) /\ y.todo = x.todo /\ y.tasks = ts
  BY Zenon DEF SameDelivery, Push
<1> HIDE DEF y
<1>3. PushOK(y, S)
  BY <1>1, <1>2, EndQueued, Zenon DEF ts
<1> QED
  BY <1>3 DEF y, ts

LEMMA NumberIsNat ==
    ASSUME NEW m \in Nat, NEW a \in 0..m
    PROVE  a \in Nat
OBVIOUS

LEMMA NumberOfOpen ==
    ASSUME NEW m \in Nat, NEW a \in 0..m, a # 0
    PROVE  a \in 1..m
OBVIOUS

LEMMA NotTheNext ==
    ASSUME NEW a \in Nat, NEW b \in Nat, a <= b
    PROVE  a # b + 1
OBVIOUS

LEMMA BatchKeeps ==
    ASSUME TypeOK, HoldInv, PushesOK, NEW p \in Peer, NEW f \in Frame, Batch(p, f),
           Faithful(f, f.plan), Spread(f.plan), f.total = f.plan.count
    PROVE  PushesOK'
<1> DEFINE old   == cur[p]
           fresh == old = 0 \/ f.index = 0
           q     == IF fresh THEN started + 1 ELSE old
           x     == IF fresh THEN StartPush(p, f) ELSE push[old]
           y     == TakeFrame(x, f, fresh /\ f.index # 0)
           left  == IF fresh /\ old # 0
                    THEN [push EXCEPT ![old].tasks = Append(@, EndTask("short"))]
                    ELSE push
<1>1. /\ push' = [left EXCEPT ![q] = y] /\ store' = store
      /\ cur' = [cur EXCEPT ![p] = IF y.armed THEN q ELSE 0]
      /\ q <= MaxPushes
  BY Zenon DEF Batch
<1>2. cur \in [Peer -> 0..MaxPushes] /\ started \in Nat /\ push \in [PushId -> Push]
  BY PeerAssumption, NumberIsNat, Zenon DEF TypeOK
<1>3. q \in PushId /\ (old # 0 => old \in PushId)
  BY <1>1, <1>2 DEF PushId
<1>4. x \in Push /\ PushOK(x, store) /\ OnlyBatches(x)
  <2>1. CASE fresh
    BY <1>2, <2>1, StartPushType, StartPushOK, Zenon
  <2>2. CASE ~fresh
    BY <1>2, <1>3, <2>2, Zenon DEF PushesOK
  <2> QED
    BY <2>1, <2>2, Zenon
<1>5. PushOK(y, store) /\ (y.armed => OnlyBatches(y))
  <2>1. (fresh /\ f.index # 0) \in BOOLEAN
    BY Zenon
  <2> HIDE DEF x, fresh
  <2> QED
    BY <1>4, <2>1, TakeFrameOK, ZenonT(60)
<1>6. /\ DOMAIN left = PushId
      /\ \A k \in PushId : PushOK(left[k], store)
      /\ \A k \in PushId : k # old => left[k] = push[k]
  <2>1. CASE fresh /\ old # 0
    <3>1. ASSUME NEW k \in PushId
          PROVE  PushOK(left[k], store)
      <4>1. CASE k = old
        <5>1. push[old] \in Push /\ PushOK(push[old], store)
          BY <1>2, <1>3, <2>1, Zenon DEF PushesOK
        <5>2. left[k] = [push[old] EXCEPT !.tasks = Append(@, EndTask("short"))]
          BY <1>2, <2>1, <4>1
        <5> QED
          BY <5>1, <5>2, ReplacedOK, Zenon
      <4>2. CASE k # old
        BY <1>2, <2>1, <4>2 DEF PushesOK
      <4> QED
        BY <4>1, <4>2, Zenon
    <3> QED
      BY <1>2, <2>1, <3>1, ZenonT(60)
  <2>2. CASE ~(fresh /\ old # 0)
    BY <1>2, <2>2, Zenon DEF PushesOK
  <2> QED
    BY <2>1, <2>2, ZenonT(60)
<1>7. \A b \in Peer : b # p /\ cur[b] # 0 => cur[b] \in PushId /\ cur[b] # q /\ cur[b] # old
  <2> SUFFICES ASSUME NEW b \in Peer, b # p, cur[b] # 0
               PROVE  cur[b] \in PushId /\ cur[b] # q /\ cur[b] # old
    BY Zenon
  <2>1. cur[b] \in PushId /\ cur[b] \in Nat
    BY <1>2, PeerAssumption, NumberIsNat, NumberOfOpen, Zenon DEF PushId
  <2>2. cur[b] # old
    BY ZenonT(60) DEF HoldInv, OpenPushesCounted
  <2>3. cur[b] # started + 1
    BY <1>2, <2>1, NotTheNext, Zenon DEF HoldInv, OpenPushesCounted
  <2> QED
    BY <2>1, <2>2, <2>3, Zenon
<1> HIDE DEF left, y, q, old
<1>8. push'[q] = y /\ \A k \in PushId : k # q => push'[k] = left[k]
  BY <1>1, <1>3, <1>6, Zenon
<1>9. ASSUME NEW k \in PushId
      PROVE  PushOK(push'[k], store')
  BY <1>1, <1>5, <1>6, <1>8, Zenon
<1>10. ASSUME NEW b \in Peer, cur'[b] # 0
       PROVE  OnlyBatches(push'[cur'[b]])
  <2>1. CASE b = p
    BY <1>1, <1>2, <1>5, <1>8, <1>10, <2>1, Zenon
  <2>2. CASE b # p
    <3>1. cur'[b] = cur[b]
      BY <1>1, <1>2, <2>2, Zenon
    <3>2. push'[cur[b]] = push[cur[b]]
      BY <1>6, <1>7, <1>8, <1>10, <2>2, <3>1, Zenon
    <3> QED
      BY <1>10, <3>1, <3>2, Zenon DEF PushesOK
  <2> QED
    BY <2>1, <2>2, Zenon
<1> QED
  BY <1>9, <1>10, Zenon DEF PushesOK

-----------------------------------------------------------------------------
(* The session ends *)

LEMMA ReloadKeeps ==
    ASSUME PushesOK, ReloadPage
    PROVE  PushesOK'
<1>1. push' = [q \in PushId |-> NoPush] /\ cur' = [p \in Peer |-> 0]
  BY DEF ReloadPage
<1> QED
  BY <1>1, NoPushOK, Zenon DEF PushesOK

LEMMA LockKeeps ==
    ASSUME TypeOK, PushesOK, LockIdentity
    PROVE  PushesOK'
<1>1. cur' = [p \in Peer |-> 0] /\ store' = store
  BY Zenon DEF LockIdentity, durable
<1>2. ASSUME NEW q \in PushId
      PROVE  PushOK(push'[q], store)
  <2> DEFINE x == IF push[q].todo # {} THEN Aborted(push[q]) ELSE push[q]
  <2>1. push'[q] = x \/ push'[q] = [x EXCEPT !.ended = TRUE, !.armed = FALSE]
    BY Zenon DEF LockIdentity
  <2>2. x \in Push /\ PushOK(x, store)
    <3>1. push[q] \in Push /\ PushOK(push[q], store)
      BY Zenon DEF TypeOK, PushesOK
    <3> QED
      BY <3>1, AbortedOK, AbortedType, Zenon
  <2> DEFINE y == [x EXCEPT !.ended = TRUE, !.armed = FALSE]
  <2> HIDE DEF x
  <2>3. SameDelivery(x, y) /\ y.tasks = x.tasks /\ y.todo \subseteq x.todo
    <3>1. SameDelivery(x, y) /\ y.tasks = x.tasks /\ y.todo = x.todo
      BY <2>2, Zenon DEF SameDelivery, Push
    <3> QED
      BY <3>1
  <2>4. PushOK(y, store)
    <3> HIDE DEF y
    <3> QED BY <2>2, <2>3, FewerClaims, Zenon
  <2> QED
    BY <2>1, <2>2, <2>4
<1> QED
  BY <1>1, <1>2, Zenon DEF PushesOK

-----------------------------------------------------------------------------
(* What members send is cut from their plans *)

FrameOK(f) ==
    f.kind = "batch" => Spread(f.plan) /\ f.total = f.plan.count /\ Faithful(f, f.plan)

FlowOK(c) == \A i \in 1..Len(c) : FrameOK(c[i])

SendsOK(p, o) == o.active => Spread(o.plan) /\ (p \notin Legacy => Paced(o.plan))

LEMMA FlowsAndSends == FramesFaithful <=> \A p \in Peer : SendsOK(p, out[p]) /\ FlowOK(chan[p])
BY Zenon DEF FramesFaithful, FlowOK, FrameOK, SendsOK

LEMMA FlowsAndSendsPrime ==
    FramesFaithful' <=> \A p \in Peer : SendsOK(p, out'[p]) /\ FlowOK(chan'[p])
BY Zenon DEF FramesFaithful, FlowOK, FrameOK, SendsOK

LEMMA FlowAppend ==
    ASSUME NEW c \in Seq(Frame), NEW f \in Frame, FlowOK(c), FrameOK(f)
    PROVE  FlowOK(Append(c, f))
<1>1. /\ Len(Append(c, f)) = Len(c) + 1 /\ Len(c) \in Nat
      /\ \A i \in 1..Len(c) : Append(c, f)[i] = c[i]
      /\ Append(c, f)[Len(c) + 1] = f
  <2>1. Len(c) \in Nat
    BY Lengths, Zenon
  <2> QED
    BY <2>1, Appended
<1> QED
  BY <1>1, LastOrBefore, Zenon DEF FlowOK

LEMMA FlowTail ==
    ASSUME NEW c \in Seq(Frame), c # <<>>, FlowOK(c)
    PROVE  FlowOK(Tail(c)) /\ FrameOK(Head(c))
<1>1. Len(c) \in Nat /\ Len(c) > 0 /\ Head(c) = c[1]
  BY NoElements, Lengths
<1>2. Len(Tail(c)) = Len(c) - 1 /\ \A i \in 1..Len(Tail(c)) : Tail(c)[i] = c[i + 1]
  BY <1>1, HeadAndTail, Zenon
<1> QED
  BY <1>1, <1>2 DEF FlowOK

(* One member's part changes. *)
LEMMA OneMember ==
    ASSUME TypeOK, FramesFaithful, NEW p \in Peer, NEW o, NEW c,
           out' = [out EXCEPT ![p] = o] \/ (out' = out /\ o = out[p]),
           chan' = [chan EXCEPT ![p] = c] \/ (chan' = chan /\ c = chan[p]),
           SendsOK(p, o), FlowOK(c)
    PROVE  FramesFaithful'
<1>1. DOMAIN out = Peer /\ DOMAIN chan = Peer
  BY Zenon DEF TypeOK
<1>2. ASSUME NEW b \in Peer
      PROVE  SendsOK(b, out'[b]) /\ FlowOK(chan'[b])
  <2>1. SendsOK(b, out[b]) /\ FlowOK(chan[b])
    BY FlowsAndSends, Zenon
  <2> QED
    BY <1>1, <2>1, Zenon
<1> QED
  BY <1>2, FlowsAndSendsPrime, Zenon

LEMMA NextFrameOK ==
    ASSUME TypeOK, FramesFaithful, NEW p \in Peer, out[p].active
    PROVE  NextFrame(p) \in Frame /\ FrameOK(NextFrame(p))
<1> DEFINE o == out[p]
<1>1. o.plan \in PlanRecord /\ o.sent \in Nat /\ o.plan.heads \in Nat
  BY Zenon DEF TypeOK, OutPush, PlanRecord
<1>2. Spread(o.plan) /\ (p \notin Legacy => Paced(o.plan))
  BY FlowsAndSends, Zenon DEF SendsOK
<1>3. FrameOK(BatchFrame(p, o.plan, o.sent))
  <2> DEFINE f == BatchFrame(p, o.plan, o.sent)
  <2> HIDE DEF o
  <2>1. /\ f.plan = o.plan /\ f.total = o.plan.count /\ f.index = o.sent
        /\ f.rows = BatchRows(o.plan, o.sent + 1)
        /\ f.order = "asc" => p \notin Legacy /\ ~(o.sent < o.plan.heads)
    BY Zenon DEF BatchFrame
  <2>2. f.order = "asc" => o.sent >= o.plan.heads
    BY <1>1, <2>1, NotBelow, Zenon
  <2> HIDE DEF f
  <2>3. Faithful(f, f.plan)
    BY <1>2, <2>1, <2>2, Zenon DEF Faithful
  <2>4. FrameOK(f)
    BY <1>2, <2>1, <2>3, Zenon DEF FrameOK
  <2> QED
    BY <2>4 DEF f
<1>4. FrameOK(BareFrame("complete", 0))
  BY Zenon DEF FrameOK, BareFrame
<1>5. SyncType
  BY TypeGroups
<1> QED
  BY <1>3, <1>4, <1>5, NextFrameType, Zenon DEF NextFrame

LEMMA HandleDigestFaithful ==
    ASSUME TypeOK, FramesFaithful, NEW p \in Peer, HandleDigest(p)
    PROVE  FramesFaithful'
<1> DEFINE d == Head(ask[p])
           missing == RowsAbove(has[p], d.marks)
<1>1. SendsOK(p, out[p]) /\ FlowOK(chan[p]) /\ chan[p] \in Seq(Frame)
  BY FlowsAndSends, Zenon DEF TypeOK
<1>2. missing \in SUBSET Row
  BY Zenon DEF RowsAbove, TypeOK
<1>3. \/ \E plan \in PlansOf(p, missing) :
            /\ out' = [out EXCEPT ![p] = [active |-> TRUE, sent |-> 0, plan |-> plan]]
            /\ chan' = chan
      \/ out' = out /\ (chan' = chan \/ Say(p, BareFrame("none", d.nonce)))
  BY Zenon DEF HandleDigest
<1>4. d.nonce \in Nat
  <2>1. ask[p] # <<>> /\ ask \in [Peer -> Seq([nonce : Nat, marks : Marks])]
    BY ZenonT(60) DEF HandleDigest, TypeOK
  <2>2. d \in [nonce : Nat, marks : Marks]
    BY <2>1, TailType, ZenonT(60)
  <2> HIDE DEF d
  <2> QED
    BY <2>2
<1> HIDE DEF missing, d
<1>5. ASSUME NEW plan \in PlansOf(p, missing)
      PROVE  SendsOK(p, [active |-> TRUE, sent |-> 0, plan |-> plan])
  BY <1>2, PlanType, Zenon DEF SendsOK, Spread, Paced
<1>6. FlowOK(Append(chan[p], BareFrame("none", d.nonce)))
  <2>1. BareFrame("none", d.nonce) \in Frame
    BY <1>4, BareFrameType
  <2>2. FrameOK(BareFrame("none", d.nonce))
    BY Zenon DEF FrameOK, BareFrame
  <2> QED
    BY <1>1, <2>1, <2>2, FlowAppend, Zenon
<1>7. CASE \E plan \in PlansOf(p, missing) :
            /\ out' = [out EXCEPT ![p] = [active |-> TRUE, sent |-> 0, plan |-> plan]]
            /\ chan' = chan
  BY <1>1, <1>5, <1>7, OneMember, ZenonT(60)
<1>8. CASE out' = out /\ chan' = chan
  BY <1>1, <1>8, OneMember, Zenon
<1>9. CASE out' = out /\ Say(p, BareFrame("none", d.nonce))
  <2>1. chan' = [chan EXCEPT ![p] = Append(chan[p], BareFrame("none", d.nonce))]
    BY <1>9 DEF Say
  <2> QED
    BY <1>1, <1>6, <1>9, <2>1, OneMember, ZenonT(60)
<1> QED
  BY <1>3, <1>7, <1>8, <1>9, Zenon

LEMMA MemberFaithful ==
    ASSUME TypeOK, FramesFaithful, NEW p \in Peer, MemberStep(p)
    PROVE  FramesFaithful'
<1>0. SendsOK(p, out[p]) /\ FlowOK(chan[p]) /\ chan[p] \in Seq(Frame) /\ out[p] \in OutPush
  BY FlowsAndSends, Zenon DEF TypeOK
<1>1. SendsOK(p, Idle) /\ SendsOK(p, SentOne(out[p])) /\ FlowOK(<<>>)
  BY <1>0 DEF SendsOK, Idle, SentOne, FlowOK, OutPush
<1>2. ASSUME NEW f \in Frame, FrameOK(f), Say(p, f)
      PROVE  /\ chan' = [chan EXCEPT ![p] = Append(chan[p], f)]
             /\ FlowOK(Append(chan[p], f))
  BY <1>0, <1>2, FlowAppend, Zenon DEF Say
<1>3. CASE WindowReopens(p)
  BY <1>0, <1>3, OneMember, Zenon DEF WindowReopens
<1>4. CASE PushFrame(p)
  <2>1. out[p].active /\ Say(p, NextFrame(p))
        /\ (out' = [out EXCEPT ![p] = SentOne(out[p])] \/ out' = [out EXCEPT ![p] = Idle])
    BY <1>4, ZenonT(60) DEF PushFrame
  <2>2. NextFrame(p) \in Frame /\ FrameOK(NextFrame(p))
    BY <2>1, NextFrameOK
  <2> QED
    BY <1>1, <1>2, <2>1, <2>2, OneMember, Zenon
<1>5. CASE RepeatFrame(p)
  <2>1. out[p].active /\ Say(p, NextFrame(p)) /\ out' = out
    BY <1>5 DEF RepeatFrame
  <2>2. NextFrame(p) \in Frame /\ FrameOK(NextFrame(p))
    BY <2>1, NextFrameOK
  <2> QED
    BY <1>0, <1>2, <2>1, <2>2, OneMember, ZenonT(60)
<1>6. CASE SkipFrame(p)
  <2>1. out' = [out EXCEPT ![p] = SentOne(out[p])] /\ chan' = chan
    BY <1>6, Zenon DEF SkipFrame
  <2> QED
    BY <1>0, <1>1, <2>1, OneMember, ZenonT(60)
<1>7. CASE StopPush(p)
  <2>1. out' = [out EXCEPT ![p] = Idle] /\ chan' = chan
    BY <1>7 DEF StopPush
  <2> QED
    BY <1>0, <1>1, <2>1, OneMember, ZenonT(60)
<1>8. CASE CloseChannel(p)
  <2>1. chan' = [chan EXCEPT ![p] = <<>>] /\ out' = out
    BY <1>8 DEF CloseChannel
  <2> QED
    BY <1>0, <1>1, <2>1, OneMember, ZenonT(60)
<1>9. ASSUME NEW r \in Row, Write(p, r)
      PROVE  FramesFaithful'
  <2>1. out' = out /\ (chan' = chan \/ Say(p, LiveFrame("live", r)) \/ Say(p, LiveFrame("copy", r)))
    BY <1>9, Zenon DEF Write
  <2>2. LiveFrame("live", r) \in Frame /\ LiveFrame("copy", r) \in Frame
    BY LiveFrameType, Zenon
  <2>3. FrameOK(LiveFrame("live", r)) /\ FrameOK(LiveFrame("copy", r))
    BY DEF FrameOK, LiveFrame, BareFrame
  <2> QED
    BY <1>0, <1>2, <2>1, <2>2, <2>3, OneMember, ZenonT(60)
<1> QED
  BY <1>3, <1>4, <1>5, <1>6, <1>7, <1>8, <1>9, HandleDigestFaithful, Zenon DEF MemberStep

-----------------------------------------------------------------------------
(* The steps of the system *)

LEMMA FlowsUntouched ==
    ASSUME FramesFaithful, UNCHANGED <<out, chan>>
    PROVE  FramesFaithful'
BY Zenon DEF FramesFaithful

LEMMA InternalKeeps ==
    ASSUME UniqueLamports, TypeOK, HoldInv, PushesOK, InternalStep \/ InternalFault
    PROVE  PushesOK'
<1>1. ASSUME NEW q \in PushId, TaskStep(q) \/ RefuseBatch(q) \/ CommitFails(q)
      PROVE  PushesOK'
  BY Zenon, <1>1, ProcessBatchKeeps, CommitKeeps, FinishPushKeeps, EndPushKeeps,
     RefuseBatchKeeps, CommitFailsKeeps DEF TaskStep
<1>2. ASSUME NEW c, CommitWrite(c) \/ WriteFails(c)
      PROVE  PushesOK'
  BY <1>2, PushesUntouched, Zenon DEF CommitWrite, WriteFails, pushVars, durable
<1>3. ASSUME LoadHistory \/ RefusalsExpire
      PROVE  PushesOK'
  BY <1>3, PushesUntouched, Zenon DEF LoadHistory, RefusalsExpire, pushVars, durable
<1>4. ASSUME NEW p \in Peer, ExpectTimeout(p)
      PROVE  PushesOK'
  BY <1>4, PushesUntouched DEF ExpectTimeout, pushVars
<1> QED
  BY <1>1, <1>2, <1>3, <1>4, StallKeeps, Zenon DEF InternalStep, InternalFault

LEMMA ReceiveDelivers ==
    ASSUME TypeOK, HoldInv, DeliveryInv, NEW p \in Peer, ReceiveFrame(p)
    PROVE  DeliveryInv'
<1> DEFINE f == Head(chan[p])
<1>0. PushesOK /\ FramesFaithful
  BY DEF DeliveryInv
<1>1. chan[p] # <<>> /\ chan[p] \in Seq(Frame) /\ SendsOK(p, out[p]) /\ FlowOK(chan[p])
  BY <1>0, FlowsAndSends, Zenon DEF ReceiveFrame, TypeOK
<1>2. f \in Frame /\ FrameOK(f) /\ FlowOK(Tail(chan[p]))
  BY <1>1, FlowTail, HeadAndTail, Zenon
<1>3. FramesFaithful'
  <2>1. chan' = [chan EXCEPT ![p] = Tail(chan[p])] /\ out' = out
    BY Zenon DEF ReceiveFrame
  <2> QED
    BY <1>0, <1>1, <1>2, <2>1, OneMember, ZenonT(60)
<1>4. \/ f.kind = "batch" /\ Batch(p, f)
      \/ Complete(p)
      \/ UNCHANGED <<store, pushVars>>
      \/ UNCHANGED inVars
  BY Zenon DEF ReceiveFrame
<1> HIDE DEF f
<1>5. CASE f.kind = "batch" /\ Batch(p, f)
  <2>1. Faithful(f, f.plan) /\ Spread(f.plan) /\ f.total = f.plan.count
    BY <1>2, <1>5, Zenon DEF FrameOK
  <2> QED
    BY <1>0, <1>2, <1>3, <1>5, <2>1, BatchKeeps, Zenon DEF DeliveryInv
<1>6. CASE Complete(p)
  BY <1>0, <1>3, <1>6, CompleteKeeps DEF DeliveryInv
<1>7. CASE UNCHANGED <<store, pushVars>> \/ UNCHANGED inVars
  <2>1. PushesOK'
    BY <1>0, <1>7, PushesUntouched, Zenon DEF pushVars, inVars
  <2> QED
    BY <1>3, <2>1 DEF DeliveryInv
<1> QED
  BY <1>4, <1>5, <1>6, <1>7, Zenon

LEMMA SessionEndDelivers ==
    ASSUME TypeOK, DeliveryInv, Lock \/ Reload
    PROVE  DeliveryInv'
<1>0. PushesOK /\ FramesFaithful
  BY DEF DeliveryInv
<1>1. PushesOK'
  BY <1>0, LockKeeps, ReloadKeeps DEF Lock, Reload
<1>2. chan' = [p \in Peer |-> <<>>] /\ out' = out
  BY Zenon DEF Lock, Reload
<1>3. ASSUME NEW p \in Peer
      PROVE  SendsOK(p, out'[p]) /\ FlowOK(chan'[p])
  <2>1. SendsOK(p, out'[p])
    BY <1>0, <1>2, FlowsAndSends, Zenon
  <2>2. chan'[p] = <<>>
    BY <1>2, Zenon
  <2> QED
    BY <2>1, <2>2, NoPlaces, Zenon DEF FlowOK
<1> QED
  BY <1>1, <1>3, FlowsAndSendsPrime, Zenon DEF DeliveryInv

LEMMA ClientDelivers ==
    ASSUME TypeOK, HoldInv, DeliveryInv, ClientStep
    PROVE  DeliveryInv'
<1>0. PushesOK /\ FramesFaithful
  BY DEF DeliveryInv
<1>1. ASSUME store \subseteq store', UNCHANGED <<cur, push>>, UNCHANGED <<out, chan>>
      PROVE  DeliveryInv'
  BY <1>0, <1>1, PushesUntouched, FlowsUntouched, Zenon DEF DeliveryInv
<1>2. ASSUME NEW p, BeginDigest(p)
      PROVE  DeliveryInv'
  BY <1>1, <1>2, Zenon DEF BeginDigest, pushVars, wireVars
<1>3. ASSUME NEW p, NEW n, SendDigest(p, n)
      PROVE  DeliveryInv'
  BY <1>1, <1>3, Zenon DEF SendDigest, inVars
<1>4. ASSUME NEW p, NEW n, DigestUnsent(p, n)
      PROVE  DeliveryInv'
  BY <1>1, <1>4, Zenon DEF DigestUnsent, pushVars, wireVars
<1>5. ASSUME NEW p, NEW r, LiveArrives(p, r)
      PROVE  DeliveryInv'
  BY <1>1, <1>5, Zenon DEF LiveArrives, pushVars, wireVars
<1>6. ASSUME NEW r, LiveStored(r)
      PROVE  DeliveryInv'
  BY <1>1, <1>6, Zenon DEF LiveStored, pushVars, wireVars
<1>7. ASSUME NEW r, LiveFails(r)
      PROVE  DeliveryInv'
  BY <1>1, <1>7, Zenon DEF LiveFails, inVars, wireVars
<1> QED
  BY <1>2, <1>3, <1>4, <1>5, <1>6, <1>7, ReceiveDelivers, SessionEndDelivers, Zenon DEF ClientStep

LEMMA NextDelivers ==
    ASSUME UniqueLamports, TypeOK, HoldInv, DeliveryInv, [Next]_vars
    PROVE  DeliveryInv'
<1>0. PushesOK /\ FramesFaithful
  BY DEF DeliveryInv
<1>1. CASE InternalStep \/ InternalFault
  <2>1. UNCHANGED <<out, chan>>
    BY <1>1, Zenon DEF InternalStep, InternalFault, syncVars, wireVars
  <2> QED
    BY <1>0, <1>1, <2>1, InternalKeeps, FlowsUntouched DEF DeliveryInv
<1>2. CASE ClientStep
  BY <1>2, ClientDelivers
<1>3. ASSUME NEW p \in Peer, MemberStep(p)
      PROVE  DeliveryInv'
  <2>1. UNCHANGED inVars
    BY <1>3, Zenon DEF MemberStep, HandleDigest, WindowReopens, PushFrame, RepeatFrame, SkipFrame,
                StopPush, CloseChannel, Write
  <2>2. PushesOK'
    BY <1>0, <2>1, PushesUntouched, Zenon DEF inVars
  <2> QED
    BY <1>0, <1>3, <2>2, MemberFaithful DEF DeliveryInv
<1>4. CASE UNCHANGED vars
  <2>1. store \subseteq store' /\ UNCHANGED <<cur, push>> /\ UNCHANGED <<out, chan>>
    BY <1>4, Zenon DEF vars, inVars, syncVars
  <2> QED
    BY <1>0, <2>1, PushesUntouched, FlowsUntouched DEF DeliveryInv
<1> QED
  BY <1>1, <1>2, <1>3, <1>4 DEF Next

LEMMA InitDelivers == Init => DeliveryInv
<1> SUFFICES ASSUME Init
             PROVE  DeliveryInv
  OBVIOUS
<1>1. push = [q \in PushId |-> NoPush] /\ cur = [p \in Peer |-> 0]
  BY Zenon DEF Init, InInit
<1>2. PushesOK
  BY <1>1, NoPushOK, Zenon DEF PushesOK
<1>3. out = [p \in Peer |-> Idle] /\ chan = [p \in Peer |-> <<>>]
  BY Zenon DEF Init
<1>4. ASSUME NEW p \in Peer
      PROVE  SendsOK(p, out[p]) /\ FlowOK(chan[p])
  BY <1>3 DEF SendsOK, FlowOK, Idle
<1> QED
  BY <1>2, <1>4, FlowsAndSends, Zenon DEF DeliveryInv

LEMMA DeliveryInvariant ==
    ASSUME UniqueLamports
    PROVE  Spec => []DeliveryInv
<1>1. TypeOK /\ HoldInv /\ DeliveryInv /\ [Next]_vars => DeliveryInv'
  BY NextDelivers
<1> QED
  BY <1>1, InitDelivers, TypeCorrect, HoldInvariant, PTL DEF Spec

(* Where no sender issues a lamport twice, what a push is about to write   *)
(* to the watermark store skips none of its rows: each one at or below the *)
(* claim is stored or refused for good, whatever frames were lost or sent  *)
(* twice, batches refused, commits failed, timers fired or sessions ended  *)
(* on the way (batch, account and finish in sync-inbound.ts).              *)
THEOREM ClaimsSkipNothing ==
    ASSUME UniqueLamports
    PROVE  Spec => []PushClaimsSkipNothing
<1>1. DeliveryInv => PushClaimsSkipNothing
  BY Zenon DEF DeliveryInv, PushesOK, PushOK, ClaimsCovered, PushClaimsSkipNothing
<1> QED
  BY <1>1, DeliveryInvariant, PTL
=============================================================================
