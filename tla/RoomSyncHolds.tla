--------------------------- MODULE RoomSyncHolds ---------------------------
(***************************************************************************)
(* Facts about marks, claims, plans and pushes, and the type correctness   *)
(* of the tracker and of the whole of RoomSync, for every value of the     *)
(* constants; that watermarks never move back, that the room is held       *)
(* exactly while it is unsettled, and that only the end of an open push    *)
(* changes what it owes.                                                   *)
(***************************************************************************)
EXTENDS RoomSyncInv, TLAPS

(* Leaves are for the SMT solver, unless they name another prover. *)
USE SMTT(30)

-----------------------------------------------------------------------------
(* Sequences, which hold the frames under way and a push's tasks *)

LEMMA NoElements ==
    ASSUME NEW S
    PROVE  <<>> \in Seq(S) /\ Len(<<>>) = 0 /\ \A s \in Seq(S) : s # <<>> => Len(s) \in Nat \ {0}
OBVIOUS

LEMMA Lengths ==
    ASSUME NEW S, NEW s \in Seq(S)
    PROVE  Len(s) \in Nat /\ DOMAIN s = 1..Len(s) /\ \A i \in 1..Len(s) : s[i] \in S
OBVIOUS

LEMMA Joined ==
    ASSUME NEW S, NEW s \in Seq(S), NEW t \in Seq(S)
    PROVE  /\ s \o t \in Seq(S)
           /\ Len(s \o t) = Len(s) + Len(t)
           /\ \A i \in 1..(Len(s) + Len(t)) :
                 (s \o t)[i] = IF i <= Len(s) THEN s[i] ELSE t[i - Len(s)]
OBVIOUS

LEMMA Appended ==
    ASSUME NEW S, NEW s \in Seq(S), NEW e \in S
    PROVE  /\ Append(s, e) \in Seq(S) /\ Len(Append(s, e)) = Len(s) + 1
           /\ \A i \in 1..Len(s) : Append(s, e)[i] = s[i]
           /\ Append(s, e)[Len(s) + 1] = e
OBVIOUS

LEMMA HeadAndTail ==
    ASSUME NEW S, NEW s \in Seq(S), s # <<>>
    PROVE  /\ Head(s) \in S /\ Head(s) = s[1] /\ Tail(s) \in Seq(S)
           /\ Len(Tail(s)) = Len(s) - 1
           /\ \A i \in 1..Len(Tail(s)) : Tail(s)[i] = s[i + 1]
OBVIOUS
-----------------------------------------------------------------------------
(* Rows, marks and claims *)

LEMMA ClaimsType ==
    ASSUME NEW S \in SUBSET Row
    PROVE  ClaimsOf(S) \subseteq Claim
BY RowAssumption DEF ClaimsOf, ClaimOf, Claim

LEMMA RaiseType ==
    ASSUME NEW m \in Marks, NEW c \in Claim
    PROVE  /\ Raise(m, c) \in Marks
           /\ \A s \in Sender : Raise(m, c)[s] >= m[s]
BY DEF Marks, Claim, Raise, Higher, NoMark

LEMMA TopType ==
    ASSUME NEW L \in SUBSET Nat, NEW none
    PROVE  Top(L, none) = none \/ Top(L, none) \in Nat
BY Zenon DEF Top

LEMMA RaiseAllType ==
    ASSUME NEW m \in Marks, NEW C \in SUBSET Claim
    PROVE  RaiseAll(m, C) \in Marks
<1>1. ASSUME NEW s \in Sender
      PROVE  Higher(m[s], Top({l \in {c[2] : c \in C} : <<s, l>> \in C}, NoMark)) \in Nat \cup {NoMark}
  <2>1. {l \in {c[2] : c \in C} : <<s, l>> \in C} \in SUBSET Nat
    BY DEF Claim
  <2>2. m[s] \in Nat \cup {NoMark}
    BY DEF Marks
  <2> QED
    BY <2>1, <2>2, TopType, Zenon DEF Higher
<1> QED
  BY <1>1 DEF RaiseAll, Marks

LEMMA NoMarksType == NoMarks \in Marks
BY DEF NoMarks, Marks

LEMMA TopLamportType ==
    ASSUME NEW S \in SUBSET Row
    PROVE  TopLamport(S) \in Nat
<1>1. {r.l : r \in S} \in SUBSET Nat
  BY RowAssumption
<1> QED
  BY <1>1, TopType DEF TopLamport

LEMMA ObserveType ==
    ASSUME NEW S \in SUBSET Row, clock \in Nat
    PROVE  Observe(S) \in Nat
BY TopLamportType DEF Observe, Higher

LEMMA ClaimableType ==
    ASSUME NEW C \in SUBSET Claim, NEW floors
    PROVE  /\ Claimable(C, floors) \subseteq C
           /\ \A c \in Claimable(C, floors) : BelowFloor(c, floors)
           /\ \A c, d \in Claimable(C, floors) : d[1] = c[1] => d[2] <= c[2]
BY DEF Claimable

-----------------------------------------------------------------------------
(* Plans, frames and pushes *)

(* What the receiver relies on in a plan: every row has a batch, and in a  *)
(* plan of a current build, head and rest are ordered as PacedPair says.   *)
LEMMA PlanType ==
    ASSUME NEW p, NEW S \in SUBSET Row, NEW plan \in PlansOf(p, S)
    PROVE  /\ plan \in PlanRecord
           /\ \A r \in plan.rows : plan.at[r] \in 1..plan.count
           /\ p \notin Legacy => \A r, t \in plan.rows :
                 Before(r, t) => PacedPair(r, t, plan.heads, plan.at)
<1>1. \E H : \E ends \in SUBSET S : plan = Chunked(S, H, ends)
  <2>1. CASE p \in Legacy
    BY <2>1 DEF PlansOf, LegacyPlans
  <2>2. CASE p \notin Legacy
    BY <2>2 DEF PlansOf, Plans
  <2> QED
    BY <2>1, <2>2
<1>2. plan.rows = S
  BY <1>1 DEF Chunked
<1>3. plan \in PlanRecord
  BY DEF PlansOf, Plans, LegacyPlans, Cut
<1> QED
  BY <1>2, <1>3 DEF PlansOf, Plans, LegacyPlans, Cut

LEMMA NoPlanType == NoPlan \in PlanRecord
BY DEF NoPlan, PlanRecord

LEMMA NoPushType == NoPush \in Push
BY NoPlanType, PeerAssumption, NoElements DEF NoPush, Push, Order

LEMMA BatchFrameType ==
    ASSUME NEW p, NEW plan \in PlanRecord, NEW i \in Nat
    PROVE  BatchFrame(p, plan, i) \in Frame
BY DEF BatchFrame, Frame, BatchRows, Order, PlanRecord

LEMMA BareFrameType ==
    ASSUME NEW kind \in {"batch", "complete", "none", "live", "copy"}, NEW n \in Nat
    PROVE  BareFrame(kind, n) \in Frame
BY NoPlanType DEF BareFrame, Frame, Order

LEMMA LiveFrameType ==
    ASSUME NEW kind \in {"live", "copy"}, NEW r \in Row
    PROVE  LiveFrame(kind, r) \in Frame
BY BareFrameType DEF LiveFrame, BareFrame, Frame, Order

LEMMA TasksType ==
    /\ \A f \in Frame : BatchTask(f) \in Task
    /\ \A k \in {"finish", "whole", "short"} : EndTask(k) \in Task
BY DEF Frame, BatchTask, EndTask, Task, Order

LEMMA WithTasks ==
    ASSUME NEW x \in Push, NEW ts \in Seq(Task)
    PROVE  [x EXCEPT !.tasks = ts] \in Push
BY Zenon DEF Push

LEMMA WithArmed ==
    ASSUME NEW x \in Push, NEW b \in BOOLEAN
    PROVE  [x EXCEPT !.armed = b] \in Push
BY Zenon DEF Push

(* An end task is queued behind a push. *)
LEMMA QueuedType ==
    ASSUME NEW x \in Push, NEW k \in {"finish", "whole", "short"}
    PROVE  [x EXCEPT !.tasks = Append(@, EndTask(k))] \in Push
<1>1. Append(x.tasks, EndTask(k)) \in Seq(Task)
  BY TasksType, Appended DEF Push
<1> QED
  BY <1>1, WithTasks

LEMMA ClosedType ==
    ASSUME NEW x \in Push, NEW k \in {"finish", "whole", "short"}
    PROVE  Closed(x, k) \in Push /\ Closed(x, k).peer = x.peer /\ Closed(x, k).ended = x.ended
<1> DEFINE tasks == Append(x.tasks, EndTask(k))
<1>1. tasks \in Seq(Task)
  BY TasksType, Appended DEF Push
<1> HIDE DEF tasks
<1>2. /\ [x EXCEPT !.tasks = tasks, !.armed = FALSE] \in Push
      /\ [x EXCEPT !.tasks = tasks, !.armed = FALSE].peer = x.peer
      /\ [x EXCEPT !.tasks = tasks, !.armed = FALSE].ended = x.ended
  BY <1>1, Zenon DEF Push
<1> QED
  BY <1>2 DEF Closed, tasks

LEMMA BrokenType ==
    ASSUME NEW x \in Push, x.tasks # <<>>
    PROVE  Broken(x) \in Push /\ Broken(x).peer = x.peer /\ Broken(x).ended = x.ended
<1> DEFINE tasks == Tail(x.tasks)
<1>1. tasks \in Seq(Task)
  BY HeadAndTail DEF Push
<1> HIDE DEF tasks
<1>2. /\ [x EXCEPT !.tasks = tasks, !.broken = TRUE] \in Push
      /\ [x EXCEPT !.tasks = tasks, !.broken = TRUE].peer = x.peer
      /\ [x EXCEPT !.tasks = tasks, !.broken = TRUE].ended = x.ended
  BY <1>1, Zenon DEF Push
<1> QED
  BY <1>2 DEF Broken, tasks

LEMMA FinishedType ==
    ASSUME NEW x \in Push, x.tasks # <<>>
    PROVE  Finished(x) \in Push /\ Finished(x).peer = x.peer /\ Finished(x).ended = x.ended
<1> DEFINE k == IF IsWhole(x) THEN "whole" ELSE "short"
           todo == IF IsWhole(x) THEN Claimable(x.pending, x.floors) ELSE {}
           tasks == <<EndTask(k)>> \o Tail(x.tasks)
<1>1. x.tasks \in Seq(Task) /\ x.pending \in SUBSET Claim
  BY DEF Push
<1>2. todo \in SUBSET Claim
  BY <1>1, ClaimableType
<1>3. tasks \in Seq(Task)
  <2>1. EndTask(k) \in Task
    BY TasksType
  <2> HIDE DEF k
  <2>2. <<EndTask(k)>> \in Seq(Task)
    BY <2>1
  <2> QED
    BY <1>1, <2>2, HeadAndTail, Joined, Zenon
<1>4. Finished(x) = [x EXCEPT !.todo = todo, !.tasks = tasks]
  BY DEF Finished
<1> HIDE DEF todo, tasks
<1>5. /\ [x EXCEPT !.todo = todo, !.tasks = tasks] \in Push
      /\ [x EXCEPT !.todo = todo, !.tasks = tasks].peer = x.peer
      /\ [x EXCEPT !.todo = todo, !.tasks = tasks].ended = x.ended
  BY <1>2, <1>3, Zenon DEF Push
<1> QED
  BY <1>4, <1>5

LEMMA TakeFrameType ==
    ASSUME NEW x \in Push, NEW f \in Frame, NEW joined \in BOOLEAN
    PROVE  TakeFrame(x, f, joined) \in Push
<1> DEFINE over == x.total > 0 /\ f.index + 1 >= x.total
           tail == IF over THEN <<EndTask("finish")>> ELSE <<>>
<1>1. <<BatchTask(f)>> \in Seq(Task) /\ tail \in Seq(Task)
  BY TasksType
<1>2. x.tasks \o <<BatchTask(f)>> \o tail \in Seq(Task)
  BY <1>1, Joined DEF Push
<1> DEFINE broken == x.broken \/ joined \/ f.index # x.next \/ f.total # x.total
                       \/ ~Fits(x, f.order)
           spliced == x.spliced \/ f.plan # x.plan
           tasks == x.tasks \o <<BatchTask(f)>> \o tail
           armed == ~over
           next == f.index + 1
           phase == f.order
<1>3. TakeFrame(x, f, joined) =
        [x EXCEPT !.broken = broken, !.next = next, !.phase = phase,
                  !.armed = armed, !.tasks = tasks, !.spliced = spliced]
  BY DEF TakeFrame
<1>4. x.broken \in BOOLEAN /\ x.spliced \in BOOLEAN
  BY DEF Push
<1>5. broken \in BOOLEAN /\ spliced \in BOOLEAN
  BY <1>4 DEF Fits
<1>6. armed \in BOOLEAN
  OBVIOUS
<1>7. tasks \in Seq(Task) /\ next \in Nat /\ phase \in Order
  BY <1>2 DEF Frame
<1> HIDE DEF broken, spliced, tasks, armed, next, phase
<1>8. [x EXCEPT !.broken = broken, !.next = next, !.phase = phase,
                !.armed = armed, !.tasks = tasks, !.spliced = spliced] \in Push
  BY <1>5, <1>6, <1>7, Zenon DEF Push
<1> QED
  BY <1>3, <1>8

LEMMA StartPushType ==
    ASSUME NEW p \in Peer, NEW f \in Frame, cur \in [Peer -> 0..MaxPushes]
    PROVE  StartPush(p, f) \in Push
BY NoPushType, ZenonT(60) DEF StartPush, HasClaims, Frame, NoPush, Push

LEMMA AccountType ==
    ASSUME NEW x \in Push, NEW t, NEW R \in SUBSET Row, NEW F \in SUBSET Claim
    PROVE  Account(x, t, R, F) \in Push
<1>1. ClaimsOf(R) \subseteq Claim
  BY ClaimsType
<1>2. Claimable(ClaimsOf(R), x.floors \cup F) \subseteq Claim
  BY <1>1, ClaimableType
<1> QED
  BY <1>1, <1>2, ZenonT(60) DEF Account, Push

LEMMA AbortedType ==
    ASSUME NEW x \in Push
    PROVE  Aborted(x) \in Push
<1>1. ASSUME x.tasks # <<>>
      PROVE  <<EndTask("short")>> \o Tail(x.tasks) \in Seq(Task)
  BY <1>1, TasksType, HeadAndTail, Joined DEF Push
<1> QED
  BY <1>1, ZenonT(60) DEF Aborted, Push

-----------------------------------------------------------------------------
(* Type correctness, by group of variables *)

StoreType == store \subseteq Row /\ mark \in Marks /\ refused \in Marks /\ clock \in Nat

RoomType ==
    /\ held \in BOOLEAN /\ waiting \in Marks /\ writes \subseteq Claim
    /\ open \subseteq PushId /\ owed \in BOOLEAN /\ expecting \in [Peer -> Nat] /\ nonces \in Nat

PushType ==
    /\ started \in 0..MaxPushes /\ cur \in [Peer -> 0..MaxPushes]
    /\ push \in [PushId -> Push] /\ claims \in [Peer -> Marks]

SyncType ==
    /\ asking \subseteq Peer \X Nat /\ checking \subseteq Peer \X Row /\ landing \subseteq Row
    /\ has \in [Peer -> SUBSET Row]
    /\ ask \in [Peer -> Seq([nonce : Nat, marks : Marks])]
    /\ chan \in [Peer -> Seq(Frame)]
    /\ out \in [Peer -> OutPush]
    /\ window \in [Peer -> BOOLEAN]
    /\ faults \in 0..MaxFaults

LEMMA TypeGroups == TypeOK <=> StoreType /\ RoomType /\ PushType /\ SyncType
BY Zenon DEF TypeOK, StoreType, RoomType, PushType, SyncType

LEMMA TypeGroupsPrime == TypeOK' <=> StoreType' /\ RoomType' /\ PushType' /\ SyncType'
BY Zenon DEF TypeOK, StoreType, RoomType, PushType, SyncType

LEMMA InitTypes == Init => TypeOK
<1> SUFFICES ASSUME Init PROVE TypeOK
  OBVIOUS
<1>1. NoMarks \in Marks /\ NoWait \in [Peer -> Nat]
  BY NoMarksType DEF NoWait
<1>2. StoreType
  <2>1. OwnRows \in SUBSET Row
    BY SyncAssumption
  <2>2. mark \in Marks
    BY <1>1, <2>1, RaiseAllType, ClaimsType DEF Init
  <2> QED
    BY <1>1, <2>1, <2>2, TopLamportType DEF Init, InInit, StoreType
<1>3. RoomType
  BY <1>1, Zenon DEF Init, InInit, RoomType
<1>4. PushType
  BY <1>1, NoPushType, PeerAssumption DEF Init, InInit, PushType
<1>5. SyncType
  BY NoPlanType, SyncAssumption, NoElements DEF Init, Idle, SyncType, OutPush
<1> QED
  BY <1>2, <1>3, <1>4, <1>5, TypeGroups

LEMMA SettleType ==
    ASSUME RoomType, NEW o \in SUBSET PushId, NEW w \in BOOLEAN, NEW e \in [Peer -> Nat],
           Settle(o, w, e), nonces' = nonces
    PROVE  RoomType'
<1>1. {<<s, waiting[s]>> : s \in {x \in Sender : waiting[x] # NoMark}} \subseteq Claim
  BY DEF RoomType, Marks, Claim
<1> QED
  BY <1>1, NoMarksType, Zenon DEF Settle, RoomType

LEMMA ExpectType ==
    ASSUME RoomType, NEW p \in Peer, Expect(p)
    PROVE  RoomType'
BY DEF Expect, RoomType

LEMMA NoLongerType ==
    ASSUME RoomType, NEW p
    PROVE  NoLongerExpecting(p) \in [Peer -> Nat]
BY ZenonT(60) DEF RoomType, NoLongerExpecting

LEMMA AnsweredType ==
    ASSUME RoomType, NEW p, NEW n, AnsweredWith(p, n)
    PROVE  RoomType'
<1>1. CASE IsAnswer(p, n)
  BY <1>1, SettleType, NoLongerType DEF AnsweredWith, RoomType
<1>2. CASE ~IsAnswer(p, n)
  BY <1>2 DEF AnsweredWith, roomVars, RoomType
<1> QED
  BY <1>1, <1>2

LEMMA SetWatermarkType ==
    ASSUME RoomType, NEW c \in Claim, SetWatermark(c),
           UNCHANGED <<held, open, owed, expecting, nonces>>
    PROVE  RoomType'
BY RaiseType DEF SetWatermark, RoomType

LEMMA BatchType ==
    ASSUME TypeOK, NEW p \in Peer, NEW f \in Frame, Batch(p, f)
    PROVE  StoreType' /\ RoomType' /\ PushType'
<1> DEFINE old   == cur[p]
           fresh == old = 0 \/ f.index = 0
           q     == IF fresh THEN started + 1 ELSE old
           x     == IF fresh THEN StartPush(p, f) ELSE push[old]
           y     == TakeFrame(x, f, fresh /\ f.index # 0)
           left  == IF fresh /\ old # 0
                    THEN [push EXCEPT ![old].tasks = Append(@, EndTask("short"))]
                    ELSE push
<1>0. StoreType /\ RoomType /\ PushType
  BY TypeGroups
<1>1. q \in PushId /\ (~fresh => old \in PushId)
  BY <1>0 DEF Batch, PushType, PushId
<1>2. x \in Push
  BY <1>0, <1>1, StartPushType DEF PushType
<1>3. (fresh /\ f.index # 0) \in BOOLEAN
  OBVIOUS
<1>4. y \in Push
  <2> HIDE DEF x, fresh
  <2> QED BY <1>2, <1>3, TakeFrameType, Zenon
<1>5. left \in [PushId -> Push]
  <2>1. ASSUME old # 0 PROVE old \in PushId
    BY <1>0, <2>1 DEF PushType, PushId
  <2>2. ASSUME old # 0
        PROVE  [push[old] EXCEPT !.tasks = Append(@, EndTask("short"))] \in Push
    BY <1>0, <2>1, <2>2, QueuedType, ZenonT(60) DEF PushType
  <2> QED
    BY <1>0, <2>1, <2>2 DEF PushType
<1>6. /\ started' = IF fresh THEN q ELSE started
      /\ push' = [left EXCEPT ![q] = y]
      /\ cur' = [cur EXCEPT ![p] = IF y.armed THEN q ELSE 0]
      /\ claims' = IF fresh /\ f.order # "none" THEN [claims EXCEPT ![p] = NoMarks] ELSE claims
      /\ open' = IF fresh THEN open \cup {q} ELSE open
      /\ expecting' = NoLongerExpecting(p)
      /\ held' = TRUE
      /\ UNCHANGED <<store, mark, refused, clock, waiting, writes, owed, nonces>>
  BY Zenon DEF Batch
<1>7. StoreType'
  BY <1>0, <1>6, Zenon DEF StoreType
<1> HIDE DEF q, y, left, fresh
<1>8. RoomType'
  <2>1. open' \subseteq PushId
    BY <1>0, <1>1, <1>6 DEF RoomType
  <2>2. expecting' \in [Peer -> Nat]
    BY <1>0, <1>6, NoLongerType
  <2> QED
    BY <1>0, <1>6, <2>1, <2>2 DEF RoomType
<1>9. PushType'
  <2>1. started' \in 0..MaxPushes /\ cur' \in [Peer -> 0..MaxPushes]
    BY <1>0, <1>1, <1>6, PeerAssumption DEF PushType, PushId
  <2>2. push' \in [PushId -> Push]
    BY <1>4, <1>5, <1>6, ZenonT(60)
  <2>3. claims' \in [Peer -> Marks]
    BY <1>0, <1>6, NoMarksType DEF PushType
  <2> QED
    BY <2>1, <2>2, <2>3 DEF PushType
<1> QED
  BY <1>7, <1>8, <1>9

LEMMA CompleteType ==
    ASSUME TypeOK, NEW p \in Peer, Complete(p)
    PROVE  StoreType' /\ RoomType' /\ PushType'
<1>0. StoreType /\ RoomType /\ PushType
  BY TypeGroups
<1>1. StoreType'
  BY <1>0 DEF Complete, StoreType
<1>2. RoomType'
  <2>1. CASE CompletionAnswers(p)
    BY <1>0, <2>1, SettleType, NoLongerType, Zenon DEF Complete, RoomType
  <2>2. CASE ~CompletionAnswers(p)
    BY <1>0, <2>2, Zenon DEF Complete, roomVars, RoomType
  <2> QED
    BY <2>1, <2>2
<1>3. PushType'
  <2> DEFINE q == cur[p]
  <2>1. CASE q # 0 /\ push[q].broken
    <3>1. q \in PushId
      BY <1>0, <2>1 DEF PushType, PushId
    <3>2. Closed(push[q], "finish") \in Push
      BY <1>0, <3>1, ClosedType DEF PushType
    <3>3. push' = [push EXCEPT ![q] = Closed(push[q], "finish")]
      BY <2>1 DEF Complete
    <3>5. push' \in [PushId -> Push]
      BY <1>0, <3>2, <3>3, Zenon DEF PushType
    <3> QED
      BY <1>0, <2>1, <3>5, PeerAssumption DEF Complete, PushType
  <2>2. CASE ~(q # 0 /\ push[q].broken)
    BY <1>0, <2>2, Zenon DEF Complete, PushType
  <2> QED
    BY <2>1, <2>2
<1> QED
  BY <1>1, <1>2, <1>3

LEMMA StallType ==
    ASSUME TypeOK, NEW q \in PushId, Stall(q)
    PROVE  StoreType' /\ RoomType' /\ PushType'
<1>0. StoreType /\ RoomType /\ PushType
  BY TypeGroups
<1>2. Closed(push[q], "short") \in Push
  BY <1>0, ClosedType DEF PushType
<1>3. push' = [push EXCEPT ![q] = Closed(push[q], "short")]
  BY DEF Stall
<1>4. push' \in [PushId -> Push]
  BY <1>0, <1>2, <1>3 DEF PushType
<1>5. cur' \in [Peer -> 0..MaxPushes]
  <2>1. PICK p : cur' = [cur EXCEPT ![p] = IF @ = q THEN 0 ELSE @]
    BY ZenonT(60) DEF Stall
  <2>2. 0 \in 0..MaxPushes /\ cur \in [Peer -> 0..MaxPushes]
    BY <1>0, PeerAssumption DEF PushType
  <2> QED
    BY <2>1, <2>2, Zenon
<1>6. UNCHANGED <<store, mark, refused, clock, roomVars, started, claims>>
  BY DEF Stall
<1> QED
  BY <1>0, <1>4, <1>5, <1>6 DEF StoreType, RoomType, PushType, roomVars

LEMMA BatchRowsTypes ==
    ASSUME NEW p, NEW R \in SUBSET Row
    PROVE  /\ HeldOf(p, R) \in SUBSET Row
           /\ FloorsOf(p, R) \in SUBSET Claim
BY ClaimsType DEF HeldOf, FloorsOf

(* What a batch notes as refused are claims of some of its rows. *)
LEMMA NotedType ==
    ASSUME NEW p, NEW R \in SUBSET Row, refused \in Marks
    PROVE  RaiseAll(refused, NotedRefusals(p, R)) \in Marks
<1>1. NotedRefusals(p, R) \subseteq ClaimsOf(R)
  BY DEF NotedRefusals, ClaimsOf, RefusedOf, UnusableOf
<1> QED
  BY <1>1, RaiseAllType, ClaimsType

LEMMA ProcessBatchType ==
    ASSUME TypeOK, NEW q \in PushId, ProcessBatch(q)
    PROVE  StoreType' /\ RoomType' /\ PushType'
<1>0. StoreType /\ RoomType /\ PushType
  BY TypeGroups
<1> DEFINE x == push[q]
           t == Head(x.tasks)
           y == Account(x, t, HeldOf(x.peer, t.rows), FloorsOf(x.peer, t.rows))
<1>1. x \in Push /\ x.tasks \in Seq(Task) /\ x.tasks # <<>>
  BY <1>0, Zenon DEF PushType, Push, ProcessBatch, Runs
<1>2. t.rows \in SUBSET Row
  <2>1. t \in Task
    BY <1>1, HeadAndTail
  <2> QED
    BY <2>1 DEF Task
<1> HIDE DEF t
<1>3. StoreType'
  <2>1. store' = store \cup HeldOf(x.peer, t.rows)
    BY Zenon DEF ProcessBatch, t
  <2>2. refused' = RaiseAll(refused, NotedRefusals(x.peer, t.rows))
    BY Zenon DEF ProcessBatch, t
  <2>3. clock' = Observe(HeldOf(x.peer, t.rows) \ store) /\ mark' = mark
    BY Zenon DEF ProcessBatch, t
  <2>4. refused' \in Marks
    BY <1>0, <1>2, <2>2, NotedType, Zenon DEF StoreType
  <2>5. HeldOf(x.peer, t.rows) \in SUBSET Row
    BY <1>2, BatchRowsTypes
  <2>6. clock' \in Nat
    BY <1>0, <2>3, <2>5, ObserveType DEF StoreType
  <2> QED
    BY <1>0, <2>1, <2>3, <2>4, <2>5, <2>6 DEF StoreType
<1>4. y \in Push
  BY <1>1, <1>2, BatchRowsTypes, AccountType, Zenon
<1>5. y.tasks = x.tasks
  BY <1>1 DEF Account, Push
<1>6. push' = [push EXCEPT ![q] = [y EXCEPT !.tasks = Tail(@)]]
  BY Zenon DEF ProcessBatch, t
<1>7. Tail(y.tasks) \in Seq(Task)
  BY <1>1, <1>5, HeadAndTail, Zenon
<1>8. [y EXCEPT !.tasks = Tail(@)] \in Push
  <2> HIDE DEF y
  <2> QED BY <1>4, <1>7, WithTasks
<1>9. push' \in [PushId -> Push]
  BY <1>0, <1>6, <1>8, Zenon DEF PushType
<1> QED
  BY <1>0, <1>3, <1>9, Zenon DEF ProcessBatch, RoomType, PushType, roomVars

LEMMA RefuseBatchType ==
    ASSUME TypeOK, NEW q \in PushId, RefuseBatch(q)
    PROVE  StoreType' /\ RoomType' /\ PushType'
<1>0. StoreType /\ RoomType /\ PushType
  BY TypeGroups
<1>3. Broken(push[q]) \in Push
  BY <1>0, BrokenType, Zenon DEF PushType, RefuseBatch, Runs
<1>4. push' = [push EXCEPT ![q] = Broken(push[q])]
  BY DEF RefuseBatch
<1>5. push' \in [PushId -> Push]
  BY <1>0, <1>3, <1>4 DEF PushType
<1>6. UNCHANGED <<durable, refused, clock, roomVars, started, cur, claims>>
  BY DEF RefuseBatch
<1> QED
  BY <1>0, <1>5, <1>6 DEF StoreType, RoomType, PushType, roomVars, durable

LEMMA CommitType ==
    ASSUME TypeOK, NEW q \in PushId, NEW c, Commit(q, c)
    PROVE  StoreType' /\ RoomType' /\ PushType'
<1>0. StoreType /\ RoomType /\ PushType
  BY TypeGroups
<1>1. push[q] \in Push /\ c \in Claim
  BY <1>0 DEF PushType, Push, Commit
<1>2. [push[q] EXCEPT !.todo = @ \ {c}] \in Push
  BY <1>1 DEF Push
<1>3. push' \in [PushId -> Push]
  BY <1>0, <1>2 DEF PushType, Commit
<1>4. mark' \in Marks
  BY <1>0, <1>1, RaiseType DEF StoreType, Commit
<1>5. UNCHANGED <<store, refused, clock, roomVars, started, cur, claims>>
  BY DEF Commit
<1> QED
  BY <1>0, <1>3, <1>4, <1>5, Zenon DEF StoreType, RoomType, PushType, roomVars

LEMMA CommitFailsType ==
    ASSUME TypeOK, NEW q \in PushId, CommitFails(q)
    PROVE  StoreType' /\ RoomType' /\ PushType'
<1>0. StoreType /\ RoomType /\ PushType
  BY TypeGroups
<1>1. Aborted(push[q]) \in Push
  BY <1>0, AbortedType DEF PushType
<1>2. push' \in [PushId -> Push]
  BY <1>0, <1>1, Zenon DEF PushType, CommitFails
<1>3. UNCHANGED <<durable, refused, clock, roomVars, started, cur, claims>>
  BY DEF CommitFails
<1> QED
  BY <1>0, <1>2, <1>3 DEF StoreType, RoomType, PushType, roomVars, durable

LEMMA FinishPushType ==
    ASSUME TypeOK, NEW q \in PushId, FinishPush(q)
    PROVE  StoreType' /\ RoomType' /\ PushType'
<1>0. StoreType /\ RoomType /\ PushType
  BY TypeGroups
<1>5. Finished(push[q]) \in Push
  BY <1>0, FinishedType, Zenon DEF PushType, FinishPush, Runs
<1>6. push' = [push EXCEPT ![q] = Finished(push[q])]
  BY DEF FinishPush
<1>7. push' \in [PushId -> Push]
  BY <1>0, <1>5, <1>6 DEF PushType
<1>8. UNCHANGED <<durable, refused, clock, roomVars, started, cur, claims>>
  BY DEF FinishPush
<1> QED
  BY <1>0, <1>7, <1>8 DEF StoreType, RoomType, PushType, roomVars, durable

LEMMA EndPushType ==
    ASSUME TypeOK, NEW q \in PushId, EndPush(q)
    PROVE  StoreType' /\ RoomType' /\ PushType'
<1>0. StoreType /\ RoomType /\ PushType
  BY TypeGroups
<1> DEFINE x == push[q]
           whole == Head(x.tasks).kind = "whole"
           rest == Tail(x.tasks)
           y == [x EXCEPT !.tasks = rest, !.ended = TRUE, !.armed = FALSE]
           C == Claimable(x.pending, x.floors)
<1>1. x \in Push /\ x.tasks \in Seq(Task) /\ x.tasks # <<>> /\ x.pending \in SUBSET Claim
  BY <1>0 DEF PushType, Push, EndPush, Runs
<1>2. rest \in Seq(Task)
  BY <1>1, HeadAndTail
<1>3. y \in Push
  <2> HIDE DEF rest, x
  <2> QED BY <1>1, <1>2, Zenon DEF Push
<1>4. push' \in [PushId -> Push]
  <2>1. push' = [push EXCEPT ![q] = IF rest = <<>> THEN NoPush ELSE y]
    BY DEF EndPush
  <2> HIDE DEF y
  <2> QED BY <1>0, <1>3, <2>1, NoPushType DEF PushType
<1>5. RaiseAll(claims[x.peer], C) \in Marks
  <2>1. x.peer \in Peer /\ claims[x.peer] \in Marks
    BY <1>0, <1>1, Zenon DEF Push, PushType
  <2>2. C \in SUBSET Claim
    BY <1>1, ClaimableType, Zenon
  <2>3. \A s \in Sender : (\E c \in C : c[1] = s)
              => \E c \in C : c[1] = s /\ \A d \in C : d[1] = s => d[2] <= c[2]
    BY <1>1, ClaimableType, Zenon
  <2> HIDE DEF C
  <2> QED BY <2>1, <2>2, <2>3, RaiseAllType
<1>6. cur' \in [Peer -> 0..MaxPushes]
  <2>1. cur' = cur \/ cur' = [cur EXCEPT ![x.peer] = IF @ = q THEN 0 ELSE @]
    BY DEF EndPush
  <2> QED
    BY <1>0, <2>1, PeerAssumption DEF PushType
<1>7. claims' \in [Peer -> Marks]
  <2>1. claims' = claims \/ claims' = [claims EXCEPT ![x.peer] = RaiseAll(claims[x.peer], C)]
    BY <1>0, <1>1 DEF EndPush, PushType, Push
  <2> HIDE DEF x, C
  <2> QED BY <1>0, <1>5, <2>1 DEF PushType
<1>8. RoomType'
  <2>1. CASE UNCHANGED roomVars
    BY <1>0, <2>1 DEF RoomType, roomVars
  <2>2. CASE Settle(open \ {q}, ~whole, expecting) /\ UNCHANGED nonces
    <3>1. (~whole) \in BOOLEAN
      OBVIOUS
    <3> HIDE DEF whole
    <3> QED BY <1>0, <2>2, <3>1, SettleType, Zenon DEF RoomType
  <2> QED
    BY <2>1, <2>2 DEF EndPush
<1>9. UNCHANGED <<durable, refused, clock, started>>
  BY DEF EndPush
<1> QED
  BY <1>0, <1>4, <1>6, <1>7, <1>8, <1>9 DEF StoreType, PushType, durable

LEMMA LockIdentityType ==
    ASSUME TypeOK, LockIdentity
    PROVE  StoreType' /\ RoomType' /\ PushType'
<1>0. StoreType /\ RoomType /\ PushType
  BY TypeGroups
<1>1. ASSUME NEW q \in PushId
      PROVE  push'[q] \in Push
  <2> DEFINE x == IF push[q].todo # {} THEN Aborted(push[q]) ELSE push[q]
  <2>1. x \in Push
    BY <1>0, AbortedType DEF PushType
  <2>2. push'[q] = IF \E p \in Peer : cur[p] = q
                   THEN [x EXCEPT !.ended = TRUE, !.armed = FALSE] ELSE x
    BY Zenon DEF LockIdentity
  <2> HIDE DEF x
  <2>3. [x EXCEPT !.ended = TRUE, !.armed = FALSE] \in Push
    BY <2>1, Zenon DEF Push
  <2> QED
    BY <2>1, <2>2, <2>3
<1>2. push' \in [PushId -> Push]
  <2>1. DOMAIN push' = PushId /\ push' = [q \in PushId |-> push'[q]]
    BY Zenon DEF LockIdentity
  <2> QED
    BY <1>1, <2>1
<1>3. cur' \in [Peer -> 0..MaxPushes] /\ claims' \in [Peer -> Marks]
  <2>1. cur' = [p \in Peer |-> 0] /\ claims' = [p \in Peer |-> NoMarks]
    BY Zenon DEF LockIdentity
  <2>2. 0 \in 0..MaxPushes
    BY PeerAssumption
  <2> QED
    BY <2>1, <2>2, NoMarksType
<1>4. RoomType'
  BY <1>0, NoMarksType, Zenon DEF LockIdentity, ForgetRooms, RoomType, NoWait
<1>5. UNCHANGED <<durable, refused, clock, started>>
  BY Zenon DEF LockIdentity
<1> QED
  BY <1>0, <1>2, <1>3, <1>4, <1>5 DEF StoreType, PushType, durable

LEMMA ReloadPageType ==
    ASSUME TypeOK, ReloadPage
    PROVE  StoreType' /\ RoomType' /\ PushType'
<1>0. StoreType
  BY TypeGroups
<1>1. StoreType'
  BY <1>0, NoMarksType DEF ReloadPage, StoreType, durable
<1>2. RoomType'
  BY NoMarksType, Zenon DEF ReloadPage, RoomType, NoWait
<1>3. PushType'
  BY NoMarksType, NoPushType, PeerAssumption DEF ReloadPage, PushType
<1> QED
  BY <1>1, <1>2, <1>3

-----------------------------------------------------------------------------
(* The steps of RoomSync *)

LEMMA InternalStepType ==
    ASSUME TypeOK, InternalStep
    PROVE  TypeOK'
<1>0. StoreType /\ RoomType /\ PushType /\ SyncType
  BY TypeGroups
<1>1. SyncType'
  BY <1>0, Zenon DEF InternalStep, syncVars, SyncType
<1>2. ASSUME NEW q \in PushId, TaskStep(q)
      PROVE  StoreType' /\ RoomType' /\ PushType'
  BY <1>2, ProcessBatchType, CommitType, FinishPushType, EndPushType DEF TaskStep
<1>3. ASSUME NEW c \in writes, CommitWrite(c)
      PROVE  StoreType' /\ RoomType' /\ PushType'
  <2>1. c \in Claim
    BY <1>0 DEF RoomType
  <2>2. mark' \in Marks
    BY <1>0, <1>3, <2>1, RaiseType DEF CommitWrite, StoreType
  <2> QED
    BY <1>0, <1>3, <2>2 DEF CommitWrite, StoreType, RoomType, PushType, pushVars
<1>4. ASSUME NEW q \in PushId, Stall(q)
      PROVE  StoreType' /\ RoomType' /\ PushType'
  BY <1>4, StallType
<1>5. ASSUME LoadHistory
      PROVE  StoreType' /\ RoomType' /\ PushType'
  <2>1. clock' \in Nat
    BY <1>0, <1>5, ObserveType DEF LoadHistory, StoreType
  <2> QED
    BY <1>0, <1>5, <2>1 DEF LoadHistory, StoreType, RoomType, PushType, pushVars, roomVars, durable
<1> QED
  BY <1>1, <1>2, <1>3, <1>4, <1>5, TypeGroupsPrime DEF InternalStep

LEMMA FaultType ==
    ASSUME SyncType, NEW k, Fault(k)
    PROVE  faults' \in 0..MaxFaults
BY SyncAssumption DEF SyncType, Fault

LEMMA InternalFaultType ==
    ASSUME TypeOK, InternalFault
    PROVE  TypeOK'
<1>0. StoreType /\ RoomType /\ PushType /\ SyncType
  BY TypeGroups
<1>1. SyncType'
  <2>1. faults' \in 0..MaxFaults
    BY <1>0, FaultType DEF InternalFault
  <2> QED
    BY <1>0, <2>1, ZenonT(60) DEF InternalFault, liveVars, wireVars, SyncType
<1>2. ASSUME NEW c \in writes, WriteFails(c)
      PROVE  StoreType' /\ RoomType' /\ PushType'
  BY <1>0, <1>2 DEF WriteFails, StoreType, RoomType, PushType, durable, pushVars
<1>3. ASSUME NEW p \in Peer, ExpectTimeout(p)
      PROVE  StoreType' /\ RoomType' /\ PushType'
  <2>1. RoomType'
    BY <1>0, <1>3, SettleType, NoLongerType DEF ExpectTimeout, RoomType
  <2> QED
    BY <1>0, <1>3, <2>1 DEF ExpectTimeout, StoreType, PushType, pushVars
<1>4. ASSUME RefusalsExpire
      PROVE  StoreType' /\ RoomType' /\ PushType'
  BY <1>0, <1>4, NoMarksType
     DEF RefusalsExpire, StoreType, RoomType, PushType, pushVars, roomVars
<1> QED
  BY <1>1, <1>2, <1>3, <1>4, RefuseBatchType, CommitFailsType, TypeGroupsPrime
     DEF InternalFault

(* Steps that leave the client's own state alone. *)
LEMMA ClientUntouched ==
    ASSUME TypeOK, UNCHANGED inVars
    PROVE  StoreType' /\ RoomType' /\ PushType'
BY TypeGroups DEF inVars, StoreType, RoomType, PushType

LEMMA SayType ==
    ASSUME SyncType, NEW p \in Peer, NEW f \in Frame, Say(p, f)
    PROVE  chan' \in [Peer -> Seq(Frame)]
<1>1. Append(chan[p], f) \in Seq(Frame)
  BY Appended, Zenon DEF SyncType
<1> QED
  BY <1>1 DEF Say, SyncType

LEMMA TailType ==
    ASSUME NEW S, NEW c \in [Peer -> Seq(S)], NEW p \in Peer, c[p] # <<>>
    PROVE  [c EXCEPT ![p] = Tail(@)] \in [Peer -> Seq(S)] /\ Head(c[p]) \in S
<1>1. Tail(c[p]) \in Seq(S) /\ Head(c[p]) \in S
  BY HeadAndTail
<1> QED
  BY <1>1

LEMMA OutType ==
    /\ \A plan \in PlanRecord : [active |-> TRUE, sent |-> 0, plan |-> plan] \in OutPush
    /\ Idle \in OutPush
    /\ \A o \in OutPush : SentOne(o) \in OutPush
<1>1. ASSUME NEW o \in OutPush
      PROVE  SentOne(o) \in OutPush
  <2>1. o.sent + 1 \in Nat
    BY DEF OutPush
  <2> QED
    BY <2>1 DEF OutPush, SentOne
<1> QED
  BY <1>1, NoPlanType DEF OutPush, Idle

LEMMA HandleDigestType ==
    ASSUME TypeOK, NEW p \in Peer, HandleDigest(p)
    PROVE  TypeOK'
<1> DEFINE d == Head(ask[p])
           missing == RowsAbove(has[p], d.marks)
<1>0. SyncType
  BY TypeGroups
<1>1. ask' \in [Peer -> Seq([nonce : Nat, marks : Marks])] /\ d.nonce \in Nat
  <2>1. ask[p] # <<>> /\ ask' = [ask EXCEPT ![p] = Tail(@)]
    BY Zenon DEF HandleDigest
  <2>2. ask \in [Peer -> Seq([nonce : Nat, marks : Marks])]
    BY <1>0, Zenon DEF SyncType
  <2>3. d \in [nonce : Nat, marks : Marks]
    BY <2>1, <2>2, TailType, Zenon
  <2> HIDE DEF d
  <2> QED
    BY <2>1, <2>2, <2>3, TailType, Zenon
<1>2. window' \in [Peer -> BOOLEAN]
  BY <1>0, Zenon DEF HandleDigest, SyncType
<1>3. faults' \in 0..MaxFaults
  BY <1>0, FaultType, ZenonT(60) DEF HandleDigest, SyncType
<1>4. missing \in SUBSET Row
  BY <1>0 DEF RowsAbove, SyncType
<1>5. /\ \/ \E plan \in PlansOf(p, missing) :
               out' = [out EXCEPT ![p] = [active |-> TRUE, sent |-> 0, plan |-> plan]]
         \/ out' = out
      /\ chan' = chan \/ Say(p, BareFrame("none", d.nonce))
  BY Zenon DEF HandleDigest
<1> HIDE DEF missing, d
<1>6. out' \in [Peer -> OutPush]
  <2>1. \A plan \in PlansOf(p, missing) : plan \in PlanRecord
    BY <1>4, PlanType
  <2>2. out \in [Peer -> OutPush]
    BY <1>0 DEF SyncType
  <2> QED
    BY <1>5, <2>1, <2>2, OutType
<1>7. chan' \in [Peer -> Seq(Frame)]
  BY <1>0, <1>1, <1>5, SayType, BareFrameType, Zenon DEF SyncType
<1>8. UNCHANGED <<inVars, asking, liveVars, has>>
  BY Zenon DEF HandleDigest
<1>9. SyncType'
  BY <1>0, <1>1, <1>2, <1>3, <1>6, <1>7, <1>8, ZenonT(60) DEF SyncType, liveVars
<1> QED
  BY <1>8, <1>9, ClientUntouched, TypeGroupsPrime

LEMMA NextFrameType ==
    ASSUME SyncType, NEW p \in Peer
    PROVE  NextFrame(p) \in Frame
<1>1. out[p].plan \in PlanRecord /\ out[p].sent \in Nat
  BY DEF SyncType, OutPush
<1> QED
  BY <1>1, BatchFrameType, BareFrameType DEF NextFrame

LEMMA MemberStepType ==
    ASSUME TypeOK, NEW p \in Peer, MemberStep(p)
    PROVE  TypeOK'
<1>0. SyncType
  BY TypeGroups
<1>1. CASE HandleDigest(p)
  BY <1>1, HandleDigestType
<1>2. CASE WindowReopens(p)
  <2>1. SyncType'
    BY <1>0, <1>2, Zenon DEF WindowReopens, SyncType, liveVars
  <2> QED
    BY <1>2, <2>1, ClientUntouched, TypeGroupsPrime DEF WindowReopens
<1>3. CASE PushFrame(p)
  <2>1. chan' \in [Peer -> Seq(Frame)]
    BY <1>0, <1>3, SayType, NextFrameType DEF PushFrame
  <2>2. out' \in [Peer -> OutPush]
    <3>1. \/ out' = [out EXCEPT ![p] = SentOne(out[p])]
          \/ out' = [out EXCEPT ![p] = Idle]
      BY <1>3, Zenon DEF PushFrame
    <3>2. out \in [Peer -> OutPush]
      BY <1>0 DEF SyncType
    <3> QED
      BY <3>1, <3>2, OutType
  <2>3. SyncType'
    BY <1>0, <1>3, <2>1, <2>2, Zenon DEF PushFrame, SyncType, liveVars
  <2> QED
    BY <1>3, <2>3, ClientUntouched, TypeGroupsPrime DEF PushFrame
<1>4. CASE RepeatFrame(p)
  <2>1. chan' \in [Peer -> Seq(Frame)]
    BY <1>0, <1>4, SayType, NextFrameType DEF RepeatFrame
  <2>2. SyncType'
    BY <1>0, <1>4, <2>1, FaultType, Zenon DEF RepeatFrame, SyncType, liveVars
  <2> QED
    BY <1>4, <2>2, ClientUntouched, TypeGroupsPrime DEF RepeatFrame
<1>5. CASE SkipFrame(p)
  <2>1. out' \in [Peer -> OutPush]
    <3>1. out' = [out EXCEPT ![p] = SentOne(out[p])]
      BY <1>5, Zenon DEF SkipFrame
    <3>2. out \in [Peer -> OutPush]
      BY <1>0 DEF SyncType
    <3> QED
      BY <3>1, <3>2, OutType
  <2>2. SyncType'
    BY <1>0, <1>5, <2>1, FaultType, Zenon DEF SkipFrame, SyncType, liveVars
  <2> QED
    BY <1>5, <2>2, ClientUntouched, TypeGroupsPrime, Zenon DEF SkipFrame
<1>6. CASE StopPush(p)
  <2>1. out' \in [Peer -> OutPush]
    BY <1>0, <1>6, OutType DEF StopPush, SyncType
  <2>2. SyncType'
    BY <1>0, <1>6, <2>1, FaultType, Zenon DEF StopPush, SyncType, liveVars
  <2> QED
    BY <1>6, <2>2, ClientUntouched, TypeGroupsPrime DEF StopPush
<1>7. CASE CloseChannel(p)
  <2>1. SyncType'
    BY <1>0, <1>7, FaultType, NoElements, Zenon DEF CloseChannel, SyncType, liveVars
  <2> QED
    BY <1>7, <2>1, ClientUntouched, TypeGroupsPrime DEF CloseChannel
<1>8. ASSUME NEW r \in Row, Write(p, r)
      PROVE  TypeOK'
  <2>1. chan' \in [Peer -> Seq(Frame)]
    BY <1>0, <1>8, SayType, LiveFrameType, Zenon DEF Write, SyncType
  <2>2. faults' \in 0..MaxFaults
    BY <1>0, <1>8, FaultType, ZenonT(60) DEF Write, SyncType
  <2>3. has' \in [Peer -> SUBSET Row]
    BY <1>0, <1>8, Zenon DEF Write, SyncType
  <2>4. SyncType'
    BY <1>0, <1>8, <2>1, <2>2, <2>3, Zenon DEF Write, SyncType, liveVars
  <2> QED
    BY <1>8, <2>4, ClientUntouched, TypeGroupsPrime, Zenon DEF Write
<1> QED
  BY <1>1, <1>2, <1>3, <1>4, <1>5, <1>6, <1>7, <1>8 DEF MemberStep

LEMMA AdvertisedType ==
    ASSUME StoreType, PushType, NEW p \in Peer
    PROVE  Advertised(p) \in Marks
BY DEF StoreType, PushType, Advertised, Higher, Marks, NoMark

LEMMA BeginDigestType ==
    ASSUME TypeOK, NEW p \in Peer, BeginDigest(p)
    PROVE  TypeOK'
<1>0. StoreType /\ RoomType /\ PushType /\ SyncType
  BY TypeGroups
<1>1. RoomType'
  BY <1>0, ExpectType DEF BeginDigest
<1>2. asking' \subseteq Peer \X Nat
  BY <1>0 DEF BeginDigest, RoomType, SyncType
<1>3. StoreType' /\ PushType' /\ SyncType'
  BY <1>0, <1>2, Zenon
     DEF BeginDigest, StoreType, PushType, SyncType, pushVars, liveVars, wireVars
<1> QED
  BY <1>1, <1>3, TypeGroupsPrime

LEMMA SendDigestType ==
    ASSUME TypeOK, NEW p \in Peer, NEW n \in Nat, SendDigest(p, n)
    PROVE  TypeOK'
<1>0. StoreType /\ RoomType /\ PushType /\ SyncType
  BY TypeGroups
<1> DEFINE d == [nonce |-> n, marks |-> Advertised(p)]
<1>1. d \in [nonce : Nat, marks : Marks]
  BY <1>0, AdvertisedType
<1>2. ask' = [ask EXCEPT ![p] = Append(@, d)]
  BY DEF SendDigest
<1> HIDE DEF d
<1>3. Append(ask[p], d) \in Seq([nonce : Nat, marks : Marks])
  BY <1>0, <1>1, Appended, ZenonT(60) DEF SyncType
<1>4. ask' \in [Peer -> Seq([nonce : Nat, marks : Marks])]
  BY <1>0, <1>2, <1>3, ZenonT(60) DEF SyncType
<1>5. SyncType'
  BY <1>0, <1>4, Zenon DEF SendDigest, SyncType, liveVars
<1> QED
  BY <1>5, ClientUntouched, TypeGroupsPrime DEF SendDigest

LEMMA DigestUnsentType ==
    ASSUME TypeOK, NEW p, NEW n, DigestUnsent(p, n)
    PROVE  TypeOK'
<1>0. StoreType /\ RoomType /\ PushType /\ SyncType
  BY TypeGroups
<1>1. RoomType'
  BY <1>0, AnsweredType DEF DigestUnsent
<1>2. faults' \in 0..MaxFaults /\ asking' \subseteq asking
  BY <1>0, FaultType DEF DigestUnsent
<1>3. StoreType' /\ PushType' /\ SyncType'
  BY <1>0, <1>2, ZenonT(60)
     DEF DigestUnsent, StoreType, PushType, SyncType, pushVars, liveVars, wireVars
<1> QED
  BY <1>1, <1>3, TypeGroupsPrime

LEMMA ReceiveFrameType ==
    ASSUME TypeOK, NEW p \in Peer, ReceiveFrame(p)
    PROVE  TypeOK'
<1> DEFINE f == Head(chan[p])
<1>0. StoreType /\ RoomType /\ PushType /\ SyncType
  BY TypeGroups
<1>1. f \in Frame /\ chan' \in [Peer -> Seq(Frame)]
  <2>1. chan[p] # <<>> /\ chan' = [chan EXCEPT ![p] = Tail(@)]
    BY Zenon DEF ReceiveFrame
  <2>2. chan \in [Peer -> Seq(Frame)]
    BY <1>0 DEF SyncType
  <2> QED
    BY <2>1, <2>2, TailType
<1>2. /\ \/ Batch(p, f) /\ UNCHANGED liveVars
         \/ Complete(p) /\ UNCHANGED liveVars
         \/ /\ AnsweredWith(p, f.nonce)
            /\ UNCHANGED <<store, mark, refused, clock, pushVars, liveVars>>
         \/ /\ checking' = checking \cup ({p} \X {r \in f.rows : Verdict[p][r] = "ok"})
            /\ UNCHANGED <<inVars, landing>>
         \/ /\ landing' = landing \cup {r \in f.rows : Verdict[p][r] = "ok"}
            /\ UNCHANGED <<inVars, checking>>
      /\ UNCHANGED <<asking, has, ask, out, window, faults>>
  BY Zenon DEF ReceiveFrame
<1> HIDE DEF f
<1>3. f.rows \subseteq Row
  BY <1>1 DEF Frame
<1>4. StoreType' /\ RoomType' /\ PushType'
  <2>1. ASSUME AnsweredWith(p, f.nonce), UNCHANGED <<store, mark, refused, clock, pushVars>>
        PROVE  StoreType' /\ RoomType' /\ PushType'
    <3>1. RoomType'
      BY <1>0, <2>1, AnsweredType
    <3> QED
      BY <1>0, <2>1, <3>1 DEF StoreType, PushType, pushVars
  <2> QED
    BY <1>1, <1>2, <2>1, BatchType, CompleteType, ClientUntouched, Zenon
<1>5. checking' \subseteq Peer \X Row /\ landing' \subseteq Row
  BY <1>0, <1>2, <1>3, Zenon DEF SyncType, liveVars
<1>6. SyncType'
  BY <1>0, <1>1, <1>2, <1>5, ZenonT(60) DEF SyncType
<1> QED
  BY <1>4, <1>6, TypeGroupsPrime

LEMMA LiveArrivesType ==
    ASSUME TypeOK, NEW p \in Peer, NEW r \in Row, LiveArrives(p, r)
    PROVE  TypeOK'
<1>0. StoreType /\ RoomType /\ PushType /\ SyncType
  BY TypeGroups
<1>1. r.l \in Nat
  BY RowAssumption
<1>2. StoreType'
  BY <1>0, <1>1 DEF LiveArrives, StoreType, Higher
<1>3. RoomType'
  <2>1. Expect(p) \/ UNCHANGED roomVars
    BY DEF LiveArrives
  <2> QED
    BY <1>0, <2>1, ExpectType DEF RoomType, roomVars
<1>4. asking' \subseteq Peer \X Nat
  <2>1. asking' = asking \/ asking' = asking \cup {<<p, nonces + 1>>}
    BY DEF LiveArrives
  <2> QED
    BY <1>0, <2>1 DEF RoomType, SyncType
<1>5. PushType' /\ SyncType'
  BY <1>0, <1>4, Zenon DEF LiveArrives, PushType, SyncType, pushVars, wireVars
<1> QED
  BY <1>2, <1>3, <1>5, TypeGroupsPrime

LEMMA LiveStoredType ==
    ASSUME TypeOK, NEW r \in Row, LiveStored(r)
    PROVE  TypeOK'
<1>0. StoreType /\ RoomType /\ PushType /\ SyncType
  BY TypeGroups
<1>1. r.l \in Nat /\ ClaimOf(r) \in Claim
  BY RowAssumption DEF ClaimOf, Claim
<1>2. StoreType'
  BY <1>0, <1>1 DEF LiveStored, StoreType, Higher
<1>3. RoomType'
  BY <1>0, <1>1, SetWatermarkType DEF LiveStored
<1>4. PushType' /\ SyncType'
  BY <1>0, Zenon DEF LiveStored, PushType, SyncType, pushVars, wireVars
<1> QED
  BY <1>2, <1>3, <1>4, TypeGroupsPrime

LEMMA LiveFailsType ==
    ASSUME TypeOK, NEW r, LiveFails(r)
    PROVE  TypeOK'
<1>0. SyncType
  BY TypeGroups
<1>1. SyncType'
  BY <1>0, FaultType, Zenon DEF LiveFails, SyncType, wireVars
<1> QED
  BY <1>1, ClientUntouched, TypeGroupsPrime DEF LiveFails

LEMMA SessionEndType ==
    ASSUME TypeOK, Lock \/ Reload
    PROVE  TypeOK'
<1>0. SyncType
  BY TypeGroups
<1>1. StoreType' /\ RoomType' /\ PushType'
  BY LockIdentityType, ReloadPageType DEF Lock, Reload
<1>2. faults' \in 0..MaxFaults
  BY <1>0, FaultType DEF Lock, Reload
<1>3. SyncType'
  <2>1. asking' = {} /\ checking' = {} /\ landing' = {} /\ chan' = [p \in Peer |-> <<>>]
    BY DEF Lock, Reload
  <2>2. UNCHANGED <<has, ask, out, window>>
    BY DEF Lock, Reload
  <2> QED
    BY <1>0, <1>2, <2>1, <2>2, NoElements, ZenonT(60) DEF SyncType
<1> QED
  BY <1>1, <1>3, TypeGroupsPrime

LEMMA ClientStepType ==
    ASSUME TypeOK, ClientStep
    PROVE  TypeOK'
<1>0. SyncType
  BY TypeGroups
<1>1. \A d \in asking : d[1] \in Peer /\ d[2] \in Nat
  BY <1>0 DEF SyncType
<1>2. \A a \in checking : a[1] \in Peer /\ a[2] \in Row
  BY <1>0 DEF SyncType
<1>3. \A r \in landing : r \in Row
  BY <1>0 DEF SyncType
<1> QED
  BY <1>1, <1>2, <1>3, BeginDigestType, SendDigestType, DigestUnsentType, ReceiveFrameType,
     LiveArrivesType, LiveStoredType, LiveFailsType, SessionEndType DEF ClientStep

LEMMA NextTypes == TypeOK /\ [Next]_vars => TypeOK'
<1>1. ASSUME TypeOK, UNCHANGED vars
      PROVE  TypeOK'
  <2>1. SyncType'
    BY <1>1, TypeGroups, Zenon DEF vars, syncVars, SyncType
  <2> QED
    BY <1>1, <2>1, ClientUntouched, TypeGroupsPrime DEF vars
<1> QED
  BY <1>1, InternalStepType, InternalFaultType, ClientStepType, MemberStepType DEF Next

(* Every reachable state is well typed: in particular a watermark is a     *)
(* lamport or none (storage.ts), a push is tracked under a number that was *)
(* issued, and what waits in a held room is a claim that can be committed. *)
THEOREM TypeCorrect == Spec => []TypeOK
<1>1. Init => TypeOK
  BY InitTypes
<1>2. TypeOK /\ [Next]_vars => TypeOK'
  BY NextTypes
<1> QED
  BY <1>1, <1>2, PTL DEF Spec

-----------------------------------------------------------------------------
(* Watermarks *)

(* Whatever step is taken, the watermark store stays or is raised by one   *)
(* claim (commitWatermark is its only writer).                             *)
LEMMA MarkSteps ==
    ASSUME TypeOK, Next
    PROVE  mark' = mark \/ \E c \in Claim : mark' = Raise(mark, c)
<1>0. writes \subseteq Claim /\ \A q \in PushId : push[q].todo \subseteq Claim
  BY DEF TypeOK, Push
<1>1. CASE InternalStep
  <2>1. ASSUME NEW q \in PushId, TaskStep(q)
        PROVE  mark' = mark \/ \E c \in Claim : mark' = Raise(mark, c)
    BY <1>0, <2>1, Zenon DEF TaskStep, ProcessBatch, Commit, FinishPush, EndPush, durable
  <2>2. ASSUME NEW c \in writes, CommitWrite(c)
        PROVE  mark' = mark \/ \E d \in Claim : mark' = Raise(mark, d)
    BY <1>0, <2>2 DEF CommitWrite
  <2>3. ASSUME NEW q \in PushId, Stall(q)
        PROVE  mark' = mark
    BY <2>3 DEF Stall
  <2>4. ASSUME LoadHistory
        PROVE  mark' = mark
    BY <2>4 DEF LoadHistory, durable
  <2> QED
    BY <1>1, <2>1, <2>2, <2>3, <2>4 DEF InternalStep
<1>2. CASE InternalFault
  <2>1. ASSUME NEW q, RefuseBatch(q) \/ CommitFails(q)
        PROVE  mark' = mark
    BY <2>1 DEF RefuseBatch, CommitFails, durable
  <2>2. ASSUME NEW c, WriteFails(c)
        PROVE  mark' = mark
    BY <2>2 DEF WriteFails, durable
  <2>3. ASSUME NEW p, ExpectTimeout(p)
        PROVE  mark' = mark
    BY <2>3 DEF ExpectTimeout
  <2>4. ASSUME RefusalsExpire
        PROVE  mark' = mark
    BY <2>4 DEF RefusalsExpire
  <2> QED
    BY <1>2, <2>1, <2>2, <2>3, <2>4 DEF InternalFault
<1>3. CASE ClientStep
  <2>1. ASSUME NEW p \in Peer, ReceiveFrame(p)
        PROVE  mark' = mark
    BY <2>1, Zenon DEF ReceiveFrame, Batch, Complete, inVars
  <2>2. ASSUME Lock \/ Reload
        PROVE  mark' = mark
    BY <2>2, Zenon DEF Lock, Reload, LockIdentity, ReloadPage, durable
  <2>3. ASSUME NEW p, BeginDigest(p)
        PROVE  mark' = mark
    BY <2>3 DEF BeginDigest
  <2>4. ASSUME NEW p, NEW n, SendDigest(p, n) \/ DigestUnsent(p, n)
        PROVE  mark' = mark
    BY <2>4 DEF SendDigest, DigestUnsent, inVars
  <2>5. ASSUME NEW p, NEW r, LiveArrives(p, r)
        PROVE  mark' = mark
    BY <2>5 DEF LiveArrives
  <2>6. ASSUME NEW r, LiveStored(r) \/ LiveFails(r)
        PROVE  mark' = mark
    BY <2>6 DEF LiveStored, LiveFails, inVars
  <2> QED
    BY <1>3, <2>1, <2>2, <2>3, <2>4, <2>5, <2>6 DEF ClientStep
<1>4. ASSUME NEW p \in Peer, MemberStep(p)
      PROVE  mark' = mark
  BY <1>4, Zenon DEF MemberStep, HandleDigest, WindowReopens, PushFrame, RepeatFrame, SkipFrame,
              StopPush, CloseChannel, Write, inVars
<1> QED
  BY <1>1, <1>2, <1>3, <1>4 DEF Next

(* A watermark never moves back, whichever order the commits of pushes,    *)
(* live messages and released holds reach the store in, and whatever fails *)
(* or restarts between them (commitWatermark in storage.ts).               *)
THEOREM WatermarksOnlyAdvance == Spec => MarksNeverRegress
<1>1. TypeOK /\ [Next]_vars => [\A s \in Sender : mark'[s] >= mark[s]]_vars
  <2> SUFFICES ASSUME TypeOK, Next
               PROVE  \A s \in Sender : mark'[s] >= mark[s]
    OBVIOUS
  <2>1. mark \in Marks
    BY DEF TypeOK
  <2>2. CASE mark' = mark
    BY <2>1, <2>2 DEF Marks, NoMark
  <2>3. CASE \E c \in Claim : mark' = Raise(mark, c)
    BY <2>1, <2>3, RaiseType
  <2> QED
    BY <2>2, <2>3, MarkSteps
<1> QED
  BY <1>1, TypeCorrect, PTL DEF Spec, MarksNeverRegress

-----------------------------------------------------------------------------
(* Holds *)

LEMMA SettleHolds ==
    ASSUME NEW o, NEW w \in BOOLEAN, NEW e, Settle(o, w, e)
    PROVE  HeldWhileUnsettled'
BY Zenon DEF Settle, HeldWhileUnsettled, NoWait

LEMMA HoldUntouched ==
    ASSUME HoldInv, UNCHANGED <<held, open, owed, expecting>>, UNCHANGED <<started, cur, push>>
    PROVE  HoldInv'
BY DEF HoldInv, HeldWhileUnsettled, OpenPushesCounted, NoWait

(* A push changes without its peer, its end or the wait of its room. *)
LEMMA PushesChange ==
    ASSUME TypeOK, HoldInv, UNCHANGED <<started, open>>,
           \A p \in Peer : cur'[p] # 0 =>
              /\ cur'[p] = cur[p]
              /\ push'[cur[p]].peer = push[cur[p]].peer
              /\ push'[cur[p]].ended = push[cur[p]].ended
    PROVE  OpenPushesCounted'
BY DEF HoldInv, OpenPushesCounted

LEMMA ExpectHolds ==
    ASSUME TypeOK, NEW p \in Peer, Expect(p)
    PROVE  HeldWhileUnsettled'
<1>1. expecting'[p] = nonces + 1 /\ nonces + 1 # 0
  BY DEF TypeOK, Expect
<1>2. expecting' # NoWait
  BY <1>1 DEF NoWait
<1> QED
  BY <1>2 DEF HeldWhileUnsettled, Expect, NoWait

LEMMA AnsweredHolds ==
    ASSUME TypeOK, HoldInv, NEW p, NEW n, AnsweredWith(p, n)
    PROVE  HeldWhileUnsettled' /\ open' = open
<1>1. CASE IsAnswer(p, n)
  BY <1>1, SettleHolds, ZenonT(60) DEF AnsweredWith, Settle, TypeOK
<1>2. CASE ~IsAnswer(p, n)
  BY <1>2 DEF AnsweredWith, roomVars, HoldInv, HeldWhileUnsettled, NoWait
<1> QED
  BY <1>1, <1>2

(* The next number is none of those issued. *)
LEMMA AfterThose ==
    ASSUME NEW n \in Nat, NEW a \in PushId, a <= n
    PROVE  a # n + 1
BY DEF PushId

LEMMA BatchHolds ==
    ASSUME TypeOK, HoldInv, NEW p \in Peer, NEW f \in Frame, Batch(p, f)
    PROVE  HoldInv'
<1> DEFINE old   == cur[p]
           fresh == old = 0 \/ f.index = 0
           q     == IF fresh THEN started + 1 ELSE old
           x     == IF fresh THEN StartPush(p, f) ELSE push[old]
           y     == TakeFrame(x, f, fresh /\ f.index # 0)
           left  == IF fresh /\ old # 0
                    THEN [push EXCEPT ![old].tasks = Append(@, EndTask("short"))]
                    ELSE push
<1>1. /\ started' = IF fresh THEN q ELSE started
      /\ push' = [left EXCEPT ![q] = y]
      /\ cur' = [cur EXCEPT ![p] = IF y.armed THEN q ELSE 0]
      /\ open' = IF fresh THEN open \cup {q} ELSE open
      /\ held' = TRUE
      /\ q <= MaxPushes
  BY DEF Batch
<1>2. cur \in [Peer -> 0..MaxPushes] /\ started \in Nat /\ push \in [PushId -> Push]
  BY DEF TypeOK
<1>3. q \in PushId /\ q \in open' /\ q <= started'
  BY <1>1, <1>2 DEF PushId, HoldInv, OpenPushesCounted
<1>4. y.peer = p /\ ~y.ended
  <2>1. x \in Push /\ x.peer = p /\ ~x.ended
    <3>1. CASE fresh
      BY <1>2, <3>1, StartPushType, NoPushType, Zenon DEF StartPush, Push
    <3>2. CASE ~fresh
      BY <1>2, <1>3, <3>2 DEF HoldInv, OpenPushesCounted
    <3> QED
      BY <3>1, <3>2, Zenon
  <2> HIDE DEF x, fresh
  <2> QED
    BY <2>1, Zenon DEF TakeFrame, Push
<1>5. ASSUME NEW b \in Peer, cur'[b] # 0
      PROVE  /\ cur'[b] \in open' /\ cur'[b] <= started'
             /\ push'[cur'[b]].peer = b /\ ~push'[cur'[b]].ended
  <2>1. CASE b = p
    <3>1. cur'[b] = q
      BY <1>1, <1>2, <1>5, <2>1, Zenon
    <3>2. push'[q] = y
      <4>1. left \in [PushId -> Push] \/ DOMAIN left = PushId
        BY <1>2
      <4> HIDE DEF left, y, q
      <4> QED BY <1>1, <1>3, <4>1
    <3> HIDE DEF q, y
    <3> QED
      BY <1>3, <1>4, <2>1, <3>1, <3>2, Zenon
  <2>2. CASE b # p
    <3>1. cur'[b] = cur[b] /\ cur[b] \in PushId
      BY <1>1, <1>2, <1>5, <2>2 DEF PushId
    <3>2. /\ cur[b] \in open /\ cur[b] <= started
          /\ push[cur[b]].peer = b /\ ~push[cur[b]].ended
      BY <1>5, <3>1 DEF HoldInv, OpenPushesCounted
    <3>3. cur[b] # q
      <4>1. CASE fresh
        BY <1>2, <3>1, <3>2, <4>1, AfterThose, Zenon
      <4>2. CASE ~fresh
        <5>1. q = cur[p] /\ push[cur[p]].peer = p
          BY <4>2, Zenon DEF HoldInv, OpenPushesCounted
        <5> QED
          BY <2>2, <3>2, <5>1, Zenon
      <4> QED
        BY <4>1, <4>2, Zenon
    <3>4. left[cur[b]].peer = push[cur[b]].peer /\ left[cur[b]].ended = push[cur[b]].ended
      BY <1>2, <3>1 DEF Push
    <3>5. push'[cur[b]] = left[cur[b]]
      <4> HIDE DEF left, y, q
      <4> QED BY <1>1, <3>3
    <3>6. cur[b] \in open' /\ cur[b] <= started'
      BY <1>1, <1>2, <3>1, <3>2
    <3> QED
      BY <3>1, <3>2, <3>4, <3>5, <3>6
  <2> QED
    BY <2>1, <2>2, Zenon
<1>6. HeldWhileUnsettled'
  BY <1>1, <1>3, Zenon DEF HeldWhileUnsettled
<1> QED
  BY <1>5, <1>6 DEF HoldInv, OpenPushesCounted

LEMMA CompleteHolds ==
    ASSUME TypeOK, HoldInv, NEW p \in Peer, Complete(p)
    PROVE  HoldInv'
<1>1. HeldWhileUnsettled' /\ open' = open
  <2>1. CASE CompletionAnswers(p)
    BY <2>1, SettleHolds, ZenonT(60) DEF Complete, Settle, TypeOK
  <2>2. CASE ~CompletionAnswers(p)
    BY <2>2 DEF Complete, roomVars, HoldInv, HeldWhileUnsettled, NoWait
  <2> QED
    BY <2>1, <2>2
<1>2. cur \in [Peer -> 0..MaxPushes] /\ push \in [PushId -> Push]
  BY DEF TypeOK
<1>3. OpenPushesCounted'
  <2>1. CASE UNCHANGED <<push, cur>>
    BY <1>1, <2>1, PushesChange DEF Complete
  <2>2. CASE /\ cur[p] # 0
             /\ \E y : push' = [push EXCEPT ![cur[p]] = y]
             /\ cur' = [cur EXCEPT ![p] = 0]
    <3>1. ASSUME NEW b \in Peer, cur'[b] # 0
          PROVE  /\ cur'[b] = cur[b]
                 /\ push'[cur[b]].peer = push[cur[b]].peer
                 /\ push'[cur[b]].ended = push[cur[b]].ended
      <4>1. b # p /\ cur'[b] = cur[b]
        BY <1>2, <2>2, <3>1
      <4>2. cur[b] # cur[p]
        BY <2>2, <4>1, Zenon DEF HoldInv, OpenPushesCounted
      <4>3. push'[cur[b]] = push[cur[b]]
        BY <1>2, <2>2, <4>2
      <4> QED
        BY <4>1, <4>3, Zenon
    <3> QED
      BY <1>1, <3>1, PushesChange, Zenon DEF Complete
  <2> QED
    BY <2>1, <2>2 DEF Complete
<1> QED
  BY <1>1, <1>3 DEF HoldInv

LEMMA StallHolds ==
    ASSUME TypeOK, HoldInv, NEW q \in PushId, Stall(q)
    PROVE  HoldInv'
<1>1. cur \in [Peer -> 0..MaxPushes] /\ push \in [PushId -> Push]
  BY Zenon DEF TypeOK
<1>2. ASSUME NEW b \in Peer, cur'[b] # 0
      PROVE  /\ cur'[b] = cur[b]
             /\ push'[cur[b]].peer = push[cur[b]].peer
             /\ push'[cur[b]].ended = push[cur[b]].ended
  <2>1. cur'[b] = cur[b]
    BY <1>1, <1>2 DEF Stall
  <2>2. push'[cur[b]].peer = push[cur[b]].peer /\ push'[cur[b]].ended = push[cur[b]].ended
    BY <1>1, <1>2, <2>1, ClosedType DEF Stall, PushId
  <2> QED
    BY <2>1, <2>2, Zenon
<1>3. OpenPushesCounted'
  BY <1>2, PushesChange, Zenon DEF Stall, roomVars
<1> QED
  BY <1>3 DEF HoldInv, HeldWhileUnsettled, Stall, roomVars, NoWait

(* The tasks of a push other than its end change that push only, and       *)
(* neither whose it is nor whether it ended.                               *)
LEMMA TaskChanges ==
    ASSUME TypeOK, NEW q \in PushId,
           \/ ProcessBatch(q) \/ RefuseBatch(q) \/ CommitFails(q) \/ FinishPush(q)
           \/ \E c : Commit(q, c)
    PROVE  \E y : /\ push' = [push EXCEPT ![q] = y]
                  /\ y.peer = push[q].peer /\ y.ended = push[q].ended
<1>0. push \in [PushId -> Push] /\ push[q] \in Push
  BY Zenon DEF TypeOK
<1>1. CASE ProcessBatch(q)
  <2> DEFINE x == push[q]
             t == Head(x.tasks)
             a == Account(x, t, HeldOf(x.peer, t.rows), FloorsOf(x.peer, t.rows))
  <2>1. push' = [push EXCEPT ![q] = [a EXCEPT !.tasks = Tail(@)]]
    BY <1>1, Zenon DEF ProcessBatch
  <2>2. a.peer = x.peer /\ a.ended = x.ended /\ DOMAIN a = DOMAIN x
    <3> HIDE DEF t
    <3> QED BY <1>0 DEF Account, Push
  <2> HIDE DEF a
  <2>3. [a EXCEPT !.tasks = Tail(@)].peer = x.peer /\ [a EXCEPT !.tasks = Tail(@)].ended = x.ended
    BY <1>0, <2>2 DEF Push
  <2> QED
    BY <2>1, <2>3, Zenon
<1>2. CASE RefuseBatch(q)
  <2>1. Broken(push[q]).peer = push[q].peer /\ Broken(push[q]).ended = push[q].ended
    BY <1>0, <1>2, BrokenType, Zenon DEF RefuseBatch, Runs
  <2> QED
    BY <1>2, <2>1, ZenonT(60) DEF RefuseBatch
<1>3. CASE CommitFails(q)
  <2>1. Aborted(push[q]).peer = push[q].peer /\ Aborted(push[q]).ended = push[q].ended
    BY <1>0 DEF Aborted, Push
  <2> QED
    BY <1>3, <2>1, ZenonT(60) DEF CommitFails
<1>4. CASE FinishPush(q)
  <2>1. Finished(push[q]).peer = push[q].peer /\ Finished(push[q]).ended = push[q].ended
    BY <1>0, <1>4, FinishedType, Zenon DEF FinishPush, Runs
  <2> QED
    BY <1>4, <2>1, ZenonT(60) DEF FinishPush
<1>5. ASSUME NEW c, Commit(q, c)
      PROVE  \E y : /\ push' = [push EXCEPT ![q] = y]
                    /\ y.peer = push[q].peer /\ y.ended = push[q].ended
  <2> DEFINE y == [push[q] EXCEPT !.todo = @ \ {c}]
  <2>1. y.peer = push[q].peer /\ y.ended = push[q].ended
    BY <1>0, Zenon DEF Push
  <2>2. push' = [push EXCEPT ![q] = y]
    BY <1>5 DEF Commit
  <2> QED
    BY <2>1, <2>2, ZenonT(60)
<1> QED
  BY <1>1, <1>2, <1>3, <1>4, <1>5

LEMMA TasksHold ==
    ASSUME TypeOK, HoldInv, NEW q \in PushId,
           \/ ProcessBatch(q) \/ RefuseBatch(q) \/ CommitFails(q) \/ FinishPush(q)
           \/ \E c : Commit(q, c)
    PROVE  HoldInv'
<1>1. push \in [PushId -> Push] /\ push[q] \in Push
  BY Zenon DEF TypeOK
<1>2. UNCHANGED <<roomVars, started, cur>>
  BY Zenon DEF ProcessBatch, RefuseBatch, CommitFails, FinishPush, Commit
<1>3. \E y : /\ push' = [push EXCEPT ![q] = y]
             /\ y.peer = push[q].peer /\ y.ended = push[q].ended
  BY TaskChanges, Zenon
<1>4. OpenPushesCounted'
  <2>1. ASSUME NEW b \in Peer, cur'[b] # 0
        PROVE  /\ cur'[b] = cur[b]
               /\ push'[cur[b]].peer = push[cur[b]].peer
               /\ push'[cur[b]].ended = push[cur[b]].ended
    BY <1>1, <1>2, <1>3
  <2> QED
    BY <1>2, <2>1, PushesChange, Zenon DEF roomVars
<1> QED
  BY <1>2, <1>4 DEF HoldInv, HeldWhileUnsettled, roomVars, NoWait

LEMMA EndPushHolds ==
    ASSUME TypeOK, HoldInv, NEW q \in PushId, EndPush(q)
    PROVE  HoldInv'
<1> DEFINE x == push[q]
           whole == Head(x.tasks).kind = "whole"
<1>1. cur \in [Peer -> 0..MaxPushes] /\ push \in [PushId -> Push] /\ x \in Push
  BY Zenon DEF TypeOK
<1>2. \A b \in Peer : cur'[b] # 0 => cur'[b] = cur[b] /\ cur[b] # q
  <2>1. CASE ~Ends(x)
    BY <2>1, Zenon DEF EndPush, Ends, HoldInv, OpenPushesCounted
  <2>2. CASE Ends(x)
    <3>1. cur' = [cur EXCEPT ![x.peer] = IF @ = q THEN 0 ELSE @]
      BY <2>2, Zenon DEF EndPush
    <3>2. \A b \in Peer : cur[b] = q => x.peer = b
      BY DEF HoldInv, OpenPushesCounted, PushId
    <3> QED
      BY <1>1, <3>1, <3>2
  <2> QED
    BY <2>1, <2>2, Zenon
<1>3. \A b \in Peer : cur'[b] # 0 => push'[cur[b]] = push[cur[b]] /\ cur[b] \in open'
  <2>1. open' = open \/ open' = open \ {q}
    BY Zenon DEF EndPush, Settle, roomVars
  <2>2. \A n : n # q => push'[n] = push[n]
    BY <1>1 DEF EndPush
  <2> QED
    BY <1>2, <2>1, <2>2, Zenon DEF HoldInv, OpenPushesCounted
<1>4. OpenPushesCounted'
  BY <1>2, <1>3, ZenonT(60) DEF HoldInv, OpenPushesCounted, EndPush
<1>5. HeldWhileUnsettled'
  <2>1. CASE UNCHANGED roomVars
    BY <2>1 DEF HoldInv, HeldWhileUnsettled, roomVars, NoWait
  <2>2. CASE Settle(open \ {q}, ~whole, expecting)
    <3>1. (~whole) \in BOOLEAN
      OBVIOUS
    <3> HIDE DEF whole
    <3> QED BY <2>2, <3>1, SettleHolds, ZenonT(60)
  <2> QED
    BY <2>1, <2>2, Zenon DEF EndPush
<1> QED
  BY <1>4, <1>5 DEF HoldInv

LEMMA SessionEndHolds ==
    ASSUME TypeOK, HoldInv, Lock \/ Reload
    PROVE  HoldInv'
<1>1. /\ cur' = [p \in Peer |-> 0] /\ open' = {} /\ owed' = FALSE
      /\ expecting' = NoWait /\ held' = FALSE
  BY Zenon DEF Lock, Reload, LockIdentity, ForgetRooms, ReloadPage
<1> QED
  BY <1>1, Zenon DEF HoldInv, HeldWhileUnsettled, OpenPushesCounted, NoWait

LEMMA InternalHolds ==
    ASSUME TypeOK, HoldInv, InternalStep \/ InternalFault
    PROVE  HoldInv'
<1>1. ASSUME NEW q \in PushId, TaskStep(q) \/ RefuseBatch(q) \/ CommitFails(q)
      PROVE  HoldInv'
  BY <1>1, TasksHold, EndPushHolds, Zenon DEF TaskStep
<1>2. ASSUME NEW c, CommitWrite(c) \/ WriteFails(c)
      PROVE  HoldInv'
  BY <1>2, HoldUntouched DEF CommitWrite, WriteFails, pushVars
<1>3. ASSUME LoadHistory \/ RefusalsExpire
      PROVE  HoldInv'
  BY <1>3, HoldUntouched DEF LoadHistory, RefusalsExpire, pushVars, roomVars
<1>4. ASSUME NEW p \in Peer, ExpectTimeout(p)
      PROVE  HoldInv'
  <2>1. Settle(open, owed, NoLongerExpecting(p)) /\ owed \in BOOLEAN
    BY <1>4, Zenon DEF ExpectTimeout, TypeOK
  <2>2. HeldWhileUnsettled'
    BY <2>1, SettleHolds
  <2>3. UNCHANGED <<open, started, cur, push>>
    BY <1>4, <2>1, Zenon DEF ExpectTimeout, Settle, pushVars
  <2> QED
    BY <2>2, <2>3, Zenon DEF HoldInv, OpenPushesCounted
<1> QED
  BY <1>1, <1>2, <1>3, <1>4, StallHolds DEF InternalStep, InternalFault

LEMMA ReceiveHolds ==
    ASSUME TypeOK, HoldInv, NEW p \in Peer, ReceiveFrame(p)
    PROVE  HoldInv'
<1> DEFINE f == Head(chan[p])
<1>1. f \in Frame
  BY TailType, Zenon DEF TypeOK, ReceiveFrame
<1>2. \/ Batch(p, f) \/ Complete(p)
      \/ AnsweredWith(p, f.nonce) /\ UNCHANGED pushVars
      \/ UNCHANGED inVars
  BY Zenon DEF ReceiveFrame
<1> HIDE DEF f
<1>3. ASSUME AnsweredWith(p, f.nonce), UNCHANGED pushVars
      PROVE  HoldInv'
  <2>1. HeldWhileUnsettled' /\ open' = open
    BY <1>3, AnsweredHolds
  <2> QED
    BY <1>3, <2>1, Zenon DEF HoldInv, OpenPushesCounted, pushVars
<1>4. ASSUME UNCHANGED inVars
      PROVE  HoldInv'
  BY <1>4, HoldUntouched DEF inVars
<1> QED
  BY <1>1, <1>2, <1>3, <1>4, BatchHolds, CompleteHolds

LEMMA ClientHolds ==
    ASSUME TypeOK, HoldInv, ClientStep
    PROVE  HoldInv'
<1>1. ASSUME NEW p \in Peer, Expect(p), UNCHANGED pushVars
      PROVE  HoldInv'
  <2>1. HeldWhileUnsettled'
    BY <1>1, ExpectHolds
  <2> QED
    BY <1>1, <2>1, Zenon DEF Expect, HoldInv, OpenPushesCounted, pushVars
<1>2. ASSUME NEW p \in Peer, BeginDigest(p)
      PROVE  HoldInv'
  BY <1>1, <1>2 DEF BeginDigest
<1>3. ASSUME NEW p, NEW n, SendDigest(p, n)
      PROVE  HoldInv'
  BY <1>3, HoldUntouched, Zenon DEF SendDigest, inVars
<1>4. ASSUME NEW p, NEW n, DigestUnsent(p, n)
      PROVE  HoldInv'
  <2>1. HeldWhileUnsettled' /\ open' = open
    BY <1>4, AnsweredHolds DEF DigestUnsent
  <2> QED
    BY <1>4, <2>1, Zenon DEF DigestUnsent, HoldInv, OpenPushesCounted, pushVars
<1>5. ASSUME NEW p \in Peer, NEW r, LiveArrives(p, r)
      PROVE  HoldInv'
  <2>1. UNCHANGED pushVars /\ (Expect(p) \/ UNCHANGED roomVars)
    BY <1>5 DEF LiveArrives
  <2> QED
    BY <1>1, <2>1, HoldUntouched DEF roomVars, pushVars
<1>6. ASSUME NEW r, LiveStored(r) \/ LiveFails(r)
      PROVE  HoldInv'
  BY <1>6, HoldUntouched, Zenon DEF LiveStored, LiveFails, inVars, pushVars
<1>7. \A a \in checking : a[1] \in Peer
  BY Zenon DEF TypeOK
<1> QED
  BY <1>2, <1>3, <1>4, <1>5, <1>6, <1>7, ReceiveHolds, SessionEndHolds DEF ClientStep

LEMMA MemberHolds ==
    ASSUME HoldInv, NEW p, MemberStep(p)
    PROVE  HoldInv'
<1>1. UNCHANGED inVars
  BY Zenon DEF MemberStep, HandleDigest, WindowReopens, PushFrame, RepeatFrame, SkipFrame,
         StopPush, CloseChannel, Write
<1> QED
  BY <1>1, HoldUntouched DEF inVars

LEMMA HoldInvariant == Spec => []HoldInv
<1>1. Init => HoldInv
  BY Zenon DEF Init, InInit, HoldInv, HeldWhileUnsettled, OpenPushesCounted, NoWait
<1>2. TypeOK /\ HoldInv /\ [Next]_vars => HoldInv'
  <2>1. ASSUME HoldInv, UNCHANGED vars
        PROVE  HoldInv'
    BY <2>1, HoldUntouched DEF vars, inVars
  <2> QED
    BY <2>1, InternalHolds, ClientHolds, MemberHolds DEF Next
<1> QED
  BY <1>1, <1>2, TypeCorrect, PTL DEF Spec

(* The room is held exactly while a push is open, a completed one is owed  *)
(* or a digest is unanswered: no interleaving of frames, timers, locks and *)
(* reloads leaves a hold behind or drops one early (settle, end and reset  *)
(* in sync-inbound.ts with the holds of storage.ts).                       *)
THEOREM HoldsAreExact == Spec => []HeldWhileUnsettled
<1>1. HoldInv => HeldWhileUnsettled
  BY DEF HoldInv
<1> QED
  BY <1>1, HoldInvariant, PTL

-----------------------------------------------------------------------------
(* Owing *)

(* A push that has not ended is open.  Only a session that ends under a    *)
(* push already finishing breaks this (reset in sync-inbound.ts).          *)
LiveAreOpen == \A q \in PushId : ~push[q].ended => q \in open

OwedFollows == held /\ held' /\ owed' # owed => open' # open

(* A step that starts and ends no push, and leaves what is owed alone. *)
LEMMA NothingOwed ==
    ASSUME LiveAreOpen, open \subseteq open', owed' = owed,
           \A q \in PushId : push'[q].ended = push[q].ended
    PROVE  LiveAreOpen' /\ OwedFollows
BY Zenon DEF LiveAreOpen, OwedFollows

LEMMA BatchOwes ==
    ASSUME TypeOK, HoldInv, LiveAreOpen, NEW p \in Peer, NEW f \in Frame, Batch(p, f)
    PROVE  LiveAreOpen' /\ OwedFollows
<1> DEFINE old   == cur[p]
           fresh == old = 0 \/ f.index = 0
           n     == IF fresh THEN started + 1 ELSE old
           x     == IF fresh THEN StartPush(p, f) ELSE push[old]
           y     == TakeFrame(x, f, fresh /\ f.index # 0)
           left  == IF fresh /\ old # 0
                    THEN [push EXCEPT ![old].tasks = Append(@, EndTask("short"))]
                    ELSE push
<1>1. /\ push' = [left EXCEPT ![n] = y]
      /\ open' = IF fresh THEN open \cup {n} ELSE open
      /\ owed' = owed
  BY Zenon DEF Batch
<1>2. cur \in [Peer -> 0..MaxPushes] /\ push \in [PushId -> Push]
  BY Zenon DEF TypeOK
<1>3. n \in open' /\ open \subseteq open'
  BY <1>1, <1>2, Zenon DEF HoldInv, OpenPushesCounted
<1>4. \A q \in PushId : left[q].ended = push[q].ended
  BY <1>2 DEF Push
<1>5. ASSUME NEW q \in PushId, ~push'[q].ended
      PROVE  q \in open'
  <2>1. CASE q = n
    BY <1>3, <2>1
  <2>2. CASE q # n
    <3>1. push'[q] = left[q]
      <4> HIDE DEF left, n, y
      <4> QED BY <1>1, <2>2
    <3> HIDE DEF left
    <3> QED
      BY <1>3, <1>4, <1>5, <3>1, Zenon DEF LiveAreOpen
  <2> QED
    BY <2>1, <2>2
<1> QED
  BY <1>1, <1>5, Zenon DEF LiveAreOpen, OwedFollows

LEMMA CompleteOwes ==
    ASSUME TypeOK, LiveAreOpen, NEW p \in Peer, Complete(p)
    PROVE  LiveAreOpen' /\ OwedFollows
<1>1. cur \in [Peer -> 0..MaxPushes] /\ push \in [PushId -> Push]
  BY Zenon DEF TypeOK
<1>2. \A q \in PushId : push'[q].ended = push[q].ended
  <2>1. CASE push' = push
    BY <2>1, Zenon
  <2>2. CASE cur[p] # 0 /\ push' = [push EXCEPT ![cur[p]] = Closed(@, "finish")]
    <3>1. cur[p] \in PushId
      BY <1>1, <2>2 DEF PushId
    <3>2. Closed(push[cur[p]], "finish").ended = push[cur[p]].ended
      BY <1>1, <3>1, ClosedType
    <3> QED
      BY <1>1, <2>2, <3>1, <3>2
  <2> QED
    BY <2>1, <2>2, Zenon DEF Complete
<1>3. open' = open /\ owed' = owed
  BY Zenon DEF Complete, Settle, roomVars
<1> QED
  BY <1>2, <1>3, NothingOwed, Zenon

LEMMA StallOwes ==
    ASSUME TypeOK, LiveAreOpen, NEW n \in PushId, Stall(n)
    PROVE  LiveAreOpen' /\ OwedFollows
<1>1. push \in [PushId -> Push]
  BY Zenon DEF TypeOK
<1>2. \A q \in PushId : push'[q].ended = push[q].ended
  BY <1>1, ClosedType DEF Stall
<1>3. open' = open /\ owed' = owed
  BY Zenon DEF Stall, roomVars
<1> QED
  BY <1>2, <1>3, NothingOwed, Zenon

LEMMA TaskOwes ==
    ASSUME TypeOK, LiveAreOpen, NEW n \in PushId,
           \/ ProcessBatch(n) \/ RefuseBatch(n) \/ CommitFails(n) \/ FinishPush(n)
           \/ \E c : Commit(n, c)
    PROVE  LiveAreOpen' /\ OwedFollows
<1>1. push \in [PushId -> Push]
  BY Zenon DEF TypeOK
<1>2. PICK y : push' = [push EXCEPT ![n] = y] /\ y.ended = push[n].ended
  BY TaskChanges, Zenon
<1>3. \A q \in PushId : push'[q].ended = push[q].ended
  BY <1>1, <1>2
<1>4. open' = open /\ owed' = owed
  BY Zenon DEF ProcessBatch, RefuseBatch, CommitFails, FinishPush, Commit, roomVars
<1> QED
  BY <1>3, <1>4, NothingOwed, Zenon

LEMMA EndPushOwes ==
    ASSUME TypeOK, HoldInv, LiveAreOpen, NEW n \in PushId, EndPush(n)
    PROVE  LiveAreOpen' /\ OwedFollows
<1> DEFINE x == push[n]
           whole == Head(x.tasks).kind = "whole"
<1>1. push \in [PushId -> Push] /\ x \in Push
  BY Zenon DEF TypeOK
<1>2. \A q \in PushId : q # n => push'[q] = push[q]
  BY <1>1 DEF EndPush
<1>3. push'[n].ended
  <2>1. [x EXCEPT !.tasks = Tail(x.tasks), !.ended = TRUE, !.armed = FALSE].ended
    BY <1>1, Zenon DEF Push
  <2>2. NoPush.ended
    BY Zenon DEF NoPush
  <2>3. \/ push'[n] = NoPush
        \/ push'[n] = [x EXCEPT !.tasks = Tail(x.tasks), !.ended = TRUE, !.armed = FALSE]
    BY <1>1 DEF EndPush
  <2> QED
    BY <2>1, <2>2, <2>3, Zenon
<1>4. CASE x.ended
  <2>1. open' = open /\ owed' = owed
    BY <1>4, Zenon DEF EndPush, Ends, roomVars
  <2> QED
    BY <1>2, <1>3, <2>1, Zenon DEF LiveAreOpen, OwedFollows
<1>5. CASE ~x.ended
  <2>1. n \in open /\ held
    BY <1>5 DEF LiveAreOpen, HoldInv, HeldWhileUnsettled
  <2>2. open' = open \ {n}
    BY <1>5, <2>1, Zenon DEF EndPush, Ends, Settle
  <2>3. OwedFollows
    BY <2>1, <2>2 DEF OwedFollows
  <2>4. ASSUME NEW q \in PushId, ~push'[q].ended
        PROVE  q \in open'
    BY <1>2, <1>3, <2>2, <2>4, Zenon DEF LiveAreOpen
  <2> QED
    BY <2>3, <2>4, Zenon DEF LiveAreOpen
<1> QED
  BY <1>4, <1>5

LEMMA ReloadOwes ==
    ASSUME Reload
    PROVE  LiveAreOpen' /\ OwedFollows
<1>1. push' = [q \in PushId |-> NoPush] /\ held' = FALSE
  BY Zenon DEF Reload, ReloadPage
<1>2. NoPush.ended
  BY Zenon DEF NoPush
<1>3. \A q \in PushId : push'[q] = NoPush
  BY <1>1, Zenon
<1> QED
  BY <1>1, <1>2, <1>3, Zenon DEF LiveAreOpen, OwedFollows

LEMMA RestOwes ==
    ASSUME LiveAreOpen, UNCHANGED <<open, owed, push>>
    PROVE  LiveAreOpen' /\ OwedFollows
BY NothingOwed, Zenon

LEMMA InternalOwes ==
    ASSUME TypeOK, HoldInv, LiveAreOpen, InternalStep \/ InternalFault
    PROVE  LiveAreOpen' /\ OwedFollows
<1>1. ASSUME NEW q \in PushId, TaskStep(q) \/ RefuseBatch(q) \/ CommitFails(q)
      PROVE  LiveAreOpen' /\ OwedFollows
  BY <1>1, TaskOwes, EndPushOwes, Zenon DEF TaskStep
<1>2. ASSUME NEW c, CommitWrite(c) \/ WriteFails(c)
      PROVE  LiveAreOpen' /\ OwedFollows
  BY <1>2, RestOwes, Zenon DEF CommitWrite, WriteFails, pushVars
<1>3. ASSUME LoadHistory \/ RefusalsExpire
      PROVE  LiveAreOpen' /\ OwedFollows
  BY <1>3, RestOwes DEF LoadHistory, RefusalsExpire, pushVars, roomVars
<1>4. ASSUME NEW p \in Peer, ExpectTimeout(p)
      PROVE  LiveAreOpen' /\ OwedFollows
  BY <1>4, RestOwes, Zenon DEF ExpectTimeout, Settle, pushVars
<1> QED
  BY <1>1, <1>2, <1>3, <1>4, StallOwes, Zenon DEF InternalStep, InternalFault

LEMMA ReceiveOwes ==
    ASSUME TypeOK, HoldInv, LiveAreOpen, NEW p \in Peer, ReceiveFrame(p)
    PROVE  LiveAreOpen' /\ OwedFollows
<1> DEFINE f == Head(chan[p])
<1>1. f \in Frame
  BY TailType, Zenon DEF TypeOK, ReceiveFrame
<1>2. \/ Batch(p, f) \/ Complete(p)
      \/ AnsweredWith(p, f.nonce) /\ UNCHANGED pushVars
      \/ UNCHANGED inVars
  BY Zenon DEF ReceiveFrame
<1> HIDE DEF f
<1>3. ASSUME AnsweredWith(p, f.nonce), UNCHANGED pushVars
      PROVE  LiveAreOpen' /\ OwedFollows
  BY <1>3, RestOwes, Zenon DEF AnsweredWith, Settle, roomVars, pushVars
<1>4. ASSUME UNCHANGED inVars
      PROVE  LiveAreOpen' /\ OwedFollows
  BY <1>4, RestOwes DEF inVars
<1> QED
  BY <1>1, <1>2, <1>3, <1>4, BatchOwes, CompleteOwes

LEMMA ClientOwes ==
    ASSUME TypeOK, HoldInv, LiveAreOpen, ClientStep, ~Lock
    PROVE  LiveAreOpen' /\ OwedFollows
<1>1. ASSUME NEW p, BeginDigest(p)
      PROVE  LiveAreOpen' /\ OwedFollows
  BY <1>1, RestOwes, Zenon DEF BeginDigest, Expect, pushVars
<1>2. ASSUME NEW p, NEW n, SendDigest(p, n) \/ DigestUnsent(p, n)
      PROVE  LiveAreOpen' /\ OwedFollows
  BY <1>2, RestOwes, Zenon DEF SendDigest, DigestUnsent, AnsweredWith, Settle, inVars, roomVars, pushVars
<1>3. ASSUME NEW p, NEW r, LiveArrives(p, r)
      PROVE  LiveAreOpen' /\ OwedFollows
  BY <1>3, RestOwes, Zenon DEF LiveArrives, Expect, roomVars, pushVars
<1>4. ASSUME NEW r, LiveStored(r) \/ LiveFails(r)
      PROVE  LiveAreOpen' /\ OwedFollows
  BY <1>4, RestOwes, Zenon DEF LiveStored, LiveFails, inVars, pushVars
<1> QED
  BY <1>1, <1>2, <1>3, <1>4, ReceiveOwes, ReloadOwes DEF ClientStep

LEMMA MemberOwes ==
    ASSUME LiveAreOpen, NEW p, MemberStep(p)
    PROVE  LiveAreOpen' /\ OwedFollows
<1>1. UNCHANGED inVars
  BY Zenon DEF MemberStep, HandleDigest, WindowReopens, PushFrame, RepeatFrame, SkipFrame,
         StopPush, CloseChannel, Write
<1> QED
  BY <1>1, RestOwes DEF inVars

(* While the identity is not locked, what a room owes changes only with    *)
(* the end of a push it counts as open: no push settles the debt of        *)
(* another session, or twice (end and settle in sync-inbound.ts).  A lock  *)
(* during the last tasks of a push is the one exception: reset forgets the *)
(* room and not the push.                                                  *)
THEOREM OwedUnlessLocked ==
    ASSUME "lock" \notin Faulty
    PROVE  Spec => OwedByOpenPushes
<1>1. Init => LiveAreOpen
  <2>1. NoPush.ended
    BY Zenon DEF NoPush
  <2> QED
    BY <2>1, Zenon DEF Init, InInit, LiveAreOpen
<1>2. TypeOK /\ HoldInv /\ LiveAreOpen /\ Next => LiveAreOpen' /\ OwedFollows
  <2>1. ~Lock
    BY Zenon DEF Lock, Fault
  <2> QED
    BY <2>1, InternalOwes, ClientOwes, MemberOwes DEF Next
<1>3. LiveAreOpen /\ UNCHANGED vars => LiveAreOpen'
  BY RestOwes DEF vars, inVars
<1>4. TypeOK /\ HoldInv /\ LiveAreOpen /\ [Next]_vars
        => LiveAreOpen' /\ [held /\ held' /\ owed' # owed => open' # open]_vars
  BY <1>2, <1>3, Zenon DEF OwedFollows
<1> QED
  BY <1>1, <1>4, TypeCorrect, HoldInvariant, PTL DEF Spec, OwedByOpenPushes
=============================================================================
