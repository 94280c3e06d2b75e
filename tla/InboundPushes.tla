--------------------------- MODULE InboundPushes ---------------------------
(***************************************************************************)
(* The receiving side of room history sync, for one room of one client:    *)
(* the tracker of inbound pushes (transport/sync-inbound.ts), the          *)
(* watermark store with its holds (storage.ts), and what a verified batch  *)
(* leaves behind (_storeSyncBatch in transport/transport.svelte.ts).       *)
(*                                                                         *)
(* An await is a point where other handlers run, so an operation that      *)
(* awaits is several actions: a frame updates its push at once and queues  *)
(* a task; tasks of one push run one at a time; every watermark commit is  *)
(* a step of its own.  The actions here say what the tracker does when an  *)
(* event reaches it; module RoomSync says which events can.                *)
(***************************************************************************)
EXTENDS PushPlan, Sequences

CONSTANTS
    Peer,             \* members that may push to this client
    Self,             \* the identity of this client (a Sender, or nobody)
    Verdict,          \* Verdict[p][r]: how the copy of r that p sends verifies
    MaxFloorSenders,  \* MAX_FLOOR_SENDERS
    MaxPushes,        \* bound: pushes tracked in a behaviour
    MaxNonce          \* bound: digests sent in a behaviour

PushId == 1..MaxPushes

(* "ok" verifies; "refused" is rejected for good (unsigned, or a retired   *)
(* signature); "unusable" verifies but carries a plugin payload nobody     *)
(* accepts; "suspect" is signed but does not verify, so a better copy may  *)
(* exist.                                                                  *)
Verdicts == {"ok", "refused", "unusable", "suspect"}

ASSUME PeerAssumption ==
    /\ Peer # {}
    /\ Verdict \in [Peer -> [Row -> Verdicts]]
    /\ MaxFloorSenders \in Nat
    /\ MaxPushes \in Nat
    /\ MaxNonce \in Nat

VARIABLES
    store,      \* rows in the messages store (durable)
    mark,       \* the watermarks store (durable)
    refused,    \* _refusedLamports: refused for good, this session
    clock,      \* the room's observed lamport
    held,       \* is the room held (_watermarkHolds has it)
    waiting,    \* advances a held room keeps back
    writes,     \* commitWatermark calls under way outside a push
    open,       \* RoomState.open
    owed,       \* RoomState.owed
    expecting,  \* RoomState.expecting: nonce of the latest digest, 0 if none
    nonces,     \* the last nonce issued
    started,    \* pushes started so far
    cur,        \* pushes: the push open from each peer, 0 if none
    push,       \* every push, by number
    claims      \* claims: what a peer's short push delivered, told to it alone

durable == <<store, mark>>
roomVars == <<held, waiting, writes, open, owed, expecting, nonces>>
pushVars == <<started, cur, push, claims>>
inVars == <<store, mark, refused, clock, held, waiting, writes, open, owed,
            expecting, nonces, started, cur, push, claims>>

-----------------------------------------------------------------------------
(* A push, with the queue its promise chain stands for.  todo holds the    *)
(* watermark commits of the task being run.  plan and spliced are history: *)
(* the plan the first frame was cut from, and whether a frame of another   *)
(* plan was taken into this push.                                          *)

Order == {"head", "asc", "none"}

BatchTask(f) == [kind |-> "batch", order |-> f.order, rows |-> f.rows, index |-> f.index]

EndTask(kind) == [kind |-> kind, order |-> "none", rows |-> {}, index |-> 0]

Task == [kind : {"batch", "finish", "whole", "short"}, order : Order,
         rows : SUBSET Row, index : Nat]

Push == [peer : Peer, first : Order, phase : Order, next : Nat, total : Nat,
         broken : BOOLEAN, partial : BOOLEAN, overflowed : BOOLEAN,
         pending : SUBSET Claim, floors : SUBSET Claim,
         tasks : Seq(Task), todo : SUBSET Claim, armed : BOOLEAN,
         ended : BOOLEAN, after : 0..MaxPushes,
         plan : PlanRecord, spliced : BOOLEAN]

NoPlan == [rows |-> {}, count |-> 0, heads |-> 0, at |-> [r \in Row |-> 0]]

(* A number no push has yet, and one whose push is over and done with. *)
NoPush == [peer |-> CHOOSE p \in Peer : TRUE, first |-> "none", phase |-> "none",
           next |-> 0, total |-> 0, broken |-> FALSE, partial |-> FALSE,
           overflowed |-> FALSE, pending |-> {}, floors |-> {}, tasks |-> <<>>,
           todo |-> {}, armed |-> FALSE, ended |-> TRUE, after |-> 0,
           plan |-> NoPlan, spliced |-> FALSE]

InInit ==
    /\ refused = NoMarks
    /\ held = FALSE /\ waiting = NoMarks /\ writes = {}
    /\ open = {} /\ owed = FALSE /\ expecting = [p \in Peer |-> 0] /\ nonces = 0
    /\ started = 0 /\ cur = [p \in Peer |-> 0] /\ push = [q \in PushId |-> NoPush]
    /\ claims = [p \in Peer |-> NoMarks]

-----------------------------------------------------------------------------
(* Holds and waits *)

NoWait == [p \in Peer |-> 0]

SettleUnasked(o, w, e) ==
    /\ open' = o /\ owed' = w /\ expecting' = e
    /\ IF o = {} /\ ~w
       THEN held' = FALSE /\ waiting' = NoMarks /\ UNCHANGED writes
       ELSE held' = TRUE /\ UNCHANGED <<waiting, writes>>

(* settle: with nothing open, owed or expected the room is forgotten and   *)
(* its hold released: every advance that waited starts its commit.         *)
Settle(o, w, e) ==
    /\ open' = o /\ owed' = w /\ expecting' = e
    /\ IF o = {} /\ ~w /\ e = NoWait
       THEN /\ held' = FALSE
            /\ waiting' = NoMarks
            /\ writes' = writes \cup {<<s, waiting[s]>> : s \in {x \in Sender : waiting[x] # NoMark}}
       ELSE held' = TRUE /\ UNCHANGED <<waiting, writes>>

(* expect: a digest to p is about to be read; the room is held from here. *)
Expect(p) ==
    /\ nonces < MaxNonce
    /\ nonces' = nonces + 1
    /\ expecting' = [expecting EXCEPT ![p] = nonces + 1]
    /\ held' = TRUE
    /\ UNCHANGED <<waiting, writes, open, owed>>

ExpectingNothing(p) == [expecting EXCEPT ![p] = NoMark]

NoLongerExpecting(p) == [expecting EXCEPT ![p] = 0]

(* Only the answer to the latest digest counts. *)
IsAnswer(p, n) == expecting[p] # 0 /\ expecting[p] = n

(* answered, with a nonce. *)
AnsweredWith(p, n) ==
    IF IsAnswer(p, n)
    THEN Settle(open, owed, NoLongerExpecting(p)) /\ UNCHANGED nonces
    ELSE UNCHANGED roomVars

(* The wait for an answer runs out (expectMs). *)
ExpectTimeout(p) ==
    /\ expecting[p] # 0
    /\ Settle(open, owed, NoLongerExpecting(p))
    /\ UNCHANGED <<store, mark, refused, clock, nonces, pushVars>>

(* setWatermark: waits in a held room, starts its commit in any other. *)
SetWatermark(c) ==
    IF held
    THEN waiting' = Raise(waiting, c) /\ UNCHANGED writes
    ELSE writes' = writes \cup {c} /\ UNCHANGED waiting

(* commitWatermark, outside a push: one read-and-write transaction. *)
CommitWrite(c) ==
    /\ c \in writes
    /\ writes' = writes \ {c}
    /\ mark' = Raise(mark, c)
    /\ UNCHANGED <<store, refused, clock, held, waiting, open, owed, expecting, nonces, pushVars>>

(* Such a commit throws, and its caller gives up. *)
WriteFails(c) ==
    /\ c \in writes
    /\ writes' = writes \ {c}
    /\ UNCHANGED <<durable, refused, clock, held, waiting, open, owed, expecting, nonces, pushVars>>

-----------------------------------------------------------------------------
NotAFloor(c, floors) == \A f \in floors : f[1] = c[1] => c[2] # f[2]

(* claimable: per sender the highest lamport below that sender's floor.    *)
(* floors is kept as the pairs reported; the lowest of a sender decides.   *)
BelowFloor(c, floors) == \A f \in floors : f[1] = c[1] => c[2] < f[2]

Claimable(C, floors) ==
    {c \in C : /\ BelowFloor(c, floors)
               /\ \A d \in C : d[1] = c[1] /\ BelowFloor(d, floors) => d[2] <= c[2]}

(* fits: head batches lead, asc follows; an older build marks none. *)
Fits(x, order) ==
    IF x.first = "none" THEN order = "none"
    ELSE order # "none" /\ (x.phase = "head" \/ order = "asc")

HasClaims(p) == claims[p] # NoMarks

(* start: a new push from p, behind the one it replaces. *)
StartPush(p, f) ==
    [NoPush EXCEPT !.peer = p, !.first = f.order, !.phase = f.order, !.total = f.total,
                   !.partial = HasClaims(p), !.ended = FALSE, !.after = cur[p],
                   !.plan = f.plan]

(* What frame f makes of push x: batch(), up to its first await. *)
TakeFrame(x, f, joined) ==
    LET over == x.total > 0 /\ f.index + 1 >= x.total
    IN  [x EXCEPT !.broken = @ \/ joined \/ f.index # x.next \/ f.total # x.total
                               \/ ~Fits(x, f.order),
                  !.next = f.index + 1,
                  !.phase = f.order,
                  !.armed = ~over,
                  !.tasks = @ \o <<BatchTask(f)>> \o (IF over THEN <<EndTask("finish")>> ELSE <<>>),
                  !.spliced = @ \/ f.plan # x.plan]

(* batch: frame 0 always starts a push, and ends the one it replaces       *)
(* short; a later frame with no push open joins part-way.                  *)
Batch(p, f) ==
    LET old   == cur[p]
        fresh == old = 0 \/ f.index = 0
        q     == IF fresh THEN started + 1 ELSE old
        x     == IF fresh THEN StartPush(p, f) ELSE push[old]
        y     == TakeFrame(x, f, fresh /\ f.index # 0)
        left  == IF fresh /\ old # 0
                 THEN [push EXCEPT ![old].tasks = Append(@, EndTask("short"))]
                 ELSE push
    IN  /\ q <= MaxPushes
        /\ started' = IF fresh THEN q ELSE started
        /\ push' = [left EXCEPT ![q] = y]
        /\ cur' = [cur EXCEPT ![p] = IF y.armed THEN q ELSE 0]
        /\ claims' = IF fresh /\ f.order # "none" THEN [claims EXCEPT ![p] = NoMarks] ELSE claims
        /\ open' = IF fresh THEN open \cup {q} ELSE open
        /\ expecting' = NoLongerExpecting(p)
        /\ held' = TRUE
        /\ UNCHANGED <<store, mark, refused, clock, waiting, writes, owed, nonces>>

NeverAnswers(p) == FALSE

(* A SyncComplete answers a digest, as a first frame does. *)
CompletionAnswers(p) == expecting[p] # 0

(* Nothing more will be taken into the push: its end is queued. *)
Closed(x, kind) == [x EXCEPT !.tasks = Append(@, EndTask(kind)), !.armed = FALSE]

(* complete: a broken push is over; any other waits for its batches. *)
Complete(p) ==
    LET q == cur[p] IN
    /\ IF q # 0 /\ push[q].broken
       THEN /\ push' = [push EXCEPT ![q] = Closed(@, "finish")]
            /\ cur' = [cur EXCEPT ![p] = 0]
       ELSE UNCHANGED <<push, cur>>
    /\ IF CompletionAnswers(p)
       THEN Settle(open, owed, NoLongerExpecting(p)) /\ UNCHANGED nonces
       ELSE UNCHANGED roomVars
    /\ UNCHANGED <<store, mark, refused, clock, started, claims>>

StallForgets(q) ==
    /\ push[q].armed
    /\ push' = [push EXCEPT ![q].armed = FALSE]
    /\ cur' = [cur EXCEPT ![push[q].peer] = IF @ = q THEN 0 ELSE @]
    /\ UNCHANGED <<store, mark, refused, clock, roomVars, started, claims>>

(* arm's timer fires: nothing came for stallMs, the push is over short. *)
Stall(q) ==
    /\ push[q].armed
    /\ push' = [push EXCEPT ![q] = Closed(@, "short")]
    /\ cur' = [cur EXCEPT ![push[q].peer] = IF @ = q THEN 0 ELSE @]
    /\ UNCHANGED <<store, mark, refused, clock, roomVars, started, claims>>

-----------------------------------------------------------------------------
(* The tasks of a push, in the order they were queued.  A push that        *)
(* replaced another runs behind it.                                        *)

Drained(q) == push[q].tasks = <<>> /\ push[q].todo = {}

Runs(q, kinds) ==
    /\ push[q].tasks # <<>>
    /\ Head(push[q].tasks).kind \in kinds
    /\ push[q].todo = {}
    /\ push[q].after # 0 => Drained(push[q].after)

(* How a batch splits: what we now hold, what is refused for good, what    *)
(* sets a floor.  A row already held needs no verdict.                     *)
HeldOf(p, R) == {r \in R : r \in store \/ Verdict[p][r] = "ok"}
RefusedOf(p, R) == {r \in R \ store : Verdict[p][r] = "refused"}
UnusableOf(p, R) == {r \in R \ store : Verdict[p][r] = "unusable"}
FloorsOf(p, R) == ClaimsOf({r \in R \ store : Verdict[p][r] = "suspect"})

(* The refusals a batch notes (_noteRefused), never past a floor of that   *)
(* batch: per sender its highest refused lamport, unless that is us, and   *)
(* every unusable plugin row.                                              *)
NotedRefusals(p, R) ==
    {c \in ClaimsOf(RefusedOf(p, R)) :
        /\ c[1] # Self
        /\ BelowFloor(c, FloorsOf(p, R))
        /\ \A r \in RefusedOf(p, R) : r.s = c[1] => r.l <= c[2]}
    \cup {c \in ClaimsOf(UnusableOf(p, R)) : BelowFloor(c, FloorsOf(p, R))}

RaiseAll(marks, C) ==
    [s \in Sender |-> Higher(marks[s], Top({l \in {c[2] : c \in C} : <<s, l>> \in C}, NoMark))]

Observe(S) == Higher(clock, TopLamport(S))

MarkedRowsClaim(t) == t.order # "none"

(* Only asc rows claim before their push is whole. *)
ClaimsAtOnce(t) == t.order = "asc"

(* account: what the outcome of a batch means for its push. *)
Account(x, t, heldRows, batchFloors) ==
    LET floors  == x.floors \cup batchFloors
        bursts  == Cardinality({f[1] : f \in floors}) > MaxFloorSenders
        silent  == x.broken \/ x.partial
    IN  IF x.overflowed THEN x
        ELSE IF bursts THEN [x EXCEPT !.overflowed = TRUE, !.broken = TRUE, !.pending = {}]
        ELSE IF ~ClaimsAtOnce(t)
        THEN [x EXCEPT !.floors = floors, !.pending = @ \cup ClaimsOf(heldRows)]
        ELSE [x EXCEPT !.floors = floors,
                       !.todo = IF silent THEN {} ELSE Claimable(ClaimsOf(heldRows), floors)]

(* _storeSyncBatch accepts the frame: rows stored, refusals noted, the     *)
(* clock observed, the outcome accounted.                                  *)
ProcessBatch(q) ==
    LET x == push[q]
        t == Head(x.tasks)
    IN  /\ Runs(q, {"batch"})
        /\ store' = store \cup HeldOf(x.peer, t.rows)
        /\ refused' = RaiseAll(refused, NotedRefusals(x.peer, t.rows))
        /\ clock' = Observe(HeldOf(x.peer, t.rows) \ store)
        /\ push' = [push EXCEPT ![q] =
                      [Account(x, t, HeldOf(x.peer, t.rows), FloorsOf(x.peer, t.rows))
                         EXCEPT !.tasks = Tail(@)]]
        /\ UNCHANGED <<mark, roomVars, started, cur, claims>>

Broken(x) == [x EXCEPT !.tasks = Tail(@), !.broken = TRUE]

(* It refuses the frame whole, or throws. *)
RefuseBatch(q) ==
    /\ Runs(q, {"batch"})
    /\ push' = [push EXCEPT ![q] = Broken(@)]
    /\ UNCHANGED <<durable, refused, clock, roomVars, started, cur, claims>>

(* The next watermark commit of the task being run. *)
Commit(q, c) ==
    /\ c \in push[q].todo
    /\ mark' = Raise(mark, c)
    /\ push' = [push EXCEPT ![q].todo = @ \ {c}]
    /\ UNCHANGED <<store, refused, clock, roomVars, started, cur, claims>>

(* A commit throws: the rest are not tried. *)
Aborted(x) ==
    LET ending == x.tasks # <<>> /\ Head(x.tasks).kind = "whole" IN
    [x EXCEPT !.todo = {},
              !.broken = @ \/ ~ending,
              !.tasks = IF ending THEN <<EndTask("short")>> \o Tail(@) ELSE @]

CommitFails(q) ==
    /\ push[q].todo # {}
    /\ push' = [push EXCEPT ![q] = Aborted(@)]
    /\ UNCHANGED <<durable, refused, clock, roomVars, started, cur, claims>>


(* finish, once the batches before it are handled: only a push that is     *)
(* whole claims what it kept pending.                                      *)
IsWhole(x) == ~x.broken /\ ~x.partial /\ x.total > 0 /\ x.next = x.total

Finished(x) ==
    [x EXCEPT !.todo = IF IsWhole(x) THEN Claimable(x.pending, x.floors) ELSE {},
              !.tasks = <<EndTask(IF IsWhole(x) THEN "whole" ELSE "short")>> \o Tail(@)]

FinishPush(q) ==
    /\ Runs(q, {"finish"})
    /\ push' = [push EXCEPT ![q] = Finished(@)]
    /\ UNCHANGED <<durable, refused, clock, roomVars, started, cur, claims>>

EndsAgain(x) == TRUE

Ends(x) == ~x.ended

(* end: once per push.  A short push of an older build leaves claims for   *)
(* its peer alone; the room owes a completed push after a short one.       *)
EndPush(q) ==
    LET x     == push[q]
        whole == Head(x.tasks).kind = "whole"
        rest  == Tail(x.tasks)
    IN  /\ Runs(q, {"whole", "short"})
        /\ push' = [push EXCEPT ![q] = IF rest = <<>> THEN NoPush
                                       ELSE [x EXCEPT !.tasks = rest, !.ended = TRUE, !.armed = FALSE]]
        /\ IF ~Ends(x)
           THEN UNCHANGED <<cur, claims, roomVars>>
           ELSE /\ cur' = [cur EXCEPT ![x.peer] = IF @ = q THEN 0 ELSE @]
                /\ claims' = IF x.first = "none" /\ ~whole
                             THEN [claims EXCEPT ![x.peer] =
                                     RaiseAll(@, Claimable(x.pending, x.floors))]
                             ELSE claims
                /\ IF held
                   THEN Settle(open \ {q}, ~whole, expecting) /\ UNCHANGED nonces
                   ELSE UNCHANGED roomVars
        /\ UNCHANGED <<durable, refused, clock, started>>

-----------------------------------------------------------------------------
ForgetPushes == open' = {} /\ owed' = FALSE /\ UNCHANGED expecting

(* reset: no room is left. *)
ForgetRooms == open' = {} /\ owed' = FALSE /\ expecting' = NoWait

(* The identity locks: reset() and the hold observer, and every commit     *)
(* under way fails its write guard.  Pushes still open are ended; one      *)
(* already finishing is not, and its tasks run on.                         *)
LockIdentity ==
    /\ push' = [q \in PushId |->
                  LET x == IF push[q].todo # {} THEN Aborted(push[q]) ELSE push[q]
                  IN  IF \E p \in Peer : cur[p] = q
                      THEN [x EXCEPT !.ended = TRUE, !.armed = FALSE] ELSE x]
    /\ cur' = [p \in Peer |-> 0]
    /\ claims' = [p \in Peer |-> NoMarks]
    /\ ForgetRooms
    /\ held' = FALSE /\ waiting' = NoMarks
    /\ writes' = {}
    /\ UNCHANGED <<durable, refused, clock, nonces, started>>

(* The page reloads: only what was written is left.  Nonces start over. *)
ReloadPage ==
    /\ UNCHANGED durable
    /\ refused' = NoMarks
    /\ clock' = 0
    /\ held' = FALSE /\ waiting' = NoMarks /\ writes' = {}
    /\ open' = {} /\ owed' = FALSE /\ expecting' = NoWait /\ nonces' = 0
    /\ started' = 0 /\ cur' = [p \in Peer |-> 0]
    /\ push' = [q \in PushId |-> NoPush]
    /\ claims' = [p \in Peer |-> NoMarks]

(* _loadHistory: opening the room reads its clock back from the rows. *)
LoadHistory ==
    /\ clock' = Observe(store)
    /\ UNCHANGED <<durable, refused, roomVars, pushVars>>

(* A refusal claim is honoured for REFUSED_TTL_MS. *)
RefusalsExpire ==
    /\ refused # NoMarks
    /\ refused' = NoMarks
    /\ UNCHANGED <<store, mark, clock, roomVars, pushVars>>
=============================================================================
