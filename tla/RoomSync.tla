------------------------------ MODULE RoomSync ------------------------------
(***************************************************************************)
(* Room history sync between one client and the members that push to it:   *)
(* digests out, pushes and SyncNone back, live messages beside them, over  *)
(* channels that keep order and may close with frames in flight            *)
(* (transport/transport.svelte.ts, transport/sync-push.ts,                 *)
(* transport/sync-throttle.ts, room-security/channel.ts).                  *)
(*                                                                         *)
(* Only the direction member -> client is modelled: the other one is the   *)
(* same code with the roles exchanged.                                     *)
(***************************************************************************)
EXTENDS InboundPushes

CONSTANTS
    Author,      \* Author[p]: the identity member p writes under
    Legacy,      \* members on a build that marks no order and sends no SyncNone
    FirstRows,   \* FirstRows[p]: the rows p holds at the start
    OwnRows,     \* the rows this client holds, and claims, at the start
    Faulty,      \* the kinds of fault that may happen
    MaxFaults    \* bound: faults in a behaviour

(* What may go wrong.  close: a channel closes with frames in flight;      *)
(* repeat: a frame goes again though its first copy arrived; skip: an      *)
(* older build's frame is refused by its channel; stop: a member gives a   *)
(* push up; throttle: a digest lands in a closed reaction window; unsent:  *)
(* a digest does not go out; timeout: a wait runs out unanswered; refuse:  *)
(* a batch is refused whole; commit: a watermark write fails; store: a     *)
(* live row's write does; lose: a live message is not sent, its channel    *)
(* full or not up; copy: it goes as the direct copy for a member whose     *)
(* channel was not verified yet; expire: refusal claims run out; lock and  *)
(* reload end the session.                                                 *)
FaultKind == {"close", "repeat", "skip", "stop", "throttle", "unsent", "timeout",
              "refuse", "commit", "store", "lose", "copy", "expire", "lock", "reload"}

ASSUME SyncAssumption ==
    /\ Author \in [Peer -> Sender]
    /\ Legacy \subseteq Peer
    /\ FirstRows \in [Peer -> SUBSET Row]
    /\ OwnRows \subseteq Row
    /\ Faulty \subseteq FaultKind
    /\ MaxFaults \in Nat

VARIABLES
    asking,   \* digests being read: <<peer, nonce>>, between expect and send
    checking, \* live messages being verified: <<peer, row>>
    landing,  \* live rows being stored: between arrival and their claim
    has,      \* has[p]: the rows member p holds
    ask,      \* ask[p]: digests on their way to p
    chan,     \* chan[p]: frames on their way from p
    out,      \* _pushesOut and runPush: the push p is sending, if any
    window,   \* window[p]: may p react with a push (allowSyncReaction)
    faults    \* faults so far

liveVars == <<checking, landing>>
wireVars == <<has, ask, chan, out, window>>
syncVars == <<asking, checking, landing, has, ask, chan, out, window, faults>>
vars == <<inVars, syncVars>>

Fault(k) == k \in Faulty /\ faults < MaxFaults /\ faults' = faults + 1

(* A member that is sending no push. *)
Idle == [active |-> FALSE, sent |-> 0, plan |-> NoPlan]

Init ==
    /\ InInit
    /\ store = OwnRows
    /\ mark = RaiseAll(NoMarks, ClaimsOf(OwnRows))
    /\ clock = TopLamport(OwnRows)
    /\ asking = {} /\ checking = {} /\ landing = {}
    /\ has = FirstRows
    /\ ask = [p \in Peer |-> <<>>]
    /\ chan = [p \in Peer |-> <<>>]
    /\ out = [p \in Peer |-> Idle]
    /\ window = [p \in Peer |-> TRUE]
    /\ faults = 0

-----------------------------------------------------------------------------
(* Digests *)

(* _sendDigestForRoom up to its first await: the wait is set first.  Sent  *)
(* on a connect, a reconcile, the repair tick, a completed push's fan-out  *)
(* or a reply, so at any moment.                                           *)
BeginDigest(p) ==
    /\ Expect(p)
    /\ asking' = asking \cup {<<p, nonces + 1>>}
    /\ UNCHANGED <<store, mark, refused, clock, pushVars, liveVars, wireVars, faults>>

(* What a digest to p claims: stored watermarks, this session's refusals,  *)
(* and what p's own short push delivered.                                  *)
Advertised(p) ==
    [s \in Sender |-> Higher(Higher(mark[s], refused[s]), claims[p][s])]

(* The watermarks are read and the digest goes out. *)
SendDigest(p, n) ==
    /\ <<p, n>> \in asking
    /\ asking' = asking \ {<<p, n>>}
    /\ ask' = [ask EXCEPT ![p] = Append(@, [nonce |-> n, marks |-> Advertised(p)])]
    /\ UNCHANGED <<inVars, liveVars, has, chan, out, window, faults>>

(* It does not: nothing will answer it. *)
DigestUnsent(p, n) ==
    /\ <<p, n>> \in asking
    /\ asking' = asking \ {<<p, n>>}
    /\ Fault("unsent")
    /\ AnsweredWith(p, n)
    /\ UNCHANGED <<store, mark, refused, clock, pushVars, liveVars, wireVars>>

-----------------------------------------------------------------------------
(* A member *)

BatchFrame(p, plan, i) ==
    [kind |-> "batch", index |-> i, total |-> plan.count, nonce |-> 0,
     order |-> IF p \in Legacy THEN "none" ELSE IF i < plan.heads THEN "head" ELSE "asc",
     rows |-> BatchRows(plan, i + 1), plan |-> plan]

BareFrame(kind, n) ==
    [kind |-> kind, index |-> 0, total |-> 0, nonce |-> n, order |-> "none",
     rows |-> {}, plan |-> NoPlan]

LiveFrame(kind, r) == [BareFrame(kind, 0) EXCEPT !.rows = {r}]

Say(p, f) == chan' = [chan EXCEPT ![p] = Append(@, f)]

PlansOf(p, S) == IF p \in Legacy THEN LegacyPlans(S) ELSE Plans(S)

(* _handleDigest: one push per window and one at a time; a digest that     *)
(* brings none is answered SyncNone unless a push is running.              *)
HandleDigest(p) ==
    LET d       == Head(ask[p])
        missing == RowsAbove(has[p], d.marks)
        react   == missing # {} /\ window[p]
    IN  /\ ask[p] # <<>>
        /\ ask' = [ask EXCEPT ![p] = Tail(@)]
        /\ window' = IF react THEN [window EXCEPT ![p] = FALSE] ELSE window
        /\ \/ /\ react /\ ~out[p].active
              /\ \E plan \in PlansOf(p, missing) :
                    out' = [out EXCEPT ![p] = [active |-> TRUE, sent |-> 0, plan |-> plan]]
              /\ UNCHANGED chan
           \/ /\ ~react /\ ~out[p].active /\ p \notin Legacy
              /\ Say(p, BareFrame("none", d.nonce))
              /\ UNCHANGED out
           \/ /\ out[p].active \/ (~react /\ p \in Legacy)
              /\ UNCHANGED <<chan, out>>
        /\ IF missing # {} /\ ~window[p] THEN Fault("throttle") ELSE UNCHANGED faults
        /\ UNCHANGED <<inVars, asking, liveVars, has>>

WindowReopens(p) ==
    /\ ~window[p]
    /\ window' = [window EXCEPT ![p] = TRUE]
    /\ UNCHANGED <<inVars, asking, liveVars, has, ask, chan, out, faults>>

NextFrame(p) ==
    IF out[p].sent < out[p].plan.count
    THEN BatchFrame(p, out[p].plan, out[p].sent)
    ELSE BareFrame("complete", 0)

SentOne(o) == [o EXCEPT !.sent = @ + 1]

(* runPush: frames in order, each once the one before was accepted, then   *)
(* SyncComplete.                                                           *)
PushFrame(p) ==
    /\ out[p].active
    /\ Say(p, NextFrame(p))
    /\ out' = [out EXCEPT ![p] = IF @.sent < @.plan.count THEN SentOne(@) ELSE Idle]
    /\ UNCHANGED <<inVars, asking, liveVars, has, ask, window, faults>>

(* A frame that arrived though its send failed goes again. *)
RepeatFrame(p) ==
    /\ out[p].active
    /\ Fault("repeat")
    /\ Say(p, NextFrame(p))
    /\ UNCHANGED <<inVars, asking, liveVars, has, ask, out, window>>

(* An older build sends on without looking at the answer. *)
SkipFrame(p) ==
    /\ out[p].active /\ p \in Legacy /\ out[p].sent < out[p].plan.count
    /\ Fault("skip")
    /\ out' = [out EXCEPT ![p] = SentOne(@)]
    /\ UNCHANGED <<inVars, asking, liveVars, has, ask, chan, window>>

(* A frame refused for good ends the push, with nothing sent after it. *)
StopPush(p) ==
    /\ out[p].active
    /\ Fault("stop")
    /\ out' = [out EXCEPT ![p] = Idle]
    /\ UNCHANGED <<inVars, asking, liveVars, has, ask, chan, window>>

(* The room channel to p closes: what was in flight either way is lost,    *)
(* though its sender was told it was sent.                                 *)
CloseChannel(p) ==
    /\ chan[p] # <<>> \/ ask[p] # <<>>
    /\ Fault("close")
    /\ chan' = [chan EXCEPT ![p] = <<>>]
    /\ ask' = [ask EXCEPT ![p] = <<>>]
    /\ UNCHANGED <<inVars, asking, liveVars, has, out, window>>

-----------------------------------------------------------------------------
(* Frames and live messages reach the client *)

ReceiveFrame(p) ==
    LET f == Head(chan[p]) IN
    /\ chan[p] # <<>>
    /\ chan' = [chan EXCEPT ![p] = Tail(@)]
    /\ \/ f.kind = "batch" /\ Batch(p, f) /\ UNCHANGED liveVars
       \/ f.kind = "complete" /\ Complete(p) /\ UNCHANGED liveVars
       \/ /\ f.kind = "none" /\ AnsweredWith(p, f.nonce)
          /\ UNCHANGED <<store, mark, refused, clock, pushVars, liveVars>>
       \/ /\ f.kind = "live"
          /\ checking' = checking \cup ({p} \X {r \in f.rows : Verdict[p][r] = "ok"})
          /\ UNCHANGED <<inVars, landing>>
       \/ /\ f.kind = "copy"
          /\ landing' = landing \cup {r \in f.rows : Verdict[p][r] = "ok"}
          /\ UNCHANGED <<inVars, checking>>
    /\ UNCHANGED <<asking, has, ask, out, window, faults>>

(* Member p writes a message, one past its clock, and sends it down the    *)
(* room channel (_broadcastChatWire): as itself, or as a direct copy when  *)
(* the channel had to be opened for it.                                    *)
Write(p, r) ==
    /\ r \notin has[p]
    /\ r.s = Author[p] /\ r.l = TopLamport(has[p]) + 1
    /\ has' = [has EXCEPT ![p] = @ \cup {r}]
    /\ \/ Say(p, LiveFrame("live", r)) /\ UNCHANGED faults
       \/ Say(p, LiveFrame("copy", r)) /\ Fault("copy")
       \/ UNCHANGED chan /\ Fault("lose")
    /\ UNCHANGED <<inVars, asking, liveVars, ask, out, window>>

ShowsWideGap(r) == clock > 0 /\ r.l > clock + 2

(* A lamport more than one past the room's clock. *)
ShowsGap(r) == clock > 0 /\ r.l > clock + 1

(* A live message is verified, so _handleChatMessage runs, up to its first *)
(* await.  When it shows a gap its sender gets a digest, and the room is   *)
(* held before the message can claim.                                      *)
LiveArrives(p, r) ==
    /\ <<p, r>> \in checking
    /\ checking' = checking \ {<<p, r>>}
    /\ clock' = Higher(clock, r.l)
    /\ landing' = landing \cup {r}
    /\ IF ShowsGap(r)
       THEN Expect(p) /\ asking' = asking \cup {<<p, nonces + 1>>}
       ELSE UNCHANGED <<roomVars, asking>>
    /\ UNCHANGED <<store, mark, refused, pushVars, wireVars, faults>>

(* The row is stored, and only then claims.  A direct copy moves the       *)
(* room's clock only here.                                                 *)
LiveStored(r) ==
    /\ r \in landing
    /\ landing' = landing \ {r}
    /\ store' = store \cup {r}
    /\ clock' = Higher(clock, r.l)
    /\ SetWatermark(ClaimOf(r))
    /\ UNCHANGED <<mark, refused, held, open, owed, expecting, nonces, pushVars,
                   asking, checking, wireVars, faults>>

(* The write fails: the message is not claimed. *)
LiveFails(r) ==
    /\ r \in landing
    /\ landing' = landing \ {r}
    /\ Fault("store")
    /\ UNCHANGED <<inVars, asking, checking, wireVars>>

-----------------------------------------------------------------------------
Lock ==
    /\ Fault("lock")
    /\ LockIdentity
    /\ asking' = {} /\ checking' = {} /\ landing' = {}
    /\ chan' = [p \in Peer |-> <<>>]
    /\ UNCHANGED <<has, ask, out, window>>

(* A digest already with its member is still answered, over a channel the  *)
(* member opens to the reloaded page.                                      *)
Reload ==
    /\ Fault("reload")
    /\ ReloadPage
    /\ asking' = {} /\ checking' = {} /\ landing' = {}
    /\ chan' = [p \in Peer |-> <<>>]
    /\ UNCHANGED <<has, ask, out, window>>

(* The steps of the client's own queues: they need no event from outside. *)
TaskStep(q) ==
    \/ ProcessBatch(q)
    \/ \E c \in push[q].todo : Commit(q, c)
    \/ FinishPush(q)
    \/ EndPush(q)

InternalStep ==
    /\ \/ \E q \in PushId : TaskStep(q)
       \/ \E c \in writes : CommitWrite(c)
       \/ \E q \in PushId : Stall(q)
       \/ LoadHistory
    /\ UNCHANGED syncVars

InternalFault ==
    /\ \/ Fault("refuse") /\ \E q \in PushId : RefuseBatch(q)
       \/ Fault("commit") /\ \E q \in PushId : CommitFails(q)
       \/ Fault("commit") /\ \E c \in writes : WriteFails(c)
       \/ Fault("timeout") /\ \E p \in Peer : ExpectTimeout(p)
       \/ Fault("expire") /\ RefusalsExpire
    /\ UNCHANGED <<asking, liveVars, wireVars>>

MemberStep(p) ==
    \/ HandleDigest(p)
    \/ WindowReopens(p)
    \/ PushFrame(p)
    \/ RepeatFrame(p)
    \/ SkipFrame(p)
    \/ StopPush(p)
    \/ CloseChannel(p)
    \/ \E r \in Row : Write(p, r)

ClientStep ==
    \/ \E p \in Peer : BeginDigest(p)
    \/ \E d \in asking : SendDigest(d[1], d[2]) \/ DigestUnsent(d[1], d[2])
    \/ \E p \in Peer : ReceiveFrame(p)
    \/ \E a \in checking : LiveArrives(a[1], a[2])
    \/ \E r \in landing : LiveStored(r) \/ LiveFails(r)
    \/ Lock
    \/ Reload

Next == InternalStep \/ InternalFault \/ ClientStep \/ \E p \in Peer : MemberStep(p)

Spec == Init /\ [][Next]_vars

(* Fairness: the client runs what it queued, its timers fire, frames that  *)
(* are not lost arrive, and a member answers and sends on.                 *)
Fairness ==
    /\ \A q \in PushId : WF_vars(TaskStep(q) /\ UNCHANGED syncVars)
    /\ \A q \in PushId : WF_vars(Stall(q) /\ UNCHANGED syncVars)
    /\ \A p \in Peer : WF_vars(ReceiveFrame(p))
    /\ \A p \in Peer : WF_vars(\E n \in 1..MaxNonce : SendDigest(p, n))
    /\ \A p \in Peer : WF_vars(HandleDigest(p)) /\ WF_vars(WindowReopens(p)) /\ WF_vars(PushFrame(p))

FairSpec == Spec /\ Fairness

-----------------------------------------------------------------------------
(* Type invariant *)

Frame == [kind : {"batch", "complete", "none", "live", "copy"}, index : Nat, total : Nat, nonce : Nat,
          order : Order, rows : SUBSET Row, plan : PlanRecord]

OutPush == [active : BOOLEAN, sent : Nat, plan : PlanRecord]

TypeOK ==
    /\ store \subseteq Row
    /\ mark \in Marks /\ refused \in Marks /\ waiting \in Marks
    /\ claims \in [Peer -> Marks]
    /\ clock \in Nat
    /\ held \in BOOLEAN /\ owed \in BOOLEAN
    /\ writes \subseteq Claim
    /\ open \subseteq PushId
    /\ expecting \in [Peer -> Nat] /\ nonces \in Nat
    /\ started \in 0..MaxPushes /\ cur \in [Peer -> 0..MaxPushes]
    /\ push \in [PushId -> Push]
    /\ asking \subseteq Peer \X Nat
    /\ checking \subseteq Peer \X Row
    /\ landing \subseteq Row
    /\ has \in [Peer -> SUBSET Row]
    /\ ask \in [Peer -> Seq([nonce : Nat, marks : Marks])]
    /\ chan \in [Peer -> Seq(Frame)]
    /\ out \in [Peer -> OutPush]
    /\ window \in [Peer -> BOOLEAN]
    /\ faults \in 0..MaxFaults

-----------------------------------------------------------------------------
(* Properties *)

(* The room is held exactly while something may still bring rows below a   *)
(* live message: an open push, a push that stopped short with none         *)
(* completed since, or a digest nobody has answered (settle, room() and    *)
(* the two observers of an identity lock keep the tracker and the storage  *)
(* hold in step).                                                          *)
HeldWhileUnsettled == held <=> (open # {} \/ owed \/ expecting # NoWait)

(* A row p sends that we shall never store. *)
RefusedForGood(p, r) == Verdict[p][r] \in {"refused", "unusable"}

(* What a push is about to write skips nothing: every row of its plan at   *)
(* or below a claim of its sender is stored, or refused for good.  Head    *)
(* rows and rows of an older build may claim only once the push is whole,  *)
(* asc rows as they arrive, none at or above a row that did not verify     *)
(* (account, finish and claimable in sync-inbound.ts).                     *)
PushClaimsSkipNothing ==
    \A q \in PushId : \A c \in push[q].todo : \A r \in push[q].plan.rows :
        ~push[q].spliced /\ r.s = c[1] /\ r.l <= c[2]
            => r \in store \/ RefusedForGood(push[q].peer, r)


(* A watermark never moves back, whichever order the commits of pushes,    *)
(* live messages and released holds reach the store in (commitWatermark).  *)
MarksNeverRegress == [][\A s \in Sender : mark'[s] >= mark[s]]_vars

(* What a watermark says (storage.ts: "I hold everything this sender wrote *)
(* up to here"), against the rows the members hold: every one of them at   *)
(* or below it is stored, being stored or verified, or refused for good.   *)
WatermarkMeansHeld ==
    \A p \in Peer : \A r \in has[p] :
        r.l <= mark[r.s] => r \in store \cup landing \/ <<p, r>> \in checking \/ RefusedForGood(p, r)

(* Whether a completed push is owed changes only with the end of a push    *)
(* the room counts as open (end and reset in sync-inbound.ts).             *)
OwedByOpenPushes == [][held /\ held' /\ owed' # owed => open' # open]_vars

(* A push that holds the room does not hold it for ever: its frames are    *)
(* handled, or its stall timer ends it.                                    *)
EveryPushEnds == \A q \in PushId : q \in open ~> q \notin open

(* While nothing goes wrong, every digest is answered - by a push, its     *)
(* completion or a SyncNone - without its wait having to run out           *)
(* (_handleDigest, and answered in sync-inbound.ts).                       *)
EveryDigestAnswered ==
    \A p \in Peer : expecting[p] # 0 /\ faults = 0 ~> expecting[p] = 0 \/ faults # 0
=============================================================================
