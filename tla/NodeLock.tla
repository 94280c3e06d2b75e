------------------------------ MODULE NodeLock ------------------------------
(***************************************************************************)
(* The one seat for a libp2p node among the tabs of a browser profile:     *)
(* lib/transport/node-lock.ts, with the part of connect(), the step down   *)
(* and the identity lock of transport.svelte.ts that asks for the seat and *)
(* gives it up, over the browser's Lock Manager (external).                *)
(*                                                                         *)
(* A tab runs one handler at a time; everything between two awaits that    *)
(* really wait is one action.  The Lock Manager answers a tab in order,    *)
(* through `inbox`; broadcasts of other tabs come whenever they come.      *)
(***************************************************************************)
EXTENDS Naturals, Sequences, FiniteSets, FiniteSetsExt

CONSTANTS
    Tab,        \* pages of one profile, each opened at most once
    Frozen,     \* those the browser may freeze for good
    Reading,    \* those that launch while /config.json is still being read
    MaxClaims,  \* how often "Use here" is clicked
    MaxFaults   \* how often a page closes, an identity locks or the relay cannot be dialled

ASSUME TabsFinite == IsFiniteSet(Tab)
ASSUME SomeTabs == Reading \subseteq Tab /\ Frozen \subseteq Tab /\ "none" \notin Tab
ASSUME SeatBounds == {MaxClaims, MaxFaults} \subseteq Nat

VARIABLES
    locks,   \* the Lock Manager: who holds "awful:node", who queues for it
    inbox,   \* answers of the Lock Manager a tab has yet to run
    asks,    \* "release" broadcasts a tab has yet to read
    tab,     \* what each tab knows
    used     \* claims and faults so far

vars == <<locks, inbox, asks, tab, used>>

None == [t |-> "none", k |-> "none", n |-> 0]

Kinds == {"try", "wait", "steal"}

Request == [t : Tab, k : Kinds, n : Nat \ {0}]

(* `connect` is _connectPromise: idle, waiting for the seat, for the       *)
(* configuration, or in LibP2PTransport.connect; `current` is whether that *)
(* call's generation is still the transport's.  `stopping`: a node of this *)
(* tab was told to stop, and its stop() has yet to end; nobody waits for   *)
(* that before the seat is handed on.  Two fields are history.             *)
(* `astray`: this connect lost its seat while it waited for the            *)
(* configuration, which nothing in the code notices.  `mistook`: the tab   *)
(* took the rejection of one of its requests for that of another, since    *)
(* dropQueued is one flag for all of them.                                 *)
New ==
    [page |-> "new", unlocked |-> FALSE, held |-> FALSE, acquiring |-> FALSE,
     hold |-> None, queued |-> None, drop |-> FALSE, waiting |-> FALSE,
     connect |-> "idle", current |-> FALSE, reading |-> FALSE, node |-> FALSE,
     stopping |-> FALSE, retry |-> FALSE, timers |-> 0, astray |-> FALSE,
     mistook |-> FALSE]

Init ==
    /\ locks = [holder |-> None, queue |-> << >>]
    /\ inbox = [t \in Tab |-> << >>]
    /\ asks = [t \in Tab |-> 0]
    /\ tab = [t \in Tab |-> New]
    /\ used = [claims |-> 0, faults |-> 0]

-----------------------------------------------------------------------------
(* The Lock Manager.  A world is [locks, inbox, tab]: one handler makes    *)
(* several calls, so each call maps a world to a world.                    *)

World == [locks |-> locks, inbox |-> inbox, tab |-> tab]

Becomes(w) == /\ locks' = w.locks
              /\ inbox' = w.inbox
              /\ tab' = w.tab

Tell(w, r, what) == [w EXCEPT !.inbox[r.t] = Append(@, [e |-> what, r |-> r])]

Grant(w, r) == Tell([w EXCEPT !.locks.holder = r], r, "granted")

(* The places of the queue somebody still waits in: a request taken back   *)
(* leaves its place empty.                                                 *)
Waiting(q) == {i \in DOMAIN q : q[i] # None}

(* The holder is gone: the oldest request in the queue is granted. *)
HandOn(w) ==
    LET q == w.locks.queue IN
    IF Waiting(q) = {} THEN [w EXCEPT !.locks = [holder |-> None, queue |-> << >>]]
    ELSE LET first == Min(Waiting(q))
         IN  Grant([w EXCEPT !.locks.queue = SubSeq(q, first + 1, Len(q))], q[first])

FreeLock(w, r) == IF w.locks.holder = r THEN HandOn(w) ELSE w

(* An id no request of this tab has that anything still refers to. *)
Fresh(w, t) ==
    LET live == {w.locks.holder, w.tab[t].hold, w.tab[t].queued}
                    \cup Range(w.locks.queue)
                    \cup {m.r : m \in Range(w.inbox[t])}
        taken == {r.n : r \in {q \in live : q.t = t}}
    IN CHOOSE n \in 1..(Cardinality(taken) + 1) :
         n \notin taken /\ 1..(n - 1) \subseteq taken

RequestTry(w, t) ==
    LET r == [t |-> t, k |-> "try", n |-> Fresh(w, t)] IN
    IF w.locks.holder = None THEN Grant(w, r) ELSE Tell(w, r, "null")

RequestWait(w, t) ==
    LET r == [t |-> t, k |-> "wait", n |-> Fresh(w, t)]
        q == [w EXCEPT !.tab[t].queued = r]
    IN IF w.locks.holder = None THEN Grant(q, r)
       ELSE [q EXCEPT !.locks.queue = Append(@, r)]

RequestSteal(w, t) ==
    LET r == [t |-> t, k |-> "steal", n |-> Fresh(w, t)] IN
    IF w.locks.holder = None THEN Grant(w, r)
    ELSE Grant(Tell(w, w.locks.holder, "stolen"), r)

(* A request taken back leaves its place in the queue empty. *)
Withdrawn(q, r) == [i \in 1..Len(q) |-> IF q[i] = r THEN None ELSE q[i]]

(* AbortController.abort: only a request still in the queue is dropped. *)
AbortQueued(w, r) ==
    IF r \in Range(w.locks.queue)
    THEN Tell([w EXCEPT !.locks.queue = Withdrawn(@, r)], r, "dropped")
    ELSE w

-----------------------------------------------------------------------------
(* What a handler of a tab does.                                           *)

(* The seat is there: on to configSettled, which only takes time while the *)
(* configuration is being read, and from there into the transport.         *)
HaveSeat(w, t) ==
    [w EXCEPT !.tab[t].connect = IF w.tab[t].reading THEN "config" ELSE "starting",
              !.tab[t].current = ~w.tab[t].reading]

acquireNodeLock(w, t) ==
    IF w.tab[t].held THEN HaveSeat(w, t)
    ELSE IF w.tab[t].acquiring THEN w
    ELSE RequestTry([w EXCEPT !.tab[t].acquiring = TRUE], t)

connect(w, t) ==
    IF w.tab[t].node \/ w.tab[t].connect # "idle" THEN w
    ELSE acquireNodeLock([w EXCEPT !.tab[t].connect = "seat", !.tab[t].astray = FALSE], t)

(* LibP2PTransport.disconnect, up to its await: the node is told to stop,  *)
(* and a connect under way is no longer current.  Its callers, _stepDown   *)
(* and the identity lock, go on without waiting for node.stop().           *)
disconnect(w, t) ==
    [w EXCEPT !.tab[t].node = FALSE, !.tab[t].current = FALSE,
              !.tab[t].stopping = w.tab[t].stopping \/ w.tab[t].node,
              !.tab[t].astray = (w.tab[t].connect = "config")]

(* Faulty variant: the seat is given up, the node kept. *)
stepDownLazily(w, t) == connect(w, t)

stepDown(w, t) == connect(disconnect(w, t), t)

(* Faulty variant: the resolver is forgotten without being called. *)
releaseNothing(w, t) == [w EXCEPT !.tab[t].hold = None]

releaseHold(w, t) == FreeLock([w EXCEPT !.tab[t].hold = None], w.tab[t].hold)

(* The lock callback: resolves the promise connect() waits on. *)
grant(w, r) ==
    LET g == [w EXCEPT !.tab[r.t].held = TRUE, !.tab[r.t].acquiring = FALSE,
                       !.tab[r.t].waiting = FALSE, !.tab[r.t].hold = r]
    IN IF w.tab[r.t].connect = "seat" THEN HaveSeat(g, r.t) ELSE g

(* Our request was stolen: tear down. *)
lost(w, t) ==
    IF w.tab[t].held
    THEN stepDown([w EXCEPT !.tab[t].held = FALSE, !.tab[t].hold = None], t)
    ELSE w

-----------------------------------------------------------------------------
(* Actions.                                                                *)

Open(t) ==
    /\ tab[t] = New
    /\ LET w == [World EXCEPT !.tab[t].page = "open", !.tab[t].unlocked = TRUE,
                              !.tab[t].reading = t \in Reading]
       IN Becomes(connect(w, t))
    /\ UNCHANGED <<asks, used>>

(* The page goes, by itself or in a crash: the browser releases what it    *)
(* held and forgets what it asked for.                                     *)
Close(t) ==
    /\ tab[t].page = "open"
    /\ used.faults < MaxFaults
    /\ used' = [used EXCEPT !.faults = @ + 1]
    /\ LET w == [World EXCEPT !.tab[t] = [New EXCEPT !.page = "closed"],
                              !.inbox[t] = << >>,
                              !.locks.queue = [i \in DOMAIN @ |-> IF @[i].t = t THEN None ELSE @[i]]]
       IN Becomes(IF locks.holder.t = t THEN HandOn(w) ELSE w)
    /\ asks' = [asks EXCEPT ![t] = 0]

Granted(t) ==
    /\ inbox[t] # << >>
    /\ Head(inbox[t]).e = "granted"
    /\ LET r == Head(inbox[t]).r
           w == [World EXCEPT !.inbox[t] = Tail(@)]
           s == IF r.k = "steal" /\ tab[t].queued # None
                THEN AbortQueued([w EXCEPT !.tab[t].drop = TRUE, !.tab[t].queued = None],
                                 tab[t].queued)
                ELSE w
       IN Becomes(grant(s, r))
    /\ UNCHANGED <<asks, used>>

(* Faulty variant: the tab says that it waits, and does not queue. *)
NotQueued(t) ==
    /\ inbox[t] # << >>
    /\ Head(inbox[t]).e = "null"
    /\ Becomes([World EXCEPT !.inbox[t] = Tail(@), !.tab[t].waiting = TRUE])
    /\ UNCHANGED <<asks, used>>

(* Somebody else has the seat: say so and queue. *)
NotAvailable(t) ==
    /\ inbox[t] # << >>
    /\ Head(inbox[t]).e = "null"
    /\ Becomes(RequestWait([World EXCEPT !.inbox[t] = Tail(@), !.tab[t].waiting = TRUE], t))
    /\ UNCHANGED <<asks, used>>

(* A request of ours was rejected: by a thief, or because we dropped it.   *)
(* The code tells the two apart by dropQueued alone.                       *)
Aborted(t) ==
    /\ inbox[t] # << >>
    /\ Head(inbox[t]).e \in {"stolen", "dropped"}
    /\ LET swallowed == Head(inbox[t]).r.k # "steal" /\ tab[t].drop
           w == [World EXCEPT !.inbox[t] = Tail(@)]
           wrong == tab[t].held /\ (swallowed <=> Head(inbox[t]).e = "stolen")
           m == [w EXCEPT !.tab[t].mistook = @ \/ wrong]
       IN Becomes(IF swallowed THEN [m EXCEPT !.tab[t].drop = FALSE] ELSE lost(m, t))
    /\ UNCHANGED <<asks, used>>

(* claimNodeLock, on a tab whose screen says another one has the node. *)
Claim(t) ==
    /\ tab[t].page = "open"
    /\ tab[t].waiting
    /\ ~tab[t].held
    /\ used.claims < MaxClaims
    /\ asks' = [u \in Tab |-> IF u # t /\ tab[u].page = "open" THEN asks[u] + 1 ELSE asks[u]]
    /\ tab' = [tab EXCEPT ![t].timers = @ + 1]
    /\ used' = [used EXCEPT !.claims = @ + 1]
    /\ UNCHANGED <<locks, inbox>>

(* Faulty variant: the holder is asked and never forced. *)
StealNever(t) ==
    /\ tab[t].page = "open"
    /\ tab[t].timers > 0
    /\ tab' = [tab EXCEPT ![t].timers = @ - 1]
    /\ UNCHANGED <<locks, inbox, asks, used>>

(* Its grace period is over. *)
StealTimer(t) ==
    /\ tab[t].page = "open"
    /\ tab[t].timers > 0
    /\ LET w == [World EXCEPT !.tab[t].timers = @ - 1]
       IN Becomes(IF tab[t].held THEN w ELSE RequestSteal(w, t))
    /\ UNCHANGED <<asks, used>>

(* channel.onmessage *)
ReleaseAsked(t) ==
    /\ asks[t] > 0
    /\ asks' = [asks EXCEPT ![t] = @ - 1]
    /\ Becomes(IF tab[t].held
               THEN releaseHold(stepDown([World EXCEPT !.tab[t].held = FALSE], t), t)
               ELSE World)
    /\ UNCHANGED used

ConfigSettled(t) ==
    /\ tab[t].connect = "config"
    /\ tab' = [tab EXCEPT ![t].connect = "starting", ![t].current = TRUE,
                          ![t].reading = FALSE]
    /\ UNCHANGED <<locks, inbox, asks, used>>

(* The read of the configuration ends while nobody waits for it. *)
ConfigRead(t) ==
    /\ tab[t].reading
    /\ tab[t].connect # "config"
    /\ tab' = [tab EXCEPT ![t].reading = FALSE]
    /\ UNCHANGED <<locks, inbox, asks, used>>

Connected(t) ==
    /\ tab[t].connect = "starting"
    /\ tab[t].current
    /\ tab' = [tab EXCEPT ![t].connect = "idle", ![t].current = FALSE, ![t].node = TRUE]
    /\ UNCHANGED <<locks, inbox, asks, used>>

(* The relay cannot be reached: the node is stopped and connect() retried. *)
ConnectFails(t) ==
    /\ tab[t].connect = "starting"
    /\ tab[t].current
    /\ used.faults < MaxFaults
    /\ tab' = [tab EXCEPT ![t].connect = "idle", ![t].current = FALSE, ![t].retry = TRUE]
    /\ used' = [used EXCEPT !.faults = @ + 1]
    /\ UNCHANGED <<locks, inbox, asks>>

(* assertCurrent: disconnect came in between.  The node this call was      *)
(* starting, if it got that far, is told to stop and not waited for.       *)
ConnectCancelled(t) ==
    /\ tab[t].connect = "starting"
    /\ ~tab[t].current
    /\ \E started \in BOOLEAN :
         tab' = [tab EXCEPT ![t].connect = "idle", ![t].retry = TRUE,
                            ![t].stopping = @ \/ started]
    /\ UNCHANGED <<locks, inbox, asks, used>>

(* libp2p (external): the last stop() under way ends, and the node is gone *)
(* from the network.                                                       *)
Stopped(t) ==
    /\ tab[t].stopping
    /\ tab' = [tab EXCEPT ![t].stopping = FALSE]
    /\ UNCHANGED <<locks, inbox, asks, used>>

ConnectRetry(t) ==
    /\ tab[t].retry
    /\ LET w == [World EXCEPT !.tab[t].retry = FALSE]
       IN Becomes(IF tab[t].unlocked THEN connect(w, t) ELSE w)
    /\ UNCHANGED <<asks, used>>

(* onIdentityLock: disconnect and releaseNodeLock. *)
LockIdentity(t) ==
    /\ tab[t].unlocked
    /\ used.faults < MaxFaults
    /\ used' = [used EXCEPT !.faults = @ + 1]
    /\ LET w == [World EXCEPT !.tab[t].unlocked = FALSE, !.tab[t].held = FALSE]
       IN Becomes(releaseHold(disconnect(w, t), t))
    /\ UNCHANGED asks

UnlockIdentity(t) ==
    /\ tab[t].page = "open"
    /\ ~tab[t].unlocked
    /\ Becomes(connect([World EXCEPT !.tab[t].unlocked = TRUE], t))
    /\ UNCHANGED <<asks, used>>

Handle(t) == Granted(t) \/ NotAvailable(t) \/ Aborted(t)

Proceed(t) ==
    \/ StealTimer(t)
    \/ ReleaseAsked(t)
    \/ ConfigSettled(t)
    \/ ConfigRead(t)
    \/ Connected(t)
    \/ ConnectCancelled(t)
    \/ ConnectRetry(t)
    \/ Stopped(t)

Next ==
    \E t \in Tab :
        \/ Open(t)
        \/ Close(t)
        \/ Handle(t)
        \/ Proceed(t)
        \/ Claim(t)
        \/ ConnectFails(t)
        \/ LockIdentity(t)
        \/ UnlockIdentity(t)

Spec == Init /\ [][Next]_vars

(* A tab runs its handlers and timers, unless the browser froze it. *)
FairSpec ==
    /\ Spec
    /\ \A t \in Tab \ Frozen : WF_vars(Handle(t)) /\ WF_vars(Proceed(t))

-----------------------------------------------------------------------------
(* Properties.                                                             *)

(* This tab has a node, up or coming up, that nobody has told to stop. *)
Running(t) == tab[t].node \/ (tab[t].connect = "starting" /\ tab[t].current)

(* It has one that was told to stop and may still be on the network: its   *)
(* stop() runs, or the connect that is starting it has yet to notice.      *)
Stopping(t) == tab[t].stopping \/ (tab[t].connect = "starting" /\ ~tab[t].current)

(* Its request was stolen from, and it has yet to run the rejection. *)
Ousted(t) == \E m \in Range(inbox[t]) : m.e = "stolen"

(* "One libp2p node per browser profile" (node-lock.ts:2), as far as the   *)
(* code can keep it: a tab runs a node only while the seat is its own, or  *)
(* until it has handled the rejection that tells it the seat was stolen.   *)
(* Nodes told to stop are not counted.  Two things break it even so: a     *)
(* connect that went astray, and a rejection that was mistaken for         *)
(* another.  SeatKept is the part that holds.                              *)
OneNode == \A t \in Tab : Running(t) => locks.holder.t = t \/ Ousted(t)

(* "the holder tears its node down and releases" (node-lock.ts:14), "The   *)
(* lock is released once the returned promise settles" (:33): a tab that   *)
(* has the seat by other means than a theft has it with no node of any     *)
(* other tab on the network, whose seat was not stolen.  The code hands    *)
(* the seat on while the old node's stop() still runs.                     *)
ReleasedOnceDown ==
    locks.holder.k \in {"try", "wait"} =>
        \A t \in Tab : tab[t].node \/ tab[t].stopping => locks.holder.t = t \/ Ousted(t)

(* The Lock Manager never counts a tab as holder that has forgotten it: a  *)
(* tab that holds "awful:node" has `held` set, or its callback is still to *)
(* run.  A seat kept by a tab that believes it has none is lost to all.    *)
(* Only a tab that once mistook a rejection is not spoken for.             *)
HolderKnows ==
    \A t \in Tab : locks.holder.t = t /\ ~tab[t].mistook =>
        tab[t].held \/ \E m \in Range(inbox[t]) : m.e = "granted"

(* What the tabs together promise: NodeSeat, with the Lock Manager's       *)
(* holder as owner.  A tab runs a node only where the seat is, or where it *)
(* was stolen unheard; the node it gives up it has told to stop in the     *)
(* very step that hands the seat on or hears of the theft, and that is the *)
(* only way to a stopping node; how long stop() takes nobody promises.  A  *)
(* node whose connect went astray, and those of a tab that mistook a       *)
(* rejection, are not among the nodes that run.                            *)
Seat == INSTANCE NodeSeat WITH
    owner <- locks.holder.t,
    ousted <- {t \in Tab : Ousted(t)},
    runs <- {t \in Tab : Running(t) /\ ~tab[t].astray /\ ~tab[t].mistook},
    stopping <- {t \in Tab : Stopping(t)}

SeatKept == Seat!Spec

(* "the next in line comes up without anyone doing anything" (node-lock.ts *)
(* :12): while some tab waits in connect(), a node comes up in one of      *)
(* them, unless the seat is with a tab that is frozen, locked or mistaken. *)
SomeTabComesUp ==
    \A t \in Tab \ Frozen :
        tab[t].connect = "seat" ~>
            \/ \E u \in Tab : Running(u)
            \/ \E u \in Tab : /\ locks.holder.t = u
                              /\ u \in Frozen \/ ~tab[u].unlocked \/ tab[u].mistook
            \/ tab[t].page = "closed"

(* "Use here" works even if the holder is frozen: after the grace period   *)
(* the tab that was clicked has had the seat.                              *)
UseHereTakesTheSeat ==
    \A t \in Tab \ Frozen :
        tab[t].timers > 0 ~> tab[t].held \/ tab[t].page = "closed"
=============================================================================
