------------------------------ MODULE Pairing ------------------------------
(***************************************************************************)
(* Short-code pairing: the inviter's tab (short-codes.svelte.ts, the host  *)
(* half of invite-pairing.ts and InvitationPairingHost), the people typing *)
(* the code (joinInvitationPairing) and the relay's rendezvous between     *)
(* them (relay/pairing.go).  The relay handles a request under one lock,   *)
(* so a request and its answer are one step here, or a step whose answer   *)
(* is lost; a host's reply and a cancel stay in flight, because the tab    *)
(* may give them up while they still reach the relay.  One room: Session   *)
(* is every code its tab makes for it in turn.  OPAQUE and ML-KEM are      *)
(* external: a response opens for the person who typed that very code.     *)
(***************************************************************************)
EXTENDS Naturals, Sequences, FiniteSets

CONSTANTS
    Session,    \* the codes made for the room
    Joiner,     \* the people typing one, each in one attempt
    CodeOf,     \* the code a joiner was handed
    Mistyped,   \* the joiners who get its password wrong
    Locator,    \* what a code is found by; a new draw may meet a live one
    Nobody,     \* no session
    Uses,       \* people a code lets in
    Spare,      \* pairingSpareAttempts
    Batch,      \* pairingPollMessages
    CreateTries,\* CREATE_TRIES
    MaxFaults   \* bound: what may fail, a call or the relay

ASSUME PairingConstants ==
    /\ CodeOf \in [Joiner -> Session]
    /\ Mistyped \subseteq Joiner /\ IsFiniteSet(Joiner)
    /\ Nobody \notin Session \cup Locator
    /\ Uses \in Nat \ {0} /\ Spare \in Nat
    /\ Batch \in Nat \ {0} /\ CreateTries \in Nat \ {0}
    /\ MaxFaults \in Nat

VARIABLES
    store,      \* pairingStore: the relay's entry at each locator
    host,       \* the tab's side of each code
    join,       \* where each person's join is
    codes,      \* short-codes.svelte.ts: sessions, pending and live
    wire,       \* host replies sent and not yet at the relay
    cancels,    \* sessions whose cancel is sent and not yet at the relay
    expired,    \* the codes whose time is over
    faults      \* what has failed so far

vars == <<store, host, join, codes, wire, cancels, expired, faults>>

Done == {"in", "refused", "gaveup"}

----------------------------------------------------------------------------
(* The relay *)

Absent == [by |-> Nobody]

Entry(s) ==
    [by |-> s, stage |-> [j \in Joiner |-> "none"], box |-> [j \in Joiner |-> <<>>],
     inbox |-> <<>>, closed |-> FALSE, delivered |-> 0]

Attempts(e) == {j \in Joiner : e.stage[j] # "none"}

(* What pairingDeliver accepts, from an attempt or from the token's holder. *)
Accepts(e, j, kind) ==
    /\ e.by # Nobody
    /\ ~e.closed
    /\ \/ kind = "start" /\ e.stage[j] = "none" /\ Cardinality(Attempts(e)) < Uses + Spare
       \/ kind = "finish" /\ e.stage[j] = "response"
       \/ kind = "response" /\ e.stage[j] = "start"
       \/ kind = "transfer" /\ e.stage[j] = "finish"

pairingDeliver(e, j, kind) ==
    LET staged == [e EXCEPT !.stage[j] = kind]
        boxed  == [staged EXCEPT !.box[j] = Append(@, kind)]
        count  == e.delivered + 1
    IN  CASE kind \in {"start", "finish"} ->
                 [staged EXCEPT !.inbox = Append(@, [from |-> j, kind |-> kind])]
          [] kind = "response" -> boxed
          [] kind = "transfer" ->
                 [boxed EXCEPT !.delivered = count,
                               !.closed = count >= Uses,
                               !.inbox = IF count >= Uses THEN <<>> ELSE @]

(* A bug: the newest message is kept back for the next poll. *)
keepsNewest(inbox) ==
    IF inbox = <<>> THEN {0} ELSE 0..(IF Len(inbox) > Batch THEN Batch ELSE Len(inbox) - 1)

(* How many of the inbox one host-poll hands out: at most Batch, and fewer *)
(* where they come to more than pairingPollBytes, but never none.          *)
pairingBatch(inbox) ==
    IF inbox = <<>> THEN {0} ELSE 1..(IF Len(inbox) > Batch THEN Batch ELSE Len(inbox))

(* A bug: a full code refuses everybody, the last person's transfer included. *)
refusesLast(e, j) == e.by = Nobody \/ e.stage[j] = "none" \/ e.closed

(* A join-poll the relay refuses: an unknown attempt, or a full code. *)
PollRefused(e, j) ==
    \/ e.by = Nobody
    \/ e.stage[j] = "none"
    \/ e.closed /\ e.box[j] = <<>> /\ e.stage[j] # "transfer"

----------------------------------------------------------------------------
(* The tab hosting a code *)

active(s) == ~host[s].closed /\ s \notin expired

At(s) == host[s].locator

Held(s) == store[At(s)].by = s

(* The host after its run has ended: host.cancel() clears what it held. *)
Ended(s) == [host[s] EXCEPT !.at = "over", !.closed = TRUE, !.pending = {}, !.batch = <<>>]

(* onStatus, heard only by the session still on show. *)
Told(s) == IF codes.session = s THEN [codes EXCEPT !.session = Nobody, !.live = Nobody] ELSE codes

(* run's catch: say the code stopped and close it at the relay too. *)
HostStops(s) ==
    /\ host' = [host EXCEPT ![s] = Ended(s)]
    /\ codes' = Told(s)
    /\ cancels' = cancels \cup {s}

(* One of the failures allowed for happens: a call, or its answer, is lost, or *)
(* the relay restarts.                                                        *)
Fault(what) == Len(faults) < MaxFaults /\ faults' = Append(faults, what)

(* A bug: a new code leaves the one before it running. *)
KeepsTheOld(s) ==
    /\ host[s].at = "none"
    /\ codes.pending = Nobody
    /\ host' = [host EXCEPT ![s].at = "creating"]
    /\ codes' = [session |-> Nobody, pending |-> s, live |-> Nobody]
    /\ UNCHANGED <<store, join, wire, cancels, expired, faults>>

(* A new code for the room, which ends the one before it. *)
hostShortCode(s) ==
    LET old == codes.session
    IN  /\ host[s].at = "none"
        /\ codes.pending = Nobody
        /\ host' = [k \in Session |-> IF k = s THEN [host[k] EXCEPT !.at = "creating"]
                                      ELSE IF k = old THEN Ended(k) ELSE host[k]]
        /\ cancels' = cancels \cup ({old} \ {Nobody})
        /\ codes' = [session |-> Nobody, pending |-> s, live |-> Nobody]
        /\ UNCHANGED <<store, join, wire, expired, faults>>

(* The view, or a lock of the identity, ends the code on show. *)
cancelShortCode ==
    /\ codes.session # Nobody
    /\ host' = [host EXCEPT ![codes.session] = Ended(codes.session)]
    /\ cancels' = cancels \cup {codes.session}
    /\ codes' = [codes EXCEPT !.session = Nobody, !.live = Nobody]
    /\ UNCHANGED <<store, join, wire, expired, faults>>

CreateFails(s) ==
    /\ host' = [host EXCEPT ![s] = Ended(s)]
    /\ codes' = [codes EXCEPT !.pending = Nobody]

(* One create request, at a locator drawn for it.  It is lost or refused for *)
(* a limit (the store and each address have one, and other people's codes    *)
(* count), meets a live code, or makes the entry.                            *)
create(s) ==
    /\ host[s].at = "creating"
    /\ \/ CreateFails(s) /\ UNCHANGED <<store, faults>>
       \/ \E l \in Locator :
            /\ store[l] # Absent
            /\ IF host[s].tries >= CreateTries
                 THEN CreateFails(s)
                 ELSE host' = [host EXCEPT ![s].tries = @ + 1] /\ codes' = codes
            /\ UNCHANGED <<store, faults>>
       \/ \E l \in Locator :
            /\ store[l] = Absent
            /\ store' = [store EXCEPT ![l] = Entry(s)]
            /\ \/ /\ host' = [host EXCEPT ![s].at = "polling", ![s].locator = l]
                  /\ codes' = [session |-> s, pending |-> Nobody, live |-> s]
                  /\ UNCHANGED faults
               \/ CreateFails(s) /\ Fault("call")
    /\ UNCHANGED <<join, wire, cancels, expired>>

(* A host-poll: the waiting messages, or a refusal that ends the run. *)
HostPoll(s) ==
    LET q == store[At(s)].inbox
    IN  /\ host[s].at = "polling" /\ host[s].batch = <<>> /\ active(s)
        /\ \/ /\ Held(s)
              /\ \E n \in pairingBatch(q) :
                    /\ store' = [store EXCEPT ![At(s)].inbox = SubSeq(@, n + 1, Len(@))]
                    /\ \/ /\ host' = [host EXCEPT ![s].batch = SubSeq(q, 1, n)]
                          /\ UNCHANGED <<codes, cancels, faults>>
                       \/ HostStops(s) /\ Fault("call")
           \/ ~Held(s) /\ HostStops(s) /\ UNCHANGED <<store, faults>>
        /\ UNCHANGED <<join, wire, expired>>

(* InvitationPairingHost.start: the login response, once per attempt. *)
Starts(h, j) ==
    [h EXCEPT !.attempts = @ + 1, !.pending = @ \cup {j}, !.at = "replying"]

(* A bug: the person is counted when the relay has the transfer. *)
finishesUncounted(h, j) ==
    [h EXCEPT !.pending = @ \ {j}, !.at = "replying"]

(* InvitationPairingHost.finish: counted before anything is sent. *)
Finishes(h, j) ==
    [h EXCEPT !.joined = @ + 1,
              !.closed = h.joined + 1 >= Uses,
              !.pending = IF h.joined + 1 >= Uses THEN {} ELSE @ \ {j},
              !.at = "replying"]

(* The next message of the batch. *)
HostTakes(s) ==
    LET h == [host[s] EXCEPT !.batch = Tail(@)]
        m == Head(host[s].batch)
        reply(kind) == wire' = wire \cup {[by |-> s, to |-> m.from, kind |-> kind]}
    IN  /\ host[s].at = "polling" /\ host[s].batch # <<>>
        /\ \/ /\ ~active(s)
              /\ host' = [host EXCEPT ![s].batch = <<>>]
              /\ wire' = wire
           \/ /\ active(s) /\ m.kind = "start"
              /\ IF h.attempts < Uses + Spare /\ m.from \notin h.pending
                   THEN host' = [host EXCEPT ![s] = Starts(h, m.from)] /\ reply("response")
                   ELSE host' = [host EXCEPT ![s] = h] /\ wire' = wire
           \/ /\ active(s) /\ m.kind = "finish"
              /\ IF m.from \in h.pending
                   THEN host' = [host EXCEPT ![s] = Finishes(h, m.from)] /\ reply("transfer")
                   ELSE host' = [host EXCEPT ![s] = h] /\ wire' = wire
        /\ UNCHANGED <<store, join, codes, cancels, expired, faults>>

(* The run loop ends because the code's time is over. *)
HostLapses(s) ==
    /\ host[s].at = "polling" /\ host[s].batch = <<>> /\ ~active(s)
    /\ host' = [host EXCEPT ![s] = Ended(s)]
    /\ codes' = Told(s)
    /\ UNCHANGED <<store, join, wire, cancels, expired, faults>>

(* The host hears that its reply is at the relay; the last person ends the run. *)
Answered(m) ==
    IF m.kind = "transfer" /\ host[m.by].joined >= Uses
      THEN host' = [host EXCEPT ![m.by] = Ended(m.by)] /\ codes' = Told(m.by)
      ELSE host' = [host EXCEPT ![m.by].at = "polling"] /\ codes' = codes

(* A reply reaches the relay, or is lost on the way; its answer may be lost. *)
Reply(m) ==
    LET l  == At(m.by)
        ok == Held(m.by) /\ Accepts(store[l], m.to, m.kind)
    IN  /\ m \in wire
        /\ wire' = wire \ {m}
        /\ \/ /\ store' = IF ok THEN [store EXCEPT ![l] = pairingDeliver(@, m.to, m.kind)] ELSE store
              /\ \/ /\ host[m.by].at # "replying"
                    /\ UNCHANGED <<host, codes, cancels, faults>>
                 \/ /\ host[m.by].at = "replying" /\ ok
                    /\ Answered(m) /\ UNCHANGED <<cancels, faults>>
                 \/ /\ host[m.by].at = "replying" /\ ~ok
                    /\ HostStops(m.by) /\ UNCHANGED faults
                 \/ /\ host[m.by].at = "replying" /\ ok
                    /\ HostStops(m.by) /\ Fault("call")
           \/ /\ store' = store
              /\ Fault("call")
              /\ IF host[m.by].at = "replying" THEN HostStops(m.by)
                 ELSE UNCHANGED <<host, codes, cancels>>
        /\ UNCHANGED <<join, expired>>

(* A bug: whatever is at the locator goes, whoever's token asked. *)
cancelsAnything(s) ==
    /\ s \in cancels
    /\ cancels' = cancels \ {s}
    /\ store' = [store EXCEPT ![At(s)] = Absent]
    /\ UNCHANGED <<host, join, codes, wire, expired, faults>>

(* A cancel reaches the relay: its token must be the entry's. *)
Cancel(s) ==
    /\ s \in cancels
    /\ cancels' = cancels \ {s}
    /\ \/ /\ store' = IF Held(s) THEN [store EXCEPT ![At(s)] = Absent] ELSE store
          /\ UNCHANGED faults
       \/ store' = store /\ Fault("call")
    /\ UNCHANGED <<host, join, codes, wire, expired>>

(* The host set its expiry before it asked the relay, so its own comes first. *)
Expire(s) ==
    /\ host[s].at \notin {"none", "creating"} /\ s \notin expired
    /\ expired' = expired \cup {s}
    /\ UNCHANGED <<store, host, join, codes, wire, cancels, faults>>

EntryExpires(l) ==
    /\ store[l].by \in expired
    /\ store' = [store EXCEPT ![l] = Absent]
    /\ UNCHANGED <<host, join, codes, wire, cancels, expired, faults>>

Restarted == \E i \in DOMAIN faults : faults[i] = "restart"

(* The relay restarts; its pairings were in memory only. *)
Restart ==
    /\ Fault("restart")
    /\ store' = [l \in Locator |-> Absent]
    /\ UNCHANGED <<host, join, codes, wire, cancels, expired>>

----------------------------------------------------------------------------
(* A person typing a code *)

LocatorOf(j) == At(CodeOf[j])

Moves(j, to) == join' = [join EXCEPT ![j] = to]

(* A start or a finish sent by the joiner, which ends the join unless accepted. *)
Sends(j, kind) ==
    LET l == LocatorOf(j)
    IN  IF Accepts(store[l], j, kind)
          THEN /\ store' = [store EXCEPT ![l] = pairingDeliver(@, j, kind)]
               /\ \/ Moves(j, "polling") /\ UNCHANGED faults
                  \/ Moves(j, "gaveup") /\ Fault("call")
          ELSE Moves(j, "refused") /\ UNCHANGED <<store, faults>>

Start(j) ==
    /\ join[j] = "idle" /\ LocatorOf(j) \in Locator
    /\ Sends(j, "start")
    /\ UNCHANGED <<host, codes, wire, cancels, expired>>

Finish(j) ==
    /\ join[j] = "finishing"
    /\ Sends(j, "finish")
    /\ UNCHANGED <<host, codes, wire, cancels, expired>>

(* respond opens the host's answer only with that host's password. *)
Opens(j) == j \notin Mistyped /\ store[LocatorOf(j)].by = CodeOf[j]

JoinPoll(j) ==
    LET l   == LocatorOf(j)
        box == store[l].box[j]
    IN  /\ join[j] = "polling"
        /\ IF PollRefused(store[l], j)
             THEN Moves(j, "refused") /\ UNCHANGED <<store, faults>>
             ELSE /\ box # <<>>
                  /\ store' = [store EXCEPT ![l].box[j] = <<>>]
                  /\ \/ /\ Moves(j, CASE Head(box) = "transfer" -> "in"
                                      [] Head(box) = "response" ->
                                           IF Opens(j) THEN "finishing" ELSE "refused")
                        /\ UNCHANGED faults
                     \/ Moves(j, "gaveup") /\ Fault("call")
        /\ UNCHANGED <<host, codes, wire, cancels, expired>>

(* The minute is up, the person goes away, or a request is lost. *)
GiveUp(j) ==
    /\ join[j] \in {"polling", "finishing"}
    /\ Moves(j, "gaveup")
    /\ UNCHANGED <<store, host, codes, wire, cancels, expired, faults>>

----------------------------------------------------------------------------
Init ==
    /\ store = [l \in Locator |-> Absent]
    /\ host = [s \in Session |->
                 [at |-> "none", tries |-> 1, locator |-> Nobody, batch |-> <<>>,
                  joined |-> 0, attempts |-> 0, pending |-> {}, closed |-> FALSE]]
    /\ join = [j \in Joiner |-> "idle"]
    /\ codes = [session |-> Nobody, pending |-> Nobody, live |-> Nobody]
    /\ wire = {}
    /\ cancels = {}
    /\ expired = {}
    /\ faults = <<>>

HostStep(s) == create(s) \/ HostPoll(s) \/ HostTakes(s) \/ HostLapses(s)

JoinStep(j) == Finish(j) \/ JoinPoll(j)

Next ==
    \/ \E s \in Session : hostShortCode(s) \/ HostStep(s) \/ Cancel(s) \/ Expire(s)
    \/ cancelShortCode
    \/ \E m \in wire : Reply(m)
    \/ \E l \in Locator : EntryExpires(l)
    \/ Restart
    \/ \E j \in Joiner : Start(j) \/ JoinStep(j) \/ GiveUp(j)

(* The loops of both clients poll on, and a call in flight arrives or fails. *)
(* Nothing here waits on a clock: neither expiry is fair.                    *)
Spec ==
    /\ Init /\ [][Next]_vars
    /\ \A s \in Session : WF_vars(HostStep(s)) /\ WF_vars(Cancel(s))
    /\ WF_vars(\E m \in wire : Reply(m))
    /\ \A j \in Joiner : WF_vars(JoinStep(j))

----------------------------------------------------------------------------
(* A code never lets in more people than it was made for.  The host counts  *)
(* a person before it encrypts or sends anything, so whatever is lost on    *)
(* the way, those holding the secret and those the relay counts as served   *)
(* are among those the host counted, and it counts at most Uses.            *)
UsesKept ==
    /\ \A s \in Session :
         /\ Cardinality({j \in Joiner : CodeOf[j] = s /\ join[j] = "in"}) <= host[s].joined
         /\ host[s].joined <= Uses
    /\ \A l \in Locator : store[l] # Absent =>
         store[l].delivered <= host[store[l].by].joined

(* While a tab is hosting a code whose time is not over, and short of a     *)
(* restart, the relay's entry at the locator is that code's and takes the   *)
(* reply under way: no cancel of an earlier code, no new draw of the        *)
(* locator and no joiner's timing closes it under the host, which would end *)
(* the run for everybody else.                                              *)
RunningIsRouted ==
    \A s \in Session : host[s].at \in {"polling", "replying"} /\ s \notin expired /\ ~Restarted =>
        /\ Held(s)
        /\ \A m \in wire : m.by = s => Accepts(store[At(s)], m.to, m.kind)

(* The room has at most one code being hosted, and it is the one on show and *)
(* the one a cancel would end; the view never shows a code nobody answers.   *)
ShownIsHosted ==
    /\ codes.live = codes.session
    /\ {s \in Session : host[s].at \in {"polling", "replying"}} = {codes.session} \ {Nobody}

(* A person whose transfer is waiting at the relay is never refused it, not  *)
(* even when that transfer was the last and closed the code.                 *)
TransferCollected ==
    [][\A j \in Joiner :
         /\ LocatorOf(j) \in Locator
         /\ store[LocatorOf(j)] # Absent
         /\ store[LocatorOf(j)].box[j] # <<>>
         /\ store[LocatorOf(j)].stage[j] = "transfer"
         => join'[j] # "refused" \/ join[j] = "refused"]_vars

(* Everybody the relay let start is answered without waiting for a clock:    *)
(* let in, refused, or told the code is full.  Only an entry whose host went *)
(* without closing it (the code ran out, or its cancel was lost) can leave   *)
(* a person polling until the entry expires.                                 *)
JoinersHeard ==
    \A j \in Joiner :
        (join[j] = "polling") ~>
            \/ join[j] \in Done
            \/ /\ LocatorOf(j) \in Locator
               /\ store[LocatorOf(j)] # Absent
               /\ ~store[LocatorOf(j)].closed
               /\ host[store[LocatorOf(j)].by].at = "over"
============================================================================
