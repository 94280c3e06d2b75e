----------------------------- MODULE Rendezvous -----------------------------
(***************************************************************************)
(* How two members of a room find each other: the relay's registry of      *)
(* rendezvous streams (relay/main.go) and the client that keeps one stream *)
(* open, registers its rooms on it and dials whoever it is told of         *)
(* (frontend/src/lib/transport/libp2p/transport.ts).                       *)
(*                                                                         *)
(* Every stream has a goroutine that reads its requests one at a time; a   *)
(* peer's last connection going is told to a goroutine of its own, which   *)
(* first looks whether the peer is still connected and then drops all its  *)
(* streams.  The registry is changed under one lock, so each change is one *)
(* step; the notices it causes are sent after the lock is released, one by *)
(* one, and that is where two goroutines cross.                            *)
(*                                                                         *)
(* Abstractions.  A refusal for rate (the budgets of joins and of empty    *)
(* rooms) changes nothing and is left out; the caps that depend on the     *)
(* registry are kept.  A stream and the frames written to it are one queue *)
(* of Depth frames, lost when the stream is.  Log lines are left out.      *)
(***************************************************************************)
EXTENDS Integers, FiniteSets, Sequences

CONSTANTS
  Peer, Room,
  Stream,         \* every stream ever opened, each once
  PeerOf,         \* whose stream it is
  Key, KeysOf,    \* source buckets, and those a stream is budgeted under
  MaxStreams,     \* maxStreamsPerPeer
  MaxTotal,       \* maxTotalRegistrations
  Guaranteed,     \* guaranteedRoomsPerPeer
  MaxRooms,       \* maxRoomsPerPeer
  MaxHeld,        \* maxRoomsPerSource, by bucket
  MaxPeers,       \* maxPeersPerRoom
  Depth,          \* sendQueueDepth
  Movers,         \* bound: the peers whose users join and leave
  MaxMoves,       \* bound: rooms joined and left by the users
  MaxFaults       \* bound: streams lost and requests refused for rate

None == "none"

ASSUME RendezvousConstants ==
  /\ IsFiniteSet(Stream) /\ IsFiniteSet(Room) /\ IsFiniteSet(Peer)
  /\ PeerOf \in [Stream -> Peer] /\ KeysOf \in [Stream -> SUBSET Key]
  /\ MaxHeld \in [Key -> Nat]
  /\ Stream \cap Peer = {} /\ None \notin Stream
  /\ \A n \in {MaxStreams, MaxTotal, Guaranteed, MaxRooms, MaxPeers, Depth} : n \in Nat

VARIABLES
  live,      \* registry.clients: the streams it knows
  members,   \* registry.rooms, which each stream's own rooms mirror
  total,     \* registry.total
  held,      \* registry.sources[k].held
  attached,  \* registry.sources[k].streams
  guarded,   \* the peers the connection manager was told to protect
  todo,      \* the notices a goroutine has still to send
  ended,     \* streams whose read loop has returned
  gone,      \* peers whose disconnection was seen and is not yet acted on
  shut,      \* connectedClient.done is closed
  outbox,    \* frames on their way to the client
  inq,       \* requests on their way to the relay
  opened, dead,   \* streams opened so far, and those that carry nothing more
  cur,       \* the client's rendezvousStream
  joined,    \* its joinedRooms
  known,     \* its roomPeers
  unheard,   \* history: REGISTERs refused for rate, and none read since
  moves, faults

registry == <<live, members, total, held, attached, guarded>>
clients == <<opened, cur, joined, known>>
bounds == <<unheard, moves, faults>>
vars == <<registry, todo, ended, gone, shut, outbox, inq, dead, clients, bounds>>

StreamsOf(p) == {s \in Stream : PeerOf[s] = p}
PeersIn(ss) == {PeerOf[s] : s \in ss}

\* What was on its way over these streams is lost with them.
Emptied(queue, ss) == [s \in Stream |-> IF s \in ss THEN <<>> ELSE queue[s]]

Frame(type, s, r, ps) == [type |-> type, to |-> s, room |-> r, peers |-> ps]

-----------------------------------------------------------------------------
(* The registry, each operation under registry.mu. *)

\* addStreamFrom: an earlier stream of the same peer is left alone.
addStream(s) ==
  /\ live' = live \cup {s}
  /\ attached' = [k \in Key |-> attached[k] + (IF k \in KeysOf[s] THEN 1 ELSE 0)]
  /\ guarded' = guarded \cup {PeerOf[s]}
  /\ UNCHANGED <<members, total, held>>

roomsHeldByPeer(p) ==
  Cardinality({m \in (live \cap StreamsOf(p)) \X Room : m[1] \in members[m[2]]})

\* The caps a REGISTER meets, in the order of the code.
Capped(s, r) ==
  LET mine == roomsHeldByPeer(PeerOf[s])
  IN  \/ total >= MaxTotal /\ mine >= Guaranteed
      \/ mine >= MaxRooms
      \/ \E k \in KeysOf[s] : held[k] >= MaxHeld[k]
      \/ PeerOf[s] \notin PeersIn(members[r]) /\ Cardinality(PeersIn(members[r])) >= MaxPeers

Peers(s, r) == Frame("PEERS", s, r, PeersIn(members[r]) \ {PeerOf[s]})

\* A REGISTER that joins: the member list goes to the joiner, and a peer's
\* first stream in the room is announced to every other stream.
registerNew(s, r) ==
  LET p == PeerOf[s]
      others == {m \in members[r] : PeerOf[m] # p}
      announce == p \notin PeersIn(members[r])
  IN  /\ members' = [members EXCEPT ![r] = @ \cup {s}]
      /\ total' = total + 1
      /\ held' = [k \in Key |-> held[k] + (IF k \in KeysOf[s] THEN 1 ELSE 0)]
      /\ todo' = [todo EXCEPT ![s] = {Peers(s, r)} \cup
                    (IF announce THEN {Frame("PEER_JOINED", m, r, {p}) : m \in others} ELSE {})]
      /\ UNCHANGED <<live, attached, guarded>>

\* A register that forgets to look whether the registry let the stream go.
registerGhost(s, r) ==
  IF s \in members[r]
  THEN todo' = [todo EXCEPT ![s] = {Peers(s, r)}] /\ UNCHANGED registry
  ELSE IF Capped(s, r)
  THEN todo' = [todo EXCEPT ![s] = {Frame("REGISTER_FAILED", s, r, {})}] /\ UNCHANGED registry
  ELSE registerNew(s, r)

\* A register that leaves a repeated REGISTER without an answer.
registerOnce(s, r) ==
  IF s \notin live \/ s \in members[r] THEN UNCHANGED <<registry, todo>>
  ELSE IF Capped(s, r)
  THEN todo' = [todo EXCEPT ![s] = {Frame("REGISTER_FAILED", s, r, {})}] /\ UNCHANGED registry
  ELSE registerNew(s, r)

register(s, r) ==
  IF s \notin live THEN UNCHANGED <<registry, todo>>
  ELSE IF s \in members[r]
  THEN todo' = [todo EXCEPT ![s] = {Peers(s, r)}] /\ UNCHANGED registry
  ELSE IF Capped(s, r)
  THEN todo' = [todo EXCEPT ![s] = {Frame("REGISTER_FAILED", s, r, {})}] /\ UNCHANGED registry
  ELSE registerNew(s, r)

\* doUnregister's notices: nobody hears of a stream whose peer is still in
\* the room on another of its own.
Departures(ss, r) ==
  LET rest == members[r] \ ss
      out == PeersIn(members[r] \cap ss) \ PeersIn(rest)
  IN  {Frame("PEER_LEFT", x[1], r, {x[2]}) : x \in rest \X out}

Leaving(ss, rooms) ==
  LET left == {m \in ss \X rooms : m[1] \in members[m[2]]}
  IN  /\ members' = [r \in Room |-> IF r \in rooms THEN members[r] \ ss ELSE members[r]]
      /\ total' = total - Cardinality(left)
      /\ held' = [k \in Key |-> held[k] - Cardinality({m \in left : k \in KeysOf[m[1]]})]

unregister(s, r) ==
  IF s \notin live THEN UNCHANGED <<registry, todo>>
  ELSE /\ Leaving({s}, {r})
       /\ todo' = [todo EXCEPT ![s] = Departures({s}, r)]
       /\ UNCHANGED <<live, attached, guarded>>

\* An evict that leaves the stream's registrations charged to its source.
evictKeepsShare(ss) ==
  /\ members' = [r \in Room |-> members[r] \ ss]
  /\ total' = total - Cardinality({m \in ss \X Room : m[1] \in members[m[2]]})
  /\ live' = live \ ss
  /\ attached' = [k \in Key |-> attached[k] - Cardinality({s \in ss : k \in KeysOf[s]})]
  /\ guarded' = guarded \ {p \in PeersIn(ss) : StreamsOf(p) \cap live \subseteq ss}
  /\ UNCHANGED held

\* evict, for the streams one goroutine drops together.
evict(ss) ==
  /\ Leaving(ss, Room)
  /\ live' = live \ ss
  /\ attached' = [k \in Key |-> attached[k] - Cardinality({s \in ss : k \in KeysOf[s]})]
  /\ guarded' = guarded \ {p \in PeersIn(ss) : StreamsOf(p) \cap live \subseteq ss}

-----------------------------------------------------------------------------
(* The relay's goroutines. *)

\* One request of a stream's read loop, which may still hold some in its
\* buffer after the stream was shut.
Reading(s) ==
  /\ s \in opened \ ended /\ todo[s] = {} /\ inq[s] # <<>>
  /\ inq' = [inq EXCEPT ![s] = Tail(@)]
  /\ UNCHANGED <<ended, gone, shut, outbox, dead, clients, moves>>

Read(s) ==
  LET req == Head(inq[s])
  IN  /\ Reading(s)
      /\ IF req.type = "REGISTER" THEN register(s, req.room) ELSE unregister(s, req.room)
      /\ unheard' = unheard \ (IF req.type = "REGISTER" THEN {<<s, req.room>>} ELSE {})
      /\ UNCHANGED faults

\* A request refused for the rate it comes at; a REGISTER is told so, unless
\* it was one too many for a room nobody is in.
Refused(s) ==
  LET req == Head(inq[s])
      silent == req.type = "UNREGISTER" \/ members[req.room] = {}
      told == req.type = "REGISTER"
  IN  /\ Reading(s) /\ faults < MaxFaults
      /\ faults' = faults + 1
      /\ unheard' = unheard \cup (IF told THEN {<<s, req.room>>} ELSE {})
      /\ \/ silent /\ UNCHANGED todo
         \/ told /\ todo' = [todo EXCEPT ![s] = {Frame("REGISTER_FAILED", s, req.room, {})}]
      /\ UNCHANGED registry

\* The read loop ends and removeClient drops the one stream.
ReadEnds(s) ==
  /\ s \in opened \ ended /\ s \in dead \cup shut /\ todo[s] = {}
  /\ ended' = ended \cup {s}
  /\ shut' = shut \cup {s}
  /\ IF s \in live
     THEN evict({s}) /\ todo' = [todo EXCEPT ![s] = UNION {Departures({s}, r) : r \in Room}]
     ELSE UNCHANGED <<registry, todo>>
  /\ outbox' = Emptied(outbox, {s}) /\ inq' = Emptied(inq, {s})
  /\ UNCHANGED <<gone, dead, clients, bounds>>

\* DisconnectedF: the peer has no connection left when it looks ...
Disconnected(p) ==
  /\ p \notin gone /\ todo[p] = {}
  /\ StreamsOf(p) \cap opened # {} /\ StreamsOf(p) \cap opened \subseteq dead
  /\ StreamsOf(p) \cap live # {}
  /\ gone' = gone \cup {p}
  /\ UNCHANGED <<registry, todo, ended, shut, outbox, inq, dead, clients, bounds>>

\* ... and disconnectPeer drops every stream it then has.
disconnectPeer(p) ==
  LET doomed == live \cap StreamsOf(p)
  IN  /\ p \in gone
      /\ gone' = gone \ {p}
      /\ evict(doomed)
      /\ shut' = shut \cup doomed
      /\ todo' = [todo EXCEPT ![p] = UNION {Departures(doomed, r) : r \in Room}]
      /\ outbox' = Emptied(outbox, doomed)
      /\ UNCHANGED <<ended, inq, dead, clients, bounds>>

\* sendTo: the joiner's own PEERS goes first, the rest in no order.  A full
\* outbox drops its stream rather than wait.
Send(a, n) ==
  /\ n \in todo[a] /\ (n.type # "PEERS" => \A m \in todo[a] : m.type # "PEERS")
  /\ todo' = [todo EXCEPT ![a] = @ \ {n}]
  /\ IF n.to \in shut \cup dead THEN UNCHANGED <<outbox, shut>>
     ELSE IF Len(outbox[n.to]) >= Depth
     THEN shut' = shut \cup {n.to} /\ outbox' = Emptied(outbox, {n.to})
     ELSE outbox' = [outbox EXCEPT ![n.to] = Append(@, n)] /\ UNCHANGED shut
  /\ UNCHANGED <<registry, ended, gone, inq, dead, clients, bounds>>

-----------------------------------------------------------------------------
(* The client. *)

Orders(set) ==
  {f \in [1..Cardinality(set) -> set] : \A i, j \in DOMAIN f : f[i] = f[j] => i = j}

\* startRendezvous: the new stream replaces the old, which is aborted, and
\* every joined room is registered on it.  Past MaxStreams the relay resets it.
Open(s) ==
  LET p == PeerOf[s]
      refused == Cardinality(live \cap StreamsOf(p)) >= MaxStreams
  IN  /\ s \notin opened
      /\ opened' = opened \cup {s}
      /\ cur' = [cur EXCEPT ![p] = IF refused THEN None ELSE s]
      /\ dead' = dead \cup ({cur[p]} \ {None}) \cup (IF refused THEN {s} ELSE {})
      /\ outbox' = Emptied(outbox, dead')
      /\ IF refused
         THEN UNCHANGED registry /\ ended' = ended \cup {s} /\ UNCHANGED inq
         ELSE /\ addStream(s) /\ UNCHANGED ended
              /\ \E q \in Orders(joined[p]) :
                   inq' = [inq EXCEPT ![s] =
                     [i \in DOMAIN q |-> [type |-> "REGISTER", room |-> q[i]]]]
      /\ UNCHANGED <<todo, gone, shut, joined, known, bounds>>

\* The network or the relay closes a stream; the client sees its own close.
Closes(s) ==
  /\ dead' = dead \cup {s}
  /\ cur' = [p \in Peer |-> IF cur[p] = s THEN None ELSE cur[p]]
  /\ outbox' = Emptied(outbox, {s})
  /\ UNCHANGED <<registry, todo, ended, gone, shut, inq, opened, joined, known, unheard, moves>>

Lost(s) == s \in opened \ dead /\ faults < MaxFaults /\ faults' = faults + 1 /\ Closes(s)
Reset(s) == s \in shut \ dead /\ UNCHANGED faults /\ Closes(s)

Request(p, type, r) ==
  inq' = IF cur[p] = None THEN inq
         ELSE [inq EXCEPT ![cur[p]] = Append(@, [type |-> type, room |-> r])]

joinRoom(p, r) ==
  /\ moves < MaxMoves /\ r \notin joined[p]
  /\ joined' = [joined EXCEPT ![p] = @ \cup {r}]
  /\ Request(p, "REGISTER", r)
  /\ moves' = moves + 1
  /\ UNCHANGED <<registry, todo, ended, gone, shut, outbox, dead, opened, cur, known, unheard, faults>>

leaveRoom(p, r) ==
  /\ moves < MaxMoves /\ r \in joined[p]
  /\ joined' = [joined EXCEPT ![p] = @ \ {r}]
  /\ known' = [known EXCEPT ![p][r] = {}]
  /\ Request(p, "UNREGISTER", r)
  /\ moves' = moves + 1
  /\ UNCHANGED <<registry, todo, ended, gone, shut, outbox, dead, opened, cur, unheard, faults>>

\* handleRendezvousMsg: PEERS and PEER_JOINED only ever add.
handleRendezvousMsg(s) ==
  LET m == Head(outbox[s])
      p == PeerOf[s]
      now == known[p][m.room]
  IN  /\ s \notin dead \cup shut /\ outbox[s] # <<>>
      /\ outbox' = [outbox EXCEPT ![s] = Tail(@)]
      /\ known' = [known EXCEPT ![p][m.room] =
                     CASE m.type \in {"PEERS", "PEER_JOINED"} -> now \cup (m.peers \ {p})
                       [] m.type = "PEER_LEFT" -> now \ m.peers
                       [] OTHER -> now]
      /\ UNCHANGED <<registry, todo, ended, gone, shut, inq, dead, opened, cur, joined, bounds>>

-----------------------------------------------------------------------------

Init ==
  /\ live = {} /\ guarded = {} /\ total = 0
  /\ members = [r \in Room |-> {}]
  /\ held = [k \in Key |-> 0] /\ attached = [k \in Key |-> 0]
  /\ todo = [a \in Stream \cup Peer |-> {}]
  /\ ended = {} /\ gone = {} /\ shut = {} /\ opened = {} /\ dead = {}
  /\ outbox = [s \in Stream |-> <<>>] /\ inq = [s \in Stream |-> <<>>]
  /\ cur = [p \in Peer |-> None]
  /\ joined = [p \in Peer |-> Room]
  /\ known = [p \in Peer |-> [r \in Room |-> {}]]
  /\ unheard = {} /\ moves = 0 /\ faults = 0

Next ==
  \/ \E s \in Stream : \/ Open(s) \/ Lost(s) \/ Reset(s) \/ handleRendezvousMsg(s)
                       \/ Read(s) \/ Refused(s) \/ ReadEnds(s)
  \/ \E p \in Peer : Disconnected(p) \/ disconnectPeer(p)
  \/ \E p \in Movers, r \in Room : joinRoom(p, r) \/ leaveRoom(p, r)
  \/ \E a \in Stream \cup Peer : \E n \in todo[a] : Send(a, n)

Spec == Init /\ [][Next]_vars

-----------------------------------------------------------------------------
(* Properties. *)

\* Whatever order streams are opened, lost, evicted by their own read loop
\* and evicted by the peer's disconnection, a stream the registry has let go
\* of is in no room, and the peers it protects from the connection manager
\* are exactly those with a stream.
NoGhosts ==
  /\ \A r \in Room : members[r] \subseteq live
  /\ guarded = PeersIn(live)

\* The incremental counters are the sums they stand for.
CountersExact ==
  /\ total = Cardinality({m \in Stream \X Room : m[1] \in members[m[2]]})
  /\ \A k \in Key :
       LET mine == {s \in live : k \in KeysOf[s]}
       IN  /\ attached[k] = Cardinality(mine)
           /\ held[k] = Cardinality({m \in mine \X Room : m[1] \in members[m[2]]})

\* Nothing is on its way between the relay and the clients.
Quiet ==
  /\ \A a \in Stream \cup Peer : todo[a] = {}
  /\ \A s \in Stream \ (dead \cup shut) : outbox[s] = <<>> /\ inq[s] = <<>>
  /\ gone = {}

\* Both streams are their clients' current ones and in the room.
Together(s, t, r) ==
  /\ {s, t} \subseteq members[r] \ (dead \cup shut) /\ PeerOf[s] # PeerOf[t]
  /\ cur[PeerOf[s]] = s /\ cur[PeerOf[t]] = t
  /\ r \in joined[PeerOf[s]] \cap joined[PeerOf[t]]

\* Two members who register at the same time, leave and come back learn of
\* each other once the frames are delivered, in whatever order two read loops
\* send their notices, as long as the other has kept to one stream.  One whose
\* UNREGISTER and next REGISTER were both refused for rate is still in the
\* room, has forgotten who is there and is not told again.
MembersLearn ==
  Quiet => \A s, t \in Stream, r \in Room :
    /\ Together(s, t, r) /\ StreamsOf(PeerOf[t]) \cap opened = {t}
    /\ <<s, r>> \notin unheard
    => PeerOf[t] \in known[PeerOf[s]][r]

\* A client is never left without a peer that is there: once everything is
\* delivered, each member knows each other member.  The relay sends its notices
\* outside the lock, so this can fail where a peer reconnects; MembersLearn is
\* the part that holds.
PresentPeersKept ==
  Quiet => \A s, t \in Stream, r \in Room :
    Together(s, t, r) => PeerOf[t] \in known[PeerOf[s]][r]

=============================================================================
