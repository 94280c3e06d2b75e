-------------------------- MODULE RendezvousProofs --------------------------
(***************************************************************************)
(* The relay's registry for any number of peers, streams, rooms and source *)
(* buckets and any caps: no stream it has let go of is left in a room, and *)
(* the counters it keeps as it goes are the sums they stand for.           *)
(***************************************************************************)
EXTENDS Rendezvous, FiniteSetTheorems, TLAPS

(* Leaves are for the SMT solver, unless they name another prover. *)
USE SMTT(30)

Requests == [type : {"REGISTER", "UNREGISTER"}, room : Room]

(* Who is in which room, and that of one source bucket. *)
Registered == {m \in Stream \X Room : m[1] \in members[m[2]]}
RegisteredFrom(k) == {m \in Registered : k \in KeysOf[m[1]]}
LiveFrom(k) == {s \in live : k \in KeysOf[s]}

Typed ==
    /\ live \in SUBSET Stream /\ members \in [Room -> SUBSET Stream]
    /\ joined \in [Peer -> SUBSET Room] /\ inq \in [Stream -> Seq(Requests)]
    /\ live \subseteq opened

Exact ==
    /\ total = Cardinality(Registered)
    /\ held = [k \in Key |-> Cardinality(RegisteredFrom(k))]
    /\ attached = [k \in Key |-> Cardinality(LiveFrom(k))]

Inv == Typed /\ NoGhosts /\ Exact

-----------------------------------------------------------------------------
(* The four ways a step changes the registry. *)

Adds(s) == s \in Stream \ opened /\ addStream(s) /\ opened' = opened \cup {s}

Joins(s, r) ==
    /\ s \in live /\ r \in Room /\ s \notin members[r]
    /\ members' = [members EXCEPT ![r] = @ \cup {s}]
    /\ total' = total + 1
    /\ held' = [k \in Key |-> held[k] + (IF k \in KeysOf[s] THEN 1 ELSE 0)]
    /\ UNCHANGED <<live, attached, guarded, opened>>

Leaves(s, r) ==
    s \in live /\ r \in Room /\ Leaving({s}, {r}) /\ UNCHANGED <<live, attached, guarded, opened>>

Drops(ss) == ss \in SUBSET live /\ evict(ss) /\ UNCHANGED opened

(* A step that keeps the types and changes the registry in one way at most. *)
OneWay ==
    /\ joined' \in [Peer -> SUBSET Room] /\ inq' \in [Stream -> Seq(Requests)]
    /\ \/ \E s \in Stream : Adds(s)
       \/ \E s \in Stream, r \in Room : Joins(s, r) \/ Leaves(s, r)
       \/ \E ss \in SUBSET Stream : Drops(ss)
       \/ UNCHANGED registry /\ opened \subseteq opened'

(* A client's request, appended to what is on its way, is one of the two. *)
LEMMA RequestTyped ==
    ASSUME Typed, NEW p, NEW r \in Room, NEW type \in {"REGISTER", "UNREGISTER"},
           Request(p, type, r)
    PROVE  inq' \in [Stream -> Seq(Requests)]
<1> DEFINE req == [type |-> type, room |-> r]
<1>1. req \in Requests
  BY DEF Requests
<1> HIDE DEF req
<1>2. CASE cur[p] = None
  BY <1>2 DEF Request, Typed
<1>3. CASE cur[p] # None
  <2>1. inq' = [inq EXCEPT ![cur[p]] = Append(@, req)]
    BY <1>3 DEF Request, req
  <2>2. \A q \in Stream : Append(inq[q], req) \in Seq(Requests)
    BY <1>1 DEF Typed
  <2>3. inq' \in [Stream -> Seq(Requests)]
    BY <2>1, <2>2, Zenon DEF Typed
  <2> QED
    BY <2>3
<1> QED
  BY <1>2, <1>3

(* A request that is read is taken off its stream's queue. *)
LEMMA ReadTyped ==
    ASSUME Typed, NEW s \in Stream, Reading(s)
    PROVE  /\ Head(inq[s]) \in Requests /\ inq' \in [Stream -> Seq(Requests)]
           /\ UNCHANGED <<joined, opened>>
  BY DEF Typed, Reading, clients

(* register and unregister change the registry in one way at most. *)
LEMMA ReadWays ==
    ASSUME Typed, NEW s \in Stream, Read(s)
    PROVE  OneWay
<1> DEFINE req == Head(inq[s])
<1>1. req \in Requests /\ inq' \in [Stream -> Seq(Requests)] /\ UNCHANGED <<joined, opened>>
  BY ReadTyped DEF Read
<1>2. req.room \in Room
  BY <1>1 DEF Requests
<1>3. register(s, req.room) \/ unregister(s, req.room)
  BY DEF Read
<1> HIDE DEF req
<1>4. joined' \in [Peer -> SUBSET Room]
  BY <1>1 DEF Typed
<1>5. CASE UNCHANGED registry
  BY <1>1, <1>4, <1>5 DEF OneWay
<1>6. CASE s \in live /\ s \notin members[req.room] /\ registerNew(s, req.room)
  <2>1. Joins(s, req.room)
    BY <1>1, <1>2, <1>6 DEF Joins, registerNew
  <2> QED
    BY <1>1, <1>2, <1>4, <2>1 DEF OneWay
<1>7. CASE s \in live /\ Leaving({s}, {req.room}) /\ UNCHANGED <<live, attached, guarded>>
  <2>1. Leaves(s, req.room)
    BY <1>1, <1>2, <1>7 DEF Leaves
  <2> QED
    BY <1>1, <1>2, <1>4, <2>1 DEF OneWay
<1> QED
  BY <1>3, <1>5, <1>6, <1>7 DEF register, unregister, registry

(* startRendezvous registers every joined room on the stream it adds. *)
LEMMA OpenWays ==
    ASSUME Typed, NEW s \in Stream, Open(s)
    PROVE  OneWay
<1> DEFINE p == PeerOf[s]
<1>1. p \in Peer /\ joined[p] \in SUBSET Room
  BY RendezvousConstants DEF Typed
<1>2. Cardinality(joined[p]) \in Nat
  BY <1>1, RendezvousConstants, FS_Subset, FS_CardinalityType
<1>3. ASSUME NEW q \in Orders(joined[p])
      PROVE  [i \in DOMAIN q |-> [type |-> "REGISTER", room |-> q[i]]] \in Seq(Requests)
  <2> DEFINE n == Cardinality(joined[p])
  <2>1. n \in Nat /\ q \in [1..n -> joined[p]]
    BY <1>2 DEF Orders
  <2> HIDE DEF n
  <2>2. DOMAIN q = 1..n /\ \A i \in 1..n : [type |-> "REGISTER", room |-> q[i]] \in Requests
    BY <1>1, <2>1 DEF Requests
  <2> QED
    BY <2>1, <2>2
<1>4. joined' \in [Peer -> SUBSET Room] /\ opened' = opened \cup {s} /\ s \notin opened
  BY DEF Typed, Open
<1>5. CASE UNCHANGED <<registry, inq>>
  BY <1>4, <1>5 DEF OneWay, Typed
<1>6. CASE addStream(s) /\ \E q \in Orders(joined[p]) :
             inq' = [inq EXCEPT ![s] = [i \in DOMAIN q |-> [type |-> "REGISTER", room |-> q[i]]]]
  <2>1. inq' \in [Stream -> Seq(Requests)]
    BY <1>3, <1>6 DEF Typed
  <2>2. Adds(s)
    BY <1>4, <1>6 DEF Adds
  <2> QED
    BY <1>4, <2>1, <2>2 DEF OneWay
<1> QED
  BY <1>5, <1>6 DEF Open

(* Every action changes the registry in one of the four ways or not at all. *)
LEMMA Ways ==
    ASSUME Typed, [Next]_vars
    PROVE  OneWay
<1>1. ASSUME UNCHANGED registry, UNCHANGED <<opened, joined, inq>>
      PROVE  OneWay
  BY <1>1 DEF OneWay, Typed
<1>2. ASSUME NEW s \in Stream, Lost(s) \/ Reset(s) \/ handleRendezvousMsg(s)
      PROVE  OneWay
  BY <1>1, <1>2, Zenon DEF Lost, Reset, Closes, handleRendezvousMsg
<1>3. ASSUME NEW s \in Stream, Refused(s)
      PROVE  OneWay
  BY <1>3, ReadTyped DEF Refused, OneWay, Typed
<1>4. ASSUME NEW s \in Stream, ReadEnds(s)
      PROVE  OneWay
  <2>1. inq' \in [Stream -> Seq(Requests)]
    BY <1>4 DEF ReadEnds, Emptied, Typed
  <2>2. joined' \in [Peer -> SUBSET Room] /\ UNCHANGED opened
    BY <1>4 DEF ReadEnds, clients, Typed
  <2>3. UNCHANGED registry \/ Drops({s})
    BY <1>4, <2>2 DEF ReadEnds, Drops
  <2> QED
    BY <2>1, <2>2, <2>3 DEF OneWay
<1>5. ASSUME NEW p \in Peer, Disconnected(p)
      PROVE  OneWay
  BY <1>1, <1>5 DEF Disconnected, clients
<1>6. ASSUME NEW p \in Peer, disconnectPeer(p)
      PROVE  OneWay
  <2> DEFINE doomed == live \cap StreamsOf(p)
  <2>1. Drops(doomed) /\ doomed \in SUBSET Stream
    BY <1>6 DEF disconnectPeer, Drops, clients, Typed
  <2>2. joined' \in [Peer -> SUBSET Room] /\ inq' \in [Stream -> Seq(Requests)]
    BY <1>6 DEF disconnectPeer, clients, Typed
  <2> HIDE DEF doomed
  <2> QED
    BY <2>1, <2>2 DEF OneWay
<1>7. ASSUME NEW p \in Movers, NEW r \in Room, joinRoom(p, r) \/ leaveRoom(p, r)
      PROVE  OneWay
  <2>1. inq' \in [Stream -> Seq(Requests)]
    BY <1>7, RequestTyped DEF joinRoom, leaveRoom
  <2>2. joined' \in [Peer -> SUBSET Room]
    BY <1>7 DEF joinRoom, leaveRoom, Typed
  <2>3. UNCHANGED registry /\ UNCHANGED opened
    BY <1>7 DEF joinRoom, leaveRoom
  <2> QED
    BY <2>1, <2>2, <2>3 DEF OneWay
<1>8. ASSUME NEW a, NEW n, Send(a, n)
      PROVE  OneWay
  BY <1>1, <1>8 DEF Send, clients
<1>9. CASE UNCHANGED vars
  BY <1>1, <1>9 DEF vars, clients
<1> QED
  BY <1>2, <1>3, <1>4, <1>5, <1>6, <1>7, <1>8, <1>9, OpenWays, ReadWays DEF Next

-----------------------------------------------------------------------------
(* Each way keeps the invariant. *)

(* What is registered is finite. *)
LEMMA Finite ==
    ASSUME Typed
    PROVE  /\ IsFiniteSet(Registered) /\ \A k : IsFiniteSet(RegisteredFrom(k))
           /\ IsFiniteSet(live) /\ \A k : IsFiniteSet(LiveFrom(k))
<1>1. IsFiniteSet(Stream \X Room)
  BY RendezvousConstants, FS_Product
<1>2. Registered \in SUBSET (Stream \X Room) /\ \A k : RegisteredFrom(k) \in SUBSET (Stream \X Room)
  BY DEF Registered, RegisteredFrom
<1>3. live \in SUBSET Stream /\ \A k : LiveFrom(k) \in SUBSET Stream
  BY DEF Typed, LiveFrom
<1> QED
  BY <1>1, <1>2, <1>3, FS_Subset, RendezvousConstants

(* A new stream is in no room and counts once for each of its buckets. *)
LEMMA AddsKeeps ==
    ASSUME Inv, NEW s \in Stream, Adds(s)
    PROVE  NoGhosts' /\ Exact' /\ live' \in SUBSET Stream /\ members' = members /\ live' \subseteq opened'
<1>1. s \notin live /\ live' = live \cup {s} /\ members' = members
  BY DEF Inv, Typed, Adds, addStream
<1>2. NoGhosts'
  BY <1>1 DEF Inv, NoGhosts, Adds, addStream, PeersIn
<1>3. Registered' = Registered /\ \A k : RegisteredFrom(k)' = RegisteredFrom(k)
  BY <1>1 DEF Registered, RegisteredFrom
<1>4. ASSUME NEW k \in Key
      PROVE  attached'[k] = Cardinality(LiveFrom(k)')
  <2>1. attached[k] = Cardinality(LiveFrom(k)) /\ IsFiniteSet(LiveFrom(k))
    BY Finite DEF Inv, Exact
  <2>2. Cardinality(LiveFrom(k)) \in Nat
    BY <2>1, FS_CardinalityType
  <2>3. attached'[k] = attached[k] + (IF k \in KeysOf[s] THEN 1 ELSE 0)
    BY DEF Adds, addStream
  <2>4. LiveFrom(k)' = IF k \in KeysOf[s] THEN LiveFrom(k) \cup {s} ELSE LiveFrom(k)
    BY <1>1 DEF LiveFrom
  <2>5. s \notin LiveFrom(k)
    BY <1>1 DEF LiveFrom
  <2>6. Cardinality(LiveFrom(k) \cup {s}) = Cardinality(LiveFrom(k)) + 1
    BY <2>1, <2>5, FS_AddElement, Zenon
  <2>7. Cardinality(LiveFrom(k)') = Cardinality(LiveFrom(k)) + (IF k \in KeysOf[s] THEN 1 ELSE 0)
    BY <2>2, <2>4, <2>6
  <2> QED
    BY <2>1, <2>3, <2>7
<1>5. attached' = [k \in Key |-> Cardinality(LiveFrom(k)')]
  BY <1>4 DEF Adds, addStream
<1>6. Exact'
  BY <1>3, <1>5 DEF Inv, Exact, Adds, addStream
<1> QED
  BY <1>1, <1>2, <1>6 DEF Inv, Typed, Adds

(* A live stream joins a room it was not in. *)
LEMMA JoinsKeeps ==
    ASSUME Inv, NEW s \in Stream, NEW r \in Room, Joins(s, r)
    PROVE  NoGhosts' /\ Exact' /\ members' \in [Room -> SUBSET Stream] /\ UNCHANGED <<live, opened>>
<1>1. /\ members' = [members EXCEPT ![r] = members[r] \cup {s}] /\ live' = live /\ guarded' = guarded
      /\ s \in live /\ s \notin members[r] /\ members \in [Room -> SUBSET Stream]
  BY DEF Joins, Inv, Typed
<1>2. NoGhosts'
  BY <1>1 DEF Inv, NoGhosts, PeersIn
<1>3. Registered' = Registered \cup {<<s, r>>} /\ <<s, r>> \notin Registered
  BY <1>1 DEF Registered
<1>4. total' = Cardinality(Registered')
  <2>1. total = Cardinality(Registered) /\ IsFiniteSet(Registered)
    BY Finite DEF Inv, Exact
  <2> QED
    BY <1>3, <2>1, FS_AddElement, Zenon DEF Joins
<1>5. ASSUME NEW k \in Key
      PROVE  held'[k] = Cardinality(RegisteredFrom(k)')
  <2>1. held[k] = Cardinality(RegisteredFrom(k)) /\ IsFiniteSet(RegisteredFrom(k))
    BY Finite DEF Inv, Exact
  <2>2. Cardinality(RegisteredFrom(k)) \in Nat
    BY <2>1, FS_CardinalityType
  <2>3. held'[k] = held[k] + (IF k \in KeysOf[s] THEN 1 ELSE 0)
    BY DEF Joins
  <2>4. RegisteredFrom(k)' = IF k \in KeysOf[s] THEN RegisteredFrom(k) \cup {<<s, r>>}
                             ELSE RegisteredFrom(k)
    BY <1>3 DEF RegisteredFrom
  <2>5. <<s, r>> \notin RegisteredFrom(k)
    BY <1>3 DEF RegisteredFrom
  <2>6. Cardinality(RegisteredFrom(k) \cup {<<s, r>>}) = Cardinality(RegisteredFrom(k)) + 1
    BY <2>1, <2>5, FS_AddElement, Zenon
  <2>7. Cardinality(RegisteredFrom(k)') = Cardinality(RegisteredFrom(k)) + (IF k \in KeysOf[s] THEN 1 ELSE 0)
    BY <2>2, <2>4, <2>6
  <2> QED
    BY <2>1, <2>3, <2>7
<1>6. held' = [k \in Key |-> Cardinality(RegisteredFrom(k)')]
  BY <1>5 DEF Joins
<1>7. \A k : LiveFrom(k)' = LiveFrom(k)
  BY <1>1 DEF LiveFrom
<1>8. Exact'
  BY <1>4, <1>6, <1>7 DEF Inv, Exact, Joins
<1> QED
  BY <1>1, <1>2, <1>8 DEF Joins

(* Streams leaving rooms take out of each count what they held. *)
LEMMA LeavingCounts ==
    ASSUME Inv, NEW ss \in SUBSET live, NEW rooms \in SUBSET Room, Leaving(ss, rooms)
    PROVE  /\ members' \in [Room -> SUBSET Stream]
           /\ \A r \in Room : members'[r] \subseteq members[r] /\ (r \in rooms => members'[r] \cap ss = {})
           /\ total' = Cardinality(Registered')
           /\ held' = [k \in Key |-> Cardinality(RegisteredFrom(k)')]
<1> DEFINE left == {m \in ss \X rooms : m[1] \in members[m[2]]}
           leftFrom(k) == {m \in left : k \in KeysOf[m[1]]}
<1>1. /\ members' = [r \in Room |-> IF r \in rooms THEN members[r] \ ss ELSE members[r]]
      /\ total' = total - Cardinality(left)
      /\ held' = [k \in Key |-> held[k] - Cardinality(leftFrom(k))]
  BY DEF Leaving
<1>2. live \in SUBSET Stream /\ members \in [Room -> SUBSET Stream]
  BY DEF Inv, Typed
<1>3. /\ members' \in [Room -> SUBSET Stream]
      /\ \A r \in Room : members'[r] \subseteq members[r] /\ (r \in rooms => members'[r] \cap ss = {})
  BY <1>1, <1>2
<1>4. Registered' = Registered \ left /\ Registered \cap left = left
  BY <1>1, <1>2 DEF Registered
<1> HIDE DEF left
<1>5. total' = Cardinality(Registered')
  <2>1. total = Cardinality(Registered) /\ IsFiniteSet(Registered)
    BY Finite DEF Inv, Exact
  <2>2. Cardinality(Registered \ left) = Cardinality(Registered) - Cardinality(Registered \cap left)
    BY <2>1, FS_Difference, Zenon
  <2> QED
    BY <1>1, <1>4, <2>1, <2>2, Zenon
<1>6. ASSUME NEW k \in Key
      PROVE  held'[k] = Cardinality(RegisteredFrom(k)')
  <2>1. held[k] = Cardinality(RegisteredFrom(k)) /\ IsFiniteSet(RegisteredFrom(k))
    BY Finite DEF Inv, Exact
  <2>2. RegisteredFrom(k)' = RegisteredFrom(k) \ leftFrom(k) /\ RegisteredFrom(k) \cap leftFrom(k) = leftFrom(k)
    BY <1>4 DEF RegisteredFrom
  <2>3. held'[k] = held[k] - Cardinality(leftFrom(k))
    BY <1>1
  <2> HIDE DEF leftFrom
  <2>4. Cardinality(RegisteredFrom(k) \ leftFrom(k)) =
          Cardinality(RegisteredFrom(k)) - Cardinality(RegisteredFrom(k) \cap leftFrom(k))
    BY <2>1, FS_Difference, Zenon
  <2> QED
    BY <2>1, <2>2, <2>3, <2>4
<1>7. held' = [k \in Key |-> Cardinality(RegisteredFrom(k)')]
  BY <1>1, <1>6
<1> QED
  BY <1>3, <1>5, <1>7

(* An UNREGISTER takes one stream out of one room. *)
LEMMA LeavesKeeps ==
    ASSUME Inv, NEW s \in Stream, NEW r \in Room, Leaves(s, r)
    PROVE  NoGhosts' /\ Exact' /\ members' \in [Room -> SUBSET Stream] /\ UNCHANGED <<live, opened>>
<1>1. s \in live /\ Leaving({s}, {r}) /\ UNCHANGED <<live, attached, guarded, opened>>
  BY DEF Leaves
<1>2. /\ members' \in [Room -> SUBSET Stream] /\ \A q \in Room : members'[q] \subseteq members[q]
      /\ total' = Cardinality(Registered')
      /\ held' = [k \in Key |-> Cardinality(RegisteredFrom(k)')]
  BY <1>1, LeavingCounts, Zenon
<1>3. \A k : LiveFrom(k)' = LiveFrom(k)
  BY <1>1 DEF LiveFrom
<1>4. Exact'
  BY <1>1, <1>2, <1>3, Zenon DEF Inv, Exact
<1>5. NoGhosts'
  BY <1>1, <1>2, Zenon DEF Inv, NoGhosts, PeersIn
<1> QED
  BY <1>1, <1>2, <1>4, <1>5

(* Streams let go of leave every room and their buckets, and a peer's
   protection goes with its last one. *)
LEMMA DropsKeeps ==
    ASSUME Inv, NEW ss \in SUBSET Stream, Drops(ss)
    PROVE  /\ NoGhosts' /\ Exact' /\ members' \in [Room -> SUBSET Stream]
           /\ live' \in SUBSET Stream /\ live' \subseteq opened'
<1>1. /\ ss \in SUBSET live /\ Leaving(ss, Room) /\ live' = live \ ss /\ opened' = opened
      /\ attached' = [k \in Key |-> attached[k] - Cardinality({s \in ss : k \in KeysOf[s]})]
      /\ guarded' = guarded \ {p \in PeersIn(ss) : StreamsOf(p) \cap live \subseteq ss}
  BY DEF Drops, evict
<1>2. live \in SUBSET Stream /\ live \subseteq opened /\ guarded = PeersIn(live)
      /\ \A r \in Room : members[r] \subseteq live
  BY DEF Inv, Typed, NoGhosts
<1>3. /\ members' \in [Room -> SUBSET Stream]
      /\ \A r \in Room : members'[r] \subseteq members[r] /\ members'[r] \cap ss = {}
      /\ total' = Cardinality(Registered')
      /\ held' = [k \in Key |-> Cardinality(RegisteredFrom(k)')]
  BY <1>1, LeavingCounts, Zenon
<1>4. guarded' = PeersIn(live')
  <2>1. ASSUME NEW p
        PROVE  p \in guarded' <=> p \in PeersIn(live')
    <3>1. p \in guarded' <=> p \in PeersIn(live) /\ ~(p \in PeersIn(ss) /\ StreamsOf(p) \cap live \subseteq ss)
      BY <1>1, <1>2, Zenon
    <3>2. p \in PeersIn(live \ ss) <=> \E s \in live : s \notin ss /\ PeerOf[s] = p
      BY Zenon DEF PeersIn
    <3>3. StreamsOf(p) \cap live \subseteq ss <=> \A s \in live : PeerOf[s] = p => s \in ss
      BY <1>2 DEF StreamsOf
    <3> QED
      BY <1>1, <3>1, <3>2, <3>3, Zenon DEF PeersIn
  <2> QED
    BY <2>1
<1>5. NoGhosts'
  BY <1>1, <1>2, <1>3, <1>4, Zenon DEF NoGhosts
<1>6. ASSUME NEW k \in Key
      PROVE  attached'[k] = Cardinality(LiveFrom(k)')
  <2> DEFINE out == {s \in ss : k \in KeysOf[s]}
  <2>1. attached[k] = Cardinality(LiveFrom(k)) /\ IsFiniteSet(LiveFrom(k))
    BY Finite DEF Inv, Exact
  <2>2. LiveFrom(k)' = LiveFrom(k) \ out /\ LiveFrom(k) \cap out = out
    BY <1>1 DEF LiveFrom
  <2>3. attached'[k] = attached[k] - Cardinality(out)
    BY <1>1
  <2> HIDE DEF out
  <2>4. Cardinality(LiveFrom(k) \ out) = Cardinality(LiveFrom(k)) - Cardinality(out)
    BY <2>1, <2>2, FS_Difference
  <2> QED
    BY <2>1, <2>2, <2>3, <2>4
<1>7. Exact'
  BY <1>1, <1>3, <1>6, Zenon DEF Exact
<1> QED
  BY <1>1, <1>2, <1>3, <1>5, <1>7, Zenon

-----------------------------------------------------------------------------
(* The invariant holds at the start and through every step. *)
LEMMA InvHolds == Spec => []Inv
<1>1. Init => Inv
  <2> SUFFICES ASSUME Init PROVE Inv
    OBVIOUS
  <2>1. Typed
    BY DEF Init, Typed
  <2>2. NoGhosts
    BY Zenon DEF Init, NoGhosts, PeersIn
  <2>3. Registered = {} /\ (\A k : RegisteredFrom(k) = {}) /\ \A k : LiveFrom(k) = {}
    BY Zenon DEF Init, Registered, RegisteredFrom, LiveFrom
  <2>4. Exact
    BY <2>3, FS_EmptySet, Zenon DEF Init, Exact
  <2> QED
    BY <2>1, <2>2, <2>4 DEF Inv
<1>2. Inv /\ [Next]_vars => Inv'
  <2> SUFFICES ASSUME Inv, [Next]_vars PROVE Inv'
    OBVIOUS
  <2>1. OneWay
    BY Ways DEF Inv
  <2>2. ASSUME NoGhosts', Exact', live' \in SUBSET Stream, members' \in [Room -> SUBSET Stream],
               live' \subseteq opened'
        PROVE  Inv'
    BY <2>1, <2>2 DEF Inv, Typed, OneWay
  <2>3. CASE \E s \in Stream : Adds(s)
    BY <2>2, <2>3, AddsKeeps DEF Inv, Typed
  <2>4. CASE \E s \in Stream, r \in Room : Joins(s, r) \/ Leaves(s, r)
    BY <2>2, <2>4, JoinsKeeps, LeavesKeeps DEF Inv, Typed
  <2>5. CASE \E ss \in SUBSET Stream : Drops(ss)
    BY <2>2, <2>5, DropsKeeps
  <2>6. CASE UNCHANGED registry /\ opened \subseteq opened'
    <3>1. NoGhosts'
      BY <2>6 DEF registry, Inv, NoGhosts, PeersIn
    <3>2. Registered' = Registered /\ (\A k : RegisteredFrom(k)' = RegisteredFrom(k)) /\ \A k : LiveFrom(k)' = LiveFrom(k)
      BY <2>6, Zenon DEF registry, Registered, RegisteredFrom, LiveFrom
    <3>3. Exact'
      BY <2>6, <3>2 DEF registry, Inv, Exact
    <3> QED
      BY <2>2, <2>6, <3>1, <3>3 DEF registry, Inv, Typed
  <2> QED
    BY <2>1, <2>3, <2>4, <2>5, <2>6 DEF OneWay
<1> QED
  BY <1>1, <1>2, PTL DEF Spec

(* No stream the registry has let go of is in a room, and exactly the peers
   with a stream are protected, for any peers, streams, rooms and caps. *)
THEOREM NoGhostsHolds == Spec => []NoGhosts
<1>1. Inv => NoGhosts
  BY DEF Inv
<1> QED
  BY <1>1, InvHolds, PTL

(* The registry's incremental counters equal the counts they stand for, for
   any peers, streams, rooms, buckets and caps. *)
THEOREM CountersExactHolds == Spec => []CountersExact
<1>1. Inv => CountersExact
  <2> SUFFICES ASSUME Inv PROVE CountersExact
    OBVIOUS
  <2>1. total = Cardinality({m \in Stream \X Room : m[1] \in members[m[2]]})
    BY DEF Inv, Exact, Registered
  <2>2. ASSUME NEW k \in Key
        PROVE  /\ attached[k] = Cardinality({s \in live : k \in KeysOf[s]})
               /\ held[k] = Cardinality({m \in {s \in live : k \in KeysOf[s]} \X Room : m[1] \in members[m[2]]})
    <3>1. RegisteredFrom(k) = {m \in {s \in live : k \in KeysOf[s]} \X Room : m[1] \in members[m[2]]}
      BY ZenonT(60) DEF Inv, Typed, NoGhosts, Registered, RegisteredFrom
    <3> QED
      BY <3>1, Zenon DEF Inv, Exact, LiveFrom
  <2> QED
    BY <2>1, <2>2 DEF CountersExact
<1> QED
  BY <1>1, InvHolds, PTL

-----------------------------------------------------------------------------
Base == Typed /\ \A r \in Room : members[r] \subseteq live

(* What a member has been told: the frames that bring a peer to a room's      *)
(* members and those that take it out, and where the last word on it is.     *)

Frames ==
    [type : {"PEERS", "PEER_JOINED", "PEER_LEFT", "REGISTER_FAILED"},
     to : Stream, room : Room, peers : SUBSET Peer]

Brings(n, r, p) == n.type \in {"PEERS", "PEER_JOINED"} /\ n.room = r /\ p \in n.peers
TakesOut(n, r, p) == n.type = "PEER_LEFT" /\ n.room = r /\ p \in n.peers

AsksFor(queue, r) ==
    \E i \in DOMAIN queue : queue[i].type = "REGISTER" /\ queue[i].room = r
Due(notices, s, r, p) == \E n \in notices : n.to = s /\ Brings(n, r, p)
Calm(box, r, p) == \A i \in DOMAIN box : ~TakesOut(box[i], r, p)
Coming(box, r, p) ==
    \E i \in DOMAIN box :
       /\ Brings(box[i], r, p)
       /\ \A j \in DOMAIN box : j > i => ~TakesOut(box[j], r, p)

LEMMA NothingOnItsWay ==
    ASSUME NEW s, NEW r, NEW p
    PROVE  ~AsksFor(<<>>, r) /\ ~Coming(<<>>, r, p) /\ ~Due({}, s, r, p)
<1>1. DOMAIN <<>> = {}
  OBVIOUS
<1> QED
  BY <1>1, Zenon DEF AsksFor, Coming, Due

(* The client of s knows of p, or will once what is on its way has arrived. *)
Told(s, t, r) ==
    \/ AsksFor(inq[s], r)
    \/ Due(todo[s], s, r, PeerOf[t])
    \/ Due(todo[t], s, r, PeerOf[t])
    \/ Coming(outbox[s], r, PeerOf[t])
    \/ PeerOf[t] \in known[PeerOf[s]][r] /\ Calm(outbox[s], r, PeerOf[t])

Sole(t) == StreamsOf(PeerOf[t]) \cap opened = {t}

Meets(s, t, r) ==
    /\ s \in members[r] /\ t \in members[r] /\ PeerOf[s] # PeerOf[t]
    /\ s \notin dead /\ s \notin shut /\ cur[PeerOf[s]] = s
    /\ r \in joined[PeerOf[s]] /\ <<s, r>> \notin unheard /\ Sole(t)

Learning == \A s, t \in Stream, r \in Room : Meets(s, t, r) => Told(s, t, r)

(* Frames go to streams that were opened. *)
Sending ==
    /\ todo \in [Stream \cup Peer -> SUBSET Frames]
    /\ outbox \in [Stream -> Seq(Frames)]
    /\ \A a \in Stream \cup Peer : \A n \in todo[a] : n.to \in opened
    /\ \A s \in Stream : outbox[s] # <<>> => s \in opened

(* A client has one stream that carries anything, and known has its place. *)
OneCurrent ==
    /\ opened \in SUBSET Stream /\ cur \in [Peer -> Stream \cup {None}]
    /\ known \in [Peer -> [Room -> SUBSET Peer]]
    /\ \A s \in opened : s \notin dead => cur[PeerOf[s]] = s

(* A PEER_LEFT still to be sent is about a peer whose stream has not come    *)
(* back: its own read loop has yet to send it, or the relay let it go.       *)
Parting(a, n) ==
    \/ a \in Stream /\ n.peers = {PeerOf[a]} /\ a \in opened /\ a \notin members[n.room]
    \/ /\ a \in Peer /\ n.peers = {a} /\ \E u \in opened : PeerOf[u] = a
       /\ \A t \in Stream : PeerOf[t] = a /\ Sole(t) => t \notin live

Partings ==
    \A a \in Stream \cup Peer : \A n \in todo[a] : n.type = "PEER_LEFT" => Parting(a, n)

Sure == Base /\ Sending /\ OneCurrent /\ Partings

-----------------------------------------------------------------------------
(* A queue of requests, and one of frames, as it grows and shrinks. *)
LEMMA AsksAppend ==
    ASSUME NEW q \in Seq(Requests), NEW m \in Requests, NEW r, AsksFor(q, r)
    PROVE  AsksFor(Append(q, m), r)
  BY DEF AsksFor

LEMMA AsksLast ==
    ASSUME NEW q \in Seq(Requests), NEW m \in Requests, NEW r, m.type = "REGISTER", m.room = r
    PROVE  AsksFor(Append(q, m), r)
<1>1. Len(q) + 1 \in DOMAIN Append(q, m) /\ Append(q, m)[Len(q) + 1] = m
  OBVIOUS
<1> QED
  BY <1>1 DEF AsksFor

LEMMA AsksTail ==
    ASSUME NEW q \in Seq(Requests), q # <<>>, NEW r, AsksFor(q, r),
           ~(Head(q).type = "REGISTER" /\ Head(q).room = r)
    PROVE  AsksFor(Tail(q), r)
<1>1. PICK i \in DOMAIN q : q[i].type = "REGISTER" /\ q[i].room = r
  BY DEF AsksFor
<1>2. i # 1 /\ i \in 1 .. Len(q)
  BY <1>1
<1>3. i - 1 \in DOMAIN Tail(q) /\ Tail(q)[i - 1] = q[i]
  BY <1>2
<1> QED
  BY <1>1, <1>3 DEF AsksFor

LEMMA ComingAppend ==
    ASSUME NEW q \in Seq(Frames), NEW n \in Frames, NEW r, NEW p,
           Coming(q, r, p), ~TakesOut(n, r, p)
    PROVE  Coming(Append(q, n), r, p)
<1>1. PICK i \in DOMAIN q : Brings(q[i], r, p) /\ \A j \in DOMAIN q : j > i => ~TakesOut(q[j], r, p)
  BY DEF Coming
<1>2. /\ Append(q, n) \in Seq(Frames) /\ DOMAIN Append(q, n) = 1 .. Len(q) + 1
      /\ \A j \in DOMAIN q : Append(q, n)[j] = q[j]
      /\ Append(q, n)[Len(q) + 1] = n /\ DOMAIN q = 1 .. Len(q) /\ Len(q) \in Nat
  OBVIOUS
<1>3. ASSUME NEW j \in DOMAIN Append(q, n), j > i
      PROVE  ~TakesOut(Append(q, n)[j], r, p)
  <2>1. CASE j = Len(q) + 1
    BY <1>2, <2>1
  <2>2. CASE j \in DOMAIN q
    BY <1>1, <1>2, <1>3, <2>2
  <2> QED
    BY <1>2, <2>1, <2>2
<1>4. i \in DOMAIN Append(q, n) /\ Append(q, n)[i] = q[i]
  BY <1>2
<1> HIDE <1>2
<1> QED
  BY <1>1, <1>3, <1>4, Zenon DEF Coming

LEMMA ComingLast ==
    ASSUME NEW q \in Seq(Frames), NEW n \in Frames, NEW r, NEW p, Brings(n, r, p)
    PROVE  Coming(Append(q, n), r, p)
<1>1. /\ Len(q) + 1 \in DOMAIN Append(q, n) /\ Append(q, n)[Len(q) + 1] = n
      /\ \A j \in DOMAIN Append(q, n) : ~(j > Len(q) + 1)
  OBVIOUS
<1> QED
  BY <1>1, Zenon DEF Coming

LEMMA CalmAppend ==
    ASSUME NEW q \in Seq(Frames), NEW n \in Frames, NEW r, NEW p,
           Calm(q, r, p), ~TakesOut(n, r, p)
    PROVE  Calm(Append(q, n), r, p)
<1>1. \A j \in DOMAIN Append(q, n) : Append(q, n)[j] = n \/ (j \in DOMAIN q /\ Append(q, n)[j] = q[j])
  OBVIOUS
<1> QED
  BY <1>1, Zenon DEF Calm

LEMMA CalmTail ==
    ASSUME NEW q \in Seq(Frames), q # <<>>, NEW r, NEW p, Calm(q, r, p)
    PROVE  Calm(Tail(q), r, p) /\ ~TakesOut(Head(q), r, p)
<1>1. \A j \in DOMAIN Tail(q) : j + 1 \in DOMAIN q /\ Tail(q)[j] = q[j + 1]
  OBVIOUS
<1>2. 1 \in DOMAIN q /\ Head(q) = q[1]
  OBVIOUS
<1> QED
  BY <1>1, <1>2, Zenon DEF Calm

LEMMA ComingTail ==
    ASSUME NEW q \in Seq(Frames), q # <<>>, NEW r, NEW p, Coming(q, r, p)
    PROVE  Coming(Tail(q), r, p) \/ (Brings(Head(q), r, p) /\ Calm(Tail(q), r, p))
<1>1. PICK i \in DOMAIN q : Brings(q[i], r, p) /\ \A j \in DOMAIN q : j > i => ~TakesOut(q[j], r, p)
  BY DEF Coming
<1>2. /\ \A j \in DOMAIN Tail(q) : j + 1 \in DOMAIN q /\ Tail(q)[j] = q[j + 1]
      /\ Head(q) = q[1]
  OBVIOUS
<1>3. CASE i = 1
  <2>1. ASSUME NEW j \in DOMAIN Tail(q)
        PROVE  ~TakesOut(Tail(q)[j], r, p)
    <3>1. j + 1 > 1
      OBVIOUS
    <3> QED
      BY <1>1, <1>2, <1>3, <3>1
  <2> QED
    BY <1>1, <1>2, <1>3, <2>1 DEF Calm
<1>4. CASE i # 1
  <2>1. i - 1 \in DOMAIN Tail(q) /\ Tail(q)[i - 1] = q[i]
    BY <1>4
  <2>2. ASSUME NEW j \in DOMAIN Tail(q), j > i - 1
        PROVE  ~TakesOut(Tail(q)[j], r, p)
    <3>1. j + 1 > i
      BY <2>2
    <3> QED
      BY <1>1, <1>2, <3>1
  <2> QED
    BY <1>1, <2>1, <2>2 DEF Coming
<1> QED
  BY <1>3, <1>4


-----------------------------------------------------------------------------
(* The notices a step of the registry leaves to be sent. *)

(* A frame by its fields. *)
LEMMA FrameIs ==
    ASSUME NEW type, NEW s, NEW r, NEW ps
    PROVE  /\ Frame(type, s, r, ps).type = type /\ Frame(type, s, r, ps).to = s
           /\ Frame(type, s, r, ps).room = r /\ Frame(type, s, r, ps).peers = ps
           /\ type \in {"PEERS", "PEER_JOINED", "PEER_LEFT", "REGISTER_FAILED"} /\ s \in Stream
              /\ r \in Room /\ ps \in SUBSET Peer => Frame(type, s, r, ps) \in Frames
  BY DEF Frame, Frames

(* Peers of streams are peers. *)
LEMMA PeersInTyped ==
    ASSUME NEW ss \in SUBSET Stream
    PROVE  PeersIn(ss) \in SUBSET Peer
  BY RendezvousConstants DEF PeersIn

(* The member list names every other peer in the room. *)
LEMMA PeersNotice ==
    ASSUME Sure, NEW s \in opened, NEW r \in Room
    PROVE  /\ Peers(s, r) \in Frames /\ Peers(s, r).to = s /\ Peers(s, r).type = "PEERS"
           /\ \A t \in members[r] : PeerOf[t] # PeerOf[s] => Brings(Peers(s, r), r, PeerOf[t])
<1> DEFINE ps == PeersIn(members[r]) \ {PeerOf[s]}
<1>1. members[r] \in SUBSET Stream /\ s \in Stream
  BY DEF Sure, Base, Typed, OneCurrent
<1>2. ps \in SUBSET Peer
  BY <1>1, PeersInTyped, Zenon
<1>3. \A t \in members[r] : PeerOf[t] # PeerOf[s] => PeerOf[t] \in ps
  BY Zenon DEF PeersIn
<1>4. Peers(s, r) = Frame("PEERS", s, r, ps)
  BY DEF Peers
<1> HIDE DEF ps
<1>5. /\ Peers(s, r) \in Frames /\ Peers(s, r).to = s /\ Peers(s, r).type = "PEERS"
      /\ Peers(s, r).room = r /\ Peers(s, r).peers = ps
  BY <1>1, <1>2, <1>4, FrameIs
<1> QED
  BY <1>3, <1>5 DEF Brings

(* A departure is about the peer of a stream that goes, to one in the room. *)
Departure(n, ss, r) ==
    /\ n \in Frames /\ n.room = r /\ n.to \in members[r]
    /\ \E u \in members[r] \cap ss : n.peers = {PeerOf[u]}

LEMMA DeparturesAre ==
    ASSUME Sure, NEW ss \in SUBSET Stream, NEW r \in Room, NEW n \in Departures(ss, r)
    PROVE  Departure(n, ss, r)
<1> DEFINE rest == members[r] \ ss
           out == PeersIn(members[r] \cap ss) \ PeersIn(rest)
<1>1. n \in {Frame("PEER_LEFT", x[1], r, {x[2]}) : x \in rest \X out}
  BY Zenon DEF Departures
<1>2. out \subseteq PeersIn(members[r] \cap ss) /\ rest = members[r] \ ss
  OBVIOUS
<1> HIDE DEF out, rest
<1> PICK x \in rest \X out : n = Frame("PEER_LEFT", x[1], r, {x[2]})
  BY <1>1, Zenon
<1> DEFINE m == x[1]
           p == x[2]
<1>3. m \in rest /\ p \in out /\ n = Frame("PEER_LEFT", m, r, {p})
  OBVIOUS
<1> HIDE DEF m, p
<1>4. PICK u \in members[r] \cap ss : p = PeerOf[u]
  BY <1>2, <1>3, Zenon DEF PeersIn
<1>5. members[r] \in SUBSET Stream
  BY DEF Sure, Base, Typed
<1>6. p \in Peer /\ m \in Stream
  BY <1>2, <1>3, <1>4, <1>5, RendezvousConstants, Zenon
<1>7. /\ n \in Frames /\ n.room = r /\ n.to = m /\ n.peers = {p}
  BY <1>3, <1>6, FrameIs
<1> QED
  BY <1>2, <1>3, <1>4, <1>7, Zenon DEF Departure

-----------------------------------------------------------------------------
(* What is still to be sent, as a step changes it. *)

(* A PEER_LEFT that waits is still about a stream that has not come back. *)
LEMMA PartingStays ==
    ASSUME Sure, NEW a \in Stream \cup Peer, NEW n \in Frames, Parting(a, n),
           live' \subseteq live, opened' = opened,
           a \in Stream => (a \in members'[n.room] => a \in members[n.room])
    PROVE  Parting(a, n)'
<1>1. CASE a \in Stream /\ n.peers = {PeerOf[a]} /\ a \in opened /\ a \notin members[n.room]
  BY <1>1, Zenon DEF Parting
<1>2. CASE /\ a \in Peer /\ n.peers = {a} /\ \E u \in opened : PeerOf[u] = a
           /\ \A t \in Stream : PeerOf[t] = a /\ Sole(t) => t \notin live
  <2>1. \A t \in Stream : PeerOf[t] = a /\ Sole(t)' => t \notin live'
    BY <1>2, Zenon DEF Sole
  <2> QED
    BY <1>2, <2>1, Zenon DEF Parting
<1> QED
  BY <1>1, <1>2, Zenon DEF Parting

(* The waiting notices stay in order when a step adds none that takes out. *)
LEMMA PartingsStay ==
    ASSUME Sure, live' \subseteq live, opened' = opened,
           \A a \in Stream \cup Peer : \A n \in todo'[a] :
              n.type = "PEER_LEFT" =>
                n \in todo[a] /\ (a \in Stream => (a \in members'[n.room] => a \in members[n.room]))
    PROVE  Partings'
<1> SUFFICES ASSUME NEW a \in Stream \cup Peer, NEW n \in todo'[a], n.type = "PEER_LEFT"
             PROVE  Parting(a, n)'
  BY Zenon DEF Partings
<1>1. n \in todo[a] /\ (a \in Stream => (a \in members'[n.room] => a \in members[n.room]))
  BY Zenon
<1>2. n \in Frames /\ Parting(a, n)
  BY <1>1, Zenon DEF Sure, Sending, Partings
<1> QED
  BY <1>1, <1>2, PartingStays, Zenon

(* Nothing a stream is told by changes. *)
LEMMA SameTold ==
    ASSUME NEW s, NEW t, NEW r, Told(s, t, r),
           AsksFor(inq[s], r) => AsksFor(inq'[s], r),
           todo'[s] = todo[s], todo'[t] = todo[t], outbox'[s] = outbox[s],
           known'[PeerOf[s]][r] = known[PeerOf[s]][r]
    PROVE  Told(s, t, r)'
  BY Zenon DEF Told

(* A waiting PEER_LEFT is never about a peer that is met. *)
LEMMA MetNotLeaving ==
    ASSUME Sure, NEW s, NEW t \in Stream, NEW r \in Room, Meets(s, t, r),
           NEW a \in Stream \cup Peer, NEW n \in todo[a]
    PROVE  ~TakesOut(n, r, PeerOf[t])
<1> SUFFICES ASSUME n.type = "PEER_LEFT", n.room = r, PeerOf[t] \in n.peers
             PROVE  FALSE
  BY Zenon DEF TakesOut
<1>1. Parting(a, n)
  BY Zenon DEF Sure, Partings
<1>2. t \in members[r] /\ Sole(t) /\ t \in live
  BY Zenon DEF Meets, Sure, Base, Typed
<1>3. CASE a \in Stream /\ n.peers = {PeerOf[a]} /\ a \in opened /\ a \notin members[n.room]
  <2>1. a \in StreamsOf(PeerOf[t]) \cap opened
    BY <1>3, Zenon DEF StreamsOf
  <2> QED
    BY <1>2, <1>3, <2>1, Zenon DEF Sole
<1>4. CASE n.peers = {a} /\ \A u \in Stream : PeerOf[u] = a /\ Sole(u) => u \notin live
  BY <1>2, <1>4, Zenon
<1> QED
  BY <1>1, <1>3, <1>4, Zenon DEF Parting

(* Emptying some queues leaves the others. *)
LEMMA EmptiedIs ==
    ASSUME Sure, NEW ss
    PROVE  /\ Emptied(outbox, ss) \in [Stream -> Seq(Frames)]
           /\ \A s \in Stream : s \in ss => Emptied(outbox, ss)[s] = <<>>
           /\ \A s \in Stream : s \notin ss => Emptied(outbox, ss)[s] = outbox[s]
<1>1. outbox \in [Stream -> Seq(Frames)] /\ <<>> \in Seq(Frames)
  BY DEF Sure, Sending
<1> QED
  BY <1>1, Zenon DEF Emptied

Kept == Sending' /\ OneCurrent' /\ Partings' /\ Learning'

-----------------------------------------------------------------------------
(* Each action keeps what its clients have been told. *)

(* A stream that closes is told nothing more, and no other hears of it. *)
LEMMA ClosesKeeps ==
    ASSUME Sure, Learning, NEW u \in Stream, Closes(u)
    PROVE  Kept
<1>1. /\ dead' = dead \cup {u} /\ cur' = [p \in Peer |-> IF cur[p] = u THEN None ELSE cur[p]]
      /\ outbox' = Emptied(outbox, {u})
      /\ live' = live /\ members' = members /\ todo' = todo /\ shut' = shut /\ inq' = inq
      /\ opened' = opened /\ joined' = joined /\ known' = known /\ unheard' = unheard
  BY DEF Closes, registry
<1>2. /\ outbox' \in [Stream -> Seq(Frames)] /\ outbox'[u] = <<>>
      /\ \A s \in Stream : s # u => outbox'[s] = outbox[s]
  BY <1>1, EmptiedIs, Zenon
<1>3. Sending'
  BY <1>1, <1>2, Zenon DEF Sure, Sending
<1>4. OneCurrent'
  <2>1. cur' \in [Peer -> Stream \cup {None}]
    BY <1>1, Zenon DEF Sure, OneCurrent
  <2>2. ASSUME NEW s \in opened, s \notin dead'
        PROVE  cur'[PeerOf[s]] = s
    <3>1. s # u /\ cur[PeerOf[s]] = s /\ PeerOf[s] \in Peer
      BY <1>1, <2>2, RendezvousConstants, Zenon DEF Sure, OneCurrent
    <3> QED
      BY <1>1, <3>1, Zenon
  <2> QED
    BY <1>1, <2>1, <2>2, Zenon DEF Sure, OneCurrent
<1>5. Partings'
  BY <1>1, PartingsStay, Zenon
<1>6. Learning'
  <2> SUFFICES ASSUME NEW s \in Stream, NEW t \in Stream, NEW r \in Room, Meets(s, t, r)'
               PROVE  Told(s, t, r)'
    BY Zenon DEF Learning
  <2>1. s # u /\ cur[PeerOf[s]] = s
    <3>1. s \notin dead' /\ cur'[PeerOf[s]] = s /\ PeerOf[s] \in Peer /\ s # None
      BY RendezvousConstants, Zenon DEF Meets
    <3> QED
      BY <1>1, <3>1, Zenon
  <2>2. Meets(s, t, r)
    BY <1>1, <2>1, Zenon DEF Meets, Sole
  <2>3. Told(s, t, r)
    BY <2>2, Zenon DEF Learning
  <2> QED
    BY <1>1, <1>2, <2>1, <2>3, SameTold, Zenon
<1> QED
  BY <1>3, <1>4, <1>5, <1>6, Zenon DEF Kept

(* A step that touches neither the registry's rooms nor what is said. *)
LEMMA StillKept ==
    ASSUME Sure, Learning, UNCHANGED <<registry, todo, outbox, inq, dead, shut, clients, bounds>>
    PROVE  Kept
<1>1. /\ live' = live /\ members' = members /\ todo' = todo /\ outbox' = outbox /\ inq' = inq
      /\ dead' = dead /\ shut' = shut /\ opened' = opened /\ cur' = cur /\ joined' = joined
      /\ known' = known /\ unheard' = unheard
  BY DEF registry, clients, bounds
<1>2. Sending'
  BY <1>1, Zenon DEF Sure, Sending
<1>3. OneCurrent'
  BY <1>1, Zenon DEF Sure, OneCurrent
<1>4. Partings'
  BY <1>1, PartingsStay, Zenon
<1>5. Learning'
  <2> SUFFICES ASSUME NEW s \in Stream, NEW t \in Stream, NEW r \in Room, Meets(s, t, r)'
               PROVE  Told(s, t, r)'
    BY Zenon DEF Learning
  <2>1. Meets(s, t, r)
    BY <1>1, Zenon DEF Meets, Sole
  <2>2. Told(s, t, r)
    BY <2>1, Zenon DEF Learning
  <2> QED
    BY <1>1, <2>2, SameTold, Zenon
<1> QED
  BY <1>2, <1>3, <1>4, <1>5, Zenon DEF Kept

(* A client asks for a room, or leaves one. *)
LEMMA RequestAdds ==
    ASSUME Sure, NEW p, NEW type \in {"REGISTER", "UNREGISTER"}, NEW r \in Room, Request(p, type, r)
    PROVE  /\ \A s \in Stream : \A q : AsksFor(inq[s], q) => AsksFor(inq'[s], q)
           /\ type = "REGISTER" /\ cur[p] \in Stream => AsksFor(inq'[cur[p]], r)
<1> DEFINE req == [type |-> type, room |-> r]
<1>1. req \in Requests /\ req.type = type /\ req.room = r /\ None \notin Stream
  BY RendezvousConstants, Zenon DEF Requests
<1>2. inq' = IF cur[p] = None THEN inq ELSE [inq EXCEPT ![cur[p]] = Append(@, req)]
  BY Zenon DEF Request
<1>3. inq \in [Stream -> Seq(Requests)]
  BY DEF Sure, Base, Typed
<1> HIDE DEF req
<1>4. ASSUME NEW s \in Stream, NEW q, AsksFor(inq[s], q)
      PROVE  AsksFor(inq'[s], q)
  <2>1. AsksFor(Append(inq[s], req), q)
    BY <1>1, <1>3, <1>4, AsksAppend, Zenon
  <2>2. inq'[s] = inq[s] \/ inq'[s] = Append(inq[s], req)
    BY <1>2, <1>3, Zenon
  <2> QED
    BY <1>4, <2>1, <2>2, Zenon
<1>5. ASSUME type = "REGISTER", cur[p] \in Stream
      PROVE  AsksFor(inq'[cur[p]], r)
  <2>1. AsksFor(Append(inq[cur[p]], req), r)
    BY <1>1, <1>3, <1>5, AsksLast
  <2>2. inq'[cur[p]] = Append(inq[cur[p]], req)
    BY <1>1, <1>2, <1>3, <1>5, Zenon
  <2> QED
    BY <2>1, <2>2, Zenon
<1> QED
  BY <1>4, <1>5, Zenon

(* A room a client joins is asked for; one it leaves it forgets. *)
LEMMA MovesKeep ==
    ASSUME Sure, Learning, NEW p, NEW q \in Room, joinRoom(p, q) \/ leaveRoom(p, q)
    PROVE  Kept
<1>1. /\ live' = live /\ members' = members /\ todo' = todo /\ outbox' = outbox
      /\ dead' = dead /\ shut' = shut /\ opened' = opened /\ cur' = cur /\ unheard' = unheard
  BY DEF registry, joinRoom, leaveRoom
<1>2. \A s \in Stream : \A r : AsksFor(inq[s], r) => AsksFor(inq'[s], r)
  <2>1. Request(p, "REGISTER", q) \/ Request(p, "UNREGISTER", q)
    BY Zenon DEF joinRoom, leaveRoom
  <2> QED
    BY <2>1, RequestAdds, Zenon
<1>3. Sending'
  BY <1>1, Zenon DEF Sure, Sending
<1>4. known \in [Peer -> [Room -> SUBSET Peer]] /\ joined \in [Peer -> SUBSET Room]
  BY DEF Sure, OneCurrent, Base, Typed
<1>5. known' \in [Peer -> [Room -> SUBSET Peer]]
  <2>1. CASE known' = known
    BY <1>4, <2>1
  <2>2. CASE known' = [known EXCEPT ![p][q] = {}]
    <3>1. known' = [known EXCEPT ![p] = [known[p] EXCEPT ![q] = {}]]
      BY <2>2
    <3>2. p \in Peer => [known[p] EXCEPT ![q] = {}] \in [Room -> SUBSET Peer]
      BY <1>4
    <3> QED
      BY <1>4, <3>1, <3>2, Zenon
  <2> QED
    BY <2>1, <2>2 DEF joinRoom, leaveRoom
<1>6. OneCurrent'
  BY <1>1, <1>5, Zenon DEF Sure, OneCurrent
<1>7. Partings'
  BY <1>1, PartingsStay, Zenon
<1>8. Learning'
  <2> SUFFICES ASSUME NEW s \in Stream, NEW t \in Stream, NEW r \in Room, Meets(s, t, r)'
               PROVE  Told(s, t, r)'
    BY Zenon DEF Learning
  <2>1. /\ cur[PeerOf[s]] = s /\ PeerOf[s] \in Peer /\ r \in joined'[PeerOf[s]]
    BY <1>1, RendezvousConstants, Zenon DEF Meets
  <2>2. ASSUME r \in joined[PeerOf[s]], known'[PeerOf[s]][r] = known[PeerOf[s]][r]
        PROVE  Told(s, t, r)'
    <3>1. Meets(s, t, r)
      BY <1>1, <2>2, Zenon DEF Meets, Sole
    <3>2. Told(s, t, r)
      BY <3>1, Zenon DEF Learning
    <3> QED
      BY <1>1, <1>2, <2>2, <3>2, SameTold, Zenon
  <2>3. CASE joinRoom(p, q)
    <3>1. known' = known /\ joined' = [joined EXCEPT ![p] = joined[p] \cup {q}] /\ Request(p, "REGISTER", q)
      BY <2>3 DEF joinRoom
    <3>2. CASE p = PeerOf[s] /\ q = r
      <4>1. AsksFor(inq'[s], r)
        BY <2>1, <3>1, <3>2, RequestAdds, Zenon
      <4> QED
        BY <4>1, Zenon DEF Told
    <3>3. CASE ~(p = PeerOf[s] /\ q = r)
      <4>1. r \in joined[PeerOf[s]]
        BY <1>4, <2>1, <3>1, <3>3, Zenon
      <4> QED
        BY <2>2, <3>1, <4>1, Zenon
    <3> QED
      BY <3>2, <3>3, Zenon
  <2>4. CASE leaveRoom(p, q)
    <3>1. known' = [known EXCEPT ![p][q] = {}] /\ joined' = [joined EXCEPT ![p] = joined[p] \ {q}]
      BY <2>4 DEF leaveRoom
    <3>2. r \in joined[PeerOf[s]] /\ ~(p = PeerOf[s] /\ q = r)
      BY <1>4, <2>1, <3>1, Zenon
    <3>3. known'[PeerOf[s]][r] = known[PeerOf[s]][r]
      BY <1>4, <2>1, <3>1, <3>2, Zenon
    <3> QED
      BY <2>2, <3>2, <3>3, Zenon
  <2> QED
    BY <2>3, <2>4, Zenon
<1> QED
  BY <1>3, <1>6, <1>7, <1>8, Zenon DEF Kept

(* What a frame does to what the client knows of a room. *)
Heard(m, p, now) ==
    CASE m.type \in {"PEERS", "PEER_JOINED"} -> now \cup (m.peers \ {p})
      [] m.type = "PEER_LEFT" -> now \ m.peers
      [] OTHER -> now

LEMMA HeardIs ==
    ASSUME NEW m \in Frames, NEW p, NEW now \in SUBSET Peer
    PROVE  /\ Heard(m, p, now) \in SUBSET Peer
           /\ \A q : Brings(m, m.room, q) /\ q # p => q \in Heard(m, p, now)
           /\ \A q \in now : ~TakesOut(m, m.room, q) => q \in Heard(m, p, now)
<1>1. m.type \in {"PEERS", "PEER_JOINED", "PEER_LEFT", "REGISTER_FAILED"} /\ m.peers \in SUBSET Peer
  BY DEF Frames
<1>2. CASE m.type \in {"PEERS", "PEER_JOINED"}
  BY <1>1, <1>2 DEF Heard, Brings, TakesOut
<1>3. CASE m.type = "PEER_LEFT"
  BY <1>1, <1>3 DEF Heard, Brings, TakesOut
<1>4. CASE m.type = "REGISTER_FAILED"
  BY <1>1, <1>4 DEF Heard, Brings, TakesOut
<1> QED
  BY <1>1, <1>2, <1>3, <1>4, Zenon

(* A client hears the next frame: a peer it brings stays unless a later one
   takes it out. *)
LEMMA HandleKeeps ==
    ASSUME Sure, Learning, NEW u \in Stream, handleRendezvousMsg(u)
    PROVE  Kept
<1> DEFINE m == Head(outbox[u])
           p == PeerOf[u]
           v == Heard(m, p, known[p][m.room])
<1>1. /\ live' = live /\ members' = members /\ todo' = todo /\ inq' = inq
      /\ dead' = dead /\ shut' = shut /\ opened' = opened /\ cur' = cur /\ joined' = joined
      /\ unheard' = unheard
  BY Zenon DEF registry, bounds, handleRendezvousMsg
<1>2. /\ u \notin dead /\ outbox[u] # <<>>
      /\ outbox' = [outbox EXCEPT ![u] = Tail(outbox[u])]
      /\ known' = [known EXCEPT ![p][m.room] = v]
  BY Zenon DEF handleRendezvousMsg, Heard
<1>3. /\ outbox \in [Stream -> Seq(Frames)] /\ outbox[u] \in Seq(Frames) /\ u \in opened
      /\ known \in [Peer -> [Room -> SUBSET Peer]] /\ p \in Peer /\ cur[p] = u
  <2>1. p \in Peer
    BY RendezvousConstants
  <2> QED
    BY <1>2, <2>1, Zenon DEF Sure, Sending, OneCurrent
<1>4. m \in Frames /\ Tail(outbox[u]) \in Seq(Frames)
  BY <1>2, <1>3
<1>5. m.room \in Room /\ known[p][m.room] \in SUBSET Peer
  BY <1>3, <1>4, ZenonT(60) DEF Frames
<1>6. /\ v \in SUBSET Peer
      /\ \A q : Brings(m, m.room, q) /\ q # p => q \in v
      /\ \A q \in known[p][m.room] : ~TakesOut(m, m.room, q) => q \in v
  BY <1>4, <1>5, HeardIs, Zenon
<1> HIDE DEF m, v
<1>7. /\ outbox' \in [Stream -> Seq(Frames)] /\ outbox'[u] = Tail(outbox[u])
      /\ \A s \in Stream : s # u => outbox'[s] = outbox[s]
  BY <1>2, <1>3, <1>4, Zenon
<1>8. Sending'
  <2>1. \A s \in Stream : outbox'[s] # <<>> => s \in opened
    BY <1>3, <1>7, Zenon DEF Sure, Sending
  <2> QED
    BY <1>1, <1>7, <2>1, Zenon DEF Sure, Sending
<1>9. /\ known' \in [Peer -> [Room -> SUBSET Peer]] /\ known'[p][m.room] = v
      /\ \A x \in Peer, y \in Room : ~(x = p /\ y = m.room) => known'[x][y] = known[x][y]
  <2> DEFINE row == [known[p] EXCEPT ![m.room] = v]
  <2>1. known' = [known EXCEPT ![p] = row]
    BY <1>2
  <2>2. /\ row \in [Room -> SUBSET Peer] /\ row[m.room] = v
        /\ \A y \in Room : y # m.room => row[y] = known[p][y]
    BY <1>3, <1>5, <1>6, Zenon
  <2> HIDE DEF row
  <2> QED
    BY <1>3, <2>1, <2>2, Zenon
<1>10. OneCurrent'
  BY <1>1, <1>9, Zenon DEF Sure, OneCurrent
<1>11. Partings'
  BY <1>1, PartingsStay, Zenon
<1>12. Learning'
  <2> SUFFICES ASSUME NEW s \in Stream, NEW t \in Stream, NEW r \in Room, Meets(s, t, r)'
               PROVE  Told(s, t, r)'
    BY Zenon DEF Learning
  <2> DEFINE q == PeerOf[t]
  <2>1. Meets(s, t, r)
    BY <1>1, Zenon DEF Meets, Sole
  <2>2. Told(s, t, r) /\ PeerOf[s] # q /\ cur[PeerOf[s]] = s /\ PeerOf[s] \in Peer
    BY <2>1, RendezvousConstants, Zenon DEF Learning, Meets
  <2>3. CASE PeerOf[s] # p
    <3>1. s # u /\ known'[PeerOf[s]][r] = known[PeerOf[s]][r]
      BY <1>9, <2>2, <2>3, Zenon
    <3> QED
      BY <1>1, <1>7, <2>2, <3>1, SameTold, Zenon
  <2>4. CASE PeerOf[s] = p
    <3>1. s = u
      BY <1>3, <2>2, <2>4, Zenon
    <3>2. CASE Coming(outbox[u], r, q)
      <4>1. Coming(Tail(outbox[u]), r, q) \/ (Brings(m, r, q) /\ Calm(Tail(outbox[u]), r, q))
        BY <1>2, <1>3, <3>2, ComingTail, Zenon DEF m
      <4>2. CASE Coming(Tail(outbox[u]), r, q)
        BY <1>7, <3>1, <4>2, Zenon DEF Told
      <4>3. CASE Brings(m, r, q) /\ Calm(Tail(outbox[u]), r, q)
        <5>1. m.room = r
          BY <4>3, Zenon DEF Brings
        <5>2. q \in known'[p][r]
          BY <1>6, <1>9, <2>2, <2>4, <4>3, <5>1, Zenon
        <5> QED
          BY <1>7, <2>4, <3>1, <4>3, <5>2, Zenon DEF Told
      <4> QED
        BY <4>1, <4>2, <4>3, Zenon
    <3>3. CASE q \in known[p][r] /\ Calm(outbox[u], r, q)
      <4>1. Calm(Tail(outbox[u]), r, q) /\ ~TakesOut(m, r, q)
        BY <1>2, <1>3, <3>3, CalmTail, Zenon DEF m
      <4>2. q \in known'[p][r]
        <5>1. CASE m.room = r
          BY <1>6, <1>9, <3>3, <4>1, <5>1, Zenon
        <5>2. CASE m.room # r
          BY <1>3, <1>9, <3>3, <5>2, Zenon
        <5> QED
          BY <5>1, <5>2, Zenon
      <4> QED
        BY <1>7, <2>4, <3>1, <4>1, <4>2, Zenon DEF Told
    <3>4. CASE AsksFor(inq[s], r) \/ Due(todo[s], s, r, q) \/ Due(todo[t], s, r, q)
      BY <1>1, <3>4, Zenon DEF Told
    <3> QED
      BY <2>2, <2>4, <3>1, <3>2, <3>3, <3>4, Zenon DEF Told
  <2> QED
    BY <2>3, <2>4, Zenon
<1> QED
  BY <1>8, <1>10, <1>11, <1>12, Zenon DEF Kept

(* A notice that is sent is the next word its stream hears. *)
LEMMA SendKeeps ==
    ASSUME Sure, Learning, NEW a \in Stream \cup Peer, NEW n, Send(a, n)
    PROVE  Kept
<1>1. /\ live' = live /\ members' = members /\ inq' = inq /\ dead' = dead /\ opened' = opened
      /\ cur' = cur /\ joined' = joined /\ known' = known /\ unheard' = unheard
  BY Zenon DEF registry, bounds, clients, Send
<1>2. n \in todo[a] /\ todo' = [todo EXCEPT ![a] = todo[a] \ {n}]
  BY Zenon DEF Send
<1>3. /\ todo \in [Stream \cup Peer -> SUBSET Frames] /\ outbox \in [Stream -> Seq(Frames)]
      /\ n.to \in opened /\ n \in Frames /\ opened \in SUBSET Stream
  BY <1>2, Zenon DEF Sure, Sending, OneCurrent
<1>4. /\ todo' \in [Stream \cup Peer -> SUBSET Frames] /\ todo'[a] = todo[a] \ {n}
      /\ \A b \in Stream \cup Peer : b # a => todo'[b] = todo[b]
  BY <1>2, <1>3, Zenon
<1>5. \A b \in Stream \cup Peer : todo'[b] \subseteq todo[b]
  BY <1>4, Zenon
<1>6. \/ shut' = shut /\ outbox' = outbox /\ n.to \in shut \cup dead
      \/ shut' = shut \cup {n.to} /\ outbox' = Emptied(outbox, {n.to})
      \/ shut' = shut /\ outbox' = [outbox EXCEPT ![n.to] = Append(outbox[n.to], n)]
  BY Zenon DEF Send
<1>7. outbox[n.to] \in Seq(Frames) /\ Append(outbox[n.to], n) \in Seq(Frames)
  BY <1>3
<1>8. /\ outbox' \in [Stream -> Seq(Frames)]
      /\ \A s \in Stream : s # n.to => outbox'[s] = outbox[s]
  <2>1. CASE outbox' = outbox
    BY <1>3, <2>1, Zenon
  <2>2. CASE outbox' = Emptied(outbox, {n.to})
    BY <2>2, EmptiedIs, Zenon
  <2>3. CASE outbox' = [outbox EXCEPT ![n.to] = Append(outbox[n.to], n)]
    BY <1>3, <1>7, <2>3, Zenon
  <2> QED
    BY <1>6, <2>1, <2>2, <2>3, Zenon
<1>9. Sending'
  <2>1. \A s \in Stream : outbox'[s] # <<>> => s \in opened
    BY <1>3, <1>8, Zenon DEF Sure, Sending
  <2>2. \A b \in Stream \cup Peer : \A k \in todo'[b] : k.to \in opened
    BY <1>5, Zenon DEF Sure, Sending
  <2> QED
    BY <1>1, <1>4, <1>8, <2>1, <2>2, Zenon DEF Sending
<1>10. OneCurrent'
  BY <1>1, Zenon DEF Sure, OneCurrent
<1>11. Partings'
  BY <1>1, <1>5, PartingsStay, Zenon
<1>12. Learning'
  <2> SUFFICES ASSUME NEW s \in Stream, NEW t \in Stream, NEW r \in Room, Meets(s, t, r)'
               PROVE  Told(s, t, r)'
    BY Zenon DEF Learning
  <2> DEFINE q == PeerOf[t]
  <2>1. Meets(s, t, r)
    BY <1>1, <1>6, Zenon DEF Meets, Sole
  <2>2. Told(s, t, r) /\ s \notin dead /\ s \notin shut' /\ s \notin shut
    BY <1>1, <2>1, Zenon DEF Learning, Meets
  <2>3. s \in Stream \cup Peer /\ t \in Stream \cup Peer
    OBVIOUS
  <2>4. CASE s # n.to
    <3>1. \A b \in Stream \cup Peer : Due(todo[b], s, r, q) => Due(todo'[b], s, r, q)
      BY <1>4, <2>4, Zenon DEF Due
    <3>2. outbox'[s] = outbox[s]
      BY <1>8, <2>4, Zenon
    <3> QED
      BY <1>1, <2>2, <2>3, <3>1, <3>2, Zenon DEF Told
  <2>5. CASE s = n.to
    <3>1. ~TakesOut(n, r, q)
      BY <1>2, <2>1, MetNotLeaving, Zenon
    <3>2. outbox'[s] = Append(outbox[s], n)
      BY <1>3, <1>6, <2>2, <2>5, Zenon
    <3>3. CASE Brings(n, r, q)
      <4>1. Coming(outbox'[s], r, q)
        BY <1>3, <1>7, <2>5, <3>2, <3>3, ComingLast, Zenon
      <4> QED
        BY <4>1, Zenon DEF Told
    <3>4. CASE ~Brings(n, r, q)
      <4>1. \A b \in Stream \cup Peer : Due(todo[b], s, r, q) => Due(todo'[b], s, r, q)
        BY <1>4, <3>4, Zenon DEF Due
      <4>2. Coming(outbox[s], r, q) => Coming(outbox'[s], r, q)
        BY <1>3, <1>7, <2>5, <3>1, <3>2, ComingAppend, Zenon
      <4>3. Calm(outbox[s], r, q) => Calm(outbox'[s], r, q)
        BY <1>3, <1>7, <2>5, <3>1, <3>2, CalmAppend, Zenon
      <4> QED
        BY <1>1, <2>2, <2>3, <4>1, <4>2, <4>3, Zenon DEF Told
    <3> QED
      BY <3>3, <3>4, Zenon
  <2> QED
    BY <2>4, <2>5, Zenon
<1> QED
  BY <1>9, <1>10, <1>11, <1>12, Zenon DEF Kept

-----------------------------------------------------------------------------
(* The read loop. *)

(* What a step of the registry may do to the notices of one goroutine: it
   had none, and gets some that go to streams that were opened. *)
Notices(a, ns) ==
    /\ a \in Stream \cup Peer /\ todo' = [todo EXCEPT ![a] = ns]
    /\ ns \in SUBSET Frames /\ \A n \in ns : n.to \in opened

LEMMA NoticesIs ==
    ASSUME Sure, NEW a, NEW ns, Notices(a, ns)
    PROVE  /\ todo' \in [Stream \cup Peer -> SUBSET Frames] /\ todo'[a] = ns
           /\ \A b \in Stream \cup Peer : b # a => todo'[b] = todo[b]
           /\ \A b \in Stream \cup Peer : \A n \in todo'[b] : n.to \in opened
<1>1. todo \in [Stream \cup Peer -> SUBSET Frames]
  BY DEF Sure, Sending
<1>2. /\ todo' \in [Stream \cup Peer -> SUBSET Frames] /\ todo'[a] = ns
      /\ \A b \in Stream \cup Peer : b # a => todo'[b] = todo[b]
  BY <1>1, Zenon DEF Notices
<1> QED
  BY <1>2, Zenon DEF Sure, Sending, Notices

(* Notices with no PEER_LEFT among them bring none. *)
LEMMA NoticesKept ==
    ASSUME Sure, NEW u, NEW ns, Notices(u, ns), \A m \in ns : m.type # "PEER_LEFT",
           NEW a \in Stream \cup Peer, NEW n \in todo'[a], n.type = "PEER_LEFT"
    PROVE  n \in todo[a] /\ a # u
<1>1. todo'[u] = ns /\ (a # u => todo'[a] = todo[a])
  BY NoticesIs, Zenon
<1>2. a # u
  BY <1>1, Zenon
<1> QED
  BY <1>1, <1>2, Zenon

(* The step of a read loop leaves all but its own request and notices. *)
LEMMA ReadingIs ==
    ASSUME Sure, NEW u \in Stream, Reading(u)
    PROVE  /\ u \in opened /\ todo[u] = {} /\ Head(inq[u]) \in Requests
           /\ outbox' = outbox /\ dead' = dead /\ shut' = shut
           /\ opened' = opened /\ cur' = cur /\ joined' = joined /\ known' = known
           /\ \A s \in Stream : s # u => inq'[s] = inq[s]
           /\ \A r : AsksFor(inq[u], r) /\ ~(Head(inq[u]).type = "REGISTER" /\ Head(inq[u]).room = r)
                => AsksFor(inq'[u], r)
<1>1. /\ u \in opened /\ todo[u] = {} /\ inq[u] # <<>> /\ inq' = [inq EXCEPT ![u] = Tail(inq[u])]
      /\ outbox' = outbox /\ dead' = dead /\ shut' = shut
      /\ opened' = opened /\ cur' = cur /\ joined' = joined /\ known' = known
  BY Zenon DEF Reading, clients
<1>2. inq \in [Stream -> Seq(Requests)] /\ inq[u] \in Seq(Requests)
  BY DEF Sure, Base, Typed
<1>3. Head(inq[u]) \in Requests
  BY <1>1, <1>2
<1>4. inq'[u] = Tail(inq[u]) /\ \A s \in Stream : s # u => inq'[s] = inq[s]
  BY <1>1, <1>2, Zenon
<1>5. ASSUME NEW r, AsksFor(inq[u], r), ~(Head(inq[u]).type = "REGISTER" /\ Head(inq[u]).room = r)
      PROVE  AsksFor(inq'[u], r)
  BY <1>1, <1>2, <1>4, <1>5, AsksTail, Zenon
<1> QED
  BY <1>1, <1>3, <1>4, <1>5, Zenon

(* Of what a stream is told, the step of another's read loop takes nothing. *)
LEMMA ReadTold ==
    ASSUME Sure, NEW u \in Stream, Reading(u), NEW ns, todo' = todo \/ Notices(u, ns),
           NEW s \in Stream, NEW t \in Stream, NEW r, Told(s, t, r),
           u = s => ~(Head(inq[u]).type = "REGISTER" /\ Head(inq[u]).room = r)
    PROVE  Told(s, t, r)'
<1>1. AsksFor(inq[s], r) => AsksFor(inq'[s], r)
  BY ReadingIs, Zenon
<1>2. ASSUME NEW b \in Stream, Due(todo[b], s, r, PeerOf[t])
      PROVE  Due(todo'[b], s, r, PeerOf[t])
  <2>1. b # u
    BY <1>2, ReadingIs, Zenon DEF Due
  <2>2. todo'[b] = todo[b]
    BY <2>1, NoticesIs, Zenon
  <2> QED
    BY <1>2, <2>2, Zenon
<1>3. outbox' = outbox /\ known' = known
  BY ReadingIs, Zenon
<1> QED
  BY <1>1, <1>2, <1>3, Zenon DEF Told

(* A refused request changes nothing but what was asked for. *)
LEMMA RefusedKeeps ==
    ASSUME Sure, Learning, NEW u \in Stream, Refused(u)
    PROVE  Kept
<1> DEFINE req == Head(inq[u])
           ns == {Frame("REGISTER_FAILED", u, req.room, {})}
<1>1. /\ Reading(u) /\ UNCHANGED registry
      /\ unheard' = unheard \cup (IF req.type = "REGISTER" THEN {<<u, req.room>>} ELSE {})
      /\ todo' = todo \/ todo' = [todo EXCEPT ![u] = ns]
  BY Zenon DEF Refused
<1>2. /\ live' = live /\ members' = members
      /\ u \in opened /\ todo[u] = {} /\ req \in Requests
      /\ outbox' = outbox /\ dead' = dead /\ shut' = shut
      /\ opened' = opened /\ cur' = cur /\ joined' = joined /\ known' = known
  BY <1>1, ReadingIs, Zenon DEF registry
<1>3. req.room \in Room
  BY <1>2 DEF Requests
<1> HIDE DEF req
<1>4. /\ ns \in SUBSET Frames /\ \A n \in ns : n.to \in opened /\ n.type = "REGISTER_FAILED"
  BY <1>2, <1>3, FrameIs
<1> HIDE DEF ns
<1>5. todo' = todo \/ Notices(u, ns)
  BY <1>1, <1>4, Zenon DEF Notices
<1>6. Sending'
  <2>1. /\ todo' \in [Stream \cup Peer -> SUBSET Frames]
        /\ \A b \in Stream \cup Peer : \A n \in todo'[b] : n.to \in opened
    BY <1>5, NoticesIs, Zenon DEF Sure, Sending
  <2> QED
    BY <1>2, <2>1, Zenon DEF Sure, Sending
<1>7. OneCurrent'
  BY <1>2, Zenon DEF Sure, OneCurrent
<1>8. Partings'
  <2>1. ASSUME NEW a \in Stream \cup Peer, NEW n \in todo'[a], n.type = "PEER_LEFT"
        PROVE  n \in todo[a]
    <3>1. "PEER_LEFT" # "REGISTER_FAILED"
      OBVIOUS
    <3>2. CASE todo' = todo
      BY <3>2, Zenon
    <3>3. CASE Notices(u, ns)
      BY <1>4, <2>1, <3>1, <3>3, NoticesIs, Zenon
    <3> QED
      BY <1>5, <3>2, <3>3, Zenon
  <2> QED
    BY <1>2, <2>1, PartingsStay, Zenon
<1>9. Learning'
  <2> SUFFICES ASSUME NEW s \in Stream, NEW t \in Stream, NEW r \in Room, Meets(s, t, r)'
               PROVE  Told(s, t, r)'
    BY Zenon DEF Learning
  <2>1. <<s, r>> \notin unheard'
    BY Zenon DEF Meets
  <2>2. <<s, r>> \notin unheard /\ (u = s => ~(req.type = "REGISTER" /\ req.room = r))
    BY <1>1, <2>1
  <2>3. Meets(s, t, r)
    BY <1>2, <2>2, Zenon DEF Meets, Sole
  <2>4. Told(s, t, r)
    BY <2>3, Zenon DEF Learning
  <2> QED
    BY <1>1, <1>5, <2>2, <2>4, ReadTold, Zenon DEF req
<1> QED
  BY <1>6, <1>7, <1>8, <1>9, Zenon DEF Kept

(* A step of a read loop writes to no stream and changes no client. *)
LEMMA ReadingKeeps ==
    ASSUME Sure, NEW u \in Stream, Reading(u), NEW ns, todo' = todo \/ Notices(u, ns)
    PROVE  Sending' /\ OneCurrent'
<1>1. /\ outbox' = outbox /\ dead' = dead /\ opened' = opened /\ cur' = cur /\ known' = known
  BY ReadingIs, Zenon
<1>2. /\ todo' \in [Stream \cup Peer -> SUBSET Frames]
      /\ \A b \in Stream \cup Peer : \A n \in todo'[b] : n.to \in opened
  BY NoticesIs, Zenon DEF Sure, Sending
<1>3. Sending'
  BY <1>1, <1>2, Zenon DEF Sure, Sending
<1>4. OneCurrent'
  BY <1>1, Zenon DEF Sure, OneCurrent
<1> QED
  BY <1>3, <1>4

(* A REGISTER leaves no PEER_LEFT to send. *)
LEMMA RegisterPartings ==
    ASSUME Sure, NEW u \in Stream, Reading(u), NEW ns, todo' = todo \/ Notices(u, ns),
           \A n \in ns : n.type # "PEER_LEFT", live' = live,
           \A r \in Room : members'[r] = members[r] \/ members'[r] = members[r] \cup {u}
    PROVE  Partings'
<1>1. opened' = opened /\ todo[u] = {}
  BY ReadingIs, Zenon
<1>2. ASSUME NEW a \in Stream \cup Peer, NEW n \in todo'[a], n.type = "PEER_LEFT"
      PROVE  n \in todo[a] /\ a # u
  <2>1. CASE todo' = todo
    <3>1. n \in todo[a]
      BY <2>1, Zenon
    <3> QED
      BY <1>1, <3>1, Zenon
  <2>2. CASE Notices(u, ns)
    BY <1>2, <2>2, NoticesKept, Zenon
  <2> QED
    BY <2>1, <2>2, Zenon
<1>3. ASSUME NEW a \in Stream \cup Peer, NEW n \in todo[a], a # u
      PROVE  a \in members'[n.room] => a \in members[n.room]
  <2>1. n.room \in Room
    BY DEF Sure, Sending, Frames
  <2> QED
    BY <1>3, <2>1, Zenon
<1>4. \A a \in Stream \cup Peer : \A n \in todo'[a] :
         n.type = "PEER_LEFT" =>
           n \in todo[a] /\ (a \in Stream => (a \in members'[n.room] => a \in members[n.room]))
  BY <1>2, <1>3, Zenon
<1> QED
  BY <1>1, <1>4, PartingsStay, Zenon

(* What a REGISTER leaves to be sent. *)
Answers(u, r, ns) ==
    /\ \A n \in ns : n \in Frames /\ n.to \in opened /\ n.type # "PEER_LEFT"
    /\ \A t \in Stream : u \in members'[r] /\ t \in members[r] /\ PeerOf[t] # PeerOf[u]
          => Due(ns, u, r, PeerOf[t])
    /\ \A s \in Stream : /\ s \in members[r] /\ PeerOf[s] # PeerOf[u] /\ Sole(u)
                         /\ u \notin members[r] /\ u \in members'[r]
          => Due(ns, s, r, PeerOf[u])

(* The member list to the stream that asks again. *)
LEMMA AgainAnswers ==
    ASSUME Sure, NEW u \in opened, NEW r \in Room, u \in members[r], members' = members
    PROVE  Answers(u, r, {Peers(u, r)})
<1> DEFINE f == Peers(u, r)
<1>1. /\ f \in Frames /\ f.to = u /\ f.type = "PEERS"
      /\ \A t \in members[r] : PeerOf[t] # PeerOf[u] => Brings(f, r, PeerOf[t])
  BY PeersNotice, Zenon
<1>2. "PEERS" # "PEER_LEFT"
  BY Zenon
<1> HIDE DEF f
<1> QED
  BY <1>1, <1>2, Zenon DEF Answers, Due, f

(* The refusal of a cap. *)
LEMMA CappedAnswers ==
    ASSUME Sure, NEW u \in opened, NEW r \in Room, u \notin members[r], members' = members
    PROVE  Answers(u, r, {Frame("REGISTER_FAILED", u, r, {})})
<1> DEFINE f == Frame("REGISTER_FAILED", u, r, {})
<1>1. u \in Stream /\ {} \in SUBSET Peer
  BY Zenon DEF Sure, OneCurrent
<1>2. f \in Frames /\ f.to = u /\ f.type = "REGISTER_FAILED"
  BY <1>1, FrameIs
<1>3. "REGISTER_FAILED" # "PEER_LEFT"
  OBVIOUS
<1> HIDE DEF f
<1> QED
  BY <1>2, <1>3, Zenon DEF Answers, f

(* The member list to the one who joins, and the news to the others. *)
LEMMA JoinAnswers ==
    ASSUME Sure, NEW u \in opened, NEW r \in Room, u \notin members[r], registerNew(u, r)
    PROVE  \E ns : todo' = [todo EXCEPT ![u] = ns] /\ Answers(u, r, ns)
<1> DEFINE p == PeerOf[u]
           f == Peers(u, r)
           others == {m \in members[r] : PeerOf[m] # p}
           news == IF p \notin PeersIn(members[r]) THEN {Frame("PEER_JOINED", m, r, {p}) : m \in others} ELSE {}
           ns == {f} \cup news
<1>1. todo' = [todo EXCEPT ![u] = ns]
  BY Zenon DEF registerNew
<1>2. /\ f \in Frames /\ f.to = u /\ f.type = "PEERS"
      /\ \A t \in members[r] : PeerOf[t] # PeerOf[u] => Brings(f, r, PeerOf[t])
  BY PeersNotice, Zenon
<1>3. /\ u \in Stream /\ p \in Peer /\ {p} \in SUBSET Peer
      /\ members[r] \in SUBSET Stream /\ members[r] \subseteq opened
  BY RendezvousConstants DEF Sure, OneCurrent, Base, Typed
<1>4. ASSUME NEW m \in members[r]
      PROVE  /\ Frame("PEER_JOINED", m, r, {p}) \in Frames
             /\ Frame("PEER_JOINED", m, r, {p}).to = m
             /\ Frame("PEER_JOINED", m, r, {p}).type = "PEER_JOINED"
             /\ Brings(Frame("PEER_JOINED", m, r, {p}), r, p)
  <2> DEFINE g == Frame("PEER_JOINED", m, r, {p})
  <2>1. g \in Frames /\ g.to = m /\ g.type = "PEER_JOINED" /\ g.room = r /\ g.peers = {p}
    BY <1>3, FrameIs
  <2> HIDE DEF g
  <2>2. Brings(g, r, p)
    BY <2>1 DEF Brings
  <2> QED
    BY <2>1, <2>2, Zenon DEF g
<1>5. ASSUME NEW n \in ns
      PROVE  n \in Frames /\ n.to \in opened /\ n.type # "PEER_LEFT"
  <2>1. "PEERS" # "PEER_LEFT" /\ "PEER_JOINED" # "PEER_LEFT"
    BY Zenon
  <2>2. CASE n = f
    BY <1>2, <2>1, <2>2, Zenon
  <2>3. CASE n # f
    <3>1. PICK m \in others : n = Frame("PEER_JOINED", m, r, {p})
      BY <2>3, Zenon
    <3> QED
      BY <1>3, <1>4, <2>1, <3>1, Zenon
  <2> QED
    BY <2>2, <2>3, Zenon
<1>6. ASSUME NEW t \in members[r], PeerOf[t] # PeerOf[u]
      PROVE  Due(ns, u, r, PeerOf[t])
  BY <1>2, <1>6, Zenon DEF Due
<1>7. ASSUME NEW s \in members[r], PeerOf[s] # PeerOf[u], Sole(u)
      PROVE  Due(ns, s, r, PeerOf[u])
  <2>1. p \notin PeersIn(members[r])
    <3>1. ASSUME NEW v \in members[r], PeerOf[v] = p
          PROVE  FALSE
      <4>1. v \in StreamsOf(p) \cap opened
        BY <1>3, <3>1, Zenon DEF StreamsOf
      <4> QED
        BY <1>7, <3>1, <4>1 DEF Sole
    <3> QED
      BY <3>1, Zenon DEF PeersIn
  <2>2. Frame("PEER_JOINED", s, r, {p}) \in ns
    BY <1>7, <2>1, Zenon
  <2> HIDE DEF ns
  <2> QED
    BY <1>4, <2>2, Zenon DEF Due
<1> HIDE DEF ns
<1>8. Answers(u, r, ns)
  BY <1>5, <1>6, <1>7, Zenon DEF Answers
<1> QED
  BY <1>1, <1>8, Zenon

(* A REGISTER that is read: whoever asks is told, and whoever is there is
   told of a stream that is its peer's only one. *)
LEMMA RegisterKeeps ==
    ASSUME Sure, Learning, NEW u \in Stream, Reading(u), NEW r0 \in Room,
           Head(inq[u]).type = "REGISTER", Head(inq[u]).room = r0,
           unheard' = unheard \ {<<u, r0>>}, live' = live,
           \A r \in Room : r # r0 => members'[r] = members[r],
           members'[r0] = members[r0] \/ members'[r0] = members[r0] \cup {u},
           NEW ns, Answers(u, r0, ns),
           \/ todo' = [todo EXCEPT ![u] = ns]
           \/ todo' = todo /\ u \notin members'[r0]
    PROVE  Kept
<1>1. /\ outbox' = outbox /\ dead' = dead /\ shut' = shut /\ opened' = opened /\ cur' = cur
      /\ joined' = joined /\ known' = known
  BY ReadingIs, Zenon
<1>2. ns \in SUBSET Frames /\ (\A n \in ns : n.to \in opened) /\ \A n \in ns : n.type # "PEER_LEFT"
  BY Zenon DEF Answers
<1>3. todo' = todo \/ Notices(u, ns)
  BY <1>2, Zenon DEF Notices
<1>4. Sending' /\ OneCurrent'
  BY <1>3, ReadingKeeps, Zenon
<1>5. Partings'
  <2>1. \A r \in Room : members'[r] = members[r] \/ members'[r] = members[r] \cup {u}
    BY Zenon
  <2> QED
    BY <1>2, <1>3, <2>1, RegisterPartings, Zenon
<1>6. Learning'
  <2> SUFFICES ASSUME NEW s \in Stream, NEW t \in Stream, NEW r \in Room, Meets(s, t, r)'
               PROVE  Told(s, t, r)'
    BY Zenon DEF Learning
  <2>1. /\ s \in members'[r] /\ t \in members'[r] /\ PeerOf[s] # PeerOf[t]
        /\ s \notin dead /\ s \notin shut /\ cur[PeerOf[s]] = s
        /\ r \in joined[PeerOf[s]] /\ <<s, r>> \notin unheard' /\ Sole(t)
    BY <1>1, Zenon DEF Meets, Sole
  <2>2. ASSUME u \in members'[r0]
        PROVE  todo'[u] = ns
    BY <1>2, <2>2, NoticesIs, Zenon DEF Notices
  <2>3. CASE s = u /\ r = r0
    <3>1. t \in members[r]
      BY <2>1, <2>3, Zenon
    <3>2. Due(ns, u, r, PeerOf[t])
      BY <2>1, <2>3, <3>1, Zenon DEF Answers
    <3>3. todo'[u] = ns
      BY <2>1, <2>2, <2>3, Zenon
    <3> QED
      BY <2>3, <3>2, <3>3, Zenon DEF Told
  <2>4. CASE t = u /\ r = r0 /\ u \notin members[r0]
    <3>1. s \in members[r] /\ s # u
      BY <2>1, <2>4, Zenon
    <3>2. Due(ns, s, r, PeerOf[u])
      BY <2>1, <2>4, <3>1, Zenon DEF Answers
    <3>3. todo'[u] = ns
      BY <2>1, <2>2, <2>4, Zenon
    <3> QED
      BY <2>4, <3>2, <3>3, Zenon DEF Told
  <2>5. CASE ~(s = u /\ r = r0) /\ ~(t = u /\ r = r0 /\ u \notin members[r0])
    <3>1. s \in members[r] /\ t \in members[r] /\ <<s, r>> \notin unheard
      BY <2>1, <2>5, Zenon
    <3>2. Meets(s, t, r)
      BY <2>1, <3>1, Zenon DEF Meets
    <3>3. Told(s, t, r)
      BY <3>2, Zenon DEF Learning
    <3>4. u = s => ~(Head(inq[u]).type = "REGISTER" /\ Head(inq[u]).room = r)
      BY <2>5, Zenon
    <3> QED
      BY <1>3, <3>3, <3>4, ReadTold, Zenon
  <2> QED
    BY <2>3, <2>4, <2>5, Zenon
<1> QED
  BY <1>4, <1>5, <1>6, Zenon DEF Kept

(* Streams going: what they leave to be sent, and to whom. *)
Gone(ss, rooms) ==
    /\ ss \in SUBSET Stream /\ members' = [r \in Room |-> IF r \in rooms THEN members[r] \ ss ELSE members[r]]

LEMMA GoneIs ==
    ASSUME Sure, NEW ss, NEW rooms, Gone(ss, rooms)
    PROVE  /\ \A r \in Room : members'[r] \subseteq members[r]
           /\ \A r \in Room, s \in ss : r \in rooms => s \notin members'[r]
<1>1. \A r \in Room : members'[r] = IF r \in rooms THEN members[r] \ ss ELSE members[r]
  BY DEF Gone
<1>2. ASSUME NEW r \in Room
      PROVE  members'[r] \subseteq members[r] /\ \A s \in ss : r \in rooms => s \notin members'[r]
  <2>1. CASE r \in rooms
    <3>1. members'[r] = members[r] \ ss
      BY <1>1, <2>1, Zenon
    <3> QED
      BY <3>1, Zenon
  <2>2. CASE r \notin rooms
    <3>1. members'[r] = members[r]
      BY <1>1, <2>2, Zenon
    <3> QED
      BY <2>2, <3>1, Zenon
  <2> QED
    BY <2>1, <2>2, Zenon
<1> QED
  BY <1>2, Zenon

(* The waiting notices stay in order when a goroutine adds departures. *)
LEMMA PartingsGrow ==
    ASSUME Sure, live' \subseteq live, opened' = opened, NEW a \in Stream \cup Peer, NEW ns, Notices(a, ns),
           \A r \in Room : members'[r] \subseteq members[r],
           \A n \in ns : Parting(a, n)'
    PROVE  Partings'
<1> SUFFICES ASSUME NEW b \in Stream \cup Peer, NEW n \in todo'[b], n.type = "PEER_LEFT"
             PROVE  Parting(b, n)'
  BY Zenon DEF Partings
<1>1. todo'[a] = ns /\ (b # a => todo'[b] = todo[b])
  BY NoticesIs, Zenon
<1>2. CASE b = a
  <2>1. n \in ns
    BY <1>1, <1>2, Zenon
  <2> QED
    BY <1>2, <2>1, Zenon
<1>3. CASE b # a
  <2>1. n \in todo[b]
    BY <1>1, <1>3, Zenon
  <2>2. n \in Frames /\ Parting(b, n)
    BY <2>1, Zenon DEF Sure, Sending, Partings
  <2>3. n.room \in Room
    BY <2>2, Zenon DEF Frames
  <2>4. b \in members'[n.room] => b \in members[n.room]
    BY <2>3, Zenon
  <2> QED
    BY <2>2, <2>4, PartingStays, Zenon
<1> QED
  BY <1>2, <1>3, Zenon

(* An UNREGISTER that is read. *)
LEMMA UnregisterKeeps ==
    ASSUME Sure, Learning, NEW u \in Stream, Reading(u), NEW r0 \in Room,
           Head(inq[u]).type # "REGISTER", unheard' = unheard, live' = live,
           Gone({u}, {r0}), todo' = [todo EXCEPT ![u] = Departures({u}, r0)]
    PROVE  Kept
<1> DEFINE ns == Departures({u}, r0)
<1>1. /\ outbox' = outbox /\ dead' = dead /\ shut' = shut /\ opened' = opened /\ cur' = cur
      /\ joined' = joined /\ known' = known /\ u \in opened
  BY ReadingIs, Zenon
<1>2. (\A r \in Room : members'[r] \subseteq members[r]) /\ u \notin members'[r0]
  BY GoneIs, Zenon
<1>3. ASSUME NEW n \in ns
      PROVE  n \in Frames /\ n.to \in opened /\ n.room = r0 /\ n.peers = {PeerOf[u]}
  <2>1. {u} \in SUBSET Stream
    OBVIOUS
  <2>2. Departure(n, {u}, r0)
    BY <2>1, DeparturesAre, Zenon
  <2> QED
    BY <2>2, Zenon DEF Departure, Sure, Base, Typed
<1>4. todo' = [todo EXCEPT ![u] = ns]
  OBVIOUS
<1> HIDE DEF ns
<1>5. Notices(u, ns)
  BY <1>3, <1>4, Zenon DEF Notices
<1>6. Sending' /\ OneCurrent'
  BY <1>5, ReadingKeeps, Zenon
<1>7. Partings'
  <2>1. \A n \in ns : Parting(u, n)'
    BY <1>1, <1>2, <1>3, Zenon DEF Parting
  <2> QED
    BY <1>1, <1>2, <1>5, <2>1, PartingsGrow, Zenon
<1>8. Learning'
  <2> SUFFICES ASSUME NEW s \in Stream, NEW t \in Stream, NEW r \in Room, Meets(s, t, r)'
               PROVE  Told(s, t, r)'
    BY Zenon DEF Learning
  <2>1. s \in members[r] /\ t \in members[r]
    BY <1>2, Zenon DEF Meets
  <2>2. Meets(s, t, r)
    BY <1>1, <2>1, Zenon DEF Meets, Sole
  <2>3. Told(s, t, r)
    BY <2>2, Zenon DEF Learning
  <2> QED
    BY <1>5, <2>3, ReadTold, Zenon
<1> QED
  BY <1>6, <1>7, <1>8, Zenon DEF Kept

(* One request of a read loop. *)
LEMMA ReadKeeps ==
    ASSUME Sure, Learning, NEW u \in Stream, Read(u)
    PROVE  Kept
<1> DEFINE req == Head(inq[u])
           r0 == req.room
<1>1. Reading(u)
  BY Zenon DEF Read
<1>2. u \in opened /\ req \in Requests
  BY <1>1, ReadingIs, Zenon
<1>3. r0 \in Room
  BY <1>2 DEF Requests
<1>4. CASE req.type = "REGISTER"
  <2>1. register(u, r0) /\ unheard' = unheard \ {<<u, r0>>}
    BY <1>4, Zenon DEF Read
  <2> HIDE DEF req
  <2>2. CASE UNCHANGED <<registry, todo>> /\ u \notin live
    <3>1. live' = live /\ members' = members /\ todo' = todo /\ u \notin members[r0]
      BY <1>3, <2>2 DEF registry, Sure, Base, Typed
    <3>2. Answers(u, r0, {Frame("REGISTER_FAILED", u, r0, {})})
      BY <1>2, <1>3, <3>1, CappedAnswers, Zenon
    <3> QED
      BY <1>1, <1>3, <1>4, <2>1, <3>1, <3>2, RegisterKeeps, Zenon DEF req
  <2>3. CASE u \in members[r0] /\ todo' = [todo EXCEPT ![u] = {Peers(u, r0)}] /\ UNCHANGED registry
    <3>1. live' = live /\ members' = members
      BY <2>3, Zenon DEF registry
    <3>2. Answers(u, r0, {Peers(u, r0)})
      BY <1>2, <1>3, <2>3, <3>1, AgainAnswers, Zenon
    <3> QED
      BY <1>1, <1>3, <1>4, <2>1, <2>3, <3>1, <3>2, RegisterKeeps, Zenon DEF req
  <2>4. CASE /\ u \notin members[r0] /\ UNCHANGED registry
             /\ todo' = [todo EXCEPT ![u] = {Frame("REGISTER_FAILED", u, r0, {})}]
    <3>1. live' = live /\ members' = members
      BY <2>4, Zenon DEF registry
    <3>2. Answers(u, r0, {Frame("REGISTER_FAILED", u, r0, {})})
      BY <1>2, <1>3, <2>4, <3>1, CappedAnswers, Zenon
    <3> QED
      BY <1>1, <1>3, <1>4, <2>1, <2>4, <3>1, <3>2, RegisterKeeps, Zenon DEF req
  <2>5. CASE u \notin members[r0] /\ registerNew(u, r0)
    <3>1. live' = live /\ members' = [members EXCEPT ![r0] = members[r0] \cup {u}]
      BY <2>5, Zenon DEF registerNew
    <3>2. members'[r0] = members[r0] \cup {u} /\ \A r \in Room : r # r0 => members'[r] = members[r]
      BY <1>3, <3>1, Zenon DEF Sure, Base, Typed
    <3>3. PICK ns : todo' = [todo EXCEPT ![u] = ns] /\ Answers(u, r0, ns)
      BY <1>2, <1>3, <2>5, JoinAnswers, Zenon
    <3> QED
      BY <1>1, <1>3, <1>4, <2>1, <3>1, <3>2, <3>3, RegisterKeeps, Zenon DEF req
  <2> QED
    BY <2>1, <2>2, <2>3, <2>4, <2>5, Zenon DEF register
<1>5. CASE req.type # "REGISTER"
  <2>1. unregister(u, r0) /\ unheard' = unheard
    BY <1>5, Zenon DEF Read
  <2> HIDE DEF req
  <2>2. CASE UNCHANGED <<registry, todo>> /\ u \notin live
    <3>1. /\ live' = live /\ members' = members /\ todo' = todo
          /\ outbox' = outbox /\ dead' = dead /\ shut' = shut /\ opened' = opened /\ cur' = cur
          /\ joined' = joined /\ known' = known
      BY <1>1, <2>2, ReadingIs, Zenon DEF registry
    <3>2. Sending' /\ OneCurrent'
      BY <1>1, <3>1, ReadingKeeps, Zenon
    <3>3. Partings'
      BY <3>1, PartingsStay, Zenon
    <3>4. ASSUME NEW s \in Stream, NEW t \in Stream, NEW r \in Room, Meets(s, t, r)'
          PROVE  Told(s, t, r)'
      <4>1. Meets(s, t, r)
        BY <2>1, <3>1, <3>4, Zenon DEF Meets, Sole
      <4>2. Told(s, t, r)
        BY <4>1, Zenon DEF Learning
      <4> QED
        BY <1>1, <1>5, <3>1, <4>2, ReadTold, Zenon DEF req
    <3> QED
      BY <3>2, <3>3, <3>4, Zenon DEF Kept, Learning
  <2>3. CASE /\ Leaving({u}, {r0}) /\ live' = live
             /\ todo' = [todo EXCEPT ![u] = Departures({u}, r0)]
    <3>1. Gone({u}, {r0})
      BY <2>3, Zenon DEF Gone, Leaving
    <3> QED
      BY <1>1, <1>3, <1>5, <2>1, <2>3, <3>1, UnregisterKeeps, Zenon DEF req
  <2> QED
    BY <2>1, <2>2, <2>3 DEF unregister
<1> QED
  BY <1>4, <1>5, Zenon

(* Streams the relay lets go of: nobody they have met is told less. *)
LEMMA DroppedLearning ==
    ASSUME Sure, Learning, NEW ss, Gone(ss, Room), NEW a \in Stream \cup Peer, NEW ns, Notices(a, ns),
           a \in Stream => a \in ss,
           opened' = opened, dead' = dead, cur' = cur, joined' = joined, known' = known,
           unheard' = unheard, shut' = shut \cup ss,
           \A s \in Stream : s \notin ss => inq'[s] = inq[s] /\ outbox'[s] = outbox[s]
    PROVE  Learning'
<1> SUFFICES ASSUME NEW s \in Stream, NEW t \in Stream, NEW r \in Room, Meets(s, t, r)'
             PROVE  Told(s, t, r)'
  BY Zenon DEF Learning
<1>1. s \in members'[r] /\ t \in members'[r]
  BY Zenon DEF Meets
<1>2. s \in members[r] /\ t \in members[r] /\ s \notin ss /\ t \notin ss
  BY <1>1, GoneIs, Zenon
<1>3. s \notin shut
  BY Zenon DEF Meets
<1>4. Meets(s, t, r)
  BY <1>2, <1>3, Zenon DEF Meets, Sole
<1>5. Told(s, t, r)
  BY <1>4, Zenon DEF Learning
<1>6. s # a /\ t # a
  BY <1>2, RendezvousConstants, Zenon
<1>7. todo'[s] = todo[s] /\ todo'[t] = todo[t]
  BY <1>6, NoticesIs, Zenon
<1> QED
  BY <1>2, <1>5, <1>7, SameTold, ZenonT(60)

(* A read loop that ends lets its own stream go. *)
LEMMA ReadEndsKeeps ==
    ASSUME Sure, Learning, NEW u \in Stream, ReadEnds(u)
    PROVE  Kept
<1> DEFINE ns == UNION {Departures({u}, r) : r \in Room}
<1>1. /\ u \in opened /\ todo[u] = {} /\ shut' = shut \cup {u}
      /\ outbox' = Emptied(outbox, {u}) /\ inq' = Emptied(inq, {u})
      /\ opened' = opened /\ dead' = dead /\ cur' = cur /\ joined' = joined /\ known' = known
      /\ unheard' = unheard
  BY Zenon DEF ReadEnds, clients, bounds
<1>2. /\ outbox' \in [Stream -> Seq(Frames)] /\ outbox'[u] = <<>>
      /\ \A s \in Stream : s \notin {u} => outbox'[s] = outbox[s]
  BY <1>1, EmptiedIs, Zenon
<1>3. \A s \in Stream : s \notin {u} => inq'[s] = inq[s]
  BY <1>1, Zenon DEF Emptied
<1>4. OneCurrent'
  BY <1>1, Zenon DEF Sure, OneCurrent
<1>5. CASE u \in live
  <2>1. evict({u}) /\ todo' = [todo EXCEPT ![u] = ns]
    BY <1>5, Zenon DEF ReadEnds
  <2>2. Gone({u}, Room) /\ live' = live \ {u}
    BY <2>1, Zenon DEF evict, Leaving, Gone
  <2>3. ASSUME NEW n \in ns
        PROVE  n \in Frames /\ n.to \in opened /\ n.room \in Room /\ n.peers = {PeerOf[u]}
    <3>1. PICK r \in Room : n \in Departures({u}, r)
      BY <2>3, Zenon
    <3>2. {u} \in SUBSET Stream
      OBVIOUS
    <3>3. Departure(n, {u}, r)
      BY <3>1, <3>2, DeparturesAre, Zenon
    <3> HIDE DEF ns
    <3> QED
      BY <3>3, Zenon DEF Departure, Sure, Base, Typed
  <2> HIDE DEF ns
  <2>4. Notices(u, ns)
    BY <2>1, <2>3, Zenon DEF Notices
  <2>5. Sending'
    <3>1. /\ todo' \in [Stream \cup Peer -> SUBSET Frames]
          /\ \A b \in Stream \cup Peer : \A n \in todo'[b] : n.to \in opened
      BY <2>4, NoticesIs, Zenon
    <3> QED
      BY <1>1, <1>2, <3>1, Zenon DEF Sure, Sending
  <2>6. Partings'
    <3>1. (\A r \in Room : members'[r] \subseteq members[r]) /\ \A r \in Room : u \notin members'[r]
      BY <2>2, GoneIs, Zenon
    <3>2. \A n \in ns : Parting(u, n)'
      BY <1>1, <2>3, <3>1, Zenon DEF Parting
    <3>3. live' \subseteq live
      BY <2>2, Zenon
    <3> QED
      BY <1>1, <2>4, <3>1, <3>2, <3>3, PartingsGrow, Zenon
  <2>7. Learning'
    BY <1>1, <1>2, <1>3, <2>2, <2>4, DroppedLearning, Zenon
  <2> QED
    BY <1>4, <2>5, <2>6, <2>7, Zenon DEF Kept
<1>6. CASE u \notin live
  <2>1. live' = live /\ members' = members /\ todo' = todo
    BY <1>6, Zenon DEF ReadEnds, registry
  <2>2. Sending'
    BY <1>1, <1>2, <2>1, Zenon DEF Sure, Sending
  <2>3. Partings'
    BY <1>1, <2>1, PartingsStay, Zenon
  <2>4. ASSUME NEW s \in Stream, NEW t \in Stream, NEW r \in Room, Meets(s, t, r)'
        PROVE  Told(s, t, r)'
    <3>1. s \notin {u} /\ s \notin shut
      BY <1>1, <2>4, Zenon DEF Meets
    <3>2. Meets(s, t, r)
      BY <1>1, <2>1, <2>4, <3>1, Zenon DEF Meets, Sole
    <3>3. Told(s, t, r)
      BY <3>2, Zenon DEF Learning
    <3> QED
      BY <1>1, <1>2, <1>3, <2>1, <3>1, <3>3, SameTold, Zenon
  <2> QED
    BY <1>4, <2>2, <2>3, <2>4, Zenon DEF Kept, Learning
<1> QED
  BY <1>5, <1>6, Zenon

(* A peer whose last connection went: every stream it had is let go. *)
LEMMA DisconnectKeeps ==
    ASSUME Sure, Learning, NEW p \in Peer, disconnectPeer(p)
    PROVE  Kept
<1> DEFINE ss == live \cap StreamsOf(p)
           ns == UNION {Departures(ss, r) : r \in Room}
<1>1. /\ evict(ss) /\ shut' = shut \cup ss /\ todo' = [todo EXCEPT ![p] = ns]
      /\ outbox' = Emptied(outbox, ss) /\ inq' = inq
      /\ opened' = opened /\ dead' = dead /\ cur' = cur /\ joined' = joined /\ known' = known
      /\ unheard' = unheard
  BY Zenon DEF disconnectPeer, clients, bounds
<1>2. ss \in SUBSET Stream /\ ss \subseteq opened /\ \A v \in ss : PeerOf[v] = p
  BY DEF Sure, Base, Typed, StreamsOf
<1>3. \A t \in Stream : PeerOf[t] = p /\ t \in live => t \in ss
  BY Zenon DEF StreamsOf
<1> HIDE DEF ss
<1>4. Gone(ss, Room) /\ live' = live \ ss
  BY <1>1, <1>2, Zenon DEF evict, Leaving, Gone
<1>5. /\ outbox' \in [Stream -> Seq(Frames)]
      /\ \A s \in Stream : s \in ss => outbox'[s] = <<>>
      /\ \A s \in Stream : s \notin ss => outbox'[s] = outbox[s]
  BY <1>1, EmptiedIs, Zenon
<1>6. ASSUME NEW n \in ns
      PROVE  n \in Frames /\ n.to \in opened /\ n.peers = {p} /\ \E v \in opened : PeerOf[v] = p
  <2>1. PICK r \in Room : n \in Departures(ss, r)
    BY <1>6, Zenon
  <2>2. Departure(n, ss, r)
    BY <1>2, <2>1, DeparturesAre, Zenon
  <2> HIDE DEF ns
  <2> QED
    BY <1>2, <2>2, Zenon DEF Departure, Sure, Base, Typed
<1> HIDE DEF ns
<1>7. Notices(p, ns)
  BY <1>1, <1>6, Zenon DEF Notices
<1>8. Sending'
  <2>1. /\ todo' \in [Stream \cup Peer -> SUBSET Frames]
        /\ \A b \in Stream \cup Peer : \A n \in todo'[b] : n.to \in opened
    BY <1>7, NoticesIs, Zenon
  <2>2. \A s \in Stream : outbox'[s] # <<>> => s \in opened
    BY <1>5, Zenon DEF Sure, Sending
  <2> QED
    BY <1>1, <1>5, <2>1, <2>2, Zenon DEF Sending
<1>9. OneCurrent'
  BY <1>1, Zenon DEF Sure, OneCurrent
<1>10. Partings'
  <2>1. \A r \in Room : members'[r] \subseteq members[r]
    BY <1>4, GoneIs, Zenon
  <2>2. \A t \in Stream : PeerOf[t] = p => t \notin live'
    BY <1>3, <1>4, Zenon
  <2>3. \A n \in ns : Parting(p, n)'
    BY <1>1, <1>6, <2>2, Zenon DEF Parting
  <2>4. live' \subseteq live
    BY <1>4, Zenon
  <2> QED
    BY <1>1, <1>7, <2>1, <2>3, <2>4, PartingsGrow, Zenon
<1>11. Learning'
  <2>1. p \in Stream => p \in ss
    BY RendezvousConstants, Zenon
  <2> QED
    BY <1>1, <1>4, <1>5, <1>7, <2>1, DroppedLearning, Zenon
<1> QED
  BY <1>8, <1>9, <1>10, <1>11, Zenon DEF Kept

(* A new stream takes the place of its peer's last, which carries nothing
   more; a peer that has opened two is no longer one with a single stream. *)
LEMMA OpenKeeps ==
    ASSUME Sure, Learning, NEW u \in Stream, Open(u)
    PROVE  Kept
<1> DEFINE p == PeerOf[u]
<1>1. /\ u \notin opened /\ opened' = opened \cup {u} /\ outbox' = Emptied(outbox, dead')
      /\ todo' = todo /\ shut' = shut /\ joined' = joined /\ known' = known /\ unheard' = unheard
  BY Zenon DEF Open, bounds
<1>2. members' = members /\ live' \subseteq live \cup {u}
  BY Zenon DEF Open, addStream, registry
<1>3. /\ dead \subseteq dead' /\ (cur[p] # None => cur[p] \in dead')
      /\ \/ cur' = [cur EXCEPT ![p] = None] /\ u \in dead'
         \/ cur' = [cur EXCEPT ![p] = u]
  <2> DEFINE refused == Cardinality(live \cap StreamsOf(p)) >= MaxStreams
  <2>1. /\ cur' = [cur EXCEPT ![p] = IF refused THEN None ELSE u]
        /\ dead' = dead \cup ({cur[p]} \ {None}) \cup (IF refused THEN {u} ELSE {})
    BY Zenon DEF Open
  <2> HIDE DEF refused
  <2>2. CASE refused
    BY <2>1, <2>2
  <2>3. CASE ~refused
    BY <2>1, <2>3, Zenon
  <2> QED
    BY <2>2, <2>3, Zenon
<1>4. \A s \in Stream : s # u => inq'[s] = inq[s]
  <2>1. inq \in [Stream -> Seq(Requests)]
    BY DEF Sure, Base, Typed
  <2>2. inq' = inq \/ \E x : inq' = [inq EXCEPT ![u] = x]
    BY Zenon DEF Open
  <2> QED
    BY <2>1, <2>2, Zenon
<1>5. p \in Peer /\ cur \in [Peer -> Stream \cup {None}] /\ None \notin Stream /\ opened \in SUBSET Stream
  BY RendezvousConstants, Zenon DEF Sure, OneCurrent
<1>6. /\ outbox' \in [Stream -> Seq(Frames)]
      /\ \A s \in Stream : s \in dead' => outbox'[s] = <<>>
      /\ \A s \in Stream : s \notin dead' => outbox'[s] = outbox[s]
  BY <1>1, EmptiedIs, Zenon
<1>7. Sending'
  <2>1. opened \subseteq opened'
    BY <1>1, Zenon
  <2>2. \A s \in Stream : outbox'[s] # <<>> => s \in opened'
    BY <1>6, <2>1, Zenon DEF Sure, Sending
  <2>3. \A a \in Stream \cup Peer : \A n \in todo[a] : n.to \in opened'
    BY <2>1, Zenon DEF Sure, Sending
  <2> QED
    BY <1>1, <1>6, <2>2, <2>3, Zenon DEF Sure, Sending
<1>8. /\ cur' \in [Peer -> Stream \cup {None}] /\ cur'[p] \in {u, None} /\ (cur'[p] = None => u \in dead')
      /\ \A q \in Peer : q # p => cur'[q] = cur[q]
  BY <1>3, <1>5, Zenon
<1>9. OneCurrent'
  <2>1. ASSUME NEW s \in opened', s \notin dead'
        PROVE  cur'[PeerOf[s]] = s
    <3>1. CASE s = u
      BY <1>8, <2>1, <3>1, Zenon
    <3>2. CASE s # u
      <4>1. s \in opened /\ s \in Stream /\ s \notin dead
        BY <1>1, <1>3, <1>5, <2>1, <3>2, Zenon
      <4>2. cur[PeerOf[s]] = s /\ PeerOf[s] \in Peer
        BY <4>1, RendezvousConstants, Zenon DEF Sure, OneCurrent
      <4>3. PeerOf[s] # p
        BY <1>3, <1>5, <2>1, <4>1, <4>2, Zenon
      <4> QED
        BY <1>8, <4>2, <4>3, Zenon
    <3> QED
      BY <3>1, <3>2, Zenon
  <2>2. opened' \in SUBSET Stream
    BY <1>1, <1>5
  <2> QED
    BY <1>1, <1>8, <2>1, <2>2, Zenon DEF Sure, OneCurrent
<1>10. ASSUME NEW t \in opened, StreamsOf(PeerOf[t]) \cap opened' = {t}
       PROVE  Sole(t) /\ t # u
  <2>1. t \in Stream /\ t # u
    BY <1>1, <1>5
  <2>2. StreamsOf(PeerOf[t]) \cap opened = {t}
    BY <1>1, <1>10, <2>1, Zenon DEF StreamsOf
  <2> QED
    BY <2>1, <2>2 DEF Sole
<1>11. Partings'
  <2> SUFFICES ASSUME NEW a \in Stream \cup Peer, NEW n \in todo'[a], n.type = "PEER_LEFT"
               PROVE  Parting(a, n)'
    BY Zenon DEF Partings
  <2>1. n \in todo[a]
    BY <1>1, Zenon
  <2>2. Parting(a, n)
    BY <2>1, Zenon DEF Sure, Partings
  <2>3. CASE a \in Stream /\ n.peers = {PeerOf[a]} /\ a \in opened /\ a \notin members[n.room]
    BY <1>1, <1>2, <2>3, Zenon DEF Parting
  <2>4. CASE /\ a \in Peer /\ n.peers = {a} /\ \E v \in opened : PeerOf[v] = a
             /\ \A t \in Stream : PeerOf[t] = a /\ Sole(t) => t \notin live
    <3>1. PICK v \in opened : PeerOf[v] = a
      BY <2>4, Zenon
    <3>2. ASSUME NEW t \in Stream, PeerOf[t] = a, StreamsOf(PeerOf[t]) \cap opened' = {t}
          PROVE  t \notin live'
      <4>1. v \in Stream /\ v \in StreamsOf(a) \cap opened'
        BY <1>1, <1>5, <3>1, Zenon DEF StreamsOf
      <4>2. v = t
        BY <3>2, <4>1, Zenon
      <4>3. Sole(t) /\ t # u
        BY <1>10, <3>2, <4>2, Zenon
      <4> QED
        BY <1>2, <2>4, <3>2, <4>3, Zenon
    <3>3. v \in opened'
      BY <1>1, Zenon
    <3> QED
      BY <2>4, <3>1, <3>2, <3>3, Zenon DEF Parting, Sole
  <2> QED
    BY <2>2, <2>3, <2>4, Zenon DEF Parting
<1>12. Learning'
  <2> SUFFICES ASSUME NEW s \in Stream, NEW t \in Stream, NEW r \in Room, Meets(s, t, r)'
               PROVE  Told(s, t, r)'
    BY Zenon DEF Learning
  <2>1. /\ s \in members[r] /\ t \in members[r] /\ s \notin dead' /\ cur'[PeerOf[s]] = s
        /\ StreamsOf(PeerOf[t]) \cap opened' = {t}
    BY <1>2, Zenon DEF Meets, Sole
  <2>2. s \in opened /\ t \in opened
    BY <2>1, Zenon DEF Sure, Base, Typed
  <2>3. s # u /\ PeerOf[s] # p /\ PeerOf[s] \in Peer
    BY <1>1, <1>5, <1>8, <2>1, <2>2, RendezvousConstants, Zenon
  <2>4. cur[PeerOf[s]] = s /\ s \notin dead /\ Sole(t)
    BY <1>3, <1>8, <1>10, <2>1, <2>2, <2>3, Zenon
  <2>5. Meets(s, t, r)
    BY <1>1, <2>1, <2>4, Zenon DEF Meets
  <2>6. Told(s, t, r)
    BY <2>5, Zenon DEF Learning
  <2> QED
    BY <1>1, <1>4, <1>6, <2>1, <2>3, <2>6, SameTold, Zenon
<1> QED
  BY <1>7, <1>9, <1>11, <1>12, Zenon DEF Kept

-----------------------------------------------------------------------------
(* Every action keeps what the clients have been told. *)
LEMMA NextKeeps ==
    ASSUME Sure, Learning, [Next]_vars
    PROVE  Kept
<1>1. ASSUME NEW s \in Stream, Lost(s) \/ Reset(s)
      PROVE  Kept
  BY <1>1, ClosesKeeps, Zenon DEF Lost, Reset
<1>2. ASSUME NEW p \in Peer, Disconnected(p)
      PROVE  Kept
  <2>1. UNCHANGED <<registry, todo, outbox, inq, dead, shut, clients, bounds>>
    BY <1>2, Zenon DEF Disconnected
  <2> QED
    BY <2>1, StillKept
<1>3. ASSUME NEW p \in Movers, NEW r \in Room, joinRoom(p, r) \/ leaveRoom(p, r)
      PROVE  Kept
  BY <1>3, MovesKeep, Zenon
<1>4. ASSUME NEW a \in Stream \cup Peer, NEW n \in todo[a], Send(a, n)
      PROVE  Kept
  BY <1>4, SendKeeps, Zenon
<1>5. CASE UNCHANGED vars
  <2>1. UNCHANGED <<registry, todo, outbox, inq, dead, shut, clients, bounds>>
    BY <1>5 DEF vars
  <2> QED
    BY <2>1, StillKept
<1>6. ASSUME NEW s \in Stream,
             Open(s) \/ handleRendezvousMsg(s) \/ Read(s) \/ Refused(s) \/ ReadEnds(s)
      PROVE  Kept
  BY <1>6, OpenKeeps, HandleKeeps, ReadKeeps, RefusedKeeps, ReadEndsKeeps, Zenon
<1>7. ASSUME NEW p \in Peer, disconnectPeer(p)
      PROVE  Kept
  BY <1>7, DisconnectKeeps, Zenon
<1> QED
  BY <1>1, <1>2, <1>3, <1>4, <1>5, <1>6, <1>7, Zenon DEF Next

(* At the start nobody has opened a stream or been told of anyone. *)
LEMMA InitTold ==
    ASSUME Init
    PROVE  Sending /\ OneCurrent /\ Partings /\ Learning
<1>1. Sending
  BY DEF Init, Sending
<1>2. OneCurrent
  BY Zenon DEF Init, OneCurrent
<1>3. Partings
  BY Zenon DEF Init, Partings
<1>4. Learning
  BY Zenon DEF Init, Learning, Meets
<1> QED
  BY <1>1, <1>2, <1>3, <1>4

LEMMA LearningHolds == Spec => [](Sure /\ Learning)
<1>1. Inv => Base
  BY DEF Inv, NoGhosts, Base, Typed
<1>2. Init => Sending /\ OneCurrent /\ Partings /\ Learning
  BY InitTold
<1>3. /\ Inv /\ Sending /\ OneCurrent /\ Partings /\ Learning /\ [Next]_vars
      => (Sending /\ OneCurrent /\ Partings /\ Learning)'
  <2> SUFFICES ASSUME Inv, Sending, OneCurrent, Partings, Learning, [Next]_vars
               PROVE  (Sending /\ OneCurrent /\ Partings /\ Learning)'
    OBVIOUS
  <2>1. Sure
    BY <1>1 DEF Sure
  <2>2. Kept
    BY <2>1, NextKeeps
  <2> QED
    BY <2>2 DEF Kept
<1>4. Inv /\ Sending /\ OneCurrent /\ Partings /\ Learning => Sure /\ Learning
  BY <1>1 DEF Sure
<1> QED
  BY <1>2, <1>3, <1>4, InvHolds, PTL DEF Spec

(* Whatever streams are opened, lost and let go of, whatever rooms are joined
   and left, and in whatever order the notices of two goroutines are sent: once
   everything is delivered a member whose last REGISTER was not refused knows
   every other member that has kept to one stream.  For any peers, streams,
   rooms and caps and any number of losses. *)
THEOREM MembersLearnHolds == Spec => []MembersLearn
<1>1. Sure /\ Learning => MembersLearn
  <2> SUFFICES ASSUME Sure, Learning, Quiet, NEW s \in Stream, NEW t \in Stream, NEW r \in Room,
                      Together(s, t, r), StreamsOf(PeerOf[t]) \cap opened = {t}, <<s, r>> \notin unheard
               PROVE  PeerOf[t] \in known[PeerOf[s]][r]
    BY Zenon DEF MembersLearn
  <2>1. Meets(s, t, r) /\ s \notin dead \cup shut
    BY Zenon DEF Together, Meets, Sole
  <2>2. Told(s, t, r)
    BY <2>1, Zenon DEF Learning
  <2>3. inq[s] = <<>> /\ outbox[s] = <<>> /\ todo[s] = {} /\ todo[t] = {}
    BY <2>1, Zenon DEF Quiet
  <2>4. /\ ~AsksFor(inq[s], r) /\ ~Coming(outbox[s], r, PeerOf[t])
        /\ ~Due(todo[s], s, r, PeerOf[t]) /\ ~Due(todo[t], s, r, PeerOf[t])
    <3>1. ~AsksFor(<<>>, r) /\ ~Coming(<<>>, r, PeerOf[t]) /\ ~Due({}, s, r, PeerOf[t])
      BY NothingOnItsWay, Zenon
    <3>2. ~AsksFor(inq[s], r) /\ ~Coming(outbox[s], r, PeerOf[t])
      BY <2>3, <3>1, Zenon
    <3>3. ~Due(todo[s], s, r, PeerOf[t]) /\ ~Due(todo[t], s, r, PeerOf[t])
      BY <2>3, <3>1, Zenon
    <3> QED
      BY <3>2, <3>3, Zenon
  <2> QED
    BY <2>2, <2>4, Zenon DEF Told
<1> QED
  BY <1>1, LearningHolds, PTL

=============================================================================
