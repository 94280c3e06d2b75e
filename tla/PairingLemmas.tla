--------------------------- MODULE PairingLemmas ---------------------------
(***************************************************************************)
(* Short-code pairing for any number of codes, people, locators and uses:  *)
(* the invariant, and every step of the tab hosting a code, of a reply, a  *)
(* cancel, an expiry and a restart of the relay keeps it.                  *)
(***************************************************************************)
EXTENDS Pairing, TLAPS

Message == [from : Joiner, kind : {"start", "finish"}]
Stages == {"none", "start", "response", "finish", "transfer"}
Hosting == {"polling", "replying"}
Replies == [by : Session, to : Joiner, kind : {"response", "transfer"}]

EntryType ==
    [by : Session, stage : [Joiner -> Stages],
     box : [Joiner -> {<<>>, <<"response">>, <<"transfer">>}],
     inbox : Seq(Message), closed : BOOLEAN, delivered : Nat]

HostType ==
    [at : {"none", "creating", "over"} \cup Hosting, tries : Nat,
     locator : Locator \cup {Nobody}, batch : Seq(Message), joined : Nat,
     attempts : Nat, pending : SUBSET Joiner, closed : BOOLEAN]

CodesType ==
    [session : Session \cup {Nobody}, pending : Session \cup {Nobody},
     live : Session \cup {Nobody}]

TypeOK ==
    /\ store \in [Locator -> EntryType \cup {Absent}]
    /\ host \in [Session -> HostType]
    /\ join \in [Joiner -> {"idle", "polling", "finishing"} \cup Done]
    /\ codes \in CodesType
    /\ wire \subseteq Replies
    /\ cancels \subseteq Session
    /\ expired \subseteq Session
    /\ faults \in Seq({"call", "restart"})

Transfers(e) == {j \in Joiner : e.stage[j] = "transfer"}

(* What is true of an entry: it counts its transfers, only a person the    *)
(* code was handed to gets as far as a finish in it, and a box holds the   *)
(* answer its attempt is at, or nothing.                                   *)
EntryOK(e) ==
    /\ e.delivered = Cardinality(Transfers(e))
    /\ e.closed => e.delivered >= Uses
    /\ \A j \in Joiner :
         /\ e.stage[j] \in {"finish", "transfer"} => e.by = CodeOf[j]
         /\ e.box[j] # <<>> => e.box[j] = <<e.stage[j]>>

HostOK(h) ==
    /\ h.joined <= Uses /\ (~h.closed => h.joined < Uses)
    /\ h.at \in {"none", "creating"} => h.locator = Nobody /\ h.batch = <<>>
    /\ h.at \in Hosting => h.locator \in Locator

(* A person who has not started has no attempt anywhere; one about to send *)
(* the finish has had the response of their own code's host.               *)
NoAttempt(e, j) == e # Absent => e.stage[j] = "none"

MayFinish(e, j) ==
    e # Absent /\ e.stage[j] # "none" =>
        e.by = CodeOf[j] /\ e.stage[j] = "response" /\ e.box[j] = <<>>

PersonOK(j) ==
    /\ join[j] = "idle" => \A l \in Locator : NoAttempt(store[l], j)
    /\ join[j] # "idle" => LocatorOf(j) \in Locator
    /\ join[j] = "finishing" => MayFinish(store[LocatorOf(j)], j)

(* The people a code has let in, or whose transfer is on its way. *)
TransferOf(s, j) == [by |-> s, to |-> j, kind |-> "transfer"]

HasTransfer(e, s, j) == e # Absent /\ e.by = s /\ e.stage[j] = "transfer"

Served(s) ==
    {j \in Joiner :
       \/ CodeOf[j] = s /\ join[j] = "in"
       \/ TransferOf(s, j) \in wire
       \/ \E l \in Locator : HasTransfer(store[l], s, j)}

(* A host has one reply under way at most, unless its run is over. *)
ReplyOK(m) ==
    /\ host[m.by].at \in {"replying", "over"}
    /\ host[m.by].locator \in Locator
    /\ host[m.by].at = "replying" =>
         /\ \A n \in wire : n.by = m.by => n = m
         /\ m.kind = "response" => ~host[m.by].closed

(* The tab makes one code at a time, and none while one is on show. *)
CodesOK ==
    /\ codes.pending # Nobody => codes.session = Nobody
    /\ {s \in Session : host[s].at = "creating"} = {codes.pending} \ {Nobody}
    /\ ShownIsHosted

(* What the relay has for a code being hosted agrees with what its host is *)
(* at: every message waits on one side only until it is answered, once.    *)
Asked(kind) == IF kind = "response" THEN "start" ELSE "finish"

Waiting(e, q) ==
    /\ \A i \in 1..Len(q) : e.stage[q[i].from] = q[i].kind
    /\ \A i, k \in 1..Len(q) : q[i].from = q[k].from => i = k

NotFrom(q, j) == \A i \in 1..Len(q) : q[i].from # j

Apart(p, q) == \A i \in 1..Len(p) : NotFrom(q, p[i].from)

Agrees(s, e, b, W) ==
    /\ e # Absent /\ e.by = s
    /\ Waiting(e, e.inbox) /\ Waiting(e, b) /\ Apart(e.inbox, b)
    /\ \A m \in W : m.by = s =>
         e.stage[m.to] = Asked(m.kind) /\ NotFrom(e.inbox, m.to) /\ NotFrom(b, m.to)

Routed(s) == Agrees(s, store[At(s)], host[s].batch, wire)

EntriesOK == \A l \in Locator : store[l] # Absent => EntryOK(store[l])
HostsOK == \A s \in Session : HostOK(host[s])
PeopleOK == \A j \in Joiner : PersonOK(j)
CancelsOK == \A s \in cancels : host[s].at = "over" /\ At(s) \in Locator
WireOK == \A m \in wire : ReplyOK(m)

(* What counting people takes.  It follows from there being finitely many, *)
(* by the library of finite sets, in PairingProofs; until then the         *)
(* invariant carries it.                                                   *)
Counting ==
    /\ Cardinality({}) = 0
    /\ \A S \in SUBSET Joiner :
         /\ Cardinality(S) \in Nat
         /\ \A T \in SUBSET S : Cardinality(T) <= Cardinality(S)
         /\ \A j \in Joiner \ S : Cardinality(S \cup {j}) = Cardinality(S) + 1

CountsOK == Counting /\ \A s \in Session : Cardinality(Served(s)) <= host[s].joined
RoutesOK ==
    \A s \in Session : host[s].at \in Hosting /\ s \notin expired /\ ~Restarted => Routed(s)

Inv ==
    /\ TypeOK /\ EntriesOK /\ HostsOK /\ PeopleOK /\ CancelsOK
    /\ WireOK /\ CodesOK /\ CountsOK /\ RoutesOK

-----------------------------------------------------------------------------
(* People counted. *)

LEMMA Counted ==
    ASSUME Counting, NEW S \in SUBSET Joiner
    PROVE  Cardinality(S) \in Nat
BY Zenon DEF Counting

LEMMA FewerCounted ==
    ASSUME Counting, NEW S \in SUBSET Joiner, NEW T \in SUBSET S
    PROVE  Cardinality(T) <= Cardinality(S)
BY Zenon DEF Counting

LEMMA ExactlyOneMore ==
    ASSUME Counting, NEW S \in SUBSET Joiner, NEW j \in Joiner, j \notin S
    PROVE  Cardinality(S \cup {j}) = Cardinality(S) + 1
BY Zenon DEF Counting

LEMMA OneMore ==
    ASSUME Counting, NEW S \in SUBSET Joiner, NEW j \in Joiner, NEW T \in SUBSET (S \cup {j})
    PROVE  Cardinality(T) <= Cardinality(S) + 1
<1>1. Cardinality(S \cup {j}) <= Cardinality(S) + 1
  <2>1. CASE j \in S
    <3>1. Cardinality(S \cup {j}) = Cardinality(S)
      <4>1. S \cup {j} = S
        BY <2>1, Zenon
      <4> QED
        BY <4>1, Zenon
    <3>2. Cardinality(S) \in Nat
      BY Counted, Zenon
    <3> QED
      BY <3>1, <3>2
  <2>2. CASE j \notin S
    <3>1. Cardinality(S \cup {j}) = Cardinality(S) + 1
      BY <2>2, ExactlyOneMore, Zenon
    <3>2. Cardinality(S) \in Nat
      BY Counted, Zenon
    <3> QED
      BY <3>1, <3>2
  <2> QED
    BY <2>1, <2>2, Zenon
<1>2. Cardinality(T) <= Cardinality(S \cup {j})
  BY FewerCounted, Zenon
<1>3. Cardinality(S) \in Nat /\ Cardinality(T) \in Nat /\ Cardinality(S \cup {j}) \in Nat
  BY Counted, Zenon
<1> QED
  BY <1>1, <1>2, <1>3

-----------------------------------------------------------------------------
(* Entries. *)

LEMMA EntryIsThere ==
    ASSUME NEW e \in EntryType
    PROVE  e # Absent /\ e.by # Nobody /\ e.by \in Session
<1>1. e.by \in Session
  BY Zenon DEF EntryType
<1>2. Absent.by = Nobody
  BY Zenon DEF Absent
<1>3. Nobody \notin Session
  BY PairingConstants, Zenon
<1> QED
  BY <1>1, <1>2, <1>3, Zenon

LEMMA EntryFields ==
    ASSUME NEW e \in EntryType
    PROVE  /\ e.stage \in [Joiner -> Stages] /\ e.inbox \in Seq(Message)
           /\ e.box \in [Joiner -> {<<>>, <<"response">>, <<"transfer">>}]
           /\ e.closed \in BOOLEAN /\ e.delivered \in Nat
BY Zenon DEF EntryType

(* What create puts in the store. *)
LEMMA EntryFresh ==
    ASSUME Counting, NEW s \in Session
    PROVE  /\ Entry(s) \in EntryType /\ EntryOK(Entry(s)) /\ Entry(s).by = s
           /\ \A j \in Joiner : Entry(s).stage[j] = "none"
           /\ Entry(s).inbox = <<>>
<1>1. /\ Entry(s).by = s /\ Entry(s).inbox = <<>> /\ ~Entry(s).closed /\ Entry(s).delivered = 0
      /\ \A j \in Joiner : Entry(s).stage[j] = "none" /\ Entry(s).box[j] = <<>>
  BY Zenon DEF Entry
<1>2. Entry(s) \in EntryType
  BY DEF Entry, EntryType, Stages
<1>3. Transfers(Entry(s)) = {}
  BY <1>1, Zenon DEF Transfers
<1>4. Cardinality(Transfers(Entry(s))) = 0
  BY <1>3, Zenon DEF Counting
<1> QED
  BY <1>1, <1>2, <1>4, Zenon DEF EntryOK

(* A start or a finish is delivered to the host. *)
TakesAsk(e, d, j, kind) ==
    /\ d \in EntryType /\ d.by = e.by /\ d.stage = [e.stage EXCEPT ![j] = kind]
    /\ d.box = e.box /\ d.closed = e.closed /\ d.delivered = e.delivered
    /\ d.inbox = Append(e.inbox, [from |-> j, kind |-> kind])

LEMMA AskDelivered ==
    ASSUME NEW e \in EntryType, NEW j \in Joiner, NEW kind, kind \in {"start", "finish"},
           NEW d, d = pairingDeliver(e, j, kind)
    PROVE  TakesAsk(e, d, j, kind)
<1> DEFINE c == [[e EXCEPT !.stage[j] = kind] EXCEPT !.inbox = Append(@, [from |-> j, kind |-> kind])]
<1>1. d = c
  BY DEF pairingDeliver
<1>2. /\ c.by = e.by /\ c.stage = [e.stage EXCEPT ![j] = kind]
      /\ c.box = e.box /\ c.closed = e.closed /\ c.delivered = e.delivered
      /\ c.inbox = Append(e.inbox, [from |-> j, kind |-> kind])
  BY DEF EntryType
<1>3. Append(e.inbox, [from |-> j, kind |-> kind]) \in Seq(Message)
  <2>1. [from |-> j, kind |-> kind] \in Message
    BY Zenon DEF Message
  <2> QED
    BY <2>1, EntryFields
<1>4. [e.stage EXCEPT ![j] = kind] \in [Joiner -> Stages]
  BY EntryFields DEF Stages
<1>5. c \in EntryType
  BY <1>3, <1>4, Zenon DEF EntryType
<1> HIDE DEF c
<1> QED
  BY <1>1, <1>2, <1>5, Zenon DEF TakesAsk

LEMMA ResponseDelivered ==
    ASSUME NEW e \in EntryType, NEW j \in Joiner, e.box[j] = <<>>,
           NEW d, d = pairingDeliver(e, j, "response")
    PROVE  /\ d \in EntryType /\ d.by = e.by /\ d.stage = [e.stage EXCEPT ![j] = "response"]
           /\ d.box = [e.box EXCEPT ![j] = <<"response">>]
           /\ d.closed = e.closed /\ d.delivered = e.delivered /\ d.inbox = e.inbox
<1> DEFINE c == [[e EXCEPT !.stage[j] = "response"] EXCEPT !.box[j] = Append(@, "response")]
<1>1. d = c
  BY DEF pairingDeliver
<1>2. /\ c.by = e.by /\ c.stage = [e.stage EXCEPT ![j] = "response"]
      /\ c.box = [e.box EXCEPT ![j] = Append(@, "response")]
      /\ c.closed = e.closed /\ c.delivered = e.delivered /\ c.inbox = e.inbox
  BY DEF EntryType
<1>3. Append(e.box[j], "response") = <<"response">>
  OBVIOUS
<1>4. [e.box EXCEPT ![j] = Append(@, "response")] = [e.box EXCEPT ![j] = <<"response">>]
  BY <1>3
<1>5. [e.stage EXCEPT ![j] = "response"] \in [Joiner -> Stages]
  BY EntryFields DEF Stages
<1>6. [e.box EXCEPT ![j] = <<"response">>] \in [Joiner -> {<<>>, <<"response">>, <<"transfer">>}]
  BY EntryFields, Zenon
<1>7. c \in EntryType
  BY <1>4, <1>5, <1>6, Zenon DEF EntryType
<1> HIDE DEF c
<1> QED
  BY <1>1, <1>2, <1>4, <1>7, Zenon

LEMMA TransferDelivered ==
    ASSUME NEW e \in EntryType, NEW j \in Joiner, e.box[j] = <<>>,
           NEW d, d = pairingDeliver(e, j, "transfer")
    PROVE  /\ d \in EntryType /\ d.by = e.by /\ d.stage = [e.stage EXCEPT ![j] = "transfer"]
           /\ d.box = [e.box EXCEPT ![j] = <<"transfer">>]
           /\ d.delivered = e.delivered + 1 /\ d.closed = (e.delivered + 1 >= Uses)
           /\ d.inbox = IF e.delivered + 1 >= Uses THEN <<>> ELSE e.inbox
<1> DEFINE n == e.delivered + 1
           c == [[[e EXCEPT !.stage[j] = "transfer"] EXCEPT !.box[j] = Append(@, "transfer")]
                   EXCEPT !.delivered = n, !.closed = n >= Uses,
                          !.inbox = IF n >= Uses THEN <<>> ELSE @]
<1>1. d = c
  BY DEF pairingDeliver
<1>2. /\ c.by = e.by /\ c.stage = [e.stage EXCEPT ![j] = "transfer"]
      /\ c.box = [e.box EXCEPT ![j] = Append(@, "transfer")]
      /\ c.delivered = n /\ c.closed = (n >= Uses)
      /\ c.inbox = IF n >= Uses THEN <<>> ELSE e.inbox
  BY DEF EntryType
<1>3. Append(e.box[j], "transfer") = <<"transfer">>
  OBVIOUS
<1>4. [e.box EXCEPT ![j] = Append(@, "transfer")] = [e.box EXCEPT ![j] = <<"transfer">>]
  BY <1>3
<1>5. [e.stage EXCEPT ![j] = "transfer"] \in [Joiner -> Stages]
  BY EntryFields DEF Stages
<1>6. [e.box EXCEPT ![j] = <<"transfer">>] \in [Joiner -> {<<>>, <<"response">>, <<"transfer">>}]
  BY EntryFields, Zenon
<1>7. (IF n >= Uses THEN <<>> ELSE e.inbox) \in Seq(Message) /\ n \in Nat /\ (n >= Uses) \in BOOLEAN
  BY EntryFields
<1>8. c \in EntryType
  BY <1>4, <1>5, <1>6, <1>7, Zenon DEF EntryType
<1> HIDE DEF c
<1> QED
  BY <1>1, <1>2, <1>4, <1>8, Zenon

(* An attempt the host has not answered has nothing in its box. *)
LEMMA BoxEmpty ==
    ASSUME NEW e \in EntryType, EntryOK(e), NEW j \in Joiner,
           e.stage[j] \in {"none", "start", "finish"}
    PROVE  e.box[j] = <<>>
<1>1. e.box[j] \in {<<>>, <<"response">>, <<"transfer">>}
  BY EntryFields, Zenon
<1>2. e.box[j] # <<>> => e.box[j] = <<e.stage[j]>>
  BY Zenon DEF EntryOK
<1> QED
  BY <1>1, <1>2

(* A step of one attempt that is not the transfer keeps the entry sound. *)
LEMMA StageKeepsEntry ==
    ASSUME NEW e \in EntryType, EntryOK(e), NEW d \in EntryType, NEW j \in Joiner,
           NEW k \in Stages, k # "transfer", e.stage[j] # "transfer",
           k = "finish" => e.by = CodeOf[j],
           d.by = e.by, d.stage = [e.stage EXCEPT ![j] = k],
           d.closed = e.closed, d.delivered = e.delivered,
           \A i \in Joiner : i # j => d.box[i] = e.box[i],
           d.box[j] # <<>> => d.box[j] = <<k>>
    PROVE  EntryOK(d)
<1>0. e.stage \in [Joiner -> Stages]
  BY EntryFields, Zenon
<1>1. d.stage[j] = k /\ \A i \in Joiner : i # j => d.stage[i] = e.stage[i]
  BY <1>0, Zenon
<1>2. Transfers(d) = Transfers(e)
  BY <1>1, Zenon DEF Transfers
<1>3. d.delivered = Cardinality(Transfers(d)) /\ (d.closed => d.delivered >= Uses)
  BY <1>2, Zenon DEF EntryOK
<1>4. ASSUME NEW i \in Joiner
      PROVE  /\ d.stage[i] \in {"finish", "transfer"} => d.by = CodeOf[i]
             /\ d.box[i] # <<>> => d.box[i] = <<d.stage[i]>>
  <2>1. CASE i = j
    BY <1>1, <2>1, Zenon
  <2>2. CASE i # j
    BY <1>1, <2>2, Zenon DEF EntryOK
  <2> QED
    BY <2>1, <2>2, Zenon
<1> QED
  BY <1>3, <1>4, Zenon DEF EntryOK

LEMMA AskKeepsEntry ==
    ASSUME NEW e \in EntryType, EntryOK(e), NEW j \in Joiner,
           NEW kind, kind \in {"start", "finish"}, Accepts(e, j, kind),
           kind = "finish" => e.by = CodeOf[j] /\ e.box[j] = <<>>,
           NEW d, d = pairingDeliver(e, j, kind)
    PROVE  EntryOK(d)
<1>0. TakesAsk(e, d, j, kind)
  BY AskDelivered, Zenon
<1>1. /\ d \in EntryType /\ d.by = e.by /\ d.stage = [e.stage EXCEPT ![j] = kind]
      /\ d.box = e.box /\ d.closed = e.closed /\ d.delivered = e.delivered
  BY <1>0, Zenon DEF TakesAsk
<1>2. e.stage[j] \in {"none", "response"} /\ (kind = "start" => e.stage[j] = "none")
  BY DEF Accepts
<1>3. e.box[j] = <<>>
  BY <1>2, BoxEmpty, Zenon
<1>4. kind \in Stages /\ kind # "transfer" /\ e.stage[j] # "transfer"
  BY <1>2 DEF Stages
<1>5. EntryOK(d)
  BY <1>1, <1>3, <1>4, StageKeepsEntry
<1> QED
  BY <1>5

LEMMA ResponseKeepsEntry ==
    ASSUME NEW e \in EntryType, EntryOK(e), NEW j \in Joiner, Accepts(e, j, "response"),
           NEW d, d = pairingDeliver(e, j, "response")
    PROVE  e.box[j] = <<>> /\ EntryOK(d)
<1>1. e.stage[j] = "start"
  BY DEF Accepts
<1>2. e.box[j] = <<>>
  BY <1>1, BoxEmpty, Zenon
<1>3. /\ d \in EntryType /\ d.by = e.by /\ d.stage = [e.stage EXCEPT ![j] = "response"]
      /\ d.box = [e.box EXCEPT ![j] = <<"response">>]
      /\ d.closed = e.closed /\ d.delivered = e.delivered
  BY <1>2, ResponseDelivered
<1>4. /\ \A i \in Joiner : i # j => d.box[i] = e.box[i]
      /\ d.box[j] = <<"response">>
  BY <1>3, EntryFields, ZenonT(60)
<1>5. "response" \in Stages /\ e.stage[j] # "transfer" /\ "response" \notin {"transfer", "finish"}
  BY <1>1 DEF Stages
<1>6. EntryOK(d)
  BY <1>3, <1>4, <1>5, StageKeepsEntry
<1> QED
  BY <1>2, <1>6

LEMMA TransferKeepsEntry ==
    ASSUME Counting, NEW e \in EntryType, EntryOK(e), NEW j \in Joiner, Accepts(e, j, "transfer"),
           NEW d, d = pairingDeliver(e, j, "transfer")
    PROVE  e.box[j] = <<>> /\ EntryOK(d)
<1>1. e.stage[j] = "finish"
  BY DEF Accepts
<1>2. e.box[j] = <<>>
  BY <1>1, BoxEmpty, Zenon
<1>3. /\ d \in EntryType /\ d.by = e.by /\ d.stage = [e.stage EXCEPT ![j] = "transfer"]
      /\ d.box = [e.box EXCEPT ![j] = <<"transfer">>]
      /\ d.delivered = e.delivered + 1 /\ d.closed = (e.delivered + 1 >= Uses)
  BY <1>2, TransferDelivered
<1>4. /\ \A i \in Joiner : i # j => d.box[i] = e.box[i] /\ d.stage[i] = e.stage[i]
      /\ d.box[j] = <<"transfer">> /\ d.stage[j] = "transfer"
  <2>1. d.stage[j] = "transfer" /\ \A i \in Joiner : i # j => d.stage[i] = e.stage[i]
    BY <1>3, EntryFields, ZenonT(60)
  <2>2. d.box[j] = <<"transfer">> /\ \A i \in Joiner : i # j => d.box[i] = e.box[i]
    BY <1>3, EntryFields, ZenonT(60)
  <2> QED
    BY <2>1, <2>2, Zenon
<1>5. Transfers(d) = Transfers(e) \cup {j} /\ j \notin Transfers(e)
  BY <1>1, <1>4, Zenon DEF Transfers
<1>6. Transfers(e) \in SUBSET Joiner
  BY Zenon DEF Transfers
<1>7. Cardinality(Transfers(d)) = Cardinality(Transfers(e)) + 1
  BY <1>5, <1>6, ExactlyOneMore, Zenon
<1>8. e.delivered = Cardinality(Transfers(e))
  BY Zenon DEF EntryOK
<1>9. d.delivered = Cardinality(Transfers(d)) /\ (d.closed => d.delivered >= Uses)
  BY <1>3, <1>7, <1>8, Zenon
<1>10. ASSUME NEW i \in Joiner
       PROVE  /\ d.stage[i] \in {"finish", "transfer"} => d.by = CodeOf[i]
              /\ d.box[i] # <<>> => d.box[i] = <<d.stage[i]>>
  <2>1. CASE i = j
    BY <1>1, <1>3, <1>4, <2>1, Zenon DEF EntryOK
  <2>2. CASE i # j
    <3>1. d.by = e.by /\ d.box[i] = e.box[i] /\ d.stage[i] = e.stage[i]
      BY <1>3, <1>4, <2>2, Zenon
    <3> QED
      BY <3>1, Zenon DEF EntryOK
  <2> QED
    BY <2>1, <2>2, Zenon
<1>11. EntryOK(d)
  BY <1>9, <1>10, Zenon DEF EntryOK
<1> QED
  BY <1>2, <1>11

(* A poll by a joiner empties their box; a host-poll shortens the inbox. *)
PolledFrom(e, d, j) ==
    /\ d \in EntryType /\ EntryOK(d) /\ d.by = e.by /\ d.stage = e.stage
    /\ d.inbox = e.inbox /\ d.box = [e.box EXCEPT ![j] = <<>>]

LEMMA PolledEntry ==
    ASSUME NEW e \in EntryType, EntryOK(e), NEW j \in Joiner,
           NEW d, d = [e EXCEPT !.box[j] = <<>>]
    PROVE  PolledFrom(e, d, j)
<1>1. /\ d.by = e.by /\ d.stage = e.stage /\ d.inbox = e.inbox /\ d.closed = e.closed
      /\ d.delivered = e.delivered /\ d.box = [e.box EXCEPT ![j] = <<>>]
  BY DEF EntryType
<1>2. [e.box EXCEPT ![j] = <<>>] \in [Joiner -> {<<>>, <<"response">>, <<"transfer">>}]
  BY EntryFields, Zenon
<1>3. d \in EntryType
  BY <1>2 DEF EntryType
<1>4. \A i \in Joiner : d.box[i] # <<>> => d.box[i] = e.box[i]
  <2>1. \A i \in Joiner : [e.box EXCEPT ![j] = <<>>][i] = IF i = j THEN <<>> ELSE e.box[i]
    BY EntryFields, Zenon
  <2> QED
    BY <1>1, <2>1, Zenon
<1>5. Transfers(d) = Transfers(e)
  BY <1>1, Zenon DEF Transfers
<1>6. EntryOK(d)
  BY <1>1, <1>4, <1>5, Zenon DEF EntryOK
<1> QED
  BY <1>1, <1>3, <1>6, Zenon DEF PolledFrom

LEMMA DrainedEntry ==
    ASSUME NEW e \in EntryType, EntryOK(e), NEW q \in Seq(Message),
           NEW d, d = [e EXCEPT !.inbox = q]
    PROVE  /\ d \in EntryType /\ EntryOK(d) /\ d.by = e.by /\ d.stage = e.stage
           /\ d.inbox = q /\ d.box = e.box
<1>1. /\ d.by = e.by /\ d.stage = e.stage /\ d.inbox = q /\ d.closed = e.closed
      /\ d.delivered = e.delivered /\ d.box = e.box
  BY DEF EntryType
<1>3. d \in EntryType
  BY Zenon DEF EntryType
<1>5. Transfers(d) = Transfers(e)
  BY <1>1, Zenon DEF Transfers
<1>6. EntryOK(d)
  BY <1>1, <1>5, Zenon DEF EntryOK
<1> QED
  BY <1>1, <1>3, <1>6, Zenon

-----------------------------------------------------------------------------
(* What a host and the relay agree on. *)

LEMMA Messages ==
    ASSUME NEW q \in Seq(Message), NEW i \in 1..Len(q)
    PROVE  q[i] \in Message /\ q[i].from \in Joiner /\ q[i].kind \in {"start", "finish"}
<1>1. q[i] \in Message
  OBVIOUS
<1> QED
  BY <1>1, Zenon DEF Message

(* Nothing waits from an attempt that is at no question. *)
LEMMA NothingWaits ==
    ASSUME NEW e, NEW q \in Seq(Message), Waiting(e, q), NEW j,
           e.stage[j] \notin {"start", "finish"}
    PROVE  NotFrom(q, j)
<1> SUFFICES ASSUME NEW i \in 1..Len(q), q[i].from = j
             PROVE  FALSE
  BY Zenon DEF NotFrom
<1>1. q[i].kind \in {"start", "finish"}
  BY Messages, Zenon
<1>2. e.stage[q[i].from] = q[i].kind
  BY Zenon DEF Waiting
<1> QED
  BY <1>1, <1>2, Zenon

(* A step of one attempt leaves what waits from the others. *)
LEMMA WaitsStill ==
    ASSUME NEW e, NEW d, NEW j, \A i \in Joiner : i # j => d.stage[i] = e.stage[i],
           NEW q \in Seq(Message), Waiting(e, q), NotFrom(q, j)
    PROVE  Waiting(d, q)
<1>1. ASSUME NEW i \in 1..Len(q)
      PROVE  d.stage[q[i].from] = q[i].kind
  <2>1. q[i].from # j /\ e.stage[q[i].from] = q[i].kind
    BY Zenon DEF NotFrom, Waiting
  <2>2. q[i].from \in Joiner
    BY Messages, Zenon
  <2> QED
    BY <2>1, <2>2, Zenon
<1> QED
  BY <1>1, Zenon DEF Waiting

LEMMA Appending ==
    ASSUME NEW q \in Seq(Message), NEW m \in Message
    PROVE  /\ Append(q, m) \in Seq(Message) /\ Len(Append(q, m)) = Len(q) + 1
           /\ \A i \in 1..Len(Append(q, m)) :
                \/ i \in 1..Len(q) /\ Append(q, m)[i] = q[i]
                \/ i = Len(q) + 1 /\ Append(q, m)[i] = m
OBVIOUS

LEMMA WaitsAlso ==
    ASSUME NEW d, NEW q \in Seq(Message), Waiting(d, q), NEW m \in Message,
           d.stage[m.from] = m.kind, NotFrom(q, m.from), NEW p, p = Append(q, m)
    PROVE  Waiting(d, p)
<1>1. \A i \in 1..Len(p) : \/ i \in 1..Len(q) /\ p[i] = q[i]
                           \/ i = Len(q) + 1 /\ p[i] = m
  BY Appending, Zenon
<1>2. \A i \in 1..Len(p) : d.stage[p[i].from] = p[i].kind
  BY <1>1, Zenon DEF Waiting
<1>3. ASSUME NEW i \in 1..Len(p), NEW k \in 1..Len(p), p[i].from = p[k].from
      PROVE  i = k
  BY <1>1, <1>3, Zenon DEF Waiting, NotFrom
<1> QED
  BY <1>2, <1>3, Zenon DEF Waiting

LEMMA NotFromAlso ==
    ASSUME NEW q \in Seq(Message), NEW m \in Message, NEW j, NotFrom(q, j), m.from # j,
           NEW p, p = Append(q, m)
    PROVE  NotFrom(p, j)
<1>1. \A i \in 1..Len(p) : \/ i \in 1..Len(q) /\ p[i] = q[i]
                           \/ i = Len(q) + 1 /\ p[i] = m
  BY Appending, Zenon
<1> QED
  BY <1>1, Zenon DEF NotFrom

LEMMA ApartAlso ==
    ASSUME NEW q \in Seq(Message), NEW b, NEW m \in Message, Apart(q, b), NotFrom(b, m.from),
           NEW p, p = Append(q, m)
    PROVE  Apart(p, b)
<1>1. \A i \in 1..Len(p) : \/ i \in 1..Len(q) /\ p[i] = q[i]
                           \/ i = Len(q) + 1 /\ p[i] = m
  BY Appending, Zenon
<1> QED
  BY <1>1, Zenon DEF Apart

LEMMA AgreesFields ==
    ASSUME NEW s, NEW e, NEW b, NEW W, Agrees(s, e, b, W)
    PROVE  /\ e # Absent /\ e.by = s
           /\ Waiting(e, e.inbox) /\ Waiting(e, b) /\ Apart(e.inbox, b)
           /\ \A m \in W : m.by = s =>
                e.stage[m.to] = Asked(m.kind) /\ NotFrom(e.inbox, m.to) /\ NotFrom(b, m.to)
BY Zenon DEF Agrees

LEMMA AskedIs ==
    ASSUME NEW kind
    PROVE  Asked(kind) \in {"start", "finish"}
BY DEF Asked

LEMMA RepliesAre ==
    ASSUME NEW W \in SUBSET Replies, NEW w \in W
    PROVE  w.by \in Session /\ w.to \in Joiner /\ w.kind \in {"response", "transfer"}
BY Zenon DEF Replies

(* A joiner's start or finish joins the inbox. *)
LEMMA AskAgrees ==
    ASSUME NEW s, NEW e \in EntryType, NEW b \in Seq(Message), NEW W \in SUBSET Replies, Agrees(s, e, b, W),
           NEW j \in Joiner, NEW kind, kind \in {"start", "finish"}, Accepts(e, j, kind),
           NEW d, d = pairingDeliver(e, j, kind)
    PROVE  Agrees(s, d, b, W)
<1> DEFINE m == [from |-> j, kind |-> kind]
<1>0. TakesAsk(e, d, j, kind)
  BY AskDelivered, Zenon
<1>1. /\ d \in EntryType /\ d.by = e.by /\ d.stage = [e.stage EXCEPT ![j] = kind]
      /\ d.inbox = Append(e.inbox, m)
  BY <1>0, Zenon DEF TakesAsk
<1>2. m \in Message /\ m.from = j /\ m.kind = kind
  BY Zenon DEF Message
<1> HIDE DEF m
<1>3. e.stage[j] \notin {"start", "finish"}
  BY DEF Accepts
<1>4. e.inbox \in Seq(Message) /\ e.stage \in [Joiner -> Stages]
  BY EntryFields, Zenon
<1>5. /\ e # Absent /\ e.by = s
      /\ Waiting(e, e.inbox) /\ Waiting(e, b) /\ Apart(e.inbox, b)
  BY AgreesFields, Zenon
<1>6. NotFrom(e.inbox, j) /\ NotFrom(b, j)
  BY <1>3, <1>4, <1>5, NothingWaits, Zenon
<1>7. d.stage[j] = kind /\ \A i \in Joiner : i # j => d.stage[i] = e.stage[i]
  BY <1>1, <1>4, Zenon
<1>8. Waiting(d, e.inbox) /\ Waiting(d, b)
  BY <1>4, <1>5, <1>6, <1>7, WaitsStill, Zenon
<1>9. Waiting(d, d.inbox) /\ Apart(d.inbox, b)
  <2>0. d.stage[m.from] = m.kind /\ NotFrom(e.inbox, m.from) /\ m \in Message
    BY <1>2, <1>6, <1>7, Zenon
  <2>1. Waiting(d, d.inbox)
    BY <1>1, <1>4, <1>8, <2>0, WaitsAlso, Zenon
  <2>2. Apart(d.inbox, b)
    BY <1>1, <1>2, <1>4, <1>5, <1>6, ApartAlso, Zenon
  <2> QED
    BY <2>1, <2>2, Zenon
<1>10. ASSUME NEW w \in W, w.by = s
       PROVE  d.stage[w.to] = Asked(w.kind) /\ NotFrom(d.inbox, w.to) /\ NotFrom(b, w.to)
  <2>1. e.stage[w.to] = Asked(w.kind) /\ NotFrom(e.inbox, w.to) /\ NotFrom(b, w.to)
    BY <1>10, AgreesFields, Zenon
  <2>2. w.to # j
    BY <1>3, <2>1, AskedIs, Zenon
  <2>3. d.stage[w.to] = e.stage[w.to]
    BY <1>7, <2>2, RepliesAre, Zenon
  <2>4. NotFrom(d.inbox, w.to)
    BY <1>1, <1>2, <1>4, <2>1, <2>2, NotFromAlso, Zenon
  <2> QED
    BY <2>1, <2>3, <2>4, Zenon
<1>11. d # Absent /\ d.by = s
  BY <1>1, EntryIsThere, AgreesFields, Zenon
<1> QED
  BY <1>8, <1>9, <1>10, <1>11, Zenon DEF Agrees

(* A joiner's poll does not concern the host. *)
LEMMA SameAgrees ==
    ASSUME NEW s, NEW e, NEW b, NEW W, Agrees(s, e, b, W),
           NEW d, d # Absent, d.by = e.by, d.stage = e.stage, d.inbox = e.inbox
    PROVE  Agrees(s, d, b, W)
<1>1. /\ d # Absent /\ d.by = s
      /\ \A m \in W : m.by = s =>
           d.stage[m.to] = Asked(m.kind) /\ NotFrom(d.inbox, m.to) /\ NotFrom(b, m.to)
  BY AgreesFields
<1>2. Waiting(d, d.inbox) /\ Waiting(d, b) /\ Apart(d.inbox, b)
  BY AgreesFields DEF Waiting
<1> QED
  BY <1>1, <1>2, Zenon DEF Agrees

(* Another session's replies do not concern the host. *)
LEMMA OthersRepliesAgree ==
    ASSUME NEW s, NEW e, NEW b, NEW W, Agrees(s, e, b, W),
           NEW V, \A m \in V : m.by = s => m \in W
    PROVE  Agrees(s, e, b, V)
BY Zenon DEF Agrees

(* A stretch of q that begins after its first n. *)
Stretch(q, n, p) == \A i \in 1..Len(p) : n + i \in 1..Len(q) /\ p[i] = q[n + i]

CutInTwo(q, n, f, r) ==
    /\ f \in Seq(Message) /\ r \in Seq(Message) /\ Len(f) = n
    /\ Stretch(q, 0, f) /\ Stretch(q, n, r)

LEMMA Cut ==
    ASSUME NEW q \in Seq(Message), NEW n \in 0..Len(q),
           NEW f, f = SubSeq(q, 1, n), NEW r, r = SubSeq(q, n + 1, Len(q))
    PROVE  CutInTwo(q, n, f, r)
<1>1. Len(f) = n /\ Len(r) = Len(q) - n
  OBVIOUS
<1>2. \A i \in 1..n : f[i] = q[i]
  OBVIOUS
<1>3. \A i \in 1..(Len(q) - n) : r[i] = q[n + i]
  OBVIOUS
<1>4. f \in Seq(Message) /\ r \in Seq(Message)
  OBVIOUS
<1> QED
  BY <1>1, <1>2, <1>3, <1>4 DEF Stretch, CutInTwo

LEMMA StretchWaits ==
    ASSUME NEW e, NEW q, Waiting(e, q), NEW n \in Nat, NEW p \in Seq(Message), Stretch(q, n, p)
    PROVE  Waiting(e, p)
<1>1. \A i \in 1..Len(p) : e.stage[p[i].from] = p[i].kind
  BY DEF Waiting, Stretch
<1>2. ASSUME NEW i \in 1..Len(p), NEW k \in 1..Len(p), p[i].from = p[k].from
      PROVE  n + i = n + k
  <2>1. /\ n + i \in 1..Len(q) /\ n + k \in 1..Len(q)
        /\ q[n + i].from = q[n + k].from
    BY <1>2, Zenon DEF Stretch
  <2> QED
    BY <2>1, Zenon DEF Waiting
<1>3. \A i, k \in 1..Len(p) : n + i = n + k => i = k
  OBVIOUS
<1> QED
  BY <1>1, <1>2, <1>3, Zenon DEF Waiting

LEMMA StretchNotFrom ==
    ASSUME NEW q, NEW n, NEW p, Stretch(q, n, p), NEW j, NotFrom(q, j)
    PROVE  NotFrom(p, j)
BY Zenon DEF Stretch, NotFrom

LEMMA StretchesApart ==
    ASSUME NEW e, NEW q, Waiting(e, q), NEW f \in Seq(Message), NEW r \in Seq(Message),
           NEW n, n = Len(f), Stretch(q, 0, f), Stretch(q, n, r)
    PROVE  Apart(r, f)
<1> SUFFICES ASSUME NEW i \in 1..Len(r), NEW k \in 1..Len(f), f[k].from = r[i].from
             PROVE  FALSE
  BY Zenon DEF Apart, NotFrom
<1>1. 0 + k \in 1..Len(q) /\ n + i \in 1..Len(q) /\ q[0 + k].from = q[n + i].from
  BY Zenon DEF Stretch
<1>2. 0 + k = n + i
  BY <1>1, Zenon DEF Waiting
<1> QED
  BY <1>2

LEMMA SameStageWaits ==
    ASSUME NEW e, NEW d, d.stage = e.stage, NEW q, Waiting(e, q)
    PROVE  Waiting(d, q)
BY DEF Waiting

(* A host-poll cuts the inbox in two. *)
LEMMA PollAgrees ==
    ASSUME NEW s, NEW e, NEW q \in Seq(Message), q = e.inbox, NEW W, Agrees(s, e, <<>>, W),
           NEW n \in Nat, NEW f, NEW r, CutInTwo(q, n, f, r),
           NEW d, d # Absent, d.by = e.by, d.stage = e.stage, d.inbox = r
    PROVE  Agrees(s, d, f, W)
<1>0. 0 \in Nat
  OBVIOUS
<1>1. /\ f \in Seq(Message) /\ r \in Seq(Message) /\ Len(f) = n
      /\ Stretch(q, 0, f) /\ Stretch(q, n, r)
  BY Zenon DEF CutInTwo
<1>2. /\ e.by = s /\ Waiting(e, q)
      /\ \A m \in W : m.by = s => e.stage[m.to] = Asked(m.kind) /\ NotFrom(q, m.to)
  BY AgreesFields
<1>3. Waiting(e, f) /\ Waiting(e, r) /\ Apart(r, f)
  BY <1>0, <1>1, <1>2, StretchWaits, StretchesApart, Zenon
<1>4. Waiting(d, f) /\ Waiting(d, r)
  BY <1>3, SameStageWaits, Zenon
<1>5. \A m \in W : m.by = s =>
        d.stage[m.to] = Asked(m.kind) /\ NotFrom(r, m.to) /\ NotFrom(f, m.to)
  BY <1>1, <1>2, StretchNotFrom, Zenon
<1> QED
  BY <1>2, <1>3, <1>4, <1>5, Zenon DEF Agrees

LEMMA FirstAndRest ==
    ASSUME NEW b \in Seq(Message), b # <<>>, NEW t, t = Tail(b)
    PROVE  /\ Head(b) = b[1] /\ 1 \in 1..Len(b) /\ t \in Seq(Message)
           /\ \A i \in 1..Len(t) : t[i] = b[i + 1] /\ i + 1 \in 1..Len(b) /\ i + 1 # 1
           /\ \A i, k \in 1..Len(t) : i + 1 = k + 1 => i = k
OBVIOUS

(* The host takes the first message of its batch. *)
LEMMA TakeAgrees ==
    ASSUME NEW s, NEW e, NEW b \in Seq(Message), NEW W, Agrees(s, e, b, W),
           b # <<>>, NEW t, t = Tail(b)
    PROVE  /\ Agrees(s, e, t, W)
           /\ \A m : Asked(m.kind) = Head(b).kind /\ m.to = Head(b).from =>
                       Agrees(s, e, t, W \cup {m})
<1>1. /\ Head(b) = b[1] /\ 1 \in 1..Len(b)
      /\ \A i \in 1..Len(t) : t[i] = b[i + 1] /\ i + 1 \in 1..Len(b) /\ i + 1 # 1
      /\ \A i, k \in 1..Len(t) : i + 1 = k + 1 => i = k
  BY FirstAndRest
<1>2. /\ e # Absent /\ e.by = s /\ Waiting(e, e.inbox) /\ Waiting(e, b) /\ Apart(e.inbox, b)
      /\ \A m \in W : m.by = s =>
           e.stage[m.to] = Asked(m.kind) /\ NotFrom(e.inbox, m.to) /\ NotFrom(b, m.to)
  BY AgreesFields, Zenon
<1>3. Waiting(e, t)
  <2>1. \A i \in 1..Len(t) : e.stage[t[i].from] = t[i].kind
    BY <1>1, <1>2 DEF Waiting
  <2>2. \A i, k \in 1..Len(t) : t[i].from = t[k].from => i = k
    BY <1>1, <1>2 DEF Waiting
  <2> QED
    BY <2>1, <2>2, Zenon DEF Waiting
<1>4. \A j : NotFrom(b, j) => NotFrom(t, j)
  BY <1>1, Zenon DEF NotFrom
<1>5. Apart(e.inbox, t)
  BY <1>2, <1>4, Zenon DEF Apart
<1>6. Agrees(s, e, t, W)
  BY <1>2, <1>3, <1>4, <1>5, Zenon DEF Agrees
<1>7. ASSUME NEW m, Asked(m.kind) = Head(b).kind, m.to = Head(b).from
      PROVE  Agrees(s, e, t, W \cup {m})
  <2>1. e.stage[m.to] = Asked(m.kind)
    BY <1>1, <1>2, <1>7 DEF Waiting
  <2>2. NotFrom(e.inbox, m.to)
    BY <1>1, <1>2, <1>7, Zenon DEF Apart, NotFrom
  <2>3. NotFrom(t, m.to)
    BY <1>1, <1>2, <1>7 DEF Waiting, NotFrom
  <2> QED
    BY <1>6, <2>1, <2>2, <2>3, Zenon DEF Agrees
<1> QED
  BY <1>6, <1>7, Zenon

LEMMA EmptyBatch ==
    ASSUME NEW s, NEW e, NEW b, NEW W, Agrees(s, e, b, W)
    PROVE  Agrees(s, e, <<>>, W)
<1>1. 1..Len(<<>>) = {}
  OBVIOUS
<1>2. Waiting(e, <<>>) /\ \A j : NotFrom(<<>>, j)
  BY <1>1, Zenon DEF Waiting, NotFrom
<1> QED
  BY <1>2, Zenon DEF Agrees, Apart

(* The one reply under way is delivered. *)
LEMMA ReplyAgrees ==
    ASSUME NEW s, NEW e \in EntryType, NEW b \in Seq(Message), NEW W \in SUBSET Replies,
           Agrees(s, e, b, W), NEW m \in W, m.by = s, \A n \in W : n.by = s => n = m,
           NEW d \in EntryType, d.by = e.by, d.inbox \in {e.inbox, <<>>},
           NEW k, d.stage = [e.stage EXCEPT ![m.to] = k]
    PROVE  Agrees(s, d, b, W \ {m})
<1>1. /\ e # Absent /\ e.by = s /\ Waiting(e, e.inbox) /\ Waiting(e, b) /\ Apart(e.inbox, b)
      /\ NotFrom(e.inbox, m.to) /\ NotFrom(b, m.to)
  BY AgreesFields, Zenon
<1>2. e.stage \in [Joiner -> Stages] /\ e.inbox \in Seq(Message)
  BY EntryFields, Zenon
<1>3. \A i \in Joiner : i # m.to => d.stage[i] = e.stage[i]
  BY <1>2, Zenon
<1>4. Waiting(d, e.inbox) /\ Waiting(d, b)
  BY <1>1, <1>2, <1>3, WaitsStill, Zenon
<1>5. Waiting(d, d.inbox) /\ Apart(d.inbox, b)
  <2>1. CASE d.inbox = e.inbox
    BY <1>1, <1>4, <2>1, Zenon
  <2>2. CASE d.inbox = <<>>
    <3>1. 1..Len(d.inbox) = {}
      BY <2>2
    <3> QED
      BY <3>1, Zenon DEF Waiting, Apart
  <2> QED
    BY <2>1, <2>2, Zenon
<1>6. d # Absent /\ d.by = s
  BY <1>1, EntryIsThere, Zenon
<1> QED
  BY <1>4, <1>5, <1>6, Zenon DEF Agrees

-----------------------------------------------------------------------------
(* What a step must leave alone for each part of the invariant to be kept. *)

LEMMA StoreTypes ==
    ASSUME TypeOK, NEW l \in Locator
    PROVE  store[l] = Absent \/ store[l] \in EntryType
BY Zenon DEF TypeOK

LEMMA HeldIsEntry ==
    ASSUME TypeOK, NEW l \in Locator, store[l].by \in Session
    PROVE  store[l] \in EntryType
<1>1. Absent.by = Nobody
  BY Zenon DEF Absent
<1>2. Nobody \notin Session
  BY PairingConstants, Zenon
<1> QED
  BY <1>1, <1>2, StoreTypes, Zenon

LEMMA HostTypes ==
    ASSUME TypeOK, NEW s \in Session
    PROVE  /\ host[s] \in HostType /\ host[s].batch \in Seq(Message)
           /\ host[s].joined \in Nat /\ host[s].attempts \in Nat
           /\ host[s].locator \in Locator \cup {Nobody} /\ host[s].pending \in SUBSET Joiner
           /\ host[s].closed \in BOOLEAN
<1>1. host[s] \in HostType
  BY Zenon DEF TypeOK
<1> QED
  BY <1>1, Zenon DEF HostType

LEMMA HostSet ==
    ASSUME TypeOK, NEW s \in Session, NEW h, host' = [host EXCEPT ![s] = h]
    PROVE  host'[s] = h /\ \A k \in Session : k # s => host'[k] = host[k]
BY Zenon DEF TypeOK

LEMMA StoreSet ==
    ASSUME TypeOK, NEW l \in Locator, NEW d, store' = [store EXCEPT ![l] = d]
    PROVE  store'[l] = d /\ \A k \in Locator : k # l => store'[k] = store[k]
BY Zenon DEF TypeOK

LEMMA JoinSet ==
    ASSUME TypeOK, NEW j \in Joiner, NEW to, Moves(j, to)
    PROVE  join'[j] = to /\ \A i \in Joiner : i # j => join'[i] = join[i]
BY Zenon DEF TypeOK, Moves

LEMMA HostsAt ==
    ASSUME HostsOK, NEW s \in Session, host[s].at \in Hosting
    PROVE  At(s) \in Locator
BY Zenon DEF HostsOK, HostOK, At

(* One entry of the store replaced. *)
LEMMA EntriesKept ==
    ASSUME TypeOK, EntriesOK, NEW l \in Locator, NEW d, store' = [store EXCEPT ![l] = d],
           d # Absent => EntryOK(d)
    PROVE  EntriesOK'
<1>1. store'[l] = d /\ \A k \in Locator : k # l => store'[k] = store[k]
  BY StoreSet, Zenon
<1> SUFFICES ASSUME NEW k \in Locator, store'[k] # Absent
             PROVE  EntryOK(store'[k])
  BY Zenon DEF EntriesOK
<1> QED
  BY <1>1, Zenon DEF EntriesOK

(* One host replaced. *)
LEMMA HostsKept ==
    ASSUME TypeOK, HostsOK, NEW s \in Session, NEW h, host' = [host EXCEPT ![s] = h], HostOK(h)
    PROVE  HostsOK'
<1>1. host'[s] = h /\ \A k \in Session : k # s => host'[k] = host[k]
  BY HostSet, Zenon
<1> SUFFICES ASSUME NEW k \in Session
             PROVE  HostOK(host'[k])
  BY Zenon DEF HostsOK
<1> QED
  BY <1>1, Zenon DEF HostsOK

(* Nothing new for a person in an entry: gone, no attempt of theirs, as it *)
(* was, or an answer to a question they had asked.                         *)
Untouched(e, d, j) ==
    \/ d = Absent
    \/ d.stage[j] = "none"
    \/ e # Absent /\ d.by = e.by /\ d.stage[j] = e.stage[j] /\ d.box[j] = e.box[j]
    \/ e # Absent /\ e.stage[j] \in {"start", "finish"}

LEMMA UntouchedKeeps ==
    ASSUME NEW e, NEW d, NEW j, Untouched(e, d, j)
    PROVE  (NoAttempt(e, j) => NoAttempt(d, j)) /\ (MayFinish(e, j) => MayFinish(d, j))
BY DEF Untouched, NoAttempt, MayFinish

FixedLocators == \A s \in Session : At(s) \in Locator => At(s)' = At(s)

LEMMA PersonKept ==
    ASSUME NEW j \in Joiner, PersonOK(j), join'[j] = join[j], FixedLocators,
           \A l \in Locator : Untouched(store[l], store'[l], j)
    PROVE  PersonOK(j)'
<1>1. CodeOf[j] \in Session
  BY PairingConstants, Zenon
<1>2. LocatorOf(j) \in Locator => LocatorOf(j)' = LocatorOf(j)
  BY <1>1, Zenon DEF LocatorOf, FixedLocators
<1>3. \A l \in Locator : NoAttempt(store[l], j) => NoAttempt(store'[l], j)
  BY UntouchedKeeps, Zenon
<1>4. \A l \in Locator : MayFinish(store[l], j) => MayFinish(store'[l], j)
  BY UntouchedKeeps, Zenon
<1>5. join'[j] = "idle" => \A l \in Locator : NoAttempt(store'[l], j)
  BY <1>3, Zenon DEF PersonOK
<1>6. join'[j] # "idle" => LocatorOf(j)' \in Locator
  BY <1>2, Zenon DEF PersonOK
<1>7. join'[j] = "finishing" => MayFinish(store'[LocatorOf(j)'], j)
  <2> HAVE join'[j] = "finishing"
  <2>1. join[j] = "finishing" /\ join[j] # "idle"
    OBVIOUS
  <2>2. LocatorOf(j) \in Locator /\ MayFinish(store[LocatorOf(j)], j)
    BY <2>1, Zenon DEF PersonOK
  <2> QED
    BY <1>2, <1>4, <2>2, Zenon
<1> QED
  BY <1>5, <1>6, <1>7, Zenon DEF PersonOK

LEMMA PeopleKept ==
    ASSUME PeopleOK, join' = join, FixedLocators,
           \A l \in Locator, j \in Joiner : Untouched(store[l], store'[l], j)
    PROVE  PeopleOK'
<1> SUFFICES ASSUME NEW j \in Joiner
             PROVE  PersonOK(j)'
  BY Zenon DEF PeopleOK
<1>1. PersonOK(j)
  BY Zenon DEF PeopleOK
<1>2. join'[j] = join[j]
  OBVIOUS
<1> QED
  BY <1>1, <1>2, PersonKept, Zenon

(* Nobody is newly served. *)
LEMMA ServedFewer ==
    ASSUME TypeOK, CountsOK, \A s \in Session : host'[s].joined = host[s].joined,
           \A s \in Session : Served(s)' \subseteq Served(s)
    PROVE  CountsOK'
<1>0. Counting
  BY Zenon DEF CountsOK
<1> SUFFICES ASSUME NEW s \in Session
             PROVE  Cardinality(Served(s)') <= host'[s].joined
  BY <1>0, Zenon DEF CountsOK
<1>1. Served(s) \in SUBSET Joiner /\ Served(s)' \in SUBSET Served(s) /\ Served(s)' \in SUBSET Joiner
  BY Zenon DEF Served
<1>2. Cardinality(Served(s)') <= Cardinality(Served(s))
  BY <1>0, <1>1, FewerCounted, Zenon
<1>3. Cardinality(Served(s)') \in Nat /\ Cardinality(Served(s)) \in Nat
  BY <1>0, <1>1, Counted, Zenon
<1>4. Cardinality(Served(s)) <= host[s].joined
  BY Zenon DEF CountsOK
<1>5. host[s].joined \in Nat /\ host'[s].joined = host[s].joined
  BY HostTypes, Zenon
<1> QED
  BY <1>2, <1>3, <1>4, <1>5

LEMMA CountsKept ==
    ASSUME TypeOK, CountsOK, \A s \in Session : host'[s].joined = host[s].joined,
           \A j \in Joiner : join'[j] = "in" => join[j] = "in",
           \A m \in wire' : m.kind = "transfer" => m \in wire,
           \A l \in Locator, s \in Session, j \in Joiner :
             HasTransfer(store'[l], s, j) => HasTransfer(store[l], s, j)
    PROVE  CountsOK'
<1>1. \A s, j : TransferOf(s, j).kind = "transfer"
  BY Zenon DEF TransferOf
<1>2. \A s \in Session : Served(s)' \subseteq Served(s)
  BY <1>1, Zenon DEF Served
<1> QED
  BY <1>2, ServedFewer, Zenon

(* A host with a reply under way goes on with it, or is over. *)
LEMMA WireKept ==
    ASSUME TypeOK, WireOK, wire' \subseteq wire,
           \A s \in Session : \/ host'[s] = host[s]
                              \/ host[s].at \notin {"replying", "over"}
                              \/ host'[s].at = "over" /\ At(s)' = At(s)
    PROVE  WireOK'
<1> SUFFICES ASSUME NEW m \in wire'
             PROVE  ReplyOK(m)'
  BY Zenon DEF WireOK
<1>1. m \in wire /\ m.by \in Session
  BY Zenon DEF TypeOK, Replies
<1>2. ReplyOK(m)
  BY <1>1, Zenon DEF WireOK
<1>3. CASE host'[m.by] = host[m.by]
  BY <1>1, <1>2, <1>3, Zenon DEF ReplyOK
<1>4. CASE host'[m.by].at = "over" /\ At(m.by)' = At(m.by)
  BY <1>1, <1>2, <1>4 DEF ReplyOK, At
<1>5. host[m.by].at \in {"replying", "over"}
  BY <1>2, Zenon DEF ReplyOK
<1> QED
  BY <1>1, <1>3, <1>4, <1>5, Zenon

(* A code is hosted on, its entry still agreeing with its host. *)
StaysHosted(s) ==
    /\ host[s].at \in Hosting /\ s \notin expired /\ ~Restarted
    /\ At(s)' = At(s) /\ host'[s].batch = host[s].batch
    /\ Routed(s) => Agrees(s, store'[At(s)], host[s].batch, wire')

LEMMA RoutesKept ==
    ASSUME RoutesOK,
           \A s \in Session : host'[s].at \in Hosting /\ s \notin expired' /\ ~Restarted' =>
                                StaysHosted(s)
    PROVE  RoutesOK'
<1> SUFFICES ASSUME NEW s \in Session, host'[s].at \in Hosting, s \notin expired', ~Restarted'
             PROVE  Routed(s)'
  BY Zenon DEF RoutesOK
<1>1. /\ At(s)' = At(s) /\ host'[s].batch = host[s].batch
      /\ Routed(s) => Agrees(s, store'[At(s)], host[s].batch, wire')
  BY Zenon DEF StaysHosted
<1>2. Routed(s)
  BY Zenon DEF StaysHosted, RoutesOK
<1> QED
  BY <1>1, <1>2, Zenon DEF Routed

LEMMA RouteFields ==
    ASSUME NEW s, Routed(s)
    PROVE  store[At(s)] # Absent /\ store[At(s)].by = s
BY AgreesFields, Zenon DEF Routed

(* The failures only add up. *)
LEMMA FaultKept ==
    ASSUME TypeOK, \/ faults' = faults \/ Fault("call") \/ Fault("restart"), ~Restarted'
    PROVE  ~Restarted
<1>1. faults \in Seq({"call", "restart"})
  BY Zenon DEF TypeOK
<1>2. CASE faults' = faults
  BY <1>2, Zenon DEF Restarted
<1>3. ASSUME NEW w \in {"call", "restart"}, faults' = Append(faults, w)
      PROVE  ~Restarted
  <2>1. \A i \in DOMAIN faults : i \in DOMAIN faults' /\ faults'[i] = faults[i]
    BY <1>1, <1>3
  <2> QED
    BY <2>1, Zenon DEF Restarted
<1> QED
  BY <1>2, <1>3, Zenon DEF Fault

LEMMA FaultType ==
    ASSUME TypeOK, \/ faults' = faults \/ Fault("call") \/ Fault("restart")
    PROVE  faults' \in Seq({"call", "restart"})
<1>1. faults \in Seq({"call", "restart"})
  BY Zenon DEF TypeOK
<1>2. ASSUME NEW w \in {"call", "restart"}
      PROVE  Append(faults, w) \in Seq({"call", "restart"})
  BY <1>1
<1> QED
  BY <1>1, <1>2, Zenon DEF Fault

-----------------------------------------------------------------------------
(* A host that goes quiet: its run ends, or a code of it is being made. *)

LEMMA EndedIs ==
    ASSUME TypeOK, HostsOK, NEW s \in Session
    PROVE  /\ Ended(s) \in HostType /\ HostOK(Ended(s)) /\ Ended(s).at = "over"
           /\ Ended(s).locator = host[s].locator /\ Ended(s).joined = host[s].joined
<1> DEFINE h == Ended(s)
<1>1. host[s] \in HostType
  BY HostTypes, Zenon
<1>2. h \in HostType
  <2>1. <<>> \in Seq(Message)
    OBVIOUS
  <2> QED
    BY <1>1, <2>1, Zenon DEF Ended, HostType
<1>3. /\ h.at = "over" /\ h.locator = host[s].locator /\ h.joined = host[s].joined
      /\ h.closed = TRUE
  BY <1>1 DEF Ended, HostType
<1>4. host[s].joined <= Uses
  BY Zenon DEF HostsOK, HostOK
<1> HIDE DEF h
<1>5. HostOK(h)
  BY <1>3, <1>4 DEF HostOK, Hosting
<1> QED
  BY <1>2, <1>3, <1>5, Zenon DEF h

(* Every host is as it was, over, or about to ask for its locator. *)
GoesQuiet(s) ==
    \/ host'[s] = host[s]
    \/ /\ \/ host'[s].at = "over"
          \/ host'[s].at = "creating" /\ host[s].at \in {"none", "creating"}
       /\ At(s)' = At(s) /\ host'[s].joined = host[s].joined

Quiet == \A s \in Session : GoesQuiet(s)

LEMMA QuietFacts ==
    ASSUME Quiet
    PROVE  /\ FixedLocators /\ \A s \in Session : host'[s].joined = host[s].joined
           /\ \A s \in Session : \/ host'[s] = host[s]
                                 \/ host[s].at \notin {"replying", "over"}
                                 \/ host'[s].at = "over" /\ At(s)' = At(s)
           /\ \A s \in Session : host'[s].at \in Hosting => host'[s] = host[s]
<1>1. ASSUME NEW s \in Session
      PROVE  /\ At(s)' = At(s) /\ host'[s].joined = host[s].joined
             /\ \/ host'[s] = host[s]
                \/ host[s].at \notin {"replying", "over"}
                \/ host'[s].at = "over" /\ At(s)' = At(s)
             /\ host'[s].at \in Hosting => host'[s] = host[s]
  <2>1. GoesQuiet(s)
    BY Zenon DEF Quiet
  <2>2. CASE host'[s] = host[s]
    BY <2>2, Zenon DEF At
  <2>3. CASE /\ \/ host'[s].at = "over"
                \/ host'[s].at = "creating" /\ host[s].at \in {"none", "creating"}
             /\ At(s)' = At(s) /\ host'[s].joined = host[s].joined
    BY <2>3 DEF Hosting
  <2> QED
    BY <2>1, <2>2, <2>3, Zenon DEF GoesQuiet
<1> QED
  BY <1>1, Zenon DEF FixedLocators

LEMMA EndedQuiet ==
    ASSUME TypeOK, HostsOK, NEW s \in Session, host' = [host EXCEPT ![s] = Ended(s)]
    PROVE  Quiet /\ HostsOK'
<1>1. /\ HostOK(Ended(s)) /\ Ended(s).at = "over"
      /\ Ended(s).locator = host[s].locator /\ Ended(s).joined = host[s].joined
  BY EndedIs, Zenon
<1>2. host'[s] = Ended(s) /\ \A k \in Session : k # s => host'[k] = host[k]
  BY HostSet, Zenon
<1>3. GoesQuiet(s)
  <2>1. host'[s].at = "over" /\ host'[s].locator = host[s].locator
        /\ host'[s].joined = host[s].joined
    BY <1>1, <1>2, Zenon
  <2> QED
    BY <2>1 DEF GoesQuiet, At
<1>4. Quiet
  BY <1>2, <1>3, Zenon DEF Quiet, GoesQuiet
<1>5. HostsOK'
  BY <1>1, HostsKept, Zenon
<1> QED
  BY <1>4, <1>5, Zenon

LEMMA EndedType ==
    ASSUME TypeOK, HostsOK, NEW s \in Session, host' = [host EXCEPT ![s] = Ended(s)]
    PROVE  host' \in [Session -> HostType]
<1>1. Ended(s) \in HostType
  BY EndedIs, Zenon
<1> QED
  BY <1>1, Zenon DEF TypeOK

(* The same store: nothing happens to anybody. *)
LEMMA SameUntouched ==
    ASSUME TypeOK, NEW l \in Locator, NEW j \in Joiner
    PROVE  Untouched(store[l], store[l], j)
BY Zenon DEF Untouched

(* What may happen to the store while nobody is served. *)
CalmStore ==
    /\ \A l \in Locator, j \in Joiner : Untouched(store[l], store'[l], j)
    /\ \A l \in Locator, s \in Session, j \in Joiner :
         HasTransfer(store'[l], s, j) => HasTransfer(store[l], s, j)
    /\ \A s \in Session :
         host[s].at \in Hosting /\ host'[s].at \in Hosting /\ s \notin expired' /\ ~Restarted' =>
           (Routed(s) => Agrees(s, store'[At(s)], host[s].batch, wire'))

LEMMA SameCalm ==
    ASSUME TypeOK, store' = store, wire' \subseteq wire
    PROVE  CalmStore
<1>1. \A l \in Locator, j \in Joiner : Untouched(store[l], store'[l], j)
  BY SameUntouched, Zenon
<1>2. \A s \in Session : Routed(s) => Agrees(s, store'[At(s)], host[s].batch, wire')
  BY OthersRepliesAgree, Zenon DEF Routed
<1> QED
  BY <1>1, <1>2, Zenon DEF CalmStore

(* A code that goes quiet concerns nobody at the relay. *)
LEMMA QuietKeeps ==
    ASSUME TypeOK, PeopleOK, WireOK, CountsOK, RoutesOK, Quiet, CalmStore,
           join' = join, wire' \subseteq wire, expired \subseteq expired',
           \/ faults' = faults \/ Fault("call") \/ Fault("restart")
    PROVE  PeopleOK' /\ WireOK' /\ CountsOK' /\ RoutesOK'
<1>1. PeopleOK'
  BY QuietFacts, PeopleKept, Zenon DEF CalmStore
<1>2. WireOK'
  BY QuietFacts, WireKept, Zenon
<1>3. CountsOK'
  BY QuietFacts, CountsKept, Zenon DEF CalmStore
<1>4. ASSUME NEW s \in Session, host'[s].at \in Hosting, s \notin expired', ~Restarted'
      PROVE  StaysHosted(s)
  <2>1. host'[s] = host[s] /\ host[s].at \in Hosting
    BY <1>4, QuietFacts, Zenon
  <2>2. ~Restarted /\ s \notin expired
    BY <1>4, FaultKept, Zenon
  <2>3. Routed(s) => Agrees(s, store'[At(s)], host[s].batch, wire')
    BY <1>4, <2>1, Zenon DEF CalmStore
  <2> QED
    BY <2>1, <2>2, <2>3, Zenon DEF StaysHosted, At
<1>5. RoutesOK'
  BY <1>4, RoutesKept, Zenon
<1> QED
  BY <1>1, <1>2, <1>3, <1>5, Zenon

-----------------------------------------------------------------------------
(* The code on show. *)

LEMMA CodesFacts ==
    ASSUME CodesOK
    PROVE  /\ codes.pending # Nobody => codes.session = Nobody
           /\ codes.live = codes.session
           /\ \A s \in Session : host[s].at = "creating" <=> s = codes.pending /\ s # Nobody
           /\ \A s \in Session : host[s].at \in Hosting <=> s = codes.session /\ s # Nobody
<1>1. {s \in Session : host[s].at = "creating"} = {codes.pending} \ {Nobody}
  BY Zenon DEF CodesOK
<1>2. {s \in Session : host[s].at \in Hosting} = {codes.session} \ {Nobody}
  BY Zenon DEF CodesOK, ShownIsHosted, Hosting
<1>3. \A s \in Session : host[s].at = "creating" <=> s = codes.pending /\ s # Nobody
  BY <1>1, Zenon
<1>4. \A s \in Session : host[s].at \in Hosting <=> s = codes.session /\ s # Nobody
  BY <1>2, Zenon
<1> QED
  BY <1>3, <1>4, Zenon DEF CodesOK, ShownIsHosted

(* The tab shows a and is making b. *)
Shows(a, b) ==
    /\ codes \in CodesType /\ codes.session = a /\ codes.live = a /\ codes.pending = b
    /\ \A s \in Session : host[s].at = "creating" <=> s = b /\ s # Nobody
    /\ \A s \in Session : host[s].at \in Hosting <=> s = a /\ s # Nobody

LEMMA CodesAre ==
    ASSUME NEW a, NEW b, Shows(a, b)', b = Nobody \/ a = Nobody
    PROVE  CodesOK' /\ codes' \in CodesType
<1>0. /\ codes' \in CodesType /\ codes'.session = a /\ codes'.live = a /\ codes'.pending = b
      /\ \A s \in Session : host'[s].at = "creating" <=> s = b /\ s # Nobody
      /\ \A s \in Session : host'[s].at \in Hosting <=> s = a /\ s # Nobody
  BY Zenon DEF Shows
<1>1. a \in Session \cup {Nobody} /\ b \in Session \cup {Nobody}
  BY <1>0, Zenon DEF CodesType
<1>2. {s \in Session : host'[s].at = "creating"} = {b} \ {Nobody}
  BY <1>0, <1>1, Zenon
<1>3. {s \in Session : host'[s].at \in Hosting} = {a} \ {Nobody}
  BY <1>0, <1>1, Zenon
<1>4. (codes'.pending # Nobody => codes'.session = Nobody) /\ codes'.live = codes'.session
  BY <1>0, Zenon
<1>5. ShownIsHosted'
  BY <1>0, <1>3, Zenon DEF ShownIsHosted, Hosting
<1> QED
  BY <1>0, <1>2, <1>4, <1>5, Zenon DEF CodesOK

LEMMA CodesTypes ==
    ASSUME TypeOK
    PROVE  /\ codes.session \in Session \cup {Nobody} /\ codes.pending \in Session \cup {Nobody}
           /\ codes.live \in Session \cup {Nobody}
BY Zenon DEF TypeOK, CodesType

LEMMA NobodyElse ==
    ASSUME NEW s \in Session
    PROVE  s # Nobody
BY PairingConstants, Zenon

(* The phases that are neither making a code nor hosting one. *)
LEMMA Phases ==
    /\ "over" \notin Hosting /\ "over" # "creating" /\ "creating" \notin Hosting
    /\ "polling" \in Hosting /\ "replying" \in Hosting /\ "none" \notin Hosting
    /\ "polling" # "creating" /\ "replying" # "creating" /\ "none" # "creating"
BY DEF Hosting

LEMMA ToldIs ==
    ASSUME TypeOK, NEW s \in Session, codes.session = s, codes' = Told(s)
    PROVE  /\ codes' \in CodesType /\ codes'.session = Nobody /\ codes'.live = Nobody
           /\ codes'.pending = codes.pending
<1>1. codes \in CodesType
  BY Zenon DEF TypeOK
<1> QED
  BY <1>1, Zenon DEF Told, CodesType

(* The code being hosted ends, and is off the view. *)
LEMMA CodesStop ==
    ASSUME TypeOK, HostsOK, CodesOK, NEW s \in Session, host[s].at \in Hosting,
           host' = [host EXCEPT ![s] = Ended(s)], codes' = Told(s)
    PROVE  CodesOK' /\ codes' \in CodesType
<1>1. codes.session = s /\ codes.pending = Nobody
  BY CodesFacts, NobodyElse, Zenon
<1>2. /\ codes' \in CodesType /\ codes'.session = Nobody /\ codes'.live = Nobody
      /\ codes'.pending = Nobody
  BY <1>1, ToldIs, Zenon
<1>3. host'[s].at = "over" /\ \A k \in Session : k # s => host'[k] = host[k]
  BY HostSet, EndedIs, Zenon
<1>4. ASSUME NEW k \in Session
      PROVE  host'[k].at # "creating" /\ host'[k].at \notin Hosting
  <2>1. CASE k = s
    BY <1>3, <2>1, Phases, Zenon
  <2>2. CASE k # s
    <3>1. host[k].at # "creating" /\ host[k].at \notin Hosting
      BY <1>1, <2>2, CodesFacts, NobodyElse, Zenon
    <3> QED
      BY <1>3, <2>2, <3>1, Zenon
  <2> QED
    BY <2>1, <2>2, Zenon
<1>5. CodesOK'
  <2>1. Shows(Nobody, Nobody)'
    BY <1>2, <1>4, Zenon DEF Shows
  <2> QED
    BY <2>1, CodesAre, Zenon
<1> QED
  BY <1>2, <1>5, Zenon

(* The code being made is given up. *)
LEMMA CodesFail ==
    ASSUME TypeOK, HostsOK, CodesOK, NEW s \in Session, host[s].at = "creating", CreateFails(s)
    PROVE  CodesOK' /\ codes' \in CodesType
<1>1. codes.session = Nobody /\ codes.pending = s /\ codes.live = Nobody
  BY CodesFacts, NobodyElse, Zenon
<1>2. codes' \in CodesType /\ codes'.pending = Nobody
  BY DEF TypeOK, CodesType, CreateFails
<1>3. codes'.session = Nobody /\ codes'.live = Nobody
  BY <1>1 DEF TypeOK, CodesType, CreateFails
<1>4. host'[s].at = "over" /\ \A k \in Session : k # s => host'[k] = host[k]
  BY HostSet, EndedIs, Zenon DEF CreateFails
<1>5. ASSUME NEW k \in Session
      PROVE  host'[k].at # "creating" /\ host'[k].at \notin Hosting
  BY <1>1, <1>4, CodesFacts, Phases, NobodyElse, Zenon
<1>6. CodesOK'
  <2>1. Shows(Nobody, Nobody)'
    BY <1>2, <1>3, <1>5, Zenon DEF Shows
  <2> QED
    BY <2>1, CodesAre, Zenon
<1> QED
  BY <1>2, <1>6, Zenon

(* Nobody starts or stops. *)
LEMMA CodesSame ==
    ASSUME TypeOK, CodesOK, codes' = codes,
           \A s \in Session : host'[s].at = "creating" <=> host[s].at = "creating",
           \A s \in Session : host'[s].at \in Hosting <=> host[s].at \in Hosting
    PROVE  CodesOK'
<1>1. codes' \in CodesType
  BY Zenon DEF TypeOK
<1>2. /\ codes.pending # Nobody => codes.session = Nobody
      /\ codes'.session = codes.session /\ codes'.live = codes.session
      /\ codes'.pending = codes.pending
  BY CodesFacts, Zenon
<1>3. \A s \in Session : host'[s].at = "creating" <=> s = codes.pending /\ s # Nobody
  BY CodesFacts, Zenon
<1>4. \A s \in Session : host'[s].at \in Hosting <=> s = codes.session /\ s # Nobody
  BY CodesFacts, Zenon
<1>5. ASSUME NEW a, a = codes.session, NEW b, b = codes.pending
      PROVE  CodesOK'
  <2>1. Shows(a, b)'
    BY <1>1, <1>2, <1>3, <1>4, <1>5, Zenon DEF Shows
  <2>2. b = Nobody \/ a = Nobody
    BY <1>2, <1>5, Zenon
  <2> QED
    BY <2>1, <2>2, CodesAre, Zenon
<1> QED
  BY <1>5, Zenon

LEMMA CancelsKept ==
    ASSUME TypeOK, CancelsOK, Quiet, NEW s \in Session, host'[s].at = "over", At(s) \in Locator,
           cancels' = cancels \cup {s}
    PROVE  CancelsOK' /\ cancels' \subseteq Session
<1> SUFFICES ASSUME NEW k \in cancels'
             PROVE  host'[k].at = "over" /\ At(k)' \in Locator /\ k \in Session
  BY Zenon DEF CancelsOK
<1>1. CASE k = s
  BY <1>1, QuietFacts, Zenon DEF FixedLocators
<1>2. CASE k \in cancels
  <2>1. k \in Session /\ host[k].at = "over" /\ At(k) \in Locator
    BY <1>2, Zenon DEF TypeOK, CancelsOK
  <2>2. At(k)' = At(k)
    BY <2>1, QuietFacts, Zenon DEF FixedLocators
  <2>3. host'[k] = host[k] \/ host'[k].at = "over"
    BY <2>1, QuietFacts, Zenon
  <2> QED
    BY <2>1, <2>2, <2>3, Zenon
<1> QED
  BY <1>1, <1>2, Zenon

LEMMA CancelsLeft ==
    ASSUME TypeOK, CancelsOK, Quiet, cancels' \subseteq cancels
    PROVE  CancelsOK' /\ cancels' \subseteq Session
<1> SUFFICES ASSUME NEW k \in cancels'
             PROVE  host'[k].at = "over" /\ At(k)' \in Locator /\ k \in Session
  BY Zenon DEF CancelsOK
<1>1. k \in Session /\ host[k].at = "over" /\ At(k) \in Locator
  BY Zenon DEF TypeOK, CancelsOK
<1>2. At(k)' = At(k)
  BY <1>1, QuietFacts, Zenon DEF FixedLocators
<1>3. host'[k] = host[k] \/ host'[k].at = "over"
  BY <1>1, QuietFacts, Zenon
<1> QED
  BY <1>1, <1>2, <1>3, Zenon

(* A run that stops: its host is over, its code off the view, its cancel sent. *)
LEMMA StopKeeps ==
    ASSUME TypeOK, HostsOK, CodesOK, CancelsOK, NEW s \in Session, host[s].at \in Hosting,
           HostStops(s)
    PROVE  /\ Quiet /\ HostsOK' /\ CodesOK' /\ CancelsOK'
           /\ host' \in [Session -> HostType] /\ codes' \in CodesType /\ cancels' \subseteq Session
<1>1. /\ host' = [host EXCEPT ![s] = Ended(s)] /\ codes' = Told(s) /\ cancels' = cancels \cup {s}
  BY Zenon DEF HostStops
<1>2. Quiet /\ HostsOK' /\ host' \in [Session -> HostType]
  BY <1>1, EndedQuiet, EndedType, Zenon
<1>3. CodesOK' /\ codes' \in CodesType
  BY <1>1, CodesStop, Zenon
<1>4. host'[s].at = "over"
  BY <1>1, HostSet, EndedIs, Zenon
<1>5. At(s) \in Locator
  BY Zenon DEF HostsOK, HostOK, At
<1>6. CancelsOK' /\ cancels' \subseteq Session
  BY <1>1, <1>2, <1>4, <1>5, CancelsKept, Zenon
<1> QED
  BY <1>2, <1>3, <1>6, Zenon

-----------------------------------------------------------------------------
(* The tab. *)

LEMMA SameHostsQuiet ==
    ASSUME host' = host
    PROVE  Quiet
BY Zenon DEF Quiet, GoesQuiet

LEMMA hostShortCodeKeeps ==
    ASSUME Inv, NEW s \in Session, hostShortCode(s)
    PROVE  Inv'
<1> DEFINE old == codes.session
           making == [host[s] EXCEPT !.at = "creating"]
<1>0. TypeOK /\ HostsOK /\ CodesOK /\ CancelsOK /\ EntriesOK
  BY Zenon DEF Inv
<1>1. /\ host[s].at = "none" /\ codes.pending = Nobody
      /\ host' = [k \in Session |-> IF k = s THEN [host[k] EXCEPT !.at = "creating"]
                                      ELSE IF k = old THEN Ended(k) ELSE host[k]]
      /\ cancels' = cancels \cup ({old} \ {Nobody})
      /\ codes' = [session |-> Nobody, pending |-> s, live |-> Nobody]
      /\ UNCHANGED <<store, join, wire, expired, faults>>
  BY DEF hostShortCode
<1>2. s # old /\ s # Nobody /\ old \in Session \cup {Nobody}
  BY <1>0, <1>1, CodesFacts, CodesTypes, NobodyElse, Phases, Zenon
<1>3. /\ host'[s] = making
      /\ \A k \in Session : k # s => host'[k] = IF k = old THEN Ended(k) ELSE host[k]
  BY <1>1, <1>2, Zenon
<1>4. /\ making \in HostType /\ making.at = "creating" /\ making.locator = host[s].locator
      /\ making.joined = host[s].joined /\ making.closed = host[s].closed
      /\ making.batch = host[s].batch
  <2>1. host[s] \in HostType
    BY <1>0, HostTypes, Zenon
  <2> QED
    BY <2>1 DEF HostType
<1> HIDE DEF making
<1>5. HostOK(making)
  <2>1. /\ host[s].joined <= Uses /\ (~host[s].closed => host[s].joined < Uses)
        /\ host[s].locator = Nobody /\ host[s].batch = <<>>
    BY <1>0, <1>1, Zenon DEF HostsOK, HostOK
  <2> QED
    BY <1>4, <2>1, Phases, Zenon DEF HostOK
<1>6. HostsOK'
  <2> SUFFICES ASSUME NEW k \in Session
               PROVE  HostOK(host'[k])
    BY Zenon DEF HostsOK
  <2>1. HostOK(host[k]) /\ HostOK(Ended(k))
    BY <1>0, EndedIs, Zenon DEF HostsOK
  <2> QED
    BY <1>3, <1>5, <2>1, Zenon
<1>7. Quiet
  <2> SUFFICES ASSUME NEW k \in Session
               PROVE  GoesQuiet(k)
    BY Zenon DEF Quiet
  <2>1. CASE k = s
    BY <1>1, <1>3, <1>4, <2>1, Zenon DEF GoesQuiet, At
  <2>2. CASE k # s /\ k = old
    <3>1. /\ host'[k].at = "over" /\ host'[k].locator = host[k].locator
          /\ host'[k].joined = host[k].joined
      BY <1>0, <1>3, <2>2, EndedIs, Zenon
    <3> QED
      BY <3>1, Zenon DEF GoesQuiet, At
  <2>3. CASE k # s /\ k # old
    BY <1>3, <2>3, Zenon DEF GoesQuiet
  <2> QED
    BY <2>1, <2>2, <2>3, Zenon
<1>8. codes' \in CodesType
  BY <1>1 DEF CodesType
<1>9. CodesOK'
  <2>1. codes'.session = Nobody /\ codes'.live = Nobody /\ codes'.pending = s
    BY <1>1, Zenon
  <2>2. ASSUME NEW k \in Session
        PROVE  /\ host'[k].at = "creating" <=> k = s
               /\ host'[k].at \notin Hosting
    <3>1. CASE k = s
      BY <1>3, <1>4, <3>1, Phases, Zenon
    <3>2. CASE k # s /\ k = old
      BY <1>0, <1>3, <3>2, EndedIs, Phases, Zenon
    <3>3. CASE k # s /\ k # old
      <4>1. host[k].at # "creating" /\ host[k].at \notin Hosting
        BY <1>0, <1>1, <3>3, CodesFacts, NobodyElse, Zenon
      <4> QED
        BY <1>3, <3>3, <4>1, Zenon
    <3> QED
      BY <3>1, <3>2, <3>3, Zenon
  <2>3. \A k \in Session : host'[k].at = "creating" <=> k = s /\ k # Nobody
    BY <2>2, NobodyElse, Zenon
  <2>4. \A k \in Session : host'[k].at \in Hosting <=> k = Nobody /\ k # Nobody
    BY <2>2, Zenon
  <2>5. Shows(Nobody, s)'
    BY <1>8, <2>1, <2>3, <2>4, Zenon DEF Shows
  <2> QED
    BY <2>5, CodesAre, Zenon
<1>10. CancelsOK' /\ cancels' \subseteq Session
  <2>1. CASE old = Nobody
    <3>1. cancels' \subseteq cancels
      BY <1>1, <2>1, Zenon
    <3> QED
      BY <1>0, <1>7, <3>1, CancelsLeft, Zenon
  <2>2. CASE old # Nobody
    <3>1. old \in Session /\ cancels' = cancels \cup {old}
      BY <1>1, <1>2, <2>2, Zenon
    <3>2. host'[old].at = "over"
      BY <1>0, <1>2, <1>3, <3>1, EndedIs, Zenon
    <3>3. host[old].at \in Hosting
      BY <1>0, <2>2, <3>1, CodesFacts, Zenon
    <3>4. At(old) \in Locator
      BY <1>0, <3>1, <3>3, Zenon DEF HostsOK, HostOK, At
    <3> HIDE DEF old
    <3> QED
      BY <1>0, <1>7, <3>1, <3>2, <3>4, CancelsKept, Zenon
  <2> QED
    BY <2>1, <2>2, Zenon
<1>11. PeopleOK' /\ WireOK' /\ CountsOK' /\ RoutesOK'
  <2>1. CalmStore
    BY <1>0, <1>1, SameCalm, Zenon
  <2>2. /\ join' = join /\ wire' \subseteq wire /\ expired \subseteq expired' /\ faults' = faults
        /\ PeopleOK /\ WireOK /\ CountsOK /\ RoutesOK
    BY <1>1, Zenon DEF Inv
  <2> QED
    BY <1>0, <1>7, <2>1, <2>2, QuietKeeps, Zenon
<1>12. TypeOK'
  <2>1. host' \in [Session -> HostType]
    <3>1. \A k \in Session : Ended(k) \in HostType /\ host[k] \in HostType
      BY <1>0, EndedIs, HostTypes, Zenon
    <3> QED
      BY <1>1, <1>4, <3>1 DEF making
  <2> QED
    BY <1>0, <1>1, <1>8, <1>10, <2>1, Zenon DEF TypeOK
<1>13. EntriesOK'
  BY <1>0, <1>1, Zenon DEF EntriesOK
<1> QED
  BY <1>6, <1>9, <1>10, <1>11, <1>12, <1>13, Zenon DEF Inv

LEMMA cancelShortCodeKeeps ==
    ASSUME Inv, cancelShortCode
    PROVE  Inv'
<1> DEFINE s == codes.session
<1>0. /\ TypeOK /\ HostsOK /\ CodesOK /\ CancelsOK /\ EntriesOK
      /\ PeopleOK /\ WireOK /\ CountsOK /\ RoutesOK
  BY Zenon DEF Inv
<1>1. s \in Session /\ host[s].at \in Hosting
  BY <1>0, CodesTypes, CodesFacts, Zenon DEF cancelShortCode
<1>2. HostStops(s)
  BY Zenon DEF HostStops, cancelShortCode, Told
<1>3. UNCHANGED <<store, join, wire, expired, faults>>
  BY Zenon DEF cancelShortCode
<1> HIDE DEF s
<1>4. /\ Quiet /\ HostsOK' /\ CodesOK' /\ CancelsOK'
      /\ host' \in [Session -> HostType] /\ codes' \in CodesType /\ cancels' \subseteq Session
  BY <1>0, <1>1, <1>2, StopKeeps, Zenon
<1>5. CalmStore
  BY <1>0, <1>3, SameCalm, Zenon
<1>6. PeopleOK' /\ WireOK' /\ CountsOK' /\ RoutesOK'
  BY <1>0, <1>3, <1>4, <1>5, QuietKeeps, Zenon
<1>7. TypeOK'
  BY <1>0, <1>3, <1>4, Zenon DEF TypeOK
<1>8. EntriesOK'
  BY <1>0, <1>3, Zenon DEF EntriesOK
<1> QED
  BY <1>4, <1>6, <1>7, <1>8, Zenon DEF Inv

(* A fresh entry at a free locator. *)
LEMMA FreshCalm ==
    ASSUME Counting, TypeOK, EntriesOK, HostsOK, NEW s \in Session, NEW l \in Locator, store[l] = Absent,
           store' = [store EXCEPT ![l] = Entry(s)], wire' = wire
    PROVE  /\ CalmStore /\ EntriesOK' /\ store' \in [Locator -> EntryType \cup {Absent}]
           /\ store'[l] = Entry(s)
<1>1. store'[l] = Entry(s) /\ \A k \in Locator : k # l => store'[k] = store[k]
  BY StoreSet, Zenon
<1>2. /\ Entry(s) \in EntryType /\ EntryOK(Entry(s))
      /\ \A j \in Joiner : Entry(s).stage[j] = "none"
  BY EntryFresh, Zenon
<1>3. EntriesOK'
  BY <1>2, EntriesKept, Zenon
<1>4. store' \in [Locator -> EntryType \cup {Absent}]
  BY <1>2, Zenon DEF TypeOK
<1>5. ASSUME NEW k \in Locator, NEW j \in Joiner
      PROVE  Untouched(store[k], store'[k], j)
  <2>1. CASE k = l
    BY <1>1, <1>2, <2>1, Zenon DEF Untouched
  <2>2. CASE k # l
    BY <1>1, <2>2, SameUntouched, Zenon
  <2> QED
    BY <2>1, <2>2, Zenon
<1>6. ASSUME NEW k \in Locator, NEW t \in Session, NEW j \in Joiner, HasTransfer(store'[k], t, j)
      PROVE  HasTransfer(store[k], t, j)
  <2>1. k # l
    <3>1. store'[k].stage[j] = "transfer"
      BY <1>6, Zenon DEF HasTransfer
    <3>2. "transfer" # "none"
      OBVIOUS
    <3> QED
      BY <1>1, <1>2, <3>1, <3>2, Zenon
  <2> QED
    BY <1>1, <1>6, <2>1, Zenon
<1>7. ASSUME NEW t \in Session, host[t].at \in Hosting, Routed(t)
      PROVE  Agrees(t, store'[At(t)], host[t].batch, wire')
  <2>1. store[At(t)] # Absent
    BY <1>7, RouteFields, Zenon
  <2>2. At(t) # l /\ At(t) \in Locator
    BY <1>7, <2>1, HostsAt, Zenon
  <2>3. store'[At(t)] = store[At(t)]
    BY <1>1, <2>2, Zenon
  <2> QED
    BY <1>7, <2>3, Zenon DEF Routed
<1>8. CalmStore
  BY <1>5, <1>6, <1>7, Zenon DEF CalmStore
<1> QED
  BY <1>1, <1>3, <1>4, <1>8, Zenon

(* A step that serves nobody keeps the whole invariant. *)
LEMMA QuietStep ==
    ASSUME Inv, Quiet, CalmStore, HostsOK', CodesOK', EntriesOK', CancelsOK',
           host' \in [Session -> HostType], codes' \in CodesType, cancels' \subseteq Session,
           store' \in [Locator -> EntryType \cup {Absent}],
           join' = join, wire' \subseteq wire, expired \subseteq expired', expired' \subseteq Session,
           \/ faults' = faults \/ Fault("call") \/ Fault("restart")
    PROVE  Inv'
<1>0. TypeOK /\ PeopleOK /\ WireOK /\ CountsOK /\ RoutesOK
  BY Zenon DEF Inv
<1>1. PeopleOK' /\ WireOK' /\ CountsOK' /\ RoutesOK'
  BY <1>0, QuietKeeps, Zenon
<1>2. faults' \in Seq({"call", "restart"})
  BY <1>0, FaultType, Zenon
<1>3. join' \in [Joiner -> {"idle", "polling", "finishing"} \cup Done] /\ wire' \subseteq Replies
  BY <1>0, Zenon DEF TypeOK
<1>4. TypeOK'
  BY <1>2, <1>3, Zenon DEF TypeOK
<1> QED
  BY <1>1, <1>4, Zenon DEF Inv

(* A create that fails ends the making of the code. *)
LEMMA FailKeeps ==
    ASSUME TypeOK, HostsOK, CodesOK, CancelsOK, NEW s \in Session, host[s].at = "creating",
           CreateFails(s), cancels' = cancels
    PROVE  /\ Quiet /\ HostsOK' /\ CodesOK' /\ CancelsOK'
           /\ host' \in [Session -> HostType] /\ codes' \in CodesType /\ cancels' \subseteq Session
<1>1. host' = [host EXCEPT ![s] = Ended(s)]
  BY Zenon DEF CreateFails
<1>2. Quiet /\ HostsOK' /\ host' \in [Session -> HostType]
  BY <1>1, EndedQuiet, EndedType, Zenon
<1>3. CodesOK' /\ codes' \in CodesType
  BY CodesFail, Zenon
<1>4. CancelsOK' /\ cancels' \subseteq Session
  BY <1>2, CancelsLeft, Zenon
<1> QED
  BY <1>2, <1>3, <1>4, Zenon

LEMMA RetryKeeps ==
    ASSUME Inv, NEW s \in Session, host[s].at = "creating",
           host' = [host EXCEPT ![s].tries = @ + 1],
           UNCHANGED <<store, join, codes, wire, cancels, expired, faults>>
    PROVE  Inv'
<1> DEFINE h == [host[s] EXCEPT !.tries = @ + 1]
<1>0. /\ TypeOK /\ HostsOK /\ CodesOK /\ CancelsOK /\ EntriesOK
  BY Zenon DEF Inv
<1>1. host' = [host EXCEPT ![s] = h]
  BY Zenon
<1>2. /\ h \in HostType /\ h.at = "creating" /\ h.locator = host[s].locator
      /\ h.joined = host[s].joined /\ h.closed = host[s].closed /\ h.batch = host[s].batch
  <2>1. host[s] \in HostType
    BY <1>0, HostTypes, Zenon
  <2>2. host[s].tries + 1 \in Nat
    BY <2>1 DEF HostType
  <2>3. h \in HostType
    BY <2>1, <2>2, Zenon DEF HostType
  <2>4. /\ h.at = "creating" /\ h.locator = host[s].locator
        /\ h.joined = host[s].joined /\ h.closed = host[s].closed /\ h.batch = host[s].batch
    BY <2>1, Zenon DEF HostType
  <2> QED
    BY <2>3, <2>4, Zenon
<1> HIDE DEF h
<1>3. host'[s] = h /\ \A k \in Session : k # s => host'[k] = host[k]
  BY <1>0, <1>1, HostSet, Zenon
<1>4. HostOK(h)
  <2>1. /\ host[s].joined <= Uses /\ (~host[s].closed => host[s].joined < Uses)
        /\ host[s].locator = Nobody /\ host[s].batch = <<>>
    BY <1>0, Zenon DEF HostsOK, HostOK
  <2> QED
    BY <1>2, <2>1, Phases, Zenon DEF HostOK
<1>5. HostsOK'
  BY <1>0, <1>1, <1>4, HostsKept, Zenon
<1>6. Quiet
  <2>1. /\ host'[s].at = "creating" /\ host'[s].locator = host[s].locator
        /\ host'[s].joined = host[s].joined
    BY <1>2, <1>3, Zenon
  <2>2. GoesQuiet(s)
    BY <2>1, Zenon DEF GoesQuiet, At
  <2> QED
    BY <1>3, <2>2, Zenon DEF Quiet, GoesQuiet
<1>7. CodesOK'
  <2>1. \A k \in Session : host'[k].at = host[k].at
    BY <1>2, <1>3, Zenon
  <2> QED
    BY <1>0, <2>1, CodesSame, Zenon
<1>8. CancelsOK' /\ cancels' \subseteq Session
  BY <1>0, <1>6, CancelsLeft, Zenon
<1>9. CalmStore
  BY <1>0, SameCalm, Zenon
<1>10. host' \in [Session -> HostType]
  BY <1>0, <1>1, <1>2, Zenon DEF TypeOK
<1>11. /\ EntriesOK' /\ codes' \in CodesType /\ store' \in [Locator -> EntryType \cup {Absent}]
       /\ expired' \subseteq Session
  BY <1>0, Zenon DEF EntriesOK, TypeOK
<1> QED
  BY <1>5, <1>6, <1>7, <1>8, <1>9, <1>10, <1>11, QuietStep, Zenon

(* The code is made: its host polls for the people who type it. *)
LEMMA MadeKeeps ==
    ASSUME Inv, NEW s \in Session, host[s].at = "creating", NEW l \in Locator, store[l] = Absent,
           store' = [store EXCEPT ![l] = Entry(s)],
           host' = [host EXCEPT ![s].at = "polling", ![s].locator = l],
           codes' = [session |-> s, pending |-> Nobody, live |-> s],
           UNCHANGED <<join, wire, cancels, expired, faults>>
    PROVE  Inv'
<1> DEFINE h == [host[s] EXCEPT !.at = "polling", !.locator = l]
<1>0. /\ TypeOK /\ HostsOK /\ CodesOK /\ CancelsOK /\ EntriesOK
      /\ PeopleOK /\ WireOK /\ CountsOK /\ RoutesOK
  BY Zenon DEF Inv
<1>1. host' = [host EXCEPT ![s] = h]
  BY Zenon DEF TypeOK
<1>2. /\ h \in HostType /\ h.at = "polling" /\ h.locator = l
      /\ h.joined = host[s].joined /\ h.closed = host[s].closed /\ h.batch = host[s].batch
  <2>1. host[s] \in HostType
    BY <1>0, HostTypes, Zenon
  <2> QED
    BY <2>1, Zenon DEF HostType, Hosting
<1> HIDE DEF h
<1>3. host'[s] = h /\ \A k \in Session : k # s => host'[k] = host[k]
  BY <1>0, <1>1, HostSet, Zenon
<1>4. /\ host[s].joined <= Uses /\ (~host[s].closed => host[s].joined < Uses)
      /\ host[s].locator = Nobody /\ host[s].batch = <<>>
  BY <1>0, Zenon DEF HostsOK, HostOK
<1>5. HostsOK'
  <2>1. HostOK(h)
    BY <1>2, <1>4 DEF HostOK
  <2> QED
    BY <1>0, <1>1, <2>1, HostsKept, Zenon
<1>6. /\ CalmStore /\ EntriesOK' /\ store' \in [Locator -> EntryType \cup {Absent}]
      /\ store'[l] = Entry(s)
  BY <1>0, FreshCalm, Zenon DEF CountsOK
<1>7. FixedLocators
  <2>1. Nobody \notin Locator
    BY PairingConstants, Zenon
  <2> QED
    BY <1>3, <1>4, <2>1, Zenon DEF FixedLocators, At
<1>8. PeopleOK'
  BY <1>0, <1>6, <1>7, PeopleKept, Zenon DEF CalmStore
<1>9. WireOK'
  <2>1. host[s].at \notin {"replying", "over"}
    OBVIOUS
  <2> QED
    BY <1>0, <1>3, <2>1, WireKept, Zenon
<1>10. CountsOK'
  <2>1. \A k \in Session : host'[k].joined = host[k].joined
    BY <1>2, <1>3, Zenon
  <2> QED
    BY <1>0, <1>6, <2>1, CountsKept, Zenon DEF CalmStore
<1>11. RoutesOK'
  <2> SUFFICES ASSUME NEW k \in Session, host'[k].at \in Hosting, k \notin expired', ~Restarted'
               PROVE  Routed(k)'
    BY Zenon DEF RoutesOK
  <2>1. CASE k = s
    <3>1. At(s)' = l /\ host'[s].batch = <<>>
      BY <1>2, <1>3, <1>4, Zenon DEF At
    <3>2. \A m \in wire' : m.by # s
      <4>1. "creating" \notin {"replying", "over"}
        OBVIOUS
      <4> QED
        BY <1>0, <4>1, Zenon DEF WireOK, ReplyOK
    <3>3. 1..Len(<<>>) = {}
      OBVIOUS
    <3>4. Entry(s).inbox = <<>> /\ Entry(s).by = s /\ Entry(s) # Absent
      BY <1>0, EntryFresh, EntryIsThere, Zenon DEF CountsOK
    <3>5. \A e : Waiting(e, <<>>)
      BY <3>3, Zenon DEF Waiting
    <3>6. Apart(<<>>, <<>>)
      BY <3>3, Zenon DEF Apart
    <3>7. Agrees(s, Entry(s), <<>>, wire')
      BY <3>2, <3>4, <3>5, <3>6, Zenon DEF Agrees
    <3> QED
      BY <1>6, <2>1, <3>1, <3>7, Zenon DEF Routed
  <2>2. CASE k # s
    <3>1. host[k].at \in Hosting /\ host'[k] = host[k]
      BY <1>3, <2>2, Zenon
    <3>2. ~Restarted /\ k \notin expired
      BY <1>0, FaultKept, Zenon
    <3>3. Routed(k)
      BY <1>0, <3>1, <3>2, Zenon DEF RoutesOK
    <3>4. Agrees(k, store'[At(k)], host[k].batch, wire')
      BY <1>6, <3>1, <3>3, Zenon DEF CalmStore
    <3> QED
      BY <3>1, <3>4, Zenon DEF Routed, At
  <2> QED
    BY <2>1, <2>2, Zenon
<1>12. codes' \in CodesType
  BY DEF CodesType
<1>13. CodesOK'
  <2>1. codes'.session = s /\ codes'.live = s /\ codes'.pending = Nobody
    BY Zenon
  <2>2. codes.session = Nobody /\ codes.pending = s
    BY <1>0, CodesFacts, NobodyElse, Zenon
  <2>3. \A k \in Session : host'[k].at = "creating" <=> k = Nobody /\ k # Nobody
    BY <1>0, <1>2, <1>3, <2>2, CodesFacts, Phases, Zenon
  <2>4. \A k \in Session : host'[k].at \in Hosting <=> k = s /\ k # Nobody
    <3>1. host'[s].at \in Hosting /\ s # Nobody
      BY <1>2, <1>3, Phases, NobodyElse, Zenon
    <3>2. \A k \in Session : k # s => host'[k].at \notin Hosting
      BY <1>0, <1>3, <2>2, CodesFacts, NobodyElse, Zenon
    <3> QED
      BY <3>1, <3>2, Zenon
  <2>5. Shows(s, Nobody)'
    BY <1>12, <2>1, <2>3, <2>4, Zenon DEF Shows
  <2> QED
    BY <2>5, CodesAre, Zenon
<1>14. CancelsOK'
  <2>1. "creating" # "over"
    OBVIOUS
  <2> QED
    BY <1>0, <1>3, <2>1, Zenon DEF CancelsOK, At, TypeOK
<1>15. TypeOK'
  <2>1. host' \in [Session -> HostType]
    BY <1>0, <1>1, <1>2, Zenon DEF TypeOK
  <2> QED
    BY <1>0, <1>6, <1>12, <2>1, Zenon DEF TypeOK
<1> QED
  BY <1>5, <1>6, <1>8, <1>9, <1>10, <1>11, <1>13, <1>14, <1>15, Zenon DEF Inv

-----------------------------------------------------------------------------
(* The tab hosting a code, a cancel, an expiry and a restart of the relay. *)

LEMMA createKeeps ==
    ASSUME Inv, NEW s \in Session, create(s)
    PROVE  Inv'
<1>0. /\ TypeOK /\ HostsOK /\ CodesOK /\ CancelsOK /\ EntriesOK /\ Counting
  BY Zenon DEF Inv, CountsOK
<1>1. host[s].at = "creating" /\ UNCHANGED <<join, wire, cancels, expired>>
  BY Zenon DEF create
<1>2. expired' \subseteq Session /\ expired \subseteq expired'
  BY <1>0, <1>1, Zenon DEF TypeOK
<1>3. ASSUME CreateFails(s), store' = store, faults' = faults
      PROVE  Inv'
  <2>1. /\ Quiet /\ HostsOK' /\ CodesOK' /\ CancelsOK'
        /\ host' \in [Session -> HostType] /\ codes' \in CodesType /\ cancels' \subseteq Session
    BY <1>0, <1>1, <1>3, FailKeeps, Zenon
  <2>2. CalmStore
    BY <1>0, <1>1, <1>3, SameCalm, Zenon
  <2>3. EntriesOK' /\ store' \in [Locator -> EntryType \cup {Absent}]
    BY <1>0, <1>3, Zenon DEF EntriesOK, TypeOK
  <2> QED
    BY <1>1, <1>2, <1>3, <2>1, <2>2, <2>3, QuietStep, Zenon
<1>4. ASSUME NEW l \in Locator, store[l] = Absent, store' = [store EXCEPT ![l] = Entry(s)],
             CreateFails(s), Fault("call")
      PROVE  Inv'
  <2>1. /\ Quiet /\ HostsOK' /\ CodesOK' /\ CancelsOK'
        /\ host' \in [Session -> HostType] /\ codes' \in CodesType /\ cancels' \subseteq Session
    BY <1>0, <1>1, <1>4, FailKeeps, Zenon
  <2>2. CalmStore /\ EntriesOK' /\ store' \in [Locator -> EntryType \cup {Absent}]
    BY <1>0, <1>1, <1>4, FreshCalm, Zenon
  <2> QED
    BY <1>1, <1>2, <1>4, <2>1, <2>2, QuietStep, Zenon
<1>5. ASSUME NEW l \in Locator, store[l] = Absent, store' = [store EXCEPT ![l] = Entry(s)],
             host' = [host EXCEPT ![s].at = "polling", ![s].locator = l],
             codes' = [session |-> s, pending |-> Nobody, live |-> s], faults' = faults
      PROVE  Inv'
  BY <1>1, <1>5, MadeKeeps, Zenon
<1>6. ASSUME host' = [host EXCEPT ![s].tries = @ + 1], codes' = codes,
             store' = store, faults' = faults
      PROVE  Inv'
  BY <1>1, <1>6, RetryKeeps, Zenon
<1> QED
  BY <1>3, <1>4, <1>5, <1>6, Zenon DEF create

(* One entry replaced by what the same code's entry becomes. *)
EntryBecomes(l, d) ==
    /\ store[l] \in EntryType /\ d \in EntryType /\ d.by = store[l].by
    /\ store' = [store EXCEPT ![l] = d]

LEMMA BecomesFacts ==
    ASSUME TypeOK, HostsOK, EntriesOK, NEW l \in Locator, NEW d, EntryBecomes(l, d), EntryOK(d),
           \A j \in Joiner : Untouched(store[l], d, j)
    PROVE  /\ store' \in [Locator -> EntryType \cup {Absent}] /\ EntriesOK' /\ store'[l] = d
           /\ \A k \in Locator : k # l => store'[k] = store[k]
           /\ \A k \in Locator, j \in Joiner : Untouched(store[k], store'[k], j)
           /\ \A t \in Session : host[t].at \in Hosting /\ Routed(t) =>
                At(t) = l \/ store'[At(t)] = store[At(t)]
           /\ \A t \in Session : Routed(t) /\ At(t) = l => t = store[l].by
<1>1. store' = [store EXCEPT ![l] = d] /\ d \in EntryType
  BY Zenon DEF EntryBecomes
<1>2. store'[l] = d /\ \A k \in Locator : k # l => store'[k] = store[k]
  BY <1>1, StoreSet, Zenon
<1>3. store' \in [Locator -> EntryType \cup {Absent}]
  BY <1>1, Zenon DEF TypeOK
<1>4. EntriesOK'
  BY <1>1, EntriesKept, Zenon
<1>5. \A k \in Locator, j \in Joiner : Untouched(store[k], store'[k], j)
  BY <1>2, SameUntouched, Zenon
<1>6. \A t \in Session : host[t].at \in Hosting /\ Routed(t) =>
        At(t) = l \/ store'[At(t)] = store[At(t)]
  BY <1>2, HostsAt, Zenon
<1>7. \A t \in Session : Routed(t) /\ At(t) = l => t = store[l].by
  BY RouteFields, Zenon
<1> QED
  BY <1>2, <1>3, <1>4, <1>5, <1>6, <1>7, Zenon

LEMMA NoNewTransfer ==
    ASSUME TypeOK, NEW l \in Locator, NEW d, EntryBecomes(l, d),
           \A j \in Joiner : d.stage[j] = "transfer" => store[l].stage[j] = "transfer",
           NEW k \in Locator, NEW t \in Session, NEW j \in Joiner, HasTransfer(store'[k], t, j)
    PROVE  HasTransfer(store[k], t, j)
<1>1. store' = [store EXCEPT ![l] = d] /\ store[l] # Absent /\ d.by = store[l].by
  BY EntryIsThere, Zenon DEF EntryBecomes
<1>2. store'[l] = d /\ \A i \in Locator : i # l => store'[i] = store[i]
  BY <1>1, StoreSet, Zenon
<1>3. CASE k = l
  BY <1>1, <1>2, <1>3, Zenon DEF HasTransfer
<1>4. CASE k # l
  BY <1>2, <1>4, Zenon
<1> QED
  BY <1>3, <1>4, Zenon

(* How a host-poll cuts the inbox. *)
LEMMA BatchIs ==
    ASSUME NEW q \in Seq(Message)
    PROVE  \A n \in pairingBatch(q) : n \in 0..Len(q) /\ n \in Nat
BY PairingConstants DEF pairingBatch

LEMMA HostLapsesKeeps ==
    ASSUME Inv, NEW s \in Session, HostLapses(s)
    PROVE  Inv'
<1>0. /\ TypeOK /\ HostsOK /\ CodesOK /\ CancelsOK /\ EntriesOK
  BY Zenon DEF Inv
<1>1. /\ host[s].at \in Hosting /\ host' = [host EXCEPT ![s] = Ended(s)] /\ codes' = Told(s)
      /\ UNCHANGED <<store, join, wire, cancels, expired, faults>>
  BY Phases, Zenon DEF HostLapses
<1>2. Quiet /\ HostsOK' /\ host' \in [Session -> HostType]
  BY <1>0, <1>1, EndedQuiet, EndedType, Zenon
<1>3. CodesOK' /\ codes' \in CodesType
  BY <1>0, <1>1, CodesStop, Zenon
<1>4. CancelsOK' /\ cancels' \subseteq Session
  BY <1>0, <1>1, <1>2, CancelsLeft, Zenon
<1>5. CalmStore
  BY <1>0, <1>1, SameCalm, Zenon
<1>6. EntriesOK' /\ store' \in [Locator -> EntryType \cup {Absent}] /\ expired' \subseteq Session
  BY <1>0, <1>1, Zenon DEF EntriesOK, TypeOK
<1> QED
  BY <1>1, <1>2, <1>3, <1>4, <1>5, <1>6, QuietStep, Zenon

LEMMA HostPollKeeps ==
    ASSUME Inv, NEW s \in Session, HostPoll(s)
    PROVE  Inv'
<1> DEFINE l == At(s)
           e == store[l]
           q == e.inbox
<1>0. /\ TypeOK /\ HostsOK /\ CodesOK /\ CancelsOK /\ EntriesOK
      /\ PeopleOK /\ WireOK /\ CountsOK /\ RoutesOK
  BY Zenon DEF Inv
<1>1. /\ host[s].at = "polling" /\ host[s].batch = <<>>
      /\ UNCHANGED <<join, wire, expired>> /\ s \notin expired
  BY Zenon DEF HostPoll, active
<1>2. host[s].at \in Hosting /\ l \in Locator
  BY <1>0, <1>1, Phases, HostsAt, Zenon
<1>3. expired' \subseteq Session /\ expired \subseteq expired' /\ wire' \subseteq wire
  BY <1>0, <1>1, Zenon DEF TypeOK
<1>4. ASSUME ~Held(s), HostStops(s), store' = store, faults' = faults
      PROVE  Inv'
  <2>1. /\ Quiet /\ HostsOK' /\ CodesOK' /\ CancelsOK'
        /\ host' \in [Session -> HostType] /\ codes' \in CodesType /\ cancels' \subseteq Session
    BY <1>0, <1>2, <1>4, StopKeeps, Zenon
  <2>2. CalmStore
    BY <1>0, <1>3, <1>4, SameCalm, Zenon
  <2>3. EntriesOK' /\ store' \in [Locator -> EntryType \cup {Absent}]
    BY <1>0, <1>4, Zenon DEF EntriesOK, TypeOK
  <2> QED
    BY <1>1, <1>3, <1>4, <2>1, <2>2, <2>3, QuietStep, Zenon
<1>5. ASSUME Held(s), NEW n \in pairingBatch(q),
             store' = [store EXCEPT ![l].inbox = SubSeq(@, n + 1, Len(@))],
             \/ host' = [host EXCEPT ![s].batch = SubSeq(q, 1, n)] /\ UNCHANGED <<codes, cancels, faults>>
             \/ HostStops(s) /\ Fault("call")
      PROVE  Inv'
  <2> DEFINE f == SubSeq(q, 1, n)
             r == SubSeq(q, n + 1, Len(q))
             d == [e EXCEPT !.inbox = r]
             h == [host[s] EXCEPT !.batch = f]
  <2>1. e \in EntryType /\ e.by = s
    BY <1>0, <1>2, <1>5, HeldIsEntry, Zenon DEF Held
  <2>2. EntryOK(e) /\ e # Absent
    BY <1>0, <1>2, <2>1, EntryIsThere, Zenon DEF EntriesOK
  <2>3. q \in Seq(Message)
    BY <2>1, EntryFields, Zenon
  <2>4. n \in 0..Len(q) /\ n \in Nat
    BY <2>3, BatchIs, Zenon
  <2>5. CutInTwo(q, n, f, r)
    BY <2>3, <2>4, Cut, Zenon
  <2>6. f \in Seq(Message) /\ r \in Seq(Message)
    BY <2>5, Zenon DEF CutInTwo
  <2>7. store' = [store EXCEPT ![l] = d]
    BY <1>5, Zenon
  <2> HIDE DEF r, f, q
  <2>8. /\ d \in EntryType /\ EntryOK(d) /\ d.by = e.by /\ d.stage = e.stage
        /\ d.inbox = r /\ d.box = e.box
    BY <2>1, <2>2, <2>6, DrainedEntry
  <2> HIDE DEF d
  <2>9. d # Absent
    BY <2>8, EntryIsThere, Zenon
  <2>10. EntryBecomes(l, d)
    BY <2>1, <2>7, <2>8, Zenon DEF EntryBecomes
  <2>11. \A j \in Joiner : Untouched(e, d, j)
    BY <2>2, <2>8, Zenon DEF Untouched
  <2> HIDE DEF e, l
  <2>12. /\ store' \in [Locator -> EntryType \cup {Absent}] /\ EntriesOK' /\ store'[l] = d
         /\ \A k \in Locator, j \in Joiner : Untouched(store[k], store'[k], j)
         /\ \A t \in Session : host[t].at \in Hosting /\ Routed(t) =>
              At(t) = l \/ store'[At(t)] = store[At(t)]
         /\ \A t \in Session : Routed(t) /\ At(t) = l => t = s
    BY <1>0, <1>2, <2>1, <2>8, <2>10, <2>11, BecomesFacts DEF e
  <2>13. \A k \in Locator, t \in Session, j \in Joiner :
           HasTransfer(store'[k], t, j) => HasTransfer(store[k], t, j)
    <3>1. \A j \in Joiner : d.stage[j] = "transfer" => store[l].stage[j] = "transfer"
      BY <2>8, Zenon DEF e
    <3> QED
      BY <1>0, <1>2, <2>10, <3>1, NoNewTransfer, ZenonT(60)
  <2>14. CASE HostStops(s) /\ Fault("call")
    <3>1. /\ Quiet /\ HostsOK' /\ CodesOK' /\ CancelsOK'
          /\ host' \in [Session -> HostType] /\ codes' \in CodesType /\ cancels' \subseteq Session
      BY <1>0, <1>2, <2>14, StopKeeps, Zenon
    <3>2. host'[s].at \notin Hosting
      <4>1. host' = [host EXCEPT ![s] = Ended(s)]
        BY <2>14, Zenon DEF HostStops
      <4>2. host'[s].at = "over"
        BY <1>0, <4>1, HostSet, EndedIs, Zenon
      <4> QED
        BY <4>2, Phases, Zenon
    <3>3. ASSUME NEW t \in Session, host[t].at \in Hosting, host'[t].at \in Hosting, Routed(t)
          PROVE  Agrees(t, store'[At(t)], host[t].batch, wire')
      BY <1>1, <2>12, <3>2, <3>3, Zenon DEF Routed
    <3>4. CalmStore
      BY <2>12, <2>13, <3>3, Zenon DEF CalmStore
    <3> QED
      BY <1>1, <1>3, <2>12, <2>14, <3>1, <3>4, QuietStep, Zenon
  <2>15. CASE host' = [host EXCEPT ![s].batch = f] /\ UNCHANGED <<codes, cancels, faults>>
    <3>1. host' = [host EXCEPT ![s] = h]
      BY <2>15, Zenon
    <3>2. /\ h \in HostType /\ h.at = host[s].at /\ h.locator = host[s].locator
          /\ h.joined = host[s].joined /\ h.closed = host[s].closed /\ h.batch = f
      <4>1. host[s] \in HostType
        BY <1>0, HostTypes, Zenon
      <4>2. h \in HostType
        BY <2>6, <4>1, Zenon DEF HostType
      <4>3. /\ h.at = host[s].at /\ h.locator = host[s].locator
            /\ h.joined = host[s].joined /\ h.closed = host[s].closed /\ h.batch = f
        BY <4>1, Zenon DEF HostType
      <4> QED
        BY <4>2, <4>3, Zenon
    <3> HIDE DEF h
    <3>3. host'[s] = h /\ \A k \in Session : k # s => host'[k] = host[k]
      BY <1>0, <3>1, HostSet, Zenon
    <3>4. HostOK(h)
      <4>1. HostOK(host[s]) /\ "polling" \notin {"none", "creating"}
        BY <1>0, Zenon DEF HostsOK
      <4> QED
        BY <1>1, <3>2, <4>1, Zenon DEF HostOK
    <3>5. HostsOK'
      BY <1>0, <3>1, <3>4, HostsKept, Zenon
    <3>6. /\ FixedLocators /\ \A k \in Session : host'[k].joined = host[k].joined
          /\ \A k \in Session : host'[k].at = host[k].at
          /\ \A k \in Session : host'[k].locator = host[k].locator
      BY <3>2, <3>3, Zenon DEF FixedLocators, At
    <3>7. PeopleOK'
      BY <1>0, <1>1, <2>12, <3>6, PeopleKept, Zenon
    <3>8. WireOK'
      <4>1. "polling" \notin {"replying", "over"}
        OBVIOUS
      <4> QED
        BY <1>0, <1>1, <1>3, <3>3, <4>1, WireKept, Zenon
    <3>9. CountsOK'
      BY <1>0, <1>1, <2>13, <3>6, CountsKept, Zenon
    <3>10. RoutesOK'
      <4> SUFFICES ASSUME NEW k \in Session, host'[k].at \in Hosting, k \notin expired', ~Restarted'
                   PROVE  Routed(k)'
        BY Zenon DEF RoutesOK
      <4>1. ~Restarted /\ k \notin expired /\ host[k].at \in Hosting
        BY <1>0, <1>1, <2>15, <3>6, FaultKept, Zenon
      <4>2. Routed(k)
        BY <1>0, <4>1, Zenon DEF RoutesOK
      <4>3. CASE k = s
        <5>1. Agrees(s, e, <<>>, wire)
          BY <1>1, <4>2, <4>3, Zenon DEF Routed, e, l
        <5>2. Agrees(s, d, f, wire)
          BY <2>3, <2>4, <2>5, <2>8, <2>9, <5>1, PollAgrees, Zenon DEF q
        <5> QED
          BY <1>1, <2>12, <3>2, <3>3, <4>3, <5>2, Zenon DEF Routed, At, l
      <4>4. CASE k # s
        <5>1. store'[At(k)] = store[At(k)]
          BY <2>12, <4>1, <4>2, <4>4, Zenon
        <5> QED
          BY <1>1, <3>3, <4>2, <4>4, <5>1, Zenon DEF Routed, At
      <4> QED
        BY <4>3, <4>4, Zenon
    <3>11. CodesOK'
      BY <1>0, <2>15, <3>6, CodesSame, Zenon
    <3>12. CancelsOK'
      BY <1>0, <2>15, <3>6, Zenon DEF CancelsOK, At, TypeOK
    <3>13. TypeOK'
      <4>1. host' \in [Session -> HostType]
        BY <1>0, <3>1, <3>2, Zenon DEF TypeOK
      <4> QED
        BY <1>0, <1>1, <2>12, <2>15, <4>1, Zenon DEF TypeOK
    <3> QED
      BY <2>12, <3>5, <3>7, <3>8, <3>9, <3>10, <3>11, <3>12, <3>13, Zenon DEF Inv
  <2> QED
    BY <1>5, <2>14, <2>15, Zenon DEF f, q, e, l
<1> QED
  BY <1>4, <1>5 DEF HostPoll

(* The host has taken a message: what it may have sent. *)
Took(s, h) ==
    /\ h \in HostType /\ HostOK(h) /\ h.locator = host[s].locator
    /\ host' = [host EXCEPT ![s] = h]
    /\ \/ /\ wire' = wire /\ h.at = "polling" /\ h.joined = host[s].joined
          /\ h.batch = <<>> \/ h.batch = Tail(host[s].batch)
       \/ /\ h.at = "replying" /\ h.batch = Tail(host[s].batch)
          /\ \/ /\ Head(host[s].batch).kind = "start" /\ ~h.closed
                /\ wire' = wire \cup {[by |-> s, to |-> Head(host[s].batch).from,
                                       kind |-> "response"]}
                /\ h.joined = host[s].joined
             \/ /\ Head(host[s].batch).kind = "finish"
                /\ wire' = wire \cup {[by |-> s, to |-> Head(host[s].batch).from,
                                       kind |-> "transfer"]}
                /\ h.joined = host[s].joined + 1

LEMMA TookCounts ==
    ASSUME TypeOK, CountsOK, NEW s \in Session, NEW h, Took(s, h),
           Head(host[s].batch).from \in Joiner, store' = store, join' = join
    PROVE  CountsOK'
<1> DEFINE j == Head(host[s].batch).from
<1>1. host' = [host EXCEPT ![s] = h]
  BY Zenon DEF Took
<1>2. host'[s] = h /\ \A k \in Session : k # s => host'[k] = host[k]
  BY <1>1, HostSet, Zenon
<1>3. ASSUME h.joined = host[s].joined, \A m \in wire' : m.kind = "transfer" => m \in wire
      PROVE  CountsOK'
  BY <1>2, <1>3, CountsKept, Zenon
<1>4. CASE wire' = wire /\ h.joined = host[s].joined
  BY <1>3, <1>4, Zenon
<1>5. CASE /\ wire' = wire \cup {[by |-> s, to |-> j, kind |-> "response"]}
           /\ h.joined = host[s].joined
  <2>1. \A m \in wire' : m.kind = "transfer" => m \in wire
    BY <1>5
  <2> QED
    BY <1>3, <1>5, <2>1, Zenon
<1>6. CASE wire' = wire \cup {TransferOf(s, j)} /\ h.joined = host[s].joined + 1
  <2>0. Counting
    BY Zenon DEF CountsOK
  <2> SUFFICES ASSUME NEW k \in Session
               PROVE  Cardinality(Served(k)') <= host'[k].joined
    BY <2>0, Zenon DEF CountsOK
  <2>1. Cardinality(Served(k)) <= host[k].joined /\ host[k].joined \in Nat
    BY HostTypes, Zenon DEF CountsOK
  <2>2. Served(k) \in SUBSET Joiner /\ Served(k)' \in SUBSET Joiner
    BY Zenon DEF Served
  <2>3. Cardinality(Served(k)) \in Nat /\ Cardinality(Served(k)') \in Nat
    BY <2>0, <2>2, Counted, Zenon
  <2>4. CASE k = s
    <3>1. \A i : TransferOf(s, i) = TransferOf(s, j) => i = j
      BY DEF TransferOf
    <3>2. Served(s)' \subseteq Served(s) \cup {j}
      BY <1>6, <3>1, Zenon DEF Served
    <3>3. Cardinality(Served(s)') <= Cardinality(Served(s)) + 1
      BY <2>0, <2>2, <2>4, <3>2, OneMore, Zenon
    <3>4. host'[s].joined = host[s].joined + 1
      BY <1>2, <1>6, Zenon
    <3> QED
      BY <2>1, <2>3, <2>4, <3>3, <3>4
  <2>5. CASE k # s
    <3>1. \A i : TransferOf(k, i) # TransferOf(s, j)
      BY <2>5 DEF TransferOf
    <3>2. Served(k)' \subseteq Served(k)
      BY <1>6, <3>1, Zenon DEF Served
    <3>3. Cardinality(Served(k)') <= Cardinality(Served(k))
      BY <2>0, <2>2, <3>2, FewerCounted, Zenon
    <3>4. host'[k].joined = host[k].joined
      BY <1>2, <2>5, Zenon
    <3> QED
      BY <2>1, <2>3, <3>3, <3>4
  <2> QED
    BY <2>4, <2>5, Zenon
<1>7. TransferOf(s, j) = [by |-> s, to |-> j, kind |-> "transfer"]
  BY Zenon DEF TransferOf
<1> HIDE DEF j
<1> QED
  BY <1>4, <1>5, <1>6, <1>7, Zenon DEF Took, j

LEMMA TookWire ==
    ASSUME TypeOK, HostsOK, WireOK, NEW s \in Session, NEW h, Took(s, h), host[s].at = "polling",
           Head(host[s].batch).from \in Joiner
    PROVE  WireOK' /\ wire' \subseteq Replies
<1> DEFINE j == Head(host[s].batch).from
<1>1. host' = [host EXCEPT ![s] = h] /\ h.locator = host[s].locator
  BY Zenon DEF Took
<1>2. host'[s] = h /\ \A k \in Session : k # s => host'[k] = host[k]
  BY <1>1, HostSet, Zenon
<1>3. At(s) \in Locator
  BY HostsAt, Phases, Zenon
<1>4. wire \subseteq Replies /\ \A n \in wire : n.by \in Session
  BY Zenon DEF TypeOK, Replies
<1>5. \A n \in wire : n.by # s
  <2>1. "polling" \notin {"replying", "over"}
    OBVIOUS
  <2> QED
    BY <2>1, Zenon DEF WireOK, ReplyOK
<1>6. CASE wire' = wire
  <2>1. "polling" \notin {"replying", "over"}
    OBVIOUS
  <2> QED
    BY <1>2, <1>4, <1>6, <2>1, WireKept, Zenon
<1>7. ASSUME NEW m, m \in Replies, m.by = s, wire' = wire \cup {m}, h.at = "replying",
             m.kind = "response" => ~h.closed
      PROVE  WireOK' /\ wire' \subseteq Replies
  <2>1. ReplyOK(m)'
    BY <1>1, <1>2, <1>3, <1>5, <1>7, Zenon DEF ReplyOK, At
  <2>2. ASSUME NEW n \in wire
        PROVE  ReplyOK(n)'
    <3>1. ReplyOK(n) /\ n.by # s /\ host'[n.by] = host[n.by]
      BY <1>2, <1>4, <1>5, Zenon DEF WireOK
    <3>2. \A k \in wire' : k.by = n.by => k \in wire
      BY <1>7, <3>1, Zenon
    <3> QED
      BY <3>1, <3>2, Zenon DEF ReplyOK
  <2> QED
    BY <1>4, <1>7, <2>1, <2>2, Zenon DEF WireOK
<1>8. ASSUME NEW kind \in {"response", "transfer"},
             wire' = wire \cup {[by |-> s, to |-> j, kind |-> kind]}, h.at = "replying",
             kind = "response" => ~h.closed
      PROVE  WireOK' /\ wire' \subseteq Replies
  <2> DEFINE m == [by |-> s, to |-> j, kind |-> kind]
  <2>1. m \in Replies /\ m.by = s /\ m.kind = kind
    BY Zenon DEF Replies
  <2> HIDE DEF m
  <2> QED
    BY <1>7, <1>8, <2>1, Zenon DEF m
<1> HIDE DEF j
<1>9. /\ "response" \in {"response", "transfer"} /\ "transfer" \in {"response", "transfer"}
      /\ "transfer" # "response"
  OBVIOUS
<1> QED
  BY <1>6, <1>8, <1>9, Zenon DEF Took, j

LEMMA TookRoutes ==
    ASSUME TypeOK, RoutesOK, NEW s \in Session, NEW h, Took(s, h), host[s].at = "polling",
           host[s].batch # <<>>, UNCHANGED <<store, expired, faults>>
    PROVE  RoutesOK'
<1> DEFINE b == host[s].batch
           j == Head(b).from
<1> SUFFICES ASSUME NEW k \in Session, host'[k].at \in Hosting, k \notin expired', ~Restarted'
             PROVE  Routed(k)'
  BY Zenon DEF RoutesOK
<1>1. host' = [host EXCEPT ![s] = h] /\ h.locator = host[s].locator
  BY Zenon DEF Took
<1>2. host'[s] = h /\ \A i \in Session : i # s => host'[i] = host[i]
  BY <1>1, HostSet, Zenon
<1>3. ~Restarted /\ k \notin expired /\ host[k].at \in Hosting
  BY <1>2, FaultKept, Phases, Zenon
<1>4. Routed(k)
  BY <1>3, Zenon DEF RoutesOK
<1>5. CASE k # s
  <2>1. \A m \in wire' : m.by = k => m \in wire
    <3>1. \A kind : [by |-> s, to |-> j, kind |-> kind].by # k
      BY <1>5, Zenon
    <3> QED
      BY <3>1, Zenon DEF Took
  <2>2. host'[k] = host[k]
    BY <1>2, <1>5, Zenon
  <2>3. Agrees(k, store[At(k)], host[k].batch, wire')
    BY <1>4, <2>1, OthersRepliesAgree, Zenon DEF Routed
  <2> QED
    BY <2>2, <2>3, Zenon DEF Routed, At
<1>6. CASE k = s
  <2>1. b \in Seq(Message)
    BY HostTypes, Zenon
  <2>2. Agrees(s, store[At(s)], b, wire)
    BY <1>4, <1>6, Zenon DEF Routed
  <2>3. Agrees(s, store[At(s)], <<>>, wire)
    BY <2>2, EmptyBatch, Zenon
  <2>4. /\ Agrees(s, store[At(s)], Tail(b), wire)
        /\ \A m : Asked(m.kind) = Head(b).kind /\ m.to = Head(b).from =>
                       Agrees(s, store[At(s)], Tail(b), wire \cup {m})
    BY <2>1, <2>2, TakeAgrees, Zenon
  <2>5. ASSUME NEW kind, Asked(kind) = Head(b).kind
        PROVE  Agrees(s, store[At(s)], Tail(b), wire \cup {[by |-> s, to |-> j, kind |-> kind]})
    <3> DEFINE m == [by |-> s, to |-> j, kind |-> kind]
    <3>1. m.kind = kind /\ m.to = j
      BY Zenon
    <3> HIDE DEF m
    <3> QED
      BY <2>4, <2>5, <3>1, Zenon DEF m
  <2>6. Asked("response") = "start" /\ Asked("transfer") = "finish"
    BY DEF Asked
  <2>7. Agrees(s, store[At(s)], h.batch, wire')
    BY <2>3, <2>4, <2>5, <2>6, Zenon DEF Took
  <2> QED
    BY <1>1, <1>2, <1>6, <2>7, Zenon DEF Routed, At
<1> QED
  BY <1>5, <1>6, Zenon

LEMMA TookKeeps ==
    ASSUME Inv, NEW s \in Session, NEW h, Took(s, h), host[s].at = "polling",
           host[s].batch # <<>>, UNCHANGED <<store, join, codes, cancels, expired, faults>>
    PROVE  Inv'
<1>0. /\ TypeOK /\ HostsOK /\ CodesOK /\ CancelsOK /\ EntriesOK
      /\ PeopleOK /\ WireOK /\ CountsOK /\ RoutesOK
  BY Zenon DEF Inv
<1>1. /\ host' = [host EXCEPT ![s] = h] /\ h.locator = host[s].locator /\ h \in HostType
      /\ HostOK(h) /\ h.at \in {"polling", "replying"}
  BY Zenon DEF Took
<1>2. host'[s] = h /\ \A i \in Session : i # s => host'[i] = host[i]
  BY <1>0, <1>1, HostSet, Zenon
<1>3. Head(host[s].batch).from \in Joiner
  <2>1. host[s].batch \in Seq(Message)
    BY <1>0, HostTypes, Zenon
  <2>2. Head(host[s].batch) \in Message
    BY <2>1
  <2> QED
    BY <2>2, Zenon DEF Message
<1>4. HostsOK'
  BY <1>0, <1>1, HostsKept, Zenon
<1>5. FixedLocators
  BY <1>1, <1>2, Zenon DEF FixedLocators, At
<1>6. PeopleOK'
  BY <1>0, <1>5, SameUntouched, PeopleKept, Zenon
<1>7. WireOK' /\ wire' \subseteq Replies
  BY <1>0, <1>3, TookWire, Zenon
<1>8. CountsOK'
  BY <1>0, <1>3, TookCounts, Zenon
<1>9. RoutesOK'
  BY <1>0, TookRoutes, Zenon
<1>10. CodesOK'
  <2>1. \A k \in Session : host'[k].at = "creating" <=> host[k].at = "creating"
    BY <1>1, <1>2, Phases, Zenon
  <2>2. \A k \in Session : host'[k].at \in Hosting <=> host[k].at \in Hosting
    BY <1>1, <1>2, Phases, Zenon
  <2> QED
    BY <1>0, <2>1, <2>2, CodesSame, Zenon
<1>11. CancelsOK'
  <2>1. "polling" # "over"
    OBVIOUS
  <2> QED
    BY <1>0, <1>2, <2>1, Zenon DEF CancelsOK, At, TypeOK
<1>12. TypeOK' /\ EntriesOK'
  <2>1. host' \in [Session -> HostType]
    BY <1>0, <1>1, Zenon DEF TypeOK
  <2> QED
    BY <1>0, <1>7, <2>1, Zenon DEF TypeOK, EntriesOK
<1> QED
  BY <1>4, <1>6, <1>7, <1>8, <1>9, <1>10, <1>11, <1>12, Zenon DEF Inv

(* What is left of the host after one message. *)
LEMMA Taken ==
    ASSUME TypeOK, HostsOK, NEW s \in Session, host[s].at = "polling", host[s].batch # <<>>,
           NEW h, h = [host[s] EXCEPT !.batch = Tail(@)]
    PROVE  /\ h \in HostType /\ h.at = "polling" /\ h.locator = host[s].locator
           /\ h.joined = host[s].joined /\ h.closed = host[s].closed
           /\ h.pending = host[s].pending /\ h.attempts = host[s].attempts
           /\ h.batch = Tail(host[s].batch)
<1>1. host[s] \in HostType /\ host[s].batch \in Seq(Message)
  BY HostTypes, Zenon
<1>2. Tail(host[s].batch) \in Seq(Message)
  BY <1>1
<1>3. h \in HostType
  BY <1>1, <1>2, Zenon DEF HostType
<1>4. /\ h.at = "polling" /\ h.locator = host[s].locator
      /\ h.joined = host[s].joined /\ h.closed = host[s].closed
      /\ h.pending = host[s].pending /\ h.attempts = host[s].attempts
      /\ h.batch = Tail(host[s].batch)
  BY <1>1, Zenon DEF HostType
<1> QED
  BY <1>3, <1>4, Zenon

LEMMA StartsIs ==
    ASSUME NEW h \in HostType, NEW j \in Joiner, NEW g, g = Starts(h, j)
    PROVE  /\ g \in HostType /\ g.at = "replying" /\ g.locator = h.locator
           /\ g.joined = h.joined /\ g.closed = h.closed /\ g.batch = h.batch
<1>1. h.attempts + 1 \in Nat
  BY DEF HostType
<1>2. h.pending \cup {j} \in SUBSET Joiner
  BY Zenon DEF HostType
<1>3. g \in HostType
  BY <1>1, <1>2, Zenon DEF HostType, Starts, Hosting
<1>4. /\ g.at = "replying" /\ g.locator = h.locator
      /\ g.joined = h.joined /\ g.closed = h.closed /\ g.batch = h.batch
  BY Zenon DEF HostType, Starts
<1> QED
  BY <1>3, <1>4, Zenon

LEMMA FinishesIs ==
    ASSUME NEW h \in HostType, NEW j \in Joiner, NEW g, g = Finishes(h, j)
    PROVE  /\ g \in HostType /\ g.at = "replying" /\ g.locator = h.locator
           /\ g.joined = h.joined + 1 /\ g.closed = (h.joined + 1 >= Uses) /\ g.batch = h.batch
<1>1. h.joined + 1 \in Nat /\ (h.joined + 1 >= Uses) \in BOOLEAN
  BY DEF HostType
<1>2. (IF h.joined + 1 >= Uses THEN {} ELSE h.pending \ {j}) \in SUBSET Joiner
  BY Zenon DEF HostType
<1>3. g \in HostType
  BY <1>1, <1>2, Zenon DEF HostType, Finishes, Hosting
<1>4. /\ g.at = "replying" /\ g.locator = h.locator
      /\ g.joined = h.joined + 1 /\ g.closed = (h.joined + 1 >= Uses) /\ g.batch = h.batch
  BY Zenon DEF HostType, Finishes
<1> QED
  BY <1>3, <1>4, Zenon

LEMMA CountFits ==
    ASSUME NEW n \in Nat, n < Uses
    PROVE  n + 1 <= Uses /\ (~(n + 1 >= Uses) => n + 1 < Uses)
BY PairingConstants

(* A host that takes a message is as sound as before it did. *)
LEMMA TakingKeepsHost ==
    ASSUME HostsOK, NEW s \in Session, host[s].at = "polling", NEW g,
           g.at \in {"polling", "replying"}, g.locator = host[s].locator,
           g.joined <= Uses, ~g.closed => g.joined < Uses
    PROVE  HostOK(g)
<1>1. host[s].locator \in Locator
  BY HostsAt, Phases, Zenon DEF At
<1>2. g.at \notin {"none", "creating"}
  OBVIOUS
<1> QED
  BY <1>1, <1>2, Zenon DEF HostOK

LEMMA HostTakesKeeps ==
    ASSUME Inv, NEW s \in Session, HostTakes(s)
    PROVE  Inv'
<1> DEFINE h == [host[s] EXCEPT !.batch = Tail(@)]
           m == Head(host[s].batch)
<1>0. /\ TypeOK /\ HostsOK
  BY Zenon DEF Inv
<1>1. /\ host[s].at = "polling" /\ host[s].batch # <<>>
      /\ UNCHANGED <<store, join, codes, cancels, expired, faults>>
  BY Zenon DEF HostTakes
<1>2. host[s] \in HostType /\ host[s].batch \in Seq(Message) /\ host[s].joined \in Nat
  BY <1>0, HostTypes, Zenon
<1>3. m.from \in Joiner
  <2>1. m \in Message
    BY <1>1, <1>2
  <2> QED
    BY <2>1, Zenon DEF Message
<1>4. host[s].joined <= Uses /\ (~host[s].closed => host[s].joined < Uses)
  BY <1>0, Zenon DEF HostsOK, HostOK
<1>5. /\ h \in HostType /\ h.at = "polling" /\ h.locator = host[s].locator
      /\ h.joined = host[s].joined /\ h.closed = host[s].closed
      /\ h.batch = Tail(host[s].batch)
  BY <1>0, <1>1, Taken
<1>6. \/ host' = [host EXCEPT ![s].batch = <<>>] /\ wire' = wire
      \/ host' = [host EXCEPT ![s] = h] /\ wire' = wire
      \/ /\ ~host[s].closed /\ m.kind = "start" /\ host' = [host EXCEPT ![s] = Starts(h, m.from)]
         /\ wire' = wire \cup {[by |-> s, to |-> m.from, kind |-> "response"]}
      \/ /\ ~host[s].closed /\ m.kind = "finish" /\ host' = [host EXCEPT ![s] = Finishes(h, m.from)]
         /\ wire' = wire \cup {[by |-> s, to |-> m.from, kind |-> "transfer"]}
  BY Zenon DEF HostTakes, active
<1> HIDE DEF h, m
<1>7. ASSUME NEW g, Took(s, g)
      PROVE  Inv'
  BY <1>1, <1>7, TookKeeps, Zenon
<1>8. CASE host' = [host EXCEPT ![s].batch = <<>>] /\ wire' = wire
  <2> DEFINE g == [host[s] EXCEPT !.batch = <<>>]
  <2>1. host' = [host EXCEPT ![s] = g]
    BY <1>8, Zenon
  <2>2. <<>> \in Seq(Message)
    OBVIOUS
  <2>3. g \in HostType
    BY <1>2, <2>2, Zenon DEF HostType
  <2>4. /\ g.at = "polling" /\ g.locator = host[s].locator /\ g.joined = host[s].joined
        /\ g.closed = host[s].closed /\ g.batch = <<>>
    BY <1>1, <1>2, Zenon DEF HostType
  <2> HIDE DEF g
  <2>5. HostOK(g)
    BY <1>0, <1>1, <1>4, <2>4, TakingKeepsHost
  <2>6. Took(s, g)
    BY <1>8, <2>1, <2>3, <2>4, <2>5, Zenon DEF Took
  <2> QED
    BY <1>7, <2>6, Zenon
<1>9. CASE host' = [host EXCEPT ![s] = h] /\ wire' = wire
  <2>1. HostOK(h)
    BY <1>0, <1>1, <1>4, <1>5, TakingKeepsHost
  <2>2. Took(s, h)
    BY <1>5, <1>9, <2>1, Zenon DEF Took
  <2> QED
    BY <1>7, <2>2, Zenon
<1>10. CASE /\ ~host[s].closed /\ m.kind = "start" /\ host' = [host EXCEPT ![s] = Starts(h, m.from)]
            /\ wire' = wire \cup {[by |-> s, to |-> m.from, kind |-> "response"]}
  <2> DEFINE g == Starts(h, m.from)
  <2>1. /\ g \in HostType /\ g.at = "replying" /\ g.locator = h.locator
        /\ g.joined = h.joined /\ g.closed = h.closed /\ g.batch = h.batch
    BY <1>3, <1>5, StartsIs, ZenonT(60)
  <2>2. host' = [host EXCEPT ![s] = g]
    BY <1>10, Zenon
  <2> HIDE DEF g
  <2>3. HostOK(g)
    <3>1. /\ g.at \in {"polling", "replying"} /\ g.locator = host[s].locator
          /\ g.joined <= Uses /\ (~g.closed => g.joined < Uses)
      BY <1>4, <1>5, <2>1, Zenon
    <3> QED
      BY <1>0, <1>1, <3>1, TakingKeepsHost
  <2>4. Took(s, g)
    <3>1. /\ g.locator = host[s].locator /\ g.batch = Tail(host[s].batch)
          /\ g.joined = host[s].joined /\ ~g.closed
      BY <1>5, <1>10, <2>1, Zenon
    <3> QED
      BY <1>10, <2>1, <2>2, <2>3, <3>1, Zenon DEF Took, m
  <2> QED
    BY <1>7, <2>4, Zenon
<1>11. CASE /\ ~host[s].closed /\ m.kind = "finish" /\ host' = [host EXCEPT ![s] = Finishes(h, m.from)]
            /\ wire' = wire \cup {[by |-> s, to |-> m.from, kind |-> "transfer"]}
  <2> DEFINE g == Finishes(h, m.from)
  <2>1. /\ g \in HostType /\ g.at = "replying" /\ g.locator = h.locator
        /\ g.joined = h.joined + 1 /\ g.closed = (h.joined + 1 >= Uses) /\ g.batch = h.batch
    BY <1>3, <1>5, FinishesIs, ZenonT(60)
  <2>2. host' = [host EXCEPT ![s] = g]
    BY <1>11, Zenon
  <2> HIDE DEF g
  <2>3. g.joined = host[s].joined + 1 /\ g.locator = host[s].locator /\ g.batch = Tail(host[s].batch)
    BY <1>5, <2>1, Zenon
  <2>4. g.joined <= Uses /\ (~g.closed => g.joined < Uses)
    BY <1>2, <1>4, <1>5, <1>11, <2>1, CountFits, Zenon
  <2>5. HostOK(g)
    <3>1. g.at \in {"polling", "replying"}
      BY <2>1, Zenon
    <3> QED
      BY <1>0, <1>1, <2>3, <2>4, <3>1, TakingKeepsHost
  <2>6. Took(s, g)
    BY <1>11, <2>1, <2>2, <2>3, <2>5, Zenon DEF Took, m
  <2> QED
    BY <1>7, <2>6, Zenon
<1> QED
  BY <1>6, <1>8, <1>9, <1>10, <1>11, Zenon

-----------------------------------------------------------------------------
(* The relay, and time. *)

LEMMA AbsentFacts ==
    ASSUME NEW e, NEW s, NEW j
    PROVE  Untouched(e, Absent, j) /\ ~HasTransfer(Absent, s, j)
BY Zenon DEF Untouched, HasTransfer

(* An entry goes, whose code nobody is hosting. *)
LEMMA GoneKeeps ==
    ASSUME Inv, NEW l \in Locator, store' = [store EXCEPT ![l] = Absent],
           \A s \in Session : host[s].at \in Hosting /\ s \notin expired /\ Routed(s) => At(s) # l,
           cancels' \subseteq cancels, UNCHANGED <<host, join, codes, wire, expired, faults>>
    PROVE  Inv'
<1>0. /\ TypeOK /\ HostsOK /\ CodesOK /\ CancelsOK /\ EntriesOK
  BY Zenon DEF Inv
<1>1. store'[l] = Absent /\ \A k \in Locator : k # l => store'[k] = store[k]
  BY <1>0, StoreSet, Zenon
<1>2. Quiet
  BY SameHostsQuiet, Zenon
<1>3. CancelsOK' /\ cancels' \subseteq Session
  BY <1>0, <1>2, CancelsLeft, Zenon
<1>4. EntriesOK'
  BY <1>0, EntriesKept, Zenon
<1>5. store' \in [Locator -> EntryType \cup {Absent}]
  BY <1>0, Zenon DEF TypeOK
<1>6. CalmStore
  <2>1. \A k \in Locator, j \in Joiner : Untouched(store[k], store'[k], j)
    BY <1>0, <1>1, AbsentFacts, SameUntouched, Zenon
  <2>2. \A k \in Locator, s \in Session, j \in Joiner :
          HasTransfer(store'[k], s, j) => HasTransfer(store[k], s, j)
    BY <1>1, AbsentFacts, Zenon
  <2>3. ASSUME NEW s \in Session, host[s].at \in Hosting, s \notin expired', Routed(s)
        PROVE  Agrees(s, store'[At(s)], host[s].batch, wire')
    <3>1. store'[At(s)] = store[At(s)]
      BY <1>0, <1>1, <2>3, HostsAt, Zenon
    <3> QED
      BY <2>3, <3>1, Zenon DEF Routed
  <2> QED
    BY <2>1, <2>2, <2>3, Zenon DEF CalmStore
<1>7. HostsOK' /\ CodesOK'
  <2>1. HostsOK'
    BY <1>0, Zenon DEF HostsOK
  <2>2. CodesOK'
    BY <1>0, CodesSame, Zenon
  <2> QED
    BY <2>1, <2>2, Zenon
<1>8. /\ host' \in [Session -> HostType] /\ codes' \in CodesType /\ expired' \subseteq Session
      /\ expired \subseteq expired' /\ wire' \subseteq wire /\ faults' = faults /\ join' = join
  BY <1>0, Zenon DEF TypeOK
<1> QED
  BY <1>2, <1>3, <1>4, <1>5, <1>6, <1>7, <1>8, QuietStep, Zenon

(* Nothing at the relay and no host changes. *)
LEMMA IdleKeeps ==
    ASSUME Inv, store' = store, host' = host, codes' = codes, join' = join,
           wire' \subseteq wire, cancels' \subseteq cancels,
           expired \subseteq expired', expired' \subseteq Session,
           \/ faults' = faults \/ Fault("call") \/ Fault("restart")
    PROVE  Inv'
<1>0. /\ TypeOK /\ HostsOK /\ CodesOK /\ CancelsOK /\ EntriesOK
  BY Zenon DEF Inv
<1>1. Quiet
  BY SameHostsQuiet, Zenon
<1>2. CancelsOK' /\ cancels' \subseteq Session
  BY <1>0, <1>1, CancelsLeft, Zenon
<1>3. CalmStore
  BY <1>0, SameCalm, Zenon
<1>4. HostsOK' /\ EntriesOK'
  BY <1>0, Zenon DEF HostsOK, EntriesOK
<1>5. CodesOK'
  BY <1>0, CodesSame, Zenon
<1>6. /\ host' \in [Session -> HostType] /\ codes' \in CodesType
      /\ store' \in [Locator -> EntryType \cup {Absent}]
  BY <1>0, Zenon DEF TypeOK
<1> QED
  BY <1>1, <1>2, <1>3, <1>4, <1>5, <1>6, QuietStep, Zenon

LEMMA CancelKeeps ==
    ASSUME Inv, NEW s \in Session, Cancel(s)
    PROVE  Inv'
<1>0. TypeOK /\ CancelsOK
  BY Zenon DEF Inv
<1>1. /\ s \in cancels /\ cancels' \subseteq cancels
      /\ UNCHANGED <<host, join, codes, wire, expired>>
      /\ \/ Held(s) /\ store' = [store EXCEPT ![At(s)] = Absent] /\ faults' = faults
         \/ store' = store /\ (faults' = faults \/ Fault("call"))
  BY Zenon DEF Cancel
<1>2. host[s].at = "over" /\ At(s) \in Locator
  BY <1>0, <1>1, Zenon DEF CancelsOK
<1>3. CASE store' = store /\ (faults' = faults \/ Fault("call"))
  <2>1. wire' \subseteq wire /\ expired \subseteq expired' /\ expired' \subseteq Session
    BY <1>0, <1>1, Zenon DEF TypeOK
  <2> QED
    BY <1>1, <1>3, <2>1, IdleKeeps, Zenon
<1>4. CASE Held(s) /\ store' = [store EXCEPT ![At(s)] = Absent] /\ faults' = faults
  <2>1. \A k \in Session : host[k].at \in Hosting /\ k \notin expired /\ Routed(k) => At(k) # At(s)
    BY <1>2, <1>4, RouteFields, Phases, Zenon DEF Held
  <2> QED
    BY <1>1, <1>2, <1>4, <2>1, GoneKeeps, Zenon
<1> QED
  BY <1>1, <1>3, <1>4, Zenon

LEMMA ExpireKeeps ==
    ASSUME Inv, NEW s \in Session, Expire(s)
    PROVE  Inv'
<1>1. /\ UNCHANGED <<store, host, join, codes, wire, cancels, faults>>
      /\ expired' = expired \cup {s}
  BY Zenon DEF Expire
<1>2. expired \subseteq expired' /\ expired' \subseteq Session
  BY <1>1, Zenon DEF Inv, TypeOK
<1> QED
  BY <1>1, <1>2, IdleKeeps, Zenon

LEMMA EntryExpiresKeeps ==
    ASSUME Inv, NEW l \in Locator, EntryExpires(l)
    PROVE  Inv'
<1>1. /\ store[l].by \in expired /\ store' = [store EXCEPT ![l] = Absent]
      /\ UNCHANGED <<host, join, codes, wire, cancels, expired, faults>>
  BY Zenon DEF EntryExpires
<1>2. \A s \in Session : host[s].at \in Hosting /\ s \notin expired /\ Routed(s) => At(s) # l
  BY <1>1, RouteFields, Zenon
<1> QED
  BY <1>1, <1>2, GoneKeeps, Zenon

LEMMA RestartKeeps ==
    ASSUME Inv, Restart
    PROVE  Inv'
<1>0. /\ TypeOK /\ HostsOK /\ CodesOK /\ CancelsOK /\ EntriesOK
  BY Zenon DEF Inv
<1>1. /\ Fault("restart") /\ store' = [l \in Locator |-> Absent]
      /\ UNCHANGED <<host, join, codes, wire, cancels, expired>>
  BY Zenon DEF Restart
<1>2. Restarted'
  <2>1. faults \in Seq({"call", "restart"}) /\ faults' = Append(faults, "restart")
    BY <1>0, <1>1, Zenon DEF TypeOK, Fault
  <2>2. Len(faults) + 1 \in DOMAIN faults' /\ faults'[Len(faults) + 1] = "restart"
    BY <2>1
  <2> QED
    BY <2>2, Zenon DEF Restarted
<1>3. \A l \in Locator : store'[l] = Absent
  BY <1>1, Zenon
<1>4. Quiet
  BY <1>1, SameHostsQuiet, Zenon
<1>5. CalmStore
  BY <1>2, <1>3, AbsentFacts, Zenon DEF CalmStore
<1>6. CancelsOK' /\ cancels' \subseteq Session
  BY <1>0, <1>1, <1>4, CancelsLeft, Zenon
<1>7. HostsOK' /\ EntriesOK'
  BY <1>0, <1>1, <1>3, Zenon DEF HostsOK, EntriesOK
<1>8. CodesOK'
  BY <1>0, <1>1, CodesSame, Zenon
<1>9. /\ host' \in [Session -> HostType] /\ codes' \in CodesType
      /\ store' \in [Locator -> EntryType \cup {Absent}]
      /\ expired' \subseteq Session /\ expired \subseteq expired' /\ wire' \subseteq wire
  BY <1>0, <1>1, Zenon DEF TypeOK
<1> QED
  BY <1>1, <1>4, <1>5, <1>6, <1>7, <1>8, <1>9, QuietStep, Zenon

-----------------------------------------------------------------------------
(* A reply. *)

(* The entry after a reply it accepts. *)
TakesReply(e, d, j, kind) ==
    /\ d \in EntryType /\ EntryOK(d) /\ d.by = e.by
    /\ d.stage = [e.stage EXCEPT ![j] = kind] /\ d.box = [e.box EXCEPT ![j] = <<kind>>]
    /\ d.inbox \in {e.inbox, <<>>} /\ e.stage[j] \in {"start", "finish"}

LEMMA ReplyDelivered ==
    ASSUME Counting, NEW e \in EntryType, EntryOK(e), NEW j \in Joiner, NEW kind,
           kind \in {"response", "transfer"}, Accepts(e, j, kind),
           NEW d, d = pairingDeliver(e, j, kind)
    PROVE  TakesReply(e, d, j, kind)
<1>1. CASE kind = "response"
  <2>0. Accepts(e, j, "response") /\ d = pairingDeliver(e, j, "response")
    BY <1>1, Zenon
  <2>1. e.box[j] = <<>> /\ EntryOK(d)
    BY <2>0, ResponseKeepsEntry
  <2>2. e.stage[j] = "start"
    BY <2>0 DEF Accepts
  <2>3. /\ d \in EntryType /\ d.by = e.by /\ d.stage = [e.stage EXCEPT ![j] = "response"]
        /\ d.box = [e.box EXCEPT ![j] = <<"response">>] /\ d.inbox = e.inbox
    BY <2>0, <2>1, ResponseDelivered
  <2> QED
    BY <1>1, <2>1, <2>2, <2>3, Zenon DEF TakesReply
<1>2. CASE kind = "transfer"
  <2>0. Accepts(e, j, "transfer") /\ d = pairingDeliver(e, j, "transfer")
    BY <1>2, Zenon
  <2>1. e.box[j] = <<>> /\ EntryOK(d)
    BY <2>0, TransferKeepsEntry
  <2>2. e.stage[j] = "finish"
    BY <2>0 DEF Accepts
  <2>3. /\ d \in EntryType /\ d.by = e.by /\ d.stage = [e.stage EXCEPT ![j] = "transfer"]
        /\ d.box = [e.box EXCEPT ![j] = <<"transfer">>] /\ d.inbox \in {e.inbox, <<>>}
    BY <2>0, <2>1, TransferDelivered
  <2> QED
    BY <1>2, <2>1, <2>2, <2>3, Zenon DEF TakesReply
<1> QED
  BY <1>1, <1>2, Zenon

LEMMA ReplyUntouched ==
    ASSUME NEW e \in EntryType, NEW d, NEW j \in Joiner, NEW kind, TakesReply(e, d, j, kind),
           NEW i \in Joiner
    PROVE  Untouched(e, d, i)
<1>1. e # Absent
  BY EntryIsThere, Zenon
<1>2. CASE i = j
  BY <1>1, <1>2, Zenon DEF TakesReply, Untouched
<1>3. CASE i # j
  <2>1. [e.stage EXCEPT ![j] = kind][i] = e.stage[i]
    BY <1>3, EntryFields, Zenon
  <2>2. [e.box EXCEPT ![j] = <<kind>>][i] = e.box[i]
    BY <1>3, EntryFields, Zenon
  <2>3. d.by = e.by /\ d.stage[i] = e.stage[i] /\ d.box[i] = e.box[i]
    BY <2>1, <2>2, Zenon DEF TakesReply
  <2> QED
    BY <1>1, <2>3, Zenon DEF Untouched
<1> QED
  BY <1>2, <1>3, Zenon

(* The one newly served at the relay was on the wire. *)
LEMMA ReplyServed ==
    ASSUME TypeOK, NEW m \in wire, NEW l \in Locator, NEW d, EntryBecomes(l, d),
           TakesReply(store[l], d, m.to, m.kind), store[l].by = m.by,
           join' = join, wire' \subseteq wire, NEW s \in Session
    PROVE  Served(s)' \subseteq Served(s)
<1>0. m \in Replies /\ store[l] \in EntryType /\ d.by = store[l].by
  BY Zenon DEF TypeOK, EntryBecomes
<1>1. store'[l] = d /\ \A k \in Locator : k # l => store'[k] = store[k]
  BY StoreSet, Zenon DEF EntryBecomes
<1>2. store[l] # Absent /\ store[l].stage \in [Joiner -> Stages]
  BY <1>0, EntryIsThere, EntryFields, Zenon
<1>3. ASSUME NEW j \in Joiner, NEW k \in Locator, HasTransfer(store'[k], s, j)
      PROVE  HasTransfer(store[k], s, j) \/ TransferOf(s, j) \in wire
  <2>1. CASE k # l
    BY <1>1, <1>3, <2>1, Zenon
  <2>2. CASE k = l
    <3>1. d.by = s /\ d.stage[j] = "transfer"
      BY <1>1, <1>3, <2>2, Zenon DEF HasTransfer
    <3>2. d.stage = [store[l].stage EXCEPT ![m.to] = m.kind]
      BY Zenon DEF TakesReply
    <3>3. CASE j # m.to
      <4>1. store[l].stage[j] = "transfer"
        BY <1>2, <3>1, <3>2, <3>3, Zenon
      <4> QED
        BY <1>0, <1>2, <2>2, <3>1, <4>1, Zenon DEF HasTransfer
    <3>4. CASE j = m.to
      <4>1. m.kind = "transfer"
        BY <1>2, <3>1, <3>2, <3>4, Zenon
      <4>2. m.by = s
        BY <1>0, <3>1, Zenon
      <4>3. m = [by |-> m.by, to |-> m.to, kind |-> m.kind]
        BY <1>0 DEF Replies
      <4> QED
        BY <3>4, <4>1, <4>2, <4>3, Zenon DEF TransferOf
    <3> QED
      BY <3>3, <3>4, Zenon
  <2> QED
    BY <2>1, <2>2, Zenon
<1> QED
  BY <1>3, Zenon DEF Served

(* A reply that does not get there, or is refused. *)
LEMMA ReplyLostKeeps ==
    ASSUME Inv, NEW m \in wire, wire' = wire \ {m}, store' = store,
           UNCHANGED <<join, expired>>, faults' = faults \/ Fault("call"),
           \/ UNCHANGED <<host, codes, cancels>>
           \/ host[m.by].at = "replying" /\ HostStops(m.by)
    PROVE  Inv'
<1>0. /\ TypeOK /\ HostsOK /\ CodesOK /\ CancelsOK /\ EntriesOK
  BY Zenon DEF Inv
<1>1. /\ wire' \subseteq wire /\ expired \subseteq expired' /\ expired' \subseteq Session
      /\ m.by \in Session
  BY <1>0, Zenon DEF TypeOK, Replies
<1>2. CASE UNCHANGED <<host, codes, cancels>>
  BY <1>1, <1>2, IdleKeeps, Zenon
<1>3. CASE host[m.by].at = "replying" /\ HostStops(m.by)
  <2>1. /\ Quiet /\ HostsOK' /\ CodesOK' /\ CancelsOK'
        /\ host' \in [Session -> HostType] /\ codes' \in CodesType /\ cancels' \subseteq Session
    BY <1>0, <1>1, <1>3, Phases, StopKeeps, Zenon
  <2>2. CalmStore
    BY <1>0, <1>1, SameCalm, Zenon
  <2>3. EntriesOK' /\ store' \in [Locator -> EntryType \cup {Absent}]
    BY <1>0, Zenon DEF EntriesOK, TypeOK
  <2> QED
    BY <1>1, <2>1, <2>2, <2>3, QuietStep, Zenon
<1> QED
  BY <1>2, <1>3, Zenon

(* The answer to the reply has the host poll on. *)
PollsOn(s, h) ==
    /\ h \in HostType /\ h.at = "polling" /\ h.locator = host[s].locator
    /\ h.joined = host[s].joined /\ h.closed = host[s].closed /\ h.batch = host[s].batch
    /\ host' = [host EXCEPT ![s] = h]

LEMMA AnsweredIs ==
    ASSUME TypeOK, HostsOK, CodesOK, CancelsOK, NEW m, m.by \in Session,
           host[m.by].at = "replying", Answered(m), cancels' = cancels
    PROVE  /\ \/ Quiet /\ host'[m.by].at = "over"
              \/ \E h : PollsOn(m.by, h)
           /\ HostsOK' /\ CodesOK' /\ CancelsOK'
           /\ host' \in [Session -> HostType] /\ codes' \in CodesType /\ cancels' \subseteq Session
<1> DEFINE s == m.by
<1>0. s \in Session /\ host[s].at \in Hosting
  BY Phases, Zenon
<1>1. CASE host' = [host EXCEPT ![s] = Ended(s)] /\ codes' = Told(s)
  <2>1. Quiet /\ HostsOK' /\ host' \in [Session -> HostType]
    BY <1>0, <1>1, EndedQuiet, EndedType, Zenon
  <2>2. CodesOK' /\ codes' \in CodesType
    BY <1>0, <1>1, CodesStop, Zenon
  <2>3. CancelsOK' /\ cancels' \subseteq Session
    BY <2>1, CancelsLeft, Zenon
  <2>4. host'[s].at = "over"
    BY <1>0, <1>1, HostSet, EndedIs, ZenonT(60)
  <2> QED
    BY <2>1, <2>2, <2>3, <2>4, Zenon
<1>2. CASE host' = [host EXCEPT ![s].at = "polling"] /\ codes' = codes
  <2> DEFINE h == [host[s] EXCEPT !.at = "polling"]
  <2>1. host' = [host EXCEPT ![s] = h]
    BY <1>2, Zenon
  <2>2. host[s] \in HostType
    BY <1>0, HostTypes, Zenon
  <2>3. h \in HostType
    BY <2>2, Phases, Zenon DEF HostType
  <2>4. /\ h.at = "polling" /\ h.locator = host[s].locator
        /\ h.joined = host[s].joined /\ h.closed = host[s].closed /\ h.batch = host[s].batch
    BY <2>2, Zenon DEF HostType
  <2> HIDE DEF h
  <2>5. PollsOn(s, h)
    BY <2>1, <2>3, <2>4, Zenon DEF PollsOn
  <2>6. host'[s] = h /\ \A i \in Session : i # s => host'[i] = host[i]
    BY <1>0, <2>1, HostSet, Zenon
  <2>7. HostOK(h)
    <3>1. "polling" \notin {"none", "creating"}
      OBVIOUS
    <3> QED
      BY <1>0, <2>4, <3>1, Zenon DEF HostsOK, HostOK
  <2>8. HostsOK'
    BY <1>0, <2>1, <2>7, HostsKept, Zenon
  <2>9. CodesOK'
    <3>1. \A k \in Session : host'[k].at = "creating" <=> host[k].at = "creating"
      BY <1>0, <2>4, <2>6, Phases, Zenon
    <3>2. \A k \in Session : host'[k].at \in Hosting <=> host[k].at \in Hosting
      BY <1>0, <2>4, <2>6, Phases, Zenon
    <3> QED
      BY <1>2, <3>1, <3>2, CodesSame, Zenon
  <2>10. CancelsOK' /\ cancels' \subseteq Session
    <3>1. "replying" # "over"
      OBVIOUS
    <3>2. s \notin cancels
      BY <3>1, Zenon DEF CancelsOK
    <3> QED
      BY <2>6, <3>2, Zenon DEF CancelsOK, At, TypeOK
  <2>11. host' \in [Session -> HostType] /\ codes' \in CodesType
    BY <1>2, <2>1, <2>3, Zenon DEF TypeOK
  <2> QED
    BY <2>5, <2>8, <2>9, <2>10, <2>11, Zenon
<1> QED
  BY <1>1, <1>2, Zenon DEF Answered

LEMMA ReplyTakenKeeps ==
    ASSUME Inv, NEW m \in wire, wire' = wire \ {m}, Held(m.by),
           Accepts(store[At(m.by)], m.to, m.kind),
           store' = [store EXCEPT ![At(m.by)] = pairingDeliver(@, m.to, m.kind)],
           UNCHANGED <<join, expired>>, faults' = faults \/ Fault("call"),
           \/ host[m.by].at # "replying" /\ UNCHANGED <<host, codes, cancels>>
           \/ host[m.by].at = "replying" /\ Answered(m) /\ UNCHANGED cancels
           \/ host[m.by].at = "replying" /\ HostStops(m.by)
    PROVE  Inv'
<1> DEFINE s == m.by
           l == At(s)
           e == store[l]
           d == pairingDeliver(e, m.to, m.kind)
<1>0. /\ TypeOK /\ HostsOK /\ CodesOK /\ CancelsOK /\ EntriesOK
      /\ PeopleOK /\ WireOK /\ CountsOK /\ RoutesOK
  BY Zenon DEF Inv
<1>1. /\ s \in Session /\ m.to \in Joiner /\ m.kind \in {"response", "transfer"}
      /\ wire \subseteq Replies
  BY <1>0, Zenon DEF TypeOK, Replies
<1>2. /\ l \in Locator /\ host[s].at \in {"replying", "over"}
      /\ host[s].at = "replying" => \A n \in wire : n.by = s => n = m
  BY <1>0, Zenon DEF WireOK, ReplyOK, At
<1>3. e \in EntryType /\ e.by = s
  BY <1>0, <1>1, <1>2, HeldIsEntry, Zenon DEF Held
<1>4. EntryOK(e)
  BY <1>0, <1>2, <1>3, EntryIsThere, Zenon DEF EntriesOK
<1>5. TakesReply(e, d, m.to, m.kind)
  <2>1. Counting
    BY <1>0, Zenon DEF CountsOK
  <2> QED
    BY <1>1, <1>3, <1>4, <2>1, ReplyDelivered, Zenon
<1>6. store' = [store EXCEPT ![l] = d]
  BY Zenon
<1> HIDE DEF d
<1>7. EntryBecomes(l, d) /\ EntryOK(d) /\ d \in EntryType /\ d.by = e.by
  BY <1>3, <1>5, <1>6, Zenon DEF EntryBecomes, TakesReply
<1>8. \A j \in Joiner : Untouched(e, d, j)
  BY <1>1, <1>3, <1>5, ReplyUntouched, Zenon
<1> HIDE DEF e, l, s
<1>9. /\ store' \in [Locator -> EntryType \cup {Absent}] /\ EntriesOK' /\ store'[l] = d
      /\ \A k \in Locator, j \in Joiner : Untouched(store[k], store'[k], j)
      /\ \A t \in Session : host[t].at \in Hosting /\ Routed(t) =>
           At(t) = l \/ store'[At(t)] = store[At(t)]
      /\ \A t \in Session : Routed(t) /\ At(t) = l => t = s
  BY <1>0, <1>2, <1>3, <1>7, <1>8, BecomesFacts, Zenon DEF e
<1>10. \A t \in Session : Served(t)' \subseteq Served(t)
  <2>1. TakesReply(store[l], d, m.to, m.kind) /\ store[l].by = m.by /\ wire' \subseteq wire
    BY <1>3, <1>5, Zenon DEF e, s
  <2> QED
    BY <1>0, <1>2, <1>7, <2>1, ReplyServed, Zenon
<1>11. \A n \in wire' : n \in wire /\ n # m
  BY Zenon
<1>12. faults' \in Seq({"call", "restart"})
  BY <1>0, FaultType, Zenon
<1>13. ASSUME NEW k \in Session, k # s, host'[k] = host[k], host'[k].at \in Hosting,
              k \notin expired', ~Restarted'
       PROVE  Routed(k)'
  <2>1. ~Restarted /\ k \notin expired /\ host[k].at \in Hosting
    BY <1>0, <1>13, FaultKept, Zenon
  <2>2. Routed(k)
    BY <1>0, <1>13, <2>1, Zenon DEF RoutesOK
  <2>3. store'[At(k)] = store[At(k)]
    BY <1>9, <1>13, <2>1, <2>2, Zenon
  <2>4. Agrees(k, store[At(k)], host[k].batch, wire')
    BY <1>11, <2>2, OthersRepliesAgree, Zenon DEF Routed
  <2> QED
    BY <1>13, <2>3, <2>4, Zenon DEF Routed, At
<1>14. ASSUME HostsOK', CodesOK', CancelsOK', host' \in [Session -> HostType],
              codes' \in CodesType, cancels' \subseteq Session,
              FixedLocators, \A t \in Session : host'[t].joined = host[t].joined,
              WireOK', RoutesOK'
       PROVE  Inv'
  <2>1. PeopleOK'
    BY <1>0, <1>9, <1>14, PeopleKept, Zenon
  <2>2. CountsOK'
    BY <1>0, <1>10, <1>14, ServedFewer, Zenon
  <2>3. TypeOK'
    BY <1>0, <1>9, <1>11, <1>12, <1>14, Zenon DEF TypeOK
  <2> QED
    BY <1>9, <1>14, <2>1, <2>2, <2>3, Zenon DEF Inv
<1>15. ASSUME Quiet, HostsOK', CodesOK', CancelsOK', host' \in [Session -> HostType],
              codes' \in CodesType, cancels' \subseteq Session, host'[s].at \notin Hosting
       PROVE  Inv'
  <2>1. /\ FixedLocators /\ \A t \in Session : host'[t].joined = host[t].joined
        /\ \A t \in Session : host'[t].at \in Hosting => host'[t] = host[t]
    BY <1>15, QuietFacts, Zenon
  <2>2. WireOK'
    BY <1>0, <1>11, <1>15, QuietFacts, WireKept, Zenon
  <2>3. RoutesOK'
    BY <1>13, <1>15, <2>1, Zenon DEF RoutesOK
  <2> QED
    BY <1>14, <1>15, <2>1, <2>2, <2>3, Zenon
<1>16. CASE host[s].at # "replying" /\ UNCHANGED <<host, codes, cancels>>
  <2>1. host'[s].at \notin Hosting
    BY <1>2, <1>16, Phases, Zenon
  <2>2. Quiet
    BY <1>16, SameHostsQuiet, Zenon
  <2>3. CodesOK'
    BY <1>0, <1>16, CodesSame, Zenon
  <2>4. HostsOK' /\ CancelsOK'
    BY <1>0, <1>16, Zenon DEF HostsOK, CancelsOK, At
  <2>5. host' \in [Session -> HostType] /\ codes' \in CodesType /\ cancels' \subseteq Session
    BY <1>0, <1>16, Zenon DEF TypeOK
  <2> QED
    BY <1>15, <2>1, <2>2, <2>3, <2>4, <2>5, Zenon
<1>17. CASE host[s].at = "replying" /\ HostStops(s)
  <2>1. /\ Quiet /\ HostsOK' /\ CodesOK' /\ CancelsOK'
        /\ host' \in [Session -> HostType] /\ codes' \in CodesType /\ cancels' \subseteq Session
    BY <1>0, <1>1, <1>17, Phases, StopKeeps, Zenon
  <2>2. host' = [host EXCEPT ![s] = Ended(s)]
    BY <1>17, Zenon DEF HostStops
  <2>3. host'[s].at = "over"
    BY <1>0, <1>1, <2>2, HostSet, EndedIs, Zenon
  <2>4. host'[s].at \notin Hosting
    BY <2>3, Phases, Zenon
  <2> QED
    BY <1>15, <2>1, <2>4, Zenon
<1>18. CASE host[s].at = "replying" /\ Answered(m) /\ UNCHANGED cancels
  <2>1. /\ \/ Quiet /\ host'[s].at = "over"
           \/ \E h : PollsOn(s, h)
        /\ HostsOK' /\ CodesOK' /\ CancelsOK'
        /\ host' \in [Session -> HostType] /\ codes' \in CodesType /\ cancels' \subseteq Session
    BY <1>0, <1>1, <1>18, AnsweredIs DEF s
  <2>2. CASE Quiet /\ host'[s].at = "over"
    <3>1. host'[s].at \notin Hosting
      BY <2>2, Phases, Zenon
    <3> QED
      BY <1>15, <2>1, <2>2, <3>1, Zenon
  <2>3. ASSUME NEW h, PollsOn(s, h)
        PROVE  Inv'
    <3>1. /\ h.locator = host[s].locator /\ h.joined = host[s].joined
          /\ h.batch = host[s].batch /\ host' = [host EXCEPT ![s] = h]
      BY <2>3, Zenon DEF PollsOn
    <3>2. host'[s] = h /\ \A i \in Session : i # s => host'[i] = host[i]
      BY <1>0, <1>1, <3>1, HostSet, Zenon
    <3>3. FixedLocators /\ \A t \in Session : host'[t].joined = host[t].joined
      BY <3>1, <3>2, Zenon DEF FixedLocators, At
    <3>4. WireOK'
      <4> SUFFICES ASSUME NEW n \in wire'
                   PROVE  ReplyOK(n)'
        BY Zenon DEF WireOK
      <4>1. n \in wire /\ n # m /\ n.by \in Session /\ ReplyOK(n)
        BY <1>0, <1>1, <1>11, RepliesAre, Zenon DEF WireOK
      <4>2. n.by # s
        BY <1>2, <1>18, <4>1, Zenon
      <4>3. host'[n.by] = host[n.by]
        BY <3>2, <4>1, <4>2, Zenon
      <4> QED
        BY <1>11, <4>1, <4>3, Zenon DEF ReplyOK
    <3>5. RoutesOK'
      <4> SUFFICES ASSUME NEW k \in Session, host'[k].at \in Hosting, k \notin expired', ~Restarted'
                   PROVE  Routed(k)'
        BY Zenon DEF RoutesOK
      <4>1. CASE k # s
        BY <1>13, <3>2, <4>1, Zenon
      <4>2. CASE k = s
        <5>1. ~Restarted /\ s \notin expired /\ host[s].at \in Hosting
          BY <1>0, <1>18, <4>2, FaultKept, Phases, Zenon
        <5>2. Agrees(s, e, host[s].batch, wire)
          BY <1>0, <1>1, <5>1, Zenon DEF RoutesOK, Routed, e, l
        <5>3. host[s].batch \in Seq(Message)
          BY <1>0, <1>1, HostTypes, Zenon
        <5>4. d.inbox \in {e.inbox, <<>>} /\ d.stage = [e.stage EXCEPT ![m.to] = m.kind]
          BY <1>5, Zenon DEF TakesReply
        <5>5. \A n \in wire : n.by = s => n = m
          BY <1>2, <1>18, Zenon
        <5>6. Agrees(s, d, host[s].batch, wire \ {m})
          BY <1>1, <1>3, <1>7, <5>2, <5>3, <5>4, <5>5, ReplyAgrees, ZenonT(60) DEF s
        <5>7. At(s)' = l /\ host'[s].batch = host[s].batch
          BY <3>1, <3>2, Zenon DEF At, l
        <5> QED
          BY <1>9, <4>2, <5>6, <5>7, Zenon DEF Routed
      <4> QED
        BY <4>1, <4>2, Zenon
    <3> QED
      BY <1>14, <2>1, <3>3, <3>4, <3>5, Zenon
  <2> QED
    BY <2>1, <2>2, <2>3, Zenon
<1> QED
  BY <1>16, <1>17, <1>18, Zenon DEF s

LEMMA ReplyKeeps ==
    ASSUME Inv, NEW m \in wire, Reply(m)
    PROVE  Inv'
<1> DEFINE ok == Held(m.by) /\ Accepts(store[At(m.by)], m.to, m.kind)
           taken == [store EXCEPT ![At(m.by)] = pairingDeliver(@, m.to, m.kind)]
<1>1. wire' = wire \ {m} /\ UNCHANGED <<join, expired>>
  BY DEF Reply
<1>2. \/ /\ ok /\ store' = taken /\ (faults' = faults \/ Fault("call"))
         /\ \/ host[m.by].at # "replying" /\ UNCHANGED <<host, codes, cancels>>
            \/ host[m.by].at = "replying" /\ Answered(m) /\ UNCHANGED cancels
            \/ host[m.by].at = "replying" /\ HostStops(m.by)
      \/ /\ store' = store /\ (faults' = faults \/ Fault("call"))
         /\ \/ UNCHANGED <<host, codes, cancels>>
            \/ host[m.by].at = "replying" /\ HostStops(m.by)
  BY Zenon DEF Reply
<1> QED
  BY <1>1, <1>2, ReplyTakenKeeps, ReplyLostKeeps, Zenon

=============================================================================
