--------------------------- MODULE NodeLockWorlds ---------------------------
(***************************************************************************)
(* What the calls of the Lock Manager and the handlers of a tab do to the  *)
(* world, for every set of tabs and any number of claims and faults.  The  *)
(* actions and the theorems are in NodeLockProofs.                         *)
(*                                                                         *)
(* A handler makes several calls, so the invariant is a predicate of       *)
(* worlds, and each call of the Lock Manager is shown to keep the part of  *)
(* it that speaks of the lock.                                             *)
(***************************************************************************)
EXTENDS NodeLock, TLAPS

RequestOf(t) == [t : {t}, k : Kinds, n : Nat \ {0}]

Events == {"granted", "null", "stolen", "dropped"}

MsgOf(t) == [e : Events, r : RequestOf(t)]

-----------------------------------------------------------------------------
(* What an inbox says of the seat.                                         *)

Loud == {"granted", "stolen"}

Quiet(s) == \A i \in 1..Len(s) : s[i].e \notin Loud

(* r is granted here, for the first time, and nothing loud follows. *)
EndsWith(s, r) ==
    \E i \in 1..Len(s) :
        /\ s[i].e = "granted" /\ s[i].r = r
        /\ \A j \in 1..Len(s) : j > i => s[j].e \notin Loud
        /\ \A j \in 1..Len(s) : j < i /\ s[j].e = "granted" => s[j].r # r

(* Every grant here has been stolen since. *)
Robbed(s) ==
    \A i \in 1..Len(s) : s[i].e = "granted" =>
        \E j \in 1..Len(s) : j > i /\ s[j].e = "stolen"

Told(s) == \E i \in 1..Len(s) : s[i].e = "stolen"

NoGrant(s, r) == \A i \in 1..Len(s) : s[i].e = "granted" => s[i].r # r

LEMMA Strings == /\ "granted" # "stolen" /\ "granted" # "null" /\ "granted" # "dropped"
                 /\ "stolen" # "null" /\ "stolen" # "dropped"
PROOF
  OBVIOUS

(* A message that says nothing of the seat changes none of this. *)
LEMMA QuietMessage ==
    ASSUME NEW u, NEW s \in Seq(MsgOf(u)), NEW m \in MsgOf(u), m.e \notin Loud, NEW r,
           NEW z, z = Append(s, m)
    PROVE  /\ z \in Seq(MsgOf(u))
           /\ Quiet(s) => Quiet(z)
           /\ EndsWith(s, r) => EndsWith(z, r)
           /\ Robbed(s) => Robbed(z)
           /\ Told(s) <=> Told(z)
           /\ NoGrant(s, r) => NoGrant(z, r)
PROOF
<1>0. z \in Seq(MsgOf(u)) /\ Len(z) = Len(s) + 1 /\ Len(s) \in Nat /\ z[Len(s) + 1] = m
      /\ \A i \in 1..Len(s) : z[i] = s[i]
  OBVIOUS
<1>1. m.e # "granted" /\ m.e # "stolen"
  BY DEF Loud
<1>2. Quiet(s) => Quiet(z)
  BY <1>0 DEF Quiet
<1>3. EndsWith(s, r) => EndsWith(z, r)
  BY <1>0, <1>1, SMTT(30) DEF EndsWith
<1>4. Robbed(s) => Robbed(z)
  BY <1>0, <1>1 DEF Robbed
<1>5. Told(s) <=> Told(z)
  BY <1>0, <1>1 DEF Told
<1>6. NoGrant(s, r) => NoGrant(z, r)
  BY <1>0, <1>1 DEF NoGrant
<1> QED
  BY <1>0, <1>2, <1>3, <1>4, <1>5, <1>6

(* A theft takes every grant before it. *)
LEMMA TheftMessage ==
    ASSUME NEW u, NEW s \in Seq(MsgOf(u)), NEW m \in MsgOf(u), m.e = "stolen", NEW r,
           NEW z, z = Append(s, m)
    PROVE  /\ z \in Seq(MsgOf(u))
           /\ Robbed(z) /\ Told(z)
           /\ NoGrant(s, r) => NoGrant(z, r)
PROOF
<1>0. z \in Seq(MsgOf(u)) /\ Len(z) = Len(s) + 1 /\ Len(s) \in Nat /\ z[Len(s) + 1] = m
      /\ \A i \in 1..Len(s) : z[i] = s[i]
  OBVIOUS
<1>1. m.e # "granted"
  BY Strings
<1>4. Robbed(z)
  BY <1>0, <1>1 DEF Robbed
<1>5. Told(z)
  BY <1>0, <1>1 DEF Told
<1>6. NoGrant(s, r) => NoGrant(z, r)
  BY <1>0, <1>1 DEF NoGrant
<1> QED
  BY <1>0, <1>4, <1>5, <1>6

LEMMA GrantMessage ==
    ASSUME NEW u, NEW s \in Seq(MsgOf(u)), NEW m \in MsgOf(u), m.e = "granted", NEW r,
           NEW z, z = Append(s, m)
    PROVE  /\ z \in Seq(MsgOf(u))
           /\ NoGrant(s, m.r) => EndsWith(z, m.r)
           /\ Told(s) <=> Told(z)
           /\ NoGrant(s, r) /\ r # m.r => NoGrant(z, r)
PROOF
<1>0. z \in Seq(MsgOf(u)) /\ Len(z) = Len(s) + 1 /\ Len(s) \in Nat /\ z[Len(s) + 1] = m
      /\ \A i \in 1..Len(s) : z[i] = s[i]
  OBVIOUS
<1>1. m.e # "stolen"
  BY Strings
<1>4. NoGrant(s, m.r) => EndsWith(z, m.r)
  BY <1>0, <1>1 DEF EndsWith, NoGrant
<1>5. Told(s) <=> Told(z)
  BY <1>0, <1>1 DEF Told
<1>6. NoGrant(s, r) /\ r # m.r => NoGrant(z, r)
  BY <1>0, <1>1 DEF NoGrant
<1> QED
  BY <1>0, <1>4, <1>5, <1>6

(* Handling the oldest message. *)
LEMMA MessageRun ==
    ASSUME NEW u, NEW s \in Seq(MsgOf(u)), s # << >>, NEW r, NEW z, z = Tail(s)
    PROVE  /\ z \in Seq(MsgOf(u)) /\ Head(s) \in MsgOf(u)
           /\ Quiet(s) => Quiet(z) /\ Head(s).e \notin Loud
           /\ EndsWith(s, r) /\ (Head(s).e # "granted" \/ Head(s).r # r) => EndsWith(z, r)
           /\ EndsWith(s, r) /\ Head(s).e = "granted" /\ Head(s).r = r => Quiet(z)
           /\ Robbed(s) => Robbed(z)
           /\ Robbed(s) /\ Head(s).e = "granted" => Told(z)
           /\ Told(z) => Told(s)
           /\ Told(s) /\ Head(s).e # "stolen" => Told(z)
           /\ NoGrant(s, r) => NoGrant(z, r)
           /\ NoGrant(s, r) /\ Head(s).e = "granted" => Head(s).r # r
PROOF
<1>0. /\ z \in Seq(MsgOf(u)) /\ Len(s) \in Nat \ {0} /\ Len(z) = Len(s) - 1 /\ Head(s) = s[1]
      /\ \A i \in 1..Len(z) : z[i] = s[i + 1]
      /\ Head(s) \in MsgOf(u)
  OBVIOUS
<1>1. \A i \in 2..Len(s) : s[i] = z[i - 1] /\ i - 1 \in 1..Len(z)
  BY <1>0
<1>2. Quiet(s) => Quiet(z) /\ Head(s).e \notin Loud
  BY <1>0 DEF Quiet
<1>3. ASSUME EndsWith(s, r)
      PROVE  /\ Head(s).e # "granted" \/ Head(s).r # r => EndsWith(z, r)
             /\ Head(s).e = "granted" /\ Head(s).r = r => Quiet(z)
  <2>1. PICK i \in 1..Len(s) :
            /\ s[i].e = "granted" /\ s[i].r = r
            /\ \A j \in 1..Len(s) : j > i => s[j].e \notin Loud
            /\ \A j \in 1..Len(s) : j < i /\ s[j].e = "granted" => s[j].r # r
    BY <1>3 DEF EndsWith
  <2>2. CASE i = 1
    <3>1. Quiet(z)
      BY <1>0, <2>1, <2>2 DEF Quiet
    <3> QED
      BY <1>0, <2>1, <2>2, <3>1
  <2>3. CASE i # 1
    <3>1. i - 1 \in 1..Len(z) /\ z[i - 1] = s[i]
      BY <1>1, <2>3
    <3>2. EndsWith(z, r)
      <4>1. \A j \in 1..Len(z) : j > i - 1 => z[j].e \notin Loud
        BY <1>0, <2>1
      <4>2. \A j \in 1..Len(z) : j < i - 1 /\ z[j].e = "granted" => z[j].r # r
        BY <1>0, <2>1
      <4> QED
        BY <2>1, <3>1, <4>1, <4>2, Zenon DEF EndsWith
    <3>3. ~(Head(s).e = "granted" /\ Head(s).r = r)
      BY <1>0, <2>1, <2>3
    <3> QED
      BY <3>2, <3>3
  <2> QED
    BY <2>2, <2>3
<1>4. Robbed(s) => Robbed(z)
  <2> SUFFICES ASSUME Robbed(s), NEW i \in 1..Len(z), z[i].e = "granted"
               PROVE  \E j \in 1..Len(z) : j > i /\ z[j].e = "stolen"
    BY Zenon DEF Robbed
  <2>1. PICK j \in 1..Len(s) : j > i + 1 /\ s[j].e = "stolen"
    BY <1>0 DEF Robbed
  <2> QED
    BY <1>0, <1>1, <2>1, SMTT(30)
<1>5. Robbed(s) /\ Head(s).e = "granted" => Told(z)
  <2> SUFFICES ASSUME Robbed(s), s[1].e = "granted"
               PROVE  Told(z)
    BY <1>0
  <2>1. PICK j \in 1..Len(s) : j > 1 /\ s[j].e = "stolen"
    BY <1>0 DEF Robbed
  <2>2. j - 1 \in 1..Len(z) /\ z[j - 1].e = "stolen"
    BY <1>1, <2>1
  <2> QED
    BY <2>2, Zenon DEF Told
<1>6. Told(z) => Told(s)
  BY <1>0 DEF Told
<1>7. Told(s) /\ Head(s).e # "stolen" => Told(z)
  <2> SUFFICES ASSUME Told(s), s[1].e # "stolen"
               PROVE  Told(z)
    BY <1>0
  <2>1. PICK j \in 1..Len(s) : s[j].e = "stolen"
    BY DEF Told
  <2>2. j \in 2..Len(s)
    BY <2>1
  <2> QED
    BY <1>1, <2>1, <2>2, Zenon DEF Told
<1>8. NoGrant(s, r) => NoGrant(z, r)
  BY <1>0 DEF NoGrant
<1>9. NoGrant(s, r) /\ Head(s).e = "granted" => Head(s).r # r
  BY <1>0 DEF NoGrant
<1> QED
  BY <1>0, <1>2, <1>3, <1>4, <1>5, <1>6, <1>7, <1>8, <1>9

-----------------------------------------------------------------------------
(* Where a tab stands, with h the holder, q the queue, k the request it    *)
(* holds by, b whether it mistook a rejection and s its inbox.             *)

Queues == Seq(Request \cup {None})

(* What queues is neither held nor granted to anybody. *)
Aside(q, k, s) == \A i \in 1..Len(q) : q[i] # None => k # q[i] /\ NoGrant(s, q[i])

Once(q) == \A i, j \in 1..Len(q) : q[i] # None /\ q[i] = q[j] => i = j

(* A tab with the seat holds by that request and has nothing to hear of    *)
(* it, or has the grant still to run as the last thing said of the seat.   *)
Seated(h, k, s, u) ==
    h.t = u => \/ k = h /\ Quiet(s)
               \/ k # h /\ EndsWith(s, h)

(* A grant still to run is good, or the theft is on its way as well. *)
Called(h, s, u) == h.t = u \/ Robbed(s)

Placed(h, q, k, b, s, u) ==
    /\ k \in RequestOf(u) \cup {None}
    /\ s \in Seq(MsgOf(u))
    /\ Aside(q, k, s)
    /\ ~b => Seated(h, k, s, u) /\ Called(h, s, u)

(* q2 is q with some of its places blank, or gone. *)
Thinner(q2, q) ==
    /\ \A i \in 1..Len(q2) : q2[i] # None => \E j \in 1..Len(q) : q2[i] = q[j]
    /\ Once(q) => Once(q2)

LEMMA RequestFacts ==
    /\ None \notin Request /\ \A t \in Tab : None.t # t
    /\ \A t \in Tab : RequestOf(t) \subseteq Request
    /\ \A t \in Tab : \A r \in RequestOf(t) : r.t = t /\ r # None
    /\ \A r \in Request : r.t \in Tab /\ r \in RequestOf(r.t)
PROOF
<1>1. None.n = 0 /\ None.t = "none"
  BY DEF None
<1>2. \A r \in Request : r.t \in Tab /\ r \in RequestOf(r.t)
  BY DEF Request, RequestOf
<1>3. \A t \in Tab : RequestOf(t) \subseteq Request
  BY DEF Request, RequestOf
<1>4. \A t : \A r \in RequestOf(t) : r.t = t /\ r.n # 0
  BY DEF RequestOf
<1>5. \A r \in Request : r.n # 0
  BY DEF Request
<1> QED
  BY <1>1, <1>2, <1>3, <1>4, <1>5, SomeTabs

LEMMA ThinnerAside ==
    ASSUME NEW q, NEW q2, Thinner(q2, q), NEW k, NEW s, Aside(q, k, s)
    PROVE  Aside(q2, k, s)
PROOF
  BY Zenon DEF Thinner, Aside

LEMMA BlankedIsThinner ==
    ASSUME NEW q \in Queues, NEW q2 \in Queues, Len(q2) = Len(q),
           \A i \in 1..Len(q) : q2[i] = q[i] \/ q2[i] = None
    PROVE  Thinner(q2, q)
PROOF
<1>1. Once(q) => Once(q2)
  BY DEF Once
<1> QED
  BY <1>1 DEF Thinner

LEMMA EmptyIsThinner ==
    ASSUME NEW q
    PROVE  << >> \in Queues /\ Thinner(<< >>, q)
PROOF
<1>1. << >> \in Queues /\ Len(<< >>) = 0
  BY DEF Queues
<1>2. 1..0 = {}
  OBVIOUS
<1> QED
  BY <1>1, <1>2 DEF Thinner, Once

(* The rest of the queue, behind the place that is served. *)
LEMMA RestIsThinner ==
    ASSUME NEW q \in Queues, NEW f \in Waiting(q), Once(q), NEW q2, q2 = SubSeq(q, f + 1, Len(q))
    PROVE  /\ q2 \in Queues /\ Thinner(q2, q)
           /\ q[f] \in Request
           /\ \A i \in 1..Len(q2) : q2[i] # q[f]
PROOF
<1>1. f \in 1..Len(q) /\ q[f] # None /\ q[f] \in Request \cup {None} /\ Len(q) \in Nat
  BY DEF Waiting, Queues
<1>2. q2 \in Queues /\ Len(q2) = Len(q) - f /\ \A i \in 1..Len(q2) : q2[i] = q[i + f] /\ i + f \in 1..Len(q)
  BY <1>1 DEF Queues
<1>3. Once(q2)
  <2> SUFFICES ASSUME NEW i \in 1..Len(q2), NEW j \in 1..Len(q2), q2[i] # None, q2[i] = q2[j]
               PROVE  i = j
    BY Zenon DEF Once
  <2>1. i + f = j + f
    BY <1>2, Zenon DEF Once
  <2> QED
    BY <2>1, <1>1, <1>2
<1>4. \A i \in 1..Len(q2) : q2[i] # q[f]
  <2> SUFFICES ASSUME NEW i \in 1..Len(q2), q2[i] = q[f]
               PROVE  FALSE
    BY Zenon
  <2>1. f = i + f
    BY <1>1, <1>2 DEF Once
  <2> QED
    BY <2>1, <1>1, <1>2
<1>5. Thinner(q2, q)
  BY <1>2, <1>3, Zenon DEF Thinner
<1> QED
  BY <1>1, <1>2, <1>4, <1>5, Zenon

(* Somebody joins the queue. *)
Joined(q, q2, r) ==
    /\ q2 \in Queues
    /\ Once(q) => Once(q2)
    /\ \A k, s : Aside(q, k, s) /\ k # r /\ NoGrant(s, r) => Aside(q2, k, s)

LEMMA JoinedQueue ==
    ASSUME NEW q \in Queues, NEW r \in Request, NEW q2, q2 = Append(q, r),
           \A i \in 1..Len(q) : q[i] # r
    PROVE  Joined(q, q2, r)
PROOF
<1>1. /\ q2 \in Queues /\ Len(q) \in Nat /\ Len(q2) = Len(q) + 1 /\ q2[Len(q) + 1] = r
      /\ \A i \in 1..Len(q) : q2[i] = q[i]
  BY DEF Queues
<1>2. Once(q) => Once(q2)
  BY <1>1 DEF Once
<1>3. \A i \in 1..Len(q2) : i \in 1..Len(q) \/ q2[i] = r
  BY <1>1
<1>4. \A k, s : Aside(q, k, s) /\ k # r /\ NoGrant(s, r) => Aside(q2, k, s)
  BY <1>1, <1>3, Zenon DEF Aside
<1> QED
  BY <1>1, <1>2, <1>4, Zenon DEF Joined

-----------------------------------------------------------------------------
(* How a tab's place follows what happens to the lock.                     *)

LEMMA PlacedParts ==
    ASSUME NEW h, NEW q, NEW k, NEW b, NEW s, NEW u, Placed(h, q, k, b, s, u)
    PROVE  /\ k \in RequestOf(u) \cup {None}
           /\ s \in Seq(MsgOf(u))
           /\ Aside(q, k, s)
           /\ ~b => Seated(h, k, s, u) /\ Called(h, s, u)
PROOF
  BY Zenon DEF Placed

LEMMA PlacedQuiet ==
    ASSUME NEW h, NEW q, NEW k, NEW b, NEW s, NEW u, Placed(h, q, k, b, s, u),
           NEW m \in MsgOf(u), m.e \notin Loud
    PROVE  Placed(h, q, k, b, Append(s, m), u)
PROOF
<1>p. ~b => Seated(h, k, s, u) /\ Called(h, s, u)
  BY Zenon DEF Placed
<1> DEFINE z == Append(s, m)
<1>0. s \in Seq(MsgOf(u))
  BY PlacedParts
<1>1. z \in Seq(MsgOf(u)) /\ (Quiet(s) => Quiet(z)) /\ (Robbed(s) => Robbed(z))
      /\ \A r : (EndsWith(s, r) => EndsWith(z, r)) /\ (NoGrant(s, r) => NoGrant(z, r))
  BY <1>0, QuietMessage, Zenon
<1> HIDE DEF z
<1>2. Aside(q, k, z)
  BY <1>1, PlacedParts, Zenon DEF Aside
<1>3. ~b => Seated(h, k, z, u) /\ Called(h, z, u)
  BY <1>p, <1>1, Zenon DEF Seated, Called
<1>4. Placed(h, q, k, b, z, u)
  BY <1>1, <1>2, <1>3, PlacedParts, Zenon DEF Placed
<1> QED
  BY <1>4 DEF z

LEMMA PlacedThinner ==
    ASSUME NEW h, NEW q, NEW k, NEW b, NEW s, NEW u, Placed(h, q, k, b, s, u),
           NEW q2, Thinner(q2, q)
    PROVE  Placed(h, q2, k, b, s, u)
PROOF
  BY ThinnerAside, Zenon DEF Placed

LEMMA PlacedJoined ==
    ASSUME NEW h, NEW q, NEW k, NEW b, NEW s, NEW u, Placed(h, q, k, b, s, u),
           NEW q2, Aside(q, k, s) => Aside(q2, k, s)
    PROVE  Placed(h, q2, k, b, s, u)
PROOF
  BY Zenon DEF Placed

(* The seat is granted to a request nobody has heard of. *)
LEMMA PlacedGranted ==
    ASSUME NEW h, NEW q, NEW k, NEW b, NEW s, NEW u, Placed(h, q, k, b, s, u),
           NEW r \in RequestOf(u), k # r, NoGrant(s, r), \A i \in 1..Len(q) : q[i] # r,
           NEW m \in MsgOf(u), m.e = "granted", m.r = r
    PROVE  Placed(r, q, k, b, Append(s, m), u)
PROOF
<1> DEFINE z == Append(s, m)
<1>0. s \in Seq(MsgOf(u))
  BY PlacedParts
<1>1. z \in Seq(MsgOf(u)) /\ EndsWith(z, r)
      /\ \A x : NoGrant(s, x) /\ x # r => NoGrant(z, x)
  <2>1. z \in Seq(MsgOf(u)) /\ (NoGrant(s, m.r) => EndsWith(z, m.r))
        /\ \A x : NoGrant(s, x) /\ x # m.r => NoGrant(z, x)
    BY <1>0, GrantMessage, Zenon
  <2> QED
    BY <1>0, <2>1, Zenon
<1>2. r.t = u
  BY DEF RequestOf
<1> HIDE DEF z
<1>3. Aside(q, k, z)
  BY <1>1, PlacedParts, Zenon DEF Aside
<1>4. Seated(r, k, z, u) /\ Called(r, z, u)
  BY <1>1, <1>2, Zenon DEF Seated, Called
<1>5. Placed(r, q, k, b, z, u)
  BY <1>1, <1>3, <1>4, PlacedParts, Zenon DEF Placed
<1> QED
  BY <1>5 DEF z

LEMMA PlacedElsewhere ==
    ASSUME NEW h, NEW q, NEW k, NEW b, NEW s, NEW u, Placed(h, q, k, b, s, u),
           h.t # u, NEW h2, h2.t # u
    PROVE  Placed(h2, q, k, b, s, u)
PROOF
  BY Zenon DEF Placed, Seated, Called

LEMMA PlacedStolen ==
    ASSUME NEW h, NEW q, NEW k, NEW b, NEW s, NEW u, Placed(h, q, k, b, s, u),
           NEW m \in MsgOf(u), m.e = "stolen", NEW h2, h2.t # u
    PROVE  Placed(h2, q, k, b, Append(s, m), u)
PROOF
<1> DEFINE z == Append(s, m)
<1>0. s \in Seq(MsgOf(u))
  BY PlacedParts
<1>1. z \in Seq(MsgOf(u)) /\ Robbed(z) /\ \A x : NoGrant(s, x) => NoGrant(z, x)
  BY <1>0, TheftMessage, Zenon
<1> HIDE DEF z
<1>3. Aside(q, k, z)
  BY <1>1, PlacedParts, Zenon DEF Aside
<1>4. Seated(h2, k, z, u) /\ Called(h2, z, u)
  BY <1>1, Zenon DEF Seated, Called
<1>5. Placed(h2, q, k, b, z, u)
  BY <1>1, <1>3, <1>4, PlacedParts, Zenon DEF Placed
<1> QED
  BY <1>5 DEF z

(* The tab resolves the hold it has the seat by. *)
LEMMA PlacedFreed ==
    ASSUME NEW h, NEW q, NEW k, NEW b, NEW s, NEW u, Placed(h, q, k, b, s, u),
           k = h, h.t = u, NEW h2, h2.t # u
    PROVE  Placed(h2, q, None, b, s, u)
PROOF
<1>1. Aside(q, None, s)
  BY PlacedParts, Zenon DEF Aside
<1>p. ~b => Seated(h, k, s, u) /\ Called(h, s, u)
  BY Zenon DEF Placed
<1>2. ~b => Quiet(s)
  BY <1>p, Zenon DEF Seated
<1>3. Quiet(s) => Robbed(s)
  BY DEF Quiet, Robbed, Loud
<1>4. ~b => Seated(h2, None, s, u) /\ Called(h2, s, u)
  BY <1>2, <1>3, Zenon DEF Seated, Called
<1> QED
  BY <1>1, <1>4, PlacedParts, Zenon DEF Placed

(* It forgets a hold that the seat is not held by. *)
LEMMA PlacedForgets ==
    ASSUME NEW h, NEW q, NEW k, NEW b, NEW s, NEW u, Placed(h, q, k, b, s, u),
           ~b /\ h.t = u => k # h /\ h # None
    PROVE  Placed(h, q, None, b, s, u)
PROOF
<1>1. Aside(q, None, s)
  BY PlacedParts, Zenon DEF Aside
<1>p. ~b => Seated(h, k, s, u) /\ Called(h, s, u)
  BY Zenon DEF Placed
<1>2. ~b => Seated(h, None, s, u) /\ Called(h, s, u)
  BY <1>p, Zenon DEF Seated
<1> QED
  BY <1>1, <1>2, PlacedParts, Zenon DEF Placed

(* A page that is gone, or was never there. *)
LEMMA PlacedNowhere ==
    ASSUME NEW h, NEW q, NEW b, NEW u, h.t # u
    PROVE  Placed(h, q, None, b, << >>, u)
PROOF
<1>1. << >> \in Seq(MsgOf(u)) /\ Len(<< >>) = 0 /\ 1..0 = {}
  OBVIOUS
<1>2. Robbed(<< >>) /\ \A x : NoGrant(<< >>, x)
  BY <1>1, Zenon DEF Robbed, NoGrant
<1>3. Aside(q, None, << >>)
  BY <1>2, Zenon DEF Aside
<1> QED
  BY <1>1, <1>2, <1>3, Zenon DEF Placed, Seated, Called

(* The tab runs the callback of a grant. *)
(* Whoever runs a grant has the seat, or will hear that it was stolen. *)
Entitled(h, b, s, u) == ~b => h.t = u \/ Told(s)

LEMMA PlacedRunsGrant ==
    ASSUME NEW h, NEW q, NEW k, NEW b, NEW s, NEW u, Placed(h, q, k, b, s, u),
           s # << >>, Head(s).e = "granted"
    PROVE  /\ Placed(h, q, Head(s).r, b, Tail(s), u)
           /\ Entitled(h, b, Tail(s), u)
PROOF
<1>p. ~b => Seated(h, k, s, u) /\ Called(h, s, u)
  BY Zenon DEF Placed
<1> DEFINE z == Tail(s)
           r == Head(s).r
<1>0. s \in Seq(MsgOf(u))
  BY PlacedParts
<1>1. /\ z \in Seq(MsgOf(u)) /\ Head(s) \in MsgOf(u)
      /\ ~Quiet(s)
      /\ \A x : EndsWith(s, x) /\ r # x => EndsWith(z, x)
      /\ \A x : EndsWith(s, x) /\ r = x => Quiet(z)
      /\ Robbed(s) => Robbed(z) /\ Told(z)
      /\ \A x : NoGrant(s, x) => NoGrant(z, x) /\ r # x
  <2>1. "granted" \in Loud
    BY DEF Loud
  <2> QED
    BY <1>0, <2>1, MessageRun, Zenon
<1>2. r \in RequestOf(u)
  BY <1>1 DEF MsgOf
<1> HIDE DEF z, r
<1>3. Aside(q, r, z)
  BY <1>1, PlacedParts, Zenon DEF Aside
<1>4. ~b => Seated(h, r, z, u) /\ Called(h, z, u) /\ (h.t = u \/ Told(z))
  BY <1>p, <1>1, Zenon DEF Seated, Called
<1>5. Placed(h, q, r, b, z, u)
  BY <1>1, <1>2, <1>3, <1>4, Zenon DEF Placed
<1>6. Entitled(h, b, z, u)
  BY <1>4, Zenon DEF Entitled
<1> QED
  BY <1>5, <1>6 DEF z, r

(* What was stolen is no longer held. *)
Bereft(h, k, b, u) == ~b /\ h.t = u => k # h

(* It runs another answer. *)
LEMMA PlacedRunsOther ==
    ASSUME NEW h, NEW q, NEW k, NEW b, NEW s, NEW u, Placed(h, q, k, b, s, u),
           s # << >>, Head(s).e # "granted"
    PROVE  /\ Placed(h, q, k, b, Tail(s), u)
           /\ Head(s).e = "stolen" => Bereft(h, k, b, u)
PROOF
<1>p. ~b => Seated(h, k, s, u) /\ Called(h, s, u)
  BY Zenon DEF Placed
<1> DEFINE z == Tail(s)
<1>0. s \in Seq(MsgOf(u))
  BY PlacedParts
<1>1. /\ z \in Seq(MsgOf(u))
      /\ Quiet(s) => Quiet(z) /\ Head(s).e # "stolen"
      /\ \A x : EndsWith(s, x) => EndsWith(z, x)
      /\ Robbed(s) => Robbed(z)
      /\ \A x : NoGrant(s, x) => NoGrant(z, x)
  <2>1. "stolen" \in Loud
    BY DEF Loud
  <2> QED
    BY <1>0, <2>1, MessageRun, Zenon
<1> HIDE DEF z
<1>3. Aside(q, k, z)
  BY <1>1, PlacedParts, Zenon DEF Aside
<1>4. ~b => Seated(h, k, z, u) /\ Called(h, z, u)
  BY <1>p, <1>1, Zenon DEF Seated, Called
<1>5. Head(s).e = "stolen" /\ ~b /\ h.t = u => k # h
  BY <1>p, <1>1, Zenon DEF Seated
<1>6. Placed(h, q, k, b, z, u)
  BY <1>1, <1>3, <1>4, PlacedParts, Zenon DEF Placed
<1>7. Head(s).e = "stolen" => Bereft(h, k, b, u)
  BY <1>5, Zenon DEF Bereft
<1> QED
  BY <1>6, <1>7 DEF z

LEMMA PlacedBereft ==
    ASSUME NEW h, NEW q, NEW k, NEW b, NEW s, NEW u, Placed(h, q, k, b, s, u),
           s # << >>, Head(s).e = "stolen"
    PROVE  Bereft(h, k, b, u)
PROOF
  BY PlacedRunsOther, Zenon

-----------------------------------------------------------------------------
(* Worlds.                                                                 *)

TabState ==
    [page : {"new", "open", "closed"}, unlocked : BOOLEAN, held : BOOLEAN, acquiring : BOOLEAN,
     hold : Request \cup {None}, queued : Request \cup {None}, drop : BOOLEAN, waiting : BOOLEAN,
     connect : {"idle", "seat", "config", "starting"}, current : BOOLEAN, reading : BOOLEAN,
     node : BOOLEAN, stopping : BOOLEAN, retry : BOOLEAN, timers : Nat, astray : BOOLEAN, mistook : BOOLEAN]

Locks == [holder : Request \cup {None}, queue : Queues]

Msg == [e : Events, r : Request]

Worlds == [locks : Locks, inbox : [Tab -> Seq(Msg)], tab : [Tab -> TabState]]

(* The lock's part of the invariant. *)
Stands(w, u) == Placed(w.locks.holder, w.locks.queue, w.tab[u].hold, w.tab[u].mistook, w.inbox[u], u)

(* What numbers a new request, and whom a free lock goes to: the smallest  *)
(* of a set of numbers.  That there is one is shown with the library of    *)
(* finite sets, in NodeLockProofs; until then the invariant carries it.    *)
Live(w, t) ==
    {w.locks.holder, w.tab[t].hold, w.tab[t].queued}
        \cup Range(w.locks.queue)
        \cup {m.r : m \in Range(w.inbox[t])}

Counting ==
    /\ \A w \in Worlds : \A t \in Tab :
          Fresh(w, t) \in Nat \ {0} /\ \A q \in Live(w, t) : q.t = t => q.n # Fresh(w, t)
    /\ \A q \in Queues : Waiting(q) # {} => Min(Waiting(q)) \in Waiting(q)

LockInv(w) ==
    /\ Counting
    /\ w \in Worlds
    /\ w.locks.holder = None => w.locks.queue = << >>
    /\ Once(w.locks.queue)
    /\ \A u \in Tab : Stands(w, u)

(* Nothing refers to r yet. *)
Unheard(w, r) ==
    /\ r # w.locks.holder
    /\ \A i \in 1..Len(w.locks.queue) : w.locks.queue[i] # r
    /\ \A u \in Tab : w.tab[u].hold # r /\ NoGrant(w.inbox[u], r)

LEMMA FreshIsNew ==
    ASSUME NEW w, LockInv(w), NEW t \in Tab, NEW k \in Kinds,
           NEW r, r = [t |-> t, k |-> k, n |-> Fresh(w, t)]
    PROVE  r \in RequestOf(t) /\ Unheard(w, r)
PROOF
<1> DEFINE live == Live(w, t)
<1>0. w.locks.queue \in Queues /\ \A u \in Tab : /\ w.inbox[u] \in Seq(MsgOf(u))
                                                  /\ w.tab[u].hold \in RequestOf(u) \cup {None}
  <2>1. w.locks.queue \in Queues
    BY DEF LockInv, Worlds, Locks
  <2>2. \A u \in Tab : Stands(w, u)
    BY Zenon DEF LockInv
  <2> QED
    BY <2>1, <2>2, Zenon DEF Stands, Placed
<1>1. live = {w.locks.holder, w.tab[t].hold, w.tab[t].queued}
                \cup Range(w.locks.queue)
                \cup {m.r : m \in Range(w.inbox[t])}
  BY Zenon DEF Live
<1>5. Fresh(w, t) \in Nat \ {0} /\ \A q \in live : q.t = t => q.n # Fresh(w, t)
  BY Zenon DEF LockInv, Counting
<1>6. r \in RequestOf(t)
  BY <1>5 DEF RequestOf
<1> HIDE DEF live
<1>7. r \notin live
  <2>1. r.t = t /\ r.n = Fresh(w, t)
    OBVIOUS
  <2> QED
    BY <1>5, <2>1, Zenon
<1>8. r # w.locks.holder /\ w.tab[t].hold # r
  BY <1>1, <1>7
<1>9. \A i \in 1..Len(w.locks.queue) : w.locks.queue[i] # r
  <2>1. r \notin Range(w.locks.queue)
    BY <1>1, <1>7
  <2> QED
    BY <1>0, <2>1 DEF Range, Queues
<1>10. NoGrant(w.inbox[t], r)
  <2>1. \A m \in Range(w.inbox[t]) : m.r # r
    BY <1>1, <1>7
  <2>2. \A i \in 1..Len(w.inbox[t]) : w.inbox[t][i] \in Range(w.inbox[t])
    BY <1>0 DEF Range
  <2> QED
    BY <2>1, <2>2, Zenon DEF NoGrant
<1>11. ASSUME NEW u \in Tab, u # t
       PROVE  w.tab[u].hold # r /\ NoGrant(w.inbox[u], r)
  <2>1. r.t = t /\ r # None
    BY <1>6, RequestFacts
  <2>2. w.tab[u].hold # r
    BY <1>0, <1>11, <2>1 DEF RequestOf
  <2>3. \A i \in 1..Len(w.inbox[u]) : w.inbox[u][i].r.t = u
    <3>1. w.inbox[u] \in Seq(MsgOf(u))
      BY <1>0
    <3>2. \A m \in MsgOf(u) : m.r.t = u
      BY DEF MsgOf, RequestOf
    <3> QED
      BY <3>1, <3>2
  <2> QED
    BY <1>11, <2>1, <2>2, <2>3 DEF NoGrant
<1> QED
  BY <1>6, <1>8, <1>9, <1>10, <1>11, Zenon DEF Unheard

-----------------------------------------------------------------------------
(* The calls of the Lock Manager.                                          *)

SameTold(w, v) == \A u \in Tab : Told(v.inbox[u]) <=> Told(w.inbox[u])

(* The seat stays where it is, or t takes it while it is free. *)
Takes(w, v, t) == v.locks.holder = w.locks.holder \/ (w.locks.holder = None /\ v.locks.holder.t = t)

(* As LockInv, with nobody in the seat and the queue not served yet. *)
Vacated(w) ==
    /\ Counting
    /\ w \in Worlds
    /\ Once(w.locks.queue)
    /\ \A u \in Tab : Placed(None, w.locks.queue, w.tab[u].hold, w.tab[u].mistook, w.inbox[u], u)

LEMMA WorldParts ==
    ASSUME NEW w \in Worlds
    PROVE  /\ w.locks \in Locks /\ w.inbox \in [Tab -> Seq(Msg)] /\ w.tab \in [Tab -> TabState]
           /\ w.locks.holder \in Request \cup {None} /\ w.locks.queue \in Queues
           /\ w = [locks |-> w.locks, inbox |-> w.inbox, tab |-> w.tab]
           /\ w.locks = [holder |-> w.locks.holder, queue |-> w.locks.queue]
PROOF
  BY DEF Worlds, Locks

LEMMA QuietTold ==
    ASSUME NEW u, NEW s \in Seq(MsgOf(u)), NEW m \in MsgOf(u), m.e \notin Loud \/ m.e = "granted"
    PROVE  Told(s) <=> Told(Append(s, m))
PROOF
<1> DEFINE z == Append(s, m)
<1>0. z = Append(s, m)
  OBVIOUS
<1> HIDE DEF z
<1>1. CASE m.e \notin Loud
  BY <1>0, <1>1, QuietMessage, Zenon
<1>2. CASE m.e = "granted"
  BY <1>0, <1>2, GrantMessage, Zenon
<1> QED
  BY <1>0, <1>1, <1>2

(* One message more for t. *)
Hears(w, v, t, m) ==
    /\ v \in Worlds /\ v.locks = w.locks /\ v.tab = w.tab
    /\ v.inbox[t] = Append(w.inbox[t], m)
    /\ \A u \in Tab \ {t} : v.inbox[u] = w.inbox[u]
    /\ m \in MsgOf(t)

LEMMA TellShape ==
    ASSUME NEW w \in Worlds, NEW r, NEW what
    PROVE  Tell(w, r, what) =
               [locks |-> w.locks, tab |-> w.tab,
                inbox |-> [w.inbox EXCEPT ![r.t] = Append(w.inbox[r.t], [e |-> what, r |-> r])]]
PROOF
<1> SUFFICES ASSUME NEW v, v = Tell(w, r, what)
             PROVE  v = [locks |-> w.locks, tab |-> w.tab,
                         inbox |-> [w.inbox EXCEPT ![r.t] = Append(w.inbox[r.t], [e |-> what, r |-> r])]]
  BY Zenon
<1> QED
  BY Zenon DEF Tell, Worlds

LEMMA TellFacts ==
    ASSUME NEW w \in Worlds, NEW r \in Request, NEW what \in Events
    PROVE  Hears(w, Tell(w, r, what), r.t, [e |-> what, r |-> r])
PROOF
<1> DEFINE v == Tell(w, r, what)
           m == [e |-> what, r |-> r]
           I == [w.inbox EXCEPT ![r.t] = Append(w.inbox[r.t], m)]
<1>1. r.t \in Tab /\ r \in RequestOf(r.t)
  BY RequestFacts
<1>2. m \in Msg /\ m \in MsgOf(r.t)
  BY <1>1 DEF Msg, MsgOf
<1>3. w.inbox \in [Tab -> Seq(Msg)]
  BY WorldParts, Zenon
<1>4. I \in [Tab -> Seq(Msg)]
  <2>1. Append(w.inbox[r.t], m) \in Seq(Msg)
    BY <1>1, <1>2, <1>3
  <2> QED
    BY <1>1, <1>3, <2>1
<1>5. v = [locks |-> w.locks, tab |-> w.tab, inbox |-> I]
  BY TellShape, Zenon
<1>6. v \in Worlds
  BY <1>4, <1>5, WorldParts, Zenon DEF Worlds
<1>7. v.inbox = I /\ v.locks = w.locks /\ v.tab = w.tab
  BY <1>5
<1>8. I[r.t] = Append(w.inbox[r.t], m) /\ \A u \in Tab \ {r.t} : I[u] = w.inbox[u]
  BY <1>1, <1>3
<1> HIDE DEF v, m, I
<1>9. Hears(w, v, r.t, m)
  BY <1>2, <1>6, <1>7, <1>8, Zenon DEF Hears
<1> QED
  BY <1>9 DEF v, m

(* New locks and all else the same. *)
Relocked(w, v, h, q) ==
    v \in Worlds /\ v.locks.holder = h /\ v.locks.queue = q /\ v.inbox = w.inbox /\ v.tab = w.tab

LEMMA RelockFacts ==
    ASSUME NEW w \in Worlds, NEW h \in Request \cup {None}, NEW q \in Queues
    PROVE  Relocked(w, [locks |-> [holder |-> h, queue |-> q], inbox |-> w.inbox, tab |-> w.tab], h, q)
PROOF
<1> SUFFICES ASSUME NEW v, v = [locks |-> [holder |-> h, queue |-> q], inbox |-> w.inbox, tab |-> w.tab]
             PROVE  Relocked(w, v, h, q)
  BY Zenon
<1>1. [holder |-> h, queue |-> q] \in Locks
  BY DEF Locks
<1>2. v \in Worlds
  BY <1>1, WorldParts, Zenon DEF Worlds
<1> QED
  BY <1>2 DEF Relocked

LEMMA LocksEdit ==
    ASSUME NEW l \in Locks, NEW x
    PROVE  /\ [l EXCEPT !.holder = x] = [holder |-> x, queue |-> l.queue]
           /\ [l EXCEPT !.queue = x] = [holder |-> l.holder, queue |-> x]
PROOF
  BY DEF Locks

LEMMA HolderEdit ==
    ASSUME NEW w \in Worlds, NEW h, NEW v, v = [w EXCEPT !.locks.holder = h]
    PROVE  v = [locks |-> [holder |-> h, queue |-> w.locks.queue], inbox |-> w.inbox, tab |-> w.tab]
PROOF
<1>1. v = [w EXCEPT !.locks = [w.locks EXCEPT !.holder = h]]
  BY Zenon
<1>2. [w.locks EXCEPT !.holder = h] = [holder |-> h, queue |-> w.locks.queue]
  BY WorldParts, LocksEdit, ZenonT(60)
<1> QED
  BY <1>1, <1>2, WorldParts, Zenon

LEMMA QueueEdit ==
    ASSUME NEW w \in Worlds, NEW q, NEW v, v = [w EXCEPT !.locks.queue = q]
    PROVE  v = [locks |-> [holder |-> w.locks.holder, queue |-> q], inbox |-> w.inbox, tab |-> w.tab]
PROOF
<1>1. v = [w EXCEPT !.locks = [w.locks EXCEPT !.queue = q]]
  BY Zenon
<1>2. [w.locks EXCEPT !.queue = q] = [holder |-> w.locks.holder, queue |-> q]
  BY WorldParts, LocksEdit, Zenon
<1> QED
  BY <1>1, <1>2, WorldParts, Zenon

(* A message that says nothing of the seat. *)
LEMMA TellKeeps ==
    ASSUME NEW w, LockInv(w), NEW r \in Request, NEW what \in {"null", "dropped"},
           NEW v, v = Tell(w, r, what)
    PROVE  LockInv(v) /\ SameTold(w, v) /\ v.tab = w.tab /\ v.locks = w.locks
PROOF
<1> DEFINE m == [e |-> what, r |-> r]
<1>0. w \in Worlds /\ r.t \in Tab /\ what \in Events
  BY RequestFacts DEF LockInv, Events
<1>1. /\ v \in Worlds /\ v.locks = w.locks /\ v.tab = w.tab
      /\ v.inbox[r.t] = Append(w.inbox[r.t], m)
      /\ \A u \in Tab \ {r.t} : v.inbox[u] = w.inbox[u]
      /\ m \in MsgOf(r.t)
  BY <1>0, TellFacts, Zenon DEF Hears
<1>2. m.e \notin Loud
  BY DEF Loud
<1> HIDE DEF m
<1>3. ASSUME NEW u \in Tab PROVE Stands(v, u) /\ (Told(v.inbox[u]) <=> Told(w.inbox[u]))
  <2>0. Stands(w, u)
    BY Zenon DEF LockInv
  <2>1. CASE u # r.t
    BY <1>1, <2>0, <2>1, Zenon DEF Stands
  <2>2. CASE u = r.t
    <3>0. v.inbox[u] = Append(w.inbox[u], m) /\ m \in MsgOf(u)
      BY <1>1, <2>2, Zenon
    <3>1. Placed(w.locks.holder, w.locks.queue, w.tab[u].hold, w.tab[u].mistook,
                 Append(w.inbox[u], m), u)
      BY <1>2, <2>0, <3>0, PlacedQuiet, Zenon DEF Stands
    <3>4. Stands(v, u)
      BY <1>1, <3>0, <3>1, Zenon DEF Stands
    <3>2. w.inbox[u] \in Seq(MsgOf(u))
      BY <2>0, Zenon DEF Stands, Placed
    <3>3. Told(w.inbox[u]) <=> Told(v.inbox[u])
      BY <1>2, <3>0, <3>2, QuietTold, Zenon
    <3> QED
      BY <3>3, <3>4
  <2> QED
    BY <2>1, <2>2
<1> QED
  BY <1>1, <1>3, Zenon DEF LockInv, SameTold

(* r is in the seat. *)
Seats(w, v, r) == LockInv(v) /\ SameTold(w, v) /\ v.tab = w.tab /\ v.locks.holder = r

(* A free seat is granted to a request nobody has heard of. *)
LEMMA GrantKeeps ==
    ASSUME NEW w, Vacated(w), NEW r \in Request,
           \A i \in 1..Len(w.locks.queue) : w.locks.queue[i] # r,
           w.tab[r.t].hold # r, NoGrant(w.inbox[r.t], r)
    PROVE  Seats(w, Grant(w, r), r)
PROOF
<1> SUFFICES ASSUME NEW v, v = Grant(w, r)
             PROVE  Seats(w, v, r)
  BY Zenon
<1> DEFINE m == [e |-> "granted", r |-> r]
           x == [w EXCEPT !.locks.holder = r]
<1>0. w \in Worlds /\ r.t \in Tab /\ r \in RequestOf(r.t) /\ r # None /\ "granted" \in Events
  BY RequestFacts DEF Vacated, Events
<1>2. v = Tell(x, r, "granted")
  BY Zenon DEF Grant
<1>7. x = [locks |-> [holder |-> r, queue |-> w.locks.queue], inbox |-> w.inbox, tab |-> w.tab]
  BY <1>0, HolderEdit, Zenon
<1>8. w.locks.queue \in Queues
  BY <1>0, WorldParts, Zenon
<1>1. x \in Worlds /\ x.locks.holder = r /\ x.locks.queue = w.locks.queue
      /\ x.inbox = w.inbox /\ x.tab = w.tab
  <2> HIDE DEF x
  <2>1. Relocked(w, x, r, w.locks.queue)
    BY <1>0, <1>7, <1>8, RelockFacts, Zenon
  <2> QED
    BY <2>1, Zenon DEF Relocked
<1> HIDE DEF x
<1>3. /\ v \in Worlds /\ v.locks = x.locks /\ v.tab = x.tab
      /\ v.inbox[r.t] = Append(x.inbox[r.t], m)
      /\ \A u \in Tab \ {r.t} : v.inbox[u] = x.inbox[u]
      /\ m \in MsgOf(r.t)
  <2>1. Hears(x, Tell(x, r, "granted"), r.t, [e |-> "granted", r |-> r])
    BY <1>0, <1>1, TellFacts, Zenon
  <2>2. Hears(x, v, r.t, m)
    BY <1>2, <2>1, Zenon
  <2> HIDE DEF m
  <2> QED
    BY <2>2, Zenon DEF Hears
<1>4. m.e = "granted" /\ m.r = r
  OBVIOUS
<1> HIDE DEF m
<1>5. ASSUME NEW u \in Tab PROVE Stands(v, u) /\ (Told(v.inbox[u]) <=> Told(w.inbox[u]))
  <2>0. Placed(None, w.locks.queue, w.tab[u].hold, w.tab[u].mistook, w.inbox[u], u)
    BY Zenon DEF Vacated
  <2>1. CASE u # r.t
    <3>1. None.t # u
      BY RequestFacts
    <3>2. Placed(r, w.locks.queue, w.tab[u].hold, w.tab[u].mistook, w.inbox[u], u)
      BY <2>0, <2>1, <3>1, PlacedElsewhere, Zenon
    <3> QED
      BY <1>1, <1>3, <2>1, <3>2, Zenon DEF Stands
  <2>2. CASE u = r.t
    <3>1. Placed(r, w.locks.queue, w.tab[u].hold, w.tab[u].mistook, Append(w.inbox[u], m), u)
      BY <1>0, <1>3, <1>4, <2>0, <2>2, PlacedGranted, ZenonT(60)
    <3>2. w.inbox[u] \in Seq(MsgOf(u))
      BY <2>0, Zenon DEF Placed
    <3>5. v.inbox[u] = Append(w.inbox[u], m) /\ m \in MsgOf(u)
      BY <1>1, <1>3, <2>2, Zenon
    <3>3. Told(w.inbox[u]) <=> Told(v.inbox[u])
      <4>1. Told(w.inbox[u]) <=> Told(Append(w.inbox[u], m))
        BY <1>4, <3>2, <3>5, QuietTold, Zenon
      <4> QED
        BY <3>5, <4>1, Zenon
    <3>4. Stands(v, u)
      BY <1>1, <1>3, <2>2, <3>1, Zenon DEF Stands
    <3> QED
      BY <3>3, <3>4
  <2> QED
    BY <2>1, <2>2
<1>6. Once(v.locks.queue) /\ v.locks.holder = r
  BY <1>1, <1>3, Zenon DEF Vacated
<1> QED
  BY <1>0, <1>1, <1>3, <1>5, <1>6, Zenon DEF Vacated, LockInv, SameTold, Seats

(* What a tab knows changes. *)
Edit(w, t, y) == [locks |-> w.locks, inbox |-> w.inbox, tab |-> [w.tab EXCEPT ![t] = y]]

LEMMA EditShape ==
    ASSUME NEW w \in Worlds, NEW t \in Tab, NEW y
    PROVE  [w EXCEPT !.tab[t] = y] = Edit(w, t, y)
PROOF
<1> SUFFICES ASSUME NEW v, v = [w EXCEPT !.tab[t] = y]
             PROVE  v = Edit(w, t, y)
  BY Zenon
<1>1. v.locks = w.locks /\ v.inbox = w.inbox /\ v.tab = [w.tab EXCEPT ![t] = y]
  BY Zenon DEF Worlds
<1>2. v = [locks |-> v.locks, inbox |-> v.inbox, tab |-> v.tab]
  BY Zenon DEF Worlds
<1> QED
  BY <1>1, <1>2, Zenon DEF Edit

Edited(w, v, t, y) ==
    /\ v \in Worlds /\ v.locks = w.locks /\ v.inbox = w.inbox
    /\ v.tab[t] = y /\ \A u \in Tab \ {t} : v.tab[u] = w.tab[u]
    /\ v.tab = [w.tab EXCEPT ![t] = y]

LEMMA EditFacts ==
    ASSUME NEW w \in Worlds, NEW t \in Tab, NEW y \in TabState
    PROVE  Edited(w, Edit(w, t, y), t, y)
PROOF
<1> DEFINE T == [w.tab EXCEPT ![t] = y]
<1>1. w.locks \in Locks /\ w.inbox \in [Tab -> Seq(Msg)] /\ w.tab \in [Tab -> TabState]
  BY WorldParts, Zenon
<1>2. T \in [Tab -> TabState] /\ T[t] = y /\ \A u \in Tab \ {t} : T[u] = w.tab[u]
  BY <1>1
<1> HIDE DEF T
<1>3. Edit(w, t, y) = [locks |-> w.locks, inbox |-> w.inbox, tab |-> T]
  BY DEF Edit, T
<1>4. Edit(w, t, y) \in Worlds
  BY <1>1, <1>2, <1>3 DEF Worlds
<1>5. Edit(w, t, y).locks = w.locks /\ Edit(w, t, y).inbox = w.inbox /\ Edit(w, t, y).tab = T
  BY <1>3
<1>6. T = [w.tab EXCEPT ![t] = y]
  BY DEF T
<1> QED
  BY <1>2, <1>4, <1>5, <1>6, Zenon DEF Edited

LEMMA EditKeeps ==
    ASSUME NEW w, LockInv(w), NEW t \in Tab, NEW y \in TabState,
           y.hold = w.tab[t].hold, w.tab[t].mistook => y.mistook
    PROVE  LockInv(Edit(w, t, y)) /\ SameTold(w, Edit(w, t, y))
PROOF
<1> DEFINE v == Edit(w, t, y)
<1>1. w \in Worlds
  BY DEF LockInv
<1>5. Edited(w, v, t, y)
  BY <1>1, EditFacts, Zenon
<1> HIDE DEF v
<1>2. /\ v \in Worlds /\ v.locks = w.locks /\ v.inbox = w.inbox
      /\ v.tab[t] = y /\ \A u \in Tab \ {t} : v.tab[u] = w.tab[u]
  BY <1>5, Zenon DEF Edited
<1>3. ASSUME NEW u \in Tab PROVE Stands(v, u)
  <2>1. Stands(w, u)
    BY Zenon DEF LockInv
  <2>2. CASE u # t
    BY <1>2, <2>1, <2>2, Zenon DEF Stands
  <2>3. CASE u = t
    <3>0. Placed(w.locks.holder, w.locks.queue, w.tab[t].hold, w.tab[t].mistook, w.inbox[t], t)
      BY <2>1, <2>3, Zenon DEF Stands
    <3>1. Placed(w.locks.holder, w.locks.queue, w.tab[t].hold, y.mistook, w.inbox[t], t)
      BY <3>0, Zenon DEF Placed
    <3> QED
      BY <1>2, <2>3, <3>1, Zenon DEF Stands
  <2> QED
    BY <2>2, <2>3
<1>4. LockInv(v) /\ SameTold(w, v)
  BY <1>2, <1>3, Zenon DEF LockInv, SameTold
<1> QED
  BY <1>4 DEF v

LEMMA FreeIsVacated ==
    ASSUME NEW w, LockInv(w), w.locks.holder = None
    PROVE  Vacated(w)
PROOF
  BY Zenon DEF LockInv, Vacated, Stands

(* navigator.locks.request(..., {ifAvailable}): granted if the seat is     *)
(* free, and told so if it is not.                                         *)
Tried(w, v, t) ==
    /\ LockInv(v) /\ SameTold(w, v) /\ v.tab = w.tab /\ Takes(w, v, t)
    /\ v.locks.holder # w.locks.holder => v.locks.holder # w.tab[t].hold

LEMMA TryKeeps ==
    ASSUME NEW w, LockInv(w), NEW t \in Tab
    PROVE  Tried(w, RequestTry(w, t), t)
PROOF
<1> SUFFICES ASSUME NEW v, v = RequestTry(w, t)
             PROVE  Tried(w, v, t)
  BY Zenon
<1> DEFINE r == [t |-> t, k |-> "try", n |-> Fresh(w, t)]
<1>1. "try" \in Kinds
  BY DEF Kinds
<1>2. r \in RequestOf(t) /\ Unheard(w, r)
  BY <1>1, FreshIsNew, Zenon
<1>3. v = IF w.locks.holder = None THEN Grant(w, r) ELSE Tell(w, r, "null")
  BY Zenon DEF RequestTry
<1> HIDE DEF r
<1>4. r \in Request /\ r.t = t
  BY <1>2, RequestFacts
<1>5. /\ \A i \in 1..Len(w.locks.queue) : w.locks.queue[i] # r
      /\ w.tab[r.t].hold # r /\ NoGrant(w.inbox[r.t], r)
  BY <1>2, <1>4, Zenon DEF Unheard
<1>6. CASE w.locks.holder = None
  <2>1. Vacated(w) /\ v = Grant(w, r)
    BY <1>3, <1>6, FreeIsVacated, Zenon
  <2>2. LockInv(v) /\ SameTold(w, v) /\ v.tab = w.tab /\ v.locks.holder = r
    <3>1. Seats(w, Grant(w, r), r)
      BY <1>4, <1>5, <2>1, GrantKeeps, Zenon
    <3>2. Seats(w, v, r)
      BY <2>1, <3>1, Zenon
    <3> QED
      BY <3>2, Zenon DEF Seats
  <2> QED
    BY <1>4, <1>5, <1>6, <2>2, Zenon DEF Takes, Tried
<1>7. CASE w.locks.holder # None
  <2>1. v = Tell(w, r, "null")
    BY <1>3, <1>7, Zenon
  <2>2. LockInv(v) /\ SameTold(w, v) /\ v.tab = w.tab /\ v.locks = w.locks
    BY <1>4, <2>1, TellKeeps
  <2> QED
    BY <2>2, Zenon DEF Takes, Tried
<1> QED
  BY <1>6, <1>7

(* A new queue, everybody as well placed as before. *)
Requeued(w, v, q) ==
    /\ LockInv(v) /\ SameTold(w, v) /\ v.tab = w.tab
    /\ v.locks.holder = w.locks.holder /\ v.locks.queue = q /\ v.inbox = w.inbox

LEMMA QueueKeeps ==
    ASSUME NEW w, LockInv(w), NEW q \in Queues, Once(q),
           w.locks.holder = None => q = << >>,
           \A u \in Tab : Aside(w.locks.queue, w.tab[u].hold, w.inbox[u])
                            => Aside(q, w.tab[u].hold, w.inbox[u])
    PROVE  Requeued(w, [w EXCEPT !.locks.queue = q], q)
PROOF
<1> SUFFICES ASSUME NEW v, v = [w EXCEPT !.locks.queue = q]
             PROVE  Requeued(w, v, q)
  BY Zenon
<1>1. w \in Worlds /\ w.locks.holder \in Request \cup {None}
  BY WorldParts, Zenon DEF LockInv
<1>2. v = [locks |-> [holder |-> w.locks.holder, queue |-> q], inbox |-> w.inbox, tab |-> w.tab]
  BY <1>1, QueueEdit, Zenon
<1>3. /\ v \in Worlds /\ v.locks.holder = w.locks.holder /\ v.locks.queue = q
      /\ v.inbox = w.inbox /\ v.tab = w.tab
  <2>0. Relocked(w, [locks |-> [holder |-> w.locks.holder, queue |-> q], inbox |-> w.inbox,
                     tab |-> w.tab], w.locks.holder, q)
    BY <1>1, RelockFacts, Zenon
  <2>1. Relocked(w, v, w.locks.holder, q)
    BY <1>2, <2>0, Zenon
  <2> QED
    BY <2>1, Zenon DEF Relocked
<1>4. ASSUME NEW u \in Tab PROVE Stands(v, u)
  <2>1. Stands(w, u)
    BY Zenon DEF LockInv
  <2>2. Placed(w.locks.holder, q, w.tab[u].hold, w.tab[u].mistook, w.inbox[u], u)
    BY <2>1, PlacedJoined, Zenon DEF Stands
  <2> QED
    BY <1>3, <2>2, Zenon DEF Stands
<1> QED
  BY <1>3, <1>4, Zenon DEF LockInv, SameTold, Requeued

Recalls(w, v, t) ==
    \E r \in RequestOf(t) : v.tab = [w.tab EXCEPT ![t] = [w.tab[t] EXCEPT !.queued = r]]

(* A request that waits: the tab remembers it, and is served at once if    *)
(* the seat is free.                                                       *)
LEMMA WaitKeeps ==
    ASSUME NEW w, LockInv(w), NEW t \in Tab, NEW v, v = RequestWait(w, t)
    PROVE  LockInv(v) /\ SameTold(w, v) /\ Takes(w, v, t) /\ Recalls(w, v, t)
PROOF
<1> DEFINE r == [t |-> t, k |-> "wait", n |-> Fresh(w, t)]
           x == [w EXCEPT !.tab[t].queued = r]
           y == [w.tab[t] EXCEPT !.queued = r]
<1>0. "wait" \in Kinds /\ w \in Worlds
  BY DEF Kinds, LockInv
<1>1. r \in RequestOf(t) /\ Unheard(w, r)
  BY <1>0, FreshIsNew, Zenon
<1>2. v = IF w.locks.holder = None THEN Grant(x, r) ELSE [x EXCEPT !.locks.queue = Append(@, r)]
  BY Zenon DEF RequestWait
<1> HIDE DEF r
<1>3. r \in Request /\ r.t = t
  BY <1>1, RequestFacts
<1>4. y \in TabState /\ y.hold = w.tab[t].hold /\ y.mistook = w.tab[t].mistook
  <2>1. w.tab[t] \in TabState
    BY <1>0, WorldParts, Zenon
  <2> QED
    BY <1>3, <2>1 DEF TabState
<1>5. x = Edit(w, t, y)
  BY <1>0, EditShape, ZenonT(60)
<1> HIDE DEF x
<1>6. Edited(w, x, t, y) /\ LockInv(x) /\ SameTold(w, x)
  <2> HIDE DEF y
  <2> QED
    BY <1>0, <1>4, <1>5, EditFacts, EditKeeps, Zenon
<1>7. v.tab = x.tab => Recalls(w, v, t)
  BY <1>1, <1>6, Zenon DEF Edited, Recalls
<1>8. Unheard(x, r)
  <2>1. /\ x.locks = w.locks /\ x.inbox = w.inbox /\ x.tab[t] = y
        /\ \A u \in Tab \ {t} : x.tab[u] = w.tab[u]
    BY <1>6, Zenon DEF Edited
  <2>2. y.hold = w.tab[t].hold
    BY <1>4
  <2> HIDE DEF y
  <2>3. \A u \in Tab : x.tab[u].hold = w.tab[u].hold
    BY <2>1, <2>2, Zenon
  <2> QED
    BY <1>1, <2>1, <2>3, Zenon DEF Unheard
<1> HIDE DEF y
<1>9. /\ \A i \in 1..Len(x.locks.queue) : x.locks.queue[i] # r
      /\ \A u \in Tab : x.tab[u].hold # r /\ NoGrant(x.inbox[u], r)
      /\ x.locks = w.locks
  BY <1>6, <1>8, Zenon DEF Unheard, Edited
<1>10. CASE w.locks.holder = None
  <2>1. Vacated(x) /\ v = Grant(x, r)
    BY <1>2, <1>6, <1>9, <1>10, FreeIsVacated, Zenon
  <2>2. Seats(x, v, r)
    BY <1>3, <1>9, <2>1, GrantKeeps, Zenon
  <2>3. LockInv(v) /\ SameTold(x, v) /\ v.tab = x.tab /\ v.locks.holder = r
    BY <2>2, Zenon DEF Seats
  <2> QED
    BY <1>3, <1>6, <1>7, <1>10, <2>3, Zenon DEF Takes, SameTold
<1>11. CASE w.locks.holder # None
  <2> DEFINE q == Append(x.locks.queue, r)
  <2>0. x \in Worlds /\ x.locks.queue \in Queues /\ Once(x.locks.queue)
    BY <1>6, WorldParts, Zenon DEF LockInv
  <2>1. v = [x EXCEPT !.locks.queue = q]
    BY <1>2, <1>11, Zenon
  <2>2. q = Append(x.locks.queue, r)
    OBVIOUS
  <2> HIDE DEF q
  <2>3. /\ q \in Queues /\ Once(q)
        /\ \A k, z : Aside(x.locks.queue, k, z) /\ k # r /\ NoGrant(z, r) => Aside(q, k, z)
    <3>1. Joined(x.locks.queue, q, r)
      BY <1>3, <1>9, <2>0, <2>2, JoinedQueue, Zenon
    <3> QED
      BY <2>0, <3>1, Zenon DEF Joined
  <2>4. x.locks.holder # None
    BY <1>9, <1>11
  <2>5. \A u \in Tab : Aside(x.locks.queue, x.tab[u].hold, x.inbox[u])
                           => Aside(q, x.tab[u].hold, x.inbox[u])
    BY <1>9, <2>3, Zenon
  <2>6. LockInv(v) /\ SameTold(x, v) /\ v.tab = x.tab /\ v.locks.holder = x.locks.holder
    <3>0. Requeued(x, [x EXCEPT !.locks.queue = q], q)
      BY <1>6, <2>3, <2>4, <2>5, QueueKeeps, Zenon
    <3>1. Requeued(x, v, q)
      BY <2>1, <3>0, Zenon
    <3> QED
      BY <3>1, Zenon DEF Requeued
  <2> QED
    BY <1>6, <1>7, <1>9, <2>6, Zenon DEF Takes, SameTold
<1> QED
  BY <1>10, <1>11

(* A stolen seat: the holder will be told, and nobody else. *)
Forced(w, v, t) ==
    /\ v.locks.holder.t = t
    /\ \/ w.locks.holder = None /\ SameTold(w, v)
       \/ /\ w.locks.holder \in Request
          /\ Told(v.inbox[w.locks.holder.t])
          /\ \A u \in Tab \ {w.locks.holder.t} : Told(v.inbox[u]) <=> Told(w.inbox[u])

(* The holder is out of the seat as soon as the thief asks. *)
LEMMA StolenIsVacated ==
    ASSUME NEW w, LockInv(w), NEW h \in Request, h = w.locks.holder,
           NEW x, x = Tell(w, h, "stolen"), NEW t \in Tab, NEW r \in RequestOf(t), Unheard(w, r)
    PROVE  /\ Vacated(x) /\ x.tab = w.tab /\ x.locks.queue = w.locks.queue
           /\ Told(x.inbox[h.t]) /\ \A u \in Tab \ {h.t} : x.inbox[u] = w.inbox[u]
           /\ NoGrant(x.inbox[t], r)
PROOF
<1> DEFINE m == [e |-> "stolen", r |-> h]
<1>0. w \in Worlds /\ h.t \in Tab /\ "stolen" \in Events
  BY RequestFacts DEF LockInv, Events
<1>1. Hears(w, x, h.t, m)
  BY <1>0, TellFacts, Zenon
<1>2. m.e = "stolen"
  OBVIOUS
<1> HIDE DEF m
<1>3. /\ x \in Worlds /\ x.locks = w.locks /\ x.tab = w.tab
      /\ x.inbox[h.t] = Append(w.inbox[h.t], m) /\ m \in MsgOf(h.t)
      /\ \A u \in Tab \ {h.t} : x.inbox[u] = w.inbox[u]
  BY <1>1, Zenon DEF Hears
<1>4. \A u \in Tab : None.t # u
  BY RequestFacts
<1>5. ASSUME NEW u \in Tab
      PROVE  Placed(None, x.locks.queue, x.tab[u].hold, x.tab[u].mistook, x.inbox[u], u)
  <2>0. Placed(h, w.locks.queue, w.tab[u].hold, w.tab[u].mistook, w.inbox[u], u)
    BY Zenon DEF LockInv, Stands
  <2>1. CASE u # h.t
    <3>1. Placed(None, w.locks.queue, w.tab[u].hold, w.tab[u].mistook, w.inbox[u], u)
      BY <1>4, <2>0, <2>1, PlacedElsewhere, Zenon
    <3> QED
      BY <1>3, <2>1, <3>1, Zenon
  <2>2. CASE u = h.t
    <3>0. x.inbox[u] = Append(w.inbox[u], m) /\ m \in MsgOf(u)
      BY <1>3, <2>2, Zenon
    <3>1. Placed(None, w.locks.queue, w.tab[u].hold, w.tab[u].mistook, Append(w.inbox[u], m), u)
      BY <1>2, <1>4, <2>0, <3>0, PlacedStolen, Zenon
    <3> QED
      BY <1>3, <3>0, <3>1, Zenon
  <2> QED
    BY <2>1, <2>2
<1>6. Vacated(x)
  BY <1>3, <1>5, Zenon DEF Vacated, LockInv
<1>7. w.inbox[h.t] \in Seq(MsgOf(h.t))
  BY <1>0, Zenon DEF LockInv, Stands, Placed
<1>8. Told(x.inbox[h.t]) /\ (NoGrant(w.inbox[h.t], r) => NoGrant(x.inbox[h.t], r))
  <2> DEFINE s == w.inbox[h.t]
             z == x.inbox[h.t]
  <2>1. z = Append(s, m) /\ s \in Seq(MsgOf(h.t)) /\ m \in MsgOf(h.t)
    BY <1>3, <1>7, Zenon
  <2> HIDE DEF s, z
  <2>2. Told(z) /\ (NoGrant(s, r) => NoGrant(z, r))
    BY <1>2, <2>1, TheftMessage, Zenon
  <2> QED
    BY <2>2, Zenon DEF s, z
<1>9. NoGrant(x.inbox[t], r)
  BY <1>3, <1>8, Zenon DEF Unheard
<1> QED
  BY <1>3, <1>6, <1>8, <1>9, Zenon

LEMMA StealKeeps ==
    ASSUME NEW w, LockInv(w), NEW t \in Tab, NEW v, v = RequestSteal(w, t)
    PROVE  LockInv(v) /\ v.tab = w.tab /\ Forced(w, v, t)
PROOF
<1> DEFINE r == [t |-> t, k |-> "steal", n |-> Fresh(w, t)]
           x == Tell(w, w.locks.holder, "stolen")
<1>0. "steal" \in Kinds /\ w \in Worlds
  BY DEF Kinds, LockInv
<1>1. r \in RequestOf(t) /\ Unheard(w, r)
  BY <1>0, FreshIsNew, Zenon
<1>2. v = IF w.locks.holder = None THEN Grant(w, r) ELSE Grant(x, r)
  BY Zenon DEF RequestSteal
<1> HIDE DEF r
<1>3. r \in Request /\ r.t = t
  BY <1>1, RequestFacts
<1>4. /\ \A i \in 1..Len(w.locks.queue) : w.locks.queue[i] # r
      /\ w.tab[r.t].hold # r /\ NoGrant(w.inbox[r.t], r)
  BY <1>1, <1>3, Zenon DEF Unheard
<1>5. CASE w.locks.holder = None
  <2>1. Vacated(w) /\ v = Grant(w, r)
    BY <1>2, <1>5, FreeIsVacated, Zenon
  <2>2. LockInv(v) /\ SameTold(w, v) /\ v.tab = w.tab /\ v.locks.holder = r
    <3>1. Seats(w, Grant(w, r), r)
      BY <1>3, <1>4, <2>1, GrantKeeps, Zenon
    <3>2. Seats(w, v, r)
      BY <2>1, <3>1, Zenon
    <3> QED
      BY <3>2, Zenon DEF Seats
  <2> QED
    BY <1>3, <1>5, <2>2, Zenon DEF Forced
<1>6. CASE w.locks.holder # None
  <2>1. w.locks.holder \in Request /\ v = Grant(x, r)
    BY <1>0, <1>2, <1>6, WorldParts, Zenon
  <2>2. x = Tell(w, w.locks.holder, "stolen")
    OBVIOUS
  <2> HIDE DEF x
  <2>3. /\ Vacated(x) /\ x.tab = w.tab /\ x.locks.queue = w.locks.queue
        /\ Told(x.inbox[w.locks.holder.t])
        /\ \A u \in Tab \ {w.locks.holder.t} : x.inbox[u] = w.inbox[u]
        /\ NoGrant(x.inbox[t], r)
    BY <1>1, <2>1, <2>2, StolenIsVacated
  <2>4. Seats(x, v, r)
    BY <1>3, <1>4, <2>1, <2>3, GrantKeeps, ZenonT(60)
  <2>5. LockInv(v) /\ SameTold(x, v) /\ v.tab = x.tab /\ v.locks.holder = r
    BY <2>4, Zenon DEF Seats
  <2>6. w.locks.holder.t \in Tab
    BY <2>1, RequestFacts
  <2> QED
    BY <1>3, <2>1, <2>3, <2>5, <2>6, Zenon DEF Forced, SameTold
<1> QED
  BY <1>5, <1>6

(* AbortController.abort: the queue may lose a request, which is told.     *)
LEMMA AbortKeeps ==
    ASSUME NEW w, LockInv(w), NEW r \in Request \cup {None}, r # None, NEW v, v = AbortQueued(w, r)
    PROVE  LockInv(v) /\ SameTold(w, v) /\ v.tab = w.tab /\ v.locks.holder = w.locks.holder
PROOF
<1> DEFINE q == Withdrawn(w.locks.queue, r)
           x == [w EXCEPT !.locks.queue = q]
<1>0. w \in Worlds /\ w.locks.queue \in Queues /\ r \in Request
  BY WorldParts, Zenon DEF LockInv
<1>1. v = IF r \in Range(w.locks.queue) THEN Tell(x, r, "dropped") ELSE w
  BY Zenon DEF AbortQueued
<1>2. q \in Queues /\ Len(q) = Len(w.locks.queue)
      /\ \A i \in 1..Len(q) : q[i] = w.locks.queue[i] \/ q[i] = None
  <2>1. q = [i \in 1..Len(w.locks.queue) |-> IF w.locks.queue[i] = r THEN None ELSE w.locks.queue[i]]
    BY <1>0 DEF Withdrawn, Queues
  <2> QED
    BY <1>0, <2>1 DEF Queues
<1> HIDE DEF q
<1>3. Thinner(q, w.locks.queue)
  BY <1>0, <1>2, BlankedIsThinner
<1>4. Once(q)
  BY <1>2 DEF LockInv, Once
<1>5. w.locks.holder = None => q = << >>
  BY <1>2 DEF LockInv, Queues
<1>6. \A u \in Tab : Aside(w.locks.queue, w.tab[u].hold, w.inbox[u])
                         => Aside(q, w.tab[u].hold, w.inbox[u])
  BY <1>3, ThinnerAside, Zenon
<1>7. Requeued(w, x, q)
  BY <1>2, <1>4, <1>5, <1>6, QueueKeeps, Zenon
<1> HIDE DEF x
<1>8. LockInv(x) /\ SameTold(w, x) /\ x.tab = w.tab /\ x.locks.holder = w.locks.holder
  BY <1>7, Zenon DEF Requeued
<1>9. CASE r \in Range(w.locks.queue)
  <2>1. v = Tell(x, r, "dropped")
    BY <1>1, <1>9, Zenon
  <2>2. LockInv(v) /\ SameTold(x, v) /\ v.tab = x.tab /\ v.locks = x.locks
    BY <1>0, <1>8, <2>1, TellKeeps
  <2> QED
    BY <1>8, <2>2, Zenon DEF SameTold
<1>10. CASE r \notin Range(w.locks.queue)
  BY <1>1, <1>10, Zenon DEF SameTold
<1> QED
  BY <1>9, <1>10

(* The seat is free, and whoever waited longest gets it. *)
HandedOn(w, v) ==
    /\ LockInv(v) /\ SameTold(w, v) /\ v.tab = w.tab
    /\ w.locks.queue = << >> => v.locks.holder = None

LEMMA HandOnKeeps ==
    ASSUME NEW w, Vacated(w)
    PROVE  HandedOn(w, HandOn(w))
PROOF
<1> SUFFICES ASSUME NEW v, v = HandOn(w)
             PROVE  HandedOn(w, v)
  BY Zenon
<1> DEFINE q == w.locks.queue
<1>0. w \in Worlds /\ q \in Queues /\ Once(q)
  BY WorldParts, Zenon DEF Vacated
<1>1. CASE Waiting(q) = {}
  <2>1. v = [w EXCEPT !.locks = [holder |-> None, queue |-> << >>]]
    BY <1>1, Zenon DEF HandOn
  <2>2. v = [locks |-> [holder |-> None, queue |-> << >>], inbox |-> w.inbox, tab |-> w.tab]
    BY <1>0, <2>1, WorldParts, Zenon
  <2>3. << >> \in Queues /\ Thinner(<< >>, q)
    BY EmptyIsThinner
  <2>4. Relocked(w, [locks |-> [holder |-> None, queue |-> << >>], inbox |-> w.inbox, tab |-> w.tab],
                 None, << >>)
    BY <1>0, <2>3, RelockFacts
  <2>5. Relocked(w, v, None, << >>)
    BY <2>2, <2>4
  <2>6. /\ v \in Worlds /\ v.locks.holder = None /\ v.locks.queue = << >>
        /\ v.inbox = w.inbox /\ v.tab = w.tab
    BY <2>5, Zenon DEF Relocked
  <2>7. ASSUME NEW u \in Tab PROVE Stands(v, u)
    <3>1. Placed(None, q, w.tab[u].hold, w.tab[u].mistook, w.inbox[u], u)
      BY Zenon DEF Vacated
    <3>2. Placed(None, << >>, w.tab[u].hold, w.tab[u].mistook, w.inbox[u], u)
      BY <2>3, <3>1, PlacedThinner, Zenon
    <3> QED
      BY <2>6, <3>2, Zenon DEF Stands
  <2>8. Once(<< >>)
    BY DEF Once
  <2>9. LockInv(v) /\ SameTold(w, v)
    BY <2>6, <2>7, <2>8, Zenon DEF Vacated, LockInv, SameTold
  <2> QED
    BY <2>6, <2>9, Zenon DEF HandedOn
<1>2. CASE Waiting(q) # {}
  <2> DEFINE f == Min(Waiting(q))
             z == SubSeq(q, f + 1, Len(q))
             x == [w EXCEPT !.locks.queue = z]
  <2>1. v = Grant(x, q[f])
    BY <1>2, Zenon DEF HandOn
  <2>2. f \in Waiting(q)
    BY <1>0, <1>2, Zenon DEF Vacated, Counting
  <2> HIDE DEF f
  <2>3. z \in Queues /\ Thinner(z, q) /\ q[f] \in Request /\ \A i \in 1..Len(z) : z[i] # q[f]
    BY <1>0, <2>2, RestIsThinner, Zenon
  <2>4. Once(z)
    <3>1. f \in 1..Len(q) /\ q \in Seq(Request \cup {None})
      BY <1>0, <2>2 DEF Waiting, Queues
    <3>2. Len(z) = Len(q) - f /\ \A i \in 1..Len(z) : f + i \in 1..Len(q) /\ z[i] = q[f + i]
      BY <3>1
    <3>3. ASSUME NEW i \in 1..Len(z), NEW j \in 1..Len(z), z[i] # None, z[i] = z[j]
          PROVE  i = j
      <4>1. f + i = f + j
        BY <1>0, <3>2, <3>3, Zenon DEF Once
      <4> QED
        BY <3>1, <3>2, <4>1
    <3> QED
      BY <3>3, Zenon DEF Once
  <2> HIDE DEF z
  <2>5. x = [locks |-> [holder |-> w.locks.holder, queue |-> z], inbox |-> w.inbox, tab |-> w.tab]
    BY <1>0, QueueEdit, Zenon
  <2> HIDE DEF x
  <2>6. Relocked(w, x, w.locks.holder, z)
    <3>1. w.locks.holder \in Request \cup {None}
      BY <1>0, WorldParts, Zenon
    <3> QED
      BY <1>0, <2>3, <2>5, <3>1, RelockFacts, Zenon
  <2>7. x \in Worlds /\ x.locks.queue = z /\ x.inbox = w.inbox /\ x.tab = w.tab
    BY <2>6, Zenon DEF Relocked
  <2>8. ASSUME NEW u \in Tab
        PROVE  Placed(None, z, w.tab[u].hold, w.tab[u].mistook, w.inbox[u], u)
    <3>1. Placed(None, q, w.tab[u].hold, w.tab[u].mistook, w.inbox[u], u)
      BY Zenon DEF Vacated
    <3> QED
      BY <2>3, <3>1, PlacedThinner, Zenon
  <2>9. Vacated(x)
    BY <2>4, <2>7, <2>8, Zenon DEF Vacated
  <2>10. q[f].t \in Tab
    BY <2>3, RequestFacts
  <2>11. x.tab[q[f].t].hold # q[f] /\ NoGrant(x.inbox[q[f].t], q[f])
    <3>1. Aside(q, w.tab[q[f].t].hold, w.inbox[q[f].t])
      BY <2>10, Zenon DEF Vacated, Placed
    <3>2. f \in 1..Len(q) /\ q[f] # None
      BY <1>0, <2>2 DEF Waiting, Queues
    <3> QED
      BY <2>7, <3>1, <3>2, Zenon DEF Aside
  <2>12. Seats(x, v, q[f])
    BY <2>1, <2>3, <2>7, <2>9, <2>11, GrantKeeps, Zenon
  <2>13. q # << >>
    BY <1>2 DEF Waiting
  <2> QED
    BY <2>7, <2>12, <2>13, Zenon DEF Seats, HandedOn, SameTold
<1> QED
  BY <1>1, <1>2

(* releaseHold: the resolver is called, and the seat goes to the next.     *)
Released(w, v, t) ==
    /\ LockInv(v) /\ SameTold(w, v)
    /\ v.tab = [w.tab EXCEPT ![t] = [w.tab[t] EXCEPT !.hold = None]]
    /\ v.locks.holder # w.locks.holder => w.locks.holder.t = t /\ w.locks.holder = w.tab[t].hold

LEMMA ReleaseKeeps ==
    ASSUME NEW w, LockInv(w), NEW t \in Tab
    PROVE  Released(w, releaseHold(w, t), t)
PROOF
<1> SUFFICES ASSUME NEW v, v = releaseHold(w, t)
             PROVE  Released(w, v, t)
  BY Zenon
<1> DEFINE k == w.tab[t].hold
           h == w.locks.holder
           y == [w.tab[t] EXCEPT !.hold = None]
           x == [w EXCEPT !.tab[t].hold = None]
<1>0. w \in Worlds /\ w.tab[t] \in TabState
  BY WorldParts, Zenon DEF LockInv
<1>1. v = IF x.locks.holder = k THEN HandOn(x) ELSE x
  BY Zenon DEF releaseHold, FreeLock
<1>2. y \in TabState /\ y.hold = None /\ y.mistook = w.tab[t].mistook
  BY <1>0 DEF TabState
<1>3. x = Edit(w, t, y)
  BY <1>0, EditShape, ZenonT(60)
<1> HIDE DEF x
<1>4. Edited(w, x, t, y)
  <2> HIDE DEF y
  <2> QED
    BY <1>0, <1>2, <1>3, EditFacts, Zenon
<1>5. /\ x \in Worlds /\ x.locks = w.locks /\ x.inbox = w.inbox
      /\ x.tab[t] = y /\ \A u \in Tab \ {t} : x.tab[u] = w.tab[u]
      /\ x.tab = [w.tab EXCEPT ![t] = y]
  BY <1>4, Zenon DEF Edited
<1>6. x.tab[t].hold = None /\ x.tab[t].mistook = w.tab[t].mistook
  BY <1>2, <1>5
<1>7. x.tab = [w.tab EXCEPT ![t] = [w.tab[t] EXCEPT !.hold = None]]
  BY <1>5
<1> HIDE DEF y
<1>8. SameTold(w, x)
  BY <1>5, Zenon DEF SameTold
<1>9. \A u \in Tab : Placed(h, w.locks.queue, w.tab[u].hold, w.tab[u].mistook, w.inbox[u], u)
  BY Zenon DEF LockInv, Stands
<1>10. k \in RequestOf(t) \cup {None} /\ \A u \in Tab : None.t # u
  BY <1>9, RequestFacts, Zenon DEF Placed
<1>11. k # None => k.t = t
  BY <1>10, RequestFacts
<1> HIDE DEF k, h
<1>12. CASE h = k
  <2>1. v = HandOn(x)
    BY <1>1, <1>5, <1>12 DEF h
  <2>2. ASSUME NEW u \in Tab
        PROVE  Placed(None, w.locks.queue, x.tab[u].hold, x.tab[u].mistook, w.inbox[u], u)
    <3>0. Placed(h, w.locks.queue, w.tab[u].hold, w.tab[u].mistook, w.inbox[u], u)
      BY <1>9
    <3>1. CASE u # t
      <4>1. h.t # u
        BY <1>10, <1>11, <1>12, <3>1
      <4>2. Placed(None, w.locks.queue, w.tab[u].hold, w.tab[u].mistook, w.inbox[u], u)
        BY <1>10, <3>0, <4>1, PlacedElsewhere, Zenon
      <4> QED
        BY <1>5, <3>1, <4>2, Zenon
    <3>2. CASE u = t
      <4>0. Placed(h, w.locks.queue, k, w.tab[t].mistook, w.inbox[t], t)
        BY <1>9 DEF k
      <4>1. Placed(None, w.locks.queue, None, w.tab[t].mistook, w.inbox[t], t)
        <5>1. CASE k = None
          BY <1>12, <4>0, <5>1
        <5>2. CASE k # None
          BY <1>10, <1>11, <1>12, <4>0, <5>2, PlacedFreed, Zenon
        <5> QED
          BY <5>1, <5>2
      <4> QED
        BY <1>6, <3>2, <4>1, Zenon
    <3> QED
      BY <3>1, <3>2
  <2>3. Vacated(x)
    BY <1>5, <2>2, Zenon DEF Vacated, LockInv
  <2>4. HandedOn(x, v)
    BY <2>1, <2>3, HandOnKeeps, Zenon
  <2>5. /\ LockInv(v) /\ SameTold(x, v) /\ v.tab = x.tab
        /\ x.locks.queue = << >> => v.locks.holder = None
    BY <2>4, Zenon DEF HandedOn
  <2>6. h = None => v.locks.holder = h
    BY <1>5, <2>5 DEF LockInv, h
  <2>7. v.locks.holder # h => h.t = t
    BY <1>11, <1>12, <2>6
  <2>8. SameTold(w, v)
    BY <1>8, <2>5, Zenon DEF SameTold
  <2> QED
    BY <1>7, <1>12, <2>5, <2>7, <2>8, Zenon DEF Released, h, k
<1>13. CASE h # k
  <2>1. v = x
    BY <1>1, <1>5, <1>13 DEF h
  <2>2. ASSUME NEW u \in Tab PROVE Stands(x, u)
    <3>1. CASE u # t
      BY <1>5, <1>9, <3>1, Zenon DEF Stands, h
    <3>2. CASE u = t
      <4>0. Placed(h, w.locks.queue, k, w.tab[t].mistook, w.inbox[t], t)
        BY <1>9 DEF k
      <4>1. h.t = t => k # h /\ h # None
        BY <1>10, <1>13
      <4>2. Placed(h, w.locks.queue, None, w.tab[t].mistook, w.inbox[t], t)
        BY <4>0, <4>1, PlacedForgets, Zenon
      <4> QED
        BY <1>5, <1>6, <3>2, <4>2, Zenon DEF Stands, h
    <3> QED
      BY <3>1, <3>2
  <2>3. LockInv(x)
    BY <1>5, <2>2, Zenon DEF LockInv
  <2> QED
    BY <1>5, <1>7, <1>8, <2>1, <2>3, Zenon DEF Released
<1> QED
  BY <1>12, <1>13

(* The page goes: so do its hold, its messages and its places in the queue. *)
Gone == [New EXCEPT !.page = "closed"]

Leave(w, t) ==
    [w EXCEPT !.tab[t] = Gone, !.inbox[t] = << >>,
              !.locks.queue = [i \in DOMAIN @ |-> IF @[i].t = t THEN None ELSE @[i]]]

Left(w, v, t) ==
    /\ LockInv(v) /\ v.tab = [w.tab EXCEPT ![t] = Gone]
    /\ ~Told(v.inbox[t]) /\ \A u \in Tab \ {t} : Told(v.inbox[u]) <=> Told(w.inbox[u])
    /\ v.locks.holder # w.locks.holder => w.locks.holder.t = t

LEMMA GoneFacts ==
    /\ Gone \in TabState /\ Gone.hold = None /\ Gone.queued = None /\ ~Gone.held /\ ~Gone.node
    /\ Gone.connect = "idle" /\ ~Gone.mistook
    /\ New \in TabState /\ New.hold = None /\ New.queued = None /\ ~New.held /\ ~New.node
    /\ New.connect = "idle" /\ ~New.mistook /\ ~New.acquiring
PROOF
  BY Zenon DEF Gone, New, TabState

Leaves(w, x, t) ==
    /\ x \in Worlds /\ x.locks.holder = w.locks.holder
    /\ x.locks.queue = [i \in DOMAIN w.locks.queue |->
                           IF w.locks.queue[i].t = t THEN None ELSE w.locks.queue[i]]
    /\ x.tab = [w.tab EXCEPT ![t] = Gone]
    /\ x.tab[t] = Gone /\ \A u \in Tab \ {t} : x.tab[u] = w.tab[u]
    /\ x.inbox[t] = << >> /\ \A u \in Tab \ {t} : x.inbox[u] = w.inbox[u]

LEMMA LeaveFacts ==
    ASSUME NEW w \in Worlds, NEW t \in Tab, NEW x, x = Leave(w, t)
    PROVE  Leaves(w, x, t)
PROOF
<1> DEFINE q == [i \in DOMAIN w.locks.queue |->
                   IF w.locks.queue[i].t = t THEN None ELSE w.locks.queue[i]]
           I == [w.inbox EXCEPT ![t] = << >>]
           T == [w.tab EXCEPT ![t] = Gone]
           l == [w.locks EXCEPT !.queue = q]
<1>0. w.locks \in Locks /\ w.inbox \in [Tab -> Seq(Msg)] /\ w.tab \in [Tab -> TabState]
      /\ w.locks.holder \in Request \cup {None} /\ w.locks.queue \in Queues
  BY WorldParts, Zenon
<1>1. x.locks = l /\ x.inbox = I /\ x.tab = T
  BY Zenon DEF Worlds, Leave
<1>2. x = [locks |-> x.locks, inbox |-> x.inbox, tab |-> x.tab]
  BY Zenon DEF Worlds, Leave
<1>3. q \in Queues
  <2>1. /\ w.locks.queue \in Seq(Request \cup {None})
        /\ \A i \in DOMAIN w.locks.queue : w.locks.queue[i] \in Request \cup {None}
        /\ DOMAIN w.locks.queue = 1..Len(w.locks.queue) /\ Len(w.locks.queue) \in Nat
    BY <1>0 DEF Queues
  <2>2. q \in [1..Len(w.locks.queue) -> Request \cup {None}]
    BY <2>1, Zenon
  <2> HIDE DEF q
  <2> QED
    BY <2>1, <2>2 DEF Queues
<1>4. T \in [Tab -> TabState] /\ T[t] = Gone /\ \A u \in Tab \ {t} : T[u] = w.tab[u]
  BY <1>0, GoneFacts
<1>5. I \in [Tab -> Seq(Msg)] /\ I[t] = << >> /\ \A u \in Tab \ {t} : I[u] = w.inbox[u]
  BY <1>0
<1>6. l = [holder |-> w.locks.holder, queue |-> q]
  <2> HIDE DEF q
  <2> QED
    BY <1>0, LocksEdit, Zenon
<1> HIDE DEF q, T, I
<1>7. l \in Locks /\ l.holder = w.locks.holder /\ l.queue = q
  BY <1>0, <1>3, <1>6 DEF Locks
<1> HIDE DEF l
<1>8. x \in Worlds
  BY <1>1, <1>2, <1>4, <1>5, <1>7 DEF Worlds
<1> QED
  BY <1>1, <1>4, <1>5, <1>7, <1>8 DEF Leaves, q, T

LEMMA CloseKeeps ==
    ASSUME NEW w, LockInv(w), NEW t \in Tab,
           NEW v, v = IF w.locks.holder.t = t THEN HandOn(Leave(w, t)) ELSE Leave(w, t)
    PROVE  Left(w, v, t)
PROOF
<1> DEFINE x == Leave(w, t)
           q == x.locks.queue
           h == w.locks.holder
<1>0. w \in Worlds /\ w.locks.queue \in Queues
  BY WorldParts, Zenon DEF LockInv
<1>1. v = IF h.t = t THEN HandOn(x) ELSE x
  OBVIOUS
<1>2. x = Leave(w, t)
  OBVIOUS
<1> HIDE DEF x
<1>3. /\ x \in Worlds /\ x.locks.holder = h
      /\ q = [i \in DOMAIN w.locks.queue |->
                IF w.locks.queue[i].t = t THEN None ELSE w.locks.queue[i]]
      /\ x.tab = [w.tab EXCEPT ![t] = Gone]
      /\ x.tab[t] = Gone /\ \A u \in Tab \ {t} : x.tab[u] = w.tab[u]
      /\ x.inbox[t] = << >> /\ \A u \in Tab \ {t} : x.inbox[u] = w.inbox[u]
  <2>1. Leaves(w, x, t)
    BY <1>0, <1>2, LeaveFacts, Zenon
  <2> QED
    BY <2>1, Zenon DEF Leaves
<1>4. q \in Queues
  BY <1>3, WorldParts, Zenon
<1>5. Len(q) = Len(w.locks.queue)
      /\ \A i \in 1..Len(q) : q[i] = w.locks.queue[i] \/ q[i] = None
  BY <1>0, <1>3, <1>4 DEF Queues
<1> HIDE DEF q
<1>6. Thinner(q, w.locks.queue)
  BY <1>0, <1>4, <1>5, BlankedIsThinner
<1>7. Once(q)
  BY <1>5 DEF LockInv, Once
<1>8. h = None => q = << >>
  BY <1>4, <1>5 DEF LockInv, Queues
<1>9. ASSUME NEW u \in Tab, u # t
      PROVE  Placed(h, q, x.tab[u].hold, x.tab[u].mistook, x.inbox[u], u)
  <2>1. Placed(h, w.locks.queue, w.tab[u].hold, w.tab[u].mistook, w.inbox[u], u)
    BY Zenon DEF LockInv, Stands
  <2>2. Placed(h, q, w.tab[u].hold, w.tab[u].mistook, w.inbox[u], u)
    BY <1>6, <2>1, PlacedThinner, Zenon
  <2> QED
    BY <1>3, <1>9, <2>2, Zenon
<1>10. ASSUME NEW g, g.t # t
       PROVE  Placed(g, q, x.tab[t].hold, x.tab[t].mistook, x.inbox[t], t)
  <2>1. Placed(g, q, None, x.tab[t].mistook, << >>, t)
    BY <1>10, PlacedNowhere, Zenon
  <2>2. x.tab[t].hold = None
    BY <1>3, GoneFacts, Zenon
  <2> QED
    BY <1>3, <2>1, <2>2, Zenon
<1>11. ~Told(<< >>)
  BY DEF Told
<1>12. ~Told(x.inbox[t]) /\ \A u \in Tab \ {t} : Told(x.inbox[u]) <=> Told(w.inbox[u])
  BY <1>3, <1>11, Zenon
<1>13. CASE h.t = t
  <2>1. ASSUME NEW u \in Tab
        PROVE  Placed(None, q, x.tab[u].hold, x.tab[u].mistook, x.inbox[u], u)
    <3>0. None.t # u /\ None.t # t
      BY RequestFacts
    <3>1. CASE u # t
      BY <1>9, <1>13, <3>0, <3>1, PlacedElsewhere, Zenon
    <3>2. CASE u = t
      BY <1>10, <3>0, <3>2, Zenon
    <3> QED
      BY <3>1, <3>2
  <2>0. Counting
    BY Zenon DEF LockInv
  <2>2. Vacated(x)
    BY <1>3, <1>7, <2>0, <2>1, Zenon DEF Vacated, q
  <2>3. HandedOn(x, v)
    BY <1>1, <1>13, <2>2, HandOnKeeps, Zenon
  <2> QED
    BY <1>3, <1>12, <1>13, <2>3, Zenon DEF HandedOn, Left, SameTold
<1>14. CASE h.t # t
  <2>1. v = x
    BY <1>1, <1>14, Zenon
  <2>2. ASSUME NEW u \in Tab PROVE Stands(x, u)
    BY <1>3, <1>9, <1>10, <1>14, ZenonT(60) DEF Stands, q
  <2>3. LockInv(x)
    BY <1>3, <1>7, <1>8, <2>2, Zenon DEF LockInv, q
  <2> QED
    BY <1>3, <1>12, <2>1, <2>3, Zenon DEF Left
<1> QED
  BY <1>13, <1>14

(* The tab takes its next message. *)
Run(w, t) == [locks |-> w.locks, inbox |-> [w.inbox EXCEPT ![t] = Tail(w.inbox[t])], tab |-> w.tab]

LEMMA RunShape ==
    ASSUME NEW w \in Worlds, NEW t \in Tab
    PROVE  [w EXCEPT !.inbox[t] = Tail(@)] = Run(w, t)
PROOF
<1> SUFFICES ASSUME NEW v, v = [w EXCEPT !.inbox[t] = Tail(@)]
             PROVE  v = Run(w, t)
  BY Zenon
<1>1. v.locks = w.locks /\ v.inbox = [w.inbox EXCEPT ![t] = Tail(w.inbox[t])] /\ v.tab = w.tab
  BY Zenon DEF Worlds
<1>2. v = [locks |-> v.locks, inbox |-> v.inbox, tab |-> v.tab]
  BY Zenon DEF Worlds
<1> QED
  BY <1>1, <1>2, Zenon DEF Run

Ran(w, v, t) ==
    /\ v \in Worlds /\ v.locks = w.locks /\ v.tab = w.tab
    /\ v.inbox[t] = Tail(w.inbox[t])
    /\ \A u \in Tab \ {t} : v.inbox[u] = w.inbox[u]

LEMMA RunFacts ==
    ASSUME NEW w \in Worlds, NEW t \in Tab, w.inbox[t] # << >>
    PROVE  Ran(w, Run(w, t), t)
PROOF
<1> DEFINE I == [w.inbox EXCEPT ![t] = Tail(w.inbox[t])]
<1>0. w.locks \in Locks /\ w.inbox \in [Tab -> Seq(Msg)] /\ w.tab \in [Tab -> TabState]
  BY WorldParts, Zenon
<1>1. Tail(w.inbox[t]) \in Seq(Msg)
  BY <1>0
<1>2. I \in [Tab -> Seq(Msg)] /\ I[t] = Tail(w.inbox[t]) /\ \A u \in Tab \ {t} : I[u] = w.inbox[u]
  BY <1>0, <1>1
<1>3. Run(w, t) = [locks |-> w.locks, inbox |-> I, tab |-> w.tab]
  BY Zenon DEF Run
<1> HIDE DEF I
<1>4. Run(w, t) \in Worlds
  BY <1>0, <1>2, <1>3 DEF Worlds
<1>5. Run(w, t).locks = w.locks /\ Run(w, t).inbox = I /\ Run(w, t).tab = w.tab
  BY <1>3
<1> QED
  BY <1>2, <1>4, <1>5, Zenon DEF Ran

(* A message that is not a grant. *)
RanOther(w, v, t) ==
    /\ LockInv(v) /\ v.locks = w.locks /\ v.tab = w.tab
    /\ Told(v.inbox[t]) => Told(w.inbox[t])
    /\ Head(w.inbox[t]).e # "stolen" => SameTold(w, v)
    /\ \A u \in Tab \ {t} : Told(v.inbox[u]) <=> Told(w.inbox[u])
    /\ Head(w.inbox[t]).e = "stolen" => Bereft(w.locks.holder, w.tab[t].hold, w.tab[t].mistook, t)

LEMMA RunOtherKeeps ==
    ASSUME NEW w, LockInv(w), NEW t \in Tab, w.inbox[t] # << >>, Head(w.inbox[t]).e # "granted"
    PROVE  RanOther(w, Run(w, t), t)
PROOF
<1> DEFINE v == Run(w, t)
<1>0. w \in Worlds
  BY DEF LockInv
<1>1. Ran(w, v, t)
  BY <1>0, RunFacts, Zenon
<1> HIDE DEF v
<1>2. /\ v \in Worlds /\ v.locks = w.locks /\ v.tab = w.tab
      /\ v.inbox[t] = Tail(w.inbox[t]) /\ \A u \in Tab \ {t} : v.inbox[u] = w.inbox[u]
  BY <1>1, Zenon DEF Ran
<1>3. Placed(w.locks.holder, w.locks.queue, w.tab[t].hold, w.tab[t].mistook, w.inbox[t], t)
  BY Zenon DEF LockInv, Stands
<1>4. /\ Placed(w.locks.holder, w.locks.queue, w.tab[t].hold, w.tab[t].mistook, Tail(w.inbox[t]), t)
      /\ Head(w.inbox[t]).e = "stolen" => Bereft(w.locks.holder, w.tab[t].hold, w.tab[t].mistook, t)
  <2>1. Placed(w.locks.holder, w.locks.queue, w.tab[t].hold, w.tab[t].mistook, Tail(w.inbox[t]), t)
    BY <1>3, PlacedRunsOther, Zenon
  <2>2. ASSUME Head(w.inbox[t]).e = "stolen"
        PROVE  Bereft(w.locks.holder, w.tab[t].hold, w.tab[t].mistook, t)
    BY <1>3, <2>2, PlacedBereft, Zenon
  <2> QED
    BY <2>1, <2>2
<1>5. ASSUME NEW u \in Tab PROVE Stands(v, u)
  BY <1>2, <1>4, Zenon DEF LockInv, Stands
<1>6. LockInv(v)
  BY <1>2, <1>5, Zenon DEF LockInv
<1>7. /\ Told(v.inbox[t]) => Told(w.inbox[t])
      /\ Head(w.inbox[t]).e # "stolen" => (Told(v.inbox[t]) <=> Told(w.inbox[t]))
  <2> DEFINE s == w.inbox[t]
             z == v.inbox[t]
  <2>1. s \in Seq(MsgOf(t))
    BY <1>3, Zenon DEF Placed
  <2>2. z = Tail(s) /\ s # << >>
    BY <1>2
  <2> HIDE DEF s, z
  <2>3. (Told(z) => Told(s)) /\ (Told(s) /\ Head(s).e # "stolen" => Told(z))
    BY <2>1, <2>2, MessageRun, Zenon
  <2> QED
    BY <2>3 DEF s, z
<1>8. \A u \in Tab \ {t} : Told(v.inbox[u]) <=> Told(w.inbox[u])
  BY <1>2, Zenon
<1>9. Head(w.inbox[t]).e # "stolen" => SameTold(w, v)
  BY <1>7, <1>8, Zenon DEF SameTold
<1>10. RanOther(w, v, t)
  BY <1>2, <1>4, <1>6, <1>7, <1>8, <1>9, Zenon DEF RanOther
<1> QED
  BY <1>10 DEF v

(* A grant: the tab holds what it was granted. *)
RanGrant(w, v, t, y) ==
    /\ LockInv(v) /\ SameTold(w, v) /\ v.locks.holder = w.locks.holder
    /\ v.tab = [w.tab EXCEPT ![t] = y]
    /\ ~w.tab[t].mistook => w.locks.holder.t = t \/ Told(v.inbox[t])

LEMMA RunGrantKeeps ==
    ASSUME NEW w, LockInv(w), NEW t \in Tab, w.inbox[t] # << >>, Head(w.inbox[t]).e = "granted",
           NEW y \in TabState, y.hold = Head(w.inbox[t]).r, y.mistook = w.tab[t].mistook
    PROVE  RanGrant(w, Edit(Run(w, t), t, y), t, y)
PROOF
<1> DEFINE x == Run(w, t)
           v == Edit(x, t, y)
<1>0. w \in Worlds
  BY DEF LockInv
<1>1. Ran(w, x, t)
  BY <1>0, RunFacts, Zenon
<1> HIDE DEF x
<1>2. /\ x \in Worlds /\ x.locks = w.locks /\ x.tab = w.tab
      /\ x.inbox[t] = Tail(w.inbox[t]) /\ \A u \in Tab \ {t} : x.inbox[u] = w.inbox[u]
  BY <1>1, Zenon DEF Ran
<1>3. Edited(x, v, t, y)
  BY <1>2, EditFacts, Zenon
<1> HIDE DEF v
<1>4. /\ v \in Worlds /\ v.locks = w.locks /\ v.inbox = x.inbox
      /\ v.tab[t] = y /\ \A u \in Tab \ {t} : v.tab[u] = w.tab[u]
      /\ v.tab = [w.tab EXCEPT ![t] = y]
  BY <1>2, <1>3, Zenon DEF Edited
<1>5. Placed(w.locks.holder, w.locks.queue, w.tab[t].hold, w.tab[t].mistook, w.inbox[t], t)
  BY Zenon DEF LockInv, Stands
<1>6. /\ Placed(w.locks.holder, w.locks.queue, Head(w.inbox[t]).r, w.tab[t].mistook,
                Tail(w.inbox[t]), t)
      /\ Entitled(w.locks.holder, w.tab[t].mistook, Tail(w.inbox[t]), t)
  BY <1>5, PlacedRunsGrant, Zenon
<1>7. ASSUME NEW u \in Tab PROVE Stands(v, u)
  <2>1. CASE u # t
    BY <1>2, <1>4, <2>1, ZenonT(60) DEF LockInv, Stands
  <2>2. CASE u = t
    BY <1>2, <1>4, <1>6, <2>2, Zenon DEF Stands
  <2> QED
    BY <2>1, <2>2
<1>8. LockInv(v)
  BY <1>4, <1>7, Zenon DEF LockInv
<1>9. Told(v.inbox[t]) <=> Told(w.inbox[t])
  <2> DEFINE s == w.inbox[t]
             z == v.inbox[t]
  <2>1. s \in Seq(MsgOf(t))
    BY <1>5, Zenon DEF Placed
  <2>2. z = Tail(s) /\ s # << >> /\ Head(s).e # "stolen"
    BY <1>2, <1>4
  <2> HIDE DEF s, z
  <2>3. (Told(z) => Told(s)) /\ (Told(s) /\ Head(s).e # "stolen" => Told(z))
    BY <2>1, <2>2, MessageRun, Zenon
  <2> QED
    BY <2>2, <2>3 DEF s, z
<1>10. SameTold(w, v)
  BY <1>2, <1>4, <1>9, ZenonT(60) DEF SameTold
<1>11. RanGrant(w, v, t, y)
  BY <1>2, <1>4, <1>6, <1>8, <1>10, Zenon DEF RanGrant, Entitled
<1> QED
  BY <1>11 DEF v, x

(* What a tab knows and what it takes back are independent. *)
LEMMA AbortShape ==
    ASSUME NEW w \in Worlds, NEW r \in Request
    PROVE  AbortQueued(w, r) =
             IF r \in Range(w.locks.queue)
             THEN [locks |-> [holder |-> w.locks.holder, queue |-> Withdrawn(w.locks.queue, r)],
                   tab |-> w.tab,
                   inbox |-> [w.inbox EXCEPT ![r.t] = Append(w.inbox[r.t], [e |-> "dropped", r |-> r])]]
             ELSE w
PROOF
<1> DEFINE q == Withdrawn(w.locks.queue, r)
           x == [w EXCEPT !.locks.queue = q]
<1>0. AbortQueued(w, r) = IF r \in Range(w.locks.queue) THEN Tell(x, r, "dropped") ELSE w
  BY Zenon DEF AbortQueued
<1>1. q \in Queues
  <2>0. w.locks.queue \in Queues
    BY WorldParts, Zenon
  <2>1. q = [i \in 1..Len(w.locks.queue) |-> IF w.locks.queue[i] = r THEN None ELSE w.locks.queue[i]]
    BY <2>0 DEF Withdrawn, Queues
  <2> QED
    BY <2>0, <2>1 DEF Queues
<1>5. q = Withdrawn(w.locks.queue, r)
  OBVIOUS
<1> HIDE DEF q
<1>2. x = [locks |-> [holder |-> w.locks.holder, queue |-> q], inbox |-> w.inbox, tab |-> w.tab]
  BY QueueEdit, Zenon
<1> HIDE DEF x
<1>3. Relocked(w, x, w.locks.holder, q)
  BY <1>1, <1>2, RelockFacts, WorldParts, Zenon
<1>4. x \in Worlds /\ x.inbox = w.inbox /\ x.tab = w.tab
      /\ x.locks = [holder |-> w.locks.holder, queue |-> q]
  BY <1>2, <1>3 DEF Relocked
<1>6. Tell(x, r, "dropped") =
        [locks |-> x.locks, tab |-> x.tab,
         inbox |-> [x.inbox EXCEPT ![r.t] = Append(x.inbox[r.t], [e |-> "dropped", r |-> r])]]
  BY <1>4, TellShape, ZenonT(60)
<1> QED
  BY <1>0, <1>4, <1>5, <1>6, Zenon

LEMMA AbortCommutes ==
    ASSUME NEW w \in Worlds, NEW r \in Request, NEW t \in Tab, NEW y \in TabState, NEW y2 \in TabState
    PROVE  Edit(AbortQueued(Edit(w, t, y), r), t, y2) = AbortQueued(Edit(w, t, y2), r)
PROOF
<1> DEFINE a == Edit(w, t, y)
           b == Edit(w, t, y2)
<1>1. Edited(w, a, t, y) /\ Edited(w, b, t, y2)
  BY EditFacts, Zenon
<1>0. b = [locks |-> w.locks, inbox |-> w.inbox, tab |-> [w.tab EXCEPT ![t] = y2]]
  BY Zenon DEF Edit
<1> HIDE DEF a, b
<1>2. /\ a \in Worlds /\ a.locks = w.locks /\ a.inbox = w.inbox /\ a.tab = [w.tab EXCEPT ![t] = y]
      /\ b \in Worlds /\ b.locks = w.locks /\ b.inbox = w.inbox /\ b.tab = [w.tab EXCEPT ![t] = y2]
  BY <1>1, Zenon DEF Edited
<1>3. [a.tab EXCEPT ![t] = y2] = b.tab
  <2>1. w.tab \in [Tab -> TabState]
    BY WorldParts, Zenon
  <2> QED
    BY <1>2, <2>1
<1> DEFINE L == [holder |-> w.locks.holder, queue |-> Withdrawn(w.locks.queue, r)]
           I == [w.inbox EXCEPT ![r.t] = Append(w.inbox[r.t], [e |-> "dropped", r |-> r])]
           c == AbortQueued(a, r)
<1>4. c = IF r \in Range(w.locks.queue) THEN [locks |-> L, tab |-> a.tab, inbox |-> I] ELSE a
  BY <1>2, AbortShape, Zenon
<1>5. AbortQueued(b, r) =
        IF r \in Range(w.locks.queue) THEN [locks |-> L, tab |-> b.tab, inbox |-> I] ELSE b
  BY <1>2, AbortShape, Zenon
<1> HIDE DEF L, I, c
<1>6. Edit(c, t, y2) = [locks |-> c.locks, inbox |-> c.inbox, tab |-> [c.tab EXCEPT ![t] = y2]]
  BY Zenon DEF Edit
<1>7. Edit(c, t, y2) = AbortQueued(b, r)
  <2>1. CASE r \in Range(w.locks.queue)
    <3>1. c.locks = L /\ c.inbox = I /\ c.tab = a.tab
      BY <1>4, <2>1
    <3>2. AbortQueued(b, r) = [locks |-> L, tab |-> b.tab, inbox |-> I]
      BY <1>5, <2>1, Zenon
    <3> QED
      BY <1>3, <1>6, <3>1, <3>2
  <2>2. CASE r \notin Range(w.locks.queue)
    <3>1. c = a /\ AbortQueued(b, r) = b
      BY <1>4, <1>5, <2>2, Zenon
    <3> QED
      BY <1>0, <1>2, <1>3, <1>6, <3>1
  <2> QED
    BY <2>1, <2>2
<1> QED
  BY <1>7 DEF a, b, c

-----------------------------------------------------------------------------
(* What a handler of a tab does, as one edit of what the tab knows.        *)

LEMMA ShapeSeat ==
    ASSUME NEW w \in Worlds, NEW t \in Tab
    PROVE  HaveSeat(w, t)
               = Edit(w, t, [w.tab[t] EXCEPT !.connect = IF w.tab[t].reading THEN "config" ELSE "starting", !.current = ~w.tab[t].reading])
PROOF
<1> SUFFICES ASSUME NEW v, v = HaveSeat(w, t)
             PROVE  v = Edit(w, t, [w.tab[t] EXCEPT !.connect = IF w.tab[t].reading THEN "config" ELSE "starting", !.current = ~w.tab[t].reading])
  BY Zenon
<1>1. /\ v.locks = w.locks /\ v.inbox = w.inbox
      /\ v.tab = [w.tab EXCEPT ![t] = [w.tab[t] EXCEPT !.connect = IF w.tab[t].reading THEN "config" ELSE "starting", !.current = ~w.tab[t].reading]]
  BY Zenon DEF Worlds, HaveSeat
<1>2. v = [locks |-> v.locks, inbox |-> v.inbox, tab |-> v.tab]
  BY Zenon DEF Worlds, HaveSeat
<1> QED
  BY <1>1, <1>2, Zenon DEF Edit

LEMMA ShapeAsk ==
    ASSUME NEW w \in Worlds, NEW t \in Tab
    PROVE  [w EXCEPT !.tab[t].connect = "seat", !.tab[t].astray = FALSE]
               = Edit(w, t, [w.tab[t] EXCEPT !.connect = "seat", !.astray = FALSE])
PROOF
<1> SUFFICES ASSUME NEW v, v = [w EXCEPT !.tab[t].connect = "seat", !.tab[t].astray = FALSE]
             PROVE  v = Edit(w, t, [w.tab[t] EXCEPT !.connect = "seat", !.astray = FALSE])
  BY Zenon
<1>1. /\ v.locks = w.locks /\ v.inbox = w.inbox
      /\ v.tab = [w.tab EXCEPT ![t] = [w.tab[t] EXCEPT !.connect = "seat", !.astray = FALSE]]
  BY Zenon DEF Worlds
<1>2. v = [locks |-> v.locks, inbox |-> v.inbox, tab |-> v.tab]
  BY Zenon DEF Worlds
<1> QED
  BY <1>1, <1>2, Zenon DEF Edit

LEMMA ShapeTry ==
    ASSUME NEW w \in Worlds, NEW t \in Tab
    PROVE  [w EXCEPT !.tab[t].acquiring = TRUE]
               = Edit(w, t, [w.tab[t] EXCEPT !.acquiring = TRUE])
PROOF
<1> SUFFICES ASSUME NEW v, v = [w EXCEPT !.tab[t].acquiring = TRUE]
             PROVE  v = Edit(w, t, [w.tab[t] EXCEPT !.acquiring = TRUE])
  BY Zenon
<1>1. /\ v.locks = w.locks /\ v.inbox = w.inbox
      /\ v.tab = [w.tab EXCEPT ![t] = [w.tab[t] EXCEPT !.acquiring = TRUE]]
  BY Zenon DEF Worlds
<1>2. v = [locks |-> v.locks, inbox |-> v.inbox, tab |-> v.tab]
  BY Zenon DEF Worlds
<1> QED
  BY <1>1, <1>2, Zenon DEF Edit

LEMMA ShapeStop ==
    ASSUME NEW w \in Worlds, NEW t \in Tab
    PROVE  disconnect(w, t)
               = Edit(w, t, [w.tab[t] EXCEPT !.node = FALSE, !.current = FALSE,
                                              !.stopping = (w.tab[t].stopping \/ w.tab[t].node),
                                              !.astray = (w.tab[t].connect = "config")])
PROOF
<1> SUFFICES ASSUME NEW v, v = disconnect(w, t)
             PROVE  v = Edit(w, t, [w.tab[t] EXCEPT !.node = FALSE, !.current = FALSE,
                                              !.stopping = (w.tab[t].stopping \/ w.tab[t].node),
                                              !.astray = (w.tab[t].connect = "config")])
  BY Zenon
<1>1. /\ v.locks = w.locks /\ v.inbox = w.inbox
      /\ v.tab = [w.tab EXCEPT ![t] = [w.tab[t] EXCEPT !.node = FALSE, !.current = FALSE,
                                              !.stopping = (w.tab[t].stopping \/ w.tab[t].node),
                                              !.astray = (w.tab[t].connect = "config")]]
  BY Zenon DEF Worlds, disconnect
<1>2. v = [locks |-> v.locks, inbox |-> v.inbox, tab |-> v.tab]
  BY Zenon DEF Worlds, disconnect
<1> QED
  BY <1>1, <1>2, Zenon DEF Edit

(* What the callback leaves the tab with. *)
Holding(b, r) == [b EXCEPT !.held = TRUE, !.acquiring = FALSE, !.waiting = FALSE, !.hold = r]

Grasp(w, t, r) == [w EXCEPT !.tab[t].held = TRUE, !.tab[t].acquiring = FALSE,
                            !.tab[t].waiting = FALSE, !.tab[t].hold = r]

LEMMA ShapeGrant ==
    ASSUME NEW w \in Worlds, NEW t \in Tab, NEW r
    PROVE  Grasp(w, t, r) = Edit(w, t, Holding(w.tab[t], r))
PROOF
<1> SUFFICES ASSUME NEW v, v = Grasp(w, t, r)
             PROVE  v = Edit(w, t, Holding(w.tab[t], r))
  BY Zenon
<1>1. /\ v.locks = w.locks /\ v.inbox = w.inbox
      /\ v.tab = [w.tab EXCEPT ![t] = Holding(w.tab[t], r)]
  BY Zenon DEF Worlds, Grasp, Holding
<1>2. v = [locks |-> v.locks, inbox |-> v.inbox, tab |-> v.tab]
  BY Zenon DEF Worlds, Grasp
<1> QED
  BY <1>1, <1>2, Zenon DEF Edit

LEMMA ShapeLost ==
    ASSUME NEW w \in Worlds, NEW t \in Tab
    PROVE  [w EXCEPT !.tab[t].held = FALSE, !.tab[t].hold = None]
               = Edit(w, t, [w.tab[t] EXCEPT !.held = FALSE, !.hold = None])
PROOF
<1> SUFFICES ASSUME NEW v, v = [w EXCEPT !.tab[t].held = FALSE, !.tab[t].hold = None]
             PROVE  v = Edit(w, t, [w.tab[t] EXCEPT !.held = FALSE, !.hold = None])
  BY Zenon
<1>1. /\ v.locks = w.locks /\ v.inbox = w.inbox
      /\ v.tab = [w.tab EXCEPT ![t] = [w.tab[t] EXCEPT !.held = FALSE, !.hold = None]]
  BY Zenon DEF Worlds
<1>2. v = [locks |-> v.locks, inbox |-> v.inbox, tab |-> v.tab]
  BY Zenon DEF Worlds
<1> QED
  BY <1>1, <1>2, Zenon DEF Edit

LEMMA ShapeOpen ==
    ASSUME NEW w \in Worlds, NEW t \in Tab
    PROVE  [w EXCEPT !.tab[t].page = "open", !.tab[t].unlocked = TRUE, !.tab[t].reading = (t \in Reading)]
               = Edit(w, t, [w.tab[t] EXCEPT !.page = "open", !.unlocked = TRUE, !.reading = (t \in Reading)])
PROOF
<1> SUFFICES ASSUME NEW v, v = [w EXCEPT !.tab[t].page = "open", !.tab[t].unlocked = TRUE, !.tab[t].reading = (t \in Reading)]
             PROVE  v = Edit(w, t, [w.tab[t] EXCEPT !.page = "open", !.unlocked = TRUE, !.reading = (t \in Reading)])
  BY Zenon
<1>1. /\ v.locks = w.locks /\ v.inbox = w.inbox
      /\ v.tab = [w.tab EXCEPT ![t] = [w.tab[t] EXCEPT !.page = "open", !.unlocked = TRUE, !.reading = (t \in Reading)]]
  BY Zenon DEF Worlds
<1>2. v = [locks |-> v.locks, inbox |-> v.inbox, tab |-> v.tab]
  BY Zenon DEF Worlds
<1> QED
  BY <1>1, <1>2, Zenon DEF Edit

LEMMA ShapeLock ==
    ASSUME NEW w \in Worlds, NEW t \in Tab
    PROVE  [w EXCEPT !.tab[t].unlocked = FALSE, !.tab[t].held = FALSE]
               = Edit(w, t, [w.tab[t] EXCEPT !.unlocked = FALSE, !.held = FALSE])
PROOF
<1> SUFFICES ASSUME NEW v, v = [w EXCEPT !.tab[t].unlocked = FALSE, !.tab[t].held = FALSE]
             PROVE  v = Edit(w, t, [w.tab[t] EXCEPT !.unlocked = FALSE, !.held = FALSE])
  BY Zenon
<1>1. /\ v.locks = w.locks /\ v.inbox = w.inbox
      /\ v.tab = [w.tab EXCEPT ![t] = [w.tab[t] EXCEPT !.unlocked = FALSE, !.held = FALSE]]
  BY Zenon DEF Worlds
<1>2. v = [locks |-> v.locks, inbox |-> v.inbox, tab |-> v.tab]
  BY Zenon DEF Worlds
<1> QED
  BY <1>1, <1>2, Zenon DEF Edit

LEMMA ShapeDrop ==
    ASSUME NEW w \in Worlds, NEW t \in Tab
    PROVE  [w EXCEPT !.tab[t].drop = TRUE, !.tab[t].queued = None]
               = Edit(w, t, [w.tab[t] EXCEPT !.drop = TRUE, !.queued = None])
PROOF
<1> SUFFICES ASSUME NEW v, v = [w EXCEPT !.tab[t].drop = TRUE, !.tab[t].queued = None]
             PROVE  v = Edit(w, t, [w.tab[t] EXCEPT !.drop = TRUE, !.queued = None])
  BY Zenon
<1>1. /\ v.locks = w.locks /\ v.inbox = w.inbox
      /\ v.tab = [w.tab EXCEPT ![t] = [w.tab[t] EXCEPT !.drop = TRUE, !.queued = None]]
  BY Zenon DEF Worlds
<1>2. v = [locks |-> v.locks, inbox |-> v.inbox, tab |-> v.tab]
  BY Zenon DEF Worlds
<1> QED
  BY <1>1, <1>2, Zenon DEF Edit

(* The tab thinks again, and nothing happens to the lock. *)
Reviewed(w, v, t, y) ==
    /\ LockInv(v) /\ SameTold(w, v) /\ v.locks = w.locks /\ v.inbox = w.inbox
    /\ v.tab = [w.tab EXCEPT ![t] = y] /\ v.tab[t] = y

LEMMA Review ==
    ASSUME NEW w, LockInv(w), NEW t \in Tab, NEW y \in TabState,
           y.hold = w.tab[t].hold, w.tab[t].mistook => y.mistook
    PROVE  Reviewed(w, Edit(w, t, y), t, y)
PROOF
<1>1. w \in Worlds
  BY DEF LockInv
<1>2. Edited(w, Edit(w, t, y), t, y)
  BY <1>1, EditFacts, Zenon
<1>3. LockInv(Edit(w, t, y)) /\ SameTold(w, Edit(w, t, y))
  BY EditKeeps
<1> QED
  BY <1>2, <1>3, Zenon DEF Edited, Reviewed

(* A tab with a node on the network that the seat answers for. *)
Runs(x) == (x.node \/ (x.connect = "starting" /\ x.current)) /\ ~x.astray /\ ~x.mistook

(* One with a node on the network that was told to stop. *)
Stops(x) == x.stopping \/ (x.connect = "starting" /\ ~x.current)

(* While x becomes y its stopping node does not change, unless the tab is  *)
(* left without a running one; or the node that was stopping is down.      *)
Steady(x, y) == Runs(y) => (Stops(y) <=> Stops(x))

Calm(x, y) == Steady(x, y) \/ (Runs(x) /\ (Stops(y) => Stops(x)))

(* The tab's part of the invariant: what it says of itself is consistent. *)
Upright(x, u) ==
    /\ x \in TabState
    /\ x.queued \in RequestOf(u) \cup {None}
    /\ ~x.astray /\ (x.node \/ x.connect = "config" \/ (x.connect = "starting" /\ x.current)) => x.held

Own(x, u) == Upright(x, u) /\ (x.hold # None => x.held)

(* x becomes y in connect(). *)
Turns(x, y, t) ==
    /\ y \in TabState
    /\ y.hold = x.hold /\ y.held = x.held /\ y.mistook = x.mistook
    /\ Upright(x, t) => Upright(y, t)
    /\ ~x.held /\ ~Runs(x) => ~Runs(y)
    /\ Steady(x, y)

Connects(w, v, t) ==
    /\ LockInv(v) /\ SameTold(w, v) /\ Takes(w, v, t)
    /\ v.tab = [w.tab EXCEPT ![t] = v.tab[t]]
    /\ Turns(w.tab[t], v.tab[t], t)
    /\ v.locks.holder # w.locks.holder =>
         v.locks.holder # w.tab[t].hold /\ (Runs(v.tab[t]) <=> Runs(w.tab[t]))

SeatChoices(x, y, z, a, t) ==
    /\ Turns(x, y, t) /\ Turns(x, a, t) /\ (x.held => Turns(x, z, t))
    /\ y.hold = x.hold /\ y.mistook = x.mistook /\ y.held = x.held /\ y.acquiring = x.acquiring
    /\ a.hold = x.hold /\ a.mistook = x.mistook
    /\ z.hold = x.hold /\ z.mistook = x.mistook
    /\ y \in TabState /\ a \in TabState /\ z \in TabState
    /\ ~Runs(x) /\ ~Runs(y) /\ ~Runs(a)

LEMMA AsksTyped ==
    ASSUME NEW x \in TabState
    PROVE  [x EXCEPT !.acquiring = TRUE] \in TabState
PROOF
  BY Zenon DEF TabState

LEMMA StartsTyped ==
    ASSUME NEW x \in TabState
    PROVE  [x EXCEPT !.connect = IF x.reading THEN "config" ELSE "starting",
                     !.current = ~x.reading] \in TabState
PROOF
  BY ZenonT(60) DEF TabState

LEMMA SeatTurns ==
    ASSUME NEW x \in TabState, NEW t, ~x.node, x.connect = "idle",
           NEW y, y = [x EXCEPT !.connect = "seat", !.astray = FALSE],
           NEW z, z = [y EXCEPT !.connect = IF y.reading THEN "config" ELSE "starting",
                                !.current = ~y.reading],
           NEW a, a = [y EXCEPT !.acquiring = TRUE]
    PROVE  SeatChoices(x, y, z, a, t)
PROOF
<1>1. y \in TabState /\ a \in TabState /\ z \in TabState
  <2>1. y \in TabState
    BY Zenon DEF TabState
  <2>2. a \in TabState
    BY <2>1, AsksTyped, Zenon
  <2>3. z \in TabState
    BY <2>1, StartsTyped, Zenon
  <2> QED
    BY <2>1, <2>2, <2>3, Zenon
<1>2. /\ y.hold = x.hold /\ y.mistook = x.mistook /\ y.held = x.held /\ y.acquiring = x.acquiring
      /\ y.queued = x.queued /\ y.connect = "seat" /\ y.node = x.node
  BY DEF TabState
<1>3. /\ a.hold = x.hold /\ a.mistook = x.mistook /\ a.held = x.held
      /\ a.queued = x.queued /\ a.connect = "seat" /\ a.node = x.node
  BY DEF TabState
<1>4. /\ z.hold = x.hold /\ z.mistook = x.mistook /\ z.held = x.held
      /\ z.queued = x.queued /\ z.node = x.node
      /\ z.stopping = x.stopping /\ (z.connect = "starting" => z.current)
  BY DEF TabState
<1>5. ~Runs(x) /\ ~Runs(y) /\ ~Runs(a)
  BY <1>2, <1>3 DEF Runs
<1>6. Turns(x, y, t)
  BY <1>1, <1>2, <1>5 DEF Turns, Upright, Steady
<1>7. Turns(x, a, t)
  BY <1>1, <1>3, <1>5 DEF Turns, Upright, Steady
<1>8. x.held => Turns(x, z, t)
  <2>1. Steady(x, z)
    BY <1>4 DEF Steady, Stops
  <2> QED
    BY <1>1, <1>4, <1>5, <2>1, Zenon DEF Turns, Upright
<1> QED
  BY <1>1, <1>2, <1>3, <1>4, <1>5, <1>6, <1>7, <1>8, Zenon DEF SeatChoices

LEMMA ExceptTwice ==
    ASSUME NEW w \in Worlds, NEW t \in Tab, NEW y, NEW z
    PROVE  /\ [[w.tab EXCEPT ![t] = y] EXCEPT ![t] = z] = [w.tab EXCEPT ![t] = z]
           /\ [w.tab EXCEPT ![t] = y][t] = y
           /\ [w.tab EXCEPT ![t] = w.tab[t]] = w.tab
           /\ \A u \in Tab \ {t} : [w.tab EXCEPT ![t] = y][u] = w.tab[u]
PROOF
<1>1. w.tab \in [Tab -> TabState]
  BY WorldParts, Zenon
<1> QED
  BY <1>1

LEMMA ConnectKeeps ==
    ASSUME NEW w, LockInv(w), NEW t \in Tab
    PROVE  Connects(w, connect(w, t), t)
PROOF
<1> SUFFICES ASSUME NEW v, v = connect(w, t)
             PROVE  Connects(w, v, t)
  BY Zenon
<1> DEFINE x == w.tab[t]
<1>0. w \in Worlds /\ x \in TabState
  BY WorldParts, Zenon DEF LockInv
<1>1. CASE x.node \/ x.connect # "idle"
  <2>1. v = w
    BY <1>1, Zenon DEF connect
  <2>2. Turns(x, x, t)
    BY <1>0, Zenon DEF Turns, Steady
  <2>3. v.tab = [w.tab EXCEPT ![t] = v.tab[t]]
    BY <1>0, <2>1, ExceptTwice
  <2> QED
    BY <2>1, <2>2, <2>3, Zenon DEF Connects, Takes, SameTold
<1>2. CASE ~x.node /\ x.connect = "idle"
  <2> DEFINE y == [x EXCEPT !.connect = "seat", !.astray = FALSE]
             z == [y EXCEPT !.connect = IF y.reading THEN "config" ELSE "starting",
                            !.current = ~y.reading]
             a == [y EXCEPT !.acquiring = TRUE]
             c == [w EXCEPT !.tab[t].connect = "seat", !.tab[t].astray = FALSE]
  <2>1. v = acquireNodeLock(c, t)
    BY <1>2, Zenon DEF connect
  <2>2. c = Edit(w, t, y)
    BY <1>0, ShapeAsk, Zenon
  <2>3. /\ Turns(x, y, t) /\ Turns(x, a, t) /\ (x.held => Turns(x, z, t))
        /\ y.hold = x.hold /\ y.mistook = x.mistook /\ y.held = x.held /\ y.acquiring = x.acquiring
        /\ a.hold = x.hold /\ a.mistook = x.mistook
        /\ z.hold = x.hold /\ z.mistook = x.mistook
        /\ y \in TabState /\ a \in TabState /\ z \in TabState
        /\ ~Runs(x) /\ ~Runs(y) /\ ~Runs(a)
    <3>1. /\ y = [x EXCEPT !.connect = "seat", !.astray = FALSE]
          /\ z = [y EXCEPT !.connect = IF y.reading THEN "config" ELSE "starting",
                            !.current = ~y.reading]
          /\ a = [y EXCEPT !.acquiring = TRUE]
      BY Zenon
    <3> HIDE DEF x, y, z, a
    <3>2. SeatChoices(x, y, z, a, t)
      BY <1>0, <1>2, <3>1, SeatTurns, Zenon
    <3> QED
      BY <3>2, Zenon DEF SeatChoices
  <2> HIDE DEF c
  <2>4. Reviewed(w, c, t, y)
    <3> HIDE DEF y, z, a
    <3> QED
      BY <2>2, <2>3, Review, Zenon
  <2>5. /\ LockInv(c) /\ SameTold(w, c) /\ c.locks = w.locks
        /\ c.tab = [w.tab EXCEPT ![t] = y] /\ c.tab[t] = y
    BY <2>4, Zenon DEF Reviewed
  <2>6. c \in Worlds
    BY <2>5 DEF LockInv
  <2>7. v = IF y.held THEN HaveSeat(c, t)
            ELSE IF y.acquiring THEN c
            ELSE RequestTry([c EXCEPT !.tab[t].acquiring = TRUE], t)
    BY <2>1, <2>5, Zenon DEF acquireNodeLock
  <2>8. HaveSeat(c, t) = Edit(c, t, z)
    <3> HIDE DEF y
    <3>1. HaveSeat(c, t) =
            Edit(c, t, [c.tab[t] EXCEPT !.connect = IF c.tab[t].reading THEN "config" ELSE "starting",
                                        !.current = ~c.tab[t].reading])
      BY <2>6, ShapeSeat, Zenon
    <3> QED
      BY <2>5, <3>1, Zenon
  <2>9. [c EXCEPT !.tab[t].acquiring = TRUE] = Edit(c, t, a)
    <3> HIDE DEF y
    <3>1. [c EXCEPT !.tab[t].acquiring = TRUE] = Edit(c, t, [c.tab[t] EXCEPT !.acquiring = TRUE])
      BY <2>6, ShapeTry, Zenon
    <3> QED
      BY <2>5, <3>1, Zenon
  <2> HIDE DEF y, z, a
  <2>10. CASE y.held
    <3>1. Reviewed(c, v, t, z)
      <4>1. z.hold = c.tab[t].hold /\ (c.tab[t].mistook => z.mistook) /\ v = Edit(c, t, z)
        BY <2>3, <2>5, <2>7, <2>8, <2>10
      <4>2. Reviewed(c, Edit(c, t, z), t, z)
        BY <2>3, <2>5, <4>1, Review, Zenon
      <4> QED
        BY <4>1, <4>2, Zenon
    <3>2. /\ LockInv(v) /\ SameTold(c, v) /\ v.locks = c.locks
          /\ v.tab = [c.tab EXCEPT ![t] = z] /\ v.tab[t] = z
      BY <3>1, Zenon DEF Reviewed
    <3>3. v.tab = [w.tab EXCEPT ![t] = z]
      BY <1>0, <2>5, <3>2, ExceptTwice
    <3>4. SameTold(w, v)
      BY <2>5, <3>2, Zenon DEF SameTold
    <3> QED
      BY <2>3, <2>5, <2>10, <3>2, <3>3, <3>4, Zenon DEF Connects, Takes
  <2>11. CASE ~y.held /\ y.acquiring
    <3>1. v = c
      BY <2>7, <2>11, Zenon
    <3> QED
      BY <2>3, <2>5, <3>1, Zenon DEF Connects, Takes
  <2>12. CASE ~y.held /\ ~y.acquiring
    <3> DEFINE d == Edit(c, t, a)
    <3>1. v = RequestTry(d, t)
      BY <2>7, <2>9, <2>12, Zenon
    <3>2. Reviewed(c, d, t, a)
      BY <2>3, <2>5, Review, Zenon
    <3> HIDE DEF d
    <3>3. /\ LockInv(d) /\ SameTold(c, d) /\ d.locks = c.locks
          /\ d.tab = [c.tab EXCEPT ![t] = a] /\ d.tab[t] = a
      BY <3>2, Zenon DEF Reviewed
    <3>4. /\ LockInv(v) /\ SameTold(d, v) /\ v.tab = d.tab /\ Takes(d, v, t)
          /\ v.locks.holder # d.locks.holder => v.locks.holder # d.tab[t].hold
      <4>1. Tried(d, v, t)
        BY <3>1, <3>3, TryKeeps, Zenon
      <4> QED
        BY <4>1, Zenon DEF Tried
    <3>5. v.tab = [w.tab EXCEPT ![t] = a] /\ v.tab[t] = a
      BY <1>0, <2>5, <3>3, <3>4, ExceptTwice
    <3>6. SameTold(w, v)
      BY <2>5, <3>3, <3>4, Zenon DEF SameTold
    <3>7. Takes(w, v, t)
      BY <2>5, <3>3, <3>4, Zenon DEF Takes
    <3>8. v.locks.holder # w.locks.holder => v.locks.holder # x.hold
      BY <2>3, <2>5, <3>3, <3>4, Zenon
    <3> QED
      BY <2>3, <3>4, <3>5, <3>6, <3>7, <3>8, Zenon DEF Connects
  <2> QED
    BY <2>10, <2>11, <2>12
<1> QED
  BY <1>1, <1>2

(* LibP2PTransport.disconnect, and connect() again. *)
StepsDown(w, v, t) ==
    /\ LockInv(v) /\ SameTold(w, v) /\ Takes(w, v, t)
    /\ v.tab = [w.tab EXCEPT ![t] = v.tab[t]]
    /\ v.tab[t].hold = w.tab[t].hold /\ v.tab[t].held = w.tab[t].held
    /\ v.tab[t].mistook = w.tab[t].mistook
    /\ Upright(v.tab[t], t) /\ ~Runs(v.tab[t])
    /\ v.locks.holder # w.locks.holder => v.locks.holder # w.tab[t].hold

LEMMA StopTurns ==
    ASSUME NEW x \in TabState, NEW t, x.queued \in RequestOf(t) \cup {None},
           NEW y, y = [x EXCEPT !.node = FALSE, !.current = FALSE, !.stopping = (x.stopping \/ x.node),
                         !.astray = (x.connect = "config")]
    PROVE  /\ y \in TabState /\ y.hold = x.hold /\ y.held = x.held /\ y.mistook = x.mistook
           /\ Upright(y, t) /\ ~Runs(y)
PROOF
<1> DEFINE b == x.stopping \/ x.node
           c == x.connect = "config"
<1>0. b \in BOOLEAN /\ c \in BOOLEAN /\ y = [x EXCEPT !.node = FALSE, !.current = FALSE, !.stopping = b, !.astray = c]
  OBVIOUS
<1>1. y \in TabState
  <2> HIDE DEF b, c
  <2> QED
    BY <1>0, ZenonT(60) DEF TabState
<1>2. /\ y.hold = x.hold /\ y.held = x.held /\ y.mistook = x.mistook /\ y.queued = x.queued
      /\ ~y.node /\ ~y.current /\ (y.astray <=> x.connect = "config") /\ y.connect = x.connect
  BY Zenon DEF TabState
<1>3. Upright(y, t) /\ ~Runs(y)
  BY <1>1, <1>2 DEF Upright, Runs
<1> QED
  BY <1>1, <1>2, <1>3

StoodDown(w, v, t) ==
    /\ LockInv(v) /\ SameTold(w, v) /\ v.locks = w.locks
    /\ v.tab = [w.tab EXCEPT ![t] = v.tab[t]]
    /\ v.tab[t].hold = w.tab[t].hold /\ v.tab[t].held = w.tab[t].held
    /\ v.tab[t].mistook = w.tab[t].mistook
    /\ Upright(v.tab[t], t) /\ ~Runs(v.tab[t])

LEMMA DisconnectKeeps ==
    ASSUME NEW w, LockInv(w), NEW t \in Tab, w.tab[t].queued \in RequestOf(t) \cup {None}
    PROVE  StoodDown(w, disconnect(w, t), t)
PROOF
<1> DEFINE x == w.tab[t]
           y == [x EXCEPT !.node = FALSE, !.current = FALSE, !.stopping = (x.stopping \/ x.node),
                          !.astray = (x.connect = "config")]
<1>0. w \in Worlds /\ x \in TabState
  BY WorldParts, Zenon DEF LockInv
<1>1. disconnect(w, t) = Edit(w, t, y)
  BY <1>0, ShapeStop, Zenon
<1>2. y = [x EXCEPT !.node = FALSE, !.current = FALSE, !.stopping = (x.stopping \/ x.node),
                         !.astray = (x.connect = "config")]
  BY Zenon
<1>3. x.queued \in RequestOf(t) \cup {None}
  OBVIOUS
<1> HIDE DEF x, y
<1>4. /\ y \in TabState /\ y.hold = x.hold /\ y.held = x.held /\ y.mistook = x.mistook
      /\ Upright(y, t) /\ ~Runs(y)
  BY <1>0, <1>2, <1>3, StopTurns, Zenon
<1>5. y.hold = w.tab[t].hold /\ (w.tab[t].mistook => y.mistook)
  BY <1>4 DEF x
<1>6. Reviewed(w, Edit(w, t, y), t, y)
  BY <1>4, <1>5, Review, Zenon
<1>7. StoodDown(w, Edit(w, t, y), t)
  BY <1>4, <1>6, Zenon DEF StoodDown, Reviewed, x
<1> QED
  BY <1>1, <1>7, Zenon

LEMMA StepDownKeeps ==
    ASSUME NEW w, LockInv(w), NEW t \in Tab, w.tab[t].queued \in RequestOf(t) \cup {None},
           ~w.tab[t].held
    PROVE  StepsDown(w, stepDown(w, t), t)
PROOF
<1> DEFINE d == disconnect(w, t)
           v == connect(d, t)
<1>0. w \in Worlds
  BY DEF LockInv
<1>1. StoodDown(w, d, t)
  BY DisconnectKeeps, Zenon
<1>2. stepDown(w, t) = v
  BY Zenon DEF stepDown
<1> HIDE DEF d
<1>3. /\ LockInv(d) /\ SameTold(w, d) /\ d.locks = w.locks
      /\ d.tab = [w.tab EXCEPT ![t] = d.tab[t]]
      /\ d.tab[t].hold = w.tab[t].hold /\ d.tab[t].held = w.tab[t].held
      /\ d.tab[t].mistook = w.tab[t].mistook
      /\ Upright(d.tab[t], t) /\ ~Runs(d.tab[t])
  BY <1>1, Zenon DEF StoodDown
<1>4. Connects(d, v, t)
  BY <1>3, ConnectKeeps, Zenon
<1> HIDE DEF v
<1>5. /\ LockInv(v) /\ SameTold(d, v) /\ Takes(d, v, t)
      /\ v.tab = [d.tab EXCEPT ![t] = v.tab[t]]
      /\ v.locks.holder # d.locks.holder => v.locks.holder # d.tab[t].hold
  BY <1>4, Zenon DEF Connects
<1>6. /\ v.tab[t].hold = d.tab[t].hold /\ v.tab[t].held = d.tab[t].held
      /\ v.tab[t].mistook = d.tab[t].mistook
      /\ Upright(v.tab[t], t)
  BY <1>3, <1>4, Zenon DEF Connects, Turns
<1>7. ~Runs(v.tab[t])
  BY <1>3, <1>4, Zenon DEF Connects, Turns
<1>8. v.tab = [w.tab EXCEPT ![t] = v.tab[t]]
  BY <1>0, <1>3, <1>5, ExceptTwice
<1>9. SameTold(w, v) /\ Takes(w, v, t)
  BY <1>3, <1>5, Zenon DEF SameTold, Takes
<1>10. StepsDown(w, v, t)
  BY <1>3, <1>5, <1>6, <1>7, <1>8, <1>9, Zenon DEF StepsDown
<1> QED
  BY <1>2, <1>10, Zenon

-----------------------------------------------------------------------------
(* The whole invariant, and what one step does to the seat.                *)

Backed(w, u) == w.tab[u].held /\ ~w.tab[u].mistook => w.locks.holder.t = u \/ Told(w.inbox[u])

Good(w) == LockInv(w) /\ \A u \in Tab : Own(w.tab[u], u) /\ Backed(w, u)

OthersTold(w, v, t) == \A u \in Tab \ {t} : Told(v.inbox[u]) <=> Told(w.inbox[u])

(* The seat moves only out of t, or into t when it is free. *)
Ceded(w, v, t) ==
    v.locks.holder # w.locks.holder =>
        w.locks.holder.t = t \/ (w.locks.holder = None /\ v.locks.holder.t = t)

(* Nothing but t's node changes; t takes a free seat; t stops; t steals. *)
Effect(w, v, t) ==
    \/ v.locks.holder = w.locks.holder /\ SameTold(w, v) /\ Calm(w.tab[t], v.tab[t])
    \/ /\ Takes(w, v, t) /\ SameTold(w, v) /\ (Runs(v.tab[t]) <=> Runs(w.tab[t]))
       /\ Steady(w.tab[t], v.tab[t])
    \/ /\ ~Runs(v.tab[t]) /\ (Told(v.inbox[t]) => Told(w.inbox[t]))
       /\ OthersTold(w, v, t) /\ Ceded(w, v, t)
    \/ /\ Forced(w, v, t) /\ (Runs(v.tab[t]) <=> Runs(w.tab[t]))
       /\ (Stops(v.tab[t]) <=> Stops(w.tab[t]))

Step(w, v, t) == Good(v) /\ v.tab = [w.tab EXCEPT ![t] = v.tab[t]] /\ Effect(w, v, t)

LEMMA Assemble ==
    ASSUME NEW w, Good(w), NEW t \in Tab, NEW v, LockInv(v), v.tab = [w.tab EXCEPT ![t] = v.tab[t]],
           Own(v.tab[t], t), Backed(v, t), Effect(w, v, t)
    PROVE  Step(w, v, t)
PROOF
<1>0. w \in Worlds /\ LockInv(w)
  BY DEF Good, LockInv
<1>1. \A u \in Tab \ {t} : v.tab[u] = w.tab[u]
  <2>1. w.tab \in [Tab -> TabState]
    BY <1>0, WorldParts, Zenon
  <2> QED
    BY <2>1
<1>2. \A u \in Tab : None.t # u
  BY RequestFacts
<1>3. ASSUME NEW u \in Tab, u # t PROVE Own(v.tab[u], u) /\ Backed(v, u)
  <2>1. Own(w.tab[u], u) /\ Backed(w, u) /\ v.tab[u] = w.tab[u]
    BY <1>1, <1>3, Zenon DEF Good
  <2>2. w.locks.holder.t = u \/ Told(w.inbox[u]) => v.locks.holder.t = u \/ Told(v.inbox[u])
    <3>0. None.t # u /\ u \in Tab \ {t}
      BY <1>2, <1>3
    <3>1. CASE SameTold(w, v) /\ Takes(w, v, t)
      BY <3>0, <3>1, Zenon DEF Takes, SameTold
    <3>2. CASE OthersTold(w, v, t) /\ Ceded(w, v, t)
      BY <3>0, <3>2, Zenon DEF OthersTold, Ceded
    <3>3. CASE Forced(w, v, t)
      BY <3>0, <3>3, Zenon DEF Forced, SameTold
    <3> QED
      BY <3>1, <3>2, <3>3, Zenon DEF Effect, Takes
  <2> QED
    BY <2>1, <2>2, Zenon DEF Backed
<1>4. Good(v)
  BY <1>3, Zenon DEF Good
<1> QED
  BY <1>4, Zenon DEF Step

LEMMA GoodParts ==
    ASSUME NEW w, Good(w), NEW t \in Tab
    PROVE  /\ LockInv(w) /\ w \in Worlds /\ w.tab[t] \in TabState
           /\ Own(w.tab[t], t) /\ Upright(w.tab[t], t) /\ Backed(w, t)
           /\ w.tab[t].queued \in RequestOf(t) \cup {None}
           /\ w.tab[t].hold # None => w.tab[t].held
PROOF
  BY Zenon DEF Good, LockInv, Own, Upright

(* A handler that only changes what the tab knows. *)
LEMMA EditStep ==
    ASSUME NEW w, Good(w), NEW t \in Tab, NEW y, Own(y, t),
           y.hold = w.tab[t].hold, w.tab[t].mistook => y.mistook,
           y.held => w.tab[t].held, Calm(w.tab[t], y)
    PROVE  Step(w, Edit(w, t, y), t)
PROOF
<1> DEFINE v == Edit(w, t, y)
<1>0. LockInv(w) /\ w \in Worlds /\ Backed(w, t) /\ y \in TabState
  BY GoodParts, Zenon DEF Own, Upright
<1>1. Reviewed(w, v, t, y)
  BY <1>0, Review, Zenon
<1> HIDE DEF v
<1>2. /\ LockInv(v) /\ SameTold(w, v) /\ v.locks = w.locks /\ v.inbox = w.inbox
      /\ v.tab = [w.tab EXCEPT ![t] = v.tab[t]] /\ v.tab[t] = y
  BY <1>1, Zenon DEF Reviewed
<1>3. Backed(v, t)
  BY <1>0, <1>2, Zenon DEF Backed
<1>4. Effect(w, v, t)
  BY <1>2, Zenon DEF Effect
<1>5. Step(w, v, t)
  BY <1>2, <1>3, <1>4, Assemble, Zenon
<1> QED
  BY <1>5 DEF v

(* One that ends in connect(). *)
LEMMA ConnectStep ==
    ASSUME NEW w, Good(w), NEW t \in Tab, NEW y, Own(y, t),
           y.hold = w.tab[t].hold, y.mistook = w.tab[t].mistook,
           y.held = w.tab[t].held, Runs(y) <=> Runs(w.tab[t]), Stops(y) <=> Stops(w.tab[t])
    PROVE  Step(w, connect(Edit(w, t, y), t), t)
PROOF
<1> DEFINE x == Edit(w, t, y)
           v == connect(x, t)
<1>0. LockInv(w) /\ w \in Worlds /\ Backed(w, t) /\ y \in TabState /\ Upright(y, t)
      /\ (w.tab[t].mistook => y.mistook) /\ (y.hold # None => y.held)
  BY GoodParts, Zenon DEF Own, Upright
<1>1. Reviewed(w, x, t, y)
  BY <1>0, Review, Zenon
<1> HIDE DEF x
<1>2. /\ LockInv(x) /\ SameTold(w, x) /\ x.locks = w.locks /\ x.inbox = w.inbox
      /\ x.tab = [w.tab EXCEPT ![t] = y] /\ x.tab[t] = y
  BY <1>1, Zenon DEF Reviewed
<1>3. Connects(x, v, t)
  BY <1>2, ConnectKeeps, Zenon
<1> HIDE DEF v
<1>4. /\ LockInv(v) /\ SameTold(x, v) /\ Takes(x, v, t)
      /\ v.tab = [x.tab EXCEPT ![t] = v.tab[t]]
      /\ v.locks.holder # x.locks.holder => (Runs(v.tab[t]) <=> Runs(x.tab[t]))
      /\ Turns(y, v.tab[t], t)
  BY <1>2, <1>3, Zenon DEF Connects
<1>5. v.tab = [w.tab EXCEPT ![t] = v.tab[t]]
  BY <1>0, <1>2, <1>4, ExceptTwice, ZenonT(60)
<1>6. SameTold(w, v) /\ Takes(w, v, t)
  BY <1>2, <1>4, Zenon DEF SameTold, Takes
<1>7. v.tab[t].hold = y.hold /\ v.tab[t].held = y.held /\ v.tab[t].mistook = y.mistook
      /\ Upright(v.tab[t], t)
  BY <1>0, <1>4, Zenon DEF Turns
<1>8. Own(v.tab[t], t)
  BY <1>0, <1>7 DEF Own
<1>9. Backed(v, t)
  <2>1. w.tab[t].held /\ ~w.tab[t].mistook => w.locks.holder.t = t \/ Told(w.inbox[t])
    BY <1>0 DEF Backed
  <2>2. w.locks.holder.t = t \/ Told(w.inbox[t]) => v.locks.holder.t = t \/ Told(v.inbox[t])
    BY <1>6, Zenon DEF SameTold, Takes
  <2>3. v.tab[t].held = w.tab[t].held /\ v.tab[t].mistook = w.tab[t].mistook
    BY <1>7
  <2> QED
    BY <2>1, <2>2, <2>3 DEF Backed
<1>10. Effect(w, v, t)
  <2>1. Steady(w.tab[t], v.tab[t])
    BY <1>4, Zenon DEF Turns, Steady
  <2> QED
    BY <1>2, <1>4, <1>6, <2>1, Zenon DEF Effect, Calm
<1>11. Step(w, v, t)
  BY <1>4, <1>5, <1>8, <1>9, <1>10, Assemble, Zenon
<1> QED
  BY <1>11 DEF v, x

(* Fields that play no part in the invariant. *)
Aloof(x, y) ==
    /\ y \in TabState
    /\ y.hold = x.hold /\ y.held = x.held /\ y.mistook = x.mistook /\ y.queued = x.queued
    /\ y.astray = x.astray /\ y.node = x.node /\ y.connect = x.connect /\ y.current = x.current
    /\ y.stopping = x.stopping

LEMMA AloofKeeps ==
    ASSUME NEW x, NEW t, Own(x, t), NEW y, Aloof(x, y)
    PROVE  /\ Own(y, t) /\ y.hold = x.hold /\ y.mistook = x.mistook /\ y.held = x.held
           /\ (Runs(y) <=> Runs(x)) /\ (x.mistook => y.mistook) /\ (y.held => x.held)
           /\ (Stops(y) <=> Stops(x)) /\ Steady(x, y) /\ Calm(x, y)
PROOF
  BY DEF Aloof, Own, Upright, Runs, Stops, Steady, Calm

LEMMA AloofStep ==
    ASSUME NEW w, Good(w), NEW t \in Tab, NEW y, Aloof(w.tab[t], y)
    PROVE  Step(w, Edit(w, t, y), t) /\ Step(w, connect(Edit(w, t, y), t), t)
PROOF
<1> DEFINE x == w.tab[t]
<1>1. Own(x, t)
  BY GoodParts
<1>2. /\ Own(y, t) /\ y.hold = x.hold /\ y.mistook = x.mistook /\ y.held = x.held
      /\ (Runs(y) <=> Runs(x)) /\ (x.mistook => y.mistook) /\ (y.held => x.held)
      /\ (Stops(y) <=> Stops(x)) /\ Calm(x, y)
  BY <1>1, AloofKeeps
<1> QED
  BY <1>2, EditStep, ConnectStep, Zenon

(* The tab has stepped down and lets go of the seat. *)
LEMMA LetGoStep ==
    ASSUME NEW w, Good(w), NEW t \in Tab, NEW d, LockInv(d), SameTold(w, d), Takes(w, d, t),
           d.tab = [w.tab EXCEPT ![t] = d.tab[t]],
           d.tab[t].hold = w.tab[t].hold, ~d.tab[t].held, Upright(d.tab[t], t), ~Runs(d.tab[t]),
           d.locks.holder # w.locks.holder => d.locks.holder # w.tab[t].hold,
           NEW v, v = releaseHold(d, t)
    PROVE  Step(w, v, t)
PROOF
<1>0. LockInv(w) /\ w \in Worlds /\ d \in Worlds
  BY Zenon DEF Good, LockInv
<1>1. Released(d, v, t)
  BY ReleaseKeeps, Zenon
<1> DEFINE x == d.tab[t]
           y == [x EXCEPT !.hold = None]
<1>2. /\ LockInv(v) /\ SameTold(d, v) /\ v.tab = [d.tab EXCEPT ![t] = y]
      /\ v.locks.holder # d.locks.holder => d.locks.holder.t = t /\ d.locks.holder = x.hold
  BY <1>1, Zenon DEF Released
<1>3. x \in TabState /\ Upright(x, t) /\ ~Runs(x) /\ ~x.held
  BY Zenon DEF Upright
<1> HIDE DEF x
<1>4. Own(y, t) /\ ~Runs(y) /\ ~y.held
  <2>1. /\ y \in TabState /\ y.hold = None /\ y.held = x.held /\ y.mistook = x.mistook
        /\ y.queued = x.queued /\ y.astray = x.astray /\ y.node = x.node
        /\ y.connect = x.connect /\ y.current = x.current
    BY <1>3 DEF TabState
  <2> HIDE DEF y
  <2> QED
    BY <1>3, <2>1, Zenon DEF Own, Upright, Runs
<1> HIDE DEF y
<1>5. v.tab[t] = y /\ v.tab = [w.tab EXCEPT ![t] = y]
  <2>1. w.tab \in [Tab -> TabState] /\ d.tab \in [Tab -> TabState]
    BY <1>0, WorldParts, Zenon
  <2>2. v.tab[t] = y
    BY <1>2, <2>1
  <2>3. [[w.tab EXCEPT ![t] = x] EXCEPT ![t] = y] = [w.tab EXCEPT ![t] = y]
    BY <2>1
  <2> QED
    BY <1>2, <2>2, <2>3, Zenon DEF x
<1>6. SameTold(w, v)
  BY <1>2, Zenon DEF SameTold
<1>7. Ceded(w, v, t)
  <2>1. CASE d.locks.holder = w.locks.holder
    BY <1>2, <2>1, Zenon DEF Ceded
  <2>2. CASE d.locks.holder # w.locks.holder
    <3>1. d.locks.holder # x.hold
      BY <2>2 DEF x
    <3>2. v.locks.holder = d.locks.holder
      BY <1>2, <3>1, Zenon
    <3> QED
      BY <2>2, <3>2, Zenon DEF Ceded, Takes
  <2> QED
    BY <2>1, <2>2, Zenon
<1>8. Effect(w, v, t)
  BY <1>4, <1>5, <1>6, <1>7, Zenon DEF Effect, SameTold, OthersTold
<1>9. Backed(v, t)
  BY <1>4, <1>5, Zenon DEF Backed
<1> QED
  BY <1>2, <1>4, <1>5, <1>8, <1>9, Assemble, Zenon

-----------------------------------------------------------------------------
(* One lemma per action.                                                   *)

LEMMA OpenStep ==
    ASSUME NEW w, Good(w), NEW t \in Tab, w.tab[t] = New,
           NEW x, x = [w EXCEPT !.tab[t].page = "open", !.tab[t].unlocked = TRUE,
                                !.tab[t].reading = t \in Reading]
    PROVE  Step(w, connect(x, t), t)
PROOF
<1> DEFINE y == [New EXCEPT !.page = "open", !.unlocked = TRUE, !.reading = (t \in Reading)]
<1>0. w \in Worlds
  BY GoodParts
<1>1. x = Edit(w, t, [w.tab[t] EXCEPT !.page = "open", !.unlocked = TRUE, !.reading = (t \in Reading)])
  BY <1>0, ShapeOpen, Zenon
<1>2. x = Edit(w, t, y)
  BY <1>1
<1>3. Aloof(New, y)
  <2>0. New \in TabState /\ (t \in Reading) \in BOOLEAN
    BY GoneFacts
  <2>1. y \in TabState
    BY <2>0, ZenonT(60) DEF TabState
  <2>2. /\ y.hold = New.hold /\ y.held = New.held /\ y.mistook = New.mistook
        /\ y.queued = New.queued /\ y.astray = New.astray /\ y.node = New.node
        /\ y.connect = New.connect /\ y.current = New.current /\ y.stopping = New.stopping
    BY <2>0 DEF TabState
  <2> QED
    BY <2>1, <2>2, Zenon DEF Aloof
<1> HIDE DEF y
<1>4. Step(w, connect(Edit(w, t, y), t), t)
  BY <1>3, AloofStep, Zenon
<1> QED
  BY <1>2, <1>4, Zenon

LEMMA RetryStep ==
    ASSUME NEW w, Good(w), NEW t \in Tab,
           NEW x, x = [w EXCEPT !.tab[t].retry = FALSE],
           NEW v, v = x \/ v = connect(x, t)
    PROVE  Step(w, v, t)
PROOF
<1> DEFINE y == [w.tab[t] EXCEPT !.retry = FALSE]
<1>0. w \in Worlds /\ w.tab[t] \in TabState
  BY GoodParts
<1>1. x = Edit(w, t, y)
  BY <1>0, EditShape, ZenonT(60)
<1>2. Aloof(w.tab[t], y)
  BY <1>0, Zenon DEF Aloof, TabState
<1> HIDE DEF y
<1>3. Step(w, Edit(w, t, y), t) /\ Step(w, connect(Edit(w, t, y), t), t)
  BY <1>2, AloofStep, Zenon
<1> QED
  BY <1>1, <1>3, Zenon

LEMMA UnlockStep ==
    ASSUME NEW w, Good(w), NEW t \in Tab,
           NEW x, x = [w EXCEPT !.tab[t].unlocked = TRUE]
    PROVE  Step(w, connect(x, t), t)
PROOF
<1> DEFINE y == [w.tab[t] EXCEPT !.unlocked = TRUE]
<1>0. w \in Worlds /\ w.tab[t] \in TabState
  BY GoodParts
<1>1. x = Edit(w, t, y)
  BY <1>0, EditShape, ZenonT(60)
<1>2. Aloof(w.tab[t], y)
  BY <1>0, Zenon DEF Aloof, TabState
<1> HIDE DEF y
<1>3. Step(w, connect(Edit(w, t, y), t), t)
  BY <1>2, AloofStep, Zenon
<1> QED
  BY <1>1, <1>3, Zenon

LEMMA CloseStep ==
    ASSUME NEW w, Good(w), NEW t \in Tab,
           NEW v, v = IF w.locks.holder.t = t THEN HandOn(Leave(w, t)) ELSE Leave(w, t)
    PROVE  Step(w, v, t)
PROOF
<1>0. LockInv(w) /\ w \in Worlds
  BY GoodParts
<1>1. Left(w, v, t)
  BY <1>0, CloseKeeps, Zenon
<1>2. /\ LockInv(v) /\ v.tab = [w.tab EXCEPT ![t] = Gone] /\ ~Told(v.inbox[t])
      /\ OthersTold(w, v, t) /\ Ceded(w, v, t)
  BY <1>1, Zenon DEF Left, OthersTold, Ceded
<1>3. v.tab[t] = Gone
  <2>1. w.tab \in [Tab -> TabState]
    BY <1>0, WorldParts, Zenon
  <2> QED
    BY <1>2, <2>1, Zenon
<1>4. Own(Gone, t) /\ ~Runs(Gone) /\ ~Gone.held
  BY GoneFacts DEF Own, Upright, Runs
<1>5. Backed(v, t) /\ Effect(w, v, t)
  BY <1>2, <1>3, <1>4, Zenon DEF Backed, Effect
<1> QED
  BY <1>0, <1>2, <1>3, <1>4, <1>5, Assemble, Zenon

(* The tab no longer says it has the seat. *)
LEMMA Disowned ==
    ASSUME NEW x, NEW t, Own(x, t), NEW y, y \in TabState, y.hold = x.hold, ~y.held,
           y.mistook = x.mistook, y.queued = x.queued
    PROVE  y.queued \in RequestOf(t) \cup {None} /\ (x.mistook => y.mistook)
PROOF
  BY DEF Own, Upright

LEMMA LockStep ==
    ASSUME NEW w, Good(w), NEW t \in Tab,
           NEW x, x = [w EXCEPT !.tab[t].unlocked = FALSE, !.tab[t].held = FALSE]
    PROVE  Step(w, releaseHold(disconnect(x, t), t), t)
PROOF
<1> DEFINE y == [w.tab[t] EXCEPT !.unlocked = FALSE, !.held = FALSE]
           d == disconnect(x, t)
           v == releaseHold(d, t)
<1>0. LockInv(w) /\ w \in Worlds /\ w.tab[t] \in TabState /\ Own(w.tab[t], t)
  BY GoodParts
<1>1. x = Edit(w, t, y)
  BY <1>0, ShapeLock, Zenon
<1>2. /\ y \in TabState /\ y.hold = w.tab[t].hold /\ ~y.held
      /\ y.mistook = w.tab[t].mistook /\ y.queued = w.tab[t].queued
  BY <1>0, Zenon DEF TabState
<1> HIDE DEF y
<1>3. y.queued \in RequestOf(t) \cup {None} /\ (w.tab[t].mistook => y.mistook)
  BY <1>0, <1>2, Disowned
<1>4. Reviewed(w, Edit(w, t, y), t, y)
  BY <1>0, <1>2, <1>3, Review, Zenon
<1>5. Reviewed(w, x, t, y)
  BY <1>1, <1>4, Zenon
<1>6. /\ LockInv(x) /\ SameTold(w, x) /\ x.locks = w.locks
      /\ x.tab = [w.tab EXCEPT ![t] = y] /\ x.tab[t] = y
  BY <1>5, Zenon DEF Reviewed
<1>7. StoodDown(x, d, t)
  BY <1>3, <1>6, DisconnectKeeps, Zenon
<1> HIDE DEF d
<1>8. /\ LockInv(d) /\ SameTold(x, d) /\ d.locks = x.locks
      /\ d.tab = [x.tab EXCEPT ![t] = d.tab[t]]
      /\ d.tab[t].hold = y.hold /\ d.tab[t].held = y.held
      /\ Upright(d.tab[t], t) /\ ~Runs(d.tab[t])
  BY <1>6, <1>7, Zenon DEF StoodDown
<1>9. d.tab = [w.tab EXCEPT ![t] = d.tab[t]]
  BY <1>0, <1>6, <1>8, ExceptTwice
<1>10. SameTold(w, d) /\ Takes(w, d, t) /\ d.locks.holder = w.locks.holder
  BY <1>6, <1>8, Zenon DEF SameTold, Takes
<1>11. d.tab[t].hold = w.tab[t].hold /\ ~d.tab[t].held
  BY <1>2, <1>8
<1>12. Step(w, v, t)
  BY <1>8, <1>9, <1>10, <1>11, LetGoStep, Zenon
<1> QED
  BY <1>12 DEF d

LEMMA ReleaseStep ==
    ASSUME NEW w, Good(w), NEW t \in Tab,
           NEW x, x = [w EXCEPT !.tab[t].held = FALSE]
    PROVE  Step(w, releaseHold(stepDown(x, t), t), t)
PROOF
<1> DEFINE y == [w.tab[t] EXCEPT !.held = FALSE]
           d == stepDown(x, t)
           v == releaseHold(d, t)
<1>0. LockInv(w) /\ w \in Worlds /\ w.tab[t] \in TabState /\ Own(w.tab[t], t)
  BY GoodParts
<1>1. x = Edit(w, t, y)
  BY <1>0, EditShape, ZenonT(60)
<1>2. /\ y \in TabState /\ y.hold = w.tab[t].hold /\ ~y.held
      /\ y.mistook = w.tab[t].mistook /\ y.queued = w.tab[t].queued
  BY <1>0, Zenon DEF TabState
<1> HIDE DEF y
<1>3. y.queued \in RequestOf(t) \cup {None} /\ (w.tab[t].mistook => y.mistook)
  BY <1>0, <1>2, Disowned
<1>4. Reviewed(w, Edit(w, t, y), t, y)
  BY <1>0, <1>2, <1>3, Review, Zenon
<1>5. Reviewed(w, x, t, y)
  BY <1>1, <1>4, Zenon
<1>6. /\ LockInv(x) /\ SameTold(w, x) /\ x.locks = w.locks
      /\ x.tab = [w.tab EXCEPT ![t] = y] /\ x.tab[t] = y
  BY <1>5, Zenon DEF Reviewed
<1>7. StepsDown(x, d, t)
  BY <1>2, <1>3, <1>6, StepDownKeeps, Zenon
<1> HIDE DEF d
<1>8. /\ LockInv(d) /\ SameTold(x, d) /\ Takes(x, d, t)
      /\ d.tab = [x.tab EXCEPT ![t] = d.tab[t]]
      /\ d.tab[t].hold = y.hold /\ d.tab[t].held = y.held
      /\ Upright(d.tab[t], t) /\ ~Runs(d.tab[t])
      /\ d.locks.holder # x.locks.holder => d.locks.holder # y.hold
  BY <1>6, <1>7, Zenon DEF StepsDown
<1>9. d.tab = [w.tab EXCEPT ![t] = d.tab[t]]
  BY <1>0, <1>6, <1>8, ExceptTwice
<1>10. SameTold(w, d) /\ Takes(w, d, t)
  BY <1>6, <1>8, Zenon DEF SameTold, Takes
<1>11. /\ d.tab[t].hold = w.tab[t].hold /\ ~d.tab[t].held
       /\ d.locks.holder # w.locks.holder => d.locks.holder # w.tab[t].hold
  BY <1>2, <1>6, <1>8
<1>12. Step(w, v, t)
  BY <1>8, <1>9, <1>10, <1>11, LetGoStep, Zenon
<1> QED
  BY <1>12 DEF d

SeatKnown(g, z) ==
    /\ z \in TabState
    /\ z.hold = g.hold /\ (g.held => z.held) /\ z.mistook = g.mistook /\ z.queued = g.queued
    /\ z.stopping = g.stopping /\ (z.connect = "starting" => z.current)

LEMMA SeatIsKnown ==
    ASSUME NEW g \in TabState,
           NEW z, z = [g EXCEPT !.connect = IF g.reading THEN "config" ELSE "starting",
                                !.current = ~g.reading]
    PROVE  SeatKnown(g, z)
PROOF
  BY ZenonT(60) DEF SeatKnown, TabState

(* The lock callback runs. *)
GrantChoices(x, b, g, z, r, t) ==
    /\ b \in TabState /\ b.connect = x.connect
    /\ Own(g, t) /\ g.hold = r /\ g.mistook = x.mistook
    /\ Own(z, t) /\ z.hold = r /\ z.mistook = x.mistook
    /\ g \in TabState /\ z \in TabState
    /\ Calm(x, g) /\ (b.connect = "seat" => Calm(x, z))

LEMMA GrantTurns ==
    ASSUME NEW x \in TabState, NEW t \in Tab, Own(x, t), NEW r \in RequestOf(t), r # None,
           NEW b, b = x \/ b = [x EXCEPT !.drop = TRUE, !.queued = None],
           NEW g, g = [b EXCEPT !.held = TRUE, !.acquiring = FALSE, !.waiting = FALSE, !.hold = r],
           NEW z, z = [g EXCEPT !.connect = IF g.reading THEN "config" ELSE "starting",
                                !.current = ~g.reading]
    PROVE  GrantChoices(x, b, g, z, r, t)
PROOF
<1>0. r \in Request /\ x.queued \in RequestOf(t) \cup {None} /\ None \in RequestOf(t) \cup {None}
  BY RequestFacts DEF Own, Upright
<1>1. b \in TabState /\ b.connect = x.connect /\ b.mistook = x.mistook
      /\ b.queued \in RequestOf(t) \cup {None} /\ b.current = x.current /\ b.stopping = x.stopping
  <2>1. CASE b = x
    BY <1>0, <2>1
  <2>2. CASE b = [x EXCEPT !.drop = TRUE, !.queued = None]
    BY <1>0, <2>2, Zenon DEF TabState
  <2> QED
    BY <2>1, <2>2
<1>2. g \in TabState /\ g.hold = r /\ g.held /\ g.mistook = b.mistook /\ g.queued = b.queued
      /\ g.connect = b.connect /\ g.current = b.current /\ g.stopping = b.stopping
  BY <1>0, <1>1, ZenonT(60) DEF TabState
<1>3. z \in TabState /\ z.hold = r /\ z.held /\ z.mistook = g.mistook /\ z.queued = g.queued
      /\ z.stopping = g.stopping /\ (z.connect = "starting" => z.current)
  <2>1. SeatKnown(g, z)
    BY <1>2, SeatIsKnown, Zenon
  <2> QED
    BY <1>2, <2>1, Zenon DEF SeatKnown
<1>4. Own(g, t) /\ Own(z, t)
  BY <1>1, <1>2, <1>3 DEF Own, Upright
<1>5. Calm(x, g) /\ (b.connect = "seat" => Calm(x, z))
  BY <1>1, <1>2, <1>3 DEF Calm, Steady, Stops
<1> QED
  BY <1>1, <1>2, <1>3, <1>4, <1>5, Zenon DEF GrantChoices

(* A grant run, and perhaps a request taken back with it. *)
LEMMA GrantStep ==
    ASSUME NEW w, Good(w), NEW t \in Tab, w.inbox[t] # << >>, Head(w.inbox[t]).e = "granted",
           NEW y, Own(y, t), y.hold = Head(w.inbox[t]).r, y.mistook = w.tab[t].mistook,
           Calm(w.tab[t], y),
           NEW v, v = Edit(Run(w, t), t, y)
                  \/ \E q \in Request : v = AbortQueued(Edit(Run(w, t), t, y), q)
    PROVE  Step(w, v, t)
PROOF
<1> DEFINE x == Edit(Run(w, t), t, y)
<1>0. LockInv(w) /\ w \in Worlds /\ y \in TabState
  BY GoodParts, Zenon DEF Own, Upright
<1>1. RanGrant(w, x, t, y)
  BY <1>0, RunGrantKeeps, Zenon
<1> HIDE DEF x
<1>2. /\ LockInv(x) /\ SameTold(w, x) /\ x.locks.holder = w.locks.holder
      /\ x.tab = [w.tab EXCEPT ![t] = y]
      /\ ~w.tab[t].mistook => w.locks.holder.t = t \/ Told(x.inbox[t])
  BY <1>1, Zenon DEF RanGrant
<1>3. LockInv(v) /\ SameTold(x, v) /\ v.tab = x.tab /\ v.locks.holder = x.locks.holder
  <2>1. CASE v = x
    BY <1>2, <2>1, Zenon DEF SameTold
  <2>2. CASE v # x
    <3>1. PICK q \in Request : v = AbortQueued(x, q)
      BY <2>2 DEF x
    <3>2. q # None /\ q \in Request \cup {None}
      BY RequestFacts, Zenon
    <3>3. LockInv(v) /\ SameTold(x, v) /\ v.tab = x.tab /\ v.locks.holder = x.locks.holder
      BY <1>2, <3>1, <3>2, AbortKeeps, ZenonT(60)
    <3> QED
      BY <3>3, Zenon
  <2> QED
    BY <2>1, <2>2
<1>4. v.tab[t] = y /\ v.tab = [w.tab EXCEPT ![t] = y]
  <2>1. w.tab \in [Tab -> TabState]
    BY <1>0, WorldParts, Zenon
  <2> QED
    BY <1>2, <1>3, <2>1
<1>5. SameTold(w, v)
  BY <1>2, <1>3, Zenon DEF SameTold
<1>6. ~w.tab[t].mistook => v.locks.holder.t = t \/ Told(v.inbox[t])
  BY <1>2, <1>3, Zenon DEF SameTold
<1>7. Backed(v, t)
  BY <1>4, <1>6 DEF Backed
<1>8. Effect(w, v, t)
  BY <1>2, <1>3, <1>4, <1>5, Zenon DEF Effect
<1> QED
  BY <1>3, <1>4, <1>7, <1>8, Assemble, Zenon

LEMMA AbortFacts ==
    ASSUME NEW w \in Worlds, NEW r \in Request
    PROVE  AbortQueued(w, r) \in Worlds /\ AbortQueued(w, r).tab = w.tab
PROOF
<1> DEFINE q == Withdrawn(w.locks.queue, r)
           x == [w EXCEPT !.locks.queue = q]
<1>0. AbortQueued(w, r) = IF r \in Range(w.locks.queue) THEN Tell(x, r, "dropped") ELSE w
  BY Zenon DEF AbortQueued
<1>1. q \in Queues
  <2>0. w.locks.queue \in Queues
    BY WorldParts, Zenon
  <2>1. q = [i \in 1..Len(w.locks.queue) |-> IF w.locks.queue[i] = r THEN None ELSE w.locks.queue[i]]
    BY <2>0 DEF Withdrawn, Queues
  <2> QED
    BY <2>0, <2>1 DEF Queues
<1> HIDE DEF q
<1>2. x = [locks |-> [holder |-> w.locks.holder, queue |-> q], inbox |-> w.inbox, tab |-> w.tab]
  BY QueueEdit, Zenon
<1> HIDE DEF x
<1>3. Relocked(w, x, w.locks.holder, q)
  BY <1>1, <1>2, RelockFacts, WorldParts, Zenon
<1>4. x \in Worlds /\ x.tab = w.tab /\ "dropped" \in Events
  BY <1>3 DEF Relocked, Events
<1>5. Hears(x, Tell(x, r, "dropped"), r.t, [e |-> "dropped", r |-> r])
  BY <1>4, TellFacts, Zenon
<1>6. Tell(x, r, "dropped") \in Worlds /\ Tell(x, r, "dropped").tab = w.tab
  BY <1>4, <1>5, Zenon DEF Hears
<1> QED
  BY <1>0, <1>6, Zenon

LEMMA EditTwice ==
    ASSUME NEW w \in Worlds, NEW t \in Tab, NEW y \in TabState, NEW z
    PROVE  Edit(Edit(w, t, y), t, z) = Edit(w, t, z)
PROOF
<1> DEFINE x == Edit(w, t, y)
<1>1. Edited(w, x, t, y)
  BY EditFacts, Zenon
<1> HIDE DEF x
<1>2. x.locks = w.locks /\ x.inbox = w.inbox /\ x.tab = [w.tab EXCEPT ![t] = y]
  BY <1>1, Zenon DEF Edited
<1>3. [[w.tab EXCEPT ![t] = y] EXCEPT ![t] = z] = [w.tab EXCEPT ![t] = z]
  BY ExceptTwice
<1>4. Edit(x, t, z) = Edit(w, t, z)
  BY <1>2, <1>3, Zenon DEF Edit
<1> QED
  BY <1>4 DEF x

(* What it then leaves connect() with. *)
SeatedTab(g) == [g EXCEPT !.connect = IF g.reading THEN "config" ELSE "starting",
                          !.current = ~g.reading]

AfterGrant(b, r) == IF b.connect = "seat" THEN SeatedTab(Holding(b, r)) ELSE Holding(b, r)

LEMMA GrantShape ==
    ASSUME NEW s \in Worlds, NEW t \in Tab, NEW r \in RequestOf(t)
    PROVE  grant(s, r) = Edit(s, t, AfterGrant(s.tab[t], r))
PROOF
<1>0. r.t = t /\ r \in Request
  BY RequestFacts
<1> DEFINE u == r.t
           b == s.tab[u]
           g == Grasp(s, u, r)
<1>1. grant(s, r) = IF b.connect = "seat" THEN HaveSeat(g, u) ELSE g
  BY Zenon DEF grant, Grasp
<1>u. u \in Tab
  BY <1>0
<1>t. u = t
  BY <1>0
<1> HIDE DEF u
<1>2. g = Edit(s, u, Holding(b, r))
  BY <1>u, ShapeGrant, Zenon
<1>3. b \in TabState
  BY <1>u, WorldParts, Zenon
<1>4. Holding(b, r) \in TabState
  <2> HIDE DEF b
  <2> QED
    BY <1>0, <1>3, Zenon DEF Holding, TabState
<1> HIDE DEF g, b
<1>5. Edited(s, g, u, Holding(b, r))
  BY <1>u, <1>2, <1>4, EditFacts, Zenon
<1>6. g \in Worlds /\ g.tab[u] = Holding(b, r)
  BY <1>5, Zenon DEF Edited
<1>7. HaveSeat(g, u) = Edit(g, u, SeatedTab(g.tab[u]))
  BY <1>u, <1>6, ShapeSeat, Zenon DEF SeatedTab
<1>8. HaveSeat(g, u) = Edit(s, u, SeatedTab(Holding(b, r)))
  <2>1. Edit(g, u, SeatedTab(Holding(b, r))) = Edit(s, u, SeatedTab(Holding(b, r)))
    <3> DEFINE h == Holding(b, r)
    <3>1. Edit(Edit(s, u, h), u, SeatedTab(h)) = Edit(s, u, SeatedTab(h))
      <4>1. h \in TabState
        BY <1>4
      <4> HIDE DEF h
      <4> QED
        BY <1>u, <4>1, EditTwice, Zenon
    <3> QED
      BY <1>2, <3>1, Zenon
  <2> QED
    BY <1>6, <1>7, <2>1, Zenon
<1>9. grant(s, r) = Edit(s, u, AfterGrant(b, r))
  BY <1>1, <1>2, <1>8, Zenon DEF AfterGrant
<1> QED
  BY <1>t, <1>9 DEF b

LEMMA GrantedStep ==
    ASSUME NEW w, Good(w), NEW t \in Tab, w.inbox[t] # << >>, Head(w.inbox[t]).e = "granted",
           NEW r, r = Head(w.inbox[t]).r, NEW x, x = [w EXCEPT !.inbox[t] = Tail(@)],
           NEW s, \/ s = x
                  \/ /\ w.tab[t].queued # None
                     /\ s = AbortQueued([x EXCEPT !.tab[t].drop = TRUE, !.tab[t].queued = None],
                                         w.tab[t].queued)
    PROVE  Step(w, grant(s, r), t)
PROOF
<1> DEFINE y == w.tab[t]
           c == [y EXCEPT !.drop = TRUE, !.queued = None]
           q == y.queued
<1>0. LockInv(w) /\ w \in Worlds /\ y \in TabState /\ Own(y, t) /\ q \in RequestOf(t) \cup {None}
  BY GoodParts
<1>1. r \in RequestOf(t) /\ r # None
  <2>1. w.inbox[t] \in Seq(MsgOf(t))
    BY <1>0, Zenon DEF LockInv, Stands, Placed
  <2>2. Head(w.inbox[t]) \in MsgOf(t)
    BY <2>1
  <2>3. r \in RequestOf(t)
    BY <2>2 DEF MsgOf
  <2> QED
    BY <2>3, RequestFacts
<1>2. x = Run(w, t)
  BY <1>0, RunShape, Zenon
<1>3. Ran(w, x, t)
  BY <1>0, <1>2, RunFacts, Zenon
<1>4. x \in Worlds /\ x.tab = w.tab
  BY <1>3, Zenon DEF Ran
<1>5. ASSUME NEW b, b = y \/ b = c
      PROVE  /\ Own(AfterGrant(b, r), t) /\ AfterGrant(b, r).hold = r
             /\ AfterGrant(b, r).mistook = w.tab[t].mistook /\ b \in TabState
             /\ AfterGrant(b, r) \in TabState /\ Calm(w.tab[t], AfterGrant(b, r))
  <2> DEFINE g == Holding(b, r)
             z == SeatedTab(g)
  <2>1. /\ g = [b EXCEPT !.held = TRUE, !.acquiring = FALSE, !.waiting = FALSE, !.hold = r]
        /\ z = [g EXCEPT !.connect = IF g.reading THEN "config" ELSE "starting", !.current = ~g.reading]
    BY Zenon DEF Holding, SeatedTab
  <2>2. (b.connect = "seat" /\ AfterGrant(b, r) = z) \/ AfterGrant(b, r) = g
    BY Zenon DEF AfterGrant
  <2>3. b = y \/ b = [y EXCEPT !.drop = TRUE, !.queued = None]
    BY <1>5, Zenon
  <2> HIDE DEF g, z, y
  <2>4. /\ b \in TabState /\ b.connect = y.connect
        /\ Own(g, t) /\ g.hold = r /\ g.mistook = y.mistook
        /\ Own(z, t) /\ z.hold = r /\ z.mistook = y.mistook
        /\ g \in TabState /\ z \in TabState
        /\ Calm(y, g) /\ (b.connect = "seat" => Calm(y, z))
    <3>1. GrantChoices(y, b, g, z, r, t)
      BY <1>0, <1>1, <2>1, <2>3, GrantTurns, Zenon
    <3> QED
      BY <3>1, Zenon DEF GrantChoices
  <2> QED
    BY <2>2, <2>4, Zenon DEF y
<1>6. CASE s = x
  <2>0. grant(x, r) = Edit(x, t, AfterGrant(x.tab[t], r))
    BY <1>1, <1>4, GrantShape, Zenon
  <2>1. grant(s, r) = Edit(x, t, AfterGrant(y, r))
    BY <1>4, <1>6, <2>0, Zenon
  <2> QED
    BY <1>2, <1>5, <2>1, GrantStep, Zenon
<1>7. CASE s # x
  <2>0. q # None /\ q \in Request
    BY <1>0, <1>7, RequestFacts
  <2>1. [x EXCEPT !.tab[t].drop = TRUE, !.tab[t].queued = None] = Edit(x, t, c)
    BY <1>4, ShapeDrop, ZenonT(60)
  <2>2. s = AbortQueued(Edit(x, t, c), q)
    BY <1>7, <2>1, Zenon
  <2> HIDE DEF c, q
  <2>3. c \in TabState /\ AfterGrant(c, r) \in TabState
    BY <1>5, Zenon
  <2>4. Edited(x, Edit(x, t, c), t, c)
    BY <1>4, <2>3, EditFacts, Zenon
  <2>5. Edit(x, t, c) \in Worlds /\ Edit(x, t, c).tab[t] = c
    BY <2>4, Zenon DEF Edited
  <2>6. s \in Worlds /\ s.tab[t] = c
    BY <2>0, <2>2, <2>5, AbortFacts
  <2>7. grant(s, r) = Edit(s, t, AfterGrant(c, r))
    BY <1>1, <2>6, GrantShape, Zenon
  <2>8. grant(s, r) = AbortQueued(Edit(x, t, AfterGrant(c, r)), q)
    <3>1. Edit(AbortQueued(Edit(x, t, c), q), t, AfterGrant(c, r))
            = AbortQueued(Edit(x, t, AfterGrant(c, r)), q)
      BY <1>4, <2>0, <2>3, AbortCommutes
    <3> QED
      BY <2>2, <2>7, <3>1, Zenon
  <2>9. \E p \in Request : grant(s, r) = AbortQueued(Edit(Run(w, t), t, AfterGrant(c, r)), p)
    BY <1>2, <2>0, <2>8, Zenon
  <2> QED
    BY <1>5, <2>9, GrantStep, Zenon
<1> QED
  BY <1>6, <1>7

Waited(w, v, t) == LockInv(v) /\ SameTold(w, v) /\ Takes(w, v, t) /\ Recalls(w, v, t)

LEMMA WaitFacts ==
    ASSUME NEW w, LockInv(w), NEW t \in Tab
    PROVE  Waited(w, RequestWait(w, t), t)
PROOF
<1> SUFFICES ASSUME NEW v, v = RequestWait(w, t)
             PROVE  Waited(w, v, t)
  BY Zenon
<1> QED
  BY WaitKeeps DEF Waited

Stole(w, v, t) == LockInv(v) /\ v.tab = w.tab /\ Forced(w, v, t)

LEMMA StealFacts ==
    ASSUME NEW w, LockInv(w), NEW t \in Tab
    PROVE  Stole(w, RequestSteal(w, t), t)
PROOF
<1> SUFFICES ASSUME NEW v, v = RequestSteal(w, t)
             PROVE  Stole(w, v, t)
  BY Zenon
<1> QED
  BY StealKeeps DEF Stole

(* "ifAvailable" was answered with null: the tab queues. *)
LEMMA WaitStep ==
    ASSUME NEW w, Good(w), NEW t \in Tab, w.inbox[t] # << >>, Head(w.inbox[t]).e = "null",
           NEW x, x = [w EXCEPT !.inbox[t] = Tail(@), !.tab[t].waiting = TRUE],
           NEW v, v = RequestWait(x, t)
    PROVE  Step(w, v, t)
PROOF
<1> DEFINE d == Run(w, t)
           y == [w.tab[t] EXCEPT !.waiting = TRUE]
<1>0. LockInv(w) /\ w \in Worlds /\ w.tab[t] \in TabState /\ Own(w.tab[t], t) /\ Backed(w, t)
  BY GoodParts
<1>1. x = Edit(d, t, y)
  <2>1. /\ x.locks = w.locks /\ x.inbox = [w.inbox EXCEPT ![t] = Tail(w.inbox[t])]
        /\ x.tab = [w.tab EXCEPT ![t] = y]
    BY <1>0, Zenon DEF Worlds
  <2>2. x = [locks |-> x.locks, inbox |-> x.inbox, tab |-> x.tab]
    BY <1>0, Zenon DEF Worlds
  <2>3. d.locks = w.locks /\ d.inbox = [w.inbox EXCEPT ![t] = Tail(w.inbox[t])] /\ d.tab = w.tab
    BY DEF Run
  <2> HIDE DEF d, y
  <2> QED
    BY <2>1, <2>2, <2>3, Zenon DEF Edit
<1>2. Aloof(w.tab[t], y)
  BY <1>0, Zenon DEF Aloof, TabState
<1> HIDE DEF y
<1>3. RanOther(w, d, t)
  BY <1>0, RunOtherKeeps
<1> HIDE DEF d
<1>4. LockInv(d) /\ d.locks = w.locks /\ d.tab = w.tab /\ SameTold(w, d)
  BY <1>3 DEF RanOther
<1>5. /\ Own(y, t) /\ y.hold = w.tab[t].hold /\ y.mistook = w.tab[t].mistook /\ y.held = w.tab[t].held
      /\ (Runs(y) <=> Runs(w.tab[t])) /\ (w.tab[t].mistook => y.mistook)
      /\ (Stops(y) <=> Stops(w.tab[t]))
  BY <1>0, <1>2, AloofKeeps
<1>6. Reviewed(d, Edit(d, t, y), t, y)
  <2>1. y \in TabState /\ y.hold = d.tab[t].hold /\ (d.tab[t].mistook => y.mistook)
    BY <1>2, <1>4, <1>5 DEF Aloof
  <2> QED
    BY <1>4, <2>1, Review, Zenon
<1>7. Reviewed(d, x, t, y)
  BY <1>1, <1>6, Zenon
<1>8. /\ LockInv(x) /\ SameTold(d, x) /\ x.locks = d.locks
      /\ x.tab = [d.tab EXCEPT ![t] = y] /\ x.tab[t] = y
  BY <1>7, Zenon DEF Reviewed
<1>9. LockInv(v) /\ SameTold(x, v) /\ Takes(x, v, t) /\ Recalls(x, v, t)
  <2>1. Waited(x, RequestWait(x, t), t)
    BY <1>8, WaitFacts, Zenon
  <2>2. Waited(x, v, t)
    BY <2>1, Zenon
  <2> QED
    BY <2>2, Zenon DEF Waited
<1>10. PICK r \in RequestOf(t) : v.tab = [x.tab EXCEPT ![t] = [x.tab[t] EXCEPT !.queued = r]]
  BY <1>9, Zenon DEF Recalls
<1> DEFINE z == [y EXCEPT !.queued = r]
<1>11. v.tab[t] = z /\ v.tab = [w.tab EXCEPT ![t] = z]
  <2>1. w.tab \in [Tab -> TabState]
    BY <1>0, WorldParts, Zenon
  <2>2. v.tab = [[w.tab EXCEPT ![t] = y] EXCEPT ![t] = z]
    BY <1>4, <1>8, <1>10, Zenon
  <2> HIDE DEF z
  <2> QED
    BY <2>1, <2>2
<1>12. /\ z \in TabState /\ z.hold = y.hold /\ z.held = y.held /\ z.mistook = y.mistook
       /\ z.queued = r /\ z.astray = y.astray /\ z.node = y.node /\ z.connect = y.connect
       /\ z.current = y.current /\ z.stopping = y.stopping
  <2>1. y \in TabState /\ r \in Request
    BY <1>2, RequestFacts DEF Aloof
  <2> QED
    BY <2>1 DEF TabState
<1> HIDE DEF z
<1>13. Own(z, t) /\ (Runs(z) <=> Runs(y)) /\ (Stops(z) <=> Stops(y))
  BY <1>5, <1>12 DEF Own, Upright, Runs, Stops
<1>14. SameTold(w, v) /\ Takes(w, v, t)
  BY <1>4, <1>8, <1>9, Zenon DEF SameTold, Takes
<1>15. Effect(w, v, t)
  BY <1>5, <1>11, <1>13, <1>14, Zenon DEF Effect, Steady
<1>16. Backed(v, t)
  <2>1. w.tab[t].held /\ ~w.tab[t].mistook => w.locks.holder.t = t \/ Told(w.inbox[t])
    BY <1>0 DEF Backed
  <2>2. w.locks.holder.t = t \/ Told(w.inbox[t]) => v.locks.holder.t = t \/ Told(v.inbox[t])
    BY <1>14, Zenon DEF SameTold, Takes
  <2>3. v.tab[t].held = w.tab[t].held /\ v.tab[t].mistook = w.tab[t].mistook
    BY <1>5, <1>11, <1>12
  <2> QED
    BY <2>1, <2>2, <2>3 DEF Backed
<1> QED
  BY <1>9, <1>11, <1>13, <1>15, <1>16, Assemble, Zenon

(* The grace period is over. *)
LEMMA TimerStep ==
    ASSUME NEW w, Good(w), NEW t \in Tab, w.tab[t].timers > 0,
           NEW x, x = [w EXCEPT !.tab[t].timers = @ - 1],
           NEW v, v = IF w.tab[t].held THEN x ELSE RequestSteal(x, t)
    PROVE  Step(w, v, t)
PROOF
<1> DEFINE n == w.tab[t].timers - 1
           y == [w.tab[t] EXCEPT !.timers = n]
<1>0. LockInv(w) /\ w \in Worlds /\ w.tab[t] \in TabState /\ Own(w.tab[t], t)
  BY GoodParts
<1>1. x = Edit(w, t, y)
  <2>1. x = [w EXCEPT !.tab[t].timers = n]
    OBVIOUS
  <2> HIDE DEF n
  <2>2. x = [w EXCEPT !.tab[t] = y]
    BY <2>1, Zenon
  <2> HIDE DEF y
  <2> QED
    BY <1>0, <2>2, EditShape, Zenon
<1>2. Aloof(w.tab[t], y)
  BY <1>0 DEF Aloof, TabState
<1> HIDE DEF y
<1>3. CASE w.tab[t].held
  <2>1. v = Edit(w, t, y)
    BY <1>1, <1>3, Zenon
  <2> QED
    BY <1>2, <2>1, AloofStep, Zenon
<1>4. CASE ~w.tab[t].held
  <2>0. v = RequestSteal(x, t)
    BY <1>4, Zenon
  <2>1. /\ Own(y, t) /\ y.hold = w.tab[t].hold /\ y.held = w.tab[t].held
        /\ (Runs(y) <=> Runs(w.tab[t])) /\ (w.tab[t].mistook => y.mistook)
        /\ (Stops(y) <=> Stops(w.tab[t]))
    BY <1>0, <1>2, AloofKeeps
  <2>2. Reviewed(w, Edit(w, t, y), t, y)
    <3>1. y \in TabState
      BY <1>2 DEF Aloof
    <3> QED
      BY <1>0, <2>1, <3>1, Review, Zenon
  <2>3. Reviewed(w, x, t, y)
    BY <1>1, <2>2, Zenon
  <2>4. /\ LockInv(x) /\ SameTold(w, x) /\ x.locks = w.locks /\ x.inbox = w.inbox
        /\ x.tab = [w.tab EXCEPT ![t] = y] /\ x.tab[t] = y
    BY <2>3, Zenon DEF Reviewed
  <2>5. LockInv(v) /\ v.tab = x.tab /\ Forced(x, v, t)
    <3>1. Stole(x, RequestSteal(x, t), t)
      BY <2>4, StealFacts, Zenon
    <3>2. Stole(x, v, t)
      BY <2>0, <3>1, Zenon
    <3> QED
      BY <3>2, Zenon DEF Stole
  <2>6. Forced(w, v, t)
    BY <2>4, <2>5, Zenon DEF Forced, SameTold
  <2>7. v.tab[t] = y /\ v.tab = [w.tab EXCEPT ![t] = y]
    BY <2>4, <2>5, Zenon
  <2>8. Backed(v, t)
    BY <1>4, <2>1, <2>7, Zenon DEF Backed
  <2>9. Effect(w, v, t)
    BY <2>1, <2>6, <2>7, Zenon DEF Effect
  <2> QED
    BY <2>1, <2>5, <2>7, <2>8, <2>9, Assemble, Zenon
<1> QED
  BY <1>3, <1>4

(* A request was rejected.  The tab forgets its hold only if the seat is   *)
(* not its own any more, or if it is mistaken.                             *)
LEMMA ForgetKeeps ==
    ASSUME NEW w, LockInv(w), NEW t \in Tab, NEW y \in TabState, y.hold = None,
           w.tab[t].mistook => y.mistook,
           ~y.mistook /\ w.locks.holder.t = t => w.tab[t].hold # w.locks.holder
    PROVE  Reviewed(w, Edit(w, t, y), t, y)
PROOF
<1> DEFINE v == Edit(w, t, y)
<1>1. w \in Worlds
  BY DEF LockInv
<1>2. Edited(w, v, t, y)
  BY <1>1, EditFacts, Zenon
<1> HIDE DEF v
<1>3. /\ v \in Worlds /\ v.locks = w.locks /\ v.inbox = w.inbox
      /\ v.tab[t] = y /\ \A u \in Tab \ {t} : v.tab[u] = w.tab[u]
  BY <1>2, Zenon DEF Edited
<1>4. t # None.t
  BY SomeTabs DEF None
<1>5. ASSUME NEW u \in Tab PROVE Stands(v, u)
  <2>1. Stands(w, u)
    BY Zenon DEF LockInv
  <2>2. CASE u # t
    BY <1>3, <2>1, <2>2, Zenon DEF Stands
  <2>3. CASE u = t
    <3>0. Placed(w.locks.holder, w.locks.queue, w.tab[t].hold, w.tab[t].mistook, w.inbox[t], t)
      BY <2>1, <2>3, Zenon DEF Stands
    <3>1. Placed(w.locks.holder, w.locks.queue, w.tab[t].hold, y.mistook, w.inbox[t], t)
      BY <3>0, Zenon DEF Placed
    <3>2. ~y.mistook /\ w.locks.holder.t = t => w.tab[t].hold # w.locks.holder /\ w.locks.holder # None
      BY <1>4, Zenon
    <3>3. Placed(w.locks.holder, w.locks.queue, None, y.mistook, w.inbox[t], t)
      BY <3>1, <3>2, PlacedForgets, Zenon
    <3> QED
      BY <1>3, <2>3, <3>3, Zenon DEF Stands
  <2> QED
    BY <2>2, <2>3
<1>6. LockInv(v) /\ SameTold(w, v)
  BY <1>3, <1>5, Zenon DEF LockInv, SameTold
<1>7. Reviewed(w, v, t, y)
  BY <1>2, <1>6, Zenon DEF Edited, Reviewed
<1> QED
  BY <1>7 DEF v

LEMMA DropIsAloof ==
    ASSUME NEW y \in TabState, NEW z, z = [y EXCEPT !.drop = FALSE]
    PROVE  Aloof(y, z)
PROOF
  BY Zenon DEF Aloof, TabState

Lapsed(y, f) == f \in TabState /\ f.hold = None /\ ~f.held /\ f.mistook = y.mistook /\ f.queued = y.queued

LEMMA LossLapses ==
    ASSUME NEW y \in TabState, NEW f, f = [y EXCEPT !.held = FALSE, !.hold = None]
    PROVE  Lapsed(y, f)
PROOF
  BY Zenon DEF Lapsed, TabState

RejectChoices(x, b, y, z, f, t) ==
    /\ Own(y, t) /\ y.hold = x.hold /\ y.held = x.held /\ (y.mistook <=> b)
    /\ Own(z, t) /\ z.hold = x.hold /\ z.held = x.held /\ (z.mistook <=> b)
    /\ f \in TabState /\ f.hold = None /\ ~f.held /\ (f.mistook <=> b)
    /\ f.queued \in RequestOf(t) \cup {None}
    /\ ~x.held \/ b => ~Runs(y) /\ ~Runs(z)
    /\ Calm(x, y) /\ Calm(x, z)

LEMMA RejectTurns ==
    ASSUME NEW x, NEW t \in Tab, Own(x, t), NEW b \in BOOLEAN,
           NEW y, y = [x EXCEPT !.mistook = b],
           NEW z, z = [y EXCEPT !.drop = FALSE],
           NEW f, f = [y EXCEPT !.held = FALSE, !.hold = None]
    PROVE  RejectChoices(x, b, y, z, f, t)
PROOF
<1>0. /\ x \in TabState /\ x.queued \in RequestOf(t) \cup {None} /\ (x.hold # None => x.held)
      /\ ~x.astray /\ (x.node \/ x.connect = "config" \/ (x.connect = "starting" /\ x.current)) => x.held
  BY DEF Own, Upright
<1>1. /\ y \in TabState /\ y.hold = x.hold /\ y.held = x.held /\ y.mistook = b /\ y.queued = x.queued
      /\ y.astray = x.astray /\ y.node = x.node /\ y.connect = x.connect /\ y.current = x.current
      /\ y.stopping = x.stopping
  BY <1>0 DEF TabState
<1>2. /\ z \in TabState /\ z.hold = y.hold /\ z.held = y.held /\ z.mistook = y.mistook
      /\ z.queued = y.queued /\ z.astray = y.astray /\ z.node = y.node
      /\ z.connect = y.connect /\ z.current = y.current /\ z.stopping = y.stopping
  <2>1. Aloof(y, z)
    BY <1>1, DropIsAloof, Zenon
  <2> QED
    BY <2>1, Zenon DEF Aloof
<1>3. /\ f \in TabState /\ f.hold = None /\ ~f.held /\ f.mistook = y.mistook /\ f.queued = y.queued
  <2>1. Lapsed(y, f)
    BY <1>1, LossLapses, Zenon
  <2> QED
    BY <2>1, Zenon DEF Lapsed
<1>4. Own(y, t) /\ (~x.held \/ b => ~Runs(y))
  BY <1>0, <1>1 DEF Own, Upright, Runs
<1>5. Own(z, t) /\ (~x.held \/ b => ~Runs(z))
  BY <1>0, <1>1, <1>2 DEF Own, Upright, Runs
<1>6. Calm(x, y) /\ Calm(x, z)
  BY <1>1, <1>2 DEF Calm, Steady, Stops
<1> QED
  BY <1>0, <1>1, <1>2, <1>3, <1>4, <1>5, <1>6 DEF RejectChoices

(* The tab stays as it is: the request was not the one it holds the seat   *)
(* by, or it believes so.                                                  *)
LEMMA SwallowStep ==
    ASSUME NEW w, Good(w), NEW t \in Tab, w.inbox[t] # << >>, Head(w.inbox[t]).e # "granted",
           NEW y, Own(y, t), y.hold = w.tab[t].hold, y.held = w.tab[t].held,
           w.tab[t].mistook => y.mistook, Calm(w.tab[t], y),
           Head(w.inbox[t]).e # "stolen" \/ (~Runs(y) /\ (y.held => y.mistook))
    PROVE  Step(w, Edit(Run(w, t), t, y), t)
PROOF
<1> DEFINE d == Run(w, t)
           v == Edit(d, t, y)
<1>0. LockInv(w) /\ w \in Worlds /\ y \in TabState /\ Backed(w, t)
  BY GoodParts, Zenon DEF Own, Upright
<1>1. RanOther(w, d, t)
  BY <1>0, RunOtherKeeps, Zenon
<1> HIDE DEF d
<1>2. /\ LockInv(d) /\ d.locks = w.locks /\ d.tab = w.tab /\ (Told(d.inbox[t]) => Told(w.inbox[t]))
      /\ (Head(w.inbox[t]).e # "stolen" => SameTold(w, d))
      /\ \A u \in Tab \ {t} : Told(d.inbox[u]) <=> Told(w.inbox[u])
  BY <1>1, Zenon DEF RanOther
<1>3. Reviewed(d, v, t, y)
  <2>1. y.hold = d.tab[t].hold /\ (d.tab[t].mistook => y.mistook)
    BY <1>2, Zenon
  <2> QED
    BY <1>0, <1>2, <2>1, Review, Zenon
<1> HIDE DEF v
<1>4. /\ LockInv(v) /\ SameTold(d, v) /\ v.locks = d.locks
      /\ v.tab = [d.tab EXCEPT ![t] = y] /\ v.tab[t] = y
  BY <1>3, Zenon DEF Reviewed
<1>5. /\ v.locks.holder = w.locks.holder /\ v.tab = [w.tab EXCEPT ![t] = v.tab[t]]
      /\ Own(v.tab[t], t)
  BY <1>2, <1>4, Zenon
<1>6. (Told(v.inbox[t]) => Told(w.inbox[t])) /\ OthersTold(w, v, t) /\ Ceded(w, v, t)
  BY <1>2, <1>4, <1>5, Zenon DEF SameTold, OthersTold, Ceded
<1>7. Head(w.inbox[t]).e # "stolen" => SameTold(w, v)
  BY <1>2, <1>4, Zenon DEF SameTold
<1>8. Effect(w, v, t)
  <2>1. Head(w.inbox[t]).e # "stolen" \/ ~Runs(v.tab[t])
    BY <1>4, Zenon
  <2> QED
    BY <1>4, <1>5, <1>6, <1>7, <2>1, Zenon DEF Effect
<1>9. Backed(v, t)
  <2>1. CASE Head(w.inbox[t]).e # "stolen"
    <3>1. Told(w.inbox[t]) => Told(v.inbox[t])
      BY <1>7, <2>1, Zenon DEF SameTold
    <3> QED
      BY <1>0, <1>4, <1>5, <3>1, Zenon DEF Backed
  <2>2. CASE y.held => y.mistook
    BY <1>4, <2>2, Zenon DEF Backed
  <2> QED
    BY <2>1, <2>2
<1>10. Step(w, v, t)
  BY <1>4, <1>5, <1>8, <1>9, Assemble, Zenon
<1> QED
  BY <1>10, Zenon DEF v, d

(* The tab tears down and queues again. *)
LEMMA LostStep ==
    ASSUME NEW w, Good(w), NEW t \in Tab, w.inbox[t] # << >>, Head(w.inbox[t]).e # "granted",
           NEW f \in TabState, f.hold = None, ~f.held, f.queued \in RequestOf(t) \cup {None},
           w.tab[t].mistook => f.mistook,
           Head(w.inbox[t]).e # "stolen" => f.mistook
    PROVE  Step(w, stepDown(Edit(Run(w, t), t, f), t), t)
PROOF
<1> DEFINE d == Run(w, t)
           x == Edit(d, t, f)
           v == stepDown(x, t)
<1>0. LockInv(w) /\ w \in Worlds
  BY GoodParts
<1>1. RanOther(w, d, t)
  BY <1>0, RunOtherKeeps
<1> HIDE DEF d
<1>2. /\ LockInv(d) /\ d.locks = w.locks /\ d.tab = w.tab /\ (Told(d.inbox[t]) => Told(w.inbox[t]))
      /\ \A u \in Tab \ {t} : Told(d.inbox[u]) <=> Told(w.inbox[u])
      /\ (Head(w.inbox[t]).e = "stolen" => Bereft(w.locks.holder, w.tab[t].hold, w.tab[t].mistook, t))
  BY <1>1, Zenon DEF RanOther
<1>3. Reviewed(d, x, t, f)
  <2>1. ~f.mistook /\ d.locks.holder.t = t => d.tab[t].hold # d.locks.holder
    BY <1>2 DEF Bereft
  <2>2. d.tab[t].mistook => f.mistook
    BY <1>2
  <2> QED
    BY <1>2, <2>1, <2>2, ForgetKeeps, Zenon
<1> HIDE DEF x
<1>4. /\ LockInv(x) /\ SameTold(d, x) /\ x.locks = d.locks
      /\ x.tab = [d.tab EXCEPT ![t] = f] /\ x.tab[t] = f
  BY <1>3, Zenon DEF Reviewed
<1>5. StepsDown(x, v, t)
  BY <1>4, StepDownKeeps, Zenon
<1> HIDE DEF v
<1>6. /\ LockInv(v) /\ SameTold(x, v) /\ Takes(x, v, t)
      /\ v.tab = [x.tab EXCEPT ![t] = v.tab[t]]
      /\ v.tab[t].hold = f.hold /\ v.tab[t].held = f.held
      /\ Upright(v.tab[t], t) /\ ~Runs(v.tab[t])
  BY <1>4, <1>5, Zenon DEF StepsDown
<1>7. v.tab = [w.tab EXCEPT ![t] = v.tab[t]]
  <2>1. x.tab = [w.tab EXCEPT ![t] = f]
    BY <1>2, <1>4, Zenon
  <2>2. [[w.tab EXCEPT ![t] = f] EXCEPT ![t] = v.tab[t]] = [w.tab EXCEPT ![t] = v.tab[t]]
    BY <1>0, ExceptTwice, Zenon
  <2> QED
    BY <1>6, <2>1, <2>2, Zenon
<1>8. Own(v.tab[t], t) /\ Backed(v, t)
  BY <1>6, Zenon DEF Own, Backed
<1>9. (Told(v.inbox[t]) => Told(w.inbox[t])) /\ OthersTold(w, v, t) /\ Ceded(w, v, t)
  BY <1>2, <1>4, <1>6, ZenonT(60) DEF SameTold, OthersTold, Ceded, Takes
<1>10. Effect(w, v, t)
  BY <1>6, <1>9, Zenon DEF Effect
<1>11. Step(w, v, t)
  BY <1>6, <1>7, <1>8, <1>10, Assemble, Zenon
<1> QED
  BY <1>11, Zenon DEF v, x, d

Swallowed(w, t) == Head(w.inbox[t]).r.k # "steal" /\ w.tab[t].drop

Mistakes(w, t) ==
    w.tab[t].mistook \/ (w.tab[t].held /\ (Swallowed(w, t) <=> Head(w.inbox[t]).e = "stolen"))

Marked(w, t) == [Run(w, t) EXCEPT !.tab[t].mistook = Mistakes(w, t)]

Rejected(w, t) ==
    IF Swallowed(w, t) THEN [Marked(w, t) EXCEPT !.tab[t].drop = FALSE] ELSE lost(Marked(w, t), t)

LEMMA ShapeSwallow ==
    ASSUME NEW w \in Worlds, NEW t \in Tab
    PROVE  [w EXCEPT !.tab[t].drop = FALSE] = Edit(w, t, [w.tab[t] EXCEPT !.drop = FALSE])
PROOF
  BY EditShape, ZenonT(60)

LEMMA AbortedStep ==
    ASSUME NEW w, Good(w), NEW t \in Tab, w.inbox[t] # << >>,
           Head(w.inbox[t]).e \in {"stolen", "dropped"}
    PROVE  Step(w, Rejected(w, t), t)
PROOF
<1> DEFINE m == Marked(w, t)
           v == Rejected(w, t)
           b == Mistakes(w, t)
           d == Run(w, t)
           x == w.tab[t]
           y == [x EXCEPT !.mistook = b]
           z == [y EXCEPT !.drop = FALSE]
           f == [y EXCEPT !.held = FALSE, !.hold = None]
<1>m. m = [d EXCEPT !.tab[t].mistook = b]
  BY DEF Marked
<1>v. v = IF Swallowed(w, t) THEN [m EXCEPT !.tab[t].drop = FALSE] ELSE lost(m, t)
  BY DEF Rejected
<1>0. LockInv(w) /\ w \in Worlds /\ Own(x, t)
  BY GoodParts
<1>e. Head(w.inbox[t]).e # "granted" /\ (Head(w.inbox[t]).e # "stolen" <=> Head(w.inbox[t]).e = "dropped")
  OBVIOUS
<1>b. /\ b \in BOOLEAN /\ (x.mistook => b)
      /\ (Swallowed(w, t) /\ Head(w.inbox[t]).e = "stolen" /\ x.held => b)
      /\ (~Swallowed(w, t) /\ Head(w.inbox[t]).e # "stolen" /\ x.held => b)
  BY Zenon DEF Mistakes
<1> HIDE DEF b, m, v
<1>1. RejectChoices(x, b, y, z, f, t)
  <2> HIDE DEF x
  <2> QED
    BY <1>0, <1>b, RejectTurns, Zenon
<1>2. Ran(w, d, t)
  BY <1>0, RunFacts, Zenon
<1>3. d \in Worlds /\ d.tab = w.tab
  BY <1>2, Zenon DEF Ran
<1>4. m = Edit(d, t, y)
  <2> HIDE DEF d
  <2>1. m = [d EXCEPT !.tab[t] = [d.tab[t] EXCEPT !.mistook = b]]
    BY <1>m, Zenon
  <2> DEFINE k == [d.tab[t] EXCEPT !.mistook = b]
  <2>2. k = y
    BY <1>3, Zenon
  <2>3. m = [d EXCEPT !.tab[t] = k]
    BY <2>1
  <2> HIDE DEF k, y
  <2> QED
    BY <1>3, <2>2, <2>3, EditShape, Zenon
<1> HIDE DEF d
<1>5. y \in TabState
  BY <1>1, Zenon DEF RejectChoices, Own, Upright
<1>6. m \in Worlds /\ m.tab[t] = y
  <2> HIDE DEF y
  <2>1. Edited(d, m, t, y)
    BY <1>3, <1>4, <1>5, EditFacts, Zenon
  <2> QED
    BY <2>1, Zenon DEF Edited
<1>7. CASE Swallowed(w, t)
  <2>1. v = Edit(m, t, [m.tab[t] EXCEPT !.drop = FALSE])
    <3>1. [m EXCEPT !.tab[t].drop = FALSE] = Edit(m, t, [m.tab[t] EXCEPT !.drop = FALSE])
      BY <1>6, ShapeSwallow, Zenon
    <3> QED
      BY <1>7, <1>v, <3>1, Zenon
  <2>2. v = Edit(m, t, z)
    <3>1. [m.tab[t] EXCEPT !.drop = FALSE] = z
      BY <1>6, Zenon
    <3> QED
      BY <2>1, <3>1, Zenon
  <2> HIDE DEF z
  <2>3. v = Edit(d, t, z)
    <3> HIDE DEF y
    <3>1. Edit(Edit(d, t, y), t, z) = Edit(d, t, z)
      BY <1>3, <1>5, EditTwice, Zenon
    <3> QED
      BY <1>4, <2>2, <3>1, Zenon
  <2>4. /\ Own(z, t) /\ z.hold = x.hold /\ z.held = x.held /\ (x.mistook => z.mistook) /\ Calm(x, z)
        /\ Head(w.inbox[t]).e # "stolen" \/ (~Runs(z) /\ (z.held => z.mistook))
    <3> HIDE DEF x
    <3> QED
      BY <1>1, <1>b, <1>7, Zenon DEF RejectChoices
  <2>5. Step(w, Edit(Run(w, t), t, z), t)
    BY <1>e, <2>4, SwallowStep, Zenon
  <2> QED
    BY <2>3, <2>5, Zenon DEF d, v
<1>8. CASE ~Swallowed(w, t) /\ ~x.held
  <2> HIDE DEF y
  <2>1. y.held = x.held /\ y.hold = x.hold /\ Own(y, t) /\ (x.mistook => y.mistook) /\ ~Runs(y) /\ ~y.held
        /\ Calm(x, y)
    <3> HIDE DEF x
    <3> QED
      BY <1>1, <1>b, <1>8, Zenon DEF RejectChoices
  <2>2. v = m
    BY <1>6, <1>8, <1>v, <2>1, Zenon DEF lost
  <2>3. Step(w, Edit(Run(w, t), t, y), t)
    BY <1>e, <2>1, SwallowStep, Zenon
  <2> QED
    BY <1>4, <2>2, <2>3, Zenon DEF d, v
<1>9. CASE ~Swallowed(w, t) /\ x.held
  <2>1. v = stepDown([m EXCEPT !.tab[t].held = FALSE, !.tab[t].hold = None], t)
    <3>1. y.held
      <4> HIDE DEF x, y
      <4> QED
        BY <1>1, <1>9, Zenon DEF RejectChoices
    <3> HIDE DEF y
    <3> QED
      BY <1>6, <1>9, <1>v, <3>1, Zenon DEF lost
  <2>2. [m EXCEPT !.tab[t].held = FALSE, !.tab[t].hold = None] = Edit(d, t, f)
    <3>1. [m EXCEPT !.tab[t].held = FALSE, !.tab[t].hold = None]
             = Edit(m, t, [m.tab[t] EXCEPT !.held = FALSE, !.hold = None])
      BY <1>6, ShapeLost, Zenon
    <3>2. [m.tab[t] EXCEPT !.held = FALSE, !.hold = None] = f
      BY <1>6, Zenon
    <3> HIDE DEF f, y
    <3>3. Edit(Edit(d, t, y), t, f) = Edit(d, t, f)
      BY <1>3, <1>5, EditTwice, Zenon
    <3> QED
      BY <1>4, <3>1, <3>2, <3>3, Zenon
  <2> HIDE DEF f
  <2>3. /\ f \in TabState /\ f.hold = None /\ ~f.held /\ f.queued \in RequestOf(t) \cup {None}
        /\ (x.mistook => f.mistook) /\ (Head(w.inbox[t]).e # "stolen" => f.mistook)
    <3> HIDE DEF x
    <3> QED
      BY <1>1, <1>b, <1>9, Zenon DEF RejectChoices
  <2>4. Step(w, stepDown(Edit(Run(w, t), t, f), t), t)
    BY <1>e, <2>3, LostStep, Zenon
  <2> QED
    BY <2>1, <2>2, <2>4, Zenon DEF d, v
<1> QED
  BY <1>7, <1>8, <1>9 DEF v

=============================================================================
