--------------------------- MODULE NodeLockProofs ---------------------------
(***************************************************************************)
(* For every set of tabs and any number of claims and faults: the Lock     *)
(* Manager's holder knows that it is, and the tabs keep to NodeSeat.       *)
(***************************************************************************)
EXTENDS NodeLockWorlds, FiniteSetTheorems

-----------------------------------------------------------------------------
(* The actions.                                                            *)

LEMMA WorldIs ==
    /\ World.locks = locks /\ World.inbox = inbox /\ World.tab = tab
    /\ World'.locks = locks' /\ World'.inbox = inbox' /\ World'.tab = tab'
    /\ World' = [locks |-> World'.locks, inbox |-> World'.inbox, tab |-> World'.tab]
PROOF
  BY DEF World

LEMMA Becoming ==
    ASSUME NEW w, NEW t \in Tab, NEW v, Step(w, v, t), Becomes(v)
    PROVE  Step(w, World', t)
PROOF
<1>1. v \in Worlds
  BY DEF Step, Good, LockInv
<1>2. v = [locks |-> v.locks, inbox |-> v.inbox, tab |-> v.tab]
  BY <1>1, WorldParts, Zenon
<1>3. World' = v
  BY <1>2 DEF World, Becomes
<1> QED
  BY <1>3, Zenon

LEMMA OpenActs ==
    ASSUME NEW t \in Tab, Good(World), Open(t)
    PROVE  Step(World, World', t)
PROOF
<1> DEFINE x == [World EXCEPT !.tab[t].page = "open", !.tab[t].unlocked = TRUE,
                              !.tab[t].reading = t \in Reading]
<1>1. World.tab[t] = New /\ Becomes(connect(x, t))
  BY WorldIs, Zenon DEF Open
<1>2. Step(World, connect(x, t), t)
  BY <1>1, OpenStep, Zenon
<1> HIDE DEF x
<1> QED
  BY <1>1, <1>2, Becoming, Zenon

LEMMA CloseActs ==
    ASSUME NEW t \in Tab, Good(World), Close(t)
    PROVE  Step(World, World', t)
PROOF
<1> DEFINE v == IF World.locks.holder.t = t THEN HandOn(Leave(World, t)) ELSE Leave(World, t)
<1>1. Becomes(v)
  <2>1. Becomes(IF locks.holder.t = t THEN HandOn(Leave(World, t)) ELSE Leave(World, t))
    BY Zenon DEF Close, Leave, Gone
  <2>2. v = IF locks.holder.t = t THEN HandOn(Leave(World, t)) ELSE Leave(World, t)
    BY WorldIs, Zenon
  <2> QED
    BY <2>1, <2>2, Zenon
<1> HIDE DEF v
<1>2. Step(World, v, t)
  BY CloseStep, Zenon DEF v
<1> QED
  BY <1>1, <1>2, Becoming, Zenon

LEMMA GrantedActs ==
    ASSUME NEW t \in Tab, Good(World), Granted(t)
    PROVE  Step(World, World', t)
PROOF
<1> DEFINE r == Head(World.inbox[t]).r
           x == [World EXCEPT !.inbox[t] = Tail(@)]
           a == AbortQueued([x EXCEPT !.tab[t].drop = TRUE, !.tab[t].queued = None],
                            World.tab[t].queued)
           s == IF r.k = "steal" /\ World.tab[t].queued # None THEN a ELSE x
<1>1. World.inbox[t] # << >> /\ Head(World.inbox[t]).e = "granted" /\ Becomes(grant(s, r))
  BY WorldIs, Zenon DEF Granted
<1>2. s = x \/ (World.tab[t].queued # None /\ s = a)
  BY Zenon
<1> HIDE DEF s, r
<1>3. Step(World, grant(s, r), t)
  BY <1>1, <1>2, GrantedStep, Zenon DEF r
<1> QED
  BY <1>1, <1>3, Becoming, Zenon

LEMMA NotAvailableActs ==
    ASSUME NEW t \in Tab, Good(World), NotAvailable(t)
    PROVE  Step(World, World', t)
PROOF
<1> DEFINE x == [World EXCEPT !.inbox[t] = Tail(@), !.tab[t].waiting = TRUE]
<1>1. World.inbox[t] # << >> /\ Head(World.inbox[t]).e = "null" /\ Becomes(RequestWait(x, t))
  BY WorldIs, Zenon DEF NotAvailable
<1>2. Step(World, RequestWait(x, t), t)
  BY <1>1, WaitStep, Zenon
<1> HIDE DEF x
<1> QED
  BY <1>1, <1>2, Becoming, Zenon

LEMMA StealTimerActs ==
    ASSUME NEW t \in Tab, Good(World), StealTimer(t)
    PROVE  Step(World, World', t)
PROOF
<1> DEFINE x == [World EXCEPT !.tab[t].timers = @ - 1]
           v == IF World.tab[t].held THEN x ELSE RequestSteal(x, t)
<1>1. World.tab[t].timers > 0 /\ Becomes(v)
  BY WorldIs, Zenon DEF StealTimer
<1> HIDE DEF v
<1>2. Step(World, v, t)
  BY <1>1, TimerStep, Zenon DEF v
<1> QED
  BY <1>1, <1>2, Becoming, Zenon

LEMMA AbortedActs ==
    ASSUME NEW t \in Tab, Good(World), Aborted(t)
    PROVE  Step(World, World', t)
PROOF
<1> DEFINE w == [World EXCEPT !.inbox[t] = Tail(@)]
           wrong == tab[t].held /\ (Swallowed(World, t) <=> Head(inbox[t]).e = "stolen")
           m == [w EXCEPT !.tab[t].mistook = @ \/ wrong]
           b == Mistakes(World, t)
           d == Run(World, t)
           n == Marked(World, t)
<1>0. World \in Worlds
  BY GoodParts
<1>1. World.inbox[t] # << >> /\ Head(World.inbox[t]).e \in {"stolen", "dropped"}
  BY WorldIs, Zenon DEF Aborted
<1>2. Becomes(IF Swallowed(World, t) THEN [m EXCEPT !.tab[t].drop = FALSE] ELSE lost(m, t))
  BY WorldIs, Zenon DEF Aborted, Swallowed
<1>3. m = n
  <2>1. w = d
    BY <1>0, RunShape, Zenon
  <2>2. d.tab = World.tab
    BY DEF Run
  <2>3. (w.tab[t].mistook \/ wrong) = b
    BY <2>1, <2>2, WorldIs DEF Mistakes
  <2>4. m = [w EXCEPT !.tab[t].mistook = (w.tab[t].mistook \/ wrong)]
    OBVIOUS
  <2>5. n = [d EXCEPT !.tab[t].mistook = b]
    BY DEF Marked
  <2> HIDE DEF w, wrong, b, d, m, n
  <2> QED
    BY <2>1, <2>3, <2>4, <2>5
<1>4. Becomes(Rejected(World, t))
  <2> HIDE DEF m
  <2> QED
    BY <1>2, <1>3, Zenon DEF Rejected
<1>5. Step(World, Rejected(World, t), t)
  BY <1>1, AbortedStep, Zenon
<1> QED
  BY <1>4, <1>5, Becoming, Zenon

LEMMA ReleaseAskedActs ==
    ASSUME NEW t \in Tab, Good(World), ReleaseAsked(t)
    PROVE  Step(World, World', t)
PROOF
<1> DEFINE x == [World EXCEPT !.tab[t].held = FALSE]
           v == releaseHold(stepDown(x, t), t)
<1>1. Becomes(IF tab[t].held THEN v ELSE World)
  BY Zenon DEF ReleaseAsked
<1>2. Step(World, v, t)
  BY ReleaseStep, Zenon
<1> HIDE DEF v
<1>3. Step(World, World, t)
  <2>1. Aloof(World.tab[t], World.tab[t])
    BY GoodParts DEF Aloof
  <2>2. Step(World, Edit(World, t, World.tab[t]), t)
    BY <2>1, AloofStep, Zenon
  <2>3. World = Edit(World, t, World.tab[t])
    <3>1. World \in Worlds
      BY GoodParts
    <3>2. [World.tab EXCEPT ![t] = World.tab[t]] = World.tab
      BY <3>1, ExceptTwice
    <3>3. World = [locks |-> World.locks, inbox |-> World.inbox, tab |-> World.tab]
      BY <3>1, WorldParts, Zenon
    <3> QED
      BY <3>2, <3>3 DEF Edit
  <2> QED
    BY <2>2, <2>3, Zenon
<1>4. CASE tab[t].held
  BY <1>1, <1>2, <1>4, Becoming, Zenon
<1>5. CASE ~tab[t].held
  BY <1>1, <1>3, <1>5, Becoming, Zenon
<1> QED
  BY <1>4, <1>5

LEMMA ConnectRetryActs ==
    ASSUME NEW t \in Tab, Good(World), ConnectRetry(t)
    PROVE  Step(World, World', t)
PROOF
<1> DEFINE x == [World EXCEPT !.tab[t].retry = FALSE]
           v == IF tab[t].unlocked THEN connect(x, t) ELSE x
<1>1. Becomes(v)
  BY Zenon DEF ConnectRetry
<1>2. v = x \/ v = connect(x, t)
  BY Zenon
<1> HIDE DEF v
<1>3. Step(World, v, t)
  BY <1>2, RetryStep, Zenon
<1> QED
  BY <1>1, <1>3, Becoming, Zenon

LEMMA IdentityActs ==
    ASSUME NEW t \in Tab, Good(World), LockIdentity(t) \/ UnlockIdentity(t)
    PROVE  Step(World, World', t)
PROOF
<1>1. CASE LockIdentity(t)
  <2> DEFINE x == [World EXCEPT !.tab[t].unlocked = FALSE, !.tab[t].held = FALSE]
             v == releaseHold(disconnect(x, t), t)
  <2>1. Becomes(v)
    BY <1>1, Zenon DEF LockIdentity
  <2>2. Step(World, v, t)
    BY LockStep, Zenon
  <2> HIDE DEF v
  <2> QED
    BY <2>1, <2>2, Becoming, Zenon
<1>2. CASE UnlockIdentity(t)
  <2> DEFINE x == [World EXCEPT !.tab[t].unlocked = TRUE]
             v == connect(x, t)
  <2>1. Becomes(v)
    BY <1>2, Zenon DEF UnlockIdentity
  <2>2. Step(World, v, t)
    BY UnlockStep, Zenon
  <2> HIDE DEF v
  <2> QED
    BY <2>1, <2>2, Becoming, Zenon
<1> QED
  BY <1>1, <1>2

Kept(x, y, t) ==
    Own(y, t) /\ y.hold = x.hold /\ (x.mistook => y.mistook) /\ (y.held => x.held) /\ Calm(x, y)

LEMMA AloofIsKept ==
    ASSUME NEW t \in Tab, NEW x, Own(x, t), NEW y, Aloof(x, y)
    PROVE  Kept(x, y, t)
PROOF
  BY AloofKeeps DEF Kept

LEMMA ClaimIsKept ==
    ASSUME NEW t \in Tab, NEW x, Own(x, t), NEW y,
           \/ y = [x EXCEPT !.timers = x.timers + 1]
           \/ y = [x EXCEPT !.reading = FALSE]
    PROVE  Kept(x, y, t)
PROOF
<1>1. x \in TabState
  BY DEF Own, Upright
<1>2. CASE y = [x EXCEPT !.timers = x.timers + 1]
  BY <1>1, <1>2, AloofIsKept DEF Aloof, TabState
<1>3. CASE y = [x EXCEPT !.reading = FALSE]
  BY <1>1, <1>3, AloofIsKept, Zenon DEF Aloof, TabState
<1> QED
  BY <1>2, <1>3

LEMMA ConnectIsKept ==
    ASSUME NEW t \in Tab, NEW x, Own(x, t), NEW y,
           \/ /\ x.connect = "config"
              /\ y = [x EXCEPT !.connect = "starting", !.current = TRUE, !.reading = FALSE]
           \/ /\ x.connect = "starting" /\ x.current
              /\ y = [x EXCEPT !.connect = "idle", !.current = FALSE, !.node = TRUE]
           \/ /\ x.connect = "starting" /\ x.current
              /\ y = [x EXCEPT !.connect = "idle", !.current = FALSE, !.retry = TRUE]
           \/ /\ x.connect = "starting" /\ ~x.current
              /\ \E b \in BOOLEAN : y = [x EXCEPT !.connect = "idle", !.retry = TRUE, !.stopping = b]
    PROVE  Kept(x, y, t)
PROOF
<1>0. /\ x \in TabState /\ x.queued \in RequestOf(t) \cup {None} /\ (x.hold # None => x.held)
      /\ ~x.astray /\ (x.node \/ x.connect = "config" \/ (x.connect = "starting" /\ x.current)) => x.held
  BY DEF Own, Upright
<1>1. ASSUME y \in TabState, y.hold = x.hold, y.held = x.held, y.mistook = x.mistook,
             y.queued = x.queued, y.astray = x.astray,
             y.node => x.node \/ (x.connect = "starting" /\ x.current),
             y.connect # "config", y.connect = "starting" => x.connect = "config", Calm(x, y)
      PROVE  Kept(x, y, t)
  BY <1>0, <1>1 DEF Own, Upright, Kept
<1>2. CASE x.connect = "config" /\ y = [x EXCEPT !.connect = "starting", !.current = TRUE, !.reading = FALSE]
  <2>1. y.stopping = x.stopping /\ y.connect = "starting" /\ y.current
    BY <1>0, <1>2 DEF TabState
  <2>2. Calm(x, y)
    BY <1>2, <2>1 DEF Calm, Steady, Stops
  <2> QED
    BY <1>0, <1>1, <1>2, <2>2, ZenonT(60) DEF TabState
<1>3. CASE /\ x.connect = "starting" /\ x.current
           /\ y = [x EXCEPT !.connect = "idle", !.current = FALSE, !.node = TRUE]
  <2>1. y.stopping = x.stopping /\ y.connect = "idle"
    BY <1>0, <1>3 DEF TabState
  <2>2. Calm(x, y)
    BY <1>3, <2>1 DEF Calm, Steady, Stops
  <2> QED
    BY <1>0, <1>1, <1>3, <2>2, ZenonT(60) DEF TabState
<1>4. CASE /\ x.connect = "starting" /\ x.current
           /\ y = [x EXCEPT !.connect = "idle", !.current = FALSE, !.retry = TRUE]
  <2>1. y.stopping = x.stopping /\ y.connect = "idle"
    BY <1>0, <1>4 DEF TabState
  <2>2. Calm(x, y)
    BY <1>4, <2>1 DEF Calm, Steady, Stops
  <2> QED
    BY <1>0, <1>1, <1>4, <2>2, ZenonT(60) DEF TabState
<1>5. CASE /\ x.connect = "starting" /\ ~x.current
           /\ \E b \in BOOLEAN : y = [x EXCEPT !.connect = "idle", !.retry = TRUE, !.stopping = b]
  <2>0. PICK b \in BOOLEAN : y = [x EXCEPT !.connect = "idle", !.retry = TRUE, !.stopping = b]
    BY <1>5
  <2>1. /\ y.node = x.node /\ y.astray = x.astray /\ y.mistook = x.mistook
        /\ y.connect = "idle"
    BY <1>0, <2>0 DEF TabState
  <2>2. Calm(x, y)
    BY <1>5, <2>1 DEF Calm, Steady, Stops, Runs
  <2> QED
    BY <1>0, <1>1, <1>5, <2>0, <2>2, ZenonT(60) DEF TabState
<1> QED
  BY <1>2, <1>3, <1>4, <1>5

(* libp2p has the node down. *)
LEMMA StoppedIsKept ==
    ASSUME NEW t \in Tab, NEW x, Own(x, t), x.stopping, NEW y, y = [x EXCEPT !.stopping = FALSE]
    PROVE  Kept(x, y, t)
PROOF
<1>1. x \in TabState
  BY DEF Own, Upright
<1>2. /\ y \in TabState /\ y.hold = x.hold /\ y.held = x.held /\ y.mistook = x.mistook
      /\ y.queued = x.queued /\ y.astray = x.astray /\ y.node = x.node
      /\ y.connect = x.connect /\ y.current = x.current
  BY <1>1 DEF TabState
<1>3. Calm(x, y)
  BY <1>2 DEF Calm, Steady, Runs, Stops
<1> QED
  BY <1>2, <1>3 DEF Own, Upright, Kept

LEMMA KeptActs ==
    ASSUME NEW t \in Tab, Good(World), NEW y, Kept(World.tab[t], y, t),
           tab' = [tab EXCEPT ![t] = y], UNCHANGED <<locks, inbox>>
    PROVE  Step(World, World', t)
PROOF
<1>1. World'.locks = World.locks /\ World'.inbox = World.inbox /\ World'.tab = [World.tab EXCEPT ![t] = y]
  BY DEF World
<1>2. Step(World, Edit(World, t, y), t)
  BY EditStep, Zenon DEF Kept
<1>3. World' = Edit(World, t, y)
  BY <1>1, WorldIs, Zenon DEF Edit
<1> QED
  BY <1>2, <1>3, Zenon

LEMMA TabActs ==
    ASSUME NEW t \in Tab, Good(World),
           \/ Claim(t) \/ ConfigSettled(t) \/ ConfigRead(t)
           \/ Connected(t) \/ ConnectFails(t) \/ ConnectCancelled(t) \/ Stopped(t)
    PROVE  Step(World, World', t)
PROOF
<1>0. World.tab = tab /\ Own(tab[t], t)
  BY GoodParts, WorldIs
<1> DEFINE x == tab[t]
<1>1. ASSUME NEW y, Kept(x, y, t), tab' = [tab EXCEPT ![t] = y], UNCHANGED <<locks, inbox>>
      PROVE  Step(World, World', t)
  <2>1. Kept(World.tab[t], y, t)
    BY <1>0, <1>1, Zenon
  <2> QED
    BY <1>1, <2>1, KeptActs, Zenon
<1>2. CASE Claim(t)
  <2> DEFINE y == [x EXCEPT !.timers = x.timers + 1]
  <2>1. Kept(x, y, t)
    BY <1>0, ClaimIsKept
  <2>2. tab' = [tab EXCEPT ![t] = y] /\ UNCHANGED <<locks, inbox>>
    BY <1>2 DEF Claim
  <2> QED
    BY <1>1, <2>1, <2>2, Zenon
<1>3. CASE ConfigRead(t)
  <2> DEFINE y == [x EXCEPT !.reading = FALSE]
  <2>1. Kept(x, y, t)
    BY <1>0, ClaimIsKept
  <2>2. tab' = [tab EXCEPT ![t] = y] /\ UNCHANGED <<locks, inbox>>
    BY <1>3 DEF ConfigRead
  <2> QED
    BY <1>1, <2>1, <2>2, Zenon
<1>4. CASE ConfigSettled(t)
  <2> DEFINE y == [x EXCEPT !.connect = "starting", !.current = TRUE, !.reading = FALSE]
  <2>1. Kept(x, y, t)
    BY <1>0, <1>4, ConnectIsKept, Zenon DEF ConfigSettled
  <2>2. tab' = [tab EXCEPT ![t] = y] /\ UNCHANGED <<locks, inbox>>
    BY <1>4, Zenon DEF ConfigSettled
  <2> QED
    BY <1>1, <2>1, <2>2, Zenon
<1>5. CASE Connected(t)
  <2> DEFINE y == [x EXCEPT !.connect = "idle", !.current = FALSE, !.node = TRUE]
  <2>1. Kept(x, y, t)
    BY <1>0, <1>5, ConnectIsKept, Zenon DEF Connected
  <2>2. tab' = [tab EXCEPT ![t] = y] /\ UNCHANGED <<locks, inbox>>
    BY <1>5, Zenon DEF Connected
  <2> QED
    BY <1>1, <2>1, <2>2, Zenon
<1>6. CASE ConnectFails(t)
  <2> DEFINE y == [x EXCEPT !.connect = "idle", !.current = FALSE, !.retry = TRUE]
  <2>1. Kept(x, y, t)
    BY <1>0, <1>6, ConnectIsKept, Zenon DEF ConnectFails
  <2>2. tab' = [tab EXCEPT ![t] = y] /\ UNCHANGED <<locks, inbox>>
    BY <1>6, Zenon DEF ConnectFails
  <2> QED
    BY <1>1, <2>1, <2>2, Zenon
<1>7. CASE ConnectCancelled(t)
  <2>0. PICK b \in BOOLEAN :
            tab' = [tab EXCEPT ![t].connect = "idle", ![t].retry = TRUE, ![t].stopping = @ \/ b]
    BY <1>7, Zenon DEF ConnectCancelled
  <2> DEFINE c == x.stopping \/ b
             y == [x EXCEPT !.connect = "idle", !.retry = TRUE, !.stopping = c]
  <2>1. Kept(x, y, t)
    <3>1. x.connect = "starting" /\ ~x.current /\ c \in BOOLEAN
      BY <1>7, Zenon DEF ConnectCancelled
    <3> HIDE DEF c
    <3> QED
      BY <1>0, <3>1, ConnectIsKept, Zenon
  <2>2. tab' = [tab EXCEPT ![t] = y] /\ UNCHANGED <<locks, inbox>>
    BY <1>7, <2>0, Zenon DEF ConnectCancelled
  <2> QED
    BY <1>1, <2>1, <2>2, Zenon
<1>8. CASE Stopped(t)
  <2> DEFINE y == [x EXCEPT !.stopping = FALSE]
  <2>1. Kept(x, y, t)
    BY <1>0, <1>8, StoppedIsKept, Zenon DEF Stopped
  <2>2. tab' = [tab EXCEPT ![t] = y] /\ UNCHANGED <<locks, inbox>>
    BY <1>8, Zenon DEF Stopped
  <2> QED
    BY <1>1, <2>1, <2>2, Zenon
<1> QED
  BY <1>2, <1>3, <1>4, <1>5, <1>6, <1>7, <1>8

LEMMA NextSteps ==
    ASSUME Good(World), Next
    PROVE  \E t \in Tab : Step(World, World', t)
PROOF
<1>1. PICK t \in Tab :
          \/ Open(t) \/ Close(t) \/ Handle(t) \/ Proceed(t)
          \/ Claim(t) \/ ConnectFails(t) \/ LockIdentity(t) \/ UnlockIdentity(t)
  BY Zenon DEF Next
<1>2. Step(World, World', t)
  <2>1. CASE Open(t)
    BY <2>1, OpenActs, Zenon
  <2>2. CASE Close(t)
    BY <2>2, CloseActs, Zenon
  <2>3. CASE Handle(t)
    BY <2>3, GrantedActs, NotAvailableActs, AbortedActs, Zenon DEF Handle
  <2>4. CASE Proceed(t)
    BY <2>4, StealTimerActs, ReleaseAskedActs, ConnectRetryActs, TabActs, Zenon DEF Proceed
  <2>5. CASE Claim(t) \/ ConnectFails(t)
    BY <2>5, TabActs, Zenon
  <2>6. CASE LockIdentity(t) \/ UnlockIdentity(t)
    BY <2>6, IdentityActs, Zenon
  <2> QED
    BY <1>1, <2>1, <2>2, <2>3, <2>4, <2>5, <2>6, Zenon
<1> QED
  BY <1>2

-----------------------------------------------------------------------------
(* The number of a new request, and the first of those who wait.           *)

LEMMA Smallest ==
    ASSUME NEW T \in SUBSET Nat, T # {}
    PROVE  \E n \in T : \A m \in T : n <= m
PROOF
<1> DEFINE R == OpToRel(<, Nat)
<1>1. IsWellFoundedOn(R, Nat)
  BY NatLessThanWellFounded, Zenon
<1>2. \A n, m \in Nat : m < n => <<m, n>> \in R
  BY DEF OpToRel
<1> HIDE DEF R
<1>3. PICK n \in T : \A m \in T : ~(<<m, n>> \in R)
  BY <1>1, WFMin, Zenon
<1>4. \A m \in T : ~(m < n)
  BY <1>2, <1>3, Zenon
<1>5. n \in Nat /\ \A m \in T : m \in Nat
  OBVIOUS
<1>6. \A m \in T : n <= m
  BY <1>4, <1>5
<1> QED
  BY <1>6, Zenon

LEMMA FreeNumber ==
    ASSUME NEW T, IsFiniteSet(T)
    PROVE  \E n \in 1..(Cardinality(T) + 1) : n \notin T /\ 1..(n - 1) \subseteq T
PROOF
<1> DEFINE c == Cardinality(T)
           F == {n \in 1..(c + 1) : n \notin T}
<1>1. c \in Nat
  BY FS_CardinalityType
<1>2. Cardinality(1..(c + 1)) = c + 1
  BY <1>1, FS_Interval
<1> HIDE DEF c
<1>3. ~(1..(c + 1) \subseteq T)
  <2> SUFFICES ASSUME 1..(c + 1) \subseteq T
               PROVE  FALSE
    OBVIOUS
  <2>1. Cardinality(1..(c + 1)) <= Cardinality(T)
    BY FS_Subset, Zenon
  <2> QED
    BY <1>1, <1>2, <2>1 DEF c
<1>4. F \in SUBSET Nat /\ F # {}
  BY <1>1, <1>3
<1>5. PICK n \in F : \A m \in F : n <= m
  BY <1>4, Smallest, Zenon
<1>6. 1..(n - 1) \subseteq T
  BY <1>1, <1>5
<1> QED
  BY <1>5, <1>6 DEF c

LEMMA ElementsFinite ==
    ASSUME NEW S, NEW s \in Seq(S)
    PROVE  IsFiniteSet(Range(s))
PROOF
<1>1. s \in Surjection(1..Len(s), Range(s))
  BY DEF Surjection, Range
<1>2. IsFiniteSet(1..Len(s))
  BY FS_Interval
<1> QED
  BY <1>1, <1>2, FS_Surjection

LEMMA RequestsFinite ==
    ASSUME NEW S, IsFiniteSet(S)
    PROVE  IsFiniteSet({m.r : m \in S})
PROOF
<1> DEFINE f == [m \in S |-> m.r]
<1>1. f \in Surjection(S, {m.r : m \in S})
  BY DEF Surjection
<1> QED
  BY <1>1, FS_Surjection

LEMMA NumbersFinite ==
    ASSUME NEW S, IsFiniteSet(S)
    PROVE  IsFiniteSet({r.n : r \in S})
PROOF
<1> DEFINE f == [r \in S |-> r.n]
<1>1. f \in Surjection(S, {r.n : r \in S})
  BY DEF Surjection
<1> QED
  BY <1>1, FS_Surjection

LEMMA FreshIsFree ==
    ASSUME NEW w \in Worlds, NEW t \in Tab
    PROVE  Fresh(w, t) \in Nat \ {0} /\ \A q \in Live(w, t) : q.t = t => q.n # Fresh(w, t)
PROOF
<1> DEFINE live == Live(w, t)
           mine == {q \in live : q.t = t}
           taken == {x.n : x \in mine}
<1>0. w.locks.queue \in Seq(Request \cup {None}) /\ w.inbox[t] \in Seq(Msg)
  BY DEF Worlds, Locks, Queues
<1>1. IsFiniteSet(live)
  <2>1. IsFiniteSet(Range(w.locks.queue)) /\ IsFiniteSet(Range(w.inbox[t]))
    BY <1>0, ElementsFinite
  <2>2. IsFiniteSet({m.r : m \in Range(w.inbox[t])})
    BY <2>1, RequestsFinite
  <2>3. IsFiniteSet({w.locks.holder, w.tab[t].hold, w.tab[t].queued})
    <3>1. IsFiniteSet({w.locks.holder} \cup {w.tab[t].hold})
      BY FS_Singleton, FS_AddElement, Zenon
    <3>2. IsFiniteSet(({w.locks.holder} \cup {w.tab[t].hold}) \cup {w.tab[t].queued})
      BY <3>1, FS_AddElement
    <3>3. ({w.locks.holder} \cup {w.tab[t].hold}) \cup {w.tab[t].queued}
          = {w.locks.holder, w.tab[t].hold, w.tab[t].queued}
      OBVIOUS
    <3> QED
      BY <3>2, <3>3, Zenon
  <2> QED
    BY <2>1, <2>2, <2>3, FS_Union, Zenon DEF Live
<1>2. IsFiniteSet(taken)
  <2>1. IsFiniteSet(mine)
    BY <1>1, FS_Subset
  <2> QED
    BY <2>1, NumbersFinite
<1>3. Fresh(w, t) = CHOOSE n \in 1..(Cardinality(taken) + 1) : n \notin taken /\ 1..(n - 1) \subseteq taken
  BY DEF Fresh, Live
<1>4. Fresh(w, t) \in 1..(Cardinality(taken) + 1) /\ Fresh(w, t) \notin taken
  <2> HIDE DEF taken
  <2> QED
    BY <1>2, <1>3, FreeNumber
<1>5. Fresh(w, t) \in Nat \ {0}
  <2>1. Cardinality(taken) \in Nat
    BY <1>2, FS_CardinalityType
  <2> QED
    BY <1>4, <2>1
<1> QED
  BY <1>4, <1>5

LEMMA FirstWaiting ==
    ASSUME NEW q \in Queues, Waiting(q) # {}
    PROVE  Min(Waiting(q)) \in Waiting(q)
PROOF
<1>1. Waiting(q) \in SUBSET Nat
  BY DEF Waiting, Queues
<1>2. PICK n \in Waiting(q) : \A m \in Waiting(q) : n <= m
  BY <1>1, Smallest
<1> QED
  BY <1>2 DEF Min

LEMMA CountingHolds == Counting
PROOF
  BY FreshIsFree, FirstWaiting, Zenon DEF Counting

-----------------------------------------------------------------------------
(* The initial state.                                                      *)

LEMMA InitIsGood ==
    ASSUME Init
    PROVE  Good(World)
PROOF
<1> DEFINE w == World
<1>1. /\ w.locks = [holder |-> None, queue |-> << >>] /\ w.inbox = [t \in Tab |-> << >>]
      /\ w.tab = [t \in Tab |-> New] /\ w = [locks |-> w.locks, inbox |-> w.inbox, tab |-> w.tab]
  BY DEF Init, World
<1> HIDE DEF w
<1>2. w.locks.holder = None /\ w.locks.queue = << >> /\ w.locks \in Locks
  BY <1>1 DEF Locks, Queues
<1>3. New \in TabState /\ New.hold = None /\ New.queued = None /\ ~New.held /\ ~New.node
      /\ New.connect = "idle" /\ ~New.mistook
  BY GoneFacts
<1>4. w.inbox \in [Tab -> Seq(Msg)] /\ w.tab \in [Tab -> TabState]
      /\ \A u \in Tab : w.inbox[u] = << >> /\ w.tab[u] = New
  BY <1>1, <1>3
<1>5. w \in Worlds
  BY <1>1, <1>2, <1>4, Zenon DEF Worlds
<1>6. None.t \notin Tab /\ Once(<< >>)
  BY SomeTabs DEF None, Once
<1>7. ASSUME NEW u \in Tab
      PROVE  Stands(w, u) /\ Own(w.tab[u], u) /\ Backed(w, u)
  <2>1. Placed(None, << >>, None, New.mistook, << >>, u)
    BY <1>6 DEF Placed, Aside, Seated, Called, Robbed
  <2>2. Stands(w, u)
    BY <1>2, <1>3, <1>4, <2>1, Zenon DEF Stands
  <2>3. Own(New, u)
    BY <1>3 DEF Own, Upright
  <2>4. Backed(w, u)
    BY <1>3, <1>4 DEF Backed
  <2> QED
    BY <1>4, <2>2, <2>3, <2>4
<1>8. LockInv(w)
  BY <1>2, <1>5, <1>6, <1>7, CountingHolds DEF LockInv
<1> QED
  BY <1>7, <1>8 DEF Good, w

LEMMA OustedIsTold ==
    ASSUME NEW t \in Tab, Good(World)
    PROVE  Ousted(t) <=> Told(inbox[t])
PROOF
<1>1. inbox[t] \in Seq(Msg)
  BY GoodParts, WorldParts, WorldIs, Zenon
<1> QED
  BY <1>1 DEF Ousted, Told, Range

LEMMA GoodHolderKnows ==
    ASSUME Good(World)
    PROVE  HolderKnows
PROOF
<1> SUFFICES ASSUME NEW t \in Tab, locks.holder.t = t, ~tab[t].mistook
             PROVE  tab[t].held \/ \E m \in Range(inbox[t]) : m.e = "granted"
  BY DEF HolderKnows
<1>1. /\ World.locks = locks /\ World.inbox = inbox /\ World.tab = tab
  BY WorldIs
<1>2. LockInv(World) /\ (tab[t].hold # None => tab[t].held)
  BY <1>1, GoodParts
<1>3. Stands(World, t)
  BY <1>2 DEF LockInv
<1>4. Seated(locks.holder, tab[t].hold, inbox[t], t)
  BY <1>1, <1>3 DEF Stands, Placed
<1>5. locks.holder # None
  BY SomeTabs DEF None
<1>6. inbox[t] \in Seq(Msg)
  BY <1>1, GoodParts, WorldParts, Zenon
<1>7. CASE tab[t].hold = locks.holder
  BY <1>2, <1>5, <1>7
<1>8. CASE EndsWith(inbox[t], locks.holder)
  <2>1. PICK i \in 1..Len(inbox[t]) : inbox[t][i].e = "granted"
    BY <1>8 DEF EndsWith
  <2>2. inbox[t][i] \in Range(inbox[t])
    BY <1>6 DEF Range
  <2> QED
    BY <2>1, <2>2
<1> QED
  BY <1>4, <1>7, <1>8 DEF Seated

LEMMA GoodKept ==
    ASSUME Good(World), [Next]_vars
    PROVE  Good(World')
PROOF
<1>1. CASE Next
  BY <1>1, NextSteps, Zenon DEF Step
<1>2. CASE UNCHANGED vars
  <2>1. World' = World
    BY <1>2 DEF vars, World
  <2> QED
    BY <2>1, Zenon
<1> QED
  BY <1>1, <1>2

(* A tab that holds "awful:node" and has not mistaken a rejection knows    *)
(* it, or has its callback still to run: whatever the tabs and whatever    *)
(* the number of claims and faults, the seat is never left with a tab that *)
(* has forgotten it (node-lock.ts, grant, lost and releaseNodeLock).       *)
THEOREM HolderKnowsHolds == Spec => []HolderKnows
PROOF
<1>1. Init => Good(World)
  BY InitIsGood
<1>2. Good(World) /\ [Next]_vars => Good(World)'
  <2>1. ASSUME Good(World), [Next]_vars PROVE Good(World')
    BY <2>1, GoodKept
  <2> QED
    BY <2>1
<1>3. Good(World) => HolderKnows
  BY GoodHolderKnows
<1> QED
  BY <1>1, <1>2, <1>3, PTL DEF Spec

-----------------------------------------------------------------------------
(* The seat that NodeSeat promises.                                        *)

Owner == locks.holder.t

OustedTabs == {t \in Tab : Ousted(t)}

RunningTabs == {t \in Tab : Running(t) /\ ~tab[t].astray /\ ~tab[t].mistook}

StoppingTabs == {t \in Tab : Stopping(t)}

SetsAre ==
    /\ OustedTabs = {t \in Tab : Told(inbox[t])}
    /\ RunningTabs = {t \in Tab : Runs(tab[t])}
    /\ StoppingTabs = {t \in Tab : Stops(tab[t])}

LEMMA SeatSets == Good(World) => SetsAre
PROOF
<1> SUFFICES ASSUME Good(World)
             PROVE  SetsAre
  OBVIOUS
<1>1. OustedTabs = {t \in Tab : Told(inbox[t])}
  BY OustedIsTold DEF OustedTabs
<1>2. RunningTabs = {t \in Tab : Runs(tab[t])}
  BY DEF RunningTabs, Running, Runs
<1>3. StoppingTabs = {t \in Tab : Stops(tab[t])}
  BY DEF StoppingTabs, Stopping, Stops
<1> QED
  BY <1>1, <1>2, <1>3 DEF SetsAre

LEMMA SeatSetsNext == Good(World)' => SetsAre'
PROOF
  BY SeatSets, PTL

(* What a step means for the seat. *)
SeatStep(t) ==
    \/ Owner \notin Tab /\ Owner' = t /\ UNCHANGED <<OustedTabs, RunningTabs, StoppingTabs>>
    \/ /\ t = Owner \/ t \in OustedTabs
       /\ RunningTabs' = RunningTabs \cup {t} /\ UNCHANGED <<Owner, OustedTabs, StoppingTabs>>
    \/ /\ RunningTabs' = RunningTabs \ {t}
       /\ StoppingTabs' \in {StoppingTabs \cup {t}, StoppingTabs, StoppingTabs \ {t}}
       /\ OustedTabs' \in {OustedTabs, OustedTabs \ {t}}
       /\ Owner' # Owner => Owner = t \/ (Owner \notin Tab /\ Owner' = t)
    \/ StoppingTabs' = StoppingTabs \ {t} /\ UNCHANGED <<Owner, OustedTabs, RunningTabs>>
    \/ /\ Owner \in Tab /\ Owner' = t
       /\ OustedTabs' = OustedTabs \cup {Owner} /\ UNCHANGED <<RunningTabs, StoppingTabs>>

LEMMA StepIsSeatStep ==
    ASSUME Good(World), NEW t \in Tab, Step(World, World', t)
    PROVE  SeatStep(t)
PROOF
<1>1. /\ World.locks = locks /\ World.inbox = inbox /\ World.tab = tab
      /\ World'.locks = locks' /\ World'.inbox = inbox' /\ World'.tab = tab'
  BY WorldIs
<1>2. Good(World') /\ tab' = [tab EXCEPT ![t] = tab'[t]] /\ Effect(World, World', t)
  BY <1>1 DEF Step
<1>3. /\ OustedTabs = {u \in Tab : Told(inbox[u])} /\ RunningTabs = {u \in Tab : Runs(tab[u])}
      /\ StoppingTabs = {u \in Tab : Stops(tab[u])}
  BY SeatSets DEF SetsAre
<1>4. /\ OustedTabs' = {u \in Tab : Told(inbox'[u])} /\ RunningTabs' = {u \in Tab : Runs(tab'[u])}
      /\ StoppingTabs' = {u \in Tab : Stops(tab'[u])}
  <2>1. Good(World)'
    BY <1>2
  <2> QED
    BY <2>1, SeatSetsNext DEF SetsAre
<1>5. \A u \in Tab \ {t} : tab'[u] = tab[u]
  <2>1. tab \in [Tab -> TabState]
    BY <1>1, GoodParts, WorldParts, Zenon
  <2> QED
    BY <1>2, <2>1
<1>6. locks.holder \in Request \cup {None} /\ locks'.holder \in Request \cup {None}
  BY <1>1, <1>2, WorldParts, Zenon DEF Good, LockInv
<1>7. None.t \notin Tab /\ \A r \in Request : r.t \in Tab
  BY SomeTabs DEF None, Request
<1>s. /\ StoppingTabs' \in {StoppingTabs \cup {t}, StoppingTabs, StoppingTabs \ {t}}
      /\ (Stops(tab'[t]) <=> Stops(tab[t])) => StoppingTabs' = StoppingTabs
      /\ (Stops(tab'[t]) => Stops(tab[t])) => StoppingTabs' \in {StoppingTabs, StoppingTabs \ {t}}
  <2>1. CASE Stops(tab'[t]) <=> Stops(tab[t])
    BY <1>3, <1>4, <1>5, <2>1
  <2>2. CASE Stops(tab'[t]) /\ ~Stops(tab[t])
    <3>1. StoppingTabs' = StoppingTabs \cup {t}
      BY <1>3, <1>4, <1>5, <2>2
    <3> QED
      BY <2>2, <3>1
  <2>3. CASE ~Stops(tab'[t]) /\ Stops(tab[t])
    <3>1. StoppingTabs' = StoppingTabs \ {t}
      BY <1>3, <1>4, <1>5, <2>3
    <3> QED
      BY <2>3, <3>1
  <2> QED
    BY <2>1, <2>2, <2>3
<1>r. (Runs(tab'[t]) <=> Runs(tab[t])) => RunningTabs' = RunningTabs
  BY <1>3, <1>4, <1>5
<1>8. CASE locks'.holder = locks.holder /\ SameTold(World, World') /\ Calm(tab[t], tab'[t])
  <2>1. Owner' = Owner /\ OustedTabs' = OustedTabs
    BY <1>1, <1>3, <1>4, <1>8 DEF SameTold, Owner
  <2>2. CASE Runs(tab'[t]) /\ (Stops(tab'[t]) <=> Stops(tab[t]))
    <3>1. tab'[t].held /\ ~tab'[t].mistook
      <4>1. Own(tab'[t], t)
        BY <1>1, <1>2 DEF Good
      <4> QED
        BY <2>2, <4>1 DEF Runs, Own, Upright
    <3>2. Backed(World', t)
      BY <1>2 DEF Good
    <3>3. locks'.holder.t = t \/ Told(inbox'[t])
      BY <1>1, <3>1, <3>2 DEF Backed
    <3>4. t = Owner \/ t \in OustedTabs
      BY <1>4, <2>1, <3>3, <1>8 DEF Owner
    <3>5. RunningTabs' = RunningTabs \cup {t} /\ StoppingTabs' = StoppingTabs
      BY <1>3, <1>4, <1>5, <1>s, <2>2
    <3> QED
      BY <2>1, <3>4, <3>5 DEF SeatStep
  <2>3. CASE ~Runs(tab'[t])
    <3>1. RunningTabs' = RunningTabs \ {t}
      BY <1>3, <1>4, <1>5, <2>3
    <3> QED
      BY <1>s, <2>1, <3>1 DEF SeatStep
  <2>4. CASE Runs(tab'[t]) /\ Runs(tab[t]) /\ Stops(tab[t]) /\ ~Stops(tab'[t])
    <3>1. StoppingTabs' = StoppingTabs \ {t} /\ RunningTabs' = RunningTabs
      BY <1>3, <1>4, <1>5, <2>4
    <3> QED
      BY <2>1, <3>1 DEF SeatStep
  <2> QED
    BY <1>8, <2>2, <2>3, <2>4 DEF Calm, Steady
<1>9. CASE /\ Takes(World, World', t) /\ SameTold(World, World')
           /\ (Runs(tab'[t]) <=> Runs(tab[t])) /\ Steady(tab[t], tab'[t])
  <2>1. CASE locks'.holder = locks.holder
    BY <1>8, <1>9, <2>1, Zenon DEF Calm
  <2>2. CASE locks'.holder # locks.holder
    <3>1. OustedTabs' = OustedTabs /\ RunningTabs' = RunningTabs
      BY <1>1, <1>3, <1>4, <1>9, <1>r DEF SameTold
    <3>2. Owner \notin Tab /\ Owner' = t
      BY <1>1, <1>7, <1>9, <2>2 DEF Takes, Owner
    <3>3. CASE Stops(tab'[t]) <=> Stops(tab[t])
      BY <1>s, <3>1, <3>2, <3>3 DEF SeatStep
    <3>4. CASE ~Runs(tab'[t])
      <4>1. RunningTabs' = RunningTabs \ {t}
        BY <1>3, <1>4, <1>5, <3>4
      <4> QED
        BY <1>s, <3>1, <3>2, <4>1 DEF SeatStep
    <3> QED
      BY <1>9, <3>3, <3>4 DEF Steady
  <2> QED
    BY <2>1, <2>2
<1>10. CASE /\ ~Runs(tab'[t]) /\ (Told(inbox'[t]) => Told(inbox[t]))
            /\ OthersTold(World, World', t) /\ Ceded(World, World', t)
  <2>1. RunningTabs' = RunningTabs \ {t}
    BY <1>3, <1>4, <1>5, <1>10
  <2>2. OustedTabs' \in {OustedTabs, OustedTabs \ {t}}
    <3>1. \A u \in Tab \ {t} : Told(inbox'[u]) <=> Told(inbox[u])
      BY <1>1, <1>10 DEF OthersTold
    <3>2. CASE Told(inbox'[t]) <=> Told(inbox[t])
      BY <1>3, <1>4, <3>1, <3>2
    <3>3. CASE ~Told(inbox'[t])
      BY <1>3, <1>4, <3>1, <3>3
    <3> QED
      BY <1>10, <3>2, <3>3
  <2>3. Owner' # Owner => Owner = t \/ (Owner \notin Tab /\ Owner' = t)
    BY <1>1, <1>7, <1>10 DEF Ceded, Owner
  <2> QED
    BY <1>s, <2>1, <2>2, <2>3 DEF SeatStep
<1>11. CASE /\ Forced(World, World', t) /\ (Runs(tab'[t]) <=> Runs(tab[t]))
            /\ (Stops(tab'[t]) <=> Stops(tab[t]))
  <2>1. RunningTabs' = RunningTabs /\ StoppingTabs' = StoppingTabs
    BY <1>r, <1>s, <1>11
  <2>2. Owner' = t
    BY <1>1, <1>11 DEF Forced, Owner
  <2>3. CASE locks.holder = None /\ SameTold(World, World')
    <3>1. Owner \notin Tab /\ OustedTabs' = OustedTabs
      BY <1>1, <1>3, <1>4, <1>7, <2>3 DEF SameTold, Owner
    <3> QED
      BY <2>1, <2>2, <3>1 DEF SeatStep
  <2>4. CASE /\ locks.holder \in Request /\ Told(inbox'[locks.holder.t])
             /\ \A u \in Tab \ {locks.holder.t} : Told(inbox'[u]) <=> Told(inbox[u])
    <3>1. Owner \in Tab /\ OustedTabs' = OustedTabs \cup {Owner}
      BY <1>3, <1>4, <1>7, <2>4 DEF Owner
    <3> QED
      BY <2>1, <2>2, <3>1 DEF SeatStep
  <2> QED
    BY <1>1, <1>11, <2>3, <2>4 DEF Forced
<1> QED
  BY <1>1, <1>2, <1>8, <1>9, <1>10, <1>11 DEF Effect

(* Every step of the tabs is one of the seat, or none.                     *)
LEMMA NextIsSeatStep ==
    ASSUME Good(World), [Next]_vars
    PROVE  [Seat!Next]_Seat!seat
PROOF
<1>1. CASE Next
  <2>1. PICK t \in Tab : SeatStep(t)
    BY <1>1, NextSteps, StepIsSeatStep
  <2> USE DEF Owner, OustedTabs, RunningTabs, StoppingTabs
  <2>2. Owner \notin Tab /\ Owner' = t /\ UNCHANGED <<OustedTabs, RunningTabs, StoppingTabs>>
        => Seat!Take(t)
    BY Zenon DEF Seat!Take
  <2>3. /\ t = Owner \/ t \in OustedTabs
        /\ RunningTabs' = RunningTabs \cup {t} /\ UNCHANGED <<Owner, OustedTabs, StoppingTabs>>
        => Seat!Start(t)
    BY Zenon DEF Seat!Start
  <2>4. /\ RunningTabs' = RunningTabs \ {t}
        /\ StoppingTabs' \in {StoppingTabs \cup {t}, StoppingTabs, StoppingTabs \ {t}}
        /\ OustedTabs' \in {OustedTabs, OustedTabs \ {t}}
        /\ Owner' # Owner => Owner = t \/ (Owner \notin Tab /\ Owner' = t)
        => Seat!Stop(t)
    BY Zenon DEF Seat!Stop
  <2>5. StoppingTabs' = StoppingTabs \ {t} /\ UNCHANGED <<Owner, OustedTabs, RunningTabs>>
        => Seat!Stopped(t)
    BY Zenon DEF Seat!Stopped
  <2>6. /\ Owner \in Tab /\ Owner' = t
        /\ OustedTabs' = OustedTabs \cup {Owner} /\ UNCHANGED <<RunningTabs, StoppingTabs>>
        => Seat!Oust(t)
    BY Zenon DEF Seat!Oust
  <2> HIDE DEF Owner, OustedTabs, RunningTabs, StoppingTabs
  <2> QED
    BY <2>1, <2>2, <2>3, <2>4, <2>5, <2>6, Zenon DEF SeatStep, Seat!Next
<1>2. CASE UNCHANGED vars
  BY <1>2 DEF vars, Seat!seat, Ousted, Running, Stopping
<1> QED
  BY <1>1, <1>2

LEMMA InitIsSeatInit ==
    ASSUME Init
    PROVE  Seat!Init
PROOF
<1>1. locks.holder.t \notin Tab
  BY SomeTabs DEF Init, None
<1>2. \A t \in Tab : ~Ousted(t)
  BY DEF Init, Ousted, Range
<1>3. \A t \in Tab : ~Running(t) /\ ~Stopping(t)
  BY DEF Init, Running, Stopping, New
<1> QED
  BY <1>1, <1>2, <1>3 DEF Seat!Init

(* The tabs keep the promise of NodeSeat, for every number of tabs, claims *)
(* and faults: a tab has a node it has not told to stop only where the     *)
(* seat is, or where it was stolen and the tab has yet to hear of it; a    *)
(* node is told to stop in the very step that gives the seat up or hears   *)
(* of its loss; the seat changes hands only by being taken when free,      *)
(* given up by its owner or stolen on "Use here" (node-lock.ts and the     *)
(* transport's stepDown).  When a node told to stop is down is not in it:  *)
(* the code lets the seat go first (see ReleasedOnceDown).                 *)
THEOREM SeatKeptHolds == Spec => SeatKept
PROOF
<1>1. Init => Good(World) /\ Seat!Init
  BY InitIsGood, InitIsSeatInit
<1>2. Good(World) /\ [Next]_vars => Good(World)' /\ [Seat!Next]_Seat!seat
  <2>1. ASSUME Good(World), [Next]_vars PROVE Good(World') /\ [Seat!Next]_Seat!seat
    BY <2>1, GoodKept, NextIsSeatStep
  <2> QED
    BY <2>1
<1> QED
  BY <1>1, <1>2, PTL DEF Spec, SeatKept, Seat!Spec
=============================================================================
