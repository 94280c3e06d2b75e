--------------------------- MODULE PairingProofs ---------------------------
(***************************************************************************)
(* The people typing a code keep the invariant of PairingLemmas too, so it *)
(* holds, and with it what short-code pairing promises, for any number of  *)
(* codes, people, locators and uses.                                       *)
(***************************************************************************)
EXTENDS PairingLemmas, FiniteSetTheorems

-----------------------------------------------------------------------------
(* The people typing a code. *)

(* What a step of one person may do to the store. *)
Turned(j) ==
    /\ store' \in [Locator -> EntryType \cup {Absent}] /\ EntriesOK'
    /\ \A k \in Locator, i \in Joiner : i # j => Untouched(store[k], store'[k], i)
    /\ \A k \in Locator, s \in Session, i \in Joiner :
         HasTransfer(store'[k], s, i) => HasTransfer(store[k], s, i)
    /\ \A s \in Session :
         host[s].at \in Hosting /\ Routed(s) => Agrees(s, store'[At(s)], host[s].batch, wire)

LEMMA SameTurned ==
    ASSUME TypeOK, EntriesOK, store' = store, NEW j \in Joiner
    PROVE  Turned(j)
<1>1. store' \in [Locator -> EntryType \cup {Absent}] /\ EntriesOK'
  BY Zenon DEF TypeOK, EntriesOK
<1>2. \A k \in Locator, i \in Joiner : Untouched(store[k], store'[k], i)
  BY SameUntouched, Zenon
<1> QED
  BY <1>1, <1>2, Zenon DEF Turned, Routed

LEMMA BecomesTurned ==
    ASSUME TypeOK, HostsOK, EntriesOK, NEW j \in Joiner, NEW l \in Locator, NEW d,
           EntryBecomes(l, d), EntryOK(d),
           \A i \in Joiner : i # j => /\ d.stage[i] = store[l].stage[i]
                                      /\ d.box[i] = store[l].box[i],
           d.stage[j] # "transfer" \/ d.stage[j] = store[l].stage[j],
           \A s \in Session, b \in Seq(Message) :
             Agrees(s, store[l], b, wire) => Agrees(s, d, b, wire)
    PROVE  Turned(j)
<1>1. /\ store[l] \in EntryType /\ d \in EntryType /\ d.by = store[l].by
      /\ store' = [store EXCEPT ![l] = d]
  BY Zenon DEF EntryBecomes
<1>2. store'[l] = d /\ \A k \in Locator : k # l => store'[k] = store[k]
  BY <1>1, StoreSet, Zenon
<1>3. EntriesOK'
  BY <1>1, EntriesKept, Zenon
<1>4. store' \in [Locator -> EntryType \cup {Absent}]
  BY <1>1, Zenon DEF TypeOK
<1>5. store[l] # Absent
  BY <1>1, EntryIsThere, Zenon
<1>6. ASSUME NEW k \in Locator, NEW i \in Joiner, i # j
      PROVE  Untouched(store[k], store'[k], i)
  <2>1. CASE k = l
    <3>1. d.stage[i] = store[l].stage[i] /\ d.box[i] = store[l].box[i]
      BY <1>6, Zenon
    <3>2. Untouched(store[l], d, i)
      BY <1>1, <1>5, <3>1, Zenon DEF Untouched
    <3> QED
      BY <1>2, <2>1, <3>2, Zenon
  <2>2. CASE k # l
    BY <1>2, <2>2, SameUntouched, Zenon
  <2> QED
    BY <2>1, <2>2, Zenon
<1>7. \A i \in Joiner : d.stage[i] = "transfer" => store[l].stage[i] = "transfer"
  BY Zenon
<1>8. ASSUME NEW k \in Locator, NEW s \in Session, NEW i \in Joiner, HasTransfer(store'[k], s, i)
      PROVE  HasTransfer(store[k], s, i)
  BY <1>7, <1>8, NoNewTransfer
<1>9. ASSUME NEW s \in Session, host[s].at \in Hosting, Routed(s)
      PROVE  Agrees(s, store'[At(s)], host[s].batch, wire)
  <2>0. At(s) \in Locator /\ host[s].batch \in Seq(Message)
    BY <1>9, HostsAt, HostTypes, Zenon
  <2>1. CASE At(s) = l
    BY <1>2, <1>9, <2>0, <2>1, Zenon DEF Routed
  <2>2. CASE At(s) # l
    BY <1>2, <1>9, <2>0, <2>2, Zenon DEF Routed
  <2> QED
    BY <2>1, <2>2, Zenon
<1> QED
  BY <1>3, <1>4, <1>6, <1>8, <1>9, Zenon DEF Turned

(* A person's step keeps everything, whatever it comes to. *)
LEMMA JoinerKeeps ==
    ASSUME Inv, NEW j \in Joiner, Turned(j), UNCHANGED <<host, codes, wire, cancels, expired>>,
           faults' = faults \/ Fault("call"), LocatorOf(j) \in Locator,
           NEW to, to \in {"polling", "finishing", "in", "refused", "gaveup"}, Moves(j, to),
           to = "finishing" => MayFinish(store'[LocatorOf(j)], j),
           to = "in" => HasTransfer(store[LocatorOf(j)], CodeOf[j], j)
    PROVE  Inv'
<1>0. /\ TypeOK /\ HostsOK /\ CodesOK /\ CancelsOK /\ EntriesOK
      /\ PeopleOK /\ WireOK /\ CountsOK /\ RoutesOK
  BY Zenon DEF Inv
<1>1. join'[j] = to /\ \A i \in Joiner : i # j => join'[i] = join[i]
  BY <1>0, JoinSet, Zenon
<1>2. to # "idle" /\ to \in {"idle", "polling", "finishing"} \cup Done
  BY DEF Done
<1>3. TypeOK'
  <2>1. join' \in [Joiner -> {"idle", "polling", "finishing"} \cup Done]
    BY <1>0, <1>2, Zenon DEF TypeOK, Moves
  <2>2. faults' \in Seq({"call", "restart"})
    BY <1>0, FaultType, Zenon
  <2> QED
    BY <1>0, <2>1, <2>2, Zenon DEF TypeOK, Turned
<1>4. HostsOK' /\ CancelsOK' /\ WireOK'
  BY <1>0, Zenon DEF HostsOK, CancelsOK, WireOK, ReplyOK, At
<1>5. CodesOK'
  BY <1>0, CodesSame, Zenon
<1>6. LocatorOf(j)' = LocatorOf(j) /\ FixedLocators
  BY Zenon DEF LocatorOf, At, FixedLocators
<1>7. PeopleOK'
  <2> SUFFICES ASSUME NEW i \in Joiner
               PROVE  PersonOK(i)'
    BY Zenon DEF PeopleOK
  <2>1. CASE i # j
    <3>1. join'[i] = join[i] /\ PersonOK(i)
      BY <1>0, <1>1, <2>1, Zenon DEF PeopleOK
    <3>2. \A l \in Locator : Untouched(store[l], store'[l], i)
      BY <2>1, Zenon DEF Turned
    <3> QED
      BY <1>6, <3>1, <3>2, PersonKept, Zenon
  <2>2. CASE i = j
    BY <1>1, <1>2, <1>6, <2>2, Zenon DEF PersonOK
  <2> QED
    BY <2>1, <2>2, Zenon
<1>8. CountsOK'
  <2>1. ASSUME NEW s \in Session, NEW i \in Joiner, i \in Served(s)'
        PROVE  i \in Served(s)
    <3>1. CASE CodeOf[i] = s /\ join'[i] = "in"
      <4>1. CASE i # j
        BY <1>1, <3>1, <4>1, Zenon DEF Served
      <4>2. CASE i = j
        <5>1. HasTransfer(store[LocatorOf(j)], s, i)
          BY <1>1, <3>1, <4>2, Zenon
        <5> QED
          BY <5>1, Zenon DEF Served
      <4> QED
        BY <4>1, <4>2, Zenon
    <3>2. CASE TransferOf(s, i) \in wire'
      BY <3>2, Zenon DEF Served
    <3>3. CASE \E l \in Locator : HasTransfer(store'[l], s, i)
      BY <3>3, Zenon DEF Served, Turned
    <3> QED
      BY <2>1, <3>1, <3>2, <3>3, Zenon DEF Served
  <2>2. \A s \in Session : Served(s)' \subseteq Joiner
    BY Zenon DEF Served
  <2>3. \A s \in Session : Served(s)' \subseteq Served(s)
    BY <2>1, <2>2, Zenon
  <2> QED
    BY <1>0, <2>3, ServedFewer, Zenon
<1>9. RoutesOK'
  <2> SUFFICES ASSUME NEW s \in Session, host'[s].at \in Hosting, s \notin expired', ~Restarted'
               PROVE  Routed(s)'
    BY Zenon DEF RoutesOK
  <2>1. ~Restarted /\ s \notin expired /\ host[s].at \in Hosting
    BY <1>0, FaultKept, Zenon
  <2>2. Agrees(s, store'[At(s)], host[s].batch, wire)
    BY <1>0, <2>1, Zenon DEF RoutesOK, Turned
  <2> QED
    BY <2>2, Zenon DEF Routed, At
<1> QED
  BY <1>3, <1>4, <1>5, <1>7, <1>8, <1>9, Zenon DEF Inv, Turned

LEMMA SendsKeeps ==
    ASSUME Inv, NEW j \in Joiner, NEW kind, kind \in {"start", "finish"}, Sends(j, kind),
           kind = "finish" => MayFinish(store[LocatorOf(j)], j), LocatorOf(j) \in Locator,
           UNCHANGED <<host, codes, wire, cancels, expired>>
    PROVE  Inv'
<1> DEFINE l == LocatorOf(j)
           e == store[l]
           d == pairingDeliver(e, j, kind)
<1>0. TypeOK /\ HostsOK /\ EntriesOK
  BY Zenon DEF Inv
<1>1. /\ "polling" \in {"polling", "finishing", "in", "refused", "gaveup"}
      /\ "gaveup" \in {"polling", "finishing", "in", "refused", "gaveup"}
      /\ "refused" \in {"polling", "finishing", "in", "refused", "gaveup"}
      /\ \A to \in {"polling", "gaveup", "refused"} : to # "finishing" /\ to # "in"
  OBVIOUS
<1>2. ASSUME Turned(j) PROVE Inv'
  <2>1. CASE Moves(j, "polling") /\ faults' = faults
    BY <1>1, <1>2, <2>1, JoinerKeeps, Zenon
  <2>2. CASE Moves(j, "gaveup") /\ Fault("call")
    BY <1>1, <1>2, <2>2, JoinerKeeps, Zenon
  <2>3. CASE Moves(j, "refused") /\ faults' = faults
    BY <1>1, <1>2, <2>3, JoinerKeeps, Zenon
  <2> QED
    BY <2>1, <2>2, <2>3, Zenon DEF Sends
<1>3. CASE ~Accepts(store[l], j, kind)
  <2>1. store' = store
    BY <1>3, Zenon DEF Sends
  <2> QED
    BY <1>0, <1>2, <2>1, SameTurned, Zenon
<1>4. CASE Accepts(store[l], j, kind)
  <2>1. store' = [store EXCEPT ![l] = d]
    BY <1>4, Zenon DEF Sends
  <2>2. e.by # Nobody /\ (kind = "finish" => e.stage[j] = "response")
    BY <1>4, Zenon DEF Accepts
  <2>3. e # Absent
    BY <2>2 DEF Absent
  <2>4. e \in EntryType /\ EntryOK(e)
    BY <1>0, <2>3, StoreTypes, Zenon DEF EntriesOK
  <2>5. kind = "finish" => e.by = CodeOf[j] /\ e.box[j] = <<>>
    <3>1. "response" # "none"
      OBVIOUS
    <3> QED
      BY <2>2, <2>3, <3>1, Zenon DEF MayFinish
  <2>6. Accepts(e, j, kind)
    BY <1>4, Zenon
  <2> HIDE DEF e
  <2>7. EntryOK(d)
    BY <2>4, <2>5, <2>6, AskKeepsEntry, Zenon
  <2>8. TakesAsk(e, d, j, kind)
    BY <2>4, AskDelivered, Zenon
  <2>9. ASSUME NEW s \in Session, NEW b \in Seq(Message), Agrees(s, e, b, wire)
        PROVE  Agrees(s, d, b, wire)
    <3>1. wire \in SUBSET Replies
      BY <1>0, Zenon DEF TypeOK
    <3> QED
      BY <2>4, <2>6, <2>9, <3>1, AskAgrees
  <2> HIDE DEF d
  <2>10. /\ d \in EntryType /\ d.by = e.by /\ d.stage = [e.stage EXCEPT ![j] = kind]
         /\ d.box = e.box
    BY <2>8, Zenon DEF TakesAsk
  <2>11. EntryBecomes(l, d)
    BY <2>1, <2>4, <2>10, Zenon DEF EntryBecomes, e
  <2>12. e.stage \in [Joiner -> Stages]
    BY <2>4, EntryFields, Zenon
  <2>13. \A i \in Joiner : i # j => d.stage[i] = e.stage[i] /\ d.box[i] = e.box[i]
    BY <2>10, <2>12, Zenon
  <2>14. d.stage[j] # "transfer"
    <3>1. d.stage[j] = kind
      BY <2>10, <2>12, Zenon
    <3> QED
      BY <3>1
  <2>15. Turned(j)
    BY <1>0, <2>7, <2>9, <2>11, <2>13, <2>14, BecomesTurned, Zenon DEF e
  <2> QED
    BY <1>2, <2>15, Zenon
<1> QED
  BY <1>3, <1>4, Zenon

LEMMA StartKeeps ==
    ASSUME Inv, NEW j \in Joiner, Start(j)
    PROVE  Inv'
<1>1. /\ Sends(j, "start") /\ UNCHANGED <<host, codes, wire, cancels, expired>>
      /\ LocatorOf(j) \in Locator
  BY Zenon DEF Start
<1>2. "start" # "finish"
  OBVIOUS
<1> QED
  BY <1>1, <1>2, SendsKeeps, Zenon

LEMMA StartedSomewhere ==
    ASSUME PeopleOK, NEW j \in Joiner, join[j] \in {"polling", "finishing"}
    PROVE  LocatorOf(j) \in Locator
<1>1. join[j] # "idle"
  OBVIOUS
<1> QED
  BY <1>1, Zenon DEF PeopleOK, PersonOK

LEMMA FinishKeeps ==
    ASSUME Inv, NEW j \in Joiner, Finish(j)
    PROVE  Inv'
<1>0. PeopleOK
  BY Zenon DEF Inv
<1>1. /\ Sends(j, "finish") /\ UNCHANGED <<host, codes, wire, cancels, expired>>
      /\ join[j] = "finishing"
  BY Zenon DEF Finish
<1>2. LocatorOf(j) \in Locator
  BY <1>0, <1>1, StartedSomewhere, Zenon
<1>3. MayFinish(store[LocatorOf(j)], j)
  BY <1>0, <1>1, Zenon DEF PeopleOK, PersonOK
<1> QED
  BY <1>1, <1>2, <1>3, SendsKeeps, Zenon

LEMMA GiveUpKeeps ==
    ASSUME Inv, NEW j \in Joiner, GiveUp(j)
    PROVE  Inv'
<1>0. PeopleOK /\ TypeOK /\ EntriesOK
  BY Zenon DEF Inv
<1>1. /\ Moves(j, "gaveup") /\ UNCHANGED <<store, host, codes, wire, cancels, expired, faults>>
      /\ join[j] \in {"polling", "finishing"}
  BY Zenon DEF GiveUp
<1>2. LocatorOf(j) \in Locator
  BY <1>0, <1>1, StartedSomewhere, Zenon
<1>3. Turned(j)
  BY <1>0, <1>1, SameTurned, Zenon
<1>4. "gaveup" \in {"polling", "finishing", "in", "refused", "gaveup"}
  OBVIOUS
<1>5. "gaveup" # "in" /\ "gaveup" # "finishing"
  OBVIOUS
<1> QED
  BY <1>1, <1>2, <1>3, <1>4, <1>5, JoinerKeeps, Zenon

(* What a box holds, to the person who polls it. *)
LEMMA Polled ==
    ASSUME NEW e \in EntryType, EntryOK(e), NEW j \in Joiner, e.box[j] # <<>>
    PROVE  /\ Head(e.box[j]) = e.stage[j]
           /\ e.stage[j] \in {"response", "transfer"}
           /\ e.stage[j] = "transfer" => e.by = CodeOf[j]
<1>1. e.box[j] = <<e.stage[j]>>
  BY Zenon DEF EntryOK
<1>2. Head(e.box[j]) = e.stage[j]
  BY <1>1
<1>3. e.box[j] \in {<<"response">>, <<"transfer">>}
  BY EntryFields, Zenon
<1>4. e.stage[j] \in {"response", "transfer"}
  BY <1>2, <1>3
<1> QED
  BY <1>2, <1>4, Zenon DEF EntryOK

LEMMA JoinPollKeeps ==
    ASSUME Inv, NEW j \in Joiner, JoinPoll(j)
    PROVE  Inv'
<1> DEFINE l == LocatorOf(j)
           e == store[l]
           d == [e EXCEPT !.box[j] = <<>>]
<1>0. TypeOK /\ HostsOK /\ EntriesOK /\ PeopleOK
  BY Zenon DEF Inv
<1>1. join[j] = "polling" /\ UNCHANGED <<host, codes, wire, cancels, expired>>
  BY Zenon DEF JoinPoll
<1>2. l \in Locator
  BY <1>0, <1>1, StartedSomewhere, Zenon
<1>3. /\ "finishing" \in {"polling", "finishing", "in", "refused", "gaveup"}
      /\ "gaveup" \in {"polling", "finishing", "in", "refused", "gaveup"}
      /\ "refused" \in {"polling", "finishing", "in", "refused", "gaveup"}
      /\ "in" \in {"polling", "finishing", "in", "refused", "gaveup"}
      /\ \A to \in {"gaveup", "refused"} : to # "finishing" /\ to # "in"
      /\ "in" # "finishing"
  OBVIOUS
<1>4. CASE PollRefused(e, j)
  <2>1. Moves(j, "refused") /\ store' = store /\ faults' = faults
    BY <1>4, Zenon DEF JoinPoll
  <2>2. Turned(j)
    BY <1>0, <2>1, SameTurned, Zenon
  <2> QED
    BY <1>1, <1>2, <1>3, <2>1, <2>2, JoinerKeeps, Zenon
<1>5. CASE ~PollRefused(e, j)
  <2>1. /\ e.box[j] # <<>> /\ store' = [store EXCEPT ![l].box[j] = <<>>]
        /\ \/ /\ Moves(j, CASE Head(e.box[j]) = "transfer" -> "in"
                            [] Head(e.box[j]) = "response" ->
                                 IF Opens(j) THEN "finishing" ELSE "refused")
              /\ faults' = faults
           \/ Moves(j, "gaveup") /\ Fault("call")
    BY <1>5, Zenon DEF JoinPoll
  <2>2. e.by # Nobody
    BY <1>5, Zenon DEF PollRefused
  <2>3. e # Absent
    BY <2>2 DEF Absent
  <2>4. e \in EntryType /\ EntryOK(e)
    BY <1>0, <1>2, <2>3, StoreTypes, Zenon DEF EntriesOK
  <2>5. /\ Head(e.box[j]) = e.stage[j]
        /\ e.stage[j] \in {"response", "transfer"}
        /\ e.stage[j] = "transfer" => e.by = CodeOf[j]
    BY <2>1, <2>4, Polled, Zenon
  <2>6. store' = [store EXCEPT ![l] = d]
    BY <2>1, Zenon
  <2>7. \/ Moves(j, "in") /\ faults' = faults /\ e.stage[j] = "transfer"
        \/ Moves(j, "finishing") /\ faults' = faults /\ e.stage[j] = "response" /\ Opens(j)
        \/ Moves(j, "refused") /\ faults' = faults
        \/ Moves(j, "gaveup") /\ Fault("call")
    BY <2>1, <2>5, Zenon
  <2> HIDE DEF e
  <2>8a. PolledFrom(e, d, j)
    BY <2>4, PolledEntry, Zenon
  <2> HIDE DEF d
  <2>8. /\ d \in EntryType /\ EntryOK(d) /\ d.by = e.by /\ d.stage = e.stage
        /\ d.inbox = e.inbox /\ d.box = [e.box EXCEPT ![j] = <<>>]
    BY <2>8a, Zenon DEF PolledFrom
  <2>9. EntryBecomes(l, d)
    BY <2>4, <2>6, <2>8, Zenon DEF EntryBecomes, e
  <2>10. \A i \in Joiner : i # j => d.stage[i] = e.stage[i] /\ d.box[i] = e.box[i]
    BY <2>4, <2>8, EntryFields, Zenon
  <2>11. d.box[j] = <<>> /\ d.stage[j] = e.stage[j]
    BY <2>4, <2>8, EntryFields, Zenon
  <2>12. ASSUME NEW s \in Session, NEW b \in Seq(Message), Agrees(s, e, b, wire)
         PROVE  Agrees(s, d, b, wire)
    <3>1. d # Absent
      BY <2>8, EntryIsThere, Zenon
    <3> QED
      BY <2>8, <2>12, <3>1, SameAgrees, Zenon
  <2>13. Turned(j)
    BY <1>0, <1>2, <2>8, <2>9, <2>10, <2>11, <2>12, BecomesTurned, Zenon DEF e
  <2>14. store'[l] = d
    BY <1>0, <1>2, <2>6, StoreSet, Zenon
  <2>15. CASE Moves(j, "in") /\ faults' = faults /\ e.stage[j] = "transfer"
    <3>1. HasTransfer(store[l], CodeOf[j], j)
      BY <2>3, <2>5, <2>15, Zenon DEF HasTransfer, e
    <3> QED
      BY <1>1, <1>2, <1>3, <2>13, <2>15, <3>1, JoinerKeeps, Zenon
  <2>16. CASE Moves(j, "finishing") /\ faults' = faults /\ e.stage[j] = "response" /\ Opens(j)
    <3>1. e.by = CodeOf[j]
      BY <2>16, Zenon DEF Opens, e
    <3>2. MayFinish(store'[l], j)
      BY <2>8, <2>11, <2>14, <2>16, <3>1, Zenon DEF MayFinish
    <3> QED
      BY <1>1, <1>2, <1>3, <2>13, <2>16, <3>2, JoinerKeeps, Zenon
  <2>17. CASE Moves(j, "refused") /\ faults' = faults
    BY <1>1, <1>2, <1>3, <2>13, <2>17, JoinerKeeps, Zenon
  <2>18. CASE Moves(j, "gaveup") /\ Fault("call")
    BY <1>1, <1>2, <1>3, <2>13, <2>18, JoinerKeeps, Zenon
  <2> QED
    BY <2>7, <2>15, <2>16, <2>17, <2>18, Zenon
<1> QED
  BY <1>4, <1>5, Zenon

-----------------------------------------------------------------------------
(* The invariant. *)

(* Joiners are finitely many, and so is any set of them. *)
LEMMA CountingHolds == Counting
<1>1. ASSUME NEW S \in SUBSET Joiner
      PROVE  IsFiniteSet(S) /\ Cardinality(S) \in Nat
  BY PairingConstants, FS_Subset, FS_CardinalityType, Zenon
<1>2. ASSUME NEW S \in SUBSET Joiner, NEW T \in SUBSET S
      PROVE  Cardinality(T) <= Cardinality(S)
  BY <1>1, FS_Subset, Zenon
<1>3. ASSUME NEW S \in SUBSET Joiner, NEW j \in Joiner \ S
      PROVE  Cardinality(S \cup {j}) = Cardinality(S) + 1
  BY <1>1, FS_AddElement, Zenon
<1>4. Cardinality({}) = 0
  BY FS_EmptySet, Zenon
<1> QED
  BY <1>1, <1>2, <1>3, <1>4, Zenon DEF Counting

LEMMA InitOK == Init => Inv
<1> SUFFICES ASSUME Init PROVE Inv
  OBVIOUS
<1> DEFINE h == [at |-> "none", tries |-> 1, locator |-> Nobody, batch |-> <<>>,
                 joined |-> 0, attempts |-> 0, pending |-> {}, closed |-> FALSE]
<1>1. /\ store = [l \in Locator |-> Absent] /\ host = [s \in Session |-> h]
      /\ join = [j \in Joiner |-> "idle"]
      /\ codes = [session |-> Nobody, pending |-> Nobody, live |-> Nobody]
      /\ wire = {} /\ cancels = {} /\ expired = {} /\ faults = <<>>
  BY Zenon DEF Init
<1>2. /\ <<>> \in Seq(Message) /\ 0 \in Nat /\ 1 \in Nat
      /\ "none" \in {"none", "creating", "over"} \cup Hosting /\ "none" \notin Hosting
      /\ "none" # "creating" /\ <<>> \in Seq({"call", "restart"}) /\ Len(<<>>) = 0
      /\ "idle" # "in" /\ "idle" # "finishing"
  BY DEF Hosting
<1>3. h \in HostType
  BY <1>2, Zenon DEF HostType
<1>4. h.at = "none" /\ h.locator = Nobody /\ h.joined = 0 /\ h.batch = <<>> /\ h.closed = FALSE
  BY Zenon
<1>5. HostOK(h)
  <2>1. 0 <= Uses /\ 0 < Uses
    BY PairingConstants
  <2> QED
    BY <1>2, <1>4, <2>1, Zenon DEF HostOK
<1> HIDE DEF h
<1>6. \A s \in Session : host[s] = h
  BY <1>1, Zenon
<1>7. \A l \in Locator : store[l] = Absent
  BY <1>1, Zenon
<1>8. codes \in CodesType /\ codes.session = Nobody /\ codes.pending = Nobody /\ codes.live = Nobody
  BY <1>1, Zenon DEF CodesType
<1>9. TypeOK
  <2>1. join \in [Joiner -> {"idle", "polling", "finishing"} \cup Done]
    BY <1>1, Zenon
  <2>2. store \in [Locator -> EntryType \cup {Absent}] /\ host \in [Session -> HostType]
    BY <1>1, <1>3, Zenon
  <2> QED
    BY <1>1, <1>2, <1>8, <2>1, <2>2, Zenon DEF TypeOK
<1>10. EntriesOK /\ HostsOK /\ CancelsOK /\ WireOK
  BY <1>1, <1>5, <1>6, <1>7, Zenon DEF EntriesOK, HostsOK, CancelsOK, WireOK
<1>11. \A j \in Joiner : join[j] = "idle"
  BY <1>1, Zenon
<1>12. PeopleOK
  BY <1>2, <1>7, <1>11, Zenon DEF PeopleOK, PersonOK, NoAttempt
<1>13. CodesOK
  <2>1. {s \in Session : host[s].at = "creating"} = {codes.pending} \ {Nobody}
    BY <1>2, <1>4, <1>6, <1>8, Zenon
  <2>2. {s \in Session : host[s].at \in Hosting} = {codes.session} \ {Nobody}
    BY <1>2, <1>4, <1>6, <1>8, Zenon
  <2> QED
    BY <1>8, <2>1, <2>2, Zenon DEF CodesOK, ShownIsHosted, Hosting
<1>14. CountsOK
  <2> SUFFICES ASSUME NEW s \in Session
               PROVE  Cardinality(Served(s)) <= host[s].joined
    BY CountingHolds, Zenon DEF CountsOK
  <2>1. Served(s) = {}
    BY <1>1, <1>2, <1>7, <1>11, Zenon DEF Served, HasTransfer
  <2>2. Cardinality({}) = 0
    BY FS_EmptySet, Zenon
  <2>3. host[s].joined = 0
    BY <1>4, <1>6, Zenon
  <2> QED
    BY <2>1, <2>2, <2>3
<1>15. RoutesOK
  BY <1>2, <1>4, <1>6, Zenon DEF RoutesOK
<1> QED
  BY <1>9, <1>10, <1>12, <1>13, <1>14, <1>15, Zenon DEF Inv

LEMMA StutterOK ==
    ASSUME Inv, UNCHANGED vars
    PROVE  Inv'
<1>1. /\ store' = store /\ UNCHANGED <<join, wire, expired>> /\ faults' = faults
      /\ UNCHANGED <<host, codes, cancels>>
  BY DEF vars
<1>2. wire' \subseteq wire /\ expired \subseteq expired' /\ expired' \subseteq Session
  BY <1>1, Zenon DEF Inv, TypeOK
<1> QED
  BY <1>1, <1>2, IdleKeeps, Zenon

LEMMA NextOK == Inv /\ [Next]_vars => Inv'
<1> SUFFICES ASSUME Inv, [Next]_vars PROVE Inv'
  OBVIOUS
<1>1. ASSUME NEW s \in Session, hostShortCode(s) PROVE Inv'
  BY <1>1, hostShortCodeKeeps, Zenon
<1>2. ASSUME NEW s \in Session, create(s) PROVE Inv'
  BY <1>2, createKeeps, Zenon
<1>3. ASSUME NEW s \in Session, HostPoll(s) PROVE Inv'
  BY <1>3, HostPollKeeps, Zenon
<1>4. ASSUME NEW s \in Session, HostTakes(s) PROVE Inv'
  BY <1>4, HostTakesKeeps, Zenon
<1>5. ASSUME NEW s \in Session, HostLapses(s) PROVE Inv'
  BY <1>5, HostLapsesKeeps, Zenon
<1>6. ASSUME NEW s \in Session, Cancel(s) PROVE Inv'
  BY <1>6, CancelKeeps, Zenon
<1>7. ASSUME NEW s \in Session, Expire(s) PROVE Inv'
  BY <1>7, ExpireKeeps, Zenon
<1>8. CASE cancelShortCode
  BY <1>8, cancelShortCodeKeeps, Zenon
<1>9. ASSUME NEW m \in wire, Reply(m) PROVE Inv'
  BY <1>9, ReplyKeeps, Zenon
<1>10. ASSUME NEW l \in Locator, EntryExpires(l) PROVE Inv'
  BY <1>10, EntryExpiresKeeps, Zenon
<1>11. CASE Restart
  BY <1>11, RestartKeeps, Zenon
<1>12. ASSUME NEW j \in Joiner, Start(j) PROVE Inv'
  BY <1>12, StartKeeps, Zenon
<1>13. ASSUME NEW j \in Joiner, Finish(j) PROVE Inv'
  BY <1>13, FinishKeeps, Zenon
<1>14. ASSUME NEW j \in Joiner, JoinPoll(j) PROVE Inv'
  BY <1>14, JoinPollKeeps, Zenon
<1>15. ASSUME NEW j \in Joiner, GiveUp(j) PROVE Inv'
  BY <1>15, GiveUpKeeps, Zenon
<1>16. CASE UNCHANGED vars
  BY <1>16, StutterOK, Zenon
<1> QED
  BY <1>1, <1>2, <1>3, <1>4, <1>5, <1>6, <1>7, <1>8, <1>9, <1>10, <1>11, <1>12, <1>13,
     <1>14, <1>15, <1>16, Zenon DEF Next, HostStep, JoinStep

LEMMA InvHolds == Spec => []Inv
<1>1. Init /\ [][Next]_vars => []Inv
  BY InitOK, NextOK, PTL
<1> QED
  BY <1>1, PTL DEF Spec

LEMMA UsesFromInv ==
    ASSUME Inv
    PROVE  UsesKept
<1>0. TypeOK /\ HostsOK /\ CountsOK /\ EntriesOK
  BY Zenon DEF Inv
<1>c. Counting
  BY <1>0, Zenon DEF CountsOK
<1>1. ASSUME NEW s \in Session, NEW S, S \subseteq Served(s)
      PROVE  Cardinality(S) <= host[s].joined
  <2>1. Served(s) \in SUBSET Joiner /\ S \in SUBSET Served(s) /\ S \in SUBSET Joiner
    BY <1>1, Zenon DEF Served
  <2>2. Cardinality(S) \in Nat /\ Cardinality(Served(s)) \in Nat
    BY <1>c, <2>1, Counted, Zenon
  <2>3. Cardinality(S) <= Cardinality(Served(s))
    BY <1>c, <2>1, FewerCounted, Zenon
  <2>4. Cardinality(Served(s)) <= host[s].joined /\ host[s].joined \in Nat
    BY <1>0, HostTypes, Zenon DEF CountsOK
  <2> QED
    BY <2>2, <2>3, <2>4
<1>2. ASSUME NEW s \in Session
      PROVE  /\ Cardinality({j \in Joiner : CodeOf[j] = s /\ join[j] = "in"}) <= host[s].joined
             /\ host[s].joined <= Uses
  <2>1. {j \in Joiner : CodeOf[j] = s /\ join[j] = "in"} \subseteq Served(s)
    BY Zenon DEF Served
  <2> QED
    BY <1>0, <1>1, <2>1, Zenon DEF HostsOK, HostOK
<1>3. ASSUME NEW l \in Locator, store[l] # Absent
      PROVE  store[l].delivered <= host[store[l].by].joined
  <2>1. store[l] \in EntryType /\ store[l].by \in Session
    BY <1>0, <1>3, StoreTypes, EntryIsThere, Zenon
  <2>2. Transfers(store[l]) \subseteq Served(store[l].by)
    BY <1>3, Zenon DEF Transfers, Served, HasTransfer
  <2>3. store[l].delivered = Cardinality(Transfers(store[l]))
    BY <1>0, <1>3, Zenon DEF EntriesOK, EntryOK
  <2> QED
    BY <1>1, <2>1, <2>2, <2>3, Zenon
<1> QED
  BY <1>2, <1>3, Zenon DEF UsesKept

(* A person whose answer is a transfer is one more than those transferred.  *)
LEMMA RoutedFromInv ==
    ASSUME Inv
    PROVE  RunningIsRouted
<1>0. TypeOK /\ HostsOK /\ CountsOK /\ EntriesOK /\ WireOK /\ RoutesOK
  BY Zenon DEF Inv
<1>c. Counting
  BY <1>0, Zenon DEF CountsOK
<1> SUFFICES ASSUME NEW s \in Session, host[s].at \in Hosting, s \notin expired, ~Restarted
             PROVE  Held(s) /\ \A m \in wire : m.by = s => Accepts(store[At(s)], m.to, m.kind)
  BY Zenon DEF RunningIsRouted, Hosting
<1> DEFINE e == store[At(s)]
<1>1. Agrees(s, e, host[s].batch, wire) /\ At(s) \in Locator
  BY <1>0, HostsAt, Zenon DEF RoutesOK, Routed
<1>2. e # Absent /\ e.by = s
  BY <1>1, AgreesFields, Zenon
<1>3. e \in EntryType /\ EntryOK(e) /\ e.by # Nobody
  BY <1>0, <1>1, <1>2, StoreTypes, EntryIsThere, Zenon DEF EntriesOK
<1>4. Transfers(e) \subseteq Served(s) /\ Served(s) \in SUBSET Joiner /\ Transfers(e) \in SUBSET Joiner
  BY <1>1, <1>2, Zenon DEF Transfers, Served, HasTransfer
<1>5. /\ Cardinality(Served(s)) <= host[s].joined /\ host[s].joined <= Uses
      /\ host[s].joined \in Nat /\ (~host[s].closed => host[s].joined < Uses)
  BY <1>0, HostTypes, Zenon DEF CountsOK, HostsOK, HostOK
<1>6. /\ e.delivered = Cardinality(Transfers(e)) /\ (e.closed => e.delivered >= Uses)
      /\ e.closed \in BOOLEAN
  BY <1>3, EntryFields, Zenon DEF EntryOK
<1>7. /\ Cardinality(Served(s)) \in Nat /\ Cardinality(Transfers(e)) \in Nat
      /\ Cardinality(Transfers(e)) <= Cardinality(Served(s))
  BY <1>c, <1>4, Counted, FewerCounted, Zenon
<1>8. ASSUME NEW m \in wire, m.by = s
      PROVE  Accepts(e, m.to, m.kind)
  <2>1. m \in Replies /\ m.to \in Joiner /\ m.kind \in {"response", "transfer"}
    BY <1>0, Zenon DEF TypeOK, Replies
  <2>2. e.stage[m.to] = Asked(m.kind)
    BY <1>1, <1>8, Zenon DEF Agrees
  <2>3. CASE m.kind = "response"
    <3>1. "polling" \notin {"replying", "over"} /\ "over" \notin Hosting
      BY DEF Hosting
    <3>2. host[s].at = "replying"
      BY <1>0, <1>8, <3>1, Zenon DEF WireOK, ReplyOK, Hosting
    <3>3. ~host[s].closed
      BY <1>0, <1>8, <2>3, <3>2, Zenon DEF WireOK, ReplyOK
    <3>4. ~e.closed
      BY <1>5, <1>6, <1>7, <3>3, PairingConstants
    <3>5. e.stage[m.to] = "start"
      BY <2>2, <2>3 DEF Asked
    <3> QED
      BY <1>3, <2>3, <3>4, <3>5, Zenon DEF Accepts
  <2>4. CASE m.kind = "transfer"
    <3>1. e.stage[m.to] = "finish" /\ "finish" # "transfer"
      BY <2>2, <2>4 DEF Asked
    <3>2. m.to \notin Transfers(e)
      BY <3>1, Zenon DEF Transfers
    <3>3. m = [by |-> m.by, to |-> m.to, kind |-> m.kind]
      BY <2>1 DEF Replies
    <3>4. m.to \in Served(s)
      BY <1>8, <2>1, <2>4, <3>3, Zenon DEF Served, TransferOf
    <3>5. Transfers(e) \cup {m.to} \in SUBSET Served(s) /\ Transfers(e) \cup {m.to} \in SUBSET Joiner
      BY <1>4, <2>1, <3>4, Zenon
    <3>6. Cardinality(Transfers(e) \cup {m.to}) = Cardinality(Transfers(e)) + 1
      BY <1>c, <1>4, <2>1, <3>2, ExactlyOneMore, Zenon
    <3>7. Cardinality(Transfers(e) \cup {m.to}) <= Cardinality(Served(s))
      BY <1>c, <1>4, <3>5, FewerCounted, Zenon
    <3>8. ~e.closed
      BY <1>5, <1>6, <1>7, <3>6, <3>7, PairingConstants
    <3> QED
      BY <1>3, <2>4, <3>1, <3>8, Zenon DEF Accepts
  <2> QED
    BY <2>1, <2>3, <2>4, Zenon
<1> QED
  BY <1>2, <1>8, Zenon DEF Held

-----------------------------------------------------------------------------
(* A transfer waits at the relay for j. *)
TransferWaits(j) ==
    /\ LocatorOf(j) \in Locator
    /\ store[LocatorOf(j)] # Absent
    /\ store[LocatorOf(j)].box[j] # <<>>
    /\ store[LocatorOf(j)].stage[j] = "transfer"

LEMMA NotRefused ==
    ASSUME Inv, [Next]_vars, NEW j \in Joiner, TransferWaits(j)
    PROVE  join'[j] # "refused" \/ join[j] = "refused"
<1> DEFINE e == store[LocatorOf(j)]
<1>0. TypeOK /\ EntriesOK /\ PeopleOK
  BY Zenon DEF Inv
<1>1. /\ LocatorOf(j) \in Locator /\ e # Absent /\ e.box[j] # <<>> /\ e.stage[j] = "transfer"
  BY Zenon DEF TransferWaits
<1>2. e \in EntryType /\ EntryOK(e) /\ e.by # Nobody
  BY <1>0, <1>1, StoreTypes, EntryIsThere, Zenon DEF EntriesOK
<1>3. "transfer" # "none" /\ "transfer" # "response"
  OBVIOUS
<1>4. join[j] # "idle" /\ join[j] # "finishing"
  BY <1>0, <1>1, <1>3, Zenon DEF PeopleOK, PersonOK, NoAttempt, MayFinish
<1>5. ASSUME NEW i \in Joiner, Start(i) \/ Finish(i) \/ JoinPoll(i) \/ GiveUp(i)
      PROVE  join'[j] # "refused" \/ join[j] = "refused"
  <2>1. CASE i # j
    <3>1. \E to : Moves(i, to)
      BY <1>5, Zenon DEF Start, Finish, JoinPoll, GiveUp, Sends
    <3>2. join'[j] = join[j]
      BY <1>0, <2>1, <3>1, JoinSet, Zenon
    <3> QED
      BY <3>2, Zenon
  <2>2. CASE i = j
    <3>1. JoinPoll(j) \/ GiveUp(j)
      BY <1>4, <1>5, <2>2, Zenon DEF Start, Finish
    <3>2. CASE GiveUp(j)
      <4>1. join'[j] = "gaveup"
        BY <1>0, <3>2, JoinSet, Zenon DEF GiveUp
      <4> QED
        BY <4>1
    <3>3. CASE JoinPoll(j)
      <4>1. ~PollRefused(e, j)
        BY <1>1, <1>2, <1>3, Zenon DEF PollRefused
      <4>2. Head(e.box[j]) = "transfer"
        BY <1>1, <1>2, Polled, Zenon
      <4>3. \/ Moves(j, CASE Head(e.box[j]) = "transfer" -> "in"
                          [] Head(e.box[j]) = "response" ->
                               IF Opens(j) THEN "finishing" ELSE "refused")
            \/ Moves(j, "gaveup")
        BY <3>3, <4>1, Zenon DEF JoinPoll
      <4>4. Moves(j, "in") \/ Moves(j, "gaveup")
        BY <1>3, <4>2, <4>3
      <4>5. join'[j] \in {"in", "gaveup"}
        BY <1>0, <4>4, JoinSet, Zenon
      <4> QED
        BY <4>5
    <3> QED
      BY <3>1, <3>2, <3>3, Zenon
  <2> QED
    BY <2>1, <2>2, Zenon
<1>6. CASE join' = join
  BY <1>6, Zenon
<1>7. \/ join' = join
      \/ \E i \in Joiner : Start(i) \/ Finish(i) \/ JoinPoll(i) \/ GiveUp(i)
  <2>1. ASSUME NEW s \in Session, HostStep(s)
        PROVE  join' = join
    <3>1. create(s) => join' = join
      BY DEF create
    <3>2. HostPoll(s) => join' = join
      BY DEF HostPoll
    <3>3. HostTakes(s) => join' = join
      BY Zenon DEF HostTakes
    <3>4. HostLapses(s) => join' = join
      BY DEF HostLapses
    <3> QED
      BY <2>1, <3>1, <3>2, <3>3, <3>4, Zenon DEF HostStep
  <2>2. ASSUME NEW s \in Session, hostShortCode(s) \/ Cancel(s) \/ Expire(s)
        PROVE  join' = join
    BY <2>2, Zenon DEF hostShortCode, Cancel, Expire
  <2>3. ASSUME NEW m \in wire, Reply(m)
        PROVE  join' = join
    BY <2>3, Zenon DEF Reply
  <2>4. (cancelShortCode \/ Restart \/ \E l \in Locator : EntryExpires(l)) => join' = join
    BY Zenon DEF cancelShortCode, Restart, EntryExpires
  <2>5. UNCHANGED vars => join' = join
    BY DEF vars
  <2> QED
    BY <2>1, <2>2, <2>3, <2>4, <2>5, Zenon DEF Next, JoinStep
<1> QED
  BY <1>5, <1>6, <1>7, Zenon

-----------------------------------------------------------------------------
(* For any number of people, codes and uses, whatever calls are lost and     *)
(* whenever the relay restarts: those let in by a code, and those the relay  *)
(* counts as served, are among those its host counted, and the host counts   *)
(* no more than the code was made for.                                       *)
THEOREM UsesKeptHolds == Spec => []UsesKept
<1>1. Inv => UsesKept
  BY UsesFromInv, Zenon
<1> QED
  BY <1>1, InvHolds, PTL

(* The code on show is the one being hosted, and no other is: hostShortCode, *)
(* cancelShortCode and onStatus keep sessions, pending and live in step with *)
(* the runs of invite-pairing.ts.                                            *)
THEOREM ShownIsHostedHolds == Spec => []ShownIsHosted
<1>1. Inv => ShownIsHosted
  BY Zenon DEF Inv, CodesOK
<1> QED
  BY <1>1, InvHolds, PTL

(* Short of a restart, the relay answers for a code being hosted until its   *)
(* time is over, and takes every reply its host sends: nothing another code, *)
(* a cancel under way or a person's timing does makes pairingDeliver refuse  *)
(* one, which would end the code for everybody.                              *)
THEOREM RunningIsRoutedHolds == Spec => []RunningIsRouted
<1>1. Inv => RunningIsRouted
  BY RoutedFromInv, Zenon
<1> QED
  BY <1>1, InvHolds, PTL

(* A person whose transfer is in their box at the relay is not turned away   *)
(* by any step, the poll of a code that transfer closed included.            *)
THEOREM TransferCollectedHolds == Spec => TransferCollected
<1>1. ASSUME Inv, [Next]_vars
      PROVE  \A j \in Joiner : TransferWaits(j) => join'[j] # "refused" \/ join[j] = "refused"
  BY <1>1, NotRefused, Zenon
<1>2. Inv /\ [Next]_vars =>
        [\A j \in Joiner :
           /\ LocatorOf(j) \in Locator
           /\ store[LocatorOf(j)] # Absent
           /\ store[LocatorOf(j)].box[j] # <<>>
           /\ store[LocatorOf(j)].stage[j] = "transfer"
           => join'[j] # "refused" \/ join[j] = "refused"]_vars
  BY <1>1, Zenon DEF TransferWaits
<1>3. []Inv /\ [][Next]_vars => TransferCollected
  BY <1>2, PTL DEF TransferCollected
<1> QED
  BY <1>3, InvHolds, PTL DEF Spec

=============================================================================
