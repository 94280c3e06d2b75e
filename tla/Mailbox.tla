------------------------------- MODULE Mailbox -------------------------------
(***************************************************************************)
(* The offline mailbox: the relay that keeps sealed messages as plain      *)
(* files (relay/mailbox.go) and the devices that collect them              *)
(* (frontend/src/lib/transport/mailbox.svelte.ts).                         *)
(*                                                                         *)
(* The relay holds one lock, mailboxMu, through a deposit, an              *)
(* acknowledgement and each box of a sweep; a collection takes it only to  *)
(* read the ack index and reads the box without it.  The files survive a   *)
(* restart; the quota books (counters, shares, ages, the list of collected *)
(* blobs) live in memory and are rebuilt from the files at boot.           *)
(*                                                                         *)
(* Abstractions.  A blob's contents are its number, which grows like the   *)
(* nanosecond id; its size and its charge are one number of blocks.  The   *)
(* ack index costs a block for every device name in it.  Authentication    *)
(* and rate limits come before any state and are left out.  Removing a     *)
(* file does not fail here.  Writing one may: a blob's, and the ack        *)
(* index's, after which the code carries on with its counters unmoved.     *)
(***************************************************************************)
EXTENDS Integers, FiniteSets, Sequences, FiniteSetsExt, SequencesExt

CONSTANTS
  Box,            \* mailboxes, one for each identity
  Device,         \* browsers that collect
  BoxOf,          \* the mailbox of each device
  Source,         \* depositors' addresses that are charged a share
  Cost,           \* the charges of a blob
  MaxFiles, MaxBytes, MaxBoxes,      \* mailboxGlobalMax...
  MaxMsgs, MaxBoxBytes,              \* mailboxMaxMsgs, mailboxMaxBytes
  MaxHeld, MaxHeldBytes,             \* mailboxMaxHeld...PerSource
  MaxAckDevices, TTL,
  MaxDeposits,    \* bound: blobs ever written
  MaxNow,         \* bound: the clock
  MaxFaults       \* bound: restarts, failed writes, lost calls, failed
                  \* filings, and acks by an old build

ASSUME MailboxConstants ==
  /\ IsFiniteSet(Box) /\ IsFiniteSet(Device) /\ BoxOf \in [Device -> Box]
  /\ Cost \subseteq Nat \ {0}
  /\ \A n \in {MaxFiles, MaxBytes, MaxBoxes, MaxMsgs, MaxBoxBytes, MaxHeld,
               MaxHeldBytes, MaxAckDevices} : n \in Nat \ {0}

VARIABLES
  disk,   \* what is under mailboxDir, box by box
  books,  \* the relay's memory
  lock,   \* mailboxMu: the deposit whose blob is being written, or Free
  dev,    \* the calls of the collecting devices
  got,    \* which device has filed, or could not open, which blob (history)
  slip,   \* what failed writes of an index left uncounted (history)
  now, deposits, faults

vars == <<disk, books, lock, dev, got, slip, now, deposits, faults>>

Free == [held |-> FALSE]
Exempt == "exempt"    \* a proxy's address: charged to no share
NoAcks == [id \in {} |-> <<>>]

-----------------------------------------------------------------------------
(* Files. *)

NoBox == [dir |-> FALSE, blobs |-> {}, index |-> "none", acks |-> NoAcks, mod |-> 0]

Expired(at) == at < now - TTL

\* A truncated index costs its one block, a whole one a block a name.
IndexCost(d) ==
  CASE d.index = "none" -> 0
    [] d.index = "cut"  -> 1
    [] OTHER -> MapThenSumSet(LAMBDA id : Len(d.acks[id]), DOMAIN d.acks)

BytesIn(d) == MapThenSumSet(LAMBDA x : x.cost, d.blobs) + IndexCost(d)
FilesIn(d) == Cardinality(d.blobs) + (IF d.index = "none" THEN 0 ELSE 1)

ById(blobs) == SetToSortSeq(blobs, LAMBDA x, y : x.id < y.id)

Without(f, ids) == [id \in DOMAIN f \ ids |-> f[id]]

-----------------------------------------------------------------------------
(* The books, and operations on a world.  Its fate says which of the index *)
(* writes still ahead in this request fails, and how: before the file is   *)
(* touched, with the file created or truncated, or with all of it on disk. *)

Fine == [at |-> 0, how |-> "none"]

\* The fates of a request that writes at most n indexes.
Fates(n) ==
  {Fine} \cup IF faults = MaxFaults THEN {}
             ELSE [at : 1..n, how : {"open", "cut", "close"}]

World(o) == [disk |-> disk, books |-> books, slip |-> slip, fate |-> o]

\* The files are these now; what devices did with others no longer matters.
Stores(files) ==
  /\ disk' = files
  /\ got' = {g \in got : \E b \in Box : \E x \in files[b].blobs : x.id = g.id}

\* The request ends here, whatever was to fail in it has failed.
Becomes(w) ==
  /\ w.fate.at = 0
  /\ Stores(w.disk) /\ books' = w.books /\ slip' = w.slip

Faulty == faults < MaxFaults /\ faults' = faults + 1
Suffers(o) == IF o = Fine THEN UNCHANGED faults ELSE Faulty

mailboxForgetAcked(k, b, id) ==
  [k EXCEPT !.acked = SelectSeq(@, LAMBDA a : ~(a.box = b /\ a.id = id))]

AckedBytes(k) == FoldLeft(LAMBDA n, a : n + a.cost, 0, k.acked)

mailboxNoteAcked(k, b, x) ==
  IF \E i \in DOMAIN k.acked : k.acked[i].box = b /\ k.acked[i].id = x.id
  THEN k
  ELSE [k EXCEPT !.acked = Append(@, [box |-> b, id |-> x.id, cost |-> x.cost])]

mailboxRecordBlob(k, b, x, s) ==
  [k EXCEPT !.origin = @ \cup {[box |-> b, id |-> x.id, source |-> s, cost |-> x.cost]},
            !.held[s] = [files |-> @.files + 1, bytes |-> @.bytes + x.cost]]

\* mailboxForgetBlob as it was before a blob was charged to its source.
ForgetsOnlyTheAck(k, b, id) == mailboxForgetAcked(k, b, id)

mailboxForgetBlob(k, b, id) ==
  LET gone == {o \in k.origin : o.box = b /\ o.id = id}
      left == [k EXCEPT !.origin = @ \ gone,
                        !.held = [s \in Source |->
                           LET mine == {o \in gone : o.source = s}
                           IN  [files |-> @[s].files - Cardinality(mine),
                                bytes |-> @[s].bytes - MapThenSumSet(LAMBDA o : o.cost, mine)]]]
  IN  mailboxForgetAcked(left, b, id)

OriginOf(k, b, id) ==
  LET o == {r \in k.origin : r.box = b /\ r.id = id}
  IN  IF o = {} THEN Exempt ELSE (CHOOSE r \in o : TRUE).source

\* A file's charge given back, never below zero.
Discharge(k, c) ==
  [k EXCEPT !.used = IF @ >= c THEN @ - c ELSE @, !.files = IF @ > 0 THEN @ - 1 ELSE @]

Unlink(w, b, x) ==
  [w EXCEPT !.disk[b].blobs = @ \ {x}, !.disk[b].mod = now,
            !.books = Discharge(mailboxForgetBlob(@, b, x.id), x.cost)]

\* The same where a full box sheds and in the sweep, which do not look.
UnlinkBlindly(w, b, x) ==
  [w EXCEPT !.disk[b].blobs = @ \ {x}, !.disk[b].mod = now,
            !.books = [mailboxForgetBlob(@, b, x.id)
                         EXCEPT !.used = @ - x.cost, !.files = @ - 1]]

mailboxTouchBox(k, b) ==
  [k EXCEPT !.order = Append(SelectSeq(@, LAMBDA e : e.box # b), [box |-> b, at |-> now])]

mailboxForgetBox(k, b) == [k EXCEPT !.order = SelectSeq(@, LAMBDA e : e.box # b)]

\* What is in the box once the index was written, or the write failed.
Written(old, acks, how) ==
  LET new == CASE how = "open" -> old
               [] how = "cut"  -> [old EXCEPT !.index = "cut", !.acks = NoAcks]
               [] OTHER        -> [old EXCEPT !.index = "kept", !.acks = acks]
  IN  IF FilesIn(new) = FilesIn(old) THEN new ELSE [new EXCEPT !.mod = now]

\* An index of nothing is no file; anything else is charged by its growth,
\* once it is written.
writeAckIndex(w, b, acks) ==
  LET old == w.disk[b]
      fails == w.fate.at = 1
      new == Written(old, acks, IF fails THEN w.fate.how ELSE "none")
      bytes == IndexCost(new) - IndexCost(old)
      files == FilesIn(new) - FilesIn(old)
      none == [old EXCEPT !.index = "none", !.acks = NoAcks, !.mod = now]
      next == [w EXCEPT !.disk[b] = new, !.fate = IF @.at <= 1 THEN Fine ELSE [@ EXCEPT !.at = @ - 1]]
  IN  IF DOMAIN acks = {}
      THEN IF old.index = "none" THEN w
           ELSE [w EXCEPT !.disk[b] = none, !.books = Discharge(@, IndexCost(old))]
      ELSE IF fails
      THEN [next EXCEPT !.slip = [since |-> TRUE, files |-> @.files + files,
                                  bytes |-> @.bytes + Max({bytes, 0})]]
      ELSE [next EXCEPT !.books.used = Max({@ + bytes, 0}), !.books.files = @ + files]

\* The index without some blobs, written only where it has any entries.
ForgetDevices(w, b, ids) ==
  IF DOMAIN w.disk[b].acks = {} THEN w
  ELSE writeAckIndex(w, b, Without(w.disk[b].acks, ids))

\* os.Remove of a box directory succeeds only when it is there and empty.
RemoveIfEmpty(w, b) ==
  IF w.disk[b].dir /\ FilesIn(w.disk[b]) = 0
  THEN [w EXCEPT !.disk[b] = NoBox,
                 !.books = [mailboxForgetBox(@, b) EXCEPT !.boxes = @ - 1]]
  ELSE w

mailboxRoomPossible(k, c) ==
  /\ AckedBytes(k) >= k.used + c - MaxBytes \/ k.used + c <= MaxBytes
  /\ Len(k.acked) >= k.files + 1 - MaxFiles \/ k.files + 1 <= MaxFiles

\* A ceiling on files alone.
FilesOverCeiling(k, c) == k.files >= MaxFiles

OverCeiling(k, c) == k.used + c > MaxBytes \/ k.files >= MaxFiles

mailboxMakeRoom(w, c, keepBox) ==
  LET GiveWay(v, a) ==
        LET x == {y \in v.disk[a.box].blobs : y.id = a.id}
            u == ForgetDevices(Unlink(v, a.box, CHOOSE y \in x : TRUE), a.box, {a.id})
        IN  IF ~OverCeiling(v.books, c) THEN v
            ELSE IF x = {} THEN [v EXCEPT !.books = mailboxForgetAcked(@, a.box, a.id)]
            ELSE IF a.box = keepBox THEN u ELSE RemoveIfEmpty(u, a.box)
  IN  FoldLeft(GiveWay, w, w.books.acked)

\* The front of the order, stale or not.
HasAnyBox(k) == k.order # <<>>

HasStaleBox(k) == k.order # <<>> /\ Expired(Head(k.order).at)

\* Every file of the box at the front goes, its index too, then the box.
evictOldestStaleBox(w) ==
  LET b == Head(w.books.order).box
      Emptied == FoldLeft(LAMBDA v, x : Unlink(v, b, x), w, ById(w.disk[b].blobs))
  IN  RemoveIfEmpty(writeAckIndex(Emptied, b, NoAcks), b)

-----------------------------------------------------------------------------
(* Deposit. *)

\* What a full box sheds first: the depositor's own blobs, then the oldest.
SheddingOrder(w, b, s) ==
  LET stored == ById(w.disk[b].blobs)
      Own(x) == OriginOf(w.books, b, x.id) = s
  IN  IF s = Exempt THEN stored
      ELSE SelectSeq(stored, Own) \o SelectSeq(stored, LAMBDA x : ~Own(x))

Total(xs) == FoldLeft(LAMBDA n, x : n + x.cost, 0, xs)

WithinShare(w, b, s, c) ==
  LET stored == SheddingOrder(w, b, s)
      held == w.books.held[s]
      boxFull == Len(stored) + 1 > MaxMsgs \/ Total(stored) + c > MaxBoxBytes
      ownInBox == stored # <<>> /\ OriginOf(w.books, b, stored[1].id) = s
  IN  s # Exempt => \/ held.files < MaxHeld /\ held.bytes + c <= MaxHeldBytes
                    \/ boxFull /\ ownInBox

\* The deposit up to the creation of its file.  A refusal still keeps the
\* eviction of a stale box made for it.  Each acked blob that gives way has
\* an index written.
DepositStart(b, s, c) == \E o \in Fates(Max({1, Len(books.acked)})) :
  LET newBox == ~disk[b].dir
      full == newBox /\ books.boxes >= MaxBoxes
      w1 == IF full THEN evictOldestStaleBox(World(o)) ELSE World(o)
      Fits == mailboxRoomPossible(w1.books, c) /\ WithinShare(w1, b, s, c)
      w2 == IF Fits THEN mailboxMakeRoom(w1, c, b) ELSE w1
      x == [id |-> deposits + 1, at |-> now, cost |-> c, whole |-> FALSE]
      stored == SelectSeq(SheddingOrder(w1, b, s), LAMBDA y : y \in w2.disk[b].blobs)
  IN  /\ ~lock.held /\ deposits < MaxDeposits
      /\ full => HasStaleBox(books)
      /\ IF Fits /\ ~OverCeiling(w2.books, c)
         THEN /\ Becomes([w2 EXCEPT !.disk[b].dir = TRUE, !.disk[b].mod = now,
                                    !.disk[b].blobs = @ \cup {x}])
              /\ lock' = [held |-> TRUE, box |-> b, blob |-> x, source |-> s,
                          newBox |-> newBox, stored |-> stored]
              /\ deposits' = deposits + 1
         ELSE Becomes(w2) /\ UNCHANGED <<lock, deposits>>
      /\ Suffers(o)
      /\ UNCHANGED <<dev, now>>

\* The write ends: the blob is whole and charged, and a full box sheds.
DepositDone == \E o \in Fates(1) :
  LET b == lock.box
      whole == [lock.blob EXCEPT !.whole = TRUE]
      charged == [books EXCEPT !.used = @ + whole.cost, !.files = @ + 1,
                               !.boxes = @ + (IF lock.newBox THEN 1 ELSE 0)]
      touched == mailboxTouchBox(charged, b)
      stored == [World(o) EXCEPT
                   !.disk[b].blobs = (@ \ {lock.blob}) \cup {whole},
                   !.books = IF lock.source = Exempt THEN touched
                             ELSE mailboxRecordBlob(touched, b, whole, lock.source)]
      Shed(v, x) ==
        IF v.left + 1 > MaxMsgs \/ v.total > MaxBoxBytes
        THEN [w |-> UnlinkBlindly(v.w, b, x), left |-> v.left - 1, total |-> v.total - x.cost,
              gone |-> v.gone \cup {x.id}]
        ELSE v
      after == FoldLeft(Shed, [w |-> stored, left |-> Len(lock.stored), gone |-> {},
                               total |-> Total(lock.stored) + whole.cost], lock.stored)
  IN  /\ lock.held
      /\ Becomes(IF after.gone = {} THEN after.w ELSE ForgetDevices(after.w, b, after.gone))
      /\ lock' = Free
      /\ Suffers(o)
      /\ UNCHANGED <<dev, now, deposits>>

\* The write fails: the partial file goes, and the directory with it if new.
DepositFails ==
  /\ lock.held /\ Faulty
  /\ Stores([disk EXCEPT ![lock.box] =
                 IF lock.newBox THEN NoBox
                 ELSE [@ EXCEPT !.blobs = @ \ {lock.blob}, !.mod = now]])
  /\ lock' = Free
  /\ UNCHANGED <<books, dev, slip, now, deposits>>

-----------------------------------------------------------------------------
(* Collect and acknowledge. *)

Idle == [step |-> "idle", hidden |-> {}, ids |-> {}]

Does(d, c) == dev' = [dev EXCEPT ![d] = c]

\* A Collect that hides what any device has acked.
HidesFromAll(d) ==
  /\ dev[d].step = "idle" /\ ~lock.held
  /\ Does(d, [Idle EXCEPT !.step = "read", !.hidden = DOMAIN disk[BoxOf[d]].acks])
  /\ UNCHANGED <<disk, books, lock, got, slip, now, deposits, faults>>

\* The device asks; the relay reads what it has acked, under the lock.
Collect(d) ==
  LET acks == disk[BoxOf[d]].acks
  IN  /\ dev[d].step = "idle" /\ ~lock.held
      /\ Does(d, [Idle EXCEPT !.step = "read",
                  !.hidden = {id \in DOMAIN acks : d \in Range(acks[id])}])
      /\ UNCHANGED <<disk, books, lock, got, slip, now, deposits, faults>>

Gets(d, ids) == got' = got \cup {[dev |-> d, id |-> id] : id \in ids}

\* A Deliver that acks what it could not file.
AcksTheLot(d, failed) ==
  LET read == {x \in disk[BoxOf[d]].blobs : x.id \notin dev[d].hidden}
      all == {x.id : x \in read}
      whole == {x.id : x \in {y \in read : y.whole}}
  IN  /\ dev[d].step = "read" /\ failed \subseteq whole
      /\ Gets(d, all \ failed)
      /\ Does(d, IF all = {} THEN Idle ELSE [Idle EXCEPT !.step = "ack", !.ids = all])
      /\ UNCHANGED <<disk, books, lock, slip, now, deposits>>

\* Then the relay reads the box, without the lock: a blob still being written
\* is read as it is.  The device files what it can; what it cannot open is
\* poison and acked away, what it cannot file stays.
Deliver(d, failed) ==
  LET read == {x \in disk[BoxOf[d]].blobs : x.id \notin dev[d].hidden}
      whole == {x.id : x \in {y \in read : y.whole}}
      done == {x.id : x \in read} \ failed
  IN  /\ dev[d].step = "read" /\ failed \subseteq whole
      /\ Gets(d, done)
      /\ Does(d, IF done = {} THEN Idle ELSE [Idle EXCEPT !.step = "ack", !.ids = done])
      /\ UNCHANGED <<disk, books, lock, slip, now, deposits>>

Files(d) == Deliver(d, {}) /\ UNCHANGED faults
FilesSome(d) == Faulty /\ \E failed \in SUBSET (1..deposits) \ {{}} : Deliver(d, failed)

\* A request or an answer that never arrives: HTTP_TIMEOUT_MS ends the call.
CallLost(d) ==
  /\ dev[d].step # "idle" /\ Faulty
  /\ Does(d, Idle)
  /\ UNCHANGED <<disk, books, lock, got, slip, now, deposits>>

Alive(b) == {x.id : x \in disk[b].blobs}

\* The index after a device's ack: pruned to the blobs there are, and the
\* device behind each of its own, the earliest forgotten past the limit.
AckedBy(d, ids) ==
  LET b == BoxOf[d]
      acks == disk[b].acks
      kept == DOMAIN acks \cap Alive(b)
      Devs(id) == IF id \in kept THEN acks[id] ELSE <<>>
      Joined(devs) ==
        IF d \in Range(devs) THEN devs
        ELSE Append(IF Len(devs) >= MaxAckDevices THEN Tail(devs) ELSE devs, d)
  IN  [id \in kept \cup (ids \cap Alive(b)) |->
         IF id \in ids THEN Joined(Devs(id)) ELSE Devs(id)]

\* A device's ack keeps the blob for the identity's other devices.  It is
\* answered as done even where the index could not be written.
AckDevice(d) == \E o \in Fates(1) :
  LET b == BoxOf[d]
      ids == dev[d].ids
      first == ById({x \in disk[b].blobs : x.id \in ids /\ x.id \notin DOMAIN disk[b].acks})
      noted == FoldLeft(LAMBDA k, x : mailboxNoteAcked(k, b, x), books, first)
  IN  /\ dev[d].step = "ack" /\ ~lock.held
      /\ Becomes(writeAckIndex([World(o) EXCEPT !.books = noted], b, AckedBy(d, ids)))
      /\ Does(d, Idle)
      /\ Suffers(o)
      /\ UNCHANGED <<lock, now, deposits>>

\* An ack that names no device, an old build's, deletes the blobs it names
\* for every device.
AckLegacy(b, ids) == \E o \in Fates(1) :
  LET named == ById({x \in disk[b].blobs : x.id \in ids})
      deleted == FoldLeft(LAMBDA v, x : Unlink(v, b, x), World(o), named)
  IN  /\ ~lock.held /\ Faulty
      /\ Becomes(RemoveIfEmpty(ForgetDevices(deleted, b, ids), b))
      /\ UNCHANGED <<lock, dev, now, deposits>>

-----------------------------------------------------------------------------
(* Expiry, restart. *)

\* One box of sweepMailboxOnce.
SweepBox(b) == \E o \in Fates(1) :
  LET old == ById({x \in disk[b].blobs : Expired(x.at)})
      swept == FoldLeft(LAMBDA v, x : UnlinkBlindly(v, b, x), World(o), old)
      acks == swept.disk[b].acks
      dead == DOMAIN acks \ {x.id : x \in swept.disk[b].blobs}
  IN  /\ ~lock.held
      /\ Becomes(RemoveIfEmpty(IF dead = {} THEN swept
                               ELSE writeAckIndex(swept, b, Without(acks, dead)), b))
      /\ Suffers(o)
      /\ UNCHANGED <<lock, dev, now, deposits>>

\* The books at boot, from the files alone.
mailboxInitUsedBytes(files) ==
  LET Acked == UNION {{[box |-> b, id |-> x.id, cost |-> x.cost] :
                        x \in {y \in files[b].blobs : y.id \in DOMAIN files[b].acks}} : b \in Box}
      Ages == {[box |-> b, at |-> files[b].mod] : b \in {e \in Box : files[e].dir}}
  IN  [used   |-> MapThenSumSet(LAMBDA b : BytesIn(files[b]), Box),
       files  |-> MapThenSumSet(LAMBDA b : FilesIn(files[b]), Box),
       boxes  |-> Cardinality(Ages),
       origin |-> {},
       held   |-> [s \in Source |-> [files |-> 0, bytes |-> 0]],
       acked  |-> SetToSortSeq(Acked, LAMBDA x, y : x.id < y.id),
       order  |-> SetToSortSeq(Ages, LAMBDA x, y : x.at < y.at)]

\* Requests in flight fail; what a device has yet to send it still will.
Reboot(files) ==
  /\ Stores(files)
  /\ books' = mailboxInitUsedBytes(files)
  /\ slip' = [slip EXCEPT !.since = FALSE]
  /\ lock' = Free
  /\ UNCHANGED <<now, deposits>>

\* The relay stops at any moment, a half-written blob left where it is.
Restart ==
  /\ Faulty /\ Reboot(disk)
  /\ dev' = [d \in Device |-> IF dev[d].step = "read" THEN Idle ELSE dev[d]]

\* It stops while an ack rewrites the index in place: what is left of the
\* file cannot be read.
RestartInAck(d) ==
  /\ dev[d].step = "ack" /\ ~lock.held
  /\ DOMAIN AckedBy(d, dev[d].ids) # {}
  /\ Faulty /\ Reboot([disk EXCEPT ![BoxOf[d]].index = "cut", ![BoxOf[d]].acks = NoAcks])
  /\ Does(d, Idle)

Tick ==
  /\ now < MaxNow /\ ~lock.held
  /\ now' = now + 1
  /\ UNCHANGED <<disk, books, lock, dev, got, slip, deposits, faults>>

Init ==
  /\ disk = [b \in Box |-> NoBox]
  /\ books = mailboxInitUsedBytes(disk)
  /\ lock = Free
  /\ dev = [d \in Device |-> Idle]
  /\ got = {}
  /\ slip = [since |-> FALSE, files |-> 0, bytes |-> 0]
  /\ now = 0 /\ deposits = 0 /\ faults = 0

Next ==
  \/ \E b \in Box, s \in Source \cup {Exempt}, c \in Cost : DepositStart(b, s, c)
  \/ DepositDone \/ DepositFails
  \/ \E d \in Device : \/ Collect(d) \/ Files(d) \/ FilesSome(d) \/ CallLost(d)
                       \/ AckDevice(d) \/ RestartInAck(d)
  \/ \E b \in Box : SweepBox(b) \/ \E ids \in SUBSET Alive(b) \ {{}} : AckLegacy(b, ids)
  \/ Restart \/ Tick

Spec == Init /\ [][Next]_vars

-----------------------------------------------------------------------------
(* Properties. *)

\* What a device, or any, has filed or could not open.
GotBy(d) == {g.id : g \in {h \in got : h.dev = d}}
Collected == {g.id : g \in got}

\* Between requests the relay's books are its files: the bytes, files and
\* boxes it counts, the blobs it may drop to make room (exactly those some
\* device has acked), each source's share, and an age for every box that is
\* no earlier than its newest blob.  Every path that removes a blob has to
\* keep all of them, and a restart rebuilds them.  From a failed write of an
\* index to the next restart the bytes and files are short by no more than
\* that write put on disk, and no acked blob is missing from the list.
BooksMatchFiles ==
  ~lock.held =>
    LET fresh == mailboxInitUsedBytes(disk)
        Of(s) == {o \in books.origin : o.source = s}
    IN  /\ books.boxes = fresh.boxes
        /\ books.used >= fresh.used - slip.bytes /\ books.files >= fresh.files - slip.files
        /\ IsInjective(books.acked) /\ Range(fresh.acked) \subseteq Range(books.acked)
        /\ ~slip.since => /\ books.used = fresh.used /\ books.files = fresh.files
                         /\ Len(books.acked) = Len(fresh.acked)
        /\ \A o \in books.origin : o.id \in Alive(o.box)
        /\ \A s \in Source :
              books.held[s] = [files |-> Cardinality(Of(s)),
                               bytes |-> MapThenSumSet(LAMBDA o : o.cost, Of(s))]
        /\ {books.order[i].box : i \in DOMAIN books.order} = {b \in Box : disk[b].dir}
        /\ \A i \in DOMAIN books.order :
              \A x \in disk[books.order[i].box].blobs : x.at <= books.order[i].at

\* The ceilings hold for mail, the blob being written included: neither a
\* restart that recounts the files nor one that leaves half a blob behind lets
\* the deposits after it exceed the global files, bytes or boxes, and what
\* failed writes of an index left uncounted is all they can be exceeded by.
Ceilings ==
  LET all == UNION {disk[b].blobs : b \in Box}
  IN  /\ Cardinality(all) <= MaxFiles + slip.files
      /\ MapThenSumSet(LAMBDA x : x.cost, all) <= MaxBytes + slip.bytes
      /\ Cardinality({b \in Box : disk[b].dir}) <= MaxBoxes

Gone(b) == {x \in disk[b].blobs : x.id \notin {y.id : y \in disk'[b].blobs}}

\* A message no device has got leaves its box only by expiring, by an old
\* build's ack, or by a deposit into the same box once that deposit is
\* stored: never for a deposit that is refused or fails, and never to make
\* room for another box's mail.
UncollectedStays ==
  [][\A b \in Box : \A x \in Gone(b) :
       \/ x.id \in Collected \/ Expired(x.at)
       \/ \E ids \in SUBSET Alive(b) : x.id \in ids /\ AckLegacy(b, ids)
       \/ lock.held /\ lock.box = b /\ (lock.blob.id \in {y.id : y \in {z \in disk'[b].blobs : z.whole}}
                                        \/ x = lock.blob)]_vars

\* The ack index names a device for a blob that is there only where the
\* device has filed the message, or could not open what it was given.
AckedWasFiled ==
  \A d \in Device :
    LET acks == disk[BoxOf[d]].acks
    IN  \A id \in DOMAIN acks \cap Alive(BoxOf[d]) : d \in Range(acks[id]) => id \in GotBy(d)

\* A device is never kept from a message it has yet to file, whatever the
\* identity's other devices have acked and whatever was lost on the way: what
\* the relay hides from it of the blobs that are there, it has filed or could
\* not open.
HiddenWasFiled ==
  \A d \in Device : dev[d].hidden \cap Alive(BoxOf[d]) \subseteq GotBy(d)

\* A source holds no more than its share of the files and of the bytes: not
\* where a deposit at the share sheds another source's blob.
ShareHolds ==
  \A s \in Source : books.held[s].files <= MaxHeld /\ books.held[s].bytes <= MaxHeldBytes

=============================================================================
