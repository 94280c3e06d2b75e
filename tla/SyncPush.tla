------------------------------ MODULE SyncPush ------------------------------
(***************************************************************************)
(* The sending end of a history push, loop by loop (transport/sync-push.ts *)
(* and _pushRows): planPush walks back over the newest page, chunk cuts    *)
(* the head and then the rest into batches by rows and by bytes, runPush   *)
(* sends the batches and the SyncComplete behind them, each frame up to    *)
(* Tries times.  The pace between frames is left out.                      *)
(*                                                                         *)
(* Module RoomSync uses the abstraction: any member of Plans(S), frames in *)
(* order.  The runs of this module show that it covers what is done here.  *)
(***************************************************************************)
EXTENDS PushPlan, SequencesExt

CONSTANTS
    MaxBatchBytes,  \* MAX_BATCH_BYTES
    RowBytes,       \* the sizes a row may have (sizeOf)
    Tries           \* 1 + the length of retryMs

ASSUME BytesAssumption == RowBytes \subseteq Nat /\ MaxBatchBytes \in Nat /\ Tries \in Nat \ {0}

VARIABLES
    sorted,     \* the rows of the push, oldest first
    size,       \* the bytes of each row
    phase,      \* which loop runs: scan, head, asc, send, complete or stopped
    headStart,  \* rows of sorted before the head
    shown,      \* rows of the head the page would show
    next,       \* rows the chunk loop has taken
    cur,        \* the batch being filled
    bytes,      \* its bytes
    batches,    \* batches so far: [rows, order]
    index,      \* frames accepted (runPush's i)
    tries,      \* refusals of the current frame
    wire        \* the frames that arrived, by index

planVars == <<headStart, shown, next, cur, bytes, batches>>
sendVars == <<index, tries, wire>>
vars == <<sorted, size, phase, planVars, sendVars>>

Rows == Range(sorted)

(* _pushRows found something to push. *)
Init ==
    /\ \E S \in SUBSET Row \ {{}} :
          /\ sorted = SetToSortSeq(S, Before)
          /\ size \in [S -> RowBytes]
    /\ phase = "scan"
    /\ headStart = Len(sorted) /\ shown = 0
    /\ next = 0 /\ cur = <<>> /\ bytes = 0 /\ batches = <<>>
    /\ index = 0 /\ tries = 0 /\ wire = <<>>

(* One step of the walk back over the newest page. *)
ScanRow ==
    /\ phase = "scan" /\ headStart > 0 /\ shown < PageSize
    /\ headStart' = headStart - 1
    /\ shown' = IF sorted[headStart] \in Quiet THEN shown ELSE shown + 1
    /\ UNCHANGED <<sorted, size, phase, next, cur, bytes, batches, sendVars>>

(* The walk is over: without a shown row below it there is no head. *)
ScanEnds ==
    /\ phase = "scan" /\ (headStart = 0 \/ shown >= PageSize)
    /\ headStart' = IF \E i \in 1..headStart : sorted[i] \notin Quiet
                    THEN headStart ELSE Len(sorted)
    /\ phase' = "head"
    /\ UNCHANGED <<sorted, size, shown, next, cur, bytes, batches, sendVars>>

(* What chunk runs over: the head newest first, the rest oldest first. *)
Input ==
    IF phase = "head" THEN Reverse(SubSeq(sorted, headStart + 1, Len(sorted)))
    ELSE SubSeq(sorted, 1, headStart)

MissesBytes(c, b, n) == c # <<>> /\ (Len(c) >= BatchSize \/ b > MaxBatchBytes)

MissesRows(c, b, n) == c # <<>> /\ b + n > MaxBatchBytes

(* The row of n bytes does not fit the batch c of b bytes. *)
Closes(c, b, n) == c # <<>> /\ (Len(c) >= BatchSize \/ b + n > MaxBatchBytes)

ChunkRow ==
    LET row    == Input[next + 1]
        closes == Closes(cur, bytes, size[row])
    IN  /\ phase \in {"head", "asc"} /\ next < Len(Input)
        /\ next' = next + 1
        /\ batches' = IF closes THEN Append(batches, [rows |-> cur, order |-> phase]) ELSE batches
        /\ cur' = IF closes THEN <<row>> ELSE Append(cur, row)
        /\ bytes' = IF closes THEN size[row] ELSE bytes + size[row]
        /\ UNCHANGED <<sorted, size, phase, headStart, shown, sendVars>>

ChunkEnds ==
    /\ phase \in {"head", "asc"} /\ next = Len(Input)
    /\ batches' = IF cur # <<>> THEN Append(batches, [rows |-> cur, order |-> phase]) ELSE batches
    /\ next' = 0 /\ cur' = <<>> /\ bytes' = 0
    /\ phase' = IF phase = "head" THEN "asc" ELSE "send"
    /\ UNCHANGED <<sorted, size, headStart, shown, sendVars>>

-----------------------------------------------------------------------------
(* runPush: frame index goes out; index Len(batches) is the SyncComplete.  *)

Accepted ==
    /\ phase = "send" /\ index <= Len(batches)
    /\ wire' = Append(wire, index)
    /\ index' = index + 1 /\ tries' = 0
    /\ phase' = IF index = Len(batches) THEN "complete" ELSE "send"
    /\ UNCHANGED <<sorted, size, planVars>>

RefusedSendsOn ==
    /\ phase = "send"
    /\ tries' = IF tries + 1 < Tries THEN tries + 1 ELSE 0
    /\ index' = IF tries + 1 < Tries THEN index ELSE index + 1
    /\ phase' = IF index' > Len(batches) THEN "stopped" ELSE "send"
    /\ wire' = wire
    /\ UNCHANGED <<sorted, size, planVars>>

RefusedAgain ==
    /\ phase = "send"
    /\ tries' = IF tries + 1 < Tries THEN tries + 1 ELSE 0
    /\ UNCHANGED <<sorted, size, phase, index, wire, planVars>>

(* The send fails, though the frame may have arrived; it is tried again    *)
(* until the retries are used up, and then the push ends.                  *)
Refused ==
    /\ phase = "send"
    /\ wire' \in {wire, Append(wire, index)}
    /\ tries' = tries + 1
    /\ phase' = IF tries + 1 < Tries THEN "send" ELSE "stopped"
    /\ UNCHANGED <<sorted, size, index, planVars>>

(* alive() turned false: the identity locked, or the room was left. *)
NotAlive ==
    /\ phase = "send"
    /\ phase' = "stopped"
    /\ UNCHANGED <<sorted, size, planVars, sendVars>>

Done == phase \in {"complete", "stopped"} /\ UNCHANGED vars

Next == ScanRow \/ ScanEnds \/ ChunkRow \/ ChunkEnds \/ Accepted \/ Refused \/ NotAlive \/ Done

Spec == Init /\ [][Next]_vars

FairSpec == Spec /\ WF_vars(Next)

-----------------------------------------------------------------------------
(* What the batches are to the receiver. *)
PlanOf ==
    [rows |-> Rows, count |-> Len(batches),
     heads |-> Cardinality({i \in DOMAIN batches : batches[i].order = "head"}),
     at |-> [r \in Row |->
        IF r \in Rows THEN CHOOSE i \in DOMAIN batches : r \in Range(batches[i].rows) ELSE 0]]

Planned == phase \in {"send", "complete", "stopped"}

(* Whatever planPush cuts is one of the plans the receiver's model allows: *)
(* every row once, the newest page first and newest first, the rest oldest *)
(* first, no batch over BATCH_SIZE (planPush and chunk in sync-push.ts).   *)
PushIsAPlan == Planned => PlanOf \in Plans(Rows)

(* A batch of more than one row stays within MAX_BATCH_BYTES; only a       *)
(* single row may exceed it (chunk in sync-push.ts).                       *)
BatchesFit ==
    \A i \in DOMAIN batches :
        Len(batches[i].rows) > 1
            => FoldSeq(LAMBDA r, n : size[r] + n, 0, batches[i].rows) <= MaxBatchBytes

(* No frame arrives before every frame in front of it has, SyncComplete    *)
(* included: the receiver may take frame i as proof that 0..i-1 were sent  *)
(* and accepted (runPush in sync-push.ts).                                 *)
FramesInOrder ==
    \A k \in DOMAIN wire : \A i \in 0..(wire[k] - 1) : \E j \in 1..(k - 1) : wire[j] = i

(* A push ends, whatever is refused: it never retries for ever (runPush).  *)
PushEnds == <>(phase \in {"complete", "stopped"})
=============================================================================
