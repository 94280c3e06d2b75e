------------------------------ MODULE NodeSeat ------------------------------
(***************************************************************************)
(* What node-lock.ts and its callers promise the rest of the program: one  *)
(* seat, and nodes that run only where the seat is - or where it was a     *)
(* moment ago, in a tab that lost it by force and has not been told yet.   *)
(* A node that was told to stop takes its time, and the seat does not wait *)
(* for it: while one is stopping, another may run.                         *)
(***************************************************************************)
CONSTANT Tab

VARIABLES
    owner,     \* the tab with the seat, or anything else for none
    ousted,    \* tabs it was stolen from that have yet to hear of it
    runs,      \* tabs with a node nobody has told to stop
    stopping   \* tabs with a node told to stop, still on the network

seat == <<owner, ousted, runs, stopping>>

Init ==
    /\ owner \notin Tab
    /\ ousted = {}
    /\ runs = {}
    /\ stopping = {}

(* A free seat is taken. *)
Take(t) ==
    /\ owner \notin Tab
    /\ owner' = t
    /\ UNCHANGED <<ousted, runs, stopping>>

Start(t) ==
    /\ t = owner \/ t \in ousted
    /\ runs' = runs \cup {t}
    /\ UNCHANGED <<owner, ousted, stopping>>

(* The node is told to stop, if there is one: the tab hands the seat on,   *)
(* or has heard that it was stolen and may queue for it again.  Only a     *)
(* page that goes takes its node with it.                                  *)
Stop(t) ==
    /\ runs' = runs \ {t}
    /\ stopping' \in {stopping \cup {t}, stopping, stopping \ {t}}
    /\ ousted' \in {ousted, ousted \ {t}}
    /\ owner' # owner => owner = t \/ (owner \notin Tab /\ owner' = t)

(* A node told to stop is down. *)
Stopped(t) ==
    /\ stopping' = stopping \ {t}
    /\ UNCHANGED <<owner, ousted, runs>>

(* "Use here", after the grace period. *)
Oust(t) ==
    /\ owner \in Tab
    /\ owner' = t
    /\ ousted' = ousted \cup {owner}
    /\ UNCHANGED <<runs, stopping>>

Next == \E t \in Tab : Take(t) \/ Start(t) \/ Stop(t) \/ Stopped(t) \/ Oust(t)

Spec == Init /\ [][Next]_seat
=============================================================================
