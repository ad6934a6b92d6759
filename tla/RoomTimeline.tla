------------------------------ MODULE RoomTimeline ------------------------------
(***************************************************************************)
(* What a client shows of a room that is joined: its copy of the history   *)
(* grows event by event, each event is notified before the next one is     *)
(* stored, the signed state is installed for exactly the copy, and an      *)
(* author hears only of events that the copy has.  Sessions, pages, the    *)
(* queue, identities and failures are absent; module ClientRoom is shown   *)
(* to implement this one.                                                  *)
(***************************************************************************)
EXTENDS Naturals, Sequences

VARIABLES
    history,        \* The canonical history: does the event change the state?
    joined,         \* Is the room joined?
    held,           \* How much of the history the client has,
    notified,       \* the events its user was shown, in order,
    revision,       \* the last change in the state it shows,
    confirmed       \* and the events whose authors were told.

timelineVars == <<history, joined, held, notified, revision, confirmed>>

AllShown == Len(notified) = held
\* Revision r is that of the state after the events that are held.
Covers(r) == /\ r \in 0 .. held
             /\ r > 0 => history[r]
             /\ \A k \in r + 1 .. held : ~history[k]

TimelineInit ==
    /\ history = <<>> /\ joined = TRUE
    /\ held = 0 /\ notified = <<>> /\ revision = 0 /\ confirmed = {}

Commits(changes) ==
    /\ history' = Append(history, changes)
    /\ UNCHANGED <<joined, held, notified, revision, confirmed>>

\* An event is stored, and shown at once ...
Stores ==
    /\ joined /\ AllShown
    /\ held < Len(history) /\ held' = held + 1
    /\ notified' \in {notified, Append(notified, held')}
    /\ UNCHANGED <<history, joined, revision, confirmed>>

\* ... or later.
Notifies ==
    /\ joined /\ held = Len(notified) + 1
    /\ notified' = Append(notified, held)
    /\ UNCHANGED <<history, joined, held, revision, confirmed>>

Signs ==
    /\ joined /\ Covers(revision')
    /\ UNCHANGED <<history, joined, held, notified, confirmed>>

\* An author may hear while the room is being left.
Confirms(n) ==
    /\ n \in 1 .. held
    /\ confirmed' = confirmed \cup {n}
    /\ UNCHANGED <<history, joined, held, notified, revision>>

Leaves == joined /\ joined' = FALSE /\ UNCHANGED <<history, held, notified, revision, confirmed>>

Erases ==
    /\ ~joined
    /\ held' = 0 /\ notified' = <<>> /\ confirmed' = {}
    /\ UNCHANGED <<history, joined, revision>>

Joins ==
    /\ ~joined /\ joined' = TRUE
    /\ held = 0 /\ notified = <<>> /\ confirmed = {}
    /\ revision' = 0
    /\ UNCHANGED <<history, held, notified, confirmed>>

\* After a crash the user is shown what was stored, and no state until it is signed.
Restarts ==
    /\ joined
    /\ notified' = [n \in 1 .. held |-> n]
    /\ revision' = 0
    /\ UNCHANGED <<history, joined, held, confirmed>>

TimelineNext ==
    \/ \E changes \in BOOLEAN : Commits(changes)
    \/ Stores \/ Notifies \/ Signs
    \/ \E n \in 1 .. held : Confirms(n)
    \/ Leaves \/ Erases \/ Joins \/ Restarts

TimelineSpec == TimelineInit /\ [][TimelineNext]_timelineVars
=============================================================================
