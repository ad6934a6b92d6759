------------------------------ MODULE TerminalRoom ------------------------------
(***************************************************************************)
(* The room screen of the terminal client: the pages of history it loads,  *)
(* the notifications that interrupt it, and the operations whose results   *)
(* come back after the user has moved on.                                  *)
(*                                                                         *)
(* Update handles one message at a time: a key, a notification, or the     *)
(* result of a command.  Commands (page loads, operations, sends) run in   *)
(* goroutines and end in any order.  Results that are out of date are told *)
(* by a number: pageRequest and operation here are the number a result     *)
(* must carry, or 0 when none is expected, and numbers are used again once *)
(* no command carries them.                                                *)
(*                                                                         *)
(* Abstractions.  An event is its seqno.  The viewport is at its bottom or *)
(* not; its size does not change.  Screens that do not touch the room are  *)
(* "menu", its pending operation is left out, and the direct messages.     *)
(***************************************************************************)
EXTENDS Naturals, Sequences, FiniteSetsExt

CONSTANTS
    Rooms,
    PageSize,       \* Events in a page of the client's history.
    MaxEvents,      \* Bound: events of a room,
    MaxSeqno,       \* and of each.
    MaxQueue,       \* Bound: notifications that are not read yet.
    MaxLoads,       \* Bounds: page loads, operations and sends that run at once.
    MaxOperations,
    MaxSends

ASSUME TerminalAssumption ==
    /\ {PageSize, MaxQueue, MaxLoads, MaxOperations, MaxSends} \subseteq Nat \ {0}
    /\ MaxEvents \in Nat /\ MaxSeqno \in [Rooms -> 0 .. MaxEvents]

VARIABLES
    head,           \* The client's copy of each room: its last seqno.
    member,         \* The rooms the client is in.
    queue,          \* Notifications.
    screen, room, bottom, err,
    page,           \* What is displayed of the room: items, more.
    unseen,         \* Model.unseen > 0: new events are announced.
    pageLoading, pageDirty, pageRequest,
    loads,          \* Page loads that run, with the page they have read.
    operation, busy,
    operations,     \* Operations that run.
    sends,          \* Model.pending: the rooms to which a send runs.
    noticed,        \* History: the last event of the room's copy that was notified
                    \* while the room was on the screen, since the user came to it;
    early           \* it came before anything was displayed, to a viewport that
                    \* was not at its bottom.

client == <<head, member, queue>>
screenVars == <<screen, room, bottom, err, page, unseen, noticed, early>>
pager == <<pageLoading, pageDirty, pageRequest, loads>>
tasks == <<operation, busy, operations>>
vars == <<client, screenVars, pager, tasks, sends>>

Screens == {"menu", "room", "details", "leave"}
Copies == {copy \in [Rooms -> 0 .. MaxEvents] : \A r \in Rooms : copy[r] <= MaxSeqno[r]}
EmptyPage == [items |-> {}, more |-> FALSE]
Unread == [read |-> FALSE, items |-> {}, more |-> FALSE]
Entry(r, s) == [room |-> r, seqno |-> s]
Seqnos(items) == {e.seqno : e \in items}
First(items) == Min(Seqnos(items))
Last(items) == IF items = {} THEN 0 ELSE Max(Seqnos(items))

-----------------------------------------------------------------------------
Init ==
    /\ head \in Copies
    /\ member = Rooms
    /\ queue = <<>>
    /\ screen = "menu" /\ room \in Rooms /\ bottom = TRUE /\ err = FALSE
    /\ page = EmptyPage /\ unseen = FALSE /\ noticed = 0 /\ early = FALSE
    /\ pageLoading = FALSE /\ pageDirty = FALSE /\ pageRequest = 0 /\ loads = {}
    /\ operation = 0 /\ busy = FALSE /\ operations = {}
    /\ sends = {}

-----------------------------------------------------------------------------
\* The client below: an event is stored before it is notified.

Notify(n) == Len(queue) < MaxQueue /\ queue' = Append(queue, n)

Stores(r) ==
    /\ r \in member /\ head[r] < MaxSeqno[r]
    /\ head' = [head EXCEPT ![r] = @ + 1]
    /\ Notify([room |-> r, seqno |-> head[r] + 1])
    /\ UNCHANGED member

Ingests(r) == Stores(r) /\ UNCHANGED <<screenVars, pager, tasks, sends>>

\* room.connection with the status "connected".
Reconnects(r) ==
    /\ r \in member
    /\ Notify([room |-> r, seqno |-> 0])
    /\ UNCHANGED <<head, member, screenVars, pager, tasks, sends>>

-----------------------------------------------------------------------------
\* loadPage for the room and the items displayed: one load at a time, the next
\* one is due.  It starts none while `loading'.
LoadPage(loading, running, before, r, items) ==
    IF loading
    THEN /\ pageDirty' = TRUE
         /\ UNCHANGED <<pageLoading, pageRequest>>
         /\ loads' = running
    ELSE \E id \in (1 .. MaxLoads) \ {l.id : l \in running} :
            /\ pageLoading' = TRUE /\ pageDirty' = FALSE /\ pageRequest' = id
            /\ loads' = running \cup
                  {[id |-> id, room |-> r, before |-> before,
                    known |-> IF before = 0 THEN Last(items) ELSE 0, page |-> Unread]}

\* move.  The viewport goes to its top; what fits in it is still seen whole.
Moves(next, isBusy) ==
    /\ screen' = next
    /\ bottom' \in IF next = "room" THEN BOOLEAN ELSE {FALSE}
    /\ err' = FALSE /\ noticed' = 0 /\ early' = FALSE /\ busy' = isBusy

\* ... and whatever runs is forgotten.
ForgetsResults ==
    /\ operation' = 0
    /\ pageRequest' = 0 /\ UNCHANGED pageLoading

Forgets ==
    /\ operation' = 0
    /\ pageRequest' = 0 /\ pageLoading' = FALSE

\* command: it replaces the operation that runs.
Commands(kind, r) ==
    \E id \in (1 .. MaxOperations) \ {o.id : o \in operations} :
        /\ operation' = id
        /\ operations' = operations \cup {[id |-> id, kind |-> kind, room |-> r,
                                           done |-> FALSE]}

-----------------------------------------------------------------------------
\* Page loads.

\* The first event of a page that ends at `to'.
PageStart(to) == IF to > PageSize THEN to - PageSize + 1 ELSE 1

\* From a page that ends at `to' back over older pages, until it continues what is
\* known.
StartsAt(to, known) ==
    LET starts == {PageStart(to - n * PageSize) : n \in {n \in 0 .. to : n * PageSize < to}}
        enough == {s \in starts : s <= known + 1}
    IN  IF known = 0 THEN PageStart(to) ELSE Max(enough)

Reads(l) ==
    /\ ~l.page.read
    /\ LET to == IF l.before = 0 \/ l.before > head[l.room] THEN head[l.room] ELSE l.before - 1
           from == IF l.before = 0 THEN StartsAt(to, l.known) ELSE PageStart(to)
           found == IF to = 0 THEN {} ELSE {Entry(l.room, s) : s \in from .. to}
       IN  loads' = (loads \ {l}) \cup
              {[l EXCEPT !.page = [read |-> TRUE, items |-> found,
                                   more |-> found # {} /\ from > 1]]}
    /\ UNCHANGED <<client, screenVars, pageLoading, pageDirty, pageRequest, tasks, sends>>

\* mergePage.
More(l) ==
    IF \/ page.items = {} \/ l.before # 0
       \/ l.page.items # {} /\ First(l.page.items) < First(page.items)
    THEN l.page.more ELSE page.more

Merges(l) ==
    LET follows == page.items = {} \/ (l.before = 0 /\ bottom)
        appended == \E e \in l.page.items : e.seqno > Last(page.items)
    IN  /\ page' = [items |-> page.items \cup l.page.items, more |-> More(l)]
        /\ bottom' = (follows \/ bottom)
        /\ unseen' = (~follows /\ (unseen \/ (l.before = 0 /\ appended)))
        /\ UNCHANGED err

\* The result of a page load: one that is out of date changes nothing.
CurrentRoom(l) == l.room = room
Current(l) == l.id = pageRequest /\ l.room = room

ReloadsNever(l) ==
    /\ pageLoading' = FALSE
    /\ UNCHANGED <<pageDirty, pageRequest>>
    /\ loads' = loads \ {l}
Reloads(l) ==
    IF pageDirty
    THEN LoadPage(FALSE, loads \ {l}, 0, room, page'.items)
    ELSE /\ pageLoading' = FALSE
         /\ UNCHANGED <<pageDirty, pageRequest>>
         /\ loads' = loads \ {l}

PageResult(l) ==
    /\ l.page.read
    /\ \/ /\ ~Current(l)
          /\ loads' = loads \ {l}
          /\ UNCHANGED <<screenVars, pageLoading, pageDirty, pageRequest>>
       \/ /\ Current(l)
          /\ loads' = loads \ {l}
          /\ pageLoading' = FALSE /\ err' = TRUE
          /\ UNCHANGED <<screen, room, bottom, page, unseen, noticed, early, pageDirty, pageRequest>>
       \/ /\ Current(l)
          /\ Merges(l)
          /\ Reloads(l)
          /\ UNCHANGED <<screen, room, noticed, early>>
    /\ UNCHANGED <<client, tasks, sends>>

-----------------------------------------------------------------------------
\* notification.
HandlesNotification ==
    /\ queue # <<>>
    /\ queue' = Tail(queue)
    /\ LET n == Head(queue)
           shown == screen = "room" /\ room = n.room
           newest == shown /\ n.seqno \in noticed + 1 .. head[room]
       IN  /\ IF shown /\ (n.seqno = 0 \/ bottom)
              THEN LoadPage(pageLoading, loads, 0, room, page.items)
              ELSE UNCHANGED pager
           /\ unseen' = (unseen \/ (shown /\ n.seqno # 0 /\ ~bottom))
           /\ noticed' = IF newest THEN n.seqno ELSE noticed
           /\ early' = IF newest THEN page.items = {} /\ ~bottom ELSE early
    /\ UNCHANGED <<head, member, screen, room, bottom, err, page, tasks, sends>>

-----------------------------------------------------------------------------
\* Keys.

\* A room is chosen: it is shown, loaded and joined.
SelectsRoom(r) ==
    /\ screen = "menu" /\ ~busy
    /\ room' = r
    /\ Moves("room", TRUE)
    /\ page' = EmptyPage /\ unseen' = FALSE
    /\ LoadPage(FALSE, loads, 0, r, {})
    /\ Commands("join", r)
    /\ UNCHANGED <<client, sends>>

\* join, from the join screen or again with ctrl+r.
Joins(r) ==
    /\ ~busy
    /\ screen = "menu" \/ (screen = "room" /\ r = room)
    /\ Commands("join", r)
    /\ busy' = TRUE /\ err' = FALSE
    /\ UNCHANGED <<client, screen, room, bottom, page, unseen, noticed, early, pager, sends>>

\* esc, ctrl+d, and choices that only move.
GoesTo(from, next) ==
    /\ screen = from
    /\ Moves(next, FALSE) /\ Forgets
    /\ UNCHANGED <<client, room, page, unseen, pageDirty, loads, operations, sends>>

\* esc, except from a leave that runs.
Escape == screen # "leave" \/ ~busy

Navigates ==
    \/ GoesTo("room", "menu") \/ GoesTo("menu", "menu")
    \/ GoesTo("room", "details") \/ GoesTo("details", "room")
    \/ GoesTo("details", "leave")
    \/ Escape /\ GoesTo("leave", "room")

ConfirmsLeave ==
    /\ screen = "leave" /\ ~busy
    /\ Commands("leave", room)
    /\ busy' = TRUE /\ err' = FALSE
    /\ UNCHANGED <<client, screen, room, bottom, page, unseen, noticed, early, pager, sends>>

\* Scrolling.  Up, at the top, older events are loaded (ctrl+o asks for them too);
\* at the bottom new ones, if some are not seen.
Older ==
    IF pageLoading \/ ~page.more \/ page.items = {}
    THEN UNCHANGED pager
    ELSE LoadPage(FALSE, loads, First(page.items), room, page.items)

Scrolls ==
    /\ screen = "room"
    /\ bottom' \in BOOLEAN
    /\ \/ (bottom' => bottom) /\ Older
       \/ IF bottom' /\ unseen
          THEN LoadPage(pageLoading, loads, 0, room, page.items)
          ELSE UNCHANGED pager
    /\ UNCHANGED <<client, screen, room, err, page, unseen, noticed, early, tasks, sends>>

\* ctrl+l.
ShowsLatest ==
    /\ screen = "room" /\ ~pageLoading
    /\ bottom' = TRUE
    /\ LoadPage(FALSE, loads, 0, room, page.items)
    /\ UNCHANGED <<client, screen, room, err, page, unseen, noticed, early, tasks, sends>>

Submits ==
    /\ screen = "room" /\ ~busy /\ room \notin sends
    /\ Cardinality(sends) < MaxSends
    /\ sends' = sends \cup {room}
    /\ err' = FALSE
    /\ UNCHANGED <<client, screen, room, bottom, page, unseen, noticed, early, pager, tasks>>

-----------------------------------------------------------------------------
\* sent: the event, if it was accepted, is in the client's copy and notified
\* (Ingests), the notification before or after this result.
Sent(r) ==
    /\ r \in sends
    /\ sends' = sends \ {r}
    /\ \E ok \in BOOLEAN :
          LET current == screen = "room" /\ room = r
          IN  /\ err' = (err \/ (current /\ ~ok))
              /\ IF current /\ ok
                 THEN LoadPage(pageLoading, loads, 0, room, page.items)
                 ELSE UNCHANGED pager
    /\ UNCHANGED <<client, screen, room, bottom, page, unseen, noticed, early, tasks>>

-----------------------------------------------------------------------------
\* Operations.  The client carries one out while it runs, and then its result comes
\* back; or it fails (a leave that fails leaves the history where it is).
OperationRuns(o) ==
    /\ ~o.done
    /\ operations' = (operations \ {o}) \cup {[o EXCEPT !.done = TRUE]}
    /\ member' = IF o.kind = "join" THEN member \cup {o.room} ELSE member \ {o.room}
    /\ head' = IF o.kind = "join" THEN head ELSE [head EXCEPT ![o.room] = 0]
    /\ UNCHANGED <<queue, screenVars, pager, operation, busy, sends>>

OperationResult(o) ==
    /\ operations' = operations \ {o}
    /\ \/ /\ o.id # operation
          /\ UNCHANGED <<screenVars, pager, operation, busy>>
       \/ /\ o.id = operation /\ (o.kind = "leave" => ~o.done)
          /\ busy' = FALSE /\ err' = TRUE
          /\ UNCHANGED <<screen, room, bottom, page, unseen, noticed, early, pager, operation>>
       \/ /\ o.id = operation /\ o.kind = "join" /\ o.done
          /\ Moves("room", FALSE)
          /\ operation' = 0
          /\ room' = o.room /\ page' = EmptyPage /\ unseen' = FALSE
          /\ LoadPage(FALSE, loads, 0, o.room, {})
       \/ /\ o.id = operation /\ o.kind = "leave" /\ o.done
          /\ Moves("menu", FALSE) /\ Forgets
          /\ UNCHANGED <<room, page, unseen, pageDirty, loads>>
    /\ UNCHANGED <<client, sends>>

-----------------------------------------------------------------------------
Next ==
    \/ \E r \in Rooms :
          \/ Ingests(r) \/ Reconnects(r) \/ SelectsRoom(r) \/ Joins(r)
          \/ Sent(r)
    \/ \E l \in loads : Reads(l) \/ PageResult(l)
    \/ \E o \in operations : OperationRuns(o) \/ OperationResult(o)
    \/ HandlesNotification
    \/ Navigates \/ ConfirmsLeave \/ Scrolls \/ ShowsLatest \/ Submits

Spec == Init /\ [][Next]_vars

-----------------------------------------------------------------------------
Events == [room : Rooms, seqno : 1 .. MaxEvents]
Pages == [read : BOOLEAN, items : SUBSET Events, more : BOOLEAN]
Loads == [id : 1 .. MaxLoads, room : Rooms, before : 0 .. MaxEvents, known : 0 .. MaxEvents,
          page : Pages]
Operations == [id : 1 .. MaxOperations, kind : {"join", "leave"}, room : Rooms, done : BOOLEAN]

\* A page is loading, and the screen busy, only as long as the command runs whose
\* result will end it: the history cannot stop loading for ever, and the user
\* cannot be locked in.
TypeOK ==
    /\ head \in Copies /\ member \subseteq Rooms
    /\ queue \in Seq([room : Rooms, seqno : 0 .. MaxEvents]) /\ Len(queue) <= MaxQueue
    /\ screen \in Screens /\ room \in Rooms
    /\ bottom \in BOOLEAN /\ err \in BOOLEAN /\ unseen \in BOOLEAN /\ pageDirty \in BOOLEAN
    /\ page.items \subseteq Events /\ page.more \in BOOLEAN
    /\ noticed \in 0 .. MaxEvents /\ early \in BOOLEAN
    /\ loads \subseteq Loads /\ pageRequest \in 0 .. MaxLoads
    /\ pageLoading \in BOOLEAN /\ (pageLoading <=> \E l \in loads : l.id = pageRequest)
    /\ operations \subseteq Operations /\ operation \in 0 .. MaxOperations
    /\ busy \in BOOLEAN /\ (busy => \E o \in operations : o.id = operation)
    /\ sends \subseteq Rooms

\* The history on the screen is that of the room, without a hole, and older events
\* are offered exactly if there are some, whatever results come late.
PageFaithful ==
    screen = "room" =>
        LET seqnos == Seqnos(page.items)
        IN  /\ \A e \in page.items : e.room = room
            /\ page.items # {} => /\ seqnos = Min(seqnos) .. Max(seqnos)
                                  /\ page.more = (Min(seqnos) > 1)

\* The newest event that was notified on the screen is displayed, announced as new,
\* or about to be loaded; otherwise an error is shown or awaited.  One case is
\* excepted, in which the code forgets it: it came before anything was displayed, to a
\* viewport that was not at its bottom, so that it was only announced, and the first
\* page (mergePage, which resets unseen) was displayed since, without it.
NoticedIsAccounted ==
    screen = "room" =>
        \/ noticed <= Last(page.items)
        \/ unseen
        \/ pageLoading /\ pageDirty
        \/ \E l \in loads :
              /\ Current(l) /\ l.before = 0
              /\ ~l.page.read \/ noticed <= Last(l.page.items)
        \/ err \/ busy \/ room \in sends
        \/ early /\ (page.items # {} \/ ~pageLoading)

=============================================================================
