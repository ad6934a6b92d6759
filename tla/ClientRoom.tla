------------------------------ MODULE ClientRoom ------------------------------
(***************************************************************************)
(* One room at a client: sessions, the verified copy of the history and    *)
(* the notifications.                                                      *)
(*                                                                         *)
(* Two goroutines serve a joined room.  One keeps a session: it dials, and *)
(* synchronizes the history over the new session.  The other ingests the   *)
(* commits that arrive as broadcasts, or as the answer to a submission,    *)
(* through a bounded queue.  Both change the copy under historyMu, and     *)
(* keep that lock while they query the node at the other end; `work' is    *)
(* what the holder of the lock is doing.  Meanwhile sessions break, the    *)
(* identity is reset, the room is left and joined again, and the client    *)
(* is killed.  A session is only current until somebody detaches it, and   *)
(* everything that was started on it has to notice.                        *)
(*                                                                         *)
(* Abstractions.  There is one chain, so an event is its seqno, a copy is  *)
(* the length of its prefix and a Projection is the seqno of its head.     *)
(* Session numbers are used again once nothing refers to them.             *)
(***************************************************************************)
EXTENDS Naturals, Sequences

CONSTANTS
    PageLimit,      \* community.MaxPageLimit.
    QueueCap,       \* canonicalEventQueueCapacity.
    MaxEvents,      \* Bound: events in the history.
    MaxResets,      \* Bound: identities used after the first, and rejoins.
    MaxFaults       \* Bound: failed queries, stale answers, broken sessions, crashes.

ASSUME ClientRoomAssumption ==
    /\ {PageLimit, QueueCap} \subseteq Nat \ {0}
    /\ {MaxEvents, MaxResets, MaxFaults} \subseteq Nat

VARIABLES
    log,            \* The canonical history: does the event change the state?
    stored,         \* The room's row: head_seqno, the number of its room_events.
    handle,         \* The roomHandle: "running", "leaving" or "none".
    identity,       \* identityEpoch.
    session,        \* r.session and r.sessionEpoch.
    projection,     \* The head of r.projection, which is verifiedHead.
    state,          \* The revision of r.state.
    dial,           \* The dialing goroutine.
    work,           \* What the holder of historyMu does.
    queue,          \* r.events.
    item,           \* The queue item that is being ingested.
    emitted,        \* The stored history at the start, and room.event since then.
    confirmed,      \* Events whose ingestion was reported to a submission.
    resets, faults

room == <<stored, session, projection, state, emitted>>
vars == <<log, room, handle, identity, dial, work, queue, item, confirmed, resets, faults>>

NoSession == [id |-> 0, epoch |-> 0]
NoDial == [dialing |-> FALSE, epoch |-> 0]
NoItem == [at |-> "none", session |-> NoSession, event |-> 0, waited |-> FALSE,
           durable |-> FALSE, failed |-> FALSE]

\* syncSessionLocked: replay the stored events, then ask for what follows them.
Synchronize(by, s) ==
    [by |-> by, at |-> "page", session |-> s, projection |-> stored, upto |-> 0, more |-> FALSE]

\* processCanonical, once there is no gap.
Ingest(s) ==
    [by |-> "ingest", at |-> "append", session |-> s, projection |-> 0, upto |-> 0,
     more |-> FALSE]
NoWork ==
    [by |-> "none", at |-> "none", session |-> NoSession, projection |-> 0, upto |-> 0,
     more |-> FALSE]

\* The revision of the state after n events: the last one that changed it.
LatestChange(n) ==
    CHOOSE c \in 0 .. n : /\ c > 0 => log[c]
                          /\ \A k \in c + 1 .. n : ~log[k]

Fault == faults < MaxFaults /\ faults' = faults + 1
NoFault == UNCHANGED faults

\* The node at the other end answers from its own head; one that is behind
\* counts as a fault.
AnswersFrom(n) == \/ n = Len(log) /\ NoFault
                  \/ n < Len(log) /\ Fault

Running == handle = "running"

IsCurrent(s) == session = s
InUse == {session.id, item.session.id, work.session.id}
         \cup {queue[i].session.id : i \in DOMAIN queue}
FreshId == CHOOSE id \in 1 .. QueueCap + 4 : id \notin InUse

\* detachSessionIf, and closing what it returns.
DetachIf(s) == session' = IF session = s THEN NoSession ELSE session

-----------------------------------------------------------------------------
Init ==
    /\ log = <<>>
    /\ stored = 0
    /\ handle = "running"
    /\ identity = 1
    /\ session = NoSession
    /\ projection = 0
    /\ state = 0
    /\ dial = NoDial
    /\ work = NoWork
    /\ queue = <<>>
    /\ item = NoItem
    /\ emitted = <<>>
    /\ confirmed = {}
    /\ resets = 0
    /\ faults = 0

SequencerCommits(changes) ==
    /\ Len(log) < MaxEvents
    /\ log' = Append(log, changes)
    /\ UNCHANGED <<room, handle, identity, dial, work, queue, item, confirmed, resets, faults>>

-----------------------------------------------------------------------------
\* The session goroutine.

\* connect: the identity is read before the room is dialed ...
Dial ==
    /\ Running /\ session = NoSession
    /\ dial = NoDial /\ work.by # "connect"
    /\ dial' = [dialing |-> TRUE, epoch |-> identity]
    /\ UNCHANGED <<log, room, handle, identity, work, queue, item, confirmed, resets, faults>>

DialFails ==
    /\ dial.dialing
    /\ IF Running THEN Fault ELSE NoFault
    /\ dial' = NoDial
    /\ UNCHANGED <<log, room, handle, identity, work, queue, item, confirmed, resets>>

\* ... and checked again when its session is installed.
InstallableAlways == TRUE
Installable == dial.epoch = identity

Install ==
    /\ dial.dialing /\ work = NoWork
    /\ LET s == [id |-> FreshId, epoch |-> dial.epoch]
       IN  IF Installable THEN session' = s /\ work' = Synchronize("connect", s)
           ELSE UNCHANGED <<session, work>>
    /\ dial' = NoDial
    /\ UNCHANGED <<log, stored, handle, identity, projection, state, queue, item, emitted,
                   confirmed, resets, faults>>

\* The connection breaks; the goroutine that watches it closes the session.
SessionBreaks ==
    /\ session # NoSession
    /\ Fault
    /\ session' = NoSession
    /\ UNCHANGED <<log, stored, projection, state, emitted, handle, identity, dial, work, queue,
                   item, confirmed, resets>>

-----------------------------------------------------------------------------
\* The ingestion goroutine and its queue.

\* enqueueCanonical: a full queue closes the session.
EnqueueAlways(entry) == queue' = Append(queue, entry) /\ UNCHANGED session /\ NoFault
Enqueue(entry) ==
    IF Len(queue) < QueueCap
    THEN queue' = Append(queue, entry) /\ UNCHANGED session /\ NoFault
    ELSE session' = NoSession /\ UNCHANGED queue /\ Fault

\* A broadcast commit arrives: late, again, out of order or never.
ReceiveBroadcast(n) ==
    /\ Running /\ session # NoSession
    /\ Enqueue([session |-> session, event |-> n, waited |-> FALSE])
    /\ UNCHANGED <<log, stored, projection, state, emitted, handle, identity, dial, work, item,
                   confirmed, resets>>

\* A submission is answered with its commit, and waits until it is ingested.
SubmissionAnswered(n) ==
    /\ Running /\ session # NoSession
    /\ n \notin confirmed
    /\ Enqueue([session |-> session, event |-> n, waited |-> TRUE])
    /\ UNCHANGED <<log, stored, projection, state, emitted, handle, identity, dial, work, item,
                   confirmed, resets>>

TakeItem ==
    /\ Running /\ item = NoItem /\ queue # <<>>
    /\ item' = [at |-> "lock", session |-> Head(queue).session, event |-> Head(queue).event,
                waited |-> Head(queue).waited, durable |-> FALSE, failed |-> FALSE]
    /\ queue' = Tail(queue)
    /\ UNCHANGED <<log, room, handle, identity, dial, work, confirmed, resets, faults>>

\* processCanonical returns.
Processed(durable, failed) ==
    /\ item' = [item EXCEPT !.at = "done", !.durable = durable, !.failed = failed]
    /\ work' = NoWork

\* The commit meets the copy it was verified for: it is the next event, one
\* that is already stored, or there is a gap.
ProcessItem ==
    /\ item.at = "lock" /\ work = NoWork
    /\ IF ~IsCurrent(item.session) \/ ~Running
       THEN Processed(FALSE, TRUE)
       ELSE IF item.event > stored + 1
       THEN /\ work' = Synchronize("ingest", item.session)
            /\ item' = [item EXCEPT !.at = "sync"]
       ELSE /\ work' = Ingest(item.session)
            /\ item' = [item EXCEPT !.at = "append"]
    /\ UNCHANGED <<log, room, handle, identity, dial, queue, confirmed, resets, faults>>

\* projection.Prepare, appendEvent and projection.Commit.
AppendItem ==
    /\ work.by = "ingest" /\ work.at = "append"
    /\ IF item.event <= stored /\ Running
       THEN Processed(TRUE, FALSE) /\ UNCHANGED <<stored, projection>>
       ELSE IF projection # stored \/ item.event # stored + 1 \/ ~Running
       THEN Processed(FALSE, TRUE) /\ UNCHANGED <<stored, projection>>
       ELSE /\ stored' = item.event
            /\ projection' = item.event
            /\ work' = [work EXCEPT !.at = IF log[item.event] THEN "refresh" ELSE "emit"]
            /\ UNCHANGED item
    /\ UNCHANGED <<log, session, state, emitted, handle, identity, dial, queue, confirmed,
                   resets, faults>>

\* Whether the room state a node answered may be installed: not older than the
\* copy, and exactly the projected state.
ValidState(n, head) == n >= head /\ LatestChange(n) = LatestChange(head)

\* refreshStateLocked.  Its failure does not keep the event from being emitted.
RefreshSilently ==
    /\ work.by = "ingest" /\ work.at = "refresh"
    /\ \/ /\ IsCurrent(work.session) /\ Running
          /\ \E n \in 0 .. Len(log) :
                /\ AnswersFrom(n)
                /\ ValidState(n, stored)
                /\ state' = LatestChange(n)
          /\ work' = [work EXCEPT !.at = "emit"]
          /\ UNCHANGED item
       \/ /\ IF IsCurrent(work.session) /\ Running THEN Fault ELSE NoFault
          /\ Processed(TRUE, TRUE)
          /\ UNCHANGED state
    /\ UNCHANGED <<log, stored, session, projection, emitted, handle, identity, dial, queue,
                   confirmed, resets>>
Refresh ==
    /\ work.by = "ingest" /\ work.at = "refresh"
    /\ work' = [work EXCEPT !.at = "emit"]
    /\ \/ /\ IsCurrent(work.session) /\ Running
          /\ \E n \in 0 .. Len(log) :
                /\ AnswersFrom(n)
                /\ IF ValidState(n, stored)
                   THEN state' = LatestChange(n) /\ UNCHANGED item
                   ELSE item' = [item EXCEPT !.failed = TRUE] /\ UNCHANGED state
       \/ /\ IF IsCurrent(work.session) /\ Running THEN Fault ELSE NoFault
          /\ item' = [item EXCEPT !.failed = TRUE]
          /\ UNCHANGED state
    /\ UNCHANGED <<log, stored, session, projection, emitted, handle, identity, dial, queue,
                   confirmed, resets>>

\* emitEvent; after a refresh the new state is notified to a session that is
\* still current.
EmitItem ==
    /\ work.by = "ingest" /\ work.at = "emit"
    /\ emitted' = IF Running THEN Append(emitted, item.event) ELSE emitted
    /\ Processed(TRUE, item.failed \/ ~Running
                       \/ (log[item.event] /\ ~IsCurrent(item.session)))
    /\ UNCHANGED <<log, stored, session, projection, state, handle, identity, dial, queue,
                   confirmed, resets, faults>>

\* ingestLoop: a failure closes the session, and the submission that waits is
\* told whether its event is durable.
ConfirmsProcessed(it) == TRUE
Confirms(it) == it.durable

ItemDone ==
    /\ item.at = "done"
    /\ IF item.failed THEN DetachIf(item.session) ELSE UNCHANGED session
    /\ confirmed' = IF item.waited /\ Confirms(item) THEN confirmed \cup {item.event} ELSE confirmed
    /\ item' = NoItem
    /\ UNCHANGED <<log, stored, projection, state, emitted, handle, identity, dial, work, queue,
                   resets, faults>>

-----------------------------------------------------------------------------
\* syncSessionLocked, by either goroutine.

\* It fails.  connect detaches the session before it releases historyMu; the
\* ingestion goroutine does so after.
SyncFailsUndetached ==
    /\ work' = NoWork
    /\ IF work.by = "connect" THEN UNCHANGED item
       ELSE item' = [item EXCEPT !.at = "done", !.durable = item.event <= stored, !.failed = TRUE]
    /\ UNCHANGED session
SyncFailsLocked ==
    /\ work' = [work EXCEPT !.at = "failed"]
    /\ DetachIf(work.session)
    /\ UNCHANGED item
SyncFails ==
    /\ work' = NoWork
    /\ IF work.by = "connect"
       THEN DetachIf(work.session) /\ UNCHANGED item
       ELSE /\ item' = [item EXCEPT !.at = "done", !.durable = item.event <= stored,
                                    !.failed = TRUE]
            /\ UNCHANGED session

Alive == IsCurrent(work.session) /\ Running

QueryFails ==
    /\ work.by # "none" /\ work.at \in {"page", "state"}
    /\ IF Alive THEN Fault ELSE NoFault
    /\ SyncFails
    /\ UNCHANGED <<log, stored, projection, state, emitted, handle, identity, dial, queue,
                   confirmed, resets>>

Page ==
    /\ work.by # "none" /\ work.at = "page" /\ Alive
    /\ \E n \in 0 .. Len(log) :
          /\ AnswersFrom(n)
          /\ LET more == n > stored + PageLimit
             IN  work' = [work EXCEPT !.at = "store", !.more = more,
                                      !.upto = IF more THEN stored + PageLimit ELSE n]
    /\ UNCHANGED <<log, room, handle, identity, dial, queue, item, confirmed, resets>>

\* One event of the page is verified, stored and emitted, if the session is
\* still current; the last page is followed by getRoomState.
StorePage ==
    /\ work.by # "none" /\ work.at = "store"
    /\ IF work.upto <= stored
       THEN /\ work' = [work EXCEPT !.at = IF work.more THEN "page" ELSE "state"]
            /\ UNCHANGED <<stored, session, emitted, item>>
       ELSE IF ~Alive
       THEN SyncFails /\ UNCHANGED <<stored, emitted>>
       ELSE /\ stored' = stored + 1
            /\ emitted' = Append(emitted, stored + 1)
            /\ work' = [work EXCEPT !.projection = stored + 1]
            /\ UNCHANGED <<session, item>>
    /\ UNCHANGED <<log, projection, state, handle, identity, dial, queue, confirmed, resets, faults>>

\* The signed state is validated and installed, with the projection that now
\* matches the copy.
InstallState ==
    /\ work.by # "none" /\ work.at = "state" /\ Alive
    /\ \E n \in 0 .. Len(log) :
          /\ AnswersFrom(n)
          /\ IF ValidState(n, stored)
             THEN /\ projection' = work.projection
                  /\ state' = LatestChange(n)
                  /\ work' = [work EXCEPT !.at = "synced"]
                  /\ UNCHANGED <<session, item>>
             ELSE SyncFails /\ UNCHANGED <<projection, state>>
    /\ UNCHANGED <<log, stored, emitted, handle, identity, dial, queue, confirmed, resets>>

\* notifyForSession, and what follows the synchronization.
Synced ==
    /\ work.by # "none" /\ work.at = "synced"
    /\ IF ~Alive THEN SyncFails
       ELSE /\ work' = IF work.by = "connect" THEN NoWork
                       ELSE Ingest(work.session)
            /\ UNCHANGED <<session, item>>
    /\ UNCHANGED <<log, stored, projection, state, emitted, handle, identity, dial, queue,
                   confirmed, resets, faults>>

-----------------------------------------------------------------------------
\* The user.

\* ResetIdentity closes the session and changes the key, or fails to, in one
\* critical section of Client.mu.
ResetIdentity ==
    /\ resets < MaxResets
    /\ resets' = resets + 1
    /\ session' = NoSession
    /\ identity' \in {identity, identity + 1}
    /\ UNCHANGED <<log, stored, projection, state, emitted, handle, dial, work, queue, item,
                   confirmed, faults>>

\* Leave cancels the goroutines and closes the session, ...
Leave ==
    /\ Running /\ resets < MaxResets
    /\ resets' = resets + 1
    /\ handle' = "leaving"
    /\ session' = NoSession
    /\ UNCHANGED <<log, stored, projection, state, emitted, identity, dial, work, queue, item,
                   confirmed, faults>>

\* ... waits until they have returned, and deletes the row with its events.
LeftAtOnce ==
    /\ handle = "leaving"
    /\ handle' = "none"
    /\ stored' = 0 /\ queue' = <<>> /\ emitted' = <<>> /\ confirmed' = {}
    /\ UNCHANGED <<log, session, projection, state, identity, dial, work, item, resets, faults>>
Left ==
    /\ handle = "leaving"
    /\ dial = NoDial /\ work = NoWork /\ item = NoItem
    /\ handle' = "none"
    /\ stored' = 0
    /\ queue' = <<>>
    /\ emitted' = <<>>
    /\ confirmed' = {}
    /\ UNCHANGED <<log, session, projection, state, identity, dial, work, item, resets, faults>>

\* Join adds the row again and starts a new roomHandle.
Join ==
    /\ handle = "none"
    /\ handle' = "running"
    /\ projection' = 0 /\ state' = 0
    /\ UNCHANGED <<log, stored, session, emitted, identity, dial, work, queue, item, confirmed,
                   resets, faults>>

\* The client is killed and started again: its database is left.
Crash ==
    /\ Running
    /\ Fault
    /\ session' = NoSession
    /\ projection' = 0 /\ state' = 0
    /\ dial' = NoDial /\ work' = NoWork /\ item' = NoItem
    /\ queue' = <<>>
    /\ emitted' = [n \in 1 .. stored |-> n]
    /\ UNCHANGED <<log, stored, handle, identity, confirmed, resets>>

ConnectStep == Dial \/ Install
SyncStep == Page \/ StorePage \/ InstallState \/ Synced \/ QueryFails
IngestStep == TakeItem \/ ProcessItem \/ AppendItem \/ Refresh \/ EmitItem \/ ItemDone

Next ==
    \/ \E changes \in BOOLEAN : SequencerCommits(changes)
    \/ ConnectStep \/ DialFails \/ SessionBreaks
    \/ \E n \in 1 .. Len(log) : ReceiveBroadcast(n) \/ SubmissionAnswered(n)
    \/ IngestStep \/ SyncStep
    \/ ResetIdentity \/ Leave \/ Left \/ Join \/ Crash

Spec == Init /\ [][Next]_vars

\* Both goroutines go on; a query that is not answered times out.
Fairness == WF_vars(ConnectStep) /\ WF_vars(SyncStep) /\ WF_vars(IngestStep)
FairSpec == Spec /\ Fairness

-----------------------------------------------------------------------------
Sessions == [id : 0 .. QueueCap + 4, epoch : 0 .. MaxResets + 1]
Entries == [session : Sessions, event : Nat, waited : BOOLEAN]
Items == [at : {"none", "lock", "sync", "append", "done"}, session : Sessions, event : Nat,
          waited : BOOLEAN, durable : BOOLEAN, failed : BOOLEAN]
Works == [by : {"none", "connect", "ingest"},
          at : {"none", "page", "store", "state", "synced", "append", "refresh", "emit"},
          session : Sessions, projection : Nat, upto : Nat, more : BOOLEAN]

TypeOK ==
    /\ log \in Seq(BOOLEAN)
    /\ stored \in 0 .. Len(log) /\ projection \in 0 .. Len(log) /\ state \in 0 .. Len(log)
    /\ handle \in {"running", "leaving", "none"}
    /\ identity \in 1 .. MaxResets + 1
    /\ session \in Sessions
    /\ dial \in [dialing : BOOLEAN, epoch : 0 .. MaxResets + 1]
    /\ work \in Works
    /\ queue \in Seq(Entries) /\ Len(queue) <= QueueCap
    /\ item \in Items
    /\ emitted \in Seq(Nat)
    /\ confirmed \subseteq Nat
    /\ resets \in 0 .. MaxResets /\ faults \in 0 .. MaxFaults

\* What the client shows of a connected room is verified: between two pieces of
\* work the projection stands at the head of the stored history, whatever failed
\* in the middle of a synchronization, and the signed state is the one of
\* exactly that history.
CopyVerified ==
    (/\ session # NoSession /\ work = NoWork
     /\ ~(item.at = "done" /\ item.failed))
    => projection = stored /\ state = LatestChange(stored)

\* PROTOCOL.md: events are persisted before consumers are notified.  Moreover
\* every stored event is notified exactly once and in order, over all sessions
\* and failures; the last one may be about to be.  (What is stored when a client
\* starts counts as notified: it is shown as the timeline.)
EachEventNotified ==
    LET unsaid == work.by = "ingest" /\ work.at \in {"refresh", "emit"}
    IN  Running => emitted = [n \in 1 .. (IF unsaid THEN stored - 1 ELSE stored) |-> n]

\* A session that was dialed with an identity that has been reset since is never
\* installed, and none outlives its identity.
SessionOfIdentity == session # NoSession => session.epoch = identity

\* A submission that hears of its commit finds it in the store, also if the
\* session is lost while it waits.
ConfirmedIsDurable == \A n \in confirmed : n <= stored

\* A room that was left keeps no session, although its goroutines may have been
\* dialing when they were cancelled.
LeftIsQuiet == handle = "none" => session = NoSession

\* Once nothing fails any more, a joined room is connected and stays so: no
\* failure leaves historyMu locked or a dead session in place.
Reconnects == <>[](Running => session # NoSession)

\* What the user sees of a joined room is the history, event by event: each one is
\* stored before it is notified and notified before the next is stored, the state is
\* installed for exactly the copy it covers, an author hears of his event when it is
\* stored, and only leaving the room takes anything of that back.
Timeline == INSTANCE RoomTimeline
                WITH history <- log, joined <- Running, held <- stored, notified <- emitted,
                     revision <- state

ImplementsRoomTimeline == Timeline!TimelineSpec

=============================================================================
