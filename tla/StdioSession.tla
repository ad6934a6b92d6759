------------------------------ MODULE StdioSession ------------------------------
(***************************************************************************)
(* `run --stdio': the JSON-RPC server over one client, the bounded channel *)
(* of notifications it drains, and the direct messages that pass through   *)
(* that channel.                                                           *)
(*                                                                         *)
(* The goroutine of Serve handles one request at a time and in the end     *)
(* closes the client; the writer prints the notifications.  The client's   *)
(* own goroutines (deliveries) put notifications into the channel and wait *)
(* when it is full, most of them holding identityOps, the lock that        *)
(* identity changes and sends of direct messages take too.  Contexts are   *)
(* cancelled, sessions end and the output breaks at any moment.            *)
(*                                                                         *)
(* Abstractions.  One room.  The channel is the number of notifications in *)
(* it.  A request is what it does to the lock and the channel, and its     *)
(* response is written in the step that ends it.  The goroutine that reads *)
(* the input is an input that has a line, or its end, at any moment.  The  *)
(* end of a session and its removal from the room are one step.            *)
(***************************************************************************)
EXTENDS Naturals, FiniteSets

CONSTANTS
    Handlers,       \* The goroutines that handle broadcasts.
    Workers,        \* The goroutines of the room that notify: ingestion, refresh.
    Directs,        \* Direct messages: an id, the identity they are sealed for
                    \* (by the number of resets before it) and their last tick.
    EventCapacity,  \* The capacity of Client.events.
    MaxReceived,    \* maxReceivedDMs.
    MaxEpoch,       \* Bound: identity resets.
    MaxClock        \* Bound: last tick.

DirectShape == [id : Nat, to : Nat, expires : Nat \ {0}]

ASSUME StdioAssumption ==
    /\ Directs \subseteq DirectShape
    /\ {"nobody", "serve"} \cap (Handlers \cup Workers) = {}
    /\ {EventCapacity, MaxReceived, MaxClock} \subseteq Nat \ {0}
    /\ MaxEpoch \in Nat

VARIABLES
    clock,
    identity,       \* epoch: identityEpoch; announced (history): that of the
                    \* last new key a queued notification named.
    session,        \* The epoch of the room's session, or NoSession.
    received,       \* receivedDMs: the replay cache and its next expiry.
    delivered,      \* History: how often each direct message was notified.
    identityOps,    \* Who holds the lock: Nobody, "serve" or a delivery.
    events,         \* The channel: how many are queued, whether it is closed.
    notifyClosed,
    deliveries,
    writer,         \* The goroutine that writes notifications.
    serve,          \* The goroutine of Serve.
    world           \* Which outside events have happened.

vars == <<clock, identity, session, received, delivered, identityOps, events,
          notifyClosed, deliveries, writer, serve, world>>
client == <<clock, identity, session, received, delivered, identityOps, events,
            notifyClosed, deliveries>>

Deliveries == Handlers \cup Workers
NoSession == MaxEpoch + 1
Nobody == "nobody"
NoDirect == [id |-> 0, to |-> 0, expires |-> 0]
Idle == [pc |-> "idle", kind |-> "none", epoch |-> NoSession, live |-> FALSE,
         direct |-> NoDirect]
Empty == [ids |-> {}, next |-> 0]       \* next = 0 is the zero time.

\* The context of the client, and that of Serve: a signal cancels both.
Cancelled == world.interrupted \/ serve.cancelled
ServeCancelled == Cancelled \/ writer = "failed"

-----------------------------------------------------------------------------
\* dm_replay.go.

\* The next expiry of the entries that are left.
Earliest(directs) ==
    IF directs = {} THEN 0
    ELSE CHOOSE t \in {m.expires : m \in directs} : \A m \in directs : t <= m.expires

PruneNever(cache) == cache
PruneAtExpiry(cache) ==
    LET kept == {m \in cache.ids : clock < m.expires}
    IN  IF cache.next = 0 \/ clock < cache.next THEN cache
        ELSE [ids |-> kept, next |-> Earliest(kept)]
Prune(cache) ==
    LET kept == {m \in cache.ids : clock <= m.expires}
    IN  IF cache.next = 0 \/ clock <= cache.next THEN cache
        ELSE [ids |-> kept, next |-> Earliest(kept)]

Remember(cache, m) ==
    [ids |-> cache.ids \cup {m},
     next |-> IF cache.next = 0 \/ m.expires < cache.next THEN m.expires ELSE cache.next]

\* closeSession: the deliveries of the session see that it is gone.
Orphaned ==
    [d \in Deliveries |-> [deliveries[d] EXCEPT !.live = FALSE]]

-----------------------------------------------------------------------------
Init ==
    /\ clock = 1
    /\ identity = [epoch |-> 0, announced |-> 0]
    /\ session = NoSession
    /\ received = Empty
    /\ delivered = [m \in Directs |-> 0]
    /\ identityOps = Nobody
    /\ events = [queued |-> 1, closed |-> FALSE]      \* client.ready
    /\ notifyClosed = FALSE
    /\ deliveries = [d \in Deliveries |-> Idle]
    /\ writer = "receive"
    /\ serve = [pc |-> "select", request |-> "none", cancelled |-> FALSE]
    /\ world = [interrupted |-> FALSE, broken |-> FALSE]

-----------------------------------------------------------------------------
\* Outside.

Tick == clock < MaxClock /\ clock' = clock + 1

\* connect: the room has a session of the present identity again.
Connect ==
    /\ session = NoSession /\ ~Cancelled
    /\ session' = identity.epoch
    /\ UNCHANGED <<clock, identity, received, delivered, identityOps, events,
                   notifyClosed, deliveries, writer, serve, world>>

SessionEnds ==
    /\ session # NoSession
    /\ session' = NoSession
    /\ deliveries' = Orphaned
    /\ UNCHANGED <<clock, identity, received, delivered, identityOps, events,
                   notifyClosed, writer, serve, world>>

Interrupt == ~world.interrupted /\ world' = [world EXCEPT !.interrupted = TRUE]
OutputBreaks == ~world.broken /\ world' = [world EXCEPT !.broken = TRUE]

Outside ==
    \/ Connect \/ SessionEnds
    \/ /\ Interrupt \/ OutputBreaks
       /\ UNCHANGED <<clock, identity, session, received, delivered, identityOps,
                      events, notifyClosed, deliveries, writer, serve>>
    \/ /\ Tick
       /\ UNCHANGED <<identity, session, received, delivered, identityOps, events,
                      notifyClosed, deliveries, writer, serve, world>>

-----------------------------------------------------------------------------
\* Deliveries.  "direct" is notifyDirectForSession, "view" notifyForSession
\* (room.state, room.presence), "event" emitEvent.

DeliverySteps(d) ==
    UNCHANGED <<clock, identity, session, notifyClosed, writer, serve, world>>

Ends(d) ==
    /\ deliveries' = [deliveries EXCEPT ![d] = Idle]
    /\ identityOps' = IF identityOps = d THEN Nobody ELSE identityOps

OfSession(kind, m) ==
    [pc |-> "lock", kind |-> kind, epoch |-> session, live |-> TRUE, direct |-> m]

\* ingestSerializable: a broadcast arrives over the current session and the
\* key of the client opens it.
Arrives(d, m) ==
    /\ deliveries[d] = Idle /\ session # NoSession
    /\ clock <= m.expires /\ m.to = identity.epoch
    /\ deliveries' = [deliveries EXCEPT ![d] = OfSession("direct", m)]
    /\ UNCHANGED <<received, delivered, identityOps, events>>
    /\ DeliverySteps(d)

\* The ingestion goroutine has stored an event, or refreshed the state.
Changes(d) ==
    /\ deliveries[d] = Idle /\ session # NoSession
    /\ \/ deliveries' = [deliveries EXCEPT ![d] = [Idle EXCEPT !.pc = "notify", !.kind = "event"]]
       \/ deliveries' = [deliveries EXCEPT ![d] = OfSession("view", NoDirect)]
    /\ UNCHANGED <<received, delivered, identityOps, events>>
    /\ DeliverySteps(d)

\* What a notification of a session passes under the lock.
RefusedIfCancelled(d) ==
    deliveries[d].kind = "direct" /\ (Cancelled \/ clock > deliveries[d].direct.expires)
Refused(d) ==
    \/ identity.epoch # deliveries[d].epoch
    \/ ~deliveries[d].live
    \/ /\ deliveries[d].kind = "direct"
       /\ \/ Cancelled
          \/ clock > deliveries[d].direct.expires

DropsSeen(d) == deliveries[d].kind = "direct" /\ deliveries[d].direct \in received'.ids
\* It was delivered already, or the cache is full.
Drops(d) ==
    /\ deliveries[d].kind = "direct"
    /\ \/ deliveries[d].direct \in received'.ids
       \/ Cardinality(received'.ids) >= MaxReceived

\* notifyUntil begins in the same step: while the lock is held, nobody closes
\* notifyClosed.
Locks(d) ==
    /\ deliveries[d].pc = "lock" /\ identityOps = Nobody
    /\ received' = IF deliveries[d].kind = "direct" /\ ~Refused(d)
                   THEN Prune(received) ELSE received
    /\ IF Refused(d) \/ Drops(d) \/ notifyClosed
       THEN Ends(d)
       ELSE /\ identityOps' = d
            /\ deliveries' = [deliveries EXCEPT ![d].pc = "send"]
    /\ UNCHANGED <<delivered, events>>
    /\ DeliverySteps(d)

\* notifyUntil without the lock: it counts itself in unless the client has closed ...
Enters(d) ==
    /\ deliveries[d].pc = "notify"
    /\ IF notifyClosed THEN Ends(d)
       ELSE deliveries' = [deliveries EXCEPT ![d].pc = "send"] /\ UNCHANGED identityOps
    /\ UNCHANGED <<received, delivered, events>>
    /\ DeliverySteps(d)

\* ... and waits for room in the channel; a direct message that is in it is
\* recorded under the same lock.
Sends(d) ==
    /\ deliveries[d].pc = "send"
    /\ events.queued < EventCapacity
    /\ events' = [events EXCEPT !.queued = @ + 1]
    /\ IF deliveries[d].kind = "direct"
       THEN LET m == deliveries[d].direct
            IN  received' = Remember(received, m) /\ delivered' = [delivered EXCEPT ![m] = @ + 1]
       ELSE UNCHANGED <<received, delivered>>
    /\ Ends(d)
    /\ DeliverySteps(d)

\* The context is done, or the session of a direct message.
GivesUp(d) ==
    /\ deliveries[d].pc = "send"
    /\ Cancelled \/ (deliveries[d].kind = "direct" /\ ~deliveries[d].live)
    /\ Ends(d)
    /\ UNCHANGED <<received, delivered, events>>
    /\ DeliverySteps(d)

Delivers(d) == Enters(d) \/ Sends(d) \/ GivesUp(d)

-----------------------------------------------------------------------------
\* The writer.

WriterReceives ==
    /\ writer = "receive"
    /\ IF events.queued > 0
       THEN writer' = "write" /\ events' = [events EXCEPT !.queued = @ - 1]
       ELSE events.closed /\ writer' = "ended" /\ UNCHANGED events
    /\ UNCHANGED <<clock, identity, session, received, delivered, identityOps,
                   notifyClosed, deliveries, serve, world>>

\* After a failed write it reports the error, cancels Serve and is gone.
WriterWrites ==
    /\ writer = "write"
    /\ writer' = IF world.broken THEN "failed" ELSE "receive"
    /\ UNCHANGED <<client, serve, world>>

WriterStep == WriterReceives \/ WriterWrites

-----------------------------------------------------------------------------
\* Serve.

Goes(pc) == serve' = [serve EXCEPT !.pc = pc]

\* The response, if the call has an id: when it cannot be written the loop ends.
Continues(pc) ==
    serve' = [serve EXCEPT !.pc = pc, !.request = "none"]
Answers == Continues("select") \/ (world.broken /\ Continues("close"))

\* A line that leaves the client alone, or a request that takes the lock.
Takes ==
    /\ serve.pc = "select"
    /\ \/ Answers
       \/ \E request \in {"change", "reset"} :
             serve' = [serve EXCEPT !.pc = "lock", !.request = request]
    /\ UNCHANGED <<client, writer, world>>

\* The end of the input, or the context of Serve.
EndsInput ==
    /\ serve.pc = "select"
    /\ Goes("close")
    /\ UNCHANGED <<client, writer, world>>
Stops ==
    /\ serve.pc = "select" /\ ServeCancelled
    /\ Goes("close")
    /\ UNCHANGED <<client, writer, world>>

\* SetName, ConfirmDomain, ClearDomain and SendDM: what they change (or send) is
\* done, or refused.
LocksForChange ==
    /\ serve.pc = "lock" /\ serve.request = "change"
    /\ identityOps = Nobody
    /\ \/ identityOps' = "serve" /\ Goes("notify")
       \/ UNCHANGED identityOps /\ Answers
    /\ UNCHANGED <<clock, identity, session, received, delivered, events,
                   notifyClosed, deliveries, writer, world>>

\* ResetIdentity.  The exchange of the keys may fail after the sessions are closed.
LocksForReset ==
    /\ serve.pc = "lock" /\ serve.request = "reset"
    /\ identityOps = Nobody
    /\ \/ /\ identity.epoch < MaxEpoch
          /\ identityOps' = "serve"
          /\ identity' = [identity EXCEPT !.epoch = @ + 1]
          /\ session' = NoSession
          /\ deliveries' = Orphaned
          /\ received' = Empty
          /\ Goes("notify")
       \/ /\ \/ session' = NoSession /\ deliveries' = Orphaned
             \/ UNCHANGED <<session, deliveries>>
          /\ Answers
          /\ UNCHANGED <<identity, identityOps, received>>
    /\ UNCHANGED <<clock, delivered, events, notifyClosed, writer, world>>

\* The notification of the change: until it is queued, or the client's context
\* is done, the lock is held.
Announces ==
    /\ serve.pc = "notify"
    /\ \/ /\ events.queued < EventCapacity
          /\ events' = [events EXCEPT !.queued = @ + 1]
          /\ identity' = IF serve.request = "reset"
                         THEN [identity EXCEPT !.announced = identity.epoch] ELSE identity
       \/ Cancelled /\ UNCHANGED <<events, identity>>
    /\ identityOps' = Nobody
    /\ Answers
    /\ UNCHANGED <<clock, session, received, delivered, notifyClosed, deliveries,
                   writer, world>>

\* The deferred shutdown: cancel, input.Close, Client.Close.
CancelsAfterLock ==
    /\ serve.pc = "close"
    /\ Goes("close_lock")
    /\ UNCHANGED <<client, writer, world>>
Cancels ==
    /\ serve.pc = "close"
    /\ serve' = [serve EXCEPT !.pc = "close_lock", !.cancelled = TRUE]
    /\ UNCHANGED <<client, writer, world>>

ClosesSessions ==
    /\ serve.pc = "close_lock" /\ identityOps = Nobody
    /\ session' = NoSession
    /\ deliveries' = Orphaned
    /\ serve' = [serve EXCEPT !.pc = "close_notify", !.cancelled = TRUE]
    /\ UNCHANGED <<clock, identity, received, delivered, identityOps, events,
                   notifyClosed, writer, world>>

ClosesNotify ==
    /\ serve.pc = "close_notify"
    /\ notifyClosed' = TRUE
    /\ Goes("close_wait")
    /\ UNCHANGED <<clock, identity, session, received, delivered, identityOps,
                   events, deliveries, writer, world>>

\* room.workers.Wait and notifyWG.Wait: the handlers of direct messages are not
\* workers, they are waited for only inside notifyUntil.
WaitedForNobody == TRUE
Waited == \A d \in Deliveries :
    deliveries[d].pc # "idle" => deliveries[d].kind = "direct" /\ deliveries[d].pc # "send"

ClosesEvents ==
    /\ serve.pc = "close_wait" /\ Waited
    /\ events' = [events EXCEPT !.closed = TRUE]
    /\ Goes("close_writer")
    /\ UNCHANGED <<clock, identity, session, received, delivered, identityOps,
                   notifyClosed, deliveries, writer, world>>

Returns ==
    /\ serve.pc = "close_writer" /\ writer \in {"failed", "ended"}
    /\ Goes("returned")
    /\ UNCHANGED <<client, writer, world>>

\* Steps that wait for the lock or for room in the channel, and the others.
ServeWaits == LocksForChange \/ LocksForReset \/ Announces \/ ClosesSessions
ServeGoes ==
    \/ Cancels \/ ClosesNotify \/ ClosesEvents \/ Returns

Next ==
    \/ Outside
    \/ \E d \in Handlers, m \in Directs : Arrives(d, m)
    \/ \E d \in Workers : Changes(d)
    \/ \E d \in Deliveries : Locks(d) \/ Delivers(d)
    \/ WriterStep \/ Takes \/ EndsInput \/ Stops \/ ServeWaits \/ ServeGoes

Spec == Init /\ [][Next]_vars

\* Goroutines go on; the consumer keeps reading.  A mutex and the senders of a
\* channel are served in turn, so who waits for them gets them if they are free
\* again and again; the select of Serve chooses at random among what is ready.
Fairness ==
    /\ WF_vars(ServeGoes) /\ SF_vars(ServeWaits) /\ SF_vars(Stops)
    /\ WF_vars(WriterStep)
    /\ \A d \in Deliveries : WF_vars(Locks(d)) /\ SF_vars(Delivers(d))

FairSpec == Spec /\ Fairness

-----------------------------------------------------------------------------
DeliveryShape ==
    [pc : {"idle", "lock", "notify", "send"}, kind : {"none", "direct", "view", "event"},
     epoch : 0 .. NoSession, live : BOOLEAN, direct : Directs \cup {NoDirect}]

\* The cache of direct messages stays within its limit and knows when its next
\* entry expires.
TypeOK ==
    /\ clock \in 1 .. MaxClock
    /\ identity \in [epoch : 0 .. MaxEpoch, announced : 0 .. MaxEpoch]
    /\ session \in 0 .. NoSession
    /\ received.ids \subseteq Directs /\ Cardinality(received.ids) <= MaxReceived
    /\ received.next = Earliest(received.ids)
    /\ delivered \in [Directs -> Nat]
    /\ identityOps \in Deliveries \cup {Nobody, "serve"}
    /\ events \in [queued : 0 .. EventCapacity, closed : BOOLEAN]
    /\ notifyClosed \in BOOLEAN
    /\ deliveries \in [Deliveries -> DeliveryShape]
    /\ writer \in {"receive", "write", "failed", "ended"}
    /\ serve \in [pc : {"select", "lock", "notify", "close", "close_lock",
                        "close_notify", "close_wait", "close_writer", "returned"},
                  request : {"none", "change", "reset"}, cancelled : BOOLEAN]
    /\ world \in [interrupted : BOOLEAN, broken : BOOLEAN]

\* A direct message is announced once however often it is broadcast: its entry
\* stays in the cache for as long as its signature is accepted, over every
\* session, and a reset may forget it only because nobody can open it any more.
DeliveredOnce == \A m \in Directs : delivered[m] <= 1

\* The consumer never gets a direct message for another identity than the last
\* one it was told of: neither for the old one after the reset was announced, nor
\* for the new one before.
AddresseeAnnounced ==
    [][\A m \in Directs : delivered'[m] # delivered[m] => m.to = identity.announced]_vars

\* A message that is valid, live and new is refused only while MaxReceived others
\* could still be replayed: an expired entry costs nobody a message.
RefusedOnlyWhenFull ==
    [][\A d \in Deliveries :
          /\ deliveries[d].pc = "lock" /\ deliveries[d].kind = "direct"
          /\ deliveries'[d] = Idle /\ ~Refused(d)
          =>  \/ deliveries[d].direct \in received.ids
              \/ Cardinality({m \in received.ids : clock <= m.expires}) >= MaxReceived]_vars

\* Nobody sends to the closed channel (a panic in Go), although broadcasts are
\* handled by goroutines that Close does not wait for.
NoSendOnClosed == events.closed => \A d \in Deliveries : deliveries[d].pc # "send"

\* The server ends, and with it the client: on a signal, and whenever it has left
\* its loop (the end of the input, a response nobody reads); whoever holds the
\* lock and however full the channel is.
ShutsDown ==
    /\ world.interrupted ~> serve.pc = "returned"
    /\ (serve.pc = "close") ~> (serve.pc = "returned")

\* PROTOCOL.md: "EOF, interruption and broken stdio terminate the session
\* cleanly."  Violated: only the context of Serve is cancelled, and a request
\* that waits for room in the channel waits for the client's.
BrokenOutputTerminates == (writer = "failed") ~> (serve.pc = "returned")

=============================================================================
