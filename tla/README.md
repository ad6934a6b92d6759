# Tonnet Messenger: specification and verification

TLA+ modules for [tonnet-messenger](../src/README.md): persistent public rooms
over TON QUIC. One node, the sequencer, holds the room key and extends the
canonical history of a room; relays keep verified copies; clients verify what
they are told, keep a copy of their own and submit events. The modules follow
the code under `src/internal/`; `PROJECT.json` maps every definition to the
lines it models.

* Check a model: `tlc -workers 2 -config <Run>.cfg <MC module>`
* Check the proofs: `tlapm <Module>Proofs.tla`

## 1. The system

### Components, their state and their operations

| Component | State | Operations | Hard because |
| --- | --- | --- | --- |
| Sequencer commit path (`node/community.go`, `store/commit.go`) | SQLite: `events`, `replica_head`, `room_state` with the signed snapshot, `roles`, `pins`, `messages`, `request_nonces`; one goroutine per query | submit, submit batch, `submitLocal`, commit transaction, reads | handlers overlap; one clock reading is used across a ten-second domain resolution; the lock covers the transaction only |
| Room rules (`community/projection.go`, `store/commit.go`) | none (pure), or SQL tables | authorize, prepare, apply | the rules exist twice and must agree in every state |
| Audit (`store/audit.go`) | the database | replay and compare | decides whether an authority starts at all |
| Relay (`store/replica.go`, `node/community.go`, `replica/sync.go`) | a copy of the history, the last signed state, the dedup index | persist a broadcast, persist a forwarded commit, reconcile, start, answer reads | `replicaMu` is held over queries to other nodes; broadcasts are lost and reordered; crashes |
| Client journal (`client/pending.go`) | `pending_operations`: one row for each room | submit, retry, discard | the query times out while the commit happens; relays are not trusted with rejections |
| Client room (`client/client.go`, `client/store.go`) | session, projection, copy of the history, ingestion queue | connect, synchronize, ingest, refresh the state, join, leave | two goroutines, a lock held over queries, sessions that die at any moment |
| Client identity (`client/client.go`) | `identity.key`, its backup, `author_domain` | reset, confirm and clear a domain, recover | several system calls that each may fail or be the last |
| Peer table (`node/peers.go`, `forward.go`, `hygiene.go`, `roomnet/peer.go`) | peers by id, known nodes, connections | admit, wire, join, score, evict, disconnect | a connection closes while it is being wired or replaced |
| Broadcasts (`broadcast`, `overlay`) | dedup LRU | reserve, commit, release | persist before forward |
| Limits (`node/limits.go`) | buckets, bans | allow, punish | bounded maps over time |
| Identity domains (`tondns`, `node/node.go`) | cache with a lifetime | resolve, verify | stale entries, reading of an older clock |
| Direct messages (`dm`, `client/dm_replay.go`) | replay cache of 8192 entries | send, receive | broadcasts again and again over several sessions, cache at capacity, identity reset while a message waits |
| RPC server (`clientrpc/server.go`) | one request at a time; the channel of notifications | JSON-RPC over stdin and stdout, shutdown | a full channel with the lock held, broken output, goroutines that outlive the shutdown |
| Terminal interface (`clienttui/model.go`) | screen, displayed page, operation and page numbers | keys, notifications, results of commands | results come after the user has gone on; an event is notified while a page is read |
| Command lines | flags | start-up order | sequential |
| Discovery, DHT, transport, control socket, key files, address detection | connections and files | network and file I/O | mostly outside libraries |

### How they interact

A client submits an `EventProposal` over its session, to the sequencer or to a
relay that forwards it. The sequencer commits it and broadcasts the
`CommittedEvent`; relays persist it before they pass it on or answer; clients
verify it through a `Projection` and store it before they notify their user.
Whoever misses a broadcast sees a gap with the next one, or finds out by
polling (`replicaReconcileLoop` of a relay, the synchronization of a client's
new session), and asks for pages with `getEvents` and for the signed state with
`getRoomState`. Within a client, the journal waits for the room's ingestion
goroutine, and an identity reset closes the sessions of all rooms. Within a
node, every handler acts on the peer table that decides who may submit.

### What makes each correct

* Sequencer: one chain, one commit for each proposal, only what the rules allow,
  a snapshot equal to the tables, spaced nonces, an idempotent retry.
* Relay: nothing is passed on that is not durable, no state beyond the copy,
  `ready` answers cover their head, eventual catch-up.
* Client journal: nothing uncertain is forgotten, a rejection is final, a
  committed proposal is eventually settled.
* Client room: the shown copy is verified, each event is notified once and in
  order, sessions belong to the identity, the room reconnects.
* Client identity: the key is never lost, a reset lasts, a domain belongs to
  its key.
* Peer table: limits, no leaked connection, no dead peer.
* Notifications and RPC: each direct message is announced once and to whom it
  was sealed for, nothing is sent to a closed channel, the server ends.
* Terminal: the displayed history is the room's without a hole, a notified event
  is displayed or announced (but for one case, see the observations), the screen
  is never busy for nothing.

## 2. The modules

| Module | Contents |
| --- | --- |
| `RoomRules` | both implementations of the rules, as operators on a room record |
| `RoomLedger` | abstract specification: an append-only history that a client's `Projection` accepts |
| `Sequencer` | handlers, clock and database of the sequencer |
| `SequencerProperties` | its properties, the audit as a fold, the refinement mapping |
| `SequencerProofs` | theorems about it |
| `RelayLedger` | abstract specification: relays are growing copies of one history |
| `Replication` | relays beside an abstract sequencer |
| `ReplicationProofs` | theorems about it |
| `SubmissionLedger` | abstract specification: what a client promises about the events its user submits |
| `ClientJournal` | one client's submissions in one room |
| `JournalProofs` | theorems about it |
| `RoomTimeline` | abstract specification: what the user sees of a joined room |
| `ClientRoom` | one client's session, copy and ingestion in one room |
| `RoomProofs` | theorems about it |
| `PeerTable` | the peers of one node |
| `PeerTableProofs` | theorems about it |
| `IdentitySwap` | the identity file, its backup and the domain |
| `IdentityProofs` | theorems about it |
| `StdioSession` | the RPC server, the channel of notifications, direct messages and the shutdown |
| `StdioProofs` | theorems about it |
| `TerminalRoom` | the room screen of the terminal client |
| `TerminalProofs` | theorems about it |
| `MC...` | instances for TLC |

Correspondence worth knowing before reading them:

* **Sequencer.** A handler goes `lookup`, `resolve` (only with a domain claim),
  `commit`, `answer`. `now` is the reading of `answerQuery`/`submitLocal`. The
  transaction of `store.Commit` is one action because `store.mu` and SQLite make
  it one; a rejection rolls back the expiry of nonces too, so `CommitRefuse`
  changes no table. The database outlives `Crash`, the handlers do not. A hash
  is the record of what it covers.
* **Replication.** A relay's task is the holder of `replicaMu` that changes the
  copy: `append`, `page`, `store` and `state` are the phases of
  `persistReplicaEvent` and `syncReplicaLocked`. `reader` is the getRoomState
  handler with the same lock, so a relay whose task is waiting does not answer
  another relay's state query. A copy is the length of a prefix: only the
  sequencer can sign, so there is one chain. States are the write policy, the
  smallest state that can return to an earlier content: a snapshot's content is
  then not enough to tell its revision.
* **ClientJournal.** `call` is the submit or retry that holds `submitMu`,
  `requests` are queries that may reach the sequencer although nobody waits for
  them any more, `receipt` is `raw_commit` of the pending row.
* **ClientRoom.** `work` is what the holder of `historyMu` does. The session
  goroutine is `dial` and `work.by = "connect"`, the ingestion goroutine is
  `item` and `work.by = "ingest"`. `stored` is the database; `projection`,
  `state`, `queue` and `session` die with the process.
* **PeerTable.** A peer is known by its connection. `closing` holds peers that an
  operation took out of the table and whose `Close` is still to be called;
  `callback` is the transport's disconnect callback that is still to run.
* **IdentitySwap.** `swap.at` is the next system call. `disk` is the sequence of
  directory states since the last sync: a kill leaves the last, a loss of power
  any of them.

* **StdioSession.** `serve` is the goroutine of `Serve`, `writer` the one that
  prints notifications, `deliveries` are the client's own goroutines.
  `identityOps` is the lock; a delivery that has it sends to `events` with it.
  `serve.cancelled` is the client's context, `ServeCancelled` that of `Serve`: a
  failed write cancels only the second. A request is what it does to the lock
  and the channel, and its response is written in the step that ends it.
  The history variables are `delivered` and `identity.announced`.
* **TerminalRoom.** Every action but the client's (`Ingests`, `Reconnects`,
  `OperationRuns`, `Reads`) is one call of `Model.Update`. `loads`,
  `operations` and `sends` are commands that run; `pageRequest` and `operation`
  hold the number whose result is awaited. The code counts these numbers up and
  the model reuses those that no command carries. `bottom` is
  `viewport.AtBottom()`; moving puts the viewport at its top, which is the bottom
  too if everything fits. `noticed` and `early` are history variables: the
  newest event of the room's copy that was notified on the screen, and whether it came
  before anything was displayed, to a viewport that was not at its bottom.

## 3. The runs

| Run | Question | Size |
| --- | --- | --- |
| `SequencerRaces` | Do races of two handlers keep answers, snapshot, nonces and retries right? | 3 keys, 5 proposals, clock 0..4 |
| `SequencerRules` | Do the store's rules agree with the projection's over whole histories (audit, refinement)? | 12 proposals of every type, a change of the write policy among them, limits of one |
| `SequencerNonceWindow` | *violated*: is the retention window exact? | as Races |
| `ReplicationSafety` | Are relays safe under loss, reordering and a crash, and do they implement growing copies of one history? | 2 relays, 2 events, pages of 1 |
| `ReplicationCatchUp` | Do two relays that ask each other catch up, after crashes and failed queries too? | 2 relays, 2 events of one kind, pages of 1, 1 failure |
| `Journal` | Is the journal right about what it forgets, does it implement the ledger of submissions, and does retrying settle what was committed? | 2 proposals, 2 requests, direct and relayed sessions, 1 reset, 2 faults |
| `ClientRoom` | Do a room's two goroutines keep a verified, notified copy, implement the timeline, and reconnect? | 2 events, queue of 1, pages of 1, 2 faults, 1 reset or leave |
| `PeerTable` | Do limits hold and do dead connections leave? | 3 ids, 3 connections, limits of 1 |
| `IdentitySwap` | Does a reset survive failures, kills and power loss? | 4 keys, 2 errors |
| `StdioSession` | Do notifications, direct messages and the shutdown get along with a full channel? | 2 goroutines, 3 direct messages for 2 identities, channel and cache of 1, 1 reset |
| `StdioBrokenOutput` | *violated*: does the server end when its output breaks? | the same |
| `TerminalRoom` | Is the history on the screen right whatever comes late? | 3 events and an empty room, pages of 1, 2 loads, 2 operations, 1 send, queue of 1 |

**Bounds.** Counters of faults, resets, keys and events are named CONSTANTS
(`Max...`) that only appear in guards. Each run is chosen so that the interesting
case happens: two handlers are enough for a stale clock reading and a second
handler that purges; a clock of 4 lets a retention of 3 end; limits of one make
every limit reachable; pages of one event force a second page; a queue of one
overflows; two requests let a retry overtake its first attempt; three connections
let one replace another while a third waits; a room of three events in pages of
one has a gap that takes two pages to fill; two loads and two operations let an
old result come after a new command. In `SequencerRules` time stands still,
because rules do not depend on it. `TerminalRoom` is checked under the view
`Seen`, which identifies states that differ only in what no property and no later
state depends on: the numbers themselves, the history behind a menu, and of a page
load that is out of date everything but whether it has read its page, on which its
result waits. The proofs do not use the view. A session is numbered anew when nothing refers to
its number, so reuse of numbers is not confusion of sessions. `MaxHold`
stands for the ten seconds of the domain resolution plus scheduling.

**Deadlock** is checked in every run but the two of `StdioSession`, whose server
stops: all the other systems can always take a step.

**Fairness.** Safety runs have none. `ReplicationCatchUp` assumes that a task
that can go on does, that the operator's supervisor restarts a relay, and strong
fairness of `Reconcile`: the ticker of `replicaReconcileLoop` fires every 30
seconds and `sync.Mutex` does not starve a waiter. Broadcasts are never assumed
to arrive. `Journal` assumes that the client reconnects (its loop does so for
ever), that requests in flight are decided and that the user retries; failures
are bounded. `ClientRoom` assumes that both goroutines go on and that a query
ends (`context.WithTimeout`). `StdioSession` assumes that goroutines go on and
that the consumer keeps reading its pipe (PROTOCOL.md, section 7, asks it to);
strong fairness of the steps that wait for the lock or for room in the channel
(a Go mutex hands itself to whoever has waited a millisecond, the senders of a
channel queue up) and of `Stops` (`select` chooses at random among the cases
that are ready). No run assumes fairness of faults, crashes or the user's other
actions.

**What the runs show beyond "it holds".** Every property has a mutant in
`PROJECT.json`: a plausible bug (a missing second lookup, a session not
detached, a limit on the wrong counter) that violates it in the same run.

### Two disagreements with PROTOCOL.md

1. `SequencerNonceWindow`: PROTOCOL.md section 4 rejects "a reused author nonce
   within the retention window". `store.Commit` purges and compares nonces by the
   clock reading of the handler, which may predate the domain resolution. Another
   handler with a younger reading may have purged a nonce that has not expired at
   the older one, and the older handler accepts it again. What does hold, and is
   proved, is `NonceSpacing`: the retention less `MaxHold`.
2. `StdioBrokenOutput`: PROTOCOL.md says "EOF, interruption and broken stdio
   terminate the session cleanly". A failed write of a notification cancels the
   context of `Serve` and ends the reader of the channel. A request that waits
   for room in the channel, or for the lock such a wait holds, watches the
   client's context, which only `Close` cancels, and `Close` runs when the
   request is over. `ShutsDown` holds: an interrupt cancels both. (When the
   output is file descriptor 1, Go lets SIGPIPE end the process; the run is
   about the `io.Writer` that `Serve` takes.)

### Observations that are not findings

* A relay whose snapshot is current may install an older snapshot with the same
  content (`InstallReplicaState` does not compare revisions) and is not ready
  until the next reconciliation. `CatchUp` holds because of the latter; a rule
  that only accepts newer states violates it (the mutant of
  `ReplicationCatchUp`).
* `store.Commit` looks at the nonce before it authorizes; PROTOCOL.md section 4
  lists authorization first. Only the reported code differs.
* Two relays may each hold `replicaMu` while they query the other's state; both
  give up after ten seconds and turn to the sequencer.
* `peerFailure` counts by id. The writer of a connection that was replaced can
  spend its failures on the one that replaced it. The table stays consistent
  (`NoLeak`, `DeadPeersLeave`), but a healthy peer may be evicted.
* The identity swap tolerates one failed system call with any number of kills and
  power losses. With two it does not: if moving the old key back fails, the next
  reset removes its only copy. The properties say `OneFailure`, which leaves kills unbounded. A loss of power is
  not considered while a client runs that could not sync the directory when it
  was opened (`unsynced`), an error the code ignores on purpose.

* The terminal client forgets a notified event in one case. While the first page of
  a room loads, after a selection or the result of a join, the viewport need not be
  at its bottom: moving puts it at the top, with the lines of the screen before. An
  event that is notified then is only counted as unseen (`notification`, lines
  882-885), without another load. If the page was read before it, `mergePage`
  (629-645) displays the history without it, goes to the bottom and sets `unseen` to
  0: the event is neither displayed nor announced nor loading, whether or not the
  room's history was empty, until something else asks for the latest events. The
  model takes this step; `NoticedIsAccounted` states the exception with `early`, and
  TLC finds the property violated without it. No document or test says otherwise, so
  it is not a finding.
* Other remarks on the terminal client, by reading. A load that `ctrl+d` interrupts,
  and events notified while the details are shown, are not made up for on return
  (`noticed` is forgotten when the user moves). The details share the viewport with the room
  and `back` does not refresh it. A notification that was queued before a room was
  left brings the room back into the list (`ensureRoom`).

## 4. The proofs

`SequencerProofs` proves, for every choice of keys, proposals, handlers, limits
and times (the assumptions `RoomAssumption` and `SequencerAssumption` of the
modules):

| Theorem | Says |
| --- | --- |
| `RulesAgree` | `StoreAuthorizes`, `StoreVerdict` and `StoreEffect` agree with the projection's rules about every room, author and body |
| `TypeCorrect` | `Spec => []TypeOK` |
| `SnapshotIsCurrent` | `Spec => []SnapshotCurrent` |
| `AnswersCanonical` | `Spec => []AnswersAreCanonical` |
| `RetriesSucceed` | `Spec => RetriesFindTheirCommit` |
| `NoncesAreSpaced` | `Spec => []NonceSpacing` |
| `AuditAlwaysPasses` | `Spec => []AuditPasses` |
| `SequencerImplementsLedger` | `Spec => ImplementsLedger` |

The argument. None of the properties is inductive by itself. `HistoryInv` adds
to `TypeOK` and `SnapshotCurrent` that the head counts the events, which makes a
`seqno` a position in the history. All actions but `CommitAppend` leave the
database alone; the lemma `HistoryStep` says so once, and `AppendedEvent` says what the
transaction writes, so that only the append needs work. Answers and retries
follow because the history grows only at its end. `NonceInv` strengthens
`NonceSpacing` with what the nonce table knows: a handler's reading is not in the
future and at most `MaxHold` old, and a committed event either still has its row,
which expires a retention after the commit, or lies a retention before the
present clock. The reading of any other handler is then at most `MaxHold` short
of that retention. The refinement maps `log` to the proposals of `events` and
`projected` to `room`; `RulesAgree` turns the store's verdict into the
projection's, and `SnapshotCurrent` the write policy of the snapshot into that of
the room. The audit replays the history with a recursive function. What it computes
cannot be proved by induction over the sequence, and need not be: `AuditInv` says
that some replay exists that ends in the stored tables. `CommitAppend` extends it by
one room (`ReplayExtends`), and a replay is unique (`ReplayedIsLast`, by the
well-foundedness of `<`), so it is the one the audit finds.

`StdioProofs` proves, for every set of goroutines and direct messages, every
capacity of the channel and of the cache and any number of resets
(`StdioAssumption`):

| Theorem | Says |
| --- | --- |
| `TypeCorrect` | `Spec => []TypeOK`, with the limit and the next expiry of the replay cache |
| `ClosedChannelIsQuiet` | `Spec => []NoSendOnClosed` |
| `RefusalsAreJustified` | `Spec => RefusedOnlyWhenFull` |
| `DirectsAreDeliveredOnce` | `Spec => []DeliveredOnce` |
| `DirectsFollowTheirIdentity` | `Spec => AddresseeAnnounced` |

The argument. `CacheInv` adds to `TypeOK` that a direct message that waits for
the channel holds `identityOps` and has found room in the cache: without the lock
two of them could pass the limit together. That the next expiry is the least one
(`EarliestIsLeast`, by the well-foundedness of `<`) makes `pruneReceivedDMs` remove
exactly what has expired, although it mostly returns early
(`PruneRemovesExpired`). `LockInv` ties `identityOps` to the step of `Serve` that
announces a change, `ClosedInv` the two closed flags to the steps of the shutdown.
`IdentityInv` says what a direct message that has passed the checks relies on: it
is of the present identity, the consumer was told of that identity, and it was
never announced; and why an announced message cannot come again, which is that it is
in the cache, or too old, or sealed for a key that is gone. The third case is what
lets a reset empty the cache. An identity the consumer was not told of is one
whose announcement is still due, with the lock held, or given up because the
client is ending, and then direct messages are refused.

The other proof modules establish what the runs check of their component, from one
inductive invariant each. Every one of these invariants was checked by TLC on the
instance of the component's run before it was proved.

| Module | Theorems | For every |
| --- | --- | --- |
| `ReplicationProofs` | `ReplicationTypeOK`, `ToldOnlyWhatIsStored` (`PassedOnIsDurable`), `ReadyAnswersAreCurrent` (`ReadyAnswersCover`), `ReplicasImplementLedger` (`ImplementsRelayLedger`) | set of relays, history, page size, number of crashes |
| `JournalProofs` | `JournalTypeOK`, `NothingIsForgotten` (`NothingForgotten`), `RejectedIsNeverCommitted`, `JournalImplementsLedger` (`ImplementsSubmissionLedger`) | set of proposals and requests, number of resets and faults |
| `PeerTableProofs` | `PeerTableTypeOK`, `LimitsHold` (`Capacity`), `NoConnectionLeaks` (`NoLeak`), `DeadPeersAreRemoved` (`DeadPeersLeave`) | set of ids and connections, all limits |
| `IdentityProofs` | `IdentityTypeOK`, `DomainsAreOwn` (`DomainIsOwn`), `TheIdentityIsKept` (`IdentityKept`), `ResetsLast` (`ResetIsLasting`) | number of keys and failing calls (one in a swap, as the properties say) |
| `RoomProofs` | `RoomTypeOK`, `CopyIsVerified` (`CopyVerified`), `EveryEventIsNotified` (`EachEventNotified`), `SessionsHaveTheIdentity` (`SessionOfIdentity`), `ConfirmedEventsAreStored`, `LeftRoomsAreQuiet` (`LeftIsQuiet`), `RoomImplementsTimeline` (`ImplementsRoomTimeline`) | history, queue capacity, page size, number of faults and resets |
| `TerminalProofs` | `TerminalTypeOK`, `PagesAreFaithful` (`PageFaithful`), `NoticesAreAccounted` (`NoticedIsAccounted`) | set of rooms, history, page size, number of loads, operations and sends at once |

* **`ReplicaInv`**, of each relay. `CopyInv`: the copy is a prefix of the history and
  the snapshot is of a state the copy has reached. `TaskInv`: the task that holds
  `replicaMu` is about committed events, and comes to what follows the transaction of
  its event only when the event is in the copy. `ReadInv`: a reader holds the lock
  too, so what it has read is still so when it answers. `PassedInv` is
  `PassedOnIsDurable` for what was reported as well as for the dedup index. The
  refinement maps `copy` to the first `head` events of the history and `revision` to
  that of the snapshot. A step of a relay stores at most one event or one state and
  answers at most one leaf (`TaskMaps`). `RelayLedger` says without the latest change
  what a state's content is (`Open`); `PolicyIsOpen` shows that it is that of the
  tables, whose state `ReplicaReady` finds by the latest change.
* **`JournalInv`.** `RowInv`: the user was not told yet what became of the pending
  proposal, and a receipt is a commit. `QueryInv`: an answer finds its own call.
  `CallInv`: a call is about the pending row until it clears it, and goes towards an
  acknowledgement only when the event is in the history. `RejectionsAreFinal` needs
  `FirstInv` and `FinalInv`: while the first attempt of a proposal lasts, no other
  copy of it is under way, so a direct rejection of that attempt leaves none. The
  refinement (`JournalMaps`) forgets queries, sessions and calls: `pending` is the
  journal's row, `told` what the last call returned. `HeldInv` adds what it needs:
  a call that will report a commit has its event in the client's copy, also if the
  row was cleared before. A call that will report a rejection left no request behind
  (`FinalInv`), so the report is still true when it is made. `SubmissionLedger` commits a proposal only while
  it is pending or discarded, so that a rejection is final is part of the refinement
  (and `RejectionsAreFinal` a theorem, not a property of the run).
* **`TableInv`** adds to the three properties that a callback is never due for a
  connection that is open. The limits are cardinalities: what `admit` adds
  is compared with the limit of its class, and what replaces a connection of the same
  peer leaves the count.
* **`IdentityInv`.** `BasicInv` numbers keys in the order in which they were generated
  and says which system call can be next in which phase. `SwapInv` says where the old
  and the staged key are before each system call, as the directory shows it and in
  every state a loss of power may leave (`Survivors`).
* **`RoomInv`.** `LockInv` says who holds `historyMu`: while it is held, the current
  session is the one it is held for, or none. `CopyInv` says where copy,
  projection and state are in each phase; between two pieces of work they agree, unless
  the session belongs to an item that has failed and is about to close it. That is the
  excuse in `CopyVerified`. `NotifiedInv` counts the event that is stored and not yet
  notified. `FreshIdExists` is the pigeonhole argument that a session number is free
  (`FS_Surjection`). The last change before an event is chosen, and `LatestSkips`
  and `LatestKept` say how it moves; that it exists is the well-foundedness of `<`
  again. The refinement (`RoomMaps`) keeps copy, notifications, state and
  confirmations, and a room is `joined` while its goroutines run. `NotifiedInv` gives
  the order of storing and notifying, `DurableInv` that a confirmed event is held,
  `QuietInv` that a room that is joined starts empty; `RoomTimeline` says without a
  choice which revision covers a copy (`Covers`), and `LatestIs` that the installed
  one does. That a confirmed event is stored (`ConfirmedIsDurable`) is part of it and
  a theorem of its own.
* **`TerminalInv`.** `PageInv` says what is displayed is a run of the room's
  history, as long as it is `Steady`: not behind the menu, nor once a leave has
  erased it. `LeaveInv` is why that never shows: a leave is awaited on its own screen,
  which ends in the menu. `LoadInv` relates the one load whose result is awaited to
  the page on the screen: it asked for what lies before the first event displayed or
  for what follows the last, and what it has read meets or overlaps the page
  (`MergedIsFaithful`). The client reads back over pages until it meets what is known;
  that it does so for every page size is `RunStarts`. `NoticedInv` is
  `NoticedIsAccounted`, its exception included, with the reason why an announcement
  stays: either the viewport is not at its bottom and the history is not empty, or the
  event was `early` and the first page is still to be merged.

Only model-checked: all liveness (`CatchUp`, `CommittedIsSettled`, `Reconnects`,
`ShutsDown`), which is beyond the prover, and the two violated properties. Every
invariant, action property and refinement that a run checks is proved.

## 5. Not modelled

Cryptography, TL encoding, signatures' verification (assumed to reject what is
not authentic), SQLite (a transaction is atomic and durable), QUIC, DHT and TON
DNS (free choices of the environment), terminal layout, command-line parsing,
key files, address detection, drafts and the other screens of the terminal
client, the direct messages of its conversations, a join that runs together with a
leave of the same room. Token buckets, scores and idle times are
nondeterministic. The components with status `not_modelled` or `partly` in
`PROJECT.json` say why.

## 6. Plan

In this order; the most important behaviour came first and is done.

1. *Done*: `RoomRules`, `RoomLedger`, `Sequencer` with proofs; `Replication`;
   `ClientJournal`; `ClientRoom`; `PeerTable`; `IdentitySwap`; `StdioSession` with
   proofs; `TerminalRoom`.
2. *Done*: proofs of the safety of all of them.
3. *Done*: the abstract specifications `RelayLedger`, `SubmissionLedger` and
   `RoomTimeline`, which `Replication`, `ClientJournal` and `ClientRoom` implement.
4. New modules: the identity-domain cache under handlers with old readings; the
   sequencer clock and the timestamp window.
5. Compositions: two peer tables that dial each other (`considerNode`,
   `onInbound`); `ClientJournal` over `ClientRoom` for the hand-over of a commit
   between the calling goroutine and the ingesting one; `StdioSession` over
   `ClientRoom`.
