------------------------------ MODULE Replication ------------------------------
(***************************************************************************)
(* Relays: nodes without room_key that keep a verified copy of the         *)
(* canonical history, serve reads from it and forward submissions and      *)
(* broadcasts.                                                             *)
(*                                                                         *)
(* A relay changes its copy only under replicaMu, and keeps that lock      *)
(* while it queries other nodes; the task of a relay is what holds the     *)
(* lock.  Tasks persist a broadcast or a forwarded commit, reconcile with  *)
(* the sequencer every 30 seconds, answer getRoomState, and synchronize    *)
(* before the relay starts to serve.  A step of a task is one transaction  *)
(* on the relay's database or one answered query.  Broadcasts are lost,    *)
(* repeated and reordered, queries time out, relays crash.                 *)
(*                                                                         *)
(* Abstractions.  There is one chain (only the sequencer can sign), so an  *)
(* event is its seqno and a copy is the length of its prefix.  The state   *)
(* that snapshots sign is the write policy, the smallest state that can    *)
(* return to an earlier value; a signed snapshot is its revision.          *)
(***************************************************************************)
EXTENDS Naturals, Sequences, FiniteSets

CONSTANTS
    Relays,
    Sequencer,      \* The sequencer's node.
    PageLimit,      \* community.MaxPageLimit.
    Kinds,          \* Kinds of events: messages, and the two write policies.
    MaxEvents,      \* Bound: events in the history.
    MaxFailures     \* Bound: crashes, and failed queries to the sequencer while
                    \* a relay reconciles or starts.

ASSUME ReplicationAssumption ==
    /\ Sequencer \notin Relays
    /\ PageLimit \in Nat \ {0}
    /\ Kinds \subseteq {"message", "open", "close"}
    /\ {MaxEvents, MaxFailures} \subseteq Nat

VARIABLES
    log,            \* The canonical history: the kind of each event.
    head,           \* replica_head of each relay.
    snapshot,       \* raw_signed_state of each relay.
    serving,        \* The relay has synchronized and serves its peers.
    task,           \* The task that holds replicaMu to change the copy.
    reader,         \* The getRoomState handler that holds it.
    seen,           \* The dedup index: the broadcasts a relay persisted and
                    \* passed on since it started.
    told,           \* History: the last event a relay told a leaf is committed.
    failures

vars == <<log, head, snapshot, serving, task, reader, seen, told, failures>>

Nodes == Relays \cup {Sequencer}

-----------------------------------------------------------------------------
\* The history and the states it leads to.

Seqnos == 1 .. Len(log)
IsChange(n) == log[n] # "message"

\* The revision of the state after n events: the last state-changing event.
LatestChange(n) ==
    CHOOSE c \in 0 .. n : /\ c > 0 => IsChange(c)
                          /\ \A k \in c + 1 .. n : ~IsChange(k)

\* The write policy after n events; genesis lets anyone write.
Policy(n) == LatestChange(n) = 0 \/ log[LatestChange(n)] = "open"

\* store.ReplicaReady: the snapshot is signed and covers the latest change.
Ready(r) == snapshot[r].signed /\ snapshot[r].revision = LatestChange(head[r])

HeadOf(node) == IF node = Sequencer THEN Len(log) ELSE head[node]
RevisionOf(node) ==
    IF node = Sequencer THEN LatestChange(Len(log)) ELSE snapshot[node].revision

NoTask == [job |-> "none", phase |-> "none", source |-> Sequencer, event |-> 0, goal |-> "end",
           peer |-> Sequencer, upto |-> 0, more |-> FALSE]
NoReader == [at |-> "none", revision |-> 0, head |-> 0, ready |-> FALSE]

Tasks == [job : {"none", "broadcast", "submit", "reconcile", "startup"},
          phase : {"none", "append", "page", "store", "state"},
          source : Nodes, event : Nat, goal : {"append", "again", "state", "end"},
          peer : Nodes, upto : Nat, more : BOOLEAN]
Reads == [at : {"none", "head", "ready", "answer"}, revision : Nat, head : Nat, ready : BOOLEAN]

\* Whether a task, and whether a reader, may take replicaMu.
TaskMayLock(r) == task[r] = NoTask /\ reader[r] = NoReader
ReaderMayLockAlways(r) == reader[r] = NoReader
ReaderMayLock(r) == task[r] = NoTask /\ reader[r] = NoReader

\* The broadcasts a node has sent.  Each receiver gets them in any order, late,
\* again, or never.  (One whose sender has crashed is no different from one of
\* the sequencer: its connection is no source to synchronize from.)
PassedOnBy(node) == IF node = Sequencer THEN Seqnos ELSE seen[node]

\* A node answers getEvents while it serves, getRoomState only when no task
\* holds its lock.
AnswersEvents(node) == node \in {Sequencer} \cup {r \in Relays : serving[r]}
AnswersState(node) ==
    node \in {Sequencer} \cup {r \in Relays : serving[r] /\ ReaderMayLock(r)}

-----------------------------------------------------------------------------
\* Tasks.

\* persistReplicaEvent(source, event).  `goal' is what follows a successful
\* synchronization: "append" the event again, or "end" the task; "state" asks
\* the source for its state only.
Persist(job, source, event) ==
    [job |-> job, phase |-> "append", source |-> source, event |-> event,
     goal |-> "append", peer |-> source, upto |-> 0, more |-> FALSE]

\* syncReplicaLocked(sequencer), for the periodic reconciliation and start-up.
Synchronize(job) ==
    [job |-> job, phase |-> "page", source |-> Sequencer, event |-> 0,
     goal |-> "end", peer |-> Sequencer, upto |-> 0, more |-> FALSE]

Asking(t, goal, phase, peer) ==
    [t EXCEPT !.goal = goal, !.phase = phase, !.peer = peer]

\* Nodes a task may turn to when it starts a synchronization (the source, or
\* the sequencer if the source is not a healthy node) and when one has failed.
FirstPeers(t) == {t.source, Sequencer}
NextPeers(t) == {Sequencer} \ {t.peer}

EndsWithoutUnlock(r) == task' = [task EXCEPT ![r].phase = "done"]
Ends(r) == task' = [task EXCEPT ![r] = NoTask]

\* The task fails: a broadcast is released from the dedup and can come again, a
\* forwarded submission is not answered.
FailsHandled(r) ==
    /\ Ends(r)
    /\ seen' = IF task[r].job = "broadcast"
               THEN [seen EXCEPT ![r] = @ \cup {task[r].event}] ELSE seen
    /\ UNCHANGED <<told, serving>>
Fails(r) == Ends(r) /\ UNCHANGED <<seen, told, serving>>

\* The task succeeds.  A broadcast is forwarded, a submission is answered, a
\* starting relay begins to serve.
Succeeds(r) ==
    LET t == task[r]
    IN  /\ Ends(r)
        /\ seen' = IF t.job = "broadcast"
                   THEN [seen EXCEPT ![r] = @ \cup {t.event}] ELSE seen
        /\ told' = IF t.job = "submit" /\ t.event > told[r]
                   THEN [told EXCEPT ![r] = t.event] ELSE told
        /\ serving' = IF t.job = "startup" THEN [serving EXCEPT ![r] = TRUE] ELSE serving

Continues(r, t) ==
    /\ task' = [task EXCEPT ![r] = t]
    /\ UNCHANGED <<seen, told, serving>>

\* syncReplicaFromPeers starts, or the task fails because no node is left.
StartsSync(r, goal, peers) ==
    \/ \E peer \in peers : Continues(r, Asking(task[r], goal, "page", peer))
    \/ Fails(r)

-----------------------------------------------------------------------------
Init ==
    /\ log = <<>>
    /\ head = [r \in Relays |-> 0]
    /\ snapshot = [r \in Relays |-> [revision |-> 0, signed |-> FALSE]]
    /\ serving = [r \in Relays |-> FALSE]
    /\ task = [r \in Relays |-> NoTask]
    /\ reader = [r \in Relays |-> NoReader]
    /\ seen = [r \in Relays |-> {}]
    /\ told = [r \in Relays |-> 0]
    /\ failures = 0

\* The sequencer commits an event and floods it.
SequencerCommits(kind) ==
    /\ Len(log) < MaxEvents
    /\ log' = Append(log, kind)
    /\ UNCHANGED <<head, snapshot, serving, task, reader, seen, told, failures>>

\* handleCommunityMessage: a broadcast from another node that was not handled
\* before.  (Of its copies all but one are dropped while it is being handled.)
TakeBroadcast(r, from, n) ==
    /\ serving[r] /\ TaskMayLock(r)
    /\ n \in PassedOnBy(from) \ seen[r]
    /\ task' = [task EXCEPT ![r] = Persist("broadcast", from, n)]
    /\ UNCHANGED <<log, head, snapshot, serving, reader, seen, told, failures>>

\* forwardSubmit: the sequencer has answered with the commit of the leaf's
\* proposal, new or old.
TakeCommit(r, n) ==
    /\ serving[r] /\ TaskMayLock(r)
    /\ task' = [task EXCEPT ![r] = Persist("submit", Sequencer, n)]
    /\ UNCHANGED <<log, head, snapshot, serving, reader, seen, told, failures>>

\* replicaReconcileLoop.
Reconcile(r) ==
    /\ serving[r] /\ TaskMayLock(r)
    /\ task' = [task EXCEPT ![r] = Synchronize("reconcile")]
    /\ UNCHANGED <<log, head, snapshot, serving, reader, seen, told, failures>>

\* The relay process starts (again) with replica.Sync.
Start(r) ==
    /\ ~serving[r] /\ TaskMayLock(r)
    /\ task' = [task EXCEPT ![r] = Synchronize("startup")]
    /\ UNCHANGED <<log, head, snapshot, serving, reader, seen, told, failures>>

\* AppendReplica on the event, and what persistReplicaEvent makes of the
\* result: a gap is repaired first, a new state-changing event needs the
\* signed state that covers it.
AppendEvent(r) ==
    LET t == task[r]
        fresh == t.event = head[r] + 1
    IN  /\ t.job \in {"broadcast", "submit"} /\ t.phase = "append"
        /\ \/ /\ t.event > head[r] + 1
              /\ UNCHANGED head
              /\ IF t.goal = "append"
                 THEN StartsSync(r, "again", FirstPeers(t))
                 ELSE Fails(r)
           \/ /\ t.event <= head[r] + 1
              /\ head' = IF fresh THEN [head EXCEPT ![r] = @ + 1] ELSE head
              /\ IF ~IsChange(t.event) \/ (~fresh /\ Ready(r)) THEN Succeeds(r)
                 ELSE \/ Continues(r, Asking(t, "state", "state", t.source))
                      \/ StartsSync(r, "end", FirstPeers(t))
        /\ UNCHANGED <<log, snapshot, reader, failures>>

\* One page of getEvents arrives.
Page(r) ==
    LET t == task[r]
        available == HeadOf(t.peer)
        more == available > head[r] + PageLimit
    IN  /\ t.job # "none" /\ t.phase = "page"
        /\ AnswersEvents(t.peer)
        /\ Continues(r, [t EXCEPT !.phase = "store", !.more = more,
                                 !.upto = IF more THEN head[r] + PageLimit ELSE available])
        /\ UNCHANGED <<log, head, snapshot, reader, failures>>

\* Its events are appended, each in a transaction; the last page is followed
\* by getRoomState.
StorePage(r) ==
    LET t == task[r]
    IN  /\ t.job # "none" /\ t.phase = "store"
        /\ IF t.upto > head[r]
           THEN /\ head' = [head EXCEPT ![r] = @ + 1]
                /\ Continues(r, t)
           ELSE /\ Continues(r, [t EXCEPT !.phase = IF t.more THEN "page" ELSE "state",
                                         !.upto = 0, !.more = FALSE])
                /\ UNCHANGED head
        /\ UNCHANGED <<log, snapshot, reader, failures>>

\* syncReplicaLocked, or installStateFromPeer alone, returned nil.
AfterInstall(r) ==
    LET t == task[r]
    IN  IF t.goal = "again" THEN Continues(r, [t EXCEPT !.phase = "append"])
        ELSE Succeeds(r)

\* ... or an error: after the direct request the task synchronizes, after a
\* synchronization it turns to the sequencer once.
AfterFailure(r) ==
    LET t == task[r]
    IN  IF t.goal = "state" THEN StartsSync(r, "end", FirstPeers(t))
        ELSE StartsSync(r, t.goal, IF t.job \in {"broadcast", "submit"}
                                   THEN NextPeers(t) ELSE {})

\* InstallReplicaState accepts a state whose revision is in the copy and whose
\* content is that of the tables; it does not compare it with the stored one.
InstallableByContent(r, revision) == Policy(revision) = Policy(head[r])
InstallableIfNewer(r, revision) ==
    /\ revision <= head[r] /\ Policy(revision) = Policy(head[r])
    /\ snapshot[r].signed => revision > snapshot[r].revision
Installable(r, revision) ==
    revision <= head[r] /\ Policy(revision) = Policy(head[r])

\* getRoomState is answered and the state is installed or refused.  A starting
\* relay also demands that it is ready then.
InstallState(r) ==
    LET t == task[r]
        revision == RevisionOf(t.peer)
        installed == Installable(r, revision)
    IN  /\ t.job # "none" /\ t.phase = "state"
        /\ AnswersState(t.peer)
        /\ snapshot' = IF installed
                       THEN [snapshot EXCEPT ![r] = [revision |-> revision, signed |-> TRUE]]
                       ELSE snapshot
        /\ IF ~installed THEN AfterFailure(r)
           ELSE IF t.job = "startup" /\ revision # LatestChange(head[r]) THEN Fails(r)
           ELSE AfterInstall(r)
        /\ UNCHANGED <<log, head, reader, failures>>

\* A query times out or its connection breaks.
QueryFails(r) ==
    LET t == task[r]
    IN  /\ t.job # "none" /\ t.phase \in {"page", "state"}
        /\ IF t.job \in {"reconcile", "startup"}
           THEN failures < MaxFailures /\ failures' = failures + 1
           ELSE UNCHANGED failures
        /\ AfterFailure(r)
        /\ UNCHANGED <<log, head, snapshot, reader>>

\* communityStateResult: the state, the head and the readiness are three reads
\* of the database under the lock.
ReadState(r) ==
    /\ serving[r] /\ ReaderMayLock(r)
    /\ reader' = [reader EXCEPT ![r].at = "head", ![r].revision = snapshot[r].revision]
    /\ UNCHANGED <<log, head, snapshot, serving, task, seen, told, failures>>

ReadHead(r) ==
    /\ reader[r].at = "head"
    /\ reader' = [reader EXCEPT ![r].at = "ready", ![r].head = head[r]]
    /\ UNCHANGED <<log, head, snapshot, serving, task, seen, told, failures>>

ReadReady(r) ==
    /\ reader[r].at = "ready"
    /\ reader' = [reader EXCEPT ![r].at = "answer", ![r].ready = Ready(r)]
    /\ UNCHANGED <<log, head, snapshot, serving, task, seen, told, failures>>

AnswerRead(r) ==
    /\ reader[r].at = "answer"
    /\ reader' = [reader EXCEPT ![r] = NoReader]
    /\ UNCHANGED <<log, head, snapshot, serving, task, seen, told, failures>>

\* The relay dies: its database is left.
Crash(r) ==
    /\ serving[r] \/ task[r] # NoTask
    /\ failures < MaxFailures
    /\ failures' = failures + 1
    /\ serving' = [serving EXCEPT ![r] = FALSE]
    /\ reader' = [reader EXCEPT ![r] = NoReader]
    /\ Ends(r)
    /\ seen' = [seen EXCEPT ![r] = {}]
    /\ UNCHANGED <<log, head, snapshot, told>>

TaskStep(r) ==
    \/ AppendEvent(r) \/ Page(r) \/ StorePage(r) \/ InstallState(r) \/ QueryFails(r)

ReadStep(r) == ReadHead(r) \/ ReadReady(r) \/ AnswerRead(r)

Next ==
    \/ \E kind \in Kinds : SequencerCommits(kind)
    \/ \E r \in Relays : \E from \in Nodes \ {r}, n \in Seqnos : TakeBroadcast(r, from, n)
    \/ \E r \in Relays, n \in Seqnos : TakeCommit(r, n)
    \/ \E r \in Relays : Reconcile(r) \/ Start(r) \/ TaskStep(r)
    \/ \E r \in Relays : ReadState(r) \/ ReadStep(r) \/ Crash(r)

Spec == Init /\ [][Next]_vars

\* A task that can go on does; the ticker and the operator's supervisor come
\* back, and a Go mutex does not starve the reconciliation that waits for it.
Fairness ==
    \A r \in Relays : /\ WF_vars(TaskStep(r))
                      /\ WF_vars(ReadStep(r))
                      /\ WF_vars(Start(r))
                      /\ SF_vars(Reconcile(r))

FairSpec == Spec /\ Fairness

-----------------------------------------------------------------------------
TypeOK ==
    /\ log \in Seq(Kinds)
    /\ head \in [Relays -> Nat]
    /\ snapshot \in [Relays -> [revision : Nat, signed : BOOLEAN]]
    /\ serving \in [Relays -> BOOLEAN]
    /\ task \in [Relays -> Tasks]
    /\ reader \in [Relays -> Reads]
    /\ seen \in [Relays -> SUBSET Nat]
    /\ told \in [Relays -> Nat]
    /\ failures \in 0 .. MaxFailures

\* Whatever a relay passes on, to a leaf as the commit of its submission, to a
\* relay as a broadcast, or to anyone as its dedup verdict, is in its database:
\* a reader that hears of an event from a relay finds it there, also after the
\* relay crashed.
PassedOnIsDurable ==
    \A r \in Relays : \A n \in {told[r]} \cup seen[r] : n <= head[r]

\* PROTOCOL.md: ready=true requires that the signed state covers the latest
\* state-changing commit.  It holds of every answer, although the answer is put
\* together from three reads, of the head that very answer reports.
ReadyAnswersCover ==
    \A r \in Relays :
        reader[r].at = "answer" /\ reader[r].ready
        => reader[r].revision = LatestChange(reader[r].head)

\* A relay is a copy that only grows, one event of the canonical history at a time,
\* over crashes too; its signed state is one this copy has reached, with the content
\* it has now, although a state with the very same content may have been signed
\* earlier or later; and it tells of commits only that it holds.
Copies == [r \in Relays |-> SubSeq(log, 1, head[r])]
Revisions == [r \in Relays |-> snapshot[r].revision]
Ledger == INSTANCE RelayLedger WITH copy <- Copies, revision <- Revisions
ImplementsRelayLedger == Ledger!LedgerSpec

\* Once failures stop, every relay serves, holds the whole history and is ready,
\* and stays so: whatever was lost, reordered or fetched from a relay that was
\* behind.
CatchUp == <>[](\A r \in Relays : serving[r] /\ head[r] = Len(log) /\ Ready(r))

=============================================================================
