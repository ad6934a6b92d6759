------------------------- MODULE SequencerProperties -------------------------
(***************************************************************************)
(* What the sequencer promises about its history, its signed snapshot, its *)
(* answers and its nonces.                                                 *)
(***************************************************************************)
EXTENDS Sequencer

TypeOK ==
    /\ clock \in Nat
    /\ events \in Seq(Commit)
    /\ head \in [seqno : Nat, hash : Hash]
    /\ room \in Room
    /\ snapshot \in Snapshot
    /\ nonces \subseteq Nonce
    /\ handlers \in [Handlers -> Handler]

-----------------------------------------------------------------------------
\* The audit that every authority runs on its database before it serves
\* (roomstate.loadAuthority): the history is replayed through a Projection.

GenesisProjection ==
    [valid |-> TRUE, seqno |-> 0, hash |-> ZeroHash, room |-> GenesisRoom,
     revision |-> 0, revisionHash |-> GenesisHash]

\* Projection.Apply; `valid' turns FALSE where Apply returns an error.
ProjectionApply(projection, e) ==
    LET p == e.proposal
        changes == StateChanging(p.body)
    IN  [valid |-> /\ projection.valid
                   /\ e.seqno = projection.seqno + 1
                   /\ e.previous = projection.hash
                   /\ ProjectionAuthorizes(projection.room, p.author, p.body)
                   /\ ProjectionVerdict(projection.room, p.body) = "ok",
         seqno |-> e.seqno,
         hash |-> CommitHash(e),
         room |-> ProjectionEffect(projection.room, e.seqno, p.body),
         revision |-> IF changes THEN e.seqno ELSE projection.revision,
         revisionHash |-> IF changes THEN CommitHash(e) ELSE projection.revisionHash]

Replayed(history) ==
    LET replay[n \in 0 .. Len(history)] ==
            IF n = 0 THEN GenesisProjection
            ELSE ProjectionApply(replay[n - 1], history[n])
    IN  replay[Len(history)]

\* What Audit compares: the chain, the head, the tables and the signed state
\* with the replayed projection.
Audit ==
    LET replayed == Replayed(events)
    IN  /\ replayed.valid
        /\ head = [seqno |-> replayed.seqno, hash |-> replayed.hash]
        /\ room = replayed.room
        /\ snapshot = [revision |-> replayed.revision, hash |-> replayed.revisionHash,
                       state |-> Signed(replayed.room)]

-----------------------------------------------------------------------------
\* A sequencer can always be restarted: whatever the handlers interleaved and
\* wherever the process died, the database passes the audit of the next start,
\* whose rules are those of projection.go and not those Commit applied.
AuditPasses == Audit

\* An accepted or duplicate answer names the commit of exactly the submitted
\* proposal, and the history holds no second commit of it, however many copies
\* of the submission are in flight.
AnswersAreCanonical ==
    /\ \A i, j \in DOMAIN events : events[i].proposal = events[j].proposal => i = j
    /\ \A h \in Handlers :
          handlers[h].pc = "answer" /\ handlers[h].answer.verdict \in {"accepted", "duplicate"}
          => /\ handlers[h].answer.seqno \in DOMAIN events
             /\ events[handlers[h].answer.seqno].proposal = handlers[h].proposal

\* The snapshot Commit reads the write policy from, and serves to clients, is
\* the state of the tables at the latest state-changing event.
SnapshotCurrent ==
    /\ snapshot.state = Signed(room)
    /\ snapshot.revision \in 0 .. Len(events)
    /\ snapshot.revision > 0 =>
          /\ StateChanging(events[snapshot.revision].proposal.body)
          /\ snapshot.hash = CommitHash(events[snapshot.revision])
    /\ \A i \in DOMAIN events : i > snapshot.revision => ~StateChanging(events[i].proposal.body)

\* Two commits that use one nonce of one author are a retention period apart,
\* less the time a handler may live on its clock reading: a handler that read
\* the clock before a nonce expired commits after another one has deleted it.
NonceSpacing ==
    \A i, j \in DOMAIN events :
        (/\ i < j
         /\ events[i].proposal.author = events[j].proposal.author
         /\ events[i].proposal.nonce = events[j].proposal.nonce)
        => events[j].committedAt + MaxHold >= events[i].committedAt + NonceRetention

\* PROTOCOL.md takes the retention window as it stands: no slack.
NonceWindowStrict ==
    \A i, j \in DOMAIN events :
        (/\ i < j
         /\ events[i].proposal.author = events[j].proposal.author
         /\ events[i].proposal.nonce = events[j].proposal.nonce)
        => events[j].committedAt >= events[i].committedAt + NonceRetention

Decides(h) == handlers[h].pc \notin {"idle", "answer"} /\ handlers'[h].pc = "answer"

\* A retry of what is already durable is never refused for what has changed
\* since (the clock, the domain, the author's role, the nonce it consumed
\* itself): only a failing database keeps it from its commit.
RetriesFindTheirCommit ==
    [][\A h \in Handlers :
          Decides(h) /\ InHistory(handlers[h].proposal)
          => handlers'[h].answer.verdict \in {"duplicate", "persistence_failure"}]_vars

-----------------------------------------------------------------------------
\* The sequencer implements the abstract ledger, which knows the rules of
\* projection.go only.
LogOf(history) == [i \in DOMAIN history |-> history[i].proposal]
Ledger == INSTANCE RoomLedger WITH log <- LogOf(events), projected <- room

ImplementsLedger == Ledger!LedgerSpec
=============================================================================
