------------------------------- MODULE Sequencer -------------------------------
(***************************************************************************)
(* The sequencer: the one node that holds room_key and extends a room's    *)
(* canonical history.                                                      *)
(*                                                                         *)
(* Every query runs in a goroutine of its own (a handler).  The handler    *)
(* reads the clock once, when it starts (answerQuery, submitLocal), and    *)
(* uses that reading to the end: it looks the proposal up, verifies it,    *)
(* may wait for TON DNS to resolve the author's domain, and only then      *)
(* takes store.mu and runs the commit transaction.  Other handlers run in  *)
(* between.  The store is one SQLite database: a transaction is a single   *)
(* step here, and a crash loses the handlers and nothing else.             *)
(*                                                                         *)
(* Abstractions.  A proposal is its own id (HashBoxed is injective); the   *)
(* hash of a commit is its content without the previous-hash field, which  *)
(* tells all commits of this one chain apart.  Time is in ticks.           *)
(***************************************************************************)
EXTENDS RoomRules, Integers, Sequences

CONSTANTS
    Proposals,      \* The proposals clients submit.
    Nonces,         \* The author nonces they use.
    Handlers,       \* Query goroutines that may run at the same time.
    ClockSkew,      \* community.MutationClockSkew.
    NonceRetention, \* community.NonceRetention.
    MaxHold,        \* Bound: longest time a handler lives after its clock reading.
    MaxClock        \* Bound: last tick of a behaviour.

ProposalShape == [author : Keys, claim : BOOLEAN, nonce : Nonces,
                  timestamp : Nat, authentic : BOOLEAN, body : Body]
    \* claim: the proposal names an author_domain.
    \* authentic: it is for this room and its fields and signature are valid
    \* (the codes of these refusals are not told apart, nor their order).

ASSUME SequencerAssumption ==
    /\ Proposals \subseteq ProposalShape
    /\ {ClockSkew, NonceRetention, MaxHold, MaxClock} \subseteq Nat

VARIABLES
    clock,          \* The node's wall clock.
    events,         \* Table events, in seqno order.
    head,           \* Table replica_head.
    room,           \* Tables room_state, roles, pins and messages.
    snapshot,       \* The signed RoomState stored in room_state.raw_signed_state.
    nonces,         \* Table request_nonces.
    handlers        \* The query goroutines.

store == <<events, head, room, snapshot, nonces>>
vars == <<clock, events, head, room, snapshot, nonces, handlers>>

-----------------------------------------------------------------------------
\* Hashes and the records of the store.

ZeroHash == [kind |-> "zero"]           \* previous_hash of the first commit.
GenesisHash == [kind |-> "genesis"]     \* revision_hash of the initial state.
CommitHash(e) == [kind |-> "commit", seqno |-> e.seqno, proposal |-> e.proposal,
                  committedAt |-> e.committedAt]

Hash == {ZeroHash, GenesisHash}
        \cup [kind : {"commit"}, seqno : Nat, proposal : Proposals, committedAt : Nat]

Commit == [seqno : Nat, previous : Hash, proposal : Proposals, committedAt : Nat]

\* The part of a room that RoomState signs: the message ids are not in it.
Signed(r) == [name |-> r.name, anyone |-> r.anyone, admins |-> r.admins,
              moderators |-> r.moderators, pins |-> r.pins]

Snapshot == [revision : Nat, hash : Hash,
             state : [name : Names, anyone : BOOLEAN, admins : SUBSET Keys,
                      moderators : SUBSET Keys, pins : SUBSET Nat]]

Nonce == [author : Keys, nonce : Nonces, expires : Nat]

Verdicts == {"accepted", "duplicate", "unbound", "unverified", "timestamp",
             "reused_nonce", "permission_denied", "unknown_message",
             "limit_exceeded", "role_conflict", "invalid_domain", "persistence_failure"}

NoAnswer == [verdict |-> "none", seqno |-> 0]
Answer == {NoAnswer} \cup [verdict : Verdicts, seqno : Nat]

Idle == [pc |-> "idle"]
Handler == {Idle} \cup [pc : {"lookup", "resolve", "commit", "answer"},
                        proposal : Proposals, now : Nat, answer : Answer]

Active(h) == handlers[h].pc # "idle"

-----------------------------------------------------------------------------
\* Reads.

InHistory(p) == \E i \in DOMAIN events : events[i].proposal = p
NewestSeqno(p) == Len(events)
SeqnoOf(p) == CHOOSE i \in DOMAIN events : events[i].proposal = p

\* EventProposal.Verify: the signed timestamp is within the skew of `now'.
Timely(p, now) == p.timestamp <= now + ClockSkew /\ now <= p.timestamp + ClockSkew
VerifyVerdict(p, now) ==
    IF ~Timely(p, now) THEN "timestamp"
    ELSE IF ~p.authentic THEN "unverified"
    ELSE "ok"

\* The rows left after DELETE FROM request_nonces WHERE expires_at<=now.
LiveNonces(now) == {n \in nonces : n.expires > now}
ExpiryBySkew(now) == now + ClockSkew
ExpiryBackwards(now) == now - NonceRetention
Expiry(now) == now + NonceRetention

NonceInUse(p, now) ==
    \E n \in LiveNonces(now) : n.author = p.author /\ n.nonce = p.nonce

\* store.Commit up to the INSERT, and the projection's own refusals.
CommitVerdict(p, now) ==
    IF InHistory(p) THEN "duplicate"
    ELSE IF VerifyVerdict(p, now) # "ok" THEN VerifyVerdict(p, now)
    ELSE IF NonceInUse(p, now) THEN "reused_nonce"
    ELSE IF ~StoreAuthorizes(snapshot.state.anyone, room, p.author, p.body)
         THEN "permission_denied"
    ELSE StoreVerdict(room, p.body)

Answered(h, verdict) ==
    [handlers EXCEPT ![h].pc = "answer",
                     ![h].answer = [verdict |-> verdict,
                                    seqno |-> IF verdict = "duplicate"
                                              THEN SeqnoOf(handlers[h].proposal)
                                              ELSE 0]]

-----------------------------------------------------------------------------
Init ==
    /\ clock = 0
    /\ events = <<>>
    /\ head = [seqno |-> 0, hash |-> ZeroHash]
    /\ room = GenesisRoom
    /\ snapshot = [revision |-> 0, hash |-> GenesisHash, state |-> Signed(GenesisRoom)]
    /\ nonces = {}
    /\ handlers = [h \in Handlers |-> Idle]

\* A submission arrives, over a connection that may speak for the author
\* (answerSubmit) or over the operator's control socket (submitLocal).  The
\* handler's only clock reading is taken here.
Receive(h, p) ==
    /\ ~Active(h)
    /\ handlers' = [handlers EXCEPT ![h] = [pc |-> "lookup", proposal |-> p,
                                            now |-> clock, answer |-> NoAnswer]]
    /\ UNCHANGED <<clock, store>>

\* A submission arrives from a leaf whose key is not the author's.
ReceiveUnbound(h, p) ==
    /\ ~Active(h)
    /\ handlers' = [handlers EXCEPT ![h] = [pc |-> "answer", proposal |-> p, now |-> clock,
                                            answer |-> [verdict |-> "unbound", seqno |-> 0]]]
    /\ UNCHANGED <<clock, store>>

\* commitProposal up to the domain check: the first lookup, then the checks
\* that read only the proposal and the handler's clock reading.
Lookup(h) ==
    LET p == handlers[h].proposal
        verdict == VerifyVerdict(p, handlers[h].now)
    IN  /\ handlers[h].pc = "lookup"
        /\ handlers' =
             IF InHistory(p) THEN Answered(h, "duplicate")
             ELSE IF verdict # "ok" THEN Answered(h, verdict)
             ELSE [handlers EXCEPT ![h].pc = IF p.claim THEN "resolve" ELSE "commit"]
        /\ UNCHANGED <<clock, store>>

\* verifyIdentityDomain answers, from the cache or from TON DNS; what it says
\* is up to the environment.
ResolveOk(h) ==
    /\ handlers[h].pc = "resolve"
    /\ handlers' = [handlers EXCEPT ![h].pc = "commit"]
    /\ UNCHANGED <<clock, store>>

ResolveFailsAtOnce(h) ==
    /\ handlers[h].pc = "resolve"
    /\ handlers' = Answered(h, "invalid_domain")
    /\ UNCHANGED <<clock, store>>

\* The claim is refused or the ten seconds are over: the proposal is looked up
\* a second time, because a copy may have been committed during the wait.
ResolveFails(h) ==
    /\ handlers[h].pc = "resolve"
    /\ handlers' = Answered(h, IF InHistory(handlers[h].proposal)
                               THEN "duplicate" ELSE "invalid_domain")
    /\ UNCHANGED <<clock, store>>

\* store.Commit ends without an INSERT: a duplicate, or a rejection whose
\* rollback undoes the expiry of nonces too.
CommitRefuse(h) ==
    LET verdict == CommitVerdict(handlers[h].proposal, handlers[h].now)
    IN  /\ handlers[h].pc = "commit"
        /\ verdict # "ok"
        /\ handlers' = Answered(h, verdict)
        /\ UNCHANGED <<clock, store>>

\* The committed transaction: event, projection, snapshot, nonce and head.
CommitAppend(h) ==
    LET p == handlers[h].proposal
        now == handlers[h].now
        e == [seqno |-> head.seqno + 1, previous |-> head.hash,
              proposal |-> p, committedAt |-> now]
    IN  /\ handlers[h].pc = "commit"
        /\ CommitVerdict(p, now) = "ok"
        /\ events' = Append(events, e)
        /\ head' = [seqno |-> e.seqno, hash |-> CommitHash(e)]
        /\ room' = StoreEffect(room, e.seqno, p.body)
        /\ snapshot' = IF StateChanging(p.body)
                       THEN [revision |-> e.seqno, hash |-> CommitHash(e),
                             state |-> Signed(room')]
                       ELSE snapshot
        /\ nonces' = LiveNonces(now)
                     \cup {[author |-> p.author, nonce |-> p.nonce,
                            expires |-> Expiry(now)]}
        /\ handlers' = [handlers EXCEPT ![h].pc = "answer",
                                        ![h].answer = [verdict |-> "accepted",
                                                       seqno |-> e.seqno]]
        /\ UNCHANGED clock

\* SQLite or the signer fails: a lookup returns the error, a transaction is
\* rolled back.
PersistenceFails(h) ==
    /\ handlers[h].pc \in {"lookup", "resolve", "commit"}
    /\ handlers' = Answered(h, "persistence_failure")
    /\ UNCHANGED <<clock, store>>

\* The answer is sent (an accepted event is broadcast first, unless the node
\* dies); the goroutine ends.
Finish(h) ==
    /\ handlers[h].pc = "answer"
    /\ handlers' = [handlers EXCEPT ![h] = Idle]
    /\ UNCHANGED <<clock, store>>

\* The process dies and is started again: only the database is left.
Crash ==
    /\ \E h \in Handlers : Active(h)
    /\ handlers' = [h \in Handlers |-> Idle]
    /\ UNCHANGED <<clock, store>>

\* Time passes; no handler outlives its clock reading by more than MaxHold.
Tick ==
    /\ clock < MaxClock
    /\ \A h \in Handlers : Active(h) => clock < handlers[h].now + MaxHold
    /\ clock' = clock + 1
    /\ UNCHANGED <<store, handlers>>

Next ==
    \/ \E h \in Handlers, p \in Proposals : Receive(h, p) \/ ReceiveUnbound(h, p)
    \/ \E h \in Handlers : Lookup(h) \/ ResolveOk(h) \/ ResolveFails(h)
    \/ \E h \in Handlers : CommitRefuse(h) \/ CommitAppend(h) \/ PersistenceFails(h)
    \/ \E h \in Handlers : Finish(h)
    \/ Crash
    \/ Tick

Spec == Init /\ [][Next]_vars
=============================================================================
