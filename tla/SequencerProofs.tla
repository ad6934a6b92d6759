--------------------------- MODULE SequencerProofs ---------------------------
(***************************************************************************)
(* Theorems about the sequencer, for every room, set of proposals, number  *)
(* of handlers and choice of the time constants.                           *)
(***************************************************************************)
EXTENDS SequencerProperties, WellFoundedInduction, TLAPS

-----------------------------------------------------------------------------
\* The two implementations of the room's rules.

\* Whatever the room and the event, commit.go and projection.go authorize the
\* same authors, accept the same events and lead to the same room, although
\* they test limits and duplicates in different orders.
THEOREM RulesAgree ==
    ASSUME NEW r \in Room, NEW author \in Keys, NEW body \in Body, NEW seqno \in Nat
    PROVE  /\ StoreAuthorizes(r.anyone, r, author, body)
                <=> ProjectionAuthorizes(r, author, body)
           /\ StoreVerdict(r, body) = "ok" <=> ProjectionVerdict(r, body) = "ok"
           /\ StoreEffect(r, seqno, body) = ProjectionEffect(r, seqno, body)
<1>1. StoreAuthorizes(r.anyone, r, author, body) <=> ProjectionAuthorizes(r, author, body)
  BY DEF StoreAuthorizes, ProjectionAuthorizes, Body, PinTypes, RoleTypes, GrantTypes,
         RevokeTypes
<1>2. StoreVerdict(r, body) = "ok" <=> ProjectionVerdict(r, body) = "ok"
  BY DEF StoreVerdict, ProjectionVerdict, Body, PinTypes, RoleTypes, GrantTypes,
         RevokeTypes
<1>3. StoreEffect(r, seqno, body) = ProjectionEffect(r, seqno, body)
  BY DEF StoreEffect, ProjectionEffect
<1> QED BY <1>1, <1>2, <1>3

\* The tables stay well formed under every event.
LEMMA EffectType ==
    ASSUME NEW r \in Room, NEW body \in Body, NEW seqno \in Nat
    PROVE  StoreEffect(r, seqno, body) \in Room
BY DEF StoreEffect, Room, Body, PinTypes, RoleTypes, GrantTypes, RevokeTypes

\* A message does not touch the part of the room that the snapshot signs.
LEMMA MessageLeavesSigned ==
    ASSUME NEW r \in Room, NEW body \in Body, NEW seqno \in Nat, ~StateChanging(body)
    PROVE  Signed(StoreEffect(r, seqno, body)) = Signed(r)
BY DEF StoreEffect, Signed, StateChanging, Room

-----------------------------------------------------------------------------
\* Type correctness.

\* The types hold at the start.
LEMMA InitType == Init => TypeOK
BY RoomAssumption
   DEF Init, TypeOK, GenesisRoom, Room, Snapshot, Signed, Hash, Handler, ZeroHash, GenesisHash

\* A handler that is at work has a proposal.
LEMMA ActiveHandlerType ==
    ASSUME TypeOK, NEW h \in Handlers, Active(h)
    PROVE  handlers[h] \in [pc : {"lookup", "resolve", "commit", "answer"},
                            proposal : Proposals, now : Nat, answer : Answer]
BY DEF TypeOK, Active, Handler, Idle

\* The fields of a proposal.
LEMMA ProposalType ==
    ASSUME NEW p \in Proposals
    PROVE  /\ p.author \in Keys /\ p.nonce \in Nonces /\ p.timestamp \in Nat
           /\ p.body \in Body /\ p.claim \in BOOLEAN /\ p.authentic \in BOOLEAN
BY SequencerAssumption DEF ProposalShape

\* A duplicate is answered with the position of the proposal's commit.
LEMMA SeqnoOfType ==
    ASSUME TypeOK, NEW p, InHistory(p)
    PROVE  SeqnoOf(p) \in DOMAIN events /\ events[SeqnoOf(p)].proposal = p
BY DEF InHistory, SeqnoOf

\* What the rules answer.
LEMMA VerdictType ==
    ASSUME NEW p, NEW now
    PROVE  CommitVerdict(p, now) \in Verdicts \cup {"ok"}
BY DEF CommitVerdict, VerifyVerdict, StoreVerdict, Verdicts

\* Ending a handler with a verdict keeps the handlers well formed; a duplicate
\* must be in the history.
LEMMA AnsweredType ==
    ASSUME TypeOK, NEW h \in Handlers, Active(h), NEW verdict \in Verdicts,
           verdict = "duplicate" => InHistory(handlers[h].proposal)
    PROVE  Answered(h, verdict) \in [Handlers -> Handler]
<1> DEFINE seqno == IF verdict = "duplicate" THEN SeqnoOf(handlers[h].proposal) ELSE 0
<1>1. seqno \in Nat
  <2>1. CASE verdict = "duplicate"
    <3>1. seqno \in DOMAIN events
      BY <2>1, SeqnoOfType
    <3>2. DOMAIN events \subseteq Nat
      BY DEF TypeOK
    <3> QED BY <3>1, <3>2
  <2> QED BY <2>1
<1>2. [verdict |-> verdict, seqno |-> seqno] \in Answer
  BY <1>1 DEF Answer
<1>3. [handlers[h] EXCEPT !.pc = "answer", !.answer = [verdict |-> verdict, seqno |-> seqno]]
        \in Handler
  BY <1>2, ActiveHandlerType DEF Handler
<1> QED BY <1>3 DEF Answered, TypeOK

\* Every step keeps the types.
LEMMA NextType == TypeOK /\ [Next]_vars => TypeOK'
<1> SUFFICES ASSUME TypeOK, [Next]_vars PROVE TypeOK'
  OBVIOUS
<1> USE SequencerAssumption
<1>1. ASSUME NEW h \in Handlers, NEW p \in Proposals, Receive(h, p) PROVE TypeOK'
  BY <1>1 DEF Receive, TypeOK, store, Handler, Answer
<1>2. ASSUME NEW h \in Handlers, NEW p \in Proposals, ReceiveUnbound(h, p) PROVE TypeOK'
  BY <1>2 DEF ReceiveUnbound, TypeOK, store, Handler, Answer, Verdicts
<1>3. ASSUME NEW h \in Handlers, Lookup(h) PROVE TypeOK'
  <2>1. Active(h)
    BY <1>3 DEF Lookup, Active
  <2>2. VerifyVerdict(handlers[h].proposal, handlers[h].now) \in Verdicts \cup {"ok"}
    BY DEF VerifyVerdict, Verdicts
  <2>3. [handlers EXCEPT ![h].pc = IF handlers[h].proposal.claim
                                   THEN "resolve" ELSE "commit"]
          \in [Handlers -> Handler]
    BY <2>1, ActiveHandlerType DEF Handler, TypeOK
  <2>4. handlers' \in [Handlers -> Handler]
    <3>1. CASE InHistory(handlers[h].proposal)
      <4>1. handlers' = Answered(h, "duplicate")
        BY <1>3, <3>1 DEF Lookup
      <4> QED BY <2>1, <3>1, <4>1, AnsweredType DEF Verdicts
    <3>2. CASE /\ ~InHistory(handlers[h].proposal)
               /\ VerifyVerdict(handlers[h].proposal, handlers[h].now) # "ok"
      <4> DEFINE verdict == VerifyVerdict(handlers[h].proposal, handlers[h].now)
      <4>1. handlers' = Answered(h, verdict)
        BY <1>3, <3>2 DEF Lookup
      <4>2. verdict \in Verdicts /\ verdict # "duplicate"
        BY <3>2 DEF VerifyVerdict, Verdicts
      <4> QED BY <2>1, <4>1, <4>2, AnsweredType
    <3> QED BY <1>3, <2>3, <3>1, <3>2 DEF Lookup
  <2> QED BY <1>3, <2>4 DEF Lookup, TypeOK, store
<1>4. ASSUME NEW h \in Handlers, ResolveOk(h) PROVE TypeOK'
  <2>1. Active(h)
    BY <1>4 DEF ResolveOk, Active
  <2>2. handlers' \in [Handlers -> Handler]
    BY <1>4, <2>1, ActiveHandlerType DEF ResolveOk, Handler, TypeOK
  <2> QED BY <1>4, <2>2 DEF ResolveOk, TypeOK, store
<1>5. ASSUME NEW h \in Handlers, ResolveFails(h) PROVE TypeOK'
  <2>1. Active(h)
    BY <1>5 DEF ResolveFails, Active
  <2>2. handlers' \in [Handlers -> Handler]
    BY <1>5, <2>1, AnsweredType DEF ResolveFails, Verdicts
  <2> QED BY <1>5, <2>2 DEF ResolveFails, TypeOK, store
<1>6. ASSUME NEW h \in Handlers, CommitRefuse(h) PROVE TypeOK'
  <2> DEFINE verdict == CommitVerdict(handlers[h].proposal, handlers[h].now)
  <2>1. Active(h)
    BY <1>6 DEF CommitRefuse, Active
  <2>2. verdict \in Verdicts
    BY <1>6, VerdictType DEF CommitRefuse
  <2>3. verdict = "duplicate" => InHistory(handlers[h].proposal)
    BY DEF CommitVerdict, VerifyVerdict, StoreVerdict
  <2>4. handlers' \in [Handlers -> Handler]
    BY <1>6, <2>1, <2>2, <2>3, AnsweredType DEF CommitRefuse
  <2> QED BY <1>6, <2>4 DEF CommitRefuse, TypeOK, store
<1>7. ASSUME NEW h \in Handlers, CommitAppend(h) PROVE TypeOK'
  <2> DEFINE p == handlers[h].proposal
             now == handlers[h].now
             e == [seqno |-> head.seqno + 1, previous |-> head.hash,
                   proposal |-> p, committedAt |-> now]
  <2>1. Active(h) /\ p \in Proposals /\ now \in Nat
    <3>1. Active(h)
      BY <1>7 DEF CommitAppend, Active
    <3> QED BY <3>1, ActiveHandlerType
  <2>2. e \in Commit /\ CommitHash(e) \in Hash
    BY <2>1 DEF Commit, CommitHash, Hash, TypeOK
  <2>3. events' \in Seq(Commit) /\ head' \in [seqno : Nat, hash : Hash]
    BY <1>7, <2>2 DEF CommitAppend, TypeOK
  <2>4. room' \in Room
    <3>1. room \in Room /\ p.body \in Body /\ head.seqno + 1 \in Nat
      BY <2>1, ProposalType DEF TypeOK
    <3>2. room' = StoreEffect(room, head.seqno + 1, p.body)
      BY <1>7 DEF CommitAppend
    <3> QED BY <3>1, <3>2, EffectType
  <2>5. snapshot' \in Snapshot
    BY <1>7, <2>2, <2>4 DEF CommitAppend, TypeOK, Snapshot, Signed, Room
  <2>6. nonces' \subseteq Nonce
    BY <1>7, <2>1, ProposalType DEF CommitAppend, TypeOK, LiveNonces, Nonce, Expiry
  <2>7. [verdict |-> "accepted", seqno |-> e.seqno] \in Answer
    BY DEF Answer, Verdicts, TypeOK
  <2>8. handlers' \in [Handlers -> Handler]
    <3>1. [handlers[h] EXCEPT !.pc = "answer",
                              !.answer = [verdict |-> "accepted", seqno |-> e.seqno]]
            \in Handler
      BY <2>1, <2>7, ActiveHandlerType DEF Handler
    <3> QED BY <1>7, <3>1 DEF CommitAppend, TypeOK
  <2> QED BY <1>7, <2>3, <2>4, <2>5, <2>6, <2>8 DEF CommitAppend, TypeOK
<1>8. ASSUME NEW h \in Handlers, PersistenceFails(h) PROVE TypeOK'
  <2>1. Active(h)
    BY <1>8 DEF PersistenceFails, Active
  <2>2. handlers' \in [Handlers -> Handler]
    BY <1>8, <2>1, AnsweredType DEF PersistenceFails, Verdicts
  <2> QED BY <1>8, <2>2 DEF PersistenceFails, TypeOK, store
<1>9. ASSUME NEW h \in Handlers, Finish(h) PROVE TypeOK'
  BY <1>9 DEF Finish, TypeOK, store, Handler
<1>10. CASE Crash
  BY <1>10 DEF Crash, TypeOK, store, Handler
<1>11. CASE Tick
  BY <1>11 DEF Tick, TypeOK, store
<1>12. CASE UNCHANGED vars
  BY <1>12 DEF vars, TypeOK
<1> QED BY <1>1, <1>2, <1>3, <1>4, <1>5, <1>6, <1>7, <1>8, <1>9, <1>10, <1>11, <1>12
        DEF Next

\* Every reachable state of the sequencer has the types of its tables.
THEOREM TypeCorrect == Spec => []TypeOK
<1> QED BY InitType, NextType, PTL DEF Spec

-----------------------------------------------------------------------------
\* The history.

\* Only a successful commit changes the database, and it adds one event.
LEMMA HistoryStep ==
    ASSUME [Next]_vars
    PROVE  UNCHANGED store \/ \E h \in Handlers : CommitAppend(h)
BY DEF Next, vars, store, Receive, ReceiveUnbound, Lookup, ResolveOk, ResolveFails,
       CommitRefuse, PersistenceFails, Finish, Crash, Tick

\* What the transaction writes behind the last event.
LEMMA AppendedEvent ==
    ASSUME TypeOK, head.seqno = Len(events), NEW h \in Handlers, CommitAppend(h)
    PROVE  LET p == handlers[h].proposal
               e == events'[Len(events) + 1]
           IN  /\ DOMAIN events = 1 .. Len(events)
               /\ DOMAIN events' = 1 .. Len(events) + 1
               /\ Len(events') = Len(events) + 1
               /\ \A i \in DOMAIN events : events'[i] = events[i]
               /\ e.seqno = Len(events) + 1
               /\ e.proposal = p
               /\ e.committedAt = handlers[h].now
               /\ head' = [seqno |-> Len(events) + 1, hash |-> CommitHash(e)]
               /\ room' = StoreEffect(room, Len(events) + 1, p.body)
               /\ snapshot' = IF StateChanging(p.body)
                              THEN [revision |-> Len(events) + 1, hash |-> CommitHash(e),
                                    state |-> Signed(room')]
                              ELSE snapshot
               /\ p \in Proposals /\ handlers[h].now \in Nat
<1> DEFINE p == handlers[h].proposal
           now == handlers[h].now
           e == [seqno |-> head.seqno + 1, previous |-> head.hash,
                 proposal |-> p, committedAt |-> now]
<1>1. p \in Proposals /\ now \in Nat
  <2>1. Active(h)
    BY DEF CommitAppend, Active
  <2> QED BY <2>1, ActiveHandlerType
<1>2. e \in Commit
  BY <1>1 DEF TypeOK, Commit
<1>3. events' = Append(events, e)
  BY DEF CommitAppend
<1>4. /\ DOMAIN events = 1 .. Len(events)
      /\ DOMAIN events' = 1 .. Len(events) + 1
      /\ Len(events') = Len(events) + 1
      /\ \A i \in DOMAIN events : events'[i] = events[i]
      /\ events'[Len(events) + 1] = e
  BY <1>2, <1>3 DEF TypeOK
<1> QED BY <1>1, <1>4 DEF CommitAppend, TypeOK

\* The strengthening that makes the history's invariants inductive: the head
\* counts the events.
HistoryInv ==
    /\ TypeOK
    /\ head.seqno = Len(events)
    /\ SnapshotCurrent

\* Before the first event the tables, the snapshot and the head agree ...
LEMMA InitHistory == Init => HistoryInv
BY InitType DEF Init, HistoryInv, SnapshotCurrent, Signed

\* ... and every step keeps them so.
LEMMA NextHistory == HistoryInv /\ [Next]_vars => HistoryInv'
<1> SUFFICES ASSUME HistoryInv, [Next]_vars PROVE HistoryInv'
  OBVIOUS
<1>1. TypeOK /\ TypeOK'
  BY NextType DEF HistoryInv
<1>2. CASE UNCHANGED store
  BY <1>1, <1>2 DEF HistoryInv, store, SnapshotCurrent, Signed, StateChanging, CommitHash
<1>3. ASSUME NEW h \in Handlers, CommitAppend(h) PROVE HistoryInv'
  <2> DEFINE p == handlers[h].proposal
             n == Len(events)
  <2>1. n \in Nat /\ p \in Proposals /\ p.body \in Body /\ room \in Room
    BY <1>1, <1>3, AppendedEvent, ProposalType DEF HistoryInv, TypeOK
  <2>2. head'.seqno = Len(events')
    BY <1>1, <1>3, AppendedEvent DEF HistoryInv
  <2>3. SnapshotCurrent'
    <3>1. CASE StateChanging(p.body)
      <4>1. /\ snapshot'.state = Signed(room')
            /\ snapshot'.revision = n + 1
            /\ snapshot'.hash = CommitHash(events'[n + 1])
            /\ Len(events') = n + 1
            /\ DOMAIN events' = 1 .. n + 1
            /\ events'[n + 1].proposal = p
        BY <1>1, <1>3, <3>1, AppendedEvent DEF HistoryInv
      <4> QED BY <2>1, <3>1, <4>1 DEF SnapshotCurrent, Signed, CommitHash, StateChanging
    <3>2. CASE ~StateChanging(p.body)
      <4>1. snapshot' = snapshot /\ Signed(room') = Signed(room)
        BY <1>1, <1>3, <2>1, <3>2, AppendedEvent, MessageLeavesSigned DEF HistoryInv
      <4>2. /\ Len(events') = n + 1
            /\ DOMAIN events = 1 .. n /\ DOMAIN events' = 1 .. n + 1
            /\ \A i \in 1 .. n : events'[i] = events[i]
            /\ events'[n + 1].proposal = p
        BY <1>1, <1>3, AppendedEvent DEF HistoryInv
      <4>3. snapshot'.state = Signed(room') /\ snapshot'.revision \in 0 .. Len(events')
        BY <2>1, <4>1, <4>2 DEF HistoryInv, SnapshotCurrent, Signed
      <4>4. snapshot'.revision > 0 =>
              /\ StateChanging(events'[snapshot'.revision].proposal.body)
              /\ snapshot'.hash = CommitHash(events'[snapshot'.revision])
        BY <2>1, <4>1, <4>2 DEF HistoryInv, SnapshotCurrent, CommitHash
      <4>5. \A i \in DOMAIN events' :
              i > snapshot'.revision => ~StateChanging(events'[i].proposal.body)
        BY <2>1, <3>2, <4>1, <4>2 DEF HistoryInv, SnapshotCurrent
      <4> QED BY <4>3, <4>4, <4>5 DEF SnapshotCurrent, Signed, CommitHash, StateChanging
    <3> QED BY <3>1, <3>2
  <2> QED BY <1>1, <2>2, <2>3 DEF HistoryInv
<1> QED BY <1>2, <1>3, HistoryStep

\* The snapshot that Commit takes the write policy from is never behind the
\* tables, and always stands at the latest state-changing event.
THEOREM SnapshotIsCurrent == Spec => []SnapshotCurrent
<1>1. HistoryInv => SnapshotCurrent
  BY DEF HistoryInv
<1> QED BY <1>1, InitHistory, NextHistory, PTL DEF Spec

-----------------------------------------------------------------------------
\* The answers.

Succeeds(state) ==
    state.pc = "answer" /\ state.answer.verdict \in {"accepted", "duplicate"}

\* A handler that tells of success did so already, has just committed, or has
\* found its proposal in the history.
LEMMA SuccessStep ==
    ASSUME TypeOK, [Next]_vars, NEW h \in Handlers, Succeeds(handlers'[h])
    PROVE  \/ handlers'[h] = handlers[h]
           \/ CommitAppend(h) /\ handlers'[h].proposal = handlers[h].proposal
                              /\ handlers'[h].answer.seqno = head.seqno + 1
           \/ /\ UNCHANGED store
              /\ InHistory(handlers[h].proposal)
              /\ handlers'[h].proposal = handlers[h].proposal
              /\ handlers'[h].answer.seqno = SeqnoOf(handlers[h].proposal)
<1> DEFINE Told == \/ handlers'[h] = handlers[h]
                   \/ CommitAppend(h) /\ handlers'[h].proposal = handlers[h].proposal
                                      /\ handlers'[h].answer.seqno = head.seqno + 1
                   \/ /\ UNCHANGED store
                      /\ InHistory(handlers[h].proposal)
                      /\ handlers'[h].proposal = handlers[h].proposal
                      /\ handlers'[h].answer.seqno = SeqnoOf(handlers[h].proposal)
<1> USE DEF TypeOK, Succeeds
<1>1. ASSUME NEW k \in Handlers, NEW p \in Proposals, Receive(k, p) PROVE Told
  BY <1>1 DEF Receive
<1>2. ASSUME NEW k \in Handlers, NEW p \in Proposals, ReceiveUnbound(k, p) PROVE Told
  BY <1>2 DEF ReceiveUnbound
<1>3. ASSUME NEW k \in Handlers, Lookup(k) PROVE Told
  <2>1. Active(k)
    BY <1>3 DEF Lookup, Active
  <2> QED BY <1>3, <2>1, ActiveHandlerType DEF Lookup, Answered, VerifyVerdict
<1>4. ASSUME NEW k \in Handlers, ResolveOk(k) PROVE Told
  <2>1. Active(k)
    BY <1>4 DEF ResolveOk, Active
  <2> QED BY <1>4, <2>1, ActiveHandlerType DEF ResolveOk
<1>5. ASSUME NEW k \in Handlers, ResolveFails(k) PROVE Told
  <2>1. Active(k)
    BY <1>5 DEF ResolveFails, Active
  <2> QED BY <1>5, <2>1, ActiveHandlerType DEF ResolveFails, Answered
<1>6. ASSUME NEW k \in Handlers, CommitRefuse(k) PROVE Told
  <2>1. Active(k)
    BY <1>6 DEF CommitRefuse, Active
  <2>2. CommitVerdict(handlers[k].proposal, handlers[k].now) = "duplicate"
          => InHistory(handlers[k].proposal)
    BY DEF CommitVerdict, VerifyVerdict, StoreVerdict
  <2>3. CommitVerdict(handlers[k].proposal, handlers[k].now) # "accepted"
    BY DEF CommitVerdict, VerifyVerdict, StoreVerdict
  <2> QED BY <1>6, <2>1, <2>2, <2>3, ActiveHandlerType DEF CommitRefuse, Answered
<1>7. ASSUME NEW k \in Handlers, CommitAppend(k) PROVE Told
  <2>1. Active(k)
    BY <1>7 DEF CommitAppend, Active
  <2> QED BY <1>7, <2>1, ActiveHandlerType DEF CommitAppend
<1>8. ASSUME NEW k \in Handlers, PersistenceFails(k) PROVE Told
  <2>1. Active(k)
    BY <1>8 DEF PersistenceFails, Active
  <2> QED BY <1>8, <2>1, ActiveHandlerType DEF PersistenceFails, Answered
<1>9. ASSUME NEW k \in Handlers, Finish(k) PROVE Told
  BY <1>9 DEF Finish, Idle
<1>10. CASE Crash
  BY <1>10 DEF Crash, Idle
<1>11. CASE Tick
  BY <1>11 DEF Tick
<1>12. CASE UNCHANGED vars
  BY <1>12 DEF vars
<1> QED BY <1>1, <1>2, <1>3, <1>4, <1>5, <1>6, <1>7, <1>8, <1>9, <1>10, <1>11, <1>12
        DEF Next

\* Every step keeps what handlers are about to answer true.
LEMMA NextAnswers ==
    HistoryInv /\ AnswersAreCanonical /\ [Next]_vars => AnswersAreCanonical'
<1> SUFFICES ASSUME HistoryInv, AnswersAreCanonical, [Next]_vars
             PROVE  AnswersAreCanonical'
  OBVIOUS
<1>1. TypeOK
  BY DEF HistoryInv
<1>2. \A i \in DOMAIN events : i \in DOMAIN events' /\ events'[i] = events[i]
  BY <1>1, HistoryStep, AppendedEvent DEF HistoryInv, store
<1>3. \A i, j \in DOMAIN events' : events'[i].proposal = events'[j].proposal => i = j
  <2>1. CASE UNCHANGED store
    BY <2>1 DEF store, AnswersAreCanonical
  <2>2. ASSUME NEW h \in Handlers, CommitAppend(h)
        PROVE  \A i, j \in DOMAIN events' :
                  events'[i].proposal = events'[j].proposal => i = j
    <3>1. ~InHistory(handlers[h].proposal)
      BY <2>2 DEF CommitAppend, CommitVerdict
    <3>2. \A i \in DOMAIN events : events[i].proposal # handlers[h].proposal
      BY <3>1 DEF InHistory
    <3>3. /\ DOMAIN events = 1 .. Len(events)
          /\ DOMAIN events' = 1 .. Len(events) + 1
          /\ events'[Len(events) + 1].proposal = handlers[h].proposal
          /\ Len(events) \in Nat
      BY <1>1, <2>2, AppendedEvent DEF HistoryInv, TypeOK
    <3> QED BY <1>2, <3>2, <3>3 DEF AnswersAreCanonical
  <2> QED BY <2>1, <2>2, HistoryStep
<1>4. ASSUME NEW h \in Handlers, Succeeds(handlers'[h])
      PROVE  /\ handlers'[h].answer.seqno \in DOMAIN events'
             /\ events'[handlers'[h].answer.seqno].proposal = handlers'[h].proposal
  <2>1. CASE handlers'[h] = handlers[h]
    BY <1>2, <1>4, <2>1 DEF AnswersAreCanonical, Succeeds
  <2>2. CASE /\ CommitAppend(h)
             /\ handlers'[h].proposal = handlers[h].proposal
             /\ handlers'[h].answer.seqno = head.seqno + 1
    <3>1. /\ head.seqno + 1 \in DOMAIN events'
          /\ events'[head.seqno + 1].proposal = handlers[h].proposal
      BY <1>1, <2>2, AppendedEvent DEF HistoryInv, TypeOK
    <3> QED BY <2>2, <3>1
  <2>3. CASE /\ InHistory(handlers[h].proposal)
             /\ handlers'[h].proposal = handlers[h].proposal
             /\ handlers'[h].answer.seqno = SeqnoOf(handlers[h].proposal)
    BY <1>1, <1>2, <2>3, SeqnoOfType
  <2> QED BY <1>1, <1>4, <2>1, <2>2, <2>3, SuccessStep
<1> QED BY <1>3, <1>4 DEF AnswersAreCanonical, Succeeds

\* A proposal is committed at most once, and whoever is told of success is
\* given the commit of the proposal submitted, at every time after the commit.
THEOREM AnswersCanonical == Spec => []AnswersAreCanonical
<1>1. Init => AnswersAreCanonical
  BY DEF Init, AnswersAreCanonical, Idle
<1> QED BY <1>1, InitHistory, NextHistory, NextAnswers, PTL DEF Spec

\* A retry of a durable proposal is never refused for a reason of its own.
THEOREM RetriesSucceed == Spec => RetriesFindTheirCommit
<1>1. ASSUME TypeOK, [Next]_vars, NEW h \in Handlers, Decides(h),
             InHistory(handlers[h].proposal)
      PROVE  handlers'[h].answer.verdict \in {"duplicate", "persistence_failure"}
  <2> USE <1>1 DEF TypeOK
  <2> DEFINE Found == handlers'[h].answer.verdict \in {"duplicate", "persistence_failure"}
  <2>0. Active(h) /\ handlers[h].pc \in {"lookup", "resolve", "commit"}
    <3>1. Active(h)
      BY DEF Decides, Active
    <3> QED BY <3>1, ActiveHandlerType DEF Decides
  <2>1. ASSUME NEW k \in Handlers, NEW p \in Proposals, Receive(k, p) PROVE Found
    BY <2>0, <2>1 DEF Receive, Decides
  <2>2. ASSUME NEW k \in Handlers, NEW p \in Proposals, ReceiveUnbound(k, p) PROVE Found
    BY <2>0, <2>2 DEF ReceiveUnbound, Decides
  <2>3. ASSUME NEW k \in Handlers, Lookup(k) PROVE Found
    BY <2>0, <2>3, ActiveHandlerType DEF Lookup, Answered, Decides, Active
  <2>4. ASSUME NEW k \in Handlers, ResolveOk(k) PROVE Found
    BY <2>0, <2>4, ActiveHandlerType DEF ResolveOk, Decides, Active
  <2>5. ASSUME NEW k \in Handlers, ResolveFails(k) PROVE Found
    BY <2>0, <2>5, ActiveHandlerType DEF ResolveFails, Answered, Decides, Active
  <2>6. ASSUME NEW k \in Handlers, CommitRefuse(k) PROVE Found
    <3>1. CommitVerdict(handlers[h].proposal, handlers[h].now) = "duplicate"
      BY DEF CommitVerdict
    <3> QED BY <2>0, <2>6, <3>1, ActiveHandlerType
            DEF CommitRefuse, Answered, Decides, Active
  <2>7. ASSUME NEW k \in Handlers, CommitAppend(k) PROVE Found
    <3>1. CommitVerdict(handlers[h].proposal, handlers[h].now) = "duplicate"
      BY DEF CommitVerdict
    <3> QED BY <2>0, <2>7, <3>1, ActiveHandlerType DEF CommitAppend, Decides, Active
  <2>8. ASSUME NEW k \in Handlers, PersistenceFails(k) PROVE Found
    BY <2>0, <2>8, ActiveHandlerType DEF PersistenceFails, Answered, Decides, Active
  <2>9. ASSUME NEW k \in Handlers, Finish(k) PROVE Found
    BY <2>0, <2>9 DEF Finish, Decides, Idle
  <2>10. CASE Crash \/ Tick \/ UNCHANGED vars
    BY <2>0, <2>10 DEF Crash, Tick, vars, Decides, Idle
  <2> QED BY <2>1, <2>2, <2>3, <2>4, <2>5, <2>6, <2>7, <2>8, <2>9, <2>10 DEF Next
<1>2. TypeOK /\ [Next]_vars =>
        [\A h \in Handlers :
            Decides(h) /\ InHistory(handlers[h].proposal)
            => handlers'[h].answer.verdict \in {"duplicate", "persistence_failure"}]_vars
  BY <1>1
<1> QED BY <1>2, TypeCorrect, PTL DEF Spec, RetriesFindTheirCommit

-----------------------------------------------------------------------------
\* The nonces.

\* Clock readings are at most MaxHold old; every commit's nonce has a row that
\* lasts its retention, or that retention is over.
NonceInv ==
    /\ HistoryInv
    /\ \A h \in Handlers :
          Active(h) => handlers[h].now <= clock /\ clock <= handlers[h].now + MaxHold
    /\ \A i \in DOMAIN events :
          \/ clock >= events[i].committedAt + NonceRetention
          \/ \E n \in nonces :
                /\ n.author = events[i].proposal.author
                /\ n.nonce = events[i].proposal.nonce
                /\ n.expires = events[i].committedAt + NonceRetention
    /\ NonceSpacing

\* An event of the history.
LEMMA EventType ==
    ASSUME TypeOK, NEW i \in DOMAIN events
    PROVE  events[i].committedAt \in Nat /\ events[i].proposal \in Proposals
<1>1. events[i] \in Commit
  BY DEF TypeOK
<1> QED BY <1>1 DEF Commit

\* No nonce is used at the start.
LEMMA InitNonce == Init => NonceInv
BY InitHistory DEF Init, NonceInv, NonceSpacing, Active, Idle

\* No step but Receive makes a handler active or gives it a clock reading.
LEMMA ReadingStep ==
    ASSUME TypeOK, [Next]_vars, NEW h \in Handlers, handlers'[h].pc # "idle"
    PROVE  \/ Active(h) /\ handlers'[h].now = handlers[h].now
           \/ handlers'[h].now = clock /\ clock' = clock
<1> DEFINE Kept == \/ Active(h) /\ handlers'[h].now = handlers[h].now
                   \/ handlers'[h].now = clock /\ clock' = clock
<1> USE DEF TypeOK, Active
<1>1. ASSUME NEW k \in Handlers, NEW p \in Proposals, Receive(k, p) PROVE Kept
  BY <1>1 DEF Receive
<1>2. ASSUME NEW k \in Handlers, NEW p \in Proposals, ReceiveUnbound(k, p) PROVE Kept
  BY <1>2 DEF ReceiveUnbound
<1>3. ASSUME NEW k \in Handlers, Lookup(k) PROVE Kept
  BY <1>3, ActiveHandlerType DEF Lookup, Answered
<1>4. ASSUME NEW k \in Handlers, ResolveOk(k) \/ ResolveFails(k) PROVE Kept
  BY <1>4, ActiveHandlerType DEF ResolveOk, ResolveFails, Answered
<1>5. ASSUME NEW k \in Handlers, CommitRefuse(k) PROVE Kept
  BY <1>5, ActiveHandlerType DEF CommitRefuse, Answered
<1>6. ASSUME NEW k \in Handlers, CommitAppend(k) PROVE Kept
  BY <1>6, ActiveHandlerType DEF CommitAppend
<1>7. ASSUME NEW k \in Handlers, PersistenceFails(k) PROVE Kept
  BY <1>7, ActiveHandlerType DEF PersistenceFails, Answered
<1>8. ASSUME NEW k \in Handlers, Finish(k) PROVE Kept
  BY <1>8 DEF Finish, Idle
<1>9. CASE Crash \/ Tick \/ UNCHANGED vars
  BY <1>9 DEF Crash, Tick, vars, Idle
<1> QED BY <1>1, <1>2, <1>3, <1>4, <1>5, <1>6, <1>7, <1>8, <1>9 DEF Next

\* Time passes only as long as no handler holds its reading too long.
LEMMA ClockStep ==
    ASSUME TypeOK, [Next]_vars
    PROVE  \/ clock' = clock
           \/ /\ clock' = clock + 1 /\ UNCHANGED <<store, handlers>>
              /\ \A h \in Handlers : Active(h) => clock < handlers[h].now + MaxHold
BY DEF Next, vars, store, Receive, ReceiveUnbound, Lookup, ResolveOk, ResolveFails,
       CommitRefuse, CommitAppend, PersistenceFails, Finish, Crash, Tick

\* Every step keeps the nonces spaced.
LEMMA NextNonce == NonceInv /\ [Next]_vars => NonceInv'
<1> SUFFICES ASSUME NonceInv, [Next]_vars PROVE NonceInv'
  OBVIOUS
<1> USE SequencerAssumption
<1>1. TypeOK /\ TypeOK' /\ HistoryInv /\ HistoryInv'
  BY NextHistory DEF NonceInv, HistoryInv
<1>2. clock \in Nat /\ clock' \in Nat /\ clock <= clock'
  BY <1>1, ClockStep DEF TypeOK
<1>3. ASSUME NEW h \in Handlers, handlers'[h].pc # "idle"
      PROVE  handlers'[h].now <= clock' /\ clock' <= handlers'[h].now + MaxHold
  <2>1. CASE clock' = clock
    BY <1>1, <1>3, <2>1, ReadingStep DEF NonceInv, TypeOK
  <2>2. CASE /\ clock' = clock + 1 /\ UNCHANGED <<store, handlers>>
             /\ \A k \in Handlers : Active(k) => clock < handlers[k].now + MaxHold
    <3>1. Active(h) /\ handlers'[h].now = handlers[h].now /\ handlers[h].now \in Nat
      BY <1>1, <1>3, <2>2, ActiveHandlerType DEF Active
    <3> QED BY <1>2, <2>2, <3>1 DEF NonceInv
  <2> QED BY <1>1, <2>1, <2>2, ClockStep
<1>4. CASE UNCHANGED store
  <2>1. \A i \in DOMAIN events : events[i].committedAt \in Nat
    BY <1>1, EventType
  <2>2. \A i \in DOMAIN events' :
          \/ clock' >= events'[i].committedAt + NonceRetention
          \/ \E n \in nonces' :
                /\ n.author = events'[i].proposal.author
                /\ n.nonce = events'[i].proposal.nonce
                /\ n.expires = events'[i].committedAt + NonceRetention
    BY <1>2, <1>4, <2>1 DEF NonceInv, store
  <2>3. NonceSpacing'
    BY <1>4 DEF NonceInv, NonceSpacing, store
  <2> QED BY <1>1, <1>3, <2>2, <2>3 DEF NonceInv, Active
<1>5. ASSUME NEW h \in Handlers, CommitAppend(h) PROVE NonceInv'
  <2> DEFINE p == handlers[h].proposal
             now == handlers[h].now
             n == Len(events)
  <2>1. /\ n \in Nat /\ now \in Nat /\ p \in Proposals
        /\ DOMAIN events = 1 .. n /\ DOMAIN events' = 1 .. n + 1
        /\ \A i \in 1 .. n : events'[i] = events[i]
        /\ events'[n + 1].proposal = p /\ events'[n + 1].committedAt = now
    BY <1>1, <1>5, AppendedEvent DEF HistoryInv, TypeOK
  <2>2. now <= clock /\ clock <= now + MaxHold /\ clock' = clock
    BY <1>5 DEF NonceInv, CommitAppend, Active
  <2>3. \A m \in nonces : m.author = p.author /\ m.nonce = p.nonce => m.expires <= now
    <3>1. ~NonceInUse(p, now)
      BY <1>5 DEF CommitAppend, CommitVerdict
    <3> QED BY <1>1, <2>1, <3>1 DEF NonceInUse, LiveNonces, TypeOK, Nonce
  <2>4. nonces' = LiveNonces(now) \cup {[author |-> p.author, nonce |-> p.nonce,
                                         expires |-> now + NonceRetention]}
    BY <1>5 DEF CommitAppend, Expiry
  <2>5. \A i \in 1 .. n : events[i].committedAt \in Nat
    BY <1>1, <2>1, EventType
  <2>6. ASSUME NEW i \in 1 .. n + 1
        PROVE  \/ clock' >= events'[i].committedAt + NonceRetention
               \/ \E m \in nonces' :
                     /\ m.author = events'[i].proposal.author
                     /\ m.nonce = events'[i].proposal.nonce
                     /\ m.expires = events'[i].committedAt + NonceRetention
    <3>1. CASE i = n + 1
      <4> DEFINE m == [author |-> p.author, nonce |-> p.nonce,
                       expires |-> now + NonceRetention]
      <4>1. m \in nonces'
        BY <2>4
      <4>2. /\ m.author = events'[i].proposal.author
            /\ m.nonce = events'[i].proposal.nonce
            /\ m.expires = events'[i].committedAt + NonceRetention
        BY <2>1, <3>1
      <4> QED BY <4>1, <4>2
    <3>2. CASE i # n + 1 /\ clock >= events[i].committedAt + NonceRetention
      BY <2>1, <2>2, <3>2
    <3>3. CASE i # n + 1 /\ ~(clock >= events[i].committedAt + NonceRetention)
      <4>1. PICK m \in nonces :
              /\ m.author = events[i].proposal.author
              /\ m.nonce = events[i].proposal.nonce
              /\ m.expires = events[i].committedAt + NonceRetention
        BY SMTT(30), <2>1, <3>3 DEF NonceInv
      <4>2. m.expires > now
        BY <2>1, <2>2, <2>5, <3>3, <4>1, <1>2
      <4>3. m \in nonces'
        BY <2>4, <4>2 DEF LiveNonces
      <4> QED BY <2>1, <3>3, <4>1, <4>3
    <3> QED BY <3>1, <3>2, <3>3
  <2>7. NonceSpacing'
    <3> SUFFICES ASSUME NEW i \in 1 .. n + 1, NEW j \in 1 .. n + 1, i < j,
                        events'[i].proposal.author = events'[j].proposal.author,
                        events'[i].proposal.nonce = events'[j].proposal.nonce
                 PROVE  events'[j].committedAt + MaxHold
                          >= events'[i].committedAt + NonceRetention
      BY <2>1 DEF NonceSpacing
    <3>1. CASE j # n + 1
      BY SMTT(30), <2>1, <3>1 DEF NonceInv, NonceSpacing
    <3>2. CASE j = n + 1
      <4>1. i \in 1 .. n /\ events[i].proposal.author = p.author
              /\ events[i].proposal.nonce = p.nonce
        BY <2>1, <3>2
      <4>2. CASE clock >= events[i].committedAt + NonceRetention
        BY SMTT(30), <1>2, <2>1, <2>2, <2>5, <3>2, <4>1, <4>2
      <4>3. CASE ~(clock >= events[i].committedAt + NonceRetention)
        <5>1. events[i].committedAt + NonceRetention <= now
          BY <2>1, <2>3, <4>1, <4>3 DEF NonceInv
        <5> QED BY <2>1, <2>5, <3>2, <4>1, <5>1
      <4> QED BY <4>2, <4>3
    <3> QED BY <3>1, <3>2
  <2> QED BY <1>1, <1>3, <2>1, <2>6, <2>7 DEF NonceInv, Active
<1> QED BY <1>4, <1>5, HistoryStep

\* A nonce of an author is not committed twice within the retention period,
\* less the longest life of a handler: for every choice of these times.
THEOREM NoncesAreSpaced == Spec => []NonceSpacing
<1>1. NonceInv => NonceSpacing
  BY DEF NonceInv
<1> QED BY <1>1, InitNonce, NextNonce, PTL DEF Spec

-----------------------------------------------------------------------------
\* The audit.

\* `replay' lists the projections of the prefixes of a history.
IsReplay(replay, history) ==
    replay = [n \in 0 .. Len(history) |->
                IF n = 0 THEN GenesisProjection
                ELSE ProjectionApply(replay[n - 1], history[n])]

\* Such a list is what the audit computes: two of them cannot differ first
\* anywhere.
LEMMA ReplayedIsLast ==
    ASSUME NEW history, Len(history) \in Nat, NEW replay, IsReplay(replay, history)
    PROVE  Replayed(history) = replay[Len(history)]
<1> DEFINE n == Len(history)
           f == CHOOSE g : IsReplay(g, history)
           R == OpToRel(<, Nat)
           T == {i \in 0 .. n : f[i] # replay[i]}
<1>1. Replayed(history) = f[n]
  BY DEF Replayed, IsReplay
<1>2. IsReplay(f, history)
  OBVIOUS
<1> HIDE DEF f
<1>3. \A i \in 0 .. n :
        /\ f[i] = IF i = 0 THEN GenesisProjection
                  ELSE ProjectionApply(f[i - 1], history[i])
        /\ replay[i] = IF i = 0 THEN GenesisProjection
                       ELSE ProjectionApply(replay[i - 1], history[i])
  BY <1>2 DEF IsReplay
<1>4. ASSUME T # {} PROVE FALSE
  <2>1. T \subseteq Nat
    OBVIOUS
  <2>2. PICK i \in T : \A j \in T : ~ (<<j, i>> \in R)
    BY <1>4, <2>1, NatLessThanWellFounded, WFMin
  <2>3. i \in 0 .. n /\ f[i] # replay[i]
    OBVIOUS
  <2>4. i # 0
    BY <1>3, <2>3
  <2>5. i - 1 \in 0 .. n /\ <<i - 1, i>> \in R
    BY <2>3, <2>4 DEF OpToRel
  <2>6. f[i - 1] = replay[i - 1]
    BY <2>2, <2>5
  <2> QED BY <1>3, <2>3, <2>4, <2>6
<1> QED BY <1>1, <1>4

\* Whatever is read from a projection that the audit compares the database with.
Confirms(projection) ==
    /\ projection.valid
    /\ head = [seqno |-> projection.seqno, hash |-> projection.hash]
    /\ room = projection.room
    /\ snapshot = [revision |-> projection.revision, hash |-> projection.revisionHash,
                   state |-> Signed(projection.room)]

\* The strengthening: not only does the replay of the history end in what the
\* database holds, there is a list of the projections that lead there.
AuditInv ==
    /\ HistoryInv
    /\ \E replay : IsReplay(replay, events) /\ Confirms(replay[Len(events)])

\* An empty history passes the audit ...
LEMMA InitAudit == Init => AuditInv
<1> SUFFICES ASSUME Init PROVE AuditInv
  OBVIOUS
<1> DEFINE replay == [n \in 0 .. 0 |-> GenesisProjection]
<1>1. Len(events) = 0
  BY DEF Init
<1>2. IsReplay(replay, events)
  BY <1>1 DEF IsReplay
<1>3. Confirms(replay[0])
  BY DEF Confirms, GenesisProjection, Init
<1> QED BY <1>1, <1>2, <1>3, InitHistory DEF AuditInv

\* One more event: the list is extended by what Apply makes of it.
LEMMA ReplayExtends ==
    ASSUME NEW history, NEW longer, NEW n \in Nat, Len(history) = n, Len(longer) = n + 1,
           \A i \in 1 .. n : longer[i] = history[i],
           NEW replay, IsReplay(replay, history)
    PROVE  \E extended : /\ IsReplay(extended, longer)
                         /\ extended[n + 1] = ProjectionApply(replay[n], longer[n + 1])
<1> DEFINE extended == [i \in 0 .. n + 1 |->
                          IF i = n + 1 THEN ProjectionApply(replay[n], longer[n + 1])
                          ELSE replay[i]]
<1>1. \A i \in 0 .. n : replay[i] = IF i = 0 THEN GenesisProjection
                                    ELSE ProjectionApply(replay[i - 1], history[i])
  BY DEF IsReplay
<1>2. ASSUME NEW i \in 0 .. n + 1
      PROVE  extended[i] = IF i = 0 THEN GenesisProjection
                           ELSE ProjectionApply(extended[i - 1], longer[i])
  <2>1. CASE i = n + 1
    BY <2>1
  <2>2. CASE i = 0
    BY <1>1, <2>2
  <2>3. CASE i \in 1 .. n
    BY <1>1, <2>3
  <2> QED BY <2>1, <2>2, <2>3
<1>3. IsReplay(extended, longer)
  BY <1>2 DEF IsReplay
<1>4. extended[n + 1] = ProjectionApply(replay[n], longer[n + 1])
  OBVIOUS
<1> QED BY <1>3, <1>4

\* ... and every step extends a replay that does.
LEMMA NextAudit == AuditInv /\ [Next]_vars => AuditInv'
<1> SUFFICES ASSUME AuditInv, [Next]_vars PROVE AuditInv'
  OBVIOUS
<1>1. HistoryInv /\ HistoryInv' /\ TypeOK
  BY NextHistory DEF AuditInv, HistoryInv
<1>2. PICK replay : IsReplay(replay, events) /\ Confirms(replay[Len(events)])
  BY DEF AuditInv
<1>3. CASE UNCHANGED store
  <2>1. events' = events /\ Confirms(replay[Len(events)])'
    BY <1>2, <1>3 DEF store, Confirms
  <2> QED BY <1>1, <1>2, <2>1 DEF AuditInv
<1>4. ASSUME NEW h \in Handlers, CommitAppend(h) PROVE AuditInv'
  <2> DEFINE p == handlers[h].proposal
             n == Len(events)
             e == events'[n + 1]
             last == replay[n]
  <2>1. head.seqno = n /\ n \in Nat
    BY <1>1 DEF HistoryInv, TypeOK
  <2>2. /\ p \in Proposals
        /\ DOMAIN events = 1 .. n /\ Len(events') = n + 1
        /\ \A i \in 1 .. n : events'[i] = events[i]
        /\ e.seqno = n + 1 /\ e.proposal = p
        /\ head' = [seqno |-> n + 1, hash |-> CommitHash(e)]
        /\ room' = StoreEffect(room, n + 1, p.body)
        /\ snapshot' = IF StateChanging(p.body)
                       THEN [revision |-> n + 1, hash |-> CommitHash(e),
                             state |-> Signed(room')]
                       ELSE snapshot
    BY <1>1, <1>4, <2>1, AppendedEvent
  <2>3. e.previous = head.hash
    <3> DEFINE appended == [seqno |-> head.seqno + 1, previous |-> head.hash,
                            proposal |-> p, committedAt |-> handlers[h].now]
    <3>1. events \in Seq(Commit) /\ events' = Append(events, appended)
      BY <1>1, <1>4 DEF TypeOK, CommitAppend
    <3>2. e = appended
      BY <2>1, <3>1
    <3> QED BY <3>2
  <2>4. room \in Room /\ p.author \in Keys /\ p.body \in Body
    BY <1>1, <2>2, ProposalType DEF TypeOK
  <2>5. /\ last.valid /\ last.seqno = n /\ last.hash = head.hash /\ last.room = room
        /\ last.revision = snapshot.revision /\ last.revisionHash = snapshot.hash
    BY <1>2, <2>1 DEF Confirms
  <2>6. /\ ProjectionAuthorizes(room, p.author, p.body)
        /\ ProjectionVerdict(room, p.body) = "ok"
        /\ room' = ProjectionEffect(room, n + 1, p.body)
    <3>1. snapshot.state.anyone = room.anyone
      BY <1>1 DEF HistoryInv, SnapshotCurrent, Signed
    <3>2. /\ StoreAuthorizes(room.anyone, room, p.author, p.body)
          /\ StoreVerdict(room, p.body) = "ok"
      BY <1>4, <3>1 DEF CommitAppend, CommitVerdict
    <3>3. n + 1 \in Nat
      BY <2>1
    <3> QED BY <2>2, <2>4, <3>2, <3>3, RulesAgree
  <2>7. snapshot' = [revision |-> IF StateChanging(p.body) THEN n + 1 ELSE last.revision,
                     hash |-> IF StateChanging(p.body) THEN CommitHash(e)
                              ELSE last.revisionHash,
                     state |-> Signed(room')]
    <3>1. CASE StateChanging(p.body)
      BY <2>2, <3>1
    <3>2. CASE ~StateChanging(p.body)
      <4>1. Signed(room') = Signed(room)
        BY <2>1, <2>2, <2>4, <3>2, MessageLeavesSigned
      <4>2. snapshot = [revision |-> last.revision, hash |-> last.revisionHash,
                        state |-> Signed(room)]
        BY <1>2, <2>5 DEF Confirms
      <4> QED BY <2>2, <3>2, <4>1, <4>2
    <3> QED BY <3>1, <3>2
  <2>8. PICK extended : /\ IsReplay(extended, events')
                        /\ extended[n + 1] = ProjectionApply(last, e)
    <3>1. ASSUME NEW longer, longer = events'
          PROVE  \E extended : /\ IsReplay(extended, longer)
                               /\ extended[n + 1] = ProjectionApply(last, longer[n + 1])
      <4>1. Len(longer) = n + 1 /\ \A i \in 1 .. n : longer[i] = events[i]
        BY <2>2, <3>1
      <4> QED BY <1>2, <2>1, <4>1, ReplayExtends
    <3> QED BY <3>1
  <2> DEFINE next == extended[n + 1]
  <2>9. /\ next.valid
        /\ head' = [seqno |-> next.seqno, hash |-> next.hash]
        /\ room' = next.room
        /\ snapshot' = [revision |-> next.revision, hash |-> next.revisionHash,
                        state |-> Signed(next.room)]
    BY <2>2, <2>3, <2>5, <2>6, <2>7, <2>8 DEF ProjectionApply
  <2>10. PICK m : m = n + 1
    OBVIOUS
  <2>11. Confirms(extended[m])' /\ m = Len(events')
    BY <2>2, <2>9, <2>10 DEF Confirms, Signed
  <2> QED BY <1>1, <2>8, <2>11 DEF AuditInv
<1> QED BY <1>3, <1>4, HistoryStep

\* The database passes the audit of the next start in every reachable state:
\* for every history, room and interleaving of the handlers.
THEOREM AuditAlwaysPasses == Spec => []AuditPasses
<1>1. AuditInv => AuditPasses
  <2> SUFFICES ASSUME AuditInv PROVE Audit
    BY DEF AuditPasses
  <2>1. PICK replay : IsReplay(replay, events) /\ Confirms(replay[Len(events)])
    BY DEF AuditInv
  <2>2. Len(events) \in Nat
    BY DEF AuditInv, HistoryInv, TypeOK
  <2>3. Replayed(events) = replay[Len(events)]
    BY <2>1, <2>2, ReplayedIsLast
  <2> QED BY <2>1, <2>3 DEF Audit, Confirms
<1> QED BY <1>1, InitAudit, NextAudit, PTL DEF Spec

-----------------------------------------------------------------------------
\* The ledger.

\* The instance's Cardinality is the library's.
LEMMA SameCardinality == \A S : Ledger!Cardinality(S) = Cardinality(S)
BY DEF Cardinality, Ledger!Cardinality

\* Every behaviour of the sequencer is a behaviour of the ledger: no
\* interleaving, crash or clock makes it append what a client's Projection
\* would refuse, or append anything twice.
THEOREM SequencerImplementsLedger == Spec => ImplementsLedger
<1>1. Init => Ledger!LedgerInit
  BY DEF Init, LogOf, Ledger!LedgerInit, GenesisRoom, Ledger!GenesisRoom
<1>2. HistoryInv /\ [Next]_vars => [Ledger!LedgerNext]_(Ledger!ledgerVars)
  <2> SUFFICES ASSUME HistoryInv, [Next]_vars
               PROVE  [Ledger!LedgerNext]_(Ledger!ledgerVars)
    OBVIOUS
  <2>1. CASE UNCHANGED store
    BY <2>1 DEF store, Ledger!ledgerVars, LogOf
  <2>2. ASSUME NEW h \in Handlers, CommitAppend(h)
        PROVE  \E p \in Proposals : Ledger!Extend(p)
    <3> DEFINE p == handlers[h].proposal
               n == Len(events)
    <3>1. TypeOK /\ head.seqno = n
      BY DEF HistoryInv
    <3>2. /\ n \in Nat /\ p \in Proposals
          /\ DOMAIN events = 1 .. n /\ DOMAIN events' = 1 .. n + 1
          /\ \A i \in 1 .. n : events'[i] = events[i]
          /\ events'[n + 1].proposal = p
          /\ room' = StoreEffect(room, n + 1, p.body)
      BY <2>2, <3>1, AppendedEvent DEF TypeOK
    <3>3. room \in Room /\ p.author \in Keys /\ p.body \in Body
      BY <3>1, <3>2, ProposalType DEF TypeOK
    <3>4. /\ ~InHistory(p)
          /\ StoreAuthorizes(room.anyone, room, p.author, p.body)
          /\ StoreVerdict(room, p.body) = "ok"
      <4>1. snapshot.state.anyone = room.anyone
        BY DEF HistoryInv, SnapshotCurrent, Signed
      <4> QED BY <2>2, <4>1 DEF CommitAppend, CommitVerdict
    <3>5. /\ ProjectionAuthorizes(room, p.author, p.body)
          /\ ProjectionVerdict(room, p.body) = "ok"
          /\ room' = ProjectionEffect(room, n + 1, p.body)
      BY <3>2, <3>3, <3>4, RulesAgree
    <3>6. /\ Len(LogOf(events)) = n
          /\ LogOf(events') = Append(LogOf(events), p)
          /\ \A i \in DOMAIN LogOf(events) : LogOf(events)[i] # p
      <4>1. LogOf(events) \in Seq(Proposals) /\ Len(LogOf(events)) = n
        <5>1. \A i \in 1 .. n : events[i].proposal \in Proposals
          BY <3>1, <3>2, EventType
        <5>2. LogOf(events) = [i \in 1 .. n |-> events[i].proposal]
          BY <3>2 DEF LogOf
        <5> QED BY <3>2, <5>1, <5>2
      <4>2. LogOf(events') = Append(LogOf(events), p)
        BY <3>2, <4>1 DEF LogOf
      <4>3. \A i \in DOMAIN LogOf(events) : LogOf(events)[i] # p
        BY <3>4 DEF LogOf, InHistory
      <4> QED BY <4>1, <4>2, <4>3
    <3>7. Ledger!Extend(p)
      <4> USE DEF PinTypes, GrantTypes, RevokeTypes, Ledger!PinTypes,
                  Ledger!GrantTypes, Ledger!RevokeTypes
      <4>1. Ledger!ProjectionAuthorizes(room, p.author, p.body)
        BY <3>5 DEF ProjectionAuthorizes, Ledger!ProjectionAuthorizes
      <4>2. Ledger!ProjectionVerdict(room, p.body) = "ok"
        BY <3>5, SameCardinality DEF ProjectionVerdict, RoleHolders, RoleLimit, IsAdminType,
                    Ledger!ProjectionVerdict, Ledger!RoleHolders, Ledger!RoleLimit,
                    Ledger!IsAdminType
      <4>3. room' = Ledger!ProjectionEffect(room, n + 1, p.body)
        BY <3>5 DEF ProjectionEffect, Ledger!ProjectionEffect
      <4> QED BY <3>6, <4>1, <4>2, <4>3 DEF Ledger!Extend
    <3> QED BY <3>2, <3>7
  <2> QED BY <2>1, <2>2, HistoryStep DEF Ledger!LedgerNext
<1> QED BY <1>1, <1>2, InitHistory, NextHistory, PTL
        DEF Spec, ImplementsLedger, Ledger!LedgerSpec
=============================================================================
