----------------------------- MODULE ClientJournal -----------------------------
(***************************************************************************)
(* The client's journal of submissions: how one client, in one room, finds *)
(* out what became of the events it submits.                               *)
(*                                                                         *)
(* submit and retryPending run one at a time in a room (submitMu), and not *)
(* while discardPending, leave or resetIdentity run (submissionMu).  One   *)
(* call is a row saved in pending_operations, a query that may be answered *)
(* late or not at all, and the ingestion of the commit by another          *)
(* goroutine, which also ingests what the room broadcasts.  The query may  *)
(* go to the sequencer or through a relay, whose rejections prove nothing. *)
(* What the client had sent goes on after the client has given up on it,   *)
(* was killed, or has changed its identity.                                *)
(*                                                                         *)
(* Abstractions.  Only the client's own proposals are in the history; a    *)
(* copy of the history is the length of its prefix.  A rejection is        *)
(* "refused", "ambiguous" (persistence failure, sequencer unavailable,     *)
(* invalid canonical state) or "invalid" (unknown code, wrong commit).     *)
(***************************************************************************)
EXTENDS Naturals, Sequences

CONSTANTS
    Proposals,      \* Signed proposals; each has a fresh nonce and is signed once.
    Routes,         \* How sessions reach the sequencer: {"direct", "relay"}.
    MaxRequests,    \* Bound: queries in flight.
    MaxResets,      \* Bound: identities used after the first.
    MaxFaults       \* Bound: lost answers, broken sessions, failures, crashes.

ASSUME JournalAssumption ==
    /\ Routes \subseteq {"direct", "relay"}
    /\ {MaxRequests, MaxResets, MaxFaults} \subseteq Nat

VARIABLES
    canon,          \* The canonical history (at the sequencer).
    head,           \* How much of it the client has in room_events.
    journal,        \* The room's row of pending_operations.
    identity,       \* The client's key, by the number of resets before it.
    session,        \* The route of the current session, or "none".
    call,           \* The submit or retryPending call that holds submitMu.
    requests,       \* SubmitEvent queries that may still reach the sequencer.
    outcome,        \* What the user was last told of each proposal.
    faults

vars == <<canon, head, journal, identity, session, call, requests, outcome,
          faults>>

None == [pc |-> "none", id |-> "none", query |-> 0, first |-> FALSE, route |-> "none",
         live |-> FALSE]
NoRow == [row |-> FALSE]
Row(p) == [row |-> TRUE, id |-> p, author |-> identity, receipt |-> FALSE]

Answers == {"committed", "refused", "ambiguous", "invalid"}
Steps == {"none", "send", "wait", "ingest", "clear", "commit", "rejection"} \cup Answers
Calls == [pc : Steps, id : Proposals \cup {"none"}, query : 0 .. MaxRequests, first : BOOLEAN,
          route : Routes \cup {"none"}, live : BOOLEAN]
Outcomes == {"none", "unknown", "uncertain", "committed", "rejected", "discarded"}

InCanon(p) == \E i \in DOMAIN canon : canon[i] = p
Known(p) == \E i \in 1 .. head : canon[i] = p
Position(p) == CHOOSE i \in DOMAIN canon : canon[i] = p

Pending(p) == journal.row /\ journal.id = p

Fault == faults < MaxFaults /\ faults' = faults + 1

-----------------------------------------------------------------------------
\* The client's store.

\* appendEvent of the events `from' .. `to': one transaction each, which also
\* records the receipt if the event is the pending one.
Appends(from, to) ==
    /\ head' = IF to > head THEN to ELSE head
    /\ journal' = IF journal.row /\ \E i \in from .. to : canon[i] = journal.id
                  THEN [journal EXCEPT !.receipt = TRUE] ELSE journal

\* What a session to this route can deliver of the history: a relay may lag.
Delivered(route) == IF route = "direct" THEN {Len(canon)} ELSE head .. Len(canon)

\* closeSessionIf: a call that runs over this session has lost it.
Detached == IF call.pc = "none" THEN None ELSE [call EXCEPT !.live = FALSE]

\* The call returns to the user.
Returns(told) ==
    /\ call' = None
    /\ outcome' = [outcome EXCEPT ![call.id] = told]

-----------------------------------------------------------------------------
Init ==
    /\ canon = <<>>
    /\ head = 0
    /\ journal = NoRow
    /\ identity = 0
    /\ session = "none"
    /\ call = None
    /\ requests = {}
    /\ outcome = [p \in Proposals |-> "none"]
    /\ faults = 0

\* connect: dial, install the session and synchronize the history.
Connect(route) ==
    /\ session = "none"
    /\ session' = route
    /\ \E upto \in Delivered(route) : Appends(head + 1, upto)
    /\ UNCHANGED <<canon, identity, call, requests, outcome, faults>>

Disconnect ==
    /\ session # "none"
    /\ Fault
    /\ session' = "none"
    /\ call' = Detached
    /\ UNCHANGED <<canon, head, journal, identity, requests, outcome>>

\* processCanonical on a broadcast commit, and the sync if there is a gap.
ReceiveBroadcast ==
    /\ session # "none"
    /\ \E upto \in head + 1 .. Len(canon) : Appends(head + 1, upto)
    /\ UNCHANGED <<canon, identity, session, call, requests, outcome, faults>>

\* submit: nothing is pending; the proposal is signed and saved.
Submit(p) ==
    /\ call.pc = "none" /\ session # "none"
    /\ ~journal.row
    /\ outcome[p] = "none"
    /\ journal' = Row(p)
    /\ call' = [pc |-> "send", id |-> p, query |-> 0, first |-> TRUE, route |-> session,
                live |-> TRUE]
    /\ outcome' = [outcome EXCEPT ![p] = "unknown"]
    /\ UNCHANGED <<canon, head, identity, session, requests, faults>>

\* retryPending, or submit with the body of the pending proposal.  The row must
\* be of the current identity; a receipt makes the query unnecessary.
Retry ==
    /\ call.pc = "none" /\ session # "none"
    /\ journal.row /\ journal.author = identity
    /\ call' = [pc |-> IF journal.receipt THEN "ingest" ELSE "send", id |-> journal.id,
                query |-> 0, first |-> FALSE, route |-> session, live |-> TRUE]
    /\ UNCHANGED <<canon, head, journal, identity, session, requests, outcome, faults>>

Send ==
    /\ call.pc = "send" /\ call.live
    /\ \E query \in (1 .. MaxRequests) \ {request.query : request \in requests} :
          /\ requests' = requests \cup {[query |-> query, id |-> call.id, route |-> call.route]}
          /\ call' = [call EXCEPT !.pc = "wait", !.query = query]
    /\ UNCHANGED <<canon, head, journal, identity, session, outcome, faults>>

-----------------------------------------------------------------------------
\* The other end.

Awaited(request) == call.pc = "wait" /\ call.live /\ call.query = request.query

\* The answer to a request reaches the call that waits for it, or nobody.
Answered(request, answer) ==
    IF Awaited(request)
    THEN call' = [call EXCEPT !.pc = answer]
    ELSE UNCHANGED call

\* commitProposal: an exact copy of a committed proposal is answered with that
\* commit whatever else has changed, a new one is committed or refused.
SequencerForgets(request) ==
    /\ requests' = requests \ {request}
    /\ \/ Answered(request, "refused") /\ UNCHANGED canon
       \/ /\ ~InCanon(request.id)
          /\ canon' = Append(canon, request.id)
          /\ Answered(request, "committed")
    /\ UNCHANGED <<head, journal, identity, session, outcome, faults>>
SequencerDecides(request) ==
    /\ requests' = requests \ {request}
    /\ \/ /\ InCanon(request.id)
          /\ UNCHANGED canon
          /\ Answered(request, "committed")
       \/ /\ ~InCanon(request.id)
          /\ canon' = Append(canon, request.id)
          /\ Answered(request, "committed")
       \/ /\ ~InCanon(request.id)
          /\ UNCHANGED canon
          /\ Answered(request, "refused")
    /\ UNCHANGED <<head, journal, identity, session, outcome, faults>>

\* The request or its answer is lost, or the database fails before or after the
\* commit is durable.
SequencerFails(request) ==
    /\ Fault
    /\ requests' = requests \ {request}
    /\ canon' \in {canon} \cup {Append(canon, p) : p \in {request.id} \ {canon[i] : i \in DOMAIN canon}}
    /\ \/ UNCHANGED call
       \/ Answered(request, "ambiguous")
    /\ UNCHANGED <<head, journal, identity, session, outcome>>

\* A relay answers what it likes: a rejection although it forwards the request,
\* or the commit of another proposal.
RelayAnswers(request, answer) ==
    /\ request.route = "relay"
    /\ answer \in {"refused", "ambiguous", "invalid"}
    /\ Awaited(request)
    /\ call' = [call EXCEPT !.pc = answer]
    /\ UNCHANGED <<canon, head, journal, identity, session, requests, outcome, faults>>

-----------------------------------------------------------------------------
\* The call goes on.

\* The query might still be answered.
Hopeful == call.live /\ (call.pc = "wait" => \E request \in requests : Awaited(request))

\* The query fails, by its ten-second timeout or because the session is gone.
\* Meanwhile the commit may have come as a broadcast.
QueryFailsForgetting ==
    /\ call.pc \in {"send", "wait"}
    /\ IF Hopeful THEN Fault ELSE UNCHANGED faults
    /\ Returns("uncertain")
    /\ journal' = NoRow
    /\ UNCHANGED <<canon, head, identity, session, requests>>
QueryFails ==
    /\ call.pc \in {"send", "wait"}
    /\ IF Hopeful THEN Fault ELSE UNCHANGED faults
    /\ IF journal.receipt
       THEN call' = [call EXCEPT !.pc = "ingest"] /\ UNCHANGED outcome
       ELSE Returns("uncertain")
    /\ UNCHANGED <<canon, head, journal, identity, session, requests>>

\* Whether a rejection proves that the proposal will never be committed.
DefinitiveOnAnyAttempt == call.pc = "refused" /\ call.route = "direct"
Definitive == call.pc = "refused" /\ call.first /\ call.route = "direct"

\* An answer other than a commit.
Rejected ==
    /\ call.pc \in {"refused", "ambiguous"}
    /\ IF journal.receipt
       THEN call' = [call EXCEPT !.pc = "ingest"] /\ UNCHANGED <<journal, outcome>>
       ELSE IF Definitive
       THEN /\ journal' = NoRow
            /\ call' = [call EXCEPT !.pc = "rejection"]
            /\ UNCHANGED outcome
       ELSE UNCHANGED journal /\ Returns("uncertain")
    /\ UNCHANGED <<canon, head, identity, session, requests, faults>>

\* A protocol error also closes the session.
Invalid ==
    /\ call.pc = "invalid"
    /\ Returns("uncertain")
    /\ session' = IF call.live THEN "none" ELSE session
    /\ UNCHANGED <<canon, head, journal, identity, requests, faults>>

\* The ingestion goroutine stores a commit, after the events that are missing
\* before it.
Stores(p) ==
    IF Known(p) THEN Appends(Position(p), Position(p))
    ELSE \E upto \in Position(p) .. Len(canon) : Appends(head + 1, upto)

\* ingestCanonical of the commit that was answered or that is in the receipt: it
\* is durable ...
Ingested ==
    /\ call.pc \in {"committed", "ingest"} /\ call.live
    /\ Stores(call.id)
    /\ call' = [call EXCEPT !.pc = "clear"]
    /\ UNCHANGED <<canon, identity, session, requests, outcome, faults>>

\* ... or the call does not learn that it is, and closes the session.
NotIngested ==
    /\ call.pc \in {"committed", "ingest"}
    /\ IF call.live THEN Fault ELSE UNCHANGED faults
    /\ (call.live /\ Stores(call.id)) \/ UNCHANGED <<head, journal>>
    /\ session' = IF call.live THEN "none" ELSE session
    /\ Returns("uncertain")
    /\ UNCHANGED <<canon, identity, requests>>

\* clearPending.
Acknowledge ==
    /\ call.pc = "clear"
    /\ journal' = NoRow
    /\ call' = [call EXCEPT !.pc = "commit"]
    /\ UNCHANGED <<canon, head, identity, session, requests, outcome, faults>>

\* The user is told what is settled.
ReturnSettled ==
    /\ \/ call.pc = "commit" /\ Returns("committed")
       \/ call.pc = "rejection" /\ Returns("rejected")
    /\ UNCHANGED <<canon, head, journal, identity, session, requests, faults>>

-----------------------------------------------------------------------------
\* The operations that exclude calls.

Discard ==
    /\ call.pc = "none" /\ journal.row
    /\ journal' = NoRow
    /\ outcome' = [outcome EXCEPT ![journal.id] = "discarded"]
    /\ UNCHANGED <<canon, head, identity, session, call, requests, faults>>

ResetIdentityAtOnce ==
    /\ call.pc = "none"
    /\ identity < MaxResets
    /\ identity' = identity + 1
    /\ session' = "none"
    /\ UNCHANGED <<canon, head, journal, call, requests, outcome, faults>>
ResetIdentity ==
    /\ call.pc = "none" /\ ~journal.row
    /\ identity < MaxResets
    /\ identity' = identity + 1
    /\ session' = "none"
    /\ UNCHANGED <<canon, head, journal, call, requests, outcome, faults>>

\* leave deletes the room's history; connecting again is joining again.
Leave ==
    /\ call.pc = "none" /\ ~journal.row
    /\ session # "none"
    /\ session' = "none"
    /\ head' = 0
    /\ UNCHANGED <<canon, journal, identity, call, requests, outcome, faults>>

\* The client is killed: the database and what it has sent are left.
Crash ==
    /\ session # "none" \/ call.pc # "none"
    /\ Fault
    /\ session' = "none"
    /\ call' = None
    /\ UNCHANGED <<canon, head, journal, identity, requests, outcome>>

CallStep ==
    \/ Send \/ QueryFails \/ Rejected \/ Invalid
    \/ Ingested \/ NotIngested \/ Acknowledge \/ ReturnSettled

Next ==
    \/ \E route \in Routes : Connect(route)
    \/ Disconnect \/ ReceiveBroadcast
    \/ \E p \in Proposals : Submit(p)
    \/ Retry \/ CallStep
    \/ \E request \in requests : SequencerDecides(request) \/ SequencerFails(request)
    \/ \E request \in requests, answer \in Answers : RelayAnswers(request, answer)
    \/ Discard \/ ResetIdentity \/ Leave \/ Crash

Spec == Init /\ [][Next]_vars

\* The client reconnects, its calls go on, requests that arrive are answered,
\* and the user retries.
Fairness ==
    /\ WF_vars(\E route \in Routes : Connect(route))
    /\ WF_vars(CallStep)
    /\ WF_vars(Retry)
    /\ WF_vars(\E request \in requests : SequencerDecides(request))

FairSpec == Spec /\ Fairness

-----------------------------------------------------------------------------
\* A pending row is always one of the current identity, which can retry it.
TypeOK ==
    /\ canon \in Seq(Proposals)
    /\ head \in 0 .. Len(canon)
    /\ journal \in {NoRow} \cup [row : {TRUE}, id : Proposals, author : {identity},
                                 receipt : BOOLEAN]
    /\ identity \in 0 .. MaxResets
    /\ session \in Routes \cup {"none"}
    /\ call \in Calls
    /\ requests \subseteq [query : 1 .. MaxRequests, id : Proposals, route : Routes]
    /\ outcome \in [Proposals -> Outcomes]
    /\ faults \in 0 .. MaxFaults

\* A proposal that may still be committed is in the journal, unless the user
\* discarded it: wherever the client was killed, whatever was lost, the user can
\* still find out.  And once its event is in the client's history, the row says so.
NothingForgotten ==
    /\ \A request \in requests :
          InCanon(request.id) \/ Pending(request.id) \/ outcome[request.id] = "discarded"
    /\ \A p \in Proposals : outcome[p] = "uncertain" => Pending(p) \/ InCanon(p)
    /\ journal.row /\ Known(journal.id) => journal.receipt

\* PROTOCOL.md: a rejection is reported as definitive only if it is.  What the
\* user was told is rejected is not in the history and no copy can get there.
RejectionsAreFinal ==
    \A p \in Proposals : outcome[p] = "rejected" =>
        ~InCanon(p) /\ \A request \in requests : request.id # p

\* If the user keeps retrying, and from some time on over sessions to the
\* sequencer only (a relay can refuse for ever), every committed proposal is
\* acknowledged or the user discards it, even though its answer and its
\* broadcast were lost.
CommittedIsSettled ==
    <>[](session # "relay") =>
        \A p \in Proposals : (Pending(p) /\ InCanon(p)) ~> ~Pending(p)

\* The user can rely on what he is told: one proposal is pending at a time, it gets
\* into the history at most once and only while it is pending or was discarded, the
\* user hears of a commit that his own copy has and of a rejection that is for ever,
\* and neither is taken back.
Unsettled == IF journal.row THEN {journal.id} ELSE {}
Ledger == INSTANCE SubmissionLedger
              WITH history <- canon, held <- head, pending <- Unsettled, told <- outcome

ImplementsSubmissionLedger == Ledger!LedgerSpec

=============================================================================
