----------------------------- MODULE JournalProofs -----------------------------
(***************************************************************************)
(* Theorems about the client's journal, for every set of proposals and     *)
(* routes and every bound on queries, resets and faults.                   *)
(***************************************************************************)
EXTENDS ClientJournal, SequenceTheorems, TLAPS

-----------------------------------------------------------------------------
\* The invariant.

NoRequest(p) == \A request \in requests : request.id # p

\* The sequencer commits a proposal once, and never one that was not sent.
HistoryInv ==
    /\ \A i, j \in DOMAIN canon : canon[i] = canon[j] => i = j
    /\ \A p \in Proposals : outcome[p] = "none" => ~InCanon(p) /\ NoRequest(p)

\* The user is not told yet what became of the pending proposal, and a receipt is
\* a commit.
RowInv == journal.row =>
    /\ outcome[journal.id] \in {"unknown", "uncertain"}
    /\ journal.receipt => InCanon(journal.id)

\* Answers find their call: what is under way with the call's query is its own.
QueryInv ==
    /\ \A r1, r2 \in requests : r1.query = r2.query => r1 = r2
    /\ call.pc = "wait" =>
          \A request \in requests : request.query = call.query
              => request.id = call.id /\ request.route = call.route

\* A call is about the pending proposal until the row is cleared, and goes towards
\* an acknowledgement only when the event is in the history.
CallInv ==
    /\ call.pc # "none" => /\ call.id \in Proposals /\ call.route \in Routes
                           /\ outcome[call.id] \in {"unknown", "uncertain"}
    /\ call.pc \notin {"none", "commit", "rejection"} => Pending(call.id)
    /\ call.pc \in {"commit", "rejection"} => ~journal.row
    /\ call.pc \in {"committed", "clear", "commit"} => InCanon(call.id)
    /\ call.pc = "ingest" => journal.receipt

\* No copy of a proposal is under way but that of its first attempt, as long as
\* that lasts ...
FirstInv == call.pc # "none" /\ call.first =>
    /\ outcome[call.id] = "unknown"
    /\ call.pc = "send" => NoRequest(call.id)
    /\ call.pc = "wait" => \A request \in requests : request.id = call.id => request.query = call.query

\* ... so that a rejection of it by the sequencer leaves none.
FinalInv ==
    (\/ call.pc = "rejection"
     \/ call.pc = "refused" /\ call.first /\ call.route = "direct")
    => ~InCanon(call.id) /\ NoRequest(call.id) /\ call.first

Core == /\ HistoryInv /\ RowInv /\ QueryInv /\ CallInv /\ FirstInv /\ FinalInv
        /\ NothingForgotten /\ RejectionsAreFinal
JournalInv == TypeOK /\ Core

-----------------------------------------------------------------------------
\* What steps do to the history and to the client's copy of it.

\* The parts of the type that steps need most.
LEMMA Types ==
    ASSUME TypeOK
    PROVE  /\ Len(canon) \in Nat /\ head \in 0 .. Len(canon) /\ DOMAIN canon = 1 .. Len(canon)
           /\ journal.row => journal.id \in Proposals /\ journal.author = identity
           /\ MaxRequests \in Nat /\ MaxResets \in Nat /\ MaxFaults \in Nat
<1>1. Len(canon) \in Nat /\ head \in 0 .. Len(canon) /\ DOMAIN canon = 1 .. Len(canon)
  BY LenProperties DEF TypeOK
<1>2. journal.row => journal.id \in Proposals /\ journal.author = identity
  <2>1. NoRow.row = FALSE
    BY DEF NoRow
  <2> QED BY <2>1 DEF TypeOK
<1> QED BY <1>1, <1>2, JournalAssumption

\* No call is a call at rest.
LEMMA NoneIsCall ==
    /\ None.pc = "none"
    /\ None \in Calls
BY JournalAssumption DEF None, Calls, Steps

\* A commit of a new proposal: it is in the history, and everything else is as before.
LEMMA CommitAppends ==
    ASSUME TypeOK, HistoryInv, NEW p \in Proposals, canon' = Append(canon, p), ~InCanon(p)
    PROVE  /\ canon' \in Seq(Proposals) /\ Len(canon') = Len(canon) + 1
           /\ \A q : InCanon(q)' <=> InCanon(q) \/ q = p
           /\ head' = head => \A q : Known(q)' <=> Known(q)
           /\ \A i, j \in DOMAIN canon' : canon'[i] = canon'[j] => i = j
<1> DEFINE n == Len(canon)
<1>1. /\ canon \in Seq(Proposals) /\ n \in Nat /\ head \in 0 .. n
      /\ DOMAIN canon = 1 .. n
  BY LenProperties DEF TypeOK
<1>2. /\ canon' \in Seq(Proposals) /\ Len(canon') = n + 1
      /\ \A i \in 1 .. n : canon'[i] = canon[i]
      /\ canon'[n + 1] = p
  BY <1>1, AppendProperties
<1>3. DOMAIN canon' = 1 .. n + 1
  BY <1>2, LenProperties
<1> HIDE DEF n
<1>4. ASSUME NEW q PROVE InCanon(q)' <=> InCanon(q) \/ q = p
  <2>1. 1 .. n + 1 = (1 .. n) \cup {n + 1}
    BY <1>1
  <2> QED BY <1>1, <1>2, <1>3, <2>1 DEF InCanon
<1>5. ASSUME head' = head, NEW q PROVE Known(q)' <=> Known(q)
  <2>1. \A i \in 1 .. head : i \in 1 .. n
    BY <1>1
  <2> QED BY <1>2, <1>5, <2>1 DEF Known
<1>6. ASSUME NEW i \in DOMAIN canon', NEW j \in DOMAIN canon', canon'[i] = canon'[j]
      PROVE  i = j
  <2>1. (i \in 1 .. n \/ i = n + 1) /\ (j \in 1 .. n \/ j = n + 1)
    BY <1>1, <1>3
  <2>2. \A k \in 1 .. n : canon[k] # p
    BY <1>1 DEF InCanon
  <2> QED BY <1>1, <1>2, <1>6, <2>1, <2>2 DEF HistoryInv
<1> QED BY <1>2, <1>4, <1>5, <1>6 DEF n

\* What appendEvent does to the row: it is the same one, and has its receipt if, and only
\* if, its event is stored.
RowKept ==
    /\ journal'.row = journal.row
    /\ journal' \in {NoRow} \cup [row : {TRUE}, id : Proposals, author : {identity}, receipt : BOOLEAN]
    /\ journal.row => /\ journal'.id = journal.id
                      /\ journal.receipt => journal'.receipt
                      /\ journal'.receipt => InCanon(journal.id)
                      /\ Known(journal.id)' => journal'.receipt

\* Events that follow the copy, or one that is in it, are stored.
LEMMA AppendsKeepsRow ==
    ASSUME JournalInv, UNCHANGED canon, NEW from \in Nat \ {0}, NEW to \in 0 .. Len(canon),
           Appends(from, to), from = head + 1 \/ (from = to /\ from <= head)
    PROVE  head' \in 0 .. Len(canon) /\ RowKept
<1>1. /\ Len(canon) \in Nat /\ head \in 0 .. Len(canon) /\ DOMAIN canon = 1 .. Len(canon)
  BY LenProperties DEF JournalInv, TypeOK
<1>2. head' \in 0 .. Len(canon) /\ head' = IF to > head THEN to ELSE head
  BY <1>1 DEF Appends
<1>3. journal \in {NoRow} \cup [row : {TRUE}, id : Proposals, author : {identity}, receipt : BOOLEAN]
  BY DEF JournalInv, TypeOK
<1>4. CASE ~journal.row
  <2>1. journal' = journal
    BY <1>4 DEF Appends
  <2> QED BY <1>2, <1>3, <1>4, <2>1 DEF RowKept
<1>5. CASE journal.row
  <2>1. journal \in [row : {TRUE}, id : Proposals, author : {identity}, receipt : BOOLEAN]
    <3>1. NoRow.row = FALSE
      BY DEF NoRow
    <3> QED BY <1>3, <1>5, <3>1
  <2>2. CASE \E i \in from .. to : canon[i] = journal.id
    <3>1. journal' = [journal EXCEPT !.receipt = TRUE]
      BY <1>5, <2>2 DEF Appends
    <3>2. InCanon(journal.id)
      BY <1>1, <2>2 DEF InCanon
    <3> QED BY <1>2, <2>1, <3>1, <3>2 DEF RowKept
  <2>3. CASE ~ \E i \in from .. to : canon[i] = journal.id
    <3>1. journal' = journal
      BY <2>3 DEF Appends
    <3>2. Known(journal.id)' => Known(journal.id)
      <4>1. \A i \in 1 .. head' : i \in 1 .. head \/ i \in from .. to
        BY <1>1, <1>2
      <4> QED BY <2>3, <3>1, <4>1 DEF Known
    <3>3. Known(journal.id)' => journal.receipt
      BY <1>5, <3>2 DEF JournalInv, Core, NothingForgotten
    <3>4. journal.receipt => InCanon(journal.id)
      BY <1>5 DEF JournalInv, Core, RowInv
    <3> QED BY <1>2, <2>1, <3>1, <3>3, <3>4 DEF RowKept
  <2> QED BY <2>2, <2>3
<1> QED BY <1>4, <1>5

\* The ingestion of a commit, whatever was missing before it.
LEMMA StoresKeepsRow ==
    ASSUME JournalInv, UNCHANGED canon, NEW p \in Proposals, InCanon(p), Stores(p)
    PROVE  head' \in 0 .. Len(canon) /\ RowKept
<1>1. /\ Len(canon) \in Nat /\ head \in 0 .. Len(canon) /\ DOMAIN canon = 1 .. Len(canon)
  BY LenProperties DEF JournalInv, TypeOK
<1>2. Position(p) \in 1 .. Len(canon) /\ canon[Position(p)] = p
  BY <1>1 DEF Position, InCanon
<1>3. CASE Known(p)
  <2>1. PICK i \in 1 .. head : canon[i] = p
    BY <1>3 DEF Known
  <2>2. i \in 1 .. Len(canon)
    BY <1>1
  <2>3. i = Position(p)
    BY <1>1, <1>2, <2>1, <2>2 DEF JournalInv, Core, HistoryInv
  <2>4. Appends(Position(p), Position(p))
    BY <1>3 DEF Stores
  <2>5. Position(p) \in Nat \ {0} /\ Position(p) \in 0 .. Len(canon) /\ Position(p) <= head
    BY <1>1, <1>2, <2>1, <2>3
  <2> QED BY <2>4, <2>5, AppendsKeepsRow
<1>4. CASE ~Known(p)
  <2>1. PICK upto \in Position(p) .. Len(canon) : Appends(head + 1, upto)
    BY <1>4 DEF Stores
  <2>2. upto \in 0 .. Len(canon) /\ head + 1 \in Nat \ {0}
    BY <1>1, <1>2
  <2> QED BY <2>1, <2>2, AppendsKeepsRow
<1> QED BY <1>3, <1>4

-----------------------------------------------------------------------------
\* What steps do to the call.

\* It stays where it is, or is forgotten (by a client that is killed).
SameCall ==
    \/ /\ call'.pc = call.pc /\ call'.id = call.id /\ call'.query = call.query
       /\ call'.first = call.first /\ call'.route = call.route
    \/ call' = None

\* The store, the session or the identity changes, and the call hardly.
LEMMA CoreUntouched ==
    ASSUME JournalInv, UNCHANGED <<canon, requests, outcome>>, RowKept, SameCall
    PROVE  Core'
<1> USE DEF JournalInv, Core, RowKept, SameCall
<1>1. \A p : /\ InCanon(p)' <=> InCanon(p)
             /\ NoRequest(p)' <=> NoRequest(p)
             /\ Pending(p)' <=> Pending(p)
  BY DEF InCanon, NoRequest, Pending
<1>2. HistoryInv' /\ QueryInv'
  BY <1>1, NoneIsCall DEF HistoryInv, QueryInv
<1>3. RowInv'
  BY <1>1 DEF RowInv, InCanon
<1>4. CallInv'
  BY <1>1, NoneIsCall DEF CallInv, Pending, InCanon
<1>5. FirstInv' /\ FinalInv'
  BY <1>1, NoneIsCall DEF FirstInv, FinalInv, NoRequest, InCanon
<1>6. NothingForgotten'
  <2>1. journal'.row => (Known(journal.id)' => journal'.receipt)
    OBVIOUS
  <2> QED BY <1>1, <2>1 DEF NothingForgotten
<1>7. RejectionsAreFinal'
  BY <1>1 DEF RejectionsAreFinal
<1> QED BY <1>2, <1>3, <1>4, <1>5, <1>6, <1>7

\* The call waits no more, and knows that the event is in the history.
LEMMA CoreGoesOn ==
    ASSUME JournalInv, UNCHANGED <<canon, requests, outcome>>, RowKept,
           call.pc \notin {"none", "commit", "rejection"},
           NEW pc \in {"ingest", "clear"}, call' = [call EXCEPT !.pc = pc],
           pc = "ingest" => journal'.receipt,
           pc = "clear" => InCanon(call.id)
    PROVE  Core'
<1> USE DEF JournalInv, Core, RowKept
<1>1. \A p : /\ InCanon(p)' <=> InCanon(p)
             /\ NoRequest(p)' <=> NoRequest(p)
             /\ Pending(p)' <=> Pending(p)
  BY DEF InCanon, NoRequest, Pending
<1>2. call'.pc = pc /\ call'.id = call.id /\ call'.route = call.route /\ call'.first = call.first
  BY DEF TypeOK
<1>3. HistoryInv' /\ QueryInv'
  BY <1>1, <1>2 DEF HistoryInv, QueryInv
<1>4. RowInv'
  BY <1>1 DEF RowInv, InCanon
<1>5. CallInv'
  BY <1>1, <1>2 DEF CallInv, Pending, InCanon
<1>6. FirstInv' /\ FinalInv'
  BY <1>1, <1>2 DEF FirstInv, FinalInv
<1>7. NothingForgotten'
  <2>1. journal'.row => (Known(journal.id)' => journal'.receipt)
    OBVIOUS
  <2> QED BY <1>1, <2>1 DEF NothingForgotten
<1>8. RejectionsAreFinal'
  BY <1>1 DEF RejectionsAreFinal
<1> QED BY <1>3, <1>4, <1>5, <1>6, <1>7, <1>8

\* The call returns, and the user is told to retry.
LEMMA CoreUncertain ==
    ASSUME JournalInv, UNCHANGED <<canon, requests>>, RowKept,
           call.pc \notin {"none", "commit", "rejection"}, Returns("uncertain")
    PROVE  Core'
<1> USE DEF JournalInv, Core, RowKept
<1>1. \A p : /\ InCanon(p)' <=> InCanon(p)
             /\ NoRequest(p)' <=> NoRequest(p)
             /\ Pending(p)' <=> Pending(p)
  BY DEF InCanon, NoRequest, Pending
<1>2. call' = None /\ None.pc = "none"
  BY DEF Returns, None
<1>3. \A p \in Proposals : outcome'[p] = IF p = call.id THEN "uncertain" ELSE outcome[p]
  BY DEF Returns, TypeOK
<1>4. call.id \in Proposals /\ Pending(call.id) /\ outcome[call.id] \in {"unknown", "uncertain"}
  BY DEF CallInv
<1>5. HistoryInv' /\ QueryInv'
  BY <1>1, <1>2, <1>3, <1>4 DEF HistoryInv, QueryInv
<1>6. RowInv'
  BY <1>1, <1>3, <1>4 DEF RowInv, InCanon, Pending
<1>7. CallInv' /\ FirstInv' /\ FinalInv'
  BY <1>2 DEF CallInv, FirstInv, FinalInv
<1>8. NothingForgotten'
  <2>1. journal'.row => (Known(journal.id)' => journal'.receipt)
    OBVIOUS
  <2>2. \A request \in requests : request.id \in Proposals
    BY DEF TypeOK
  <2>3. outcome[call.id] # "discarded"
    BY <1>4
  <2> QED BY <1>1, <1>3, <1>4, <2>1, <2>2, <2>3 DEF NothingForgotten
<1>9. RejectionsAreFinal'
  BY <1>1, <1>3, <1>4 DEF RejectionsAreFinal
<1> QED BY <1>5, <1>6, <1>7, <1>8, <1>9

\* The sequencer decides a request, or fails before or after it has committed, and
\* the call that waits for it, if there is one, learns that it did or not.
LEMMA CoreDecided ==
    ASSUME JournalInv, NEW request \in requests, requests' = requests \ {request},
           UNCHANGED <<head, journal, outcome>>,
           \/ UNCHANGED canon
           \/ canon' = Append(canon, request.id) /\ ~InCanon(request.id),
           NEW answer \in {"committed", "refused", "ambiguous"},
           call' = call \/ Answered(request, answer),
           answer = "committed" => InCanon(request.id)',
           answer = "refused" => ~InCanon(request.id)'
    PROVE  Core'
<1> USE DEF JournalInv, Core
<1> DEFINE id == request.id
<1>1. id \in Proposals /\ request.query \in 1 .. MaxRequests
  BY DEF TypeOK
<1>2. /\ \A p : InCanon(p)' <=> InCanon(p) \/ (InCanon(id)' /\ p = id)
      /\ \A p : Known(p)' <=> Known(p)
      /\ \A i, j \in DOMAIN canon' : canon'[i] = canon'[j] => i = j
  BY <1>1, CommitAppends DEF InCanon, Known, HistoryInv
<1>3. \A p : /\ NoRequest(p) => NoRequest(p)'
             /\ Pending(p)' <=> Pending(p)
             /\ p # id /\ NoRequest(p)' => NoRequest(p)
  BY DEF NoRequest, Pending
<1>4. /\ call'.id = call.id /\ call'.query = call.query /\ call'.route = call.route
      /\ call'.first = call.first
      /\ \/ call'.pc = call.pc
         \/ /\ call.pc = "wait" /\ call'.pc = answer /\ call.query = request.query
            /\ call.id = id
  <2>1. CASE call' = call
    BY <2>1
  <2>2. CASE Answered(request, answer) /\ Awaited(request)
    <3>1. call' = [call EXCEPT !.pc = answer]
      BY <2>2 DEF Answered
    <3>2. call.pc = "wait" /\ call.query = request.query /\ call.id = id
      BY <2>2 DEF Awaited, QueryInv
    <3> QED BY <3>1, <3>2 DEF TypeOK
  <2>3. CASE Answered(request, answer) /\ ~Awaited(request)
    BY <2>3 DEF Answered
  <2> QED BY <2>1, <2>2, <2>3
<1> HIDE DEF id
<1>5. HistoryInv'
  <2>1. ~NoRequest(id)
    BY DEF NoRequest, id
  <2> QED BY <1>2, <1>3, <2>1 DEF HistoryInv
<1>6. RowInv'
  BY <1>2 DEF RowInv
<1>7. QueryInv'
  BY <1>4 DEF QueryInv
<1>8. CallInv'
  <2>1. answer = "committed" => InCanon(id)'
    BY DEF id
  <2> QED BY <1>2, <1>3, <1>4, <2>1 DEF CallInv
<1>9. FirstInv'
  BY <1>3, <1>4 DEF FirstInv
<1>10. FinalInv'
  <2>1. CASE call'.pc = call.pc
    <3> PICK c : c = call.id
      OBVIOUS
    <3>1. ~InCanon(c) /\ NoRequest(c) => ~InCanon(c)' /\ NoRequest(c)'
      BY <1>2, <1>3 DEF NoRequest, id
    <3>2. call'.id = c
      BY <1>4
    <3> QED BY <1>4, <2>1, <3>1, <3>2 DEF FinalInv, InCanon, NoRequest
  <2>2. CASE call.pc = "wait" /\ call'.pc = answer /\ call.query = request.query /\ call.id = id
    <3> SUFFICES ASSUME answer = "refused", call.first
                 PROVE  ~InCanon(id)' /\ NoRequest(id)'
      BY <1>4, <2>2 DEF FinalInv, InCanon, NoRequest
    <3>1. \A other \in requests : other.id = id => other = request
      BY <2>2 DEF FirstInv, QueryInv
    <3> QED BY <3>1 DEF NoRequest, id
  <2> QED BY <1>4, <2>1, <2>2
<1>11. NothingForgotten'
  BY <1>2, <1>3 DEF NothingForgotten
<1>12. RejectionsAreFinal'
  <2>1. outcome[id] # "rejected"
    BY <1>1 DEF RejectionsAreFinal, id
  <2> QED BY <1>2, <2>1 DEF RejectionsAreFinal
<1> QED BY <1>5, <1>6, <1>7, <1>8, <1>9, <1>10, <1>11, <1>12

-----------------------------------------------------------------------------
\* The actions.

\* Nothing is known of a proposal before it is submitted.
LEMMA InitInv == Init => JournalInv
<1> SUFFICES ASSUME Init PROVE JournalInv
  OBVIOUS
<1>1. Len(canon) = 0 /\ canon \in Seq(Proposals) /\ DOMAIN canon = {}
  BY EmptySeq, LenProperties DEF Init
<1>2. 0 \in 0 .. MaxResets /\ 0 \in 0 .. MaxFaults
  BY JournalAssumption
<1>3. TypeOK
  BY <1>1, <1>2, NoneIsCall DEF Init, TypeOK, Outcomes, Calls
<1>4. \A p : ~InCanon(p) /\ NoRequest(p)
  BY <1>1 DEF Init, InCanon, NoRequest
<1>5. HistoryInv /\ QueryInv
  BY <1>1, <1>4, NoneIsCall DEF Init, HistoryInv, QueryInv
<1>6. RowInv /\ NothingForgotten /\ RejectionsAreFinal
  BY <1>1 DEF Init, RowInv, NoRow, NothingForgotten, RejectionsAreFinal
<1>7. CallInv /\ FirstInv /\ FinalInv
  BY NoneIsCall DEF Init, CallInv, FirstInv, FinalInv
<1> QED BY <1>3, <1>5, <1>6, <1>7 DEF JournalInv, Core

\* The copy grows: over a new session, or with a broadcast.
LEMMA CopyGrows ==
    ASSUME JournalInv, (\E route \in Routes : Connect(route)) \/ ReceiveBroadcast
    PROVE  JournalInv'
<1>1. /\ UNCHANGED <<canon, identity, call, requests, outcome, faults>>
      /\ session' \in Routes \cup {"none"}
  BY DEF JournalInv, TypeOK, Connect, ReceiveBroadcast
<1>2. PICK upto \in head .. Len(canon) : Appends(head + 1, upto)
  <2>1. Delivered("direct") \cup Delivered("relay") \cup (head + 1 .. Len(canon)) \subseteq head .. Len(canon)
    BY Types DEF JournalInv, Delivered
  <2>2. \A route \in Routes : Delivered(route) \subseteq head .. Len(canon)
    BY <2>1, JournalAssumption
  <2> QED BY <2>1, <2>2 DEF Connect, ReceiveBroadcast
<1>3. head' \in 0 .. Len(canon) /\ RowKept
  <2>1. upto \in 0 .. Len(canon) /\ head + 1 \in Nat \ {0}
    BY Types DEF JournalInv
  <2> QED BY <1>1, <1>2, <2>1, AppendsKeepsRow
<1>4. TypeOK'
  BY <1>1, <1>3 DEF JournalInv, TypeOK, RowKept
<1>5. Core'
  BY <1>1, <1>3, CoreUntouched DEF SameCall
<1> QED BY <1>4, <1>5 DEF JournalInv

\* The row as it is.
LEMMA SameRow ==
    ASSUME JournalInv, UNCHANGED <<canon, journal>>, head' = head \/ ~journal.row
    PROVE  RowKept
<1>1. journal.row => (Known(journal.id)' <=> Known(journal.id))
  BY DEF Known
<1> QED BY <1>1 DEF JournalInv, TypeOK, Core, RowInv, NothingForgotten, RowKept

\* A session or an identity ends while no call depends on it, or while one does.
LEMMA SessionEnds ==
    ASSUME JournalInv, Disconnect \/ ResetIdentity \/ Leave
    PROVE  JournalInv'
<1>1. UNCHANGED <<canon, journal, requests, outcome>> /\ session' = "none"
  BY DEF Disconnect, ResetIdentity, Leave
<1>2. SameCall /\ call' \in Calls
  <2>1. CASE Disconnect /\ call.pc = "none"
    BY <2>1, NoneIsCall DEF Disconnect, Detached, SameCall
  <2>2. CASE Disconnect /\ call.pc # "none"
    <3>1. call' = [call EXCEPT !.live = FALSE]
      BY <2>2 DEF Disconnect, Detached
    <3> QED BY <3>1 DEF SameCall, JournalInv, TypeOK, Calls
  <2>3. CASE ResetIdentity \/ Leave
    BY <2>3 DEF ResetIdentity, Leave, SameCall, JournalInv, TypeOK
  <2> QED BY <2>1, <2>2, <2>3
<1>3. head' \in {0, head} /\ (head' = head \/ ~journal.row)
  BY DEF Disconnect, ResetIdentity, Leave
<1>4. identity' \in 0 .. MaxResets /\ faults' \in 0 .. MaxFaults
  <2>1. /\ identity' = identity \/ (identity < MaxResets /\ identity' = identity + 1)
        /\ faults' = faults \/ (faults < MaxFaults /\ faults' = faults + 1)
    BY DEF Disconnect, ResetIdentity, Leave, Fault
  <2>2. identity \in 0 .. MaxResets /\ faults \in 0 .. MaxFaults
    BY DEF JournalInv, TypeOK
  <2> QED BY <2>1, <2>2, JournalAssumption
<1>5. identity' = identity \/ ~journal.row
  BY DEF Disconnect, ResetIdentity, Leave
<1>6. journal \in {NoRow} \cup [row : {TRUE}, id : Proposals, author : {identity'}, receipt : BOOLEAN]
  <2>1. NoRow.row = FALSE
    BY DEF NoRow
  <2> QED BY <1>5, <2>1 DEF JournalInv, TypeOK
<1>7. TypeOK'
  <2>1. head' \in 0 .. Len(canon)
    BY <1>3, Types DEF JournalInv
  <2> QED BY <1>1, <1>2, <1>4, <1>6, <2>1 DEF JournalInv, TypeOK
<1>8. Core'
  BY <1>1, <1>2, <1>3, SameRow, CoreUntouched
<1> QED BY <1>7, <1>8 DEF JournalInv

\* A proposal is submitted: it is new, and saved before it is sent.
LEMMA SubmitSteps ==
    ASSUME JournalInv, NEW p \in Proposals, Submit(p)
    PROVE  JournalInv'
<1> USE DEF JournalInv, Core
<1>1. UNCHANGED <<canon, head, identity, session, requests, faults>> /\ ~journal.row
  BY DEF Submit
<1>2. journal' = [row |-> TRUE, id |-> p, author |-> identity, receipt |-> FALSE]
  BY DEF Submit, Row
<1>3. /\ call' = [pc |-> "send", id |-> p, query |-> 0, first |-> TRUE, route |-> session, live |-> TRUE]
      /\ session \in Routes
  BY DEF Submit, TypeOK
<1>4. \A q \in Proposals : outcome'[q] = IF q = p THEN "unknown" ELSE outcome[q]
  BY DEF Submit, TypeOK
<1>5. TypeOK'
  <2>1. outcome' \in [Proposals -> Outcomes]
    BY DEF Submit, TypeOK, Outcomes
  <2>2. 0 \in 0 .. MaxRequests
    BY JournalAssumption
  <2>3. call' \in Calls
    BY <1>3, <2>2 DEF Calls, Steps
  <2> QED BY <1>1, <1>2, <2>1, <2>3 DEF TypeOK
<1>6. /\ ~InCanon(p) /\ NoRequest(p) /\ outcome[p] = "none"
      /\ \A q : InCanon(q)' <=> InCanon(q)
      /\ \A q : NoRequest(q)' <=> NoRequest(q)
  BY <1>1 DEF Submit, HistoryInv, InCanon, NoRequest
<1>7. HistoryInv' /\ QueryInv'
  BY <1>1, <1>3, <1>4, <1>6 DEF HistoryInv, QueryInv
<1>8. RowInv' /\ CallInv' /\ FirstInv' /\ FinalInv'
  BY <1>1, <1>2, <1>3, <1>4, <1>6 DEF RowInv, CallInv, FirstInv, FinalInv, Pending, NoRequest, InCanon
<1>9. NothingForgotten'
  <2>1. \A q : Pending(q) => FALSE
    BY <1>1 DEF Pending
  <2>2. \A request \in requests : request.id \in Proposals /\ request.id # p
    BY <1>6 DEF TypeOK, NoRequest
  <2>3. ~Known(p)
    BY <1>6, Types DEF Known, InCanon
  <2>4. Known(journal.id)' => FALSE
    BY <1>1, <1>2, <2>3 DEF Known
  <2>5. Pending(p)'
    BY <1>2 DEF Pending
  <2> QED BY <1>1, <1>4, <1>6, <2>1, <2>2, <2>4, <2>5 DEF NothingForgotten
<1>10. RejectionsAreFinal'
  BY <1>1, <1>4, <1>6 DEF RejectionsAreFinal
<1> QED BY <1>5, <1>7, <1>8, <1>9, <1>10

\* The pending proposal is tried again.
LEMMA RetrySteps ==
    ASSUME JournalInv, Retry
    PROVE  JournalInv'
<1> USE DEF JournalInv, Core
<1>1. UNCHANGED <<canon, head, journal, identity, session, requests, outcome, faults>>
  BY DEF Retry
<1>2. /\ call' = [pc |-> IF journal.receipt THEN "ingest" ELSE "send", id |-> journal.id,
                  query |-> 0, first |-> FALSE, route |-> session, live |-> TRUE]
      /\ session \in Routes /\ journal.row /\ journal.id \in Proposals
  BY Types DEF Retry, TypeOK
<1>3. call'.pc \in {"ingest", "send"} /\ (call'.pc = "ingest" => journal.receipt)
  BY <1>2
<1>4. call'.id = journal.id /\ ~call'.first /\ call'.route = session
  BY <1>2
<1>5. TypeOK'
  <2>1. 0 \in 0 .. MaxRequests
    BY JournalAssumption
  <2>2. call' \in Calls
    BY <1>2, <2>1 DEF Calls, Steps
  <2> QED BY <1>1, <2>2 DEF TypeOK
<1>6. \A q : /\ InCanon(q)' <=> InCanon(q)
             /\ NoRequest(q)' <=> NoRequest(q)
             /\ Pending(q)' <=> Pending(q)
             /\ Known(q)' <=> Known(q)
  BY <1>1 DEF InCanon, NoRequest, Pending, Known
<1>7. HistoryInv' /\ RowInv' /\ QueryInv'
  BY <1>1, <1>3, <1>6 DEF HistoryInv, RowInv, QueryInv, InCanon
<1>8. CallInv'
  BY <1>1, <1>2, <1>3, <1>4 DEF CallInv, RowInv, Pending
<1>9. FirstInv' /\ FinalInv'
  BY <1>3, <1>4 DEF FirstInv, FinalInv
<1>10. NothingForgotten'
  BY <1>1 DEF NothingForgotten, InCanon, Pending, Known
<1>11. RejectionsAreFinal'
  BY <1>1, <1>6 DEF RejectionsAreFinal
<1> QED BY <1>5, <1>7, <1>8, <1>9, <1>10, <1>11

\* The query leaves with a number nobody else has.
LEMMA SendSteps ==
    ASSUME JournalInv, Send
    PROVE  JournalInv'
<1> USE DEF JournalInv, Core
<1>1. UNCHANGED <<canon, head, journal, identity, session, outcome, faults>>
  BY DEF Send
<1>2. PICK query \in (1 .. MaxRequests) \ {request.query : request \in requests} :
          /\ requests' = requests \cup {[query |-> query, id |-> call.id, route |-> call.route]}
          /\ call' = [call EXCEPT !.pc = "wait", !.query = query]
  BY DEF Send
<1>3. /\ call'.pc = "wait" /\ call'.id = call.id /\ call'.query = query
      /\ call'.first = call.first /\ call'.route = call.route /\ call'.live = call.live
  BY <1>2 DEF TypeOK
<1>4. /\ call.pc = "send" /\ call.id \in Proposals /\ call.route \in Routes /\ Pending(call.id)
      /\ \A request \in requests : request.query # query
  BY <1>2 DEF Send, CallInv
<1>5. TypeOK'
  <2>1. query \in 1 .. MaxRequests /\ query \in 0 .. MaxRequests
    BY <1>2, JournalAssumption
  <2>2. call' \in Calls
    BY <1>2, <2>1 DEF TypeOK, Calls, Steps
  <2>3. requests' \subseteq [query : 1 .. MaxRequests, id : Proposals, route : Routes]
    BY <1>2, <1>4, <2>1 DEF TypeOK
  <2> QED BY <1>1, <2>2, <2>3 DEF TypeOK
<1>6. \A q : /\ InCanon(q)' <=> InCanon(q)
             /\ q # call.id => (NoRequest(q)' <=> NoRequest(q))
             /\ Pending(q)' <=> Pending(q)
  BY <1>1, <1>2 DEF InCanon, NoRequest, Pending
<1>7. HistoryInv'
  BY <1>1, <1>4, <1>6 DEF HistoryInv, CallInv
<1>8. RowInv'
  BY <1>1, <1>6 DEF RowInv, InCanon
<1>9. QueryInv'
  BY <1>2, <1>3, <1>4 DEF QueryInv
<1>10. CallInv'
  BY <1>1, <1>3, <1>4, <1>6 DEF CallInv, Pending
<1>11. FirstInv' /\ FinalInv'
  BY <1>1, <1>2, <1>3, <1>4 DEF FirstInv, FinalInv, NoRequest
<1>12. NothingForgotten'
  <2>1. \A request \in requests' : request \in requests \/ request.id = call.id
    BY <1>2
  <2> QED BY <1>1, <1>4, <1>6, <2>1 DEF NothingForgotten, Known
<1>13. RejectionsAreFinal'
  <2>1. outcome[call.id] # "rejected"
    BY <1>4 DEF CallInv
  <2> QED BY <1>1, <1>6, <2>1 DEF RejectionsAreFinal, NoRequest
<1> QED BY <1>5, <1>7, <1>8, <1>9, <1>10, <1>11, <1>12, <1>13

\* The call moves to another step, or ends: the type of what it may become.
LEMMA CallTypes ==
    ASSUME TypeOK
    PROVE  /\ \A pc \in Steps :
                 /\ [call EXCEPT !.pc = pc] \in
                       Calls
                 /\ [call EXCEPT !.pc = pc].pc = pc
                 /\ [call EXCEPT !.pc = pc].id = call.id
                 /\ [call EXCEPT !.pc = pc].query = call.query
                 /\ [call EXCEPT !.pc = pc].first = call.first
                 /\ [call EXCEPT !.pc = pc].route = call.route
           /\ \A told \in {"uncertain", "committed", "rejected"} :
                 [outcome EXCEPT ![call.id] = told] \in
                     [Proposals -> Outcomes]
           /\ Fault => faults' \in 0 .. MaxFaults
<1>1. Fault => faults' \in 0 .. MaxFaults
  <2>1. faults \in 0 .. MaxFaults
    BY DEF TypeOK
  <2> QED BY <2>1, JournalAssumption DEF Fault
<1>2. \A told \in {"uncertain", "committed", "rejected"} :
         [outcome EXCEPT ![call.id] = told] \in
             [Proposals -> Outcomes]
  BY DEF TypeOK, Outcomes
<1>3. call \in Calls
  BY DEF TypeOK
<1>4. \A pc \in Steps : [call EXCEPT !.pc = pc] \in Calls
  BY <1>3 DEF Calls
<1> QED BY <1>1, <1>2, <1>3, <1>4 DEF Calls

\* The other end: a request is decided, or lost, or answered by a relay.
LEMMA SequencerSteps ==
    ASSUME JournalInv, NEW request \in requests,
           SequencerDecides(request) \/ SequencerFails(request)
    PROVE  JournalInv'
<1> USE DEF JournalInv
<1>1. UNCHANGED <<head, journal, identity, session, outcome>> /\ requests' = requests \ {request}
  BY DEF SequencerDecides, SequencerFails
<1>2. PICK answer \in {"committed", "refused", "ambiguous"} :
        /\ \/ UNCHANGED canon
           \/ canon' = Append(canon, request.id) /\ ~InCanon(request.id)
        /\ call' = call \/ Answered(request, answer)
        /\ answer = "committed" => InCanon(request.id) \/ canon' = Append(canon, request.id)
        /\ answer = "refused" => ~InCanon(request.id) /\ UNCHANGED canon
  <2>1. CASE SequencerDecides(request)
    BY <2>1 DEF SequencerDecides
  <2>2. CASE SequencerFails(request)
    BY <2>2 DEF SequencerFails, InCanon
  <2> QED BY <2>1, <2>2
<1>3. request.id \in Proposals
  BY DEF TypeOK
<1>4. /\ canon' \in Seq(Proposals) /\ Len(canon') \in {Len(canon), Len(canon) + 1}
      /\ InCanon(request.id) \/ canon' = Append(canon, request.id) => InCanon(request.id)'
      /\ UNCHANGED canon => (InCanon(request.id)' <=> InCanon(request.id))
  BY <1>2, <1>3, CommitAppends DEF TypeOK, Core, InCanon
<1>5. call' = call \/ call' = [call EXCEPT !.pc = answer]
  BY <1>2 DEF Answered
<1>6. TypeOK'
  <2>1. head \in 0 .. Len(canon')
    BY <1>4, Types
  <2>2. call' \in Calls
    <3>1. answer \in Steps
      BY DEF Steps, Answers
    <3> QED BY <1>5, <3>1, CallTypes DEF TypeOK
  <2>3. faults' \in 0 .. MaxFaults
    BY CallTypes DEF TypeOK, SequencerDecides, SequencerFails
  <2> QED BY <1>1, <1>4, <2>1, <2>2, <2>3 DEF TypeOK
<1>7. Core'
  BY <1>1, <1>2, <1>4, CoreDecided
<1> QED BY <1>6, <1>7

\* A relay answers with a rejection of its own, which is final for nobody.
LEMMA RelaySteps ==
    ASSUME JournalInv, NEW request \in requests, NEW answer \in Answers,
           RelayAnswers(request, answer)
    PROVE  JournalInv'
<1> USE DEF JournalInv, Core
<1>1. UNCHANGED <<canon, head, journal, identity, session, requests, outcome, faults>>
  BY DEF RelayAnswers
<1>2. /\ call' = [call EXCEPT !.pc = answer] /\ answer \in {"refused", "ambiguous", "invalid"}
      /\ call.pc = "wait" /\ call.query = request.query /\ request.route = "relay"
  BY DEF RelayAnswers, Awaited
<1>3. call.route = "relay"
  BY <1>2 DEF QueryInv
<1>4. /\ call'.pc = answer /\ call'.id = call.id /\ call'.query = call.query
      /\ call'.first = call.first /\ call'.route = call.route
  BY <1>2, CallTypes
<1>5. TypeOK'
  <2>1. call' \in Calls
    <3>1. answer \in Steps
      BY DEF Steps
    <3> QED BY <1>2, <3>1, CallTypes
  <2> QED BY <1>1, <2>1 DEF TypeOK
<1>6. HistoryInv' /\ RowInv' /\ NothingForgotten' /\ RejectionsAreFinal'
  BY <1>1 DEF HistoryInv, RowInv, NothingForgotten, RejectionsAreFinal, InCanon, Known, Pending,
              NoRequest
<1>7. QueryInv' /\ FirstInv' /\ FinalInv'
  BY <1>1, <1>2, <1>3, <1>4 DEF QueryInv, FirstInv, FinalInv
<1>8. CallInv'
  BY <1>1, <1>2, <1>4 DEF CallInv, Pending
<1> QED BY <1>5, <1>6, <1>7, <1>8

\* The call returns without an answer it can trust, or finds the receipt.
LEMMA GivesUp ==
    ASSUME JournalInv, QueryFails \/ Invalid \/ (Rejected /\ (journal.receipt \/ ~Definitive))
    PROVE  JournalInv'
<1> USE DEF JournalInv
<1>1. /\ UNCHANGED <<canon, head, journal, identity, requests>> /\ session' \in {session, "none"}
      /\ \/ call' = [call EXCEPT !.pc = "ingest"] /\ UNCHANGED outcome /\ journal.receipt
         \/ Returns("uncertain")
      /\ call.pc \notin {"none", "commit", "rejection"}
      /\ Fault \/ UNCHANGED faults
  <2>1. CASE QueryFails
    BY <2>1 DEF QueryFails
  <2>2. CASE Invalid
    BY <2>2 DEF Invalid
  <2>3. CASE Rejected /\ (journal.receipt \/ ~Definitive)
    BY <2>3 DEF Rejected
  <2> QED BY <2>1, <2>2, <2>3
<1>2. RowKept
  BY <1>1, SameRow
<1>3. faults' \in 0 .. MaxFaults
  BY <1>1, CallTypes DEF TypeOK
<1>4. CASE call' = [call EXCEPT !.pc = "ingest"] /\ UNCHANGED outcome /\ journal.receipt
  <2>1. call' \in Calls
    BY <1>4, CallTypes DEF Steps
  <2>3. TypeOK'
    BY <1>1, <1>3, <1>4, <2>1 DEF TypeOK
  <2>2. Core'
    BY <1>1, <1>2, <1>4, CoreGoesOn
  <2> QED BY <2>2, <2>3
<1>5. CASE Returns("uncertain")
  <2>1. call' \in Calls /\ outcome' \in [Proposals -> Outcomes]
    BY <1>5, CallTypes, NoneIsCall DEF Returns
  <2>3. TypeOK'
    BY <1>1, <1>3, <2>1 DEF TypeOK
  <2>2. Core'
    BY <1>1, <1>2, <1>5, CoreUncertain
  <2> QED BY <2>2, <2>3
<1> QED BY <1>1, <1>4, <1>5

\* The sequencer itself has refused the only copy of the proposal.
LEMMA RejectionSteps ==
    ASSUME JournalInv, Rejected, ~journal.receipt, Definitive
    PROVE  JournalInv'
<1> USE DEF JournalInv, Core
<1>1. /\ UNCHANGED <<canon, head, identity, session, requests, outcome, faults>>
      /\ journal' = NoRow /\ call' = [call EXCEPT !.pc = "rejection"]
  BY DEF Rejected
<1>2. /\ call'.pc = "rejection" /\ call'.id = call.id /\ call'.query = call.query
      /\ call'.first = call.first /\ call'.route = call.route /\ call' \in Calls
  BY <1>1, CallTypes DEF Steps
<1>3. journal'.row = FALSE
  BY <1>1 DEF NoRow
<1>4. /\ call.pc = "refused" /\ call.first /\ outcome[call.id] = "unknown"
      /\ ~InCanon(call.id) /\ NoRequest(call.id) /\ Pending(call.id)
  BY DEF Definitive, FinalInv, FirstInv, CallInv
<1>5. TypeOK'
  BY <1>1, <1>2 DEF TypeOK
<1>6. \A q : /\ InCanon(q)' <=> InCanon(q)
             /\ NoRequest(q)' <=> NoRequest(q)
             /\ Known(q)' <=> Known(q)
             /\ ~Pending(q)'
             /\ Pending(q) <=> q = call.id
  BY <1>1, <1>3, <1>4 DEF InCanon, NoRequest, Known, Pending
<1>7. HistoryInv' /\ RowInv' /\ QueryInv' /\ RejectionsAreFinal'
  BY <1>1, <1>2, <1>3, <1>6 DEF HistoryInv, RowInv, QueryInv, RejectionsAreFinal
<1>8. CallInv' /\ FirstInv'
  BY <1>1, <1>2, <1>3, <1>4 DEF CallInv, FirstInv
<1>9. FinalInv'
  BY <1>1, <1>2, <1>4 DEF FinalInv, InCanon, NoRequest
<1>10. NothingForgotten'
  <2>1. \A request \in requests : request.id # call.id
    BY <1>4 DEF NoRequest
  <2> QED BY <1>1, <1>3, <1>4, <1>6, <2>1 DEF NothingForgotten
<1> QED BY <1>5, <1>7, <1>8, <1>9, <1>10

\* The commit is stored, and the call learns that it is or does not.
LEMMA IngestSteps ==
    ASSUME JournalInv, Ingested \/ NotIngested
    PROVE  JournalInv'
<1> USE DEF JournalInv
<1>1. /\ UNCHANGED <<canon, identity, requests>> /\ call.pc \in {"committed", "ingest"}
      /\ Stores(call.id) \/ UNCHANGED <<head, journal>>
      /\ session' \in {session, "none"}
      /\ Fault \/ UNCHANGED faults
      /\ \/ call' = [call EXCEPT !.pc = "clear"] /\ UNCHANGED outcome
         \/ Returns("uncertain")
  BY DEF Ingested, NotIngested
<1>2. call.id \in Proposals /\ InCanon(call.id)
  BY <1>1 DEF Core, CallInv, RowInv, Pending
<1>3. head' \in 0 .. Len(canon) /\ RowKept
  <2>1. CASE Stores(call.id)
    BY <1>1, <1>2, <2>1, StoresKeepsRow
  <2>2. CASE UNCHANGED <<head, journal>>
    BY <1>1, <2>2, SameRow, Types
  <2> QED BY <1>1, <2>1, <2>2
<1>4. faults' \in 0 .. MaxFaults
  BY <1>1, CallTypes DEF TypeOK
<1>7. /\ journal' \in {NoRow} \cup [row : {TRUE}, id : Proposals, author : {identity'},
                                  receipt : BOOLEAN]
      /\ session' \in Routes \cup {"none"} /\ identity' \in 0 .. MaxResets
  <2>1. identity' = identity /\ identity \in 0 .. MaxResets /\ session \in Routes \cup {"none"}
    BY <1>1 DEF TypeOK
  <2>2. journal' \in {NoRow} \cup [row : {TRUE}, id : Proposals, author : {identity},
                                   receipt : BOOLEAN]
    BY <1>3 DEF RowKept
  <2>3. session' \in Routes \cup {"none"}
    BY <1>1, <2>1
  <2> QED BY <2>1, <2>2, <2>3
<1>5. CASE call' = [call EXCEPT !.pc = "clear"] /\ UNCHANGED outcome
  <2>1. call' \in Calls
    BY <1>5, CallTypes DEF Steps
  <2>2. TypeOK'
    BY <1>1, <1>3, <1>4, <1>5, <1>7, <2>1 DEF TypeOK
  <2>3. Core'
    BY <1>1, <1>2, <1>3, <1>5, CoreGoesOn
  <2> QED BY <2>2, <2>3
<1>6. CASE Returns("uncertain")
  <2>1. call' \in Calls /\ outcome' \in [Proposals -> Outcomes]
    BY <1>6, CallTypes, NoneIsCall DEF Returns
  <2>2. TypeOK'
    BY <1>1, <1>3, <1>4, <1>7, <2>1 DEF TypeOK
  <2>3. Core'
    BY <1>1, <1>3, <1>6, CoreUncertain
  <2> QED BY <2>2, <2>3
<1> QED BY <1>1, <1>5, <1>6

\* The row is cleared only when the event is in the history.
LEMMA AcknowledgeSteps ==
    ASSUME JournalInv, Acknowledge
    PROVE  JournalInv'
<1> USE DEF JournalInv, Core
<1>1. /\ UNCHANGED <<canon, head, identity, session, requests, outcome, faults>>
      /\ journal' = NoRow /\ call' = [call EXCEPT !.pc = "commit"] /\ call.pc = "clear"
  BY DEF Acknowledge
<1>2. /\ call'.pc = "commit" /\ call'.id = call.id /\ call'.query = call.query
      /\ call'.first = call.first /\ call'.route = call.route /\ call' \in Calls
  BY <1>1, CallTypes DEF Steps
<1>3. journal'.row = FALSE
  BY <1>1 DEF NoRow
<1>4. InCanon(call.id) /\ Pending(call.id)
  BY <1>1 DEF CallInv
<1>5. TypeOK'
  BY <1>1, <1>2 DEF TypeOK
<1>6. \A q : /\ InCanon(q)' <=> InCanon(q)
             /\ NoRequest(q)' <=> NoRequest(q)
             /\ ~Pending(q)'
             /\ Pending(q) <=> q = call.id
  BY <1>1, <1>3, <1>4 DEF InCanon, NoRequest, Pending
<1>7. HistoryInv' /\ RowInv' /\ QueryInv' /\ RejectionsAreFinal'
  BY <1>1, <1>2, <1>3, <1>6 DEF HistoryInv, RowInv, QueryInv, RejectionsAreFinal
<1>8. CallInv' /\ FirstInv' /\ FinalInv'
  BY <1>1, <1>2, <1>3, <1>6, <1>4 DEF CallInv, FirstInv, FinalInv, InCanon
<1>9. NothingForgotten'
  BY <1>1, <1>3, <1>4, <1>6 DEF NothingForgotten
<1> QED BY <1>5, <1>7, <1>8, <1>9

\* The user is told what is settled.
LEMMA ReturnSteps ==
    ASSUME JournalInv, ReturnSettled
    PROVE  JournalInv'
<1> USE DEF JournalInv, Core
<1>1. PICK told \in {"committed", "rejected"} :
        /\ Returns(told)
        /\ told = "committed" => call.pc = "commit"
        /\ told = "rejected" => call.pc = "rejection"
        /\ call.pc \in {"commit", "rejection"}
  BY DEF ReturnSettled
<1>2. UNCHANGED <<canon, head, journal, identity, session, requests, faults>>
  BY DEF ReturnSettled
<1>3. /\ call' = None /\ call'.pc = "none"
      /\ call' \in Calls /\ outcome' \in [Proposals -> Outcomes]
  BY <1>1, CallTypes, NoneIsCall DEF Returns
<1>4. \A q \in Proposals : outcome'[q] = IF q = call.id THEN told ELSE outcome[q]
  BY <1>1 DEF Returns, TypeOK
<1>5. /\ call.id \in Proposals /\ ~journal.row /\ outcome[call.id] \in {"unknown", "uncertain"}
      /\ told = "rejected" => ~InCanon(call.id) /\ NoRequest(call.id)
  BY <1>1 DEF CallInv, FinalInv
<1>6. TypeOK'
  BY <1>2, <1>3 DEF TypeOK
<1>7. \A q : /\ InCanon(q)' <=> InCanon(q)
             /\ NoRequest(q)' <=> NoRequest(q)
             /\ ~Pending(q)' /\ ~Pending(q)
  BY <1>2, <1>5 DEF InCanon, NoRequest, Pending
<1>8. HistoryInv' /\ QueryInv'
  BY <1>2, <1>3, <1>4, <1>5, <1>7 DEF HistoryInv, QueryInv
<1>9. RowInv' /\ CallInv' /\ FirstInv' /\ FinalInv'
  BY <1>2, <1>3, <1>5 DEF RowInv, CallInv, FirstInv, FinalInv
<1>10. NothingForgotten'
  <2>1. \A request \in requests : request.id \in Proposals
    BY DEF TypeOK
  <2>2. \A request \in requests : request.id = call.id => InCanon(call.id)
    BY <1>5, <1>7 DEF NothingForgotten
  <2> QED BY <1>2, <1>4, <1>5, <1>7, <2>1, <2>2 DEF NothingForgotten
<1>11. RejectionsAreFinal'
  BY <1>2, <1>4, <1>5, <1>7 DEF RejectionsAreFinal, NoRequest
<1> QED BY <1>6, <1>8, <1>9, <1>10, <1>11

\* The user gives the pending proposal up.
LEMMA DiscardSteps ==
    ASSUME JournalInv, Discard
    PROVE  JournalInv'
<1> USE DEF JournalInv, Core
<1>1. /\ UNCHANGED <<canon, head, identity, session, call, requests, faults>>
      /\ call.pc = "none" /\ journal.row /\ journal' = NoRow /\ journal.id \in Proposals
  BY Types DEF Discard
<1>2. journal'.row = FALSE
  BY <1>1 DEF NoRow
<1>3. \A q \in Proposals : outcome'[q] = IF q = journal.id THEN "discarded" ELSE outcome[q]
  BY DEF Discard, TypeOK
<1>4. outcome' \in [Proposals -> Outcomes]
  BY DEF Discard, TypeOK, Outcomes
<1>5. outcome[journal.id] \in {"unknown", "uncertain"}
  BY <1>1 DEF RowInv
<1>6. TypeOK'
  BY <1>1, <1>4 DEF TypeOK
<1>7. \A q : /\ InCanon(q)' <=> InCanon(q)
             /\ NoRequest(q)' <=> NoRequest(q)
             /\ Pending(q) <=> q = journal.id
  BY <1>1 DEF InCanon, NoRequest, Pending
<1>8. HistoryInv' /\ QueryInv'
  BY <1>1, <1>3, <1>5, <1>7 DEF HistoryInv, QueryInv
<1>9. RowInv' /\ CallInv' /\ FirstInv' /\ FinalInv'
  BY <1>1, <1>2 DEF RowInv, CallInv, FirstInv, FinalInv
<1>10. NothingForgotten'
  <2>1. \A request \in requests : request.id \in Proposals
    BY DEF TypeOK
  <2> QED BY <1>1, <1>2, <1>3, <1>7, <2>1 DEF NothingForgotten
<1>11. RejectionsAreFinal'
  BY <1>1, <1>3, <1>7 DEF RejectionsAreFinal
<1> QED BY <1>6, <1>8, <1>9, <1>10, <1>11

\* The client is killed: what is durable is left.
LEMMA CrashSteps ==
    ASSUME JournalInv, Crash
    PROVE  JournalInv'
<1>1. /\ UNCHANGED <<canon, head, journal, identity, requests, outcome>>
      /\ session' = "none" /\ call' = None /\ Fault
  BY DEF Crash
<1>2. TypeOK'
  BY <1>1, NoneIsCall, CallTypes DEF JournalInv, TypeOK
<1>3. Core'
  BY <1>1, SameRow, CoreUntouched DEF SameCall
<1> QED BY <1>2, <1>3 DEF JournalInv

-----------------------------------------------------------------------------
\* Every step keeps the invariant.
LEMMA JournalSteps == JournalInv /\ [Next]_vars => JournalInv'
<1> SUFFICES ASSUME JournalInv, [Next]_vars PROVE JournalInv'
  OBVIOUS
<1>1. CASE \E route \in Routes : Connect(route)
  BY <1>1, CopyGrows
<1>2. CASE Disconnect \/ ResetIdentity \/ Leave
  BY <1>2, SessionEnds
<1>3. CASE ReceiveBroadcast
  BY <1>3, CopyGrows
<1>4. CASE \E p \in Proposals : Submit(p)
  BY <1>4, SubmitSteps
<1>5. CASE Retry
  BY <1>5, RetrySteps
<1>6. CASE CallStep
  <2>1. CASE Send
    BY <2>1, SendSteps
  <2>2. CASE QueryFails \/ Invalid
    BY <2>2, GivesUp
  <2>3. CASE Rejected
    BY <2>3, GivesUp, RejectionSteps
  <2>4. CASE Ingested \/ NotIngested
    BY <2>4, IngestSteps
  <2>5. CASE Acknowledge
    BY <2>5, AcknowledgeSteps
  <2>6. CASE ReturnSettled
    BY <2>6, ReturnSteps
  <2> QED BY <1>6, <2>1, <2>2, <2>3, <2>4, <2>5, <2>6 DEF CallStep
<1>7. CASE \E request \in requests : SequencerDecides(request) \/ SequencerFails(request)
  BY <1>7, SequencerSteps
<1>8. CASE \E request \in requests, answer \in Answers : RelayAnswers(request, answer)
  BY <1>8, RelaySteps
<1>9. CASE Discard
  BY <1>9, DiscardSteps
<1>10. CASE Crash
  BY <1>10, CrashSteps
<1>11. CASE UNCHANGED vars
  <2>1. UNCHANGED <<canon, head, journal, identity, session, call, requests, outcome, faults>>
    BY <1>11 DEF vars
  <2>2. TypeOK'
    BY <2>1 DEF JournalInv, TypeOK
  <2>3. Core'
    BY <2>1, SameRow, CoreUntouched DEF SameCall
  <2> QED BY <2>2, <2>3 DEF JournalInv
<1> QED BY <1>1, <1>2, <1>3, <1>4, <1>5, <1>6, <1>7, <1>8, <1>9, <1>10, <1>11 DEF Next

\* What the inductive invariant says holds in every reachable state: of each copy of
\* a proposal that is under way, of the call and of the row.
THEOREM JournalCorrect == Spec => []JournalInv
BY InitInv, JournalSteps, PTL DEF Spec

\* The state of the journal, the call and the queries has its type; a pending row is
\* one of the current identity, so that the user can retry it.
THEOREM JournalTypeOK == Spec => []TypeOK
<1>1. JournalInv => TypeOK
  BY DEF JournalInv
<1> QED BY <1>1, JournalCorrect, PTL

\* A proposal that may still be committed is in the journal, or the user has
\* discarded it, whatever was lost and whenever the client was killed.
THEOREM NothingIsForgotten == Spec => []NothingForgotten
<1>1. JournalInv => NothingForgotten
  BY DEF JournalInv, Core
<1> QED BY <1>1, JournalCorrect, PTL

\* A proposal that the user was told is rejected is not in the history, and no copy
\* of it is under way that could get it there.
THEOREM RejectedIsNeverCommitted == Spec => []RejectionsAreFinal
<1>1. JournalInv => RejectionsAreFinal
  BY DEF JournalInv, Core
<1> QED BY <1>1, JournalCorrect, PTL

-----------------------------------------------------------------------------
\* The refinement.  The invariant says what the history has when a call is about to
\* acknowledge a commit; that the client's own copy has it is one fact more.
HeldInv == call.pc \in {"clear", "commit"} => Known(call.id)

\* A copy that is not shortened keeps what it has.
LEMMA HeldKept ==
    ASSUME TypeOK, UNCHANGED canon, head' \in Nat, head' >= head, NEW p, Known(p)
    PROVE  Known(p)'
<1>1. PICK i \in 1 .. head : canon[i] = p
  BY DEF Known
<1>2. i \in 1 .. head'
  BY Types
<1> QED BY <1>1, <1>2 DEF Known

\* What an ingestion does to the copy and the row.
LEMMA AppendsMaps ==
    ASSUME TypeOK, UNCHANGED canon, NEW from \in Nat, NEW to \in 0 .. Len(canon), Appends(from, to)
    PROVE  head' \in head .. Len(canon) /\ to <= head' /\ Unsettled' = Unsettled
<1>1. head' \in head .. Len(canon) /\ to <= head'
  BY Types DEF Appends
<1>2. journal'.row = journal.row /\ (journal.row => journal'.id = journal.id)
  <2>1. CASE journal' = journal
    BY <2>1
  <2>2. CASE journal.row /\ journal' = [journal EXCEPT !.receipt = TRUE]
    <3>1. NoRow.row = FALSE
      BY DEF NoRow
    <3>2. journal \in [row : {TRUE}, id : Proposals, author : {identity}, receipt : BOOLEAN]
      BY <2>2, <3>1 DEF TypeOK
    <3> QED BY <2>2, <3>2
  <2> QED BY <2>1, <2>2 DEF Appends
<1> QED BY <1>1, <1>2 DEF Unsettled

\* When the ingestion of a commit has returned, the copy has its event.
LEMMA StoresMaps ==
    ASSUME TypeOK, UNCHANGED canon, NEW p \in Proposals, InCanon(p), Stores(p)
    PROVE  head' \in head .. Len(canon) /\ Known(p)' /\ Unsettled' = Unsettled
<1>1. Position(p) \in 1 .. Len(canon) /\ canon[Position(p)] = p
  BY Types DEF Position, InCanon
<1>2. CASE Known(p)
  <2>1. Appends(Position(p), Position(p)) /\ Position(p) \in Nat /\ Position(p) \in 0 .. Len(canon)
    BY <1>1, <1>2, Types DEF Stores
  <2>2. head' \in head .. Len(canon) /\ Unsettled' = Unsettled
    BY <2>1, AppendsMaps
  <2>3. head' \in Nat /\ head' >= head
    BY <2>2, Types
  <2> QED BY <1>2, <2>2, <2>3, HeldKept
<1>3. CASE ~Known(p)
  <2>1. PICK upto \in Position(p) .. Len(canon) : Appends(head + 1, upto)
    BY <1>3 DEF Stores
  <2>2. upto \in 0 .. Len(canon) /\ head + 1 \in Nat
    BY <1>1, Types
  <2>3. head' \in head .. Len(canon) /\ upto <= head' /\ Unsettled' = Unsettled
    BY <2>1, <2>2, AppendsMaps
  <2>4. Position(p) \in 1 .. head'
    BY <1>1, <2>2, <2>3, Types
  <2> QED BY <1>1, <2>3, <2>4 DEF Known
<1> QED BY <1>2, <1>3

\* Only the ingestion takes a call towards an acknowledgement, and no copy is erased
\* while there is a call.
LEMMA HeldSteps == JournalInv /\ HeldInv /\ [Next]_vars => HeldInv'
<1> SUFFICES ASSUME JournalInv, HeldInv, [Next]_vars PROVE HeldInv'
  OBVIOUS
<1> USE DEF JournalInv
<1>1. ASSUME call'.pc \notin {"clear", "commit"} PROVE HeldInv'
  BY <1>1 DEF HeldInv
<1>2. ASSUME UNCHANGED canon, head' \in Nat, head' >= head, call'.id = call.id,
             call'.pc \in {"clear", "commit"} => call.pc \in {"clear", "commit"}
      PROVE  HeldInv'
  BY <1>2, HeldKept DEF HeldInv, Known
<1>3. head \in Nat /\ None.pc = "none"
  BY Types DEF None
<1>4. CASE (\E route \in Routes : Connect(route)) \/ ReceiveBroadcast
  <2>1. UNCHANGED <<canon, call>>
    BY <1>4 DEF Connect, ReceiveBroadcast
  <2>2. head' \in Nat /\ head' >= head
    <3>1. head' = head \/ (\E upto \in 0 .. Len(canon) : upto > head /\ head' = upto)
      <4>1. \A route \in Routes : Delivered(route) \subseteq 0 .. Len(canon)
        BY Types, JournalAssumption DEF Delivered
      <4>2. \A upto \in head + 1 .. Len(canon) : upto \in 0 .. Len(canon)
        BY Types
      <4> QED BY <1>4, <4>1, <4>2 DEF Connect, ReceiveBroadcast, Appends
    <3> QED BY <1>3, <3>1, Types
  <2> QED BY <1>2, <2>1, <2>2
<1>5. CASE Disconnect
  <2>1. UNCHANGED <<canon, head>>
    BY <1>5 DEF Disconnect
  <2>2. call' = None \/ (call'.pc = call.pc /\ call'.id = call.id)
    <3>1. call \in Calls
      BY DEF TypeOK
    <3> QED BY <1>5, <3>1 DEF Disconnect, Detached, Calls
  <2> QED BY <1>1, <1>2, <1>3, <2>1, <2>2
<1>6. CASE (\E p \in Proposals : Submit(p)) \/ Retry \/ Send
  <2>1. call'.pc \in {"send", "ingest", "wait"}
    <3>1. CASE Send
      <4>1. PICK query \in 1 .. MaxRequests : call' = [call EXCEPT !.pc = "wait", !.query = query]
        BY <3>1 DEF Send
      <4> QED BY <4>1 DEF TypeOK, Calls
    <3> QED BY <1>6, <3>1 DEF Submit, Retry
  <2> QED BY <1>1, <2>1
<1>7. CASE QueryFails \/ Rejected \/ Invalid \/ NotIngested \/ ReturnSettled \/ Crash
  <2>1. call'.pc \in {"none", "ingest", "rejection"}
    <3>1. \/ call' = None \/ call' = [call EXCEPT !.pc = "ingest"]
          \/ call' = [call EXCEPT !.pc = "rejection"]
      BY <1>7 DEF QueryFails, Rejected, Invalid, NotIngested, ReturnSettled, Crash, Returns
    <3>2. {"ingest", "rejection"} \subseteq Steps
      BY DEF Steps
    <3> QED BY <1>3, <3>1, <3>2, CallTypes
  <2> QED BY <1>1, <2>1
<1>8. CASE Ingested
  <2>1. UNCHANGED canon /\ Stores(call.id) /\ call' = [call EXCEPT !.pc = "clear"]
    BY <1>8 DEF Ingested
  <2>2. call.id \in Proposals /\ InCanon(call.id)
    BY <1>8 DEF Ingested, Core, CallInv, RowInv, Pending
  <2>3. Known(call.id)'
    <3> PICK p \in Proposals : p = call.id
      BY <2>2
    <3>1. Known(p)'
      BY <2>1, <2>2, StoresMaps
    <3>2. call'.id = p
      BY <2>1, CallTypes DEF Steps
    <3> QED BY <3>1, <3>2 DEF Known
  <2> QED BY <2>3 DEF HeldInv
<1>9. CASE Acknowledge
  <2>1. UNCHANGED <<canon, head>> /\ call.pc = "clear" /\ call'.id = call.id
    BY <1>9, CallTypes DEF Acknowledge, Steps
  <2> QED BY <1>2, <1>3, <2>1
<1>10. CASE \E request \in requests : SequencerDecides(request) \/ SequencerFails(request)
  <2>1. PICK request \in requests : SequencerDecides(request) \/ SequencerFails(request)
    BY <1>10
  <2>2. /\ head' = head /\ request.id \in Proposals
        /\ UNCHANGED canon \/ (canon' = Append(canon, request.id) /\ ~InCanon(request.id))
        /\ \/ call' = call
           \/ \E answer \in Answers : call' = [call EXCEPT !.pc = answer]
    BY <2>1 DEF SequencerDecides, SequencerFails, Answered, Answers, InCanon, TypeOK
  <2>3. \A p : Known(p)' <=> Known(p)
    BY <2>2, CommitAppends DEF Core, Known
  <2>4. CASE call' = call
    BY <2>3, <2>4 DEF HeldInv
  <2>5. CASE \E answer \in Answers : call' = [call EXCEPT !.pc = answer]
    BY <1>1, <2>5, CallTypes DEF Steps, Answers
  <2> QED BY <2>2, <2>4, <2>5
<1>11. CASE \E request \in requests, answer \in Answers : RelayAnswers(request, answer)
  BY <1>1, <1>11, CallTypes DEF RelayAnswers, Steps, Answers
<1>12. CASE Discard
  BY <1>2, <1>3, <1>12 DEF Discard
<1>13. CASE ResetIdentity \/ Leave
  BY <1>1, <1>13 DEF ResetIdentity, Leave
<1>14. CASE UNCHANGED vars
  BY <1>2, <1>3, <1>14 DEF vars
<1> QED BY <1>4, <1>5, <1>6, <1>7, <1>8, <1>9, <1>10, <1>11, <1>12, <1>13, <1>14
        DEF Next, CallStep

\* The two modules mean the same by a commit, and by what is held.
LEMMA SameWords ==
    ASSUME NEW p
    PROVE  (Ledger!Committed(p) <=> InCanon(p)) /\ (Ledger!Held(p) <=> Known(p))
BY DEF Ledger!Committed, Ledger!Held, InCanon, Known

\* A call that gives up tells the user so, whatever the copy has gained meanwhile.
LEMMA UncertainMaps ==
    ASSUME JournalInv, UNCHANGED canon, head' \in head .. Len(canon), Unsettled' = Unsettled,
           call.pc \notin {"none", "commit", "rejection"},
           UNCHANGED outcome \/ Returns("uncertain")
    PROVE  Ledger!LedgerNext
<1>1. Ledger!Fetches
  BY DEF Ledger!Fetches
<1>2. UNCHANGED outcome \/ Ledger!TellsUncertain(call.id)
  <2>1. call.id \in Unsettled /\ outcome[call.id] \in {"unknown", "uncertain"}
    BY DEF JournalInv, Core, CallInv, Pending, Unsettled
  <2> QED BY <2>1 DEF Returns, Ledger!TellsUncertain, Ledger!Open
<1>3. call.id \in Proposals
  BY DEF JournalInv, Core, CallInv
<1> QED BY <1>1, <1>2, <1>3 DEF Ledger!LedgerNext

\* Every step of the journal is one of the ledger, or changes nothing that it shows.
LEMMA JournalMaps ==
    ASSUME JournalInv, HeldInv, [Next]_vars
    PROVE  [Ledger!LedgerNext]_(Ledger!ledgerVars)
<1> USE DEF JournalInv, Core
<1>1. head \in 0 .. Len(canon) /\ Len(canon) \in Nat /\ head \in head .. Len(canon)
      /\ (journal.row => journal.id \in Proposals)
  BY Types
<1>2. ASSUME UNCHANGED <<canon, head, journal, outcome>> PROVE UNCHANGED Ledger!ledgerVars
  BY <1>2 DEF Ledger!ledgerVars, Unsettled
<1>3. ASSUME UNCHANGED <<canon, outcome>>, NEW from \in Nat, NEW to \in 0 .. Len(canon), Appends(from, to)
      PROVE  Ledger!LedgerNext
  BY <1>3, AppendsMaps DEF Ledger!LedgerNext, Ledger!Fetches
<1>4. CASE (\E route \in Routes : Connect(route)) \/ ReceiveBroadcast
  <2>1. \A route \in Routes : Delivered(route) \subseteq 0 .. Len(canon)
    BY Types, JournalAssumption DEF Delivered
  <2>2. \A upto \in head + 1 .. Len(canon) : upto \in 0 .. Len(canon)
    BY <1>1
  <2>3. \E to \in 0 .. Len(canon) : Appends(head + 1, to)
    BY <1>4, <2>1, <2>2 DEF Connect, ReceiveBroadcast
  <2> QED BY <1>1, <1>3, <1>4, <2>3 DEF Connect, ReceiveBroadcast
<1>5. ASSUME NEW p \in Proposals, Submit(p) PROVE Ledger!LedgerNext
  <2>1. /\ ~journal.row /\ journal' = Row(p) /\ outcome[p] = "none"
        /\ outcome' = [outcome EXCEPT ![p] = "unknown"] /\ UNCHANGED <<canon, head>>
    BY <1>5 DEF Submit
  <2>2. Unsettled = {} /\ Unsettled' = {p}
    BY <2>1 DEF Unsettled, Row
  <2> QED BY <2>1, <2>2 DEF Ledger!LedgerNext, Ledger!Submits
<1>6. CASE QueryFails \/ Invalid \/ (Rejected /\ (journal.receipt \/ ~Definitive))
  <2>1. /\ UNCHANGED <<canon, head, journal>>
        /\ UNCHANGED outcome \/ Returns("uncertain")
        /\ call.pc \notin {"none", "commit", "rejection"}
    BY <1>6 DEF QueryFails, Invalid, Rejected
  <2>2. head' \in head .. Len(canon) /\ Unsettled' = Unsettled
    BY <1>1, <2>1 DEF Unsettled
  <2>3. Ledger!LedgerNext
    BY <2>1, <2>2, UncertainMaps
  <2> QED BY <2>3
<1>7. CASE Ingested \/ NotIngested
  <2>1. /\ UNCHANGED canon
        /\ Stores(call.id) \/ UNCHANGED <<head, journal>>
        /\ UNCHANGED outcome \/ Returns("uncertain")
        /\ call.pc \in {"committed", "ingest"}
    BY <1>7 DEF Ingested, NotIngested
  <2>2. call.id \in Proposals /\ InCanon(call.id)
    BY <2>1 DEF CallInv, RowInv, Pending
  <2>3. head' \in head .. Len(canon) /\ Unsettled' = Unsettled
    BY <1>1, <2>1, <2>2, StoresMaps DEF Unsettled
  <2>4. call.pc \notin {"none", "commit", "rejection"}
    BY <2>1
  <2>5. Ledger!LedgerNext
    BY <2>1, <2>3, <2>4, UncertainMaps
  <2> QED BY <2>5
<1>8. CASE (Rejected /\ ~journal.receipt /\ Definitive) \/ Acknowledge
  <2>1. UNCHANGED <<canon, head, outcome>> /\ journal' = NoRow
    BY <1>8 DEF Rejected, Acknowledge
  <2>2. /\ call.id \in Proposals /\ Pending(call.id)
        /\ Known(call.id) \/ ~InCanon(call.id)
    BY <1>8 DEF Definitive, Acknowledge, HeldInv, FinalInv, CallInv
  <2>3. Unsettled = {call.id} /\ Unsettled' = {}
    BY <2>1, <2>2 DEF Unsettled, Pending, NoRow
  <2>4. Ledger!Settles(call.id)
    BY <2>1, <2>2, <2>3, SameWords DEF Ledger!Settles
  <2> QED BY <2>2, <2>4 DEF Ledger!LedgerNext
<1>9. CASE ReturnSettled
  <2>1. /\ UNCHANGED <<canon, head, journal>>
        /\ \/ call.pc = "commit" /\ outcome' = [outcome EXCEPT ![call.id] = "committed"]
           \/ call.pc = "rejection" /\ outcome' = [outcome EXCEPT ![call.id] = "rejected"]
    BY <1>9 DEF ReturnSettled, Returns
  <2>2. /\ call.id \in Proposals /\ call.id \notin Unsettled
        /\ outcome[call.id] \in {"unknown", "uncertain"}
        /\ call.pc = "commit" => Known(call.id)
        /\ call.pc = "rejection" => ~InCanon(call.id)
    BY <2>1 DEF CallInv, HeldInv, FinalInv, Unsettled
  <2>3. Ledger!TellsSettled(call.id)
    BY <2>1, <2>2, SameWords DEF Ledger!TellsSettled, Ledger!Open, Unsettled
  <2> QED BY <2>2, <2>3 DEF Ledger!LedgerNext
<1>10. CASE Discard
  <2>1. /\ UNCHANGED <<canon, head>> /\ journal.row /\ journal' = NoRow
        /\ outcome' = [outcome EXCEPT ![journal.id] = "discarded"]
    BY <1>10 DEF Discard
  <2>2. Unsettled = {journal.id} /\ Unsettled' = {}
    BY <2>1 DEF Unsettled, NoRow
  <2>3. outcome[journal.id] \in {"unknown", "uncertain"} /\ journal.id \in Proposals
    BY <1>1, <2>1 DEF RowInv
  <2>4. Ledger!Discards(journal.id)
    BY <2>1, <2>2, <2>3 DEF Ledger!Discards, Ledger!Open
  <2> QED BY <2>3, <2>4 DEF Ledger!LedgerNext
<1>11. ASSUME NEW request \in requests, SequencerDecides(request) \/ SequencerFails(request)
       PROVE  [Ledger!LedgerNext]_(Ledger!ledgerVars)
  <2>1. /\ UNCHANGED <<head, journal, outcome>> /\ request.id \in Proposals
        /\ UNCHANGED canon \/ (canon' = Append(canon, request.id) /\ ~InCanon(request.id))
    BY <1>11 DEF SequencerDecides, SequencerFails, InCanon, TypeOK
  <2>2. CASE UNCHANGED canon
    BY <1>2, <2>1, <2>2
  <2>3. CASE canon' = Append(canon, request.id) /\ ~InCanon(request.id)
    <3>1. request.id \in Unsettled \/ outcome[request.id] = "discarded"
      BY <2>3 DEF NothingForgotten, Pending, Unsettled
    <3>2. Ledger!Commits(request.id)
      BY <2>1, <2>3, <3>1, SameWords DEF Ledger!Commits, Unsettled
    <3> QED BY <2>1, <3>2 DEF Ledger!LedgerNext
  <2> QED BY <2>1, <2>2, <2>3
<1>12. CASE Leave
  <2>1. ~journal.row /\ head' = 0 /\ UNCHANGED <<canon, journal, outcome>>
    BY <1>12 DEF Leave
  <2> QED BY <2>1 DEF Ledger!LedgerNext, Ledger!Leaves, Unsettled
<1>13. CASE \/ Disconnect \/ ResetIdentity \/ Retry \/ Send \/ Crash \/ UNCHANGED vars
            \/ \E request \in requests, answer \in Answers : RelayAnswers(request, answer)
  BY <1>2, <1>13 DEF Disconnect, ResetIdentity, Retry, Send, Crash, RelayAnswers, vars
<1> QED BY <1>4, <1>5, <1>6, <1>7, <1>8, <1>9, <1>10, <1>11, <1>12, <1>13 DEF Next, CallStep

\* The user can rely on what the client tells him of an event, whatever was lost and
\* however often it was tried: a proposal is committed at most once, and only while it
\* is pending or was discarded; "committed" means that his copy has it, "rejected"
\* that it never will be in the history, and neither is taken back.
THEOREM JournalImplementsLedger == Spec => ImplementsSubmissionLedger
<1>1. Init => Ledger!LedgerInit
  BY DEF Init, Ledger!LedgerInit, Unsettled, NoRow
<1>2. Init => HeldInv
  BY DEF Init, HeldInv, None
<1>3. Spec => []HeldInv
  BY <1>2, HeldSteps, JournalCorrect, PTL DEF Spec
<1>4. JournalInv /\ HeldInv /\ [Next]_vars => [Ledger!LedgerNext]_(Ledger!ledgerVars)
  BY JournalMaps
<1> QED BY <1>1, <1>3, <1>4, JournalCorrect, PTL
        DEF Spec, ImplementsSubmissionLedger, Ledger!LedgerSpec
=============================================================================
