--------------------------- MODULE ReplicationProofs ---------------------------
(***************************************************************************)
(* Theorems about the relays, for every set of relays, every size of a     *)
(* page, and every bound on the history and on failures.                   *)
(***************************************************************************)
EXTENDS Replication, SequenceTheorems, WellFoundedInduction, TLAPS

-----------------------------------------------------------------------------
\* The latest change.

\* c is the latest state-changing event of the first n of a history, or 0.
LatestIn(history, n, c) ==
    /\ c \in 0 .. n
    /\ c > 0 => history[c] # "message"
    /\ \A k \in c + 1 .. n : history[k] = "message"

\* A set of natural numbers with a bound has a greatest element.
LEMMA GreatestExists ==
    ASSUME NEW n \in Nat, NEW S \in SUBSET (0 .. n), S # {}
    PROVE  \E c \in S : \A d \in S : d <= c
<1> DEFINE R == {pair \in Nat \X Nat : pair[1] < pair[2]}
           T == {n - c : c \in S}
<1>1. IsWellFoundedOn(R, Nat)
  <2>1. R = OpToRel(<, Nat)
    BY DEF OpToRel
  <2> QED BY <2>1, NatLessThanWellFounded
<1>2. \A u, t \in Nat : u < t => <<u, t>> \in R
  OBVIOUS
<1> HIDE DEF R
<1>3. T \subseteq Nat /\ T # {}
  <2>1. \A c \in 0 .. n : n - c \in Nat
    OBVIOUS
  <2>2. \A c \in S : c \in 0 .. n
    OBVIOUS
  <2> QED BY <2>1, <2>2
<1>4. PICK t \in T : \A u \in T : ~ (<<u, t>> \in R)
  BY <1>1, <1>3, WFMin
<1>5. PICK c \in S : t = n - c
  OBVIOUS
<1>6. ASSUME NEW d \in S PROVE d <= c
  <2>1. n - d \in T /\ n - d \in Nat /\ t \in Nat /\ c \in 0 .. n /\ d \in 0 .. n
    BY <1>3
  <2>2. ~(n - d < t)
    BY <1>2, <1>4, <2>1
  <2> QED BY <1>5, <2>1, <2>2
<1> QED BY <1>6

\* There is a latest change ...
LEMMA LatestExists ==
    ASSUME NEW history, NEW n \in Nat
    PROVE  \E c \in 0 .. n : LatestIn(history, n, c)
<1> DEFINE S == {c \in 0 .. n : c > 0 => history[c] # "message"}
<1>1. S \in SUBSET (0 .. n) /\ 0 \in S
  OBVIOUS
<1>2. PICK c \in S : \A d \in S : d <= c
  BY <1>1, GreatestExists
<1>3. ASSUME NEW k \in c + 1 .. n PROVE history[k] = "message"
  <2>1. k \in 0 .. n /\ k > 0 /\ ~(k <= c)
    BY <1>1
  <2> QED BY <1>2, <2>1
<1> QED BY <1>3 DEF LatestIn

\* ... and only one.
LEMMA LatestUnique ==
    ASSUME NEW history, NEW n \in Nat, NEW c, NEW d, LatestIn(history, n, c), LatestIn(history, n, d)
    PROVE  c = d
<1>1. c \in 0 .. n /\ d \in 0 .. n
  BY DEF LatestIn
<1>2. ASSUME c < d PROVE FALSE
  <2>1. d \in c + 1 .. n /\ d > 0
    BY <1>1, <1>2
  <2> QED BY <2>1 DEF LatestIn
<1>3. ASSUME d < c PROVE FALSE
  <2>1. c \in d + 1 .. n /\ c > 0
    BY <1>1, <1>3
  <2> QED BY <2>1 DEF LatestIn
<1> QED BY <1>1, <1>2, <1>3

\* LatestChange is that change.
LEMMA LatestIs ==
    ASSUME NEW n \in Nat
    PROVE  /\ LatestIn(log, n, LatestChange(n))
           /\ LatestIn(log', n, LatestChange(n)')
<1>1. \E c \in 0 .. n : /\ c > 0 => IsChange(c)
                        /\ \A k \in c + 1 .. n : ~IsChange(k)
  BY LatestExists DEF LatestIn, IsChange
<1>2. \E c \in 0 .. n : /\ c > 0 => IsChange(c)'
                        /\ \A k \in c + 1 .. n : ~IsChange(k)'
  BY LatestExists DEF LatestIn, IsChange
<1>3. LatestIn(log, n, LatestChange(n))
  BY <1>1 DEF LatestChange, LatestIn, IsChange
<1>4. LatestIn(log', n, LatestChange(n)')
  BY <1>2 DEF LatestChange, LatestIn, IsChange
<1> QED BY <1>3, <1>4

\* What was committed stays, and so does the latest change of what a relay has.
LEMMA CommitKeepsLatest ==
    ASSUME log \in Seq(Kinds), NEW kind \in Kinds, log' = Append(log, kind)
    PROVE  /\ log' \in Seq(Kinds) /\ Len(log') = Len(log) + 1
           /\ \A n \in 1 .. Len(log) : IsChange(n)' <=> IsChange(n)
           /\ \A n \in 0 .. Len(log) : LatestChange(n)' = LatestChange(n)
<1>1. /\ log' \in Seq(Kinds) /\ Len(log) \in Nat /\ Len(log') = Len(log) + 1
      /\ \A n \in 1 .. Len(log) : log'[n] = log[n]
  BY AppendProperties, LenProperties
<1>2. ASSUME NEW n \in 0 .. Len(log) PROVE LatestChange(n)' = LatestChange(n)
  <2>1. LatestIn(log', n, LatestChange(n)') /\ LatestIn(log, n, LatestChange(n)) /\ n \in Nat
    BY <1>1, LatestIs
  <2> DEFINE c == LatestChange(n)'
  <2> HIDE DEF c
  <2>2. ASSUME LatestIn(log', n, c) PROVE LatestIn(log, n, c)
    <3>1. c \in 0 .. n /\ n <= Len(log) /\ n \in Nat
      BY <1>1, <2>2 DEF LatestIn
    <3>2. \A k \in c + 1 .. n : k \in 1 .. Len(log)
      BY <1>1, <3>1
    <3>3. c > 0 => c \in 1 .. Len(log)
      BY <1>1, <3>1
    <3> QED BY <1>1, <2>2, <3>2, <3>3 DEF LatestIn
  <2> QED BY <2>1, <2>2, LatestUnique DEF c
<1> QED BY <1>1, <1>2 DEF IsChange

-----------------------------------------------------------------------------
\* The invariant, of each relay.

\* The copy is a prefix of the history, and the snapshot a state it has reached.
CopyInv(r) ==
    /\ head[r] <= Len(log)
    /\ snapshot[r].revision <= head[r]
    /\ snapshot[r].revision > 0 => IsChange(snapshot[r].revision)

\* A task is about events that are committed, and comes to what follows the event's
\* transaction only when it is in the copy.
TaskInv(r) ==
    /\ task[r].upto <= Len(log)
    /\ task[r].event <= Len(log)
    /\ task[r].job \in {"broadcast", "submit"} /\ task[r].goal \in {"state", "end"}
       => task[r].event <= head[r]
    /\ task[r].phase \in {"page", "store", "state"} => task[r].goal # "append"

\* A reader keeps tasks out, so that what it has read is still so.
ReadInv(r) == reader[r].at # "none" =>
    /\ task[r].job = "none"
    /\ reader[r].revision = snapshot[r].revision
    /\ reader[r].at \in {"ready", "answer"} => reader[r].head = head[r]
    /\ reader[r].at = "answer" /\ reader[r].ready => Ready(r)

PassedInv(r) == \A n \in {told[r]} \cup seen[r] : n <= head[r]

RelayInv(r) == CopyInv(r) /\ TaskInv(r) /\ ReadInv(r) /\ PassedInv(r)
ReplicaInv == TypeOK /\ \A r \in Relays : RelayInv(r)

\* Free and busy locks have their types.
LEMMA Types ==
    /\ NoTask \in Tasks /\ NoTask.job = "none" /\ NoTask.upto = 0 /\ NoTask.event = 0
    /\ NoTask.phase = "none"
    /\ NoReader \in Reads /\ NoReader.at = "none"
    /\ Relays \subseteq Nodes /\ Sequencer \in Nodes
    /\ MaxFailures \in Nat /\ PageLimit \in Nat
BY ReplicationAssumption DEF NoTask, Tasks, Nodes, NoReader, Reads

\* What nobody knows is harmless.
LEMMA InitInv == Init => ReplicaInv
<1> SUFFICES ASSUME Init PROVE ReplicaInv
  OBVIOUS
<1>1. log \in Seq(Kinds) /\ Len(log) = 0
  BY EmptySeq DEF Init
<1>2. TypeOK
  <2>1. 0 \in 0 .. MaxFailures
    BY Types
  <2> QED BY <1>1, <2>1, Types DEF Init, TypeOK
<1>3. ASSUME NEW r \in Relays PROVE RelayInv(r)
  <2>1. /\ head[r] = 0 /\ snapshot[r].revision = 0 /\ task[r] = NoTask /\ reader[r] = NoReader
        /\ told[r] = 0 /\ seen[r] = {}
    BY DEF Init
  <2> QED BY <1>1, <2>1, Types DEF RelayInv, CopyInv, TaskInv, ReadInv, PassedInv
<1> QED BY <1>2, <1>3 DEF ReplicaInv

\* A relay that does nothing keeps its part of the invariant.
LEMMA Untouched ==
    ASSUME ReplicaInv, NEW r \in Relays, UNCHANGED log,
           head'[r] = head[r], snapshot'[r] = snapshot[r], task'[r] = task[r],
           reader'[r] = reader[r], told'[r] = told[r], seen'[r] = seen[r]
    PROVE  RelayInv(r)'
<1>1. LatestChange(head[r])' = LatestChange(head[r])
  BY DEF LatestChange, IsChange
<1> QED BY <1>1 DEF ReplicaInv, RelayInv, CopyInv, TaskInv, ReadInv, PassedInv, Ready, IsChange

\* Another event is committed.
LEMMA CommitSteps ==
    ASSUME ReplicaInv, NEW kind \in Kinds, SequencerCommits(kind)
    PROVE  ReplicaInv'
<1>1. /\ log' = Append(log, kind) /\ log \in Seq(Kinds)
      /\ UNCHANGED <<head, snapshot, serving, task, reader, seen, told, failures>>
  BY DEF SequencerCommits, ReplicaInv, TypeOK
<1>2. TypeOK'
  BY <1>1, CommitKeepsLatest DEF ReplicaInv, TypeOK
<1>3. ASSUME NEW r \in Relays PROVE RelayInv(r)'
  <2>1. /\ Len(log) \in Nat /\ head[r] \in Nat /\ head[r] \in 0 .. Len(log)
        /\ snapshot[r].revision \in Nat /\ snapshot[r].revision <= head[r]
        /\ task[r].upto \in Nat /\ task[r].event \in Nat
    BY <1>1, LenProperties DEF ReplicaInv, TypeOK, RelayInv, CopyInv, Tasks
  <2>2. Len(log') = Len(log) + 1
    BY <1>1, CommitKeepsLatest
  <2>3. CopyInv(r)'
    <3>1. snapshot[r].revision > 0 => IsChange(snapshot[r].revision)'
      <4>1. snapshot[r].revision > 0 => snapshot[r].revision \in 1 .. Len(log)
        BY <2>1
      <4> QED BY <1>1, <4>1, CommitKeepsLatest DEF ReplicaInv, RelayInv, CopyInv
    <3> QED BY <1>1, <2>1, <2>2, <3>1 DEF ReplicaInv, RelayInv, CopyInv, IsChange
  <2>4. TaskInv(r)'
    BY <1>1, <2>1, <2>2 DEF ReplicaInv, RelayInv, TaskInv
  <2>5. ReadInv(r)'
    <3>1. LatestChange(head[r])' = LatestChange(head[r])
      <4> PICK h \in 0 .. Len(log) : h = head[r]
        BY <2>1
      <4>1. LatestChange(h)' = LatestChange(h)
        BY <1>1, CommitKeepsLatest
      <4>2. head'[r] = h /\ head[r] = h
        BY <1>1
      <4>3. LatestChange(head[r])' = LatestChange(h)'
        BY <4>2 DEF LatestChange
      <4>4. LatestChange(head[r]) = LatestChange(h)
        BY <4>2
      <4> QED BY <4>1, <4>3, <4>4
    <3> QED BY <1>1, <3>1 DEF ReplicaInv, RelayInv, ReadInv, Ready
  <2>6. PassedInv(r)'
    BY <1>1 DEF ReplicaInv, RelayInv, PassedInv
  <2> QED BY <2>3, <2>4, <2>5, <2>6 DEF RelayInv
<1> QED BY <1>2, <1>3 DEF ReplicaInv

-----------------------------------------------------------------------------
\* What a step of a task does.

\* What the database becomes: the copy grows, by committed events, and the snapshot
\* is of a state in the copy.
Stored(r) ==
    /\ UNCHANGED log
    /\ head' \in [Relays -> Nat] /\ \A q \in Relays \ {r} : head'[q] = head[q]
    /\ head[r] <= head'[r] /\ head'[r] <= Len(log)
    /\ snapshot' \in [Relays -> [revision : Nat, signed : BOOLEAN]]
    /\ \A q \in Relays \ {r} : snapshot'[q] = snapshot[q]
    /\ snapshot'[r].revision <= head'[r]
    /\ snapshot'[r].revision > 0 => IsChange(snapshot'[r].revision)

\* The task goes on to t, fails or succeeds.
GoesOn(r, t) ==
    /\ t \in Tasks /\ t.upto <= Len(log) /\ t.event <= Len(log)
    /\ t.job \in {"broadcast", "submit"} /\ t.goal \in {"state", "end"} => t.event <= head'[r]
    /\ t.phase \in {"page", "store", "state"} => t.goal # "append"
    /\ Continues(r, t)

MayEnd(r) ==
    \/ Fails(r)
    \/ /\ Succeeds(r)
       /\ task[r].job \in {"broadcast", "submit"} => task[r].event <= head'[r]
    \/ \E t \in Tasks : GoesOn(r, t)

\* However it ends, what it was for is stored.
LEMMA EndingKeeps ==
    ASSUME ReplicaInv, NEW r \in Relays, task[r].job # "none", Stored(r), MayEnd(r),
           UNCHANGED reader, failures' \in 0 .. MaxFailures
    PROVE  ReplicaInv'
<1>1. /\ \A q \in Relays : task[q] \in Tasks /\ head[q] \in Nat /\ told[q] \in Nat
      /\ seen \in [Relays -> SUBSET Nat] /\ told \in [Relays -> Nat] /\ task \in [Relays -> Tasks]
      /\ serving \in [Relays -> BOOLEAN] /\ Len(log) \in Nat /\ head'[r] \in Nat
  BY LenProperties DEF ReplicaInv, TypeOK, Stored
<1>2. /\ task' \in [Relays -> Tasks] /\ seen' \in [Relays -> SUBSET Nat]
      /\ told' \in [Relays -> Nat] /\ serving' \in [Relays -> BOOLEAN]
      /\ \A q \in Relays \ {r} : task'[q] = task[q] /\ seen'[q] = seen[q] /\ told'[q] = told[q]
  <2>1. task[r].event \in Nat
    BY <1>1 DEF Tasks
  <2>2. CASE Fails(r)
    BY <1>1, <2>2, Types DEF Fails, Ends
  <2>3. CASE Succeeds(r)
    BY <1>1, <2>1, <2>3, Types DEF Succeeds, Ends
  <2>4. CASE \E t \in Tasks : GoesOn(r, t)
    BY <1>1, <2>4 DEF GoesOn, Continues
  <2> QED BY <2>2, <2>3, <2>4 DEF MayEnd
<1>3. TypeOK'
  BY <1>2 DEF ReplicaInv, TypeOK, Stored
<1>4. ASSUME NEW q \in Relays, q # r PROVE RelayInv(q)'
  BY <1>2, <1>4, Untouched DEF Stored
<1>5. RelayInv(r)'
  <2>1. reader[r].at = "none"
    BY DEF ReplicaInv, RelayInv, ReadInv
  <2>2. CopyInv(r)' /\ ReadInv(r)'
    BY <2>1 DEF Stored, CopyInv, ReadInv, IsChange
  <2>3. TaskInv(r)'
    <3>1. CASE task'[r] = NoTask
      BY <1>1, <3>1, Types DEF TaskInv, Stored
    <3>2. CASE \E t \in Tasks : GoesOn(r, t)
      <4>1. PICK t \in Tasks : GoesOn(r, t)
        BY <3>2
      <4>2. task'[r] = t
        BY <1>1, <4>1 DEF GoesOn, Continues
      <4> QED BY <4>1, <4>2 DEF GoesOn, TaskInv, Stored
    <3>3. Fails(r) \/ Succeeds(r) => task'[r] = NoTask
      BY <1>1 DEF Fails, Succeeds, Ends
    <3> QED BY <3>1, <3>2, <3>3 DEF MayEnd
  <2>4. PassedInv(r)'
    <3>1. \A n \in {told[r]} \cup seen[r] : n \in Nat /\ n <= head'[r]
      <4>1. \A n \in {told[r]} \cup seen[r] : n \in Nat /\ n <= head[r]
        BY <1>1 DEF ReplicaInv, RelayInv, PassedInv
      <4> QED BY <1>1, <4>1 DEF Stored
    <3>2. CASE UNCHANGED <<told, seen>>
      BY <3>1, <3>2 DEF PassedInv
    <3>3. CASE Succeeds(r) /\ (task[r].job \in {"broadcast", "submit"} => task[r].event <= head'[r])
      <4>1. told'[r] = told[r] \/ (told'[r] = task[r].event /\ task[r].job = "submit")
        BY <1>1, <3>3 DEF Succeeds
      <4>2. \A n \in seen'[r] : n \in seen[r] \/ (n = task[r].event /\ task[r].job = "broadcast")
        BY <1>1, <3>3 DEF Succeeds
      <4> QED BY <3>1, <3>3, <4>1, <4>2 DEF PassedInv
    <3> QED BY <3>2, <3>3 DEF MayEnd, Fails, GoesOn, Continues
  <2> QED BY <2>2, <2>3, <2>4 DEF RelayInv
<1> QED BY <1>3, <1>4, <1>5 DEF ReplicaInv

\* A synchronization starts for any task that may have its goal.
LEMMA SyncEnds ==
    ASSUME ReplicaInv, NEW r \in Relays, Stored(r),
           NEW goal \in {"again", "end", "state"}, NEW peers \in SUBSET Nodes,
           task[r].job \in {"broadcast", "submit"} /\ goal # "again" => task[r].event <= head'[r],
           StartsSync(r, goal, peers)
    PROVE  MayEnd(r)
<1>1. CASE Fails(r)
  BY <1>1 DEF MayEnd
<1>2. ASSUME NEW peer \in peers, Continues(r, Asking(task[r], goal, "page", peer))
      PROVE  MayEnd(r)
  <2> DEFINE t == Asking(task[r], goal, "page", peer)
  <2>1. task[r] \in Tasks /\ task[r].upto <= Len(log) /\ task[r].event <= Len(log)
    BY DEF ReplicaInv, TypeOK, RelayInv, TaskInv
  <2>2. /\ t \in Tasks /\ t.upto = task[r].upto /\ t.event = task[r].event
        /\ t.job = task[r].job /\ t.goal = goal
    <3>1. t = [task[r] EXCEPT !.goal = goal, !.phase = "page", !.peer = peer]
      BY DEF Asking
    <3> HIDE DEF t
    <3> QED BY <2>1, <3>1 DEF Tasks
  <2> HIDE DEF t
  <2>3. GoesOn(r, t)
    BY <1>2, <2>1, <2>2 DEF GoesOn, t
  <2> QED BY <2>2, <2>3 DEF MayEnd
<1> QED BY <1>1, <1>2 DEF StartsSync

\* An error is handled: a task whose event is stored goes on with it, another one tries
\* again.
LEMMA FailureEnds ==
    ASSUME ReplicaInv, NEW r \in Relays, Stored(r), task[r].phase \in {"page", "state"},
           AfterFailure(r)
    PROVE  MayEnd(r)
<1>1. /\ task[r] \in Tasks /\ head[r] \in Nat /\ head'[r] \in Nat /\ head[r] <= head'[r]
      /\ task[r].event \in Nat /\ task[r].source \in Nodes
      /\ task[r].goal \in {"again", "state", "end"}
  BY DEF ReplicaInv, TypeOK, Stored, Tasks, RelayInv, TaskInv
<1>2. task[r].job \in {"broadcast", "submit"} /\ task[r].goal # "again"
      => task[r].event <= head'[r]
  BY <1>1 DEF ReplicaInv, RelayInv, TaskInv
<1>3. FirstPeers(task[r]) \in SUBSET Nodes /\ NextPeers(task[r]) \in SUBSET Nodes
  BY <1>1, Types DEF FirstPeers, NextPeers
<1>4. CASE task[r].goal = "state"
  <2>1. StartsSync(r, "end", FirstPeers(task[r]))
    BY <1>4 DEF AfterFailure
  <2> QED BY <1>2, <1>3, <1>4, <2>1, SyncEnds
<1>5. CASE task[r].goal # "state"
  <2>1. PICK peers \in SUBSET Nodes : StartsSync(r, task[r].goal, peers)
    BY <1>3, <1>5 DEF AfterFailure
  <2>2. PICK goal \in {"again", "end", "state"} : goal = task[r].goal
    BY <1>1
  <2> QED BY <1>2, <2>1, <2>2, SyncEnds
<1> QED BY <1>4, <1>5

\* The event is appended, or there is a gap before it.
LEMMA AppendSteps ==
    ASSUME ReplicaInv, NEW r \in Relays, AppendEvent(r)
    PROVE  ReplicaInv'
<1> DEFINE t == task[r]
<1>1. /\ t \in Tasks /\ head \in [Relays -> Nat] /\ head[r] \in Nat /\ t.event \in Nat
      /\ t.source \in Nodes /\ Len(log) \in Nat /\ head[r] <= Len(log) /\ t.event <= Len(log)
      /\ snapshot \in [Relays -> [revision : Nat, signed : BOOLEAN]]
      /\ snapshot[r].revision <= head[r] /\ snapshot[r].revision \in Nat
      /\ snapshot[r].revision > 0 => IsChange(snapshot[r].revision)
      /\ t.upto <= Len(log) /\ failures \in 0 .. MaxFailures
  BY LenProperties DEF ReplicaInv, TypeOK, Tasks, RelayInv, CopyInv, TaskInv
<1>2. /\ UNCHANGED <<log, snapshot, reader, failures>>
      /\ t.job \in {"broadcast", "submit"}
  BY DEF AppendEvent
<1>3. FirstPeers(t) \in SUBSET Nodes
  BY <1>1, Types DEF FirstPeers
<1>4. CASE /\ t.event > head[r] + 1
           /\ UNCHANGED head
           /\ IF t.goal = "append"
              THEN StartsSync(r, "again", FirstPeers(t))
              ELSE Fails(r)
  <2>1. Stored(r)
    BY <1>1, <1>2, <1>4 DEF Stored
  <2>2. MayEnd(r)
    <3>1. CASE Fails(r)
      BY <3>1 DEF MayEnd
    <3>2. CASE StartsSync(r, "again", FirstPeers(t))
      BY <1>3, <2>1, <3>2, SyncEnds
    <3> QED BY <1>4, <3>1, <3>2
  <2> QED BY <1>1, <1>2, <2>1, <2>2, EndingKeeps
<1>5. CASE /\ t.event <= head[r] + 1
           /\ head' = IF t.event = head[r] + 1 THEN [head EXCEPT ![r] = @ + 1] ELSE head
           /\ \/ Succeeds(r)
              \/ Continues(r, Asking(t, "state", "state", t.source))
              \/ StartsSync(r, "end", FirstPeers(t))
  <2>1. /\ head' \in [Relays -> Nat] /\ \A q \in Relays \ {r} : head'[q] = head[q]
        /\ head[r] <= head'[r] /\ head'[r] <= Len(log) /\ t.event <= head'[r]
        /\ head'[r] \in Nat
    BY <1>1, <1>5
  <2>2. Stored(r)
    BY <1>1, <1>2, <2>1 DEF Stored
  <2>3. MayEnd(r)
    <3>1. CASE Succeeds(r)
      BY <2>1, <3>1 DEF MayEnd
    <3>2. CASE Continues(r, Asking(t, "state", "state", t.source))
      <4> DEFINE u == Asking(t, "state", "state", t.source)
      <4>1. u = [t EXCEPT !.goal = "state", !.phase = "state", !.peer = t.source]
        BY DEF Asking
      <4> HIDE DEF u
      <4>2. u \in Tasks /\ u.upto = t.upto /\ u.event = t.event /\ u.goal = "state"
        BY <1>1, <4>1 DEF Tasks
      <4>3. GoesOn(r, u)
        BY <1>1, <2>1, <3>2, <4>2 DEF GoesOn, u
      <4> QED BY <4>2, <4>3 DEF MayEnd
    <3>3. CASE StartsSync(r, "end", FirstPeers(t))
      BY <1>3, <2>1, <2>2, <3>3, SyncEnds
    <3> QED BY <1>5, <3>1, <3>2, <3>3
  <2> QED BY <1>1, <1>2, <2>2, <2>3, EndingKeeps
<1> QED BY <1>4, <1>5 DEF AppendEvent

\* A page arrives, and its events are stored one by one.
LEMMA PageSteps ==
    ASSUME ReplicaInv, NEW r \in Relays, Page(r) \/ StorePage(r)
    PROVE  ReplicaInv'
<1> DEFINE t == task[r]
<1>1. /\ t \in Tasks /\ head \in [Relays -> Nat] /\ head[r] \in Nat /\ t.upto \in Nat
      /\ t.peer \in Nodes /\ Len(log) \in Nat /\ head[r] <= Len(log) /\ t.event <= Len(log)
      /\ snapshot \in [Relays -> [revision : Nat, signed : BOOLEAN]]
      /\ snapshot[r].revision <= head[r] /\ snapshot[r].revision \in Nat
      /\ snapshot[r].revision > 0 => IsChange(snapshot[r].revision)
      /\ t.upto <= Len(log) /\ failures \in 0 .. MaxFailures /\ t.event \in Nat
      /\ t.job \in {"broadcast", "submit"} /\ t.goal \in {"state", "end"} => t.event <= head[r]
      /\ t.phase \in {"page", "store", "state"} => t.goal # "append"
  BY LenProperties DEF ReplicaInv, TypeOK, Tasks, RelayInv, CopyInv, TaskInv
<1>2. /\ UNCHANGED <<log, snapshot, reader, failures>>
      /\ t.job # "none" /\ t.phase \in {"page", "store"}
  BY DEF Page, StorePage
<1>3. CASE Page(r)
  <2>1. HeadOf(t.peer) \in Nat /\ HeadOf(t.peer) <= Len(log)
    <3>1. t.peer = Sequencer \/ t.peer \in Relays
      BY <1>1 DEF Nodes
    <3> QED BY <1>1, <3>1 DEF HeadOf, ReplicaInv, RelayInv, CopyInv
  <2>2. PICK more \in BOOLEAN, upto \in Nat :
          /\ Continues(r, [t EXCEPT !.phase = "store", !.more = more, !.upto = upto])
          /\ upto <= Len(log)
    <3> DEFINE more == HeadOf(t.peer) > head[r] + PageLimit
               upto == IF more THEN head[r] + PageLimit ELSE HeadOf(t.peer)
    <3>1. Continues(r, [t EXCEPT !.phase = "store", !.more = more, !.upto = upto])
      BY <1>3 DEF Page
    <3>2. upto \in Nat /\ upto <= Len(log)
      BY <1>1, <2>1, Types
    <3> HIDE DEF upto
    <3>3. more \in BOOLEAN
      OBVIOUS
    <3> HIDE DEF more
    <3> QED BY <3>1, <3>2, <3>3
  <2> DEFINE u == [t EXCEPT !.phase = "store", !.more = more, !.upto = upto]
  <2>3. u \in Tasks /\ u.upto = upto /\ u.event = t.event /\ u.goal = t.goal /\ u.job = t.job
        /\ u.phase = "store"
    BY <1>1 DEF Tasks
  <2> HIDE DEF u
  <2>4. UNCHANGED head
    BY <1>3 DEF Page
  <2>5. Stored(r)
    BY <1>1, <1>2, <2>4 DEF Stored
  <2>6. GoesOn(r, u)
    BY <1>1, <1>2, <2>2, <2>3, <2>4 DEF GoesOn, u
  <2> QED BY <1>1, <1>2, <2>3, <2>5, <2>6, EndingKeeps DEF MayEnd
<1>4. CASE StorePage(r) /\ t.upto > head[r]
  <2>1. head' = [head EXCEPT ![r] = @ + 1] /\ Continues(r, t)
    BY <1>4 DEF StorePage
  <2>2. /\ head' \in [Relays -> Nat] /\ \A q \in Relays \ {r} : head'[q] = head[q]
        /\ head[r] <= head'[r] /\ head'[r] <= Len(log) /\ head'[r] \in Nat
    BY <1>1, <1>4, <2>1
  <2>3. Stored(r)
    BY <1>1, <1>2, <2>2 DEF Stored
  <2>4. GoesOn(r, t)
    BY <1>1, <1>2, <2>1, <2>2 DEF GoesOn
  <2> QED BY <1>1, <1>2, <2>3, <2>4, EndingKeeps DEF MayEnd
<1>5. CASE StorePage(r) /\ ~(t.upto > head[r])
  <2> DEFINE u == [t EXCEPT !.phase = IF t.more THEN "page" ELSE "state", !.upto = 0, !.more = FALSE]
  <2>1. Continues(r, u) /\ UNCHANGED head
    BY <1>5 DEF StorePage
  <2>2. u \in Tasks /\ u.upto = 0 /\ u.event = t.event /\ u.goal = t.goal /\ u.job = t.job
    BY <1>1 DEF Tasks
  <2> HIDE DEF u
  <2>3. Stored(r)
    BY <1>1, <1>2, <2>1 DEF Stored
  <2>4. GoesOn(r, u)
    BY <1>1, <1>2, <2>1, <2>2 DEF GoesOn
  <2> QED BY <1>1, <1>2, <2>2, <2>3, <2>4, EndingKeeps DEF MayEnd
<1> QED BY <1>3, <1>4, <1>5

\* A state that is installed is one the copy has reached, whoever answered with it.
LEMMA InstallSteps ==
    ASSUME ReplicaInv, NEW r \in Relays, InstallState(r)
    PROVE  ReplicaInv'
<1> DEFINE t == task[r]
           revision == RevisionOf(t.peer)
<1>1. /\ t \in Tasks /\ head \in [Relays -> Nat] /\ head[r] \in Nat
      /\ t.peer \in Nodes /\ Len(log) \in Nat /\ head[r] <= Len(log) /\ t.event <= Len(log)
      /\ snapshot \in [Relays -> [revision : Nat, signed : BOOLEAN]]
      /\ snapshot[r].revision <= head[r] /\ snapshot[r].revision \in Nat
      /\ snapshot[r].revision > 0 => IsChange(snapshot[r].revision)
      /\ t.upto <= Len(log) /\ failures \in 0 .. MaxFailures
      /\ t.job \in {"broadcast", "submit"} /\ t.goal \in {"state", "end"} => t.event <= head[r]
      /\ t.phase \in {"page", "store", "state"} => t.goal # "append"
      /\ t.goal \in {"append", "again", "state", "end"}
  BY LenProperties DEF ReplicaInv, TypeOK, Tasks, RelayInv, CopyInv, TaskInv
<1>2. UNCHANGED <<log, head, reader, failures>> /\ t.job # "none" /\ t.phase = "state"
  BY DEF InstallState
<1>3. revision \in Nat /\ (revision > 0 => IsChange(revision))
  <2>1. CASE t.peer = Sequencer
    <3>1. LatestIn(log, Len(log), LatestChange(Len(log)))
      BY <1>1, LatestIs
    <3> QED BY <1>1, <2>1, <3>1 DEF RevisionOf, LatestIn, IsChange
  <2>2. CASE t.peer # Sequencer /\ t.peer \in Relays
    BY <2>2 DEF RevisionOf, ReplicaInv, TypeOK, RelayInv, CopyInv
  <2> QED BY <1>1, <2>1, <2>2 DEF Nodes
<1>4. \/ snapshot' = snapshot
      \/ /\ revision <= head[r]
         /\ snapshot' = [snapshot EXCEPT ![r] = [revision |-> revision, signed |-> TRUE]]
  BY DEF InstallState, Installable
<1>5. AfterFailure(r) \/ Fails(r) \/ AfterInstall(r)
  BY DEF InstallState
<1> HIDE DEF revision
<1>6. /\ snapshot' \in [Relays -> [revision : Nat, signed : BOOLEAN]]
      /\ \A q \in Relays \ {r} : snapshot'[q] = snapshot[q]
      /\ snapshot'[r].revision <= head[r]
      /\ snapshot'[r].revision > 0 => IsChange(snapshot'[r].revision)
  <2>1. CASE snapshot' = snapshot
    BY <1>1, <2>1
  <2>2. CASE /\ revision <= head[r]
             /\ snapshot' = [snapshot EXCEPT ![r] = [revision |-> revision, signed |-> TRUE]]
    <3>1. snapshot'[r].revision = revision
      BY <1>1, <2>2
    <3> QED BY <1>1, <1>3, <2>2, <3>1
  <2> QED BY <1>4, <2>1, <2>2
<1>7. Stored(r)
  BY <1>1, <1>2, <1>6 DEF Stored
<1>8. MayEnd(r)
  <2>1. CASE AfterFailure(r)
    BY <1>2, <1>7, <2>1, FailureEnds
  <2>2. CASE Fails(r)
    BY <2>2 DEF MayEnd
  <2>3. CASE AfterInstall(r) /\ t.goal = "again"
    <3> DEFINE u == [t EXCEPT !.phase = "append"]
    <3>1. u \in Tasks /\ u.upto = t.upto /\ u.event = t.event /\ u.goal = t.goal
          /\ u.phase = "append"
      BY <1>1 DEF Tasks
    <3>2. Continues(r, u)
      BY <2>3 DEF AfterInstall
    <3> HIDE DEF u
    <3>3. GoesOn(r, u)
      BY <1>1, <2>3, <3>1, <3>2 DEF GoesOn
    <3> QED BY <3>1, <3>3 DEF MayEnd
  <2>4. CASE AfterInstall(r) /\ t.goal # "again"
    <3>1. Succeeds(r)
      BY <2>4 DEF AfterInstall
    <3> QED BY <1>1, <1>2, <2>4, <3>1 DEF MayEnd
  <2> QED BY <1>5, <2>1, <2>2, <2>3, <2>4
<1> QED BY <1>1, <1>2, <1>7, <1>8, EndingKeeps

\* A query of the task fails.
LEMMA QuerySteps ==
    ASSUME ReplicaInv, NEW r \in Relays, QueryFails(r)
    PROVE  ReplicaInv'
<1>1. /\ UNCHANGED <<log, head, snapshot, reader>> /\ task[r].job # "none"
      /\ task[r].phase \in {"page", "state"} /\ AfterFailure(r)
      /\ failures' = failures \/ (failures < MaxFailures /\ failures' = failures + 1)
  BY DEF QueryFails
<1>2. failures' \in 0 .. MaxFailures
  BY <1>1, Types DEF ReplicaInv, TypeOK
<1>3. Stored(r)
  <2>1. head[r] \in Nat
    BY DEF ReplicaInv, TypeOK
  <2> QED BY <1>1, <2>1 DEF Stored, ReplicaInv, TypeOK, RelayInv, CopyInv
<1> QED BY <1>1, <1>2, <1>3, FailureEnds, EndingKeeps

\* A task takes the lock.
LEMMA TakeSteps ==
    ASSUME ReplicaInv, NEW r \in Relays,
           \/ \E from \in Nodes \ {r}, n \in Seqnos : TakeBroadcast(r, from, n)
           \/ \E n \in Seqnos : TakeCommit(r, n)
           \/ Reconcile(r) \/ Start(r)
    PROVE  ReplicaInv'
<1>1. /\ TaskMayLock(r) /\ UNCHANGED <<log, head, snapshot, serving, reader, seen, told, failures>>
      /\ \/ \E job \in {"broadcast", "submit"}, from \in Nodes, n \in Seqnos :
               task' = [task EXCEPT ![r] = Persist(job, from, n)]
         \/ \E job \in {"reconcile", "startup"} : task' = [task EXCEPT ![r] = Synchronize(job)]
  BY Types DEF TakeBroadcast, TakeCommit, Reconcile, Start
<1>2. Len(log) \in Nat /\ task \in [Relays -> Tasks]
  BY LenProperties DEF ReplicaInv, TypeOK
<1>3. PICK t \in Tasks : /\ task' = [task EXCEPT ![r] = t]
                         /\ t.upto <= Len(log) /\ t.event <= Len(log)
                         /\ t.job \in {"broadcast", "submit"} => t.goal = "append"
                         /\ t.phase \in {"append", "page"}
                         /\ t.phase = "page" => t.goal = "end"
  <2>1. ASSUME NEW job \in {"broadcast", "submit"}, NEW from \in Nodes, NEW n \in Seqnos
        PROVE  LET t == Persist(job, from, n)
               IN  /\ t \in Tasks /\ t.upto <= Len(log) /\ t.event <= Len(log)
                   /\ t.goal = "append" /\ t.phase = "append"
    BY <1>2 DEF Persist, Tasks, Seqnos
  <2>2. ASSUME NEW job \in {"reconcile", "startup"}
        PROVE  LET t == Synchronize(job)
               IN  /\ t \in Tasks /\ t.upto <= Len(log) /\ t.event <= Len(log)
                   /\ t.job = job /\ t.goal = "end" /\ t.phase = "page"
    BY <1>2, Types DEF Synchronize, Tasks
  <2>3. CASE \E job \in {"broadcast", "submit"}, from \in Nodes, n \in Seqnos :
               task' = [task EXCEPT ![r] = Persist(job, from, n)]
    BY <2>1, <2>3
  <2>4. CASE \E job \in {"reconcile", "startup"} : task' = [task EXCEPT ![r] = Synchronize(job)]
    BY <2>2, <2>4
  <2> QED BY <1>1, <2>3, <2>4
<1>4. TypeOK'
  BY <1>1, <1>2, <1>3 DEF ReplicaInv, TypeOK
<1>5. ASSUME NEW q \in Relays, q # r PROVE RelayInv(q)'
  BY <1>1, <1>2, <1>3, <1>5, Untouched
<1>6. RelayInv(r)'
  <2>1. task'[r] = t /\ reader'[r] = NoReader
    BY <1>1, <1>2, <1>3 DEF TaskMayLock
  <2>2. CopyInv(r)' /\ PassedInv(r)'
    BY <1>1 DEF ReplicaInv, RelayInv, CopyInv, PassedInv, IsChange
  <2>3. TaskInv(r)'
    BY <1>1, <1>3, <2>1 DEF TaskInv
  <2>4. ReadInv(r)'
    BY <2>1, Types DEF ReadInv
  <2> QED BY <2>2, <2>3, <2>4 DEF RelayInv
<1> QED BY <1>4, <1>5, <1>6 DEF ReplicaInv

\* A reader takes the lock, reads three times and releases it.
LEMMA ReadSteps ==
    ASSUME ReplicaInv, NEW r \in Relays, ReadState(r) \/ ReadStep(r)
    PROVE  ReplicaInv'
<1>1. UNCHANGED <<log, head, snapshot, serving, task, seen, told, failures>>
  BY DEF ReadState, ReadStep, ReadHead, ReadReady, AnswerRead
<1>2. /\ reader \in [Relays -> Reads] /\ head[r] \in Nat /\ snapshot[r].revision \in Nat
      /\ Ready(r) \in BOOLEAN
  BY DEF ReplicaInv, TypeOK, Ready
<1>3. PICK new \in Reads : reader' = [reader EXCEPT ![r] = new]
  <2>1. CASE ReadState(r)
    BY <1>2, <2>1 DEF ReadState, Reads
  <2>2. CASE ReadHead(r)
    BY <1>2, <2>2 DEF ReadHead, Reads
  <2>3. CASE ReadReady(r)
    BY <1>2, <2>3 DEF ReadReady, Reads
  <2>4. CASE AnswerRead(r)
    BY <2>4, Types DEF AnswerRead
  <2> QED BY <2>1, <2>2, <2>3, <2>4 DEF ReadStep
<1>4. TypeOK'
  BY <1>1, <1>2, <1>3 DEF ReplicaInv, TypeOK
<1>5. ASSUME NEW q \in Relays, q # r PROVE RelayInv(q)'
  BY <1>1, <1>2, <1>3, <1>5, Untouched
<1>6. RelayInv(r)'
  <2>1. CopyInv(r)' /\ TaskInv(r)' /\ PassedInv(r)'
    BY <1>1 DEF ReplicaInv, RelayInv, CopyInv, TaskInv, PassedInv, IsChange
  <2>2. Ready(r)' <=> Ready(r)
    <3>1. LatestChange(head[r])' = LatestChange(head[r])
      BY <1>1 DEF LatestChange, IsChange
    <3> QED BY <1>1, <3>1 DEF Ready
  <2>3. ReadInv(r)'
    <3>1. CASE ReadState(r)
      <4>1. reader'[r].at = "head" /\ reader'[r].revision = snapshot[r].revision
        BY <1>2, <3>1 DEF ReadState, Reads
      <4>2. task[r] = NoTask
        BY <3>1 DEF ReadState, ReaderMayLock
      <4> QED BY <1>1, <4>1, <4>2, Types DEF ReadInv
    <3>2. CASE ReadHead(r)
      <4>1. /\ reader'[r].at = "ready" /\ reader'[r].revision = reader[r].revision
            /\ reader'[r].head = head[r] /\ reader[r].at = "head"
        BY <1>2, <3>2 DEF ReadHead, Reads
      <4> QED BY <1>1, <4>1 DEF ReplicaInv, RelayInv, ReadInv
    <3>3. CASE ReadReady(r)
      <4>1. /\ reader'[r].at = "answer" /\ reader'[r].revision = reader[r].revision
            /\ reader'[r].head = reader[r].head /\ reader[r].at = "ready"
            /\ reader'[r].ready = Ready(r)
        BY <1>2, <3>3 DEF ReadReady, Reads
      <4> QED BY <1>1, <2>2, <4>1 DEF ReplicaInv, RelayInv, ReadInv
    <3>4. CASE AnswerRead(r)
      <4>1. reader'[r] = NoReader
        BY <1>2, <3>4 DEF AnswerRead
      <4> QED BY <4>1, Types DEF ReadInv
    <3> QED BY <3>1, <3>2, <3>3, <3>4 DEF ReadStep
  <2> QED BY <2>1, <2>3 DEF RelayInv
<1> QED BY <1>4, <1>5, <1>6 DEF ReplicaInv

\* The relay dies and leaves its database.
LEMMA CrashSteps ==
    ASSUME ReplicaInv, NEW r \in Relays, Crash(r)
    PROVE  ReplicaInv'
<1>1. /\ UNCHANGED <<log, head, snapshot, told>>
      /\ failures < MaxFailures /\ failures' = failures + 1
      /\ serving' = [serving EXCEPT ![r] = FALSE] /\ reader' = [reader EXCEPT ![r] = NoReader]
      /\ task' = [task EXCEPT ![r] = NoTask] /\ seen' = [seen EXCEPT ![r] = {}]
  BY DEF Crash, Ends
<1>2. /\ task \in [Relays -> Tasks] /\ reader \in [Relays -> Reads] /\ Len(log) \in Nat
      /\ seen \in [Relays -> SUBSET Nat] /\ serving \in [Relays -> BOOLEAN]
      /\ failures \in 0 .. MaxFailures
  BY LenProperties DEF ReplicaInv, TypeOK
<1>3. TypeOK'
  <2>1. failures' \in 0 .. MaxFailures
    BY <1>1, <1>2, Types
  <2>2. /\ task' \in [Relays -> Tasks] /\ reader' \in [Relays -> Reads]
        /\ seen' \in [Relays -> SUBSET Nat] /\ serving' \in [Relays -> BOOLEAN]
    BY <1>1, <1>2, Types
  <2> QED BY <1>1, <2>1, <2>2 DEF ReplicaInv, TypeOK
<1>4. ASSUME NEW q \in Relays, q # r PROVE RelayInv(q)'
  BY <1>1, <1>2, <1>4, Untouched
<1>5. RelayInv(r)'
  <2>1. task'[r] = NoTask /\ reader'[r] = NoReader /\ seen'[r] = {}
    BY <1>1, <1>2
  <2>2. CopyInv(r)' /\ PassedInv(r)'
    BY <1>1, <2>1 DEF ReplicaInv, RelayInv, CopyInv, PassedInv, IsChange
  <2>3. TaskInv(r)' /\ ReadInv(r)'
    BY <1>1, <1>2, <2>1, Types DEF TaskInv, ReadInv
  <2> QED BY <2>2, <2>3 DEF RelayInv
<1> QED BY <1>3, <1>4, <1>5 DEF ReplicaInv

-----------------------------------------------------------------------------
\* Every step keeps the invariant.
LEMMA ReplicaSteps == ReplicaInv /\ [Next]_vars => ReplicaInv'
<1> SUFFICES ASSUME ReplicaInv, [Next]_vars PROVE ReplicaInv'
  OBVIOUS
<1>1. CASE \E kind \in Kinds : SequencerCommits(kind)
  BY <1>1, CommitSteps
<1>2. CASE \/ \E r \in Relays : \E from \in Nodes \ {r}, n \in Seqnos : TakeBroadcast(r, from, n)
           \/ \E r \in Relays, n \in Seqnos : TakeCommit(r, n)
           \/ \E r \in Relays : Reconcile(r) \/ Start(r)
  BY <1>2, TakeSteps
<1>3. CASE \E r \in Relays : TaskStep(r)
  BY <1>3, AppendSteps, PageSteps, InstallSteps, QuerySteps DEF TaskStep
<1>4. CASE \E r \in Relays : ReadState(r) \/ ReadStep(r)
  BY <1>4, ReadSteps
<1>5. CASE \E r \in Relays : Crash(r)
  BY <1>5, CrashSteps
<1>6. CASE UNCHANGED vars
  <2>1. UNCHANGED <<log, head, snapshot, serving, task, reader, seen, told, failures>>
    BY <1>6 DEF vars
  <2>2. TypeOK'
    BY <2>1 DEF ReplicaInv, TypeOK
  <2> QED BY <2>1, <2>2, Untouched DEF ReplicaInv
<1> QED BY <1>1, <1>2, <1>3, <1>4, <1>5, <1>6 DEF Next

\* What the inductive invariant says of the copy, the task, the reader and what was
\* passed on holds of every relay in every reachable state.
THEOREM ReplicasCorrect == Spec => []ReplicaInv
BY InitInv, ReplicaSteps, PTL DEF Spec

\* Tasks and readers are in one of their steps, and sets of broadcasts hold seqnos.
THEOREM ReplicationTypeOK == Spec => []TypeOK
<1>1. ReplicaInv => TypeOK
  BY DEF ReplicaInv
<1> QED BY <1>1, ReplicasCorrect, PTL

\* A relay tells nobody of an event that is not in its database: not the leaf whose
\* submission it forwarded, not the nodes it passes a broadcast on to.
THEOREM ToldOnlyWhatIsStored == Spec => []PassedOnIsDurable
<1>1. ReplicaInv => PassedOnIsDurable
  BY DEF ReplicaInv, RelayInv, PassedInv, PassedOnIsDurable
<1> QED BY <1>1, ReplicasCorrect, PTL

\* The three reads of communityStateResult agree: an answer that is ready has the
\* state of the head it reports.
THEOREM ReadyAnswersAreCurrent == Spec => []ReadyAnswersCover
<1>1. ASSUME ReplicaInv PROVE ReadyAnswersCover
  <2> SUFFICES ASSUME NEW r \in Relays, reader[r].at = "answer", reader[r].ready
               PROVE  reader[r].revision = LatestChange(reader[r].head)
    BY DEF ReadyAnswersCover
  <2>1. /\ reader[r].revision = snapshot[r].revision /\ reader[r].head = head[r] /\ Ready(r)
    BY <1>1 DEF ReplicaInv, RelayInv, ReadInv
  <2> QED BY <2>1 DEF Ready
<1> QED BY <1>1, ReplicasCorrect, PTL

-----------------------------------------------------------------------------
\* The refinement.

\* The beginning of a history, and how it grows.
LEMMA Beginning ==
    ASSUME NEW history \in Seq(Kinds), NEW n \in 0 .. Len(history)
    PROVE  /\ SubSeq(history, 1, n) \in Seq(Kinds)
           /\ Len(SubSeq(history, 1, n)) = n
           /\ \A i \in 1 .. n : SubSeq(history, 1, n)[i] = history[i]
           /\ n < Len(history) =>
                 SubSeq(history, 1, n + 1) = Append(SubSeq(history, 1, n), history[n + 1])
<1>1. /\ Len(history) \in Nat /\ n \in Nat /\ n \in Int /\ 1 \in Int
      /\ \A i \in 1 .. Len(history) : history[i] \in Kinds
  BY LenProperties, ElementOfSeq
<1>2. ASSUME NEW m \in 0 .. Len(history)
      PROVE  /\ SubSeq(history, 1, m) \in Seq(Kinds)
             /\ Len(SubSeq(history, 1, m)) = m
             /\ \A i \in 1 .. m : SubSeq(history, 1, m)[i] = history[i]
  <2>1. m \in Int /\ m \in Nat /\ \A i \in 1 .. m : history[i] \in Kinds
    BY <1>1
  <2>2. /\ SubSeq(history, 1, m) \in Seq(Kinds)
        /\ Len(SubSeq(history, 1, m)) = IF 1 <= m THEN m - 1 + 1 ELSE 0
        /\ \A i \in 1 .. m - 1 + 1 : SubSeq(history, 1, m)[i] = history[1 + i - 1]
    BY <1>1, <2>1, SubSeqProperties
  <2>3. m - 1 + 1 = m /\ \A i \in 1 .. m : 1 + i - 1 = i
    BY <2>1
  <2> QED BY <2>1, <2>2, <2>3
<1>3. ASSUME n < Len(history)
      PROVE  SubSeq(history, 1, n + 1) = Append(SubSeq(history, 1, n), history[n + 1])
  <2> DEFINE s == SubSeq(history, 1, n + 1)
             t == Append(SubSeq(history, 1, n), history[n + 1])
  <2>1. n + 1 \in 0 .. Len(history) /\ n + 1 \in 1 .. Len(history)
    BY <1>1, <1>3
  <2>2. s \in Seq(Kinds) /\ Len(s) = n + 1 /\ \A i \in 1 .. n + 1 : s[i] = history[i]
    BY <1>2, <2>1
  <2>3. /\ SubSeq(history, 1, n) \in Seq(Kinds) /\ Len(SubSeq(history, 1, n)) = n
        /\ \A i \in 1 .. n : SubSeq(history, 1, n)[i] = history[i]
    BY <1>2
  <2>4. history[n + 1] \in Kinds
    BY <1>1, <2>1
  <2>5. /\ t \in Seq(Kinds) /\ Len(t) = n + 1 /\ t[n + 1] = history[n + 1]
        /\ \A i \in 1 .. n : t[i] = history[i]
    BY <2>3, <2>4, AppendProperties
  <2> HIDE DEF s, t
  <2>6. \A i \in 1 .. n + 1 : s[i] = t[i]
    <3>1. \A i \in 1 .. n + 1 : i \in 1 .. n \/ i = n + 1
      BY <1>1
    <3> QED BY <2>2, <2>5, <3>1
  <2>7. s = t
    BY <2>2, <2>5, <2>6, SeqEqual
  <2> QED BY <2>7 DEF s, t
<1> QED BY <1>2, <1>3

\* The write policy after the latest change is whether the history is open.
LEMMA PolicyIsOpen ==
    ASSUME log \in Seq(Kinds), NEW n \in 0 .. Len(log)
    PROVE  Policy(n) <=> Ledger!Open(log, n)
<1>1. n \in Nat /\ n <= Len(log) /\ Len(log) \in Nat
  BY LenProperties
<1>2. PICK c : c = LatestChange(n) /\ LatestIn(log, n, c)
  BY <1>1, LatestIs
<1>3. c \in 0 .. n /\ (c > 0 => log[c] # "message") /\ \A k \in c + 1 .. n : log[k] = "message"
  BY <1>2 DEF LatestIn
<1>4. \A k \in 1 .. n : log[k] # "message" => k <= c
  BY <1>1, <1>3
<1>5. CASE c = 0
  <2>1. \A k \in 1 .. n : log[k] # "close"
    BY <1>4, <1>5
  <2> QED BY <1>2, <1>5, <2>1 DEF Policy, Ledger!Open
<1>6. CASE c > 0 /\ log[c] = "open"
  <2>1. ASSUME NEW k \in 1 .. n, log[k] = "close" PROVE c \in k + 1 .. n
    <3>1. k <= c /\ k # c
      BY <1>4, <1>6, <2>1
    <3> QED BY <1>3, <3>1
  <2> QED BY <1>2, <1>6, <2>1 DEF Policy, Ledger!Open
<1>7. CASE c > 0 /\ log[c] # "open"
  <2>1. c \in 1 .. n /\ c \in 1 .. Len(log)
    BY <1>1, <1>3, <1>7
  <2>2. log[c] = "close"
    <3>1. log[c] \in Kinds
      BY <2>1, ElementOfSeq
    <3> QED BY <1>3, <1>7, <3>1, ReplicationAssumption
  <2>3. \A d \in c + 1 .. n : log[d] # "open"
    BY <1>3
  <2> QED BY <1>2, <1>7, <2>1, <2>2, <2>3 DEF Policy, Ledger!Open
<1> QED BY <1>3, <1>5, <1>6, <1>7

\* What a copy says of an event it holds is what the history says.
LEMMA CopyTells ==
    ASSUME ReplicaInv, NEW r \in Relays
    PROVE  /\ Copies \in [Relays -> Seq(Kinds)] /\ Copies[r] = SubSeq(log, 1, head[r])
           /\ head[r] \in 0 .. Len(log) /\ Len(Copies[r]) = head[r]
           /\ \A c \in 1 .. head[r] : Copies[r][c] = log[c]
           /\ \A c \in 0 .. head[r] : Ledger!Open(Copies[r], c) <=> Policy(c)
<1>1. \A q \in Relays : head[q] \in 0 .. Len(log)
  BY LenProperties DEF ReplicaInv, TypeOK, RelayInv, CopyInv
<1>2. log \in Seq(Kinds) /\ Len(log) \in Nat
  BY LenProperties DEF ReplicaInv, TypeOK
<1>3. Copies \in [Relays -> Seq(Kinds)]
  BY <1>1, <1>2, Beginning DEF Copies
<1>4. Copies[r] = SubSeq(log, 1, head[r])
  BY DEF Copies
<1>5. Len(Copies[r]) = head[r] /\ \A c \in 1 .. head[r] : Copies[r][c] = log[c]
  BY <1>1, <1>2, <1>4, Beginning
<1>6. ASSUME NEW c \in 0 .. head[r] PROVE Ledger!Open(Copies[r], c) <=> Policy(c)
  <2>1. c \in 0 .. Len(log) /\ c \in Nat /\ c <= head[r] /\ head[r] \in Nat
    BY <1>1, <1>2
  <2>2. \A k \in 1 .. c : k \in 1 .. head[r] /\ \A d \in k + 1 .. c : d \in 1 .. head[r]
    BY <2>1
  <2>3. Ledger!Open(Copies[r], c) <=> Ledger!Open(log, c)
    BY <1>5, <2>2 DEF Ledger!Open
  <2> QED BY <1>2, <2>1, <2>3, PolicyIsOpen
<1> QED BY <1>1, <1>3, <1>4, <1>5, <1>6

\* What a step of a relay may do to its database, and to what it told.
DatabaseStep(r) ==
    \/ /\ head[r] < Len(log)
       /\ head' = [head EXCEPT ![r] = @ + 1] /\ UNCHANGED snapshot
    \/ /\ UNCHANGED head
       /\ \E c \in 0 .. head[r] :
             /\ Policy(c) = Policy(head[r])
             /\ snapshot' = [snapshot EXCEPT ![r] = [revision |-> c, signed |-> TRUE]]
    \/ UNCHANGED <<head, snapshot>>

AnswerStep(r) ==
    \/ UNCHANGED told
    \/ task[r].event > told[r] /\ told' = [told EXCEPT ![r] = task[r].event]

\* Such a step is one of the ledger.
LEMMA StepMaps ==
    ASSUME ReplicaInv, ReplicaInv', UNCHANGED log, NEW r \in Relays, DatabaseStep(r), AnswerStep(r)
    PROVE  Ledger!RelaySteps(r)
<1>1. /\ head \in [Relays -> Nat] /\ head' \in [Relays -> Nat]
      /\ snapshot \in [Relays -> [revision : Nat, signed : BOOLEAN]]
      /\ told \in [Relays -> Nat] /\ told' \in [Relays -> Nat] /\ task[r].event \in Nat
      /\ log \in Seq(Kinds) /\ Len(log) \in Nat
  BY LenProperties DEF ReplicaInv, TypeOK, Tasks
<1>2. Copies' = [q \in Relays |-> SubSeq(log, 1, head'[q])]
  BY DEF Copies
<1>3. Len(Copies[r]) = head[r] /\ Len(Copies'[r]) = head'[r]
  <2>1. head'[r] \in 0 .. Len(log)
    BY <1>1 DEF ReplicaInv, RelayInv, CopyInv
  <2> QED BY <1>1, <1>2, <2>1, CopyTells, Beginning
<1>4. Ledger!Stores(r) \/ Ledger!Signs(r) \/ UNCHANGED <<Copies, Revisions>>
  <2>1. CASE /\ head[r] < Len(log)
             /\ head' = [head EXCEPT ![r] = @ + 1] /\ UNCHANGED snapshot
    <3>1. Copies' = [Copies EXCEPT ![r] = Append(@, log[Len(@) + 1])]
      <4>1. SubSeq(log, 1, head[r] + 1) = Append(SubSeq(log, 1, head[r]), log[head[r] + 1])
        BY <1>1, <2>1, CopyTells, Beginning
      <4>2. SubSeq(log, 1, head'[r]) = Append(Copies[r], log[Len(Copies[r]) + 1])
        BY <1>1, <1>3, <2>1, <4>1, CopyTells
      <4>3. \A q \in Relays \ {r} : SubSeq(log, 1, head'[q]) = Copies[q]
        BY <1>1, <2>1 DEF Copies
      <4> QED BY <1>2, <4>2, <4>3, CopyTells
    <3>2. Revisions' = Revisions
      BY <2>1 DEF Revisions
    <3> QED BY <1>3, <2>1, <3>1, <3>2 DEF Ledger!Stores
  <2>2. CASE /\ UNCHANGED head
             /\ \E c \in 0 .. head[r] :
                   /\ Policy(c) = Policy(head[r])
                   /\ snapshot' = [snapshot EXCEPT ![r] = [revision |-> c, signed |-> TRUE]]
    <3>1. PICK c \in 0 .. head[r] :
             /\ Policy(c) = Policy(head[r])
             /\ snapshot' = [snapshot EXCEPT ![r] = [revision |-> c, signed |-> TRUE]]
      BY <2>2
    <3>2. Copies' = Copies
      BY <2>2 DEF Copies
    <3>3. Revisions' = [Revisions EXCEPT ![r] = c]
      BY <1>1, <3>1 DEF Revisions
    <3>4. c \in Ledger!Signable(Copies[r])
      <4>1. c > 0 => Copies[r][c] # "message"
        <5>1. snapshot'[r].revision = c
          BY <1>1, <3>1
        <5>2. c > 0 => log[c] # "message"
          BY <5>1 DEF ReplicaInv, RelayInv, CopyInv, IsChange
        <5>3. c > 0 => c \in 1 .. head[r]
          BY <1>1
        <5> QED BY <5>2, <5>3, CopyTells
      <4>2. Ledger!Open(Copies[r], c) <=> Ledger!Open(Copies[r], head[r])
        <5>1. head[r] \in 0 .. head[r]
          BY <1>1
        <5> QED BY <3>1, <5>1, CopyTells
      <4> QED BY <1>3, <4>1, <4>2 DEF Ledger!Signable
    <3> QED BY <3>2, <3>3, <3>4 DEF Ledger!Signs
  <2>3. CASE UNCHANGED <<head, snapshot>>
    BY <2>3 DEF Copies, Revisions
  <2> QED BY <2>1, <2>2, <2>3 DEF DatabaseStep
<1>5. Ledger!Tells(r) \/ UNCHANGED told
  <2>1. CASE task[r].event > told[r] /\ told' = [told EXCEPT ![r] = task[r].event]
    <3>1. told'[r] = task[r].event
      BY <1>1, <2>1
    <3>2. told'[r] <= head'[r]
      BY DEF ReplicaInv, RelayInv, PassedInv
    <3>3. task[r].event \in 1 .. Len(Copies'[r])
      BY <1>1, <1>3, <2>1, <3>1, <3>2
    <3> QED BY <2>1, <3>3 DEF Ledger!Tells
  <2> QED BY <2>1 DEF AnswerStep
<1> QED BY <1>4, <1>5 DEF Ledger!RelaySteps

\* However a task goes on, it answers at most one leaf.
LEMMA AnswersOnce ==
    ASSUME NEW r \in Relays, Fails(r) \/ Succeeds(r) \/ \E t : Continues(r, t)
    PROVE  AnswerStep(r)
BY DEF Fails, Succeeds, Continues, AnswerStep

\* A synchronization that starts answers none.
LEMMA SyncAnswers ==
    ASSUME NEW r \in Relays, NEW goal, NEW peers, StartsSync(r, goal, peers)
    PROVE  AnswerStep(r)
BY AnswersOnce DEF StartsSync

\* The steps of a task.
LEMMA TaskMaps ==
    ASSUME ReplicaInv, NEW r \in Relays, TaskStep(r)
    PROVE  UNCHANGED log /\ DatabaseStep(r) /\ AnswerStep(r)
<1>1. /\ head[r] \in Nat /\ Len(log) \in Nat /\ head[r] <= Len(log) /\ task[r].event \in Nat
      /\ task[r].upto \in Nat /\ task[r].upto <= Len(log) /\ task[r].event <= Len(log)
  BY LenProperties DEF ReplicaInv, TypeOK, Tasks, RelayInv, CopyInv, TaskInv
<1>2. CASE AppendEvent(r)
  <2>1. UNCHANGED <<log, snapshot>>
    BY <1>2 DEF AppendEvent
  <2>2. DatabaseStep(r)
    <3>1. \/ UNCHANGED head
          \/ task[r].event = head[r] + 1 /\ head' = [head EXCEPT ![r] = @ + 1]
      BY <1>2 DEF AppendEvent
    <3> QED BY <1>1, <2>1, <3>1 DEF DatabaseStep
  <2>3. AnswerStep(r)
    <3>1. \/ Fails(r) \/ Succeeds(r)
          \/ Continues(r, Asking(task[r], "state", "state", task[r].source))
          \/ StartsSync(r, "again", FirstPeers(task[r]))
          \/ StartsSync(r, "end", FirstPeers(task[r]))
      BY <1>2 DEF AppendEvent
    <3> QED BY <3>1, AnswersOnce, SyncAnswers
  <2> QED BY <2>1, <2>2, <2>3
<1>3. CASE Page(r)
  <2>1. UNCHANGED <<log, head, snapshot, told>>
    BY <1>3 DEF Page, Continues
  <2> QED BY <2>1 DEF DatabaseStep, AnswerStep
<1>4. CASE StorePage(r)
  <2>1. UNCHANGED <<log, snapshot, told>>
    BY <1>4 DEF StorePage, Continues
  <2>2. \/ UNCHANGED head
        \/ task[r].upto > head[r] /\ head' = [head EXCEPT ![r] = @ + 1]
    BY <1>4 DEF StorePage
  <2> QED BY <1>1, <2>1, <2>2 DEF DatabaseStep, AnswerStep
<1>5. CASE InstallState(r)
  <2> DEFINE c == RevisionOf(task[r].peer)
  <2>1. UNCHANGED <<log, head>>
    BY <1>5 DEF InstallState
  <2>2. c \in Nat
    <3>1. task[r].peer \in Relays \/ task[r].peer = Sequencer
      BY DEF ReplicaInv, TypeOK, Tasks, Nodes
    <3>2. LatestChange(Len(log)) \in Nat
      <4>1. LatestIn(log, Len(log), LatestChange(Len(log)))
        BY <1>1, LatestIs
      <4> QED BY <1>1, <4>1 DEF LatestIn
    <3> QED BY <3>1, <3>2 DEF RevisionOf, ReplicaInv, TypeOK
  <2>3. \/ snapshot' = snapshot
        \/ /\ c <= head[r] /\ Policy(c) = Policy(head[r])
           /\ snapshot' = [snapshot EXCEPT ![r] = [revision |-> c, signed |-> TRUE]]
    BY <1>5 DEF InstallState, Installable
  <2>4. AnswerStep(r)
    <3>1. AfterFailure(r) \/ Fails(r) \/ AfterInstall(r)
      BY <1>5 DEF InstallState
    <3>2. AfterFailure(r) => AnswerStep(r)
      BY SyncAnswers DEF AfterFailure
    <3>3. AfterInstall(r) => AnswerStep(r)
      BY AnswersOnce DEF AfterInstall
    <3> QED BY <3>1, <3>2, <3>3, AnswersOnce
  <2> HIDE DEF c
  <2>5. DatabaseStep(r)
    <3>1. c <= head[r] => c \in 0 .. head[r]
      BY <1>1, <2>2
    <3> QED BY <2>1, <2>3, <3>1 DEF DatabaseStep
  <2> QED BY <2>1, <2>4, <2>5
<1>6. CASE QueryFails(r)
  <2>1. UNCHANGED <<log, head, snapshot>> /\ AfterFailure(r)
    BY <1>6 DEF QueryFails
  <2>2. AnswerStep(r)
    BY <2>1, SyncAnswers DEF AfterFailure
  <2> QED BY <2>1, <2>2 DEF DatabaseStep
<1> QED BY <1>2, <1>3, <1>4, <1>5, <1>6 DEF TaskStep

\* Whatever is lost, repeated, reordered or fetched from a relay that is behind, and
\* over crashes: relays are copies that only grow, signed with states they have
\* reached, and tell of commits only that they hold.
THEOREM ReplicasImplementLedger == Spec => ImplementsRelayLedger
<1>1. Init => Ledger!LedgerInit
  <2> SUFFICES ASSUME Init PROVE Ledger!LedgerInit
    OBVIOUS
  <2>1. /\ log = <<>> /\ head = [r \in Relays |-> 0] /\ told = [r \in Relays |-> 0]
        /\ snapshot = [r \in Relays |-> [revision |-> 0, signed |-> FALSE]]
    BY DEF Init
  <2>2. SubSeq(log, 1, 0) = <<>>
    BY SubSeqEmpty
  <2>3. Copies = [r \in Relays |-> <<>>]
    BY <2>1, <2>2 DEF Copies
  <2>4. Revisions = [r \in Relays |-> 0]
    BY <2>1 DEF Revisions
  <2> QED BY <2>1, <2>3, <2>4 DEF Ledger!LedgerInit
<1>2. ReplicaInv /\ ReplicaInv' /\ [Next]_vars => [Ledger!LedgerNext]_(Ledger!ledgerVars)
  <2> SUFFICES ASSUME ReplicaInv, ReplicaInv', [Next]_vars
               PROVE  [Ledger!LedgerNext]_(Ledger!ledgerVars)
    OBVIOUS
  <2>1. ASSUME UNCHANGED <<log, head, snapshot, told>>
        PROVE  UNCHANGED Ledger!ledgerVars
    BY <2>1 DEF Ledger!ledgerVars, Copies, Revisions
  <2>2. CASE \E kind \in Kinds : SequencerCommits(kind)
    <3>1. PICK kind \in Kinds : SequencerCommits(kind)
      BY <2>2
    <3>2. log' = Append(log, kind) /\ UNCHANGED <<head, snapshot, told>>
      BY <3>1 DEF SequencerCommits
    <3>3. ASSUME NEW r \in Relays PROVE SubSeq(log', 1, head[r]) = SubSeq(log, 1, head[r])
      <4> DEFINE s == SubSeq(log', 1, head[r])
                 t == SubSeq(log, 1, head[r])
      <4>1. /\ log \in Seq(Kinds) /\ log' \in Seq(Kinds) /\ Len(log') = Len(log) + 1
            /\ Len(log) \in Nat /\ head[r] \in 0 .. Len(log) /\ head[r] \in 0 .. Len(log')
        BY <3>2, CopyTells, AppendProperties, LenProperties DEF ReplicaInv, TypeOK
      <4>2. /\ s \in Seq(Kinds) /\ Len(s) = head[r]
            /\ \A i \in 1 .. head[r] : s[i] = log'[i]
        BY <4>1, Beginning
      <4>3. /\ t \in Seq(Kinds) /\ Len(t) = head[r]
            /\ \A i \in 1 .. head[r] : t[i] = log[i]
        BY <4>1, Beginning
      <4>4. \A i \in 1 .. Len(log) : log'[i] = log[i]
        BY <3>2, <4>1, AppendProperties
      <4>5. \A i \in 1 .. head[r] : s[i] = t[i]
        BY <4>1, <4>2, <4>3, <4>4
      <4> HIDE DEF s, t
      <4>6. s = t
        BY <4>2, <4>3, <4>5, SeqEqual
      <4> QED BY <4>6 DEF s, t
    <3>4. Copies' = Copies /\ Revisions' = Revisions
      BY <3>2, <3>3 DEF Copies, Revisions
    <3>5. Ledger!Commits(kind)
      BY <3>2, <3>4 DEF Ledger!Commits
    <3> QED BY <3>5 DEF Ledger!LedgerNext
  <2>3. CASE \E r \in Relays : TaskStep(r)
    <3>1. PICK r \in Relays : TaskStep(r)
      BY <2>3
    <3>2. Ledger!RelaySteps(r)
      BY <3>1, TaskMaps, StepMaps
    <3> QED BY <3>2 DEF Ledger!LedgerNext
  <2>4. CASE \/ \E r \in Relays : \E from \in Nodes \ {r}, n \in Seqnos : TakeBroadcast(r, from, n)
             \/ \E r \in Relays, n \in Seqnos : TakeCommit(r, n)
             \/ \E r \in Relays : Reconcile(r) \/ Start(r)
    BY <2>1, <2>4 DEF TakeBroadcast, TakeCommit, Reconcile, Start
  <2>5. CASE \E r \in Relays : ReadState(r) \/ ReadStep(r) \/ Crash(r)
    BY <2>1, <2>5 DEF ReadState, ReadStep, ReadHead, ReadReady, AnswerRead, Crash
  <2>6. CASE UNCHANGED vars
    BY <2>1, <2>6 DEF vars
  <2> QED BY <2>2, <2>3, <2>4, <2>5, <2>6 DEF Next
<1> QED BY <1>1, <1>2, ReplicasCorrect, PTL DEF Spec, ImplementsRelayLedger, Ledger!LedgerSpec
=============================================================================
