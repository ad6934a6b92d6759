------------------------------ MODULE RoomProofs ------------------------------
(***************************************************************************)
(* Theorems about one room at a client, for every history, queue length,   *)
(* page size and number of failures: the copy that is shown is verified,   *)
(* every event is notified once, what is confirmed is stored, and nothing  *)
(* is left of a room that was left or of an identity that was reset.       *)
(***************************************************************************)
EXTENDS ClientRoom, FiniteSetTheorems, SequenceTheorems, WellFoundedInduction, TLAPS

-----------------------------------------------------------------------------
\* The inductive invariant.

\* Everything in flight is about an event of the history.
BoundInv ==
    /\ identity <= resets + 1
    /\ \A i \in DOMAIN queue : queue[i].event \in 1 .. Len(log) /\ queue[i].session # NoSession
    /\ item.at # "none" => item.event \in 1 .. Len(log) /\ item.session # NoSession
    /\ work.at = "store" => work.upto <= Len(log)

\* Who holds historyMu, on which session: while it is held, that session is the
\* current one or there is none.
LockInv ==
    /\ item.at = "none" => item = NoItem
    /\ work.by = "none" => work = NoWork
    /\ work.by # "none" => work.at # "none" /\ session \in {NoSession, work.session}
    /\ work.by = "connect" => work.at \in {"page", "store", "state", "synced"}
    /\ work.by = "ingest" <=> item.at \in {"sync", "append"}
    /\ work.by = "ingest" => work.session = item.session

\* A room that is not running has no session, but one that a dial has just made.
QuietInv ==
    /\ handle # "running" => session = NoSession \/ work.by = "connect"
    /\ handle = "none" =>
          /\ session = NoSession /\ dial = NoDial /\ work = NoWork /\ item = NoItem
          /\ queue = <<>> /\ stored = 0 /\ emitted = <<>> /\ confirmed = {}

\* LatestChange, of any history.
Latest(history, n) ==
    CHOOSE c \in 0 .. n : /\ c > 0 => history[c]
                          /\ \A k \in c + 1 .. n : ~history[k]

\* The copy, its projection and its state agree.
Agreed == projection = stored /\ state = Latest(log, stored)

\* Between two pieces of work they agree, unless the session is about to be closed;
\* in the middle of one they are where it needs them.
CopyInv ==
    /\ work.by = "none" /\ session # NoSession =>
          Agreed \/ (item.at = "done" /\ item.failed /\ item.session = session)
    /\ work.at \in {"page", "store", "state"} => work.projection = stored
    /\ work.at \in {"synced", "append"} => Agreed
    /\ work.at \in {"refresh", "emit"} => projection = stored /\ item.event = stored
    /\ work.at = "emit" => item.failed \/ state = Latest(log, stored)

DurableInv == item.durable => item.event <= stored

\* What was notified is the stored history, except for the event that is about to be.
Unsaid == work.by = "ingest" /\ work.at \in {"refresh", "emit"}
Numbers(k) == [n \in 1 .. k |-> n]
NotifiedInv == Running => emitted = Numbers(IF Unsaid THEN stored - 1 ELSE stored)

\* All of it, with the properties themselves.
Core == BoundInv /\ LockInv /\ QuietInv /\ CopyInv /\ DurableInv
        /\ NotifiedInv /\ SessionOfIdentity /\ ConfirmedIsDurable

RoomInv == TypeOK /\ Core

-----------------------------------------------------------------------------
\* Session numbers: there is always one that nothing refers to.

\* More numbers than references: each reference uses one.
LEMMA FreshIdExists ==
    ASSUME TypeOK
    PROVE  FreshId \in 1 .. QueueCap + 4
<1> DEFINE n == Len(queue)
           Ids == 1 .. QueueCap + 4
           f == [i \in 1 .. n + 3 |-> IF i <= n THEN queue[i].session.id
                                      ELSE IF i = n + 1 THEN session.id
                                      ELSE IF i = n + 2 THEN item.session.id
                                      ELSE work.session.id]
<1>1. n \in Nat /\ n <= QueueCap /\ QueueCap \in Nat /\ DOMAIN queue = 1 .. n
  BY ClientRoomAssumption DEF TypeOK
<1>2. f \in Surjection(1 .. n + 3, InUse)
  <2>1. ASSUME NEW i \in 1 .. n + 3 PROVE f[i] \in InUse
    <3>1. CASE i <= n
      <4>1. i \in DOMAIN queue /\ f[i] = queue[i].session.id
        BY <1>1, <3>1
      <4> QED BY <4>1 DEF InUse
    <3>2. CASE ~(i <= n)
      BY <1>1, <3>2 DEF InUse
    <3> QED BY <3>1, <3>2
  <2>2. ASSUME NEW id \in InUse PROVE \E i \in 1 .. n + 3 : f[i] = id
    <3>1. n + 1 \in 1 .. n + 3 /\ n + 2 \in 1 .. n + 3 /\ n + 3 \in 1 .. n + 3
      BY <1>1
    <3>2. f[n + 1] = session.id /\ f[n + 2] = item.session.id /\ f[n + 3] = work.session.id
      BY <1>1, <3>1
    <3>3. CASE id \in {session.id, item.session.id, work.session.id}
      BY <3>1, <3>2, <3>3
    <3>4. ASSUME NEW i \in DOMAIN queue, id = queue[i].session.id
          PROVE  \E j \in 1 .. n + 3 : f[j] = id
      <4>1. i \in 1 .. n + 3 /\ i <= n
        BY <1>1
      <4> QED BY <3>4, <4>1
    <3> QED BY <3>3, <3>4 DEF InUse
  <2>3. f \in [1 .. n + 3 -> InUse]
    BY <2>1
  <2> HIDE DEF f
  <2> QED BY <2>2, <2>3 DEF Surjection
<1> HIDE DEF f
<1>3. IsFiniteSet(1 .. n + 3) /\ Cardinality(1 .. n + 3) = n + 3
  <2>1. n + 3 \in Int /\ 1 \in Int /\ ~(1 > n + 3)
    BY <1>1
  <2> QED BY SMTT(30), <1>1, <2>1, FS_Interval
<1>4. IsFiniteSet(Ids) /\ Cardinality(Ids) = QueueCap + 4
  <2>1. QueueCap + 4 \in Int /\ 1 \in Int /\ ~(1 > QueueCap + 4)
    BY <1>1
  <2> QED BY SMTT(30), <1>1, <2>1, FS_Interval
<1>5. IsFiniteSet(InUse) /\ Cardinality(InUse) <= n + 3
  BY <1>2, <1>3, FS_Surjection
<1>6. ~(Ids \subseteq InUse)
  <2> SUFFICES ASSUME Ids \subseteq InUse PROVE FALSE
    OBVIOUS
  <2>1. Cardinality(Ids) <= Cardinality(InUse)
    BY <1>5, FS_Subset
  <2>2. Cardinality(InUse) \in Nat
    BY <1>5, FS_CardinalityType
  <2> QED BY <1>1, <1>4, <1>5, <2>1, <2>2
<1> QED BY <1>6 DEF FreshId

-----------------------------------------------------------------------------
\* The latest change.

\* A set of natural numbers with a bound has a greatest element.
LEMMA GreatestExists ==
    ASSUME NEW n \in Nat, NEW S \in SUBSET (0 .. n), S # {}
    PROVE  \E c \in S : \A d \in S : d <= c
<1> DEFINE R == {pair \in Nat \X Nat : pair[1] < pair[2]}
           T == {n - c : c \in S}
<1>1. IsWellFoundedOn(R, Nat)
  <2>1. R = OpToRel(<, Nat)
    BY DEF OpToRel
  <2> QED BY <2>1, NatLessThanWellFounded
<1>2. \A u, t \in Nat : u < t => <<u, t>> \in R
  OBVIOUS
<1> HIDE DEF R
<1>3. T \subseteq Nat /\ T # {}
  <2>1. \A c \in 0 .. n : n - c \in Nat
    OBVIOUS
  <2> QED BY <2>1
<1>4. PICK t \in T : \A u \in T : ~ (<<u, t>> \in R)
  BY <1>1, <1>3, WFMin
<1>5. PICK c \in S : t = n - c
  OBVIOUS
<1>6. ASSUME NEW d \in S PROVE d <= c
  <2>1. n - d \in T /\ n - d \in Nat /\ t \in Nat /\ c \in 0 .. n /\ d \in 0 .. n
    BY <1>3
  <2>2. ~(n - d < t)
    BY <1>2, <1>4, <2>1
  <2> QED BY <1>5, <2>1, <2>2
<1> QED BY <1>6

LatestIn(history, n, c) ==
    /\ c \in 0 .. n
    /\ c > 0 => history[c]
    /\ \A k \in c + 1 .. n : ~history[k]

\* There is a latest change of every prefix: the initial state counts as one.
LEMMA LatestExists ==
    ASSUME NEW history, NEW n \in Nat
    PROVE  \E c \in 0 .. n : LatestIn(history, n, c)
<1> DEFINE S == {c \in 0 .. n : c > 0 => history[c]}
<1>1. S \in SUBSET (0 .. n) /\ 0 \in S
  OBVIOUS
<1>2. PICK c \in S : \A d \in S : d <= c
  BY <1>1, GreatestExists
<1>3. ASSUME NEW k \in c + 1 .. n PROVE ~history[k]
  <2>1. k \in 0 .. n /\ k > 0 /\ ~(k <= c)
    BY <1>1
  <2> QED BY <1>2, <2>1
<1> QED BY <1>3 DEF LatestIn

\* And only one.
LEMMA LatestUnique ==
    ASSUME NEW history, NEW n \in Nat, NEW c, NEW d,
           LatestIn(history, n, c), LatestIn(history, n, d)
    PROVE  c = d
<1>1. c \in 0 .. n /\ d \in 0 .. n
  BY DEF LatestIn
<1>2. ASSUME c < d PROVE FALSE
  <2>1. d \in c + 1 .. n /\ d > 0
    BY <1>1, <1>2
  <2> QED BY <2>1 DEF LatestIn
<1>3. ASSUME d < c PROVE FALSE
  <2>1. c \in d + 1 .. n /\ c > 0
    BY <1>1, <1>3
  <2> QED BY <2>1 DEF LatestIn
<1> QED BY <1>1, <1>2, <1>3

\* It is what Latest chooses.
LEMMA LatestIs ==
    ASSUME NEW history, NEW n \in Nat
    PROVE  Latest(history, n) \in 0 .. n /\ LatestIn(history, n, Latest(history, n))
<1>1. \E c \in 0 .. n : /\ c > 0 => history[c]
                        /\ \A k \in c + 1 .. n : ~history[k]
  BY LatestExists DEF LatestIn
<1> QED BY <1>1 DEF Latest, LatestIn

\* LatestChange is about the history as it is.
LEMMA LatestChangeIs ==
    ASSUME NEW n
    PROVE  LatestChange(n) = Latest(log, n)
BY DEF LatestChange, Latest

\* What is appended to the history does not change the state of a copy of it.
LEMMA LatestKept ==
    ASSUME NEW history, NEW next, NEW n \in Nat, \A k \in 1 .. n : next[k] = history[k]
    PROVE  Latest(next, n) = Latest(history, n)
<1>1. LatestIn(history, n, Latest(history, n)) /\ LatestIn(next, n, Latest(next, n))
  BY LatestIs
<1>2. LatestIn(next, n, Latest(history, n))
  BY <1>1 DEF LatestIn
<1> QED BY <1>1, <1>2, LatestUnique

\* Nor does an event that is no change.
LEMMA LatestSkips ==
    ASSUME NEW history, NEW n \in Nat, ~history[n + 1]
    PROVE  Latest(history, n + 1) = Latest(history, n)
<1> DEFINE c == Latest(history, n)
<1>1. n + 1 \in Nat
  OBVIOUS
<1>2. LatestIn(history, n, c) /\ LatestIn(history, n + 1, Latest(history, n + 1))
  BY <1>1, LatestIs
<1> HIDE DEF c
<1>3. LatestIn(history, n + 1, c)
  <2>1. \A k \in c + 1 .. n + 1 : k \in c + 1 .. n \/ k = n + 1
    BY <1>2 DEF LatestIn
  <2> QED BY <1>2, <2>1 DEF LatestIn
<1>4. Latest(history, n + 1) = c
  BY <1>1, <1>2, <1>3, LatestUnique
<1> QED BY <1>4 DEF c

\* Notifying one more event.
LEMMA NumbersGrow ==
    ASSUME NEW n \in Nat, n >= 1
    PROVE  Append(Numbers(n - 1), n) = Numbers(n)
<1>1. /\ Numbers(n - 1) \in Seq(Nat) /\ Len(Numbers(n - 1)) = n - 1
      /\ \A k \in 1 .. n - 1 : Numbers(n - 1)[k] = k
  <2>1. \A k \in 1 .. n - 1 : k \in Nat
    OBVIOUS
  <2>2. n - 1 \in Nat /\ Numbers(n - 1) \in [1 .. n - 1 -> Nat]
    BY <2>1 DEF Numbers
  <2> QED BY <2>2, LenProperties DEF Numbers
<1>2. Numbers(n) \in Seq(Nat) /\ Len(Numbers(n)) = n /\ \A k \in 1 .. n : Numbers(n)[k] = k
  <2>1. Numbers(n) \in [1 .. n -> Nat]
    BY DEF Numbers
  <2> QED BY <2>1, LenProperties DEF Numbers
<1> DEFINE longer == Append(Numbers(n - 1), n)
<1>3. /\ longer \in Seq(Nat) /\ Len(longer) = n
      /\ \A k \in 1 .. n : longer[k] = k
  BY <1>1
<1> HIDE DEF longer
<1>4. longer = Numbers(n)
  BY <1>2, <1>3, SeqEqual
<1> QED BY <1>4 DEF longer

-----------------------------------------------------------------------------
\* Records.

\* An item that is worked on.
LEMMA MovedItem ==
    ASSUME NEW it \in Items, NEW at \in {"sync", "append"}, NEW next, next = [it EXCEPT !.at = at]
    PROVE  /\ next \in Items
           /\ next.at = at /\ next.session = it.session /\ next.event = it.event
           /\ next.waited = it.waited /\ next.durable = it.durable /\ next.failed = it.failed
BY DEF Items

\* Work that goes on to its next step,
LEMMA MovedWork ==
    ASSUME NEW w \in Works, NEW at \in {"page", "state", "synced", "emit", "refresh"},
           NEW next, next = [w EXCEPT !.at = at]
    PROVE  /\ next \in Works /\ next.by = w.by /\ next.at = at /\ next.session = w.session
           /\ next.projection = w.projection /\ next.upto = w.upto
BY DEF Works

\* or to its next event.
LEMMA AdvancedWork ==
    ASSUME NEW w \in Works, NEW n \in Nat, NEW next, next = [w EXCEPT !.projection = n]
    PROVE  /\ next \in Works /\ next.by = w.by /\ next.at = w.at /\ next.session = w.session
           /\ next.projection = n /\ next.upto = w.upto
BY DEF Works

\* The constants, as the solver needs them.
LEMMA Constants ==
    /\ QueueCap \in Nat /\ QueueCap >= 1 /\ PageLimit \in Nat /\ PageLimit >= 1
    /\ MaxResets \in Nat /\ MaxFaults \in Nat /\ MaxEvents \in Nat
BY ClientRoomAssumption

\* The work, items, dials and sessions that the steps start from.
LEMMA NewRecords ==
    ASSUME TypeOK
    PROVE  /\ NoSession \in Sessions /\ NoSession.epoch = 0 /\ NoSession.id = 0
           /\ NoWork \in Works /\ NoWork.by = "none" /\ NoWork.at = "none"
           /\ NoItem \in Items /\ NoItem.at = "none" /\ NoItem.event = 0
           /\ NoItem.durable = FALSE /\ NoItem.failed = FALSE
           /\ NoDial \in [dialing : BOOLEAN, epoch : 0 .. MaxResets + 1]
           /\ \A by \in {"connect", "ingest"}, s \in Sessions :
                /\ Synchronize(by, s) \in Works
                /\ Synchronize(by, s).by = by /\ Synchronize(by, s).at = "page"
                /\ Synchronize(by, s).session = s /\ Synchronize(by, s).projection = stored
           /\ \A s \in Sessions :
                /\ Ingest(s) \in Works /\ Ingest(s).by = "ingest" /\ Ingest(s).at = "append"
                /\ Ingest(s).session = s
<1>1. NoSession \in Sessions /\ NoSession.epoch = 0 /\ NoSession.id = 0
  BY Constants DEF NoSession, Sessions
<1>2. stored \in Nat
  BY DEF TypeOK
<1>3. NoWork \in Works /\ NoWork.by = "none" /\ NoWork.at = "none"
  BY <1>1 DEF NoWork, Works
<1>4. NoItem \in Items /\ NoItem.at = "none" /\ NoItem.event = 0
      /\ NoItem.durable = FALSE /\ NoItem.failed = FALSE
  BY <1>1 DEF NoItem, Items
<1>5. NoDial \in [dialing : BOOLEAN, epoch : 0 .. MaxResets + 1]
  BY Constants DEF NoDial
<1>6. ASSUME NEW by \in {"connect", "ingest"}, NEW s \in Sessions
      PROVE  /\ Synchronize(by, s) \in Works
             /\ Synchronize(by, s).by = by /\ Synchronize(by, s).at = "page"
             /\ Synchronize(by, s).session = s /\ Synchronize(by, s).projection = stored
  BY <1>2 DEF Synchronize, Works
<1>7. ASSUME NEW s \in Sessions
      PROVE  /\ Ingest(s) \in Works /\ Ingest(s).by = "ingest" /\ Ingest(s).at = "append"
             /\ Ingest(s).session = s
  BY DEF Ingest, Works
<1> QED BY <1>1, <1>3, <1>4, <1>5, <1>6, <1>7

-----------------------------------------------------------------------------
\* Types and bounds.

\* Nothing is in flight at the start.
LEMMA InitBasic == Init => TypeOK /\ BoundInv
<1> SUFFICES ASSUME Init PROVE TypeOK /\ BoundInv
  OBVIOUS
<1>1. /\ log = <<>> /\ queue = <<>> /\ emitted = <<>>
      /\ log \in Seq(BOOLEAN) /\ queue \in Seq(Entries) /\ emitted \in Seq(Nat)
      /\ Len(log) = 0 /\ Len(queue) = 0 /\ DOMAIN queue = {}
  BY DEF Init
<1>2. NoSession \in Sessions
  BY Constants DEF NoSession, Sessions
<1>3. NoWork \in Works /\ NoWork.at = "none"
  BY <1>2 DEF NoWork, Works
<1>4. NoItem \in Items /\ NoItem.at = "none"
  BY <1>2 DEF NoItem, Items
<1>5. NoDial \in [dialing : BOOLEAN, epoch : 0 .. MaxResets + 1]
  BY Constants DEF NoDial
<1>6. /\ stored = 0 /\ projection = 0 /\ state = 0 /\ handle = "running" /\ identity = 1
      /\ session = NoSession /\ dial = NoDial /\ work = NoWork /\ item = NoItem
      /\ confirmed = {} /\ resets = 0 /\ faults = 0
  BY DEF Init
<1>7. TypeOK
  BY <1>1, <1>2, <1>3, <1>4, <1>5, <1>6, Constants DEF TypeOK
<1>8. BoundInv
  BY <1>1, <1>3, <1>4, <1>6 DEF BoundInv
<1> QED BY <1>7, <1>8

\* What a step that does not touch them may take for granted.
LEMMA Basics ==
    ASSUME TypeOK, BoundInv
    PROVE  /\ Len(log) \in Nat
           /\ stored \in 0 .. Len(log) /\ projection \in 0 .. Len(log)
           /\ state \in 0 .. Len(log)
           /\ handle \in {"running", "leaving", "none"}
           /\ resets \in 0 .. MaxResets /\ identity \in 1 .. resets + 1
           /\ session \in Sessions /\ dial \in [dialing : BOOLEAN, epoch : 0 .. MaxResets + 1]
           /\ work \in Works /\ (work.at = "store" => work.upto <= Len(log))
           /\ item \in Items
           /\ (item.at # "none" => item.event \in 1 .. Len(log) /\ item.session # NoSession)
           /\ queue \in Seq(Entries) /\ Len(queue) <= QueueCap
           /\ \A i \in DOMAIN queue : queue[i].event \in 1 .. Len(log)
                                      /\ queue[i].session # NoSession
           /\ emitted \in Seq(Nat) /\ confirmed \subseteq Nat /\ faults \in 0 .. MaxFaults
BY Constants DEF TypeOK, BoundInv

\* Faults are counted up to their bound.
LEMMA FaultType ==
    ASSUME faults \in 0 .. MaxFaults, Fault \/ NoFault
    PROVE  faults' \in 0 .. MaxFaults
BY Constants DEF Fault, NoFault

\* A pair that is put into the queue, if there is room.
LEMMA EnqueueType ==
    ASSUME TypeOK, BoundInv, NEW n \in 1 .. Len(log), NEW waited \in BOOLEAN,
           session # NoSession,
           Enqueue([session |-> session, event |-> n, waited |-> waited])
    PROVE  /\ queue' \in Seq(Entries) /\ Len(queue') <= QueueCap
           /\ \A i \in DOMAIN queue' : queue'[i].event \in 1 .. Len(log)
                                       /\ queue'[i].session # NoSession
           /\ session' \in {session, NoSession} /\ faults' \in 0 .. MaxFaults
<1> DEFINE entry == [session |-> session, event |-> n, waited |-> waited]
<1>1. /\ queue \in Seq(Entries) /\ Len(queue) <= QueueCap /\ session \in Sessions
      /\ \A i \in DOMAIN queue : queue[i].event \in 1 .. Len(log) /\ queue[i].session # NoSession
      /\ Len(log) \in Nat /\ faults \in 0 .. MaxFaults
  BY Basics
<1>2. entry \in Entries /\ entry.event = n /\ entry.session = session
  BY <1>1 DEF Entries
<1> HIDE DEF entry
<1>3. CASE Len(queue) < QueueCap
  <2>1. queue' = Append(queue, entry) /\ session' = session /\ faults' = faults
    BY <1>3 DEF Enqueue, entry, NoFault
  <2>2. /\ queue' \in Seq(Entries) /\ Len(queue') = Len(queue) + 1
        /\ \A i \in DOMAIN queue' : \/ i \in DOMAIN queue /\ queue'[i] = queue[i]
                                    \/ queue'[i] = entry
    BY <1>1, <1>2, <2>1
  <2> QED BY <1>1, <1>2, <1>3, <2>1, <2>2, Constants
<1>4. CASE ~(Len(queue) < QueueCap)
  BY <1>1, <1>4, FaultType DEF Enqueue
<1> QED BY <1>3, <1>4

\* The queue without its first entry.
LEMMA TakenType ==
    ASSUME TypeOK, BoundInv, queue # <<>>
    PROVE  /\ Tail(queue) \in Seq(Entries) /\ Len(Tail(queue)) <= QueueCap
           /\ \A i \in DOMAIN Tail(queue) : Tail(queue)[i].event \in 1 .. Len(log)
                                            /\ Tail(queue)[i].session # NoSession
           /\ Head(queue) \in Entries /\ Head(queue).event \in 1 .. Len(log)
           /\ Head(queue).session # NoSession
<1>1. /\ queue \in Seq(Entries) /\ Len(queue) <= QueueCap
      /\ \A i \in DOMAIN queue : queue[i].event \in 1 .. Len(log) /\ queue[i].session # NoSession
  BY Basics
<1>2. /\ Len(queue) \in Nat /\ Len(queue) >= 1 /\ Head(queue) = queue[1]
      /\ Tail(queue) \in Seq(Entries) /\ Len(Tail(queue)) = Len(queue) - 1
      /\ \A i \in 1 .. Len(queue) - 1 : Tail(queue)[i] = queue[i + 1]
  BY <1>1
<1>3. \A i \in DOMAIN Tail(queue) : i + 1 \in DOMAIN queue /\ Tail(queue)[i] = queue[i + 1]
  BY <1>1, <1>2
<1>4. Len(Tail(queue)) <= QueueCap
  BY <1>1, <1>2, Constants
<1>5. 1 \in DOMAIN queue
  BY <1>1, <1>2
<1> QED BY <1>1, <1>2, <1>3, <1>4, <1>5

-----------------------------------------------------------------------------
\* The steps of the sequencer and of the goroutine that keeps a session.

\* A new event leaves every copy of the history as good as it was.
LEMMA CommitKeeps ==
    ASSUME RoomInv, NEW changes \in BOOLEAN, SequencerCommits(changes)
    PROVE  RoomInv'
<1>1. TypeOK /\ BoundInv
  BY DEF RoomInv, Core
<1>2. /\ log' = Append(log, changes) /\ stored' = stored /\ session' = session
      /\ projection' = projection /\ state' = state /\ emitted' = emitted
      /\ handle' = handle /\ identity' = identity /\ dial' = dial /\ work' = work
      /\ queue' = queue /\ item' = item /\ confirmed' = confirmed /\ resets' = resets
      /\ faults' = faults
  BY DEF SequencerCommits, room
<1>3. /\ log \in Seq(BOOLEAN) /\ log' \in Seq(BOOLEAN)
      /\ Len(log) \in Nat /\ Len(log') = Len(log) + 1
      /\ \A k \in 1 .. Len(log) : log'[k] = log[k]
  BY <1>1, <1>2 DEF TypeOK
<1>4. \A k \in 1 .. Len(log) : k \in 1 .. Len(log')
  BY <1>3
<1>5. \A k \in 0 .. Len(log) : k \in 0 .. Len(log')
  BY <1>3
<1>6. TypeOK'
  BY <1>1, <1>2, <1>3, <1>5 DEF TypeOK
<1>7. BoundInv'
  <2>1. work.at = "store" => work.upto <= Len(log')
    BY <1>1, <1>3 DEF BoundInv, TypeOK, Works
  <2> QED BY <1>1, <1>2, <1>4, <2>1 DEF BoundInv
<1>8. Latest(log', stored) = Latest(log, stored)
  <2>1. stored \in 0 .. Len(log)
    BY <1>1 DEF TypeOK
  <2>2. stored \in Nat /\ \A k \in 1 .. stored : k \in 1 .. Len(log)
    BY <1>3, <2>1
  <2>3. \A k \in 1 .. stored : log'[k] = log[k]
    BY <1>3, <2>2
  <2> QED BY <2>2, <2>3, LatestKept
<1>9. LockInv' /\ QuietInv' /\ DurableInv' /\ NotifiedInv'
  BY <1>2 DEF RoomInv, Core, LockInv, QuietInv, DurableInv, NotifiedInv, Unsaid, Running
<1>10. CopyInv'
  BY <1>2, <1>8 DEF RoomInv, Core, CopyInv, Agreed
<1>11. SessionOfIdentity' /\ ConfirmedIsDurable'
  BY <1>2 DEF RoomInv, Core, SessionOfIdentity, ConfirmedIsDurable
<1> QED BY <1>6, <1>7, <1>9, <1>10, <1>11 DEF RoomInv, Core

\* A session can end at any time, and with it what a dial or a fault changes.
LEMMA SessionEnds ==
    ASSUME RoomInv, session' \in {session, NoSession}, faults' \in 0 .. MaxFaults,
           dial' \in {dial, NoDial},
           UNCHANGED <<log, stored, projection, state, emitted, handle, identity, work, queue,
                       item, confirmed, resets>>
    PROVE  RoomInv'
<1>1. TypeOK /\ BoundInv
  BY DEF RoomInv, Core
<1>2. /\ log' = log /\ stored' = stored /\ projection' = projection /\ state' = state
      /\ emitted' = emitted /\ handle' = handle /\ identity' = identity /\ work' = work
      /\ queue' = queue /\ item' = item /\ confirmed' = confirmed /\ resets' = resets
  OBVIOUS
<1>3. session' \in Sessions
  <2>1. session \in Sessions /\ NoSession \in Sessions
    BY <1>1, NewRecords DEF TypeOK
  <2> QED BY <2>1
<1>4. dial' \in [dialing : BOOLEAN, epoch : 0 .. MaxResets + 1]
  <2>1. /\ dial \in [dialing : BOOLEAN, epoch : 0 .. MaxResets + 1]
        /\ NoDial \in [dialing : BOOLEAN, epoch : 0 .. MaxResets + 1]
    BY <1>1, NewRecords DEF TypeOK
  <2> QED BY <2>1
<1>5. TypeOK'
  BY <1>1, <1>2, <1>3, <1>4 DEF TypeOK
<1>6. BoundInv'
  BY <1>1, <1>2 DEF BoundInv
<1>7. LockInv' /\ QuietInv' /\ DurableInv' /\ NotifiedInv'
  BY DEF RoomInv, Core, LockInv, QuietInv, DurableInv, NotifiedInv, Unsaid, Running
<1>8. CopyInv'
  BY DEF RoomInv, Core, CopyInv, Agreed
<1>9. SessionOfIdentity' /\ ConfirmedIsDurable'
  BY DEF RoomInv, Core, SessionOfIdentity, ConfirmedIsDurable
<1> QED BY <1>5, <1>6, <1>7, <1>8, <1>9 DEF RoomInv, Core

\* A dial remembers the identity it is made with.
LEMMA DialKeeps == RoomInv /\ Dial => RoomInv'
<1> SUFFICES ASSUME RoomInv, Dial PROVE RoomInv'
  OBVIOUS
<1>1. TypeOK /\ BoundInv
  BY DEF RoomInv, Core
<1>2. /\ log' = log /\ stored' = stored /\ session' = session
      /\ projection' = projection /\ state' = state /\ emitted' = emitted
      /\ handle' = handle /\ identity' = identity /\ work' = work
      /\ queue' = queue /\ item' = item /\ confirmed' = confirmed /\ resets' = resets
      /\ faults' = faults /\ handle = "running"
      /\ dial' = [dialing |-> TRUE, epoch |-> identity]
  BY DEF Dial, room, Running
<1>3. dial' \in [dialing : BOOLEAN, epoch : 0 .. MaxResets + 1]
  BY <1>1, <1>2, Constants DEF TypeOK
<1>4. TypeOK'
  BY <1>1, <1>2, <1>3 DEF TypeOK
<1>5. BoundInv'
  BY <1>1, <1>2 DEF BoundInv
<1>6. LockInv' /\ QuietInv' /\ DurableInv' /\ NotifiedInv'
  BY <1>2 DEF RoomInv, Core, LockInv, QuietInv, DurableInv, NotifiedInv, Unsaid, Running
<1>7. CopyInv'
  BY <1>2 DEF RoomInv, Core, CopyInv, Agreed
<1>8. SessionOfIdentity' /\ ConfirmedIsDurable'
  BY <1>2 DEF RoomInv, Core, SessionOfIdentity, ConfirmedIsDurable
<1> QED BY <1>4, <1>5, <1>6, <1>7, <1>8 DEF RoomInv, Core

\* It may fail, with a fault or because the room is left.
LEMMA DialFailsKeeps == RoomInv /\ DialFails => RoomInv'
<1> SUFFICES ASSUME RoomInv, DialFails PROVE RoomInv'
  OBVIOUS
<1>1. faults' \in 0 .. MaxFaults
  BY FaultType DEF RoomInv, TypeOK, DialFails
<1> QED BY <1>1, SessionEnds DEF DialFails, room

\* The connection may break at any time.
LEMMA SessionBreaksKeeps == RoomInv /\ SessionBreaks => RoomInv'
<1> SUFFICES ASSUME RoomInv, SessionBreaks PROVE RoomInv'
  OBVIOUS
<1>1. faults' \in 0 .. MaxFaults
  BY FaultType DEF RoomInv, TypeOK, SessionBreaks
<1> QED BY <1>1, SessionEnds DEF SessionBreaks

\* A session is installed with its identity, and the lock is held until it is
\* synchronized.
LEMMA InstallKeeps == RoomInv /\ Install => RoomInv'
<1> SUFFICES ASSUME RoomInv, Install PROVE RoomInv'
  OBVIOUS
<1> DEFINE s == [id |-> FreshId, epoch |-> dial.epoch]
<1>1. TypeOK /\ BoundInv
  BY DEF RoomInv, Core
<1>2. /\ log' = log /\ stored' = stored /\ projection' = projection /\ state' = state
      /\ emitted' = emitted /\ handle' = handle /\ identity' = identity
      /\ queue' = queue /\ item' = item /\ confirmed' = confirmed /\ resets' = resets
      /\ faults' = faults /\ dial' = NoDial /\ work = NoWork /\ dial.dialing
  BY DEF Install
<1>3. CASE ~Installable
  <2>1. session' = session /\ work' = work
    BY <1>3 DEF Install
  <2> QED BY <1>1, <1>2, <2>1, SessionEnds DEF TypeOK
<1>4. CASE Installable
  <2>1. session' = s /\ work' = Synchronize("connect", s)
    BY <1>4 DEF Install
  <2>2. FreshId \in 1 .. QueueCap + 4 /\ dial.epoch = identity
    BY <1>1, <1>4, FreshIdExists DEF Installable
  <2>3. s \in Sessions /\ s # NoSession /\ s.epoch = identity
    BY <1>1, <2>2, Constants DEF TypeOK, Sessions, NoSession
  <2> HIDE DEF s
  <2>4. /\ work' \in Works /\ work'.by = "connect" /\ work'.at = "page"
        /\ work'.session = s /\ work'.projection = stored
    BY <1>1, <2>1, <2>3, NewRecords
  <2>5. work.by = "none" /\ work.at = "none" /\ NoDial.dialing = FALSE
        /\ NoDial \in [dialing : BOOLEAN, epoch : 0 .. MaxResets + 1]
    BY <1>1, <1>2, NewRecords DEF NoDial
  <2>6. TypeOK'
    BY <1>1, <1>2, <2>1, <2>3, <2>4, <2>5 DEF TypeOK
  <2>7. BoundInv'
    BY <1>1, <1>2, <2>4 DEF BoundInv
  <2>8. LockInv'
    BY <1>2, <2>1, <2>4, <2>5 DEF RoomInv, Core, LockInv
  <2>9. QuietInv'
    BY <1>2, <2>4, <2>5 DEF RoomInv, Core, QuietInv
  <2>10. CopyInv' /\ DurableInv'
    BY <1>2, <2>4 DEF RoomInv, Core, CopyInv, DurableInv
  <2>11. NotifiedInv'
    BY <1>2, <2>4, <2>5 DEF RoomInv, Core, NotifiedInv, Unsaid, Running
  <2>12. SessionOfIdentity' /\ ConfirmedIsDurable'
    BY <1>2, <2>1, <2>3 DEF RoomInv, Core, SessionOfIdentity, ConfirmedIsDurable
  <2> QED BY <2>6, <2>7, <2>8, <2>9, <2>10, <2>11, <2>12 DEF RoomInv, Core
<1> QED BY <1>3, <1>4

-----------------------------------------------------------------------------
\* The steps of the ingestion goroutine and its queue.

\* A commit is put into the queue, or the session is closed.
LEMMA EnqueueKeeps ==
    ASSUME RoomInv, NEW n \in 1 .. Len(log), NEW waited \in BOOLEAN, Running,
           session # NoSession,
           Enqueue([session |-> session, event |-> n, waited |-> waited]),
           UNCHANGED <<log, stored, projection, state, emitted, handle, identity, dial, work,
                       item, confirmed, resets>>
    PROVE  RoomInv'
<1>1. TypeOK /\ BoundInv
  BY DEF RoomInv, Core
<1>2. /\ queue' \in Seq(Entries) /\ Len(queue') <= QueueCap
      /\ \A i \in DOMAIN queue' : queue'[i].event \in 1 .. Len(log)
                                  /\ queue'[i].session # NoSession
      /\ session' \in {session, NoSession} /\ faults' \in 0 .. MaxFaults
  BY <1>1, EnqueueType
<1>3. /\ log' = log /\ stored' = stored /\ projection' = projection /\ state' = state
      /\ emitted' = emitted /\ handle' = handle /\ identity' = identity /\ dial' = dial
      /\ work' = work /\ item' = item /\ confirmed' = confirmed /\ resets' = resets
  OBVIOUS
<1>4. session' \in Sessions
  <2>1. session \in Sessions /\ NoSession \in Sessions
    BY <1>1, NewRecords DEF TypeOK
  <2> QED BY <1>2, <2>1
<1>5. TypeOK'
  BY <1>1, <1>2, <1>3, <1>4 DEF TypeOK
<1>6. BoundInv'
  BY <1>1, <1>2, <1>3 DEF BoundInv
<1>7. LockInv' /\ QuietInv' /\ DurableInv' /\ NotifiedInv'
  BY <1>2 DEF RoomInv, Core, LockInv, QuietInv, DurableInv, NotifiedInv, Unsaid, Running
<1>8. CopyInv'
  BY <1>2 DEF RoomInv, Core, CopyInv, Agreed
<1>9. SessionOfIdentity' /\ ConfirmedIsDurable'
  BY <1>2 DEF RoomInv, Core, SessionOfIdentity, ConfirmedIsDurable
<1> QED BY <1>5, <1>6, <1>7, <1>8, <1>9 DEF RoomInv, Core

\* An entry of the queue becomes the item.
LEMMA TakeItemKeeps == RoomInv /\ TakeItem => RoomInv'
<1> SUFFICES ASSUME RoomInv, TakeItem PROVE RoomInv'
  OBVIOUS
<1>1. TypeOK /\ BoundInv
  BY DEF RoomInv, Core
<1>2. /\ log' = log /\ stored' = stored /\ session' = session
      /\ projection' = projection /\ state' = state /\ emitted' = emitted
      /\ handle' = handle /\ identity' = identity /\ dial' = dial /\ work' = work
      /\ queue' = Tail(queue) /\ confirmed' = confirmed /\ resets' = resets
      /\ faults' = faults /\ handle = "running" /\ item = NoItem /\ queue # <<>>
      /\ item' = [at |-> "lock", session |-> Head(queue).session, event |-> Head(queue).event,
                  waited |-> Head(queue).waited, durable |-> FALSE, failed |-> FALSE]
  BY DEF TakeItem, room, Running
<1>3. /\ Tail(queue) \in Seq(Entries) /\ Len(Tail(queue)) <= QueueCap
      /\ \A i \in DOMAIN Tail(queue) : Tail(queue)[i].event \in 1 .. Len(log)
                                       /\ Tail(queue)[i].session # NoSession
      /\ Head(queue) \in Entries /\ Head(queue).event \in 1 .. Len(log)
      /\ Head(queue).session # NoSession
  BY <1>1, <1>2, TakenType
<1>4. item' \in Items /\ item'.at = "lock" /\ item'.durable = FALSE
  BY <1>2, <1>3 DEF Items, Entries
<1>5. item'.event = Head(queue).event /\ item'.session = Head(queue).session
  BY <1>2
<1>6. NoItem.at = "none"
  BY <1>1, NewRecords
<1>7. TypeOK'
  BY <1>1, <1>2, <1>3, <1>4 DEF TypeOK
<1>8. BoundInv'
  BY <1>1, <1>2, <1>3, <1>5 DEF BoundInv
<1>9. LockInv'
  BY <1>2, <1>4, <1>6 DEF RoomInv, Core, LockInv
<1>10. QuietInv'
  BY <1>2 DEF RoomInv, Core, QuietInv
<1>11. CopyInv'
  <2>1. work.at \notin {"refresh", "emit"}
    <3>1. work.by \in {"none", "connect", "ingest"} /\ NoWork.at = "none"
      BY <1>1, NewRecords DEF TypeOK, Works
    <3> QED BY <1>2, <1>6, <3>1 DEF RoomInv, Core, LockInv
  <2> QED BY <1>2, <1>6, <2>1 DEF RoomInv, Core, CopyInv, Agreed
<1>12. DurableInv' /\ NotifiedInv'
  BY <1>2, <1>4 DEF RoomInv, Core, DurableInv, NotifiedInv, Unsaid, Running
<1>13. SessionOfIdentity' /\ ConfirmedIsDurable'
  BY <1>2 DEF RoomInv, Core, SessionOfIdentity, ConfirmedIsDurable
<1> QED BY <1>7, <1>8, <1>9, <1>10, <1>11, <1>12, <1>13 DEF RoomInv, Core

\* The item is dropped, or work on it begins: a page is asked for only from a
\* session that is current, and an event is only appended to a copy that agrees.
LEMMA ProcessItemKeeps == RoomInv /\ ProcessItem => RoomInv'
<1> SUFFICES ASSUME RoomInv, ProcessItem PROVE RoomInv'
  OBVIOUS
<1>1. TypeOK /\ BoundInv
  BY DEF RoomInv, Core
<1>2. /\ log' = log /\ stored' = stored /\ session' = session
      /\ projection' = projection /\ state' = state /\ emitted' = emitted
      /\ handle' = handle /\ identity' = identity /\ dial' = dial
      /\ queue' = queue /\ confirmed' = confirmed /\ resets' = resets
      /\ faults' = faults /\ item.at = "lock" /\ work = NoWork
  BY DEF ProcessItem, room
<1>3. /\ item \in Items /\ NoWork.by = "none" /\ NoWork.at = "none" /\ NoWork \in Works
      /\ NoItem.at = "none" /\ item.event \in 1 .. Len(log) /\ item.session # NoSession
      /\ item.session \in Sessions
  BY <1>1, <1>2, NewRecords DEF TypeOK, BoundInv, Items
<1>4. handle # "none"
  BY <1>2, <1>3 DEF RoomInv, Core, QuietInv
<1>5. CASE ~IsCurrent(item.session) \/ ~Running
  <2>1. item' = [item EXCEPT !.at = "done", !.durable = FALSE, !.failed = TRUE]
        /\ work' = NoWork
    BY <1>5 DEF ProcessItem, Processed
  <2>2. /\ item' \in Items /\ item'.at = "done" /\ item'.session = item.session
        /\ item'.event = item.event /\ item'.durable = FALSE
    <3>1. item \in Items
      BY <1>3
    <3> QED BY <2>1, <3>1 DEF Items
  <2>3. TypeOK'
    BY <1>1, <1>2, <1>3, <2>1, <2>2 DEF TypeOK
  <2>4. BoundInv'
    BY <1>1, <1>2, <1>3, <2>1, <2>2 DEF BoundInv
  <2>5. LockInv' /\ QuietInv'
    BY <1>2, <1>3, <1>4, <2>1, <2>2 DEF RoomInv, Core, LockInv, QuietInv
  <2>6. CopyInv'
    BY <1>2, <1>3, <2>1 DEF RoomInv, Core, CopyInv, Agreed
  <2>7. DurableInv' /\ NotifiedInv'
    BY <1>2, <1>3, <2>1, <2>2 DEF RoomInv, Core, DurableInv, NotifiedInv, Unsaid, Running
  <2>8. SessionOfIdentity' /\ ConfirmedIsDurable'
    BY <1>2 DEF RoomInv, Core, SessionOfIdentity, ConfirmedIsDurable
  <2> QED BY <2>3, <2>4, <2>5, <2>6, <2>7, <2>8 DEF RoomInv, Core
<1>6. ASSUME session = item.session, handle = "running",
             NEW at \in {"sync", "append"}, item' = [item EXCEPT !.at = at],
             work' \in {Synchronize("ingest", item.session), Ingest(item.session)}
      PROVE  RoomInv'
  <2>1. /\ item' \in Items /\ item'.at = at /\ item'.session = item.session
        /\ item'.event = item.event /\ item'.durable = item.durable
    BY <1>3, <1>6, MovedItem
  <2>2. /\ work' \in Works /\ work'.by = "ingest" /\ work'.at \in {"page", "append"}
        /\ work'.session = item.session /\ (work'.at = "page" => work'.projection = stored)
    BY <1>1, <1>3, <1>6, NewRecords
  <2>3. TypeOK'
    BY <1>1, <1>2, <2>1, <2>2 DEF TypeOK
  <2>4. BoundInv'
    BY <1>1, <1>2, <1>3, <2>1, <2>2 DEF BoundInv
  <2>5. LockInv' /\ QuietInv'
    BY <1>2, <1>3, <1>6, <2>1, <2>2 DEF RoomInv, Core, LockInv, QuietInv
  <2>6. CopyInv'
    BY <1>2, <1>3, <1>6, <2>2 DEF RoomInv, Core, CopyInv, Agreed
  <2>7. DurableInv' /\ NotifiedInv'
    BY <1>2, <1>3, <2>1, <2>2 DEF RoomInv, Core, DurableInv, NotifiedInv, Unsaid, Running
  <2>8. SessionOfIdentity' /\ ConfirmedIsDurable'
    BY <1>2 DEF RoomInv, Core, SessionOfIdentity, ConfirmedIsDurable
  <2> QED BY <2>3, <2>4, <2>5, <2>6, <2>7, <2>8 DEF RoomInv, Core
<1>7. CASE IsCurrent(item.session) /\ Running
  <2>1. session = item.session /\ handle = "running"
    BY <1>7 DEF IsCurrent, Running
  <2>2. CASE item.event > stored + 1
    <3>1. item' = [item EXCEPT !.at = "sync"] /\ work' = Synchronize("ingest", item.session)
      BY <1>7, <2>2 DEF ProcessItem
    <3> QED BY <1>6, <2>1, <3>1
  <2>3. CASE ~(item.event > stored + 1)
    <3>1. item' = [item EXCEPT !.at = "append"] /\ work' = Ingest(item.session)
      BY <1>7, <2>3 DEF ProcessItem
    <3> QED BY <1>6, <2>1, <3>1
  <2> QED BY <2>2, <2>3
<1> QED BY <1>5, <1>7

\* The step that stores an event extends the copy by one, and the projection with it.
LEMMA AppendItemKeeps == RoomInv /\ AppendItem => RoomInv'
<1> SUFFICES ASSUME RoomInv, AppendItem PROVE RoomInv'
  OBVIOUS
<1>1. TypeOK /\ BoundInv
  BY DEF RoomInv, Core
<1>2. /\ log' = log /\ session' = session /\ state' = state /\ emitted' = emitted
      /\ handle' = handle /\ identity' = identity /\ dial' = dial
      /\ queue' = queue /\ confirmed' = confirmed /\ resets' = resets
      /\ faults' = faults /\ work.by = "ingest" /\ work.at = "append"
  BY DEF AppendItem
<1>3. item \in Items
  BY <1>1 DEF TypeOK
<1>4. /\ item.at \in {"sync", "append"} /\ item.event \in 1 .. Len(log)
      /\ item.session # NoSession /\ work \in Works
      /\ work.session = item.session /\ session \in {NoSession, item.session}
  BY <1>1, <1>2 DEF RoomInv, Core, LockInv, BoundInv, TypeOK
<1>5. Agreed
  BY <1>2 DEF RoomInv, Core, CopyInv
<1>6. /\ NoWork \in Works /\ NoWork.by = "none" /\ NoWork.at = "none" /\ NoItem.at = "none"
      /\ handle # "none"
  <2>1. NoWork \in Works /\ NoWork.by = "none" /\ NoWork.at = "none" /\ NoItem.at = "none"
    BY <1>1, NewRecords
  <2> QED BY <1>2, <2>1 DEF RoomInv, Core, QuietInv
<1>7. SessionOfIdentity'
  BY <1>2 DEF RoomInv, Core, SessionOfIdentity
<1>8. ASSUME work' = NoWork, stored' = stored, projection' = projection,
             item' \in Items, item'.at = "done", item'.event = item.event,
             item'.session = item.session, item'.durable => item.event <= stored
      PROVE  RoomInv'
  <2>1. TypeOK'
    BY <1>1, <1>2, <1>6, <1>8 DEF TypeOK
  <2>2. BoundInv'
    BY <1>1, <1>2, <1>4, <1>6, <1>8 DEF BoundInv
  <2>3. LockInv' /\ QuietInv'
    BY <1>2, <1>4, <1>6, <1>8 DEF RoomInv, Core, LockInv, QuietInv
  <2>4. CopyInv' /\ DurableInv'
    BY <1>2, <1>5, <1>6, <1>8 DEF RoomInv, Core, CopyInv, DurableInv, Agreed
  <2>5. NotifiedInv' /\ ConfirmedIsDurable'
    BY <1>2, <1>6, <1>8 DEF RoomInv, Core, NotifiedInv, Unsaid, Running, ConfirmedIsDurable
  <2> QED BY <1>7, <2>1, <2>2, <2>3, <2>4, <2>5 DEF RoomInv, Core
<1>9. CASE item.event <= stored /\ Running
  <2>1. item' = [item EXCEPT !.at = "done", !.durable = TRUE, !.failed = FALSE]
    BY <1>9 DEF AppendItem, Processed
  <2>2. work' = NoWork /\ stored' = stored /\ projection' = projection
    BY <1>9 DEF AppendItem, Processed
  <2>3. /\ item' \in Items /\ item'.at = "done" /\ item'.session = item.session
        /\ item'.event = item.event
    BY <1>3, <2>1 DEF Items
  <2> QED BY <1>8, <1>9, <2>2, <2>3
<1>10. CASE ~(item.event <= stored /\ Running)
            /\ (projection # stored \/ item.event # stored + 1 \/ ~Running)
  <2>1. item' = [item EXCEPT !.at = "done", !.durable = FALSE, !.failed = TRUE]
    BY <1>10 DEF AppendItem, Processed
  <2>2. work' = NoWork /\ stored' = stored /\ projection' = projection
    BY <1>10 DEF AppendItem, Processed
  <2>3. /\ item' \in Items /\ item'.at = "done" /\ item'.session = item.session
        /\ item'.event = item.event /\ item'.durable = FALSE
    BY <1>3, <2>1 DEF Items
  <2> QED BY <1>8, <2>2, <2>3
<1>11. CASE ~(item.event <= stored /\ Running)
            /\ ~(projection # stored \/ item.event # stored + 1 \/ ~Running)
  <2>1. /\ stored' = item.event /\ projection' = item.event /\ item' = item
        /\ work' = [work EXCEPT !.at = IF log[item.event] THEN "refresh" ELSE "emit"]
        /\ item.event = stored + 1 /\ handle = "running"
    BY <1>11 DEF AppendItem, Running
  <2>2. /\ work' \in Works /\ work'.by = "ingest" /\ work'.session = work.session
        /\ work'.at = IF log[item.event] THEN "refresh" ELSE "emit"
    BY <1>2, <1>4, <2>1, MovedWork
  <2>3. stored \in Nat /\ stored + 1 \in Nat /\ stored + 1 \in 1 .. Len(log)
        /\ stored + 1 \in 0 .. Len(log)
    BY <1>1, <1>4, <2>1 DEF TypeOK
  <2>4. TypeOK'
    BY <1>1, <1>2, <2>1, <2>2, <2>3 DEF TypeOK
  <2>5. BoundInv'
    BY <1>1, <1>2, <1>4, <2>1, <2>2 DEF BoundInv
  <2>6. LockInv' /\ QuietInv'
    BY <1>2, <1>4, <1>6, <2>1, <2>2 DEF RoomInv, Core, LockInv, QuietInv
  <2>7. CopyInv'
    <3>1. work'.at = "emit" => Latest(log, stored + 1) = Latest(log, stored)
      BY <2>1, <2>2, <2>3, LatestSkips
    <3>2. work'.at = "emit" => state' = Latest(log', stored')
      BY <1>2, <1>5, <2>1, <3>1 DEF Agreed
    <3>3. projection' = stored' /\ item'.event = stored'
      BY <2>1
    <3> QED BY <2>2, <3>2, <3>3 DEF CopyInv
  <2>8. DurableInv'
    BY <2>1, <2>3 DEF RoomInv, Core, DurableInv
  <2>9. NotifiedInv'
    <3>1. emitted = Numbers(stored)
      BY <1>2, <2>1 DEF RoomInv, Core, NotifiedInv, Unsaid, Running
    <3>2. stored' - 1 = stored
      BY <2>1, <2>3
    <3> QED BY <1>2, <2>2, <3>1, <3>2 DEF NotifiedInv, Unsaid
  <2>10. ConfirmedIsDurable'
    <3>1. \A n \in confirmed : n \in Nat /\ n <= stored
      BY <1>1 DEF RoomInv, Core, ConfirmedIsDurable, TypeOK
    <3> QED BY <1>2, <2>1, <2>3, <3>1 DEF ConfirmedIsDurable
  <2> QED BY <1>7, <2>4, <2>5, <2>6, <2>7, <2>8, <2>9, <2>10 DEF RoomInv, Core
<1> QED BY <1>9, <1>10, <1>11

\* A state that may be installed is exactly the one of the copy.
LEMMA ValidStateAgrees ==
    ASSUME TypeOK, NEW n \in 0 .. Len(log), ValidState(n, stored)
    PROVE  LatestChange(n) = Latest(log, stored) /\ LatestChange(n) \in 0 .. Len(log)
<1>1. LatestChange(n) = Latest(log, n) /\ LatestChange(stored) = Latest(log, stored)
  BY LatestChangeIs
<1>2. Len(log) \in Nat /\ stored \in Nat /\ stored \in 0 .. Len(log)
  BY DEF TypeOK
<1>3. Latest(log, stored) \in 0 .. stored
  BY <1>2, LatestIs
<1>4. Latest(log, stored) \in 0 .. Len(log)
  BY <1>2, <1>3
<1>5. LatestChange(n) = LatestChange(stored)
  BY DEF ValidState
<1> QED BY <1>1, <1>4, <1>5

\* The state is refreshed, or the item fails and will close its session.
LEMMA RefreshKeeps == RoomInv /\ Refresh => RoomInv'
<1> SUFFICES ASSUME RoomInv, Refresh PROVE RoomInv'
  OBVIOUS
<1>1. TypeOK /\ BoundInv
  BY DEF RoomInv, Core
<1>2. /\ log' = log /\ stored' = stored /\ session' = session /\ projection' = projection
      /\ emitted' = emitted /\ handle' = handle /\ identity' = identity /\ dial' = dial
      /\ queue' = queue /\ confirmed' = confirmed /\ resets' = resets
      /\ work.by = "ingest" /\ work.at = "refresh" /\ work' = [work EXCEPT !.at = "emit"]
  BY DEF Refresh
<1>3. item \in Items
  BY <1>1 DEF TypeOK
<1>4. /\ item.at \in {"sync", "append"} /\ item.event \in 1 .. Len(log)
      /\ item.session # NoSession /\ work \in Works
      /\ work.session = item.session /\ session \in {NoSession, item.session}
  BY <1>1, <1>2 DEF RoomInv, Core, LockInv, BoundInv, TypeOK
<1>5. NoWork.by = "none" /\ NoItem.at = "none"
  BY <1>1, NewRecords
<1>6. /\ work' \in Works /\ work'.by = "ingest" /\ work'.session = work.session
      /\ work'.at = "emit"
  BY <1>2, <1>4, MovedWork
<1>7. faults' \in 0 .. MaxFaults
  BY <1>1, FaultType DEF Refresh, AnswersFrom, TypeOK
<1>8. \/ item' = item /\ state' = Latest(log, stored) /\ state' \in 0 .. Len(log)
      \/ item' = [item EXCEPT !.failed = TRUE] /\ state' = state
  <2>1. ASSUME NEW n \in 0 .. Len(log), ValidState(n, stored), state' = LatestChange(n)
        PROVE  state' = Latest(log, stored) /\ state' \in 0 .. Len(log)
    BY <1>1, <2>1, ValidStateAgrees
  <2> QED BY <2>1 DEF Refresh
<1>9. ASSUME item' \in Items, item'.at = item.at, item'.session = item.session,
             item'.event = item.event, item'.durable = item.durable,
             item'.failed \/ state' = Latest(log, stored), state' \in 0 .. Len(log)
      PROVE  RoomInv'
  <2>1. TypeOK'
    BY <1>1, <1>2, <1>6, <1>7, <1>9 DEF TypeOK
  <2>2. BoundInv'
    BY <1>1, <1>2, <1>4, <1>6, <1>9 DEF BoundInv
  <2>3. LockInv' /\ QuietInv'
    BY <1>2, <1>4, <1>5, <1>6, <1>9 DEF RoomInv, Core, LockInv, QuietInv
  <2>4. CopyInv' /\ DurableInv'
    BY <1>2, <1>6, <1>9 DEF RoomInv, Core, CopyInv, DurableInv
  <2>5. NotifiedInv' /\ ConfirmedIsDurable'
    BY <1>2, <1>6 DEF RoomInv, Core, NotifiedInv, Unsaid, Running, ConfirmedIsDurable
  <2>6. SessionOfIdentity'
    BY <1>2 DEF RoomInv, Core, SessionOfIdentity
  <2> QED BY <2>1, <2>2, <2>3, <2>4, <2>5, <2>6 DEF RoomInv, Core
<1>10. CASE item' = item /\ state' = Latest(log, stored) /\ state' \in 0 .. Len(log)
  BY <1>3, <1>9, <1>10
<1>11. CASE item' = [item EXCEPT !.failed = TRUE] /\ state' = state
  <2>1. /\ item' \in Items /\ item'.at = item.at /\ item'.session = item.session
        /\ item'.event = item.event /\ item'.durable = item.durable /\ item'.failed = TRUE
    BY <1>3, <1>11 DEF Items
  <2>2. state' \in 0 .. Len(log)
    BY <1>1, <1>11 DEF TypeOK
  <2> QED BY <1>9, <2>1, <2>2
<1> QED BY <1>8, <1>10, <1>11

\* The event that was stored is notified, and the item is done with.
LEMMA EmitItemKeeps == RoomInv /\ EmitItem => RoomInv'
<1> SUFFICES ASSUME RoomInv, EmitItem PROVE RoomInv'
  OBVIOUS
<1>1. TypeOK /\ BoundInv
  BY DEF RoomInv, Core
<1>2. /\ log' = log /\ stored' = stored /\ session' = session /\ projection' = projection
      /\ state' = state /\ handle' = handle /\ identity' = identity /\ dial' = dial
      /\ queue' = queue /\ confirmed' = confirmed /\ resets' = resets /\ faults' = faults
      /\ work.by = "ingest" /\ work.at = "emit" /\ work' = NoWork
      /\ emitted' = IF Running THEN Append(emitted, item.event) ELSE emitted
  BY DEF EmitItem, Processed
<1>3. item \in Items
  BY <1>1 DEF TypeOK
<1>4. /\ item.at \in {"sync", "append"} /\ item.event \in 1 .. Len(log)
      /\ item.session # NoSession
      /\ work.session = item.session /\ session \in {NoSession, item.session}
  BY <1>1, <1>2 DEF RoomInv, Core, LockInv, BoundInv
<1>5. projection = stored /\ item.event = stored
  BY <1>2 DEF RoomInv, Core, CopyInv
<1>6. item.failed \/ state = Latest(log, stored)
  BY <1>2 DEF RoomInv, Core, CopyInv
<1>7. /\ NoWork \in Works /\ NoWork.by = "none" /\ NoWork.at = "none" /\ NoItem.at = "none"
      /\ handle # "none"
  <2>1. NoWork \in Works /\ NoWork.by = "none" /\ NoWork.at = "none" /\ NoItem.at = "none"
    BY <1>1, NewRecords
  <2> QED BY <1>2, <2>1 DEF RoomInv, Core, QuietInv
<1>8. /\ item' \in Items /\ item'.at = "done" /\ item'.session = item.session
      /\ item'.event = item.event /\ (item.failed => item'.failed)
  <2>1. item' = [item EXCEPT !.at = "done", !.durable = TRUE,
                             !.failed = item.failed \/ ~Running
                                        \/ (log[item.event] /\ ~IsCurrent(item.session))]
    BY DEF EmitItem, Processed
  <2> QED BY <1>3, <2>1 DEF Items
<1>9. emitted' \in Seq(Nat)
  <2>1. emitted \in Seq(Nat) /\ item.event \in Nat
    BY <1>1, <1>3 DEF TypeOK, Items
  <2> QED BY <1>2, <2>1
<1>10. TypeOK'
  BY <1>1, <1>2, <1>7, <1>8, <1>9 DEF TypeOK
<1>11. BoundInv'
  BY <1>1, <1>2, <1>4, <1>7, <1>8 DEF BoundInv
<1>12. LockInv' /\ QuietInv'
  BY <1>2, <1>4, <1>7, <1>8 DEF RoomInv, Core, LockInv, QuietInv
<1>13. CopyInv'
  BY <1>2, <1>4, <1>5, <1>6, <1>7, <1>8 DEF CopyInv, Agreed
<1>14. DurableInv' /\ ConfirmedIsDurable'
  <2>1. stored \in Nat
    BY <1>1 DEF TypeOK
  <2> QED BY <1>2, <1>5, <1>8, <2>1 DEF RoomInv, Core, DurableInv, ConfirmedIsDurable
<1>15. NotifiedInv'
  <2>1. ASSUME Running PROVE emitted' = Numbers(stored)
    <3>1. emitted = Numbers(stored - 1) /\ emitted' = Append(emitted, stored)
      BY <1>2, <1>5, <2>1 DEF RoomInv, Core, NotifiedInv, Unsaid
    <3>2. stored \in Nat /\ stored >= 1
      BY <1>1, <1>4, <1>5 DEF TypeOK
    <3> QED BY <3>1, <3>2, NumbersGrow
  <2> QED BY <1>2, <1>7, <2>1 DEF NotifiedInv, Unsaid, Running
<1>16. SessionOfIdentity'
  BY <1>2 DEF RoomInv, Core, SessionOfIdentity
<1> QED BY <1>10, <1>11, <1>12, <1>13, <1>14, <1>15, <1>16 DEF RoomInv, Core

\* A failed item takes its session with it; one that waited hears what is stored.
LEMMA ItemDoneKeeps == RoomInv /\ ItemDone => RoomInv'
<1> SUFFICES ASSUME RoomInv, ItemDone PROVE RoomInv'
  OBVIOUS
<1>1. TypeOK /\ BoundInv
  BY DEF RoomInv, Core
<1>2. /\ log' = log /\ stored' = stored /\ projection' = projection /\ emitted' = emitted
      /\ state' = state /\ handle' = handle /\ identity' = identity /\ dial' = dial
      /\ work' = work /\ queue' = queue /\ resets' = resets /\ faults' = faults
      /\ item.at = "done" /\ item' = NoItem
  BY DEF ItemDone
<1>3. /\ NoItem \in Items /\ NoItem.at = "none" /\ NoItem.durable = FALSE
      /\ NoSession \in Sessions /\ item \in Items /\ item.event \in Nat
  BY <1>1, NewRecords DEF TypeOK, Items
<1>4. session' \in {session, NoSession}
      /\ (item.failed /\ session = item.session => session' = NoSession)
  BY DEF ItemDone, DetachIf
<1>5. confirmed' = confirmed \/ (item.durable /\ confirmed' = confirmed \cup {item.event})
  BY DEF ItemDone, Confirms
<1>6. /\ work.by # "ingest" /\ handle # "none"
      /\ work.at \notin {"refresh", "emit"} /\ work.by \in {"none", "connect", "ingest"}
  <2>1. work.by \in {"none", "connect", "ingest"} /\ NoWork.at = "none"
    BY <1>1, NewRecords DEF TypeOK, Works
  <2>2. work.by # "ingest" /\ handle # "none"
    BY <1>2, <1>3 DEF RoomInv, Core, LockInv, QuietInv
  <2> QED BY <2>1, <2>2 DEF RoomInv, Core, LockInv
<1>7. TypeOK'
  BY <1>1, <1>2, <1>3, <1>4, <1>5 DEF TypeOK
<1>8. BoundInv'
  BY <1>1, <1>2, <1>3 DEF BoundInv
<1>9. LockInv' /\ QuietInv'
  BY <1>2, <1>3, <1>4, <1>6 DEF RoomInv, Core, LockInv, QuietInv
<1>10. CopyInv'
  BY <1>2, <1>4, <1>6 DEF RoomInv, Core, CopyInv, Agreed
<1>11. DurableInv' /\ NotifiedInv'
  BY <1>2, <1>3 DEF RoomInv, Core, DurableInv, NotifiedInv, Unsaid, Running
<1>12. SessionOfIdentity'
  BY <1>2, <1>4 DEF RoomInv, Core, SessionOfIdentity
<1>13. ConfirmedIsDurable'
  BY <1>2, <1>5 DEF RoomInv, Core, ConfirmedIsDurable, DurableInv
<1> QED BY <1>7, <1>8, <1>9, <1>10, <1>11, <1>12, <1>13 DEF RoomInv, Core

-----------------------------------------------------------------------------
\* The steps of a synchronization.

\* What a synchronization holds between its steps.
LEMMA Syncing ==
    ASSUME RoomInv, work.by # "none", work.at \in {"page", "store", "state", "synced"}
    PROVE  /\ work \in Works /\ work.by \in {"connect", "ingest"} /\ handle # "none"
           /\ session \in {NoSession, work.session}
           /\ (work.at # "synced" => work.projection = stored)
           /\ (work.at = "synced" => Agreed)
           /\ (work.by = "connect" => item.at \notin {"sync", "append"})
           /\ work.by = "ingest" =>
                /\ item.at \in {"sync", "append"} /\ work.session = item.session
                /\ item.event \in 1 .. Len(log) /\ item.session # NoSession
           /\ (Running => emitted = Numbers(stored))
<1>1. work \in Works /\ work.by \in {"connect", "ingest"} /\ NoWork.by = "none"
  BY NewRecords DEF RoomInv, TypeOK, Works
<1>2. handle # "none" /\ session \in {NoSession, work.session}
      /\ (work.by = "connect" => item.at \notin {"sync", "append"})
  BY <1>1 DEF RoomInv, Core, QuietInv, LockInv
<1>3. work.by = "ingest" => item.at \in {"sync", "append"} /\ work.session = item.session
  BY DEF RoomInv, Core, LockInv
<1>4. work.by = "ingest" => item.event \in 1 .. Len(log) /\ item.session # NoSession
  BY <1>3 DEF RoomInv, Core, BoundInv
<1>5. (work.at # "synced" => work.projection = stored) /\ (work.at = "synced" => Agreed)
  BY DEF RoomInv, Core, CopyInv
<1>6. Running => emitted = Numbers(stored)
  BY DEF RoomInv, Core, NotifiedInv, Unsaid
<1> QED BY <1>1, <1>2, <1>3, <1>4, <1>5, <1>6

\* A comparison is a truth value.
LEMMA Compared ==
    /\ \A a, b : \E v \in BOOLEAN : v = (a <= b)
    /\ \A a, b : \E v \in BOOLEAN : v = (a > b)
<1>1. ASSUME NEW a, NEW b PROVE \E v \in BOOLEAN : v = (a <= b)
  <2> WITNESS (a <= b) \in BOOLEAN
  <2> QED OBVIOUS
<1>2. ASSUME NEW a, NEW b PROVE \E v \in BOOLEAN : v = (a > b)
  <2> WITNESS (a > b) \in BOOLEAN
  <2> QED OBVIOUS
<1> QED BY <1>1, <1>2, Zenon

\* A failure gives up the lock: the session that it was for is detached, or the item
\* has failed and is about to detach it.
LEMMA SyncFailsKeeps ==
    ASSUME RoomInv, work.by # "none", work.at \in {"page", "store", "state", "synced"},
           SyncFails, faults' \in 0 .. MaxFaults,
           UNCHANGED <<log, stored, projection, state, emitted, handle, identity, dial, queue,
                       confirmed, resets>>
    PROVE  RoomInv'
<1>1. TypeOK /\ BoundInv
  BY DEF RoomInv, Core
<1>2. /\ work.by \in {"connect", "ingest"} /\ handle # "none"
      /\ session \in {NoSession, work.session}
      /\ (work.by = "connect" => item.at \notin {"sync", "append"})
      /\ (work.by = "ingest" => item.at \in {"sync", "append"} /\ work.session = item.session)
      /\ (work.by = "ingest" => item.event \in 1 .. Len(log) /\ item.session # NoSession)
      /\ (Running => emitted = Numbers(stored))
  BY Syncing
<1>3. /\ NoWork \in Works /\ NoWork.by = "none" /\ NoWork.at = "none" /\ NoItem.at = "none"
      /\ NoSession \in Sessions /\ work' = NoWork
  BY <1>1, NewRecords DEF SyncFails
<1>4. item \in Items
  BY <1>1 DEF TypeOK
<1>5. NotifiedInv' /\ ConfirmedIsDurable'
  BY <1>2, <1>3 DEF RoomInv, Core, NotifiedInv, Unsaid, Running, ConfirmedIsDurable
<1>6. CASE work.by = "connect"
  <2>1. session' = NoSession /\ item' = item
    BY <1>2, <1>6 DEF SyncFails, DetachIf
  <2>2. TypeOK'
    BY <1>1, <1>3, <2>1 DEF TypeOK
  <2>3. BoundInv'
    BY <1>1, <1>3, <2>1 DEF BoundInv
  <2>4. LockInv' /\ QuietInv'
    BY <1>2, <1>3, <1>6, <2>1 DEF RoomInv, Core, LockInv, QuietInv
  <2>5. CopyInv' /\ DurableInv'
    BY <1>3, <2>1 DEF RoomInv, Core, CopyInv, DurableInv
  <2>6. SessionOfIdentity'
    BY <2>1 DEF SessionOfIdentity
  <2> QED BY <1>5, <2>2, <2>3, <2>4, <2>5, <2>6 DEF RoomInv, Core
<1>7. CASE work.by = "ingest"
  <2>1. /\ item' = [item EXCEPT !.at = "done", !.durable = item.event <= stored,
                                !.failed = TRUE]
        /\ session' = session
    BY <1>7 DEF SyncFails
  <2>2. /\ item' \in Items /\ item'.at = "done" /\ item'.session = item.session
        /\ item'.event = item.event /\ item'.failed = TRUE
        /\ item'.durable = (item.event <= stored)
    <3>1. PICK durable \in BOOLEAN : durable = (item.event <= stored)
      BY Compared, Zenon
    <3>2. item' = [item EXCEPT !.at = "done", !.durable = durable, !.failed = TRUE]
      BY <2>1, <3>1
    <3> HIDE <3>1
    <3>3. /\ item' \in Items /\ item'.at = "done" /\ item'.session = item.session
          /\ item'.event = item.event /\ item'.failed = TRUE /\ item'.durable = durable
      BY <1>4, <3>2 DEF Items
    <3> QED BY <3>1, <3>3
  <2>3. TypeOK'
    BY <1>1, <1>3, <2>1, <2>2 DEF TypeOK
  <2>4. BoundInv'
    BY <1>1, <1>2, <1>3, <1>7, <2>2 DEF BoundInv
  <2>5. LockInv' /\ QuietInv'
    BY <1>2, <1>3, <1>7, <2>1, <2>2 DEF RoomInv, Core, LockInv, QuietInv
  <2>6. CopyInv' /\ DurableInv'
    BY <1>2, <1>3, <1>7, <2>1, <2>2 DEF RoomInv, Core, CopyInv, DurableInv
  <2>7. SessionOfIdentity'
    BY <2>1 DEF RoomInv, Core, SessionOfIdentity
  <2> QED BY <1>5, <2>3, <2>4, <2>5, <2>6, <2>7 DEF RoomInv, Core
<1> QED BY <1>2, <1>6, <1>7

\* A query that fails ends the synchronization.
LEMMA QueryFailsKeeps == RoomInv /\ QueryFails => RoomInv'
<1> SUFFICES ASSUME RoomInv, QueryFails PROVE RoomInv'
  OBVIOUS
<1>1. faults' \in 0 .. MaxFaults
  BY FaultType DEF RoomInv, TypeOK, QueryFails
<1>2. work.by # "none" /\ work.at \in {"page", "store", "state", "synced"} /\ SyncFails
  BY DEF QueryFails
<1> QED BY <1>1, <1>2, SyncFailsKeeps DEF QueryFails

\* Work that goes on with the same copy, on the same session.
LEMMA SyncGoesOn ==
    ASSUME RoomInv, work.by # "none", work.at \in {"page", "store", "state", "synced"},
           work' \in Works, work'.by = work.by, work'.session = work.session,
           work'.at \in {"page", "store", "state"}, work'.projection = stored,
           work'.at = "store" => work'.upto <= Len(log), faults' \in 0 .. MaxFaults,
           UNCHANGED <<log, stored, projection, state, emitted, handle, identity, session, dial,
                       queue, item, confirmed, resets>>
    PROVE  RoomInv'
<1>1. TypeOK /\ BoundInv
  BY DEF RoomInv, Core
<1>2. /\ work.by \in {"connect", "ingest"} /\ handle # "none"
      /\ session \in {NoSession, work.session}
      /\ (Running => emitted = Numbers(stored))
  BY Syncing
<1>3. TypeOK'
  BY <1>1 DEF TypeOK
<1>4. BoundInv'
  BY <1>1 DEF BoundInv
<1>5. LockInv' /\ QuietInv'
  BY <1>2 DEF RoomInv, Core, LockInv, QuietInv
<1>6. CopyInv' /\ DurableInv'
  BY <1>2 DEF RoomInv, Core, CopyInv, DurableInv
<1>7. NotifiedInv' /\ ConfirmedIsDurable' /\ SessionOfIdentity'
  BY <1>2 DEF RoomInv, Core, NotifiedInv, Unsaid, Running, ConfirmedIsDurable,
              SessionOfIdentity
<1> QED BY <1>3, <1>4, <1>5, <1>6, <1>7 DEF RoomInv, Core

\* A page is answered: it says up to where the copy is to be extended.
LEMMA PageKeeps == RoomInv /\ Page => RoomInv'
<1> SUFFICES ASSUME RoomInv, Page PROVE RoomInv'
  OBVIOUS
<1>1. work.by # "none" /\ work.at = "page" /\ TypeOK
  BY DEF Page, RoomInv
<1>2. work \in Works /\ work.projection = stored
  BY <1>1, Syncing
<1>3. PICK n \in 0 .. Len(log) :
        /\ AnswersFrom(n)
        /\ work' = [work EXCEPT !.at = "store", !.more = (n > stored + PageLimit),
                        !.upto = IF n > stored + PageLimit THEN stored + PageLimit ELSE n]
  BY DEF Page
<1>4. faults' \in 0 .. MaxFaults
  BY <1>1, <1>3, FaultType DEF AnswersFrom, TypeOK
<1> DEFINE upto == IF n > stored + PageLimit THEN stored + PageLimit ELSE n
<1>5. upto \in Nat /\ upto <= Len(log)
  BY <1>1, Constants DEF TypeOK
<1> HIDE DEF upto
<1>6. PICK more \in BOOLEAN : more = (n > stored + PageLimit)
  BY Compared, Zenon
<1>7. work' = [work EXCEPT !.at = "store", !.more = more, !.upto = upto]
  BY <1>3, <1>6 DEF upto
<1>8. /\ work' \in Works /\ work'.by = work.by /\ work'.at = "store"
      /\ work'.session = work.session /\ work'.projection = work.projection
      /\ work'.upto = upto
  BY <1>2, <1>5, <1>7 DEF Works
<1> QED BY <1>1, <1>2, <1>4, <1>5, <1>8, SyncGoesOn DEF Page, room

\* The page is done with, its next event extends the copy, or the session is lost.
LEMMA StorePageKeeps == RoomInv /\ StorePage => RoomInv'
<1> SUFFICES ASSUME RoomInv, StorePage PROVE RoomInv'
  OBVIOUS
<1>1. TypeOK /\ BoundInv
  BY DEF RoomInv, Core
<1>2. /\ log' = log /\ projection' = projection /\ state' = state /\ handle' = handle
      /\ identity' = identity /\ dial' = dial /\ queue' = queue /\ confirmed' = confirmed
      /\ resets' = resets /\ faults' = faults /\ work.by # "none" /\ work.at = "store"
  BY DEF StorePage
<1>3. /\ work \in Works /\ work.by \in {"connect", "ingest"} /\ handle # "none"
      /\ session \in {NoSession, work.session} /\ work.projection = stored
      /\ (Running => emitted = Numbers(stored))
  BY <1>2, Syncing
<1>4. faults' \in 0 .. MaxFaults
  BY <1>1, <1>2 DEF TypeOK
<1>5. CASE work.upto <= stored
  <2>1. /\ stored' = stored /\ session' = session /\ emitted' = emitted /\ item' = item
        /\ work' = [work EXCEPT !.at = IF work.more THEN "page" ELSE "state"]
    BY <1>5 DEF StorePage
  <2>2. /\ work' \in Works /\ work'.by = work.by /\ work'.at \in {"page", "state"}
        /\ work'.session = work.session /\ work'.projection = work.projection
    BY <1>3, <2>1, MovedWork
  <2> QED BY <1>2, <1>3, <1>4, <2>1, <2>2, SyncGoesOn
<1>6. CASE ~(work.upto <= stored) /\ ~Alive
  <2>1. SyncFails /\ stored' = stored /\ emitted' = emitted
    BY <1>6 DEF StorePage
  <2> QED BY <1>2, <1>4, <2>1, SyncFailsKeeps
<1>7. CASE ~(work.upto <= stored) /\ Alive
  <2>1. /\ stored' = stored + 1 /\ emitted' = Append(emitted, stored + 1)
        /\ work' = [work EXCEPT !.projection = stored + 1]
        /\ session' = session /\ item' = item /\ Running
    BY <1>7 DEF StorePage, Alive
  <2>2. stored \in Nat /\ stored + 1 \in Nat /\ stored + 1 \in 0 .. Len(log)
    BY <1>1, <1>2, <1>3, <1>7 DEF TypeOK, BoundInv, Works
  <2>3. /\ work' \in Works /\ work'.by = work.by /\ work'.at = work.at
        /\ work'.session = work.session /\ work'.projection = stored + 1
        /\ work'.upto = work.upto
    BY <1>3, <2>1, <2>2, AdvancedWork
  <2>4. emitted' \in Seq(Nat)
    BY <1>1, <2>1, <2>2 DEF TypeOK
  <2>5. TypeOK'
    BY <1>1, <1>2, <2>1, <2>2, <2>3, <2>4 DEF TypeOK
  <2>6. BoundInv'
    BY <1>1, <1>2, <2>1, <2>3 DEF BoundInv
  <2>7. LockInv' /\ QuietInv'
    BY <1>2, <1>3, <2>1, <2>3 DEF RoomInv, Core, LockInv, QuietInv
  <2>8. CopyInv'
    BY <1>2, <1>3, <2>1, <2>3 DEF CopyInv
  <2>9. DurableInv' /\ ConfirmedIsDurable'
    <3>1. \A n \in confirmed : n \in Nat /\ n <= stored
      BY <1>1 DEF RoomInv, Core, ConfirmedIsDurable, TypeOK
    <3>2. item.event \in Nat /\ (item.durable => item.event <= stored)
      BY <1>1 DEF RoomInv, Core, DurableInv, TypeOK, Items
    <3> QED BY <1>2, <2>1, <2>2, <3>1, <3>2 DEF ConfirmedIsDurable, DurableInv
  <2>10. NotifiedInv'
    <3>1. emitted' = Numbers(stored + 1)
      <4>1. stored + 1 >= 1 /\ (stored + 1) - 1 = stored /\ emitted = Numbers(stored)
        BY <1>3, <2>1, <2>2
      <4>2. Append(Numbers((stored + 1) - 1), stored + 1) = Numbers(stored + 1)
        BY <2>2, <4>1, NumbersGrow
      <4> QED BY <2>1, <4>1, <4>2
    <3> QED BY <1>2, <2>1, <2>3, <3>1 DEF NotifiedInv, Unsaid
  <2>11. SessionOfIdentity'
    BY <1>2, <2>1 DEF RoomInv, Core, SessionOfIdentity
  <2> QED BY <2>5, <2>6, <2>7, <2>8, <2>9, <2>10, <2>11 DEF RoomInv, Core
<1> QED BY <1>5, <1>6, <1>7

\* What a session that is synchronized leaves: a copy that agrees.
LEMMA Synchronized ==
    ASSUME RoomInv, work.by # "none", work.at \in {"state", "synced"},
           work' \in Works, Agreed', state' \in 0 .. Len(log),
           \/ /\ work'.by = work.by /\ work'.session = work.session /\ work'.at = "synced"
           \/ /\ work'.by = work.by /\ work'.session = work.session /\ work'.at = "append"
              /\ work.by = "ingest"
           \/ work' = NoWork /\ work.by = "connect" /\ Running,
           faults' \in 0 .. MaxFaults,
           UNCHANGED <<log, stored, emitted, handle, identity, session, dial, queue, item,
                       confirmed, resets>>
    PROVE  RoomInv'
<1>1. TypeOK /\ BoundInv
  BY DEF RoomInv, Core
<1>2. /\ work.by \in {"connect", "ingest"} /\ handle # "none"
      /\ session \in {NoSession, work.session}
      /\ (work.by = "connect" => item.at \notin {"sync", "append"})
      /\ (Running => emitted = Numbers(stored))
      /\ NoWork.by = "none" /\ NoWork.at = "none"
  BY <1>1, Syncing, NewRecords
<1>3. TypeOK'
  <2>1. projection' = stored
    BY DEF Agreed
  <2> QED BY <1>1, <2>1 DEF TypeOK
<1>4. BoundInv'
  BY <1>1, <1>2 DEF BoundInv
<1>5. LockInv'
  BY <1>2 DEF RoomInv, Core, LockInv
<1>6. QuietInv'
  BY <1>2 DEF RoomInv, Core, QuietInv, Running
<1>7. CopyInv' /\ DurableInv'
  BY <1>2 DEF RoomInv, Core, CopyInv, DurableInv
<1>8. NotifiedInv' /\ ConfirmedIsDurable' /\ SessionOfIdentity'
  BY <1>2 DEF RoomInv, Core, NotifiedInv, Unsaid, Running, ConfirmedIsDurable,
              SessionOfIdentity
<1> QED BY <1>3, <1>4, <1>5, <1>6, <1>7, <1>8 DEF RoomInv, Core

\* The signed state makes the copy agree, or ends the session.
LEMMA InstallStateKeeps == RoomInv /\ InstallState => RoomInv'
<1> SUFFICES ASSUME RoomInv, InstallState PROVE RoomInv'
  OBVIOUS
<1>1. TypeOK
  BY DEF RoomInv
<1>2. /\ log' = log /\ stored' = stored /\ emitted' = emitted /\ handle' = handle
      /\ identity' = identity /\ dial' = dial /\ queue' = queue /\ confirmed' = confirmed
      /\ resets' = resets /\ work.by # "none" /\ work.at = "state"
  BY DEF InstallState
<1>3. work \in Works /\ work.projection = stored
  BY <1>2, Syncing
<1>4. faults' \in 0 .. MaxFaults
  BY <1>1, FaultType DEF InstallState, AnswersFrom, TypeOK
<1>5. ASSUME NEW n \in 0 .. Len(log), ValidState(n, stored),
             projection' = work.projection, state' = LatestChange(n),
             work' = [work EXCEPT !.at = "synced"], session' = session, item' = item
      PROVE  RoomInv'
  <2>1. /\ work' \in Works /\ work'.by = work.by /\ work'.at = "synced"
        /\ work'.session = work.session
    BY <1>3, <1>5, MovedWork
  <2>2. state' = Latest(log, stored) /\ state' \in 0 .. Len(log)
    BY <1>1, <1>5, ValidStateAgrees
  <2>3. Agreed'
    BY <1>2, <1>3, <1>5, <2>2 DEF Agreed
  <2> QED BY <1>2, <1>4, <1>5, <2>1, <2>2, <2>3, Synchronized
<1>6. ASSUME SyncFails, projection' = projection, state' = state
      PROVE  RoomInv'
  BY <1>2, <1>4, <1>6, SyncFailsKeeps
<1> QED BY <1>5, <1>6 DEF InstallState

\* A synchronized session gives up the lock, or goes on to its item.
LEMMA SyncedKeeps == RoomInv /\ Synced => RoomInv'
<1> SUFFICES ASSUME RoomInv, Synced PROVE RoomInv'
  OBVIOUS
<1>1. TypeOK
  BY DEF RoomInv
<1>2. /\ log' = log /\ stored' = stored /\ projection' = projection /\ state' = state
      /\ emitted' = emitted /\ handle' = handle /\ identity' = identity /\ dial' = dial
      /\ queue' = queue /\ confirmed' = confirmed /\ resets' = resets
      /\ faults' = faults /\ work.by # "none" /\ work.at = "synced"
  BY DEF Synced
<1>3. /\ work \in Works /\ work.by \in {"connect", "ingest"} /\ Agreed
  BY <1>2, Syncing
<1>4. faults' \in 0 .. MaxFaults
  BY <1>1, <1>2 DEF TypeOK
<1>5. CASE ~Alive
  BY <1>2, <1>4, <1>5, SyncFailsKeeps DEF Synced
<1>6. CASE Alive
  <2>1. /\ session' = session /\ item' = item /\ Running
        /\ work' = IF work.by = "connect" THEN NoWork ELSE Ingest(work.session)
    BY <1>6 DEF Synced, Alive
  <2>2. Agreed' /\ state' \in 0 .. Len(log)
    BY <1>1, <1>2, <1>3 DEF Agreed, TypeOK
  <2>3. /\ work.session \in Sessions /\ NoWork \in Works
        /\ \A s \in Sessions :
             /\ Ingest(s) \in Works /\ Ingest(s).by = "ingest" /\ Ingest(s).at = "append"
             /\ Ingest(s).session = s
    BY <1>1, <1>3, NewRecords DEF Works
  <2>4. CASE work.by = "connect"
    BY <1>2, <1>4, <2>1, <2>2, <2>3, <2>4, Synchronized
  <2>5. CASE work.by = "ingest"
    <3>1. work' \in Works /\ work'.by = "ingest" /\ work'.at = "append"
          /\ work'.session = work.session
      BY <2>1, <2>3, <2>5
    <3> QED BY <1>2, <1>4, <2>1, <2>2, <2>5, <3>1, Synchronized
  <2> QED BY <1>3, <2>4, <2>5
<1> QED BY <1>5, <1>6

-----------------------------------------------------------------------------
\* The steps of the user.

\* The events of the first n numbers, and of none.
LEMMA NumbersType ==
    /\ Numbers(0) = <<>>
    /\ \A n \in Nat : Numbers(n) \in Seq(Nat) /\ Len(Numbers(n)) = n
<1>1. ASSUME NEW n \in Nat PROVE Numbers(n) \in Seq(Nat) /\ Len(Numbers(n)) = n
  <2>1. Numbers(n) \in [1 .. n -> Nat]
    BY DEF Numbers
  <2> QED BY <2>1, LenProperties DEF Numbers
<1>2. Numbers(0) = <<>>
  <2>1. Numbers(0) \in Seq(Nat) /\ Len(Numbers(0)) = 0
    BY <1>1
  <2> QED BY <2>1
<1> QED BY <1>1, <1>2

\* The session ends before the identity may change.
LEMMA ResetIdentityKeeps == RoomInv /\ ResetIdentity => RoomInv'
<1> SUFFICES ASSUME RoomInv, ResetIdentity PROVE RoomInv'
  OBVIOUS
<1>1. TypeOK /\ BoundInv
  BY DEF RoomInv, Core
<1>2. /\ log' = log /\ stored' = stored /\ projection' = projection /\ state' = state
      /\ emitted' = emitted /\ handle' = handle /\ dial' = dial /\ work' = work
      /\ queue' = queue /\ item' = item /\ confirmed' = confirmed /\ faults' = faults
      /\ session' = NoSession /\ resets < MaxResets /\ resets' = resets + 1
      /\ identity' \in {identity, identity + 1}
  BY DEF ResetIdentity
<1>3. /\ resets' \in 0 .. MaxResets /\ identity' \in 1 .. MaxResets + 1
      /\ identity' <= resets' + 1 /\ NoSession \in Sessions
  <2>1. /\ resets \in 0 .. MaxResets /\ identity \in 1 .. MaxResets + 1
        /\ identity <= resets + 1 /\ NoSession \in Sessions
    BY <1>1, NewRecords DEF TypeOK, BoundInv
  <2> QED BY <1>2, <2>1, Constants
<1>4. TypeOK'
  BY <1>1, <1>2, <1>3 DEF TypeOK
<1>5. BoundInv'
  BY <1>1, <1>2, <1>3 DEF BoundInv
<1>6. LockInv' /\ QuietInv' /\ DurableInv' /\ NotifiedInv'
  BY <1>2 DEF RoomInv, Core, LockInv, QuietInv, DurableInv, NotifiedInv, Unsaid, Running
<1>7. CopyInv'
  BY <1>2 DEF RoomInv, Core, CopyInv, Agreed
<1>8. SessionOfIdentity' /\ ConfirmedIsDurable'
  BY <1>2 DEF RoomInv, Core, SessionOfIdentity, ConfirmedIsDurable
<1> QED BY <1>4, <1>5, <1>6, <1>7, <1>8 DEF RoomInv, Core

\* The session ends before the goroutines have.
LEMMA LeaveKeeps == RoomInv /\ Leave => RoomInv'
<1> SUFFICES ASSUME RoomInv, Leave PROVE RoomInv'
  OBVIOUS
<1>1. TypeOK /\ BoundInv
  BY DEF RoomInv, Core
<1>2. /\ log' = log /\ stored' = stored /\ projection' = projection /\ state' = state
      /\ emitted' = emitted /\ identity' = identity /\ dial' = dial /\ work' = work
      /\ queue' = queue /\ item' = item /\ confirmed' = confirmed /\ faults' = faults
      /\ session' = NoSession /\ resets < MaxResets /\ resets' = resets + 1
      /\ handle' = "leaving"
  BY DEF Leave
<1>3. resets' \in 0 .. MaxResets /\ identity <= resets' + 1 /\ NoSession \in Sessions
  <2>1. /\ resets \in 0 .. MaxResets /\ identity \in 1 .. MaxResets + 1
        /\ identity <= resets + 1 /\ NoSession \in Sessions
    BY <1>1, NewRecords DEF TypeOK, BoundInv
  <2> QED BY <1>2, <2>1, Constants
<1>4. TypeOK'
  BY <1>1, <1>2, <1>3 DEF TypeOK
<1>5. BoundInv'
  BY <1>1, <1>2, <1>3 DEF BoundInv
<1>6. LockInv' /\ QuietInv' /\ DurableInv' /\ NotifiedInv'
  BY <1>2 DEF RoomInv, Core, LockInv, QuietInv, DurableInv, NotifiedInv, Unsaid, Running
<1>7. CopyInv'
  BY <1>2 DEF RoomInv, Core, CopyInv, Agreed
<1>8. SessionOfIdentity' /\ ConfirmedIsDurable'
  BY <1>2 DEF RoomInv, Core, SessionOfIdentity, ConfirmedIsDurable
<1> QED BY <1>4, <1>5, <1>6, <1>7, <1>8 DEF RoomInv, Core

\* Nothing is left of a room whose goroutines have returned.
LEMMA LeftKeeps == RoomInv /\ Left => RoomInv'
<1> SUFFICES ASSUME RoomInv, Left PROVE RoomInv'
  OBVIOUS
<1>1. TypeOK /\ BoundInv
  BY DEF RoomInv, Core
<1>2. /\ log' = log /\ session' = session /\ projection' = projection /\ state' = state
      /\ identity' = identity /\ dial' = dial /\ work' = work /\ item' = item
      /\ resets' = resets /\ faults' = faults /\ handle = "leaving" /\ handle' = "none"
      /\ dial = NoDial /\ work = NoWork /\ item = NoItem
      /\ stored' = 0 /\ queue' = <<>> /\ emitted' = <<>> /\ confirmed' = {}
  BY DEF Left
<1>3. /\ NoWork.by = "none" /\ NoWork.at = "none" /\ NoItem.at = "none"
      /\ NoItem.durable = FALSE
  BY <1>1, NewRecords
<1>4. session = NoSession
  BY <1>2, <1>3 DEF RoomInv, Core, QuietInv
<1>5. /\ queue' \in Seq(Entries) /\ Len(queue') <= QueueCap /\ DOMAIN queue' = {}
      /\ emitted' \in Seq(Nat) /\ stored' \in 0 .. Len(log)
  BY <1>1, <1>2, Constants DEF TypeOK
<1>6. TypeOK'
  BY <1>1, <1>2, <1>5 DEF TypeOK
<1>7. BoundInv'
  BY <1>1, <1>2, <1>5 DEF BoundInv
<1>8. LockInv' /\ QuietInv'
  BY <1>2, <1>3, <1>4 DEF LockInv, QuietInv
<1>9. CopyInv' /\ DurableInv' /\ NotifiedInv'
  BY <1>2, <1>3, <1>4 DEF CopyInv, DurableInv, NotifiedInv, Running
<1>10. SessionOfIdentity' /\ ConfirmedIsDurable'
  BY <1>2, <1>4 DEF SessionOfIdentity, ConfirmedIsDurable
<1> QED BY <1>6, <1>7, <1>8, <1>9, <1>10 DEF RoomInv, Core

\* A room that is joined again starts from an empty copy.
LEMMA JoinKeeps == RoomInv /\ Join => RoomInv'
<1> SUFFICES ASSUME RoomInv, Join PROVE RoomInv'
  OBVIOUS
<1>1. TypeOK /\ BoundInv
  BY DEF RoomInv, Core
<1>2. /\ log' = log /\ stored' = stored /\ session' = session /\ emitted' = emitted
      /\ identity' = identity /\ dial' = dial /\ work' = work /\ queue' = queue
      /\ item' = item /\ confirmed' = confirmed /\ resets' = resets /\ faults' = faults
      /\ handle = "none" /\ handle' = "running" /\ projection' = 0 /\ state' = 0
  BY DEF Join
<1>3. /\ session = NoSession /\ work = NoWork /\ item = NoItem
      /\ stored = 0 /\ emitted = <<>> /\ confirmed = {}
  BY <1>2 DEF RoomInv, Core, QuietInv
<1>4. /\ NoWork.by = "none" /\ NoWork.at = "none" /\ NoItem.at = "none"
      /\ NoItem.durable = FALSE
  BY <1>1, NewRecords
<1>5. 0 \in 0 .. Len(log)
  BY <1>1 DEF TypeOK
<1>6. TypeOK'
  BY <1>1, <1>2, <1>5 DEF TypeOK
<1>7. BoundInv'
  BY <1>1, <1>2 DEF BoundInv
<1>8. LockInv' /\ QuietInv'
  BY <1>2, <1>3, <1>4 DEF LockInv, QuietInv
<1>9. CopyInv' /\ DurableInv'
  BY <1>2, <1>3, <1>4 DEF CopyInv, DurableInv
<1>10. NotifiedInv'
  BY <1>2, <1>3, <1>4, NumbersType DEF NotifiedInv, Unsaid
<1>11. SessionOfIdentity' /\ ConfirmedIsDurable'
  BY <1>2, <1>3 DEF SessionOfIdentity, ConfirmedIsDurable
<1> QED BY <1>6, <1>7, <1>8, <1>9, <1>10, <1>11 DEF RoomInv, Core

\* What is started again is what the database holds.
LEMMA CrashKeeps == RoomInv /\ Crash => RoomInv'
<1> SUFFICES ASSUME RoomInv, Crash PROVE RoomInv'
  OBVIOUS
<1>1. TypeOK /\ BoundInv
  BY DEF RoomInv, Core
<1>2. /\ log' = log /\ stored' = stored /\ handle' = handle /\ identity' = identity
      /\ confirmed' = confirmed /\ resets' = resets /\ handle = "running"
      /\ session' = NoSession /\ projection' = 0 /\ state' = 0 /\ dial' = NoDial
      /\ work' = NoWork /\ item' = NoItem /\ queue' = <<>> /\ emitted' = Numbers(stored)
  BY DEF Crash, Running, Numbers
<1>3. /\ NoWork \in Works /\ NoWork.by = "none" /\ NoWork.at = "none"
      /\ NoItem \in Items /\ NoItem.at = "none" /\ NoItem.durable = FALSE
      /\ NoSession \in Sessions
      /\ NoDial \in [dialing : BOOLEAN, epoch : 0 .. MaxResets + 1]
  BY <1>1, NewRecords
<1>4. faults' \in 0 .. MaxFaults
  BY <1>1, FaultType DEF Crash, TypeOK
<1>5. /\ queue' \in Seq(Entries) /\ Len(queue') <= QueueCap /\ DOMAIN queue' = {}
      /\ emitted' \in Seq(Nat) /\ 0 \in 0 .. Len(log)
  BY <1>1, <1>2, Constants, NumbersType DEF TypeOK
<1>6. TypeOK'
  BY <1>1, <1>2, <1>3, <1>4, <1>5 DEF TypeOK
<1>7. BoundInv'
  BY <1>1, <1>2, <1>3, <1>5 DEF BoundInv
<1>8. LockInv' /\ QuietInv'
  BY <1>2, <1>3 DEF LockInv, QuietInv
<1>9. CopyInv' /\ DurableInv' /\ NotifiedInv'
  BY <1>2, <1>3 DEF CopyInv, DurableInv, NotifiedInv, Unsaid
<1>10. SessionOfIdentity' /\ ConfirmedIsDurable'
  BY <1>2 DEF RoomInv, Core, SessionOfIdentity, ConfirmedIsDurable
<1> QED BY <1>6, <1>7, <1>8, <1>9, <1>10 DEF RoomInv, Core

-----------------------------------------------------------------------------
\* The invariant, and what follows from it.

\* The invariant holds at the start ...
LEMMA InitRoom == Init => RoomInv
<1> SUFFICES ASSUME Init PROVE RoomInv
  OBVIOUS
<1>1. TypeOK /\ BoundInv
  BY InitBasic
<1>2. /\ stored = 0 /\ session = NoSession /\ handle = "running" /\ work = NoWork
      /\ item = NoItem /\ emitted = <<>> /\ confirmed = {}
  BY DEF Init
<1>3. /\ NoWork.by = "none" /\ NoWork.at = "none" /\ NoItem.at = "none"
      /\ NoItem.durable = FALSE
  BY <1>1, NewRecords
<1>4. LockInv /\ QuietInv /\ CopyInv /\ DurableInv
  BY <1>2, <1>3 DEF LockInv, QuietInv, CopyInv, DurableInv
<1>5. NotifiedInv
  BY <1>2, <1>3, NumbersType DEF NotifiedInv, Unsaid
<1>6. SessionOfIdentity /\ ConfirmedIsDurable
  BY <1>2 DEF SessionOfIdentity, ConfirmedIsDurable
<1> QED BY <1>1, <1>4, <1>5, <1>6 DEF RoomInv, Core

\* ... and every step keeps it.
LEMMA NextRoom == RoomInv /\ [Next]_vars => RoomInv'
<1> SUFFICES ASSUME RoomInv, [Next]_vars PROVE RoomInv'
  OBVIOUS
<1>1. ASSUME NEW changes \in BOOLEAN, SequencerCommits(changes) PROVE RoomInv'
  BY <1>1, CommitKeeps
<1>2. CASE Dial
  BY <1>2, DialKeeps
<1>3. CASE Install
  BY <1>3, InstallKeeps
<1>4. CASE DialFails
  BY <1>4, DialFailsKeeps
<1>5. CASE SessionBreaks
  BY <1>5, SessionBreaksKeeps
<1>6. ASSUME NEW n \in 1 .. Len(log), ReceiveBroadcast(n) PROVE RoomInv'
  BY <1>6, EnqueueKeeps DEF ReceiveBroadcast
<1>7. ASSUME NEW n \in 1 .. Len(log), SubmissionAnswered(n) PROVE RoomInv'
  BY <1>7, EnqueueKeeps DEF SubmissionAnswered
<1>8. CASE TakeItem
  BY <1>8, TakeItemKeeps
<1>9. CASE ProcessItem
  BY <1>9, ProcessItemKeeps
<1>10. CASE AppendItem
  BY <1>10, AppendItemKeeps
<1>11. CASE Refresh
  BY <1>11, RefreshKeeps
<1>12. CASE EmitItem
  BY <1>12, EmitItemKeeps
<1>13. CASE ItemDone
  BY <1>13, ItemDoneKeeps
<1>14. CASE Page
  BY <1>14, PageKeeps
<1>15. CASE StorePage
  BY <1>15, StorePageKeeps
<1>16. CASE InstallState
  BY <1>16, InstallStateKeeps
<1>17. CASE Synced
  BY <1>17, SyncedKeeps
<1>18. CASE QueryFails
  BY <1>18, QueryFailsKeeps
<1>19. CASE ResetIdentity
  BY <1>19, ResetIdentityKeeps
<1>20. CASE Leave
  BY <1>20, LeaveKeeps
<1>21. CASE Left
  BY <1>21, LeftKeeps
<1>22. CASE Join
  BY <1>22, JoinKeeps
<1>23. CASE Crash
  BY <1>23, CrashKeeps
<1>24. CASE UNCHANGED vars
  <2>1. faults' \in 0 .. MaxFaults
    BY <1>24 DEF RoomInv, TypeOK, vars
  <2> QED BY <1>24, <2>1, SessionEnds DEF vars, room
<1> QED BY <1>1, <1>2, <1>3, <1>4, <1>5, <1>6, <1>7, <1>8, <1>9, <1>10, <1>11, <1>12, <1>13,
           <1>14, <1>15, <1>16, <1>17, <1>18, <1>19, <1>20, <1>21, <1>22, <1>23, <1>24
        DEF Next, ConnectStep, SyncStep, IngestStep

\* The inductive invariant holds: the lock, the copy and the queue are as the steps
\* need them, for every history and any number of failures.
THEOREM RoomCorrect == Spec => []RoomInv
BY InitRoom, NextRoom, PTL DEF Spec

\* Every variable keeps its type, and no queue grows over its capacity.
THEOREM RoomTypeOK == Spec => []TypeOK
<1>1. RoomInv => TypeOK
  BY DEF RoomInv
<1> QED BY <1>1, RoomCorrect, PTL

\* What a connected client shows is exactly what it has stored and verified
\* (syncSessionLocked, processCanonical), whatever failed before.
THEOREM CopyIsVerified == Spec => []CopyVerified
<1>1. RoomInv => CopyVerified
  <2>1. RoomInv => LatestChange(stored) = Latest(log, stored) /\ NoWork.by = "none"
    BY LatestChangeIs, NewRecords DEF RoomInv
  <2> QED BY <2>1 DEF RoomInv, Core, CopyInv, Agreed, CopyVerified
<1> QED BY <1>1, RoomCorrect, PTL

\* Every stored event is notified once and in order (emitEvent), over all sessions,
\* failures and restarts.
THEOREM EveryEventIsNotified == Spec => []EachEventNotified
<1>1. RoomInv => EachEventNotified
  BY DEF RoomInv, Core, NotifiedInv, Unsaid, Numbers, EachEventNotified
<1> QED BY <1>1, RoomCorrect, PTL

\* No session outlives the identity it was dialed with (connect, ResetIdentity).
THEOREM SessionsHaveTheIdentity == Spec => []SessionOfIdentity
<1>1. RoomInv => SessionOfIdentity
  BY DEF RoomInv, Core
<1> QED BY <1>1, RoomCorrect, PTL

\* What a submission is told to be ingested is in the store (ingestLoop).
THEOREM ConfirmedEventsAreStored == Spec => []ConfirmedIsDurable
<1>1. RoomInv => ConfirmedIsDurable
  BY DEF RoomInv, Core
<1> QED BY <1>1, RoomCorrect, PTL

\* A room that was left keeps no session (Leave).
THEOREM LeftRoomsAreQuiet == Spec => []LeftIsQuiet
<1>1. RoomInv => LeftIsQuiet
  BY DEF RoomInv, Core, QuietInv, LeftIsQuiet
<1> QED BY <1>1, RoomCorrect, PTL

-----------------------------------------------------------------------------
\* Refinement: what the user sees is a room timeline.

TimelineStep == [Timeline!TimelineNext]_(Timeline!timelineVars)

\* A step that shows nothing new.
LEMMA SameTimeline ==
    ASSUME UNCHANGED <<log, handle, stored, emitted, state, confirmed>>
    PROVE  TimelineStep
<1>1. UNCHANGED Timeline!timelineVars
  BY DEF Timeline!timelineVars, Running
<1> QED BY <1>1 DEF TimelineStep

\* Steps that only move sessions, dials, the queue and the work.
LEMMA HiddenSteps ==
    ASSUME \/ Dial \/ Install \/ DialFails \/ SessionBreaks
           \/ \E n \in 1 .. Len(log) : ReceiveBroadcast(n) \/ SubmissionAnswered(n)
           \/ TakeItem \/ ProcessItem
           \/ Page \/ Synced \/ QueryFails \/ ResetIdentity \/ UNCHANGED vars
    PROVE  TimelineStep
<1>1. UNCHANGED <<log, handle, stored, emitted, state, confirmed>>
  <2>1. CASE Dial \/ Install \/ DialFails \/ SessionBreaks
    BY <2>1 DEF Dial, Install, DialFails, SessionBreaks, room
  <2>2. CASE \E n \in 1 .. Len(log) : ReceiveBroadcast(n) \/ SubmissionAnswered(n)
    BY <2>2 DEF ReceiveBroadcast, SubmissionAnswered
  <2>3. CASE TakeItem \/ ProcessItem
    BY <2>3 DEF TakeItem, ProcessItem, room
  <2>4. CASE Page \/ Synced \/ QueryFails \/ ResetIdentity \/ UNCHANGED vars
    BY <2>4 DEF Page, Synced, QueryFails, ResetIdentity, vars, room
  <2> QED BY <2>1, <2>2, <2>3, <2>4
<1> QED BY <1>1, SameTimeline

\* While nothing is left to be said, everything that is stored was notified.
LEMMA AllNotified ==
    ASSUME RoomInv, Running, work.by # "ingest" \/ work.at \notin {"refresh", "emit"}
    PROVE  emitted = Numbers(stored) /\ Len(emitted) = stored /\ stored \in Nat
<1>1. emitted = Numbers(stored)
  BY DEF RoomInv, Core, NotifiedInv, Unsaid
<1>2. stored \in Nat
  BY DEF RoomInv, TypeOK
<1> QED BY <1>1, <1>2, NumbersType

\* An event is stored; a page also notifies it.
LEMMA StoringMaps ==
    ASSUME RoomInv, Running, work.by # "ingest" \/ work.at \notin {"refresh", "emit"},
           stored < Len(log), stored' = stored + 1,
           emitted' \in {emitted, Append(emitted, stored + 1)},
           UNCHANGED <<log, handle, state, confirmed>>
    PROVE  TimelineStep
<1>1. Len(emitted) = stored
  BY AllNotified
<1>2. Timeline!Stores
  BY <1>1 DEF Timeline!Stores, Timeline!AllShown, Running
<1> QED BY <1>2 DEF TimelineStep, Timeline!TimelineNext

\* processCanonical stores the next event, or finds that it has it.
LEMMA AppendItemMaps == RoomInv /\ AppendItem => TimelineStep
<1> SUFFICES ASSUME RoomInv, AppendItem PROVE TimelineStep
  OBVIOUS
<1>1. UNCHANGED <<log, handle, emitted, state, confirmed>> /\ work.by = "ingest" /\ work.at = "append"
  BY DEF AppendItem
<1>2. CASE stored' = stored
  BY <1>1, <1>2, SameTimeline
<1>3. CASE Running /\ item.event = stored + 1 /\ stored' = item.event
  <2>1. item.event \in 1 .. Len(log) /\ stored \in Nat /\ Len(log) \in Nat
    BY <1>1 DEF RoomInv, Core, LockInv, BoundInv, TypeOK
  <2> QED BY <1>1, <1>3, <2>1, StoringMaps
<1> QED BY <1>2, <1>3 DEF AppendItem

\* syncSessionLocked stores and notifies an event of the page.
LEMMA StorePageMaps == RoomInv /\ StorePage => TimelineStep
<1> SUFFICES ASSUME RoomInv, StorePage PROVE TimelineStep
  OBVIOUS
<1>1. UNCHANGED <<log, handle, state, confirmed>> /\ work.by # "none" /\ work.at = "store"
  BY DEF StorePage
<1>2. CASE UNCHANGED <<stored, emitted>>
  BY <1>1, <1>2, SameTimeline
<1>3. CASE /\ ~(work.upto <= stored) /\ Alive
           /\ stored' = stored + 1 /\ emitted' = Append(emitted, stored + 1)
  <2>1. stored \in Nat /\ Len(log) \in Nat /\ work.upto \in Nat /\ work.upto <= Len(log)
    BY <1>1 DEF RoomInv, Core, BoundInv, TypeOK, Works
  <2>2. stored < Len(log)
    BY <1>3, <2>1
  <2> QED BY <1>1, <1>3, <2>2, StoringMaps DEF Alive
<1> QED BY <1>2, <1>3 DEF StorePage

\* A state is installed: the one of exactly the copy.
LEMMA SigningMaps ==
    ASSUME RoomInv, Running, NEW n \in 0 .. Len(log), ValidState(n, stored),
           state' = LatestChange(n),
           UNCHANGED <<log, handle, stored, emitted, confirmed>>
    PROVE  TimelineStep
<1>1. stored \in Nat /\ state' = Latest(log, stored)
  BY ValidStateAgrees DEF RoomInv, TypeOK
<1>2. state' \in 0 .. stored /\ LatestIn(log, stored, state')
  BY <1>1, LatestIs
<1>3. Timeline!Covers(state')
  BY <1>2 DEF Timeline!Covers, LatestIn
<1>4. Timeline!Signs
  BY <1>3 DEF Timeline!Signs, Running
<1> QED BY <1>4 DEF TimelineStep, Timeline!TimelineNext

\* refreshStateLocked and the end of syncSessionLocked install it, or fail.
LEMMA InstallMaps == RoomInv /\ (Refresh \/ InstallState) => TimelineStep
<1> SUFFICES ASSUME RoomInv, Refresh \/ InstallState PROVE TimelineStep
  OBVIOUS
<1>1. UNCHANGED <<log, handle, stored, emitted, confirmed>>
  BY DEF Refresh, InstallState
<1>2. \/ state' = state
      \/ Running /\ \E n \in 0 .. Len(log) : ValidState(n, stored) /\ state' = LatestChange(n)
  <2>1. CASE Refresh
    BY <2>1 DEF Refresh
  <2>2. CASE InstallState
    BY <2>2 DEF InstallState, Alive
  <2> QED BY <2>1, <2>2
<1> QED BY <1>1, <1>2, SameTimeline, SigningMaps

\* The event that was stored is notified, unless the room is being left.
LEMMA EmitItemMaps == RoomInv /\ EmitItem => TimelineStep
<1> SUFFICES ASSUME RoomInv, EmitItem PROVE TimelineStep
  OBVIOUS
<1>1. /\ UNCHANGED <<log, handle, stored, state, confirmed>>
      /\ work.by = "ingest" /\ work.at = "emit"
      /\ emitted' = IF Running THEN Append(emitted, item.event) ELSE emitted
  BY DEF EmitItem
<1>2. CASE ~Running
  BY <1>1, <1>2, SameTimeline
<1>3. CASE Running
  <2>1. item.event = stored /\ item.event \in 1 .. Len(log) /\ Len(log) \in Nat
    BY <1>1 DEF RoomInv, Core, CopyInv, LockInv, BoundInv, TypeOK
  <2>2. emitted = Numbers(stored - 1)
    BY <1>1, <1>3 DEF RoomInv, Core, NotifiedInv, Unsaid
  <2>3. stored - 1 \in Nat
    BY <2>1
  <2>4. Len(emitted) = stored - 1
    BY <2>2, <2>3, NumbersType
  <2>5. stored = Len(emitted) + 1 /\ emitted' = Append(emitted, stored)
    BY <1>1, <1>3, <2>1, <2>4
  <2>6. Timeline!Notifies
    BY <1>1, <1>3, <2>5 DEF Timeline!Notifies, Running
  <2> QED BY <2>6 DEF TimelineStep, Timeline!TimelineNext
<1> QED BY <1>2, <1>3

\* The author hears of an event that is stored.
LEMMA ItemDoneMaps == RoomInv /\ ItemDone => TimelineStep
<1> SUFFICES ASSUME RoomInv, ItemDone PROVE TimelineStep
  OBVIOUS
<1>1. UNCHANGED <<log, handle, stored, emitted, state>> /\ item.at = "done"
  BY DEF ItemDone
<1>2. CASE confirmed' = confirmed
  BY <1>1, <1>2, SameTimeline
<1>3. CASE item.durable /\ confirmed' = confirmed \cup {item.event}
  <2>1. item.event \in 1 .. Len(log) /\ item.event <= stored /\ stored \in Nat /\ Len(log) \in Nat
    BY <1>1, <1>3 DEF RoomInv, Core, BoundInv, DurableInv, TypeOK
  <2>2. item.event \in 1 .. stored
    BY <2>1
  <2>3. Timeline!Confirms(item.event)
    BY <1>1, <1>3, <2>2 DEF Timeline!Confirms, Running
  <2> QED BY <2>2, <2>3 DEF TimelineStep, Timeline!TimelineNext
<1> QED BY <1>2, <1>3 DEF ItemDone, Confirms

\* The user leaves, the room is erased and joined again, and the client is killed.
LEMMA UserMaps == RoomInv /\ (Leave \/ Left \/ Join \/ Crash) => TimelineStep
<1> SUFFICES ASSUME RoomInv, Leave \/ Left \/ Join \/ Crash PROVE TimelineStep
  OBVIOUS
<1>1. CASE Leave
  <2>1. Timeline!Leaves
    BY <1>1 DEF Leave, Timeline!Leaves, Running
  <2> QED BY <2>1 DEF TimelineStep, Timeline!TimelineNext
<1>2. CASE Left
  <2>1. Timeline!Erases
    BY <1>2 DEF Left, Timeline!Erases, Running
  <2> QED BY <2>1 DEF TimelineStep, Timeline!TimelineNext
<1>3. CASE Join
  <2>1. stored = 0 /\ emitted = <<>> /\ confirmed = {}
    BY <1>3 DEF Join, RoomInv, Core, QuietInv
  <2>2. Timeline!Joins
    BY <1>3, <2>1 DEF Join, Timeline!Joins, Running
  <2> QED BY <2>2 DEF TimelineStep, Timeline!TimelineNext
<1>4. CASE Crash
  <2>1. Timeline!Restarts
    BY <1>4 DEF Crash, Timeline!Restarts, Running
  <2> QED BY <2>1 DEF TimelineStep, Timeline!TimelineNext
<1> QED BY <1>1, <1>2, <1>3, <1>4

\* The history grows.
LEMMA CommitMaps ==
    ASSUME NEW changes \in BOOLEAN, SequencerCommits(changes)
    PROVE  TimelineStep
<1>1. Timeline!Commits(changes)
  BY DEF SequencerCommits, Timeline!Commits, Running, room
<1> QED BY <1>1 DEF TimelineStep, Timeline!TimelineNext

\* Every step of the room is one of its timeline, or shows nothing new.
LEMMA RoomMaps == RoomInv /\ [Next]_vars => TimelineStep
BY CommitMaps, HiddenSteps, AppendItemMaps, StorePageMaps, InstallMaps, EmitItemMaps,
   ItemDoneMaps, UserMaps DEF Next, ConnectStep, SyncStep, IngestStep

\* Through two goroutines, lost sessions, resets of the identity, leaves and crashes the
\* user sees a timeline of the room: each event stored, then notified, the next after
\* it, with a state for exactly that copy, and confirmations only of what is stored.
THEOREM RoomImplementsTimeline == Spec => ImplementsRoomTimeline
<1>1. Init => Timeline!TimelineInit
  BY DEF Init, Timeline!TimelineInit, Running
<1> QED BY <1>1, RoomMaps, RoomCorrect, PTL DEF Spec, TimelineStep, ImplementsRoomTimeline,
           Timeline!TimelineSpec
=============================================================================
