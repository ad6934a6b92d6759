------------------------------ MODULE StdioProofs ------------------------------
(***************************************************************************)
(* Theorems about the RPC session, for every set of goroutines and direct  *)
(* messages and every capacity of the channel and of the replay cache.     *)
(***************************************************************************)
EXTENDS StdioSession, FiniteSetTheorems, WellFoundedInduction, TLAPS

-----------------------------------------------------------------------------
\* The replay cache.

\* A non-empty set of times has an earliest one.
LEMMA LeastExists ==
    ASSUME NEW T \in SUBSET Nat, T # {}
    PROVE  \E t \in T : \A u \in T : t <= u
<1> DEFINE R == {pair \in Nat \X Nat : pair[1] < pair[2]}
<1>1. R = OpToRel(<, Nat)
  BY DEF OpToRel
<1>2. IsWellFoundedOn(R, Nat)
  BY <1>1, NatLessThanWellFounded
<1>3. \A u, t \in Nat : u < t => <<u, t>> \in R
  OBVIOUS
<1> HIDE DEF R
<1>4. \E t \in T : \A u \in T : ~ (<<u, t>> \in R)
  BY <1>2, WFMin
<1>5. PICK t \in T : \A u \in T : ~ (<<u, t>> \in R)
  BY <1>4
<1>6. ASSUME NEW u \in T PROVE t <= u
  <2>1. u \in Nat /\ t \in Nat
    OBVIOUS
  <2>2. ~(u < t)
    BY <1>3, <1>5, <2>1
  <2> QED BY <2>1, <2>2
<1> QED BY <1>6

\* The fields of a direct message are numbers, and its last tick is not the zero time.
LEMMA DirectType ==
    ASSUME NEW m \in Directs
    PROVE  m.to \in Nat /\ m.expires \in Nat \ {0}
BY StdioAssumption DEF DirectShape

\* Earliest is the least expiry, and no expiry at all is 0.
LEMMA EarliestIsLeast ==
    ASSUME NEW directs \in SUBSET Directs, directs # {}
    PROVE  /\ Earliest(directs) \in {m.expires : m \in directs}
           /\ \A m \in directs : Earliest(directs) <= m.expires
           /\ Earliest(directs) \in Nat \ {0}
<1> DEFINE T == {m.expires : m \in directs}
<1>1. T \in SUBSET (Nat \ {0}) /\ T # {}
  BY DirectType
<1>2. \E t \in T : \A u \in T : t <= u
  BY <1>1, LeastExists
<1>3. \E t \in T : \A m \in directs : t <= m.expires
  BY <1>2
<1>4. Earliest(directs) \in T /\ \A m \in directs : Earliest(directs) <= m.expires
  BY <1>3 DEF Earliest
<1> QED BY <1>1, <1>4

\* Pruning removes exactly what has expired.
LEMMA PruneRemovesExpired ==
    ASSUME TypeOK
    PROVE  /\ Prune(received).ids = {m \in received.ids : clock <= m.expires}
           /\ Prune(received).next = Earliest(Prune(received).ids)
<1>1. clock \in Nat /\ received.ids \in SUBSET Directs /\ received.next = Earliest(received.ids)
  BY StdioAssumption DEF TypeOK
<1>2. CASE received.next = 0 \/ clock <= received.next
  <2>1. \A m \in received.ids : clock <= m.expires
    BY <1>1, <1>2, EarliestIsLeast, DirectType
  <2>2. Prune(received) = received
    BY <1>2 DEF Prune
  <2> QED BY <1>1, <2>1, <2>2
<1>3. CASE ~(received.next = 0 \/ clock <= received.next)
  BY <1>3 DEF Prune
<1> QED BY <1>2, <1>3

\* A message is added to the cache.
LEMMA RememberKeepsNext ==
    ASSUME TypeOK, NEW m \in Directs
    PROVE  /\ Remember(received, m).ids = received.ids \cup {m}
           /\ Remember(received, m).next = Earliest(received.ids \cup {m})
<1> DEFINE all == received.ids \cup {m}
           next == Remember(received, m).next
<1>1. received.ids \in SUBSET Directs /\ received.next = Earliest(received.ids)
  BY DEF TypeOK
<1>2. all \in SUBSET Directs /\ all # {}
  BY <1>1
<1>3. next \in {n.expires : n \in all} /\ \A n \in all : next <= n.expires
  <2>1. CASE received.ids = {}
    <3>1. received.next = 0
      BY <1>1, <2>1 DEF Earliest
    <3>2. next = m.expires /\ all = {m}
      BY <2>1, <3>1 DEF Remember
    <3> QED BY <3>2, DirectType
  <2>2. CASE received.ids # {}
    <3>1. /\ received.next \in {n.expires : n \in received.ids}
          /\ \A n \in received.ids : received.next <= n.expires
          /\ received.next \in Nat \ {0}
      BY <1>1, <2>2, EarliestIsLeast
    <3>2. next = IF m.expires < received.next THEN m.expires ELSE received.next
      BY <3>1 DEF Remember
    <3>3. \A n \in all : n.expires \in Nat
      BY <1>2, DirectType
    <3> QED BY <3>1, <3>2, <3>3
  <2> QED BY <2>1, <2>2
<1>4. /\ Earliest(all) \in {n.expires : n \in all}
      /\ \A n \in all : Earliest(all) <= n.expires
  BY <1>2, EarliestIsLeast
<1>5. next \in Nat /\ Earliest(all) \in Nat
  BY <1>2, <1>3, <1>4, DirectType
<1>6. next <= Earliest(all) /\ Earliest(all) <= next
  BY <1>3, <1>4
<1>7. next = Earliest(all)
  BY <1>5, <1>6
<1> QED BY <1>7 DEF Remember

-----------------------------------------------------------------------------
\* Type correctness.  The cache is a finite set, which its limit is about, and
\* a message that has the lock and waits for the channel has found room in it.

HasPassed(d) == deliveries[d].pc = "send" /\ deliveries[d].kind = "direct"

CacheInv ==
    /\ TypeOK
    /\ IsFiniteSet(received.ids)
    /\ \A d \in Deliveries :
          /\ deliveries[d].kind = "direct" => deliveries[d].direct \in Directs
          /\ deliveries[d].pc = "notify" => deliveries[d].kind = "event"
          /\ HasPassed(d) => identityOps = d /\ Cardinality(received.ids) < MaxReceived

\* The holders of the lock are told apart, and NoSession is a number.
LEMMA Names == /\ "serve" \notin Deliveries /\ Nobody \notin Deliveries /\ Nobody # "serve"
               /\ NoSession \in Nat
BY StdioAssumption DEF Deliveries, Nobody, NoSession

\* A delivery that does nothing has its type.
LEMMA IdleType == Idle \in DeliveryShape
BY Names DEF Idle, DeliveryShape

\* What a reset leaves of the cache: no entry, no next expiry.
LEMMA EmptyType == Earliest({}) = 0 /\ Cardinality({}) = 0 /\ IsFiniteSet({})
BY FS_EmptySet DEF Earliest

\* NewClient starts with an empty cache.
LEMMA CacheInit == Init => CacheInv
<1> SUFFICES ASSUME Init PROVE CacheInv
  OBVIOUS
<1>1. MaxEpoch \in Nat /\ {MaxReceived, MaxClock, EventCapacity} \subseteq Nat \ {0}
  BY StdioAssumption
<1>2. received.ids = {} /\ received.next = 0
  BY DEF Init, Empty
<1>3. deliveries \in [Deliveries -> DeliveryShape]
  BY IdleType DEF Init
<1>4. /\ clock \in 1 .. MaxClock /\ session \in 0 .. NoSession
      /\ identity \in [epoch : 0 .. MaxEpoch, announced : 0 .. MaxEpoch]
      /\ events \in [queued : 0 .. EventCapacity, closed : BOOLEAN]
  BY <1>1, Names DEF Init
<1>5. /\ received.ids \subseteq Directs /\ received.next = Earliest(received.ids)
      /\ Cardinality(received.ids) <= MaxReceived
  BY <1>1, <1>2, EmptyType
<1>6. /\ delivered \in [Directs -> Nat]
      /\ identityOps \in Deliveries \cup {Nobody, "serve"}
      /\ notifyClosed \in BOOLEAN /\ writer \in {"receive", "write", "failed", "ended"}
      /\ world \in [interrupted : BOOLEAN, broken : BOOLEAN]
  BY DEF Init
<1>7. TypeOK
  BY <1>3, <1>4, <1>5, <1>6 DEF Init, TypeOK
<1> QED BY <1>7, EmptyType DEF Init, CacheInv, HasPassed, Empty, Idle

\* The steps of the deliveries.
LEMMA CacheLocks ==
    ASSUME CacheInv, NEW d \in Deliveries, Locks(d)
    PROVE  CacheInv'
<1>1. /\ received'.ids \subseteq received.ids
      /\ received'.next = Earliest(received'.ids)
  <2>1. received' = received \/ received' = Prune(received)
    BY DEF Locks
  <2> QED BY <2>1, PruneRemovesExpired DEF CacheInv, TypeOK
<1>2. IsFiniteSet(received'.ids) /\ Cardinality(received'.ids) <= Cardinality(received.ids)
  BY <1>1, FS_Subset DEF CacheInv
<1>3. Cardinality(received'.ids) \in Nat /\ Cardinality(received.ids) \in Nat
  BY <1>2, FS_CardinalityType DEF CacheInv
<1>4. MaxReceived \in Nat
  BY StdioAssumption
<1>5. CASE Refused(d) \/ Drops(d) \/ notifyClosed
  <2>1. deliveries' = [deliveries EXCEPT ![d] = Idle] /\ identityOps' = Nobody
    BY <1>5 DEF Locks, Ends
  <2>2. TypeOK'
    BY <1>1, <1>2, <1>3, <1>4, <2>1, IdleType DEF CacheInv, TypeOK, Locks, DeliverySteps
  <2>3. \A e \in Deliveries : ~HasPassed(e)'
    BY <2>1, Names DEF CacheInv, TypeOK, HasPassed, Idle, Locks
  <2> QED BY <1>2, <2>1, <2>2, <2>3 DEF CacheInv, TypeOK, Idle
<1>6. CASE ~(Refused(d) \/ Drops(d) \/ notifyClosed)
  <2>1. deliveries' = [deliveries EXCEPT ![d].pc = "send"] /\ identityOps' = d
    BY <1>6 DEF Locks
  <2>2. TypeOK'
    BY <1>1, <1>2, <1>3, <1>4, <2>1
       DEF CacheInv, TypeOK, Locks, DeliverySteps, DeliveryShape
  <2>3. \A e \in Deliveries : e # d => ~HasPassed(e)'
    BY <2>1, Names DEF CacheInv, TypeOK, HasPassed, Locks
  <2>4. HasPassed(d)' => Cardinality(received'.ids) < MaxReceived
    BY <1>3, <1>4, <1>6, <2>1 DEF CacheInv, TypeOK, DeliveryShape, HasPassed, Drops
  <2> QED BY <1>2, <2>1, <2>2, <2>3, <2>4 DEF CacheInv, TypeOK, DeliveryShape
<1> QED BY <1>5, <1>6

\* A queued direct message is remembered within the limit: it has found room, and
\* nobody else could take it while the lock was held.
LEMMA CacheSends ==
    ASSUME CacheInv, NEW d \in Deliveries, Sends(d)
    PROVE  CacheInv'
<1>1. /\ deliveries' = [deliveries EXCEPT ![d] = Idle]
      /\ identityOps' \in {identityOps, Nobody} /\ (identityOps # d => identityOps' = identityOps)
  BY DEF Sends, Ends
<1>2. /\ received'.ids \subseteq Directs /\ received'.next = Earliest(received'.ids)
      /\ IsFiniteSet(received'.ids) /\ Cardinality(received'.ids) <= MaxReceived
      /\ \A m \in Directs : delivered'[m] \in Nat
      /\ deliveries[d].kind # "direct" => received' = received
      /\ delivered' \in [Directs -> Nat]
  <2>1. CASE deliveries[d].kind = "direct"
    <3> DEFINE m == deliveries[d].direct
    <3>1. m \in Directs /\ Cardinality(received.ids) < MaxReceived
      BY <2>1 DEF CacheInv, HasPassed, Sends
    <3>2. received' = Remember(received, m) /\ delivered' = [delivered EXCEPT ![m] = @ + 1]
      BY <2>1 DEF Sends
    <3>3. received'.ids = received.ids \cup {m} /\ received'.next = Earliest(received'.ids)
      BY <3>1, <3>2, RememberKeepsNext DEF CacheInv
    <3>4. /\ IsFiniteSet(received'.ids)
          /\ Cardinality(received'.ids) \in {Cardinality(received.ids), Cardinality(received.ids) + 1}
          /\ Cardinality(received.ids) \in Nat
      <4> HIDE DEF m
      <4>1. IsFiniteSet(received.ids)
        BY DEF CacheInv
      <4> QED BY SMTT(30), <3>3, <4>1, FS_AddElement, FS_CardinalityType
    <3>5. MaxReceived \in Nat
      BY StdioAssumption
    <3>6. delivered' \in [Directs -> Nat]
      BY <3>1, <3>2 DEF CacheInv, TypeOK
    <3>7. Cardinality(received'.ids) <= MaxReceived
      BY <3>1, <3>4, <3>5
    <3> QED BY <2>1, <3>1, <3>3, <3>4, <3>6, <3>7 DEF CacheInv, TypeOK
  <2>2. CASE deliveries[d].kind # "direct"
    <3>1. received' = received /\ delivered' = delivered
      BY <2>2 DEF Sends
    <3> QED BY <3>1 DEF CacheInv, TypeOK
  <2> QED BY <2>1, <2>2
<1>3. TypeOK'
  BY <1>1, <1>2, IdleType, StdioAssumption DEF CacheInv, TypeOK, Sends, DeliverySteps
<1>4. \A e \in Deliveries : HasPassed(e)' => HasPassed(e) /\ e # d
  BY <1>1 DEF CacheInv, TypeOK, HasPassed, Idle
<1>5. \A e \in Deliveries :
        HasPassed(e)' => identityOps' = e /\ Cardinality(received'.ids) < MaxReceived
  <2> SUFFICES ASSUME NEW e \in Deliveries, HasPassed(e)'
               PROVE  identityOps' = e /\ Cardinality(received'.ids) < MaxReceived
    OBVIOUS
  <2>1. HasPassed(e) /\ e # d /\ identityOps = e /\ Cardinality(received.ids) < MaxReceived
    BY <1>4 DEF CacheInv
  <2>2. deliveries[d].kind # "direct"
    BY <2>1 DEF CacheInv, HasPassed, Sends
  <2> QED BY <1>1, <1>2, <2>1, <2>2
<1> QED BY <1>1, <1>2, <1>3, <1>5 DEF CacheInv, TypeOK, Idle

\* notifyUntil without the lock and a delivery that gives up leave the cache alone.
LEMMA CacheEntersOrGivesUp ==
    ASSUME CacheInv, NEW d \in Deliveries, Enters(d) \/ GivesUp(d)
    PROVE  CacheInv'
<1>1. \/ /\ deliveries' = [deliveries EXCEPT ![d] = Idle]
         /\ identityOps' \in {identityOps, Nobody} /\ (identityOps # d => identityOps' = identityOps)
      \/ /\ deliveries[d].pc = "notify" /\ identityOps' = identityOps
         /\ deliveries' = [deliveries EXCEPT ![d].pc = "send"]
  BY DEF Enters, GivesUp, Ends
<1>2. received' = received /\ delivered' = delivered
  BY DEF Enters, GivesUp
<1>3. TypeOK'
  <2>1. deliveries' \in [Deliveries -> DeliveryShape]
    BY <1>1, IdleType DEF CacheInv, TypeOK, DeliveryShape
  <2> QED BY <1>1, <1>2, <2>1 DEF CacheInv, TypeOK, Enters, GivesUp, DeliverySteps
<1>4. \A e \in Deliveries : HasPassed(e)' => HasPassed(e) /\ e # d
  BY <1>1 DEF CacheInv, TypeOK, HasPassed, Idle, DeliveryShape
<1> QED BY <1>1, <1>2, <1>3, <1>4 DEF CacheInv, TypeOK, Idle, DeliveryShape

\* A delivery that begins has passed nothing yet.
LEMMA CacheStarts ==
    ASSUME CacheInv, NEW d \in Deliveries,
           (\E m \in Directs : Arrives(d, m)) \/ Changes(d)
    PROVE  CacheInv'
<1> DEFINE Started(x) ==
        /\ x \in DeliveryShape
        /\ deliveries' = [deliveries EXCEPT ![d] = x]
        /\ x.kind = "direct" => x.direct \in Directs
        /\ x.pc \in {"lock", "notify"}
        /\ x.pc = "notify" => x.kind = "event"
<1>1. PICK started : Started(started)
  <2>1. \A m \in Directs \cup {NoDirect}, kind \in {"direct", "view"} :
          OfSession(kind, m) \in DeliveryShape
    BY DEF CacheInv, TypeOK, OfSession, DeliveryShape
  <2>2. [Idle EXCEPT !.pc = "notify", !.kind = "event"] \in DeliveryShape
    BY IdleType DEF DeliveryShape
  <2>3. ASSUME NEW m \in Directs, Arrives(d, m) PROVE deliveries' = [deliveries EXCEPT ![d] = OfSession("direct", m)]
    BY <2>3 DEF Arrives
  <2>4. ASSUME Changes(d)
        PROVE  \/ deliveries' = [deliveries EXCEPT ![d] = OfSession("view", NoDirect)]
               \/ deliveries' = [deliveries EXCEPT ![d] = [Idle EXCEPT !.pc = "notify", !.kind = "event"]]
    BY <2>4 DEF Changes
  <2>5. \A m : OfSession("direct", m).direct = m /\ OfSession("direct", m).pc = "lock"
    BY DEF OfSession
  <2>6. OfSession("view", NoDirect).kind = "view" /\ OfSession("view", NoDirect).pc = "lock"
    BY DEF OfSession
  <2>7. /\ [Idle EXCEPT !.pc = "notify", !.kind = "event"].kind = "event"
        /\ [Idle EXCEPT !.pc = "notify", !.kind = "event"].pc = "notify"
    BY DEF Idle
  <2>8. ASSUME NEW m \in Directs, Arrives(d, m) PROVE Started(OfSession("direct", m))
    BY <2>1, <2>3, <2>5, <2>8
  <2>9. CASE deliveries' = [deliveries EXCEPT ![d] = OfSession("view", NoDirect)]
    <3>1. Started(OfSession("view", NoDirect))
      BY <2>1, <2>6, <2>9
    <3> QED BY <3>1
  <2>10. CASE deliveries' = [deliveries EXCEPT ![d] = [Idle EXCEPT !.pc = "notify", !.kind = "event"]]
    <3>1. Started([Idle EXCEPT !.pc = "notify", !.kind = "event"])
      BY <2>2, <2>7, <2>10
    <3> QED BY <3>1
  <2> HIDE DEF Started
  <2> QED BY <2>4, <2>8, <2>9, <2>10
<1>2. UNCHANGED <<received, delivered, identityOps, events>> /\ DeliverySteps(d)
  BY DEF Arrives, Changes
<1>3. TypeOK'
  BY <1>1, <1>2 DEF CacheInv, TypeOK, DeliverySteps
<1>4. \A e \in Deliveries : HasPassed(e)' => HasPassed(e)
  BY <1>1 DEF CacheInv, TypeOK, HasPassed
<1> QED BY <1>1, <1>2, <1>3, <1>4 DEF CacheInv, TypeOK

\* closeSession changes nothing that the cache depends on.
LEMMA OrphanedKeeps ==
    ASSUME TypeOK
    PROVE  /\ Orphaned \in [Deliveries -> DeliveryShape]
           /\ \A e \in Deliveries :
                 /\ Orphaned[e].pc = deliveries[e].pc /\ Orphaned[e].kind = deliveries[e].kind
                 /\ Orphaned[e].epoch = deliveries[e].epoch
                 /\ Orphaned[e].direct = deliveries[e].direct
<1>1. ASSUME NEW e \in Deliveries
      PROVE  /\ Orphaned[e] \in DeliveryShape
             /\ Orphaned[e].pc = deliveries[e].pc /\ Orphaned[e].kind = deliveries[e].kind
             /\ Orphaned[e].epoch = deliveries[e].epoch
             /\ Orphaned[e].direct = deliveries[e].direct
  <2>1. deliveries[e] \in DeliveryShape
    BY DEF TypeOK
  <2>2. Orphaned[e] = [deliveries[e] EXCEPT !.live = FALSE]
    BY DEF Orphaned
  <2> QED BY <2>1, <2>2 DEF DeliveryShape
<1>2. Orphaned = [e \in Deliveries |-> Orphaned[e]]
  BY DEF Orphaned
<1> QED BY <1>1, <1>2

\* What Serve, the writer and the world do to the cache: a reset empties it, while
\* nobody else has the lock.
ServeSteps ==
    \/ Takes \/ EndsInput \/ Stops \/ LocksForChange \/ LocksForReset \/ Announces
    \/ ClosesSessions \/ Cancels \/ ClosesNotify \/ ClosesEvents \/ Returns

\* The steps of Serve keep the types of the session's other state.
LEMMA ServeType ==
    ASSUME TypeOK, ServeSteps
    PROVE  /\ serve' \in [pc : {"select", "lock", "notify", "close", "close_lock",
                               "close_notify", "close_wait", "close_writer", "returned"},
                         request : {"none", "change", "reset"}, cancelled : BOOLEAN]
           /\ events' \in [queued : 0 .. EventCapacity, closed : BOOLEAN]
           /\ identity' \in [epoch : 0 .. MaxEpoch, announced : 0 .. MaxEpoch]
           /\ session' \in 0 .. NoSession /\ notifyClosed' \in BOOLEAN
           /\ UNCHANGED <<clock, delivered, writer, world>>
<1> USE DEF TypeOK, Goes, Continues, Answers
<1>1. CASE Takes
  BY <1>1 DEF Takes, client
<1>2. CASE EndsInput \/ Stops \/ Cancels \/ Returns
  BY <1>2 DEF EndsInput, Stops, Cancels, Returns, client
<1>3. CASE LocksForChange
  BY <1>3 DEF LocksForChange
<1>4. CASE LocksForReset
  <2>1. MaxEpoch \in Nat
    BY StdioAssumption
  <2>2. identity' \in [epoch : 0 .. MaxEpoch, announced : 0 .. MaxEpoch]
    BY <1>4, <2>1 DEF LocksForReset
  <2>3. session' \in 0 .. NoSession
    BY <1>4, Names DEF LocksForReset
  <2> QED BY <1>4, <2>2, <2>3 DEF LocksForReset
<1>5. CASE Announces
  <2>1. EventCapacity \in Nat /\ MaxEpoch \in Nat
    BY StdioAssumption
  <2>2. identity' \in [epoch : 0 .. MaxEpoch, announced : 0 .. MaxEpoch]
    BY <1>5, <2>1 DEF Announces
  <2>3. events' \in [queued : 0 .. EventCapacity, closed : BOOLEAN]
    BY <1>5, <2>1 DEF Announces
  <2> QED BY <1>5, <2>2, <2>3 DEF Announces
<1>6. CASE ClosesSessions \/ ClosesNotify
  <2>1. session' \in 0 .. NoSession
    BY <1>6, Names DEF ClosesSessions, ClosesNotify
  <2> QED BY <1>6, <2>1 DEF ClosesSessions, ClosesNotify
<1>7. CASE ClosesEvents
  BY <1>7 DEF ClosesEvents
<1> QED BY <1>1, <1>2, <1>3, <1>4, <1>5, <1>6, <1>7 DEF ServeSteps

\* Serve moves no delivery, empties the cache in a reset at most, and takes the lock
\* only when it is free.
LEMMA ServeKeeps ==
    ASSUME TypeOK, ServeSteps
    PROVE  /\ deliveries' \in {deliveries, Orphaned}
           /\ received' \in {received, Empty}
           /\ identityOps' \in {identityOps, Nobody, "serve"}
           /\ identityOps \in Deliveries /\ ~Announces
                 => identityOps' = identityOps /\ received' = received
           /\ Announces => received' = received
<1>1. Nobody \notin Deliveries
  BY Names
<1> QED BY <1>1 DEF ServeSteps, Takes, EndsInput, Stops, LocksForChange, LocksForReset,
       Announces, ClosesSessions, Cancels, ClosesNotify, ClosesEvents, Returns, client

\* Serve holds the lock exactly while it waits to announce a change.
LockInv == identityOps = "serve" <=> serve.pc = "notify"

\* Only the step that takes the lock for a change leads to its announcement, and the
\* announcement returns it.
LEMMA LockStep ==
    ASSUME TypeOK, LockInv, [Next]_vars
    PROVE  LockInv'
<1>1. ASSUME NEW d \in Deliveries, Locks(d) \/ Delivers(d) PROVE LockInv'
  BY <1>1, Names DEF LockInv, Locks, Delivers, Enters, Sends, GivesUp, Ends, DeliverySteps
<1>2. ASSUME \/ \E d \in Handlers, m \in Directs : Arrives(d, m)
             \/ \E d \in Workers : Changes(d)
      PROVE  LockInv'
  BY <1>2 DEF LockInv, Arrives, Changes, DeliverySteps
<1>3. CASE Outside \/ WriterStep \/ UNCHANGED vars
  BY <1>3 DEF LockInv, Outside, Connect, SessionEnds, WriterStep, WriterReceives,
              WriterWrites, client, vars
<1>4. CASE Takes
  <2>1. serve.pc = "select" /\ UNCHANGED identityOps
    BY <1>4 DEF Takes, client
  <2>2. serve'.pc \in {"select", "close", "lock"}
    BY <1>4 DEF TypeOK, Takes, Continues, Answers
  <2> QED BY <2>1, <2>2 DEF LockInv
<1>5. CASE EndsInput \/ Stops \/ Cancels \/ ClosesNotify \/ ClosesEvents \/ Returns
  <2>1. serve.pc # "notify" /\ UNCHANGED identityOps
    BY <1>5 DEF EndsInput, Stops, Cancels, ClosesNotify, ClosesEvents, Returns, client
  <2>2. serve'.pc # "notify"
    BY <1>5 DEF TypeOK, EndsInput, Stops, Cancels, ClosesNotify, ClosesEvents, Returns, Goes
  <2> QED BY <2>1, <2>2 DEF LockInv
<1>6. CASE LocksForChange \/ LocksForReset \/ ClosesSessions
  <2>1. serve.pc # "notify" /\ identityOps = Nobody
    BY <1>6 DEF LocksForChange, LocksForReset, ClosesSessions
  <2>2. \/ identityOps' = "serve" /\ Goes("notify")
        \/ UNCHANGED identityOps /\ Answers
        \/ UNCHANGED identityOps /\ serve'.pc # "notify"
    BY <1>6 DEF TypeOK, LocksForChange, LocksForReset, ClosesSessions
  <2>3. CASE identityOps' = "serve" /\ Goes("notify")
    BY <2>3 DEF LockInv, TypeOK, Goes
  <2>4. CASE UNCHANGED identityOps /\ Answers
    BY <2>1, <2>4, Names DEF LockInv, TypeOK, Answers, Continues
  <2>5. CASE UNCHANGED identityOps /\ serve'.pc # "notify"
    BY <2>1, <2>5, Names DEF LockInv
  <2> QED BY <2>2, <2>3, <2>4, <2>5
<1>7. CASE Announces
  <2>1. identityOps' = Nobody
    BY <1>7 DEF Announces
  <2>2. Answers
    BY <1>7 DEF Announces
  <2>3. serve'.pc # "notify"
    BY <2>2 DEF TypeOK, Answers, Continues
  <2> QED BY <2>1, <2>3, Names DEF LockInv
<1> QED BY <1>1, <1>2, <1>3, <1>4, <1>5, <1>6, <1>7 DEF Next, ServeWaits, ServeGoes

\* The steps of Serve keep the cache.
LEMMA CacheServe ==
    ASSUME CacheInv, LockInv, ServeSteps
    PROVE  CacheInv'
<1>1. deliveries' \in [Deliveries -> DeliveryShape]
  BY ServeKeeps, OrphanedKeeps DEF CacheInv, TypeOK
<1>2. \A e \in Deliveries :
        /\ deliveries'[e].pc = deliveries[e].pc /\ deliveries'[e].kind = deliveries[e].kind
        /\ deliveries'[e].direct = deliveries[e].direct
  BY ServeKeeps, OrphanedKeeps DEF CacheInv
<1>3. /\ received'.ids \subseteq Directs /\ IsFiniteSet(received'.ids)
      /\ received'.next = Earliest(received'.ids) /\ Cardinality(received'.ids) <= MaxReceived
  <2>1. MaxReceived \in Nat
    BY StdioAssumption
  <2>2. Empty.ids = {} /\ Empty.next = 0
    BY DEF Empty
  <2>3. CASE received' = received
    BY <2>3 DEF CacheInv, TypeOK
  <2>4. CASE received' = Empty
    BY <2>1, <2>2, <2>4, EmptyType
  <2> QED BY <2>3, <2>4, ServeKeeps DEF CacheInv
<1>4. identityOps' \in Deliveries \cup {Nobody, "serve"}
  BY ServeKeeps DEF CacheInv, TypeOK
<1>5. TypeOK'
  BY <1>1, <1>3, <1>4, ServeType DEF CacheInv, TypeOK
<1>6. ASSUME NEW e \in Deliveries, HasPassed(e)'
      PROVE  identityOps' = e /\ Cardinality(received'.ids) < MaxReceived
  <2>1. HasPassed(e) /\ identityOps = e /\ Cardinality(received.ids) < MaxReceived
    BY <1>2, <1>6 DEF HasPassed, CacheInv
  <2>2. ~Announces
    BY <2>1, Names DEF Announces, LockInv
  <2> QED BY <2>1, <2>2, ServeKeeps DEF CacheInv
<1> QED BY <1>2, <1>3, <1>5, <1>6 DEF CacheInv

\* Time, contexts, sessions and the writer keep the cache.
LEMMA CacheOutside ==
    ASSUME CacheInv, Outside \/ WriterStep \/ UNCHANGED vars
    PROVE  CacheInv'
<1>1. deliveries' \in {deliveries, Orphaned} /\ UNCHANGED <<received, delivered, identityOps>>
  BY DEF Outside, Connect, SessionEnds, WriterStep, WriterReceives, WriterWrites, client, vars
<1>2. deliveries' \in [Deliveries -> DeliveryShape]
  BY <1>1, OrphanedKeeps DEF CacheInv, TypeOK
<1>3. \A e \in Deliveries :
        /\ deliveries'[e].pc = deliveries[e].pc /\ deliveries'[e].kind = deliveries[e].kind
        /\ deliveries'[e].direct = deliveries[e].direct
  BY <1>1, OrphanedKeeps DEF CacheInv
<1>4. clock' \in 1 .. MaxClock /\ session' \in 0 .. NoSession
  <2>1. MaxClock \in Nat /\ MaxEpoch \in Nat
    BY StdioAssumption
  <2>2. clock' \in 1 .. MaxClock
    BY <2>1 DEF CacheInv, TypeOK, Outside, Connect, SessionEnds, Tick, WriterStep,
                WriterReceives, WriterWrites, client, vars
  <2>3. session' \in {session, identity.epoch, NoSession}
    BY DEF Outside, Connect, SessionEnds, WriterStep, WriterReceives, WriterWrites, client, vars
  <2> QED BY <2>1, <2>2, <2>3, Names DEF CacheInv, TypeOK, NoSession
<1>5. events' \in [queued : 0 .. EventCapacity, closed : BOOLEAN]
  <2>1. EventCapacity \in Nat
    BY StdioAssumption
  <2> QED BY <2>1 DEF CacheInv, TypeOK, Outside, Connect, SessionEnds, WriterStep,
               WriterReceives, WriterWrites, client, vars
<1>6. /\ UNCHANGED <<identity, notifyClosed, serve>>
      /\ writer' \in {"receive", "write", "failed", "ended"}
      /\ world' \in [interrupted : BOOLEAN, broken : BOOLEAN]
  BY DEF CacheInv, TypeOK, Outside, Connect, SessionEnds, Interrupt, OutputBreaks, WriterStep,
         WriterReceives, WriterWrites, client, vars
<1>7. TypeOK'
  BY <1>1, <1>2, <1>4, <1>5, <1>6 DEF CacheInv, TypeOK
<1> QED BY <1>1, <1>3, <1>7 DEF CacheInv, HasPassed

\* Every step keeps the cache and the lock.
LEMMA CacheStep == CacheInv /\ LockInv /\ [Next]_vars => CacheInv' /\ LockInv'
<1> SUFFICES ASSUME CacheInv, LockInv, [Next]_vars PROVE CacheInv'
  BY LockStep DEF CacheInv
<1>1. ASSUME NEW d \in Deliveries, Locks(d) \/ Delivers(d) PROVE CacheInv'
  BY <1>1, CacheLocks, CacheSends, CacheEntersOrGivesUp DEF Delivers
<1>2. ASSUME NEW d \in Handlers, NEW m \in Directs, Arrives(d, m) PROVE CacheInv'
  BY <1>2, CacheStarts DEF Deliveries
<1>3. ASSUME NEW d \in Workers, Changes(d) PROVE CacheInv'
  BY <1>3, CacheStarts DEF Deliveries
<1>4. CASE ServeSteps
  BY <1>4, CacheServe
<1>5. CASE Outside \/ WriterStep \/ UNCHANGED vars
  BY <1>5, CacheOutside
<1> QED BY <1>1, <1>2, <1>3, <1>4, <1>5 DEF Next, ServeSteps, ServeWaits, ServeGoes

\* Every reachable state has its type: the replay cache never exceeds its limit and
\* always knows its next expiry.
THEOREM TypeCorrect == Spec => []TypeOK
<1>1. CacheInv => TypeOK
  BY DEF CacheInv
<1>2. Init => LockInv
  BY Names DEF Init, LockInv
<1> QED BY <1>1, <1>2, CacheInit, CacheStep, PTL DEF Spec

-----------------------------------------------------------------------------
\* How a step moves a delivery.

Same(d) ==
    /\ deliveries'[d].pc = deliveries[d].pc /\ deliveries'[d].kind = deliveries[d].kind
    /\ deliveries'[d].epoch = deliveries[d].epoch
    /\ deliveries'[d].direct = deliveries[d].direct

\* It goes on with what it has, and waits for room in the channel.
GoesOn(d) ==
    /\ deliveries'[d].pc = "send" /\ deliveries'[d].kind = deliveries[d].kind
    /\ deliveries'[d].epoch = deliveries[d].epoch
    /\ deliveries'[d].direct = deliveries[d].direct
    /\ ~notifyClosed

\* A step of a delivery moves that one, to its end or into the channel: notifyUntil
\* lets nobody in after Close, and only checks let a direct message pass.
LEMMA OneMoves ==
    ASSUME CacheInv, NEW d \in Deliveries, Locks(d) \/ Delivers(d)
    PROVE  /\ \A e \in Deliveries : e # d => deliveries'[e] = deliveries[e]
           /\ \/ deliveries'[d] = Idle
              \/ GoesOn(d) /\ Enters(d) /\ deliveries[d].kind = "event"
              \/ GoesOn(d) /\ Locks(d) /\ ~Refused(d) /\ ~Drops(d)
<1> USE DEF CacheInv, TypeOK
<1>1. CASE Locks(d) /\ (Refused(d) \/ Drops(d) \/ notifyClosed)
  BY <1>1 DEF Locks, Ends
<1>2. CASE Locks(d) /\ ~(Refused(d) \/ Drops(d) \/ notifyClosed)
  <2>1. deliveries' = [deliveries EXCEPT ![d].pc = "send"]
    BY <1>2 DEF Locks
  <2>2. GoesOn(d)
    BY <1>2, <2>1 DEF GoesOn, DeliveryShape
  <2> QED BY <1>2, <2>1, <2>2
<1>3. CASE Enters(d)
  <2>1. deliveries[d].kind = "event"
    BY <1>3 DEF Enters
  <2>2. CASE notifyClosed
    BY <1>3, <2>2 DEF Enters, Ends
  <2>3. CASE ~notifyClosed
    <3>1. deliveries' = [deliveries EXCEPT ![d].pc = "send"]
      BY <1>3, <2>3 DEF Enters
    <3>2. GoesOn(d)
      BY <2>3, <3>1 DEF GoesOn, DeliveryShape
    <3> QED BY <1>3, <2>1, <3>1, <3>2
  <2> QED BY <2>2, <2>3
<1>4. CASE Sends(d) \/ GivesUp(d)
  BY <1>4 DEF Sends, GivesUp, Ends
<1> QED BY <1>1, <1>2, <1>3, <1>4 DEF Delivers

\* Every other step but a new delivery leaves the deliveries where they are.
LEMMA NobodyMoves ==
    ASSUME CacheInv, ServeSteps \/ Outside \/ WriterStep \/ UNCHANGED vars, NEW d \in Deliveries
    PROVE  Same(d)
<1>1. deliveries' \in {deliveries, Orphaned}
  BY ServeKeeps DEF CacheInv, Outside, Connect, SessionEnds, WriterStep, WriterReceives,
                    WriterWrites, client, vars
<1> QED BY <1>1, OrphanedKeeps DEF CacheInv, Same

\* A delivery starts from idle, before its checks.
LEMMA OneStarts ==
    ASSUME CacheInv, NEW d \in Deliveries, (\E m \in Directs : Arrives(d, m)) \/ Changes(d)
    PROVE  /\ \A e \in Deliveries : e # d => deliveries'[e] = deliveries[e]
           /\ deliveries[d] = Idle
           /\ deliveries'[d].pc # "send"
           /\ \/ deliveries'[d].kind # "direct"
              \/ \E m \in Directs : Arrives(d, m) /\ deliveries'[d] = OfSession("direct", m)
<1> USE DEF CacheInv, TypeOK
<1>1. ASSUME NEW m \in Directs, Arrives(d, m)
      PROVE  /\ deliveries' = [deliveries EXCEPT ![d] = OfSession("direct", m)]
             /\ deliveries[d] = Idle
  BY <1>1 DEF Arrives
<1>2. ASSUME NEW m PROVE OfSession("direct", m).pc = "lock"
  BY DEF OfSession
<1>3. CASE \E m \in Directs : Arrives(d, m)
  BY <1>1, <1>2, <1>3
<1>4. CASE Changes(d) /\ deliveries' = [deliveries EXCEPT ![d] = OfSession("view", NoDirect)]
  <2>1. deliveries'[d].kind = "view" /\ deliveries'[d].pc = "lock"
    BY <1>4 DEF OfSession
  <2> QED BY <1>4, <2>1 DEF Changes
<1>5. CASE /\ Changes(d)
           /\ deliveries' = [deliveries EXCEPT ![d] = [Idle EXCEPT !.pc = "notify", !.kind = "event"]]
  <2>1. deliveries'[d].kind = "event" /\ deliveries'[d].pc = "notify"
    BY <1>5 DEF Idle
  <2> QED BY <1>5, <2>1 DEF Changes
<1> QED BY <1>3, <1>4, <1>5 DEF Changes

\* The ways a step can go, for the proofs below.
LEMMA StepKinds ==
    ASSUME [Next]_vars
    PROVE  \/ \E d \in Deliveries : Locks(d) \/ Delivers(d)
           \/ \E d \in Deliveries : (\E m \in Directs : Arrives(d, m)) \/ Changes(d)
           \/ ServeSteps
           \/ Outside \/ WriterStep \/ UNCHANGED vars
BY DEF Next, ServeSteps, ServeWaits, ServeGoes, Deliveries

-----------------------------------------------------------------------------
\* The shutdown: the client counts nobody in after it has closed, and waits for
\* those who are in.

ClosedInv ==
    /\ serve.pc \in {"close_lock", "close_notify", "close_wait", "close_writer", "returned"}
          => serve.cancelled
    /\ notifyClosed <=> serve.pc \in {"close_wait", "close_writer", "returned"}
    /\ events.closed <=> serve.pc \in {"close_writer", "returned"}
    /\ NoSendOnClosed

\* Every step keeps the shutdown in order.
LEMMA ClosedStep ==
    ASSUME CacheInv, ClosedInv, [Next]_vars
    PROVE  ClosedInv'
<1>1. ASSUME NEW d \in Deliveries, Locks(d) \/ Delivers(d) PROVE ClosedInv'
  <2>1. UNCHANGED <<serve, notifyClosed>> /\ events'.closed = events.closed
    BY <1>1 DEF CacheInv, TypeOK, Locks, Delivers, Enters, Sends, GivesUp, DeliverySteps
  <2>2. \A e \in Deliveries : deliveries'[e].pc = "send" => deliveries[e].pc = "send" \/ ~notifyClosed
    BY <1>1, OneMoves DEF GoesOn, Idle
  <2> QED BY <2>1, <2>2 DEF ClosedInv, NoSendOnClosed
<1>2. ASSUME NEW d \in Deliveries, (\E m \in Directs : Arrives(d, m)) \/ Changes(d)
      PROVE  ClosedInv'
  <2>1. UNCHANGED <<serve, notifyClosed, events>>
    BY <1>2 DEF Arrives, Changes, DeliverySteps
  <2>2. \A e \in Deliveries : deliveries'[e].pc = "send" => deliveries[e].pc = "send"
    BY <1>2, OneStarts
  <2> QED BY <2>1, <2>2 DEF ClosedInv, NoSendOnClosed
<1>3. CASE Outside \/ WriterStep \/ UNCHANGED vars
  <2>1. UNCHANGED <<serve, notifyClosed>> /\ events'.closed = events.closed
    BY <1>3 DEF CacheInv, TypeOK, Outside, Connect, SessionEnds, WriterStep, WriterReceives,
                WriterWrites, client, vars
  <2>2. \A e \in Deliveries : deliveries'[e].pc = deliveries[e].pc
    BY <1>3, NobodyMoves DEF Same
  <2> QED BY <2>1, <2>2 DEF ClosedInv, NoSendOnClosed
<1>4. ASSUME ServeSteps PROVE ClosedInv'
  <2>1. \A e \in Deliveries : deliveries'[e].pc = deliveries[e].pc
    BY <1>4, NobodyMoves DEF Same
  <2>2. CASE Takes
    <3>1. UNCHANGED client /\ serve.pc = "select"
      BY <2>2 DEF Takes
    <3>2. serve'.pc \in {"select", "close", "lock"}
      BY <2>2 DEF CacheInv, TypeOK, Takes, Continues, Answers
    <3> QED BY <2>1, <3>1, <3>2 DEF ClosedInv, NoSendOnClosed, client
  <2>3. CASE LocksForChange \/ LocksForReset \/ Announces
    <3>1. serve.pc \in {"lock", "notify"} /\ notifyClosed' = notifyClosed
      BY <2>3 DEF LocksForChange, LocksForReset, Announces
    <3>2. Goes("notify") \/ Answers
      BY <2>3 DEF LocksForChange, LocksForReset, Announces
    <3>3. serve'.pc \in {"notify", "select", "close"}
      BY <3>2 DEF CacheInv, TypeOK, Goes, Answers, Continues
    <3>4. events'.closed = events.closed
      BY <2>3 DEF CacheInv, TypeOK, LocksForChange, LocksForReset, Announces
    <3> QED BY <2>1, <3>1, <3>3, <3>4 DEF ClosedInv, NoSendOnClosed
  <2>4. CASE EndsInput \/ Stops
    <3>1. UNCHANGED client /\ serve.pc = "select" /\ serve'.pc = "close"
      BY <2>4 DEF CacheInv, TypeOK, EndsInput, Stops, Goes
    <3> QED BY <2>1, <3>1 DEF ClosedInv, NoSendOnClosed, client
  <2>5. CASE Cancels \/ ClosesSessions
    <3>1. /\ UNCHANGED <<notifyClosed, events>> /\ serve.pc \in {"close", "close_lock"}
          /\ serve'.pc \in {"close_lock", "close_notify"} /\ serve'.cancelled
      BY <2>5 DEF CacheInv, TypeOK, Cancels, ClosesSessions, client
    <3> QED BY <2>1, <3>1 DEF ClosedInv, NoSendOnClosed
  <2>6. CASE ClosesNotify
    <3>1. /\ notifyClosed' /\ events' = events /\ serve.pc = "close_notify"
          /\ serve'.pc = "close_wait" /\ serve'.cancelled = serve.cancelled
      BY <2>6 DEF CacheInv, TypeOK, ClosesNotify, Goes
    <3> QED BY <2>1, <3>1 DEF ClosedInv, NoSendOnClosed
  <2>7. CASE ClosesEvents
    <3>1. /\ notifyClosed' = notifyClosed /\ events'.closed /\ serve.pc = "close_wait"
          /\ serve'.pc = "close_writer" /\ serve'.cancelled = serve.cancelled
      BY <2>7 DEF CacheInv, TypeOK, ClosesEvents, Goes
    <3>2. \A e \in Deliveries : deliveries[e].pc # "send"
      BY <2>7 DEF ClosesEvents, Waited
    <3> QED BY <2>1, <3>1, <3>2 DEF ClosedInv, NoSendOnClosed
  <2>8. CASE Returns
    <3>1. /\ UNCHANGED client /\ serve.pc = "close_writer"
          /\ serve'.pc = "returned" /\ serve'.cancelled = serve.cancelled
      BY <2>8 DEF CacheInv, TypeOK, Returns, Goes
    <3> QED BY <2>1, <3>1 DEF ClosedInv, NoSendOnClosed, client
  <2> QED BY <1>4, <2>2, <2>3, <2>4, <2>5, <2>6, <2>7, <2>8 DEF ServeSteps
<1> QED BY <1>1, <1>2, <1>3, <1>4, StepKinds

\* A new client is in order.
LEMMA InitInv == Init => CacheInv /\ LockInv /\ ClosedInv
<1>1. Init => LockInv
  BY Names DEF Init, LockInv
<1>2. Init => ClosedInv
  BY DEF Init, ClosedInv, NoSendOnClosed
<1> QED BY <1>1, <1>2, CacheInit

\* Nobody sends to the channel after Close has closed it, whatever goroutines
\* there are and wherever they are when it begins.
THEOREM ClosedChannelIsQuiet == Spec => []NoSendOnClosed
<1>1. CacheInv /\ LockInv /\ ClosedInv /\ [Next]_vars => (CacheInv /\ LockInv /\ ClosedInv)'
  BY CacheStep, ClosedStep
<1>2. ClosedInv => NoSendOnClosed
  BY DEF ClosedInv
<1> QED BY <1>1, <1>2, InitInv, PTL DEF Spec

\* The one step that may refuse a valid direct message does so with a reason.
LEMMA RefusalHasReason ==
    ASSUME CacheInv, ClosedInv, [Next]_vars, NEW d \in Deliveries,
           deliveries[d].pc = "lock", deliveries[d].kind = "direct",
           deliveries'[d] = Idle, ~Refused(d)
    PROVE  \/ deliveries[d].direct \in received.ids
           \/ Cardinality({m \in received.ids : clock <= m.expires}) >= MaxReceived
<1>1. Idle.pc = "idle" /\ deliveries'[d] # deliveries[d] /\ ~Same(d)
  BY DEF Idle, Same
<1>2. Locks(d)
  <2>1. PICK e \in Deliveries : Locks(e) \/ Delivers(e)
    <3>1. ASSUME NEW e \in Deliveries, (\E m \in Directs : Arrives(e, m)) \/ Changes(e)
          PROVE  FALSE
      BY <1>1, <3>1, OneStarts
    <3> QED BY <1>1, <3>1, NobodyMoves, StepKinds
  <2>2. e = d
    BY <1>1, <2>1, OneMoves
  <2> QED BY <2>1, <2>2 DEF Delivers, Enters, Sends, GivesUp
<1>3. ~notifyClosed
  BY DEF ClosedInv, Refused, Cancelled
<1>4. received' = Prune(received)
  BY <1>2 DEF Locks
<1>5. Drops(d)
  <2> SUFFICES ASSUME ~Drops(d) PROVE FALSE
    OBVIOUS
  <2>1. deliveries' = [deliveries EXCEPT ![d].pc = "send"]
    BY <1>2, <1>3 DEF Locks
  <2> QED BY <1>1, <2>1 DEF CacheInv, TypeOK, DeliveryShape
<1>6. received'.ids = {m \in received.ids : clock <= m.expires}
  BY <1>4, PruneRemovesExpired DEF CacheInv
<1> QED BY <1>5, <1>6 DEF Drops

\* A valid message that is refused was delivered before, or meets a cache full of
\* messages that could all be replayed still, for every size of the cache.
THEOREM RefusalsAreJustified == Spec => RefusedOnlyWhenFull
<1>1. CacheInv /\ LockInv /\ ClosedInv /\ [Next]_vars => (CacheInv /\ LockInv /\ ClosedInv)'
  BY CacheStep, ClosedStep
<1> DEFINE A == \A d \in Deliveries :
          /\ deliveries[d].pc = "lock" /\ deliveries[d].kind = "direct"
          /\ deliveries'[d] = Idle /\ ~Refused(d)
          =>  \/ deliveries[d].direct \in received.ids
              \/ Cardinality({m \in received.ids : clock <= m.expires}) >= MaxReceived
<1>2. CacheInv /\ ClosedInv /\ [Next]_vars => [A]_vars
  BY RefusalHasReason
<1>3. RefusedOnlyWhenFull <=> [][A]_vars
  BY PTL DEF RefusedOnlyWhenFull
<1> HIDE DEF A
<1> QED BY <1>1, <1>2, <1>3, InitInv, PTL DEF Spec

-----------------------------------------------------------------------------
\* Direct messages and identities.  What has passed the checks under the lock is
\* of the present identity, which the consumer knows, and was never delivered.

Told == identity.announced = identity.epoch

IdentityInv ==
    /\ session \in {NoSession, identity.epoch}
    /\ Told \/ (serve.pc = "notify" /\ serve.request = "reset") \/ Cancelled
    /\ \A m \in Directs :
          /\ delivered[m] \in {0, 1}
          /\ delivered[m] = 1 =>
                /\ m.to <= identity.epoch
                /\ m \in received.ids \/ clock > m.expires \/ m.to < identity.epoch
    /\ \A d \in Deliveries :
          /\ deliveries[d].kind = "direct" => deliveries[d].direct.to = deliveries[d].epoch
          /\ HasPassed(d) => /\ deliveries[d].epoch = identity.epoch /\ Told
                             /\ delivered[deliveries[d].direct] = 0

SessionInv == CacheInv /\ LockInv /\ ClosedInv /\ IdentityInv

\* A new client has told its consumer who it is, and has announced no message.
LEMMA IdentityInit == Init => IdentityInv
BY DEF Init, IdentityInv, Told, HasPassed, Idle

\* The checks under the lock establish what a waiting direct message relies on: were it
\* announced before, it would be in the cache.
LEMMA IdentityLocks ==
    ASSUME SessionInv, NEW d \in Deliveries, Locks(d)
    PROVE  IdentityInv'
<1>1. UNCHANGED <<clock, identity, session, delivered, serve, world>>
  BY DEF Locks, DeliverySteps
<1>2. received'.ids \in {received.ids, {m \in received.ids : clock <= m.expires}}
  BY PruneRemovesExpired DEF Locks, SessionInv, CacheInv
<1>3. ASSUME NEW m \in Directs, delivered[m] = 1
      PROVE  m \in received'.ids \/ clock > m.expires \/ m.to < identity.epoch
  <2>1. m.expires \in Nat /\ clock \in Nat
    BY DirectType DEF SessionInv, CacheInv, TypeOK
  <2> QED BY <1>2, <1>3, <2>1 DEF SessionInv, IdentityInv
<1>4. ASSUME GoesOn(d), ~Refused(d), ~Drops(d), deliveries[d].kind = "direct"
      PROVE  deliveries[d].epoch = identity.epoch /\ Told /\ delivered[deliveries[d].direct] = 0
  <2> DEFINE m == deliveries[d].direct
  <2>1. identity.epoch = deliveries[d].epoch /\ ~Cancelled /\ ~(clock > m.expires)
    BY <1>4 DEF Refused
  <2>2. Told
    BY <2>1, Names DEF Locks, SessionInv, LockInv, IdentityInv
  <2>3. m \in Directs /\ m.to = identity.epoch
    BY <1>4, <2>1 DEF SessionInv, CacheInv, IdentityInv
  <2>4. m.to \in Nat
    BY <2>3, DirectType
  <2>5. ~(m.to < identity.epoch)
    BY <2>3, <2>4
  <2>6. m \notin received'.ids
    BY <1>4 DEF Drops
  <2> QED BY <1>3, <2>1, <2>2, <2>3, <2>5, <2>6 DEF SessionInv, IdentityInv
<1>5. ASSUME NEW e \in Deliveries
      PROVE  /\ deliveries'[e].kind = "direct" => deliveries'[e].direct.to = deliveries'[e].epoch
             /\ HasPassed(e)' => /\ deliveries'[e].epoch = identity.epoch /\ Told
                                 /\ delivered[deliveries'[e].direct] = 0
  <2>1. CASE e # d
    <3>1. deliveries'[e] = deliveries[e]
      BY <2>1, OneMoves DEF SessionInv
    <3> QED BY <3>1 DEF SessionInv, IdentityInv, HasPassed
  <2>2. CASE e = d /\ deliveries'[d] = Idle
    BY <2>2 DEF Idle, HasPassed
  <2>3. CASE e = d /\ GoesOn(d)
    <3>1. ~Refused(d) /\ ~Drops(d)
      BY <2>3, OneMoves DEF SessionInv, GoesOn, Idle, Locks, Enters
    <3> QED BY <1>4, <2>3, <3>1 DEF SessionInv, IdentityInv, HasPassed, GoesOn
  <2> QED BY <2>1, <2>2, <2>3, OneMoves DEF SessionInv
<1> QED BY <1>1, <1>3, <1>5 DEF SessionInv, IdentityInv, Told, Cancelled

\* A message that is announced has the identity the consumer knows, and is remembered.
LEMMA IdentitySends ==
    ASSUME SessionInv, NEW d \in Deliveries, Sends(d)
    PROVE  /\ IdentityInv'
           /\ \A m \in Directs : delivered'[m] # delivered[m] => m.to = identity.announced
<1> DEFINE m == deliveries[d].direct
<1>1. /\ UNCHANGED <<clock, identity, session, serve, world>>
      /\ \A e \in Deliveries : e # d => deliveries'[e] = deliveries[e]
      /\ deliveries'[d] = Idle
  <2>1. deliveries' = [deliveries EXCEPT ![d] = Idle]
    BY DEF Sends, Ends
  <2> QED BY <2>1 DEF SessionInv, CacheInv, TypeOK, Sends, DeliverySteps
<1>2. CASE deliveries[d].kind # "direct"
  <2>1. UNCHANGED <<received, delivered>>
    BY <1>2 DEF Sends
  <2> QED BY <1>1, <2>1 DEF SessionInv, IdentityInv, HasPassed, Idle, Told, Cancelled
<1>3. CASE deliveries[d].kind = "direct"
  <2>1. HasPassed(d)
    BY <1>3 DEF Sends, HasPassed
  <2>2. /\ m \in Directs /\ identityOps = d /\ Told /\ delivered[m] = 0
        /\ m.to = identity.epoch
    BY <1>3, <2>1 DEF SessionInv, CacheInv, IdentityInv
  <2>3. received'.ids = received.ids \cup {m}
    BY <1>3 DEF Sends, Remember
  <2>4. /\ delivered'[m] = 1
        /\ \A n \in Directs : n # m => delivered'[n] = delivered[n]
    <3>1. delivered' = [delivered EXCEPT ![m] = @ + 1]
      BY <1>3 DEF Sends
    <3> QED BY <2>2, <3>1 DEF SessionInv, CacheInv, TypeOK
  <2>5. m.to \in Nat
    BY <2>2, DirectType
  <2>6. \A e \in Deliveries : ~HasPassed(e)'
    BY <1>1, <2>2 DEF SessionInv, CacheInv, HasPassed, Idle
  <2>7. ASSUME NEW n \in Directs
        PROVE  /\ delivered'[n] \in {0, 1}
               /\ delivered'[n] = 1 =>
                     /\ n.to <= identity.epoch
                     /\ n \in received'.ids \/ clock > n.expires \/ n.to < identity.epoch
    BY <2>2, <2>3, <2>4, <2>5 DEF SessionInv, IdentityInv
  <2>8. \A n \in Directs : delivered'[n] # delivered[n] => n.to = identity.announced
    BY <2>2, <2>4 DEF Told
  <2> HIDE DEF m
  <2> QED BY <1>1, <2>6, <2>7, <2>8 DEF SessionInv, IdentityInv, Idle, Told, Cancelled
<1> QED BY <1>2, <1>3

\* Other ends and entries of deliveries leave the identity alone.
LEMMA IdentityEntersOrGivesUp ==
    ASSUME SessionInv, NEW d \in Deliveries, Enters(d) \/ GivesUp(d)
    PROVE  IdentityInv'
<1>1. UNCHANGED <<clock, identity, session, received, delivered, serve, world>>
  BY DEF Enters, GivesUp, DeliverySteps
<1>2. ASSUME NEW e \in Deliveries
      PROVE  \/ deliveries'[e] = deliveries[e]
             \/ deliveries'[e] = Idle
             \/ deliveries'[e].kind = "event"
  BY OneMoves DEF SessionInv, Delivers, GoesOn, Enters, GivesUp, Locks
<1> QED BY <1>1, <1>2 DEF SessionInv, IdentityInv, HasPassed, Idle, Told, Cancelled

\* The broadcast a session delivers is sealed for the identity of that session.
LEMMA IdentityStarts ==
    ASSUME SessionInv, NEW d \in Deliveries,
           (\E m \in Directs : Arrives(d, m)) \/ Changes(d)
    PROVE  IdentityInv'
<1>1. UNCHANGED <<clock, identity, session, received, delivered, serve, world>>
  BY DEF Arrives, Changes, DeliverySteps
<1>2. ASSUME NEW m \in Directs, Arrives(d, m)
      PROVE  OfSession("direct", m).direct.to = OfSession("direct", m).epoch
  BY <1>2 DEF Arrives, OfSession, SessionInv, IdentityInv
<1>3. ASSUME NEW e \in Deliveries
      PROVE  /\ deliveries'[e].kind = "direct" => deliveries'[e].direct.to = deliveries'[e].epoch
             /\ HasPassed(e)' => HasPassed(e) /\ deliveries'[e] = deliveries[e]
  BY <1>2, OneStarts DEF SessionInv, IdentityInv, HasPassed
<1> QED BY <1>1, <1>3 DEF SessionInv, IdentityInv, Told, Cancelled

\* What leaves the identity and the cache alone keeps the invariant: time only
\* passes, and a delivery stays as it is.
LEMMA IdentityUntouched ==
    ASSUME SessionInv, UNCHANGED <<identity, received, delivered>>,
           session' \in {session, identity.epoch, NoSession},
           clock' >= clock, clock' \in Nat,
           \/ Told \/ Cancelled'
           \/ serve'.pc = "notify" /\ serve'.request = "reset",
           \A d \in Deliveries : Same(d)
    PROVE  IdentityInv'
<1>1. ASSUME NEW m \in Directs PROVE clock > m.expires => clock' > m.expires
  <2>1. m.expires \in Nat /\ clock \in Nat
    BY DirectType DEF SessionInv, CacheInv, TypeOK
  <2> QED BY <2>1
<1>2. \A m \in Directs :
        /\ delivered'[m] \in {0, 1}
        /\ delivered'[m] = 1 =>
              /\ m.to <= identity'.epoch
              /\ m \in received'.ids \/ clock' > m.expires \/ m.to < identity'.epoch
  BY <1>1 DEF SessionInv, IdentityInv
<1>3. \A d \in Deliveries :
        /\ deliveries'[d].kind = "direct" => deliveries'[d].direct.to = deliveries'[d].epoch
        /\ HasPassed(d)' => /\ deliveries'[d].epoch = identity'.epoch /\ Told'
                            /\ delivered'[deliveries'[d].direct] = 0
  BY DEF SessionInv, IdentityInv, HasPassed, Same, Told
<1>4. session' \in {NoSession, identity'.epoch}
  BY DEF SessionInv, IdentityInv
<1>5. Told' \/ (serve'.pc = "notify" /\ serve'.request = "reset") \/ Cancelled'
  BY DEF Told
<1> QED BY <1>2, <1>3, <1>4, <1>5 DEF IdentityInv

\* Time, contexts, sessions and the writer leave the identity alone.
LEMMA IdentityOutside ==
    ASSUME SessionInv, Outside \/ WriterStep \/ UNCHANGED vars
    PROVE  IdentityInv'
<1>1. UNCHANGED <<identity, received, delivered, serve>>
  BY DEF Outside, Connect, SessionEnds, WriterStep, WriterReceives, WriterWrites, client, vars
<1>2. session' \in {session, identity.epoch, NoSession}
  BY DEF Outside, Connect, SessionEnds, WriterStep, WriterReceives, WriterWrites, client, vars
<1>3. clock' >= clock /\ clock' \in Nat
  <2>1. clock \in Nat
    BY DEF SessionInv, CacheInv, TypeOK
  <2>2. clock' \in {clock, clock + 1}
    BY DEF Outside, Connect, SessionEnds, Tick, WriterStep, WriterReceives, WriterWrites,
           client, vars
  <2> QED BY <2>1, <2>2
<1>4. world.interrupted => world'.interrupted
  BY DEF SessionInv, CacheInv, TypeOK, Outside, Connect, SessionEnds, Interrupt, OutputBreaks,
         WriterStep, WriterReceives, WriterWrites, client, vars
<1>5. Told \/ Cancelled' \/ (serve'.pc = "notify" /\ serve'.request = "reset")
  BY <1>1, <1>4 DEF SessionInv, IdentityInv, Cancelled
<1>6. \A d \in Deliveries : Same(d)
  BY NobodyMoves DEF SessionInv
<1> QED BY <1>1, <1>2, <1>3, <1>5, <1>6, IdentityUntouched

\* A reset finds no direct message waiting, and makes every announced one one that
\* nobody can open.
LEMMA IdentityReset ==
    ASSUME SessionInv, LocksForReset
    PROVE  IdentityInv'
<1>1. \A d \in Deliveries : Same(d)
  BY NobodyMoves DEF SessionInv, ServeSteps
<1>2. \A d \in Deliveries : ~HasPassed(d)
  BY Names DEF SessionInv, CacheInv, LocksForReset
<1>3. UNCHANGED <<clock, delivered, world>>
  BY DEF LocksForReset
<1>4. CASE UNCHANGED <<identity, received>> /\ Answers
  <2>1. Told \/ Cancelled
    BY DEF SessionInv, IdentityInv, LocksForReset
  <2>2. serve'.cancelled = serve.cancelled
    BY <1>4 DEF SessionInv, CacheInv, TypeOK, Answers, Continues
  <2>3. Told \/ Cancelled'
    BY <1>3, <2>1, <2>2 DEF Cancelled
  <2>4. session' \in {session, NoSession}
    BY DEF LocksForReset
  <2>5. clock' >= clock /\ clock' \in Nat
    BY <1>3 DEF SessionInv, CacheInv, TypeOK
  <2> QED BY <1>1, <1>3, <1>4, <2>3, <2>4, <2>5, IdentityUntouched
<1>5. CASE /\ identity' = [identity EXCEPT !.epoch = @ + 1] /\ session' = NoSession
           /\ received' = Empty /\ Goes("notify")
  <2>1. identity'.epoch = identity.epoch + 1 /\ identity.epoch \in Nat
    BY <1>5 DEF SessionInv, CacheInv, TypeOK
  <2>2. serve'.pc = "notify" /\ serve'.request = "reset"
    BY <1>5 DEF SessionInv, CacheInv, TypeOK, Goes, LocksForReset
  <2>3. \A m \in Directs :
          /\ delivered'[m] \in {0, 1}
          /\ delivered'[m] = 1 => m.to <= identity'.epoch /\ m.to < identity'.epoch
    BY <1>3, <2>1, DirectType DEF SessionInv, IdentityInv
  <2>4. \A d \in Deliveries :
          /\ deliveries'[d].kind = "direct" => deliveries'[d].direct.to = deliveries'[d].epoch
          /\ ~HasPassed(d)'
    BY <1>1, <1>2 DEF SessionInv, IdentityInv, HasPassed, Same
  <2> QED BY <1>5, <2>2, <2>3, <2>4 DEF IdentityInv
<1> QED BY <1>4, <1>5 DEF LocksForReset

\* The steps of Serve keep the identity: a change of it is announced with the lock held.
LEMMA IdentityServe ==
    ASSUME SessionInv, ServeSteps
    PROVE  IdentityInv'
<1>1. \A d \in Deliveries : Same(d)
  BY NobodyMoves DEF SessionInv
<1>2. clock' >= clock /\ clock' \in Nat /\ UNCHANGED <<delivered, world>>
  BY ServeType DEF SessionInv, CacheInv, TypeOK
<1>3. ASSUME UNCHANGED <<identity, received>>, session' \in {session, NoSession},
             serve.pc # "notify" \/ Cancelled, serve.cancelled => serve'.cancelled
      PROVE  IdentityInv'
  <2>1. Told \/ Cancelled
    BY <1>3 DEF SessionInv, IdentityInv
  <2>2. Told \/ Cancelled'
    BY <1>2, <1>3, <2>1 DEF Cancelled
  <2> QED BY <1>1, <1>2, <1>3, <2>2, IdentityUntouched
<1>4. CASE Takes
  <2>1. UNCHANGED <<identity, received, session>> /\ serve.pc # "notify"
    BY <1>4 DEF Takes, client
  <2>2. serve'.cancelled = serve.cancelled
    BY <1>4 DEF SessionInv, CacheInv, TypeOK, Takes, Answers, Continues
  <2> QED BY <1>3, <2>1, <2>2
<1>5. CASE EndsInput \/ Stops \/ Cancels \/ ClosesSessions \/ ClosesNotify \/ ClosesEvents \/ Returns
  <2>1. UNCHANGED <<identity, received>> /\ session' \in {session, NoSession} /\ serve.pc # "notify"
    BY <1>5 DEF EndsInput, Stops, Cancels, ClosesSessions, ClosesNotify, ClosesEvents, Returns, client
  <2>2. serve.cancelled => serve'.cancelled
    BY <1>5 DEF SessionInv, CacheInv, TypeOK, EndsInput, Stops, Cancels, ClosesSessions,
                ClosesNotify, ClosesEvents, Returns, Goes
  <2> QED BY <1>3, <2>1, <2>2
<1>6. CASE LocksForChange
  <2>1. UNCHANGED <<identity, received, session>> /\ serve.pc # "notify"
    BY <1>6 DEF LocksForChange
  <2>2. serve'.cancelled = serve.cancelled
    BY <1>6 DEF SessionInv, CacheInv, TypeOK, LocksForChange, Goes, Answers, Continues
  <2> QED BY <1>3, <2>1, <2>2
<1>7. CASE Announces
  <2>1. UNCHANGED <<received, session>> /\ serve.pc = "notify"
    BY <1>7 DEF Announces
  <2>2. serve'.cancelled = serve.cancelled
    BY <1>7 DEF SessionInv, CacheInv, TypeOK, Announces, Answers, Continues
  <2>3. CASE Cancelled /\ identity' = identity
    BY <1>3, <2>1, <2>2, <2>3
  <2>4. CASE serve.request # "reset" /\ identity' = identity
    <3>1. Told \/ Cancelled
      BY <2>4 DEF SessionInv, IdentityInv
    <3>2. Told \/ Cancelled'
      BY <1>2, <2>2, <3>1 DEF Cancelled
    <3> QED BY <1>1, <1>2, <2>1, <2>4, <3>2, IdentityUntouched
  <2>5. CASE identity' = [identity EXCEPT !.announced = identity.epoch]
    <3>1. identity'.epoch = identity.epoch /\ Told'
      BY <2>5 DEF SessionInv, CacheInv, TypeOK, Told
    <3>2. \A d \in Deliveries :
            /\ deliveries'[d].kind = "direct" => deliveries'[d].direct.to = deliveries'[d].epoch
            /\ HasPassed(d)' => /\ deliveries'[d].epoch = identity'.epoch
                                /\ delivered'[deliveries'[d].direct] = 0
      BY <1>1, <1>2, <3>1 DEF SessionInv, IdentityInv, HasPassed, Same
    <3>3. \A m \in Directs :
            /\ delivered'[m] \in {0, 1}
            /\ delivered'[m] = 1 =>
                  /\ m.to <= identity'.epoch
                  /\ m \in received'.ids \/ clock' > m.expires \/ m.to < identity'.epoch
      BY <1>2, <2>1, <3>1, ServeType DEF SessionInv, CacheInv, IdentityInv
    <3>4. session' \in {NoSession, identity'.epoch}
      BY <2>1, <3>1 DEF SessionInv, IdentityInv
    <3> QED BY <3>1, <3>2, <3>3, <3>4 DEF IdentityInv
  <2> QED BY <1>7, <2>3, <2>4, <2>5 DEF Announces
<1> QED BY <1>4, <1>5, <1>6, <1>7, IdentityReset DEF ServeSteps

\* The whole invariant is inductive.
LEMMA SessionStep == SessionInv /\ [Next]_vars => SessionInv'
<1> SUFFICES ASSUME SessionInv, [Next]_vars PROVE IdentityInv'
  BY CacheStep, ClosedStep DEF SessionInv
<1> QED BY StepKinds, IdentityLocks, IdentitySends, IdentityEntersOrGivesUp, IdentityStarts,
           IdentityServe, IdentityOutside DEF Delivers

\* It holds of a new client.
LEMMA SessionInit == Init => SessionInv
BY InitInv, IdentityInit DEF SessionInv

\* However often a direct message is broadcast, over however many sessions and
\* resets, it is announced at most once.
THEOREM DirectsAreDeliveredOnce == Spec => []DeliveredOnce
<1>1. SessionInv => DeliveredOnce
  BY DEF SessionInv, IdentityInv, DeliveredOnce
<1> QED BY <1>1, SessionInit, SessionStep, PTL DEF Spec

\* A step announces a message of the announced identity only.
LEMMA AddresseeStep ==
    ASSUME SessionInv, [Next]_vars, NEW m \in Directs, delivered'[m] # delivered[m]
    PROVE  m.to = identity.announced
<1>1. ASSUME NEW d \in Deliveries, Locks(d) \/ Delivers(d) PROVE m.to = identity.announced
  BY <1>1, IdentitySends DEF Delivers, Locks, Enters, GivesUp
<1>2. ASSUME NEW d \in Deliveries, (\E n \in Directs : Arrives(d, n)) \/ Changes(d)
      PROVE  FALSE
  BY <1>2 DEF Arrives, Changes
<1>3. CASE ServeSteps
  BY <1>3, ServeType DEF SessionInv, CacheInv
<1>4. CASE Outside \/ WriterStep \/ UNCHANGED vars
  BY <1>4 DEF Outside, Connect, SessionEnds, WriterStep, WriterReceives, WriterWrites, client, vars
<1> QED BY <1>1, <1>2, <1>3, <1>4, StepKinds

\* Every direct message is announced after the key it is sealed for, and before
\* any later one, for every number of resets.
THEOREM DirectsFollowTheirIdentity == Spec => AddresseeAnnounced
<1> DEFINE A == \A m \in Directs : delivered'[m] # delivered[m] => m.to = identity.announced
<1>1. SessionInv /\ [Next]_vars => [A]_vars
  BY AddresseeStep
<1>2. AddresseeAnnounced <=> [][A]_vars
  BY PTL DEF AddresseeAnnounced
<1> HIDE DEF A
<1> QED BY <1>1, <1>2, SessionInit, SessionStep, PTL DEF Spec
=============================================================================
