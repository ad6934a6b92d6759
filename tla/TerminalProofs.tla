----------------------------- MODULE TerminalProofs -----------------------------
(***************************************************************************)
(* Theorems about the room screen of the terminal client, for every set of *)
(* rooms, size of a page, and number of commands that run at once: the     *)
(* history on the screen has no hole, and what was notified is displayed   *)
(* or on its way, whatever results come late.                              *)
(***************************************************************************)
EXTENDS TerminalRoom, WellFoundedInduction, TLAPS

-----------------------------------------------------------------------------
\* The inductive invariant.  First the types, in the groups that steps leave alone;
\* numbers tell the commands that run apart.
ClientOK ==
    /\ head \in Copies /\ member \subseteq Rooms
    /\ queue \in Seq([room : Rooms, seqno : 0 .. MaxEvents]) /\ Len(queue) <= MaxQueue

ScreenOK ==
    /\ screen \in Screens /\ room \in Rooms
    /\ bottom \in BOOLEAN /\ err \in BOOLEAN /\ unseen \in BOOLEAN
    /\ page.items \subseteq Events /\ page.more \in BOOLEAN
    /\ noticed \in 0 .. MaxEvents /\ early \in BOOLEAN
    /\ sends \subseteq Rooms

PagerOK ==
    /\ pageDirty \in BOOLEAN
    /\ loads \subseteq Loads /\ pageRequest \in 0 .. MaxLoads
    /\ pageLoading \in BOOLEAN /\ (pageLoading <=> \E l \in loads : l.id = pageRequest)
    /\ \A l1, l2 \in loads : l1.id = l2.id => l1 = l2

TasksOK ==
    /\ operations \subseteq Operations /\ operation \in 0 .. MaxOperations
    /\ busy \in BOOLEAN /\ (busy => \E o \in operations : o.id = operation)
    /\ \A o1, o2 \in operations : o1.id = o2.id => o1 = o2

\* A leave is awaited on its own screen, for the room displayed.
LeaveInv ==
    \A o \in operations :
        o.kind = "leave" => screen = "leave" /\ busy /\ o.id = operation /\ o.room = room

\* The history on the screen is that of the room: not behind the menu, where it will
\* be reset, nor once the room was left, which the menu follows.
Steady ==
    /\ screen # "menu"
    /\ \A o \in operations : ~(o.kind = "leave" /\ o.done)

\* The events of a room from the first to the last.
Run(r, first, last) == {Entry(r, s) : s \in first .. last}

\* A page of the history of room r up to event n.
Faithful(items, more, r, n) ==
    items = {} \/ \E a, b \in 1 .. n : a <= b /\ items = Run(r, a, b) /\ more = (a > 1)

PageInv == Steady => Faithful(page.items, page.more, room, head[room])

\* What a load asks for, and what it has read, fits what is displayed.
Asked(l, items) ==
    /\ l.before = 0 => l.known = Last(items)
    /\ l.before # 0 => items # {} /\ l.before = First(items)
Fits(l, items, n) ==
    /\ Faithful(l.page.items, l.page.more, l.room, n)
    /\ l.page.items # {} /\ l.before = 0 /\ items # {} =>
          First(l.page.items) <= Last(items) + 1 /\ Last(items) <= Last(l.page.items)
    /\ l.page.items # {} /\ l.before # 0 => Last(l.page.items) = l.before - 1
    /\ l.page.items = {} /\ l.before # 0 => l.before = 1 /\ l.page.more = FALSE

LoadInv ==
    /\ \A l \in loads : l.id = pageRequest => l.room = room
    /\ Steady => \A l \in loads : Current(l) =>
          /\ Asked(l, page.items)
          /\ l.page.read => Fits(l, page.items, head[room])

\* The load whose result will show everything that was noticed.
Shows(l) == Current(l) /\ l.before = 0 /\ (~l.page.read \/ noticed <= Last(l.page.items))

Accounted ==
    \/ noticed <= Last(page.items)
    \/ unseen /\ ~bottom /\ page.items # {}
    \/ pageLoading /\ pageDirty
    \/ \E l \in loads : Shows(l)
    \/ err \/ busy \/ room \in sends
    \/ early /\ (page.items # {} \/ ~pageLoading \/ unseen)

NoticedInv ==
    /\ screen # "room" => noticed = 0
    /\ screen = "room" => noticed <= head[room]
    /\ Accounted

TypesInv == ClientOK /\ ScreenOK /\ PagerOK /\ TasksOK
TerminalInv == TypesInv /\ LeaveInv /\ PageInv /\ LoadInv /\ NoticedInv

-----------------------------------------------------------------------------
\* Pages.

\* The constants, as the solver needs them.
LEMMA Constants ==
    /\ PageSize \in Nat /\ PageSize >= 1 /\ MaxQueue \in Nat /\ MaxQueue >= 1
    /\ MaxLoads \in Nat /\ MaxOperations \in Nat /\ MaxEvents \in Nat
    /\ MaxSeqno \in [Rooms -> 0 .. MaxEvents]
BY TerminalAssumption

\* A set of natural numbers with a bound has a greatest element, ...
LEMMA GreatestExists ==
    ASSUME NEW n \in Nat, NEW S \in SUBSET (0 .. n), S # {}
    PROVE  \E c \in S : \A d \in S : c >= d
<1> DEFINE R == {pair \in Nat \X Nat : pair[1] < pair[2]}
           T == {n - c : c \in S}
<1>1. IsWellFoundedOn(R, Nat)
  <2>1. R = OpToRel(<, Nat)
    BY DEF OpToRel
  <2> QED BY <2>1, NatLessThanWellFounded
<1>2. \A u, t \in Nat : u < t => <<u, t>> \in R
  OBVIOUS
<1> HIDE DEF R
<1>3. T \subseteq Nat /\ T # {}
  <2>1. \A c \in 0 .. n : n - c \in Nat
    OBVIOUS
  <2> QED BY <2>1
<1>4. PICK t \in T : \A u \in T : ~ (<<u, t>> \in R)
  BY <1>1, <1>3, WFMin
<1>5. PICK c \in S : t = n - c
  OBVIOUS
<1>6. ASSUME NEW d \in S PROVE c >= d
  <2>1. n - d \in T /\ n - d \in Nat /\ t \in Nat /\ c \in 0 .. n /\ d \in 0 .. n
    BY <1>3
  <2>2. ~(n - d < t)
    BY <1>2, <1>4, <2>1
  <2> QED BY <1>5, <2>1, <2>2
<1> QED BY <1>6

\* ... and a least one.
LEMMA LeastExists ==
    ASSUME NEW n \in Nat, NEW S \in SUBSET (0 .. n), S # {}
    PROVE  \E c \in S : \A d \in S : c <= d
<1> DEFINE T == {n - c : c \in S}
<1>1. T \in SUBSET (0 .. n) /\ T # {}
  <2>1. \A c \in 0 .. n : n - c \in 0 .. n
    OBVIOUS
  <2> QED BY <2>1
<1>2. PICK t \in T : \A u \in T : t >= u
  BY <1>1, GreatestExists
<1>3. PICK c \in S : t = n - c
  OBVIOUS
<1>4. ASSUME NEW d \in S PROVE c <= d
  <2>1. n - d \in T /\ c \in 0 .. n /\ d \in 0 .. n
    OBVIOUS
  <2> QED BY <1>2, <1>3, <2>1
<1> QED BY <1>4

\* The first and the last event of a page.
LEMMA Ends ==
    ASSUME NEW items \in SUBSET Events
    PROVE  /\ Last(items) \in 0 .. MaxEvents
           /\ \A e \in items : e.seqno <= Last(items)
           /\ items = {} => Last(items) = 0
           /\ items # {} => /\ First(items) \in 1 .. MaxEvents /\ Last(items) \in 1 .. MaxEvents
                            /\ \E e \in items : e.seqno = Last(items)
                            /\ \E e \in items : e.seqno = First(items)
                            /\ \A e \in items : First(items) <= e.seqno
<1>1. CASE items = {}
  BY <1>1, Constants DEF Last
<1>2. CASE items # {}
  <2> DEFINE S == Seqnos(items)
  <2>1. S \in SUBSET (0 .. MaxEvents) /\ S # {} /\ S \subseteq 1 .. MaxEvents /\ MaxEvents \in Nat
        /\ \A e \in items : e.seqno \in S
    BY <1>2, Constants DEF Events, Seqnos
  <2>2. \A s \in S : \E e \in items : e.seqno = s
    BY DEF Seqnos
  <2> HIDE DEF S
  <2>3. \E c \in S : \A d \in S : c >= d
    BY <2>1, GreatestExists
  <2>4. \E c \in S : \A d \in S : c <= d
    BY <2>1, LeastExists
  <2>5. Max(S) \in S /\ \A d \in S : Max(S) >= d
    BY <2>3 DEF Max
  <2>6. Min(S) \in S /\ \A d \in S : Min(S) <= d
    BY <2>4 DEF Min
  <2>7. Last(items) = Max(S) /\ First(items) = Min(S)
    BY <1>2 DEF Last, First, S
  <2> QED BY <1>2, <2>1, <2>2, <2>5, <2>6, <2>7
<1> QED BY <1>1, <1>2

\* A run of events, its ends and what it consists of.
LEMMA RunEnds ==
    ASSUME NEW r \in Rooms, NEW a \in 1 .. MaxEvents, NEW b \in 1 .. MaxEvents, a <= b
    PROVE  /\ Run(r, a, b) \subseteq Events /\ Run(r, a, b) # {}
           /\ First(Run(r, a, b)) = a /\ Last(Run(r, a, b)) = b
           /\ Seqnos(Run(r, a, b)) = a .. b
           /\ \A e \in Run(r, a, b) : e.room = r
<1> DEFINE items == Run(r, a, b)
<1>1. \A s \in a .. b : Entry(r, s) \in Events /\ Entry(r, s).seqno = s /\ Entry(r, s).room = r
  BY Constants DEF Entry, Events
<1>2. /\ items \subseteq Events /\ \A e \in items : e.seqno \in a .. b /\ e.room = r
      /\ \A s \in a .. b : \E e \in items : e.seqno = s
  BY <1>1 DEF Run
<1>3. Seqnos(items) = a .. b
  BY <1>2 DEF Seqnos
<1> HIDE DEF items
<1>4. items # {}
  <2>1. a \in a .. b
    OBVIOUS
  <2> QED BY <1>2, <2>1
<1>5. First(items) = a /\ Last(items) = b
  <2>1. /\ First(items) \in 1 .. MaxEvents /\ Last(items) \in 1 .. MaxEvents
        /\ \E e \in items : e.seqno = Last(items)
        /\ \E e \in items : e.seqno = First(items)
        /\ \A e \in items : First(items) <= e.seqno
        /\ \A e \in items : e.seqno <= Last(items)
    BY <1>2, <1>4, Ends
  <2>2. (\E e \in items : e.seqno = a) /\ (\E e \in items : e.seqno = b)
    BY <1>2
  <2>3. First(items) \in a .. b /\ Last(items) \in a .. b
    BY <1>2, <2>1
  <2>4. First(items) <= a /\ b <= Last(items)
    BY <2>1, <2>2
  <2> QED BY <2>3, <2>4
<1>6. items = Run(r, a, b)
  BY DEF items
<1> QED BY <1>2, <1>3, <1>4, <1>5, <1>6

\* Two runs that meet or overlap are one.
LEMMA RunsJoin ==
    ASSUME NEW r \in Rooms, NEW a \in Nat, NEW b \in Nat, NEW c \in Nat, NEW d \in Nat,
           a <= b, c <= d, c <= b + 1, a <= d + 1
    PROVE  Run(r, a, b) \cup Run(r, c, d) =
           Run(r, IF a < c THEN a ELSE c, IF b < d THEN d ELSE b)
<1>1. \A s : s \in (IF a < c THEN a ELSE c) .. (IF b < d THEN d ELSE b)
             <=> s \in a .. b \/ s \in c .. d
  OBVIOUS
<1> QED BY <1>1 DEF Run

\* What is merged into a page is not lost.
LEMMA LastGrows ==
    ASSUME NEW items \in SUBSET Events, NEW found \in SUBSET Events
    PROVE  Last(items) <= Last(items \cup found) /\ Last(found) <= Last(items \cup found)
<1> DEFINE both == items \cup found
<1>1. both \in SUBSET Events /\ items \subseteq both /\ found \subseteq both
  OBVIOUS
<1> HIDE DEF both
<1>2. Last(both) \in 0 .. MaxEvents /\ \A e \in both : e.seqno <= Last(both)
  BY <1>1, Ends
<1>3. ASSUME NEW some \in SUBSET Events, some \subseteq both PROVE Last(some) <= Last(both)
  <2>1. CASE some = {}
    BY <1>2, <2>1, Ends
  <2>2. CASE some # {}
    BY <1>2, <1>3, <2>2, Ends
  <2> QED BY <2>1, <2>2
<1>4. Last(items) <= Last(both) /\ Last(found) <= Last(both)
  BY <1>1, <1>3
<1> QED BY <1>4 DEF both

\* The page that ends at an event, and the run of pages back from it that continues
\* what is known.
LEMMA PageStarts ==
    ASSUME NEW to \in Nat, to >= 1
    PROVE  PageStart(to) \in 1 .. to
BY Constants DEF PageStart

LEMMA RunStarts ==
    ASSUME NEW to \in Nat, to >= 1, NEW known \in Nat
    PROVE  /\ StartsAt(to, known) \in 1 .. to
           /\ known # 0 => StartsAt(to, known) <= known + 1
<1>1. CASE known = 0
  BY <1>1, PageStarts DEF StartsAt
<1>2. CASE known # 0
  <2> DEFINE N == {n \in 0 .. to : n * PageSize < to}
             starts == {PageStart(to - n * PageSize) : n \in N}
             enough == {s \in starts : s <= known + 1}
  <2>1. PageSize \in Nat /\ PageSize >= 1
    BY Constants
  <2>2. \A n \in N : n * PageSize \in Nat /\ to - n * PageSize \in 1 .. to
    BY <2>1
  <2>3. \A n \in N : PageStart(to - n * PageSize) \in 1 .. to
    <3> TAKE n \in N
    <3>1. PICK m \in 1 .. to : m = to - n * PageSize
      BY <2>2
    <3>2. PageStart(m) \in 1 .. m
      BY <3>1, PageStarts
    <3> QED BY <3>1, <3>2
  <2>4. \E n \in N : PageStart(to - n * PageSize) = 1
    <3>1. N \in SUBSET (0 .. to) /\ 0 \in N
      BY <2>1
    <3>2. \E c \in N : \A d \in N : c >= d
      BY <3>1, GreatestExists
    <3>3. PICK c \in N : \A d \in N : c >= d
      BY <3>2
    <3>4. c \in Nat /\ c <= to /\ c * PageSize < to /\ c * PageSize \in Nat
      BY <2>2
    <3>5. (c + 1) * PageSize = c * PageSize + PageSize
      BY <2>1, <3>4
    <3>6. c + 1 <= to
      <4>1. to * PageSize >= to
        BY <2>1
      <4>2. c # to
        BY <3>4, <4>1
      <4> QED BY <3>4, <4>2
    <3>7. ~((c + 1) * PageSize < to)
      <4>1. c + 1 \in 0 .. to /\ ~(c >= c + 1)
        BY <3>4, <3>6
      <4>2. c + 1 \notin N
        BY <3>3, <4>1
      <4> QED BY <4>1, <4>2
    <3>8. to - c * PageSize <= PageSize
      BY <2>1, <3>4, <3>5, <3>7
    <3> QED BY <2>1, <2>2, <3>8 DEF PageStart
  <2>5. enough \in SUBSET (0 .. to) /\ enough # {} /\ enough \subseteq 1 .. to
    <3>1. \A s \in starts : s \in 1 .. to
      BY <2>3
    <3>2. 1 \in starts
      BY <2>4
    <3> QED BY <3>1, <3>2
  <2>6. \E c \in enough : \A d \in enough : c >= d
    <3> HIDE DEF enough
    <3> QED BY <2>5, GreatestExists
  <2>7. Max(enough) \in enough
    <3> HIDE DEF enough
    <3> QED BY <2>6 DEF Max
  <2>8. StartsAt(to, known) = Max(enough)
    BY <1>2 DEF StartsAt
  <2> QED BY <2>5, <2>7, <2>8
<1> QED BY <1>1, <1>2

\* A page of the history stays one when events are added.
LEMMA FaithfulGrows ==
    ASSUME NEW items, NEW more, NEW r, NEW m \in Nat, NEW n \in Nat, m <= n,
           Faithful(items, more, r, m)
    PROVE  Faithful(items, more, r, n)
<1>1. \A a \in 1 .. m : a \in 1 .. n
  OBVIOUS
<1> QED BY <1>1 DEF Faithful

\* The page that mergePage makes of a page of the history and the answer to what it
\* asked for.
LEMMA MergedIsFaithful ==
    ASSUME NEW r \in Rooms, NEW n \in 0 .. MaxEvents, NEW items, NEW more,
           NEW l \in Loads, l.room = r, Faithful(items, more, r, n),
           Asked(l, items), Fits(l, items, n)
    PROVE  Faithful(items \cup l.page.items,
                    IF \/ items = {} \/ l.before # 0
                       \/ l.page.items # {} /\ First(l.page.items) < First(items)
                    THEN l.page.more ELSE more, r, n)
<1> DEFINE found == l.page.items
           both == items \cup found
           merged == IF \/ items = {} \/ l.before # 0
                        \/ found # {} /\ First(found) < First(items)
                     THEN l.page.more ELSE more
<1>0. n \in Nat /\ MaxEvents \in Nat /\ \A s \in 1 .. n : s \in 1 .. MaxEvents
  BY Constants
<1>1. CASE items = {}
  <2>1. both = found /\ merged = l.page.more
    BY <1>1
  <2>2. Faithful(found, l.page.more, r, n)
    BY DEF Fits
  <2> QED BY <2>1, <2>2
<1>2. CASE items # {} /\ found = {}
  <2>1. both = items
    BY <1>2
  <2>2. CASE l.before = 0
    <3>1. merged = more
      BY <1>2, <2>2
    <3> QED BY <2>1, <3>1
  <2>3. CASE l.before # 0
    <3>1. merged = FALSE /\ First(items) = 1
      BY <1>2, <2>3 DEF Fits, Asked
    <3>2. PICK a \in 1 .. n, b \in 1 .. n : a <= b /\ items = Run(r, a, b) /\ more = (a > 1)
      BY <1>2 DEF Faithful
    <3>3. First(Run(r, a, b)) = a
      BY <1>0, <3>2, RunEnds
    <3>4. a = 1
      BY <3>1, <3>2, <3>3
    <3>5. (a > 1) = FALSE
      BY <3>4
    <3>6. merged = more
      BY <3>1, <3>2, <3>5, Zenon
    <3> QED BY <2>1, <3>6
  <2> QED BY <2>2, <2>3
<1>3. CASE items # {} /\ found # {}
  <2>1. PICK a \in 1 .. n, b \in 1 .. n : a <= b /\ items = Run(r, a, b) /\ more = (a > 1)
    BY <1>3 DEF Faithful
  <2>2. PICK c \in 1 .. n, d \in 1 .. n :
            c <= d /\ found = Run(r, c, d) /\ l.page.more = (c > 1)
    BY <1>3 DEF Fits, Faithful
  <2>3. First(items) = a /\ Last(items) = b
    BY <1>0, <2>1, RunEnds
  <2>4. First(found) = c /\ Last(found) = d
    BY <1>0, <2>2, RunEnds
  <2>5. CASE l.before = 0
    <3>1. c <= b + 1 /\ b <= d
      BY <1>3, <2>3, <2>4, <2>5 DEF Fits
    <3>2. both = Run(r, IF a < c THEN a ELSE c, IF b < d THEN d ELSE b)
      BY <2>1, <2>2, <3>1, RunsJoin
    <3>3. PICK e \in 1 .. n : e = IF a < c THEN a ELSE c
      OBVIOUS
    <3>4. PICK f \in 1 .. n : f = IF b < d THEN d ELSE b
      OBVIOUS
    <3>5. e <= f
      BY <2>1, <2>2, <3>3, <3>4
    <3>6. merged = (e > 1)
      <4>1. CASE c < a
        <5>1. e = c
          BY <3>3, <4>1
        <5>2. merged = l.page.more
          BY <1>3, <2>3, <2>4, <4>1
        <5> QED BY <2>2, <5>1, <5>2
      <4>2. CASE ~(c < a)
        <5>1. e = a
          BY <3>3, <4>2
        <5>2. merged = more
          BY <1>3, <2>3, <2>4, <2>5, <4>2
        <5> QED BY <2>1, <5>1, <5>2
      <4> QED BY <4>1, <4>2
    <3>7. both = Run(r, e, f)
      BY <3>2, <3>3, <3>4
    <3> HIDE DEF both, merged
    <3>8. Faithful(both, merged, r, n)
      BY <3>5, <3>6, <3>7 DEF Faithful
    <3> QED BY <3>8 DEF both, merged, found
  <2>6. CASE l.before # 0
    <3>1. l.before = a /\ d = a - 1
      BY <1>3, <2>3, <2>4, <2>6 DEF Fits, Asked
    <3>2. both = Run(r, IF a < c THEN a ELSE c, IF b < d THEN d ELSE b)
      BY <2>1, <2>2, <3>1, RunsJoin
    <3>3. both = Run(r, c, b) /\ c <= b
      BY <2>1, <2>2, <3>1, <3>2
    <3>4. merged = (c > 1)
      BY <2>2, <2>6
    <3> HIDE DEF both, merged
    <3>5. Faithful(both, merged, r, n)
      BY <3>3, <3>4 DEF Faithful
    <3> QED BY <3>5 DEF both, merged, found
  <2> QED BY <2>5, <2>6
<1> QED BY <1>1, <1>2, <1>3

-----------------------------------------------------------------------------
\* Page loads begin.

\* The load that begins for the items of a room is the only one whose result is
\* expected.
Expected(before, r, items) ==
    \E new \in loads :
        /\ \A l \in loads : l.id = pageRequest <=> l = new
        /\ new.room = r /\ new.before = before /\ new.page = Unread
        /\ before = 0 => new.known = Last(items)

\* LoadPage, when none is loading.
LEMMA LoadStarts ==
    ASSUME NEW running \in SUBSET Loads,
           \A l1, l2 \in running : l1.id = l2.id => l1 = l2,
           NEW before \in 0 .. MaxEvents, NEW r \in Rooms, NEW items \in SUBSET Events,
           LoadPage(FALSE, running, before, r, items)
    PROVE  /\ PagerOK'
           /\ pageLoading' = TRUE /\ pageDirty' = FALSE
           /\ Expected(before, r, items)'
<1>1. PICK id \in (1 .. MaxLoads) \ {l.id : l \in running} :
         /\ pageLoading' = TRUE /\ pageDirty' = FALSE /\ pageRequest' = id
         /\ loads' = running \cup
               {[id |-> id, room |-> r, before |-> before,
                 known |-> IF before = 0 THEN Last(items) ELSE 0, page |-> Unread]}
  BY DEF LoadPage
<1> DEFINE new == [id |-> id, room |-> r, before |-> before,
                   known |-> IF before = 0 THEN Last(items) ELSE 0, page |-> Unread]
<1>2. Last(items) \in 0 .. MaxEvents /\ MaxEvents \in Nat /\ MaxLoads \in Nat
  BY Ends, Constants
<1>3. new \in Loads
  <2>1. Unread \in Pages
    BY DEF Unread, Pages
  <2>2. (IF before = 0 THEN Last(items) ELSE 0) \in 0 .. MaxEvents
    BY <1>2
  <2> QED BY <2>1, <2>2 DEF Loads
<1>4. /\ new.id = id /\ new.room = r /\ new.before = before /\ new.page = Unread
      /\ before = 0 => new.known = Last(items)
  OBVIOUS
<1>5. loads' = running \cup {new}
  BY <1>1
<1>6. \A l \in running : l.id # id
  OBVIOUS
<1> HIDE DEF new
<1>7. \A l \in loads' : l.id = pageRequest' <=> l = new
  BY <1>1, <1>4, <1>5, <1>6
<1>8. PagerOK'
  <2>1. loads' \subseteq Loads /\ pageRequest' \in 0 .. MaxLoads
    BY <1>1, <1>2, <1>3, <1>5
  <2>2. \A l1, l2 \in loads' : l1.id = l2.id => l1 = l2
    BY <1>4, <1>5, <1>6
  <2>3. pageLoading' = TRUE /\ \E l \in loads' : l.id = pageRequest'
    BY <1>1, <1>5, <1>7
  <2> QED BY <1>1, <2>1, <2>2, <2>3 DEF PagerOK
<1>9. Expected(before, r, items)'
  <2>1. new \in loads'
    BY <1>5
  <2> QED BY <1>4, <1>7, <2>1 DEF Expected
<1> QED BY <1>1, <1>8, <1>9

\* What runs is left alone; the next load, for the history displayed, is due or has
\* begun.
LEMMA LoadFollows ==
    ASSUME TypesInv, LoadInv, LoadPage(pageLoading, loads, 0, room, page.items),
           UNCHANGED <<head, screen, room, operations>>, page' = page
    PROVE  /\ PagerOK' /\ LoadInv'
           /\ \/ pageLoading' /\ pageDirty'
              \/ \E l \in loads' : Shows(l)'
<1> USE DEF TypesInv
<1>1. CASE pageLoading
  <2>1. pageDirty' = TRUE /\ UNCHANGED <<pageLoading, pageRequest, loads>>
    BY <1>1 DEF LoadPage
  <2>2. PagerOK'
    BY <2>1 DEF PagerOK
  <2>3. LoadInv'
    BY <2>1 DEF LoadInv, Current, Steady
  <2> QED BY <1>1, <2>1, <2>2, <2>3
<1>2. CASE ~pageLoading
  <2>1. PICK items \in SUBSET Events, r \in Rooms : items = page.items /\ r = room
    BY DEF ScreenOK
  <2>2. LoadPage(FALSE, loads, 0, r, items)
    BY <1>2, <2>1 DEF LoadPage
  <2>3. 0 \in 0 .. MaxEvents
    BY Constants
  <2>4. PICK running \in SUBSET Loads :
            running = loads /\ \A l1, l2 \in running : l1.id = l2.id => l1 = l2
    BY DEF PagerOK
  <2>a. LoadPage(FALSE, running, 0, r, items)
    BY <2>2, <2>4
  <2>5. PagerOK' /\ Expected(0, r, items)'
    BY <2>a, <2>3, <2>4, LoadStarts
  <2>6. PICK new \in loads' :
                 /\ \A l \in loads' : l.id = pageRequest' <=> l = new
                 /\ new.room = r /\ new.before = 0 /\ new.page = Unread
                 /\ new.known = Last(items)
    BY <2>5 DEF Expected
  <2>7. new.page.read = FALSE
    BY <2>6 DEF Unread
  <2>8. LoadInv'
    <3>1. Asked(new, page'.items)
      BY <2>1, <2>6 DEF Asked
    <3> QED BY <2>1, <2>6, <2>7, <3>1 DEF LoadInv, Current
  <2>9. Shows(new)'
    BY <2>1, <2>6, <2>7 DEF Shows, Current
  <2> QED BY <2>5, <2>6, <2>8, <2>9
<1> QED BY <1>1, <1>2

\* A room that is shown is loaded from the start.
LEMMA FreshLoads ==
    ASSUME TypesInv, NEW r \in Rooms, LoadPage(FALSE, loads, 0, r, {}),
           room' = r, page' = EmptyPage
    PROVE  PagerOK' /\ PageInv' /\ LoadInv'
<1> USE DEF TypesInv
<1>1. {} \in SUBSET Events /\ 0 \in 0 .. MaxEvents
  BY Constants
<1>a. PICK running \in SUBSET Loads :
          running = loads /\ \A l1, l2 \in running : l1.id = l2.id => l1 = l2
  BY DEF PagerOK
<1>b. LoadPage(FALSE, running, 0, r, {})
  BY <1>a
<1>2. PagerOK' /\ Expected(0, r, {})'
  BY <1>1, <1>a, <1>b, LoadStarts
<1>3. PICK new \in loads' :
               /\ \A l \in loads' : l.id = pageRequest' <=> l = new
               /\ new.room = r /\ new.before = 0 /\ new.page = Unread
               /\ new.known = Last({})
  BY <1>2 DEF Expected
<1>4. new.page.read = FALSE /\ page'.items = {}
  BY <1>3 DEF Unread, EmptyPage
<1>5. LoadInv'
  <2>1. Asked(new, page'.items)
    BY <1>3, <1>4 DEF Asked
  <2> QED BY <1>3, <1>4, <2>1 DEF LoadInv, Current
<1>6. PageInv'
  BY <1>4 DEF PageInv, Faithful
<1> QED BY <1>2, <1>5, <1>6

\* Without results that are expected there is nothing to fit.
LEMMA NoneExpected ==
    ASSUME PagerOK, pageRequest' = 0, pageLoading' = FALSE, UNCHANGED <<loads, pageDirty>>
    PROVE  PagerOK' /\ LoadInv'
<1>1. \A l \in loads' : l.id # 0
  BY Constants DEF PagerOK, Loads
<1>2. PagerOK'
  <2>1. 0 \in 0 .. MaxLoads /\ ~pageLoading'
    BY Constants
  <2> QED BY <1>1, <2>1 DEF PagerOK
<1>3. LoadInv'
  BY <1>1 DEF LoadInv, Current
<1> QED BY <1>2, <1>3

-----------------------------------------------------------------------------
\* The initial states, and the steps.

\* The room menu, before anything was displayed.
LEMMA InitKeeps == Init => TerminalInv
<1> SUFFICES ASSUME Init PROVE TerminalInv
  OBVIOUS
<1>1. 0 \in 0 .. MaxEvents /\ 0 \in 0 .. MaxLoads /\ 0 \in 0 .. MaxOperations
      /\ 0 <= MaxQueue
  BY Constants
<1>2. Last({}) = 0
  BY DEF Last
<1>3. ClientOK
  BY <1>1 DEF Init, ClientOK
<1>4. page.items = {} /\ page.more = FALSE
  BY DEF Init, EmptyPage
<1>5. ScreenOK
  BY <1>1, <1>4 DEF Init, ScreenOK, Screens
<1>6. PagerOK /\ TasksOK
  BY <1>1 DEF Init, PagerOK, TasksOK
<1>7. LeaveInv /\ PageInv /\ LoadInv
  BY DEF Init, LeaveInv, PageInv, Steady, LoadInv
<1>8. NoticedInv
  <2>1. noticed = 0 /\ screen # "room" /\ noticed <= Last(page.items)
    BY <1>2, <1>4 DEF Init
  <2> QED BY <2>1 DEF NoticedInv, Accounted
<1> QED BY <1>3, <1>5, <1>6, <1>7, <1>8 DEF TerminalInv, TypesInv

\* Events are added to the history: what was faithful and what fitted still does.
LEMMA IngestsKeeps ==
    ASSUME TerminalInv, NEW r \in Rooms, Ingests(r)
    PROVE  TerminalInv'
<1> USE DEF TerminalInv, TypesInv
<1>0. UNCHANGED <<screen, room, bottom, err, page, unseen, noticed, early, pageLoading, pageDirty,
                  pageRequest, loads, operation, busy, operations, sends>>
  BY DEF Ingests, screenVars, pager, tasks
<1>1. /\ head \in [Rooms -> 0 .. MaxEvents] /\ \A q \in Rooms : head[q] <= MaxSeqno[q]
      /\ \A q \in Rooms : MaxSeqno[q] \in 0 .. MaxEvents
  BY Constants DEF ClientOK, Copies
<1>2. /\ head[r] < MaxSeqno[r] /\ head' = [head EXCEPT ![r] = @ + 1] /\ member' = member
      /\ Len(queue) < MaxQueue
      /\ queue' = Append(queue, [room |-> r, seqno |-> head[r] + 1])
  BY DEF Ingests, Stores, Notify
<1>3. head[r] \in Nat /\ head[r] + 1 \in 0 .. MaxEvents /\ head[r] + 1 <= MaxSeqno[r]
  BY <1>1, <1>2, Constants
<1>4. head' \in Copies
  BY <1>1, <1>2, <1>3 DEF Copies
<1>5. \A q \in Rooms : head[q] \in Nat /\ head'[q] \in Nat /\ head[q] <= head'[q]
  BY <1>1, <1>2, <1>3
<1>6. ClientOK'
  <2>1. [room |-> r, seqno |-> head[r] + 1] \in [room : Rooms, seqno : 0 .. MaxEvents]
    BY <1>3
  <2>2. queue' \in Seq([room : Rooms, seqno : 0 .. MaxEvents]) /\ Len(queue') <= MaxQueue
    BY <1>2, <2>1, Constants DEF ClientOK
  <2> QED BY <1>2, <1>4, <2>2 DEF ClientOK
<1>7. ScreenOK' /\ PagerOK' /\ TasksOK' /\ LeaveInv'
  BY <1>0 DEF ScreenOK, PagerOK, TasksOK, LeaveInv
<1>8. room \in Rooms /\ Steady' = Steady
  BY <1>0 DEF ScreenOK, Steady
<1>9. PageInv'
  <2>1. ASSUME Faithful(page.items, page.more, room, head[room])
        PROVE  Faithful(page.items, page.more, room, head'[room])
    BY <1>5, <1>8, <2>1, FaithfulGrows
  <2> QED BY <1>0, <1>8, <2>1 DEF PageInv
<1>10. LoadInv'
  <2>1. ASSUME NEW l \in loads, Fits(l, page.items, head[room]), l.room = room
        PROVE  Fits(l, page.items, head'[room])
    <3>1. Faithful(l.page.items, l.page.more, l.room, head'[room])
      BY <1>5, <1>8, <2>1, FaithfulGrows DEF Fits
    <3> QED BY <2>1, <3>1 DEF Fits
  <2> QED BY <1>0, <1>8, <2>1 DEF LoadInv, Current
<1>11. NoticedInv'
  <2>1. Accounted'
    BY <1>0 DEF NoticedInv, Accounted, Shows, Current
  <2>2. screen = "room" => noticed <= head'[room]
    <3>1. noticed \in Nat
      BY Constants DEF ScreenOK
    <3> QED BY <1>5, <1>8, <3>1 DEF NoticedInv
  <2> QED BY <1>0, <2>1, <2>2 DEF NoticedInv
<1> QED BY <1>6, <1>7, <1>9, <1>10, <1>11

\* A notification without an event.
LEMMA ReconnectsKeeps ==
    ASSUME TerminalInv, NEW r \in Rooms, Reconnects(r)
    PROVE  TerminalInv'
<1> USE DEF TerminalInv, TypesInv
<1>0. UNCHANGED <<head, member, screen, room, bottom, err, page, unseen, noticed, early,
                  pageLoading, pageDirty, pageRequest, loads, operation, busy, operations, sends>>
  BY DEF Reconnects, screenVars, pager, tasks
<1>1. ClientOK'
  <2>1. [room |-> r, seqno |-> 0] \in [room : Rooms, seqno : 0 .. MaxEvents]
    BY Constants
  <2>2. Len(queue) < MaxQueue /\ queue' = Append(queue, [room |-> r, seqno |-> 0])
    BY DEF Reconnects, Notify
  <2>3. queue' \in Seq([room : Rooms, seqno : 0 .. MaxEvents]) /\ Len(queue') <= MaxQueue
    BY <2>1, <2>2, Constants DEF ClientOK
  <2> QED BY <1>0, <2>3 DEF ClientOK
<1>2. ScreenOK' /\ PagerOK' /\ TasksOK' /\ LeaveInv'
  BY <1>0 DEF ScreenOK, PagerOK, TasksOK, LeaveInv
<1>3. PageInv' /\ LoadInv'
  BY <1>0 DEF PageInv, LoadInv, Steady, Current
<1>4. NoticedInv'
  BY <1>0 DEF NoticedInv, Accounted, Shows, Current
<1> QED BY <1>1, <1>2, <1>3, <1>4

\* Every leave is on its screen, which cannot be left while it is busy.
LEMMA NoLeave ==
    ASSUME LeaveInv, screen # "leave" \/ ~busy
    PROVE  \A o \in operations : o.kind # "leave"
BY DEF LeaveInv

\* command: it runs, its result is awaited, and no other is.
LEMMA CommandRuns ==
    ASSUME TasksOK, NEW r \in Rooms, NEW kind \in {"join", "leave"}, Commands(kind, r),
           busy' = TRUE
    PROVE  /\ TasksOK'
           /\ \E new \in operations' :
                 /\ operations' = operations \cup {new}
                 /\ new.id = operation' /\ new.kind = kind /\ new.room = r /\ ~new.done
<1>1. PICK id \in (1 .. MaxOperations) \ {o.id : o \in operations} :
        /\ operation' = id
        /\ operations' = operations \cup {[id |-> id, kind |-> kind, room |-> r,
                                           done |-> FALSE]}
  BY DEF Commands
<1> DEFINE new == [id |-> id, kind |-> kind, room |-> r, done |-> FALSE]
<1>2. /\ new \in Operations /\ new.id = id /\ new.kind = kind /\ new.room = r /\ new.done = FALSE
      /\ \A o \in operations : o.id # id
  BY DEF Operations
<1>3. operations' = operations \cup {new} /\ operation' = id
  BY <1>1
<1> HIDE DEF new
<1>4. TasksOK'
  <2>1. operations' \subseteq Operations
    BY <1>2, <1>3 DEF TasksOK
  <2>2. operation' \in 0 .. MaxOperations
    BY <1>3, Constants
  <2>3. \E o \in operations' : o.id = operation'
    BY <1>2, <1>3
  <2>4. \A o1, o2 \in operations' : o1.id = o2.id => o1 = o2
    BY <1>2, <1>3 DEF TasksOK
  <2> QED BY <2>1, <2>2, <2>3, <2>4 DEF TasksOK
<1> QED BY <1>2, <1>3, <1>4

\* While a command's result is awaited, nothing else is due.
LEMMA JoinsKeeps ==
    ASSUME TerminalInv, NEW r \in Rooms, Joins(r)
    PROVE  TerminalInv'
<1> USE DEF TerminalInv, TypesInv
<1>0. /\ UNCHANGED <<head, member, queue, screen, room, bottom, page, unseen, noticed, early,
                     pageLoading, pageDirty, pageRequest, loads, sends>>
      /\ ~busy /\ busy' = TRUE /\ err' = FALSE /\ Commands("join", r)
  BY DEF Joins, client, pager
<1>1. ClientOK' /\ ScreenOK' /\ PagerOK'
  BY <1>0 DEF ClientOK, ScreenOK, PagerOK
<1>2. TasksOK' /\ \E new \in operations' :
                 /\ operations' = operations \cup {new}
                 /\ new.id = operation' /\ new.kind = "join" /\ new.room = r /\ ~new.done
  BY <1>0, CommandRuns
<1>3. \A o \in operations' : o.kind # "leave"
  BY <1>0, <1>2, NoLeave
<1>4. LeaveInv'
  BY <1>3 DEF LeaveInv
<1>5. Steady' => Steady
  BY <1>0, <1>2 DEF Steady
<1>6. PageInv' /\ LoadInv'
  BY <1>0, <1>5 DEF PageInv, LoadInv, Current
<1>7. NoticedInv'
  BY <1>0 DEF NoticedInv, Accounted
<1> QED BY <1>1, <1>2, <1>4, <1>6, <1>7

\* A leave begins for the room displayed.
LEMMA ConfirmsLeaveKeeps ==
    ASSUME TerminalInv, ConfirmsLeave
    PROVE  TerminalInv'
<1> USE DEF TerminalInv, TypesInv
<1>0. /\ UNCHANGED <<head, member, queue, screen, room, bottom, page, unseen, noticed, early,
                     pageLoading, pageDirty, pageRequest, loads, sends>>
      /\ screen = "leave" /\ ~busy /\ busy' = TRUE /\ err' = FALSE /\ Commands("leave", room)
  BY DEF ConfirmsLeave, client, pager
<1>1. ClientOK' /\ ScreenOK' /\ PagerOK'
  BY <1>0 DEF ClientOK, ScreenOK, PagerOK
<1>2. PICK r \in Rooms : r = room
  BY DEF ScreenOK
<1>3. Commands("leave", r)
  BY <1>0, <1>2
<1>4. TasksOK' /\ \E new \in operations' :
                 /\ operations' = operations \cup {new}
                 /\ new.id = operation' /\ new.kind = "leave" /\ new.room = r /\ ~new.done
  BY <1>0, <1>3, CommandRuns
<1>5. LeaveInv'
  <2>1. \A o \in operations : o.kind # "leave"
    BY <1>0, NoLeave
  <2> QED BY <1>0, <1>2, <1>4, <2>1 DEF LeaveInv
<1>6. Steady' => Steady
  BY <1>0, <1>4 DEF Steady
<1>7. PageInv' /\ LoadInv'
  BY <1>0, <1>6 DEF PageInv, LoadInv, Current
<1>8. NoticedInv'
  BY <1>0 DEF NoticedInv, Accounted
<1> QED BY <1>1, <1>4, <1>5, <1>7, <1>8

\* The room chosen begins with an empty page, which is loaded.
LEMMA SelectsRoomKeeps ==
    ASSUME TerminalInv, NEW r \in Rooms, SelectsRoom(r)
    PROVE  TerminalInv'
<1> USE DEF TerminalInv, TypesInv
<1>0. /\ UNCHANGED <<head, member, queue, sends>>
      /\ screen = "menu" /\ ~busy /\ room' = r /\ screen' = "room" /\ bottom' \in BOOLEAN
      /\ err' = FALSE /\ noticed' = 0 /\ early' = FALSE /\ busy' = TRUE
      /\ page' = EmptyPage /\ unseen' = FALSE
      /\ LoadPage(FALSE, loads, 0, r, {})
      /\ Commands("join", r)
  BY DEF SelectsRoom, Moves, client
<1>1. ClientOK'
  BY <1>0 DEF ClientOK
<1>2. page'.items = {} /\ page'.more = FALSE /\ 0 \in 0 .. MaxEvents
  BY <1>0, Constants DEF EmptyPage
<1>3. ScreenOK'
  BY <1>0, <1>2 DEF ScreenOK, Screens
<1>4. PagerOK' /\ PageInv' /\ LoadInv'
  BY <1>0, FreshLoads
<1>5. TasksOK' /\ \E new \in operations' :
                 /\ operations' = operations \cup {new}
                 /\ new.id = operation' /\ new.kind = "join" /\ new.room = r /\ ~new.done
  BY <1>0, CommandRuns
<1>6. LeaveInv'
  <2>1. \A o \in operations' : o.kind # "leave"
    BY <1>0, <1>5, NoLeave
  <2> QED BY <2>1 DEF LeaveInv
<1>7. NoticedInv'
  <2>1. r \in Rooms /\ head \in [Rooms -> 0 .. MaxEvents]
    BY DEF ClientOK, Copies
  <2>2. 0 <= head[r]
    BY <2>1, Constants
  <2> QED BY <1>0, <2>2 DEF NoticedInv, Accounted
<1> QED BY <1>1, <1>3, <1>4, <1>5, <1>6, <1>7

\* The result of a send shows an error, or the history is loaded.
LEMMA SentKeeps ==
    ASSUME TerminalInv, NEW r \in Rooms, Sent(r)
    PROVE  TerminalInv'
<1> USE DEF TerminalInv, TypesInv
<1>1. PICK ok \in BOOLEAN :
         /\ err' = (err \/ (screen = "room" /\ room = r /\ ~ok))
         /\ IF screen = "room" /\ room = r /\ ok
            THEN LoadPage(pageLoading, loads, 0, room, page.items)
            ELSE UNCHANGED pager
  BY DEF Sent
<1>2. /\ UNCHANGED <<head, member, queue, screen, room, bottom, page, unseen, noticed, early,
                     operation, busy, operations>>
      /\ sends' = sends \ {r}
  BY DEF Sent, client, tasks
<1>3. ClientOK' /\ TasksOK' /\ LeaveInv'
  BY <1>2 DEF ClientOK, TasksOK, LeaveInv
<1>4. err' \in BOOLEAN
  BY <1>1
<1>5. ScreenOK'
  BY <1>2, <1>4 DEF ScreenOK
<1>6. PageInv'
  BY <1>2 DEF PageInv, Steady
<1>7. PagerOK' /\ LoadInv' /\ Accounted'
  <2>1. CASE screen = "room" /\ room = r /\ ok
    <3>1. LoadPage(pageLoading, loads, 0, room, page.items)
      BY <1>1, <2>1
    <3> QED BY <1>2, <3>1, LoadFollows DEF Accounted
  <2>2. CASE ~(screen = "room" /\ room = r /\ ok)
    <3>1. UNCHANGED <<pageLoading, pageDirty, pageRequest, loads>>
      BY <1>1, <2>2 DEF pager
    <3>2. PagerOK' /\ LoadInv'
      BY <1>2, <3>1 DEF PagerOK, LoadInv, Steady, Current
    <3>3. Accounted'
      <4>1. CASE screen = "room" /\ room = r
        BY <1>1, <2>2, <4>1 DEF Accounted
      <4>2. CASE screen # "room"
        <5>1. noticed' = 0 /\ Last(page.items) \in 0 .. MaxEvents /\ page' = page
          BY <1>2, <4>2, Ends DEF NoticedInv, ScreenOK
        <5> QED BY <5>1, Constants DEF Accounted
      <4>3. CASE room # r
        <5>1. room \in sends => room' \in sends'
          BY <1>2, <4>3
        <5>2. err => err'
          BY <1>1
        <5> QED BY <1>2, <3>1, <5>1, <5>2 DEF NoticedInv, Accounted, Shows, Current
      <4> QED BY <4>1, <4>2, <4>3
    <3> QED BY <3>2, <3>3
  <2> QED BY <2>1, <2>2
<1>8. NoticedInv'
  BY <1>2, <1>7 DEF NoticedInv
<1> QED BY <1>3, <1>5, <1>6, <1>7, <1>8

\* A send begins: its result is awaited.
LEMMA SubmitsKeeps ==
    ASSUME TerminalInv, Submits
    PROVE  TerminalInv'
<1> USE DEF TerminalInv, TypesInv
<1>0. /\ UNCHANGED <<head, member, queue, screen, room, bottom, page, unseen, noticed, early,
                     pageLoading, pageDirty, pageRequest, loads, operation, busy, operations>>
      /\ sends' = sends \cup {room} /\ err' = FALSE
  BY DEF Submits, client, pager, tasks
<1>1. ClientOK' /\ ScreenOK' /\ PagerOK' /\ TasksOK' /\ LeaveInv'
  BY <1>0 DEF ClientOK, ScreenOK, PagerOK, TasksOK, LeaveInv
<1>2. PageInv' /\ LoadInv'
  BY <1>0 DEF PageInv, LoadInv, Steady, Current
<1>3. NoticedInv'
  BY <1>0 DEF NoticedInv, Accounted
<1> QED BY <1>1, <1>2, <1>3

\* Older events are loaded only when nothing is, and to continue the page displayed.
LEMMA OlderFits ==
    ASSUME TypesInv, LoadInv, Older, UNCHANGED <<head, screen, room, operations>>, page' = page
    PROVE  /\ PagerOK' /\ LoadInv'
           /\ \/ UNCHANGED pager
              \/ ~pageLoading
<1> USE DEF TypesInv
<1>1. CASE pageLoading \/ ~page.more \/ page.items = {}
  <2>1. UNCHANGED pager
    BY <1>1 DEF Older
  <2>2. UNCHANGED <<pageLoading, pageDirty, pageRequest, loads>>
    BY <2>1 DEF pager
  <2>3. PagerOK' /\ LoadInv'
    BY <2>2 DEF PagerOK, LoadInv, Steady, Current
  <2> QED BY <2>1, <2>3
<1>2. CASE ~(pageLoading \/ ~page.more \/ page.items = {})
  <2>1. PICK items \in SUBSET Events, r \in Rooms : items = page.items /\ r = room
    BY DEF ScreenOK
  <2>2. items # {} /\ First(items) \in 1 .. MaxEvents
    BY <1>2, <2>1, Ends
  <2>3. PICK before \in 0 .. MaxEvents : before = First(items) /\ before # 0
    BY <2>2, Constants
  <2>4. PICK running \in SUBSET Loads :
            running = loads /\ \A l1, l2 \in running : l1.id = l2.id => l1 = l2
    BY DEF PagerOK
  <2>5. LoadPage(FALSE, running, before, r, items)
    BY <1>2, <2>1, <2>3, <2>4 DEF Older
  <2>6. PagerOK' /\ Expected(before, r, items)'
    BY <2>4, <2>5, LoadStarts
  <2>7. PICK new \in loads' :
               /\ \A l \in loads' : l.id = pageRequest' <=> l = new
               /\ new.room = r /\ new.before = before /\ new.page = Unread
    BY <2>6 DEF Expected
  <2>8. new.page.read = FALSE
    BY <2>7 DEF Unread
  <2>9. Asked(new, page'.items)
    BY <2>1, <2>2, <2>3, <2>7 DEF Asked
  <2>10. LoadInv'
    BY <2>1, <2>7, <2>8, <2>9 DEF LoadInv, Current
  <2> QED BY <1>2, <2>6, <2>10
<1> QED BY <1>1, <1>2

\* New events stay announced until they are loaded.
LEMMA ScrollsKeeps ==
    ASSUME TerminalInv, Scrolls
    PROVE  TerminalInv'
<1> USE DEF TerminalInv, TypesInv
<1>0. /\ UNCHANGED <<head, member, queue, screen, room, err, page, unseen, noticed, early,
                     operation, busy, operations, sends>>
      /\ bottom' \in BOOLEAN
  BY DEF Scrolls, client, tasks
<1>1. ClientOK' /\ ScreenOK' /\ TasksOK' /\ LeaveInv'
  BY <1>0 DEF ClientOK, ScreenOK, TasksOK, LeaveInv
<1>2. PageInv'
  BY <1>0 DEF PageInv, Steady
<1>3. PagerOK' /\ LoadInv' /\ Accounted'
  <2>1. CASE (bottom' => bottom) /\ Older
    <3>1. PagerOK' /\ LoadInv' /\ (UNCHANGED pager \/ ~pageLoading)
      BY <1>0, <2>1, OlderFits
    <3>2. CASE UNCHANGED pager
      <4>1. UNCHANGED <<pageLoading, pageDirty, pageRequest, loads>>
        BY <3>2 DEF pager
      <4> QED BY <1>0, <2>1, <3>1, <4>1 DEF NoticedInv, Accounted, Shows, Current
    <3>3. CASE ~UNCHANGED pager
      <4>1. ~pageLoading /\ page.items # {}
        BY <2>1, <3>1, <3>3 DEF Older
      <4>2. ~ \E l \in loads : Shows(l)
        BY <4>1 DEF PagerOK, Shows, Current
      <4>3. \/ noticed <= Last(page.items)
            \/ unseen /\ ~bottom /\ page.items # {}
            \/ err \/ busy \/ room \in sends
            \/ early
        BY <4>1, <4>2 DEF NoticedInv, Accounted
      <4> QED BY <1>0, <2>1, <3>1, <4>1, <4>3 DEF Accounted
    <3> QED BY <3>2, <3>3
  <2>2. CASE bottom' /\ unseen /\ LoadPage(pageLoading, loads, 0, room, page.items)
    BY <1>0, <2>2, LoadFollows DEF Accounted
  <2>3. CASE ~(bottom' /\ unseen) /\ UNCHANGED pager
    <3>1. UNCHANGED <<pageLoading, pageDirty, pageRequest, loads>>
      BY <2>3 DEF pager
    <3>2. PagerOK' /\ LoadInv'
      BY <1>0, <3>1 DEF PagerOK, LoadInv, Steady, Current
    <3>3. Accounted'
      BY <1>0, <2>3, <3>1 DEF NoticedInv, Accounted, Shows, Current
    <3> QED BY <3>2, <3>3
  <2> QED BY <2>1, <2>2, <2>3 DEF Scrolls
<1>4. NoticedInv'
  BY <1>0, <1>3 DEF NoticedInv
<1> QED BY <1>1, <1>2, <1>3, <1>4

\* ctrl+l loads the newest events.
LEMMA ShowsLatestKeeps ==
    ASSUME TerminalInv, ShowsLatest
    PROVE  TerminalInv'
<1> USE DEF TerminalInv, TypesInv
<1>0. /\ UNCHANGED <<head, member, queue, screen, room, err, page, unseen, noticed, early,
                     operation, busy, operations, sends>>
      /\ bottom' = TRUE /\ ~pageLoading /\ LoadPage(FALSE, loads, 0, room, page.items)
  BY DEF ShowsLatest, client, tasks
<1>1. ClientOK' /\ ScreenOK' /\ TasksOK' /\ LeaveInv'
  BY <1>0 DEF ClientOK, ScreenOK, TasksOK, LeaveInv
<1>2. PageInv'
  BY <1>0 DEF PageInv, Steady
<1>3. LoadPage(pageLoading, loads, 0, room, page.items)
  BY <1>0 DEF LoadPage
<1>4. PagerOK' /\ LoadInv' /\ Accounted'
  BY <1>0, <1>3, LoadFollows DEF Accounted
<1>5. NoticedInv'
  BY <1>0, <1>4 DEF NoticedInv
<1> QED BY <1>1, <1>2, <1>4, <1>5

\* An event that is notified on the screen is announced or loaded.
LEMMA HandlesNotificationKeeps ==
    ASSUME TerminalInv, HandlesNotification
    PROVE  TerminalInv'
<1> USE DEF TerminalInv, TypesInv
<1>0. /\ UNCHANGED <<head, member, screen, room, bottom, err, page, operation, busy, operations,
                     sends>>
      /\ queue # <<>> /\ queue' = Tail(queue)
  BY DEF HandlesNotification, tasks
<1>1. PICK n \in [room : Rooms, seqno : 0 .. MaxEvents], shown \in BOOLEAN, newest \in BOOLEAN :
         /\ shown = (screen = "room" /\ room = n.room)
         /\ newest = (shown /\ n.seqno \in noticed + 1 .. head[room])
         /\ IF shown /\ (n.seqno = 0 \/ bottom)
            THEN LoadPage(pageLoading, loads, 0, room, page.items)
            ELSE UNCHANGED pager
         /\ unseen' = (unseen \/ (shown /\ n.seqno # 0 /\ ~bottom))
         /\ noticed' = IF newest THEN n.seqno ELSE noticed
         /\ early' = IF newest THEN page.items = {} /\ ~bottom ELSE early
  <2> DEFINE Notifications == [room : Rooms, seqno : 0 .. MaxEvents]
  <2>1. queue \in Seq(Notifications) /\ queue # <<>>
    BY <1>0 DEF ClientOK
  <2> HIDE DEF Notifications
  <2>2. Head(queue) \in Notifications
    BY <2>1
  <2> USE DEF Notifications
  <2> QED BY <2>2 DEF HandlesNotification
<1>2. ClientOK'
  <2>1. queue' \in Seq([room : Rooms, seqno : 0 .. MaxEvents]) /\ Len(queue') <= Len(queue)
    BY <1>0 DEF ClientOK
  <2>2. Len(queue) \in Nat /\ Len(queue') \in Nat
    BY <2>1 DEF ClientOK
  <2> QED BY <1>0, <2>1, <2>2, Constants DEF ClientOK
<1>3. noticed' \in 0 .. MaxEvents /\ unseen' \in BOOLEAN /\ early' \in BOOLEAN
  <2>1. n.seqno \in 0 .. MaxEvents
    OBVIOUS
  <2> QED BY <1>1, <2>1 DEF ScreenOK
<1>4. ScreenOK' /\ TasksOK' /\ LeaveInv'
  BY <1>0, <1>3 DEF ScreenOK, TasksOK, LeaveInv
<1>5. PageInv'
  BY <1>0 DEF PageInv, Steady
<1>6. PagerOK' /\ LoadInv' /\ Accounted'
  <2>1. CASE shown /\ (n.seqno = 0 \/ bottom)
    <3>1. LoadPage(pageLoading, loads, 0, room, page.items)
      BY <1>1, <2>1
    <3> QED BY <1>0, <3>1, LoadFollows DEF Accounted
  <2>2. CASE ~(shown /\ (n.seqno = 0 \/ bottom))
    <3>1. UNCHANGED <<pageLoading, pageDirty, pageRequest, loads>>
      BY <1>1, <2>2 DEF pager
    <3>2. PagerOK' /\ LoadInv'
      BY <1>0, <3>1 DEF PagerOK, LoadInv, Steady, Current
    <3>3. CASE ~newest
      <4>1. noticed' = noticed /\ early' = early
        BY <1>1, <3>3
      <4>2. unseen => unseen'
        BY <1>1
      <4> QED BY <1>0, <3>1, <3>2, <4>1, <4>2 DEF NoticedInv, Accounted, Shows, Current
    <3>4. CASE newest
      <4>1. shown /\ n.seqno \in noticed + 1 .. head[room]
        BY <1>1, <3>4
      <4>2. n.seqno # 0
        BY <4>1, Constants DEF ScreenOK
      <4>3. ~bottom /\ unseen'
        BY <1>1, <2>2, <4>1, <4>2
      <4>4. page.items = {} => early'
        BY <1>1, <3>4, <4>3
      <4> QED BY <1>0, <3>2, <4>3, <4>4 DEF Accounted
    <3> QED BY <3>3, <3>4
  <2> QED BY <2>1, <2>2
<1>7. NoticedInv'
  <2>1. screen # "room" => noticed' = 0
    BY <1>1 DEF NoticedInv
  <2>2. screen = "room" => noticed' <= head[room]
    <3>1. CASE newest
      <4>1. noticed' = n.seqno /\ n.seqno \in noticed + 1 .. head[room]
        BY <1>1, <3>1
      <4> QED BY <4>1
    <3>2. CASE ~newest
      BY <1>1, <3>2 DEF NoticedInv
    <3> QED BY <3>1, <3>2
  <2> QED BY <1>0, <1>6, <2>1, <2>2 DEF NoticedInv
<1> QED BY <1>2, <1>4, <1>5, <1>6, <1>7

\* Whatever runs is forgotten; a leave that runs keeps its screen.
LEMMA GoesToKeeps ==
    ASSUME TerminalInv, NEW from, NEW next \in Screens, GoesTo(from, next),
           from # "leave" \/ ~busy, from = "menu" => next = "menu"
    PROVE  TerminalInv'
<1> USE DEF TerminalInv, TypesInv
<1>0. /\ UNCHANGED <<head, member, queue, room, page, unseen, pageDirty, loads, operations, sends>>
      /\ screen = from /\ screen' = next /\ bottom' \in BOOLEAN /\ err' = FALSE
      /\ noticed' = 0 /\ early' = FALSE /\ busy' = FALSE
      /\ operation' = 0 /\ pageRequest' = 0 /\ pageLoading' = FALSE
  BY DEF GoesTo, Moves, Forgets, client
<1>1. ClientOK' /\ ScreenOK'
  <2>1. 0 \in 0 .. MaxEvents
    BY Constants
  <2> QED BY <1>0, <2>1 DEF ClientOK, ScreenOK
<1>2. PagerOK' /\ LoadInv'
  BY <1>0, NoneExpected
<1>3. TasksOK'
  <2>1. 0 \in 0 .. MaxOperations
    BY Constants
  <2> QED BY <1>0, <2>1 DEF TasksOK
<1>4. \A o \in operations : o.kind # "leave"
  BY <1>0, NoLeave
<1>5. LeaveInv'
  BY <1>0, <1>4 DEF LeaveInv
<1>6. PageInv'
  <2>1. Steady' => Steady
    BY <1>0, <1>4 DEF Steady
  <2> QED BY <1>0, <2>1 DEF PageInv
<1>7. NoticedInv'
  <2>1. room \in Rooms /\ head[room] \in 0 .. MaxEvents
    BY DEF ScreenOK, ClientOK, Copies
  <2>2. Last(page.items) \in 0 .. MaxEvents
    BY Ends DEF ScreenOK
  <2>3. 0 <= head[room] /\ 0 <= Last(page.items)
    BY <2>1, <2>2, Constants
  <2> QED BY <1>0, <2>3 DEF NoticedInv, Accounted
<1> QED BY <1>1, <1>2, <1>3, <1>5, <1>6, <1>7

\* Every way between the screens.
LEMMA NavigatesKeeps ==
    ASSUME TerminalInv, Navigates
    PROVE  TerminalInv'
<1>1. /\ "menu" \in Screens /\ "room" \in Screens /\ "details" \in Screens /\ "leave" \in Screens
  BY DEF Screens
<1>2. CASE GoesTo("room", "menu")
  BY <1>1, <1>2, GoesToKeeps
<1>3. CASE GoesTo("menu", "menu")
  BY <1>1, <1>3, GoesToKeeps
<1>4. CASE GoesTo("room", "details")
  BY <1>1, <1>4, GoesToKeeps
<1>5. CASE GoesTo("details", "room")
  BY <1>1, <1>5, GoesToKeeps
<1>6. CASE GoesTo("details", "leave")
  BY <1>1, <1>6, GoesToKeeps
<1>7. CASE Escape /\ GoesTo("leave", "room")
  <2>1. ~busy
    BY <1>7 DEF Escape, GoesTo
  <2> QED BY <1>1, <1>7, <2>1, GoesToKeeps
<1> QED BY <1>2, <1>3, <1>4, <1>5, <1>6, <1>7 DEF Navigates

\* A leave takes the history of the room displayed with it.
LEMMA OperationRunsKeeps ==
    ASSUME TerminalInv, NEW o \in operations, OperationRuns(o)
    PROVE  TerminalInv'
<1> USE DEF TerminalInv, TypesInv
<1>0. /\ UNCHANGED <<queue, screen, room, bottom, err, page, unseen, noticed, early, pageLoading,
                     pageDirty, pageRequest, loads, operation, busy, sends>>
      /\ operations' = (operations \ {o}) \cup {[o EXCEPT !.done = TRUE]}
      /\ member' = IF o.kind = "join" THEN member \cup {o.room} ELSE member \ {o.room}
      /\ head' = IF o.kind = "join" THEN head ELSE [head EXCEPT ![o.room] = 0]
  BY DEF OperationRuns, screenVars, pager
<1>1. o \in Operations /\ o.room \in Rooms /\ o.kind \in {"join", "leave"}
  BY DEF TasksOK, Operations
<1>2. PICK ran \in Operations :
         /\ operations' = (operations \ {o}) \cup {ran}
         /\ ran.id = o.id /\ ran.kind = o.kind /\ ran.room = o.room /\ ran.done = TRUE
  <2> DEFINE ran == [o EXCEPT !.done = TRUE]
  <2>1. ran \in Operations
    BY <1>1 DEF Operations
  <2>2. ran.id = o.id /\ ran.kind = o.kind /\ ran.room = o.room /\ ran.done = TRUE
    BY <1>1 DEF Operations
  <2> QED BY <1>0, <2>1, <2>2
<1>3. ClientOK'
  <2>1. head' \in Copies
    <3>1. head \in [Rooms -> 0 .. MaxEvents] /\ \A q \in Rooms : head[q] <= MaxSeqno[q]
      BY DEF ClientOK, Copies
    <3>2. 0 \in 0 .. MaxEvents /\ \A q \in Rooms : 0 <= MaxSeqno[q]
      BY Constants
    <3> QED BY <1>0, <1>1, <3>1, <3>2 DEF Copies
  <2> QED BY <1>0, <1>1, <2>1 DEF ClientOK
<1>4. ScreenOK' /\ PagerOK'
  BY <1>0 DEF ScreenOK, PagerOK
<1>5. TasksOK'
  <2>1. operations' \subseteq Operations
    BY <1>2 DEF TasksOK
  <2>2. busy' => \E o1 \in operations' : o1.id = operation'
    BY <1>0, <1>2 DEF TasksOK
  <2>3. \A o1, o2 \in operations' : o1.id = o2.id => o1 = o2
    BY <1>2 DEF TasksOK
  <2> QED BY <1>0, <2>1, <2>2, <2>3 DEF TasksOK
<1>6. LeaveInv'
  BY <1>0, <1>2 DEF LeaveInv
<1>7. CASE o.kind = "join"
  <2>1. head' = head
    BY <1>0, <1>7
  <2>2. Steady' => Steady
    BY <1>0, <1>2, <1>7 DEF Steady
  <2>3. PageInv' /\ LoadInv'
    BY <1>0, <2>1, <2>2 DEF PageInv, LoadInv, Current
  <2>4. NoticedInv'
    BY <1>0, <2>1 DEF NoticedInv, Accounted, Shows, Current
  <2> QED BY <1>3, <1>4, <1>5, <1>6, <2>3, <2>4
<1>8. CASE o.kind = "leave"
  <2>1. ~Steady'
    BY <1>2, <1>8 DEF Steady
  <2>2. PageInv' /\ LoadInv'
    BY <1>0, <2>1 DEF PageInv, LoadInv
  <2>3. screen = "leave"
    BY <1>8 DEF LeaveInv
  <2>4. NoticedInv'
    BY <1>0, <2>3 DEF NoticedInv, Accounted, Shows, Current
  <2> QED BY <1>3, <1>4, <1>5, <1>6, <2>2, <2>4
<1> QED BY <1>1, <1>7, <1>8

\* Only the result that is awaited changes the screen.
LEMMA OperationResultKeeps ==
    ASSUME TerminalInv, NEW o \in operations, OperationResult(o)
    PROVE  TerminalInv'
<1> USE DEF TerminalInv, TypesInv
<1>0. /\ UNCHANGED <<head, member, queue, sends>>
      /\ operations' = operations \ {o}
  BY DEF OperationResult, client
<1>1. ClientOK'
  BY <1>0 DEF ClientOK
<1>2. /\ o.room \in Rooms /\ 0 \in 0 .. MaxOperations /\ 0 \in 0 .. MaxEvents
      /\ operations' \subseteq Operations
      /\ \A o1, o2 \in operations' : o1.id = o2.id => o1 = o2
  BY <1>0, Constants DEF TasksOK, Operations
<1>3. o.id = operation => \A other \in operations' : other.kind # "leave"
  BY <1>0 DEF LeaveInv, TasksOK
<1>4. CASE o.id # operation /\ UNCHANGED <<screenVars, pager, operation, busy>>
  <2>0. UNCHANGED <<screen, room, bottom, err, page, unseen, noticed, early, pageLoading,
                    pageDirty, pageRequest, loads, operation, busy>>
    BY <1>4 DEF screenVars, pager
  <2>1. ScreenOK' /\ PagerOK'
    BY <1>0, <2>0 DEF ScreenOK, PagerOK
  <2>2. TasksOK'
    BY <1>0, <1>2, <1>4, <2>0 DEF TasksOK
  <2>3. LeaveInv'
    BY <1>0, <2>0 DEF LeaveInv
  <2>4. Steady' => Steady
    BY <1>0, <1>4, <2>0 DEF Steady, LeaveInv
  <2>5. PageInv' /\ LoadInv'
    BY <1>0, <2>0, <2>4 DEF PageInv, LoadInv, Current
  <2>6. NoticedInv'
    BY <1>0, <2>0 DEF NoticedInv, Accounted, Shows, Current
  <2> QED BY <1>1, <2>1, <2>2, <2>3, <2>5, <2>6
<1>5. CASE /\ o.id = operation /\ (o.kind = "leave" => ~o.done)
           /\ busy' = FALSE /\ err' = TRUE
           /\ UNCHANGED <<screen, room, bottom, page, unseen, noticed, early, pager, operation>>
  <2>0. UNCHANGED <<screen, room, bottom, page, unseen, noticed, early, pageLoading, pageDirty,
                    pageRequest, loads, operation>>
    BY <1>5 DEF pager
  <2>1. ScreenOK' /\ PagerOK'
    BY <1>0, <1>5, <2>0 DEF ScreenOK, PagerOK
  <2>2. TasksOK'
    BY <1>2, <1>5, <2>0 DEF TasksOK
  <2>3. LeaveInv'
    BY <1>3, <1>5 DEF LeaveInv
  <2>4. Steady' => Steady
    BY <1>0, <1>3, <1>5, <2>0 DEF Steady
  <2>5. PageInv' /\ LoadInv'
    BY <1>0, <2>0, <2>4 DEF PageInv, LoadInv, Current
  <2>6. NoticedInv'
    BY <1>0, <1>5, <2>0 DEF NoticedInv, Accounted
  <2> QED BY <1>1, <2>1, <2>2, <2>3, <2>5, <2>6
<1>6. CASE /\ o.id = operation /\ o.kind = "join" /\ o.done
           /\ Moves("room", FALSE)
           /\ operation' = 0
           /\ room' = o.room /\ page' = EmptyPage /\ unseen' = FALSE
           /\ LoadPage(FALSE, loads, 0, o.room, {})
  <2>0. /\ screen' = "room" /\ bottom' \in BOOLEAN /\ err' = FALSE /\ noticed' = 0 /\ early' = FALSE
        /\ busy' = FALSE
    BY <1>6 DEF Moves
  <2>1. page'.items = {} /\ page'.more = FALSE
    BY <1>6 DEF EmptyPage
  <2>2. ScreenOK'
    BY <1>0, <1>2, <1>6, <2>0, <2>1 DEF ScreenOK, Screens
  <2>3. PagerOK' /\ PageInv' /\ LoadInv'
    <3>1. PICK r \in Rooms : r = o.room
      BY <1>2
    <3>2. LoadPage(FALSE, loads, 0, r, {})
      BY <1>6, <3>1
    <3> QED BY <1>6, <3>1, <3>2, FreshLoads
  <2>4. TasksOK'
    BY <1>2, <1>6, <2>0 DEF TasksOK
  <2>5. LeaveInv'
    BY <1>3, <1>6 DEF LeaveInv
  <2>6. NoticedInv'
    <3>1. 0 <= head[o.room]
      BY <1>2, Constants DEF ClientOK, Copies
    <3>2. Last(page'.items) = 0
      BY <2>1 DEF Last
    <3> QED BY <1>0, <1>6, <2>0, <3>1, <3>2 DEF NoticedInv, Accounted
  <2> QED BY <1>1, <2>2, <2>3, <2>4, <2>5, <2>6
<1>7. CASE /\ o.id = operation /\ o.kind = "leave" /\ o.done
           /\ Moves("menu", FALSE) /\ Forgets
           /\ UNCHANGED <<room, page, unseen, pageDirty, loads>>
  <2>0. /\ screen' = "menu" /\ bottom' \in BOOLEAN /\ err' = FALSE /\ noticed' = 0 /\ early' = FALSE
        /\ busy' = FALSE /\ operation' = 0 /\ pageRequest' = 0 /\ pageLoading' = FALSE
        /\ UNCHANGED <<room, page, unseen, pageDirty, loads>>
    BY <1>7 DEF Moves, Forgets
  <2>1. ScreenOK'
    BY <1>0, <1>2, <2>0 DEF ScreenOK, Screens
  <2>2. PagerOK' /\ LoadInv'
    BY <2>0, NoneExpected
  <2>3. TasksOK'
    BY <1>2, <2>0 DEF TasksOK
  <2>4. LeaveInv'
    BY <1>3, <1>7 DEF LeaveInv
  <2>5. PageInv'
    BY <2>0 DEF PageInv, Steady
  <2>6. NoticedInv'
    <3>1. Last(page.items) \in 0 .. MaxEvents
      BY Ends DEF ScreenOK
    <3>2. 0 <= Last(page.items)
      BY <3>1, Constants
    <3> QED BY <2>0, <3>2 DEF NoticedInv, Accounted
  <2> QED BY <1>1, <2>1, <2>2, <2>3, <2>4, <2>5, <2>6
<1> QED BY <1>4, <1>5, <1>6, <1>7 DEF OperationResult

\* What a load reads is a page of the history that fits what it asks for, and the
\* newest page shows all there is.
LEMMA PageIsRead ==
    ASSUME TypesInv, NEW l \in loads, Reads(l)
    PROVE  \E result \in Loads :
              /\ loads' = (loads \ {l}) \cup {result}
              /\ result.id = l.id /\ result.room = l.room /\ result.before = l.before
              /\ result.known = l.known /\ result.page.read
              /\ Faithful(result.page.items, result.page.more, l.room, head[l.room])
              /\ l.before = 0 => Last(result.page.items) = head[l.room]
              /\ result.page.items # {} /\ l.before = 0 /\ l.known # 0 =>
                    First(result.page.items) <= l.known + 1
              /\ l.before # 0 /\ l.before <= head[l.room] =>
                    IF result.page.items = {}
                    THEN l.before = 1 /\ result.page.more = FALSE
                    ELSE Last(result.page.items) = l.before - 1
<1> USE DEF TypesInv
<1>1. /\ l \in Loads /\ l.room \in Rooms /\ l.before \in Nat /\ l.known \in Nat
      /\ head[l.room] \in 0 .. MaxEvents /\ MaxEvents \in Nat /\ head[l.room] \in Nat
  BY SMTT(30), Constants DEF PagerOK, Loads, ClientOK, Copies
<1>2. PICK to \in Nat : to = IF l.before = 0 \/ l.before > head[l.room]
                             THEN head[l.room] ELSE l.before - 1
  BY <1>1
<1>3. to <= head[l.room]
  BY <1>1, <1>2
<1>4. PICK from : from = IF l.before = 0 THEN StartsAt(to, l.known) ELSE PageStart(to)
  OBVIOUS
<1>5. PICK found : found = IF to = 0 THEN {} ELSE {Entry(l.room, s) : s \in from .. to}
  OBVIOUS
<1>6. loads' = (loads \ {l}) \cup
          {[l EXCEPT !.page = [read |-> TRUE, items |-> found,
                               more |-> found # {} /\ from > 1]]}
  BY <1>2, <1>4, <1>5 DEF Reads
<1>7. PICK more \in BOOLEAN : more = (found # {} /\ from > 1)
  OBVIOUS
<1> DEFINE read == [read |-> TRUE, items |-> found, more |-> more]
           result == [l EXCEPT !.page = read]
<1>8. loads' = (loads \ {l}) \cup {result}
  BY <1>6, <1>7
<1>9. CASE to = 0
  <2>1. found = {}
    BY <1>5, <1>9
  <2>2. more = FALSE
    BY <1>7, <2>1
  <2>3. read \in Pages
    BY <2>1 DEF Pages
  <2>4. result \in Loads /\ result.id = l.id /\ result.room = l.room /\ result.before = l.before
        /\ result.known = l.known /\ result.page = read
    BY <1>1, <2>3 DEF Loads
  <2>5. Faithful(found, more, l.room, head[l.room])
    BY <2>1 DEF Faithful
  <2>6. Last(found) = 0
    BY <2>1 DEF Last
  <2>7. l.before = 0 => Last(found) = head[l.room]
    BY <1>2, <1>9, <2>6
  <2>8. l.before # 0 /\ l.before <= head[l.room] => l.before = 1
    BY <1>1, <1>2, <1>9
  <2>9. read.items = found /\ read.more = more /\ read.read = TRUE
    OBVIOUS
  <2> HIDE DEF result, read
  <2> QED BY <1>8, <2>1, <2>2, <2>4, <2>5, <2>7, <2>8, <2>9
<1>10. CASE to # 0
  <2>1. PICK first \in 1 .. to : first = from
    <3>1. to >= 1
      BY <1>10
    <3>2. PageStart(to) \in 1 .. to /\ StartsAt(to, l.known) \in 1 .. to
      BY <1>1, <3>1, PageStarts, RunStarts
    <3> QED BY <1>4, <3>2
  <2>2. /\ first \in 1 .. MaxEvents /\ to \in 1 .. MaxEvents /\ first <= to
        /\ first \in 1 .. head[l.room] /\ to \in 1 .. head[l.room]
    BY <1>1, <1>3, <1>10
  <2>3. found = Run(l.room, first, to)
    BY <1>5, <1>10, <2>1 DEF Run
  <2>4. found \in SUBSET Events /\ found # {} /\ First(found) = first /\ Last(found) = to
    BY <1>1, <2>2, <2>3, RunEnds
  <2>5. more = (first > 1)
    <3>1. (found # {} /\ from > 1) = (first > 1)
      BY <2>1, <2>4
    <3> QED BY <1>7, <3>1, Zenon
  <2>6. read \in Pages
    BY <2>4 DEF Pages
  <2>7. result \in Loads /\ result.id = l.id /\ result.room = l.room /\ result.before = l.before
        /\ result.known = l.known /\ result.page = read
    BY <1>1, <2>6 DEF Loads
  <2>8. Faithful(found, more, l.room, head[l.room])
    BY <2>2, <2>3, <2>5 DEF Faithful
  <2>9. l.before = 0 => Last(found) = head[l.room]
    BY <1>2, <2>4
  <2>10. l.before = 0 /\ l.known # 0 => First(found) <= l.known + 1
    <3>1. ASSUME l.before = 0, l.known # 0 PROVE from <= l.known + 1
      <4>1. from = StartsAt(to, l.known) /\ to >= 1
        BY <1>4, <1>10, <3>1
      <4> QED BY <1>1, <3>1, <4>1, RunStarts
    <3> QED BY <2>1, <2>4, <3>1
  <2>11. l.before # 0 /\ l.before <= head[l.room] => Last(found) = l.before - 1
    BY <1>1, <1>2, <2>4
  <2>12. read.items = found /\ read.more = more /\ read.read = TRUE
    OBVIOUS
  <2> HIDE DEF result, read
  <2> QED BY <1>8, <2>4, <2>7, <2>8, <2>9, <2>10, <2>11, <2>12
<1> QED BY <1>9, <1>10

\* A load reads the client's copy.
LEMMA ReadsKeeps ==
    ASSUME TerminalInv, NEW l \in loads, Reads(l)
    PROVE  TerminalInv'
<1> USE DEF TerminalInv, TypesInv
<1>0. UNCHANGED <<head, member, queue, screen, room, bottom, err, page, unseen, noticed, early,
                  pageLoading, pageDirty, pageRequest, operation, busy, operations, sends>>
  BY DEF Reads, client, screenVars, tasks
<1>1. PICK result \in Loads :
              /\ loads' = (loads \ {l}) \cup {result}
              /\ result.id = l.id /\ result.room = l.room /\ result.before = l.before
              /\ result.known = l.known /\ result.page.read
              /\ Faithful(result.page.items, result.page.more, l.room, head[l.room])
              /\ l.before = 0 => Last(result.page.items) = head[l.room]
              /\ result.page.items # {} /\ l.before = 0 /\ l.known # 0 =>
                    First(result.page.items) <= l.known + 1
              /\ l.before # 0 /\ l.before <= head[l.room] =>
                    IF result.page.items = {}
                    THEN l.before = 1 /\ result.page.more = FALSE
                    ELSE Last(result.page.items) = l.before - 1
  BY PageIsRead
<1>2. ClientOK' /\ ScreenOK' /\ TasksOK' /\ LeaveInv'
  BY <1>0 DEF ClientOK, ScreenOK, TasksOK, LeaveInv
<1>3. PagerOK'
  <2>1. loads' \subseteq Loads
    BY <1>1 DEF PagerOK
  <2>2. \A l1, l2 \in loads' : l1.id = l2.id => l1 = l2
    BY <1>1 DEF PagerOK
  <2>3. pageLoading' <=> \E some \in loads' : some.id = pageRequest'
    BY <1>0, <1>1 DEF PagerOK
  <2> QED BY <1>0, <2>1, <2>2, <2>3 DEF PagerOK
<1>4. PageInv'
  BY <1>0 DEF PageInv, Steady
<1>5. ASSUME Steady, Current(l)
      PROVE  Asked(result, page.items) /\ Fits(result, page.items, head[room])
  <2>1. Asked(l, page.items) /\ Faithful(page.items, page.more, room, head[room])
    BY <1>5 DEF LoadInv, PageInv
  <2>2. Asked(result, page.items)
    BY <1>1, <2>1 DEF Asked
  <2>3. l.room = room
    BY <1>5 DEF Current
  <2>4. page.items # {} => /\ First(page.items) \in 1 .. head[room]
                           /\ Last(page.items) \in 1 .. head[room]
    <3>1. ASSUME page.items # {}
          PROVE  \E a, b \in 1 .. head[room] : a <= b /\ page.items = Run(room, a, b)
      BY <2>1, <3>1 DEF Faithful
    <3>2. head[room] \in 0 .. MaxEvents /\ room \in Rooms
      BY DEF ClientOK, Copies, ScreenOK
    <3>3. \A a \in 1 .. head[room] : a \in 1 .. MaxEvents
      BY <3>2, Constants
    <3> QED BY <3>1, <3>2, <3>3, RunEnds
  <2>5. head[room] \in Nat
    BY Constants DEF ClientOK, Copies, ScreenOK
  <2>6. ASSUME result.page.items # {}, result.before = 0, page.items # {}
        PROVE  /\ First(result.page.items) <= Last(page.items) + 1
               /\ Last(page.items) <= Last(result.page.items)
    <3>1. l.known = Last(page.items) /\ Last(page.items) # 0 /\ Last(page.items) <= head[room]
      BY <1>1, <2>1, <2>4, <2>5, <2>6 DEF Asked
    <3> QED BY <1>1, <2>3, <2>6, <3>1
  <2>7. result.before # 0 => l.before <= head[room]
    BY <1>1, <2>1, <2>4, <2>5 DEF Asked
  <2>8. Fits(result, page.items, head[room])
    BY <1>1, <2>3, <2>6, <2>7 DEF Fits
  <2> QED BY <2>2, <2>8
<1>6. LoadInv'
  <2>1. \A some \in loads' : some.id = pageRequest => some.room = room
    BY <1>1 DEF LoadInv
  <2>2. Current(result) <=> Current(l)
    BY <1>1 DEF Current
  <2>3. Steady => \A some \in loads' : Current(some) =>
            /\ Asked(some, page.items)
            /\ some.page.read => Fits(some, page.items, head[room])
    BY <1>1, <1>5, <2>2 DEF LoadInv
  <2>4. (Steady' <=> Steady) /\ \A some : Current(some)' <=> Current(some)
    BY <1>0 DEF Steady, Current
  <2> QED BY <1>0, <2>1, <2>3, <2>4 DEF LoadInv
<1>7. NoticedInv'
  <2>1. ASSUME Shows(l) PROVE Shows(result)'
    <3>1. l.before = 0 /\ Current(l) /\ l.room = room
      BY <2>1 DEF Shows, Current
    <3>2. noticed <= head[room]
      <4>1. head[room] \in Nat
        BY Constants DEF ClientOK, Copies, ScreenOK
      <4> QED BY <4>1 DEF NoticedInv
    <3>3. noticed <= Last(result.page.items)
      BY <1>1, <3>1, <3>2
    <3> QED BY <1>0, <1>1, <3>1, <3>3 DEF Shows, Current
  <2>2. ASSUME NEW some \in loads, Shows(some) PROVE \E other \in loads' : Shows(other)'
    <3>1. CASE some = l
      BY <1>1, <2>1, <2>2, <3>1
    <3>2. CASE some # l
      <4>1. some \in loads' /\ Shows(some)'
        BY <1>0, <1>1, <2>2, <3>2 DEF Shows, Current
      <4> QED BY <4>1
    <3> QED BY <3>1, <3>2
  <2>3. Accounted'
    BY <1>0, <2>2 DEF NoticedInv, Accounted
  <2> QED BY <1>0, <2>3 DEF NoticedInv
<1> QED BY <1>2, <1>3, <1>4, <1>6, <1>7

\* mergePage, and the load that is due.
LEMMA ResultIsMerged ==
    ASSUME TerminalInv, NEW l \in loads, l.page.read, Current(l), Merges(l), Reloads(l),
           UNCHANGED <<head, member, queue, screen, room, noticed, early, operation, busy,
                       operations, sends>>
    PROVE  TerminalInv'
<1> USE DEF TerminalInv, TypesInv
<1>1. ClientOK' /\ TasksOK' /\ LeaveInv'
  BY DEF ClientOK, TasksOK, LeaveInv
<1>2. /\ page' = [items |-> page.items \cup l.page.items, more |-> More(l)]
      /\ bottom' = (page.items = {} \/ (l.before = 0 /\ bottom) \/ bottom)
      /\ unseen' = (/\ ~(page.items = {} \/ (l.before = 0 /\ bottom))
                    /\ \/ unseen
                       \/ l.before = 0 /\ \E e \in l.page.items : e.seqno > Last(page.items))
      /\ err' = err
  BY DEF Merges
<1>3. /\ l \in Loads /\ l.page.items \subseteq Events /\ l.page.more \in BOOLEAN
      /\ l.room = room /\ l.id = pageRequest
  BY DEF PagerOK, Loads, Pages, Current
<1>4. PICK items \in SUBSET Events :
          page'.items = items /\ items = page.items \cup l.page.items
  BY <1>2, <1>3 DEF ScreenOK
<1>5. page'.more = More(l) /\ More(l) \in BOOLEAN
  BY <1>2, <1>3 DEF More, ScreenOK
<1>6. ScreenOK'
  <2>1. page'.items \subseteq Events /\ page'.more \in BOOLEAN
    BY <1>4, <1>5
  <2>2. bottom' \in BOOLEAN /\ unseen' \in BOOLEAN /\ err' \in BOOLEAN
    BY <1>2 DEF ScreenOK
  <2> QED BY <2>1, <2>2 DEF ScreenOK
<1>7. PageInv'
  <2>1. Steady' <=> Steady
    BY DEF Steady
  <2>2. ASSUME Steady PROVE Faithful(items, More(l), room, head[room])
    <3>1. /\ Faithful(page.items, page.more, room, head[room])
          /\ Asked(l, page.items) /\ Fits(l, page.items, head[room])
      BY <2>2 DEF PageInv, LoadInv
    <3>2. room \in Rooms /\ head[room] \in 0 .. MaxEvents
      BY DEF ScreenOK, ClientOK, Copies
    <3>3. Faithful(page.items \cup l.page.items,
                   IF \/ page.items = {} \/ l.before # 0
                      \/ l.page.items # {} /\ First(l.page.items) < First(page.items)
                   THEN l.page.more ELSE page.more, room, head[room])
      BY <1>3, <3>1, <3>2, MergedIsFaithful
    <3> QED BY <1>4, <3>3 DEF More
  <2>3. Steady' => Faithful(page'.items, page'.more, room', head'[room'])
    BY <1>4, <1>5, <2>1, <2>2
  <2> QED BY <2>3 DEF PageInv
<1>8. CASE pageDirty
  <2>1. PICK running \in SUBSET Loads, r \in Rooms :
            /\ running = loads \ {l} /\ r = room
            /\ \A l1, l2 \in running : l1.id = l2.id => l1 = l2
    BY DEF PagerOK, ScreenOK
  <2>2. LoadPage(FALSE, running, 0, r, items)
    BY <1>4, <1>8, <2>1 DEF Reloads
  <2>3. 0 \in 0 .. MaxEvents
    BY Constants
  <2>4. PagerOK' /\ Expected(0, r, items)'
    BY <2>1, <2>2, <2>3, LoadStarts
  <2>5. PICK new \in loads' :
               /\ \A some \in loads' : some.id = pageRequest' <=> some = new
               /\ new.room = r /\ new.before = 0 /\ new.page = Unread
               /\ new.known = Last(items)
    BY <2>4 DEF Expected
  <2>6. new.page.read = FALSE
    BY <2>5 DEF Unread
  <2>7. LoadInv'
    <3>1. Asked(new, page'.items)
      BY <1>4, <2>5 DEF Asked
    <3> QED BY <2>1, <2>5, <2>6, <3>1 DEF LoadInv, Current
  <2>8. Shows(new)'
    BY <2>1, <2>5, <2>6 DEF Shows, Current
  <2>9. NoticedInv'
    BY <2>8 DEF NoticedInv, Accounted
  <2> QED BY <1>1, <1>6, <1>7, <2>4, <2>7, <2>9
<1>9. CASE ~pageDirty
  <2>1. pageLoading' = FALSE /\ UNCHANGED <<pageDirty, pageRequest>> /\ loads' = loads \ {l}
    BY <1>9 DEF Reloads
  <2>2. \A some \in loads' : some.id # pageRequest'
    BY <1>3, <2>1 DEF PagerOK
  <2>3. PagerOK'
    BY <2>1, <2>2 DEF PagerOK
  <2>4. LoadInv'
    BY <2>2 DEF LoadInv, Current
  <2>5. Accounted'
    <3>1. /\ Last(page.items) \in 0 .. MaxEvents /\ Last(l.page.items) \in 0 .. MaxEvents
          /\ Last(items) \in 0 .. MaxEvents /\ noticed \in Nat
      BY <1>3, Ends, Constants DEF ScreenOK
    <3>2. Last(page.items) <= Last(items) /\ Last(l.page.items) <= Last(items)
      BY <1>3, <1>4, LastGrows DEF ScreenOK
    <3>3. CASE noticed <= Last(page.items)
      <4>1. noticed <= Last(items)
        BY <3>1, <3>2, <3>3, Constants
      <4> QED BY <1>4, <4>1 DEF Accounted
    <3>4. CASE unseen /\ ~bottom /\ page.items # {}
      <4>1. unseen' /\ ~bottom' /\ page'.items # {}
        BY <1>2, <1>4, <3>4
      <4> QED BY <4>1 DEF Accounted
    <3>5. CASE \E some \in loads : Shows(some)
      <4>1. Shows(l)
        BY <1>3, <3>5 DEF Shows, Current, PagerOK
      <4>2. noticed <= Last(l.page.items)
        BY <4>1 DEF Shows
      <4>3. noticed <= Last(items)
        BY <3>1, <3>2, <4>2, Constants
      <4> QED BY <1>4, <4>3 DEF Accounted
    <3>6. CASE err \/ busy \/ room \in sends
      BY <1>2, <3>6 DEF Accounted
    <3>7. CASE early
      BY <1>2, <2>1, <3>7 DEF Accounted
    <3> QED BY <1>9, <3>3, <3>4, <3>5, <3>6, <3>7 DEF NoticedInv, Accounted
  <2>6. NoticedInv'
    BY <2>5 DEF NoticedInv
  <2> QED BY <1>1, <1>6, <1>7, <2>3, <2>4, <2>6
<1> QED BY <1>8, <1>9

\* A result that is out of date changes nothing, an error is shown.
LEMMA PageResultKeeps ==
    ASSUME TerminalInv, NEW l \in loads, PageResult(l)
    PROVE  TerminalInv'
<1> USE DEF TerminalInv, TypesInv
<1>0. /\ UNCHANGED <<head, member, queue, operation, busy, operations, sends>>
      /\ l.page.read
  BY DEF PageResult, client, tasks
<1>1. ClientOK' /\ TasksOK'
  BY <1>0 DEF ClientOK, TasksOK
<1>2. CASE /\ ~Current(l)
           /\ loads' = loads \ {l}
           /\ UNCHANGED <<screenVars, pageLoading, pageDirty, pageRequest>>
  <2>0. UNCHANGED <<screen, room, bottom, err, page, unseen, noticed, early, pageLoading,
                    pageDirty, pageRequest>>
    BY <1>2 DEF screenVars
  <2>1. l.id # pageRequest
    BY <1>2 DEF LoadInv, Current
  <2>2. PagerOK'
    BY <1>2, <2>0, <2>1 DEF PagerOK
  <2>3. ScreenOK' /\ LeaveInv' /\ PageInv'
    BY <1>0, <2>0 DEF ScreenOK, LeaveInv, PageInv, Steady
  <2>4. LoadInv'
    BY <1>0, <1>2, <2>0 DEF LoadInv, Current, Steady
  <2>5. NoticedInv'
    BY <1>0, <1>2, <2>0 DEF NoticedInv, Accounted, Shows, Current
  <2> QED BY <1>1, <2>2, <2>3, <2>4, <2>5
<1>3. CASE /\ Current(l)
           /\ loads' = loads \ {l}
           /\ pageLoading' = FALSE /\ err' = TRUE
           /\ UNCHANGED <<screen, room, bottom, page, unseen, noticed, early, pageDirty,
                         pageRequest>>
  <2>1. \A some \in loads' : some.id # pageRequest'
    BY <1>3 DEF PagerOK, Current
  <2>2. PagerOK'
    BY <1>3, <2>1 DEF PagerOK
  <2>3. ScreenOK' /\ LeaveInv' /\ PageInv'
    BY <1>0, <1>3 DEF ScreenOK, LeaveInv, PageInv, Steady
  <2>4. LoadInv'
    BY <2>1 DEF LoadInv, Current
  <2>5. NoticedInv'
    BY <1>0, <1>3 DEF NoticedInv, Accounted
  <2> QED BY <1>1, <2>2, <2>3, <2>4, <2>5
<1>4. CASE Current(l) /\ Merges(l) /\ Reloads(l) /\ UNCHANGED <<screen, room, noticed, early>>
  BY <1>0, <1>4, ResultIsMerged
<1> QED BY <1>2, <1>3, <1>4 DEF PageResult

\* A step that changes nothing.
LEMMA StutterKeeps ==
    ASSUME TerminalInv, UNCHANGED vars
    PROVE  TerminalInv'
<1>1. UNCHANGED <<head, member, queue, screen, room, bottom, err, page, unseen, noticed, early,
                  pageLoading, pageDirty, pageRequest, loads, operation, busy, operations, sends>>
  BY DEF vars, client, screenVars, pager, tasks
<1>2. TypesInv' /\ LeaveInv'
  BY <1>1 DEF TerminalInv, TypesInv, ClientOK, ScreenOK, PagerOK, TasksOK, LeaveInv
<1>3. PageInv' /\ LoadInv' /\ NoticedInv'
  BY <1>1 DEF TerminalInv, PageInv, LoadInv, NoticedInv, Accounted, Shows, Current, Steady
<1> QED BY <1>2, <1>3 DEF TerminalInv

-----------------------------------------------------------------------------
\* The theorems.

\* The invariant holds whatever results come late, and whichever is first.
THEOREM TerminalCorrect == Spec => []TerminalInv
<1>1. Init => TerminalInv
  BY InitKeeps
<1>2. TerminalInv /\ [Next]_vars => TerminalInv'
  <2> SUFFICES ASSUME TerminalInv, [Next]_vars PROVE TerminalInv'
    OBVIOUS
  <2>1. CASE \E r \in Rooms : Ingests(r) \/ Reconnects(r) \/ SelectsRoom(r) \/ Joins(r) \/ Sent(r)
    BY <2>1, IngestsKeeps, ReconnectsKeeps, SelectsRoomKeeps, JoinsKeeps, SentKeeps
  <2>2. CASE \E l \in loads : Reads(l) \/ PageResult(l)
    BY <2>2, ReadsKeeps, PageResultKeeps
  <2>3. CASE \E o \in operations : OperationRuns(o) \/ OperationResult(o)
    BY <2>3, OperationRunsKeeps, OperationResultKeeps
  <2>4. CASE HandlesNotification
    BY <2>4, HandlesNotificationKeeps
  <2>5. CASE Navigates \/ ConfirmsLeave
    BY <2>5, NavigatesKeeps, ConfirmsLeaveKeeps
  <2>6. CASE Scrolls \/ ShowsLatest \/ Submits
    BY <2>6, ScrollsKeeps, ShowsLatestKeeps, SubmitsKeeps
  <2>7. CASE UNCHANGED vars
    BY <2>7, StutterKeeps
  <2> QED BY <2>1, <2>2, <2>3, <2>4, <2>5, <2>6, <2>7 DEF Next
<1> QED BY <1>1, <1>2, PTL DEF Spec

\* A page is loading, and the screen busy, only as long as the command runs whose
\* result will end it.
THEOREM TerminalTypeOK == Spec => []TypeOK
<1>1. TerminalInv => TypeOK
  BY DEF TerminalInv, TypesInv, ClientOK, ScreenOK, PagerOK, TasksOK, TypeOK
<1> QED BY <1>1, TerminalCorrect, PTL

\* The history on the screen has no hole, and older events are offered exactly if
\* there are some.
THEOREM PagesAreFaithful == Spec => []PageFaithful
<1>1. TerminalInv => PageFaithful
  <2> SUFFICES ASSUME TerminalInv, screen = "room"
               PROVE  /\ \A e \in page.items : e.room = room
                      /\ page.items # {} =>
                            /\ Seqnos(page.items) =
                                  Min(Seqnos(page.items)) .. Max(Seqnos(page.items))
                            /\ page.more = (Min(Seqnos(page.items)) > 1)
    BY DEF PageFaithful
  <2> USE DEF TerminalInv, TypesInv
  <2>1. Steady
    BY DEF Steady, LeaveInv
  <2>2. Faithful(page.items, page.more, room, head[room])
    BY <2>1 DEF PageInv
  <2>3. CASE page.items = {}
    BY <2>3
  <2>4. CASE page.items # {}
    <3>1. PICK a \in 1 .. head[room], b \in 1 .. head[room] :
              a <= b /\ page.items = Run(room, a, b) /\ page.more = (a > 1)
      BY <2>2, <2>4 DEF Faithful
    <3>2. room \in Rooms /\ a \in 1 .. MaxEvents /\ b \in 1 .. MaxEvents
      BY <3>1, Constants DEF ScreenOK, ClientOK, Copies
    <3>3. /\ First(page.items) = a /\ Last(page.items) = b
          /\ Seqnos(page.items) = a .. b
          /\ \A e \in page.items : e.room = room
      BY <3>1, <3>2, RunEnds
    <3>4. Min(Seqnos(page.items)) = a /\ Max(Seqnos(page.items)) = b
      BY <2>4, <3>3 DEF First, Last
    <3> QED BY <3>1, <3>3, <3>4
  <2> QED BY <2>3, <2>4
<1> QED BY <1>1, TerminalCorrect, PTL

\* The newest event that was notified on the screen is displayed, announced, or on
\* its way.
THEOREM NoticesAreAccounted == Spec => []NoticedIsAccounted
<1>1. TerminalInv => NoticedIsAccounted
  BY DEF TerminalInv, NoticedInv, Accounted, Shows, NoticedIsAccounted
<1> QED BY <1>1, TerminalCorrect, PTL
=============================================================================
