---------------------------- MODULE MCTerminalRoom ----------------------------
(***************************************************************************)
(* A room of up to three events, read in pages of one, and an empty room.  *)
(***************************************************************************)
EXTENDS TerminalRoom, TLC
CONSTANTS r1, r2
MCRooms == {r1, r2}
MCMaxSeqno == (r1 :> 3) @@ (r2 :> 0)

\* States that differ only in what nothing reads are one: the history behind a menu
\* (it is reset before a room is shown again), what a load that is out of date asks for and
\* has read (but not whether it has), and the numbers themselves.
Seen ==
    LET shown == screen # "menu"
        awaited == {o \in operations : o.id = operation}
    IN  <<client, screen, room, bottom, err, noticed, early, busy, sends,
          shown /\ unseen, IF shown THEN page ELSE EmptyPage,
          pageLoading, pageDirty /\ pageLoading,
          {[l EXCEPT !.id = 0] : l \in {l \in loads : Current(l)}},
          Cardinality({l \in loads : ~Current(l) /\ ~l.page.read}),
          Cardinality({l \in loads : ~Current(l) /\ l.page.read}),
          {[o EXCEPT !.id = 0] : o \in awaited},
          {<<o.kind, o.room, o.done>> : o \in operations \ awaited},
          Cardinality(operations)>>
=============================================================================
