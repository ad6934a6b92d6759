------------------------------ MODULE PeerTable ------------------------------
(***************************************************************************)
(* The peers of one node: who is connected, as what, and for how long.     *)
(*                                                                         *)
(* Every connection gets a peer of its own, so a peer is known by its      *)
(* connection; the table holds one peer per ADNL id.  It is changed under  *)
(* its mutex, one operation at a time, but what surrounds an operation is  *)
(* not: a new peer is wired to its connection after it was added, the one  *)
(* it replaced is closed after it was taken out, the transport reports a   *)
(* closed connection from a goroutine of its own, and writers and queries  *)
(* of a connection that is gone still act on the table, some by id.        *)
(*                                                                         *)
(* Abstractions.  Clocks and counters: a leaf may be idle for too long at  *)
(* any time, and every failure, or query that exceeds its rate, may be the *)
(* one that makes the score of a peer too bad; health is a score, too.  A  *)
(* connection that is refused is never seen again.  The transport          *)
(* (quic.Peer) is external: it reports every closed connection once.       *)
(***************************************************************************)
EXTENDS Naturals, FiniteSets

CONSTANTS
    Ids,                \* ADNL ids of the remote peers.
    Nodes,              \* Those that advertise themselves as nodes of the room.
    MaxConns,           \* Bound: connections that are referred to at a time.
    MaxLeaves, MaxPendingPeers, MaxNodePeers, MaxKnownNodes

ASSUME PeerTableAssumption ==
    /\ IsFiniteSet(Ids) /\ Nodes \subseteq Ids
    /\ {MaxConns, MaxLeaves, MaxPendingPeers, MaxNodePeers, MaxKnownNodes} \subseteq Nat \ {0}

VARIABLES
    table,      \* peerTable.m: the peer of an id, or NoPeer.
    known,      \* peerTable.known.
    conn,       \* The connections that something refers to, or Unused.
    closing     \* Peers that were taken out of the table and are to be closed.

vars == <<table, known, conn, closing>>

Conns == 1 .. MaxConns
NoPeer == [conn |-> 0, kind |-> "leaf", member |-> FALSE]
Unused == [id |-> "none", open |-> FALSE, wired |-> "unused", callback |-> FALSE]

Peers == [conn : Conns, kind : {"leaf", "node"}, member : BOOLEAN]
Connections == [id : Ids,
                open : BOOLEAN,                     \* done is not closed.
                wired : {"no", "handler", "yes"},   \* wirePeer.
                callback : BOOLEAN]                 \* notifyDisconnect is to be called.

Live == {c \in Conns : conn[c] # Unused}
InTable(c) == table[conn[c].id].conn = c

Present == {id \in Ids : table[id] # NoPeer}
NodePeers == {id \in Present : table[id].kind = "node"}
Leaves == Present \ NodePeers
MemberLeaves == {id \in Leaves : table[id].member}
PendingLeaves == Leaves \ MemberLeaves

-----------------------------------------------------------------------------
Init ==
    /\ table = [id \in Ids |-> NoPeer]
    /\ known = {}
    /\ conn = [c \in Conns |-> Unused]
    /\ closing = {}

\* addInbound, for an id that has no peer yet.
AdmitsAnyLeaf(id) == id \in known => Cardinality(NodePeers) < MaxNodePeers
Admits(id) == IF id \in known THEN Cardinality(NodePeers) < MaxNodePeers
              ELSE Cardinality(PendingLeaves) < MaxPendingPeers

\* onInbound: a new connection.  It replaces the one of a leaf, and is closed if
\* the id is already meshed as a node.
OnInbound(id, c) ==
    /\ conn[c] = Unused /\ \A d \in Conns : d < c => conn[d] # Unused
    /\ conn' = [conn EXCEPT ![c] = [id |-> id, open |-> TRUE, wired |-> "no", callback |-> FALSE]]
    /\ \/ /\ id \notin Present /\ Admits(id)
          /\ table' = [table EXCEPT ![id] = [conn |-> c, member |-> FALSE,
                                             kind |-> IF id \in known THEN "node" ELSE "leaf"]]
          /\ UNCHANGED closing
       \/ /\ id \in Leaves
          /\ table' = [table EXCEPT ![id] = [conn |-> c, kind |-> "leaf", member |-> FALSE]]
          /\ closing' = closing \cup {table[id].conn}
    /\ UNCHANGED known

\* wirePeer ends with SetDisconnectHandler: the handler is set ...
SetHandler(c) ==
    /\ conn[c].wired = "no"
    /\ conn' = [conn EXCEPT ![c].wired = "handler"]
    /\ UNCHANGED <<table, known, closing>>

\* ... removePeer takes exactly this peer out, ...
RemovePeerById(c) == table' = [table EXCEPT ![conn[c].id] = NoPeer]
RemovePeer(c) == table' = IF InTable(c) THEN [table EXCEPT ![conn[c].id] = NoPeer] ELSE table

NotifyDisconnect(c) == IF conn[c].wired = "no" THEN UNCHANGED table ELSE RemovePeer(c)

\* ... and a connection that was closed before is noticed now.  (notifyOnce: a
\* peer that was removed does not come back.)
WiredUnchecked(c) ==
    /\ conn[c].wired = "handler"
    /\ conn' = [conn EXCEPT ![c].wired = "yes"]
    /\ UNCHANGED <<table, known, closing>>
Wired(c) ==
    /\ conn[c].wired = "handler"
    /\ conn' = [conn EXCEPT ![c].wired = "yes"]
    /\ IF conn[c].open THEN UNCHANGED table ELSE NotifyDisconnect(c)
    /\ UNCHANGED <<known, closing>>

\* The transport closes the connection, and calls back.
Closed(c) == IF conn[c].open THEN conn' = [conn EXCEPT ![c].open = FALSE, ![c].callback = TRUE]
             ELSE UNCHANGED conn

ConnectionLost(c) ==
    /\ conn[c].open
    /\ Closed(c)
    /\ UNCHANGED <<table, known, closing>>

ClosePeerConnection(c) ==
    /\ c \in closing
    /\ closing' = closing \ {c}
    /\ Closed(c)
    /\ UNCHANGED <<table, known>>

Disconnected(c) ==
    /\ conn[c].callback
    /\ conn' = [conn EXCEPT ![c].callback = FALSE]
    /\ NotifyDisconnect(c)
    /\ UNCHANGED <<known, closing>>

\* The writer returns; nothing refers to the peer any more.
WriterStops(c) ==
    /\ ~conn[c].open /\ conn[c].wired = "yes" /\ ~conn[c].callback
    /\ ~InTable(c) /\ c \notin closing
    /\ conn' = [conn EXCEPT ![c] = Unused]
    /\ UNCHANGED <<table, known, closing>>

-----------------------------------------------------------------------------
MayJoin == Cardinality(MemberLeaves) < MaxLeaves

\* acceptInbound: a query or a direct message makes a leaf a member.
AcceptInbound(c) ==
    /\ InTable(c) /\ conn[c].id \in PendingLeaves
    /\ MayJoin
    /\ table' = [table EXCEPT ![conn[c].id].member = TRUE]
    /\ UNCHANGED <<known, conn, closing>>

Evict(id) == /\ id \in Present
             /\ table' = [table EXCEPT ![id] = NoPeer]
             /\ closing' = closing \cup {table[id].conn}

\* peerFailure: a keepalive, a probe or a write on c failed, and scorePeer: a
\* query of c exceeded its rate.  It is held against the peer that has the id now.
PeerFailure(c) == Evict(conn[c].id) /\ UNCHANGED <<known, conn>>

\* enqueue to a peer whose queue is full.
QueueFull(c) ==
    /\ RemovePeer(c)
    /\ closing' = closing \cup {c}
    /\ UNCHANGED <<known, conn>>

\* evictStale.
EvictStale(id) ==
    /\ id \in Leaves
    /\ Evict(id)
    /\ UNCHANGED <<known, conn>>

-----------------------------------------------------------------------------
\* markKnownLocked forgets the oldest id.
MarkKnownUnbounded(id) == known' = known \cup {id}
MarkKnown(id) ==
    IF id \in known \/ Cardinality(known) < MaxKnownNodes THEN known' = known \cup {id}
    ELSE \E oldest \in known : known' = (known \ {oldest}) \cup {id}

\* A signed entry of a node: considerNode, and setSigned if it is connected.
MayMesh == Cardinality(NodePeers) < MaxNodePeers
ConsiderNode(id) ==
    /\ MarkKnown(id)
    /\ table' = IF id \in NodePeers \/ (id \in Present /\ MayMesh)
                THEN [table EXCEPT ![id].kind = "node", ![id].member = FALSE]
                ELSE table
    /\ UNCHANGED <<conn, closing>>

Transport(c) ==
    SetHandler(c) \/ Wired(c) \/ ClosePeerConnection(c) \/ Disconnected(c) \/ WriterStops(c)

Next ==
    \/ \E id \in Ids, c \in Conns : OnInbound(id, c)
    \/ \E c \in Live : \/ Transport(c) \/ ConnectionLost(c)
                       \/ AcceptInbound(c) \/ PeerFailure(c) \/ QueueFull(c)
    \/ \E id \in Ids : EvictStale(id)
    \/ \E id \in Nodes : ConsiderNode(id)

Spec == Init /\ [][Next]_vars

-----------------------------------------------------------------------------
TypeOK ==
    /\ table \in [Ids -> Peers \cup {NoPeer}]
    /\ known \in SUBSET Nodes /\ Cardinality(known) <= MaxKnownNodes
    /\ conn \in [Conns -> Connections \cup {Unused}]
    /\ closing \in SUBSET Conns

\* The limits of the status page hold.  A leaf that reconnects may exceed the
\* limit of pending peers, but only in the place it had as a member: leaves,
\* pending or not, never exceed the sum of their two limits.
Capacity ==
    /\ Cardinality(MemberLeaves) <= MaxLeaves
    /\ Cardinality(Leaves) <= MaxLeaves + MaxPendingPeers
    /\ Cardinality(NodePeers) <= MaxNodePeers

\* The table refers to a peer of that id, and no peer is left open outside it:
\* it is in the table, or about to be closed.
NoLeak ==
    /\ \A id \in Present : table[id].conn \in Live /\ conn[table[id].conn].id = id
    /\ \A c \in Live : conn[c].open => InTable(c) \/ c \in closing

\* A peer whose connection is gone does not stay in the table: its removal is due,
\* whenever it was closed while it was being wired.
DeadPeersLeave ==
    \A c \in Live : (InTable(c) /\ ~conn[c].open) => conn[c].callback \/ conn[c].wired # "yes"

=============================================================================
