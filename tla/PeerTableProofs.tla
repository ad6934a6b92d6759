---------------------------- MODULE PeerTableProofs ----------------------------
(***************************************************************************)
(* Theorems about the peers of a node, for every finite set of remote      *)
(* peers, every limit, and every number of connections.                    *)
(***************************************************************************)
EXTENDS PeerTable, FiniteSetTheorems, TLAPS

\* No callback is due for a connection that is open.
CallbackInv == \A c \in Live : conn[c].callback => ~conn[c].open

TableInv == TypeOK /\ Capacity /\ NoLeak /\ DeadPeersLeave /\ CallbackInv

-----------------------------------------------------------------------------
\* The table and the connections.

\* What the constants and the two empty records are.
LEMMA Types ==
    /\ IsFiniteSet(Ids) /\ Nodes \subseteq Ids
    /\ MaxConns \in Nat /\ MaxLeaves \in Nat /\ MaxPendingPeers \in Nat
    /\ MaxNodePeers \in Nat /\ MaxKnownNodes \in Nat /\ MaxKnownNodes >= 1
    /\ \A c \in Conns : c # 0
    /\ NoPeer.conn = 0 /\ \A peer \in Peers : peer # NoPeer
    /\ Unused.wired = "unused" /\ \A connection \in Connections : connection # Unused
<1>1. \A c \in Conns : c # 0
  BY PeerTableAssumption DEF Conns
<1>2. NoPeer.conn = 0 /\ \A peer \in Peers : peer # NoPeer
  BY <1>1 DEF NoPeer, Peers
<1>3. Unused.wired = "unused" /\ \A connection \in Connections : connection # Unused
  BY DEF Unused, Connections
<1> QED BY <1>1, <1>2, <1>3, PeerTableAssumption

\* A connection that something refers to.
LEMMA LiveTypes ==
    ASSUME TypeOK, NEW c \in Live
    PROVE  c \in Conns /\ c # 0 /\ conn[c] \in Connections /\ conn[c].id \in Ids
BY Types DEF TypeOK, Live, Connections

\* The ids that are present, with their peers.
LEMMA PresentTypes ==
    ASSUME TypeOK, NEW id \in Present
    PROVE  id \in Ids /\ table[id] \in Peers /\ table[id].conn \in Conns
BY DEF TypeOK, Present, Peers

\* The numbers of peers of each kind.
LEMMA Counts ==
    ASSUME TypeOK
    PROVE  /\ \A S \in {NodePeers, Leaves, MemberLeaves, PendingLeaves, known} :
                 IsFiniteSet(S) /\ Cardinality(S) \in Nat
           /\ Cardinality(Leaves) = Cardinality(MemberLeaves) + Cardinality(PendingLeaves)
<1>1. /\ NodePeers \in SUBSET Ids /\ Leaves \in SUBSET Ids /\ MemberLeaves \in SUBSET Ids
      /\ PendingLeaves \in SUBSET Ids /\ known \in SUBSET Ids
  BY Types DEF NodePeers, Leaves, MemberLeaves, PendingLeaves, Present, TypeOK
<1>2. \A S \in SUBSET Ids : IsFiniteSet(S) /\ Cardinality(S) \in Nat
  BY Types, FS_Subset, FS_CardinalityType
<1>3. PendingLeaves = Leaves \ MemberLeaves /\ Leaves \cap MemberLeaves = MemberLeaves
  BY DEF PendingLeaves, MemberLeaves
<1>4. Cardinality(PendingLeaves) = Cardinality(Leaves) - Cardinality(MemberLeaves)
  BY <1>1, <1>2, <1>3, FS_Difference
<1> QED BY <1>1, <1>2, <1>4

\* One element more, or less.
LEMMA Grown ==
    ASSUME NEW S, IsFiniteSet(S), NEW x
    PROVE  /\ Cardinality(S) \in Nat
           /\ Cardinality(S \cup {x}) \in Nat /\ Cardinality(S \cup {x}) <= Cardinality(S) + 1
           /\ x \in S => Cardinality(S \cup {x}) = Cardinality(S)
           /\ Cardinality(S \ {x}) \in Nat /\ Cardinality(S \ {x}) <= Cardinality(S)
<1>1. Cardinality(S) \in Nat
  BY FS_CardinalityType
<1>2. Cardinality(S \cup {x}) = IF x \in S THEN Cardinality(S) ELSE Cardinality(S) + 1
  BY FS_AddElement
<1>3. IsFiniteSet(S \ {x}) /\ Cardinality(S \ {x}) = IF x \in S THEN Cardinality(S) - 1 ELSE Cardinality(S)
  BY FS_RemoveElement
<1>4. Cardinality(S \ {x}) \in Nat
  BY <1>3, FS_CardinalityType
<1> QED BY <1>1, <1>2, <1>3, <1>4

\* An id is given another peer, or none.
LEMMA EditedSets ==
    ASSUME TypeOK, NEW id \in Ids, NEW peer \in Peers \cup {NoPeer},
           table' = [table EXCEPT ![id] = peer]
    PROVE  /\ NodePeers' = IF peer # NoPeer /\ peer.kind = "node"
                           THEN NodePeers \cup {id} ELSE NodePeers \ {id}
           /\ Leaves' = IF peer # NoPeer /\ peer.kind # "node"
                        THEN Leaves \cup {id} ELSE Leaves \ {id}
           /\ MemberLeaves' = IF peer # NoPeer /\ peer.kind # "node" /\ peer.member
                              THEN MemberLeaves \cup {id} ELSE MemberLeaves \ {id}
<1>1. \A q \in Ids : table'[q] = IF q = id THEN peer ELSE table[q]
  BY DEF TypeOK
<1>2. \A q : q \in NodePeers <=> q \in Ids /\ table[q] # NoPeer /\ table[q].kind = "node"
  BY DEF NodePeers, Present
<1>3. \A q : q \in NodePeers' <=> q \in Ids /\ table'[q] # NoPeer /\ table'[q].kind = "node"
  BY DEF NodePeers, Present
<1>4. \A q : q \in Leaves <=> q \in Ids /\ table[q] # NoPeer /\ table[q].kind # "node"
  BY DEF NodePeers, Present, Leaves
<1>5. \A q : q \in Leaves' <=> q \in Ids /\ table'[q] # NoPeer /\ table'[q].kind # "node"
  BY DEF NodePeers, Present, Leaves
<1>6. \A q : q \in MemberLeaves <=> q \in Leaves /\ table[q].member
  BY DEF MemberLeaves
<1>7. \A q : q \in MemberLeaves' <=> q \in Leaves' /\ table'[q].member
  BY DEF MemberLeaves
<1>8. NodePeers' = IF peer # NoPeer /\ peer.kind = "node"
                   THEN NodePeers \cup {id} ELSE NodePeers \ {id}
  BY <1>1, <1>2, <1>3
<1>9. Leaves' = IF peer # NoPeer /\ peer.kind # "node"
                THEN Leaves \cup {id} ELSE Leaves \ {id}
  BY <1>1, <1>4, <1>5
<1>10. MemberLeaves' = IF peer # NoPeer /\ peer.kind # "node" /\ peer.member
                       THEN MemberLeaves \cup {id} ELSE MemberLeaves \ {id}
  BY <1>1, <1>4, <1>5, <1>6, <1>7
<1> QED BY <1>8, <1>9, <1>10

\* The limits hold if a peer is added to a kind only where its limit leaves room.
LEMMA CapacityKept ==
    ASSUME TypeOK, Capacity, NEW id \in Ids, NEW peer \in Peers \cup {NoPeer},
           table' = [table EXCEPT ![id] = peer],
           peer # NoPeer => IF peer.kind = "node"
                            THEN id \in NodePeers \/ MayMesh
                            ELSE /\ id \in Leaves \/ Cardinality(PendingLeaves) < MaxPendingPeers
                                 /\ peer.member => MayJoin
    PROVE  Capacity'
<1>1. /\ Cardinality(NodePeers) \in Nat /\ Cardinality(Leaves) \in Nat
      /\ Cardinality(MemberLeaves) \in Nat /\ Cardinality(PendingLeaves) \in Nat
      /\ IsFiniteSet(NodePeers) /\ IsFiniteSet(Leaves) /\ IsFiniteSet(MemberLeaves)
      /\ Cardinality(Leaves) = Cardinality(MemberLeaves) + Cardinality(PendingLeaves)
  BY Counts
<1>2. /\ MaxLeaves \in Nat /\ MaxPendingPeers \in Nat /\ MaxNodePeers \in Nat
      /\ Cardinality(MemberLeaves) <= MaxLeaves
      /\ Cardinality(Leaves) <= MaxLeaves + MaxPendingPeers
      /\ Cardinality(NodePeers) <= MaxNodePeers
  BY Types DEF Capacity
<1>6. \A S \in {NodePeers, Leaves, MemberLeaves} :
         /\ Cardinality(S \cup {id}) \in Nat /\ Cardinality(S \cup {id}) <= Cardinality(S) + 1
         /\ id \in S => Cardinality(S \cup {id}) = Cardinality(S)
         /\ Cardinality(S \ {id}) \in Nat /\ Cardinality(S \ {id}) <= Cardinality(S)
  BY <1>1, Grown
<1>3. Cardinality(NodePeers') <= MaxNodePeers
  <2>1. CASE peer # NoPeer /\ peer.kind = "node"
    <3>1. NodePeers' = NodePeers \cup {id} /\ (id \in NodePeers \/ MayMesh)
      BY <2>1, EditedSets
    <3>2. Cardinality(NodePeers \cup {id}) <= MaxNodePeers
      BY <1>1, <1>2, <3>1, <1>6 DEF MayMesh
    <3> QED BY <3>1, <3>2
  <2>2. CASE ~(peer # NoPeer /\ peer.kind = "node")
    <3>1. NodePeers' = NodePeers \ {id}
      BY <2>2, EditedSets
    <3>2. Cardinality(NodePeers \ {id}) <= MaxNodePeers
      BY <1>1, <1>2, <1>6
    <3> QED BY <3>1, <3>2
  <2> QED BY <2>1, <2>2
<1>4. Cardinality(MemberLeaves') <= MaxLeaves
  <2>1. CASE peer # NoPeer /\ peer.kind # "node" /\ peer.member
    <3>1. MemberLeaves' = MemberLeaves \cup {id} /\ MayJoin
      BY <2>1, EditedSets
    <3>2. Cardinality(MemberLeaves \cup {id}) <= MaxLeaves
      BY <1>1, <1>2, <3>1, <1>6 DEF MayJoin
    <3> QED BY <3>1, <3>2
  <2>2. CASE ~(peer # NoPeer /\ peer.kind # "node" /\ peer.member)
    <3>1. MemberLeaves' = MemberLeaves \ {id}
      BY <2>2, EditedSets
    <3>2. Cardinality(MemberLeaves \ {id}) <= MaxLeaves
      BY <1>1, <1>2, <1>6
    <3> QED BY <3>1, <3>2
  <2> QED BY <2>1, <2>2
<1>5. Cardinality(Leaves') <= MaxLeaves + MaxPendingPeers
  <2>1. CASE peer # NoPeer /\ peer.kind # "node"
    <3>1. /\ Leaves' = Leaves \cup {id}
          /\ id \in Leaves \/ Cardinality(PendingLeaves) < MaxPendingPeers
      BY <2>1, EditedSets
    <3>2. Cardinality(Leaves \cup {id}) <= MaxLeaves + MaxPendingPeers
      BY <1>1, <1>2, <3>1, <1>6
    <3> QED BY <3>1, <3>2
  <2>2. CASE ~(peer # NoPeer /\ peer.kind # "node")
    <3>1. Leaves' = Leaves \ {id}
      BY <2>2, EditedSets
    <3>2. Cardinality(Leaves \ {id}) <= MaxLeaves + MaxPendingPeers
      BY <1>1, <1>2, <1>6
    <3> QED BY <3>1, <3>2
  <2> QED BY <2>1, <2>2
<1> QED BY <1>3, <1>4, <1>5 DEF Capacity

-----------------------------------------------------------------------------
\* The steps of a connection.

\* An empty table has room for everyone.
LEMMA InitInv == Init => TableInv
<1> SUFFICES ASSUME Init PROVE TableInv
  OBVIOUS
<1>1. /\ table = [id \in Ids |-> NoPeer] /\ known = {}
      /\ conn = [c \in Conns |-> Unused] /\ closing = {}
  BY DEF Init
<1>2. Present = {} /\ Live = {}
  BY <1>1 DEF Present, Live
<1>3. NodePeers = {} /\ Leaves = {} /\ MemberLeaves = {}
  BY <1>2 DEF NodePeers, Leaves, MemberLeaves
<1>4. Cardinality({}) = 0
  BY FS_EmptySet
<1>5. TypeOK
  BY <1>1, <1>4, Types DEF TypeOK
<1>6. Capacity
  BY <1>3, <1>4, Types DEF Capacity
<1> QED BY <1>2, <1>5, <1>6 DEF TableInv, NoLeak, DeadPeersLeave, CallbackInv

\* The limits depend on the table only.
LEMMA CapacityUntouched ==
    ASSUME Capacity, UNCHANGED table
    PROVE  Capacity'
BY DEF Capacity, NodePeers, Leaves, MemberLeaves, Present

\* A connection that is being wired, or is closed: it may not come loose from the table
\* unnoticed.
LEMMA ConnectionChanges ==
    ASSUME TableInv, NEW c \in Live, UNCHANGED <<table, known>>,
           NEW new \in Connections, conn' = [conn EXCEPT ![c] = new],
           new.id = conn[c].id, closing' \in SUBSET Conns, closing \ {c} \subseteq closing',
           new.open => conn[c].open /\ (c \in closing => c \in closing'),
           new.callback => ~new.open,
           InTable(c) /\ ~new.open => new.callback \/ new.wired # "yes"
    PROVE  TableInv'
<1> USE DEF TableInv
<1>1. /\ c \in Conns /\ conn[c] \in Connections /\ conn \in [Conns -> Connections \cup {Unused}]
      /\ new # Unused
  BY Types, LiveTypes DEF TypeOK
<1>2. conn'[c] = new /\ \A d \in Conns \ {c} : conn'[d] = conn[d]
  BY <1>1
<1>3. Live' = Live
  BY <1>1, <1>2 DEF Live
<1>4. \A d \in Live : conn'[d].id = conn[d].id /\ (InTable(d)' <=> InTable(d))
  BY <1>1, <1>2 DEF Live, InTable
<1>5. TypeOK'
  BY <1>1 DEF TypeOK
<1>6. Capacity'
  BY CapacityUntouched
<1>7. NoLeak'
  <2>1. Present' = Present
    BY DEF Present
  <2>2. ASSUME NEW id \in Present' PROVE table'[id].conn \in Live' /\ conn'[table'[id].conn].id = id
    BY <1>3, <1>4, <2>1 DEF NoLeak
  <2>3. ASSUME NEW d \in Live', conn'[d].open PROVE InTable(d)' \/ d \in closing'
    <3>1. d \in Live /\ conn[d].open /\ d \in Conns
      BY <1>2, <1>3, <2>3 DEF Live
    <3>2. InTable(d) \/ d \in closing
      BY <3>1 DEF NoLeak
    <3>3. d \in closing => d \in closing'
      BY <1>2, <2>3
    <3> QED BY <1>4, <3>1, <3>2, <3>3
  <2> QED BY <2>2, <2>3 DEF NoLeak
<1>8. DeadPeersLeave'
  <2>1. ASSUME NEW d \in Live', InTable(d)', ~conn'[d].open
        PROVE  conn'[d].callback \/ conn'[d].wired # "yes"
    BY <1>2, <1>3, <1>4, <2>1 DEF DeadPeersLeave, Live
  <2> QED BY <2>1 DEF DeadPeersLeave
<1>9. CallbackInv'
  BY <1>2, <1>3 DEF CallbackInv, Live
<1> QED BY <1>5, <1>6, <1>7, <1>8, <1>9

\* The handler is set, or the connection is lost or closed.
LEMMA TransportSteps ==
    ASSUME TableInv, NEW c \in Live, SetHandler(c) \/ ConnectionLost(c) \/ ClosePeerConnection(c)
    PROVE  TableInv'
<1> USE DEF TableInv
<1>1. c \in Conns /\ conn[c] \in Connections /\ conn \in [Conns -> Connections \cup {Unused}]
  BY LiveTypes DEF TypeOK
<1>2. closing \in SUBSET Conns /\ UNCHANGED <<table, known>>
  BY DEF TypeOK, SetHandler, ConnectionLost, ClosePeerConnection
<1>3. CASE SetHandler(c)
  <2> DEFINE new == [conn[c] EXCEPT !.wired = "handler"]
  <2>1. new \in Connections /\ new.id = conn[c].id /\ new.open = conn[c].open
        /\ new.callback = conn[c].callback /\ new.wired = "handler"
    BY <1>1 DEF Connections
  <2>2. conn' = [conn EXCEPT ![c] = new] /\ closing' = closing
    BY <1>3 DEF SetHandler
  <2> HIDE DEF new
  <2> QED BY <1>2, <2>1, <2>2, ConnectionChanges DEF CallbackInv
<1>4. CASE conn[c].open /\ (ConnectionLost(c) \/ ClosePeerConnection(c))
  <2> DEFINE new == [conn[c] EXCEPT !.open = FALSE, !.callback = TRUE]
  <2>1. new \in Connections /\ new.id = conn[c].id /\ ~new.open /\ new.callback
    BY <1>1 DEF Connections
  <2>2. conn' = [conn EXCEPT ![c] = new] /\ closing' \in {closing, closing \ {c}}
    BY <1>4 DEF ConnectionLost, ClosePeerConnection, Closed
  <2> HIDE DEF new
  <2> QED BY <1>2, <2>1, <2>2, ConnectionChanges
<1>5. CASE ~conn[c].open /\ ClosePeerConnection(c)
  <2>1. conn' = [conn EXCEPT ![c] = conn[c]] /\ closing' = closing \ {c}
    BY <1>1, <1>5 DEF ClosePeerConnection, Closed
  <2> QED BY <1>1, <1>2, <1>5, <2>1, ConnectionChanges DEF CallbackInv, DeadPeersLeave
<1> QED BY <1>3, <1>4, <1>5 DEF ConnectionLost

\* A peer leaves the table: its connection is closed, or will be.
LEMMA PeerLeaves ==
    ASSUME TableInv, NEW id \in Present, NEW c \in Conns, c = table[id].conn,
           table' = [table EXCEPT ![id] = NoPeer],
           NEW new \in Connections, conn' = [conn EXCEPT ![c] = new], new.id = conn[c].id,
           new.open => conn[c].open, new.callback => ~new.open,
           closing' \in SUBSET Conns, closing \subseteq closing', new.open => c \in closing',
           UNCHANGED known
    PROVE  TableInv'
<1> USE DEF TableInv
<1>1. /\ id \in Ids /\ conn \in [Conns -> Connections \cup {Unused}] /\ new # Unused
      /\ table \in [Ids -> Peers \cup {NoPeer}] /\ c \in Live /\ conn[c].id = id
  BY Types, PresentTypes DEF TypeOK, NoLeak
<1>2. conn'[c] = new /\ \A d \in Conns \ {c} : conn'[d] = conn[d]
  BY <1>1
<1>3. table'[id] = NoPeer /\ \A q \in Ids \ {id} : table'[q] = table[q]
  BY <1>1
<1>4. Live' = Live /\ Present' = Present \ {id}
  BY <1>1, <1>2, <1>3 DEF Live, Present
<1>5. \A d \in Live : /\ conn'[d].id = conn[d].id /\ conn[d].id \in Ids /\ d \in Conns
                      /\ InTable(d)' => InTable(d) /\ conn[d].id # id
                      /\ InTable(d) => InTable(d)' \/ d = c
  <2> SUFFICES ASSUME NEW d \in Live
               PROVE  /\ conn'[d].id = conn[d].id /\ conn[d].id \in Ids /\ d \in Conns
                      /\ InTable(d)' => InTable(d) /\ conn[d].id # id
                      /\ InTable(d) => InTable(d)' \/ d = c
    OBVIOUS
  <2>1. conn'[d].id = conn[d].id /\ conn[d].id \in Ids /\ d \in Conns /\ d # 0
    BY <1>2, LiveTypes
  <2>2. InTable(d)' => conn[d].id # id
    BY <1>3, <2>1, Types DEF InTable
  <2> QED BY <1>3, <2>1, <2>2 DEF InTable
<1>6. TypeOK'
  BY <1>1 DEF TypeOK
<1>7. Capacity'
  BY <1>1, CapacityKept
<1>8. NoLeak'
  <2>1. ASSUME NEW q \in Present' PROVE table'[q].conn \in Live' /\ conn'[table'[q].conn].id = q
    <3>1. q \in Present /\ q # id /\ q \in Ids /\ table'[q] = table[q]
      BY <1>3, <1>4 DEF Present
    <3> QED BY <1>4, <1>5, <3>1 DEF NoLeak
  <2>2. ASSUME NEW d \in Live', conn'[d].open PROVE InTable(d)' \/ d \in closing'
    <3>1. d \in Live /\ conn[d].open /\ d \in Conns
      BY <1>2, <1>4, <2>2 DEF Live
    <3>2. InTable(d) \/ d \in closing
      BY <3>1 DEF NoLeak
    <3> QED BY <1>2, <1>5, <2>2, <3>1, <3>2
  <2> QED BY <2>1, <2>2 DEF NoLeak
<1>9. DeadPeersLeave'
  <2>1. ASSUME NEW d \in Live', InTable(d)', ~conn'[d].open
        PROVE  conn'[d].callback \/ conn'[d].wired # "yes"
    <3>1. d \in Live /\ InTable(d) /\ d # c
      BY <1>1, <1>4, <1>5, <2>1
    <3> QED BY <1>2, <1>5, <2>1, <3>1 DEF DeadPeersLeave
  <2> QED BY <2>1 DEF DeadPeersLeave
<1>10. CallbackInv'
  BY <1>2, <1>4 DEF CallbackInv, Live
<1> QED BY <1>6, <1>7, <1>8, <1>9, <1>10

\* The node learns that the connection of a peer is gone.
LEMMA RemovalSteps ==
    ASSUME TableInv, NEW c \in Live, Wired(c) \/ Disconnected(c)
    PROVE  TableInv'
<1> USE DEF TableInv
<1>1. /\ c \in Conns /\ c # 0 /\ conn[c] \in Connections /\ conn[c].id \in Ids
      /\ closing \in SUBSET Conns
  BY LiveTypes DEF TypeOK
<1>2. UNCHANGED <<known, closing>>
  BY DEF Wired, Disconnected
<1>3. PICK new \in Connections :
        /\ conn' = [conn EXCEPT ![c] = new] /\ new.id = conn[c].id /\ new.open = conn[c].open
        /\ new.callback => conn[c].callback
        /\ \/ conn[c].open /\ UNCHANGED table
           \/ conn[c].wired = "no" /\ new.wired = "no" /\ UNCHANGED table
           \/ ~conn[c].open /\ RemovePeer(c)
  <2>1. CASE Wired(c)
    <3> DEFINE new == [conn[c] EXCEPT !.wired = "yes"]
    <3>1. new \in Connections /\ new.id = conn[c].id /\ new.open = conn[c].open
          /\ new.callback = conn[c].callback
      BY <1>1 DEF Connections
    <3> HIDE DEF new
    <3> QED BY <2>1, <3>1 DEF Wired, NotifyDisconnect, new
  <2>2. CASE Disconnected(c)
    <3> DEFINE new == [conn[c] EXCEPT !.callback = FALSE]
    <3>1. new \in Connections /\ new.id = conn[c].id /\ new.open = conn[c].open
          /\ ~new.callback /\ new.wired = conn[c].wired
      BY <1>1 DEF Connections
    <3>2. ~conn[c].open
      BY <2>2 DEF Disconnected, CallbackInv
    <3>3. conn' = [conn EXCEPT ![c] = new]
      BY <2>2 DEF Disconnected
    <3> HIDE DEF new
    <3> QED BY <2>2, <3>1, <3>2, <3>3 DEF Disconnected, NotifyDisconnect
  <2> QED BY <2>1, <2>2
<1>4. CASE conn[c].open /\ UNCHANGED table
  BY <1>1, <1>2, <1>3, <1>4, ConnectionChanges DEF CallbackInv
<1>5. CASE conn[c].wired = "no" /\ new.wired = "no" /\ UNCHANGED table
  BY <1>1, <1>2, <1>3, <1>5, ConnectionChanges DEF CallbackInv
<1>6. CASE ~conn[c].open /\ RemovePeer(c) /\ ~InTable(c)
  <2>1. UNCHANGED table
    BY <1>6 DEF RemovePeer
  <2> QED BY <1>1, <1>2, <1>3, <1>6, <2>1, ConnectionChanges
<1>7. CASE ~conn[c].open /\ RemovePeer(c) /\ InTable(c)
  <2>1. table' = [table EXCEPT ![conn[c].id] = NoPeer]
    BY <1>7 DEF RemovePeer
  <2>2. conn[c].id \in Present /\ table[conn[c].id].conn = c
    BY <1>1, <1>7, Types DEF InTable, Present
  <2> QED BY <1>1, <1>2, <1>3, <1>7, <2>1, <2>2, PeerLeaves
<1> QED BY <1>3, <1>4, <1>5, <1>6, <1>7

\* A peer is taken out of the table and is to be closed.
LEMMA EvictSteps ==
    ASSUME TableInv,
           \/ \E c \in Live : PeerFailure(c) \/ QueueFull(c)
           \/ \E id \in Ids : EvictStale(id)
    PROVE  TableInv'
<1> USE DEF TableInv
<1>1. conn \in [Conns -> Connections \cup {Unused}] /\ closing \in SUBSET Conns
  BY DEF TypeOK
<1>2. ASSUME NEW id \in Present, table' = [table EXCEPT ![id] = NoPeer],
             closing' = closing \cup {table[id].conn}, UNCHANGED <<known, conn>>
      PROVE  TableInv'
  <2> DEFINE c == table[id].conn
  <2>1. c \in Live /\ c \in Conns /\ conn[c] \in Connections
    BY LiveTypes DEF NoLeak
  <2>2. conn' = [conn EXCEPT ![c] = conn[c]]
    BY <1>1, <1>2
  <2> HIDE DEF c
  <2>3. c = table[id].conn /\ closing' = closing \cup {c}
    BY <1>2 DEF c
  <2> QED BY <1>1, <1>2, <2>1, <2>2, <2>3, PeerLeaves DEF CallbackInv
<1>3. CASE \E c \in Live : PeerFailure(c)
  BY <1>2, <1>3 DEF PeerFailure, Evict
<1>4. CASE \E id \in Ids : EvictStale(id)
  BY <1>2, <1>4 DEF EvictStale, Evict
<1>5. ASSUME NEW c \in Live, QueueFull(c) PROVE TableInv'
  <2>1. /\ c \in Conns /\ c # 0 /\ conn[c] \in Connections /\ conn[c].id \in Ids
        /\ closing' = closing \cup {c} /\ UNCHANGED <<known, conn>> /\ RemovePeer(c)
    BY <1>5, LiveTypes DEF QueueFull
  <2>2. CASE InTable(c)
    <3>1. conn[c].id \in Present /\ table[conn[c].id].conn = c
      BY <2>1, <2>2, Types DEF InTable, Present
    <3> QED BY <1>2, <2>1, <2>2, <3>1 DEF RemovePeer
  <2>3. CASE ~InTable(c)
    <3>1. UNCHANGED table /\ conn' = [conn EXCEPT ![c] = conn[c]]
      BY <1>1, <2>1, <2>3 DEF RemovePeer
    <3> QED BY <1>1, <2>1, <2>3, <3>1, ConnectionChanges DEF CallbackInv
  <2> QED BY <2>2, <2>3
<1> QED BY <1>3, <1>4, <1>5

\* Nothing refers to a connection any more.
LEMMA StopSteps ==
    ASSUME TableInv, NEW c \in Live, WriterStops(c)
    PROVE  TableInv'
<1> USE DEF TableInv
<1>1. /\ UNCHANGED <<table, known, closing>> /\ conn' = [conn EXCEPT ![c] = Unused]
      /\ ~InTable(c) /\ c \in Conns /\ conn \in [Conns -> Connections \cup {Unused}]
  BY LiveTypes DEF WriterStops, TypeOK
<1>2. conn'[c] = Unused /\ \A d \in Conns \ {c} : conn'[d] = conn[d]
  BY <1>1
<1>3. Live' = Live \ {c} /\ Present' = Present
  BY <1>1, <1>2 DEF Live, Present
<1>4. \A d \in Live' : d \in Live /\ d # c /\ conn'[d] = conn[d] /\ (InTable(d)' <=> InTable(d))
  BY <1>1, <1>2, <1>3 DEF Live, InTable
<1>5. TypeOK' /\ Capacity'
  BY <1>1, CapacityUntouched DEF TypeOK
<1>6. NoLeak'
  <2>1. ASSUME NEW id \in Present' PROVE table'[id].conn \in Live' /\ conn'[table'[id].conn].id = id
    <3>1. table[id].conn \in Live /\ conn[table[id].conn].id = id
      BY <1>3 DEF NoLeak
    <3>2. table[id].conn # c
      BY <1>1, <3>1 DEF InTable
    <3> QED BY <1>1, <1>3, <1>4, <3>1, <3>2
  <2> QED BY <1>1, <1>4, <2>1 DEF NoLeak
<1>7. DeadPeersLeave' /\ CallbackInv'
  BY <1>4 DEF DeadPeersLeave, CallbackInv
<1> QED BY <1>5, <1>6, <1>7

\* A new connection is added, in the place of the one its id had, if it had one.
LEMMA ArrivalSteps ==
    ASSUME TableInv, NEW id \in Ids, NEW c \in Conns, OnInbound(id, c)
    PROVE  TableInv'
<1> USE DEF TableInv
<1> DEFINE new == [id |-> id, open |-> TRUE, wired |-> "no", callback |-> FALSE]
<1>1. /\ new \in Connections /\ new # Unused /\ new.id = id /\ new.open /\ ~new.callback
      /\ new.wired = "no"
  BY Types DEF Connections
<1>2. /\ UNCHANGED known /\ conn[c] = Unused /\ conn' = [conn EXCEPT ![c] = new]
      /\ conn \in [Conns -> Connections \cup {Unused}] /\ closing \in SUBSET Conns /\ c # 0
      /\ table \in [Ids -> Peers \cup {NoPeer}]
  BY Types DEF OnInbound, TypeOK
<1> HIDE DEF new
<1>3. PICK peer \in Peers :
        /\ table' = [table EXCEPT ![id] = peer]
        /\ peer.conn = c /\ ~peer.member
        /\ \/ id \notin Present /\ UNCHANGED closing
           \/ id \in Present /\ closing' = closing \cup {table[id].conn}
        /\ IF peer.kind = "node" THEN MayMesh
           ELSE id \in Leaves \/ Cardinality(PendingLeaves) < MaxPendingPeers
  <2>1. CASE /\ id \notin Present /\ Admits(id)
             /\ table' = [table EXCEPT ![id] = [conn |-> c, member |-> FALSE,
                                                kind |-> IF id \in known THEN "node" ELSE "leaf"]]
             /\ UNCHANGED closing
    <3> DEFINE peer == [conn |-> c, member |-> FALSE, kind |-> IF id \in known THEN "node" ELSE "leaf"]
    <3>1. peer \in Peers /\ peer.conn = c /\ ~peer.member /\ (peer.kind = "node" <=> id \in known)
      BY DEF Peers
    <3> HIDE DEF peer
    <3>2. IF peer.kind = "node" THEN MayMesh ELSE Cardinality(PendingLeaves) < MaxPendingPeers
      BY <2>1, <3>1 DEF Admits, MayMesh
    <3> QED BY <2>1, <3>1, <3>2 DEF peer
  <2>2. CASE /\ id \in Leaves
             /\ table' = [table EXCEPT ![id] = [conn |-> c, kind |-> "leaf", member |-> FALSE]]
             /\ closing' = closing \cup {table[id].conn}
    <3> DEFINE peer == [conn |-> c, kind |-> "leaf", member |-> FALSE]
    <3>1. peer \in Peers /\ peer.conn = c /\ ~peer.member /\ peer.kind = "leaf" /\ id \in Present
      BY <2>2 DEF Peers, Leaves
    <3> HIDE DEF peer
    <3> QED BY <2>2, <3>1 DEF peer
  <2> QED BY <2>1, <2>2 DEF OnInbound
<1>4. conn'[c] = new /\ \A d \in Conns \ {c} : conn'[d] = conn[d]
  BY <1>2
<1>5. table'[id] = peer /\ \A q \in Ids \ {id} : table'[q] = table[q]
  BY <1>2, <1>3
<1>6. Live' = Live \cup {c} /\ c \notin Live /\ Present' = Present \cup {id}
  BY <1>1, <1>2, <1>4, <1>5, Types DEF Live, Present
<1>7. TypeOK'
  <2>1. closing' \in SUBSET Conns
    BY <1>2, <1>3, PresentTypes
  <2> QED BY <1>1, <1>2, <1>3, <2>1 DEF TypeOK
<1>8. Capacity'
  BY <1>3, Types, CapacityKept
<1>9. \A d \in Live : /\ d # c /\ d \in Conns /\ conn[d].id \in Ids
                      /\ InTable(d)' <=> InTable(d) /\ conn[d].id # id
  <2> SUFFICES ASSUME NEW d \in Live
               PROVE  /\ d # c /\ d \in Conns /\ conn[d].id \in Ids
                      /\ InTable(d)' <=> InTable(d) /\ conn[d].id # id
    OBVIOUS
  <2>1. d # c /\ d \in Conns /\ conn[d].id \in Ids /\ conn'[d] = conn[d]
    BY <1>4, <1>6, LiveTypes
  <2> QED BY <1>3, <1>5, <2>1 DEF InTable
<1>10. InTable(c)'
  BY <1>1, <1>3, <1>4, <1>5 DEF InTable
<1>11. NoLeak'
  <2>1. ASSUME NEW q \in Present' PROVE table'[q].conn \in Live' /\ conn'[table'[q].conn].id = q
    <3>1. CASE q = id
      BY <1>1, <1>3, <1>4, <1>5, <1>6, <3>1
    <3>2. CASE q # id
      <4>1. q \in Present /\ q \in Ids /\ table'[q] = table[q]
        BY <1>5, <1>6, <3>2 DEF Present
      <4>2. table[q].conn \in Live /\ conn[table[q].conn].id = q
        BY <4>1 DEF NoLeak
      <4> QED BY <1>4, <1>6, <1>9, <4>1, <4>2
    <3> QED BY <3>1, <3>2
  <2>2. ASSUME NEW d \in Live', conn'[d].open PROVE InTable(d)' \/ d \in closing'
    <3>1. CASE d = c
      BY <1>10, <3>1
    <3>2. CASE d # c
      <4>1. d \in Live /\ conn[d].open
        BY <1>4, <1>6, <1>9, <2>2, <3>2
      <4>2. InTable(d) \/ d \in closing
        BY <4>1 DEF NoLeak
      <4>3. ASSUME InTable(d), conn[d].id = id PROVE d \in closing'
        <5>1. table[id].conn = d /\ d # 0
          BY <4>1, <4>3, LiveTypes DEF InTable
        <5>2. id \in Present
          BY <5>1, Types DEF Present
        <5> QED BY <1>3, <5>1, <5>2
      <4> QED BY <1>3, <1>9, <4>1, <4>2, <4>3
    <3> QED BY <3>1, <3>2
  <2> QED BY <2>1, <2>2 DEF NoLeak
<1>12. DeadPeersLeave'
  BY <1>1, <1>4, <1>6, <1>9 DEF DeadPeersLeave
<1>13. CallbackInv'
  BY <1>1, <1>4, <1>6, <1>9 DEF CallbackInv
<1> QED BY <1>7, <1>8, <1>11, <1>12, <1>13

-----------------------------------------------------------------------------
\* The steps of the table.

\* The known ids are nodes, and not too many: the oldest is forgotten.
LEMMA KnownIsBounded ==
    ASSUME TypeOK, NEW id \in Nodes, MarkKnown(id)
    PROVE  known' \in SUBSET Nodes /\ Cardinality(known') <= MaxKnownNodes
<1>1. /\ known \in SUBSET Nodes /\ IsFiniteSet(known) /\ Cardinality(known) \in Nat
      /\ Cardinality(known) <= MaxKnownNodes /\ MaxKnownNodes \in Nat
  BY Counts, Types DEF TypeOK
<1>2. CASE id \in known \/ Cardinality(known) < MaxKnownNodes
  <2>1. known' = known \cup {id}
    BY <1>2 DEF MarkKnown
  <2>2. Cardinality(known \cup {id}) <= MaxKnownNodes
    <3>1. /\ Cardinality(known \cup {id}) \in Nat
          /\ Cardinality(known \cup {id}) <= Cardinality(known) + 1
          /\ id \in known => Cardinality(known \cup {id}) = Cardinality(known)
      BY <1>1, Grown
    <3> QED BY <1>1, <1>2, <3>1
  <2> QED BY <1>1, <2>1, <2>2
<1>3. CASE ~(id \in known \/ Cardinality(known) < MaxKnownNodes)
  <2>1. PICK oldest \in known : known' = (known \ {oldest}) \cup {id}
    BY <1>3 DEF MarkKnown
  <2> DEFINE rest == known \ {oldest}
  <2>2. IsFiniteSet(rest) /\ Cardinality(rest) = Cardinality(known) - 1
    BY <1>1, FS_RemoveElement
  <2>3. id \notin rest /\ known' = rest \cup {id}
    BY <1>3, <2>1
  <2> HIDE DEF rest
  <2>4. Cardinality(rest \cup {id}) = Cardinality(rest) + 1
    BY <2>2, <2>3, FS_AddElement
  <2>5. Cardinality(rest \cup {id}) <= MaxKnownNodes
    BY <1>1, <2>2, <2>4
  <2> QED BY <1>1, <2>1, <2>3, <2>5
<1> QED BY <1>2, <1>3

\* A peer becomes a member, or a node, over the connection it has.
LEMMA RatingSteps ==
    ASSUME TableInv,
           \/ \E c \in Live : AcceptInbound(c)
           \/ \E id \in Nodes : ConsiderNode(id)
    PROVE  TableInv'
<1> USE DEF TableInv
<1>1. /\ table \in [Ids -> Peers \cup {NoPeer}] /\ conn \in [Conns -> Connections \cup {Unused}]
      /\ UNCHANGED <<conn, closing>>
  BY DEF TypeOK, AcceptInbound, ConsiderNode
<1>2. ASSUME \A id \in Ids : table'[id].conn = table[id].conn /\ (table'[id] = NoPeer <=> table[id] = NoPeer),
             TypeOK', Capacity'
      PROVE  TableInv'
  <2>1. Present' = Present /\ Live' = Live
    BY <1>1, <1>2 DEF Present, Live
  <2>2. \A c \in Live : InTable(c)' <=> InTable(c)
    BY <1>1, <1>2, LiveTypes DEF InTable
  <2>3. \A id \in Present : id \in Ids
    BY DEF Present
  <2>4. NoLeak'
    BY <1>1, <1>2, <2>1, <2>2, <2>3 DEF NoLeak
  <2>5. DeadPeersLeave' /\ CallbackInv'
    BY <1>1, <2>1, <2>2 DEF DeadPeersLeave, CallbackInv
  <2> QED BY <1>2, <2>4, <2>5
<1>3. ASSUME NEW id \in Present, NEW peer \in Peers, table' = [table EXCEPT ![id] = peer],
             peer.conn = table[id].conn
      PROVE  /\ \A q \in Ids : table'[q].conn = table[q].conn /\ (table'[q] = NoPeer <=> table[q] = NoPeer)
             /\ table' \in [Ids -> Peers \cup {NoPeer}]
  BY <1>1, <1>3, Types DEF Present
<1>4. ASSUME NEW c \in Live, AcceptInbound(c) PROVE TableInv'
  <2> DEFINE id == conn[c].id
             peer == [table[id] EXCEPT !.member = TRUE]
  <2>1. id \in PendingLeaves /\ MayJoin /\ UNCHANGED known
    BY <1>4 DEF AcceptInbound
  <2>2. id \in Leaves /\ id \in Present /\ table[id].kind = "leaf"
    BY <2>1, PresentTypes DEF PendingLeaves, Leaves, NodePeers, Peers
  <2>3. id \in Ids /\ peer \in Peers /\ peer.conn = table[id].conn /\ peer.kind = "leaf"
    BY <2>2, PresentTypes DEF Peers
  <2>4. table' = [table EXCEPT ![id] = peer]
    BY <1>4 DEF AcceptInbound
  <2> HIDE DEF id, peer
  <2>5. Capacity'
    BY <2>1, <2>2, <2>3, <2>4, CapacityKept
  <2>6. TypeOK'
    BY <1>1, <1>3, <2>1, <2>2, <2>3, <2>4 DEF TypeOK
  <2> QED BY <1>2, <1>3, <2>2, <2>3, <2>4, <2>5, <2>6
<1>5. ASSUME NEW id \in Nodes, ConsiderNode(id) PROVE TableInv'
  <2>1. id \in Ids /\ known' \in SUBSET Nodes /\ Cardinality(known') <= MaxKnownNodes
    BY <1>5, Types, KnownIsBounded DEF ConsiderNode
  <2>2. CASE id \in NodePeers \/ (id \in Present /\ MayMesh)
    <3> DEFINE peer == [table[id] EXCEPT !.kind = "node", !.member = FALSE]
    <3>1. id \in Present
      BY <2>2 DEF NodePeers
    <3>2. peer \in Peers /\ peer.conn = table[id].conn /\ peer.kind = "node"
      BY <3>1, PresentTypes DEF Peers
    <3>3. table' = [table EXCEPT ![id] = peer]
      BY <1>1, <1>5, <2>1, <2>2 DEF ConsiderNode
    <3> HIDE DEF peer
    <3>4. Capacity'
      BY <2>1, <2>2, <3>2, <3>3, CapacityKept
    <3>5. TypeOK'
      BY <1>1, <1>3, <2>1, <3>1, <3>2, <3>3 DEF TypeOK
    <3> QED BY <1>2, <1>3, <3>1, <3>2, <3>3, <3>4, <3>5
  <2>3. CASE ~(id \in NodePeers \/ (id \in Present /\ MayMesh))
    <3>1. UNCHANGED table
      BY <1>5, <2>3 DEF ConsiderNode
    <3>2. TypeOK' /\ Capacity'
      BY <1>1, <2>1, <3>1, CapacityUntouched DEF TypeOK
    <3> QED BY <1>2, <3>1, <3>2
  <2> QED BY <2>2, <2>3
<1> QED BY <1>4, <1>5

-----------------------------------------------------------------------------
\* Every step keeps the invariant.
LEMMA TableSteps == TableInv /\ [Next]_vars => TableInv'
<1> SUFFICES ASSUME TableInv, [Next]_vars PROVE TableInv'
  OBVIOUS
<1>1. CASE \E id \in Ids, c \in Conns : OnInbound(id, c)
  BY <1>1, ArrivalSteps
<1>2. CASE \E c \in Live : Transport(c) \/ ConnectionLost(c)
  BY <1>2, TransportSteps, RemovalSteps, StopSteps DEF Transport
<1>3. CASE \/ \E c \in Live : PeerFailure(c) \/ QueueFull(c)
           \/ \E id \in Ids : EvictStale(id)
  BY <1>3, EvictSteps
<1>4. CASE \/ \E c \in Live : AcceptInbound(c)
           \/ \E id \in Nodes : ConsiderNode(id)
  BY <1>4, RatingSteps
<1>5. CASE UNCHANGED vars
  <2>1. UNCHANGED <<table, known, conn, closing>>
    BY <1>5 DEF vars
  <2> QED BY <2>1, CapacityUntouched DEF TableInv, TypeOK, NoLeak, DeadPeersLeave, CallbackInv,
                                         Present, Live, InTable
<1> QED BY <1>1, <1>2, <1>3, <1>4, <1>5 DEF Next

\* What the inductive invariant says of the table, the limits and the connections
\* holds in every reachable state.
THEOREM TableCorrect == Spec => []TableInv
BY InitInv, TableSteps, PTL DEF Spec

\* The table holds peers, and the known ids do not exceed their limit.
THEOREM PeerTableTypeOK == Spec => []TypeOK
<1>1. TableInv => TypeOK
  BY DEF TableInv
<1> QED BY <1>1, TableCorrect, PTL

\* Members, leaves and node peers stay within their limits, however they reconnect
\* and whoever is upgraded.
THEOREM LimitsHold == Spec => []Capacity
<1>1. TableInv => Capacity
  BY DEF TableInv
<1> QED BY <1>1, TableCorrect, PTL

\* A connection that is open is in the table under its own id, or about to be closed.
THEOREM NoConnectionLeaks == Spec => []NoLeak
<1>1. TableInv => NoLeak
  BY DEF TableInv
<1> QED BY <1>1, TableCorrect, PTL

\* The removal of a peer whose connection is gone is always due, also when it was
\* closed before its disconnect handler was set.
THEOREM DeadPeersAreRemoved == Spec => []DeadPeersLeave
<1>1. TableInv => DeadPeersLeave
  BY DEF TableInv
<1> QED BY <1>1, TableCorrect, PTL
=============================================================================
