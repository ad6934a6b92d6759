\* Connections that replace each other, break and are evicted while they are wired.
CONSTANTS
    a = a
    b = b
    n = n
    Ids <- MCIds
    Nodes <- MCNodes
    MaxConns = 3
    MaxLeaves = 1
    MaxPendingPeers = 1
    MaxNodePeers = 1
    MaxKnownNodes = 1
SPECIFICATION Spec
SYMMETRY Symmetry
INVARIANTS
    TypeOK
    Capacity
    NoLeak
    DeadPeersLeave
