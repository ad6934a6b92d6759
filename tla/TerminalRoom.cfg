\* Page loads, notifications and operations while the user moves between rooms.
CONSTANTS
    r1 = r1
    r2 = r2
    Rooms <- MCRooms
    PageSize = 1
    MaxEvents = 3
    MaxSeqno <- MCMaxSeqno
    MaxQueue = 1
    MaxLoads = 2
    MaxOperations = 2
    MaxSends = 1
SPECIFICATION Spec
INVARIANTS
    TypeOK
    PageFaithful
    NoticedIsAccounted
VIEW Seen
