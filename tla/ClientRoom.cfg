\* Every property of the client room: sessions that break while it synchronizes and ingests.
CONSTANTS
    PageLimit = 1
    QueueCap = 1
    MaxEvents = 2
    MaxResets = 1
    MaxFaults = 2
SPECIFICATION FairSpec
INVARIANTS
    TypeOK
    CopyVerified
    EachEventNotified
    SessionOfIdentity
    LeftIsQuiet
PROPERTIES
    ImplementsRoomTimeline
    Reconnects
