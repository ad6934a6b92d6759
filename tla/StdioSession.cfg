\* Notifications, identity changes and the shutdown over a full channel.
CONSTANTS
    h = h
    w = w
    Handlers = {h, w}
    Workers = {w}
    Directs <- MCDirects
    EventCapacity = 1
    MaxReceived = 1
    MaxEpoch = 1
    MaxClock = 2
SPECIFICATION FairSpec
INVARIANTS
    TypeOK
    DeliveredOnce
    NoSendOnClosed
PROPERTIES
    AddresseeAnnounced
    RefusedOnlyWhenFull
    ShutsDown
\* The server stops.
CHECK_DEADLOCK FALSE
