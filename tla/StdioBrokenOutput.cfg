\* The output breaks while a request waits for room in the channel.
CONSTANTS
    h = h
    w = w
    Handlers = {h, w}
    Workers = {w}
    Directs <- MCDirects
    EventCapacity = 1
    MaxReceived = 1
    MaxEpoch = 1
    MaxClock = 2
SPECIFICATION FairSpec
PROPERTIES
    BrokenOutputTerminates
\* The server stops.
CHECK_DEADLOCK FALSE
