\* Two relays that may wait for each other's lock; the room is closed, and
\* closed again (two states with one content); a crash or a failed query.
CONSTANTS
    r1 = r1  r2 = r2  s = s
    Relays <- MCRelays
    Sequencer = s
    PageLimit = 1
    Kinds = {"close"}
    MaxEvents = 2
    MaxFailures = 1
SPECIFICATION FairSpec
PROPERTIES
    CatchUp
