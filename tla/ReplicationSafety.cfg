\* Two relays and broadcasts that are lost and reordered; a crash.
CONSTANTS
    r1 = r1  r2 = r2  s = s
    Relays <- MCRelays
    Sequencer = s
    PageLimit = 1
    Kinds = {"message", "open", "close"}
    MaxEvents = 2
    MaxFailures = 1
SYMMETRY RelaySymmetry
SPECIFICATION Spec
INVARIANTS
    TypeOK
    PassedOnIsDurable
    ReadyAnswersCover
PROPERTIES
    ImplementsRelayLedger
