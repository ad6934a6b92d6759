\* Two query goroutines over one store while nonces expire.
CONSTANTS
    o = o  a = a  b = b  n1 = n1  n2 = n2  n3 = n3  n4 = n4  n5 = n5  h1 = h1  h2 = h2
    Keys <- MCKeys
    Owner = o
    Names <- MCNames
    GenesisName = "club"
    GenesisAnyone = TRUE
    GenesisAdmins <- NoAdmins
    MaxPins = 1
    MaxAdmins = 1
    MaxModerators = 1
    Proposals <- RaceProposals
    Nonces <- MCNonces
    Handlers <- TwoHandlers
    ClockSkew = 1
    NonceRetention = 3
    MaxHold = 1
    MaxClock = 4
SYMMETRY HandlerSymmetry
SPECIFICATION Spec
INVARIANTS
    TypeOK
    AnswersAreCanonical
    SnapshotCurrent
    NonceSpacing
PROPERTIES
    RetriesFindTheirCommit
