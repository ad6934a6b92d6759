\* One goroutine, every body type, all roles and limits.
CONSTANTS
    o = o  a = a  b = b  n1 = n1  n2 = n2  n3 = n3  n4 = n4  n5 = n5  h1 = h1  h2 = h2
    Keys <- MCKeys
    Owner = o
    Names <- MCNames
    GenesisName = "club"
    GenesisAnyone = TRUE
    GenesisAdmins <- NoAdmins
    MaxPins = 1
    MaxAdmins = 1
    MaxModerators = 1
    Proposals <- RulesProposals
    Nonces <- MCNonces
    Handlers <- OneHandler
    ClockSkew = 1
    NonceRetention = 3
    MaxHold = 1
    MaxClock = 0
SPECIFICATION Spec
INVARIANTS
    AuditPasses
PROPERTIES
    ImplementsLedger
