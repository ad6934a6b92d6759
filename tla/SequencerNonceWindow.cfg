\* A handler commits on a clock reading that predates the expiry of a nonce.
CONSTANTS
    o = o  a = a  b = b  n1 = n1  n2 = n2  n3 = n3  n4 = n4  n5 = n5  h1 = h1  h2 = h2
    Keys <- MCKeys
    Owner = o
    Names <- MCNames
    GenesisName = "club"
    GenesisAnyone = TRUE
    GenesisAdmins <- NoAdmins
    MaxPins = 1
    MaxAdmins = 1
    MaxModerators = 1
    Proposals <- RaceProposals
    Nonces <- MCNonces
    Handlers <- TwoHandlers
    ClockSkew = 1
    NonceRetention = 3
    MaxHold = 1
    MaxClock = 4
SPECIFICATION Spec
INVARIANT NonceWindowStrict
