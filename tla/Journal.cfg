\* Sessions to the sequencer and through relays, resets, crashes; the user
\* keeps retrying.
CONSTANTS
    p1 = p1  p2 = p2
    Proposals <- MCProposals
    Routes = {"direct", "relay"}
    MaxRequests = 2
    MaxResets = 1
    MaxFaults = 2
SPECIFICATION FairSpec
INVARIANTS
    TypeOK
    NothingForgotten
PROPERTIES
    ImplementsSubmissionLedger
    CommittedIsSettled
