SPECIFICATION FairSpec
CONSTANTS
    Callers <- MCCallers
    Life = 5
    Margin = 2
    MaxDelay = 1
    SharedCredentials = TRUE
    Faults = {"api", "net"}
    MaxCrashes = 0
INVARIANTS
    TokenTypeOK
    ExpiryBounded
    RequestsAccepted
PROPERTIES
    StaleEnds
