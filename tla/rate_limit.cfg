SPECIFICATION FairSpec
CONSTANTS
    Keys = {k1, k2}
    Workers = {w1, w2, w3}
    Limit = 2
    Retries = 1
INVARIANTS
    TypeOK
    OvershootBounded
    WindowOwned
PROPERTIES
    RejectionEnds
