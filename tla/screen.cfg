SPECIFICATION FairSpec
CONSTANTS
    Offers = {o1, o2}
    Unknown = {u}
    Workers = {w1, w2}
    None = None
INVARIANTS
    TypeOK
    NothingIsLeft
    ServedApart
    NoCaptureLeftApart
PROPERTIES
    HangupEnds
    RefinesSessions
