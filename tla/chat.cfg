SPECIFICATION FairSpec
CONSTANTS
    Messages = {1, 2}
    Participants = {p1, p2}
    Page = 1
    Workers = {w1, w2, w3}
INVARIANTS
    TypeOK
    HistoryHasWindow
    DeletedIsGone
PROPERTIES
    Evaporates
CHECK_DEADLOCK FALSE
