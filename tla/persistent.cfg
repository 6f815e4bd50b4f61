SPECIFICATION Spec
CONSTANTS
    Rooms = {r1}
    Users = {u1, u2}
    Titles = {t1, t2}
    Entries = {e1, e2}
    Messages = {m1}
    Workers = {w1, w2}
SYMMETRY Symmetry
INVARIANTS
    TypeOK
    ActiveHasHost
    PromotedApart
    OneActiveRow
PROPERTIES
    MessagesKept
    DeletedIsOver
CHECK_DEADLOCK FALSE
