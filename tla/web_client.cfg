SPECIFICATION Spec
CONSTANTS
    Rooms = {r1, r2}
    Participants = {p1}
    Tabs = {t1, t2}
    Guests = {g1}
    Calls = {c1, c2}
    Visits = 3
    Nothing = nothing
SYMMETRY Symmetry
CHECK_DEADLOCK FALSE
INVARIANTS
    TypeOK
    LeaversAreOut
    ConnectedAreMembers
    RightRoom
