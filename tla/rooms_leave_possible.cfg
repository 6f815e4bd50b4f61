SPECIFICATION Spec
CONSTANTS
    Rooms = {r1}
    Participants = {p1, p2}
    Workers = {w1, w2}
    MaxRows = 3
    Faults = FALSE
INVARIANTS
    LeaveIsPossible
