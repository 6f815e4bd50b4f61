SPECIFICATION ObservedSpec
CONSTANTS
    Rooms = {r1}
    Participants = {p1, p2}
    Workers = {w1, w2}
    MaxRows = 4
    Faults = TRUE
INVARIANTS
    TypeOK
    OneHost
    EmptyWhenCounted
    LeaveStaysPossible
PROPERTIES
    NoEntryAfterEnd
    RefinesContract
    EmptiedRoomEnds
