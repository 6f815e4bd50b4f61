SPECIFICATION Spec
CONSTANTS
    Offers = {o1, o2}
    Unknown = {}
    Workers = {w1, w2}
    None = None
INVARIANTS
    ViewersAreServed
CHECK_DEADLOCK FALSE
