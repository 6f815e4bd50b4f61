SPECIFICATION Spec
CONSTANTS
    Offers = {o1, o2}
    Stops = {s1, s2}
    None = None
SYMMETRY Symmetry
INVARIANTS
    TypeOK
    AtRestMeansEnded
    LeaversShareNothing
CHECK_DEADLOCK FALSE
