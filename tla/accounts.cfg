SPECIFICATION Spec
CONSTANTS
    Emails = {e1}
    Users = {u1, u2}
    Names = {n1, n2}
    Tokens = {t1, t2, t3}
    Workers = {w1, w2, w3}
SYMMETRY Symmetry
INVARIANTS
    TypeOK
    OneAccountPerEmail
    RotatedIsRevoked
    RotationKeepsLogin
PROPERTIES
    SpentTokenIsDead
    DefaultsNeverOverwrite
