SPECIFICATION Spec
CONSTANTS
    Emails = {e1}
    Users = {u1}
    Names = {n1, n2}
    Tokens = {t1, t2}
    Workers = {w1, w2}
PROPERTIES
    LoginKeepsProfile
