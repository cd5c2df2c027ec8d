SPECIFICATION FairSpec
CONSTANTS
    Tenants = {t1}
    Ids = {i1}
    Passwords = {p1, p2, p3, p4, p5, p6, p7, p8}
    NoPassword = NoPassword
    MaxLives = 1
    MaxChanges = 1
PROPERTIES ServicesLogIn
CHECK_DEADLOCK FALSE
