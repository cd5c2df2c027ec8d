SPECIFICATION FairSpec
CONSTANTS
    Tenants = {t1, t2}
    Ids = {i1}
    Passwords = {p1, p2, p3, p4, p5, p6, p7, p8}
    NoPassword = NoPassword
    MaxLives = 3
    MaxChanges = 1
INVARIANTS
    TypeOK
    NothingUnclaimed
PROPERTIES
    FleetConverges
    GaugesSettle
CHECK_DEADLOCK FALSE
