SPECIFICATION FairSpec
CONSTANTS
    p1 = p1
    p2 = p2
    r1 = r1
    r2 = r2
    r3 = r3
    c1 = c1
    i1 = i1
    i2 = i2
    None = None
    Process = {p1}
    Mortal = {}
    Request = {r1}
    Cancel = {}
    Delivery = {r1}
    Invalid = {}
    Identity = {i1}
    identityOf <- SameIdentity
    LeaseMayLapse = FALSE
    JoinMayTimeOut = TRUE
CHECK_DEADLOCK FALSE
PROPERTIES
    DropsOnlyIfTakenOver
