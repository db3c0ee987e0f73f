SPECIFICATION FairSpec
CONSTANTS
    p1 = p1
    p2 = p2
    r1 = r1
    r2 = r2
    r3 = r3
    c1 = c1
    i1 = i1
    i2 = i2
    None = None
    Process = {p1, p2}
    Mortal = {p1}
    Request = {r1, r2}
    Cancel = {c1}
    Delivery = {r1, r2, c1}
    Invalid = {}
    Identity = {i1}
    identityOf <- SameIdentity
    LeaseMayLapse = TRUE
    JoinMayTimeOut = FALSE
INVARIANTS
    IdleHoldsNoClaim
PROPERTIES
    DropsOnlyIfTakenOver
    EarlyCancelHolds
    EveryCommandSettles
    EveryRequestAnswered
CHECK_DEADLOCK FALSE
