SPECIFICATION Spec
CONSTANTS
    p1 = p1
    p2 = p2
    r1 = r1
    r2 = r2
    r3 = r3
    c1 = c1
    i1 = i1
    i2 = i2
    None = None
    Process = {p1, p2}
    Mortal = {p1, p2}
    Request = {r1, r2, r3}
    Cancel = {c1}
    Delivery = {r1, r2, r3, c1}
    Invalid = {c1}
    Identity = {i1, i2}
    identityOf <- ReusedJobId
    LeaseMayLapse = TRUE
    JoinMayTimeOut = TRUE
SYMMETRY Symmetry
INVARIANTS
    SafetyInvariant
    OneResultPerJob
    AnswersItsRequest
PROPERTIES
    OwnerDecides
    LiveClaimIsKept
    ImplementsOutcome
CHECK_DEADLOCK FALSE
