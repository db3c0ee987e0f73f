SPECIFICATION Spec
CONSTANTS
    d1 = d1
    d2 = d2
    d3 = d3
    inputA = inputA
    inputB = inputB
    Delivery = {d1, d2, d3}
    Identity = {inputA, inputB}
    identityOf <- MCIdentityOf
    MaxRestarts = 2
    None = None
INVARIANTS
    RequestsAreServed
PROPERTIES
    OutcomeWhileItLives
CHECK_DEADLOCK FALSE
