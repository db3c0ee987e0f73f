SPECIFICATION TimingSpec
CONSTANTS
    Lease = 20
    Interval = 6
    Delay = 1
    Skew = 1
    Horizon = 50
    MaxFailures = 1
CHECK_DEADLOCK FALSE
INVARIANTS
    OneMissedBeatIsHarmless
