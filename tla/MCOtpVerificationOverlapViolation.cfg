CONSTANTS
    Issuers = {s1}
    Verifiers = {v1, v2, v3}
    Wrong = Wrong
    NoEntry = NoEntry
    MaxAttempts = 2
    Nodes = {n1}
    Redis = Redis
    MaxFaults = 0
SPECIFICATION Spec
SYMMETRY Symmetry
VIEW Live
INVARIANT AtMostMaxFailuresPerCode
CHECK_DEADLOCK FALSE
