CONSTANTS
    Issuers = {s1, s2}
    Verifiers = {v1, v2, v3}
    Wrong = Wrong
    NoEntry = NoEntry
    MaxAttempts = 2
    Nodes = {n1, n2}
    Redis = Redis
    MaxFaults = 1
SPECIFICATION Spec
SYMMETRY Symmetry
VIEW Live
INVARIANTS TypeOK FailuresAloneAreCounted
PROPERTIES UsedUpForGood InvalidatedForGood
CHECK_DEADLOCK FALSE
