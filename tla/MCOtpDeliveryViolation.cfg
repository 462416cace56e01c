CONSTANTS
    j1 = j1  j2 = j2  r1 = r1  r2 = r2  w1 = w1  w2 = w2  Null = Null
    Jobs = {j1, j2}
    OtpRequests = {r1, r2}
    RequestOf <- MCRequestOf
    StoredRef <- MCNullRef
    Slots = {w1, w2}
    MaxTries = 3
    MaxStalls = 1
    Faults = FALSE
    None = None
SPECIFICATION Spec
INVARIANT TerminalFailureIsRefunded
CHECK_DEADLOCK FALSE
