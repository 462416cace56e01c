CONSTANTS
    s1 = s1  s2 = s2  r1 = r1  k1 = k1  n1 = n1  n2 = n2
    Sends = {s1, s2}
    Resends = {}
    Keys = {k1}
    Nodes = {n1}
    Redis = Redis
    StoredRef <- MCNullRef
    PhoneLimit = 3
    InitialCredits = 2
    RedisFails = FALSE
    MaxFaulty = 1
    None = None
SPECIFICATION Spec
INVARIANT KeyIsDebitedOnce
CHECK_DEADLOCK FALSE
