CONSTANTS
    s1 = s1  s2 = s2  r1 = r1  k1 = k1  n1 = n1  n2 = n2
    Sends = {s1, s2}
    Resends = {r1}
    Keys = {k1}
    Nodes = {n1, n2}
    Redis = Redis
    StoredRef <- MCNullRef
    PhoneLimit = 1
    InitialCredits = 2
    RedisFails = TRUE
    MaxFaulty = 1
    None = None
SPECIFICATION Spec
SYMMETRY Symmetry
VIEW Live
INVARIANTS TypeOK RepeatedKeyIsNotDebited NoMessageUnpaid GivenUpIsRefunded RefundIsEarned AdmittedWithinLimit
CHECK_DEADLOCK FALSE
