CONSTANTS
    g1 = g1  g2 = g2  a1 = a1  d1 = d1  k1 = k1  r1 = r1
    s1 = s1  s2 = s2  e1 = e1  e2 = e2
    Registrations = {g1, g2}
    AppCalls = {a1}
    Deletions = {d1}
    KeyCalls = {k1}
    Revocations = {r1}
    Sends = {s1, s2}
    Emails = {e1, e2}
    None = None
SPECIFICATION Spec
INVARIANTS TypeOK OneAccountPerEmail DebitsHaveRequests
CHECK_DEADLOCK FALSE
