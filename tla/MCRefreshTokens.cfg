CONSTANTS
    f1 = f1  f2 = f2  u1 = u1  u2 = u2
    t1 = t1  t2 = t2  t3 = t3  t4 = t4  t5 = t5
    p1 = p1  p2 = p2  p3 = p3
    Families = {f1, f2}
    Tokens = {t1, t2, t3, t4}
    Users = {u1, u2}
    UserOf <- MCUserOf
    Calls = {p1, p2}
    Unknown = Unknown
    None = None
SPECIFICATION FairSpec
INVARIANTS TypeOK OneActiveTokenPerFamily LinearLineage 
PROPERTIES SessionEndIsFinal CallsEnd
CHECK_DEADLOCK FALSE
