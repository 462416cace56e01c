CONSTANTS
    m1 = m1  m2 = m2  w1 = w1  w2 = w2
    Messages = {m1}
    Types = {"delivered", "read"}
    Slots = {w1, w2}
    MaxTries = 2
    MaxStalls = 1
    MaxFaults = 1
    None = None
SPECIFICATION FairSpec
INVARIANTS TypeOK EventsAreCounted CompletedIsRecorded
PROPERTIES OnlyOvertakenUndoVerified NoReceiptIsReapplied ReceiptsSettle
CHECK_DEADLOCK FALSE
