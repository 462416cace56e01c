CONSTANTS
    c1 = c1  row1 = row1  req1 = req1  req2 = req2  p1 = p1  p2 = p2  p3 = p3
    Customers = {c1}
    Calls = {p1, p2, p3}
    RefIds = {row1, req1, req2}
    UuidRefs = {row1}
    NoRef = NoRef
    NoCall = NoCall
    Requests <- MCRequests
    RefTypes <- MCRefTypes
    InitialCredits <- MCInitialCredits
SPECIFICATION FairSpec
INVARIANTS TypeOK LedgerChains RefundAtMostOnce RefundSettles
PROPERTIES ImplementsAtomicLedger CallsEnd
CHECK_DEADLOCK FALSE
