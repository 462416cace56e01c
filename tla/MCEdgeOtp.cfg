CONSTANTS
    s1 = s1  v1 = v1  v2 = v2  r1 = r1  w1 = w1  w2 = w2
    Sends = {s1}
    Verifies = {v1, v2}
    Resends = {r1}
    Receipts = {w1, w2}
    MaxAttempts = 2
    MaxCredits = 1
    MaxFaults = 1
    None = None
SPECIFICATION Spec
INVARIANTS TypeOK SendSettles GuessesAreBounded RefundsFollowFailures
PROPERTY VerifiedIsSettled
CHECK_DEADLOCK FALSE
