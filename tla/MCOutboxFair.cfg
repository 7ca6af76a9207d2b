CONSTANTS
    Event = {1}
    NoUrl = {}
    Poller = {p1, p2}
    Caller = {c1}
    MaxAttempts = 2
    Take = 1
    Faults = {"redis"}
SPECIFICATION FairSpec
INVARIANT NoEventVanishes
PROPERTY EveryEventAnswered
CHECK_DEADLOCK FALSE
