CONSTANTS
    Event = {1}
    NoUrl = {}
    Poller = {p1, p2}
    Caller = {}
    MaxAttempts = 2
    Take = 1
    Faults = {"crash"}
SPECIFICATION FairSpec
PROPERTY EveryEventAnswered
CHECK_DEADLOCK FALSE
