CONSTANTS
    Event = {1, 2}
    NoUrl = {2}
    Poller = {p1}
    Caller = {c1}
    MaxAttempts = 2
    Take = 1
    Faults = {"redis", "database", "crash"}
SPECIFICATION Spec
INVARIANTS TypeOK HandedOverWhenCompleted PendingBelowLimit
PROPERTY StagesKept
CHECK_DEADLOCK FALSE
