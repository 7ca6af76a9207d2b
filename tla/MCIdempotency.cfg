CONSTANTS
    Request = {r1, r2, r3, r4}
    Payload = {p, q}
    NoRecord = NoRecord
    Faults = {"handler", "commit", "redis", "crash"}
SYMMETRY Symmetry
SPECIFICATION Spec
INVARIANTS TypeOK TwiceOnlyAfterFailure ReplayedFaithfully
CHECK_DEADLOCK FALSE
