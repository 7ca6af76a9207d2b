CONSTANTS
    Request = {r1, r2, r3, r4}
    Payload = {p, q}
    NoRecord = NoRecord
    Faults = {"handler"}
SYMMETRY Symmetry
SPECIFICATION Spec
INVARIANT ExecutedOnce
CHECK_DEADLOCK FALSE
