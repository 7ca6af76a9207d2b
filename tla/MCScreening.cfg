CONSTANTS
    Attempt = {a1, a2, a3, a4}
    HighValue = {a3}
    n1 = n1
    n2 = n2
    Process = {n1, n2}
    Placement <- AloneOrOneElsewhere
    Window = 2
    SecurityLimit = 2
    RiskLimit = 2
    MaxDelay = 1
    MaxClock = 3
    Received = 1
    TransferRows = 2
    MaxTrouble = 1
    Tenant = {t1, t2}
    Owner = t1
    NewStatus = {"RESOLVED"}
SYMMETRY Symmetry
SPECIFICATION Spec
INVARIANTS TypeOK WithinLimit RejectedForCause BlockedForCause SecuritySuffices FlagsTellWhy
CHECK_DEADLOCK FALSE
