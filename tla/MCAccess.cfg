CONSTANTS
    Tenant = {alpha, beta}
    alpha = alpha
    beta = beta
    KeyId = {k1}
    Scope = {read, write}
    Request = {r1, r2, r3}
    Faults = {"database", "crash"}
    Email = {e1, e2, e3}
    e1 = e1
    e2 = e2
    Password = {secret, guess}
    secret = secret
    Members <- TwoMembers
    Visit = {v1, v2}
SYMMETRY Symmetry
SPECIFICATION AccessSpec
INVARIANTS TypeOK RevocationIsFinal RevokedOnce ChangesAudited AdmittedAsCreated RegisteredOnce KeysOfMembers
PROPERTY OwnKeysOnly
CHECK_DEADLOCK FALSE
