SPECIFICATION Spec
CONSTANTS
    Requests = {r1, r2, r3}
    Certs = {c1, c2}
    Marshallable = {}
    None = None
    MaxEpoch = 1
INVARIANTS OwnNonce Fresh NeverBare
CHECK_DEADLOCK FALSE
