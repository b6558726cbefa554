SPECIFICATION FairSpec
CONSTANTS
    Conns = {c1, c2, c3}
    Ids = {i1, i2, x1}
    Split = {x1}
    None = None
    MaxFaults = 4
    QueueBound = 2
INVARIANTS Agreement NoReadAhead BailOnOldEnclave NoFalseMismatch
PROPERTIES RestartDetected  PairingSpec
CHECK_DEADLOCK FALSE
