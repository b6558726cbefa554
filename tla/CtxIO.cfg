SPECIFICATION FairIOSpec
CONSTANTS
    Reads = {r1}
    Writes = {w1}
INVARIANT ResultAccounted
PROPERTIES WorkerEnds CancelReleases
CHECK_DEADLOCK FALSE
