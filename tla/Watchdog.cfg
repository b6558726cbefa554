SPECIFICATION FairSpec
CONSTANTS
    Conns = {c1, c2}
    Interval = 2
    InboxBound = 1
PROPERTIES SilenceIsDetected MismatchStops CancelDrains DetectorSpec
CHECK_DEADLOCK FALSE
