SPECIFICATION Spec
CONSTANTS
    Conns = {c1}
    Interval = 2
    InboxBound = 1
INVARIANT CancelNeverCrashes
CHECK_DEADLOCK FALSE
