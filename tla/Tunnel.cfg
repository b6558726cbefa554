SPECIFICATION FairSpec
CONSTANTS
    MaxData = 3
    WireBound = 2
INVARIANT Intact
PROPERTIES DirectSpec Answered Delivered Released
CHECK_DEADLOCK FALSE
