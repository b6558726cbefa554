SPECIFICATION FairSpec
CONSTANTS
    MaxData = 3
    WireBound = 2
PROPERTIES TimeoutEndsRequest
CHECK_DEADLOCK FALSE
