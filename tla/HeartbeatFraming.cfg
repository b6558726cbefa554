SPECIFICATION FramingSpec
CONSTANTS
    Bytes = {0, 1, 10}
    IdLen = 2
    BufSize = 9
INVARIANTS NotFooled Recognised
CHECK_DEADLOCK FALSE
