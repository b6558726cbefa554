SPECIFICATION Spec
CONSTANTS
    Interval = 13
    Delay = 2
INVARIANTS NoFalseAlarm DetectedInTime
CHECK_DEADLOCK FALSE
