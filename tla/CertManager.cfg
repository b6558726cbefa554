SPECIFICATION FairSpec
CONSTANTS
    Domains = 2
    Life = 21
    OrderMax = 1
    Outage = 3
INVARIANTS ChallengeReady NeverExpired
PROPERTIES Renewed StopEnds
CHECK_DEADLOCK FALSE
