SPECIFICATION FairSpec
CONSTANTS
    Servers = {s1}
    Clients = {c1}
INVARIANTS TrueCause AckMeansWatched
PROPERTIES ServesOrStops ComesDown
CHECK_DEADLOCK FALSE
