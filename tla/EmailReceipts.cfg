SPECIFICATION FairSpec
CONSTANTS
    Rides = {r1, r2}
    r1 = r1
    r2 = r2
    bad = bad
    Registered = {r1}
    Junk = {bad}
    Workers = {w1, w2}
    w1 = w1
    w2 = w2
    NoRide = NoRide
    MaxEvents = 3
    MaxFaults = 2
INVARIANTS TypeOK NoReceiptLost SentMeansMailed ExtraMailsCostFaults
PROPERTIES EveryRideReceipted ImplementsReceipts
CHECK_DEADLOCK FALSE
