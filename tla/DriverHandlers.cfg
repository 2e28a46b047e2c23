SPECIFICATION Spec
CONSTANTS
    Rides = {r1}
    Drivers = {d1}
    Pickups = {}
    Fares = {}
    NoDriver = NoDriver
    NoFare = NoFare
    Places = {p1}
    NoPlace = NoPlace
    Slots = {s1, s2}
    ClaimsFail = TRUE
    MaxWork = 4
    Reported = {"completed"}
    MaxTrouble = 1
    r1 = r1
    d1 = d1
    d2 = d2
    p1 = p1
    p2 = p2
    s1 = s1
    s2 = s2
VIEW View
SYMMETRY Symmetry
INVARIANTS TypeOK NoPhotoNoWork BusyWasAssigned PoolMatchesStatus OnlineHasPhoto AnnouncedIsStatus
CHECK_DEADLOCK FALSE
