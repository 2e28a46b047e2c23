SPECIFICATION Spec
CONSTANTS
    Rides = {r1, r2}
    Drivers = {d1, d2}
    Pickups = {k1}
    Fares = {}
    NoDriver = NoDriver
    NoFare = NoFare
    NoRide = NoRide
    NoPickup = NoPickup
    Clients = {c1, c2}
    MaxEvents = 3
    MaxFaults = 1
    k1 = k1
    r1 = r1
    r2 = r2
    d1 = d1
    d2 = d2
    c1 = c1
    c2 = c2
SYMMETRY Symmetry
INVARIANTS AssignedExists MatchAnnounced UnannouncedCostFaults DriverIsLastAssigned
CHECK_DEADLOCK FALSE
