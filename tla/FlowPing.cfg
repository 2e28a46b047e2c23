SPECIFICATION FlowSpec
CONSTANTS
    Rides = {r1, r2}
    Clients = {r1, r2}
    Drivers = {d1}
    Pickups = {k1}
    Fares = {}
    NoDriver = NoDriver
    NoFare = NoFare
    NoRide = NoRide
    NoPickup = NoPickup
    Places = {home}
    NoPlace = NoPlace
    Home = home
    Slots = {s1}
    Matcher = m1
    Updates = {"in_progress", "completed", "cancelled"}
    Patient = TRUE
    Pings = TRUE
    MaxFaults = 0
    MaxEvents = 100
    MatchingFaults = 0
    MaxTrouble = 0
    home = home
    s1 = s1
    m1 = m1
    k1 = k1
    r1 = r1
    r2 = r2
    r3 = r3
    d1 = d1
    d2 = d2
INVARIANTS OneOpenRidePerDriver
CHECK_DEADLOCK FALSE
