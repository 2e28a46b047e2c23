SPECIFICATION FairFlow
CONSTANTS
    Rides = {r1}
    Clients = {r1}
    Drivers = {d1}
    Pickups = {k1}
    Fares = {}
    NoDriver = NoDriver
    NoFare = NoFare
    NoRide = NoRide
    NoPickup = NoPickup
    Places = {home}
    NoPlace = NoPlace
    Home = home
    Slots = {s1}
    Matcher = m1
    Updates = {"cancelled", "completed"}
    Patient = FALSE
    Pings = TRUE
    MaxFaults = 1
    MaxEvents = 100
    MatchingFaults = 1
    MaxTrouble = 1
    home = home
    s1 = s1
    m1 = m1
    k1 = k1
    r1 = r1
    r2 = r2
    r3 = r3
    d1 = d1
    d2 = d2
PROPERTIES DriverSteps RideSteps AnnouncedRideIsAnswered
CHECK_DEADLOCK FALSE
