SPECIFICATION Spec
CONSTANTS
    Rides = {r1, r2}
    Drivers = {d1, d2}
    Pickups = {k1}
    Fares = {}
    NoDriver = NoDriver
    NoFare = NoFare
    Places = {near, far, away}
    NoPlace = NoPlace
    Distance <- MCDistance
    Radius = 2
    Matchers = {m1, m2}
    NoRide = NoRide
    NoPickup = NoPickup
    MaxEvents = 3
    MaxJoins = 2
    MaxFaults = 3
    near = near
    far = far
    away = away
    k1 = k1
    r1 = r1
    r2 = r2
    d1 = d1
    d2 = d2
    m1 = m1
    m2 = m2
SYMMETRY Symmetry
INVARIANTS TypeOK NoDoubleClaim ExtraDriversCostFaults RequestsAccountedFor
CHECK_DEADLOCK FALSE
