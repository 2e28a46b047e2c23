SPECIFICATION ProfileSpec
CONSTANTS
    Rides = {}
    Drivers = {d1}
    Riders = {u1}
    Pickups = {}
    Fares = {}
    NoDriver = NoDriver
    NoFare = NoFare
    Keys = {kd1, kd2, kr}
    Owner <- MCOwner
    NoKey = NoKey
    NoUser = NoUser
    Uploads = {"image", "fake", "huge"}
    ProfileSlots = {s1, s2}
    MaxEvents = 3
    MaxFaults = 1
    d1 = d1
    u1 = u1
    kd1 = kd1
    kd2 = kd2
    kr = kr
INVARIANTS PhotoIsThere OrphansCostFaults
CHECK_DEADLOCK FALSE
