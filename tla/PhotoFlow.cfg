SPECIFICATION FairFlow
CONSTANTS
    Rides = {}
    Drivers = {d1}
    Riders = {}
    Pickups = {}
    Fares = {}
    NoDriver = NoDriver
    NoFare = NoFare
    Keys = {k1, k2}
    Owner <- MCOwner
    NoKey = NoKey
    NoUser = NoUser
    Uploads = {"image"}
    Places = {home}
    Reported = {}
    ClaimsFail = FALSE
    MaxWork = 4
    NoPlace = NoPlace
    ProfileSlots = {s1}
    Slots = {t1}
    MaxEvents = 3
    MaxFaults = 1
    MaxTrouble = 1
    d1 = d1
    home = home
INVARIANTS FlagFollowsPhoto RemovedPhotoEndsShift
PROPERTIES ConfirmedPhotoArrives
CHECK_DEADLOCK FALSE
