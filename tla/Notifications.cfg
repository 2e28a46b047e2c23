SPECIFICATION FairSpec
CONSTANTS
    Servers = {n1, n2}
    Clients = {cr, cx}
    IdOf <- MCIdOf
    Ids = {rider, driver}
    NoId = NoId
    Nowhere = Nowhere
    UsedTopics = {"driver.assigned", "payment.failed"}
    EventSet <- MCEventSet
    MaxEvents = 2
    MaxTrouble = 1
    n1 = n1
    n2 = n2
    rider = rider
    driver = driver
    cr = cr
    cd = cd
    cx = cx
INVARIANTS GaugeCountsSockets NoPushLost PushesInOrder CopiesCostMoves
PROPERTIES EventsNeverBlock
CHECK_DEADLOCK FALSE
