SPECIFICATION FairSpec
CONSTANTS
    Apps = {a1, a2}
    PersonOf <- MCPersonOf
    SeedSize = 1
    NoToken = NoToken
    MaxTrouble = 1
    a1 = a1
    a2 = a2
INVARIANTS TokensTellTheTruth ProfilesBelongToAccounts HalfSeededCostFailures
PROPERTIES EverybodyGetsIn
CHECK_DEADLOCK FALSE
