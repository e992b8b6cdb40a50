SPECIFICATION FairSpec
CONSTANTS
    Ceiling = 6
    Floor = 200
    Start = 300
    Fracs <- AllFracs
    High = 5
    Low = 1
    Operator <- OperatorOffers
    MaxPending = 2
INVARIANTS OfferWithinBounds StreakIsEvidence
PROPERTIES ClearedOnSustainedEvidence SlowStartReachesCeiling ReclimbsSafeZone
CHECK_DEADLOCK FALSE
