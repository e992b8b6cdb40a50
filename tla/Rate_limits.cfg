SPECIFICATION FairSpec
CONSTANTS
    Rates <- MCRates
    First <- MCFirst
    MaxActive = 3
    Interval = 2
    TickMax = 4
    MaxSince = 5
    MaxBacklog = 2
    MaxWaiters = 2
INVARIANTS Conserved BurstBounded
CHECK_DEADLOCK FALSE
PROPERTIES AcquireServed
