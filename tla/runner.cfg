CONSTANTS
    Offers <- MCOffers
    Watched <- MCWatched
    MaxFaults = 1
    MaxConnections = 2
SPECIFICATION Spec
INVARIANTS
    ResultIsBacked
    AcceptedIsRunnable
    StreamIsComplete
PROPERTIES
    StreamEnds
CHECK_DEADLOCK FALSE
