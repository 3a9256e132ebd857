SPECIFICATION FairSpec
CONSTANTS
    k1 = k1
    c1 = c1
    c2 = c2
    NoTask = NoTask
    Nowhere = Nowhere
    Tasks = {k1}
    Connections = {c1, c2}
    MaxEdits = 2
    KeepRemote = FALSE
    MaxFaults = 0
    MaxCrashes = 1
CHECK_DEADLOCK FALSE
INVARIANTS DevicesTypeOK ReadyIsProbed TaskFitsDevice CredentialFits
PROPERTIES ImplementsTasks QueuedTaskEnds
