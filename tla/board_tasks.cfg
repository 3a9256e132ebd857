SPECIFICATION Spec
CONSTANTS
    k1 = k1
    k2 = k2
    NoTask = NoTask
    Tasks = {k1, k2}
    KeepRemote = FALSE
    MaxFaults = 1
    MaxCrashes = 1
SYMMETRY TaskSymmetry
CONSTRAINT TroubleBound
CHECK_DEADLOCK FALSE
INVARIANTS TypeOK BoardSuccessGate WorkspaceIsRemoved QueuedIsRemembered ActiveIsExecuting
PROPERTIES ReopenedOnlyByCancel
