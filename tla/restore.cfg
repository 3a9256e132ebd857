SPECIFICATION Spec
CONSTANTS
    a1 = a1
    r1 = r1
    AssetChildren = {a1}
    RunChildren = {r1}
    MaxFaults = 2
    MaxCrashes = 1
CHECK_DEADLOCK FALSE
INVARIANTS WalFitsDatabase FailedIsUndone DoneIsArchive OldIsKept
