SPECIFICATION FairSpec
CONSTANTS
    r1 = r1
    r2 = r2
    m1 = m1
    NoModel = NoModel
    NoRun = NoRun
    NoKey = NoKey
    Stages = {"COMPILING"}
    Runs = {r1, r2}
    Models = {}
    ModelOf <- TwoConversions
    MaxAttempts = 1
    FaultKinds = {"start", "attach"}
    MaxFaults = 1
    MaxCrashes = 0
CHECK_DEADLOCK FALSE
PROPERTIES ImplementsSlot EveryAttemptEnds CancelledLeavesNothing
