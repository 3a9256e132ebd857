SPECIFICATION Spec
CONSTANTS
    r1 = r1
    r2 = r2
    m1 = m1
    NoModel = NoModel
    NoRun = NoRun
    NoKey = NoKey
    Stages = {"COMPILING"}
    Runs = {r1, r2}
    Models = {}
    ModelOf <- TwoConversions
    MaxAttempts = 1
    FaultKinds = {"create", "start", "attach", "remove"}
    MaxFaults = 1
    MaxCrashes = 1
CHECK_DEADLOCK FALSE
SYMMETRY RunSymmetry
INVARIANTS RunningIsSupervised WorkIsSupervised QueuedIsRemembered
PROPERTY ImplementsSlot
