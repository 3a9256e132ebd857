SPECIFICATION Spec
CONSTANTS
    r1 = r1
    r2 = r2
    m1 = m1
    NoModel = NoModel
    NoRun = NoRun
    NoKey = NoKey
    Stages = {"COMPILING"}
    Runs = {r1}
    Models = {}
    ModelOf <- OneConversion
    MaxAttempts = 1
    FaultKinds = {}
    MaxFaults = 0
    MaxCrashes = 1
CHECK_DEADLOCK FALSE
INVARIANT NoLeftoverContainer
