SPECIFICATION Spec
CONSTANTS
    r1 = r1
    r2 = r2
    m1 = m1
    NoModel = NoModel
    NoRun = NoRun
    NoKey = NoKey
    Stages = {"COMPILING"}
    Runs = {r1}
    Models = {m1}
    ModelOf <- OneInspection
    MaxAttempts = 2
    FaultKinds = {"list", "identity", "recover", "create", "start", "attach", "stop", "remove"}
    MaxFaults = 1
    MaxCrashes = 1
CHECK_DEADLOCK FALSE
INVARIANTS TypeOK SuccessIsEarned SuccessGate ReadyIsBacked RunFollowsLastAttempt QueuedIsRemembered
PROPERTY ReopenedOnlyByCancel
