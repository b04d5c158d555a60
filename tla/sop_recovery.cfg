SPECIFICATION FairSpec
CONSTANTS
    r1 = r1  r2 = r2  r3 = r3
    a = a  b = b
    Runs <- TwoRuns
    Sops <- OneSop
    SopOf <- AllA
    Steps <- TwoSteps
    Gated <- GateAtTwo
    Deterministic <- OneSop
    Policy <- AllParallel
    MaxConcurrent <- OneEach
    MaxTotal = 1
    MaxPending <- Unbounded
    MaxFinished = 1
    Faults = {"save", "release", "finish", "mark"}
PROPERTIES
    FinishedStaysFinished
    NoRunForgotten
    OrphanClaimsReturn
    UnsavedParksSettle
