SPECIFICATION Spec
CONSTANTS
    r1 = r1  r2 = r2  r3 = r3
    a = a  b = b
    Runs <- ThreeRuns
    Sops <- OneSop
    SopOf <- AllA
    Steps <- TwoSteps
    Gated <- GateAtTwo
    Deterministic <- OneSop
    Policy <- AllParallel
    MaxConcurrent <- TwoEach
    MaxTotal = 2
    MaxPending <- OneEach
    MaxFinished = 1
    Faults = {"save", "release", "mark", "read", "file"}
SYMMETRY SameSopRuns
INVARIANTS
    ExecutingHoldsClaim
    ExecutingWithinCaps
    ParkSurvivesCrash
    RestartAddsNoRun
    PoolWithinBound
    RoomInOwnSop
PROPERTIES
    IsSlotPool
