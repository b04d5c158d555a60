SPECIFICATION Spec
CONSTANTS
    r1 = r1  r2 = r2  r3 = r3
    a = a  b = b
    Runs <- TwoRuns
    Sops <- OneSop
    SopOf <- AllA
    Steps <- TwoSteps
    Gated <- GateAtTwo
    Deterministic <- OneSop
    Policy <- AllHold
    MaxConcurrent <- TwoEach
    MaxTotal = 2
    MaxPending <- Unbounded
    MaxFinished = 1
    Faults = {"save", "release", "mark", "file"}
SYMMETRY SameSopRuns
INVARIANTS
    HoldIsSerial
