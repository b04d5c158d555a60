SPECIFICATION Spec
CONSTANTS
    r1 = r1  r2 = r2  r3 = r3
    a = a  b = b
    Runs <- ThreeRuns
    Sops <- TwoSops
    SopOf <- SecondIsB
    Steps <- TwoSteps
    Gated <- GateAtTwo
    Deterministic <- OnlyB
    Policy <- AllParallel
    MaxConcurrent <- OneEach
    MaxTotal = 1
    MaxPending <- OneEach
    MaxFinished = 1
    Faults = {"save", "renew", "load"}
SYMMETRY SameSopRuns
INVARIANTS
    GateBeforeRunning
PROPERTIES
    GatedStepNotSkipped
