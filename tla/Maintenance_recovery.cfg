SPECIFICATION RetryingSpec
CONSTANTS
    N = 2
    Procs = {p1, p2}
    NoProc = none
    MaxCrashes = 2
    MaxFaults = 1
    MaxEdits = 0
    MaxRestores = 0
    MaxRebuilds = 1
    TornWrites = FALSE
    EditInWindow = FALSE
INVARIANTS Uniform
PROPERTIES RecoveryConverges RetriesSucceed
