SPECIFICATION RetryingSpec
CONSTANTS
    N = 2
    Procs = {p1, p2}
    NoProc = none
    MaxCrashes = 1
    MaxFaults = 0
    MaxEdits = 0
    MaxRestores = 0
    MaxRebuilds = 0
    TornWrites = TRUE
    EditInWindow = FALSE
PROPERTIES RecoveryConverges
