SPECIFICATION Spec
CONSTANTS
    N = 2
    Procs = {p1, p2}
    NoProc = none
    MaxCrashes = 0
    MaxFaults = 0
    MaxEdits = 1
    MaxRestores = 0
    MaxRebuilds = 0
    TornWrites = FALSE
    EditInWindow = TRUE
PROPERTIES EditsSurvive
SYMMETRY Symmetry
