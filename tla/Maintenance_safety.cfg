SPECIFICATION Spec
CONSTANTS
    N = 2
    Procs = {p1, p2}
    NoProc = none
    MaxCrashes = 2
    MaxFaults = 1
    MaxEdits = 2
    MaxRestores = 1
    MaxRebuilds = 0
    TornWrites = TRUE
    EditInWindow = FALSE
INVARIANTS TypeOK EvidenceComplete Uniform MarkerIsOwn
PROPERTIES CommittedStays EditsSurvive WritesAreJournaled SuccessMeansIndexed ImplementsDecision
SYMMETRY Symmetry
