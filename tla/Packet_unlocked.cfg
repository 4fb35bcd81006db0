SPECIFICATION Spec
CONSTANTS
    A = A
    B = B
    one = one
    two = two
    NoProc = NoProc
    Trees = {A, B}
    Procs = {one, two}
    Items = {1, 2}
    Target = Target
    Changes <- MCChanges
    Cases <- MCUnlocked
    Batches = {{1}, {2}}
    MaxCopies = 1
    MaxAttempts = 3
    MaxVersion = 1
    TornWrites = FALSE
INVARIANT OutcomesAreBacked
CHECK_DEADLOCK FALSE
