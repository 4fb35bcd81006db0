SPECIFICATION Spec
CONSTANTS
    main = main
    linked = linked
    a = a
    b = b
    prop = prop
    rec = rec
    nothing = nothing
    Trees = {main, linked}
    Procs = {a, b}
    Home <- MCTogether
    Proposals = {prop}
    Locals = {rec}
    Nothing = nothing
    MaxOps = 1
    MaxIndexes = 1
    MaxFailures = 0
    MaxEdits = 0
    UnderUse = TRUE
    LockFreeReplay = FALSE
INVARIANT AckedIsShared
CHECK_DEADLOCK FALSE
