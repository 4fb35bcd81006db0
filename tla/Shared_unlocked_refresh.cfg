SPECIFICATION Spec
CONSTANTS
    main = main
    linked = linked
    a = a
    b = b
    prop = prop
    rec = rec
    nothing = nothing
    Trees = {main, linked}
    Procs = {a, b}
    Home <- MCApart
    Proposals = {prop}
    Locals = {rec}
    Nothing = nothing
    MaxOps = 1
    MaxIndexes = 0
    MaxFailures = 0
    MaxEdits = 0
    UnderUse = FALSE
    LockFreeReplay = TRUE
INVARIANT AckedIsShared
CHECK_DEADLOCK FALSE
