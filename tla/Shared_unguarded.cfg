SPECIFICATION Spec
CONSTANTS
    main = main
    linked = linked
    a = a
    b = b
    prop = prop
    rec = rec
    nothing = nothing
    Trees = {main, linked}
    Procs = {a, b}
    Home <- MCTogether
    Proposals = {prop}
    Locals = {rec}
    Nothing = nothing
    MaxOps = 2
    MaxIndexes = 1
    MaxFailures = 1
    MaxEdits = 0
    UnderUse = TRUE
    LockFreeReplay = TRUE
PROPERTY SharedMovesForward
CHECK_DEADLOCK FALSE
