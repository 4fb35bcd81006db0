SPECIFICATION FairSpec
CONSTANTS
    main = main
    linked = linked
    a = a
    b = b
    prop = prop
    rec = rec
    nothing = nothing
    Trees = {main, linked}
    Procs = {a, b}
    Home <- MCApart
    Proposals = {prop}
    Locals = {rec}
    Nothing = nothing
    MaxOps = 2
    MaxIndexes = 1
    MaxFailures = 1
    MaxEdits = 1
    UnderUse = FALSE
    LockFreeReplay = FALSE
INVARIANTS TypeOK InstalledOnce AckedIsShared MarkersAreJournaled IndexNotAhead MirrorIsFresh
PROPERTY JournalSettles
CHECK_DEADLOCK FALSE
