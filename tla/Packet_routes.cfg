SPECIFICATION FairSpec
CONSTANTS
    A = A
    B = B
    one = one
    two = two
    NoProc = NoProc
    Trees = {A, B}
    Procs = {one, two}
    Items = {1, 2}
    Target = Target
    Changes <- MCChanges
    Cases <- MCCases
    Batches = {{1, 2}}
    MaxCopies = 2
    MaxAttempts = 2
    MaxVersion = 2
    TornWrites = TRUE
INVARIANTS TypeOK OutcomesAreBacked PacketsAreAccountedFor ResolutionMatchesRecords OneDecisionPerRecord NoTwins
PROPERTIES ImplementsPacketLife JournalsSettle
CHECK_DEADLOCK FALSE
