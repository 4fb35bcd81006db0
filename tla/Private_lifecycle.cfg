SPECIFICATION Spec
CONSTANTS
    lapsing = lapsing
    opposite = opposite
    twin = twin
    later = later
    episode = episode
    checkpoint = checkpoint
    heir = heir
    fresh = fresh
    nobody = nobody
    NoRecord = nobody
    Records = {lapsing, opposite, later, episode, checkpoint, fresh}
    Claims = {"yes", "no", "note"}
    Origins = {"first", "second"}
    Opposite <- MCOpposite
    Present <- MCPresent
    Arriving <- MCArriving
    Groups <- MCGroups
    op1 = op1
    op2 = op2
    Ops = {op1, op2}
    NoOp = "none"
    Grants = {1, 2}
    NoGrant = 0
    GrantWindow = 2
    Lifetimes = {2}
    PlanWindow = 2
    OrdinaryWindow = 1
    MaximumWindow = 3
    Lease = 2
    SessionCap = 3
    Never = 9
    MaxTime = 3
    MaxEnables = 0
    MaxWrites = 1
SYMMETRY MCSymmetry
INVARIANTS FactsAreManageable SuccessionEnds AckedIsMirrored
PROPERTIES ClocksNeverShrink OwnerDecides
CHECK_DEADLOCK FALSE
