SPECIFICATION FairSpec
CONSTANTS
    lapsing = lapsing
    opposite = opposite
    twin = twin
    later = later
    episode = episode
    checkpoint = checkpoint
    heir = heir
    fresh = fresh
    nobody = nobody
    NoRecord = nobody
    Records = {lapsing, opposite, twin, checkpoint, heir, fresh}
    Claims = {"yes", "no", "note"}
    Origins = {"first", "second"}
    Opposite <- MCOpposite
    Present <- MCOpposed
    Arriving <- MCTwin
    Groups <- MCConflicts
    op1 = op1
    op2 = op2
    Ops = {op1}
    NoOp = "none"
    Grants = {1}
    NoGrant = 0
    GrantWindow = 2
    Lifetimes = {3}
    PlanWindow = 2
    OrdinaryWindow = 1
    MaximumWindow = 3
    Lease = 2
    SessionCap = 3
    Never = 9
    MaxTime = 2
    MaxEnables = 1
    MaxWrites = 1

INVARIANTS TypeOK NoContradictionRecalled HandedOverIsPast PlansStayTrue MaintenanceFollowsConsent
PROPERTY RecallResumes
CHECK_DEADLOCK FALSE
