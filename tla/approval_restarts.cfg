SPECIFICATION FairRestartSpec
CONSTANTS
    r1 = r1
    r2 = r2
    Entity = {r1, r2}
    Worker = {w1, w2}
    Plan = {p1, p2}
    KindOf <- UniverseAndPaper
    ClientStatuses = {}
    None = None
PROPERTIES
    PaperDecisionStands
    ApprovalDelivered
CHECK_DEADLOCK FALSE
