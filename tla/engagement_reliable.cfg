SPECIFICATION FairReliableSpec
CONSTANTS
    Member = {m1, m2}
    Documented = {m1}
    Worker = {w1, w2}
    Plan = {p1, p2}
    ClientStatuses = {}
    Bodies <- Waivers
    None = None
INVARIANTS
    RunningPlanOnRecord
    RowFollowsWO
    TeamIsStamped
PROPERTIES
    ImplementsContract
    EndDelivered
CHECK_DEADLOCK FALSE
