SPECIFICATION FairReliableSpec
CONSTANTS
    r1 = r1
    r2 = r2
    Entity = {r1, r2}
    Worker = {w1, w2}
    Plan = {p1, p2, p3}
    KindOf <- PlanAndUniverse
    ClientStatuses = {}
    None = None
INVARIANTS
    AtMostOneOpenPlan
    DraftIsSubmittable
    NoDecisionLost
PROPERTIES
    ImplementsContract
    DecisionReflected
CHECK_DEADLOCK FALSE
