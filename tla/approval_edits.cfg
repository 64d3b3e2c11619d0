SPECIFICATION Spec
CONSTANTS
    r1 = r1
    r2 = r2
    Entity = {r1, r2}
    Worker = {w1, w2}
    Plan = {p1, p2}
    KindOf <- PaperAndProgram
    ClientStatuses = {"under_review", "pending"}
    None = None
INVARIANTS
    TypeOK
    ApprovalAttributable
PROPERTIES
    NoPlanReplaced
SYMMETRY Symmetry
