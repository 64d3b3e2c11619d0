SPECIFICATION FaultySpec
CONSTANTS
    Member = {m1, m2}
    Documented = {m1}
    Worker = {w1, w2}
    Plan = {p1, p2}
    ClientStatuses = {}
    Bodies <- NoBodies
    None = None
INVARIANTS
    TypeOK
    SignedBeforeFieldwork
    CompletedByWO
SYMMETRY Symmetry
