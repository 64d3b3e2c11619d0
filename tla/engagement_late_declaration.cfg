SPECIFICATION Spec
CONSTANTS
    Member = {m1}
    Documented = {m1}
    Worker = {w1, w2}
    Plan = {p1}
    ClientStatuses = {}
    Bodies <- Waivers
    None = None
PROPERTIES
    LeavesPlanningSigned
SYMMETRY Symmetry
