SPECIFICATION Spec
CONSTANTS
    d1 = d1
    d2 = d2
    p1 = p1
    u1 = u1
    a = a
    b = b
    Loads <- OneLoad
    Directorate = {d1, d2}
    Department = {p1}
    Unit = {u1}
    Section = {}
    Code = {a, b}
    Runner = {r1, r2}
    MaxRetries = 1
    MaxChanges = 1
    None = None
INVARIANTS
    CompletedMirrors
PROPERTIES
    RightRowsStay
SYMMETRY Symmetry
