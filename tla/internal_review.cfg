SPECIFICATION Spec
CONSTANTS
    Item = {i1, i2}
    Worker = {w1, w2}
    ClientStatuses = {}
    None = None
PROPERTIES
    ImplementsContract
    ClosedChangesAreStale
    ItemsKept
    OnlyStaleRequestsHollow
SYMMETRY Symmetry
CHECK_DEADLOCK FALSE
