SPECIFICATION Spec
CONSTANTS
    Record = {r1}
    Worker = {w1, w2}
    Runner = {k1, k2}
    WorkerQueues = {"default"}
    Last = 20
    Backlog = 1
    None = None
INVARIANTS
    FlagsAreTimely
    EscalatedIsAnnounced
SYMMETRY Symmetry
CHECK_DEADLOCK FALSE
