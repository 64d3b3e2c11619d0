SPECIFICATION PunctualSpec
CONSTANTS
    Record = {r1, r2}
    Worker = {w1}
    Runner = {k1, k2}
    WorkerQueues = {"default"}
    Last = 34
    Backlog = 1
    None = None
INVARIANTS
    RemindedOnce
    EscalatedOnce
    EscalatedIsOverdue
    OverdueOnTime
SYMMETRY Symmetry
CHECK_DEADLOCK FALSE
