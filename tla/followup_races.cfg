CONSTANTS
    Finding = {f1}
    Recommendation = {r1}
    Worker = {w1, w2}
    FindingBodies = {"draft", "discussed", "final"}
    RecommendationBodies = {}
    Rehomes = {}
    None = None
SPECIFICATION Spec
SYMMETRY Perms
INVARIANTS RestsOnFinal MonitoredWorkBegan
PROPERTIES ImplementsContract OnlyStaleRequestsUndo
