CONSTANTS
    Finding = {f1}
    Worker = {w1, w2}
    HasDocument = TRUE
    ClientStatuses = {}
    Decisions = 1
    None = None
SPECIFICATION FairSpec
INVARIANTS ApprovedIsReviewed AnnouncedOncePerApproval NoFindingForgotten
PROPERTIES ImplementsContract OnlyStaleRequestsUndo FindingsAnnounced
