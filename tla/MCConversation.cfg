SPECIFICATION Spec
CONSTANTS
    Subject <- MCSubject
    Term <- MCTerm
    Recency <- MCRecency
    Chats <- MCChats
    RecencyWindow = 2
INVARIANTS
    RetractionIsForward
    CorrectionsStand
    WindowKept
    RetractedNeverWhole
    RepairIsPossible
    CopiesStayCovered
CHECK_DEADLOCK FALSE
