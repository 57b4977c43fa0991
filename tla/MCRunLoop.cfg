CONSTANTS
    Slice = 3
    Counts = {0, 1, 4}
    Outcomes <- MCOutcomes
SPECIFICATION Spec
INVARIANTS
    RunNotifiesOnce
    RetiredWithinLimit
    StopWithinOneInstruction
PROPERTY
    StopEndsCall
