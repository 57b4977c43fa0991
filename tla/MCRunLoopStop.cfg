CONSTANTS
    Slice = 2
    Counts = {0}
    Outcomes <- MCSpin
SPECIFICATION Spec
PROPERTY
    StopPreemptsStart
