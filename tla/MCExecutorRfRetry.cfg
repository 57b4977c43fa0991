CONSTANTS
    Length = 2
    Kinds <- MCFaultKinds
    Watches = {TRUE}
    Breakpoints <- MCBreakpoints
    MaxFaultRetries = 3
    MaxFrames = 1
    FaultVerdicts = {"stop", "retry"}
    TrapVerdicts = {"continue"}
    HookVerdicts = {"continue"}
SPECIFICATION Spec
INVARIANT
    SuppressedStepNoBreakpoint
