CONSTANTS
    Length = 3
    Kinds <- MCDebugKinds
    Watches = {TRUE, FALSE}
    Breakpoints <- MCBreakpoints
    MaxFaultRetries = 2
    MaxFrames = 2
    FaultVerdicts = {"stop"}
    TrapVerdicts = {"continue"}
    HookVerdicts = {"continue"}
SPECIFICATION Spec
INVARIANTS
    DebugReasonsAccounted
    PendingOnlyInShadow
    BreakpointsExact
