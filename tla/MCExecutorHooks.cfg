CONSTANTS
    Length = 2
    Kinds <- MCHookKinds
    Watches = {TRUE}
    Breakpoints <- MCOneBreakpoint
    MaxFaultRetries = 2
    MaxFrames = 1
    FaultVerdicts = {"stop", "retry", "restart", "redirect"}
    TrapVerdicts = {"continue", "handled", "stop"}
    HookVerdicts = {"continue", "skip", "stop", "stop_none"}
SPECIFICATION FairSpec
INVARIANTS
    ViolationIsLastStep
PROPERTY
    StepReturns
