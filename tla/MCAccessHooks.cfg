CONSTANTS
    AccessKinds = {"fetch", "read", "write"}
    Masks <- MCMasks
    MaxHooks = 4
    MaxRemoved = 2
    Depth = 1
    Throws = TRUE
SPECIFICATION Spec
INVARIANTS
    SummaryCoversHooks
    AccessChangesTakeEffect
    WalkedHooksStable
CHECK_DEADLOCK FALSE
