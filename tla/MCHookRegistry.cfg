CONSTANTS
    Kinds = {"instruction", "code", "execution", "trap", "stop"}
    Points = {"instruction", "execution", "trap", "stop"}
    Mutators = {"instruction", "trap"}
    MaxHooks = 3
    MaxPending = 3
    Depth = 1
    Throws = TRUE
SPECIFICATION Spec
INVARIANTS
    MutationsTakeEffect
    WalkedListsStable
CHECK_DEADLOCK FALSE
