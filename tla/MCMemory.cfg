CONSTANTS
    AddrSpace = 3
    PageCount = 3
    PageSize = 1
    TlbSize = 1
    Byte = {0, 1}
    Zero = 0
    Objects = {o1, o2}
    Null = Null
    MaxEpoch = 3
    MaxHookId = 2
    PermSets <- MCPerms
    MapRanges <- MCMapRanges
    Accesses <- MCAccesses
    MmioRanges <- MCRegions
SYMMETRY ObjectSymmetry
SPECIFICATION Spec
INVARIANTS
    TlbCoherent
    WalksStopAtEnd
PROPERTIES
    ImplementsPageTable
CHECK_DEADLOCK FALSE
