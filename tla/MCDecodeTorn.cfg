CONSTANTS
    PageCount = 3
    PageSize = 2
    Byte = {0, 1}
    Zero = 0
    Absent = Absent
    MaxEpoch = 3
    MaxLen = 2
    DecodeCacheSize = 1
    CodePageCacheSize = 1
    Modes = {long64, compat32}
    PermSets <- MCPerms
    MapRanges <- MCMapRanges
    Accesses <- MCAccesses
    Rips <- MCRips
    Images <- MCImages
    MmioRanges <- MCMmioRanges
    MaxRegions = 1
    NoHost = NoHost
SPECIFICATION OwnPagesSpec
INVARIANTS
    DecodeFresh
CHECK_DEADLOCK FALSE
