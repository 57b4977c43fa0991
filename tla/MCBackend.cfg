CONSTANTS
    AddrSpace = 8
    MaxHookId = 4
    MaxMade = 2
    Devices = {d1, d2}
    NoDevice = NoDevice
    MmioRanges <- MCRanges
    HostRanges <- MCHostRanges
SYMMETRY DeviceSymmetry
SPECIFICATION BackendSpec
INVARIANTS
    BoundsNeverHide
    RegionIdsUnique
    RestoredDevices
    HandlesOwnHooks
