SPECIFICATION Spec
CONSTANTS
    ByteBits = 3
    FirstBytes = 1
    FieldBits = 5
    CrcPoly = 2779
    Addresses <- MCAddresses
    OtherHandler <- OtherHandlers
    Scenarios <- MCScenarios
INVARIANTS
    ArithmeticExact
    ShiftsExact
    MulDivExact
    BitsAndDigitsExact
    BranchMatchesComparison
    StackRoundTrip
    IntegerRegisterRule
    RetryIsTransparent
    FaultFootprint
    StringOpsExact
    TrapResumes
    VectorsExact
    VectorDestinationRule
    VectorRoundTrip
    StringCompareExact
    X87Exact
    X87RoundTrip
CHECK_DEADLOCK FALSE
