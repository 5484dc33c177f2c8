\* Every data-flow graph over three instructions in a nest of two loops.
SPECIFICATION FairSpec
CONSTANTS
    NInsts = 3
    Kinds = {"safe", "unsafe", "opaque"}
    SmallSize = 3
    NoPreheader = NoPreheader
    Functions <- MCFunctions
INVARIANTS
    TypeOK
    SafeOperandsFirst
    HoistedInvariant
    FixpointComplete
PROPERTY
    Termination
