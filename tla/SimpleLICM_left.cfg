\* Instructions that may be unsafe to speculate.
SPECIFICATION Spec
CONSTANTS
    NInsts = 2
    Kinds = {"safe", "unsafe"}
    SmallSize = 3
    NoPreheader = NoPreheader
    Functions <- MCFunctions
INVARIANTS
    AllInvariantsHoisted
    OperandsFirst
