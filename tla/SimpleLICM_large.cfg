\* More invariant instructions than the set keeps in an array.
SPECIFICATION Spec
CONSTANTS
    NInsts = 2
    Kinds = {"safe"}
    SmallSize = 1
    NoPreheader = NoPreheader
    Functions <- MCFunctions
INVARIANT
    SafeOperandsFirst
