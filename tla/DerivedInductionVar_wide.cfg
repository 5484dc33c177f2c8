\* Integers wider than int64_t, and negative steps.
SPECIFICATION PipelineSpec
CONSTANTS
    Widths = {3}
    Int64Bits = 2
    Starts = {0}
    Canonical = {3}
    MaxIteration = 9
    Functions <- OneLoop
INVARIANT
    SameValues
