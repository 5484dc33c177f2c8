\* PHIs that start at zero or at one.
SPECIFICATION PipelineSpec
CONSTANTS
    Widths = {2}
    Int64Bits = 2
    Starts = {0, 1}
    Canonical = {2}
    MaxIteration = 5
    Functions <- OneLoop
INVARIANT
    SameValues
