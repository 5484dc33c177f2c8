\* PHIs that start at zero, of one to four bits where int64_t has three; loop nests.
SPECIFICATION PipelineSpec
CONSTANTS
    Widths = {1, 2, 3, 4}
    Int64Bits = 3
    Starts = {0}
    Canonical = {0, 1, 2, 3, 4}
    MaxIteration = 17
    Functions <- MCFunctions
INVARIANTS
    TypeOK
    SameValues
    ReachedLoopsDone
    ReportedOnce
