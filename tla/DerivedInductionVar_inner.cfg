\* Nests of loops with and without a canonical induction variable.
SPECIFICATION PipelineSpec
CONSTANTS
    Widths = {2}
    Int64Bits = 2
    Starts = {0}
    Canonical = {0, 2}
    MaxIteration = 5
    Functions <- Nests
INVARIANT
    InnerLoopsDone
