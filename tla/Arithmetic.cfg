\* Two comparisons of doubles or of floats, converted twice, or three integer
\* instructions of one, eight or nine bits, and two passes over them.
SPECIFICATION MCSpec
CONSTANTS
    Types = {"double", "float"}
    MaxRuns = 2
    Functions <- MCFunctionsAndNone
    IntFunctions <- MCIntFunctionsAndNone
    Inputs <- MCInputs
    Pipelines <- MCPipelines
    Widths = {1, 8, 9}
    BitXor <- MCXor
    BitAnd <- MCAnd
INVARIANTS
    TypesOK
    OutcomesKept
    StillComplementary
    SameResults
    AllSubstituted
