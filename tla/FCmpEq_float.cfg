\* Two comparisons of floats.
SPECIFICATION MCSpec
CONSTANTS
    Types = {"float"}
    MaxRuns = 1
    Functions <- MCFunctionsAndNone
    IntFunctions <- JustNoArithmetic
    Inputs <- MCInputs
    Pipelines <- MCPipelines
    Widths = {8}
    BitXor <- MCXor
    BitAnd <- MCAnd
INVARIANT
    ConvertsAll
