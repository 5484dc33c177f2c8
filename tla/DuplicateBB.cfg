\* Three shapes without exceptions.
SPECIFICATION PipelineSpec
CONSTANTS
    Shapes = {"line", "loop", "diamond"}
    Bodies <- MCBodies
    Functions <- MCFunctions
    Opcode <- MCOpcode
INVARIANTS
    PassTypeOK
    OperandsAvailable
    PHIsWellFormed
    SameOnBothPaths
    MergedBack
