\* An invoke with a result, and a block below its landing pad.
SPECIFICATION PipelineSpec
CONSTANTS
    Shapes = {"invoke"}
    Bodies <- MCBodies
    Functions <- MCFunctions
    Opcode <- MCOpcode
INVARIANT
    OperandsAvailable
