\* Blocks that may start with a PHI.
SPECIFICATION Spec
CONSTANTS
    Shapes <- MCDiamond
    Codes = {"add", "phi"}
    Functions <- MCFunctions
INVARIANT
    PhisMatchEdges
