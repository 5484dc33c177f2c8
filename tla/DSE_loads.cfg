\* Stores and loads of x in one block.
SPECIFICATION Spec
CONSTANTS
    Shapes = {"straight"}
    MaxInsts <- ThreeEach
    Instructions <- MCLoads
    Functions <- MCFunctions
INVARIANT
    LoadsPreserved
