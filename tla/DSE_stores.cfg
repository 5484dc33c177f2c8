\* Stores of a word and of a byte, and volatile stores, to x in one block.
SPECIFICATION Spec
CONSTANTS
    Shapes = {"straight"}
    MaxInsts <- ThreeEach
    Instructions <- MCOtherStores
    Functions <- MCFunctions
INVARIANTS
    FinalMemoryPreserved
    VolatileKept
