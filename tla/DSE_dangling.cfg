\* Stores in two blocks, one after the other.
SPECIFICATION Spec
CONSTANTS
    Shapes = {"chain"}
    MaxInsts <- ThreeEach
    Instructions <- MCStores
    Functions <- MCFunctions
INVARIANT
    NoDanglingAccess
