\* Stores of words over every shape.
SPECIFICATION Spec
CONSTANTS
    Shapes = {"straight", "chain", "diamond", "loop"}
    MaxInsts <- ThreeEach
    Instructions <- MCStores
    Functions <- MCFunctions
INVARIANTS
    TypeOK
    KillerSurvives
    FinalMemoryPreserved
PROPERTIES
    IteratorSafe
