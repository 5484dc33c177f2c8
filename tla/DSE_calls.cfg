\* Stores through u, and calls that may write through it.
SPECIFICATION Spec
CONSTANTS
    Shapes = {"straight"}
    MaxInsts <- ThreeEach
    Instructions <- MCCalls
    Functions <- MCFunctions
INVARIANT
    ComparedWithStore
