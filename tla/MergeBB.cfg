\* Every function of four shapes.
SPECIFICATION Spec
CONSTANTS
    Shapes <- MCBranches
    Codes <- MCCodes
    Functions <- MCFunctions
INVARIANTS
    TypeOK
    DeletedAreDead
    SameBehaviour
    PhisMatchEdges
