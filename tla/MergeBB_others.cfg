\* A block without predecessors, and one that an invoke leads to.
SPECIFICATION Spec
CONSTANTS
    Shapes <- MCOthers
    Codes = {"empty", "add"}
    Functions <- MCFunctions
INVARIANTS
    BranchTargetUpdated
    RetainedReachedByBranches
