\* Every graph of 4 blocks with at most two-way branches, with and without invokes.
SPECIFICATION FairSpec
CONSTANTS
    NBlocks = 4
    Functions <- MCFunctions
INVARIANTS
    TypeOK
    RIVSound
    RIVComplete
PROPERTY
    Termination
