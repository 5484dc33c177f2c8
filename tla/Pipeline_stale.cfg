\* With what dead-store and simple-licm declare preserved.
SPECIFICATION Spec
CONSTANTS
    Wrapper = "printf_wrapper"
    Module = "module"
    CommandLines <- MCCommandLines
    Functions <- MCFunctions
    Modules <- MCModules
    OptNone <- MCOptNone
INVARIANT
    AlwaysFresh
