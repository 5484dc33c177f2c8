\* Two transforming passes between two runs of a reporting one.
SPECIFICATION Spec
CONSTANTS
    Wrapper = "printf_wrapper"
    Module = "module"
    CommandLines <- MCCommandLines
    Functions <- MCFunctions
    Modules <- MCModules
    OptNone <- MCOptNone
INVARIANTS
    TypeOK
    CacheFresh
    AnalysesKnown
PROPERTY
    ReportsAnew
