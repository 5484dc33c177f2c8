\* A program of two functions and two threads; counters that wrap around; the pass run
\* up to twice.
SPECIFICATION FairSpec
CONSTANTS
    Defined = {foo, bar}
    Wrapper = printf_wrapper
    Threads = {main, t1}
    Main = main
    Modulus = 3
    MaxPasses = 2
    MaxCalls = 4
INVARIANTS
    TypeOK
    CountBounds
    CountsExecutions
PROPERTIES
    PromiseKept
    ReportsAtExit
