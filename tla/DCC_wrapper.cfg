\* A program with a function named printf_wrapper of its own.
SPECIFICATION FairSpec
CONSTANTS
    Defined = {foo, printf_wrapper}
    Wrapper = printf_wrapper
    Threads = {main}
    Main = main
    Modulus = 8
    MaxPasses = 1
    MaxCalls = 2
PROPERTY
    ReportsAtExit
