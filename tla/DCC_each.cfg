\* Two threads in one function, or the pass run twice on a module.
SPECIFICATION Spec
CONSTANTS
    Defined = {foo}
    Wrapper = printf_wrapper
    Threads = {main, t1}
    Main = main
    Modulus = 8
    MaxPasses = 2
    MaxCalls = 2
INVARIANT
    CountsEveryExecution
