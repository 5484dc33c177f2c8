------------------------------- MODULE CallCounts ------------------------------
(***************************************************************************)
(* What DynamicCallCounter promises (the header of                         *)
(* lib/DynamicCallCounter.cpp): a count per function that goes up every    *)
(* time the function executes, and one report of the counts at the end.    *)
(* The increments are not atomic: once there is a second thread, calls may *)
(* be lost, but none is invented.                                          *)
(***************************************************************************)
EXTENDS Naturals

CONSTANTS Defined,      \* the functions defined in the module
          Modulus       \* a count is an unsigned integer below it

VARIABLES
    executed,   \* how often each function has executed
    sequential, \* there has been only one thread
    report      \* the counts reported: no function's before the end
vars == <<executed, sequential, report>>

NoReport == [f \in {} |-> 0]

Init ==
    /\ executed = [f \in Defined |-> 0]
    /\ sequential = TRUE
    /\ report = NoReport

Execute(f) ==
    /\ report = NoReport
    /\ executed' = [executed EXCEPT ![f] = @ + 1]
    /\ UNCHANGED <<sequential, report>>

StartThread ==
    /\ report = NoReport
    /\ sequential' = FALSE
    /\ UNCHANGED <<executed, report>>

Report ==
    /\ report = NoReport
    /\ \E counts \in [Defined -> 0..(Modulus - 1)] :
          /\ \A f \in Defined : IF sequential THEN counts[f] = executed[f] % Modulus
                                ELSE executed[f] < Modulus => counts[f] <= executed[f]
          /\ report' = counts
    /\ UNCHANGED <<executed, sequential>>

Next == Report \/ StartThread \/ \E f \in Defined : Execute(f)

Spec == Init /\ [][Next]_vars
================================================================================
