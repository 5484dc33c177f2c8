--------------------------- MODULE DynamicCallCounter --------------------------
(***************************************************************************)
(* The dynamic call counter (lib/DynamicCallCounter.cpp): the pass that    *)
(* instruments a module, and the instrumented program when it runs.        *)
(*                                                                         *)
(* The pass puts load / add / store of CounterFor_F at the top of every    *)
(* function F defined in the module, gives printf_wrapper a block that     *)
(* prints every counter, and appends printf_wrapper to the module's        *)
(* destructors.  In the program, threads execute the functions; a function *)
(* that calls another one has executed its own prologue before.  When the  *)
(* main thread exits, the destructors run, the others still running.       *)
(***************************************************************************)
EXTENDS Integers, FiniteSets

CONSTANTS
    Defined,        \* the functions defined in the module
    Wrapper,        \* printf_wrapper; in Defined if the program has its own
    Threads, Main,  \* the program's threads; the one that runs main
    Modulus,        \* 2^32: a counter is an i32
    MaxPasses,      \* bound: how often the pass is run on the module
    MaxCalls        \* bound: how often each function is executed

ASSUME ConstantsAssumption ==
    /\ IsFiniteSet(Threads) /\ Main \in Threads
    /\ Modulus \in Nat \ {0}
    /\ MaxPasses \in Nat /\ MaxCalls \in Nat

Names == Defined \cup {Wrapper}
None == -1

VARIABLES
    passes,         \* how often the pass has run
    definitions,    \* the functions with a body
    increments,     \* the increments of its counter at the top of each function
    listed,         \* the functions the entry block of printf_wrapper prints
    dtors,          \* how often printf_wrapper is among the destructors
    phase,          \* "compile", "run", "exit", "ended" or "aborted"
    counter,        \* the global variables CounterFor_F
    started,        \* the threads there have been so far
    thread,         \* each thread's prologue: its function, the increments left
                    \* in it and the value loaded for the next store
    executed,       \* how often each function has been executed (for the properties)
    dtorsLeft,      \* the destructors that have not run yet
    toPrint,        \* the functions printf_wrapper has still to print
    printed         \* the count last printed for each function printed
compiled == <<passes, definitions, increments, listed, dtors>>
exiting == <<dtorsLeft, toPrint, printed>>
vars == <<compiled, phase, counter, started, thread, executed, exiting>>

--------------------------------------------------------------------------------
Init ==
    /\ passes = 0
    /\ definitions = Defined
    /\ increments = [f \in Names |-> 0]
    /\ listed = {}
    /\ dtors = 0
    /\ phase = "compile"
    /\ counter = [f \in Names |-> 0]
    /\ started = {Main}
    /\ thread = [t \in Threads |-> [fn |-> Wrapper, left |-> 0, loaded |-> None]]
    /\ executed = [f \in Names |-> 0]
    /\ dtorsLeft = 0
    /\ toPrint = {}
    /\ printed = [f \in {} |-> 0]

\* A slip: printf_wrapper is not appended to the destructors.
RunPass_NoDtor ==
    /\ phase = "compile" /\ passes < MaxPasses
    /\ passes' = passes + 1
    /\ IF definitions = {} THEN UNCHANGED <<definitions, increments, listed, dtors>>
       ELSE /\ definitions' = definitions \cup {Wrapper}
            /\ increments' = [f \in Names |-> IF f \in definitions THEN increments[f] + 1
                                              ELSE increments[f]]
            /\ listed' = IF Wrapper \in definitions THEN listed ELSE definitions
            /\ UNCHANGED dtors
    /\ UNCHANGED <<phase, counter, started, thread, executed, exiting>>

\* runOnModule, which returns early if no function is defined.  The block that
\* prints is printf_wrapper's entry only if it had none: otherwise no branch leads
\* to it.
RunPass ==
    /\ phase = "compile" /\ passes < MaxPasses
    /\ passes' = passes + 1
    /\ IF definitions = {} THEN UNCHANGED <<definitions, increments, listed, dtors>>
       ELSE /\ definitions' = definitions \cup {Wrapper}
            /\ increments' = [f \in Names |-> IF f \in definitions THEN increments[f] + 1
                                              ELSE increments[f]]
            /\ listed' = IF Wrapper \in definitions THEN listed ELSE definitions
            /\ dtors' = dtors + 1
    /\ UNCHANGED <<phase, counter, started, thread, executed, exiting>>

\* The module has been compiled, and the program starts.
Start ==
    /\ phase = "compile"
    /\ phase' = "run"
    /\ UNCHANGED <<compiled, counter, started, thread, executed, exiting>>

InBody(t) == thread[t].left = 0

\* A thread creates thread t: the program is no longer sequential.
StartThread(t) ==
    /\ phase = "run"
    /\ t \notin started /\ \E u \in started : InBody(u)
    /\ started' = started \cup {t}
    /\ UNCHANGED <<compiled, phase, counter, thread, executed, exiting>>

Enter(t, f) ==
    /\ thread' = [thread EXCEPT ![t] = [fn |-> f, left |-> increments[f], loaded |-> None]]
    /\ executed' = [executed EXCEPT ![f] = @ + 1]

\* Thread t calls f, from the body of a function it is executing.
Execute(t, f) ==
    /\ phase = "run" \/ (phase = "exit" /\ t # Main)
    /\ t \in started /\ InBody(t)
    /\ executed[f] < MaxCalls
    /\ Enter(t, f)
    /\ UNCHANGED <<compiled, phase, counter, started, exiting>>

Running == phase \in {"run", "exit"}

\* Thread t moves on in its prologue.
Proceed(t, left, loaded) ==
    thread' = [thread EXCEPT ![t] = [fn |-> thread[t].fn, left |-> left, loaded |-> loaded]]

\* %1 = load i32, i32* @CounterFor_F
Load(t) ==
    /\ Running /\ ~ InBody(t) /\ thread[t].loaded = None
    /\ Proceed(t, thread[t].left, counter[thread[t].fn])
    /\ UNCHANGED <<compiled, phase, counter, started, executed, exiting>>

\* A slip: what was loaded is stored.
Store_ForgetsAdd(t) ==
    /\ Running /\ ~ InBody(t) /\ thread[t].loaded # None
    /\ counter' = [counter EXCEPT ![thread[t].fn] = thread[t].loaded]
    /\ Proceed(t, thread[t].left - 1, None)
    /\ UNCHANGED <<compiled, phase, started, executed, exiting>>

\* The addition in a wider type than the counter's.
Store_NoWrap(t) ==
    /\ Running /\ ~ InBody(t) /\ thread[t].loaded # None
    /\ counter' = [counter EXCEPT ![thread[t].fn] = thread[t].loaded + 1]
    /\ Proceed(t, thread[t].left - 1, None)
    /\ UNCHANGED <<compiled, phase, started, executed, exiting>>

\* %2 = add i32 1, %1;  store i32 %2, i32* @CounterFor_F
Store(t) ==
    /\ Running /\ ~ InBody(t) /\ thread[t].loaded # None
    /\ counter' = [counter EXCEPT ![thread[t].fn] = (thread[t].loaded + 1) % Modulus]
    /\ Proceed(t, thread[t].left - 1, None)
    /\ UNCHANGED <<compiled, phase, started, executed, exiting>>

\* main returns, or its thread calls exit.
Exit ==
    /\ phase = "run" /\ InBody(Main)
    /\ phase' = "exit"
    /\ dtorsLeft' = dtors
    /\ UNCHANGED <<compiled, counter, started, thread, executed, toPrint, printed>>

\* A destructor is called: printf_wrapper, once per time it is among them.
CallWrapper ==
    /\ phase = "exit" /\ InBody(Main) /\ toPrint = {} /\ dtorsLeft > 0
    /\ dtorsLeft' = dtorsLeft - 1
    /\ toPrint' = listed
    /\ Enter(Main, Wrapper)
    /\ UNCHANGED <<compiled, phase, counter, started, printed>>

\* printf_wrapper loads a counter and prints it, in the order of a StringMap.
PrintCount(f) ==
    /\ phase = "exit" /\ InBody(Main) /\ f \in toPrint
    /\ toPrint' = toPrint \ {f}
    /\ printed' = [g \in DOMAIN printed \cup {f} |-> IF g = f THEN counter[f] ELSE printed[g]]
    /\ UNCHANGED <<compiled, phase, counter, started, thread, executed, dtorsLeft>>

\* The process is gone before printf_wrapper has printed every counter.
End_Early ==
    /\ phase = "exit" /\ InBody(Main) /\ dtorsLeft = 0
    /\ phase' = "ended"
    /\ UNCHANGED <<compiled, counter, started, thread, executed, exiting>>

\* The last destructor has returned.
End ==
    /\ phase = "exit" /\ InBody(Main) /\ toPrint = {} /\ dtorsLeft = 0
    /\ phase' = "ended"
    /\ UNCHANGED <<compiled, counter, started, thread, executed, exiting>>

\* The program ends without running its destructors.
Abort ==
    /\ Running
    /\ phase' = "aborted"
    /\ UNCHANGED <<compiled, counter, started, thread, executed, exiting>>

Over == phase \in {"ended", "aborted"} /\ UNCHANGED vars

Next ==
    \/ RunPass \/ Start \/ Exit \/ CallWrapper \/ End \/ Abort \/ Over
    \/ \E t \in Threads : StartThread(t) \/ Load(t) \/ Store(t) \/ \E f \in Defined : Execute(t, f)
    \/ \E f \in Names : PrintCount(f)

Spec == Init /\ [][Next]_vars

\* The main thread is scheduled until the process has ended.
FairSpec ==
    /\ Spec
    /\ WF_vars(Load(Main) \/ Store(Main) \/ CallWrapper \/ End \/ \E f \in Names : PrintCount(f))

--------------------------------------------------------------------------------
\* The threads that have called f and not counted the call yet.
InFlight(f) == {t \in Threads : ~ InBody(t) /\ thread[t].fn = f}

Counts == [Names -> 0..(Modulus - 1)]

TypeOK ==
    /\ definitions \subseteq Names /\ listed \subseteq definitions
    /\ increments \in [Names -> 0..passes] /\ passes \in 0..MaxPasses
    /\ dtors \in 0..passes /\ dtorsLeft \in 0..dtors
    /\ phase \in {"compile", "run", "exit", "ended", "aborted"}
    /\ counter \in Counts
    /\ Main \in started /\ started \subseteq Threads
    /\ thread \in [Threads -> [fn : Names, left : Nat, loaded : 0..(Modulus - 1) \cup {None}]]
    /\ executed \in [Names -> Nat]
    /\ toPrint \subseteq listed
    /\ DOMAIN printed \subseteq listed
    /\ \A f \in DOMAIN printed : printed[f] \in 0..(Modulus - 1)

\* Races between threads lose calls and never invent any: up to the modulus, a
\* counter is at most the number of executions that are past their prologue, it is
\* not zero if there is one, and no report shows more than there have been.
CountBounds ==
    passes <= 1 =>
        \A f \in Names : executed[f] < Modulus =>
            LET past == executed[f] - Cardinality(InFlight(f))
            IN  /\ counter[f] <= past
                /\ (increments[f] > 0 /\ past > 0) => counter[f] > 0
                /\ f \in DOMAIN printed => printed[f] <= executed[f]

\* In a sequential program, whenever main is not in a prologue, CounterFor_F is the
\* number of times F has executed, modulo 2^32, times the number of increments that
\* the runs of the pass have put into F.
CountsExecutions ==
    started = {Main} /\ InBody(Main) =>
        \A f \in Names : counter[f] = (executed[f] * increments[f]) % Modulus

\* CounterFor_F is incremented every time F executes: whenever no thread is in a
\* prologue, it is the number of executions, modulo 2^32.
CountsEveryExecution ==
    passes > 0 /\ (\A t \in Threads : InBody(t)) =>
        \A f \in Defined : counter[f] = executed[f] % Modulus

\* A program instrumented once keeps the promise: what it has printed when it has
\* ended is a report CallCounts allows.
Promise ==
    INSTANCE CallCounts WITH
        executed   <- [f \in Defined |-> executed[f]],
        sequential <- started = {Main},
        report     <- IF phase = "ended" /\ passes = 1 THEN printed ELSE [f \in {} |-> 0]
PromiseKept == Promise!Spec

\* A program that exits, and does not abort while it does, has the count of every
\* function it defines printed when it has ended.
ReportsAtExit ==
    phase = "exit" /\ passes > 0
        ~> phase = "aborted" \/ (phase = "ended" /\ Defined \subseteq DOMAIN printed)
================================================================================
