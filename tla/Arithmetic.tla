------------------------------- MODULE Arithmetic -------------------------------
(***************************************************************************)
(* A pipeline that runs ConvertFCmpEq on a function, MaxRuns times, and    *)
(* then MBAAdd and MBASub in any order.  The two kinds of pass look at     *)
(* different instructions: fn has a function's comparisons, intFn its      *)
(* integer arithmetic.                                                     *)
(***************************************************************************)
EXTENDS FCmpEq

CONSTANTS IntFunctions,     \* the functions of integer arithmetic
          Inputs,           \* pairs of values for their arguments
          Pipelines,        \* the sequences of MBAAdd and MBASub
          Widths,           \* the widths of integers
          BitXor(_, _), BitAnd(_, _)  \* the operations of that name on their bits

VARIABLES intFn, passes, insts, Inst, Changed, substituted, entry  \* the state of MBA
mbaVars == <<intFn, passes, insts, Inst, Changed, substituted, entry>>

M == INSTANCE MBA WITH fn <- intFn, Functions <- IntFunctions

ASSUME IntFunctionsAssumption == \A f \in IntFunctions : M!IsFunction(f)
ASSUME InputsAssumption == Inputs \subseteq Int \X Int
ASSUME PipelinesAssumption == Pipelines \subseteq Seq({"mba-add", "mba-sub"})

\* The modulus of each width, and the bits of its numbers.
ASSUME WidthsAssumption ==
    \A w \in Widths : 2^w \in Nat \ {0, 1} /\ (w = 8 => 2^w = 256) /\ M!BitOperations(w)

--------------------------------------------------------------------------------
PipelineInit ==
    /\ Init
    /\ M!Init

\* ConvertFCmpEq runs before the other passes.
PipelineNext ==
    \/ Next /\ UNCHANGED mbaVars
    \/ status = "idle" /\ runs = MaxRuns /\ M!Next /\ UNCHANGED vars

PipelineSpec == PipelineInit /\ [][PipelineNext]_<<vars, mbaVars>>

\* Only equality comparisons are converted, and none in an optnone function; a run of
\* MBAAdd or MBASub substitutes only instructions it was given.
TypesOK == TypeOK /\ M!TypeOK

\* The values of the function's integer instructions are at every step, for all
\* arguments, what they were before the passes.
SameResults == M!SameResults

\* A run of MBAAdd or MBASub substitutes each instruction it is meant for, and no other.
AllSubstituted == M!AllSubstituted
================================================================================
