---------------------------- MODULE AffineRecurrence -----------------------------
(***************************************************************************)
(* The pass that prints the affine recurrences in the loops of a function  *)
(* (ARDir/AffineRecurrence.cpp).                                           *)
(*                                                                         *)
(* A function f is                                                         *)
(*   top, inner     its outermost loops, and the loops directly in each,   *)
(*   blocks         the blocks of each loop, those of inner loops included,*)
(*   header         the first of them,                                     *)
(*   recurrences    of each block, the instructions that scalar evolution  *)
(*                  knows to be affine recurrences.                        *)
(***************************************************************************)
EXTENDS SequencesExt

CONSTANT Functions      \* the functions the pass may be run on

VARIABLES
    function,   \* the one that it is run on
    Loops,      \* those still to come
    L, Blocks,  \* the loop it has come to, and its blocks still to come
    errs,       \* what has been printed, block by block, each [insts, header]
    pass        \* "idle", "running" or "done"
vars == <<function, Loops, L, Blocks, errs, pass>>

Init ==
    /\ function = <<>>
    /\ Loops = <<>>
    /\ L = 0 /\ Blocks = <<>>
    /\ errs = <<>>
    /\ pass = "idle"

\* Also the loops inside others, which LoopInfo's iterator does not list.
AllLoops(f) == f.top \o FlattenSeq([k \in DOMAIN f.top |-> f.inner[f.top[k]]])

\* The loops of LoopInfo's iterator.
TopLevelLoops(f) == f.top

Run(f) ==
    /\ pass = "idle"
    /\ function' = f
    /\ Loops' = TopLevelLoops(f)
    /\ pass' = "running"
    /\ UNCHANGED <<L, Blocks, errs>>

AnalyzeLoop ==
    /\ pass = "running" /\ Blocks = <<>> /\ Loops # <<>>
    /\ L' = Head(Loops) /\ Loops' = Tail(Loops)
    /\ Blocks' = function.blocks[Head(Loops)]
    /\ UNCHANGED <<function, errs, pass>>

\* The header printed is that of the loop at hand, whichever loop the recurrence is of.
VisitBlock ==
    /\ pass = "running" /\ Blocks # <<>>
    /\ errs' = Append(errs, [insts |-> function.recurrences[Head(Blocks)], header |-> function.header[L]])
    /\ Blocks' = Tail(Blocks)
    /\ UNCHANGED <<function, Loops, L, pass>>

Return ==
    /\ pass = "running" /\ Blocks = <<>> /\ Loops = <<>>
    /\ pass' = "done"
    /\ UNCHANGED <<function, Loops, L, Blocks, errs>>

Continue == AnalyzeLoop \/ VisitBlock \/ Return
Next == (\E f \in Functions : Run(f)) \/ Continue

Spec == Init /\ [][Next]_vars

--------------------------------------------------------------------------------
InLoops(f) == UNION {ToSet(f.blocks[f.top[k]]) : k \in DOMAIN f.top}
Times(inst) == Cardinality({k \in DOMAIN errs : inst \in errs[k].insts})

\* When the pass returns, each affine recurrence in a loop, however deep the nest, has been
\* printed exactly once.
PrintedOnce ==
    pass = "done" =>
        \A B \in InLoops(function) : \A inst \in function.recurrences[B] : Times(inst) = 1
================================================================================
