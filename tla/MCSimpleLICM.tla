----------------------------- MODULE MCSimpleLICM ------------------------------
(***************************************************************************)
(* Instances of SimpleLICM: a loop nest, with every data-flow graph over a *)
(* few instructions distributed over its blocks.                           *)
(***************************************************************************)
EXTENDS SimpleLICM

CONSTANTS NInsts,   \* the number of instructions
          Kinds     \* what they may be: "safe", "unsafe" or "opaque"

\* The blocks: 0 before the outer loop, 1 its header, 2 the inner loop's preheader,
\* 3 the inner loop, 4 the outer latch.  LLVM may list the preheader it has
\* inserted last.
Outer(order, pre) == [blocks |-> order, preheader |-> pre]
Inner == [blocks |-> <<3>>, preheader |-> 2]
Nests ==
    {<<Inner, Outer(order, 0)>> : order \in {<<1, 2, 3, 4>>, <<1, 4, 3, 2>>}}
        \cup {<<Inner, Outer(<<1, 2, 3, 4>>, NoPreheader)>>}

\* Instruction i's block is place[i]; within a block, instructions are in order.
Bodies(place) ==
    [b \in 0..4 |-> SetToSortSeq({i \in 1..NInsts : place[i] = b}, <)]

Placements == {p \in [1..NInsts -> 0..4] : \A i, j \in 1..NInsts : i < j => p[i] <= p[j]}
Operands == {a \in [1..NInsts -> SUBSET (1..NInsts)] : \A i \in 1..NInsts : a[i] \subseteq 1..(i - 1)}
MCFunctions ==
    {[loops |-> nest,
      body  |-> Bodies(place),
      op    |-> [i \in 1..NInsts |->
                   IF kind[i] # "opaque" THEN "pure" ELSE IF place[i] = 1 THEN "phi" ELSE "other"],
      safe  |-> {i \in 1..NInsts : kind[i] = "safe"},
      args  |-> args] :
        nest \in Nests, place \in Placements, args \in Operands,
        kind \in [1..NInsts -> Kinds]}
================================================================================
