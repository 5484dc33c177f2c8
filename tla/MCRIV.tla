--------------------------------- MODULE MCRIV ---------------------------------
(***************************************************************************)
(* Instances of RIV: every control-flow graph over a few blocks, with the  *)
(* dominator tree's children in either of two orders; a value of each type *)
(* is defined in every block.                                              *)
(***************************************************************************)
EXTENDS RIV, FiniteSetsExt

CONSTANT NBlocks        \* the number of basic blocks

Blocks == 1..NBlocks
IntIn(b) == <<"int", b>>
PtrIn(b) == <<"ptr", b>>
Result(b) == <<"result", b>>
\* Arguments and globals are numbered as if they were defined outside Blocks.
Arg == 0
Glob == NBlocks + 1

\* The last block does not branch: up to renaming, every graph that returns.
\* Where there are invokes it is the landing pad: the blocks that lead to it are
\* those that end in an invoke, and have a normal successor too.
Pad == NBlocks
BranchGraphs ==
    {s \in [Blocks -> {S \in SUBSET (2..NBlocks) : Cardinality(S) <= 2}] : s[NBlocks] = {}}
InvokeGraphs == {s \in BranchGraphs : \A b \in Blocks : Pad \in s[b] => Cardinality(s[b]) = 2}

\* The dominator tree, the children of a block ascending or descending.
Children(g, p) ==
    IF p \notin Reachable(g) THEN {}
    ELSE {c \in Reachable(g) : StrictDominators(g, c) = StrictDominators(g, p) \cup {p}}
Tree(g, before(_, _)) == [p \in Blocks |-> SetToSortSeq(Children(g, p), before)]

\* The function of graph s whose blocks in inv end in an invoke that returns a value.
Function(s, inv) ==
    [blocks   |-> Blocks,
     entry    |-> 1,
     succ     |-> s,
     insts    |-> [b \in Blocks |-> {IntIn(b), PtrIn(b)} \cup (IF b \in inv THEN {Result(b)} ELSE {})],
     results  |-> [b \in Blocks |-> IF b \in inv THEN {Result(b)} ELSE {}],
     unwind   |-> {<<b, Pad>> : b \in inv},
     args     |-> {IntIn(Arg), PtrIn(Arg)},
     globals  |-> {IntIn(Glob), PtrIn(Glob)},
     ints     |-> {IntIn(b) : b \in Blocks} \cup {Result(b) : b \in Blocks}
                     \cup {IntIn(Arg), IntIn(Glob)}]

With(f, t) == [children |-> t] @@ f

MCFunctions ==
    UNION {{With(f, Tree(f, <)), With(f, Tree(f, >))} :
             f \in {Function(s, {}) : s \in BranchGraphs}
                   \cup {Function(s, {b \in Blocks : Pad \in s[b]}) : s \in InvokeGraphs}}
================================================================================
