------------------------------ MODULE ControlFlow ------------------------------
(***************************************************************************)
(* Control-flow graphs, and what the passes ask LLVM's DominatorTree and   *)
(* PostDominatorTree about them.  Those analyses are LLVM's: they are      *)
(* modelled here by their definitions, from how the passes use them.       *)
(*                                                                         *)
(* A function body f is a record with at least                             *)
(*   blocks   the set of its basic blocks,                                 *)
(*   entry    the entry block, which has no predecessor,                   *)
(*   succ     the set of successors of each block.                         *)
(*                                                                         *)
(* Reachability is a least fixpoint written without recursion: a block is  *)
(* reached when it is in every set that contains the start and is closed   *)
(* under the edges.  Proofs use it directly: to show that every reached    *)
(* block has a property, show that the blocks that have it are such a set. *)
(***************************************************************************)
EXTENDS Naturals, Sequences

Edges(f) == {e \in f.blocks \X f.blocks : e[2] \in f.succ[e[1]]}

ClosedUnder(S, E) == \A e \in E : e[1] \in S => e[2] \in S

\* The blocks of B that a path over the edges E leads to from a block of From.
ReachedOver(B, E, From) ==
    LET Closed == {S \in SUBSET B : From \subseteq S /\ ClosedUnder(S, E)}
    IN  {b \in B : \A S \in Closed : b \in S}

Reachable(f) == ReachedOver(f.blocks, Edges(f), {f.entry})

\* Removing the edges out of d makes exactly the blocks below d unreachable.
EdgesNotFrom(f, d) == {e \in Edges(f) : e[1] # d}

\* d strictly dominates b: every path from the entry to b leaves d.
StrictDominators(f, b) ==
    {d \in f.blocks : b \notin ReachedOver(f.blocks, EdgesNotFrom(f, d), {f.entry})}

Dominates(f, d, b) == d = b \/ d \in StrictDominators(f, b)

Exits(f) == {b \in f.blocks : f.succ[b] = {}}

\* d post-dominates b: every path from b to an exit passes through d.  (LLVM
\* adds a virtual exit to a region that reaches none; no function checked here
\* has one.)
PostDominates(f, d, b) ==
    \/ d = b
    \/ Exits(f) \cap ReachedOver(f.blocks, EdgesNotFrom(f, d), {b}) \subseteq {d}

\* children is the dominator tree of f: the children of p are the blocks whose
\* strict dominators are p and those of p, each listed once, and the blocks
\* below the entry are the reachable ones.
IsDominatorTree(f, children) ==
    /\ \A p \in Reachable(f) : \A i \in DOMAIN children[p] :
          /\ children[p][i] \in Reachable(f)
          /\ StrictDominators(f, children[p][i]) = StrictDominators(f, p) \cup {p}
    /\ \A S \in SUBSET f.blocks :
          /\ f.entry \in S
          /\ \A p \in S : \A i \in DOMAIN children[p] : children[p][i] \in S
          => Reachable(f) \subseteq S
================================================================================
