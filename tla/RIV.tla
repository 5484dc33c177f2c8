---------------------------------- MODULE RIV ----------------------------------
(***************************************************************************)
(* The RIV analysis (lib/RIV.cpp): for every basic block, the integer      *)
(* values "reachable" at it, computed by a walk down the dominator tree    *)
(* that keeps the blocks still to process in a deque used as a stack.      *)
(*                                                                         *)
(* A function f has, besides its control flow,                             *)
(*   children  the dominator tree: each block's children in LLVM's order,  *)
(*   insts     the values each block's instructions define,                *)
(*   results   those defined by the block's terminator (an invoke), which  *)
(*             exist on the edges that do not unwind,                      *)
(*   unwind    the edges taken when a terminator unwinds,                  *)
(*   args, globals   the arguments, and the module's global variables,     *)
(*   ints      the values whose type (for a global: value type) is integer.*)
(***************************************************************************)
EXTENDS ControlFlow, SequencesExt

CONSTANT Functions      \* the functions the analysis may be run on

IsFunction(f) ==
    /\ f.entry \in f.blocks
    /\ f.succ \in [f.blocks -> SUBSET f.blocks]
    /\ f.children \in [f.blocks -> Seq(f.blocks)]
    /\ IsDominatorTree(f, f.children)
    /\ DOMAIN f.insts = f.blocks
    /\ DOMAIN f.results = f.blocks
    /\ \A b \in f.blocks : f.results[b] \subseteq f.insts[b]
    /\ \A v \in f.args \cup f.globals, b \in f.blocks : v \notin f.insts[b]
    /\ \A b, c \in f.blocks : b # c => f.insts[b] \cap f.insts[c] = {}

ASSUME FunctionsAssumption == \A f \in Functions : IsFunction(f)

VARIABLES
    fn,             \* the function being analysed; never changed
    BBsToProcess,   \* the deque of dominator-tree nodes, its back at the end
    ResultMap       \* the RIV set of every block that has one so far
vars == <<fn, BBsToProcess, ResultMap>>

--------------------------------------------------------------------------------
\* A slip: the type of the instruction is not asked for.
DefinedValues_AnyType(f, b) == f.insts[b]

\* STEP 1: the integer values defined in block b.
DefinedValues(f, b) == f.insts[b] \cap f.ints

\* STEP 2: the RIVs of the entry block.
EntryBBValues(f) == (f.globals \cup f.args) \cap f.ints

Init ==
    /\ fn \in Functions
    /\ BBsToProcess = <<fn.entry>>
    /\ ResultMap = [b \in {fn.entry} |-> EntryBBValues(fn)]

\* A slip in the loop: the child gets the parent's definitions but not its RIVs.
ProcessParent_ForgetsRIVs ==
    /\ BBsToProcess # <<>>
    /\ LET Parent == Last(BBsToProcess)
           Children == ToSet(fn.children[Parent])
       IN /\ BBsToProcess' = Front(BBsToProcess) \o fn.children[Parent]
          /\ ResultMap' = [b \in DOMAIN ResultMap \cup Children |->
                             IF b \in Children THEN DefinedValues(fn, Parent) ELSE ResultMap[b]]
    /\ UNCHANGED fn

\* A slip in the loop: the values of the child, not of the parent, are inserted.
ProcessParent_ChildDefs ==
    /\ BBsToProcess # <<>>
    /\ LET Parent == Last(BBsToProcess)
           Children == ToSet(fn.children[Parent])
       IN /\ BBsToProcess' = Front(BBsToProcess) \o fn.children[Parent]
          /\ ResultMap' = [b \in DOMAIN ResultMap \cup Children |->
                             IF b \in Children
                             THEN DefinedValues(fn, b) \cup ResultMap[Parent] ELSE ResultMap[b]]
    /\ UNCHANGED fn

\* A slip in the loop: the parent is left on the deque.
ProcessParent_NoPop ==
    /\ BBsToProcess # <<>>
    /\ LET Parent == Last(BBsToProcess)
           Children == ToSet(fn.children[Parent])
       IN /\ BBsToProcess' = fn.children[Parent] \o BBsToProcess
          /\ ResultMap' = [b \in DOMAIN ResultMap \cup Children |->
                             IF b \in Children
                             THEN DefinedValues(fn, Parent) \cup ResultMap[Parent] ELSE ResultMap[b]]
    /\ UNCHANGED fn

\* STEP 3, one iteration of the while loop: take a block off the back of the
\* deque; give its definitions and its RIVs to its children, and process them
\* later.
ProcessParent ==
    /\ BBsToProcess # <<>>
    /\ LET Parent == Last(BBsToProcess)
           Children == ToSet(fn.children[Parent])
           Before(b) == IF b \in DOMAIN ResultMap THEN ResultMap[b] ELSE {}
       IN /\ BBsToProcess' = Front(BBsToProcess) \o fn.children[Parent]
          /\ ResultMap' = [b \in DOMAIN ResultMap \cup Children |->
                             IF b \in Children
                             THEN Before(b) \cup DefinedValues(fn, Parent) \cup ResultMap[Parent]
                             ELSE ResultMap[b]]
    /\ UNCHANGED fn

\* The loop has ended and ResultMap has been returned.
Returned == BBsToProcess = <<>> /\ UNCHANGED vars

Next == ProcessParent \/ Returned

Spec == Init /\ [][Next]_vars

\* The pass manager runs the analysis to its return.
FairSpec == Spec /\ WF_vars(ProcessParent)

--------------------------------------------------------------------------------
AllValues(f) == f.args \cup f.globals \cup UNION {f.insts[b] : b \in f.blocks}

\* The edges out of v's block on which v has been defined.
DefiningEdges(f, v) ==
    {e \in Edges(f) : v \in f.insts[e[1]] /\ ~ (v \in f.results[e[1]] /\ e \in f.unwind)}

\* The blocks at whose start v is available: every path there from the entry has
\* computed v, so that an instruction inserted in the block may use it.
AvailableIn(f, v) ==
    IF v \in f.args \cup f.globals THEN f.blocks
    ELSE f.blocks \ ReachedOver(f.blocks, Edges(f) \ DefiningEdges(f, v), {f.entry})

\* The deque holds reachable blocks of the analysed function, only they have a
\* RIV set, and it has only integer values of the function.
TypeOK ==
    /\ BBsToProcess \in Seq(Reachable(fn))
    /\ DOMAIN ResultMap \subseteq Reachable(fn)
    /\ \A b \in DOMAIN ResultMap : ResultMap[b] \subseteq AllValues(fn) \cap fn.ints

\* The closed form of RIV_M = {RIV_N, v_N}: the RIVs of the entry and the
\* values defined in the blocks that strictly dominate b.
ExpectedRIV(f, b) ==
    EntryBBValues(f) \cup UNION {DefinedValues(f, d) : d \in StrictDominators(f, b)}

\* Why the walk is right: the RIV set of a block is final from the moment it
\* exists, whether or not the block has been processed, and a block that has been
\* processed (it has a RIV set and is no longer on the deque) has handed one to
\* each of its children.
WalkInv ==
    /\ fn.entry \in DOMAIN ResultMap
    /\ ToSet(BBsToProcess) \subseteq DOMAIN ResultMap
    /\ \A b \in DOMAIN ResultMap : ResultMap[b] = ExpectedRIV(fn, b)
    /\ \A p \in DOMAIN ResultMap \ ToSet(BBsToProcess) :
          \A i \in DOMAIN fn.children[p] : fn.children[p][i] \in DOMAIN ResultMap

\* The results of invokes: values that a terminator defines.
TerminatorResults(f) == UNION {f.results[b] : b \in f.blocks}

\* At every moment of the walk, every value in the RIV set of a block that no
\* terminator defines is available at that block on every path from the entry:
\* what DuplicateBB relies on when it picks a RIV as the operand of a new branch
\* condition.
RIVSound ==
    \A v \in AllValues(fn) \ TerminatorResults(fn) :
        {b \in DOMAIN ResultMap : v \in ResultMap[b]} \subseteq AvailableIn(fn, v)

\* When the walk ends, every block control can reach has a RIV set, no other
\* block has one, and none of the integer values available at the block is
\* missing from it.
RIVComplete ==
    BBsToProcess = <<>> =>
        /\ DOMAIN ResultMap = Reachable(fn)
        /\ \A v \in AllValues(fn) \cap fn.ints :
              \A b \in Reachable(fn) \cap AvailableIn(fn, v) : v \in ResultMap[b]

\* The walk ends: the deque runs empty.
Termination == <>(BBsToProcess = <<>>)
================================================================================
