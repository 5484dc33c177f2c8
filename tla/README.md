# Specifications of the tutorial passes

This directory holds a TLA+ development for the out-of-tree LLVM passes of this
repository: specifications of the passes that analyse or change a program, TLC
models that check them on small functions, and TLAPS proofs of what holds for
every function.

## 1. The system

The repository builds one plugin per pass for LLVM 21's `opt`. A plugin keeps
no state between functions (`DuplicateBB` keeps a random generator and a
counter for names); what a pass works on is the function's IR, the results of
analyses that the analysis manager caches for it, and its own local maps and
work lists. The passes meet in three ways: through analyses (`DuplicateBB` asks
for `RIV`, `ConvertFCmpEq` for `FindFCmpEq`), through the IR that one leaves to
the next, and through the cached analyses that a pass says it has preserved.
`DynamicCallCounter` also leaves a running program behind it.

| component | state | operations | what is hard |
|---|---|---|---|
| `lib/RIV.cpp` | deque of dominator-tree nodes, map from blocks to sets of values | visit a block, hand its values to its children | the map is read and extended at once; invokes |
| `lib/DuplicateBB.cpp` | chosen (block, context) pairs, `ReMapper`, three value maps, the IR | choose contexts; split a block; clone an instruction; purge | contexts chosen before the rewriting that replaces them |
| `lib/MergeBB.cpp` | the IR's branches, delete list | find a duplicate, redirect branches, delete | merges into blocks merged later; PHIs; nothing is deleted until the end |
| `lib/DynamicCallCounter.cpp` | at compile time: bodies, counters, destructors; at run time: counters, threads, the report | instrument; count; exit; print | threads; wrap-around; being run twice; names the program uses |
| `DSE/DeadStoreElimination.cpp` | the IR, a MemorySSA that is never updated | query the clobbering access of a store, erase it | erasing while iterating; dangling accesses |
| `SimpleLICM/SimpleLICM-skeleton.cpp` | set of invariant instructions, `Changed`, the IR | sweep, hoist, next loop | fixpoint; order of the set; nests |
| `DIVdir/DerivedInductionVar.cpp` | list of derived PHIs, the IR | collect, replace, recurse | signed steps, wrap-around, start values, loop nests |
| `lib/FindFCmpEq.cpp`, `lib/ConvertFCmpEq.cpp` | cached list of comparisons, the IR | find, convert in place, print | a cached list while its elements change; NaNs, infinities |
| `lib/MBAAdd.cpp`, `lib/MBASub.cpp` | the block, the iterator | substitute an instruction by several | the block grows under the iterator; modular identities |
| `lib/InjectFuncCall.cpp`, `lib/StaticCallCounter.cpp`, `tools/StaticMain.cpp`, `lib/OpcodeCounter.cpp` | counts, cached by the analysis managers | one loop over a module or function | what they report as changed; what is cached of them |
| `ARDir/AffineRecurrence.cpp` | none | walk the loops, print | blocks of inner loops are blocks of outer ones |
| `MSD/`, `HelloWorld/` | none | print | stale input; a file that does not open |
| the plugins and `opt` | loaded plugins, registered analyses, the pipeline, cached results | load, register, parse, run, invalidate | load order, undefined symbols; results that outlive the program they describe |
| CMake files, `build*/`, `test/`, `utils/` | none | - | - |

What makes each correct: an analysis is right about every path of the function
(`RIVSound`, `RIVComplete`), and what is cached of it is about the function as it is
(`CacheFresh`, `ReportsAnew`); a transformation leaves a function
that does what it did, with every value computed before it is used
(`OperandsAvailable`, `SafeOperandsFirst`, `SameBehaviour`, `FinalMemoryPreserved`,
`SameValues`, `SameResults`, `OutcomesKept`); a walk that changes what it walks
over is not led astray (`IteratorSafe`, `PhisMatchEdges`, `DeletedAreDead`,
`AllSubstituted`, `ReportedOnce`); and loops end (`Termination`). `PROJECT.json` lists the
hazards at their lines, and the properties aimed at each.

## 2. The modules

A function is a record of the data its pass looks at, chosen in `Init` from the
constant `Functions`; the `MC` module of each component builds that set from a
few shapes of control flow and everything that may fill them. LLVM's own
analyses are written down by their definitions, from how the passes use them,
and are marked external in `PROJECT.json`.

**ControlFlow** - graphs of blocks, reachability as a least fixpoint without
recursion (so that it can be proved about), dominators and post-dominators. The proofs about them
are with the components that use them. Where a proof would go by induction it takes the least
element of a set of numbers instead (`LeastExists`).

**RIV** - `BBsToProcess` is the deque (its back at the end), `ResultMap` the map;
`Init` is steps 1 and 2 of `buildRIV`, `ProcessParent` one iteration of its
`while`. *MCRIV* takes every graph of four blocks, and with the last block as a landing
pad every way invokes can lead to it. *DuplicateBB_proofs* begins with its proofs.

**DuplicateBB** extends `RIV`: `Analyse` runs the analysis to its end, `FindBB` chooses for one
block, `SplitBB` and `FinishBB` are `cloneBB` before and after its loop, `CloneVoid` and
`CloneValue` an iteration of it for an instruction without and with a result. `IsCode` is what
LLVM's verifier ensures of a function. Values and blocks are pairs, so that the copies of an instruction can be told from it. The uses that
`replaceAllUsesWith` changes include the clones made so far and, since value maps
follow replacements, the keys of `ThenVMap` and `ElseVMap`; `TailVMap` only serves
the terminator, whose operands have been replaced already, and is left out. `Kept` says what
the purge of `lt-tail` leaves, `Ascending` in which order. *DuplicateBB_proofs* has the proofs.

**MergeBB** - `MayErase`, `MayRetain`, `PhiAllows` and `Identical` are the tests of
`mergeDuplicatedBlock` in its order; `Merge` and `Keep` are its two outcomes for one
block, `DeleteBlocks` the loop at the end of `run`. `DeleteList` remembers also what
a block was merged into, for the properties. `Lockstep` pairs the instructions that the
`LockstepReverseIterator` meets in two blocks, by their positions (`NonDbg`: debug intrinsics are
passed over); `IsFunction` is what LLVM's verifier ensures. *MergeBB_proofs* has the proofs.

**DynamicCallCounter** - `RunPass` is `runOnModule`; `Start` hands the module over to
the running program, in which each thread executes functions whose first steps are
the injected `Load` and `Store`; `Exit`, `CallWrapper`, `PrintCount` and `End` are
the way out through `llvm.global_dtors`, `Abort` the way around it. A program is
sequential until `StartThread` adds a thread. **CallCounts** is the abstract promise: a
function that executes is counted at once, and the final report shows the counts (once
there have been two threads: shows no more than them); `PromiseKept` states that a
program instrumented once implements it.

**DeadStoreElimination** - `SkipInst` and `VisitStore` move the reverse iterator by one
instruction. MemorySSA is that of the original function for the whole pass: `blind` is
the set of erased instructions whose access no longer looks like a store to the query
that comes across it, and `Crash` the other outcome of reading freed memory.
*DeadStoreElimination_proofs* has the proofs.

**SimpleLICM** - `StartSweep`, `NextBlock`, `EndSweep` are the loop over the blocks (`BB`),
`ScanInst` the loop over the instructions of each,
`StartHoisting` and `HoistInst` the loop over the set. `IterationOrders` is what a
`SmallPtrSet` promises: the order of insertion while it is an array, any order after.
`Places` is where an instruction is; `IsFunction` says what LLVM's verifier and its loop
simplification ensure. `Precedes` compares places: blocks are numbered so that of two the smaller dominates
the other, and the specification, its theorems included, is of functions whose blocks form such a chain.
*SimpleLICM_proofs* has the proofs.

**DerivedInductionVar** - `EnterLoop`, `Eliminate`, `Subloops` are `eliminateInLoop`; its
recursion is the sequence `todo` of calls to come. `DerivedIVs` is a set: the vector is in the order
of the PHIs, and the next is the least. Values are numbers modulo two to the width of the variable
(`Widths`). The step goes through an `int64_t` (`Fits`, `TooWide`) and comes back as an unsigned number
(`Constant`); `Int64Bits` is 64, and three in the run. *EliminateAndReport_proofs* has the proofs, with those of `AffineRecurrence`.

**FCmpEq** - `FindFCmpEq`, and `ConvertFCmpEq` one comparison at a time (`NextComparison`; the
comparisons are a set, since a conversion does not depend on those before it). Numbers are
multiples of half the machine epsilon, with infinities and NaN. *Arithmetic_proofs* has the proofs.

**MBA** - the walk of `MBAAdd` and of `MBASub` over a sequence of instructions, which
`Substitute` extends; `passes` is a pipeline of the two. `BitXor` and `BitAnd` are constants, of
which `BitOperations` states what the expressions rest on: complementing a number is taking it from
the greatest one, and a sum is the sum without carries plus twice the carries. *Arithmetic* runs
`FCmpEq` and then `MBA`: the passes look at different instructions of a function. *MCArithmetic*
gives the constants their values, the community modules' operations on bits for the two, and
*Arithmetic_proofs* has the proofs.

**AffineRecurrence** - `AnalyzeLoop` is one iteration of the loop over `LoopInfo`, which lists
the outermost loops only, `VisitBlock` one of the loop over `getBlocks`, which lists the blocks
of inner loops too.

Two modules compose passes that the documentation or the tests run one after the other.
**DuplicateAndMerge** (`test/DuplicateBB_MergeBB_exec.ll`) writes down what `DuplicateBB` has left
as a function of `MergeBB` (`Result`) and runs it. **EliminateAndReport** runs
`AffineRecurrence` on the loops that `DerivedInductionVar` has left (`LoopsLeft`): the PHIs that
remain and the products that replace the others. `nest` has each loop with all those inside it, the
blocks that `getBlocks` gives by their loops.

**Pipeline** - `opt` from its command line to its end, over all seventeen plugins. `Plugins` is
what each tells `opt`: the name it parses and the level of the pipeline it adds its pass to, the
analyses it registers, and the plugins whose symbols it leaves undefined (`DuplicateBB` needs
`RIV::Key`, `ConvertFCmpEq` that of `FindFCmpEq`). `Passes` is how each pass appears to the
analysis managers: the analysis it asks for, whether it may be skipped in an `optnone` function (it is
not `isRequired()`), and each outcome of a run - which analyses' results its changes may alter, and
which it returns as preserved. `LoadPlugin`, `UndefinedSymbol`, `RegisterAnalyses`, `ParsePipeline`,
`UnknownPass` are `opt`'s start; `RunPass`, `SkipPass`, `NextFunction`, `NextGroup`
the pass managers and their adaptors; `CountStaticCalls` and `ErrorReadingFile` the tool `static`.
A program is known by the changes made to it (`ir`), so that a result can be compared with what the
analysis would say now. **PassManager** is the abstract specification, in which nothing is cached:
passes change the program or report what is true of it. `ReportsAnew` states that `Pipeline`
implements it. *Pipeline_proofs* has the proofs.

In each module the operators named after another one with a suffix (`Advance_TooFar`
next to `Advance`) are slips that a maintainer might make there; each property is
checked to fail when the slip replaces the definition.

## 3. What is checked

Passing runs. The bounds are small because each hazard needs few participants:
two stores and a chain of two erasures need three stores, a stale context two
blocks, a lost count two threads.

| run | instance | shows |
|---|---|---|
| `RIV` | all graphs of 4 blocks with up to two-way branches, with and without a landing pad, both orders of the children | the walk ends with exactly the integer values available on every path; every set is final once it exists |
| `DSE` | straight line, chain, diamond and loop; up to 4 stores of words through three pointers, two of which may be equal | what is in memory at the exits is unchanged, each erased store keeps a post-dominating killer, the iterator never loses its instruction |
| `SimpleLICM` | nest of two loops, both orders of the blocks, with and without a preheader, all data-flow graphs of 3 instructions | complete fixpoint, reached always; nothing variant moves; operands that may move are there before their uses |
| `DCC` | two functions, two threads, counters modulo 3, up to four calls of each function, the pass run up to twice | a sequential program counts every execution up to wrap-around; threads lose calls but invent none; refinement of `CallCounts`; the report comes while others run |
| `MergeBB` | branch, switch with two cases for one block, two levels, loop; five bodies and a PHI at the join | merged blocks are unreachable at the end and the function does what it did at each step |
| `DuplicateBB` | line, diamond, loop; blocks with a value, a value and its use, a store, a pointer; every choice of contexts; then `merge-bb` | operands, the contexts among them, are available at every step, both paths compute what the block did; the clones that `MergeBB` merges again are the ones that qualify |
| `DIV` | single loops: widths 1 to 4 where `int64_t` has 3, all pairs of widths, all steps but the negative ones of width 4, iterations 0 to 17; nests three deep with a loop after them, headers of up to four PHIs, every choice of loops without a canonical variable; then `affine-recurrence` | the product equals the PHI in every iteration, also after both have wrapped; the PHIs replaced are exactly those due in the loops that no loop without a canonical variable hides; each recurrence left is printed once |
| `Arithmetic` | two comparisons of equal operands, all predicates, both types, two runs of `ConvertFCmpEq`; or three dependent instructions of 1, 8 or 9 bits, pipelines of two passes, 42 pairs of arguments | changed outcomes are the intended ones and complementary comparisons stay so; all integers unchanged, each pass substitutes what it was given and nothing it inserted |
| `Pipeline` | a printing pass, any two transforming passes, the printing pass again, bare and with adaptors, over an empty module and one of two functions, one of them `optnone`; four pairs of passes with any of their plugins loaded in any order; `default<O1>`; `static` | no cached result is stale when it may be used, each report is true, no accepted pipeline lacks an analysis |

In `DCC` four calls pass the modulus of three, so `CountsExecutions` sees counters wrap;
`CountBounds` speaks of counts that cannot have wrapped, and the two threads of a race stay
below it.

Violation runs. Each checks one property that states what a comment or the documentation
says, and that the code does not keep; `PROJECT.json` quotes it under `findings`.

| run | the code |
|---|---|
| `DSE_loads` | erases a store that a load reads before the next store |
| `DIV_start` | drops the start value of the PHI it replaces |
| `MergeBB_phi` | merges into a block that starts with a PHI and leaves the PHI without an entry for the new edge |

Known divergences. The other configurations are no runs of the project: each names a
property that the code does not keep outside the instances above, and
`tlc -continue -config <configuration> <module>` prints how. They delimit what the passing runs claim.

| configuration | property | the code |
|---|---|---|
| `DSE_stores` | `FinalMemoryPreserved`, `VolatileKept` | compares addresses, not sizes (`DSE/DeadStoreElimination.cpp:82`), and erases volatile stores, the test for them being in a comment (`:99`) |
| `DSE_dangling`, `DSE_calls` | `NoDanglingAccess`, `ComparedWithStore` | walks over MemorySSA accesses of erased instructions (`:87`); asks for the location of a call (`:76`) |
| `SimpleLICM_left` | `AllInvariantsHoisted`, `OperandsFirst` | takes operands from outside the loop to be variant (`SimpleLICM/SimpleLICM-skeleton.cpp:48`); hoists a use and leaves its operand behind (`:64`) |
| `SimpleLICM_large` | `SafeOperandsFirst` | hoists an operand after its use (`:63`) |
| `DCC_each` | `CountsEveryExecution` | loses calls of threads, counts calls twice in a module instrumented twice (`lib/DynamicCallCounter.cpp:97`, `:106`) |
| `DCC_wrapper` | `ReportsAtExit` | prints nothing if the program has a `printf_wrapper` (`:181`) |
| `MergeBB_others` | `BranchTargetUpdated`, `RetainedReachedByBranches` | fails its assertion for a block without predecessors (`lib/MergeBB.cpp:236`); a `continue` that skips nothing (`:194`) |
| `DuplicateBB_invoke` | `OperandsAvailable` | branches on an invoke's result where only the unwind edge leads (`lib/RIV.cpp:70`, `lib/DuplicateBB.cpp:151`) |
| `DerivedInductionVar_inner` | `InnerLoopsDone` | skips the loops inside one it cannot handle (`DIVdir/DerivedInductionVar.cpp:53`), where README.md:200 says that it works on the inner loops of nests |
| `DerivedInductionVar_wide` | `SameValues` | takes the step of an integer wider than 64 bits for an unsigned number: minus one becomes two to the power of 64, less one (`DIVdir/DerivedInductionVar.cpp:94`) |
| `Pipeline_stale` | `AlwaysFresh` | keeps MemorySSA, and opcode counts, after erasing stores (`DSE/DeadStoreElimination.cpp:105`), and scalar evolution, through LLVM's loop adaptor, after moving instructions out of a loop (`SimpleLICM/SimpleLICM-skeleton.cpp:66`) |
| `FCmpEq_float` | `ConvertsAll` | casts the difference of floats to a 64-bit integer (`lib/ConvertFCmpEq.cpp:102`) |

`CacheFresh` and `ReportsAnew` name these changes (`Unreported`) and hold for all others. Two more
differences show in the models and break none of the properties. `MergedBack` speaks of clones only:
MergeBB.cpp:28-31 says that lt-tail blocks are not removed, but two that hold nothing but their branch
can be merged with each other. And `AffineRecurrence` prints the header of the outermost loop for
every recurrence (`ARDir/AffineRecurrence.cpp:48`), whichever loop it belongs to.

Fairness. The compiler runs a pass to its end: `RIV!FairSpec` and `SimpleLICM!FairSpec`
have weak fairness of the loop step. In `DynamicCallCounter!FairSpec` only the main
thread's own steps are fair: the operating system schedules it, and nothing is assumed of
the other threads, nor that `main` ever exits (`ReportsAtExit` starts when it does) or
that nothing aborts. The other modules state safety only.

## 4. What is proved

`DuplicateBB_proofs` proves of `RIV`, for every function, every graph of any size and every order of the
dominator tree's children (`FunctionsAssumption`: the tree is a dominator tree of the
graph, instructions of different blocks are different):

- `TypeCorrect`: `Spec => []TypeOK`.
- `WalkCorrect`: `Spec => []WalkInv`, the inductive invariant. `RIVSound` alone is not
  inductive: it does not say that the set copied from a parent is final. `WalkInv` says that
  each set is, from the moment it exists, what the strict dominators define
  (`ExpectedRIV`), and that a block off the deque has handed one to each of its children.
  `InitInv` and `ProcessParentInv` are the two halves of the induction, `PopPush` what an
  iteration does to the deque.
- `Soundness`: `Spec => []RIVSound`, for the values that no terminator defines (the results of
  invokes are the exception `DuplicateBB_invoke.cfg` shows). `ExpectedAvailable`: a value defined in a
  strict dominator of a block is available there, because without the edges out of the dominator
  the block cannot be reached.
- `Completeness`: `Spec => []RIVComplete`, with or without invokes. `AvailableExpected`: if
  the one block that defines a value does not dominate a block, some path there avoids it. That
  all reachable blocks are visited follows from the least-fixpoint form of the dominator tree.

It proves of `DuplicateBB`, for every function of any size, every choice of contexts and at every moment
of the rewriting (`CodeAssumption`: instructions are in one place and follow their operands, PHIs come first and have
an entry for each predecessor):

- `PassAnalyses`: `PassSpec => Spec`. What the pass does after the analysis is a stutter of the analysis, so that
  everything proved of `RIV` holds of the sets the pass reads.
- `PassInvariance`: `PassSpec => [](IInv /\ PassInv)`. None of the properties is inductive, since each follows from what
  the function has become; `PassInv` says what that is in terms of the function it was. `TargetsInv`: a block
  is a target once, its context is available there, and only targets behind have been split. `BlocksInv` has the edges,
  `CodeInv` the instructions of each part of a split block, `PhisInv` and `OpsInv` the incoming values and operands, by how far
  the loop over `lt-tail` has come (`Turn`); `ReMapInv` and `VMapInv` that the maps hold exactly the values cloned so far.
  There is a lemma for each part and each step (`AnalyseInv` to `FinishInv`): the walk over `lt-tail` replaces uses in the
  part it has still to clone, in the clones, and among the keys of the maps it looks them up in.
- `PassTypeCorrect`: `PassSpec => []PassTypeOK`; `PHIsCorrect`: `PassSpec => []PHIsWellFormed`; `BranchesAgree`:
  `PassSpec => []SameOnBothPaths`. `KeptTail` is what makes the last two of the purge: all that is left of `lt-tail` are
  PHIs and the terminator.
- `OperandsInPlace`: `NoInvokes => (PassSpec => []OperandsAvailable)`. `ReachedIn`: what the rounds of `ReachedWithout`
  reach is in every set that has the entry and that no other edge leaves (`RoundsExist`: there is such a function,
  otherwise there were a least number of rounds without one). With it `CopyAvailable` carries a path of the new graph back to one of
  the old: where a value was available, what stands for it by then is, in every part of the block. The condition of the
  if-then-else is one case, a context picked before the rewriting and looked up in `ReMapper` when it is used;
  the operands of clones, of PHIs and of what has not been cloned yet are the others (`BodyOperand`, `IncomingInTime`,
  `OperandsInTime`). The premise, that no terminator has a result, is the one `DuplicateBB_invoke.cfg` shows to be needed.

`DuplicateAndMerge` takes the steps of `DuplicateBB` and then leaves its variables alone, so that these results are about
the function it hands to `MergeBB` too.

`DynamicCallCounter_proofs` proves, for any functions, any finite number of threads, any number
of calls and any modulus (`ConstantsAssumption`: there is a main thread, the modulus is not 0):

- `CounterTypeCorrect`: `Spec => []TypeOK`.
- `Bounds`: `Spec => []CountBounds`. The inductive invariant `CountInv` adds what the threads in a
  prologue hold: a value a thread has loaded is no more than the executions past their prologue
  (`Past`), which its own is not yet. So what it stores is no more than `Past` when it stores it, however
  many threads stored in between. `PastEnter` and `PastStore` say how `Past` moves.
- `SequentialCounts`: `Spec => []CountsExecutions`. `SeqInv` subtracts the increments main still
  owes in a prologue; `ModSucc` says that adding one commutes with wrapping around.
- `Refinement`: `Wrapper \notin Defined => (Spec => PromiseKept)`. `ReportInv` follows the report from
  the listing of the functions to the end of the destructor; `RefinedStep` has one case per action.
  The premise is the one `DCC_wrapper.cfg` shows to be needed for the report to come out.

`Pipeline_proofs` proves, for any functions and modules, any plugins in any order, any pipeline
however long (`CommandLinesAssumption`, `ModulesAssumption`: command lines and modules are of their
types, and the module is no function):

- `TypeCorrect`: `Spec => []TypeOK`, and `AllRegistered`: `Spec => []AnalysesKnown`. They share the
  inductive invariant `IInv`: `Staged` says what is known at each stage of `opt`'s start, `Linked` that a
  loaded plugin's undefined symbols are defined by one loaded before, `Registered` that each loaded
  plugin's analyses are registered once parsing begins, and `Provided` that every pass in the pipeline
  comes from a loaded plugin for that level. `AtHand` and `Asks` conclude that what a pass asks for is registered.
- `CachesFresh`: `Spec => []CacheFresh`, on top of `IInv`. `HonestClaims` is where the passes come in: for each
  outcome of each pass, what may have been altered and is not reported is in `Unreported`. `RunPassFresh`
  is the step: a result that stays valid was fresh, and shows the changes made since because there are none that alter it.
- `Refinement`: `Spec => ReportsAnew`. `StepIInv`, `RunPassFresh` and `ResultFresh` show that a report
  is of the program as it is; all other steps change nothing that `PassManager` has, or only the program.

`Arithmetic_proofs` proves of `FCmpEq`, for any list of instructions and any number of runs, with any
integers for operands, infinities and NaN (`FunctionsAssumption`, `MaxRunsAssumption`):

- `TypeCorrect`: `Spec => []TypeOK`, with `Outcomes`: `Spec => []OutcomesKept` and `Complementary`:
  `Spec => []StillComplementary` from one inductive invariant. `ConvertedInv` fixes the predicate of each
  comparison by whether it has been converted; `ComparisonsInv` says that what is left in the vector
  is what is left to convert, so that between runs all are converted or none is. `ConvertedFCmp`,
  `EqualityFCmp` and `KeptUnordered` are what the comparisons come to, with and without a NaN.

and of `MBA`, for integers of any width, any function whose instructions come after those they use, any
arguments and any sequence of the two passes (`IntFunctionsAssumption`, `InputsAssumption`, `PipelinesAssumption`, and
`WidthsAssumption`, which states of two to the power of a width and of the operations on bits what the provers do not know,
and which TLC evaluates for every pair of numbers of the run's widths):

- `PipelineConverts`: `PipelineSpec => Spec`, so that the pipeline has what is proved of `FCmpEq`.
- `IntInvariance`: `PipelineSpec => []IntInv`. `RestGiven` says that what lies before the iterator is, one by one, what is left of
  the instructions the run was given, however many have been inserted behind it; `VisitedSubstituted` that of those
  visited just the ones meant have been substituted. `SpliceIsCode` shows that the function is well-formed after a
  substitution: `Fresh` is above all ids (`FreshFacts`), and each operand still comes before its use.
- `ResultsSame`: `PipelineSpec => []SameResults`. The values of a function's instructions are the only ones that fit its
  equations (`ValuesFacts`, `ValuesUnique`), and values that fit the new instructions fit the one they replace (`AddComputes`,
  where 39 and 151 are inverse to each other modulo 256, and `SubComputes`, modulo two to any width), so `SpliceAgrees`
  and `SpliceResults` carry every value over, whether or not an earlier pass inserted the instruction.
- `SubstitutesAll`: `PipelineSpec => []AllSubstituted`, and `TypesCorrect`: `PipelineSpec => []TypesOK`.

`DeadStoreElimination_proofs` proves, for every function of any size in which each block is reached and
reaches an exit (`FunctionsAssumption`), and whatever a read of a dangling access returns:

- `TypeCorrect`: `Spec => []TypeOK`; `KillersSurvive`: `Spec => []KillerSurvives`, which is inductive with the
  types. A step that erases a killer leaves those it killed to the store that kills it: post-dominance is
  transitive (`PostDominatesTransitive`), and antisymmetric where an exit is reached
  (`PostDominatesAntisymmetric`), so that no store ends up its own killer.
- `IteratorValid`: `Spec => IteratorSafe`. The access found is never the store visited itself, through
  whatever loop the walk went (`NotItsOwnClobber`): the store is reached from the entry by a path that does not
  cross it, and on that path the walk meets another clobber or the entry.
- `FinalMemoryKept`: `Spec => [](OneSize(fn) => FinalMemoryPreserved)`, from the same invariant. `KillerPassed`
  lifts post-dominance from blocks to instructions: from past an erased store no exit is reached but through
  its killer. So the erased store was in memory at no exit (`KilledNotHeld`), and where it had overwritten
  another one the killer it has left still does (`HeldAsBefore`). The premise, that stores to one address are of
  one size, is the one `DSE_stores.cfg` shows to be needed.

`SimpleLICM_proofs` proves, for every function and nest of loops (`FunctionsAssumption`: an instruction is in one
place, after its operands unless it is a PHI; a preheader is before its loop):

- `TypeCorrect`: `Spec => []TypeOK`. `MovedSelf` and `MovedOther` say what a move does to places.
- `Hoisted`: `Spec => []HoistedInvariant`. The property speaks of loops left behind, so it is not inductive;
  `KeptInv` is: an instruction computed from one that is not pure never leaves its block.
  It needs `SetInv`, by which each instruction in the set comes after its operands, all of them pure.
- `Fixpoint`: `Spec => []FixpointComplete`. `FixInv` says that a sweep that has changed nothing so far has left
  nothing to add in what it has visited. Of the instructions that are missing at the end take the one with the
  least number: its operands are in the set, so it could be added.
- `OperandsStayFirst`: `Spec /\ []SmallSet => []SafeOperandsFirst`. `OrderInv` adds that the set is hoisted in its order
  (`HoistedUpTo`): what is hoisted next finds its operands in the preheader. The premise, that no set outgrows its array,
  is the one `SimpleLICM_large.cfg` shows to be needed.

`MergeBB_proofs` proves, for every function of any size and any order of merges (`FunctionsAssumption`: nothing
branches to the entry, a branch has one target, debug intrinsics have no values, and a PHI has an entry
for each edge into its block):

- `TypeCorrect`: `Spec => []TypeOK`, and `Dead`: `Spec => []DeletedAreDead`. Of the inductive invariant `DeadInv`,
  `Unreached` says that nothing branches to a listed block, and `Rooted` that from every block the delete list
  leads to exactly one that is not listed. A block is merged into one that is not listed, so when that is merged in turn
  the ends of all chains through it move together (`RootReplaced`, `StandsReplaced`).
- `BehaviourKept`: `Spec /\ []NoPhiMerged => []SameBehaviour`. `MergedValue` is the step for one merge: each instruction of
  the two blocks has one use at most, so that a value which a PHI takes from both blocks is either defined outside of them
  or computed in both by instructions met in lockstep. `LockstepComposed` and `ComposedValue` carry it along a chain of
  merges: a value with one use that a PHI takes from one block it takes from no other (`OnlyEntry`), so the second
  merge speaks of the value the first one did.
- `PhisMatch`: `Spec /\ []NoPhiMerged => []PhisMatchEdges`. `PhiEdges` says that the edges into blocks with PHIs
  are never redirected: the successor of two blocks that are merged keeps its edges from both.

`NoPhiMerged`, that no merged block has a PHI, is the premise that the run `MergeBB_phi` shows to be needed: of the edges that
are redirected the PHI of the retained block knows nothing. The run `MergeBB` keeps to it.

`EliminateAndReport_proofs` proves, for any nests of loops, any list of PHIs in each header and any widths
(`WidthsAssumption`: what powers of two are, of which the provers know nothing; `FunctionsAssumption`:
`LoopForest`, what `LoopInfo` ensures of how loops lie in each other, and that outermost loops have no loop
in common):

- `TypeCorrect`: `Spec => []TypeOK`.
- `ReachedLoopsComplete`: `Spec => []ReachedLoopsDone`. The property speaks of the end of the pass only. The invariant
  `LoopsDone` says that each loop that is reached is done or in the nest of a call to come, and that no call
  to come is for a loop that another one hides; `LoopAtHand`, that what is due in the loop at hand has been
  replaced or is among the PHIs to come.
- `SameValuesFromZero`: if all PHIs start at zero and none is wider than `int64_t`, `Spec => []SameValues`, for every number of
  iterations. `Replaced` keeps the constant with its PHI; `SignExtension`, `ConstantIsNumber` and `ProductOfResidues`
  show that neither the signed reading of the steps, nor the way back through an unsigned number, nor the
  wrapping of the canonical variable before the multiplication matters (`MultiplierIsStep`), also where the
  canonical variable has one bit and steps by -1. `DIV_start` and `DerivedInductionVar_wide` show that both
  premises are needed. Of wider integers with positive steps `SameValues` is only model-checked.
- `PipelineEliminates`: `PipelineSpec => Spec`, and `ReportedExactlyOnce`: `PipelineSpec => []ReportedOnce`. `ReportInv`: each block of
  a loop has been printed by exactly one entry or is waiting, once, and none that waits has been printed.

Only model-checked, because out of the provers' reach: the liveness properties (`Termination`, `ReportsAtExit`), and
`DuplicateAndMerge!MergedBack`, since `Result` numbers blocks and filters sequences with folds, of which
nothing can be proved but by induction over the data.

## 5. Not modelled

- What `StaticCallCounter` and `OpcodeCounter` count, what `InjectFuncCall` injects, and the graph that
  `MemorySSADemo` writes: straight loops that print or emit text. `Pipeline` models that they run, on what,
  what they are given and what they report.
- Build files, tests, and the generated files. Nine tenths of what a line counter takes for source here,
  some 9300 lines, is CMake's compiler identification under `build*/CMakeFiles/`; the passes, the tool and
  their headers are some 2600 lines, comments included.
- In the modelled passes: names, statistics, debug output, the layout of reports, types other
  than the ones a test asks about, `undef` and poison, exception pads other than landing pads.
- An order of functions and loops other than that of LLVM's adaptors, and plugins loaded twice under
  other file names.

## 6. Plan

Done: `ControlFlow`, `RIV`, `DeadStoreElimination`, `SimpleLICM`, `DynamicCallCounter` with
`CallCounts`, `MergeBB`, `DuplicateBB` over `RIV`, `DerivedInductionVar`, `FCmpEq`, `MBA`,
`AffineRecurrence`, the pairs `DuplicateAndMerge` and `EliminateAndReport`, `Pipeline` over
`PassManager`, and the proofs of section 4: every safety property of the passing runs, `MergedBack`
excepted.

What would come next:

1. An abstract specification of a block-by-block transformation that keeps a function's
   traces, implemented by `MergeBB` and `DuplicateBB`; `BranchesAgree` and `BehaviourKept` are its steps.
2. `Result` of `DuplicateAndMerge` as a relation between the two functions instead of a computation, so
   that `MergedBack` can be proved from `PassInv` and `Dead`.
