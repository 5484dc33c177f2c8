------------------------------ MODULE SimpleLICM -------------------------------
(***************************************************************************)
(* The loop-invariant code motion pass (SimpleLICM/SimpleLICM-skeleton.cpp)*)
(* run by LLVM's loop pass manager on every loop of a function, inner      *)
(* loops first.  On each loop it grows the set of invariant instructions   *)
(* to a fixpoint and moves those that are safe to speculate to the         *)
(* preheader, in the order in which the set is iterated.                   *)
(*                                                                         *)
(* A function f has                                                        *)
(*   loops  the loops in the order they are processed, each with blocks,   *)
(*          its blocks in the order of L.blocks(), and preheader;          *)
(*   body   the instructions of each block.  The blocks are numbers, and   *)
(*          of two blocks the smaller dominates the other;                 *)
(*   op     of each instruction: "pure" (a binary operator, comparison or  *)
(*          cast), "phi" or "other";                                       *)
(*   safe   the instructions isSafeToSpeculativelyExecute;                 *)
(*   args   the operands of each instruction that are instructions: the    *)
(*          pass takes constants and arguments to be invariant.            *)
(***************************************************************************)
EXTENDS ControlFlow, SequencesExt

CONSTANTS Functions,    \* the functions the pass may be run on
          SmallSize,    \* 8: up to so many elements a SmallPtrSet is an array
          NoPreheader   \* the preheader of a loop that has none

Insts(f) == DOMAIN f.op

\* Where the blocks of a body hold an instruction, each place a block and a position in it.
Places(bodies, i) ==
    {p \in UNION {{b} \X DOMAIN bodies[b] : b \in DOMAIN bodies} : bodies[p[1]][p[2]] = i}

\* i comes before j on every path that reaches j: of two blocks the smaller dominates the
\* other, so that this is about functions whose blocks form a chain of dominators.
Precedes(bodies, i, j) ==
    \E p \in Places(bodies, i), q \in Places(bodies, j) :
        p[1] < q[1] \/ (p[1] = q[1] /\ p[2] < q[2])

\* SSA: each instruction is in one place, and after its operands unless it is a phi.  The
\* instructions are numbered in an order that says the same of the latter.  A preheader
\* dominates its loop.
IsFunction(f) ==
    /\ Insts(f) \subseteq Nat /\ DOMAIN f.body \subseteq Nat
    /\ f.body \in [DOMAIN f.body -> Seq(Insts(f))]
    /\ f.args \in [Insts(f) -> SUBSET Insts(f)]
    /\ \A i \in Insts(f) : \E p \in Places(f.body, i) : Places(f.body, i) = {p}
    /\ \A i \in Insts(f) : f.op[i] # "phi" =>
          \A o \in f.args[i] : o < i /\ Precedes(f.body, o, i)
    /\ f.loops # <<>>
    /\ f.loops \in Seq([blocks : Seq(DOMAIN f.body) \ {<<>>},
                        preheader : DOMAIN f.body \cup {NoPreheader}])
    /\ \A k \in DOMAIN f.loops : f.loops[k].preheader # NoPreheader =>
          \A b \in ToSet(f.loops[k].blocks) : f.loops[k].preheader < b

ASSUME FunctionsAssumption ==
    /\ \A f \in Functions : IsFunction(f)
    /\ SmallSize \in Nat
    /\ NoPreheader \notin Nat

VARIABLES
    fn,             \* the function, as it was before the pass
    body,           \* the instructions of each block now
    loop,           \* the loop being processed: an index into fn.loops
    pc,             \* where run stands: "enter", "while", "scan", "hoist", "done"
    InvariantSet,   \* the instructions of InvariantSet, in the order of insertion
    Changed,        \* the local variable of that name
    BB,             \* the block the sweep is in: an index into the loop's blocks
    todo            \* what the current for loop over instructions has still to visit
vars == <<fn, body, loop, pc, InvariantSet, Changed, BB, todo>>

--------------------------------------------------------------------------------
L == fn.loops[loop]
Instructions(l) == UNION {ToSet(body[b]) : b \in ToSet(l.blocks)}

\* SmallPtrSet iterates over an array in the order of insertion, and over a hash
\* table in an order that depends on where the instructions were allocated.
IterationOrders(s) == IF Len(s) <= SmallSize THEN {s} ELSE SetToSeqs(ToSet(s))

Init ==
    /\ fn \in Functions
    /\ body = fn.body
    /\ loop = 1
    /\ pc = "enter"
    /\ InvariantSet = <<>>
    /\ Changed = TRUE
    /\ BB = 1
    /\ todo = <<>>

\* The pass manager turns to the next loop, or is done.
NextLoop ==
    IF loop < Len(fn.loops) THEN loop' = loop + 1 /\ pc' = "enter"
    ELSE pc' = "done" /\ UNCHANGED loop

\* "No preheader, skipping loop".
SkipLoop ==
    /\ pc = "enter"
    /\ L.preheader = NoPreheader
    /\ NextLoop
    /\ UNCHANGED <<fn, body, InvariantSet, Changed, BB, todo>>

EnterLoop ==
    /\ pc = "enter"
    /\ L.preheader # NoPreheader
    /\ pc' = "while"
    /\ InvariantSet' = <<>>
    /\ Changed' = TRUE
    /\ UNCHANGED <<fn, body, loop, BB, todo>>

\* while (Changed): start another sweep over the loop's blocks.
StartSweep ==
    /\ pc = "while" /\ Changed
    /\ pc' = "scan"
    /\ Changed' = FALSE
    /\ BB' = 1
    /\ todo' = body[L.blocks[1]]
    /\ UNCHANGED <<fn, body, loop, InvariantSet>>

\* The operand test with the invariance of the operand forgotten.
AllOperandsInvariant_InLoop(i) == fn.args[i] \subseteq Instructions(L)

\* No operand that is an instruction is outside the loop or not known invariant.
AllOperandsInvariant(i) ==
    \A o \in fn.args[i] : ~ (o \notin Instructions(L) \/ ~ Contains(InvariantSet, o))

\* A slip: an instruction is added without another sweep being asked for.
ScanInst_NoChange ==
    /\ pc = "scan" /\ todo # <<>>
    /\ LET I == Head(todo)
       IN  IF /\ fn.op[I] = "pure"
              /\ AllOperandsInvariant(I)
              /\ ~ Contains(InvariantSet, I)
           THEN InvariantSet' = Append(InvariantSet, I) /\ UNCHANGED Changed
           ELSE UNCHANGED <<InvariantSet, Changed>>
    /\ todo' = Tail(todo)
    /\ UNCHANGED <<fn, body, loop, pc, BB>>

\* A slip: every visit of an invariant instruction asks for another sweep.
ScanInst_AlwaysChanged ==
    /\ pc = "scan" /\ todo # <<>>
    /\ LET I == Head(todo)
       IN  IF fn.op[I] = "pure" /\ AllOperandsInvariant(I)
           THEN /\ InvariantSet' = IF Contains(InvariantSet, I) THEN InvariantSet
                                   ELSE Append(InvariantSet, I)
                /\ Changed' = TRUE
           ELSE UNCHANGED <<InvariantSet, Changed>>
    /\ todo' = Tail(todo)
    /\ UNCHANGED <<fn, body, loop, pc, BB>>

\* Visit one instruction of the sweep.
ScanInst ==
    /\ pc = "scan" /\ todo # <<>>
    /\ LET I == Head(todo)
       IN  IF /\ fn.op[I] = "pure"
              /\ AllOperandsInvariant(I)
              /\ ~ Contains(InvariantSet, I)
           THEN InvariantSet' = Append(InvariantSet, I) /\ Changed' = TRUE
           ELSE UNCHANGED <<InvariantSet, Changed>>
    /\ todo' = Tail(todo)
    /\ UNCHANGED <<fn, body, loop, pc, BB>>

\* The next of the loop's blocks.
NextBlock ==
    /\ pc = "scan" /\ todo = <<>>
    /\ BB < Len(L.blocks)
    /\ BB' = BB + 1
    /\ todo' = body[L.blocks[BB + 1]]
    /\ UNCHANGED <<fn, body, loop, pc, InvariantSet, Changed>>

EndSweep ==
    /\ pc = "scan" /\ todo = <<>>
    /\ BB = Len(L.blocks)
    /\ pc' = "while"
    /\ UNCHANGED <<fn, body, loop, InvariantSet, Changed, BB, todo>>

\* The fixpoint is reached: iterate over the set.
StartHoisting ==
    /\ pc = "while" /\ ~ Changed
    /\ pc' = "hoist"
    /\ todo' \in IterationOrders(InvariantSet)
    /\ UNCHANGED <<fn, body, loop, InvariantSet, Changed, BB>>

\* moveBefore(Preheader's first instruction) instead of its terminator.
MoveToPreheader_Front(i) ==
    \E p \in Places(body, i) :
        body' = [b \in DOMAIN body |->
                   CASE b = L.preheader -> <<i>> \o body[b]
                     [] b = p[1]        -> RemoveAt(body[b], p[2])
                     [] OTHER           -> body[b]]

\* The instruction is inserted in the preheader but not taken out of its block.
MoveToPreheader_Copy(i) ==
    body' = [b \in DOMAIN body |-> IF b = L.preheader THEN Append(body[b], i) ELSE body[b]]

\* I->moveBefore(Preheader->getTerminator()).
MoveToPreheader(i) ==
    \E p \in Places(body, i) :
        body' = [b \in DOMAIN body |->
                   CASE b = L.preheader -> Append(body[b], i)
                     [] b = p[1]        -> RemoveAt(body[b], p[2])
                     [] OTHER           -> body[b]]

HoistInst ==
    /\ pc = "hoist" /\ todo # <<>>
    /\ IF Head(todo) \in fn.safe THEN MoveToPreheader(Head(todo)) ELSE UNCHANGED body
    /\ todo' = Tail(todo)
    /\ UNCHANGED <<fn, loop, pc, InvariantSet, Changed, BB>>

\* return PreservedAnalyses::none().
ReturnFromLoop ==
    /\ pc = "hoist" /\ todo = <<>>
    /\ NextLoop
    /\ UNCHANGED <<fn, body, InvariantSet, Changed, BB, todo>>

Done == pc = "done" /\ UNCHANGED vars

Next ==
    \/ SkipLoop \/ EnterLoop \/ StartSweep \/ ScanInst \/ NextBlock \/ EndSweep
    \/ StartHoisting \/ HoistInst \/ ReturnFromLoop \/ Done

Spec == Init /\ [][Next]_vars

\* The compiler runs the pass on.
FairSpec == Spec /\ WF_vars(Next)

--------------------------------------------------------------------------------
\* The instructions whose values i is computed from, and i.
ComputedFrom(f, i) ==
    ReachedOver(Insts(f), {e \in Insts(f) \X Insts(f) : e[2] \in f.args[e[1]]}, {i})

\* i was in one of the blocks of loop l before the pass.
WasIn(l, i) == \E b \in ToSet(l.blocks) : Contains(fn.body[b], i)

\* No instruction is lost or duplicated by the moves, and the sets hold
\* instructions of the function.
TypeOK ==
    /\ loop \in DOMAIN fn.loops
    /\ pc \in {"enter", "while", "scan", "hoist", "done"}
    /\ Changed \in BOOLEAN
    /\ ToSet(InvariantSet) \cup ToSet(todo) \subseteq Insts(fn)
    /\ DOMAIN body = DOMAIN fn.body
    /\ \A i \in Insts(fn) : \E p \in Places(body, i) : Places(body, i) = {p}

\* While instructions are being moved and afterwards, every operand of every
\* instruction comes before it: no value is used where it is not yet computed.
OperandsFirst ==
    \A i \in Insts(fn) : fn.op[i] # "phi" => \A o \in fn.args[i] : Precedes(body, o, i)

\* The same, for the operands the pass may move: the one way a small set breaks
\* the order is an operand that is invariant but not safe to speculate.
SafeOperandsFirst ==
    \A i \in Insts(fn) : fn.op[i] # "phi" =>
        \A o \in fn.args[i] : (fn.op[o] = "pure" => o \in fn.safe) => Precedes(body, o, i)

\* What is moved out of a loop computes the same value in each of its iterations:
\* nothing in the loop it is computed from, however indirectly, is a phi or reads
\* memory.
HoistedInvariant ==
    \A k \in DOMAIN fn.loops : \A i \in Insts(fn) :
        LET l == fn.loops[k]
        IN  WasIn(l, i) /\ i \notin Instructions(l) =>
              \A o \in ComputedFrom(fn, i) : WasIn(l, o) => fn.op[o] = "pure"

\* The sweeps find all there is to find, in whatever order the loop lists its
\* blocks: at the fixpoint the set has every instruction of the loop that is
\* computed from pure instructions of the loop only.
FixpointComplete ==
    pc = "while" /\ ~ Changed =>
        ToSet(InvariantSet) =
            {i \in Instructions(L) : \A o \in ComputedFrom(fn, i) :
                                        fn.op[o] = "pure" /\ o \in Instructions(L)}

\* When the pass is done, no safe invariant instruction is left in a loop: none
\* that is computed only from pure instructions and from values of outside it.
AllInvariantsHoisted ==
    pc = "done" =>
        \A k \in DOMAIN fn.loops :
            LET l == fn.loops[k]
            IN  l.preheader # NoPreheader =>
                  \A i \in Instructions(l) :
                      ~ /\ i \in fn.safe
                        /\ fn.op[i] = "pure"
                        /\ fn.args[i] \cap Instructions(l) = {}

\* Each fixpoint is reached and the pass ends.
Termination == <>(pc = "done")
================================================================================
