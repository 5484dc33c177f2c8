------------------------- MODULE DeadStoreElimination --------------------------
(***************************************************************************)
(* The dead-store pass (DSE/DeadStoreElimination.cpp).  One walk over the  *)
(* function, the blocks in layout order and each block from its end; for   *)
(* every store it asks MemorySSA for the access that clobbers it, and      *)
(* erases that access on the spot if it must alias the store and the store *)
(* post-dominates it.                                                      *)
(*                                                                         *)
(* The blocks of a function f are 1..N in layout order; f.body[b] is the   *)
(* sequence of its instructions but the terminator, each [op, ptr, size,   *)
(* vol] with op "store", "load" or "call".  f.unknown are the pointers     *)
(* that other code may know of: they may alias each other, and calls may   *)
(* write through them.                                                     *)
(*                                                                         *)
(* MemorySSA and alias analysis are LLVM's.  The pass neither updates nor  *)
(* recomputes MemorySSA when it erases an instruction, so its graph is the *)
(* one of the original function, with dangling pointers to what has been   *)
(* erased; what reads through one sees is up to the allocator.             *)
(***************************************************************************)
EXTENDS ControlFlow

CONSTANT Functions      \* the functions the pass may be run on

\* MemorySSA has accesses only in blocks control can reach, and a virtual exit is
\* left out: each block is reached, and reaches an exit.
IsFunction(f) ==
    /\ f.blocks = DOMAIN f.body
    /\ f.blocks = 1..Len(f.body)
    /\ f.entry \in f.blocks
    /\ f.succ \in [f.blocks -> SUBSET (f.blocks \ {f.entry})]
    /\ Reachable(f) = f.blocks
    /\ \A b \in f.blocks : Exits(f) \cap ReachedOver(f.blocks, Edges(f), {b}) # {}
    /\ \A b \in f.blocks : f.body[b] \in Seq([op : {"store", "load", "call"}, ptr : STRING,
                                              size : Nat, vol : BOOLEAN])

ASSUME FunctionsAssumption == \A f \in Functions : IsFunction(f)

VARIABLES
    fn,         \* the function, as it was when its analyses were computed
    at,         \* the instruction InstIt stands at: <<block, position>>
    erased,     \* the instructions the pass has erased
    status      \* "running", "returned" or "crashed"
vars == <<fn, at, erased, status>>

--------------------------------------------------------------------------------
\* Program points: the instructions of each block and, last, its terminator.
Points(f) == UNION {{b} \X (1..Len(f.body[b]) + 1) : b \in f.blocks}
IsOp(f, p, op) == p[2] <= Len(f.body[p[1]]) /\ f.body[p[1]][p[2]].op = op
Inst(f, p) == f.body[p[1]][p[2]]
Stores(f) == {p \in Points(f) : IsOp(f, p, "store")}
MemoryDefs(f) == {p \in Points(f) : IsOp(f, p, "store") \/ IsOp(f, p, "call")}

\* The steps control may take from one point to the next.
End(f, b) == <<b, Len(f.body[b]) + 1>>
Flow(f) ==
    {<<p, <<p[1], p[2] + 1>>>> : p \in {q \in Points(f) : q # End(f, q[1])}}
      \cup {<<End(f, e[1]), <<e[2], 1>>>> : e \in Edges(f)}

MustAlias(f, p, q) == Inst(f, p).ptr = Inst(f, q).ptr
MayWrite(f, p, ptr) ==
    \/ IsOp(f, p, "store") /\ (Inst(f, p).ptr = ptr \/ {Inst(f, p).ptr, ptr} \subseteq f.unknown)
    \/ IsOp(f, p, "call") /\ ptr \in f.unknown

--------------------------------------------------------------------------------
LiveOnEntry == <<0, 0>>
Phi == <<0, 1>>

\* The accesses that may clobber store p, but for those the walker is blind to.
Clobbers(f, p, blind) == {q \in MemoryDefs(f) \ blind : MayWrite(f, q, Inst(f, p).ptr)}

\* The points the walker passes going up from p, to the first clobber on each path.
WalkedUp(f, p, blind) ==
    LET Stop == Clobbers(f, p, blind)
        Up == {<<e[2], e[1]>> : e \in {d \in Flow(f) : d[2] \notin Stop}}
    IN  ReachedOver(Points(f), Up, {e[1] : e \in {d \in Flow(f) : d[2] = p}})

\* A walk that follows one path only, back edges first.
ClobberingMemoryAccess_OnePath(f, p, blind) ==
    LET First == WalkedUp(f, p, blind) \cap Clobbers(f, p, blind)
    IN  IF First = {} THEN LiveOnEntry
        ELSE CHOOSE q \in First : \A r \in First : r[1] <= q[1]

\* MSSA.getWalker()->getClobberingMemoryAccess(p): the one access that is the
\* first clobber of p on every path up to the entry, or the phi where they meet.
ClobberingMemoryAccess(f, p, blind) ==
    LET Up == WalkedUp(f, p, blind)
        First == (Up \cap Clobbers(f, p, blind)) \cup
                    (IF <<f.entry, 1>> \in (Up \ Clobbers(f, p, blind)) \cup {p}
                     THEN {LiveOnEntry} ELSE {})
    IN  IF \E q \in First : First = {q} THEN CHOOSE q \in First : TRUE ELSE Phi

\* hasInterveningUse: the walk starts at cur, and its first step is the answer
\* prev was taken from; no load is ever on the way.
HasInterveningUse(f, prev, cur, blind) == ClobberingMemoryAccess(f, cur, blind) # prev

\* The dominator tree asked instead: whether q dominates p.
PDTDominates_DT(f, p, q) ==
    IF p[1] = q[1] THEN q[2] <= p[2] ELSE Dominates(f, q[1], p[1])

\* PDT.dominates(p, q) of two instructions.
PDTDominates(f, p, q) ==
    IF p[1] = q[1] THEN q[2] <= p[2] ELSE PostDominates(f, p[1], q[1])

--------------------------------------------------------------------------------
Init ==
    /\ fn \in Functions
    /\ at = End(fn, 1)
    /\ erased = {}
    /\ status = "running"

\* A loop that goes one instruction past the start of the block.
Advance_TooFar ==
    CASE at[2] > 0 -> at' = <<at[1], at[2] - 1>> /\ UNCHANGED status
      [] at[2] = 0 /\ at[1] + 1 \in fn.blocks -> at' = End(fn, at[1] + 1) /\ UNCHANGED status
      [] OTHER -> status' = "returned" /\ UNCHANGED at

\* ++InstIt, or the start of the next block, or the end of the function.
Advance ==
    CASE at[2] > 1 -> at' = <<at[1], at[2] - 1>> /\ UNCHANGED status
      [] at[2] = 1 /\ at[1] + 1 \in fn.blocks ->
            at' = End(fn, at[1] + 1) /\ UNCHANGED status
      [] OTHER -> status' = "returned" /\ UNCHANGED at

Visiting == status = "running" /\ at \in Stores(fn) \ erased

\* Erased instructions are no longer in the block, loads and calls are no stores.
SkipInst ==
    /\ status = "running"
    /\ at \notin Stores(fn) \ erased
    /\ Advance
    /\ UNCHANGED <<fn, erased>>

\* What AA.alias may answer: for a call MemoryLocation::get reads an empty
\* optional, and the location it returns is whatever was in its storage.
SaysMustAlias(prev) ==
    IF prev \in Stores(fn) THEN {MustAlias(fn, at, prev)} ELSE BOOLEAN

\* Visit a store.  The walk dereferences erased instructions it comes across, each
\* of which may still look like the store it was, or like nothing that clobbers.
VisitStore ==
    /\ Visiting
    /\ \E blind \in SUBSET erased :
          LET prev == ClobberingMemoryAccess(fn, at, blind)
          IN  IF prev \in MemoryDefs(fn)
              THEN \E must \in SaysMustAlias(prev) :
                      erased' = IF /\ must
                                   /\ ~ HasInterveningUse(fn, prev, at, blind)
                                   /\ PDTDominates(fn, at, prev)
                                THEN erased \cup {prev}     \* eraseFromParent
                                ELSE erased
              ELSE UNCHANGED erased
    /\ Advance
    /\ UNCHANGED fn

\* The accesses the walk from p examines although they have been erased.
Dangling(p) == WalkedUp(fn, p, {}) \cap erased

\* Or the undefined behaviour takes the compiler down.
Crash ==
    /\ Visiting
    /\ \/ erased # {} /\ Dangling(at) # {}
       \/ ClobberingMemoryAccess(fn, at, {}) \in MemoryDefs(fn) \ Stores(fn)
    /\ status' = "crashed"
    /\ UNCHANGED <<fn, at, erased>>

\* The pass has returned PreservedAnalyses::all(), or the compiler has crashed.
Stopped == status # "running" /\ UNCHANGED vars

Next == SkipInst \/ VisitStore \/ Crash \/ Stopped

Spec == Init /\ [][Next]_vars

--------------------------------------------------------------------------------
\* k leaves nothing in memory of what s has stored.
Overwrites(f, k, s) ==
    IsOp(f, k, "store") /\ MustAlias(f, k, s) /\ Inst(f, k).size >= Inst(f, s).size

\* The points control may reach from store s with something of what s stored still
\* in memory, when the stores in gone have been removed.
Holds(f, s, gone) ==
    LET Keeping == {e \in Flow(f) : e[1] \in gone \/ ~ Overwrites(f, e[1], s)}
    IN  ReachedOver(Points(f), Keeping, {<<s[1], s[2] + 1>>})

ExitPoints(f) == {End(f, b) : b \in Exits(f)}

\* The position is in the function, and only instructions have been erased.
TypeOK ==
    /\ at \in Points(fn)
    /\ erased \subseteq MemoryDefs(fn)
    /\ status \in {"running", "returned", "crashed"}

\* Whatever the order of the erasures and whatever dangling accesses look like,
\* each erased store has a store to the same location that post-dominates it and
\* is still there: a killer is never itself killed without a successor.
KillerSurvives ==
    \A e \in erased \cap Stores(fn) :
        \E k \in Stores(fn) \ erased :
            /\ MustAlias(fn, k, e)
            /\ IF k[1] = e[1] THEN e[2] < k[2] ELSE PostDominates(fn, k[1], e[1])

\* What the function leaves in memory at its exits is untouched: the stores whose
\* value may be in memory then are those of the original function.
FinalMemoryPreserved ==
    {s \in Stores(fn) \ erased : Holds(fn, s, erased) \cap ExitPoints(fn) # {}}
      = {s \in Stores(fn) : Holds(fn, s, {}) \cap ExitPoints(fn) # {}}

\* Every load reads what the same stores wrote as before the pass: hasInterveningUse
\* is to report a load between the two stores.
LoadsPreserved ==
    \A l \in {p \in Points(fn) : IsOp(fn, p, "load")} :
        LET Wrote(gone) == {s \in Stores(fn) \ gone : MustAlias(fn, s, l) /\ l \in Holds(fn, s, gone)}
        IN  Wrote(erased) = Wrote({})

\* The walk reads no instruction that has been erased before the iteration ended.
NoDanglingAccess == Visiting => Dangling(at) = {}

\* Volatile stores are not erased.
VolatileKept == \A e \in erased \cap Stores(fn) : ~ Inst(fn, e).vol

\* The access a visited store is compared with is a store.
ComparedWithStore ==
    Visiting => ClobberingMemoryAccess(fn, at, {}) \notin MemoryDefs(fn) \ Stores(fn)

\* The erasure does not invalidate the iteration: no step erases the instruction
\* InstIt stands at, not even through a loop's back edge.
IteratorSafe == [][Visiting => at \notin erased']_vars
================================================================================
