-------------------------------- MODULE MergeBB --------------------------------
(***************************************************************************)
(* The pass that merges identical basic blocks (lib/MergeBB.cpp).  It      *)
(* visits the blocks in layout order; a block that has a duplicate among   *)
(* the predecessors of its successor is put on a delete list after the     *)
(* branches to it have been redirected to the duplicate; at the end the    *)
(* listed blocks are deleted.                                              *)
(*                                                                         *)
(* The blocks of a function f are 1..N in layout order and 1 is the entry. *)
(*   kind     of each block's terminator: "br" (an unconditional branch),  *)
(*            "cond" (a conditional one or a switch), "ret" or "other",    *)
(*   targets  its successors, operand by operand,                          *)
(*   body     its other instructions: op, the operands vals and, for a     *)
(*            phi, the blocks from which each operand comes.               *)
(* A value is <<b, k>>: instruction k of block b or, with b = 0, a         *)
(* constant or an argument.  Terminators use only the latter.              *)
(***************************************************************************)
EXTENDS ControlFlow, FiniteSets

CONSTANT Functions      \* the functions the pass may be run on

\* What LLVM's verifier ensures: nothing branches to the entry, a branch has one target,
\* debug intrinsics have neither operands nor values, and a PHI has a value for each edge
\* into its block.
IsFunction(f) ==
    LET B == DOMAIN f.body
        Value == ({0} \X Nat) \cup UNION {{b} \X {k \in DOMAIN f.body[b] : f.body[b][k].op # "dbg"} : b \in B}
        Instruction == [op : STRING, vals : Seq(Value), from : Seq(B)]
    IN  /\ f.body \in Seq(Seq(Instruction)) /\ f.body # <<>>
        /\ \A b \in B : f.targets[b] \in Seq(B \ {1})
        /\ DOMAIN f.targets = B
        /\ \A b \in B : f.kind[b] = "br" => Len(f.targets[b]) = 1
        /\ \A b \in B : \A k \in DOMAIN f.body[b] :
              LET i == f.body[b][k]
              IN  /\ i.op = "dbg" => i.vals = <<>>
                  /\ i.op = "phi" =>
                       /\ Len(i.from) = Len(i.vals)
                       /\ \A p \in B : Cardinality({n \in DOMAIN i.from : i.from[n] = p})
                                         = Cardinality({n \in DOMAIN f.targets[p] : f.targets[p][n] = b})

ASSUME FunctionsAssumption == \A f \in Functions : IsFunction(f)

VARIABLES
    fn,             \* the function, as it was before the pass
    targets,        \* the successors of each block now
    DeleteList,     \* the blocks marked for deletion, and what each merged into
    at,             \* the block whose turn it is
    done            \* whether the listed blocks have been deleted
vars == <<fn, targets, DeleteList, at, done>>

Listed == DOMAIN DeleteList
Blocks == DOMAIN fn.body
NoValue == <<0, 0>>

Preds(b) == {p \in Blocks : \E i \in DOMAIN targets[p] : targets[p][i] = b}
IsBr(b) == fn.kind[b] = "br"
BranchOrSwitch(b) == fn.kind[b] \in {"br", "cond"}
Ins(v) == fn.body[v[1]][v[2]]
Instructions == UNION {{b} \X DOMAIN fn.body[b] : b \in Blocks}

--------------------------------------------------------------------------------
\* The positions of the instructions of b that are not debug intrinsics.
NonDbg(b) == {k \in DOMAIN fn.body[b] : fn.body[b][k].op # "dbg"}

\* The pairs of instructions met when two blocks with as many of them are walked in
\* lockstep.
Lockstep(b, c) ==
    {f \in [NonDbg(b) -> NonDbg(c)] :
        /\ \A i, j \in NonDbg(b) : i < j => f[i] < f[j]
        /\ \A j \in NonDbg(c) : \E i \in NonDbg(b) : f[i] = j}

\* The PHIs at the head of b.
Phis(b) == {b} \X {k \in DOMAIN fn.body[b] : fn.body[b][k].op = "phi"}

\* PN->getIncomingValueForBlock(b).
IncomingValueForBlock(pn, b) ==
    LET Entries == {i \in DOMAIN Ins(pn).from : Ins(pn).from[i] = b}
    IN  IF Entries = {} THEN NoValue
        ELSE Ins(pn).vals[CHOOSE i \in Entries : \A j \in Entries : i <= j]

\* The uses of a value: the user and the operand.
Uses(v) ==
    UNION {{w} \X {i \in DOMAIN Ins(w).vals : Ins(w).vals[i] = v} : w \in Instructions}

HasOneUse(v) == \E u \in Uses(v) : Uses(v) = {u}

\* A use in the successor's PHI overlooked.
canRemoveInst_InBlock(v) == \A u \in Uses(v) : u[1][1] = v[1]

\* The one use of v, which must have one, is in its block or in a PHI of the
\* successor.
canRemoveInst(v) ==
    LET User == (CHOOSE u \in Uses(v) : TRUE)[1]
    IN  \/ User[1] = v[1]
        \/ /\ Ins(User).op = "phi" /\ User[1] = targets[v[1]][1]
           /\ IncomingValueForBlock(User, v[1]) = v

\* The same with the operands not compared.
canMergeInstructions_AnyOperands(v, w) ==
    /\ Ins(v).op = Ins(w).op /\ Len(Ins(v).vals) = Len(Ins(w).vals)
    /\ HasOneUse(v) = HasOneUse(w)

canMergeInstructions(v, w) ==
    /\ Ins(v).op = Ins(w).op /\ Len(Ins(v).vals) = Len(Ins(w).vals)   \* isSameOperationAs
    /\ \/ Uses(v) = {} /\ Uses(w) = {}
       \/ /\ HasOneUse(v) /\ HasOneUse(w)
          /\ canRemoveInst(v) /\ canRemoveInst(w)
    /\ Ins(v).vals = Ins(w).vals

\* BB1 and BB2 have as many instructions, and those in lockstep can be merged.
Identical(BB1, BB2) ==
    \E f \in Lockstep(BB1, BB2) :
        \A k \in NonDbg(BB1) : canMergeInstructions(<<BB1, k>>, <<BB2, f[k]>>)

\* The values the successor's PHI gets from the two blocks are the same, or each is
\* defined in its block.
PhiAllows(BBSucc, BB1, BB2) ==
    \A PN \in Phis(BBSucc) :
        LET InValBB1 == IncomingValueForBlock(PN, BB1)
            InValBB2 == IncomingValueForBlock(PN, BB2)
        IN  InValBB1 = InValBB2 \/ (InValBB1[1] = BB1 /\ InValBB2[1] = BB2)

\* What is asked of BB1 alone.
MayErase(BB1) ==
    /\ BB1 # 1
    /\ IsBr(BB1)
    /\ \A p \in Preds(BB1) : BranchOrSwitch(p)
    /\ \A v, w \in Phis(targets[BB1][1]) : v = w

\* The same, without the test that BB2 is not BB1.
MayRetain_Itself(BB1, BB2) ==
    /\ BB2 # 1 /\ IsBr(BB2)
    /\ BB2 \notin Listed
    /\ Identical(BB1, BB2)
    /\ PhiAllows(targets[BB1][1], BB1, BB2)

\* What is asked of the block BB1 is merged into.  The test of the predecessors of
\* BB2 is a loop whose continue only goes on with that loop: it excludes nothing.
MayRetain(BB1, BB2) ==
    /\ BB2 # 1 /\ IsBr(BB2) /\ BB2 # BB1
    /\ BB2 \notin Listed
    /\ Identical(BB1, BB2)
    /\ PhiAllows(targets[BB1][1], BB1, BB2)

--------------------------------------------------------------------------------
Init ==
    /\ fn \in Functions
    /\ targets = fn.targets
    /\ DeleteList = [b \in {} |-> 0]
    /\ at = 1
    /\ done = FALSE

\* A slip: only the first operand that is the block is replaced.
updateBranchTargets_First(BB1, BB2) ==
    targets' = [p \in Blocks |-> [i \in DOMAIN targets[p] |->
                   IF targets[p][i] = BB1 /\ \A j \in 1..(i - 1) : targets[p][j] # BB1
                   THEN BB2 ELSE targets[p][i]]]

\* The branches skip the block instead of going to its duplicate.
updateBranchTargets_Skip(BB1, BB2) ==
    targets' = [p \in Blocks |-> [i \in DOMAIN targets[p] |->
                   IF targets[p][i] = BB1 THEN targets[BB2][1] ELSE targets[p][i]]]

\* updateBranchTargets: the terminators of BB1's predecessors, operand by operand.
updateBranchTargets(BB1, BB2) ==
    targets' = [p \in Blocks |-> [i \in DOMAIN targets[p] |->
                   IF targets[p][i] = BB1 THEN BB2 ELSE targets[p][i]]]

Visiting == ~ done /\ at \in Blocks
MergeTargets(BB1) ==
    IF MayErase(BB1) THEN {BB2 \in Preds(targets[BB1][1]) : MayRetain(BB1, BB2)} ELSE {}

\* The block is merged into the first predecessor of its successor that qualifies;
\* predecessors are listed in no particular order.
Merge ==
    /\ Visiting
    /\ \E BB2 \in MergeTargets(at) :
          /\ updateBranchTargets(at, BB2)
          /\ DeleteList' = [b \in Listed \cup {at} |-> IF b = at THEN BB2 ELSE DeleteList[b]]
    /\ at' = at + 1
    /\ UNCHANGED <<fn, done>>

Keep ==
    /\ Visiting
    /\ MergeTargets(at) = {}
    /\ at' = at + 1
    /\ UNCHANGED <<fn, targets, DeleteList, done>>

\* DeleteDeadBlock of every block listed, which also takes its entries out of the
\* PHIs of its successor.
DeleteBlocks ==
    /\ ~ done /\ at \notin Blocks
    /\ done' = TRUE
    /\ UNCHANGED <<fn, targets, DeleteList, at>>

Returned == done /\ UNCHANGED vars

Next == Merge \/ Keep \/ DeleteBlocks \/ Returned

Spec == Init /\ [][Next]_vars

--------------------------------------------------------------------------------
\* The block that stands for b: b, or the one it was merged into in the end.
StandsFor(b) ==
    LET Into == {<<c, DeleteList[c]>> : c \in Listed}
    IN  CHOOSE r \in ReachedOver(Blocks, Into, {b}) : r \notin Listed

EntriesFrom(pn, p) == {i \in DOMAIN Ins(pn).from : Ins(pn).from[i] = p}
EdgesTo(p, b) == {i \in DOMAIN targets[p] : targets[p][i] = b}

\* Branches lead to blocks, and what is listed was merged into a block.
TypeOK ==
    /\ \A b \in Blocks : targets[b] \in Seq(Blocks) /\ Len(targets[b]) = Len(fn.targets[b])
    /\ Listed \subseteq Blocks \ {1} /\ \A b \in Listed : DeleteList[b] \in Blocks \ {b}
    /\ at \in 1..(Len(fn.body) + 1)
    /\ done \in BOOLEAN

\* No deleted block can be reached: nothing branches to a block once it is listed, and
\* each was merged, directly or through others that were merged later, into one that is
\* not.
DeletedAreDead ==
    \A b \in Listed : Preds(b) = {} /\ StandsFor(b) \in Blocks \ Listed

\* The instructions of b and r in lockstep do the same.
SameCode(f, b, r) ==
    \A k \in NonDbg(b) : /\ fn.body[b][k].op = fn.body[r][f[k]].op
                         /\ fn.body[b][k].vals = fn.body[r][f[k]].vals

\* A PHI gets the same value from b and from r, or the value computed there.
SameValue(f, pn, b, r) ==
    \/ IncomingValueForBlock(pn, b) = IncomingValueForBlock(pn, r)
    \/ \E k \in NonDbg(b) : /\ IncomingValueForBlock(pn, b) = <<b, k>>
                            /\ IncomingValueForBlock(pn, r) = <<r, f[k]>>

\* At every moment of the pass the function does what it did: the block that stands
\* for b executes the same instructions, then goes to the block that stands for the
\* successor b had, and gives its PHIs the value b gave them or its own copy of it.
SameBehaviour ==
    \A b \in Blocks :
        LET r == StandsFor(b)
        IN  /\ targets[r] = [i \in DOMAIN fn.targets[b] |-> StandsFor(fn.targets[b][i])]
            /\ b # r =>
                 /\ fn.kind[b] = fn.kind[r]
                 /\ \E f \in Lockstep(b, r) :
                       /\ SameCode(f, b, r)
                       /\ \A s \in Blocks : \A pn \in Phis(s) :
                             EntriesFrom(pn, b) # {} => SameValue(f, pn, b, r)

\* It is safe to de-duplicate: in the function that is returned every PHI has an
\* entry for each edge into its block.
PhisMatchEdges ==
    done =>
        \A b \in Blocks \ Listed : \A pn \in Phis(b) : \A p \in Blocks \ Listed :
            Cardinality(EntriesFrom(pn, p)) = Cardinality(EdgesTo(p, b))

\* assert(UpdatedTargets && "No branch target was updated"): a block that is merged
\* has a predecessor.
BranchTargetUpdated == Visiting /\ MergeTargets(at) # {} => Preds(at) # {}

\* Do not optimize non-branch and non-switch CFG edges: nor those into the block that
\* is retained.
RetainedReachedByBranches ==
    Visiting => \A BB2 \in MergeTargets(at) : \A p \in Preds(BB2) : BranchOrSwitch(p)
================================================================================
