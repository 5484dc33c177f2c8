------------------------------ MODULE DuplicateBB ------------------------------
(***************************************************************************)
(* The pass that duplicates basic blocks (lib/DuplicateBB.cpp).  It runs   *)
(* the RIV analysis, picks for each block one of the values it found, and  *)
(* only then rewrites the blocks one by one: while it does, the values it  *)
(* picked are replaced by others, and ReMapper says by which.              *)
(*                                                                         *)
(* A function f is as in RIV, its blocks 1..N in layout order, with also   *)
(*   code   the instructions of each block, PHIs first, terminator last,   *)
(*   voids  those that produce no value,                                   *)
(*   ops    the operands of each instruction that is not a PHI,            *)
(*   phis   of each PHI, the value it takes from each predecessor,         *)
(*   pads   the landing pads.                                              *)
(* Values are pairs.  An instruction or argument of f is <<i, 0>>; its two *)
(* clones are <<i, 1>> and <<i, 2>>, the PHI that merges them <<i, 3>>.    *)
(* Block b becomes <<b, 0>>, then lt-if-then-else, with lt-clone-1 and     *)
(* lt-clone-2 <<b, 1>> and <<b, 2>> and lt-tail <<b, 3>>.                  *)
(***************************************************************************)
EXTENDS RIV

\* What the verifier demands of a function.
IsCode(f) ==
    LET Insts == UNION {f.insts[b] : b \in f.blocks}
        Values == (f.args \cup f.globals \cup Insts) \ f.voids
    IN  /\ IsFiniteSet(f.blocks) /\ f.blocks \subseteq Nat
        /\ \A v \in f.args \cup f.globals \cup Insts : v = <<v[1], 0>>
        /\ \A b \in f.blocks :
              LET c == f.code[b]
              IN  /\ c \in Seq(f.insts[b]) /\ IsInjective(c) /\ ToSet(c) = f.insts[b]
                  /\ c # <<>> /\ Last(c) \notin DOMAIN f.phis /\ Last(c) \in f.voids \cup f.results[b]
                  /\ \A p \in DOMAIN c : c[p] \in DOMAIN f.phis =>
                        /\ \A q \in 1..p : c[q] \in DOMAIN f.phis
                        /\ DOMAIN f.phis[c[p]] = {P \in f.blocks : b \in f.succ[P]}
        \* Operands have been computed: a value of the block before, or one available in it.
        /\ \A b \in f.blocks : \A p \in DOMAIN f.code[b] :
              LET i == f.code[b][p]
              IN  IF i \in DOMAIN f.phis
                  THEN \A P \in DOMAIN f.phis[i] :
                          f.phis[i][P] \in f.insts[P] \/ P \in AvailableIn(f, f.phis[i][P])
                  ELSE \A o \in f.ops[i] :
                          (\E q \in 1..(p - 1) : f.code[b][q] = o) \/ b \in AvailableIn(f, o)
        /\ DOMAIN f.phis \subseteq Insts /\ DOMAIN f.ops = Insts \ DOMAIN f.phis
        /\ \A i \in DOMAIN f.ops : f.ops[i] \subseteq Values
        /\ \A i \in DOMAIN f.phis : \A P \in DOMAIN f.phis[i] : f.phis[i][P] \in Values
        /\ f.voids \subseteq Insts /\ f.ints \cap f.voids = {}

ASSUME CodeAssumption == \A f \in Functions : IsCode(f)

VARIABLES
    pc,             \* "analyse", "find", "clone", "tail" or "done"
    next,           \* the block, or the target, whose turn it is
    Targets,        \* the blocks to duplicate, each with its context value
    code,           \* the instructions of each block now
    succ,           \* its successors
    ops, phis,      \* the operands of each instruction
    ReMapper,       \* the values replaced so far, and by what
    VMap,           \* ThenVMap and ElseVMap
    IIT             \* the position in lt-tail
ir == <<code, succ, ops, phis>>
cloning == <<ReMapper, VMap, IIT>>
passVars == <<vars, pc, next, Targets, ir, cloning>>

--------------------------------------------------------------------------------
NoValues == [v \in {} |-> v]
Blocks == DOMAIN code
BB == Targets[next][1]
IfThenElse == <<BB, 0>>
Clone(k) == <<BB, k>>
LtTail == <<BB, 3>>

PassInit ==
    /\ Init
    /\ pc = "analyse"
    /\ next = 1
    /\ Targets = <<>>
    /\ code = [B \in fn.blocks \X {0} |-> fn.code[B[1]]]
    /\ succ = [B \in fn.blocks \X {0} |-> fn.succ[B[1]] \X {0}]
    /\ ops = fn.ops
    /\ phis = [i \in DOMAIN fn.phis |->
                 [P \in (DOMAIN fn.phis[i]) \X {0} |-> fn.phis[i][P[1]]]]
    /\ ReMapper = NoValues
    /\ VMap = <<NoValues, NoValues>>
    /\ IIT = 0

\* FAM.getResult<RIV>(F): the analysis runs to its end first.
Analyse ==
    /\ pc = "analyse"
    /\ \/ ProcessParent /\ UNCHANGED pc
       \/ Returned /\ pc' = "find"
    /\ UNCHANGED <<next, Targets, ir, cloning>>

\* RIVResult.lookup(&BB).
ReachableValues(b) == IF b \in DOMAIN ResultMap THEN ResultMap[b] ELSE {}

\* A slip: global variables are not excluded.
FindBB_Globals ==
    /\ pc = "find" /\ next \in fn.blocks
    /\ IF next \in fn.pads \/ ReachableValues(next) = {} THEN UNCHANGED Targets
       ELSE \E v \in ReachableValues(next) : Targets' = Append(Targets, <<next, v>>)
    /\ next' = next + 1
    /\ UNCHANGED <<vars, pc, ir, cloning>>

\* findBBsToDuplicate, one block: a value is picked at random.
FindBB ==
    /\ pc = "find" /\ next \in fn.blocks
    /\ IF next \in fn.pads \/ ReachableValues(next) = {} THEN UNCHANGED Targets
       ELSE \E v \in ReachableValues(next) :
               Targets' = IF v \in fn.globals THEN Targets ELSE Append(Targets, <<next, v>>)
    /\ next' = next + 1
    /\ UNCHANGED <<vars, pc, ir, cloning>>

StartCloning ==
    /\ pc = "find" /\ next \notin fn.blocks
    /\ pc' = "clone" /\ next' = 1
    /\ UNCHANGED <<vars, Targets, ir, cloning>>

\* The value that stands for v by now.
Remap(v) == IF v \in DOMAIN ReMapper THEN ReMapper[v] ELSE v

\* BB.getFirstNonPHIIt().
FirstNonPHI(B) ==
    CHOOSE p \in DOMAIN code[B] :
        code[B][p] \notin DOMAIN phis /\ \A q \in 1..(p - 1) : code[B][q] \in DOMAIN phis

\* cloneBB up to its loop: the if-then-else is inserted after the PHIs of the block,
\* what follows them becomes lt-tail, which the successors' PHIs now name.
SplitBB ==
    /\ pc = "clone" /\ next \in DOMAIN Targets
    /\ LET BBHead == FirstNonPHI(IfThenElse)
           c == code[IfThenElse]
           Cond == <<BB, 4>>
           Split == Blocks \cup {Clone(1), Clone(2), LtTail}
       IN  /\ code' = [B \in Split |->
                         IF B = IfThenElse THEN Append(SubSeq(c, 1, BBHead - 1), Cond)
                         ELSE IF B = LtTail THEN SubSeq(c, BBHead, Len(c))
                         ELSE IF B \in {Clone(1), Clone(2)} THEN <<>> ELSE code[B]]
           /\ succ' = [B \in Split |->
                         IF B = IfThenElse THEN {Clone(1), Clone(2)}
                         ELSE IF B = LtTail THEN succ[IfThenElse]
                         ELSE IF B \in {Clone(1), Clone(2)} THEN {LtTail} ELSE succ[B]]
           /\ ops' = [i \in DOMAIN ops \cup {Cond} |->
                         IF i = Cond THEN {Remap(Targets[next][2])} ELSE ops[i]]
    /\ phis' = [i \in DOMAIN phis |->
                  [P \in {IF Q = IfThenElse THEN LtTail ELSE Q : Q \in DOMAIN phis[i]} |->
                     phis[i][IF P = LtTail THEN IfThenElse ELSE P]]]
    /\ VMap' = <<NoValues, NoValues>>
    /\ IIT' = 1
    /\ pc' = "tail"
    /\ UNCHANGED <<vars, next, Targets, ReMapper>>

\* I->replaceAllUsesWith(J): in a set of operands, in the incoming values of a PHI, and
\* among the keys of a ValueMap.
Renamed(v, I, J) == IF v = I THEN J ELSE v
RAUW(map, I, J) ==
    [v \in {Renamed(w, I, J) : w \in DOMAIN map} |-> map[IF v = J THEN I ELSE v]]

\* RemapInstruction of clone k of I.
Remapped(k, I) == {IF o \in DOMAIN VMap[k] THEN VMap[k][o] ELSE o : o \in ops[I]}

\* ThenVMap or ElseVMap with the clone of I.
Entered(k, I) == [v \in DOMAIN VMap[k] \cup {I} |-> IF v = I THEN <<I[1], k>> ELSE VMap[k][v]]

\* The clones of I, inserted at the end of the branches.
Cloned(I) ==
    [j \in DOMAIN ops \cup {<<I[1], 1>>, <<I[1], 2>>} |->
        IF j \in {<<I[1], 1>>, <<I[1], 2>>} THEN Remapped(j[2], I) ELSE ops[j]]
Inserted(I) ==
    [B \in Blocks |-> IF B \in {Clone(1), Clone(2)} THEN Append(code[B], <<I[1], B[2]>>) ELSE code[B]]

\* The new PHI is not entered in ReMapper.
ReMapped_Not(I, Phi) == ReMapper

\* ReMapper[&Instr] = Phi.
ReMapped(I, Phi) == [v \in DOMAIN ReMapper \cup {I} |-> IF v = I THEN Phi ELSE ReMapper[v]]

\* A slip: both incoming values are entered for the first branch.
Incoming_Then(v, w) == [P \in {Clone(1)} |-> w]

\* Phi->addIncoming for the clones v and w.
Incoming(v, w) == [P \in {Clone(1), Clone(2)} |-> IF P = Clone(1) THEN v ELSE w]

Instr == code[LtTail][IIT]

\* One iteration of the loop over lt-tail, for an instruction that produces no value: it is
\* cloned into both branches.
CloneVoid ==
    /\ pc = "tail" /\ IIT < Len(code[LtTail])
    /\ Instr \in fn.voids
    /\ code' = Inserted(Instr)
    /\ ops' = Cloned(Instr)
    /\ VMap' = <<Entered(1, Instr), Entered(2, Instr)>>
    /\ IIT' = IIT + 1
    /\ UNCHANGED <<vars, pc, next, Targets, succ, phis, ReMapper>>

\* One that produces a value is also replaced by a PHI.
CloneValue ==
    /\ pc = "tail" /\ IIT < Len(code[LtTail])
    /\ Instr \notin fn.voids
    /\ LET I == Instr
           Phi == <<I[1], 3>>
       IN  /\ code' = [B \in Blocks |->
                         IF B = LtTail THEN [code[B] EXCEPT ![IIT] = Phi] ELSE Inserted(I)[B]]
           /\ ops' = [j \in (DOMAIN Cloned(I)) \ {I} |-> {Renamed(o, I, Phi) : o \in Cloned(I)[j]}]
           /\ phis' = [j \in DOMAIN phis \cup {Phi} |->
                         IF j = Phi THEN Incoming(<<I[1], 1>>, <<I[1], 2>>)
                         ELSE [P \in DOMAIN phis[j] |-> Renamed(phis[j][P], I, Phi)]]
           /\ VMap' = <<RAUW(Entered(1, I), I, Phi), RAUW(Entered(2, I), I, Phi)>>
           /\ ReMapper' = ReMapped(I, Phi)
    /\ IIT' = IIT + 1
    /\ UNCHANGED <<vars, pc, next, Targets, succ>>

\* Nothing is purged.
Kept_All(c) == DOMAIN c

\* What stays in lt-tail: the instructions in ToRemove have been cloned and produce no value.
Kept(c) == {p \in DOMAIN c : c[p] \notin fn.voids \/ p = Len(c)}

\* The positions K in ascending order.
Ascending(K) ==
    {at \in [1..Cardinality(K) -> K] :
        /\ \A i, j \in DOMAIN at : i < j => at[i] < at[j]
        /\ \A p \in K : \E i \in DOMAIN at : at[i] = p}

\* The terminator is reached; the instructions in ToRemove are erased.
FinishBB ==
    /\ pc = "tail" /\ IIT = Len(code[LtTail])
    /\ \E at \in Ascending(Kept(code[LtTail])) :
          code' = [code EXCEPT ![LtTail] = [i \in DOMAIN at |-> code[LtTail][at[i]]]]
    /\ pc' = "clone" /\ next' = next + 1
    /\ VMap' = <<NoValues, NoValues>>
    /\ IIT' = 0
    /\ UNCHANGED <<vars, Targets, succ, ops, phis, ReMapper>>

Return ==
    /\ pc = "clone" /\ next \notin DOMAIN Targets
    /\ pc' = "done"
    /\ UNCHANGED <<vars, next, Targets, ir, cloning>>

Finished == pc = "done" /\ UNCHANGED passVars

PassNext ==
    \/ Analyse \/ FindBB \/ StartCloning \/ SplitBB \/ CloneVoid \/ CloneValue \/ FinishBB
    \/ Return \/ Finished

PassSpec == PassInit /\ [][PassNext]_passVars

--------------------------------------------------------------------------------
Outside == fn.args \cup fn.globals
Code(B) == ToSet(code[B])
Flow == {e \in Blocks \X Blocks : e[2] \in succ[e[1]]}

\* The blocks that Flow without the edges in cut still leads to, after enough rounds.
ReachedWithout(cut) ==
    LET E == Flow \ cut
        Reached[n \in 0..Cardinality(Blocks)] ==
          IF n = 0 THEN {<<fn.entry, 0>>}
          ELSE UNION {{B} \cup {C \in Blocks : <<B, C>> \in E} : B \in Reached[n - 1]}
    IN  Reached[Cardinality(Blocks)]

\* v is defined by the end of block P: on the edges out of it that do not unwind if P's
\* terminator defines it.
Defining(v) ==
    {e \in Flow : v \in Code(e[1]) /\ ~ (v = Last(code[e[1]]) /\ e[2][1] \in fn.pads)}

\* The blocks at whose start v may not have been computed.
UnavailableIn(v) == ReachedWithout(Defining(v))
Exists(v) == v \in Outside \/ \E B \in Blocks : v \in Code(B)

\* The analysis, the choice and the rewriting keep to the function: only integer values
\* that are not globals are picked, and only for blocks that are no landing pads.
PassTypeOK ==
    /\ TypeOK
    /\ pc \in {"analyse", "find", "clone", "tail", "done"}
    /\ Targets \in Seq((fn.blocks \ fn.pads) \X (fn.ints \ fn.globals))
    /\ DOMAIN succ = Blocks /\ \A B \in Blocks : succ[B] \subseteq Blocks
    /\ \A v \in DOMAIN ReMapper : ReMapper[v] \in DOMAIN phis

\* In the midst of a block and between blocks, every operand of every instruction is in
\* the function and has been computed when the instruction uses it.  The condition of an
\* if-then-else is one of these: the values picked before the rewriting do not go stale.
OperandsAvailable ==
    \A v \in UNION ({ops[i] : i \in DOMAIN ops} \cup
                      {{phis[i][P] : P \in DOMAIN phis[i]} : i \in DOMAIN phis}) :
        v \in Outside \/
          LET Unavailable == UnavailableIn(v)
              InTime(B, p) == B \notin Unavailable \/ \E q \in 1..(p - 1) : code[B][q] = v
          IN  /\ Exists(v)
              /\ \A B \in Blocks : \A p \in DOMAIN code[B] :
                    LET i == code[B][p]
                    IN  IF i \in DOMAIN phis
                        THEN \A P \in DOMAIN phis[i] :
                                phis[i][P] = v => InTime(P, Len(code[P]) + 1)
                        ELSE v \in ops[i] => InTime(B, p)

\* PHIs come first in their block and have one entry for each predecessor, once the
\* block that is being duplicated is finished.
PHIsWellFormed ==
    pc \in {"clone", "done"} =>
        \A B \in Blocks : \A p \in DOMAIN code[B] :
            code[B][p] \in DOMAIN phis =>
                /\ \A q \in 1..p : code[B][q] \in DOMAIN phis
                /\ DOMAIN phis[code[B][p]] = {P \in Blocks : B \in succ[P]}

\* The instruction of the original function that v is a copy of.
Original(v) == <<v[1], 0>>

\* Whichever branch is taken, the block does what it did: the PHIs, then one of the
\* clones and the terminator are copies of the original instructions, in their order,
\* and each operand is a copy of the original operand.
SameOnBothPaths ==
    pc \in {"clone", "done"} =>
        \A b \in fn.blocks : \A k \in {1, 2} :
            LET tail == code[<<b, 3>>]
                path == IF <<b, 3>> \notin Blocks THEN code[<<b, 0>>]
                        ELSE Front(code[<<b, 0>>]) \o code[<<b, k>>] \o <<Last(tail)>>
            IN  /\ <<b, 3>> \in Blocks => \A p \in 1..(Len(tail) - 1) : tail[p][2] = 3
                /\ [p \in DOMAIN path |-> Original(path[p])] = fn.code[b]
                /\ \A p \in DOMAIN path :
                      LET i == path[p]
                      IN  IF i \in DOMAIN phis
                          THEN \A P \in DOMAIN phis[i] :
                                  Original(phis[i][P]) = fn.phis[Original(i)][P[1]]
                          ELSE {Original(o) : o \in ops[i]} = fn.ops[Original(i)]
================================================================================
