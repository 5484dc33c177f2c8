---------------------------- MODULE DuplicateAndMerge ----------------------------
(***************************************************************************)
(* The pipeline duplicate-bb,merge-bb (test/DuplicateBB_MergeBB_exec.ll):  *)
(* what DuplicateBB has made of a function is what MergeBB is run on.      *)
(***************************************************************************)
EXTENDS DuplicateBB

CONSTANT Opcode(_)      \* what an instruction of the function does

VARIABLES
    given,                              \* the function as MergeBB gets it
    targets, DeleteList, at, done       \* the state of MergeBB
merging == <<given, targets, DeleteList, at, done>>

M == INSTANCE MergeBB WITH fn <- given, Functions <- {}

--------------------------------------------------------------------------------
NoFunction == [kind |-> <<>>, targets |-> <<>>, body |-> <<>>]

\* Copies of one instruction do what it does.
OpOf(v) ==
    IF v \in DOMAIN phis THEN "phi" ELSE IF v = <<v[1], 4>> THEN "icmp" ELSE Opcode(Original(v))

\* The blocks in the order of their layout: a clone comes where the split block was.
Layout ==
    SelectSeq([k \in 1..(4 * Cardinality(fn.blocks)) |-> <<(k + 3) \div 4, (k + 3) % 4>>],
              LAMBDA B : B \in Blocks)

\* The terminator of B, which the model of MergeBB keeps apart if it is an unconditional
\* branch.
KindOf(B) ==
    CASE B[2] \in {0, 3} /\ (\E e \in fn.unwind : e[1] = B[1]) /\ Clone(1) \notin succ[B] -> "other"
      [] succ[B] = {} -> "ret"
      [] Cardinality(succ[B]) = 1 -> "br"
      [] OTHER -> "cond"
Branches(B) == B[2] \in {0, 3} /\ KindOf(B) = "br"

\* What DuplicateBB leaves, in the terms of MergeBB.
Result ==
    LET order == Layout
        num == [B \in Blocks |-> CHOOSE i \in DOMAIN order : order[i] = B]
        Body(B) == IF Branches(B) THEN Front(code[B]) ELSE code[B]
        place == [v \in UNION {Code(B) : B \in Blocks} |->
                    CHOOSE p \in UNION {{B} \X DOMAIN code[B] : B \in Blocks} : code[p[1]][p[2]] = v]
        Value(v) == IF v \in DOMAIN place THEN <<num[place[v][1]], place[v][2]>> ELSE <<0, v[1]>>
        Sorted(S) == SetToSortSeq(S, LAMBDA v, w : v[1] < w[1] \/ (v[1] = w[1] /\ v[2] < w[2]))
        Operands(v) ==
            IF v \in DOMAIN phis
            THEN LET from == Sorted(DOMAIN phis[v])
                 IN  [op |-> "phi", vals |-> [k \in DOMAIN from |-> Value(phis[v][from[k]])],
                      from |-> [k \in DOMAIN from |-> num[from[k]]]]
            ELSE LET o == Sorted(ops[v])
                 IN  [op |-> OpOf(v), vals |-> [k \in DOMAIN o |-> Value(o[k])], from |-> <<>>]
        Of(B) == LET s == Sorted(succ[B]) IN [k \in DOMAIN s |-> num[s[k]]]
    IN  [kind |-> [i \in DOMAIN order |-> KindOf(order[i])],
         targets |-> [i \in DOMAIN order |-> Of(order[i])],
         body |-> [i \in DOMAIN order |->
                     [p \in DOMAIN Body(order[i]) |-> Operands(Body(order[i])[p])]]]

PipelineInit ==
    /\ PassInit
    /\ given = NoFunction
    /\ targets = <<>>
    /\ DeleteList = [b \in {} |-> 0]
    /\ at = 1
    /\ done = FALSE

\* MergeBB::run is called on what DuplicateBB::run has left.
StartMerging ==
    /\ pc = "done" /\ given = NoFunction
    /\ given' = Result
    /\ targets' = given'.targets
    /\ UNCHANGED <<passVars, DeleteList, at, done>>

PipelineNext ==
    \/ PassNext /\ UNCHANGED merging
    \/ StartMerging
    \/ given # NoFunction /\ M!Next /\ UNCHANGED passVars

PipelineSpec == PipelineInit /\ [][PipelineNext]_<<passVars, merging>>

--------------------------------------------------------------------------------
\* The instructions of b that DuplicateBB clones.
ClonedOf(b) == {i \in ToSet(Front(fn.code[b])) : i \notin DOMAIN fn.phis}

\* None of them uses another one, and one at most has a value for lt-tail to take.
Qualifies(b) ==
    /\ \A i \in ClonedOf(b) : fn.ops[i] \cap ClonedOf(b) = {}
    /\ Cardinality(ClonedOf(b) \ fn.voids) <= 1

\* "The qualifying clones will indeed be merged", and no others: of lt-clone-1 and lt-clone-2
\* one is deleted in the end if the block qualified, and both stay if it did not.
MergedBack ==
    done =>
        \A t \in DOMAIN Targets :
            (\E i \in M!Listed : Layout[i][1] = Targets[t][1] /\ Layout[i][2] \in {1, 2})
                <=> Qualifies(Targets[t][1])
================================================================================
