----------------------------------- MODULE MBA -----------------------------------
(***************************************************************************)
(* The two passes that substitute mixed Boolean-arithmetic expressions for *)
(* arithmetic: lib/MBAAdd.cpp for the 8-bit additions of a function,       *)
(* lib/MBASub.cpp for its integer subtractions.  Both walk a block that    *)
(* grows under the iterator; each may meet what the other, or an earlier   *)
(* run of its own, has inserted.                                           *)
(*                                                                         *)
(* A function is [width, insts]: its integers all have width bits, and its *)
(* instructions, in order, are [id, op, l, r]; an operand is <<"const",    *)
(* number>> or <<"val", id>>.  Ids 1 and 2 are the function's arguments.   *)
(* Its blocks are taken one after the other as one sequence.               *)
(***************************************************************************)
EXTENDS Integers, SequencesExt, FiniteSetsExt

CONSTANTS Functions,    \* the functions the passes may be run on
          Inputs,       \* pairs of values for the arguments
          Pipelines,    \* the sequences of passes that may be run
          Widths,       \* the widths of integers
          BitXor(_, _), BitAnd(_, _)  \* the operations of that name on the bits of two numbers

\* What is known of them for numbers of w bits: a number is complemented by the number
\* all of whose bits are set, and where bits of both are set a sum carries.
BitOperations(w) ==
    LET Number == 0..(2^w - 1)
    IN  \A x, y \in Number :
            /\ BitXor(x, y) \in Number /\ BitAnd(x, y) \in Number
            /\ BitXor(x, y) + 2 * BitAnd(x, y) = x + y
            /\ y = 2^w - 1 => BitXor(x, y) = y - x

\* An instruction comes after those whose values it uses.
IsCode(code, w) ==
    LET Operand == ({"const"} \X (0..(2^w - 1))) \cup ({"val"} \X Nat)
    IN  /\ code \in Seq([id : Nat \ (0..2), op : {"add", "sub", "mul", "xor", "and", "shl"},
                         l : Operand, r : Operand])
        /\ \A p, q \in DOMAIN code : code[p].id = code[q].id => p = q
        /\ \A p \in DOMAIN code : \A o \in {code[p].l, code[p].r} :
              o[1] = "val" => o[2] \in {1, 2} \/ \E q \in 1..(p - 1) : code[q].id = o[2]
IsFunction(f) == f.width \in Widths /\ IsCode(f.insts, f.width)

VARIABLES
    fn,             \* the function, as it was before the passes
    passes,         \* the passes still to be run, the one running included
    insts,          \* the instructions now
    Inst,           \* the position of the iterator
    Changed,        \* the local variable of that name
    substituted,    \* the ids of the instructions substituted in this run
    entry           \* the instructions when this run began
vars == <<fn, passes, insts, Inst, Changed, substituted, entry>>

Const(c) == <<"const", c % 2^fn.width>>
Val(id) == <<"val", id>>
Instr(id, op, l, r) == [id |-> id, op |-> op, l |-> l, r |-> r]

--------------------------------------------------------------------------------
Init ==
    /\ fn \in Functions
    /\ passes \in Pipelines
    /\ insts = fn.insts
    /\ Inst = 1
    /\ Changed = FALSE
    /\ substituted = {}
    /\ entry = fn.insts

\* Additions of any width.
IsAdd_AnyWidth(I) == I.op = "add"

\* The instructions MBAAdd does not skip.
IsAdd(I) == I.op = "add" /\ fn.width = 8

\* The instructions MBASub does not skip.
IsSub(I) == I.op = "sub"

Substitutable(pass, I) == IF pass = "mba-add" THEN IsAdd(I) ELSE IsSub(I)

\* The instructions for a + b, the last of which takes the place of I:
\* 111 + 151 * (23 + 39 * ((a ^ b) + 2 * (a & b))).
AddExpression(I, n) ==
    <<Instr(n, "xor", I.l, I.r), Instr(n + 1, "and", I.l, I.r),
      Instr(n + 2, "mul", Const(2), Val(n + 1)), Instr(n + 3, "add", Val(n), Val(n + 2)),
      Instr(n + 4, "mul", Const(39), Val(n + 3)), Instr(n + 5, "add", Const(23), Val(n + 4)),
      Instr(n + 6, "mul", Const(151), Val(n + 5)),
      Instr(I.id, "add", Const(111), Val(n + 6))>>

\* a + ~b, without the carry.
SubExpression_NoCarry(I, n) ==
    <<Instr(n, "xor", I.r, Const(-1)), Instr(I.id, "add", I.l, Val(n))>>

\* The instructions for a - b: (a + ~b) + 1.
SubExpression(I, n) ==
    <<Instr(n, "xor", I.r, Const(-1)), Instr(n + 1, "add", I.l, Val(n)),
      Instr(I.id, "add", Val(n + 1), Const(1))>>

Expression(pass, I, n) == IF pass = "mba-add" THEN AddExpression(I, n) ELSE SubExpression(I, n)

\* ReplaceInstWithInst moves the iterator to the new instruction, ++Inst past it.
NextInst(new) == Inst + Len(new)

Fresh == Max({I.id : I \in ToSet(insts)}) + 1

Running == passes # <<>> /\ Inst <= Len(insts)

Skip ==
    /\ Running /\ ~ Substitutable(Head(passes), insts[Inst])
    /\ Inst' = Inst + 1
    /\ UNCHANGED <<fn, passes, insts, Changed, substituted, entry>>

Substitute ==
    /\ Running /\ Substitutable(Head(passes), insts[Inst])
    /\ LET I == insts[Inst]
           new == Expression(Head(passes), I, Fresh)
       IN  /\ insts' = SubSeq(insts, 1, Inst - 1) \o new \o SubSeq(insts, Inst + 1, Len(insts))
           /\ Inst' = NextInst(new)
           /\ substituted' = substituted \cup {I.id}
    /\ Changed' = TRUE
    /\ UNCHANGED <<fn, passes, entry>>

\* The pass returns, and the next one of the pipeline begins.
Return ==
    /\ passes # <<>> /\ Inst > Len(insts)
    /\ passes' = Tail(passes)
    /\ Inst' = 1
    /\ Changed' = FALSE
    /\ substituted' = {}
    /\ entry' = insts
    /\ UNCHANGED <<fn, insts>>

Done == passes = <<>> /\ UNCHANGED vars

Next == Skip \/ Substitute \/ Return \/ Done

Spec == Init /\ [][Next]_vars

--------------------------------------------------------------------------------
Apply(op, x, y, m) ==
    CASE op = "add" -> (x + y) % m
      [] op = "sub" -> (x - y) % m
      [] op = "mul" -> (x * y) % m
      [] op = "xor" -> BitXor(x, y)
      [] op = "and" -> BitAnd(x, y)
      [] op = "shl" -> (x * 2) % m

\* The value of an operand, if env has those of the instructions before; env with the value of I.
Of(o, env) == IF o[1] = "const" THEN o[2] ELSE env[o[2]]
With(env, I, m) ==
    LET v == Apply(I.op, Of(I.l, env), Of(I.r, env), m)
    IN  [id \in DOMAIN env \cup {I.id} |-> IF id = I.id THEN v ELSE env[id]]

\* The value of every instruction of code, by its id, for the arguments a: of the first n
\* instructions, for each n.
Values(code, a) ==
    LET m == 2^fn.width
        First[n \in 0..Len(code)] ==
            IF n = 0 THEN <<a[1] % m, a[2] % m>> ELSE With(First[n - 1], code[n], m)
    IN  First[Len(code)]

\* A run substitutes only instructions it was given, never one of those it inserts, and
\* is marked as a change if it substitutes any.
TypeOK ==
    /\ Inst \in 1..Len(insts) + 1
    /\ \A i, j \in DOMAIN insts : insts[i].id = insts[j].id => i = j
    /\ substituted \subseteq
         {I.id : I \in {I \in ToSet(entry) : passes # <<>> /\ Substitutable(Head(passes), I)}}
    /\ Changed <=> substituted # {}

\* The values of the function's instructions are at every step, for all arguments, what
\* they were before the passes, whichever passes have been run on each other's output.
SameResults ==
    \A a \in Inputs :
        LET Before == Values(fn.insts, a)  Now == Values(insts, a)
        IN  \A id \in DOMAIN Before : Now[id] = Before[id]

\* A run substitutes each addition that is eight bits wide, or each subtraction, it was
\* given, and no other instruction; what it inserts in their place is left as it is.
AllSubstituted ==
    passes # <<>> /\ Inst > Len(insts) =>
        substituted = {I.id : I \in {I \in ToSet(entry) :
                         IF Head(passes) = "mba-add" THEN I.op = "add" /\ fn.width = 8
                         ELSE I.op = "sub"}}
================================================================================
