----------------------------- MODULE MCDuplicateBB -----------------------------
(***************************************************************************)
(* Instances of DuplicateBB: a few shapes of control flow, with blocks     *)
(* drawn from a few bodies, and PHIs where control joins.  MergeBB is run  *)
(* on what comes of them.                                                  *)
(***************************************************************************)
EXTENDS DuplicateAndMerge

CONSTANTS Shapes,   \* names of shapes of Succ
          Bodies    \* what the blocks of each shape may contain

Succ ==
    [line    |-> <<{2}, {3}, {}>>,
     diamond |-> <<{2, 3}, {4}, {4}, {}>>,
     loop    |-> <<{2}, {2, 3}, {}>>,
     invoke  |-> <<{2, 3}, {}, {4}, {}>>]
Tree ==
    [line    |-> <<<<2>>, <<3>>, <<>>>>,
     diamond |-> <<<<2, 3, 4>>, <<>>, <<>>, <<>>>>,
     loop    |-> <<<<2>>, <<3>>, <<>>>>,
     invoke  |-> <<<<2, 3>>, <<>>, <<4>>, <<>>>>]
\* The invoke of block 1 unwinds to block 3.
Pads(s) == IF s = "invoke" THEN {3} ELSE {}

MCOpcode(i) ==
    CASE i[1] % 10 = 1 -> "add" [] i[1] % 10 = 2 -> "sub" [] i[1] % 10 = 5 -> "store"
      [] i[1] % 10 = 6 -> "alloca" [] i[1] % 10 = 9 -> "terminator"

Arg == <<90, 0>>
Glob == <<91, 0>>
I(b, k) == <<10 * b + k, 0>>
Term(b) == I(b, 9)

\* The instructions of block b after its PHI and before its terminator, with their
\* operands: the second one uses the first, or they are apart, and the value src.
Body(name, b, src) ==
    CASE name = "none"  -> <<>>
      [] name = "store" -> <<<<I(b, 1), {src}>>, <<I(b, 5), {I(b, 1)}>>, <<I(b, 2), {I(b, 1), src}>>>>
      [] name = "one"   -> <<<<I(b, 2), {src}>>>>
      [] name = "use"   -> <<<<I(b, 2), {src}>>, <<I(b, 5), {I(b, 2)}>>>>
      [] name = "void"  -> <<<<I(b, 5), {src}>>>>
      [] name = "ptr"   -> <<<<I(b, 6), {src}>>, <<I(b, 2), {I(b, 6)}>>>>

Preds(s, b) == {p \in DOMAIN Succ[s] : b \in Succ[s][p]}

\* A function of shape s: bodies and, for each block, whether it uses what the entry
\* computes rather than the argument.
Function(s, body, deep) ==
    LET N == DOMAIN Succ[s]
        \* the last value a block computes that any block it leads to may use
        Value(b) == IF body[b] \in {"none", "void"} THEN Arg ELSE I(b, 2)
        Src(b) == IF deep /\ b # 1 THEN Value(1) ELSE Arg
        Insts(b) == Body(body[b], b, Src(b))
        Joins == {b \in N : Cardinality(Preds(s, b)) > 1}
        Results == IF s = "invoke" THEN {Term(1)} ELSE {}
        CodeOf(b) == (IF b \in Joins THEN <<I(b, 0)>> ELSE <<>>)
                     \o [p \in DOMAIN Insts(b) |-> Insts(b)[p][1]] \o <<Term(b)>>
        All == UNION {ToSet(CodeOf(b)) : b \in N}
        Voids == {I(b, 5) : b \in N} \cup ({Term(b) : b \in N} \ Results)
    IN  [blocks |-> N, entry |-> 1, succ |-> Succ[s], children |-> Tree[s],
         code   |-> [b \in N |-> CodeOf(b)],
         insts  |-> [b \in N |-> ToSet(CodeOf(b))],
         results |-> [b \in N |-> IF b = 1 THEN Results ELSE {}],
         unwind |-> {<<1, p>> : p \in Pads(s)}, pads |-> Pads(s),
         args   |-> {Arg}, globals |-> {Glob},
         voids  |-> Voids \cap All,
         ints   |-> ({Arg, Glob} \cup All) \ (Voids \cup {I(b, 6) : b \in N}),
         phis   |-> [i \in {I(b, 0) : b \in Joins} |->
                       [P \in Preds(s, i[1] \div 10) |-> Value(P)]],
         ops    |-> [i \in All \ {I(b, 0) : b \in Joins} |->
                       LET b == i[1] \div 10
                       IN  IF i = Term(b)
                           THEN IF Cardinality(Succ[s][b]) = 1 THEN {} ELSE {Value(b)}
                           ELSE UNION {Insts(b)[p][2] : p \in {q \in DOMAIN Insts(b) : Insts(b)[q][1] = i}}]]

MCBodies ==
    [line |-> {"none", "ptr", "void"}, loop |-> {"store", "one", "use"},
     diamond |-> {"one"}, invoke |-> {"none", "store"}]

MCFunctions ==
    UNION {{Function(s, body, deep) : body \in [DOMAIN Succ[s] -> Bodies[s]], deep \in BOOLEAN} :
             s \in Shapes}
================================================================================
