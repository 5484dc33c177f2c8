------------------------------ MODULE MCArithmetic ------------------------------
(***************************************************************************)
(* Instances of Arithmetic.                                                *)
(***************************************************************************)
EXTENDS Arithmetic, Bitwise

CONSTANT Types            \* the types of the operands of comparisons

MCXor(x, y) == x ^^ y
MCAnd(x, y) == x & y

\* Two comparisons of the same operands.
FloatValues == {<<"fin", n>> : n \in 0..3} \cup {Inf(1), Inf(-1), NaN}
Preds == {"oeq", "ueq", "one", "une", "olt", "none"}
MCFunctions ==
    {[optnone |-> optnone,
      insts |-> [i \in 1..2 |-> [pred |-> p[i], type |-> type, lhs |-> l, rhs |-> r]]] :
        optnone \in BOOLEAN, p \in [1..2 -> Preds], type \in Types,
        l \in FloatValues, r \in FloatValues}

\* Three instructions, the later ones using the earlier ones.
Ops == {"add", "sub", "shl"}
MCIntFunctions ==
    {[width |-> width,
      insts |-> <<[id |-> 3, op |-> p, l |-> <<"val", 1>>, r |-> r],
                  [id |-> 4, op |-> q, l |-> <<"val", 3>>, r |-> l],
                  [id |-> 5, op |-> "sub", l |-> <<"val", 4>>, r |-> <<"val", 3>>]>>] :
        width \in Widths, p \in Ops, q \in Ops,
        r \in {<<"val", 2>>, <<"val", 1>>, <<"const", 1>>}, l \in {<<"val", 1>>, <<"val", 3>>}}

MCInputs == {0, 1, 2, 127, 128, 170, 255} \X {0, 1, 85, 128, 254, 255}
MCPipelines == [1..2 -> {"mba-add", "mba-sub"}]

NoComparisons == [optnone |-> FALSE, insts |-> <<>>]
NoArithmetic == [width |-> 8, insts |-> <<>>]
MCFunctionsAndNone == MCFunctions \cup {NoComparisons}
MCIntFunctionsAndNone == MCIntFunctions \cup {NoArithmetic}
JustNoArithmetic == {NoArithmetic}

\* A function has here either comparisons or integer arithmetic.
MCInit == PipelineInit /\ (fn = NoComparisons \/ intFn = NoArithmetic)
MCSpec == MCInit /\ [][PipelineNext]_<<vars, mbaVars>>
================================================================================
