--------------------------------- MODULE FCmpEq ---------------------------------
(***************************************************************************)
(* The analysis that finds the floating-point equality comparisons of a    *)
(* function (lib/FindFCmpEq.cpp) and the pass that converts them, in       *)
(* place, to comparisons of their operands' difference with the machine    *)
(* epsilon (lib/ConvertFCmpEq.cpp).  The pass may run more than once.      *)
(* What the analysis manager keeps between the runs is the subject of      *)
(* Pipeline, where its caches are shown to be fresh: the analysis is taken *)
(* here to be that of the function as it is.                               *)
(*                                                                         *)
(* A function f is [optnone, insts]; insts is the sequence of its          *)
(* instructions, each [pred, type, lhs, rhs] with pred the predicate of an *)
(* fcmp, or "none".  The value of a double is <<"fin", n>>, n times half   *)
(* the machine epsilon (0 and -0 are one), <<"inf", 1>>, <<"inf", -1>> or  *)
(* <<"nan", 0>>; differences of the finite values taken are exact.         *)
(***************************************************************************)
EXTENDS Integers, Sequences

CONSTANTS Functions,    \* the functions the passes may be run on
          MaxRuns       \* bound: how often ConvertFCmpEq is run

NaN == <<"nan", 0>>
Inf(s) == <<"inf", s>>
Epsilon == <<"fin", 2>>
Value == ({"fin"} \X Int) \cup {Inf(1), Inf(-1), NaN}

Equality == {"oeq", "ueq", "one", "une"}
Predicate == Equality \cup {"olt", "ult", "oge", "uge"}
Instruction == [pred : Predicate \cup {"none"}, type : {"double", "float"}, lhs : Value, rhs : Value]
ASSUME FunctionsAssumption == Functions \subseteq [optnone : BOOLEAN, insts : Seq(Instruction)]
ASSUME MaxRunsAssumption == MaxRuns \in Nat

VARIABLES
    fn,             \* the function, as it was before the passes
    pred,           \* the predicate of each instruction now
    converted,      \* the instructions whose operands are now |lhs - rhs| and epsilon
    Comparisons,    \* what is left of the vector of that name: it is in the order of the
                    \* instructions, and so the set of their numbers
    Modified,       \* the local variable of that name
    runs,           \* how many runs of the pass have begun
    status          \* "idle", "converting" or "crashed"
vars == <<fn, pred, converted, Comparisons, Modified, runs, status>>

Insts == DOMAIN fn.insts
isEquality(p) == p \in Equality

--------------------------------------------------------------------------------
Init ==
    /\ fn \in Functions
    /\ pred = [i \in Insts |-> fn.insts[i].pred]
    /\ converted = {}
    /\ Comparisons = {}
    /\ Modified = FALSE
    /\ runs = 0
    /\ status = "idle"

\* FindFCmpEq::run.
FindFCmpEq == {i \in Insts : isEquality(pred[i])}

\* The next element of the vector.
NextComparison == CHOOSE i \in Comparisons : \A j \in Comparisons : i <= j

\* The test for optnone forgotten.
Ignored_Never == FALSE

\* Nothing is to be changed in an optnone function.
Ignored == fn.optnone

\* ConvertFCmpEq::run is called.
Run ==
    /\ status = "idle" /\ runs < MaxRuns
    /\ runs' = runs + 1
    /\ Comparisons' = IF Ignored THEN {} ELSE FindFCmpEq
    /\ Modified' = FALSE
    /\ status' = "converting"
    /\ UNCHANGED <<fn, pred, converted>>

\* The predicates for unordered operands mixed up.
CmpPred_Ordered(p) ==
    CASE p = "oeq" -> "olt" [] p = "ueq" -> "olt" [] p = "one" -> "oge" [] p = "une" -> "oge"

\* The complements mixed up.
CmpPred_Strict(p) ==
    CASE p = "oeq" -> "olt" [] p = "ueq" -> "ult" [] p = "one" -> "ogt" [] p = "une" -> "ugt"

\* The new predicate.
CmpPred(p) ==
    CASE p = "oeq" -> "olt" [] p = "ueq" -> "ult" [] p = "one" -> "oge" [] p = "une" -> "uge"

\* convertFCmpEqInstruction of the next comparison: the predicate and the operands of an
\* equality are changed.
Convert ==
    /\ status = "converting" /\ Comparisons # {}
    /\ LET next == NextComparison
       IN  IF isEquality(pred[next])
           THEN /\ fn.insts[next].type = "double"
                /\ pred' = [pred EXCEPT ![next] = CmpPred(@)]
                /\ converted' = converted \cup {next}
                /\ Modified' = TRUE
           ELSE UNCHANGED <<pred, converted, Modified>>
    /\ Comparisons' = Comparisons \ {NextComparison}
    /\ UNCHANGED <<fn, runs, status>>

\* The difference of two floats cannot be cast to i64: LLVM's assertion on casts fails.
InvalidCast ==
    /\ status = "converting" /\ Comparisons # {}
    /\ isEquality(pred[NextComparison]) /\ fn.insts[NextComparison].type # "double"
    /\ status' = "crashed"
    /\ UNCHANGED <<fn, pred, converted, Comparisons, Modified, runs>>

Return ==
    /\ status = "converting" /\ Comparisons = {}
    /\ status' = "idle"
    /\ UNCHANGED <<fn, pred, converted, Comparisons, Modified, runs>>

\* The compiler has crashed, or the pipeline is over.
Stopped ==
    /\ \/ status = "crashed"
       \/ status = "idle" /\ runs = MaxRuns
    /\ UNCHANGED vars

Next == Run \/ Convert \/ InvalidCast \/ Return \/ Stopped

Spec == Init /\ [][Next]_vars

--------------------------------------------------------------------------------
FSub(a, b) ==
    IF NaN \in {a, b} \/ (a[1] = "inf" /\ a = b) THEN NaN
    ELSE IF a[1] = "inf" THEN a
    ELSE IF b[1] = "inf" THEN Inf(-b[2])
    ELSE <<"fin", a[2] - b[2]>>

\* The sign bit masked out.
AbsValue(a) == IF a[2] < 0 THEN <<a[1], -a[2]>> ELSE a

Less(a, b) ==
    \/ a[1] = "fin" /\ b[1] = "fin" /\ a[2] < b[2]
    \/ a # b /\ (a = Inf(-1) \/ b = Inf(1))

\* fcmp p a, b.
FCmp(p, a, b) ==
    LET Unordered == NaN \in {a, b}
    IN  CASE p = "oeq" -> ~ Unordered /\ a = b
          [] p = "ueq" -> Unordered \/ a = b
          [] p = "one" -> ~ Unordered /\ a # b
          [] p = "une" -> Unordered \/ a # b
          [] p = "olt" -> ~ Unordered /\ Less(a, b)
          [] p = "ult" -> Unordered \/ Less(a, b)
          [] p = "oge" -> ~ Unordered /\ ~ Less(a, b)
          [] p = "uge" -> Unordered \/ ~ Less(a, b)
          [] p = "ogt" -> ~ Unordered /\ Less(b, a)
          [] p = "ugt" -> Unordered \/ Less(b, a)

FCmps == {i \in Insts : fn.insts[i].pred # "none"}
Before(i) == FCmp(fn.insts[i].pred, fn.insts[i].lhs, fn.insts[i].rhs)
Now(i) ==
    IF i \in converted
    THEN FCmp(pred[i], AbsValue(FSub(fn.insts[i].lhs, fn.insts[i].rhs)), Epsilon)
    ELSE FCmp(pred[i], fn.insts[i].lhs, fn.insts[i].rhs)

\* Only equality comparisons are converted, and none in a function marked optnone.
TypeOK ==
    /\ converted \subseteq {i \in FCmps : isEquality(fn.insts[i].pred) /\ ~ fn.optnone}
    /\ \A i \in Insts \ converted : pred[i] = fn.insts[i].pred
    /\ Comparisons \subseteq {i \in Insts : isEquality(pred[i])}
    /\ Modified \in BOOLEAN /\ runs \in 0..MaxRuns
    /\ status \in {"idle", "converting", "crashed"}

\* A conversion changes the outcome of a comparison only for operands that differ by less
\* than epsilon, and for two infinities of the same sign, whose difference is a NaN.
OutcomesKept ==
    \A i \in FCmps :
        LET l == fn.insts[i].lhs  r == fn.insts[i].rhs
        IN  \/ Now(i) = Before(i)
            \/ l # r /\ Less(AbsValue(FSub(l, r)), Epsilon)
            \/ l = r /\ l[1] = "inf"

\* Between runs, of two comparisons of the same operands one of which is the negation of
\* the other, exactly one holds, whatever the operands: a branch on x == y and one on
\* x != y still exclude each other.
StillComplementary ==
    status = "idle" =>
        \A i, j \in FCmps :
            /\ fn.insts[i].lhs = fn.insts[j].lhs /\ fn.insts[i].rhs = fn.insts[j].rhs
            /\ <<fn.insts[i].pred, fn.insts[j].pred>> \in {<<"oeq", "une">>, <<"ueq", "one">>}
            => Now(i) # Now(j)

\* The pass converts all equality-based floating-point comparisons: none is left of which
\* it could not dispose.
ConvertsAll ==
    /\ status # "crashed"
    /\ status = "idle" /\ runs > 0 /\ ~ fn.optnone => \A i \in Insts : ~ isEquality(pred[i])
================================================================================
