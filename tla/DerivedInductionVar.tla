-------------------------- MODULE DerivedInductionVar --------------------------
(***************************************************************************)
(* The pass that eliminates derived induction variables                    *)
(* (DIVdir/DerivedInductionVar.cpp).  It visits the loops from the outside *)
(* in; in the header of a loop that has a canonical induction variable     *)
(* (0, 1, 2, ...) it replaces every other PHI that scalar evolution knows  *)
(* to be affine by a multiple of the canonical one.                        *)
(*                                                                         *)
(* A function f has                                                        *)
(*   top, subs   its outermost loops and the loops directly in each loop,  *)
(*   nest        each loop and all those inside it,                        *)
(*   canonical   the width of each loop's canonical induction variable, or *)
(*               NoIV,                                                     *)
(*   phis        the other PHIs of each loop's header, in order, each      *)
(*               [affine, start, step, width]: in iteration n its value is *)
(*               start + n * step modulo 2^width.                          *)
(* The step may be UnknownStep: affine, but not a constant.                *)
(***************************************************************************)
EXTENDS Integers, SequencesExt

CONSTANTS Functions,    \* the functions the pass may be run on
          Widths,       \* the widths of integers
          Int64Bits,    \* the width of int64_t: 64, less in an instance
          MaxIteration  \* bound: the iterations in which values are compared

\* The modulus of each width, and that those of the narrower integers divide that of int64_t:
\* of powers the provers know nothing.
ASSUME WidthsAssumption ==
    /\ Int64Bits \in Nat \ {0, 1}
    /\ \A w \in Widths :
          /\ w \in Nat \ {0} /\ 2^w \in Nat \ {0}
          /\ w <= Int64Bits => /\ 2^(Int64Bits - w) \in Nat \ {0}
                              /\ 2^Int64Bits = 2^w * 2^(Int64Bits - w)

NoIV == 0
UnknownStep == -1

\* LoopInfo: a loop's nest is the loop and the nests of the loops directly in it; every loop
\* is in the nest of an outermost one, which is in no other; and whatever contains a loop
\* contains the loop directly around it.
LoopForest(top, subs, nest) ==
    LET In(l) == ToSet(nest[l])
    IN  /\ \A l \in DOMAIN nest : In(l) = {l} \cup UNION {In(s) : s \in ToSet(subs[l])}
        /\ DOMAIN nest = UNION {In(t) : t \in ToSet(top)}
        /\ \A k \in DOMAIN nest :
              /\ \A t \in ToSet(top) : t \in In(k) => t = k
              /\ \A l \in DOMAIN nest : \A s \in ToSet(subs[l]) : s \in In(k) => s = k \/ l \in In(k)

IsFunction(f) ==
    LET Loops == DOMAIN f.phis
    IN  /\ f.top \in Seq(Loops)
        /\ f.subs \in [Loops -> Seq(Loops)]
        /\ f.nest \in [Loops -> Seq(Loops)]
        /\ f.canonical \in [Loops -> Widths \cup {NoIV}]
        /\ f.phis \in [Loops -> Seq([affine : BOOLEAN, start : Nat, step : Nat \cup {UnknownStep},
                                     width : Widths])]
        /\ \A l \in Loops : IsInjective(f.nest[l])
        /\ \A i, j \in DOMAIN f.top :
              i # j => ToSet(f.nest[f.top[i]]) \cap ToSet(f.nest[f.top[j]]) = {}
        /\ LoopForest(f.top, f.subs, f.nest)

ASSUME FunctionsAssumption == \A f \in Functions : IsFunction(f)

VARIABLES
    fn,             \* the function
    todo,           \* the calls of eliminateInLoop to come
    L,              \* the loop of the current call
    DerivedIVs,     \* what is left in the vector of that name, which is in the order of the PHIs
    Replacement,    \* the factor of the canonical variable in what replaced each eliminated PHI
    status          \* "loops", "derived", "returned" or "crashed"
vars == <<fn, todo, L, DerivedIVs, Replacement, status>>

Phi(p) == fn.phis[p[1]][p[2]]

--------------------------------------------------------------------------------
Init ==
    /\ fn \in Functions
    /\ todo = fn.top
    /\ L = 0
    /\ DerivedIVs = {}
    /\ Replacement = [p \in {} |-> 0]
    /\ status = "loops"

\* The test for isAffine forgotten.
Affine_Any(l) == {l} \X DOMAIN fn.phis[l]

\* The PHIs of the header that are affine in its loop, the canonical one excepted.
Affine(l) == {p \in {l} \X DOMAIN fn.phis[l] : Phi(p).affine}

\* eliminateInLoop returns at once: the loops inside are not visited.
NoCanonicalIV ==
    /\ status = "loops" /\ todo # <<>>
    /\ fn.canonical[Head(todo)] = NoIV
    /\ todo' = Tail(todo)
    /\ UNCHANGED <<fn, L, DerivedIVs, Replacement, status>>

\* Collect the derived induction variables.
EnterLoop ==
    /\ status = "loops" /\ todo # <<>>
    /\ fn.canonical[Head(todo)] # NoIV
    /\ L' = Head(todo)
    /\ todo' = Tail(todo)
    /\ DerivedIVs' = Affine(Head(todo))
    /\ status' = "derived"
    /\ UNCHANGED <<fn, Replacement>>

\* v in w bits as a signed number.
SExtValue(v, w) == IF v >= 2^(w - 1) THEN v - 2^w ELSE v

\* It has no more significant bits than int64_t, which APInt::getSExtValue asserts.
Fits(v, w) == SExtValue(v, w) \in -(2^(Int64Bits - 1)) .. 2^(Int64Bits - 1) - 1

\* The operands of the division swapped.
Multiplier_Inverse(p) ==
    SExtValue(1, fn.canonical[L]) \div SExtValue(Phi(p).step, Phi(p).width)

\* The step of the PHI divided by the canonical one's, which is 1 or, in one bit, -1.
Multiplier(p) == SExtValue(Phi(p).step, Phi(p).width) * SExtValue(1, fn.canonical[L])

\* ScalarEvolution::getConstant of w bits.  It is given the int64_t as a uint64_t that is not
\* signed: narrower integers take the low bits, wider ones are filled with zeros.
Constant(v, w) == (v % 2^Int64Bits) % 2^w

\* Both steps are SCEVConstants.
Eliminable(p) == Phi(p).step # UnknownStep

\* PN is the first that is left.
NextIV(PN) == status = "derived" /\ \A p \in DerivedIVs : PN[2] <= p[2]

\* `break' for `continue' where a step is unknown.
Rest_Break(PN) == IF Eliminable(PN) THEN DerivedIVs \ {PN} ELSE {}

\* The loop goes on after PN, whether it was eliminated or left alone.
Rest(PN) == DerivedIVs \ {PN}

\* One derived induction variable is replaced and erased.
Eliminate(PN) ==
    /\ NextIV(PN)
    /\ Eliminable(PN) => /\ Fits(Phi(PN).step, Phi(PN).width)
                         /\ Phi(PN).width = fn.canonical[L]
    /\ Replacement' = IF ~ Eliminable(PN) THEN Replacement
                       ELSE [p \in DOMAIN Replacement \cup {PN} |->
                               IF p = PN THEN Constant(Multiplier(PN), Phi(PN).width)
                               ELSE Replacement[p]]
    /\ DerivedIVs' = Rest(PN)
    /\ UNCHANGED <<fn, todo, L, status>>

\* getSExtValue asserts that the step fits.
TooWide(PN) ==
    /\ NextIV(PN)
    /\ Eliminable(PN) /\ ~ Fits(Phi(PN).step, Phi(PN).width)
    /\ status' = "crashed"
    /\ UNCHANGED <<fn, todo, L, DerivedIVs, Replacement>>

\* getMulExpr asserts that its operands have the same type.
MixedTypes(PN) ==
    /\ NextIV(PN)
    /\ Eliminable(PN) /\ Fits(Phi(PN).step, Phi(PN).width) /\ Phi(PN).width # fn.canonical[L]
    /\ status' = "crashed"
    /\ UNCHANGED <<fn, todo, L, DerivedIVs, Replacement>>

\* The loops inside are next.
Subloops ==
    /\ status = "derived" /\ DerivedIVs = {}
    /\ todo' = fn.subs[L] \o todo
    /\ status' = "loops"
    /\ UNCHANGED <<fn, L, DerivedIVs, Replacement>>

Return ==
    /\ status = "loops" /\ todo = <<>>
    /\ status' = "returned"
    /\ UNCHANGED <<fn, todo, L, DerivedIVs, Replacement>>

Stopped == status \in {"returned", "crashed"} /\ UNCHANGED vars

Next ==
    \/ NoCanonicalIV \/ EnterLoop \/ Subloops \/ Return \/ Stopped
    \/ \E PN \in DerivedIVs : Eliminate(PN) \/ TooWide(PN) \/ MixedTypes(PN)

Spec == Init /\ [][Next]_vars

--------------------------------------------------------------------------------
Loops == DOMAIN fn.phis
PHIs == UNION {{l} \X DOMAIN fn.phis[l] : l \in Loops}
Inner(l) == fn.subs[l] = <<>>

\* Only affine PHIs of the function's loops are replaced.
TypeOK ==
    /\ todo \in Seq(Loops) /\ L \in Loops \cup {0}
    /\ DerivedIVs \subseteq PHIs
    /\ DOMAIN Replacement \subseteq {p \in PHIs : Phi(p).affine}
    /\ status \in {"loops", "derived", "returned", "crashed"}

\* What replaces a PHI has in every iteration, also after either has wrapped around, the
\* value the PHI had.
SameValues ==
    \A p \in DOMAIN Replacement : \A n \in 0..MaxIteration :
        LET m == 2^Phi(p).width
        IN  (Replacement[p] * (n % 2^fn.canonical[p[1]])) % m
              = (Phi(p).start + n * Phi(p).step) % m

\* The loop and all loops around it have a canonical induction variable.
Reached(l) == \A k \in Loops : l \in ToSet(fn.nest[k]) => fn.canonical[k] # NoIV

\* When the pass returns, exactly these PHIs have been replaced: of every loop that is reached
\* all that are affine with a constant step, wherever they stand among others that are left
\* alone.  A loop without a canonical induction variable hides the loops inside it from the
\* pass, and no others.
ReachedLoopsDone ==
    status = "returned" =>
        \A l \in Loops : \A k \in DOMAIN fn.phis[l] :
            <<l, k>> \in DOMAIN Replacement <=>
              Reached(l) /\ fn.phis[l][k].affine /\ fn.phis[l][k].step # UnknownStep

\* "Identifies induction variables in the inner loops of loop nests and eliminates the
\* induction variables" (README.md): when the pass returns, none with a constant step is left in
\* an innermost loop that has a canonical one.
InnerLoopsDone ==
    status = "returned" =>
        \A l \in Loops : \A k \in DOMAIN fn.phis[l] :
            /\ Inner(l) /\ fn.canonical[l] # NoIV
            /\ fn.phis[l][k].affine /\ fn.phis[l][k].step # UnknownStep
            => <<l, k>> \in DOMAIN Replacement
================================================================================
