------------------------- MODULE MCDerivedInductionVar -------------------------
(***************************************************************************)
(* Instances of DerivedInductionVar: single loops for the arithmetic, and  *)
(* nests for the way through them.                                         *)
(***************************************************************************)
EXTENDS EliminateAndReport

CONSTANTS Starts,       \* the start values of the PHIs of single loops
          Canonical     \* the widths of the canonical induction variables, NoIV included

P(affine, start, step, width) ==
    [affine |-> affine, start |-> start, step |-> step, width |-> width]
Steps(w) == (1..(2^w - 1)) \cup {UnknownStep}
Affines == UNION {{P(TRUE, start, step, w) : start \in Starts, step \in Steps(w)} : w \in Widths}
\* One loop with one PHI, of each width and step.
OneLoop ==
    {[top |-> <<1>>, subs |-> <<<<>>>>, nest |-> <<<<1>>>>, canonical |-> <<c>>, phis |-> <<<<p>>>>] :
        c \in Canonical, p \in Affines \cup {P(FALSE, 0, 1, w) : w \in Widths}}

\* Negative steps of integers wider than int64_t: their multiplier is filled with zeros.
ZeroExtended(p) == p.width > Int64Bits /\ SExtValue(p.step, p.width) < 0 /\ p.step # UnknownStep

Header(w) ==
    {<<>>, <<P(TRUE, 0, 3, w)>>, <<P(TRUE, 0, UnknownStep, w), P(TRUE, 0, 1, w)>>,
     <<P(TRUE, 0, 2, w), P(FALSE, 0, 1, w), P(TRUE, 0, UnknownStep, w), P(TRUE, 0, 3, w)>>}
\* Three loops deep with two side by side, and one after them; integers of two bits.
Nests ==
    {[top |-> <<1, 5>>, subs |-> <<<<2, 4>>, <<3>>, <<>>, <<>>, <<>>>>,
      nest |-> <<<<1, 2, 3, 4>>, <<2, 3>>, <<3>>, <<4>>, <<5>>>>,
      canonical |-> canonical, phis |-> <<g, h, g, i, h>>] :
        canonical \in [1..5 -> {NoIV, 2}], g, h, i \in Header(2)}

MCFunctions == {f \in OneLoop : ~ ZeroExtended(f.phis[1][1])} \cup Nests
================================================================================
