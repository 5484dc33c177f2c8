------------------------------ MODULE PassManager -------------------------------
(***************************************************************************)
(* What the passes of this repository rely on LLVM's pass manager for: a   *)
(* pass that reports the result of an analysis reports what the analysis   *)
(* says of the program as it then is.  There are no caches here: every     *)
(* result is computed when it is asked for.                                *)
(*                                                                         *)
(* The program is known by the changes that have been made to it, each     *)
(* [pass, fn, at, altered]: which pass changed which function, at which    *)
(* place of the pipeline, and the analyses whose results that may alter.   *)
(***************************************************************************)
CONSTANTS Module,       \* the unit that stands for all functions together
          Unreported    \* pairs <<pass, analysis>>: changes that a report need not show

VARIABLES
    ir,     \* the changes made to the program so far
    out     \* the reports so far, each [pass, unit, analysis, shown]
vars == <<ir, out>>

\* The result of analysis a for unit u, which is all that the changes that may alter it
\* leave of what it was at first.
Says(a, u) == {c \in ir : a \in c.altered /\ u \in {c.fn, Module}}

\* Of the changes S those that a result of a has to show.
ToShow(S, a) == {c \in S : <<c.pass, a>> \notin Unreported}

Init == ir = {} /\ out = {}

Change ==
    /\ ir \subseteq ir' /\ ir' # ir
    /\ UNCHANGED out

Report ==
    /\ \E r \in out' : /\ out' = out \cup {r}
                       /\ ToShow(r.shown, r.analysis) = ToShow(Says(r.analysis, r.unit), r.analysis)
    /\ UNCHANGED ir

Next == Change \/ Report

Spec == Init /\ [][Next]_vars
================================================================================
