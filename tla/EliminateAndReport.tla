--------------------------- MODULE EliminateAndReport ----------------------------
(***************************************************************************)
(* The pipeline induction-var-elim,affine-recurrence: what is printed of   *)
(* the loops that the elimination leaves.  Of the blocks of a loop its     *)
(* header is kept, under the name of the loop, and of the instructions     *)
(* there the PHIs and what replaces them.                                  *)
(***************************************************************************)
EXTENDS DerivedInductionVar

VARIABLES function, LoopsToCome, CurrentLoop, Blocks, errs, pass  \* the state of AffineRecurrence
report == <<function, LoopsToCome, CurrentLoop, Blocks, errs, pass>>

\* The canonical induction variable, the PHIs that are left and, unless it is the canonical
\* variable itself, what has replaced one.
RecurrencesOf(l) ==
    LET Own == {l} \X DOMAIN fn.phis[l]
        Left == {p \in Own \ DOMAIN Replacement : Phi(p).affine}
        New == {p \in Own \cap DOMAIN Replacement : Replacement[p] # 1}
    IN  {<<l, 0, "phi">> : n \in {fn.canonical[l]} \ {NoIV}}
        \cup {<<l, p[2], "phi">> : p \in Left} \cup {<<l, p[2], "mul">> : p \in New}

LoopsLeft ==
    [top |-> fn.top, inner |-> fn.subs,
     blocks |-> fn.nest,
     header |-> [l \in DOMAIN fn.phis |-> l],
     recurrences |-> [l \in DOMAIN fn.phis |-> RecurrencesOf(l)]]

AR == INSTANCE AffineRecurrence
        WITH Loops <- LoopsToCome, L <- CurrentLoop

PipelineInit == Init /\ AR!Init

PipelineNext ==
    \/ Next /\ UNCHANGED report
    \/ status = "returned" /\ (AR!Run(LoopsLeft) \/ AR!Continue) /\ UNCHANGED vars

PipelineSpec == PipelineInit /\ [][PipelineNext]_<<vars, report>>

--------------------------------------------------------------------------------
\* Each recurrence that the elimination leaves in a loop, what has replaced PHIs included, is
\* printed exactly once, in the outer loops and in the inner ones.
ReportedOnce == AR!PrintedOnce
================================================================================
