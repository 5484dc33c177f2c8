------------------------------- MODULE MCMergeBB -------------------------------
(***************************************************************************)
(* Instances of MergeBB: a few shapes of control flow with blocks that may *)
(* be identical, and a join that may have a PHI.                           *)
(***************************************************************************)
EXTENDS MergeBB

CONSTANTS Shapes,   \* the shapes
          Codes     \* what the blocks between the entry and the joins may contain

Shape(succs, kinds, join) == [targets |-> succs, kind |-> kinds, join |-> join]
\* A conditional branch; a switch, with two cases for one block; a branch of which
\* each side goes on to a second block; a loop.
Diamond == Shape(<<<<2, 3>>, <<4>>, <<4>>, <<>>>>, <<"cond", "br", "br", "ret">>, 4)
Switch == Shape(<<<<2, 3, 4, 2>>, <<5>>, <<5>>, <<5>>, <<>>>>,
                <<"cond", "br", "br", "br", "ret">>, 5)
TwoLevels == Shape(<<<<2, 3>>, <<4>>, <<5>>, <<6>>, <<6>>, <<>>>>,
                   <<"cond", "br", "br", "br", "br", "ret">>, 6)
Loop == Shape(<<<<2, 3>>, <<4>>, <<4>>, <<2, 5>>, <<>>>>,
              <<"cond", "br", "br", "cond", "ret">>, 4)
\* Block 2 has no predecessor; and block 3 is where an invoke returns to.
Unreached == Shape(<<<<3>>, <<4>>, <<4>>, <<>>>>, <<"br", "br", "br", "ret">>, 4)
Invoke == Shape(<<<<2, 5>>, <<4>>, <<4>>, <<>>, <<3, 6>>, <<>>>>,
                <<"cond", "br", "br", "ret", "other", "other">>, 4)

MCBranches == {Diamond, Switch, TwoLevels, Loop}
MCDiamond == {Diamond}
MCOthers == {Unreached, Invoke}

Arg(n) == <<0, n>>
I(op, vals) == [op |-> op, vals |-> vals, from |-> <<>>]
\* What block b may contain: nothing; an addition, its operands in either order, also
\* after a debug intrinsic; an instruction that uses another one of the block; or a
\* PHI of its entry edge.
Code(name, b) ==
    CASE name = "empty" -> <<>>
      [] name = "add"   -> <<I("add", <<Arg(1), Arg(2)>>)>>
      [] name = "swap"  -> <<I("add", <<Arg(2), Arg(1)>>)>>
      [] name = "dbg"   -> <<I("dbg", <<>>), I("add", <<Arg(1), Arg(2)>>)>>
      [] name = "chain" -> <<I("add", <<Arg(1), Arg(2)>>), I("mul", <<<<b, 1>>, Arg(2)>>)>>
      [] name = "phi"   -> <<[op |-> "phi", vals |-> <<Arg(1)>>, from |-> <<1>>]>>

MCCodes == {"empty", "add", "swap", "dbg", "chain"}

Middle(s) == 2..(s.join - 1)
JoinPreds(s) == {p \in DOMAIN s.targets : \E i \in DOMAIN s.targets[p] : s.targets[p][i] = s.join}

\* The values a PHI of the join may get from block p: an argument, or p's first
\* instruction.
Incoming(code, p) ==
    {Arg(3), Arg(4)} \cup (IF p \in DOMAIN code /\ code[p] \in {"add", "swap"} THEN {<<p, 1>>} ELSE {})

PhiOf(s, in) ==
    LET from == SelectSeq([p \in DOMAIN s.targets |-> p], LAMBDA p : p \in JoinPreds(s))
    IN  [op |-> "phi", vals |-> [k \in DOMAIN from |-> in[from[k]]], from |-> from]

JoinCodes(s, code) ==
    {<<>>} \cup {<<PhiOf(s, in)>> :
                   in \in {g \in [JoinPreds(s) -> UNION {Incoming(code, p) : p \in JoinPreds(s)}] :
                             \A p \in JoinPreds(s) : g[p] \in Incoming(code, p)}}

FunctionsOf(s) ==
    UNION {{[kind |-> s.kind, targets |-> s.targets,
             body |-> [b \in DOMAIN s.targets |->
                         IF b = s.join THEN join
                         ELSE IF b \in Middle(s) THEN Code(code[b], b) ELSE <<>>]] :
              join \in JoinCodes(s, code)} : code \in [Middle(s) -> Codes]}

MCFunctions == UNION {FunctionsOf(s) : s \in Shapes}
================================================================================
