------------------------ MODULE MCDeadStoreElimination -------------------------
(***************************************************************************)
(* Instances of DeadStoreElimination: a few shapes of control flow, filled *)
(* with every distribution of a bounded number of instructions.            *)
(***************************************************************************)
EXTENDS DeadStoreElimination, SequencesExt

CONSTANTS Shapes,       \* names of shapes of Succ
          MaxInsts,     \* how many instructions each shape has at most
          Instructions  \* the instructions they are drawn from

Succ ==
    [straight |-> <<{}>>,
     chain    |-> <<{2}, {}>>,
     diamond  |-> <<{2, 3}, {4}, {4}, {}>>,
     loop     |-> <<{2}, {2, 3}, {}>>]

I(op, ptr, size, vol) == [op |-> op, ptr |-> ptr, size |-> size, vol |-> vol]
\* Words of an alloca x and of two pointers u and v that may be equal.
StoreX == I("store", "x", 4, FALSE)
StoreU == I("store", "u", 4, FALSE)
StoreV == I("store", "v", 4, FALSE)
ByteX == I("store", "x", 1, FALSE)
VolatileX == I("store", "x", 4, TRUE)
LoadX == I("load", "x", 4, FALSE)
Call == I("call", "none", 0, FALSE)

MCStores == {StoreX, StoreU, StoreV}
MCLoads == {StoreX, LoadX}
MCOtherStores == {StoreX, ByteX, VolatileX}
MCCalls == {StoreU, Call}

RECURSIVE Bodies(_, _)
\* The ways to fill n blocks with at most k instructions.
Bodies(n, k) ==
    IF n = 0 THEN {<<>>}
    ELSE UNION {{<<b>> \o rest : rest \in Bodies(n - 1, k - Len(b))} :
                   b \in BoundedSeq(Instructions, k)}

MCFunctions ==
    UNION {{[blocks |-> DOMAIN Succ[s], entry |-> 1, succ |-> Succ[s], body |-> body,
             unknown |-> {"u", "v"}] : body \in Bodies(Len(Succ[s]), MaxInsts[s])} :
             s \in Shapes}

ThreeEach == [straight |-> 4, chain |-> 3, diamond |-> 3, loop |-> 3]
================================================================================
