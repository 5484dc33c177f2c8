----------------------- MODULE DeadStoreElimination_proofs -----------------------
(***************************************************************************)
(* The walk of the dead-store pass never erases the instruction it stands  *)
(* at, every store it erases is still overwritten by one it has left, and  *)
(* so memory is at the exits what it was, in every function and whatever   *)
(* the dangling accesses look like.                                        *)
(***************************************************************************)
EXTENDS DeadStoreElimination, WellFoundedInduction, TLAPS

USE FunctionsAssumption

--------------------------------------------------------------------------------
(* The least of a set of numbers, and reachability. *)

\* A set of natural numbers that is not empty has a least element.
LEMMA LeastExists ==
    ASSUME NEW S \in SUBSET Nat, S # {}
    PROVE  \E i \in S : \A j \in S : i <= j
<1> DEFINE R == OpToRel(<, Nat)
<1>1. IsWellFoundedOn(R, Nat)
  BY NatLessThanWellFounded
<1>2. PICK i \in S : \A j \in S : <<j, i>> \notin R
  <2> HIDE DEF R
  <2> QED BY <1>1, WFMin
<1>3. \A j \in S : ~ (j < i)
  BY <1>2 DEF OpToRel
<1> QED BY <1>3

\* What the walk starts from is reached.
LEMMA FromReached ==
    ASSUME NEW B, NEW E, NEW From
    PROVE  From \cap B \subseteq ReachedOver(B, E, From)
BY DEF ReachedOver

\* A block that the walk starts from is reached.
LEMMA StartReached ==
    ASSUME NEW B, NEW E, NEW b \in B
    PROVE  b \in ReachedOver(B, E, {b})
BY DEF ReachedOver

\* An edge leads on.
LEMMA StepReached ==
    ASSUME NEW B, NEW E, NEW From, NEW e \in E,
           e[1] \in ReachedOver(B, E, From), e[2] \in B
    PROVE  e[2] \in ReachedOver(B, E, From)
BY DEF ReachedOver, ClosedUnder

\* A set that the edges do not lead out of holds all that is reached.
LEMMA ReachedLeast ==
    ASSUME NEW B, NEW E, NEW From, NEW S \in SUBSET B,
           From \subseteq S, ClosedUnder(S, E)
    PROVE  ReachedOver(B, E, From) \subseteq S
BY DEF ReachedOver

\* Fewer edges lead to fewer blocks.
LEMMA ReachedMonotone ==
    ASSUME NEW B, NEW E1, NEW E2, NEW From, E1 \subseteq E2
    PROVE  ReachedOver(B, E1, From) \subseteq ReachedOver(B, E2, From)
BY DEF ReachedOver, ClosedUnder

--------------------------------------------------------------------------------
(* Post-dominance. *)

\* The blocks on paths from b that do not go on from d.
Short(f, d, b) == ReachedOver(f.blocks, EdgesNotFrom(f, d), {b})

LEMMA ShortStart ==
    ASSUME NEW f, NEW d, NEW b \in f.blocks
    PROVE  b \in Short(f, d, b)
BY StartReached DEF Short

LEMMA ShortStep ==
    ASSUME NEW f, NEW d, NEW b, NEW e \in Edges(f), e[1] \in Short(f, d, b), e[1] # d
    PROVE  e[2] \in Short(f, d, b)
<1>1. e[2] \in f.blocks /\ e \in EdgesNotFrom(f, d)
  BY DEF Edges, EdgesNotFrom
<1> QED BY <1>1, StepReached DEF Short

LEMMA ShortBlocks ==
    ASSUME NEW f, NEW d, NEW b
    PROVE  Short(f, d, b) \subseteq f.blocks
BY DEF Short, ReachedOver

LEMMA PostDominatesShort ==
    ASSUME NEW f, NEW d, NEW b, d # b
    PROVE  PostDominates(f, d, b) <=> Exits(f) \cap Short(f, d, b) \subseteq {d}
BY DEF PostDominates, Short

\* A block that post-dominates one that post-dominates a third post-dominates the third: a
\* path from b that does not go on from d goes to d's side of k or not on from k.
LEMMA PostDominatesTransitive ==
    ASSUME NEW f, NEW d \in f.blocks, NEW k \in f.blocks, NEW b \in f.blocks,
           PostDominates(f, d, k), PostDominates(f, k, b)
    PROVE  PostDominates(f, d, b)
<1>1. CASE d = k \/ k = b \/ d = b
  BY <1>1 DEF PostDominates
<1>2. CASE d # k /\ k # b /\ d # b
  <2> DEFINE S == Short(f, k, b) \cup Short(f, d, k)
  <2>1. ClosedUnder(S, EdgesNotFrom(f, d))
    <3> SUFFICES ASSUME NEW e \in Edges(f), e[1] # d, e[1] \in S
                 PROVE  e[2] \in S
      BY DEF ClosedUnder, EdgesNotFrom
    <3>1. CASE e[1] \in Short(f, k, b) /\ e[1] # k
      BY <3>1, ShortStep
    <3>2. CASE e[1] = k
      BY <3>2, ShortStart, ShortStep
    <3>3. CASE e[1] \in Short(f, d, k)
      BY <3>3, ShortStep
    <3> QED BY <3>1, <3>2, <3>3
  <2>2. b \in S /\ S \in SUBSET f.blocks
    BY ShortStart, ShortBlocks
  <2>3. Short(f, d, b) \subseteq S
    <3> HIDE DEF S
    <3> QED BY <2>1, <2>2, ReachedLeast DEF Short
  <2>4. /\ Exits(f) \cap Short(f, k, b) \subseteq {k}
        /\ Exits(f) \cap Short(f, d, k) \subseteq {d}
        /\ k \in Short(f, d, k)
    BY <1>2, PostDominatesShort, ShortStart
  <2>5. Exits(f) \cap Short(f, d, b) \subseteq {d}
    BY <2>3, <2>4
  <2> QED BY <1>2, <2>5, PostDominatesShort
<1> QED BY <1>1, <1>2

\* Two blocks from one of which an exit is reached do not post-dominate each other.
LEMMA PostDominatesAntisymmetric ==
    ASSUME NEW f, NEW d \in f.blocks, NEW b \in f.blocks, d # b,
           Exits(f) \cap ReachedOver(f.blocks, Edges(f), {b}) # {},
           PostDominates(f, d, b)
    PROVE  ~ PostDominates(f, b, d)
<1> SUFFICES ASSUME PostDominates(f, b, d) PROVE FALSE
  OBVIOUS
<1> DEFINE S == Short(f, d, b) \cup Short(f, b, d)
<1>1. ClosedUnder(S, Edges(f))
  <2> SUFFICES ASSUME NEW e \in Edges(f), e[1] \in S
               PROVE  e[2] \in S
    BY DEF ClosedUnder
  <2>1. CASE e[1] # d /\ e[1] \in Short(f, d, b)
    BY <2>1, ShortStep
  <2>2. CASE e[1] # b /\ e[1] \in Short(f, b, d)
    BY <2>2, ShortStep
  <2>3. CASE e[1] = d \/ e[1] = b
    BY <2>3, ShortStart, ShortStep
  <2> QED BY <2>1, <2>2, <2>3
<1>2. b \in S /\ S \in SUBSET f.blocks
  BY ShortStart, ShortBlocks
<1>3. ReachedOver(f.blocks, Edges(f), {b}) \subseteq S
  <2> HIDE DEF S
  <2> QED BY <1>1, <1>2, ReachedLeast
<1>4. /\ Exits(f) \cap Short(f, d, b) \subseteq {d}
      /\ Exits(f) \cap Short(f, b, d) \subseteq {b}
      /\ d \in Short(f, b, d) /\ b \in Short(f, d, b)
  BY PostDominatesShort, ShortStart
<1> QED BY <1>3, <1>4

--------------------------------------------------------------------------------
(* Program points. *)

LEMMA PointParts ==
    ASSUME NEW f, NEW p
    PROVE  p \in Points(f) <=>
             \E b \in f.blocks : \E n \in 1..Len(f.body[b]) + 1 : p = <<b, n>>
BY DEF Points

LEMMA BodyLengths ==
    ASSUME NEW f, IsFunction(f), NEW b \in f.blocks
    PROVE  b \in Nat \ {0} /\ Len(f.body[b]) \in Nat
<1>1. Len(f.body) \in Nat /\ b \in 1..Len(f.body)
  BY DEF IsFunction
<1>2. Len(f.body[b]) \in Nat
  BY DEF IsFunction
<1> QED BY <1>1, <1>2

LEMMA FlowPoints ==
    ASSUME NEW f, IsFunction(f), NEW d \in Flow(f)
    PROVE  d[1] \in Points(f) /\ d[2] \in Points(f)
<1>1. CASE \E p \in {q \in Points(f) : q # End(f, q[1])} : d = <<p, <<p[1], p[2] + 1>>>>
  <2>1. PICK p \in Points(f) : p # End(f, p[1]) /\ d = <<p, <<p[1], p[2] + 1>>>>
    BY <1>1
  <2>2. PICK b \in f.blocks, n \in Nat :
            n \in 1..Len(f.body[b]) + 1 /\ p = <<b, n>>
    BY PointParts, BodyLengths
  <2>3. n # Len(f.body[b]) + 1
    BY <2>1, <2>2 DEF End
  <2>4. n + 1 \in 1..Len(f.body[b]) + 1
    BY <2>2, <2>3, BodyLengths, SMTT(30)
  <2> QED BY <2>1, <2>2, <2>4, PointParts
<1>2. CASE \E e \in Edges(f) : d = <<End(f, e[1]), <<e[2], 1>>>>
  <2>1. PICK e \in Edges(f) : d = <<End(f, e[1]), <<e[2], 1>>>>
    BY <1>2
  <2>2. e[1] \in f.blocks /\ e[2] \in f.blocks
    BY DEF Edges
  <2>3. /\ Len(f.body[e[1]]) + 1 \in 1..Len(f.body[e[1]]) + 1
        /\ 1 \in 1..Len(f.body[e[2]]) + 1
    BY <2>2, BodyLengths, SMTT(30)
  <2> QED BY <2>1, <2>2, <2>3, PointParts DEF End
<1> QED BY <1>1, <1>2 DEF Flow

\* Every point is on a path from the entry.
LEMMA PointsReached ==
    ASSUME NEW f, IsFunction(f), NEW S \in SUBSET Points(f),
           <<f.entry, 1>> \in S, ClosedUnder(S, Flow(f))
    PROVE  Points(f) \subseteq S
<1>1. ASSUME NEW b \in f.blocks, <<b, 1>> \in S, NEW n \in 1..Len(f.body[b]) + 1
      PROVE  <<b, n>> \in S
  <2> SUFFICES ASSUME <<b, n>> \notin S PROVE FALSE
    OBVIOUS
  <2> DEFINE len == Len(f.body[b])
             T == {m \in 1..len + 1 : <<b, m>> \notin S}
  <2>1. len \in Nat
    BY BodyLengths
  <2>2. T \in SUBSET Nat /\ T # {}
    BY <1>1, <2>1
  <2>3. PICK i \in T : \A j \in T : i <= j
    <3> HIDE DEF T
    <3> QED BY <2>2, LeastExists
  <2>4. i \in 1..len + 1 /\ i # 1 /\ i - 1 \in 1..len
    BY <1>1, <2>1, <2>3
  <2>5. <<b, i - 1>> \in S
    <3>1. i - 1 \notin T
      BY <2>1, <2>3, <2>4
    <3> QED BY <2>1, <2>4, <3>1
  <2>6. <<<<b, i - 1>>, <<b, i>>>> \in Flow(f)
    <3> DEFINE q == <<b, i - 1>>
    <3>1. q \in Points(f)
      BY <2>5
    <3>2. q # End(f, q[1])
      BY <2>1, <2>4 DEF End
    <3>3. <<q[1], q[2] + 1>> = <<b, i>>
      BY <2>1, <2>4
    <3> HIDE DEF q
    <3>4. <<q, <<q[1], q[2] + 1>>>> \in Flow(f)
      BY <3>1, <3>2 DEF Flow
    <3> QED BY <3>3, <3>4 DEF q
  <2> QED BY <2>3, <2>5, <2>6 DEF ClosedUnder
<1> DEFINE B == {b \in f.blocks : <<b, 1>> \in S}
<1>2. ClosedUnder(B, Edges(f))
  <2> SUFFICES ASSUME NEW e \in Edges(f), e[1] \in B PROVE e[2] \in B
    BY DEF ClosedUnder
  <2>1. e[1] \in f.blocks /\ e[2] \in f.blocks
    BY DEF Edges
  <2>2. End(f, e[1]) \in S
    <3>1. Len(f.body[e[1]]) + 1 \in 1..Len(f.body[e[1]]) + 1
      BY <2>1, BodyLengths
    <3> QED BY <1>1, <3>1 DEF End
  <2>3. <<End(f, e[1]), <<e[2], 1>>>> \in Flow(f)
    BY DEF Flow
  <2> QED BY <2>1, <2>2, <2>3 DEF ClosedUnder
<1>3. f.entry \in B /\ B \in SUBSET f.blocks
  BY DEF IsFunction
<1>4. f.blocks \subseteq B
  <2> HIDE DEF B
  <2> QED BY <1>2, <1>3, ReachedLeast DEF IsFunction, Reachable
<1> SUFFICES ASSUME NEW p \in Points(f) PROVE p \in S
  OBVIOUS
<1>5. PICK b \in f.blocks : \E n \in 1..Len(f.body[b]) + 1 : p = <<b, n>>
  BY PointParts
<1>6. <<b, 1>> \in S
  BY <1>4
<1> QED BY <1>1, <1>5, <1>6

--------------------------------------------------------------------------------
(* The walk up from a store. *)

\* The access that clobbers a store of which the walk still sees is not the store itself: the
\* store is reached from the entry, and the first time by a path that does not cross it.
LEMMA NotItsOwnClobber ==
    ASSUME NEW f, IsFunction(f), NEW p \in Points(f), NEW blind
    PROVE  ClobberingMemoryAccess(f, p, blind) # p
<1> SUFFICES ASSUME ClobberingMemoryAccess(f, p, blind) = p PROVE FALSE
  OBVIOUS
<1> DEFINE e0 == <<f.entry, 1>>
           C == Clobbers(f, p, blind)
           U == WalkedUp(f, p, blind)
           First == (U \cap C) \cup (IF e0 \in (U \ C) \cup {p} THEN {LiveOnEntry} ELSE {})
           S == Points(f) \ (U \cup {p})
<1>1. p # LiveOnEntry /\ p # Phi
  BY PointParts, BodyLengths DEF LiveOnEntry, Phi
<1>2. First = {p}
  <2>1. ClobberingMemoryAccess(f, p, blind)
          = IF \E q \in First : First = {q} THEN CHOOSE q \in First : TRUE ELSE Phi
    BY DEF ClobberingMemoryAccess
  <2> HIDE DEF First
  <2>2. PICK q \in First : First = {q}
    BY <1>1, <2>1
  <2>3. (CHOOSE r \in First : TRUE) = q
    BY <2>2
  <2> QED BY <2>1, <2>2, <2>3
<1>3. e0 \notin (U \ C) \cup {p}
  BY <1>1, <1>2
<1>4. U \cap C \subseteq {p}
  BY <1>2
<1>5. e0 \in S
  <2>1. e0 \in Points(f)
    BY PointParts, BodyLengths DEF IsFunction
  <2> HIDE DEF U, C
  <2> QED BY <1>3, <1>4, <2>1
<1>6. ClosedUnder(S, Flow(f))
  <2> SUFFICES ASSUME NEW d \in Flow(f), d[1] \in S, d[2] \notin S PROVE FALSE
    BY DEF ClosedUnder
  <2>1. d[1] \in Points(f) /\ d[1] \notin U
    OBVIOUS
  <2>2. d[2] \in Points(f)
    BY FlowPoints
  <2>3. CASE d[2] = p
    <3>1. d[1] \in {e[1] : e \in {c \in Flow(f) : c[2] = p}}
      BY <2>3
    <3> QED BY <2>1, <3>1, FromReached DEF WalkedUp
  <2>4. CASE d[2] # p
    <3>1. d[2] \in U /\ d[2] \notin C
      BY <1>4, <2>2, <2>4
    <3> DEFINE Up == {<<e[2], e[1]>> : e \in {c \in Flow(f) : c[2] \notin C}}
               From == {e[1] : e \in {c \in Flow(f) : c[2] = p}}
               u == <<d[2], d[1]>>
    <3>2. u \in Up /\ u[1] = d[2] /\ u[2] = d[1]
      BY <3>1
    <3>3. U = ReachedOver(Points(f), Up, From)
      BY DEF WalkedUp
    <3> HIDE DEF Up, From, U, C, u
    <3> QED BY <2>1, <3>1, <3>2, <3>3, StepReached
  <2> QED BY <2>3, <2>4
<1>7. Points(f) \subseteq S
  <2> HIDE DEF U
  <2> QED BY <1>5, <1>6, PointsReached
<1> QED BY <1>7

--------------------------------------------------------------------------------
(* Killers. *)

\* Store k overwrites e, on every path from e to an exit.
Kills(f, k, e) ==
    /\ MustAlias(f, k, e)
    /\ IF k[1] = e[1] THEN e[2] < k[2] ELSE PostDominates(f, k[1], e[1])

LEMMA PointTypes ==
    ASSUME NEW f, IsFunction(f), NEW p \in Points(f)
    PROVE  p[1] \in f.blocks /\ p[2] \in Nat /\ p = <<p[1], p[2]>>
<1>1. PICK b \in f.blocks : \E n \in 1..Len(f.body[b]) + 1 : p = <<b, n>>
  BY PointParts
<1> QED BY <1>1, BodyLengths

\* The killer of a killer is one of what the latter has killed.
LEMMA KillsTransitive ==
    ASSUME NEW f, IsFunction(f), NEW a \in Points(f), NEW k \in Points(f), NEW e \in Points(f),
           Kills(f, a, k), Kills(f, k, e)
    PROVE  Kills(f, a, e)
<1>1. MustAlias(f, a, e)
  BY DEF Kills, MustAlias
<1>2. /\ a[1] \in f.blocks /\ k[1] \in f.blocks /\ e[1] \in f.blocks
      /\ a[2] \in Nat /\ k[2] \in Nat /\ e[2] \in Nat
  BY PointTypes
<1>3. CASE a[1] = k[1] \/ k[1] = e[1]
  BY <1>1, <1>2, <1>3 DEF Kills
<1>4. CASE a[1] # k[1] /\ k[1] # e[1]
  <2>1. PostDominates(f, a[1], k[1]) /\ PostDominates(f, k[1], e[1])
    BY <1>4 DEF Kills
  <2>2. a[1] # e[1]
    <3>1. Exits(f) \cap ReachedOver(f.blocks, Edges(f), {e[1]}) # {}
      BY <1>2 DEF IsFunction
    <3>2. ~ PostDominates(f, e[1], k[1])
      BY <1>2, <1>4, <2>1, <3>1, PostDominatesAntisymmetric
    <3> QED BY <2>1, <3>2
  <2>3. PostDominates(f, a[1], e[1])
    BY <1>2, <2>1, PostDominatesTransitive
  <2> QED BY <1>1, <2>2, <2>3 DEF Kills
<1> QED BY <1>3, <1>4

--------------------------------------------------------------------------------
(* The invariant. *)

IInv == fn \in Functions /\ TypeOK /\ KillerSurvives

\* What visiting a store erases, if anything: another access, and if that is a store, one
\* that the visited store kills.
LEMMA Erasure ==
    ASSUME IInv, VisitStore
    PROVE  \/ erased' = erased
           \/ \E prev \in MemoryDefs(fn) :
                 /\ erased' = erased \cup {prev}
                 /\ prev # at
                 /\ prev \in Stores(fn) => Kills(fn, at, prev)
<1>1. IsFunction(fn) /\ at \in Points(fn)
  BY DEF IInv, TypeOK
<1>2. PICK blind \in SUBSET erased :
          LET prev == ClobberingMemoryAccess(fn, at, blind)
          IN  IF prev \in MemoryDefs(fn)
              THEN \E must \in SaysMustAlias(prev) :
                      erased' = IF /\ must
                                   /\ ~ HasInterveningUse(fn, prev, at, blind)
                                   /\ PDTDominates(fn, at, prev)
                                THEN erased \cup {prev}
                                ELSE erased
              ELSE UNCHANGED erased
  BY DEF VisitStore
<1> DEFINE prev == ClobberingMemoryAccess(fn, at, blind)
<1>3. prev # at
  BY <1>1, NotItsOwnClobber
<1> HIDE DEF prev
<1>4. CASE erased' # erased
  <2>1. /\ prev \in MemoryDefs(fn)
        /\ \E must \in SaysMustAlias(prev) :
              must /\ PDTDominates(fn, at, prev) /\ erased' = erased \cup {prev}
    BY <1>2, <1>4 DEF prev
  <2>2. ASSUME prev \in Stores(fn) PROVE Kills(fn, at, prev)
    <3>1. MustAlias(fn, at, prev)
      BY <2>1, <2>2 DEF SaysMustAlias
    <3>2. prev \in Points(fn)
      BY <2>2 DEF Stores
    <3>3. /\ at = <<at[1], at[2]>> /\ prev = <<prev[1], prev[2]>>
          /\ at[2] \in Nat /\ prev[2] \in Nat
      BY <1>1, <3>2, PointTypes
    <3>4. ~ (at[1] = prev[1] /\ at[2] = prev[2])
      BY <1>3, <3>3
    <3>5. IF at[1] = prev[1] THEN prev[2] <= at[2] ELSE PostDominates(fn, at[1], prev[1])
      BY <2>1 DEF PDTDominates
    <3> QED BY <3>1, <3>3, <3>4, <3>5 DEF Kills
  <2> QED BY <1>3, <2>1, <2>2
<1> QED BY <1>4

LEMMA EndPoint ==
    ASSUME NEW f, IsFunction(f), NEW b \in f.blocks
    PROVE  End(f, b) \in Points(f)
<1>1. Len(f.body[b]) + 1 \in 1..Len(f.body[b]) + 1
  BY BodyLengths
<1> QED BY <1>1, PointParts DEF End

LEMMA InitInv == Init => IInv
<1> SUFFICES ASSUME Init PROVE IInv
  OBVIOUS
<1>1. IsFunction(fn) /\ fn \in Functions
  BY DEF Init
<1>2. 1 \in fn.blocks
  BY <1>1 DEF IsFunction
<1>3. at \in Points(fn)
  BY <1>1, <1>2, EndPoint DEF Init
<1> QED BY <1>1, <1>3 DEF Init, IInv, TypeOK, KillerSurvives

LEMMA AdvanceType == IInv /\ Advance => at' \in Points(fn)
<1> SUFFICES ASSUME IInv, Advance PROVE at' \in Points(fn)
  OBVIOUS
<1>1. IsFunction(fn) /\ at \in Points(fn)
  BY DEF IInv, TypeOK
<1>2. PICK b \in fn.blocks, n \in Nat : n \in 1..Len(fn.body[b]) + 1 /\ at = <<b, n>>
  BY <1>1, PointParts, BodyLengths
<1>3. CASE at' = <<at[1], at[2] - 1>> /\ at[2] > 1
  <2>1. n - 1 \in 1..Len(fn.body[b]) + 1 /\ at' = <<b, n - 1>>
    BY <1>1, <1>2, <1>3, BodyLengths
  <2> QED BY <2>1, PointParts
<1>4. CASE at[1] + 1 \in fn.blocks /\ at' = End(fn, at[1] + 1)
  BY <1>1, <1>4, EndPoint
<1>5. CASE UNCHANGED at
  BY <1>1, <1>5
<1> QED BY <1>3, <1>4, <1>5 DEF Advance

LEMMA StepInv == IInv /\ [Next]_vars => IInv'
<1> SUFFICES ASSUME IInv, [Next]_vars PROVE IInv'
  OBVIOUS
<1>1. CASE SkipInst
  <2>1. /\ UNCHANGED <<fn, erased>> /\ at' \in Points(fn)
        /\ status' \in {"running", "returned", "crashed"}
    BY <1>1, AdvanceType DEF SkipInst, Advance, IInv, TypeOK
  <2> QED BY <2>1 DEF IInv, TypeOK, KillerSurvives
<1>2. CASE VisitStore
  <2>1. /\ fn' = fn /\ at' \in Points(fn)
        /\ status' \in {"running", "returned", "crashed"}
        /\ at \in Stores(fn) \ erased
    BY <1>2, AdvanceType DEF VisitStore, Visiting, Advance, IInv, TypeOK
  <2>2. CASE erased' = erased
    BY <2>1, <2>2 DEF IInv, TypeOK, KillerSurvives
  <2>3. ASSUME NEW prev \in MemoryDefs(fn),
               erased' = erased \cup {prev}, prev # at,
               prev \in Stores(fn) => Kills(fn, at, prev)
        PROVE  IInv'
    <3>1. TypeOK'
      BY <2>1, <2>3 DEF IInv, TypeOK
    <3>2. ASSUME NEW e \in (erased \cup {prev}) \cap Stores(fn)
          PROVE  \E k \in Stores(fn) \ (erased \cup {prev}) : Kills(fn, k, e)
      <4>1. at \in Stores(fn) \ (erased \cup {prev})
        BY <2>1, <2>3
      <4>2. CASE e = prev
        BY <2>3, <3>2, <4>1, <4>2
      <4>3. CASE e # prev
        <5>1. PICK k \in Stores(fn) \ erased : Kills(fn, k, e)
          BY <3>2, <4>3 DEF IInv, KillerSurvives, Kills
        <5>2. CASE k # prev
          BY <5>1, <5>2
        <5>3. CASE k = prev
          <6>1. IsFunction(fn) /\ Kills(fn, at, k)
            BY <2>3, <5>1, <5>3 DEF IInv
          <6>2. at \in Points(fn) /\ k \in Points(fn) /\ e \in Points(fn)
            BY <2>1, <3>2, <5>1 DEF Stores
          <6> QED BY <4>1, <5>1, <6>1, <6>2, KillsTransitive
        <5> QED BY <5>2, <5>3
      <4> QED BY <4>2, <4>3
    <3>3. KillerSurvives'
      BY <2>1, <2>3, <3>2 DEF KillerSurvives, Kills
    <3> QED BY <2>1, <3>1, <3>3 DEF IInv
  <2> QED BY <1>2, <2>2, <2>3, Erasure
<1>3. CASE Crash
  BY <1>3 DEF Crash, IInv, TypeOK, KillerSurvives
<1>4. CASE UNCHANGED vars
  BY <1>4 DEF vars, IInv, TypeOK, KillerSurvives
<1> QED BY <1>1, <1>2, <1>3, <1>4 DEF Next, Stopped

LEMMA StepSafe == IInv /\ [Next]_vars => [Visiting => at \notin erased']_vars
<1> SUFFICES ASSUME IInv, Next, Visiting PROVE at \notin erased'
  OBVIOUS
<1>1. at \in Stores(fn) \ erased /\ status = "running"
  BY DEF Visiting
<1>2. CASE VisitStore
  BY <1>1, <1>2, Erasure
<1>3. CASE Crash
  BY <1>1, <1>3 DEF Crash
<1> QED BY <1>1, <1>2, <1>3 DEF Next, SkipInst, Stopped

LEMMA Invariant == Spec => []IInv
BY InitInv, StepInv, PTL DEF Spec

\* The position of the walk stays in the function, whatever it erases.
THEOREM TypeCorrect == Spec => []TypeOK
BY Invariant, PTL DEF IInv

\* Every store that has been erased is overwritten, on every path to an exit, by one that is
\* still there.
THEOREM KillersSurvive == Spec => []KillerSurvives
BY Invariant, PTL DEF IInv

\* No step erases the instruction the iterator stands at.
THEOREM IteratorValid == Spec => IteratorSafe
BY Invariant, StepSafe, PTL DEF Spec, IteratorSafe
--------------------------------------------------------------------------------
(* What is in memory at the exits. *)

\* The points on paths from past store e that do not go on from k.
PastWithout(f, k, e) ==
    ReachedOver(Points(f), {d \in Flow(f) : d[1] # k}, {<<e[1], e[2] + 1>>})

\* A step stays in a block or goes from the end of one to the start of another.
LEMMA FlowKinds ==
    ASSUME NEW f, IsFunction(f), NEW d \in Flow(f), NEW b \in f.blocks, NEW n \in Nat, d[1] = <<b, n>>
    PROVE  \/ d[2] = <<b, n + 1>> /\ n # Len(f.body[b]) + 1
           \/ \E e \in Edges(f) : b = e[1] /\ n = Len(f.body[b]) + 1 /\ d[2] = <<e[2], 1>>
<1>1. CASE \E p \in {q \in Points(f) : q # End(f, q[1])} : d = <<p, <<p[1], p[2] + 1>>>>
  BY <1>1 DEF End
<1>2. CASE \E e \in Edges(f) : d = <<End(f, e[1]), <<e[2], 1>>>>
  BY <1>2 DEF End
<1> QED BY <1>1, <1>2 DEF Flow

LEMMA StoreParts ==
    ASSUME NEW f, IsFunction(f), NEW s \in Stores(f)
    PROVE  /\ s \in Points(f) /\ s[1] \in f.blocks /\ s[2] \in 1..Len(f.body[s[1]])
           /\ s = <<s[1], s[2]>> /\ <<s[1], s[2] + 1>> \in Points(f)
<1>1. s \in Points(f) /\ s[2] <= Len(f.body[s[1]])
  BY DEF Stores, IsOp
<1>2. PICK b \in f.blocks, n \in Nat : n \in 1..Len(f.body[b]) + 1 /\ s = <<b, n>>
  BY <1>1, PointParts, BodyLengths
<1>3. n \in 1..Len(f.body[b]) /\ n + 1 \in 1..Len(f.body[b]) + 1
  BY <1>1, <1>2, BodyLengths
<1>4. <<b, n + 1>> \in Points(f)
  BY <1>3, PointParts
<1> QED BY <1>1, <1>2, <1>3, <1>4

\* From a store control goes to what follows it.
LEMMA StoreStep ==
    ASSUME NEW f, IsFunction(f), NEW d \in Flow(f), d[1] \in Stores(f)
    PROVE  d[2] = <<d[1][1], d[1][2] + 1>>
<1> DEFINE s == d[1]
<1>1. s \in Stores(f) /\ d[1] = s
  OBVIOUS
<1> HIDE DEF s
<1>2. PICK b, n : b \in f.blocks /\ n \in 1..Len(f.body[b]) /\ s = <<b, n>> /\ Len(f.body[b]) \in Nat
  BY <1>1, StoreParts, BodyLengths
<1>3. n \in Nat /\ n # Len(f.body[b]) + 1
  BY <1>2
<1>4. d[2] = <<b, n + 1>>
  BY <1>1, <1>2, <1>3, FlowKinds
<1> QED BY <1>1, <1>2, <1>4

\* Every path from a store to an exit passes through its killer.
LEMMA KillerPassed ==
    ASSUME NEW f, IsFunction(f), NEW k \in Stores(f), NEW e \in Stores(f), Kills(f, k, e)
    PROVE  PastWithout(f, k, e) \cap ExitPoints(f) = {}
<1> DEFINE From == <<e[1], e[2] + 1>>
           Others == IF k[1] = e[1] THEN {} ELSE Short(f, k[1], e[1]) \ {k[1]}
           First == IF k[1] = e[1] THEN e[2] + 1 ELSE 1
           S == {p \in Points(f) : p[1] \in Others \/ (p[1] = k[1] /\ First <= p[2] /\ p[2] <= k[2])}
<1>1. /\ k[1] \in f.blocks /\ k[2] \in 1..Len(f.body[k[1]]) /\ k = <<k[1], k[2]>>
      /\ e[1] \in f.blocks /\ e[2] \in 1..Len(f.body[e[1]])
      /\ From \in Points(f)
  BY StoreParts
<1>2. k[2] \in Nat /\ e[2] \in Nat /\ First \in Nat /\ First <= k[2] /\ k[2] <= Len(f.body[k[1]])
  BY <1>1, BodyLengths DEF Kills
<1>3. From \in S
  <2>1. CASE k[1] = e[1]
    BY <1>1, <1>2, <2>1
  <2>2. CASE k[1] # e[1]
    BY <1>1, <2>2, ShortStart
  <2> QED BY <2>1, <2>2
<1>4. ASSUME NEW e1 \in Edges(f), e1[1] \in Others
      PROVE  e1[2] \in Others \/ (e1[2] = k[1] /\ First = 1)
  BY <1>4, ShortStep
<1>5. Exits(f) \cap Others = {}
  BY PostDominatesShort DEF Kills
<1>6. k[1] \notin Others
  OBVIOUS
<1> HIDE DEF Others, First, From
<1>7. ClosedUnder(S, {d \in Flow(f) : d[1] # k})
  <2> SUFFICES ASSUME NEW d \in Flow(f), d[1] # k, d[1] \in S PROVE d[2] \in S
    BY DEF ClosedUnder
  <2>1. d[2] \in Points(f)
    BY FlowPoints
  <2>2. PICK b \in f.blocks, n \in Nat : d[1] = <<b, n>>
    BY FlowPoints, PointTypes
  <2>3. CASE d[2] = <<b, n + 1>>
    BY <1>1, <1>2, <2>1, <2>2, <2>3
  <2>4. ASSUME NEW e1 \in Edges(f), b = e1[1], n = Len(f.body[b]) + 1, d[2] = <<e1[2], 1>>
        PROVE  d[2] \in S
    BY <1>1, <1>2, <1>4, <2>1, <2>2, <2>4, BodyLengths
  <2> QED BY <2>2, <2>3, <2>4, FlowKinds
<1>8. PastWithout(f, k, e) \subseteq S
  <2> DEFINE E == {d \in Flow(f) : d[1] # k}
  <2>1. S \in SUBSET Points(f) /\ {From} \subseteq S /\ ClosedUnder(S, E)
    BY <1>3, <1>7
  <2> HIDE DEF S, E
  <2>2. ReachedOver(Points(f), E, {From}) \subseteq S
    BY <2>1, ReachedLeast
  <2> QED BY <2>2 DEF PastWithout, From, E
<1>9. ASSUME NEW b \in Exits(f) PROVE End(f, b) \notin S
  <2>1. b \in f.blocks
    BY DEF Exits
  <2>2. End(f, b) = <<b, Len(f.body[b]) + 1>> /\ Len(f.body[b]) \in Nat
    BY <2>1, BodyLengths DEF End
  <2> QED BY <1>2, <1>5, <2>2
<1> QED BY <1>8, <1>9 DEF ExitPoints

\* Stores to one address are of one size.
OneSize(f) ==
    \A p, q \in Stores(f) : MustAlias(f, p, q) => Inst(f, p).size = Inst(f, q).size

LEMMA KillersOverwrite ==
    ASSUME NEW f, IsFunction(f), OneSize(f), NEW k \in Stores(f), NEW s \in Stores(f), MustAlias(f, k, s)
    PROVE  Overwrites(f, k, s)
<1>1. IsOp(f, k, "store")
  BY DEF Stores
<1>2. Inst(f, k).size = Inst(f, s).size
  BY DEF OneSize
<1>3. Inst(f, s).size \in Nat
  <2>1. s[1] \in f.blocks /\ s[2] \in 1..Len(f.body[s[1]])
    BY StoreParts
  <2> DEFINE I == [op : {"store", "load", "call"}, ptr : STRING, size : Nat, vol : BOOLEAN]
  <2>2. f.body[s[1]] \in Seq(I)
    BY <2>1 DEF IsFunction
  <2> HIDE DEF I
  <2>3. f.body[s[1]][s[2]] \in I
    BY <2>1, <2>2
  <2> QED BY <2>3 DEF I, Inst
<1> QED BY <1>1, <1>2, <1>3 DEF Overwrites

LEMMA HoldsMonotone ==
    ASSUME NEW f, NEW s, NEW gone
    PROVE  Holds(f, s, {}) \subseteq Holds(f, s, gone)
<1> DEFINE Keeping(g) == {e \in Flow(f) : e[1] \in g \/ ~ Overwrites(f, e[1], s)}
<1>1. Keeping({}) \subseteq Keeping(gone)
  OBVIOUS
<1> HIDE DEF Keeping
<1>2. ReachedOver(Points(f), Keeping({}), {<<s[1], s[2] + 1>>})
        \subseteq ReachedOver(Points(f), Keeping(gone), {<<s[1], s[2] + 1>>})
  BY <1>1, ReachedMonotone
<1> QED BY <1>2 DEF Holds, Keeping

\* A store that has a killer is not in memory at an exit.
LEMMA KilledNotHeld ==
    ASSUME NEW f, IsFunction(f), OneSize(f), NEW s \in Stores(f), NEW k \in Stores(f), Kills(f, k, s)
    PROVE  Holds(f, s, {}) \cap ExitPoints(f) = {}
<1>1. Overwrites(f, k, s)
  BY KillersOverwrite DEF Kills
<1> DEFINE Keeping == {e \in Flow(f) : e[1] \in {} \/ ~ Overwrites(f, e[1], s)}
           Without == {d \in Flow(f) : d[1] # k}
<1>2. Keeping \subseteq Without
  BY <1>1
<1> HIDE DEF Keeping, Without
<1>3. Holds(f, s, {}) \subseteq PastWithout(f, k, s)
  BY <1>2, ReachedMonotone DEF Holds, PastWithout, Keeping, Without
<1> QED BY <1>3, KillerPassed

\* What is erased and has a killer that is left makes no difference to another store: a
\* path on which it is missing goes on to its killer.
LEMMA HeldAsBefore ==
    ASSUME NEW f, IsFunction(f), OneSize(f), NEW gone \in SUBSET Points(f),
           \A e \in gone \cap Stores(f) : \E k \in Stores(f) \ gone : Kills(f, k, e),
           NEW s \in Stores(f) \ gone, Holds(f, s, {}) \cap ExitPoints(f) = {}
    PROVE  Holds(f, s, gone) \cap ExitPoints(f) = {}
<1> DEFINE Keeping == {e \in Flow(f) : e[1] \in gone \/ ~ Overwrites(f, e[1], s)}
           Before == {e \in Flow(f) : e[1] \in {} \/ ~ Overwrites(f, e[1], s)}
           From == <<s[1], s[2] + 1>>
           Aliases == {e \in gone \cap Stores(f) : MustAlias(f, e, s)}
           killer == [e \in Aliases |-> CHOOSE k \in Stores(f) \ gone : Kills(f, k, e)]
           S == Holds(f, s, {}) \cup UNION {PastWithout(f, killer[e], e) : e \in Aliases}
<1>1. \A e \in Aliases : killer[e] \in Stores(f) \ gone /\ Kills(f, killer[e], e)
  OBVIOUS
<1>2. \A e \in Aliases : Overwrites(f, killer[e], s)
  <2> SUFFICES ASSUME NEW e \in Aliases PROVE Overwrites(f, killer[e], s)
    OBVIOUS
  <2> DEFINE k == killer[e]
  <2>1. k \in Stores(f) /\ MustAlias(f, k, e) /\ MustAlias(f, e, s)
    BY <1>1 DEF Kills
  <2> HIDE DEF k
  <2>2. Overwrites(f, k, s)
    BY <2>1, KillersOverwrite DEF MustAlias
  <2> QED BY <2>2 DEF k
<1> HIDE DEF killer
<1>3. S \in SUBSET Points(f) /\ From \in S
  <2>1. From \in Points(f)
    BY StoreParts
  <2>2. From \in Holds(f, s, {})
    BY <2>1, StartReached DEF Holds
  <2>3. Holds(f, s, {}) \subseteq Points(f)
    BY DEF Holds, ReachedOver
  <2>4. \A e \in Aliases : PastWithout(f, killer[e], e) \subseteq Points(f)
    BY DEF PastWithout, ReachedOver
  <2> HIDE DEF Aliases, From
  <2> QED BY <2>2, <2>3, <2>4
<1>4. ASSUME NEW d \in Keeping, d[1] \in Holds(f, s, {}) PROVE d[2] \in S
  <2>1. d[2] \in Points(f)
    BY FlowPoints
  <2>2. CASE Overwrites(f, d[1], s)
    <3>1. d[1] \in Aliases
      BY <2>2, FlowPoints DEF Overwrites, Stores
    <3>2. d[2] = <<d[1][1], d[1][2] + 1>>
      <4>1. d \in Flow(f) /\ d[1] \in Stores(f)
        BY <3>1
      <4> QED BY <4>1, StoreStep
    <3>3. d[2] \in PastWithout(f, killer[d[1]], d[1])
      BY <2>1, <3>2, StartReached DEF PastWithout
    <3> QED BY <3>1, <3>3
  <2>3. CASE ~ Overwrites(f, d[1], s)
    <3>1. d \in Before
      BY <2>3
    <3> HIDE DEF Before
    <3>2. d[2] \in ReachedOver(Points(f), Before, {From})
      BY <1>4, <2>1, <3>1, StepReached DEF Holds, Before
    <3> QED BY <3>2 DEF Holds, Before
  <2> QED BY <2>2, <2>3
<1>5. ASSUME NEW d \in Keeping, NEW e \in Aliases, d[1] \in PastWithout(f, killer[e], e)
      PROVE  d[2] \in PastWithout(f, killer[e], e)
  <2> DEFINE E == {c \in Flow(f) : c[1] # killer[e]}
  <2>1. d[1] # killer[e]
    BY <1>1, <1>2
  <2>2. d \in E /\ d[2] \in Points(f)
    BY <2>1, FlowPoints
  <2> HIDE DEF E
  <2>3. d[2] \in ReachedOver(Points(f), E, {<<e[1], e[2] + 1>>})
    BY <1>5, <2>2, StepReached DEF PastWithout, E
  <2> QED BY <2>3 DEF PastWithout, E
<1>6. ClosedUnder(S, Keeping)
  BY <1>4, <1>5 DEF ClosedUnder
<1>7. Holds(f, s, gone) \subseteq S
  <2> HIDE DEF S, Keeping
  <2>1. ReachedOver(Points(f), Keeping, {From}) \subseteq S
    BY <1>3, <1>6, ReachedLeast
  <2> QED BY <2>1 DEF Holds, Keeping
<1>8. \A e \in Aliases : PastWithout(f, killer[e], e) \cap ExitPoints(f) = {}
  BY <1>1, KillerPassed
<1> QED BY <1>7, <1>8

\* FinalMemoryPreserved: as long as the stores to an address are all of one size, what is in
\* memory at the exits are the values of the stores that left them there before.
THEOREM FinalMemoryKept == Spec => [](OneSize(fn) => FinalMemoryPreserved)
<1>1. IInv => (OneSize(fn) => FinalMemoryPreserved)
  <2> SUFFICES ASSUME IInv, OneSize(fn) PROVE FinalMemoryPreserved
    OBVIOUS
  <2>1. /\ IsFunction(fn) /\ erased \in SUBSET Points(fn)
        /\ \A e \in erased \cap Stores(fn) : \E k \in Stores(fn) \ erased : Kills(fn, k, e)
    BY DEF IInv, TypeOK, KillerSurvives, Kills, MemoryDefs
  <2>2. ASSUME NEW s \in Stores(fn), Holds(fn, s, {}) \cap ExitPoints(fn) # {}
        PROVE  s \notin erased /\ Holds(fn, s, erased) \cap ExitPoints(fn) # {}
    <3>1. s \notin erased
      BY <2>1, <2>2, KilledNotHeld
    <3>2. Holds(fn, s, {}) \subseteq Holds(fn, s, erased)
      BY HoldsMonotone
    <3> QED BY <2>2, <3>1, <3>2
  <2>3. ASSUME NEW s \in Stores(fn) \ erased, Holds(fn, s, erased) \cap ExitPoints(fn) # {}
        PROVE  Holds(fn, s, {}) \cap ExitPoints(fn) # {}
    BY <2>1, <2>3, HeldAsBefore
  <2> QED BY <2>2, <2>3 DEF FinalMemoryPreserved
<1> QED BY <1>1, Invariant, PTL
================================================================================
