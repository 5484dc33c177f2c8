----------------------------- MODULE MergeBB_proofs ------------------------------
(***************************************************************************)
(* MergeBB in every function, whatever is merged in whatever order: what   *)
(* is deleted is dead, and as long as no block with a PHI is merged, the   *)
(* function does what it did and its PHIs match its edges.                 *)
(***************************************************************************)
EXTENDS MergeBB, FiniteSetTheorems, SequenceTheorems, WellFoundedInduction, TLAPS

USE FunctionsAssumption

--------------------------------------------------------------------------------
(* The least of a set of numbers, and reachability. *)

\* A set of natural numbers that is not empty has a least element.
LEMMA LeastExists ==
    ASSUME NEW S \in SUBSET Nat, S # {}
    PROVE  \E i \in S : \A j \in S : i <= j
<1> DEFINE R == OpToRel(<, Nat)
<1>1. IsWellFoundedOn(R, Nat)
  BY NatLessThanWellFounded
<1>2. PICK i \in S : \A j \in S : <<j, i>> \notin R
  <2> HIDE DEF R
  <2> QED BY <1>1, WFMin
<1>3. \A j \in S : ~ (j < i)
  BY <1>2 DEF OpToRel
<1> QED BY <1>3

\* A block that the walk starts from is reached.
LEMMA StartReached ==
    ASSUME NEW B, NEW E, NEW b \in B
    PROVE  b \in ReachedOver(B, E, {b})
BY DEF ReachedOver

\* An edge leads on.
LEMMA StepReached ==
    ASSUME NEW B, NEW E, NEW From, NEW e \in E,
           e[1] \in ReachedOver(B, E, From), e[2] \in B
    PROVE  e[2] \in ReachedOver(B, E, From)
BY DEF ReachedOver, ClosedUnder

\* A set that the edges do not lead out of holds all that is reached.
LEMMA ReachedLeast ==
    ASSUME NEW B, NEW E, NEW From, NEW S \in SUBSET B,
           From \subseteq S, ClosedUnder(S, E)
    PROVE  ReachedOver(B, E, From) \subseteq S
BY DEF ReachedOver

\* Fewer edges lead to fewer blocks.
LEMMA ReachedMonotone ==
    ASSUME NEW B, NEW E1, NEW E2, NEW From, E1 \subseteq E2
    PROVE  ReachedOver(B, E1, From) \subseteq ReachedOver(B, E2, From)
BY DEF ReachedOver, ClosedUnder

--------------------------------------------------------------------------------
(* Functions. *)

\* What an operand can be.
Values ==
    ({0} \X Nat)
    \cup UNION {{b} \X {k \in DOMAIN fn.body[b] : fn.body[b][k].op # "dbg"} : b \in DOMAIN fn.body}

LEMMA FunctionFacts ==
    ASSUME IsFunction(fn)
    PROVE  /\ Len(fn.body) \in Nat /\ Len(fn.body) # 0
           /\ Blocks = 1..Len(fn.body)
           /\ DOMAIN fn.targets = Blocks
           /\ \A b \in Blocks : /\ fn.targets[b] \in Seq(Blocks \ {1})
                                /\ IsBr(b) => Len(fn.targets[b]) = 1
<1> DEFINE I == [op : STRING, vals : Seq(Values), from : Seq(DOMAIN fn.body)]
<1>1. fn.body \in Seq(Seq(I)) /\ fn.body # <<>>
  BY DEF IsFunction, Values
<1> HIDE DEF I
<1>2. /\ Len(fn.body) \in Nat /\ Len(fn.body) # 0
      /\ Blocks = 1..Len(fn.body)
  BY <1>1, LenProperties, EmptySeq DEF Blocks
<1>3. /\ DOMAIN fn.targets = Blocks
      /\ \A b \in Blocks : fn.targets[b] \in Seq(Blocks \ {1})
      /\ \A b \in Blocks : fn.kind[b] = "br" => Len(fn.targets[b]) = 1
  BY DEF IsFunction, Blocks
<1> QED BY <1>2, <1>3 DEF IsBr

\* An instruction: one that is a debug intrinsic uses nothing.
LEMMA InstructionFacts ==
    ASSUME IsFunction(fn), NEW b \in Blocks, NEW k \in DOMAIN fn.body[b]
    PROVE  /\ k \in Nat
           /\ fn.body[b][k].from \in Seq(Blocks)
           /\ fn.body[b][k].vals \in Seq(Values)
           /\ fn.body[b][k].op = "dbg" => fn.body[b][k].vals = <<>>
           /\ fn.body[b][k].op = "phi" =>
                 /\ Len(fn.body[b][k].from) = Len(fn.body[b][k].vals)
                 /\ \A p \in Blocks :
                      Cardinality({n \in DOMAIN fn.body[b][k].from : fn.body[b][k].from[n] = p})
                       = Cardinality({n \in DOMAIN fn.targets[p] : fn.targets[p][n] = b})
<1> DEFINE I == [op : STRING, vals : Seq(Values), from : Seq(DOMAIN fn.body)]
           i == fn.body[b][k]
<1>1. /\ fn.body \in Seq(Seq(I))
      /\ \A c \in DOMAIN fn.body : \A n \in DOMAIN fn.body[c] :
            LET j == fn.body[c][n]
            IN  /\ j.op = "dbg" => j.vals = <<>>
                /\ j.op = "phi" =>
                     /\ Len(j.from) = Len(j.vals)
                     /\ \A p \in DOMAIN fn.body :
                          Cardinality({m \in DOMAIN j.from : j.from[m] = p})
                           = Cardinality({m \in DOMAIN fn.targets[p] : fn.targets[p][m] = c})
  BY DEF IsFunction, Values
<1>2. /\ i.op = "dbg" => i.vals = <<>>
      /\ i.op = "phi" =>
           /\ Len(i.from) = Len(i.vals)
           /\ \A p \in DOMAIN fn.body :
                Cardinality({m \in DOMAIN i.from : i.from[m] = p})
                 = Cardinality({m \in DOMAIN fn.targets[p] : fn.targets[p][m] = b})
  BY <1>1 DEF Blocks
<1>3. fn.body[b] \in Seq(I)
  <2> HIDE DEF I
  <2> QED BY <1>1, ElementOfSeq, LenProperties DEF Blocks
<1>4. k \in Nat /\ i \in I
  <2> HIDE DEF I
  <2>1. DOMAIN fn.body[b] = 1..Len(fn.body[b]) /\ Len(fn.body[b]) \in Nat
    BY <1>3, LenProperties
  <2> QED BY <1>3, <2>1, ElementOfSeq
<1>5. i.from \in Seq(Blocks) /\ i.vals \in Seq(Values)
  BY <1>4 DEF Blocks
<1> QED BY <1>2, <1>4, <1>5 DEF Blocks

LEMMA PhiParts ==
    ASSUME NEW b, NEW pn
    PROVE  pn \in Phis(b) <=> \E k \in DOMAIN fn.body[b] : pn = <<b, k>> /\ fn.body[b][k].op = "phi"
BY DEF Phis

\* A PHI has a value for each of the edges into its block that the function had.
LEMMA PhiEntries ==
    ASSUME IsFunction(fn), NEW b \in Blocks, NEW pn \in Phis(b), NEW p \in Blocks
    PROVE  /\ Cardinality(EntriesFrom(pn, p))
               = Cardinality({n \in DOMAIN fn.targets[p] : fn.targets[p][n] = b})
           /\ EntriesFrom(pn, p) # {} <=> \E n \in DOMAIN fn.targets[p] : fn.targets[p][n] = b
<1> DEFINE F == {n \in DOMAIN fn.targets[p] : fn.targets[p][n] = b}
           E == EntriesFrom(pn, p)
<1>1. PICK k \in DOMAIN fn.body[b] : pn = <<b, k>> /\ fn.body[b][k].op = "phi"
  BY PhiParts
<1>2. Cardinality(E) = Cardinality(F)
  BY <1>1, InstructionFacts DEF EntriesFrom, Ins
<1>3. IsFiniteSet(F)
  <2>1. DOMAIN fn.targets[p] = 1..Len(fn.targets[p]) /\ Len(fn.targets[p]) \in Nat
    BY FunctionFacts, LenProperties
  <2> DEFINE n == Len(fn.targets[p])
  <2>2. F \subseteq 1..n
    BY <2>1
  <2>3. n \in Int
    BY <2>1
  <2> HIDE DEF F, n
  <2>4. IsFiniteSet(1..n)
    BY <2>3, FS_Interval
  <2> QED BY <2>2, <2>4, FS_Subset
<1>4. IsFiniteSet(E)
  <2> DEFINE from == fn.body[b][k].from
  <2>0. from \in Seq(Blocks)
    BY InstructionFacts
  <2>1. DOMAIN from = 1..Len(from) /\ Len(from) \in Nat
    BY <2>0, LenProperties
  <2>2. IsFiniteSet(1..Len(from))
    BY <2>1, FS_Interval
  <2>3. E \subseteq 1..Len(from)
    BY <1>1, <2>1 DEF EntriesFrom, Ins
  <2> HIDE DEF E, from
  <2> QED BY <2>2, <2>3, FS_Subset
<1>5. E = {} <=> F = {}
  <2> HIDE DEF E, F
  <2> QED BY <1>2, <1>3, <1>4, FS_EmptySet
<1> QED BY <1>2, <1>5

\* The value a PHI gets from p is one of its operands.
LEMMA IncomingIsOperand ==
    ASSUME IsFunction(fn), NEW b \in Blocks, NEW pn \in Phis(b), NEW p, EntriesFrom(pn, p) # {}
    PROVE  \E i \in EntriesFrom(pn, p) : /\ i \in DOMAIN Ins(pn).vals
                                         /\ IncomingValueForBlock(pn, p) = Ins(pn).vals[i]
<1> DEFINE E == EntriesFrom(pn, p)
<1>1. PICK k \in DOMAIN fn.body[b] : pn = <<b, k>> /\ fn.body[b][k].op = "phi"
  BY PhiParts
<1>2. Ins(pn) = fn.body[b][k]
  BY <1>1 DEF Ins
<1>3. Ins(pn).from \in Seq(Blocks) /\ Ins(pn).vals \in Seq(Values)
      /\ Len(Ins(pn).from) = Len(Ins(pn).vals)
  BY <1>1, <1>2, InstructionFacts
<1>4. DOMAIN Ins(pn).from = DOMAIN Ins(pn).vals /\ E \subseteq Nat /\ E \subseteq DOMAIN Ins(pn).from
  BY <1>3, LenProperties DEF EntriesFrom
<1>5. \E i \in E : \A j \in E : i <= j
  <2>1. E \in SUBSET Nat /\ E # {}
    BY <1>4
  <2> HIDE DEF E
  <2> QED BY <2>1, LeastExists
<1>6. IncomingValueForBlock(pn, p) = Ins(pn).vals[CHOOSE i \in E : \A j \in E : i <= j]
  BY DEF IncomingValueForBlock, EntriesFrom
<1>7. (CHOOSE i \in E : \A j \in E : i <= j) \in E
  <2> HIDE DEF E
  <2> QED BY <1>5
<1> QED BY <1>4, <1>6, <1>7

--------------------------------------------------------------------------------
(* What the listed blocks were merged into. *)

Into == {<<c, DeleteList[c]>> : c \in Listed}

\* The blocks that b was merged into, directly or through others, and that stay.
Roots(b) == ReachedOver(Blocks, Into, {b}) \ Listed

Rooted == \A b \in Blocks : \E r \in Blocks \ Listed : Roots(b) = {r}

LEMMA StandsForRoot ==
    ASSUME NEW b, NEW r, Roots(b) = {r}
    PROVE  StandsFor(b) = r
<1> DEFINE R == ReachedOver(Blocks, Into, {b})
<1>1. R \ Listed = {r}
  BY DEF Roots
<1>2. StandsFor(b) = CHOOSE q \in R : q \notin Listed
  BY DEF StandsFor, Into
<1> HIDE DEF R
<1> QED BY <1>1, <1>2

LEMMA StandsForStays ==
    ASSUME Rooted, NEW b \in Blocks
    PROVE  /\ StandsFor(b) \in Blocks \ Listed
           /\ Roots(b) = {StandsFor(b)}
           /\ b \notin Listed => StandsFor(b) = b
<1>1. PICK r \in Blocks \ Listed : Roots(b) = {r}
  BY DEF Rooted
<1>2. StandsFor(b) = r
  BY <1>1, StandsForRoot
<1>3. ASSUME b \notin Listed PROVE r = b
  <2>1. b \in ReachedOver(Blocks, Into, {b})
    BY StartReached
  <2> QED BY <1>1, <1>3, <2>1 DEF Roots
<1> QED BY <1>1, <1>2, <1>3

\* Along the edges E, r is the only block not in L that b leads to.
OnlyRoot(B, E, L, b, r) == ReachedOver(B, E, {b}) \ L = {r}
Extended(E, m, n) == E \cup {<<m, n>>}

\* One more edge, from a root m to another one: n replaces m.
LEMMA RootReplaced ==
    ASSUME NEW B, NEW E, NEW L, NEW m \in B, NEW n \in B, m \notin L, n \notin L, n # m,
           \A e \in E : e[1] \in L,
           NEW b \in B, NEW r, OnlyRoot(B, E, L, b, r)
    PROVE  OnlyRoot(B, Extended(E, m, n), L \cup {m}, b, IF r = m THEN n ELSE r)
<1> USE DEF OnlyRoot, Extended
<1> DEFINE F == E \cup {<<m, n>>}
           R == ReachedOver(B, E, {b})
           Q == ReachedOver(B, F, {b})
<1>1. R \subseteq Q /\ b \in R /\ R \subseteq B
  <2>1. E \subseteq F
    OBVIOUS
  <2> HIDE DEF F
  <2>2. R \subseteq Q
    BY <2>1, ReachedMonotone
  <2> QED BY <2>2, StartReached DEF ReachedOver
<1>2. \A e \in E : e[1] \in R /\ e[2] \in B => e[2] \in R
  BY StepReached
<1>3. \A S \in SUBSET B : b \in S /\ ClosedUnder(S, F) => Q \subseteq S
  BY ReachedLeast
<1>4. ClosedUnder(R, E)
  BY DEF ClosedUnder, ReachedOver
<1>5. m \in Q => n \in Q
  <2>1. <<m, n>> \in F
    OBVIOUS
  <2> HIDE DEF F
  <2> QED BY <2>1, StepReached
<1> HIDE DEF R, Q
<1>6. CASE r = m
  <2>1. m \in R
    BY <1>6 DEF R
  <2>2. ClosedUnder(R \cup {n}, F)
    BY <1>4 DEF ClosedUnder
  <2>3. Q \subseteq R \cup {n}
    BY <1>1, <1>3, <2>2
  <2>4. Q = R \cup {n}
    BY <1>1, <1>5, <2>1, <2>3
  <2> QED BY <1>6, <2>4 DEF R, Q
<1>7. CASE r # m
  <2>1. m \notin R
    BY <1>7 DEF R
  <2>2. ClosedUnder(R, F)
    BY <1>4, <2>1 DEF ClosedUnder
  <2>3. Q = R
    BY <1>1, <1>3, <2>2
  <2> QED BY <1>7, <2>1, <2>3 DEF R, Q
<1> QED BY <1>6, <1>7

--------------------------------------------------------------------------------
(* What is deleted is dead. *)

Types ==
    /\ fn \in Functions
    /\ DOMAIN targets = Blocks
    /\ \A b \in Blocks : targets[b] \in Seq(Blocks \ {1}) /\ Len(targets[b]) = Len(fn.targets[b])
    /\ Listed \subseteq Blocks \ {1} /\ \A b \in Listed : b < at
    /\ \A b \in Listed : DeleteList[b] \in Blocks \ {b}
    /\ at \in 1..(Len(fn.body) + 1)
    /\ done \in BOOLEAN

\* Nothing branches to a listed block.
Unreached == \A b \in Listed : Preds(b) = {}

DeadInv == Types /\ Unreached /\ Rooted

\* The block at is merged into BB2.
MergesInto(BB2) ==
    /\ at \in Blocks /\ at \notin Listed /\ at # 1 /\ IsBr(at)
    /\ BB2 \in Blocks /\ BB2 \notin Listed /\ BB2 # 1 /\ BB2 # at /\ IsBr(BB2)
    /\ targets[at][1] \in Blocks
    /\ targets[at] = <<targets[at][1]>> /\ targets[BB2] = <<targets[at][1]>>
    /\ \A v, w \in Phis(targets[at][1]) : v = w
    /\ Identical(at, BB2)
    /\ PhiAllows(targets[at][1], at, BB2)
    /\ updateBranchTargets(at, BB2)
    /\ Listed' = Listed \cup {at}
    /\ \A b \in Listed' : DeleteList'[b] = IF b = at THEN BB2 ELSE DeleteList[b]

LEMMA MergeFacts ==
    ASSUME Types, Merge
    PROVE  /\ \E BB2 \in Blocks : MergesInto(BB2)
           /\ fn' = fn /\ done' = done /\ at' = at + 1
<1>0. IsFunction(fn)
  BY DEF Types
<1>1. PICK BB2 \in MergeTargets(at) :
         /\ updateBranchTargets(at, BB2)
         /\ DeleteList' = [b \in Listed \cup {at} |-> IF b = at THEN BB2 ELSE DeleteList[b]]
  BY DEF Merge
<1>2. /\ MayErase(at) /\ MayRetain(at, BB2)
      /\ BB2 \in Preds(targets[at][1])
  BY <1>1 DEF MergeTargets
<1>3. at \in Blocks /\ fn' = fn /\ done' = done /\ at' = at + 1
  BY DEF Merge, Visiting
<1>4. BB2 \in Blocks /\ \E i \in DOMAIN targets[BB2] : targets[BB2][i] = targets[at][1]
  BY <1>2 DEF Preds
<1>5. IsBr(at) /\ IsBr(BB2) /\ BB2 # 1 /\ at # 1 /\ BB2 # at /\ BB2 \notin Listed
  BY <1>2 DEF MayErase, MayRetain
<1>6. at \notin Listed
  BY <1>0, <1>3, FunctionFacts DEF Types
<1>7. \A b \in {at, BB2} : targets[b] = <<targets[b][1]>> /\ DOMAIN targets[b] = {1} /\ targets[b][1] \in Blocks
  <2> SUFFICES ASSUME NEW b \in {at, BB2}
               PROVE  targets[b] = <<targets[b][1]>> /\ DOMAIN targets[b] = {1} /\ targets[b][1] \in Blocks
    OBVIOUS
  <2>1. targets[b] \in Seq(Blocks \ {1}) /\ Len(targets[b]) = 1
    BY <1>0, <1>3, <1>4, <1>5, FunctionFacts DEF Types
  <2> DEFINE t == targets[b]
             T == Blocks \ {1}
  <2>2. t \in Seq(T) /\ Len(t) = 1
    BY <2>1
  <2> HIDE DEF t, T
  <2>3. t = <<t[1]>> /\ DOMAIN t = {1} /\ t[1] \in T
    BY <2>2, SMTT(30)
  <2> QED BY <2>3 DEF t, T
<1>8. targets[BB2] = <<targets[at][1]>>
  BY <1>4, <1>7
<1>9. /\ \A v, w \in Phis(targets[at][1]) : v = w
      /\ Identical(at, BB2) /\ PhiAllows(targets[at][1], at, BB2)
  BY <1>2 DEF MayErase, MayRetain
<1>10. /\ Listed' = Listed \cup {at}
       /\ \A b \in Listed' : DeleteList'[b] = IF b = at THEN BB2 ELSE DeleteList[b]
  BY <1>1 DEF Listed
<1>11. MergesInto(BB2)
  BY <1>1, <1>3, <1>4, <1>5, <1>6, <1>7, <1>8, <1>9, <1>10 DEF MergesInto
<1> QED BY <1>3, <1>4, <1>11

\* A merge redirects every branch to the block and nothing else.
LEMMA Redirected ==
    ASSUME Types, NEW BB2 \in Blocks, MergesInto(BB2)
    PROVE  /\ DOMAIN targets' = Blocks
           /\ \A p \in Blocks : /\ targets'[p] \in Seq(Blocks \ {1})
                                /\ Len(targets'[p]) = Len(targets[p])
                                /\ DOMAIN targets'[p] = DOMAIN targets[p]
                                /\ \A i \in DOMAIN targets[p] :
                                      targets'[p][i] = IF targets[p][i] = at THEN BB2 ELSE targets[p][i]
<1>1. targets' = [p \in Blocks |-> [i \in DOMAIN targets[p] |->
                    IF targets[p][i] = at THEN BB2 ELSE targets[p][i]]]
  BY DEF MergesInto, updateBranchTargets
<1>2. ASSUME NEW p \in Blocks
      PROVE  /\ targets'[p] \in Seq(Blocks \ {1})
             /\ Len(targets'[p]) = Len(targets[p])
             /\ DOMAIN targets'[p] = DOMAIN targets[p]
             /\ \A i \in DOMAIN targets[p] :
                   targets'[p][i] = IF targets[p][i] = at THEN BB2 ELSE targets[p][i]
  <2> DEFINE t == targets[p]
             u == targets'[p]
             T == Blocks \ {1}
  <2>1. u = [i \in DOMAIN t |-> IF t[i] = at THEN BB2 ELSE t[i]]
    BY <1>1
  <2>2. t \in Seq(T) /\ BB2 \in T
    BY DEF Types, MergesInto
  <2> HIDE DEF t, u, T
  <2>3. DOMAIN t = 1..Len(t) /\ Len(t) \in Nat /\ \A i \in 1..Len(t) : t[i] \in T
    BY <2>2, LenProperties, ElementOfSeq
  <2>4. u \in [1..Len(t) -> T]
    BY <2>1, <2>2, <2>3
  <2>5. u \in Seq(T)
    BY <2>3, <2>4, SeqDef
  <2>6. Len(u) = Len(t)
    BY <2>3, <2>4, <2>5, LenProperties
  <2>7. DOMAIN u = DOMAIN t /\ \A i \in DOMAIN t : u[i] = IF t[i] = at THEN BB2 ELSE t[i]
    BY <2>1
  <2> QED BY <2>5, <2>6, <2>7 DEF t, u, T
<1> QED BY <1>1, <1>2

\* What stood for a block that stays, stands for it still; BB2 replaces at.
LEMMA StandsReplaced ==
    ASSUME Types, Rooted, NEW BB2 \in Blocks, MergesInto(BB2), fn' = fn
    PROVE  /\ Rooted'
           /\ \A b \in Blocks : StandsFor(b)' = IF StandsFor(b) = at THEN BB2 ELSE StandsFor(b)
<1>1. /\ at \in Blocks /\ at \notin Listed /\ BB2 \notin Listed /\ BB2 # at
      /\ Listed' = Listed \cup {at} /\ Blocks' = Blocks
      /\ \A b \in Listed' : DeleteList'[b] = IF b = at THEN BB2 ELSE DeleteList[b]
  BY DEF MergesInto, Blocks
<1>2. Into' = Into \cup {<<at, BB2>>}
  BY <1>1 DEF Into
<1>3. \A e \in Into : e[1] \in Listed
  BY DEF Into
<1>4. ASSUME NEW b \in Blocks
      PROVE  /\ \E r \in Blocks' \ Listed' : Roots(b)' = {r}
             /\ StandsFor(b)' = IF StandsFor(b) = at THEN BB2 ELSE StandsFor(b)
  <2> DEFINE r == StandsFor(b)
             q == IF r = at THEN BB2 ELSE r
             E == Into
             L == Listed
             B == Blocks
  <2>1. r \in B \ L /\ ReachedOver(B, E, {b}) \ L = {r}
    BY StandsForStays DEF Roots
  <2>2. Roots(b)' = ReachedOver(B, E \cup {<<at, BB2>>}, {b}) \ (L \cup {at})
    BY <1>1, <1>2 DEF Roots
  <2>3. at \in B /\ at \notin L /\ BB2 \in B /\ BB2 \notin L /\ BB2 # at /\ b \in B
        /\ \A e \in E : e[1] \in L
    BY <1>1, <1>3
  <2>4. q \in B \ (L \cup {at})
    BY <2>1, <2>3
  <2> HIDE DEF r, E, L, B
  <2>5. OnlyRoot(B, Extended(E, at, BB2), L \cup {at}, b, IF r = at THEN BB2 ELSE r)
    <3>1. at \in B /\ at \notin L /\ BB2 \in B /\ BB2 \notin L /\ BB2 # at /\ b \in B
      BY <2>3
    <3>2. \A e \in E : e[1] \in L
      BY <2>3
    <3>3. OnlyRoot(B, E, L, b, r)
      BY <2>1 DEF OnlyRoot
    <3> QED BY ONLY <3>1, <3>2, <3>3, RootReplaced
  <2> HIDE DEF q
  <2>6. Roots(b)' = {q}
    BY <2>2, <2>5 DEF q, OnlyRoot, Extended
  <2>7. StandsFor(b)' = q
    <3> DEFINE R == ReachedOver(Blocks', Into', {b})
    <3>1. R \ Listed' = {q}
      BY <2>6 DEF Roots
    <3>2. StandsFor(b)' = CHOOSE x \in R : x \notin Listed'
      BY DEF StandsFor, Into
    <3> HIDE DEF R
    <3> QED BY <3>1, <3>2
  <2>8. q \in Blocks' \ Listed'
    BY <1>1, <2>4 DEF B, L
  <2> QED BY <2>6, <2>7, <2>8 DEF q, r
<1> QED BY <1>1, <1>4 DEF Rooted

LEMMA InitDead == Init => DeadInv
<1> SUFFICES ASSUME Init PROVE DeadInv
  OBVIOUS
<1>1. /\ fn \in Functions /\ IsFunction(fn) /\ targets = fn.targets
      /\ Listed = {} /\ at = 1 /\ done = FALSE
  BY DEF Init, Listed
<1>2. Types
  <2>1. /\ Len(fn.body) \in Nat /\ DOMAIN fn.targets = Blocks
        /\ \A b \in Blocks : fn.targets[b] \in Seq(Blocks \ {1})
    BY <1>1, FunctionFacts
  <2>0. done \in BOOLEAN
    BY ONLY <1>1, Zenon
  <2>2. at \in 1..(Len(fn.body) + 1)
    <3> DEFINE n == Len(fn.body)
    <3>1. n \in Nat /\ at = 1
      BY <1>1, <2>1
    <3> HIDE DEF n
    <3>2. at \in 1..(n + 1)
      BY <3>1
    <3> QED BY <3>2 DEF n
  <2>3. DOMAIN targets = Blocks
    BY <1>1, <2>1
  <2>4. \A b \in Blocks : targets[b] \in Seq(Blocks \ {1}) /\ Len(targets[b]) = Len(fn.targets[b])
    BY <1>1, <2>1
  <2> QED BY <1>1, <2>0, <2>2, <2>3, <2>4 DEF Types
<1>3. Rooted
  <2> SUFFICES ASSUME NEW b \in Blocks
               PROVE  \E r \in Blocks \ Listed : Roots(b) = {r}
    BY DEF Rooted
  <2>1. ClosedUnder({b}, Into)
    BY <1>1 DEF ClosedUnder, Into
  <2>2. ReachedOver(Blocks, Into, {b}) = {b}
    BY <2>1, ReachedLeast, StartReached
  <2> QED BY <1>1, <2>2 DEF Roots
<1> QED BY <1>1, <1>2, <1>3 DEF DeadInv, Unreached

\* Every step keeps it.
LEMMA StepDead == DeadInv /\ [Next]_vars => DeadInv'
<1> SUFFICES ASSUME DeadInv, [Next]_vars PROVE DeadInv'
  OBVIOUS
<1>0. Types /\ Unreached /\ Rooted /\ IsFunction(fn)
  BY DEF DeadInv, Types
<1>1. CASE Merge
  <2>1. fn' = fn /\ done' = done /\ at' = at + 1
    BY <1>0, <1>1, MergeFacts
  <2>2. PICK BB2 \in Blocks : MergesInto(BB2)
    BY <1>0, <1>1, MergeFacts
  <2>3. /\ at \in Blocks /\ at \notin Listed /\ at # 1
        /\ BB2 \notin Listed /\ BB2 # at /\ Listed' = Listed \cup {at}
        /\ \A b \in Listed' : DeleteList'[b] = IF b = at THEN BB2 ELSE DeleteList[b]
    BY <2>2 DEF MergesInto
  <2>4. Blocks' = Blocks
    BY <2>1 DEF Blocks
  <2>5. /\ DOMAIN targets' = Blocks
        /\ \A p \in Blocks : /\ targets'[p] \in Seq(Blocks \ {1})
                             /\ Len(targets'[p]) = Len(targets[p])
                             /\ DOMAIN targets'[p] = DOMAIN targets[p]
                             /\ \A i \in DOMAIN targets[p] :
                                   targets'[p][i] = IF targets[p][i] = at THEN BB2 ELSE targets[p][i]
    BY <1>0, <2>2, Redirected
  <2>6. Types'
    <3>1. \A b \in Blocks : targets'[b] \in Seq(Blocks \ {1}) /\ Len(targets'[b]) = Len(fn.targets[b])
      BY <1>0, <2>5 DEF Types
    <3>2. /\ Listed' \subseteq Blocks \ {1} /\ \A b \in Listed' : b < at + 1
          /\ \A b \in Listed' : DeleteList'[b] \in Blocks \ {b}
          /\ at + 1 \in 1..(Len(fn.body) + 1)
      <4>1. /\ Len(fn.body) \in Nat /\ Blocks = 1..Len(fn.body)
            /\ Listed \subseteq Blocks \ {1} /\ \A b \in Listed : b < at
            /\ \A b \in Listed : DeleteList[b] \in Blocks \ {b}
        BY <1>0, FunctionFacts DEF Types
      <4>2. /\ at \in Nat /\ at < Len(fn.body) + 1 /\ Listed \subseteq Nat
        BY <2>3, <4>1
      <4>3. \A b \in Listed' : b < at + 1
        BY <2>3, <4>1, <4>2
      <4>4. \A b \in Listed' : DeleteList'[b] \in Blocks \ {b}
        BY <2>3, <4>1
      <4>5. at + 1 \in 1..(Len(fn.body) + 1)
        BY <4>1, <4>2
      <4> QED BY <2>3, <4>1, <4>3, <4>4, <4>5
    <3>3. fn \in Functions /\ done \in BOOLEAN
      BY <1>0 DEF Types
    <3> QED BY <2>1, <2>4, <2>5, <3>1, <3>2, <3>3 DEF Types
  <2>7. Unreached'
    <3> SUFFICES ASSUME NEW b \in Listed', NEW p \in Blocks, NEW i \in DOMAIN targets'[p]
                 PROVE  targets'[p][i] # b
      BY <2>4 DEF Unreached, Preds
    <3>1. i \in DOMAIN targets[p] /\ targets'[p][i] = IF targets[p][i] = at THEN BB2 ELSE targets[p][i]
      BY <2>5
    <3>2. \A c \in Listed : targets[p][i] # c
      BY <1>0, <3>1 DEF Unreached, Preds
    <3> QED BY <2>3, <3>1, <3>2
  <2>8. Rooted'
    BY <1>0, <2>1, <2>2, StandsReplaced
  <2> QED BY <2>6, <2>7, <2>8 DEF DeadInv
<1>2. CASE Keep \/ DeleteBlocks \/ UNCHANGED vars
  <2>1. /\ UNCHANGED <<fn, targets, DeleteList>>
        /\ at' = at \/ (at' = at + 1 /\ at \in Blocks)
        /\ done' = done \/ done' = TRUE
    BY <1>2 DEF Keep, DeleteBlocks, Visiting, vars
  <2>2. Listed' = Listed /\ Blocks' = Blocks
    BY <2>1 DEF Listed, Blocks
  <2>3. /\ at' \in 1..(Len(fn.body) + 1) /\ \A b \in Listed : b < at'
    BY <1>0, <2>1, FunctionFacts DEF Types
  <2>4. done' \in BOOLEAN
    BY <1>0, <2>1 DEF Types
  <2>5. Types'
    BY <1>0, <2>1, <2>2, <2>3, <2>4 DEF Types
  <2>6. Unreached' /\ Rooted'
    BY <1>0, <2>1, <2>2 DEF Unreached, Preds, Rooted, Roots, Into
  <2> QED BY <2>5, <2>6 DEF DeadInv
<1> QED BY <1>1, <1>2 DEF Next, Returned

LEMMA DeadInvariant == Spec => []DeadInv
BY InitDead, StepDead, PTL DEF Spec

\* TypeOK: branches lead to blocks, each has as many targets as it had, and what is
\* listed has been merged into another block (mergeDuplicatedBlock).
THEOREM TypeCorrect == Spec => []TypeOK
<1>1. DeadInv => TypeOK
  <2> SUFFICES ASSUME DeadInv PROVE TypeOK
    OBVIOUS
  <2>1. Types
    BY DEF DeadInv
  <2>2. \A b \in Blocks : targets[b] \in Seq(Blocks)
    <3> SUFFICES ASSUME NEW b \in Blocks PROVE targets[b] \in Seq(Blocks)
      OBVIOUS
    <3> DEFINE t == targets[b]
    <3>1. t \in Seq(Blocks \ {1})
      BY <2>1 DEF Types
    <3> HIDE DEF t
    <3>2. t \in Seq(Blocks)
      BY <3>1
    <3> QED BY <3>2 DEF t
  <2> QED BY <2>1, <2>2 DEF Types, TypeOK
<1> QED BY <1>1, DeadInvariant, PTL

\* DeletedAreDead: no branch leads to a block once it has been merged, and the block that
\* takes its place is never deleted itself, through any chain of merges; the blocks that
\* run() deletes are dead.
THEOREM Dead == Spec => []DeletedAreDead
<1>1. DeadInv => DeletedAreDead
  <2> SUFFICES ASSUME DeadInv, NEW b \in Listed
               PROVE  Preds(b) = {} /\ StandsFor(b) \in Blocks \ Listed
    BY DEF DeletedAreDead
  <2> QED BY StandsForStays DEF DeadInv, Unreached, Types
<1> QED BY <1>1, DeadInvariant, PTL

--------------------------------------------------------------------------------
(* Instructions in lockstep, and their uses. *)

LEMMA LockstepFacts ==
    ASSUME NEW b, NEW c, NEW f \in Lockstep(b, c)
    PROVE  /\ \A k \in NonDbg(b) : f[k] \in NonDbg(c)
           /\ \A i, j \in NonDbg(b) : i < j => f[i] < f[j]
           /\ \A j \in NonDbg(c) : \E i \in NonDbg(b) : f[i] = j
BY DEF Lockstep

LEMMA LockstepComposed ==
    ASSUME NEW b, NEW c, NEW d, NEW f \in Lockstep(b, c), NEW g \in Lockstep(c, d)
    PROVE  [k \in NonDbg(b) |-> g[f[k]]] \in Lockstep(b, d)
<1> DEFINE h == [k \in NonDbg(b) |-> g[f[k]]]
<1>1. h \in [NonDbg(b) -> NonDbg(d)]
  BY LockstepFacts
<1>2. \A i, j \in NonDbg(b) : i < j => h[i] < h[j]
  BY LockstepFacts
<1>3. ASSUME NEW j \in NonDbg(d)
      PROVE  \E i \in NonDbg(b) : h[i] = j
  <2>1. PICK m \in NonDbg(c) : g[m] = j
    BY LockstepFacts
  <2>2. PICK i \in NonDbg(b) : f[i] = m
    BY <2>1, LockstepFacts
  <2> QED BY <2>1, <2>2
<1> QED BY <1>1, <1>2, <1>3 DEF Lockstep

\* An operand is a use of its value.
LEMMA OperandIsUse ==
    ASSUME NEW b \in Blocks, NEW k \in DOMAIN fn.body[b], NEW i \in DOMAIN fn.body[b][k].vals
    PROVE  <<<<b, k>>, i>> \in Uses(fn.body[b][k].vals[i])
<1> DEFINE w == <<b, k>>
           v == fn.body[b][k].vals[i]
<1>1. w \in Instructions /\ Ins(w) = fn.body[b][k]
  BY DEF Instructions, Ins
<1>2. <<w, i>> \in {w} \X {n \in DOMAIN Ins(w).vals : Ins(w).vals[n] = v}
  BY <1>1
<1> HIDE DEF w, v
<1>3. <<w, i>> \in Uses(v)
  BY <1>1, <1>2 DEF Uses
<1> QED BY <1>3 DEF w, v

\* A use is an operand of an instruction that is not a debug intrinsic.
LEMMA UseIsOperand ==
    ASSUME IsFunction(fn), NEW v, NEW u \in Uses(v)
    PROVE  \E b \in Blocks : \E k \in NonDbg(b) : \E i \in DOMAIN fn.body[b][k].vals :
              u = <<<<b, k>>, i>> /\ fn.body[b][k].vals[i] = v
<1>1. PICK w \in Instructions : u \in {w} \X {i \in DOMAIN Ins(w).vals : Ins(w).vals[i] = v}
  BY DEF Uses
<1>2. PICK b \in Blocks : w \in {b} \X DOMAIN fn.body[b]
  BY DEF Instructions
<1>3. PICK k \in DOMAIN fn.body[b] : w = <<b, k>>
  BY <1>2
<1>4. PICK i \in DOMAIN fn.body[b][k].vals : u = <<<<b, k>>, i>> /\ fn.body[b][k].vals[i] = v
  BY <1>1, <1>3 DEF Ins
<1>5. fn.body[b][k].op # "dbg"
  <2> SUFFICES ASSUME fn.body[b][k].op = "dbg" PROVE FALSE
    OBVIOUS
  <2>1. fn.body[b][k].vals = <<>>
    BY InstructionFacts
  <2> QED BY <1>4, <2>1
<1>6. k \in NonDbg(b)
  BY <1>5 DEF NonDbg
<1> QED BY <1>4, <1>6

LEMMA OneUse ==
    ASSUME NEW v, HasOneUse(v), NEW u \in Uses(v), NEW w \in Uses(v)
    PROVE  u = w
BY DEF HasOneUse

\* A value with one use that may be removed is used by a PHI for the block that computes
\* it only.
LEMMA OnlyEntry ==
    ASSUME IsFunction(fn), NEW b \in Blocks, NEW k, HasOneUse(<<b, k>>), canRemoveInst(<<b, k>>),
           NEW s \in Blocks, s # b, NEW pn \in Phis(s), NEW c, EntriesFrom(pn, c) # {},
           IncomingValueForBlock(pn, c) = <<b, k>>
    PROVE  c = b
<1> DEFINE v == <<b, k>>
<1>1. PICK n \in DOMAIN fn.body[s] : pn = <<s, n>>
  BY PhiParts
<1>2. Ins(pn) = fn.body[s][n]
  BY <1>1 DEF Ins
<1>3. PICK i \in EntriesFrom(pn, c) : i \in DOMAIN fn.body[s][n].vals /\ fn.body[s][n].vals[i] = v
  BY <1>2, IncomingIsOperand
<1>4. <<pn, i>> \in Uses(v)
  BY <1>1, <1>3, OperandIsUse
<1>5. (CHOOSE u \in Uses(v) : TRUE) = <<pn, i>>
  <2>1. (CHOOSE u \in Uses(v) : TRUE) \in Uses(v)
    BY <1>4
  <2> HIDE DEF v
  <2>2. HasOneUse(v)
    BY DEF v
  <2> QED BY <1>4, <2>1, <2>2, OneUse
<1>6. IncomingValueForBlock(pn, b) = v
  <2>1. v[1] = b /\ pn[1] = s /\ <<pn, i>>[1] = pn
    BY <1>1
  <2>2. canRemoveInst(v)
    OBVIOUS
  <2> HIDE DEF v
  <2> DEFINE U == (CHOOSE u \in Uses(v) : TRUE)[1]
  <2>3. \/ U[1] = v[1]
        \/ Ins(U).op = "phi" /\ U[1] = targets[v[1]][1] /\ IncomingValueForBlock(U, v[1]) = v
    BY <2>2 DEF canRemoveInst
  <2>4. U = pn
    BY ONLY <1>5, <2>1, Zenon
  <2> HIDE DEF U
  <2> QED BY <2>1, <2>3, <2>4
<1>7. CASE EntriesFrom(pn, b) # {}
  <2>1. PICK j \in EntriesFrom(pn, b) : j \in DOMAIN fn.body[s][n].vals /\ fn.body[s][n].vals[j] = v
    BY <1>2, <1>6, <1>7, IncomingIsOperand
  <2>2. <<pn, j>> \in Uses(v)
    BY <1>1, <2>1, OperandIsUse
  <2>3. <<pn, i>> = <<pn, j>>
    BY <1>4, <2>2, OneUse
  <2> QED BY <1>3, <2>1, <2>3 DEF EntriesFrom
<1>8. CASE EntriesFrom(pn, b) = {}
  <2>1. IncomingValueForBlock(pn, b) = <<0, 0>>
    BY <1>8 DEF IncomingValueForBlock, EntriesFrom, NoValue
  <2>2. b # 0
    BY FunctionFacts
  <2> QED BY <1>6, <2>1, <2>2
<1> QED BY <1>7, <1>8

\* The instructions of at and BB2, walked in lockstep by f, can all be merged.
Mergeable(f, BB2) ==
    /\ f \in Lockstep(at, BB2)
    /\ \A k \in NonDbg(at) : canMergeInstructions(<<at, k>>, <<BB2, f[k]>>)

LEMMA MergeableUses ==
    ASSUME NEW BB2, NEW f, Mergeable(f, BB2), NEW k \in NonDbg(at)
    PROVE  \/ Uses(<<at, k>>) = {} /\ Uses(<<BB2, f[k]>>) = {}
           \/ /\ HasOneUse(<<at, k>>) /\ HasOneUse(<<BB2, f[k]>>)
              /\ canRemoveInst(<<at, k>>) /\ canRemoveInst(<<BB2, f[k]>>)
<1> DEFINE v == <<at, k>>
           w == <<BB2, f[k]>>
<1>1. canMergeInstructions(v, w)
  BY DEF Mergeable
<1> HIDE DEF v, w
<1>2. \/ Uses(v) = {} /\ Uses(w) = {}
      \/ HasOneUse(v) /\ HasOneUse(w) /\ canRemoveInst(v) /\ canRemoveInst(w)
  BY <1>1 DEF canMergeInstructions
<1> QED BY <1>2 DEF v, w

LEMMA MergeableCode ==
    ASSUME NEW BB2, NEW f, Mergeable(f, BB2)
    PROVE  SameCode(f, at, BB2)
<1> SUFFICES ASSUME NEW k \in NonDbg(at)
             PROVE  /\ fn.body[at][k].op = fn.body[BB2][f[k]].op
                    /\ fn.body[at][k].vals = fn.body[BB2][f[k]].vals
  BY DEF SameCode
<1> DEFINE v == <<at, k>>
           w == <<BB2, f[k]>>
<1>1. canMergeInstructions(v, w)
  BY DEF Mergeable
<1>2. Ins(v) = fn.body[at][k] /\ Ins(w) = fn.body[BB2][f[k]]
  BY DEF Ins
<1> HIDE DEF v, w
<1>3. Ins(v).op = Ins(w).op /\ Ins(v).vals = Ins(w).vals
  BY <1>1 DEF canMergeInstructions
<1> QED BY <1>2, <1>3

\* A block without PHIs is not merged into one with PHIs.
LEMMA NoPhiEither ==
    ASSUME NEW BB2, NEW f, Mergeable(f, BB2), Phis(at) = {}
    PROVE  Phis(BB2) = {}
<1> SUFFICES ASSUME NEW pn \in Phis(BB2) PROVE FALSE
  OBVIOUS
<1>1. PICK j \in DOMAIN fn.body[BB2] : fn.body[BB2][j].op = "phi"
  BY PhiParts
<1>2. j \in NonDbg(BB2)
  BY <1>1 DEF NonDbg
<1>3. PICK k \in NonDbg(at) : f[k] = j
  BY <1>2, LockstepFacts DEF Mergeable
<1>4. fn.body[at][k].op = "phi" /\ k \in DOMAIN fn.body[at]
  <2>1. fn.body[at][k].op = fn.body[BB2][f[k]].op
    BY MergeableCode DEF SameCode
  <2> QED BY <1>1, <1>3, <2>1 DEF NonDbg
<1>5. <<at, k>> \in Phis(at)
  BY <1>4, PhiParts
<1> QED BY <1>5

\* The instruction of at whose value a PHI gets from some block: it has one use, and may be
\* removed.
LEMMA PhiOperand ==
    ASSUME IsFunction(fn), NEW BB2, NEW f, Mergeable(f, BB2),
           NEW s \in Blocks, NEW pn \in Phis(s), NEW c, EntriesFrom(pn, c) # {},
           NEW k \in NonDbg(at), IncomingValueForBlock(pn, c) = <<at, k>>
    PROVE  /\ HasOneUse(<<at, k>>) /\ HasOneUse(<<BB2, f[k]>>)
           /\ canRemoveInst(<<at, k>>) /\ canRemoveInst(<<BB2, f[k]>>)
<1>1. PICK n \in DOMAIN fn.body[s] : pn = <<s, n>>
  BY PhiParts
<1>2. Ins(pn) = fn.body[s][n]
  BY <1>1 DEF Ins
<1>3. PICK i \in DOMAIN fn.body[s][n].vals : fn.body[s][n].vals[i] = <<at, k>>
  BY <1>2, IncomingIsOperand
<1>4. Uses(<<at, k>>) # {}
  BY <1>3, OperandIsUse
<1> QED BY <1>4, MergeableUses

\* What PhiAllows lets a PHI get from the two blocks is the value computed in lockstep: an
\* instruction of BB2 whose one use is in BB2 is not the counterpart of one that the PHI
\* uses, because the user's counterpart has the same operands.
LEMMA MergedValue ==
    ASSUME IsFunction(fn), NEW BB2 \in Blocks, MergesInto(BB2), NEW f, Mergeable(f, BB2),
           NEW pn \in Phis(targets[at][1]),
           EntriesFrom(pn, at) # {}, EntriesFrom(pn, BB2) # {}
    PROVE  SameValue(f, pn, at, BB2)
<1> DEFINE s == targets[at][1]
<1>0. /\ at \in Blocks /\ BB2 # at /\ s \in Blocks /\ targets[BB2] = <<s>>
      /\ \A v, w \in Phis(s) : v = w
      /\ PhiAllows(s, at, BB2)
  BY DEF MergesInto
<1> HIDE DEF s
<1>1. pn \in Phis(s)
  BY DEF s
<1>2. CASE IncomingValueForBlock(pn, at) = IncomingValueForBlock(pn, BB2)
  BY <1>2 DEF SameValue
<1>3. CASE IncomingValueForBlock(pn, at) # IncomingValueForBlock(pn, BB2)
  <2>1. IncomingValueForBlock(pn, at)[1] = at /\ IncomingValueForBlock(pn, BB2)[1] = BB2
    BY <1>0, <1>1, <1>3 DEF PhiAllows
  <2>2. ASSUME NEW c \in Blocks, EntriesFrom(pn, c) # {}, IncomingValueForBlock(pn, c)[1] = c
        PROVE  \E k \in NonDbg(c) : IncomingValueForBlock(pn, c) = <<c, k>>
    <3>1. PICK n \in DOMAIN fn.body[s] : pn = <<s, n>>
      BY <1>1, PhiParts
    <3>2. Ins(pn) = fn.body[s][n]
      BY <3>1 DEF Ins
    <3>3. PICK i \in DOMAIN fn.body[s][n].vals : IncomingValueForBlock(pn, c) = fn.body[s][n].vals[i]
      BY <1>0, <1>1, <2>2, <3>2, IncomingIsOperand
    <3>4. fn.body[s][n].vals \in Seq(Values)
      BY <1>0, InstructionFacts
    <3> DEFINE t == fn.body[s][n].vals
    <3>5. t[i] \in Values
      <4>1. t \in Seq(Values) /\ i \in DOMAIN t
        BY <3>4
      <4> HIDE DEF t
      <4> QED BY <4>1
    <3>6. c # 0
      BY <2>2, FunctionFacts
    <3>7. t[i][1] = c
      BY <2>2, <3>3
    <3> HIDE DEF t
    <3>8. PICK b \in Blocks : t[i] \in {b} \X {k \in DOMAIN fn.body[b] : fn.body[b][k].op # "dbg"}
      BY <3>5, <3>6, <3>7 DEF Values, Blocks
    <3>9. \E k \in NonDbg(c) : t[i] = <<c, k>>
      BY <3>7, <3>8 DEF NonDbg
    <3> QED BY <3>3, <3>9 DEF t
  <2>3. PICK k \in NonDbg(at) : IncomingValueForBlock(pn, at) = <<at, k>>
    BY <1>0, <2>1, <2>2
  <2>4. PICK j \in NonDbg(BB2) : IncomingValueForBlock(pn, BB2) = <<BB2, j>>
    BY <2>1, <2>2
  <2> DEFINE w == <<BB2, f[k]>>
  <2>5. HasOneUse(w) /\ canRemoveInst(w)
    BY <1>0, <1>1, <2>3, PhiOperand
  <2>6. PICK u \in Uses(w) : u = (CHOOSE x \in Uses(w) : TRUE)
    <3> HIDE DEF w
    <3> QED BY <2>5 DEF HasOneUse
  <2>7. \/ u[1][1] = BB2
        \/ Ins(u[1]).op = "phi" /\ u[1][1] = s /\ IncomingValueForBlock(u[1], BB2) = w
    <3>1. w[1] = BB2 /\ targets[BB2][1] = s
      BY <1>0
    <3> HIDE DEF w
    <3> QED BY <2>5, <2>6, <3>1 DEF canRemoveInst
  <2>81. PICK b \in Blocks : \E m \in NonDbg(b) : \E i \in DOMAIN fn.body[b][m].vals :
            u = <<<<b, m>>, i>> /\ fn.body[b][m].vals[i] = w
    BY <2>6, UseIsOperand
  <2>82. PICK m \in NonDbg(b) : \E i \in DOMAIN fn.body[b][m].vals :
            u = <<<<b, m>>, i>> /\ fn.body[b][m].vals[i] = w
    BY <2>81
  <2>8. PICK i \in DOMAIN fn.body[b][m].vals :
            u = <<<<b, m>>, i>> /\ fn.body[b][m].vals[i] = w
    BY <2>82
  <2>9. CASE b = BB2
    <3>1. PICK n \in NonDbg(at) : f[n] = m
      BY <2>8, <2>9, LockstepFacts DEF Mergeable
    <3>2. fn.body[at][n].vals = fn.body[BB2][m].vals
      <4>1. fn.body[at][n].vals = fn.body[BB2][f[n]].vals
        BY MergeableCode DEF SameCode
      <4> QED BY <3>1, <4>1
    <3>3. n \in DOMAIN fn.body[at] /\ i \in DOMAIN fn.body[at][n].vals /\ fn.body[at][n].vals[i] = w
      BY <2>8, <2>9, <3>2 DEF NonDbg
    <3>4. <<<<at, n>>, i>> \in Uses(w)
      BY <1>0, <3>3, OperandIsUse
    <3>5. <<<<at, n>>, i>> = u
      BY <2>5, <2>6, <3>4, OneUse
    <3> QED BY <1>0, <2>8, <2>9, <3>5
  <2>10. CASE b # BB2
    <3>1. u[1] = <<b, m>> /\ u[1][1] = b
      BY <2>8
    <3>2. Ins(u[1]).op = "phi" /\ b = s /\ IncomingValueForBlock(u[1], BB2) = w
      BY <2>7, <2>10, <3>1
    <3>3. m \in DOMAIN fn.body[s] /\ fn.body[s][m].op = "phi"
      BY <3>1, <3>2 DEF NonDbg, Ins
    <3>4. u[1] \in Phis(s)
      BY <3>1, <3>2, <3>3, PhiParts
    <3>5. u[1] = pn
      BY <1>0, <1>1, <3>4
    <3>6. <<BB2, j>> = w
      BY <2>4, <3>2, <3>5
    <3>7. j = f[k]
      BY <3>6
    <3> QED BY <2>3, <2>4, <3>7 DEF SameValue
  <2> QED BY <2>9, <2>10
<1> QED BY <1>2, <1>3

\* The same through another block that was merged into at: the values of at that a PHI
\* uses, it uses for at only.
LEMMA ComposedValue ==
    ASSUME IsFunction(fn), NEW BB2 \in Blocks, NEW g, Mergeable(g, BB2), at \in Blocks, BB2 # at,
           NEW b \in Blocks, b # at, NEW f \in Lockstep(b, at),
           NEW s \in Blocks, s # at, NEW pn \in Phis(s),
           EntriesFrom(pn, b) # {}, EntriesFrom(pn, at) # {}, EntriesFrom(pn, BB2) # {},
           SameValue(f, pn, b, at), SameValue(g, pn, at, BB2)
    PROVE  SameValue([k \in NonDbg(b) |-> g[f[k]]], pn, b, BB2)
<1> DEFINE V(c) == IncomingValueForBlock(pn, c)
           h == [k \in NonDbg(b) |-> g[f[k]]]
<1>1. ASSUME NEW c, c # at, EntriesFrom(pn, c) # {}, NEW k \in NonDbg(at), V(c) = <<at, k>>
      PROVE  FALSE
  <2>1. HasOneUse(<<at, k>>) /\ canRemoveInst(<<at, k>>)
    BY <1>1, PhiOperand
  <2> QED BY <1>1, <2>1, OnlyEntry
<1>2. \A k \in NonDbg(b) : f[k] \in NonDbg(at) /\ h[k] = g[f[k]]
  BY LockstepFacts
<1>3. V(b) = V(at) \/ \E k \in NonDbg(b) : V(b) = <<b, k>> /\ V(at) = <<at, f[k]>>
  BY DEF SameValue
<1>4. V(at) = V(BB2) \/ \E k \in NonDbg(at) : V(at) = <<at, k>> /\ V(BB2) = <<BB2, g[k]>>
  BY DEF SameValue
<1>5. V(b) = V(BB2) \/ \E k \in NonDbg(b) : V(b) = <<b, k>> /\ V(BB2) = <<BB2, h[k]>>
  <2> HIDE DEF V, h
  <2>1. CASE V(b) = V(at)
    <3>1. CASE V(at) = V(BB2)
      BY <2>1, <3>1
    <3>2. ASSUME NEW k \in NonDbg(at), V(at) = <<at, k>> PROVE FALSE
      BY <1>1, <2>1, <3>2
    <3> QED BY <1>4, <3>1, <3>2
  <2>2. ASSUME NEW k \in NonDbg(b), V(b) = <<b, k>>, V(at) = <<at, f[k]>>
        PROVE  \E m \in NonDbg(b) : V(b) = <<b, m>> /\ V(BB2) = <<BB2, h[m]>>
    <3>1. V(at) # V(BB2)
      BY <1>1, <1>2, <2>2
    <3>2. PICK m \in NonDbg(at) : V(at) = <<at, m>> /\ V(BB2) = <<BB2, g[m]>>
      BY <1>4, <3>1
    <3>3. m = f[k]
      BY <2>2, <3>2
    <3> QED BY <1>2, <2>2, <3>2, <3>3
  <2> QED BY <1>3, <2>1, <2>2
<1> QED BY <1>5 DEF SameValue

--------------------------------------------------------------------------------
(* The function does what it did. *)

\* No block that is merged has a PHI.
NoPhiMerged == \A b \in Listed : Phis(b) = {}

\* The edges into a block with a PHI are the ones the function had.
PhiEdges ==
    \A s \in Blocks : Phis(s) # {} =>
        \A p \in Blocks : \A i \in DOMAIN targets[p] : targets[p][i] = s <=> fn.targets[p][i] = s

\* r does what b does.
Replaces(r, b) ==
    /\ fn.kind[b] = fn.kind[r]
    /\ \E f \in Lockstep(b, r) :
          /\ SameCode(f, b, r)
          /\ \A s \in Blocks : \A pn \in Phis(s) :
                EntriesFrom(pn, b) # {} => SameValue(f, pn, b, r)

LEMMA SameTargetDomains ==
    ASSUME Types, NEW b \in Blocks
    PROVE  DOMAIN targets[b] = DOMAIN fn.targets[b]
<1>0. IsFunction(fn)
  BY DEF Types
<1> DEFINE t == targets[b]
           u == fn.targets[b]
           T == Blocks \ {1}
<1>1. t \in Seq(T) /\ u \in Seq(T) /\ Len(t) = Len(u)
  BY <1>0, FunctionFacts DEF Types
<1> HIDE DEF t, u, T
<1>2. DOMAIN t = DOMAIN u
  BY <1>1, LenProperties
<1> QED BY <1>2 DEF t, u

\* BB2 does what the blocks do that at stood for.
LEMMA MergeReplaces ==
    ASSUME Types, Rooted, PhiEdges, SameBehaviour, NEW BB2 \in Blocks, MergesInto(BB2),
           \A b \in Listed \cup {at} : Phis(b) = {},
           NEW b \in Blocks, StandsFor(b) = at
    PROVE  Replaces(BB2, b)
<1>0. IsFunction(fn)
  BY DEF Types
<1> DEFINE t == targets[at][1]
<1>1. /\ at \in Blocks /\ at \notin Listed /\ BB2 # at /\ t \in Blocks
      /\ targets[at] = <<t>> /\ targets[BB2] = <<t>> /\ IsBr(at) /\ IsBr(BB2)
      /\ Identical(at, BB2)
  BY DEF MergesInto
<1>2. PICK g : Mergeable(g, BB2)
  BY <1>1 DEF Identical, Mergeable
<1>3. Phis(at) = {} /\ Phis(BB2) = {}
  BY <1>2, NoPhiEither
<1>4. targets[at] = [i \in DOMAIN fn.targets[b] |-> StandsFor(fn.targets[b][i])]
  BY DEF SameBehaviour
<1>5. \A s \in Blocks : \A pn \in Phis(s) : EntriesFrom(pn, b) # {} =>
          s = t /\ EntriesFrom(pn, at) # {} /\ EntriesFrom(pn, BB2) # {}
  <2> SUFFICES ASSUME NEW s \in Blocks, NEW pn \in Phis(s), EntriesFrom(pn, b) # {}
               PROVE  s = t /\ EntriesFrom(pn, at) # {} /\ EntriesFrom(pn, BB2) # {}
    OBVIOUS
  <2>1. PICK n \in DOMAIN fn.targets[b] : fn.targets[b][n] = s
    BY <1>0, PhiEntries
  <2>2. n \in DOMAIN targets[at] /\ targets[at][n] = StandsFor(s)
    BY <1>4, <2>1
  <2>3. StandsFor(s) = s
    BY StandsForStays
  <2>4. n = 1 /\ s = t
    BY <1>1, <2>2, <2>3
  <2>5. ASSUME NEW p \in {at, BB2} PROVE EntriesFrom(pn, p) # {}
    <3>1. p \in Blocks /\ 1 \in DOMAIN targets[p] /\ targets[p][1] = s
      BY <1>1, <2>4
    <3>2. 1 \in DOMAIN fn.targets[p]
      BY <3>1, SameTargetDomains
    <3>3. fn.targets[p][1] = s
      BY <3>1 DEF PhiEdges
    <3> QED BY <1>0, <3>1, <3>2, <3>3, PhiEntries
  <2> QED BY <2>4, <2>5
<1>6. \A pn \in Phis(t) : EntriesFrom(pn, at) # {} /\ EntriesFrom(pn, BB2) # {} =>
          SameValue(g, pn, at, BB2)
  BY <1>0, <1>2, MergedValue
<1>7. SameCode(g, at, BB2) /\ g \in Lockstep(at, BB2)
  BY <1>2, MergeableCode DEF Mergeable
<1> HIDE DEF t
<1>8. CASE b = at
  <2>1. \A s \in Blocks : \A pn \in Phis(s) : EntriesFrom(pn, b) # {} => SameValue(g, pn, b, BB2)
    BY <1>5, <1>6, <1>8
  <2> QED BY <1>1, <1>7, <1>8, <2>1 DEF Replaces, IsBr
<1>9. CASE b # at
  <2>1. Replaces(at, b)
    BY <1>9 DEF SameBehaviour, Replaces
  <2>2. PICK f \in Lockstep(b, at) :
           /\ SameCode(f, b, at)
           /\ \A s \in Blocks : \A pn \in Phis(s) : EntriesFrom(pn, b) # {} => SameValue(f, pn, b, at)
    BY <2>1 DEF Replaces
  <2> DEFINE h == [k \in NonDbg(b) |-> g[f[k]]]
  <2>3. h \in Lockstep(b, BB2)
    BY <1>7, LockstepComposed
  <2>4. SameCode(h, b, BB2)
    <3>1. \A k \in NonDbg(b) : f[k] \in NonDbg(at) /\ h[k] = g[f[k]]
      BY LockstepFacts
    <3> HIDE DEF h
    <3> QED BY <1>7, <2>2, <3>1 DEF SameCode
  <2>5. ASSUME NEW s \in Blocks, NEW pn \in Phis(s), EntriesFrom(pn, b) # {}
        PROVE  SameValue(h, pn, b, BB2)
    <3>1. s = t /\ EntriesFrom(pn, at) # {} /\ EntriesFrom(pn, BB2) # {} /\ s # at
      BY <1>3, <1>5, <2>5
    <3>2. SameValue(f, pn, b, at) /\ SameValue(g, pn, at, BB2)
      BY <1>6, <2>2, <2>5, <3>1
    <3> QED BY <1>0, <1>1, <1>2, <1>9, <2>5, <3>1, <3>2, ComposedValue
  <2>6. fn.kind[b] = fn.kind[BB2]
    BY <1>1, <2>1 DEF Replaces, IsBr
  <2> HIDE DEF h
  <2> QED BY <2>3, <2>4, <2>5, <2>6 DEF Replaces
<1> QED BY <1>8, <1>9

BehaviourInv == DeadInv /\ PhiEdges /\ SameBehaviour

LEMMA InitBehaviour == Init => BehaviourInv
<1> SUFFICES ASSUME Init PROVE BehaviourInv
  OBVIOUS
<1>1. DeadInv
  BY InitDead
<1>2. targets = fn.targets /\ Listed = {} /\ IsFunction(fn)
  BY DEF Init, Listed
<1>3. PhiEdges
  BY <1>2 DEF PhiEdges
<1>4. \A b \in Blocks : StandsFor(b) = b
  BY <1>1, <1>2, StandsForStays DEF DeadInv
<1>5. SameBehaviour
  <2> SUFFICES ASSUME NEW b \in Blocks
               PROVE  targets[b] = [i \in DOMAIN fn.targets[b] |-> StandsFor(fn.targets[b][i])]
    BY <1>4 DEF SameBehaviour
  <2> DEFINE t == fn.targets[b]
             T == Blocks \ {1}
  <2>1. t \in Seq(T)
    BY <1>2, FunctionFacts
  <2>2. \A x \in T : StandsFor(x) = x
    BY <1>4
  <2> HIDE DEF t, T
  <2>3. t = [i \in DOMAIN t |-> StandsFor(t[i])]
    BY <2>1, <2>2
  <2> QED BY <1>2, <2>3 DEF t
<1> QED BY <1>1, <1>3, <1>5 DEF BehaviourInv

\* Every step keeps it, unless it merges a block with a PHI.
LEMMA StepBehaviour == BehaviourInv /\ [Next]_vars /\ NoPhiMerged' => BehaviourInv'
<1> SUFFICES ASSUME BehaviourInv, [Next]_vars, NoPhiMerged' PROVE BehaviourInv'
  OBVIOUS
<1>0. /\ DeadInv /\ Types /\ Rooted /\ PhiEdges /\ SameBehaviour /\ IsFunction(fn)
      /\ DeadInv'
  BY StepDead DEF BehaviourInv, DeadInv, Types
<1>1. CASE Merge
  <2>1. fn' = fn /\ Blocks' = Blocks
    BY <1>0, <1>1, MergeFacts DEF Blocks
  <2>2. PICK BB2 \in Blocks : MergesInto(BB2)
    BY <1>0, <1>1, MergeFacts
  <2>3. /\ at \in Blocks /\ BB2 # at /\ Listed' = Listed \cup {at} /\ Identical(at, BB2)
        /\ targets[BB2] = targets[at]
    BY <2>2 DEF MergesInto
  <2>4. \A b \in Listed \cup {at} : Phis(b) = {}
    <3>1. \A b \in Listed' : Phis(b)' = {}
      BY DEF NoPhiMerged
    <3>2. \A b : Phis(b)' = Phis(b)
      BY <2>1 DEF Phis
    <3> QED BY <2>3, <3>1, <3>2
  <2>5. Phis(BB2) = {} /\ Phis(at) = {}
    <3>1. PICK g : Mergeable(g, BB2)
      BY <2>3 DEF Identical, Mergeable
    <3> QED BY <2>4, <3>1, NoPhiEither
  <2>6. \A p \in Blocks : /\ DOMAIN targets'[p] = DOMAIN targets[p]
                         /\ \A i \in DOMAIN targets[p] :
                               targets'[p][i] = IF targets[p][i] = at THEN BB2 ELSE targets[p][i]
    BY <1>0, <2>2, Redirected
  <2>7. PhiEdges'
    <3> SUFFICES ASSUME NEW s \in Blocks, Phis(s) # {}, NEW p \in Blocks, NEW i \in DOMAIN targets'[p]
                 PROVE  targets'[p][i] = s <=> fn.targets[p][i] = s
      BY <2>1 DEF PhiEdges, Phis
    <3>1. s # at /\ s # BB2
      BY <2>5
    <3>2. i \in DOMAIN targets[p] /\ targets'[p][i] = IF targets[p][i] = at THEN BB2 ELSE targets[p][i]
      BY <2>6
    <3>3. targets[p][i] = s <=> fn.targets[p][i] = s
      BY <1>0, <3>2 DEF PhiEdges
    <3> QED BY <3>1, <3>2, <3>3
  <2>8. ASSUME NEW b \in Blocks, NEW r, r = StandsFor(b), NEW q, q = StandsFor(b)'
        PROVE  /\ targets'[q] = [i \in DOMAIN fn.targets[b] |-> StandsFor(fn.targets[b][i])']
               /\ b # q => Replaces(q, b)
    <3>1. q = IF r = at THEN BB2 ELSE r
      BY <1>0, <2>1, <2>2, <2>8, StandsReplaced
    <3>2. r \in Blocks /\ q \in Blocks
      BY <1>0, <2>8, <3>1, StandsForStays
    <3>3. /\ targets[r] = [i \in DOMAIN fn.targets[b] |-> StandsFor(fn.targets[b][i])]
          /\ b # r => Replaces(r, b)
      BY <1>0, <2>8 DEF SameBehaviour, Replaces
    <3>4. targets[q] = targets[r]
      BY <2>3, <3>1
    <3>5. \A i \in DOMAIN fn.targets[b] :
             StandsFor(fn.targets[b][i])' = IF StandsFor(fn.targets[b][i]) = at THEN BB2
                                            ELSE StandsFor(fn.targets[b][i])
      <4> SUFFICES ASSUME NEW i \in DOMAIN fn.targets[b]
                   PROVE  StandsFor(fn.targets[b][i])' = IF StandsFor(fn.targets[b][i]) = at THEN BB2
                                                         ELSE StandsFor(fn.targets[b][i])
        OBVIOUS
      <4>1. fn.targets[b][i] \in Blocks
        <5> DEFINE t == fn.targets[b]
        <5>1. t \in Seq(Blocks \ {1})
          BY <1>0, FunctionFacts
        <5> HIDE DEF t
        <5>2. \A j \in DOMAIN t : t[j] \in Blocks
          BY <5>1
        <5> QED BY <5>2 DEF t
      <4>2. fn.targets[b][i]' = fn.targets[b][i]
        BY <2>1
      <4> QED BY <1>0, <2>1, <2>2, <4>1, <4>2, StandsReplaced
    <3>6. targets'[q] = [i \in DOMAIN fn.targets[b] |-> StandsFor(fn.targets[b][i])']
      <4>1. targets'[q] = [i \in DOMAIN targets[q] |-> IF targets[q][i] = at THEN BB2 ELSE targets[q][i]]
        BY <2>2, <3>2 DEF MergesInto, updateBranchTargets
      <4> QED BY <3>3, <3>4, <3>5, <4>1
    <3>7. ASSUME b # q PROVE Replaces(q, b)
      <4>1. CASE r = at
        BY <1>0, <2>2, <2>4, <2>8, <3>1, <4>1, MergeReplaces
      <4>2. CASE r # at
        BY <3>1, <3>3, <3>7, <4>2
      <4> QED BY <4>1, <4>2
    <3> QED BY <3>6, <3>7
  <2>9. SameBehaviour'
    <3>1. \A b, r : Replaces(r, b)' <=> Replaces(r, b)
      BY <2>1 DEF Replaces, Lockstep, NonDbg, SameCode, SameValue, Phis, EntriesFrom,
                  IncomingValueForBlock, Ins, NoValue, Blocks
    <3> QED BY <2>1, <2>8, <3>1 DEF SameBehaviour, Replaces
  <2> QED BY <1>0, <2>7, <2>9 DEF BehaviourInv
<1>2. CASE Keep \/ DeleteBlocks \/ UNCHANGED vars
  <2>1. UNCHANGED <<fn, targets, DeleteList>>
    BY <1>2 DEF Keep, DeleteBlocks, vars
  <2>2. PhiEdges'
    BY <1>0, <2>1 DEF PhiEdges, Phis, Blocks
  <2>3. SameBehaviour'
    <3>1. \A b, r : Replaces(r, b)' <=> Replaces(r, b)
      BY <2>1 DEF Replaces, Lockstep, NonDbg, SameCode, SameValue, Phis, EntriesFrom,
                  IncomingValueForBlock, Ins, NoValue, Blocks
    <3>2. \A b : StandsFor(b)' = StandsFor(b)
      BY <2>1 DEF StandsFor, Listed, Blocks
    <3>3. Blocks' = Blocks
      BY <2>1 DEF Blocks
    <3>4. ASSUME NEW b \in Blocks, NEW r, r = StandsFor(b)
          PROVE  /\ targets[r] = [i \in DOMAIN fn.targets[b] |-> StandsFor(fn.targets[b][i])]
                 /\ b # r => Replaces(r, b)
      BY <1>0, <3>4 DEF SameBehaviour, Replaces
    <3> QED BY <2>1, <3>1, <3>2, <3>3, <3>4 DEF SameBehaviour, Replaces
  <2> QED BY <1>0, <2>2, <2>3 DEF BehaviourInv
<1> QED BY <1>1, <1>2 DEF Next, Returned

LEMMA BehaviourInvariant == Spec /\ []NoPhiMerged => []BehaviourInv
BY InitBehaviour, StepBehaviour, PTL DEF Spec

\* SameBehaviour: whatever blocks are merged in whatever order, into blocks that are merged
\* later or whose own predecessors have just been redirected, the block that stands for
\* one does what it did (mergeDuplicatedBlock).  The premise is needed: a PHI at the head of a
\* merged block loses its entry.
THEOREM BehaviourKept == Spec /\ []NoPhiMerged => []SameBehaviour
<1>1. BehaviourInv => SameBehaviour
  BY DEF BehaviourInv
<1> QED BY <1>1, BehaviourInvariant, PTL

\* PhisMatchEdges: in the function that is returned every PHI has an entry for each edge
\* ("It is safe to de-duplicate"), as long as no block with a PHI is merged.
THEOREM PhisMatch == Spec /\ []NoPhiMerged => []PhisMatchEdges
<1>1. BehaviourInv => PhisMatchEdges
  <2> SUFFICES ASSUME BehaviourInv, NEW b \in Blocks, NEW pn \in Phis(b), NEW p \in Blocks
               PROVE  Cardinality(EntriesFrom(pn, p)) = Cardinality(EdgesTo(p, b))
    BY DEF PhisMatchEdges
  <2>1. Types /\ IsFunction(fn) /\ PhiEdges
    BY DEF BehaviourInv, DeadInv, Types
  <2>2. DOMAIN targets[p] = DOMAIN fn.targets[p]
    BY <2>1, SameTargetDomains
  <2>3. \A i \in DOMAIN targets[p] : targets[p][i] = b <=> fn.targets[p][i] = b
    BY <2>1 DEF PhiEdges
  <2>4. EdgesTo(p, b) = {n \in DOMAIN fn.targets[p] : fn.targets[p][n] = b}
    BY <2>2, <2>3 DEF EdgesTo
  <2> QED BY <2>1, <2>4, PhiEntries
<1> QED BY <1>1, BehaviourInvariant, PTL
================================================================================
