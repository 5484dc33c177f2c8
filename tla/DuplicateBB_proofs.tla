--------------------------- MODULE DuplicateBB_proofs ----------------------------
(***************************************************************************)
(* The RIV walk and the pass that relies on it, for every function: the    *)
(* RIV sets hold only values available at their block, and at the end all  *)
(* of them; the duplicated blocks do what they did, and every operand in   *)
(* them has been computed.                                                 *)
(***************************************************************************)
EXTENDS DuplicateBB, FiniteSetTheorems, SequenceTheorems, WellFoundedInduction, TLAPS

(* The least of a set of numbers, and reachability. *)

\* A set of natural numbers that is not empty has a least element.
LEMMA LeastExists ==
    ASSUME NEW S \in SUBSET Nat, S # {}
    PROVE  \E i \in S : \A j \in S : i <= j
<1> DEFINE R == OpToRel(<, Nat)
<1>1. IsWellFoundedOn(R, Nat)
  BY NatLessThanWellFounded
<1>2. PICK i \in S : \A j \in S : <<j, i>> \notin R
  <2> HIDE DEF R
  <2> QED BY <1>1, WFMin
<1>3. \A j \in S : ~ (j < i)
  BY <1>2 DEF OpToRel
<1> QED BY <1>3

\* A block that the walk starts from is reached.
LEMMA StartReached ==
    ASSUME NEW B, NEW E, NEW b \in B
    PROVE  b \in ReachedOver(B, E, {b})
BY DEF ReachedOver

\* Fewer edges lead to fewer blocks.
LEMMA ReachedMonotone ==
    ASSUME NEW B, NEW E1, NEW E2, NEW From, E1 \subseteq E2
    PROVE  ReachedOver(B, E1, From) \subseteq ReachedOver(B, E2, From)
BY DEF ReachedOver, ClosedUnder

\* Nothing strictly dominates the entry.
LEMMA EntryUndominated ==
    ASSUME NEW f, f.entry \in f.blocks
    PROVE  StrictDominators(f, f.entry) = {}
BY StartReached DEF StrictDominators

--------------------------------------------------------------------------------
(* The walk. *)

\* What popping the back of a deque and pushing a sequence leaves on it.
LEMMA PopPush ==
    ASSUME NEW S, NEW s \in Seq(S), s # <<>>, NEW t \in Seq(S)
    PROVE  /\ Last(s) \in S
           /\ Last(s) \in ToSet(s)
           /\ Front(s) \o t \in Seq(S)
           /\ ToSet(Front(s) \o t) \subseteq ToSet(s) \cup ToSet(t)
           /\ ToSet(s) \subseteq ToSet(Front(s) \o t) \cup {Last(s)}
           /\ ToSet(t) \subseteq ToSet(Front(s) \o t)
<1> DEFINE n == Len(s) - 1
           u == Front(s) \o t
<1>1. /\ n \in Nat /\ n + 1 = Len(s)
      /\ Last(s) = s[n + 1]
      /\ DOMAIN s = 1..(n + 1)
      /\ \A i \in 1..(n + 1) : s[i] \in S
  BY LenProperties, ElementOfSeq, EmptySeq DEF Last
<1>2. /\ Front(s) \in Seq(S)
      /\ Len(Front(s)) = n
      /\ \A i \in 1..n : Front(s)[i] = s[i]
  BY <1>1, SubSeqProperties DEF Front
<1>3. /\ u \in Seq(S)
      /\ Len(t) \in Nat /\ DOMAIN t = 1..Len(t)
      /\ DOMAIN u = 1..(n + Len(t))
      /\ \A i \in 1..(n + Len(t)) : u[i] = IF i <= n THEN s[i] ELSE t[i - n]
  <2>1. /\ u \in Seq(S)
        /\ Len(u) = n + Len(t)
        /\ \A i \in 1..Len(u) : u[i] = IF i <= n THEN Front(s)[i] ELSE t[i - n]
    <3>1. /\ u \in Seq(S)
          /\ Len(u) = Len(Front(s)) + Len(t)
          /\ \A i \in 1..(Len(Front(s)) + Len(t)) :
                u[i] = IF i <= Len(Front(s)) THEN Front(s)[i] ELSE t[i - Len(Front(s))]
      <4> HIDE DEF n
      <4> QED BY <1>2, ConcatProperties, Zenon
    <3> HIDE DEF n, u
    <3> QED BY <3>1, <1>2
  <2>2. Len(t) \in Nat /\ DOMAIN t = 1..Len(t) /\ DOMAIN u = 1..Len(u)
    BY <2>1, LenProperties
  <2> QED BY <2>1, <2>2, <1>1, <1>2
<1> HIDE DEF n, u
<1>4. ToSet(u) \subseteq ToSet(s) \cup ToSet(t)
  <2> SUFFICES ASSUME NEW i \in 1..(n + Len(t))
               PROVE  u[i] \in ToSet(s) \cup ToSet(t)
    BY <1>3 DEF ToSet
  <2>1. CASE i <= n
    BY <2>1, <1>1, <1>3, SMTT(30) DEF ToSet
  <2>2. CASE ~ (i <= n)
    <3>1. i - n \in 1..Len(t)
      BY <2>2, <1>1, <1>3
    <3> QED BY <3>1, <2>2, <1>3 DEF ToSet
  <2> QED BY <2>1, <2>2
<1>5. ToSet(s) \subseteq ToSet(u) \cup {Last(s)}
  <2> SUFFICES ASSUME NEW i \in 1..(n + 1), i # n + 1
               PROVE  s[i] \in ToSet(u)
    BY <1>1 DEF ToSet
  <2>1. i \in 1..(n + Len(t)) /\ i <= n
    BY <1>1, <1>3
  <2> QED BY <2>1, <1>3 DEF ToSet
<1>6. ToSet(t) \subseteq ToSet(u)
  <2> SUFFICES ASSUME NEW i \in 1..Len(t)
               PROVE  t[i] \in ToSet(u)
    BY <1>3 DEF ToSet
  <2>1. n + i \in 1..(n + Len(t)) /\ ~ (n + i <= n) /\ (n + i) - n = i
    BY <1>1, <1>3
  <2> QED BY <2>1, <1>3 DEF ToSet
<1>7. Last(s) \in S /\ Last(s) \in ToSet(s)
  BY <1>1 DEF ToSet
<1> QED BY <1>3, <1>4, <1>5, <1>6, <1>7 DEF u

--------------------------------------------------------------------------------
\* The invariant the walk maintains: it analyses one of Functions, its types are
\* right, and WalkInv.
IInv == fn \in Functions /\ TypeOK /\ WalkInv

LEMMA ExpectedRIVType ==
    ASSUME NEW f \in Functions, NEW b
    PROVE  ExpectedRIV(f, b) \subseteq AllValues(f) \cap f.ints
BY DEF ExpectedRIV, EntryBBValues, DefinedValues, AllValues, StrictDominators

LEMMA InitInv == Init => IInv
<1> SUFFICES ASSUME Init PROVE IInv
  OBVIOUS
<1>1. fn \in Functions /\ IsFunction(fn)
  BY FunctionsAssumption DEF Init
<1>2. fn.entry \in Reachable(fn)
  BY <1>1, StartReached DEF Reachable, IsFunction
<1>3. StrictDominators(fn, fn.entry) = {}
  BY <1>1, EntryUndominated DEF IsFunction
<1>4. BBsToProcess \in Seq(Reachable(fn)) /\ ToSet(BBsToProcess) = {fn.entry}
  BY <1>2 DEF Init, ToSet
<1>5. /\ DOMAIN ResultMap = {fn.entry}
      /\ ResultMap[fn.entry] = ExpectedRIV(fn, fn.entry)
  BY <1>3 DEF Init, ExpectedRIV
<1>6. TypeOK
  BY <1>1, <1>2, <1>4, <1>5, ExpectedRIVType DEF TypeOK
<1>7. WalkInv
  BY <1>4, <1>5 DEF WalkInv
<1> QED BY <1>1, <1>6, <1>7 DEF IInv

\* One iteration of the while loop keeps the invariant.
LEMMA ProcessParentInv == IInv /\ ProcessParent => IInv'
<1> SUFFICES ASSUME IInv, ProcessParent PROVE IInv'
  OBVIOUS
<1> DEFINE Parent == Last(BBsToProcess)
           kids == fn.children[Parent]
<1>1. fn' = fn /\ fn \in Functions /\ IsFunction(fn)
  BY FunctionsAssumption DEF IInv, ProcessParent
<1>2. /\ BBsToProcess \in Seq(Reachable(fn)) /\ BBsToProcess # <<>>
      /\ BBsToProcess' = Front(BBsToProcess) \o kids
  BY DEF IInv, TypeOK, ProcessParent
<1>3. Parent \in Reachable(fn) /\ Parent \in ToSet(BBsToProcess)
  BY <1>2, PopPush, EmptySeq
<1>4. kids \in Seq(Reachable(fn)) /\ ToSet(kids) \subseteq Reachable(fn)
  <2>1. kids \in Seq(fn.blocks)
    BY <1>1, <1>3 DEF IsFunction, Reachable, ReachedOver
  <2>2. \A i \in DOMAIN kids : kids[i] \in Reachable(fn)
    BY <1>1, <1>3 DEF IsFunction, IsDominatorTree
  <2> HIDE DEF kids
  <2>3. kids \in Seq(Reachable(fn))
    BY <2>1, <2>2, IsASeq, LenProperties
  <2> QED BY <2>2, <2>3 DEF ToSet
<1>5. /\ BBsToProcess' \in Seq(Reachable(fn))
      /\ ToSet(BBsToProcess') \subseteq ToSet(BBsToProcess) \cup ToSet(kids)
      /\ ToSet(BBsToProcess) \subseteq ToSet(BBsToProcess') \cup {Parent}
      /\ ToSet(kids) \subseteq ToSet(BBsToProcess')
  <2> HIDE DEF kids
  <2> QED BY <1>2, <1>4, PopPush
<1>6. DOMAIN ResultMap' = DOMAIN ResultMap \cup ToSet(kids)
  BY DEF ProcessParent
\* The children get the parent's definitions and RIVs, which are their own: their
\* strict dominators are the parent's and the parent.
<1>7. \A c \in ToSet(kids) : ExpectedRIV(fn, c) = DefinedValues(fn, Parent) \cup ExpectedRIV(fn, Parent)
  <2> SUFFICES ASSUME NEW c \in ToSet(kids)
               PROVE  ExpectedRIV(fn, c) = DefinedValues(fn, Parent) \cup ExpectedRIV(fn, Parent)
    OBVIOUS
  <2>1. StrictDominators(fn, c) = StrictDominators(fn, Parent) \cup {Parent}
    BY <1>1, <1>3, ZenonT(60) DEF IsFunction, IsDominatorTree, ToSet
  <2> QED BY <2>1 DEF ExpectedRIV
<1>8. Parent \in DOMAIN ResultMap /\ ResultMap[Parent] = ExpectedRIV(fn, Parent)
  BY <1>3 DEF IInv, WalkInv
<1>9. \A b \in DOMAIN ResultMap' : ResultMap'[b] = ExpectedRIV(fn, b)
  <2> SUFFICES ASSUME NEW b \in DOMAIN ResultMap' PROVE ResultMap'[b] = ExpectedRIV(fn, b)
    OBVIOUS
  <2>1. CASE b \in ToSet(kids)
    <3>1. ResultMap'[b] = (IF b \in DOMAIN ResultMap THEN ResultMap[b] ELSE {})
                             \cup DefinedValues(fn, Parent) \cup ResultMap[Parent]
      BY <2>1, <1>6 DEF ProcessParent
    <3>2. b \in DOMAIN ResultMap => ResultMap[b] = ExpectedRIV(fn, b)
      BY DEF IInv, WalkInv
    <3> QED BY <3>1, <3>2, <2>1, <1>7, <1>8
  <2>2. CASE b \notin ToSet(kids)
    <3>1. b \in DOMAIN ResultMap /\ ResultMap'[b] = ResultMap[b]
      BY <2>2, <1>6 DEF ProcessParent
    <3> QED BY <3>1 DEF IInv, WalkInv
  <2> QED BY <2>1, <2>2
<1>10. TypeOK'
  <2>1. DOMAIN ResultMap' \subseteq Reachable(fn)
    BY <1>4, <1>6 DEF IInv, TypeOK
  <2> QED BY <2>1, <1>1, <1>5, <1>9, ExpectedRIVType DEF TypeOK
<1>11. \A p \in DOMAIN ResultMap' \ ToSet(BBsToProcess') :
          \A i \in DOMAIN fn.children[p] : fn.children[p][i] \in DOMAIN ResultMap'
  <2> SUFFICES ASSUME NEW p \in DOMAIN ResultMap' \ ToSet(BBsToProcess'),
                      NEW i \in DOMAIN fn.children[p]
               PROVE  fn.children[p][i] \in DOMAIN ResultMap'
    OBVIOUS
  <2>1. p \in DOMAIN ResultMap
    BY <1>5, <1>6
  <2>2. CASE p = Parent
    BY <2>2, <1>6 DEF ToSet
  <2>3. CASE p # Parent
    <3>1. p \notin ToSet(BBsToProcess)
      BY <2>3, <1>5
    <3> QED BY <2>1, <3>1, <1>6 DEF IInv, WalkInv
  <2> QED BY <2>2, <2>3
<1>12. fn.entry \in DOMAIN ResultMap' /\ ToSet(BBsToProcess') \subseteq DOMAIN ResultMap'
  BY <1>5, <1>6 DEF IInv, WalkInv
<1> QED BY <1>1, <1>9, <1>10, <1>11, <1>12 DEF IInv, WalkInv

\* Every step of the walk (buildRIV's loop) keeps the invariant.
THEOREM Invariance == Spec => []IInv
<1>1. IInv /\ [Next]_vars => IInv'
  <2> SUFFICES ASSUME IInv, [Next]_vars PROVE IInv'
    OBVIOUS
  <2>1. CASE ProcessParent
    BY <2>1, ProcessParentInv
  <2>2. CASE UNCHANGED vars
    BY <2>2 DEF vars, IInv, TypeOK, WalkInv
  <2> QED BY <2>1, <2>2 DEF Next, Returned
<1> QED BY InitInv, <1>1, PTL DEF Spec

\* The RIV set of a block is final from the moment buildRIV's loop creates it.
THEOREM WalkCorrect == Spec => []WalkInv
BY Invariance, PTL DEF IInv

--------------------------------------------------------------------------------
\* An integer value that b's dominators or the entry provide is available in b,
\* unless a terminator defines it.
LEMMA ExpectedAvailable ==
    ASSUME NEW f \in Functions, NEW b \in f.blocks, NEW v \in ExpectedRIV(f, b),
           v \notin TerminatorResults(f)
    PROVE  b \in AvailableIn(f, v)
<1>1. CASE v \in EntryBBValues(f)
  BY <1>1 DEF EntryBBValues, AvailableIn
<1>2. CASE v \notin EntryBBValues(f)
  <2>1. PICK d \in StrictDominators(f, b) : v \in f.insts[d]
    BY <1>2 DEF ExpectedRIV, DefinedValues
  <2>2. Edges(f) \ DefiningEdges(f, v) \subseteq EdgesNotFrom(f, d)
    BY <2>1 DEF DefiningEdges, EdgesNotFrom, Edges, TerminatorResults
  <2>3. b \notin ReachedOver(f.blocks, Edges(f) \ DefiningEdges(f, v), {f.entry})
    BY <2>1, <2>2, ReachedMonotone DEF StrictDominators
  <2> QED BY <2>3 DEF AvailableIn
<1> QED BY <1>1, <1>2

\* Conversely, an integer value available in b comes from b's dominators or from
\* the entry: in SSA one block defines it, and that block dominates b.
LEMMA AvailableExpected ==
    ASSUME NEW f \in Functions, NEW v \in AllValues(f) \cap f.ints,
           NEW b \in Reachable(f) \cap AvailableIn(f, v)
    PROVE  v \in ExpectedRIV(f, b)
<1>0. IsFunction(f)
  BY FunctionsAssumption
<1>1. CASE v \in f.args \cup f.globals
  BY <1>1 DEF ExpectedRIV, EntryBBValues
<1>2. CASE v \notin f.args \cup f.globals
  <2>1. PICK d \in f.blocks : v \in f.insts[d]
    BY <1>2 DEF AllValues
  <2>2. \A e \in Edges(f) : v \in f.insts[e[1]] => e[1] = d
    BY <2>1, <1>0 DEF IsFunction, Edges
  <2>3. EdgesNotFrom(f, d) \subseteq Edges(f) \ DefiningEdges(f, v)
    BY <2>2 DEF EdgesNotFrom, DefiningEdges
  <2>4. b \in f.blocks /\ b \notin ReachedOver(f.blocks, Edges(f) \ DefiningEdges(f, v), {f.entry})
    BY <1>2 DEF AvailableIn
  <2>5. d \in StrictDominators(f, b)
    BY <2>1, <2>3, <2>4, ReachedMonotone DEF StrictDominators
  <2> QED BY <2>1, <2>5 DEF ExpectedRIV, DefinedValues
<1> QED BY <1>1, <1>2

\* Soundness: every value in the RIV set of a block that no terminator defines is
\* available there, at every moment of the walk of every function.
THEOREM Soundness == Spec => []RIVSound
<1>1. IInv => RIVSound
  <2> SUFFICES ASSUME IInv, NEW v, v \notin TerminatorResults(fn),
                      NEW b \in DOMAIN ResultMap, v \in ResultMap[b]
               PROVE  b \in AvailableIn(fn, v)
    BY DEF RIVSound
  <2>1. fn \in Functions /\ b \in fn.blocks /\ v \in ExpectedRIV(fn, b)
    BY DEF IInv, TypeOK, WalkInv, Reachable, ReachedOver
  <2> QED BY <2>1, ExpectedAvailable
<1> QED BY Invariance, <1>1, PTL

\* Completeness: when the walk of a function ends, with invokes or not, exactly its
\* reachable blocks have RIV sets, and none misses an integer value available there.
THEOREM Completeness == Spec => []RIVComplete
<1>1. IInv => RIVComplete
  <2> SUFFICES ASSUME IInv, BBsToProcess = <<>>
               PROVE  /\ DOMAIN ResultMap = Reachable(fn)
                      /\ \A v \in AllValues(fn) \cap fn.ints :
                            \A b \in Reachable(fn) \cap AvailableIn(fn, v) : v \in ResultMap[b]
    BY DEF RIVComplete
  <2>1. fn \in Functions /\ IsFunction(fn)
    BY FunctionsAssumption DEF IInv
  <2>2. ToSet(BBsToProcess) = {}
    BY DEF ToSet
  <2>3. DOMAIN ResultMap \in SUBSET fn.blocks
    BY DEF IInv, TypeOK, Reachable, ReachedOver
  <2>4. Reachable(fn) \subseteq DOMAIN ResultMap
    BY <2>1, <2>2, <2>3 DEF IInv, WalkInv, IsFunction, IsDominatorTree
  <2>5. DOMAIN ResultMap = Reachable(fn)
    BY <2>4 DEF IInv, TypeOK
  <2> QED BY <2>1, <2>5, AvailableExpected DEF IInv, WalkInv
<1> QED BY Invariance, <1>1, PTL

\* Type correctness of the walk.
THEOREM TypeCorrect == Spec => []TypeOK
BY Invariance, PTL DEF IInv

--------------------------------------------------------------------------------
(* The blocks and instructions of a function. *)

Insts == UNION {fn.insts[b] : b \in fn.blocks}
Values == fn.args \cup fn.globals \cup Insts

\* The first instruction after the PHIs, and those from there on: the last one is the
\* terminator, the others are what is cloned.
First(b) ==
    CHOOSE p \in DOMAIN fn.code[b] :
        fn.code[b][p] \notin DOMAIN fn.phis /\ \A q \in 1..(p - 1) : fn.code[b][q] \in DOMAIN fn.phis
Size(b) == Len(fn.code[b]) - First(b)
Body(b, r) == fn.code[b][First(b) + r - 1]

LEMMA CodeFacts ==
    ASSUME fn \in Functions, NEW b \in fn.blocks
    PROVE  /\ fn.code[b] \in Seq(fn.insts[b]) /\ Len(fn.code[b]) \in Nat /\ Len(fn.code[b]) >= 1
           /\ DOMAIN fn.code[b] = 1..Len(fn.code[b])
           /\ fn.code[b][Len(fn.code[b])] \notin DOMAIN fn.phis
           /\ fn.code[b][Len(fn.code[b])] \in fn.voids \cup fn.results[b]
           /\ IsInjective(fn.code[b]) /\ ToSet(fn.code[b]) = fn.insts[b]
           /\ \A p \in DOMAIN fn.code[b] : fn.code[b][p] \in DOMAIN fn.phis =>
                 /\ \A q \in 1..p : fn.code[b][q] \in DOMAIN fn.phis
                 /\ DOMAIN fn.phis[fn.code[b][p]] = {P \in fn.blocks : b \in fn.succ[P]}
<1> DEFINE c == fn.code[b]
<1>1. /\ c \in Seq(fn.insts[b]) /\ IsInjective(c) /\ ToSet(c) = fn.insts[b]
      /\ c # <<>> /\ Last(c) \notin DOMAIN fn.phis /\ Last(c) \in fn.voids \cup fn.results[b]
      /\ \A p \in DOMAIN c : c[p] \in DOMAIN fn.phis =>
                 /\ \A q \in 1..p : c[q] \in DOMAIN fn.phis
                 /\ DOMAIN fn.phis[c[p]] = {P \in fn.blocks : b \in fn.succ[P]}
  BY CodeAssumption DEF IsCode
<1> HIDE DEF c
<1>2. /\ Len(c) \in Nat /\ Len(c) >= 1 /\ DOMAIN c = 1..Len(c)
  BY <1>1, LenProperties, EmptySeq
<1>3. Last(c) = c[Len(c)]
  BY DEF Last
<1> QED BY <1>1, <1>2, <1>3 DEF c

LEMMA FirstFacts ==
    ASSUME fn \in Functions, NEW b \in fn.blocks
    PROVE  /\ First(b) \in Nat /\ First(b) >= 1 /\ Size(b) \in Nat
           /\ Len(fn.code[b]) = First(b) + Size(b)
           /\ \A p \in 1..(First(b) - 1) : fn.code[b][p] \in DOMAIN fn.phis
           /\ \A r \in 1..(Size(b) + 1) : Body(b, r) \in fn.insts[b] \ DOMAIN fn.phis
           /\ \A p \in DOMAIN fn.code[b] : p < First(b) \/ \E r \in 1..(Size(b) + 1) : p = First(b) + r - 1
<1> DEFINE c == fn.code[b]
           N == {p \in 1..Len(c) : c[p] \notin DOMAIN fn.phis}
           Ok(p) == c[p] \notin DOMAIN fn.phis /\ \A q \in 1..(p - 1) : c[q] \in DOMAIN fn.phis
<1>1. /\ c \in Seq(fn.insts[b]) /\ Len(c) \in Nat /\ Len(c) >= 1 /\ DOMAIN c = 1..Len(c)
      /\ c[Len(c)] \notin DOMAIN fn.phis
      /\ \A p \in 1..Len(c) : c[p] \in DOMAIN fn.phis => \A q \in 1..p : c[q] \in DOMAIN fn.phis
  BY CodeFacts
<1>2. \E p \in 1..Len(c) : Ok(p)
  <2>1. N \in SUBSET Nat /\ N # {}
    BY <1>1
  <2>2. PICK p \in N : \A q \in N : p <= q
    <3> HIDE DEF N
    <3> QED BY <2>1, LeastExists
  <2>3. \A q \in 1..(p - 1) : c[q] \in DOMAIN fn.phis
    BY <1>1, <2>2
  <2> QED BY <2>2, <2>3
<1>3. First(b) \in 1..Len(c) /\ Ok(First(b))
  BY <1>1, <1>2 DEF First
<1> DEFINE h == First(b)
<1>4. h \in 1..Len(c) /\ Ok(h) /\ Size(b) = Len(c) - h /\ \A r : Body(b, r) = c[h + r - 1]
  BY <1>3 DEF Size, Body
<1> HIDE DEF h
<1>5. h \in Nat /\ h >= 1 /\ Size(b) \in Nat /\ Len(c) = h + Size(b)
  BY <1>1, <1>4
<1>6. ASSUME NEW r \in 1..(Size(b) + 1)
      PROVE  Body(b, r) \in fn.insts[b] \ DOMAIN fn.phis
  <2>1. h + r - 1 \in 1..Len(c) /\ h <= h + r - 1
    BY <1>5
  <2>2. c[h + r - 1] \in fn.insts[b]
    BY <1>1, <2>1, ElementOfSeq
  <2>3. c[h + r - 1] \notin DOMAIN fn.phis
    BY <1>1, <1>4, <2>1
  <2> QED BY <1>4, <2>2, <2>3
<1>7. ASSUME NEW p \in 1..Len(c), ~ (p < h)
      PROVE  \E r \in 1..(Size(b) + 1) : p = h + r - 1
  <2>1. p - h + 1 \in 1..(Size(b) + 1) /\ p = h + (p - h + 1) - 1
    BY <1>5, <1>7
  <2> QED BY <2>1
<1> QED BY <1>1, <1>4, <1>5, <1>6, <1>7 DEF h

\* No instruction is in two places.
LEMMA BodyUnique ==
    ASSUME fn \in Functions, NEW b \in fn.blocks, NEW c \in fn.blocks,
           NEW r \in 1..(Size(b) + 1), NEW s \in 1..(Size(c) + 1), Body(b, r) = Body(c, s)
    PROVE  b = c /\ r = s
<1>1. Body(b, r) \in fn.insts[b] /\ Body(c, s) \in fn.insts[c]
  BY FirstFacts
<1>2. b = c
  BY <1>1, FunctionsAssumption DEF IsFunction
<1>3. /\ First(b) \in Nat /\ Size(b) \in Nat /\ First(b) >= 1
      /\ Len(fn.code[b]) = First(b) + Size(b) /\ DOMAIN fn.code[b] = 1..Len(fn.code[b])
      /\ IsInjective(fn.code[b])
  BY FirstFacts, CodeFacts
<1>4. /\ First(b) + r - 1 \in DOMAIN fn.code[b] /\ First(b) + s - 1 \in DOMAIN fn.code[b]
      /\ fn.code[b][First(b) + r - 1] = fn.code[b][First(b) + s - 1]
  BY <1>2, <1>3 DEF Body
<1>5. First(b) + r - 1 = First(b) + s - 1
  BY <1>3, <1>4 DEF IsInjective
<1> QED BY <1>2, <1>3, <1>5

\* The instructions and arguments of the function are told apart by their first component.
LEMMA ValueNames ==
    ASSUME fn \in Functions
    PROVE  \A v \in Values : v = <<v[1], 0>>
BY CodeAssumption DEF IsCode, Values, Insts

--------------------------------------------------------------------------------
(* Where the pass stands. *)

\* Block b has been split; Turn(b) of its instructions have been cloned; its last part is
\* where its successors' PHIs come from.
Split(b) == <<b, 3>> \in Blocks
Turn(b) == IF pc = "tail" /\ b = BB THEN IIT - 1 ELSE Size(b)
Exit(b) == <<b, IF Split(b) THEN 3 ELSE 0>>

Names == ({v[1] : v \in Values} \cup fn.blocks) \X (0..4)

\* The targets are blocks of their own, at which their context is known to be available,
\* and those to come have not been split.
TargetsInv ==
    /\ pc \in {"analyse", "find", "clone", "tail", "done"}
    /\ next \in Nat
    /\ Targets \in Seq((Reachable(fn) \ fn.pads) \X ((AllValues(fn) \cap fn.ints) \ fn.globals))
    /\ \A t \in DOMAIN Targets :
          Targets[t][2] \in TerminatorResults(fn) \/ Targets[t][1] \in AvailableIn(fn, Targets[t][2])
    /\ \A s, t \in DOMAIN Targets : Targets[s][1] = Targets[t][1] => s = t
    /\ pc = "analyse" => Targets = <<>>
    /\ pc = "find" => \A t \in DOMAIN Targets : Targets[t][1] < next
    /\ pc = "clone" => \A t \in DOMAIN Targets : t >= next => ~ Split(Targets[t][1])
    /\ pc = "tail" => /\ next \in DOMAIN Targets /\ Split(BB) /\ IIT \in 1..(Size(BB) + 1)
                      /\ \A t \in DOMAIN Targets : t > next => ~ Split(Targets[t][1])

\* The blocks and the edges between them.
SuccOf(B) ==
    IF B[2] \in {1, 2} THEN {<<B[1], 3>>}
    ELSE IF B[2] = 0 /\ Split(B[1]) THEN {<<B[1], 1>>, <<B[1], 2>>} ELSE fn.succ[B[1]] \X {0}
BlocksInv ==
    /\ Blocks = {B \in fn.blocks \X (0..3) : B[2] = 0 \/ Split(B[1])}
    /\ DOMAIN succ = Blocks
    /\ \A B \in Blocks : succ[B] = SuccOf(B)
    /\ pc \in {"analyse", "find"} => \A b \in fn.blocks : ~ Split(b)
    /\ \A b \in fn.blocks : Split(b) => \E t \in DOMAIN Targets : Targets[t][1] = b

\* What has been replaced: the values cloned so far.
Cloning(b, v) == Split(b) /\ \E r \in 1..Turn(b) : v = Body(b, r)
ReMapInv ==
    /\ DOMAIN ReMapper = {v \in Insts \ fn.voids : \E b \in fn.blocks : Cloning(b, v)}
    /\ \A v \in DOMAIN ReMapper : ReMapper[v] = <<v[1], 3>>

\* The instructions of block b before and after it is split.
HeadInv(b) ==
    LET c == code[<<b, 0>>]
    IN  /\ Len(c) = First(b) /\ c[First(b)] = <<b, 4>>
        /\ \A p \in 1..(First(b) - 1) : c[p] = fn.code[b][p]
BranchInv(b, k) ==
    LET c == code[<<b, k>>]
    IN  Len(c) = Turn(b) /\ \A r \in 1..Turn(b) : c[r] = <<Body(b, r)[1], k>>
TailInv(b) ==
    LET c == code[<<b, 3>>]
    IN  IF pc = "tail" /\ b = BB
        THEN /\ Len(c) = Size(b) + 1
             /\ \A r \in 1..(Size(b) + 1) : c[r] = Remap(Body(b, r))
        ELSE /\ Len(c) >= 1 /\ c[Len(c)] = Body(b, Size(b) + 1)
             /\ \A p \in 1..(Len(c) - 1) :
                   \E r \in 1..Size(b) : Body(b, r) \notin fn.voids /\ c[p] = <<Body(b, r)[1], 3>>
             /\ \A r \in 1..Size(b) : Body(b, r) \notin fn.voids =>
                   \E p \in 1..(Len(c) - 1) : c[p] = <<Body(b, r)[1], 3>>
CodeInv ==
    /\ \A B \in Blocks : code[B] \in Seq(Names)
    /\ \A b \in fn.blocks :
          IF Split(b) THEN HeadInv(b) /\ BranchInv(b, 1) /\ BranchInv(b, 2) /\ TailInv(b)
          ELSE code[<<b, 0>>] = fn.code[b]

\* The PHIs: those of the function, and one for each value replaced.
PhisInv ==
    /\ DOMAIN phis = DOMAIN fn.phis \cup {<<v[1], 3>> : v \in DOMAIN ReMapper}
    /\ \A j \in DOMAIN fn.phis :
          /\ DOMAIN phis[j] = {Exit(p) : p \in DOMAIN fn.phis[j]}
          /\ \A p \in DOMAIN fn.phis[j] : phis[j][Exit(p)] = Remap(fn.phis[j][p])
    /\ \A v \in DOMAIN ReMapper : \A b \in fn.blocks : v \in fn.insts[b] =>
          /\ DOMAIN phis[<<v[1], 3>>] = {<<b, 1>>, <<b, 2>>}
          /\ \A P \in {<<b, 1>>, <<b, 2>>} : phis[<<v[1], 3>>][P] = <<v[1], P[2]>>

\* The operands.  A clone uses the clones of its branch.
InBody(b, o) == \E s \in 1..Size(b) : o = Body(b, s)
CloneOperand(b, k, o) == IF InBody(b, o) THEN <<o[1], k>> ELSE Remap(o)
OpsInv ==
    /\ DOMAIN ops = ((DOMAIN fn.ops) \ DOMAIN ReMapper)
                    \cup {<<b, 4>> : b \in {c \in fn.blocks : Split(c)}}
                    \cup {<<i[1], k>> : i \in {v \in Insts : \E b \in fn.blocks : Cloning(b, v)}, k \in {1, 2}}
    /\ \A j \in (DOMAIN fn.ops) \ DOMAIN ReMapper : ops[j] = {Remap(o) : o \in fn.ops[j]}
    /\ \A b \in fn.blocks : \A k \in {1, 2} : \A r \in 1..Turn(b) : Split(b) =>
          ops[<<Body(b, r)[1], k>>] = {CloneOperand(b, k, o) : o \in fn.ops[Body(b, r)]}
    /\ \A t \in DOMAIN Targets : Split(Targets[t][1]) =>
          ops[<<Targets[t][1], 4>>] = {Remap(Targets[t][2])}

\* The maps of the two branches.
VMapInv ==
    pc = "tail" =>
        /\ DOMAIN VMap = {1, 2}
        /\ \A k \in {1, 2} :
              /\ DOMAIN VMap[k] = {Remap(Body(BB, r)) : r \in 1..(IIT - 1)}
              /\ \A v \in DOMAIN VMap[k] : VMap[k][v] = <<v[1], k>>

PassInv ==
    TargetsInv /\ BlocksInv /\ ReMapInv /\ CodeInv /\ PhisInv /\ OpsInv /\ VMapInv

--------------------------------------------------------------------------------
(* What a step leaves alone. *)

LEMMA SameFunction ==
    ASSUME fn' = fn
    PROVE  /\ Insts' = Insts /\ Values' = Values /\ Names' = Names
           /\ \A b : First(b)' = First(b)
           /\ \A b : Size(b)' = Size(b)
           /\ \A b, r : Body(b, r)' = Body(b, r)
<1>1. Insts' = Insts
  BY DEF Insts
<1>2. Values' = Values
  BY <1>1 DEF Values
<1>3. Names' = Names
  BY <1>2 DEF Names
<1>4. \A b : First(b)' = First(b)
  BY DEF First
<1>5. \A b : Size(b)' = Size(b)
  BY <1>4 DEF Size
<1>6. \A b, r : Body(b, r)' = Body(b, r)
  BY <1>4 DEF Body
<1> QED BY <1>1, <1>2, <1>3, <1>4, <1>5, <1>6

LEMMA SameBlocks ==
    ASSUME DOMAIN code' = DOMAIN code
    PROVE  /\ Blocks' = Blocks
           /\ \A b : Split(b)' <=> Split(b)
           /\ \A b : Exit(b)' = Exit(b)
<1>1. Blocks' = Blocks
  BY DEF Blocks
<1>2. \A b : Split(b)' <=> Split(b)
  BY <1>1 DEF Split
<1> QED BY <1>1, <1>2 DEF Exit

\* Between blocks, nothing but the next target changes.
Still ==
    /\ fn' = fn /\ ir' = ir /\ cloning' = cloning
    /\ pc # "tail" /\ pc' # "tail"

LEMMA StillFacts ==
    ASSUME Still
    PROVE  /\ code' = code /\ succ' = succ /\ ops' = ops /\ phis' = phis
           /\ ReMapper' = ReMapper /\ VMap' = VMap /\ IIT' = IIT
           /\ \A b : Turn(b)' = Turn(b) /\ Turn(b) = Size(b)
           /\ \A b, v : Cloning(b, v)' <=> Cloning(b, v)
           /\ \A v : Remap(v)' = Remap(v)
<1>1. /\ code' = code /\ succ' = succ /\ ops' = ops /\ phis' = phis
      /\ ReMapper' = ReMapper /\ VMap' = VMap /\ IIT' = IIT
  BY DEF Still, ir, cloning
<1>2. /\ \A b : Size(b)' = Size(b)
      /\ \A b, r : Body(b, r)' = Body(b, r)
  BY SameFunction DEF Still
<1>3. \A b : Turn(b)' = Turn(b) /\ Turn(b) = Size(b)
  BY <1>2 DEF Turn, Still
<1>4. \A b : Split(b)' <=> Split(b)
  BY <1>1, SameBlocks
<1>5. \A b, v : Cloning(b, v)' <=> Cloning(b, v)
  BY <1>2, <1>3, <1>4 DEF Cloning
<1>6. \A v : Remap(v)' = Remap(v)
  BY <1>1 DEF Remap
<1> QED BY <1>1, <1>3, <1>5, <1>6

LEMMA StillInv ==
    ASSUME Still, BlocksInv, ReMapInv, CodeInv, PhisInv, VMapInv, OpsInv
    PROVE  ReMapInv' /\ CodeInv' /\ PhisInv' /\ VMapInv'
<1>1. /\ fn' = fn /\ Insts' = Insts /\ Values' = Values /\ Names' = Names
      /\ \A b : First(b)' = First(b)
      /\ \A b : Size(b)' = Size(b)
      /\ \A b, r : Body(b, r)' = Body(b, r)
  BY SameFunction DEF Still
<1>2. /\ code' = code /\ succ' = succ /\ ops' = ops /\ phis' = phis
      /\ ReMapper' = ReMapper /\ VMap' = VMap /\ IIT' = IIT
      /\ \A b : Turn(b)' = Turn(b) /\ Turn(b) = Size(b)
      /\ \A b, v : Cloning(b, v)' <=> Cloning(b, v)
      /\ \A v : Remap(v)' = Remap(v)
  BY StillFacts
<1>3. /\ Blocks' = Blocks
      /\ \A b : Split(b)' <=> Split(b)
      /\ \A b : Exit(b)' = Exit(b)
  BY <1>2, SameBlocks
<1>4. ReMapInv'
  BY <1>1, <1>2, <1>3 DEF ReMapInv
<1>5. CodeInv'
  <2>1. \A b : HeadInv(b)' <=> HeadInv(b)
    BY <1>1, <1>2 DEF HeadInv
  <2>2. \A b, k : BranchInv(b, k)' <=> BranchInv(b, k)
    BY <1>1, <1>2 DEF BranchInv
  <2>3. \A b : TailInv(b)' <=> TailInv(b)
    BY <1>1, <1>2, ZenonT(30) DEF TailInv, Still
  <2> QED BY <1>1, <1>2, <1>3, <2>1, <2>2, <2>3 DEF CodeInv
<1>6. PhisInv'
  BY <1>1, <1>2, <1>3, ZenonT(30) DEF PhisInv
<1>7. VMapInv'
  BY DEF VMapInv, Still
<1> QED BY <1>4, <1>5, <1>6, <1>7

LEMMA StillBlocks ==
    ASSUME Still, BlocksInv, pc' \in {"analyse", "find"} => pc \in {"analyse", "find"},
           \A t \in DOMAIN Targets : t \in DOMAIN Targets' /\ Targets'[t] = Targets[t]
    PROVE  BlocksInv'
<1>1. /\ fn' = fn /\ code' = code /\ succ' = succ
  BY StillFacts DEF Still
<1>2. /\ Blocks' = Blocks
      /\ \A b : Split(b)' <=> Split(b)
  BY <1>1, SameBlocks
<1>3. \A B : SuccOf(B)' = SuccOf(B)
  BY <1>1, <1>2 DEF SuccOf
<1> QED BY <1>1, <1>2, <1>3 DEF BlocksInv

LEMMA StillOps ==
    ASSUME Still, OpsInv,
           \A t \in DOMAIN Targets' : Split(Targets'[t][1]) =>
              t \in DOMAIN Targets /\ Targets'[t] = Targets[t]
    PROVE  OpsInv'
<1>1. /\ fn' = fn /\ Insts' = Insts
      /\ \A b : Size(b)' = Size(b)
      /\ \A b, r : Body(b, r)' = Body(b, r)
  BY SameFunction DEF Still
<1>2. /\ code' = code /\ ops' = ops
      /\ ReMapper' = ReMapper
      /\ \A b : Turn(b)' = Turn(b) /\ Turn(b) = Size(b)
      /\ \A b, v : Cloning(b, v)' <=> Cloning(b, v)
      /\ \A v : Remap(v)' = Remap(v)
  BY StillFacts
<1>3. \A b : Split(b)' <=> Split(b)
  BY <1>2, SameBlocks
<1>4. \A b, k, o : CloneOperand(b, k, o)' = CloneOperand(b, k, o)
  BY <1>1, <1>2 DEF CloneOperand, InBody
<1>5. (DOMAIN ops = ((DOMAIN fn.ops) \ DOMAIN ReMapper)
                    \cup {<<b, 4>> : b \in {c \in fn.blocks : Split(c)}}
                    \cup {<<i[1], k>> : i \in {v \in Insts : \E b \in fn.blocks : Cloning(b, v)}, k \in {1, 2}})'
  BY <1>1, <1>2, <1>3 DEF OpsInv
<1>6. (\A j \in (DOMAIN fn.ops) \ DOMAIN ReMapper : ops[j] = {Remap(o) : o \in fn.ops[j]})'
  BY <1>1, <1>2 DEF OpsInv
<1>7. (\A b \in fn.blocks : \A k \in {1, 2} : \A r \in 1..Turn(b) : Split(b) =>
          ops[<<Body(b, r)[1], k>>] = {CloneOperand(b, k, o) : o \in fn.ops[Body(b, r)]})'
  BY <1>1, <1>2, <1>3, <1>4 DEF OpsInv
<1>8. (\A t \in DOMAIN Targets : Split(Targets[t][1]) =>
          ops[<<Targets[t][1], 4>>] = {Remap(Targets[t][2])})'
  BY <1>2, <1>3 DEF OpsInv
<1> QED BY <1>5, <1>6, <1>7, <1>8 DEF OpsInv

--------------------------------------------------------------------------------
(* The steps before and between the blocks. *)

LEMMA AnalyseInv ==
    ASSUME IInv, PassInv, Analyse
    PROVE  PassInv'
<1>1. /\ fn' = fn /\ next' = next /\ Targets' = Targets /\ ir' = ir /\ cloning' = cloning
      /\ pc = "analyse" /\ pc' \in {"analyse", "find"}
  BY DEF Analyse, ProcessParent, Returned, vars, ir, cloning
<1>2. Still
  BY <1>1 DEF Still
<1>3. BlocksInv'
  BY <1>1, <1>2, StillBlocks DEF PassInv
<1>4. OpsInv'
  BY <1>1, <1>2, StillOps DEF PassInv
<1>5. TargetsInv'
  BY <1>1 DEF PassInv, TargetsInv
<1> QED BY <1>2, <1>3, <1>4, <1>5, StillInv DEF PassInv

LEMMA FindBBInv ==
    ASSUME IInv, RIVSound, PassInv, FindBB
    PROVE  PassInv'
<1>1. /\ fn' = fn /\ ResultMap' = ResultMap /\ ir' = ir /\ cloning' = cloning
      /\ pc = "find" /\ pc' = "find" /\ next \in fn.blocks /\ next' = next + 1
  BY DEF FindBB, vars, ir, cloning
<1>2. Still
  BY <1>1 DEF Still
<1>3. /\ next \in Nat /\ Targets \in Seq((Reachable(fn) \ fn.pads) \X ((AllValues(fn) \cap fn.ints) \ fn.globals))
      /\ \A t \in DOMAIN Targets : Targets[t][1] < next
      /\ \A s, t \in DOMAIN Targets : Targets[s][1] = Targets[t][1] => s = t
      /\ \A t \in DOMAIN Targets :
            Targets[t][2] \in TerminatorResults(fn) \/ Targets[t][1] \in AvailableIn(fn, Targets[t][2])
  BY <1>1 DEF PassInv, TargetsInv
<1>4. \A b \in fn.blocks : ~ Split(b)
  BY <1>1 DEF PassInv, BlocksInv
<1>5. fn.blocks \subseteq Nat /\ Reachable(fn) \subseteq fn.blocks
  BY CodeAssumption DEF IsCode, IInv, Reachable, ReachedOver
<1> DEFINE T == (Reachable(fn) \ fn.pads) \X ((AllValues(fn) \cap fn.ints) \ fn.globals)
<1>6. CASE Targets' = Targets
  <2>1. TargetsInv'
    <3>1. \A t \in DOMAIN Targets : Targets[t][1] \in Nat
      BY <1>3, <1>5
    <3> QED BY <1>1, <1>3, <1>6, <3>1 DEF TargetsInv
  <2>2. BlocksInv' /\ OpsInv'
    BY <1>1, <1>2, <1>6, StillBlocks, StillOps DEF PassInv
  <2> QED BY <1>2, <2>1, <2>2, StillInv DEF PassInv
<1>7. CASE Targets' # Targets
  <2>1. PICK v \in ReachableValues(next) :
           v \notin fn.globals /\ next \notin fn.pads /\ Targets' = Append(Targets, <<next, v>>)
    BY <1>7 DEF FindBB
  <2>2. next \in DOMAIN ResultMap /\ v \in ResultMap[next]
    BY <2>1 DEF ReachableValues
  <2>3. next \in Reachable(fn) /\ v \in AllValues(fn) \cap fn.ints
    BY <2>2 DEF IInv, TypeOK
  <2>4. v \in TerminatorResults(fn) \/ next \in AvailableIn(fn, v)
    BY <2>2, <2>3 DEF RIVSound
  <2>5. <<next, v>> \in T
    BY <2>1, <2>3
  <2>6. /\ Targets' \in Seq(T) /\ Len(Targets) \in Nat /\ DOMAIN Targets = 1..Len(Targets)
        /\ DOMAIN Targets' = 1..(Len(Targets) + 1)
        /\ \A t \in DOMAIN Targets : Targets'[t] = Targets[t]
        /\ Targets'[Len(Targets) + 1] = <<next, v>>
    <3> HIDE DEF T
    <3>1. Targets \in Seq(T)
      BY <1>3 DEF T
    <3>2. Targets' = Append(Targets, <<next, v>>) /\ <<next, v>> \in T
      BY <2>1, <2>5
    <3> HIDE <1>3, <2>1, <2>5
    <3> QED BY <3>1, <3>2, AppendProperties, LenProperties
  <2>7. \A t \in DOMAIN Targets' : t \in DOMAIN Targets \/ (t = Len(Targets) + 1 /\ t \notin DOMAIN Targets)
    BY <2>6
  <2>8. \A t \in DOMAIN Targets : Targets[t][1] \in Nat
    BY <1>3, <1>5
  <2>9. TargetsInv'
    <3>1. Targets' \in Seq((Reachable(fn') \ fn'.pads) \X ((AllValues(fn') \cap fn'.ints) \ fn'.globals))
      BY <1>1, <2>6
    <3> HIDE DEF T
    <3>2. \A t \in DOMAIN Targets' :
             Targets'[t][2] \in TerminatorResults(fn') \/ Targets'[t][1] \in AvailableIn(fn', Targets'[t][2])
      BY <1>1, <1>3, <2>4, <2>6, <2>7
    <3>3. \A t \in DOMAIN Targets' : Targets'[t][1] < next'
      BY <1>1, <1>3, <2>6, <2>7, <2>8
    <3>4. \A s, t \in DOMAIN Targets' : Targets'[s][1] = Targets'[t][1] => s = t
      BY <1>1, <1>3, <2>6, <2>7, <2>8
    <3> QED BY <1>1, <1>3, <3>1, <3>2, <3>3, <3>4 DEF TargetsInv
  <2>10. BlocksInv'
    BY <1>1, <1>2, <2>6, StillBlocks DEF PassInv
  <2>11. OpsInv'
    <3>1. \A t \in DOMAIN Targets' : Targets'[t][1] \in fn.blocks
      <4>1. next \in fn.blocks
        BY <1>1
      <4>2. \A t \in DOMAIN Targets : Targets[t][1] \in fn.blocks
        BY <1>3, <1>5
      <4> QED BY <2>6, <2>7, <4>1, <4>2
    <3> QED BY <1>2, <1>4, <3>1, StillOps DEF PassInv
  <2> QED BY <1>2, <2>9, <2>10, <2>11, StillInv DEF PassInv
<1> QED BY <1>6, <1>7

LEMMA StartCloningInv ==
    ASSUME IInv, PassInv, StartCloning
    PROVE  PassInv'
<1>1. /\ fn' = fn /\ next' = 1 /\ Targets' = Targets /\ ir' = ir /\ cloning' = cloning
      /\ pc = "find" /\ pc' = "clone"
  BY DEF StartCloning, vars, ir, cloning
<1>2. Still
  BY <1>1 DEF Still
<1>3. BlocksInv'
  BY <1>1, <1>2, StillBlocks DEF PassInv
<1>4. OpsInv'
  BY <1>1, <1>2, StillOps DEF PassInv
<1>5. TargetsInv'
  <2>1. \A b : Split(b)' <=> Split(b)
    BY <1>2, StillFacts, SameBlocks
  <2>2. \A t \in DOMAIN Targets : ~ Split(Targets[t][1])
    BY <1>1 DEF PassInv, BlocksInv, TargetsInv, Reachable, ReachedOver
  <2> QED BY <1>1, <2>1, <2>2 DEF PassInv, TargetsInv
<1> QED BY <1>2, <1>3, <1>4, <1>5, StillInv DEF PassInv

LEMMA ReturnInv ==
    ASSUME IInv, PassInv, Return
    PROVE  PassInv'
<1>1. /\ fn' = fn /\ next' = next /\ Targets' = Targets /\ ir' = ir /\ cloning' = cloning
      /\ pc = "clone" /\ pc' = "done"
  BY DEF Return, vars, ir, cloning
<1>2. Still
  BY <1>1 DEF Still
<1>3. BlocksInv'
  BY <1>1, <1>2, StillBlocks DEF PassInv
<1>4. OpsInv'
  BY <1>1, <1>2, StillOps DEF PassInv
<1>5. TargetsInv'
  BY <1>1 DEF PassInv, TargetsInv
<1> QED BY <1>2, <1>3, <1>4, <1>5, StillInv DEF PassInv

LEMMA StutterInv ==
    ASSUME PassInv, UNCHANGED passVars
    PROVE  PassInv'
<1>1. /\ fn' = fn /\ next' = next /\ Targets' = Targets /\ pc' = pc
      /\ code' = code /\ succ' = succ /\ ops' = ops /\ phis' = phis
      /\ ReMapper' = ReMapper /\ VMap' = VMap /\ IIT' = IIT
  BY DEF passVars, vars, ir, cloning
<1>2. /\ Insts' = Insts /\ Names' = Names
      /\ \A b : First(b)' = First(b)
      /\ \A b : Size(b)' = Size(b)
      /\ \A b, r : Body(b, r)' = Body(b, r)
  BY <1>1, SameFunction
<1>3. /\ Blocks' = Blocks
      /\ \A b : Split(b)' <=> Split(b)
      /\ \A b : Exit(b)' = Exit(b)
  BY <1>1, SameBlocks
<1>4. BB' = BB
  BY <1>1 DEF BB
<1>5. /\ \A b : Turn(b)' = Turn(b)
      /\ \A v : Remap(v)' = Remap(v)
  BY <1>1, <1>2, <1>4 DEF Turn, Remap
<1>6. /\ \A b, v : Cloning(b, v)' <=> Cloning(b, v)
      /\ \A b, k, o : CloneOperand(b, k, o)' = CloneOperand(b, k, o)
      /\ \A B : SuccOf(B)' = SuccOf(B)
  BY <1>1, <1>2, <1>3, <1>5 DEF Cloning, CloneOperand, InBody, SuccOf
<1>7. TargetsInv'
  BY <1>1, <1>2, <1>3, <1>4 DEF PassInv, TargetsInv
<1>8. BlocksInv'
  BY <1>1, <1>3, <1>6 DEF PassInv, BlocksInv
<1>9. ReMapInv'
  BY <1>1, <1>2, <1>6 DEF PassInv, ReMapInv
<1>10. CodeInv'
  <2>1. \A b : HeadInv(b)' <=> HeadInv(b)
    BY <1>1, <1>2 DEF HeadInv
  <2>2. \A b, k : BranchInv(b, k)' <=> BranchInv(b, k)
    BY <1>1, <1>2, <1>5 DEF BranchInv
  <2>3. \A b : TailInv(b)' <=> TailInv(b)
    BY <1>1, <1>2, <1>4, <1>5, ZenonT(30) DEF TailInv
  <2> QED BY <1>1, <1>2, <1>3, <2>1, <2>2, <2>3 DEF PassInv, CodeInv
<1>11. PhisInv'
  BY <1>1, <1>3, <1>5, ZenonT(30) DEF PassInv, PhisInv
<1>12. OpsInv'
  BY <1>1, <1>2, <1>3, <1>5, <1>6 DEF PassInv, OpsInv
<1>13. VMapInv'
  BY <1>1, <1>2, <1>4, <1>5 DEF PassInv, VMapInv
<1> QED BY <1>7, <1>8, <1>9, <1>10, <1>11, <1>12, <1>13 DEF PassInv

--------------------------------------------------------------------------------
(* The initial states. *)

LEMMA CodeNames ==
    ASSUME fn \in Functions, NEW b \in fn.blocks
    PROVE  /\ fn.code[b] \in Seq(Names)
           /\ \A p \in DOMAIN fn.code[b] : fn.code[b][p] \in Insts /\ fn.code[b][p] = <<fn.code[b][p][1], 0>>
<1>1. /\ fn.code[b] \in Seq(fn.insts[b]) /\ Len(fn.code[b]) \in Nat
      /\ DOMAIN fn.code[b] = 1..Len(fn.code[b])
  BY CodeFacts
<1>2. \A v \in fn.insts[b] : v \in Insts /\ v \in Values /\ v = <<v[1], 0>>
  BY ValueNames DEF Values, Insts
<1>3. fn.insts[b] \subseteq Names
  <2> SUFFICES ASSUME NEW v \in fn.insts[b] PROVE v \in Names
    OBVIOUS
  <2>1. v \in Values /\ v = <<v[1], 0>>
    BY <1>2
  <2> QED BY <2>1 DEF Names
<1>4. \A p \in DOMAIN fn.code[b] : fn.code[b][p] \in fn.insts[b]
  BY <1>1, ElementOfSeq
<1>5. fn.code[b] \in Seq(Names)
  BY <1>1, <1>3
<1> QED BY <1>2, <1>4, <1>5

LEMMA PassInitInv == PassInit => PassInv
<1> SUFFICES ASSUME PassInit PROVE PassInv
  OBVIOUS
<1>1. /\ fn \in Functions /\ pc = "analyse" /\ next = 1 /\ Targets = <<>>
      /\ ops = fn.ops /\ ReMapper = NoValues /\ VMap = <<NoValues, NoValues>>
  BY DEF PassInit, Init
<1>2. /\ Blocks = fn.blocks \X {0}
      /\ \A b \in fn.blocks : <<b, 0>> \in Blocks /\ code[<<b, 0>>] = fn.code[b]
      /\ DOMAIN succ = fn.blocks \X {0}
      /\ \A B \in Blocks : succ[B] = fn.succ[B[1]] \X {0}
  BY DEF PassInit, Blocks
<1>3. \A b : ~ Split(b)
  BY <1>2 DEF Split
<1>4. DOMAIN ReMapper = {} /\ \A v : Remap(v) = v
  BY <1>1 DEF NoValues, Remap
<1>5. \A b, v : ~ Cloning(b, v)
  BY <1>3 DEF Cloning
<1>6. TargetsInv
  BY <1>1 DEF TargetsInv
<1>7. BlocksInv
  <2>1. Blocks = {B \in fn.blocks \X (0..3) : B[2] = 0 \/ Split(B[1])}
    BY <1>2, <1>3
  <2>2. \A B \in Blocks : SuccOf(B) = fn.succ[B[1]] \X {0}
    BY <1>2, <1>3 DEF SuccOf
  <2> QED BY <1>1, <1>2, <1>3, <2>1, <2>2 DEF BlocksInv
<1>8. ReMapInv
  BY <1>4, <1>5 DEF ReMapInv
<1>9. CodeInv
  <2>1. \A b \in fn.blocks : fn.code[b] \in Seq(Names)
    BY <1>1, CodeNames
  <2> QED BY <1>2, <1>3, <2>1 DEF CodeInv
<1>10. PhisInv
  <2>1. DOMAIN phis = DOMAIN fn.phis
    BY DEF PassInit
  <2>2. ASSUME NEW j \in DOMAIN fn.phis
        PROVE  /\ DOMAIN phis[j] = {Exit(p) : p \in DOMAIN fn.phis[j]}
               /\ \A p \in DOMAIN fn.phis[j] : phis[j][Exit(p)] = fn.phis[j][p]
    <3>1. phis[j] = [P \in (DOMAIN fn.phis[j]) \X {0} |-> fn.phis[j][P[1]]]
      BY DEF PassInit
    <3>2. \A p : Exit(p) = <<p, 0>>
      BY <1>3 DEF Exit
    <3> QED BY <3>1, <3>2
  <2> QED BY <1>4, <2>1, <2>2 DEF PhisInv
<1>11. OpsInv
  <2>1. \A j \in DOMAIN fn.ops : ops[j] = {Remap(o) : o \in fn.ops[j]}
    BY <1>1, <1>4
  <2>2. DOMAIN ops = ((DOMAIN fn.ops) \ DOMAIN ReMapper)
                    \cup {<<b, 4>> : b \in {c \in fn.blocks : Split(c)}}
                    \cup {<<i[1], k>> : i \in {v \in Insts : \E b \in fn.blocks : Cloning(b, v)}, k \in {1, 2}}
    BY <1>1, <1>3, <1>4, <1>5
  <2> QED BY <1>1, <1>3, <1>4, <2>1, <2>2 DEF OpsInv
<1>12. VMapInv
  BY <1>1 DEF VMapInv
<1> QED BY <1>6, <1>7, <1>8, <1>9, <1>10, <1>11, <1>12 DEF PassInv

--------------------------------------------------------------------------------
(* Splitting a block. *)

\* Nothing of a block that has not been split has been replaced.
LEMMA KeptBody ==
    ASSUME fn \in Functions, ReMapInv, NEW b \in fn.blocks, ~ Split(b),
           \A c \in fn.blocks : Turn(c) \in 0..Size(c)
    PROVE  \A v \in fn.insts[b] : v \notin DOMAIN ReMapper /\ Remap(v) = v
<1> SUFFICES ASSUME NEW v \in fn.insts[b], v \in DOMAIN ReMapper
             PROVE  FALSE
  BY DEF Remap
<1>1. PICK c \in fn.blocks : Cloning(c, v)
  BY DEF ReMapInv
<1>2. PICK r \in 1..Turn(c) : v = Body(c, r)
  BY <1>1 DEF Cloning
<1>3. r \in 1..(Size(c) + 1)
  BY FirstFacts, <1>2
<1>4. v \in fn.insts[c]
  BY <1>2, <1>3, FirstFacts
<1>5. b = c
  BY <1>4, FunctionsAssumption DEF IsFunction
<1> QED BY <1>1, <1>5 DEF Cloning

\* Of the function's instructions, exactly its PHIs are PHIs at any time.
LEMMA SamePHIs ==
    ASSUME fn \in Functions, PhisInv, NEW v, v = <<v[1], 0>>
    PROVE  v \in DOMAIN phis <=> v \in DOMAIN fn.phis
BY DEF PhisInv

\* BBHead.
LEMMA HeadFirst ==
    ASSUME fn \in Functions, PhisInv, NEW b \in fn.blocks, <<b, 0>> \in Blocks, code[<<b, 0>>] = fn.code[b]
    PROVE  FirstNonPHI(<<b, 0>>) = First(b)
<1> DEFINE c == fn.code[b]
           h == First(b)
           Ok(p) == c[p] \notin DOMAIN phis /\ \A q \in 1..(p - 1) : c[q] \in DOMAIN phis
<1>1. /\ h \in Nat /\ h >= 1 /\ Size(b) \in Nat /\ Len(c) = h + Size(b) /\ DOMAIN c = 1..Len(c)
      /\ \A p \in 1..(h - 1) : c[p] \in DOMAIN fn.phis
      /\ Body(b, 1) \notin DOMAIN fn.phis
  BY FirstFacts, CodeFacts
<1>2. c[h] \notin DOMAIN fn.phis
  BY <1>1 DEF Body
<1>3. \A p \in DOMAIN c : c[p] \in DOMAIN phis <=> c[p] \in DOMAIN fn.phis
  BY CodeNames, SamePHIs
<1> HIDE DEF h
<1>4. h \in DOMAIN c /\ Ok(h)
  <2> HIDE DEF c
  <2>1. h \in DOMAIN c /\ \A q \in 1..(h - 1) : q \in DOMAIN c
    BY <1>1
  <2> QED BY <1>1, <1>2, <1>3, <2>1
<1>5. ASSUME NEW p \in DOMAIN c, Ok(p) PROVE p = h
  <2>1. p \in Nat /\ p >= 1
    BY <1>1
  <2>2. ~ (p < h)
    BY <1>1, <1>3, <1>5, <2>1
  <2>3. ~ (h < p)
    BY <1>1, <1>4, <1>5, <2>1
  <2> QED BY <1>1, <2>1, <2>2, <2>3
<1>6. FirstNonPHI(<<b, 0>>) = CHOOSE p \in DOMAIN c : Ok(p)
  BY DEF FirstNonPHI
<1> HIDE DEF c, Ok
<1> QED BY <1>4, <1>5, <1>6 DEF h

LEMMA PassFacts ==
    ASSUME IInv, PassInv
    PROVE  /\ fn \in Functions /\ fn.blocks \subseteq Nat
           /\ \A b \in fn.blocks : Turn(b) \in 0..Size(b)
           /\ \A b \in fn.blocks : <<b, 0>> \in Blocks
           /\ \A b : ~ Split(b) => \A k \in {1, 2, 3} : <<b, k>> \notin Blocks
           /\ \A t \in DOMAIN Targets :
                 Targets[t][1] \in Reachable(fn) /\ Targets[t][1] \in fn.blocks /\ Targets[t][2] \in AllValues(fn) \cap fn.ints
           /\ next \in DOMAIN Targets => BB \in fn.blocks /\ BB \in Reachable(fn)
           /\ DOMAIN code = Blocks
<1>1. fn \in Functions /\ fn.blocks \subseteq Nat
  BY CodeAssumption DEF IsCode, IInv
<1>2. \A b \in fn.blocks : Size(b) \in Nat
  BY <1>1, FirstFacts
<1>3. \A b \in fn.blocks : Turn(b) \in 0..Size(b)
  <2>1. pc = "tail" => IIT \in 1..(Size(BB) + 1)
    BY DEF PassInv, TargetsInv
  <2> QED BY <1>2, <2>1 DEF Turn
<1>4. \A b \in fn.blocks : <<b, 0>> \in Blocks
  BY DEF PassInv, BlocksInv
<1>5. \A b : ~ Split(b) => \A k \in {1, 2, 3} : <<b, k>> \notin Blocks
  BY DEF PassInv, BlocksInv
<1>6. \A t \in DOMAIN Targets :
         Targets[t][1] \in Reachable(fn) /\ Targets[t][1] \in fn.blocks /\ Targets[t][2] \in AllValues(fn) \cap fn.ints
  <2>1. Targets \in Seq((Reachable(fn) \ fn.pads) \X ((AllValues(fn) \cap fn.ints) \ fn.globals))
    BY DEF PassInv, TargetsInv
  <2>2. Reachable(fn) \subseteq fn.blocks
    BY DEF Reachable, ReachedOver
  <2>3. \A t \in DOMAIN Targets : Targets[t] \in (Reachable(fn) \ fn.pads) \X ((AllValues(fn) \cap fn.ints) \ fn.globals)
    BY <2>1
  <2> QED BY <2>2, <2>3
<1>7. next \in DOMAIN Targets => BB \in fn.blocks /\ BB \in Reachable(fn)
  BY <1>6 DEF BB
<1>8. DOMAIN code = Blocks
  BY DEF Blocks
<1> QED BY <1>1, <1>3, <1>4, <1>5, <1>6, <1>7, <1>8

LEMMA SplitFacts ==
    ASSUME IInv, PassInv, SplitBB
    PROVE  /\ BB \in fn.blocks /\ next \in DOMAIN Targets /\ pc = "clone" /\ pc' = "tail"
           /\ fn' = fn /\ next' = next /\ Targets' = Targets /\ ReMapper' = ReMapper
           /\ VMap' = <<NoValues, NoValues>> /\ IIT' = 1
           /\ ~ Split(BB) /\ code[<<BB, 0>>] = fn.code[BB] /\ FirstNonPHI(<<BB, 0>>) = First(BB)
           /\ Blocks' = Blocks \cup {<<BB, 1>>, <<BB, 2>>, <<BB, 3>>}
           /\ \A c \in fn.blocks : Split(c)' <=> Split(c) \/ c = BB
           /\ \A c \in fn.blocks : Turn(c)' = IF c = BB THEN 0 ELSE Turn(c)
           /\ \A c \in fn.blocks : Turn(c) = Size(c)
           /\ \A v : Remap(v)' = Remap(v)
           /\ \A c \in fn.blocks : \A v : Cloning(c, v)' <=> Cloning(c, v)
<1>1. /\ next \in DOMAIN Targets /\ pc = "clone" /\ pc' = "tail"
      /\ fn' = fn /\ next' = next /\ Targets' = Targets /\ ReMapper' = ReMapper
      /\ VMap' = <<NoValues, NoValues>> /\ IIT' = 1
  BY DEF SplitBB, vars
<1>2. BB \in fn.blocks /\ BB' = BB /\ fn \in Functions
  BY <1>1, PassFacts DEF BB
<1>3. ~ Split(BB)
  <2>1. next >= next
    BY DEF PassInv, TargetsInv
  <2> QED BY <1>1, <2>1 DEF PassInv, TargetsInv, BB
<1>4. code[<<BB, 0>>] = fn.code[BB]
  BY <1>2, <1>3 DEF PassInv, CodeInv
<1>5. FirstNonPHI(<<BB, 0>>) = First(BB)
  BY <1>2, <1>4, HeadFirst, PassFacts DEF PassInv
<1>6. Blocks' = Blocks \cup {<<BB, 1>>, <<BB, 2>>, <<BB, 3>>}
  BY DEF SplitBB, Blocks, Clone, LtTail
<1>7. \A c \in fn.blocks : Split(c)' <=> Split(c) \/ c = BB
  BY <1>6 DEF Split
<1>8. \A c \in fn.blocks : Turn(c) = Size(c)
  BY <1>1 DEF Turn
<1>9. \A c \in fn.blocks : Turn(c)' = IF c = BB THEN 0 ELSE Turn(c)
  <2>1. \A c : Size(c)' = Size(c)
    BY <1>1, SameFunction
  <2> QED BY <1>1, <1>2, <1>8, <2>1 DEF Turn
<1>10. \A v : Remap(v)' = Remap(v)
  BY <1>1 DEF Remap
<1>11. \A c \in fn.blocks : \A v : Cloning(c, v)' <=> Cloning(c, v)
  <2>1. \A c, r : Body(c, r)' = Body(c, r)
    BY <1>1, SameFunction
  <2> QED BY <1>3, <1>7, <1>9, <2>1 DEF Cloning
<1> QED BY <1>1, <1>2, <1>3, <1>4, <1>5, <1>6, <1>7, <1>8, <1>9, <1>10, <1>11

\* The code of the block that is split, by parts.
LEMMA SplitCode ==
    ASSUME IInv, PassInv, SplitBB
    PROVE  LET b == BB
               h == First(b)
           IN  /\ code'[<<b, 0>>] \in Seq(Names) /\ code'[<<b, 3>>] \in Seq(Names)
               /\ code'[<<b, 1>>] = <<>> /\ code'[<<b, 2>>] = <<>>
               /\ Len(code'[<<b, 0>>]) = h /\ code'[<<b, 0>>][h] = <<b, 4>>
               /\ \A p \in 1..(h - 1) : code'[<<b, 0>>][p] = fn.code[b][p]
               /\ Len(code'[<<b, 3>>]) = Size(b) + 1
               /\ \A r \in 1..(Size(b) + 1) : code'[<<b, 3>>][r] = Body(b, r)
               /\ \A B \in Blocks : B # <<b, 0>> => code'[B] = code[B]
<1> DEFINE b == BB
           h == First(b)
           c == fn.code[b]
<1>1. /\ b \in fn.blocks /\ fn \in Functions
      /\ ~ Split(b) /\ code[<<b, 0>>] = c /\ FirstNonPHI(<<b, 0>>) = h
  BY SplitFacts DEF IInv
<1>2. /\ h \in Nat /\ h >= 1 /\ Size(b) \in Nat /\ Len(c) = h + Size(b)
      /\ c \in Seq(Names) /\ <<b, 4>> \in Names
  BY <1>1, FirstFacts, CodeNames DEF Names
<1>3. /\ <<b, 0>> \in Blocks /\ <<b, 1>> \notin Blocks /\ <<b, 2>> \notin Blocks /\ <<b, 3>> \notin Blocks
  BY <1>1, PassFacts
<1>4. code' = [B \in Blocks \cup {<<b, 1>>, <<b, 2>>, <<b, 3>>} |->
                         IF B = <<b, 0>> THEN Append(SubSeq(c, 1, h - 1), <<b, 4>>)
                         ELSE IF B = <<b, 3>> THEN SubSeq(c, h, Len(c))
                         ELSE IF B \in {<<b, 1>>, <<b, 2>>} THEN <<>> ELSE code[B]]
  BY <1>1 DEF SplitBB, IfThenElse, Clone, LtTail
<1> HIDE DEF b, h
<1>5. /\ SubSeq(c, 1, h - 1) \in Seq(Names) /\ Len(SubSeq(c, 1, h - 1)) = h - 1
      /\ \A p \in 1..(h - 1) : SubSeq(c, 1, h - 1)[p] = c[p]
  <2> HIDE DEF c
  <2> QED BY <1>2, SubSeqProperties
<1>6. /\ SubSeq(c, h, Len(c)) \in Seq(Names) /\ Len(SubSeq(c, h, Len(c))) = Size(b) + 1
      /\ \A r \in 1..(Size(b) + 1) : SubSeq(c, h, Len(c))[r] = c[h + r - 1]
  <2> HIDE DEF c
  <2> QED BY <1>2, SubSeqProperties
<1>7. /\ Append(SubSeq(c, 1, h - 1), <<b, 4>>) \in Seq(Names)
      /\ Len(Append(SubSeq(c, 1, h - 1), <<b, 4>>)) = h
      /\ Append(SubSeq(c, 1, h - 1), <<b, 4>>)[h] = <<b, 4>>
      /\ \A p \in 1..(h - 1) : Append(SubSeq(c, 1, h - 1), <<b, 4>>)[p] = c[p]
  <2> HIDE DEF c
  <2> QED BY <1>2, <1>5, AppendProperties
<1>8. /\ code'[<<b, 0>>] = Append(SubSeq(c, 1, h - 1), <<b, 4>>)
      /\ code'[<<b, 3>>] = SubSeq(c, h, Len(c))
      /\ code'[<<b, 1>>] = <<>> /\ code'[<<b, 2>>] = <<>>
      /\ \A B \in Blocks : B # <<b, 0>> => code'[B] = code[B]
  <2> DEFINE U == Append(SubSeq(c, 1, h - 1), <<b, 4>>)
             W == SubSeq(c, h, Len(c))
  <2>1. code' = [B \in Blocks \cup {<<b, 1>>, <<b, 2>>, <<b, 3>>} |->
                         IF B = <<b, 0>> THEN U ELSE IF B = <<b, 3>> THEN W
                         ELSE IF B \in {<<b, 1>>, <<b, 2>>} THEN <<>> ELSE code[B]]
    BY <1>4
  <2> HIDE DEF U, W
  <2>2. code'[<<b, 0>>] = U /\ code'[<<b, 3>>] = W
    BY <1>3, <2>1
  <2>3. code'[<<b, 1>>] = <<>> /\ code'[<<b, 2>>] = <<>>
    BY <1>3, <2>1
  <2>4. \A B \in Blocks : B # <<b, 0>> => code'[B] = code[B]
    BY <1>3, <2>1
  <2> QED BY <2>2, <2>3, <2>4 DEF U, W
<1>9. \A r : Body(b, r) = c[h + r - 1]
  BY DEF Body, h
<1> HIDE DEF c
<1>10. \A r \in 1..(Size(b) + 1) : code'[<<b, 3>>][r] = Body(b, r)
  BY <1>6, <1>8, <1>9
<1>11. \A p \in 1..(h - 1) : code'[<<b, 0>>][p] = c[p]
  BY <1>7, <1>8
<1>12. /\ code'[<<b, 0>>] \in Seq(Names) /\ code'[<<b, 3>>] \in Seq(Names)
       /\ Len(code'[<<b, 0>>]) = h /\ code'[<<b, 0>>][h] = <<b, 4>>
       /\ Len(code'[<<b, 3>>]) = Size(b) + 1
  BY <1>6, <1>7, <1>8
<1> QED BY <1>8, <1>10, <1>11, <1>12 DEF b, h, c

LEMMA SplitInv ==
    ASSUME IInv, PassInv, SplitBB
    PROVE  PassInv'
<1>0. PICK b : b = BB
  OBVIOUS
<1>1. /\ b \in fn.blocks /\ next \in DOMAIN Targets /\ pc = "clone" /\ pc' = "tail"
      /\ fn' = fn /\ next' = next /\ Targets' = Targets /\ ReMapper' = ReMapper
      /\ VMap' = <<NoValues, NoValues>> /\ IIT' = 1
      /\ ~ Split(b) /\ code[<<b, 0>>] = fn.code[b] /\ FirstNonPHI(<<b, 0>>) = First(b)
      /\ Blocks' = Blocks \cup {<<b, 1>>, <<b, 2>>, <<b, 3>>}
      /\ \A c \in fn.blocks : Split(c)' <=> Split(c) \/ c = b
      /\ \A c \in fn.blocks : Turn(c)' = IF c = b THEN 0 ELSE Turn(c)
      /\ \A c \in fn.blocks : Turn(c) = Size(c)
      /\ \A v : Remap(v)' = Remap(v)
      /\ \A c \in fn.blocks : \A v : Cloning(c, v)' <=> Cloning(c, v)
  BY <1>0, SplitFacts
<1>2. /\ fn \in Functions
      /\ \A c \in fn.blocks : Turn(c) \in 0..Size(c)
      /\ \A c \in fn.blocks : <<c, 0>> \in Blocks
      /\ \A c : ~ Split(c) => \A k \in {1, 2, 3} : <<c, k>> \notin Blocks
      /\ \A t \in DOMAIN Targets : Targets[t][1] \in fn.blocks
      /\ DOMAIN code = Blocks
  BY PassFacts
<1>3. /\ Insts' = Insts /\ Names' = Names
      /\ \A c : First(c)' = First(c)
      /\ \A c : Size(c)' = Size(c)
      /\ \A c, r : Body(c, r)' = Body(c, r)
  BY <1>1, SameFunction
<1>4. BB' = b /\ b = Targets[next][1]
  BY <1>0, <1>1 DEF BB
<1>5. \A c \in fn.blocks : Exit(c)' = IF c = b THEN <<b, 3>> ELSE Exit(c)
  BY <1>1 DEF Exit
<1>6. \A B : B \in Blocks => B \in fn.blocks \X (0..3) /\ (B[2] = 0 \/ Split(B[1]))
  BY DEF PassInv, BlocksInv
<1>7. \A B \in Blocks : B[1] = b => B = <<b, 0>>
  BY <1>1, <1>6
<1>8. TargetsInv'
  <2>1. \A t \in DOMAIN Targets : t > next => ~ Split(Targets[t][1]) /\ Targets[t][1] # b
    BY <1>1, <1>4 DEF PassInv, TargetsInv
  <2>2. (\A t \in DOMAIN Targets : t > next => ~ Split(Targets[t][1]))'
    BY <1>1, <1>2, <2>1
  <2>3. (IIT \in 1..(Size(BB) + 1) /\ Split(BB))'
    <3>1. Size(b) \in Nat
      BY <1>1, <1>2, FirstFacts
    <3> QED BY <1>1, <1>3, <1>4, <3>1
  <2>4. /\ pc' \in {"analyse", "find", "clone", "tail", "done"} /\ next' \in Nat
        /\ Targets' \in Seq((Reachable(fn') \ fn'.pads) \X ((AllValues(fn') \cap fn'.ints) \ fn'.globals))
        /\ \A t \in DOMAIN Targets' :
          Targets'[t][2] \in TerminatorResults(fn') \/ Targets'[t][1] \in AvailableIn(fn', Targets'[t][2])
        /\ \A s, t \in DOMAIN Targets' : Targets'[s][1] = Targets'[t][1] => s = t
    BY <1>1 DEF PassInv, TargetsInv
  <2> QED BY <1>1, <2>2, <2>3, <2>4 DEF TargetsInv
<1>9. BlocksInv'
  <2>1. Blocks' = {B \in fn.blocks \X (0..3) : B[2] = 0 \/ Split(B[1])'}
    <3>1. ASSUME NEW B \in fn.blocks \X (0..3), B[2] = 0 \/ Split(B[1])'
          PROVE  B \in Blocks'
      <4>1. CASE B[1] = b
        BY <1>1, <1>2, <3>1, <4>1
      <4>2. CASE B[1] # b
        BY <1>1, <3>1, <4>2 DEF PassInv, BlocksInv
      <4> QED BY <4>1, <4>2
    <3>2. ASSUME NEW B \in Blocks'
          PROVE  B \in fn.blocks \X (0..3) /\ (B[2] = 0 \/ Split(B[1])')
      BY <1>1, <1>6, <3>2
    <3> QED BY <3>1, <3>2
  <2>2. succ' = [B \in Blocks' |->
                         IF B = <<b, 0>> THEN {<<b, 1>>, <<b, 2>>}
                         ELSE IF B = <<b, 3>> THEN succ[<<b, 0>>]
                         ELSE IF B \in {<<b, 1>>, <<b, 2>>} THEN {<<b, 3>>} ELSE succ[B]]
    BY <1>0, <1>1 DEF SplitBB, IfThenElse, Clone, LtTail
  <2>3. \A B \in Blocks : succ[B] = SuccOf(B)
    BY DEF PassInv, BlocksInv
  <2>4. succ[<<b, 0>>] = fn.succ[b] \X {0}
    BY <1>1, <1>2, <2>3 DEF SuccOf
  <2>5. ASSUME NEW B \in Blocks', B[1] = b PROVE succ'[B] = SuccOf(B)'
    <3>1. B \in {<<b, 0>>, <<b, 1>>, <<b, 2>>, <<b, 3>>}
      BY <1>1, <1>7, <2>5
    <3>2. SuccOf(<<b, 0>>)' = {<<b, 1>>, <<b, 2>>} /\ SuccOf(<<b, 3>>)' = fn.succ[b] \X {0}
      BY <1>1 DEF SuccOf
    <3>3. SuccOf(<<b, 1>>)' = {<<b, 3>>} /\ SuccOf(<<b, 2>>)' = {<<b, 3>>}
      BY DEF SuccOf
    <3>4. /\ succ'[<<b, 0>>] = {<<b, 1>>, <<b, 2>>} /\ succ'[<<b, 3>>] = fn.succ[b] \X {0}
          /\ succ'[<<b, 1>>] = {<<b, 3>>} /\ succ'[<<b, 2>>] = {<<b, 3>>}
      <4>1. \A k \in 0..3 : <<b, k>> \in Blocks'
        BY <1>1, <1>2
      <4> QED BY <2>2, <2>4, <4>1
    <3> QED BY <3>1, <3>2, <3>3, <3>4
  <2>6. ASSUME NEW B \in Blocks', B[1] # b PROVE succ'[B] = SuccOf(B)'
    <3>1. B \in Blocks /\ succ'[B] = succ[B] /\ B[1] \in fn.blocks
      BY <1>1, <1>6, <2>2, <2>6
    <3>2. SuccOf(B)' = SuccOf(B)
      BY <1>1, <2>6, <3>1 DEF SuccOf
    <3> QED BY <2>3, <3>1, <3>2
  <2>7. \A c \in fn.blocks : Split(c)' => \E t \in DOMAIN Targets' : Targets'[t][1] = c
    BY <1>1, <1>4 DEF PassInv, BlocksInv
  <2>8. DOMAIN succ' = Blocks'
    BY <2>2
  <2> QED BY <1>1, <2>1, <2>5, <2>6, <2>7, <2>8 DEF BlocksInv
<1>10. ReMapInv'
  BY <1>1, <1>3 DEF PassInv, ReMapInv
<1>11. CodeInv'
  <2>1. /\ code'[<<b, 0>>] \in Seq(Names) /\ code'[<<b, 3>>] \in Seq(Names)
        /\ code'[<<b, 1>>] = <<>> /\ code'[<<b, 2>>] = <<>>
        /\ Len(code'[<<b, 0>>]) = First(b) /\ code'[<<b, 0>>][First(b)] = <<b, 4>>
        /\ \A p \in 1..(First(b) - 1) : code'[<<b, 0>>][p] = fn.code[b][p]
        /\ Len(code'[<<b, 3>>]) = Size(b) + 1
        /\ \A r \in 1..(Size(b) + 1) : code'[<<b, 3>>][r] = Body(b, r)
        /\ \A B \in Blocks : B # <<b, 0>> => code'[B] = code[B]
    BY <1>0, SplitCode
  <2>2. \A B \in Blocks' : code'[B] \in Seq(Names)
    <3>1. \A B \in Blocks : code[B] \in Seq(Names)
      BY DEF PassInv, CodeInv
    <3>2. <<>> \in Seq(Names)
      OBVIOUS
    <3>3. ASSUME NEW B \in Blocks', B \notin {<<b, 0>>, <<b, 1>>, <<b, 2>>, <<b, 3>>}
          PROVE  code'[B] \in Seq(Names)
      <4>1. B \in Blocks /\ B # <<b, 0>>
        BY <1>1, <3>3
      <4> QED BY <2>1, <3>1, <4>1
    <3>4. \A B \in {<<b, 0>>, <<b, 1>>, <<b, 2>>, <<b, 3>>} : code'[B] \in Seq(Names)
      <4> HIDE <3>1, <3>3
      <4> QED BY <2>1, <3>2
    <3> QED BY <3>3, <3>4
  <2>3. HeadInv(b)'
    BY <1>1, <1>3, <2>1 DEF HeadInv
  <2>4. BranchInv(b, 1)' /\ BranchInv(b, 2)'
    BY <1>1, <1>3, <2>1 DEF BranchInv
  <2>5. TailInv(b)'
    <3>1. \A r \in 1..(Size(b) + 1) : Remap(Body(b, r)) = Body(b, r)
      BY <1>1, <1>2, KeptBody, FirstFacts DEF PassInv
    <3> QED BY <1>1, <1>3, <1>4, <2>1, <3>1, ZenonT(30) DEF TailInv
  <2>6. ASSUME NEW c \in fn.blocks, c # b
        PROVE  IF Split(c)' THEN (HeadInv(c) /\ BranchInv(c, 1) /\ BranchInv(c, 2) /\ TailInv(c))'
               ELSE code'[<<c, 0>>] = fn.code[c]
    <3>1. CASE Split(c)
      <4>1. \A k \in 0..3 : <<c, k>> \in Blocks /\ <<c, k>> # <<b, 0>>
        BY <2>6, <3>1 DEF PassInv, BlocksInv
      <4>2. \A k \in 0..3 : code'[<<c, k>>] = code[<<c, k>>]
        BY <2>1, <4>1
      <4>3. code'[<<c, 0>>] = code[<<c, 0>>] /\ code'[<<c, 3>>] = code[<<c, 3>>]
        BY <4>2
      <4>4. HeadInv(c) /\ BranchInv(c, 1) /\ BranchInv(c, 2) /\ TailInv(c)
        BY <3>1 DEF PassInv, CodeInv
      <4>5. HeadInv(c)'
        BY <1>1, <1>3, <4>3, <4>4 DEF HeadInv
      <4>6. BranchInv(c, 1)' /\ BranchInv(c, 2)'
        BY <1>1, <1>3, <2>6, <4>2, <4>4 DEF BranchInv
      <4>7. TailInv(c)'
        <5>1. ~ (pc = "tail" /\ c = BB) /\ ~ (pc' = "tail" /\ c = BB')
          BY <1>1, <1>4, <2>6
        <5> QED BY <1>1, <1>3, <4>3, <4>4, <5>1 DEF TailInv
      <4> QED BY <1>1, <3>1, <4>5, <4>6, <4>7
    <3>2. CASE ~ Split(c)
      <4>1. code[<<c, 0>>] = fn.code[c] /\ <<c, 0>> \in Blocks
        BY <1>2, <3>2 DEF PassInv, CodeInv
      <4> QED BY <1>1, <2>1, <2>6, <3>2, <4>1
    <3> QED BY <3>1, <3>2
  <2> QED BY <1>1, <1>3, <2>2, <2>3, <2>4, <2>5, <2>6 DEF CodeInv
<1>12. PhisInv'
  <2>1. phis' = [i \in DOMAIN phis |->
                  [P \in {IF Q = <<b, 0>> THEN <<b, 3>> ELSE Q : Q \in DOMAIN phis[i]} |->
                     phis[i][IF P = <<b, 3>> THEN <<b, 0>> ELSE P]]]
    BY <1>0 DEF SplitBB, IfThenElse, LtTail
  <2>2. ASSUME NEW j \in DOMAIN fn.phis
        PROVE  /\ DOMAIN phis'[j] = {Exit(p)' : p \in DOMAIN fn.phis[j]}
               /\ \A p \in DOMAIN fn.phis[j] : phis'[j][Exit(p)'] = Remap(fn.phis[j][p])'
    <3>1. /\ j \in DOMAIN phis
          /\ DOMAIN phis[j] = {Exit(p) : p \in DOMAIN fn.phis[j]}
          /\ \A p \in DOMAIN fn.phis[j] : phis[j][Exit(p)] = Remap(fn.phis[j][p])
      BY DEF PassInv, PhisInv
    <3>3. \A p : Exit(p)' = IF Exit(p) = <<b, 0>> THEN <<b, 3>> ELSE Exit(p)
      BY <1>1, <1>2 DEF Exit, Split
    <3>4. \A p : Exit(p) = IF Exit(p)' = <<b, 3>> THEN <<b, 0>> ELSE Exit(p)'
      <4>1. \A p : Exit(p) # <<b, 3>>
        BY <1>1 DEF Exit
      <4> QED BY <3>3, <4>1
    <3>5. DOMAIN phis'[j] = {IF Q = <<b, 0>> THEN <<b, 3>> ELSE Q : Q \in DOMAIN phis[j]}
      BY <2>1, <3>1
    <3>6. \A P \in DOMAIN phis'[j] : phis'[j][P] = phis[j][IF P = <<b, 3>> THEN <<b, 0>> ELSE P]
      BY <2>1, <3>1
    <3>7. DOMAIN phis'[j] = {Exit(p)' : p \in DOMAIN fn.phis[j]}
      BY <3>1, <3>3, <3>5
    <3>8. \A p \in DOMAIN fn.phis[j] : phis'[j][Exit(p)'] = phis[j][Exit(p)]
      BY <3>4, <3>6, <3>7
    <3> QED BY <1>1, <3>1, <3>7, <3>8
  <2>3. ASSUME NEW v \in DOMAIN ReMapper, NEW c \in fn.blocks, v \in fn.insts[c]
        PROVE  /\ DOMAIN phis'[<<v[1], 3>>] = {<<c, 1>>, <<c, 2>>}
               /\ \A P \in {<<c, 1>>, <<c, 2>>} : phis'[<<v[1], 3>>][P] = <<v[1], P[2]>>
    <3>1. /\ <<v[1], 3>> \in DOMAIN phis
          /\ DOMAIN phis[<<v[1], 3>>] = {<<c, 1>>, <<c, 2>>}
          /\ \A P \in {<<c, 1>>, <<c, 2>>} : phis[<<v[1], 3>>][P] = <<v[1], P[2]>>
      BY <2>3 DEF PassInv, PhisInv
    <3>2. {IF Q = <<b, 0>> THEN <<b, 3>> ELSE Q : Q \in {<<c, 1>>, <<c, 2>>}} = {<<c, 1>>, <<c, 2>>}
      OBVIOUS
    <3>3. phis'[<<v[1], 3>>] = [P \in {<<c, 1>>, <<c, 2>>} |->
                                  phis[<<v[1], 3>>][IF P = <<b, 3>> THEN <<b, 0>> ELSE P]]
      BY <2>1, <3>1, <3>2
    <3> QED BY <3>1, <3>3
  <2>4. DOMAIN phis' = DOMAIN phis
    BY <2>1
  <2> QED BY <1>1, <2>2, <2>3, <2>4 DEF PassInv, PhisInv
<1>13. OpsInv'
  <2>1. ops' = [i \in DOMAIN ops \cup {<<b, 4>>} |->
                         IF i = <<b, 4>> THEN {Remap(Targets[next][2])} ELSE ops[i]]
    BY <1>0 DEF SplitBB
  <2>2. \A j \in DOMAIN fn.ops : j = <<j[1], 0>>
    BY <1>2, CodeAssumption, ValueNames DEF IsCode, Insts, Values
  <2>3. \A c, k, o : CloneOperand(c, k, o)' = CloneOperand(c, k, o)
    BY <1>1, <1>3 DEF CloneOperand, InBody
  <2>4. (DOMAIN ops = ((DOMAIN fn.ops) \ DOMAIN ReMapper)
                    \cup {<<c, 4>> : c \in {d \in fn.blocks : Split(d)}}
                    \cup {<<i[1], k>> : i \in {v \in Insts : \E c \in fn.blocks : Cloning(c, v)}, k \in {1, 2}})'
    <3>1. {v \in Insts' : \E c \in fn'.blocks : Cloning(c, v)'} = {v \in Insts : \E c \in fn.blocks : Cloning(c, v)}
      BY <1>1, <1>3
    <3>2. {<<c, 4>> : c \in {d \in fn'.blocks : Split(d)'}}
             = {<<c, 4>> : c \in {d \in fn.blocks : Split(d)}} \cup {<<b, 4>>}
      BY <1>1
    <3>3. DOMAIN ops' = DOMAIN ops \cup {<<b, 4>>}
      BY <2>1
    <3>4. DOMAIN ops = ((DOMAIN fn.ops) \ DOMAIN ReMapper)
                    \cup {<<c, 4>> : c \in {d \in fn.blocks : Split(d)}}
                    \cup {<<i[1], k>> : i \in {v \in Insts : \E c \in fn.blocks : Cloning(c, v)}, k \in {1, 2}}
      BY DEF PassInv, OpsInv
    <3> QED BY <1>1, <3>1, <3>2, <3>3, <3>4
  <2>5. \A j \in (DOMAIN fn.ops) \ DOMAIN ReMapper : ops'[j] = {Remap(o) : o \in fn.ops[j]}
    BY <2>1, <2>2 DEF PassInv, OpsInv
  <2>6. ASSUME NEW c \in fn.blocks, NEW k \in {1, 2}, NEW r \in 1..Turn(c)', Split(c)'
        PROVE  ops'[<<Body(c, r)[1], k>>] = {CloneOperand(c, k, o) : o \in fn.ops[Body(c, r)]}
    <3>1. c # b /\ r \in 1..Turn(c) /\ Split(c)
      BY <1>1, <2>6
    <3>2. Body(c, r) \in Insts /\ Cloning(c, Body(c, r))
      <4>1. Turn(c) \in 0..Size(c) /\ Size(c) \in Nat
        BY <1>2, FirstFacts
      <4>2. r \in 1..(Size(c) + 1)
        BY <3>1, <4>1
      <4>3. Body(c, r) \in fn.insts[c]
        BY <1>2, <4>2, FirstFacts
      <4> QED BY <3>1, <4>3 DEF Insts, Cloning
    <3>3. <<Body(c, r)[1], k>> \in DOMAIN ops /\ <<Body(c, r)[1], k>> # <<b, 4>>
      BY <3>2 DEF PassInv, OpsInv
    <3>4. ops[<<Body(c, r)[1], k>>] = {CloneOperand(c, k, o) : o \in fn.ops[Body(c, r)]}
      BY <3>1 DEF PassInv, OpsInv
    <3> QED BY <2>1, <3>3, <3>4
  <2>7. ASSUME NEW t \in DOMAIN Targets, Split(Targets[t][1])'
        PROVE  ops'[<<Targets[t][1], 4>>] = {Remap(Targets[t][2])}
    <3>1. CASE Targets[t][1] = b
      <4>1. t = next
        BY <1>1, <1>4, <3>1 DEF PassInv, TargetsInv
      <4> QED BY <2>1, <3>1, <4>1
    <3>2. CASE Targets[t][1] # b
      <4>1. Split(Targets[t][1])
        BY <1>1, <1>2, <2>7, <3>2
      <4>2. <<Targets[t][1], 4>> \in DOMAIN ops /\ <<Targets[t][1], 4>> # <<b, 4>>
        BY <1>2, <3>2, <4>1 DEF PassInv, OpsInv
      <4> QED BY <2>1, <4>1, <4>2 DEF PassInv, OpsInv
    <3> QED BY <3>1, <3>2
  <2> QED
    <3>1. (\A j \in (DOMAIN fn.ops) \ DOMAIN ReMapper : ops[j] = {Remap(o) : o \in fn.ops[j]})'
      BY <1>1, <2>5
    <3>2. (\A c \in fn.blocks : \A k \in {1, 2} : \A r \in 1..Turn(c) : Split(c) =>
          ops[<<Body(c, r)[1], k>>] = {CloneOperand(c, k, o) : o \in fn.ops[Body(c, r)]})'
      BY <1>1, <1>3, <2>3, <2>6
    <3>3. (\A t \in DOMAIN Targets : Split(Targets[t][1]) =>
          ops[<<Targets[t][1], 4>>] = {Remap(Targets[t][2])})'
      BY <1>1, <2>7
    <3> QED BY <2>4, <3>1, <3>2, <3>3 DEF OpsInv
<1>14. VMapInv'
  BY <1>1 DEF VMapInv, NoValues
<1> QED BY <1>8, <1>9, <1>10, <1>11, <1>12, <1>13, <1>14 DEF PassInv

--------------------------------------------------------------------------------
(* What an instruction of a block may use. *)

\* A block that is reached is reached without the edges out of it.
LEMMA SelfReached ==
    ASSUME NEW f, NEW b \in Reachable(f), NEW E, \A e \in Edges(f) \ E : e[1] = b
    PROVE  b \in ReachedOver(f.blocks, E, {f.entry})
<1>1. b \in f.blocks
  BY DEF Reachable, ReachedOver
<1>2. ASSUME NEW S \in SUBSET f.blocks, f.entry \in S, ClosedUnder(S, E), b \notin S
      PROVE  FALSE
  <2>1. ClosedUnder(S, Edges(f))
    BY <1>2 DEF ClosedUnder
  <2>2. b \in S
    BY <1>2, <2>1 DEF Reachable, ReachedOver
  <2> QED BY <1>2, <2>2
<1> QED BY <1>1, <1>2 DEF ReachedOver

\* Where a value of a reached block is available: not in the block itself.
LEMMA NotAtOwnStart ==
    ASSUME fn \in Functions, NEW b \in Reachable(fn), NEW o \in fn.insts[b]
    PROVE  b \notin AvailableIn(fn, o)
<1>1. b \in fn.blocks
  BY DEF Reachable, ReachedOver
<1>2. o \notin fn.args \cup fn.globals /\ \A c \in fn.blocks : o \in fn.insts[c] => c = b
  BY <1>1, FunctionsAssumption DEF IsFunction
<1>3. \A e \in Edges(fn) \ (Edges(fn) \ DefiningEdges(fn, o)) : e[1] = b
  BY <1>2 DEF DefiningEdges, Edges
<1>4. b \in ReachedOver(fn.blocks, Edges(fn) \ DefiningEdges(fn, o), {fn.entry})
  BY <1>3, SelfReached
<1> QED BY <1>2, <1>4 DEF AvailableIn

\* An operand that the block computes itself it computes before; any other is available in it.
LEMMA OperandFacts ==
    ASSUME fn \in Functions, NEW b \in Reachable(fn), NEW r \in 1..(Size(b) + 1),
           NEW o \in fn.ops[Body(b, r)]
    PROVE  /\ o \in Values \ fn.voids /\ o = <<o[1], 0>>
           /\ \A s \in 1..(Size(b) + 1) : o = Body(b, s) => s < r
           /\ o \in fn.insts[b] \/ b \in AvailableIn(fn, o)
<1>1. b \in fn.blocks
  BY DEF Reachable, ReachedOver
<1>2. /\ First(b) \in Nat /\ Size(b) \in Nat /\ First(b) >= 1
      /\ Len(fn.code[b]) = First(b) + Size(b) /\ DOMAIN fn.code[b] = 1..Len(fn.code[b])
      /\ IsInjective(fn.code[b])
      /\ Body(b, r) \in fn.insts[b] \ DOMAIN fn.phis
  BY <1>1, FirstFacts, CodeFacts
<1>3. First(b) + r - 1 \in DOMAIN fn.code[b]
  BY <1>2
<1>4. Body(b, r) = fn.code[b][First(b) + r - 1]
  BY DEF Body
<1>5. Body(b, r) \in DOMAIN fn.ops
  BY <1>1, <1>2, CodeAssumption DEF IsCode
<1>6. fn.ops[Body(b, r)] \subseteq Values \ fn.voids
  BY <1>5, CodeAssumption DEF IsCode, Values, Insts
<1> DEFINE p0 == First(b) + r - 1
<1>7. (\E q \in 1..(p0 - 1) : fn.code[b][q] = o) \/ b \in AvailableIn(fn, o)
  <2>1. \A p \in DOMAIN fn.code[b] :
           fn.code[b][p] \notin DOMAIN fn.phis =>
             \A x \in fn.ops[fn.code[b][p]] :
                (\E q \in 1..(p - 1) : fn.code[b][q] = x) \/ b \in AvailableIn(fn, x)
    BY <1>1, CodeAssumption DEF IsCode
  <2> HIDE DEF p0
  <2>2. p0 \in DOMAIN fn.code[b] /\ fn.code[b][p0] \notin DOMAIN fn.phis /\ o \in fn.ops[fn.code[b][p0]]
    BY <1>2, <1>3, <1>4 DEF p0
  <2> QED BY <2>1, <2>2
<1>8. ASSUME NEW s \in 1..(Size(b) + 1), o = Body(b, s)
      PROVE  s < r
  <2>1. o \in fn.insts[b]
    BY <1>1, <1>8, FirstFacts
  <2>2. PICK q \in 1..(p0 - 1) : fn.code[b][q] = o
    BY <1>7, <2>1, NotAtOwnStart
  <2>3. q \in DOMAIN fn.code[b] /\ First(b) + s - 1 \in DOMAIN fn.code[b]
    BY <1>2, <2>2
  <2>4. fn.code[b][First(b) + s - 1] = o
    BY <1>8 DEF Body
  <2>5. q = First(b) + s - 1
    BY <1>2, <2>2, <2>3, <2>4 DEF IsInjective
  <2> QED BY <1>2, <2>2, <2>5
<1>9. o \in fn.insts[b] \/ b \in AvailableIn(fn, o)
  <2>1. ASSUME NEW q \in 1..(p0 - 1), fn.code[b][q] = o PROVE o \in fn.insts[b]
    <3>1. q \in DOMAIN fn.code[b]
      BY <1>2
    <3>2. fn.code[b] \in Seq(fn.insts[b])
      BY <1>1, CodeFacts
    <3> QED BY <1>2, <2>1, <3>1, <3>2, ElementOfSeq
  <2> QED BY <1>7, <2>1
<1> QED BY <1>6, <1>8, <1>9, ValueNames

\* A value is replaced by one that can be told from it.
LEMMA RemapFacts ==
    ASSUME ReMapInv, NEW v, v = <<v[1], 0>>
    PROVE  /\ Remap(v) = IF v \in DOMAIN ReMapper THEN <<v[1], 3>> ELSE v
           /\ Remap(v)[1] = v[1]
           /\ \A w : w = <<w[1], 0>> /\ Remap(w) = Remap(v) => w = v
<1>1. \A w : w = <<w[1], 0>> => Remap(w) = (IF w \in DOMAIN ReMapper THEN <<w[1], 3>> ELSE w) /\ Remap(w)[1] = w[1]
  BY DEF ReMapInv, Remap
<1> QED BY <1>1

--------------------------------------------------------------------------------
(* Cloning an instruction. *)

\* What the loop over lt-tail has come to.
AtInstr == pc = "tail" /\ IIT < Len(code[LtTail])

LEMMA InstrFacts ==
    ASSUME IInv, PassInv, AtInstr
    PROVE  /\ fn \in Functions /\ BB \in fn.blocks /\ BB \in Reachable(fn) /\ Split(BB)
           /\ IIT \in 1..Size(BB) /\ Size(BB) \in Nat /\ Turn(BB) = IIT - 1
           /\ Instr = Body(BB, IIT) /\ Instr \in fn.insts[BB] /\ Instr = <<Instr[1], 0>>
           /\ Instr \notin DOMAIN ReMapper /\ Instr \in Insts /\ Instr \in DOMAIN fn.ops
           /\ \A c \in fn.blocks : ~ Cloning(c, Instr)
           /\ \A r \in 1..(Size(BB) + 1) : r # IIT => Body(BB, r) # Instr
<1>1. /\ pc = "tail" /\ next \in DOMAIN Targets /\ Split(BB) /\ IIT \in 1..(Size(BB) + 1)
  BY DEF PassInv, TargetsInv, AtInstr
<1>2. /\ fn \in Functions /\ BB \in fn.blocks /\ BB \in Reachable(fn)
      /\ \A b \in fn.blocks : Turn(b) \in 0..Size(b)
  BY <1>1, PassFacts
<1>3. Size(BB) \in Nat
  BY <1>2, FirstFacts
<1>4. Len(code[LtTail]) = Size(BB) + 1 /\ \A r \in 1..(Size(BB) + 1) : code[LtTail][r] = Remap(Body(BB, r))
  BY <1>1, <1>2 DEF PassInv, CodeInv, TailInv, LtTail
<1>5. IIT \in 1..Size(BB)
  BY <1>1, <1>3, <1>4 DEF AtInstr
<1>6. Turn(BB) = IIT - 1
  BY <1>1 DEF Turn
<1>7. \A c \in fn.blocks : ~ Cloning(c, Body(BB, IIT))
  <2> SUFFICES ASSUME NEW c \in fn.blocks, NEW r \in 1..Turn(c), Body(BB, IIT) = Body(c, r)
               PROVE  FALSE
    BY DEF Cloning
  <2>1. r \in 1..(Size(c) + 1) /\ IIT \in 1..(Size(BB) + 1)
    BY <1>2, <1>3, <1>5, FirstFacts
  <2>2. BB = c /\ IIT = r
    BY <1>2, <2>1, BodyUnique
  <2> QED BY <1>3, <1>5, <1>6, <2>2
<1>8. Body(BB, IIT) \in fn.insts[BB] \ DOMAIN fn.phis
  BY <1>2, <1>1, FirstFacts
<1>9. Body(BB, IIT) \in Insts /\ Body(BB, IIT) = <<Body(BB, IIT)[1], 0>>
  BY <1>2, <1>8, ValueNames DEF Insts, Values
<1>10. Body(BB, IIT) \notin DOMAIN ReMapper
  BY <1>7 DEF PassInv, ReMapInv
<1>11. Body(BB, IIT) \in DOMAIN fn.ops
  BY <1>2, <1>8, <1>9, CodeAssumption DEF IsCode, Insts
<1>12. Instr = Body(BB, IIT)
  BY <1>1, <1>4, <1>10 DEF Instr, Remap
<1>13. \A r \in 1..(Size(BB) + 1) : r # IIT => Body(BB, r) # Body(BB, IIT)
  BY <1>1, <1>2, BodyUnique
<1> HIDE <1>4
<1> QED BY <1>1, <1>2, <1>3, <1>5, <1>6, <1>7, <1>8, <1>9, <1>10, <1>11, <1>12, <1>13

\* The clones use the clones of their branch, and otherwise what the original would.
LEMMA OperandsCloned ==
    ASSUME IInv, PassInv, AtInstr, NEW k \in {1, 2}
    PROVE  Remapped(k, Instr) = {CloneOperand(BB, k, o) : o \in fn.ops[Instr]}
<1>0. PICK b, I : b = BB /\ I = Instr
  OBVIOUS
<1>1. /\ fn \in Functions /\ b \in Reachable(fn) /\ pc = "tail"
      /\ IIT \in 1..Size(b) /\ Size(b) \in Nat /\ b \in fn.blocks
      /\ I = Body(b, IIT) /\ I \notin DOMAIN ReMapper /\ I \in DOMAIN fn.ops
  BY <1>0, InstrFacts DEF AtInstr
<1>2. ops[I] = {Remap(o) : o \in fn.ops[I]}
  BY <1>1 DEF PassInv, OpsInv
<1>3. /\ DOMAIN VMap[k] = {Remap(Body(b, s)) : s \in 1..(IIT - 1)}
      /\ \A v \in DOMAIN VMap[k] : VMap[k][v] = <<v[1], k>>
  BY <1>0, <1>1 DEF PassInv, VMapInv
<1>4. ReMapInv
  BY DEF PassInv
<1>5. ASSUME NEW o \in fn.ops[I]
      PROVE  (IF Remap(o) \in DOMAIN VMap[k] THEN VMap[k][Remap(o)] ELSE Remap(o)) = CloneOperand(b, k, o)
  <2>1. IIT \in 1..(Size(b) + 1)
    BY <1>1
  <2>2. o = <<o[1], 0>> /\ \A s \in 1..(Size(b) + 1) : o = Body(b, s) => s < IIT
    BY <1>1, <2>1, OperandFacts
  <2>3. Remap(o)[1] = o[1] /\ \A w : w = <<w[1], 0>> /\ Remap(w) = Remap(o) => w = o
    BY <1>4, <2>2, RemapFacts
  <2>4. CASE InBody(b, o)
    <3>1. PICK s \in 1..Size(b) : o = Body(b, s)
      BY <2>4 DEF InBody
    <3>2. s \in 1..(IIT - 1)
      BY <1>1, <2>2, <3>1
    <3>3. Remap(o) \in DOMAIN VMap[k]
      BY <1>3, <3>1, <3>2
    <3>4. VMap[k][Remap(o)] = <<o[1], k>>
      BY <1>3, <2>3, <3>3
    <3> QED BY <2>4, <3>3, <3>4 DEF CloneOperand
  <2>5. CASE ~ InBody(b, o)
    <3>1. ASSUME NEW s \in 1..(IIT - 1), Remap(o) = Remap(Body(b, s))
          PROVE  FALSE
      <4>1. s \in 1..Size(b) /\ s \in 1..(Size(b) + 1)
        BY <1>1
      <4>2. Body(b, s) \in fn.insts[b]
        BY <1>1, <4>1, FirstFacts
      <4>3. Body(b, s) = <<Body(b, s)[1], 0>>
        BY <1>1, <4>2, ValueNames DEF Values, Insts
      <4>4. o = Body(b, s)
        BY <2>3, <3>1, <4>3
      <4> QED BY <2>5, <4>1, <4>4 DEF InBody
    <3>2. Remap(o) \notin DOMAIN VMap[k]
      BY <1>3, <3>1
    <3> QED BY <2>5, <3>2 DEF CloneOperand
  <2> QED BY <2>4, <2>5
<1>6. Remapped(k, I) = {IF Remap(o) \in DOMAIN VMap[k] THEN VMap[k][Remap(o)] ELSE Remap(o) : o \in fn.ops[I]}
  BY <1>2 DEF Remapped
<1>7. {IF Remap(o) \in DOMAIN VMap[k] THEN VMap[k][Remap(o)] ELSE Remap(o) : o \in fn.ops[I]}
         = {CloneOperand(b, k, o) : o \in fn.ops[I]}
  BY <1>5
<1> QED BY <1>0, <1>6, <1>7

\* One iteration advances the block that is being cloned and no other.
Advanced ==
    /\ fn' = fn /\ pc' = pc /\ next' = next /\ Targets' = Targets /\ succ' = succ
    /\ IIT' = IIT + 1 /\ DOMAIN code' = DOMAIN code

LEMMA LoopFacts ==
    ASSUME IInv, PassInv, AtInstr, Advanced
    PROVE  /\ BB' = BB
           /\ \A c \in fn.blocks : Turn(c)' = IF c = BB THEN IIT ELSE Turn(c)
           /\ \A c \in fn.blocks : \A v : Cloning(c, v)' <=> Cloning(c, v) \/ (c = BB /\ v = Instr)
           /\ TargetsInv' /\ BlocksInv'
<1>0. PICK b, I : b = BB /\ I = Instr
  OBVIOUS
<1>1. /\ fn \in Functions /\ pc = "tail" /\ Split(b)
      /\ IIT \in 1..Size(b) /\ Size(b) \in Nat /\ b \in fn.blocks /\ Turn(b) = IIT - 1
      /\ I = Body(b, IIT)
  BY <1>0, InstrFacts DEF AtInstr
<1>2. BB' = b
  BY <1>0 DEF BB, Advanced
<1>3. /\ \A c : Size(c)' = Size(c)
      /\ \A c, r : Body(c, r)' = Body(c, r)
  BY SameFunction DEF Advanced
<1>4. /\ Blocks' = Blocks
      /\ \A c : Split(c)' <=> Split(c)
  BY SameBlocks DEF Advanced
<1>5. \A c \in fn.blocks : Turn(c)' = IF c = b THEN IIT ELSE Turn(c)
  BY <1>0, <1>1, <1>2, <1>3 DEF Turn, Advanced
<1>6. ASSUME NEW c \in fn.blocks, NEW v
      PROVE  Cloning(c, v)' <=> Cloning(c, v) \/ (c = b /\ v = I)
  <2>1. CASE c = b
    <3>1. \A r : r \in 1..IIT <=> r \in 1..(IIT - 1) \/ r = IIT
      BY <1>1
    <3> QED BY <1>1, <1>3, <1>4, <1>5, <2>1, <3>1 DEF Cloning
  <2>2. CASE c # b
    BY <1>3, <1>4, <1>5, <2>2 DEF Cloning
  <2> QED BY <2>1, <2>2
<1>7. TargetsInv'
  <2>1. Size(BB)' = Size(b) /\ (Split(BB)' <=> Split(b))
    BY <1>2, <1>3, <1>4
  <2>2. IIT + 1 \in 1..(Size(b) + 1)
    BY <1>1
  <2> QED BY <1>1, <1>4, <2>1, <2>2 DEF PassInv, TargetsInv, Advanced
<1>8. BlocksInv'
  <2>1. \A B : SuccOf(B)' = SuccOf(B)
    BY <1>4 DEF SuccOf, Advanced
  <2> QED BY <1>1, <1>4, <2>1 DEF PassInv, BlocksInv, Advanced
<1> QED BY <1>0, <1>2, <1>5, <1>6, <1>7, <1>8

\* The clone of the instruction ends each branch.
LEMMA BranchesExtended ==
    ASSUME IInv, PassInv, AtInstr, Advanced, NEW k \in {1, 2},
           code'[<<BB, k>>] = Append(code[<<BB, k>>], <<Instr[1], k>>)
    PROVE  BranchInv(BB, k)' /\ code'[<<BB, k>>] \in Seq(Names)
<1>0. PICK b, I : b = BB /\ I = Instr
  OBVIOUS
<1>1. /\ fn \in Functions /\ Split(b) /\ fn' = fn /\ BB' = b /\ Turn(b)' = IIT
      /\ IIT \in 1..Size(b) /\ Size(b) \in Nat /\ b \in fn.blocks /\ Turn(b) = IIT - 1
      /\ I = Body(b, IIT) /\ I \in Insts
  BY <1>0, InstrFacts, LoopFacts DEF Advanced
<1>2. \A r : Body(b, r)' = Body(b, r)
  BY <1>1, SameFunction
<1>3. <<I[1], k>> \in Names
  BY <1>1 DEF Names, Values
<1>4. <<b, k>> \in Blocks /\ code[<<b, k>>] \in Seq(Names)
  BY <1>1 DEF PassInv, BlocksInv, CodeInv
<1>5. Len(code[<<b, k>>]) = IIT - 1 /\ \A r \in 1..(IIT - 1) : code[<<b, k>>][r] = <<Body(b, r)[1], k>>
  BY <1>1 DEF PassInv, CodeInv, BranchInv
<1>6. code'[<<b, k>>] = Append(code[<<b, k>>], <<I[1], k>>)
  BY <1>0
<1>7. /\ code'[<<b, k>>] \in Seq(Names) /\ Len(code'[<<b, k>>]) = IIT
      /\ code'[<<b, k>>][IIT] = <<I[1], k>>
      /\ \A r \in 1..(IIT - 1) : code'[<<b, k>>][r] = code[<<b, k>>][r]
  <2> DEFINE c == code[<<b, k>>]
             x == <<I[1], k>>
  <2>1. /\ c \in Seq(Names) /\ x \in Names /\ Len(c) = IIT - 1 /\ IIT \in Nat
        /\ code'[<<b, k>>] = Append(c, x)
    BY <1>1, <1>3, <1>4, <1>5, <1>6
  <2> HIDE DEF c, x
  <2>2. /\ Append(c, x) \in Seq(Names) /\ Len(Append(c, x)) = IIT /\ Append(c, x)[IIT] = x
        /\ \A r \in 1..(IIT - 1) : Append(c, x)[r] = c[r]
    BY ONLY <2>1, AppendProperties
  <2> QED BY ONLY <2>1, <2>2 DEF c, x
<1>8. \A r \in 1..IIT : code'[<<b, k>>][r] = <<Body(b, r)[1], k>>
  <2>1. \A r \in 1..IIT : r \in 1..(IIT - 1) \/ r = IIT
    BY <1>1
  <2> QED BY <1>1, <1>5, <1>7, <2>1
<1>9. BranchInv(b, k)'
  BY <1>1, <1>2, <1>7, <1>8 DEF BranchInv
<1>10. BranchInv(BB, k)'
  BY <1>1, <1>9
<1> QED BY <1>0, <1>7, <1>10

\* The blocks that are not being cloned keep their code.
LEMMA OthersKept ==
    ASSUME IInv, PassInv, AtInstr, Advanced, NEW c \in fn.blocks, c # BB,
           \A k \in 0..3 : code'[<<c, k>>] = code[<<c, k>>]
    PROVE  (IF Split(c) THEN HeadInv(c) /\ BranchInv(c, 1) /\ BranchInv(c, 2) /\ TailInv(c)
            ELSE code[<<c, 0>>] = fn.code[c])'
<1>0. fn' = fn /\ BB' = BB /\ Turn(c)' = Turn(c)
  BY LoopFacts DEF Advanced
<1>1. /\ \A d, r : Body(d, r)' = Body(d, r)
      /\ \A d : First(d)' = First(d)
      /\ \A d : Size(d)' = Size(d)
  BY <1>0, SameFunction
<1>2. Split(c)' <=> Split(c)
  BY SameBlocks DEF Advanced
<1>3. code'[<<c, 0>>] = code[<<c, 0>>] /\ code'[<<c, 3>>] = code[<<c, 3>>]
  OBVIOUS
<1>4. CASE Split(c)
  <2>1. HeadInv(c) /\ BranchInv(c, 1) /\ BranchInv(c, 2) /\ TailInv(c)
    BY <1>4 DEF PassInv, CodeInv
  <2>2. HeadInv(c)'
    BY <1>0, <1>1, <1>3, <2>1 DEF HeadInv
  <2>3. BranchInv(c, 1)' /\ BranchInv(c, 2)'
    BY <1>0, <1>1, <2>1 DEF BranchInv
  <2>4. TailInv(c)'
    <3>1. ~ (pc = "tail" /\ c = BB) /\ ~ (pc' = "tail" /\ c = BB')
      BY <1>0
    <3> QED BY <1>0, <1>1, <1>3, <2>1, <3>1 DEF TailInv
  <2> QED BY <1>2, <1>4, <2>2, <2>3, <2>4
<1>5. CASE ~ Split(c)
  BY <1>0, <1>2, <1>3, <1>5 DEF PassInv, CodeInv
<1> QED BY <1>4, <1>5

LEMMA CodeExtended ==
    ASSUME IInv, PassInv, AtInstr, Advanced, TailInv(BB)', code'[LtTail] \in Seq(Names),
           \A B \in Blocks : B # LtTail => code'[B] = Inserted(Instr)[B]
    PROVE  CodeInv'
<1>0. PICK b, I : b = BB /\ I = Instr
  OBVIOUS
<1>1. /\ fn \in Functions /\ Split(b) /\ fn' = fn /\ b \in fn.blocks /\ BB' = b
  BY <1>0, InstrFacts, LoopFacts DEF Advanced
<1>2. /\ Blocks' = Blocks /\ Names' = Names
      /\ \A c : Split(c)' <=> Split(c)
      /\ \A c : First(c)' = First(c)
  BY <1>1, SameBlocks, SameFunction DEF Advanced
<1>3. \A k \in 0..3 : <<b, k>> \in Blocks
  BY <1>1 DEF PassInv, BlocksInv
<1>4. \A k \in {1, 2} : code'[<<b, k>>] = Append(code[<<b, k>>], <<I[1], k>>)
  <2> DEFINE Longer(B) == Append(code[B], <<I[1], B[2]>>)
  <2>1. Inserted(I) = [B \in Blocks |-> IF B \in {<<b, 1>>, <<b, 2>>} THEN Longer(B) ELSE code[B]]
    BY <1>0 DEF Inserted, Clone
  <2>2. \A k \in {1, 2} : code'[<<b, k>>] = Inserted(I)[<<b, k>>]
    BY <1>0, <1>3 DEF LtTail
  <2> HIDE DEF Longer
  <2>3. \A k \in {1, 2} : Inserted(I)[<<b, k>>] = Longer(<<b, k>>)
    BY <1>3, <2>1
  <2> QED BY <2>2, <2>3 DEF Longer
<1>5. \A B \in Blocks : B \notin {<<b, 1>>, <<b, 2>>, <<b, 3>>} => code'[B] = code[B]
  BY <1>0 DEF LtTail, Inserted, Clone
<1>6. /\ BranchInv(BB, 1)' /\ code'[<<b, 1>>] \in Seq(Names)
      /\ BranchInv(BB, 2)' /\ code'[<<b, 2>>] \in Seq(Names)
  <2> HIDE <1>5
  <2> QED BY <1>0, <1>4, BranchesExtended
<1>7. \A B \in Blocks : code'[B] \in Seq(Names)
  <2>1. ASSUME NEW B \in Blocks, B \in {<<b, 1>>, <<b, 2>>, <<b, 3>>} PROVE code'[B] \in Seq(Names)
    BY <1>0, <1>6, <2>1 DEF LtTail
  <2>2. ASSUME NEW B \in Blocks, B \notin {<<b, 1>>, <<b, 2>>, <<b, 3>>} PROVE code'[B] \in Seq(Names)
    <3>1. code'[B] = code[B]
      BY <1>5, <2>2
    <3> QED BY <3>1 DEF PassInv, CodeInv
  <2> QED BY <2>1, <2>2
<1>8. HeadInv(b)'
  <2>1. code'[<<b, 0>>] = code[<<b, 0>>]
    BY <1>3, <1>5
  <2>2. HeadInv(b)
    BY <1>1 DEF PassInv, CodeInv
  <2> QED BY <1>1, <1>2, <2>1, <2>2 DEF HeadInv
<1>9. \A c \in fn.blocks : c # b =>
         (IF Split(c) THEN HeadInv(c) /\ BranchInv(c, 1) /\ BranchInv(c, 2) /\ TailInv(c)
          ELSE code[<<c, 0>>] = fn.code[c])'
  <2> SUFFICES ASSUME NEW c \in fn.blocks, c # b
               PROVE  (IF Split(c) THEN HeadInv(c) /\ BranchInv(c, 1) /\ BranchInv(c, 2) /\ TailInv(c)
                       ELSE code[<<c, 0>>] = fn.code[c])'
    OBVIOUS
  <2>1. c # BB /\ <<c, 0>> \in Blocks
    BY <1>0, PassFacts
  <2>2. CASE Split(c)
    <3>1. \A k \in 0..3 : code'[<<c, k>>] = code[<<c, k>>]
      <4>1. \A k \in 0..3 : <<c, k>> \in Blocks
        BY <2>2 DEF PassInv, BlocksInv
      <4> QED BY <1>5, <4>1
    <3> QED BY <2>1, <3>1, OthersKept
  <2>3. CASE ~ Split(c)
    <3>1. code'[<<c, 0>>] = code[<<c, 0>>]
      BY <1>5, <2>1
    <3>2. code[<<c, 0>>] = fn.code[c]
      BY <2>3 DEF PassInv, CodeInv
    <3>3. ~ Split(c)'
      BY <1>2, <2>3
    <3> QED BY <1>1, <3>1, <3>2, <3>3
  <2> QED BY <2>2, <2>3
<1>10. BranchInv(b, 1)' /\ BranchInv(b, 2)' /\ TailInv(b)' /\ Split(b)'
  BY <1>1, <1>2, <1>6
<1> QED BY <1>1, <1>2, <1>7, <1>8, <1>9, <1>10 DEF CodeInv

\* The clones are added to the operands, and where the instruction is replaced by J so are
\* its uses.
LEMMA OpsExtended ==
    ASSUME IInv, PassInv, AtInstr, Advanced, NEW I, I = Instr, NEW J,
           DOMAIN ReMapper \subseteq DOMAIN ReMapper', DOMAIN ReMapper' \subseteq DOMAIN ReMapper \cup {I},
           ops' = [j \in (DOMAIN Cloned(I)) \ DOMAIN ReMapper' |->
                     {Renamed(o, I, J) : o \in Cloned(I)[j]}],
           \A v : v = <<v[1], 0>> => Remap(v)' = Renamed(Remap(v), I, J)
    PROVE  OpsInv'
<1>0. PICK b : b = BB /\ I = Instr
  OBVIOUS
<1> DEFINE I1 == <<I[1], 1>>
           I2 == <<I[1], 2>>
<1>1. /\ fn \in Functions /\ Split(b) /\ fn' = fn /\ b \in fn.blocks /\ BB' = b /\ Turn(b)' = IIT
      /\ IIT \in 1..Size(b) /\ Turn(b) = IIT - 1 /\ Targets' = Targets
      /\ I = Body(b, IIT) /\ I \in Insts /\ I = <<I[1], 0>> /\ I \in DOMAIN fn.ops
      /\ \A c \in fn.blocks : ~ Cloning(c, I)
      /\ \A c \in fn.blocks : c # b => Turn(c)' = Turn(c)
      /\ \A c \in fn.blocks : \A v : Cloning(c, v)' <=> Cloning(c, v) \/ (c = b /\ v = I)
  BY <1>0, InstrFacts, LoopFacts DEF Advanced
<1>2. /\ Insts' = Insts
      /\ \A c : Split(c)' <=> Split(c)
      /\ \A c : Size(c)' = Size(c)
      /\ \A c, r : Body(c, r)' = Body(c, r)
  BY <1>1, SameBlocks, SameFunction DEF Advanced
<1>3. DOMAIN ops = ((DOMAIN fn.ops) \ DOMAIN ReMapper)
                    \cup {<<c, 4>> : c \in {d \in fn.blocks : Split(d)}}
                    \cup {<<i[1], k>> : i \in {v \in Insts : \E c \in fn.blocks : Cloning(c, v)}, k \in {1, 2}}
  BY DEF PassInv, OpsInv
<1>4. /\ DOMAIN Cloned(I) = DOMAIN ops \cup {I1, I2}
      /\ \A j \in DOMAIN Cloned(I) : j \notin {I1, I2} => Cloned(I)[j] = ops[j]
      /\ Cloned(I)[I1] = Remapped(1, I) /\ Cloned(I)[I2] = Remapped(2, I)
  BY DEF Cloned
<1>5. /\ DOMAIN ops' = (DOMAIN ops \cup {I1, I2}) \ DOMAIN ReMapper'
      /\ \A j \in DOMAIN ops' : ops'[j] = {Renamed(o, I, J) : o \in Cloned(I)[j]}
  BY <1>0, <1>4
<1>6. \A v \in Insts : v = <<v[1], 0>>
  BY <1>1, ValueNames DEF Values
<1>7. DOMAIN ReMapper' \subseteq Insts /\ DOMAIN fn.ops \subseteq Insts
  <2>1. DOMAIN fn.ops = Insts \ DOMAIN fn.phis
    BY <1>1, CodeAssumption DEF IsCode, Insts
  <2>2. DOMAIN ReMapper \subseteq Insts
    BY DEF PassInv, ReMapInv
  <2> QED BY <1>0, <1>1, <2>1, <2>2
<1>8. \A v : v = <<v[1], 0>> => Remap(v)' = Renamed(Remap(v), I, J)
  BY <1>0
<1>9. \A c, k, o : k \in {1, 2} /\ o = <<o[1], 0>> => CloneOperand(c, k, o)' = Renamed(CloneOperand(c, k, o), I, J)
  <2>1. \A c, o : InBody(c, o)' <=> InBody(c, o)
    BY <1>2 DEF InBody
  <2> SUFFICES ASSUME NEW c, NEW k \in {1, 2}, NEW o, o = <<o[1], 0>>
               PROVE  CloneOperand(c, k, o)' = Renamed(CloneOperand(c, k, o), I, J)
    OBVIOUS
  <2>2. <<o[1], k>> # I
    BY <1>1
  <2>3. CASE InBody(c, o)
    BY <2>1, <2>2, <2>3 DEF CloneOperand, Renamed
  <2>4. CASE ~ InBody(c, o)
    BY <1>8, <2>1, <2>4 DEF CloneOperand
  <2> QED BY <2>3, <2>4
<1>10. \A j \in DOMAIN fn.ops : \A o \in fn.ops[j] : o = <<o[1], 0>>
  BY <1>1, CodeAssumption, ValueNames DEF IsCode, Values, Insts
<1> HIDE DEF I1, I2
<1>11. (DOMAIN ops = ((DOMAIN fn.ops) \ DOMAIN ReMapper)
                    \cup {<<c, 4>> : c \in {d \in fn.blocks : Split(d)}}
                    \cup {<<i[1], k>> : i \in {v \in Insts : \E c \in fn.blocks : Cloning(c, v)}, k \in {1, 2}})'
  <2> DEFINE Conds == {<<c, 4>> : c \in {d \in fn.blocks : Split(d)}}
             Done == {v \in Insts : \E c \in fn.blocks : Cloning(c, v)}
             Clones(S) == {<<i[1], k>> : i \in S, k \in {1, 2}}
  <2>1. {v \in Insts' : \E c \in fn'.blocks : Cloning(c, v)'} = Done \cup {I}
    BY <1>1, <1>2
  <2>2. Clones(Done \cup {I}) = Clones(Done) \cup {I1, I2}
    BY DEF I1, I2
  <2>3. {<<c, 4>> : c \in {d \in fn'.blocks : Split(d)'}} = Conds
    BY <1>1, <1>2
  <2>4. \A j \in Conds \cup Clones(Done) \cup {I1, I2} : j \notin DOMAIN ReMapper'
    BY <1>6, <1>7 DEF I1, I2
  <2>5. DOMAIN ops = ((DOMAIN fn.ops) \ DOMAIN ReMapper) \cup Conds \cup Clones(Done)
    BY <1>3
  <2> HIDE DEF Conds, Done, Clones
  <2>6. DOMAIN ops' = ((DOMAIN fn.ops) \ DOMAIN ReMapper') \cup Conds \cup (Clones(Done) \cup {I1, I2})
    BY <1>5, <2>4, <2>5
  <2> QED BY <1>1, <2>1, <2>2, <2>3, <2>6 DEF Clones
<1>12. (\A j \in (DOMAIN fn.ops) \ DOMAIN ReMapper : ops[j] = {Remap(o) : o \in fn.ops[j]})'
  <2>1. ASSUME NEW j \in (DOMAIN fn.ops) \ DOMAIN ReMapper'
        PROVE  ops'[j] = {Renamed(Remap(o), I, J) : o \in fn.ops[j]}
    <3>1. j \notin {I1, I2} /\ j \in DOMAIN ops /\ j \in DOMAIN ops'
      BY <1>3, <1>5, <1>6, <1>7 DEF I1, I2
    <3>2. ops'[j] = {Renamed(o, I, J) : o \in ops[j]}
      BY <1>4, <1>5, <3>1
    <3>3. ops[j] = {Remap(o) : o \in fn.ops[j]}
      BY DEF PassInv, OpsInv
    <3> QED BY ONLY <3>2, <3>3
  <2>2. \A S : (\A o \in S : o = <<o[1], 0>>) => {Remap(o)' : o \in S} = {Renamed(Remap(o), I, J) : o \in S}
    BY <1>8
  <2> QED BY <1>1, <1>10, <2>1, <2>2
<1>13. (\A c \in fn.blocks : \A k \in {1, 2} : \A r \in 1..Turn(c) : Split(c) =>
          ops[<<Body(c, r)[1], k>>] = {CloneOperand(c, k, o) : o \in fn.ops[Body(c, r)]})'
  <2> DEFINE T(c) == IF c = b THEN IIT ELSE Turn(c)
  <2>1. ASSUME NEW c \in fn.blocks, NEW k \in {1, 2}, NEW r \in 1..T(c), Split(c)
        PROVE  /\ \A o \in fn.ops[Body(c, r)] : o = <<o[1], 0>>
               /\ ops'[<<Body(c, r)[1], k>>] = {Renamed(CloneOperand(c, k, o), I, J) : o \in fn.ops[Body(c, r)]}
    <3> DEFINE i == Body(c, r)
               j == <<i[1], k>>
    <3>1. T(c) \in 0..Size(c) /\ Size(c) \in Nat
      BY <1>1, PassFacts, FirstFacts
    <3>2. r \in 1..(Size(c) + 1)
      BY <3>1
    <3>3. i \in fn.insts[c] /\ i \notin DOMAIN fn.phis
      BY <1>1, <3>2, FirstFacts
    <3>4. i \in Insts /\ i = <<i[1], 0>> /\ i \in DOMAIN fn.ops
      BY <1>1, <1>6, <3>3, CodeAssumption DEF Insts, IsCode
    <3>5. i = I \/ (i # I /\ r \in 1..Turn(c))
      BY <1>1
    <3>6. Cloning(c, i) \/ i = I
      BY <2>1, <3>5 DEF Cloning
    <3>7. i = I => c = b
      BY <1>1, <3>3, FunctionsAssumption, FirstFacts, SMTT(20) DEF IsFunction
    <3>8. i # I => ops[j] = {CloneOperand(c, k, o) : o \in fn.ops[i]}
      BY <2>1, <3>5 DEF PassInv, OpsInv
    <3> HIDE DEF i
    <3>9. Cloned(I)[j] = {CloneOperand(c, k, o) : o \in fn.ops[i]}
      <4>1. CASE i = I
        <5>1. Cloned(I)[j] = Remapped(k, I)
          BY <1>4, <4>1 DEF I1, I2
        <5> QED BY <1>0, <3>7, <4>1, <5>1, OperandsCloned
      <4>2. CASE i # I
        <5>1. j \in DOMAIN ops
          BY <1>3, <3>4, <3>6, <4>2
        <5>2. j \notin {I1, I2}
          BY <1>1, <3>4, <4>2 DEF I1, I2
        <5> QED BY <1>4, <3>8, <4>2, <5>1, <5>2
      <4> QED BY <4>1, <4>2
    <3>10. j \in DOMAIN ops'
      <4>1. j \notin DOMAIN ReMapper'
        BY <1>6, <1>7
      <4>2. j \in DOMAIN ops \cup {I1, I2}
        BY <1>3, <3>4, <3>6 DEF I1, I2
      <4> QED BY <1>5, <4>1, <4>2
    <3>11. ops'[j] = {Renamed(o, I, J) : o \in Cloned(I)[j]}
      BY <1>5, <3>10
    <3>12. ops'[j] = {Renamed(CloneOperand(c, k, o), I, J) : o \in fn.ops[i]}
      BY ONLY <3>9, <3>11
    <3> QED BY <1>10, <3>4, <3>12 DEF i
  <2>2. \A c \in fn.blocks : Turn(c)' = T(c)
    BY <1>1
  <2> HIDE DEF T
  <2>3. \A c \in fn.blocks : \A k \in {1, 2} : \A r \in 1..T(c) : Split(c) =>
           ops'[<<Body(c, r)[1], k>>] = {CloneOperand(c, k, o)' : o \in fn.ops[Body(c, r)]}
    <3> SUFFICES ASSUME NEW c \in fn.blocks, NEW k \in {1, 2}, NEW r \in 1..T(c), Split(c)
                 PROVE  ops'[<<Body(c, r)[1], k>>] = {CloneOperand(c, k, o)' : o \in fn.ops[Body(c, r)]}
      OBVIOUS
    <3>1. /\ \A o \in fn.ops[Body(c, r)] : o = <<o[1], 0>>
          /\ ops'[<<Body(c, r)[1], k>>] = {Renamed(CloneOperand(c, k, o), I, J) : o \in fn.ops[Body(c, r)]}
      BY <2>1
    <3>2. {CloneOperand(c, k, o)' : o \in fn.ops[Body(c, r)]}
              = {Renamed(CloneOperand(c, k, o), I, J) : o \in fn.ops[Body(c, r)]}
      BY ONLY <1>9, <3>1
    <3> QED BY ONLY <3>1, <3>2
  <2> QED BY ONLY <1>1, <1>2, <2>2, <2>3
<1>14. (\A t \in DOMAIN Targets : Split(Targets[t][1]) =>
          ops[<<Targets[t][1], 4>>] = {Remap(Targets[t][2])})'
  <2>1. ASSUME NEW t \in DOMAIN Targets, NEW c, c = Targets[t][1], NEW x, x = Targets[t][2], Split(c)
        PROVE  x = <<x[1], 0>> /\ ops'[<<c, 4>>] = {Renamed(Remap(x), I, J)}
    <3>1. c \in fn.blocks /\ x \in AllValues(fn)
      BY <2>1, PassFacts
    <3>2. x = <<x[1], 0>>
      BY <1>1, <3>1, ValueNames DEF AllValues, Values, Insts
    <3>3. ops[<<c, 4>>] = {Remap(x)} /\ <<c, 4>> \in DOMAIN ops
      BY <1>3, <2>1, <3>1 DEF PassInv, OpsInv
    <3>4. <<c, 4>> \in DOMAIN ops' /\ <<c, 4>> \notin {I1, I2}
      BY <1>5, <1>6, <1>7, <3>3 DEF I1, I2
    <3>5. ops'[<<c, 4>>] = {Renamed(Remap(x), I, J)}
      BY <1>4, <1>5, <3>3, <3>4
    <3> QED BY <3>2, <3>5
  <2>2. \A t \in DOMAIN Targets : Split(Targets[t][1]) =>
           /\ Targets[t][2] = <<Targets[t][2][1], 0>>
           /\ ops'[<<Targets[t][1], 4>>] = {Renamed(Remap(Targets[t][2]), I, J)}
    BY ONLY <2>1
  <2> QED BY ONLY <1>1, <1>2, <1>8, <2>2
<1> QED BY ONLY <1>11, <1>12, <1>13, <1>14 DEF OpsInv

LEMMA CloneVoidInv ==
    ASSUME IInv, PassInv, CloneVoid
    PROVE  PassInv'
<1>0. PICK b, I : b = BB /\ I = Instr
  OBVIOUS
<1>1. /\ AtInstr /\ Advanced /\ I \in fn.voids /\ phis' = phis /\ ReMapper' = ReMapper
      /\ code' = Inserted(I) /\ ops' = Cloned(I) /\ VMap' = <<Entered(1, I), Entered(2, I)>>
  BY <1>0 DEF CloneVoid, AtInstr, Advanced, Inserted, Blocks, vars
<1>2. /\ fn \in Functions /\ Split(b) /\ b \in fn.blocks /\ pc = "tail"
      /\ IIT \in 1..Size(b) /\ I = Body(b, IIT) /\ I = <<I[1], 0>>
      /\ I \notin DOMAIN ReMapper
  BY <1>0, <1>1, InstrFacts DEF AtInstr
<1>3. /\ fn' = fn /\ pc' = pc /\ IIT' = IIT + 1 /\ BB' = b
      /\ \A c \in fn.blocks : \A v : Cloning(c, v)' <=> Cloning(c, v) \/ (c = b /\ v = I)
      /\ TargetsInv' /\ BlocksInv'
  BY <1>0, <1>1, LoopFacts DEF Advanced
<1>4. /\ Insts' = Insts
      /\ \A c : Exit(c)' = Exit(c)
      /\ \A c : Size(c)' = Size(c)
      /\ \A c, r : Body(c, r)' = Body(c, r)
  BY <1>1, <1>3, SameBlocks, SameFunction DEF Advanced
<1>5. \A v : Remap(v)' = Remap(v)
  BY <1>1 DEF Remap
<1>6. ReMapInv'
  BY <1>1, <1>3, <1>4 DEF PassInv, ReMapInv
<1>7. CodeInv'
  <2>1. \A B \in Blocks : B # LtTail => code'[B] = Inserted(Instr)[B]
    BY <1>0, <1>1
  <2>2. LtTail = <<b, 3>> /\ LtTail \in Blocks
    BY <1>0, <1>2 DEF LtTail, PassInv, BlocksInv
  <2>3. code'[LtTail] = code[LtTail]
    BY <1>0, <1>1, <2>2 DEF Inserted, Clone
  <2>4. code[LtTail] \in Seq(Names)
    BY <2>2 DEF PassInv, CodeInv
  <2>5. TailInv(b)
    BY <1>2 DEF PassInv, CodeInv
  <2>6. TailInv(b)'
    <3>1. pc = "tail" /\ b = BB /\ pc' = "tail" /\ b = BB' /\ code'[<<b, 3>>] = code[<<b, 3>>]
      BY <1>0, <1>2, <1>3, <2>2, <2>3
    <3> QED BY <1>4, <1>5, <2>5, <3>1 DEF TailInv
  <2>7. TailInv(BB)'
    BY <1>3, <2>6
  <2> QED BY <1>1, <2>1, <2>3, <2>4, <2>7, CodeExtended
<1>8. PhisInv'
  BY <1>1, <1>3, <1>4, <1>5, ZenonT(30) DEF PassInv, PhisInv
<1>9. OpsInv'
  <2>1. \A v : Renamed(v, I, I) = v
    BY DEF Renamed
  <2>2. \A j \in DOMAIN ReMapper : j \in Insts /\ j = <<j[1], 0>>
    BY <1>2, ValueNames DEF PassInv, ReMapInv, Values
  <2>3. \A j \in DOMAIN Cloned(I) : j \notin DOMAIN ReMapper
    <3>1. DOMAIN Cloned(I) = DOMAIN ops \cup {<<I[1], 1>>, <<I[1], 2>>}
      BY DEF Cloned
    <3>2. \A j \in DOMAIN ops : j \notin DOMAIN ReMapper
      BY <2>2 DEF PassInv, OpsInv
    <3> QED BY <2>2, <3>1, <3>2
  <2>4. Cloned(I) = [j \in (DOMAIN Cloned(I)) \ DOMAIN ReMapper' |-> {Renamed(o, I, I) : o \in Cloned(I)[j]}]
    <3>1. \A S : {Renamed(o, I, I) : o \in S} = S
      BY <2>1
    <3>2. Cloned(I) = [j \in DOMAIN Cloned(I) |-> Cloned(I)[j]]
      BY DEF Cloned
    <3>3. (DOMAIN Cloned(I)) \ DOMAIN ReMapper' = DOMAIN Cloned(I)
      BY <1>1, <2>3
    <3> QED BY <3>1, <3>2, <3>3
  <2>5. \A v : v = <<v[1], 0>> => Remap(v)' = Renamed(Remap(v), I, I)
    BY <1>5, <2>1
  <2>6. ops' = [j \in (DOMAIN Cloned(I)) \ DOMAIN ReMapper' |-> {Renamed(o, I, I) : o \in Cloned(I)[j]}]
    BY <1>1, <2>4
  <2> HIDE <2>4
  <2> QED BY <1>0, <1>1, <2>5, <2>6, OpsExtended
<1>10. VMapInv'
  <2>1. /\ DOMAIN VMap = {1, 2}
        /\ \A k \in {1, 2} :
              /\ DOMAIN VMap[k] = {Remap(Body(b, r)) : r \in 1..(IIT - 1)}
              /\ \A v \in DOMAIN VMap[k] : VMap[k][v] = <<v[1], k>>
    BY <1>0, <1>2 DEF PassInv, VMapInv
  <2>2. Remap(Body(b, IIT)) = I
    BY <1>2 DEF Remap
  <2>3. DOMAIN VMap' = {1, 2} /\ \A k \in {1, 2} : VMap'[k] = Entered(k, I)
    BY <1>1
  <2>4. \A r : r \in 1..IIT <=> r \in 1..(IIT - 1) \/ r = IIT
    BY <1>2
  <2>5. ASSUME NEW k \in {1, 2}
        PROVE  /\ DOMAIN VMap'[k] = {Remap(Body(b, r)) : r \in 1..IIT}
               /\ \A v \in DOMAIN VMap'[k] : VMap'[k][v] = <<v[1], k>>
    BY <2>1, <2>2, <2>3, <2>4 DEF Entered
  <2>6. IIT' - 1 = IIT
    BY <1>2, <1>3
  <2> QED BY <1>3, <1>4, <1>5, <2>3, <2>5, <2>6 DEF VMapInv
<1> QED BY <1>3, <1>6, <1>7, <1>8, <1>9, <1>10 DEF PassInv

LEMMA CloneValueInv ==
    ASSUME IInv, PassInv, CloneValue
    PROVE  PassInv'
<1>0. PICK b, I : b = BB /\ I = Instr
  OBVIOUS
<1> DEFINE Phi == <<I[1], 3>>
<1>1. /\ AtInstr /\ Advanced /\ I \notin fn.voids
      /\ code' = [B \in Blocks |-> IF B = LtTail THEN [code[B] EXCEPT ![IIT] = Phi] ELSE Inserted(I)[B]]
      /\ ops' = [j \in (DOMAIN Cloned(I)) \ {I} |-> {Renamed(o, I, Phi) : o \in Cloned(I)[j]}]
      /\ phis' = [j \in DOMAIN phis \cup {Phi} |->
                         IF j = Phi THEN Incoming(<<I[1], 1>>, <<I[1], 2>>)
                         ELSE [P \in DOMAIN phis[j] |-> Renamed(phis[j][P], I, Phi)]]
      /\ VMap' = <<RAUW(Entered(1, I), I, Phi), RAUW(Entered(2, I), I, Phi)>>
      /\ ReMapper' = ReMapped(I, Phi)
  BY <1>0 DEF CloneValue, AtInstr, Advanced, Blocks, vars
<1>2. /\ fn \in Functions /\ Split(b) /\ b \in fn.blocks /\ pc = "tail"
      /\ IIT \in 1..Size(b) /\ Size(b) \in Nat /\ I = Body(b, IIT) /\ I = <<I[1], 0>>
      /\ I \notin DOMAIN ReMapper /\ I \in fn.insts[b] /\ I \in Insts
      /\ \A r \in 1..(Size(b) + 1) : r # IIT => Body(b, r) # I
  BY <1>0, <1>1, InstrFacts DEF AtInstr
<1>3. /\ fn' = fn /\ pc' = pc /\ IIT' = IIT + 1 /\ BB' = b
      /\ \A c \in fn.blocks : \A v : Cloning(c, v)' <=> Cloning(c, v) \/ (c = b /\ v = I)
      /\ TargetsInv' /\ BlocksInv'
  BY <1>0, <1>1, LoopFacts DEF Advanced
<1>4. /\ Insts' = Insts
      /\ \A c : Exit(c)' = Exit(c)
      /\ \A c : Size(c)' = Size(c)
      /\ \A c, r : Body(c, r)' = Body(c, r)
  BY <1>1, <1>3, SameBlocks, SameFunction DEF Advanced
<1>5. /\ DOMAIN ReMapper' = DOMAIN ReMapper \cup {I}
      /\ \A v \in DOMAIN ReMapper' : ReMapper'[v] = IF v = I THEN Phi ELSE ReMapper[v]
  BY <1>1 DEF ReMapped
<1>6. /\ \A v : Remap(v)' = IF v = I THEN Phi ELSE Remap(v)
      /\ Remap(I) = I
  BY <1>2, <1>5 DEF Remap
<1>7. ReMapInv
  BY DEF PassInv
<1>8. \A v : v = <<v[1], 0>> => Remap(v)' = Renamed(Remap(v), I, Phi)
  <2> SUFFICES ASSUME NEW v, v = <<v[1], 0>>
               PROVE  (IF v = I THEN Phi ELSE Remap(v)) = Renamed(Remap(v), I, Phi)
    BY <1>6
  <2>1. Remap(v) = I <=> v = I
    <3>1. Remap(v) = Remap(I) => v = I
      BY <1>2, <1>7, RemapFacts
    <3> QED BY <1>6, <3>1
  <2> QED BY <1>6, <2>1 DEF Renamed
<1>9. ReMapInv'
  <2>1. DOMAIN ReMapper' = {v \in Insts \ fn.voids : \E c \in fn.blocks : Cloning(c, v)'}
    BY <1>1, <1>2, <1>3, <1>5 DEF PassInv, ReMapInv
  <2>2. \A v \in DOMAIN ReMapper' : ReMapper'[v] = <<v[1], 3>>
    BY <1>5 DEF PassInv, ReMapInv
  <2> QED BY <1>3, <1>4, <2>1, <2>2 DEF ReMapInv
<1>10. CodeInv'
  <2>1. \A B \in Blocks : B # LtTail => code'[B] = Inserted(Instr)[B]
    BY <1>0, <1>1
  <2>2. LtTail = <<b, 3>> /\ LtTail \in Blocks
    BY <1>0, <1>2 DEF LtTail, PassInv, BlocksInv
  <2>3. code'[<<b, 3>>] = [code[<<b, 3>>] EXCEPT ![IIT] = Phi]
    BY <1>1, <2>2
  <2>4. code[<<b, 3>>] \in Seq(Names) /\ Phi \in Names
    BY <1>2, <2>2 DEF PassInv, CodeInv, Names, Values
  <2>5. /\ Len(code[<<b, 3>>]) = Size(b) + 1
        /\ \A r \in 1..(Size(b) + 1) : code[<<b, 3>>][r] = Remap(Body(b, r))
    BY <1>0, <1>2 DEF PassInv, CodeInv, TailInv
  <2>6. IIT \in 1..(Size(b) + 1)
    BY <1>2
  <2>7. /\ code'[<<b, 3>>] \in Seq(Names) /\ Len(code'[<<b, 3>>]) = Size(b) + 1
        /\ \A r \in 1..(Size(b) + 1) : code'[<<b, 3>>][r] = IF r = IIT THEN Phi ELSE code[<<b, 3>>][r]
    <3> DEFINE c == code[<<b, 3>>]
               n == Size(b) + 1
    <3>1. c \in Seq(Names) /\ Phi \in Names /\ Len(c) = n /\ n \in Nat /\ IIT \in 1..n
      BY <1>2, <2>4, <2>5, <2>6
    <3> HIDE DEF c, n, Phi
    <3>2. /\ [c EXCEPT ![IIT] = Phi] \in Seq(Names) /\ Len([c EXCEPT ![IIT] = Phi]) = n
          /\ \A r \in 1..n : [c EXCEPT ![IIT] = Phi][r] = IF r = IIT THEN Phi ELSE c[r]
      BY ONLY <3>1, ExceptSeq, LenProperties
    <3> QED BY <2>3, <3>2 DEF c, n
  <2>8. \A r \in 1..(Size(b) + 1) : code'[<<b, 3>>][r] = Remap(Body(b, r))'
    <3>1. \A r \in 1..(Size(b) + 1) : Remap(Body(b, r))' = IF r = IIT THEN Phi ELSE Remap(Body(b, r))
      BY <1>2, <1>4, <1>6
    <3> QED BY <2>5, <2>7, <3>1
  <2>9. TailInv(b)'
    <3>1. pc' = "tail" /\ b = BB'
      BY <1>2, <1>3
    <3> QED BY <1>4, <2>7, <2>8, <3>1 DEF TailInv
  <2>10. TailInv(BB)'
    BY <1>3, <2>9
  <2> QED BY <1>1, <2>1, <2>2, <2>7, <2>10, CodeExtended
<1>11. PhisInv'
  <2> HIDE DEF Phi
  <2>1. \A v \in DOMAIN ReMapper : v \in Insts /\ v = <<v[1], 0>>
    BY <1>2, ValueNames DEF PassInv, ReMapInv, Values
  <2>2. \A j \in DOMAIN fn.phis : /\ j \in DOMAIN phis /\ j # Phi
                                  /\ \A p \in DOMAIN fn.phis[j] : fn.phis[j][p] = <<fn.phis[j][p][1], 0>>
    <3>1. \A j \in DOMAIN fn.phis : j \in Insts /\ \A p \in DOMAIN fn.phis[j] : fn.phis[j][p] \in Values
      BY <1>2, CodeAssumption DEF IsCode, Values, Insts
    <3> QED BY <1>2, <3>1, ValueNames DEF PassInv, PhisInv, Values, Phi
  <2>3. DOMAIN phis' = DOMAIN fn.phis \cup {<<v[1], 3>> : v \in DOMAIN ReMapper'}
    <3>1. DOMAIN phis' = DOMAIN phis \cup {Phi}
      BY <1>1
    <3>2. {<<v[1], 3>> : v \in DOMAIN ReMapper'} = {<<v[1], 3>> : v \in DOMAIN ReMapper} \cup {Phi}
      BY <1>5 DEF Phi
    <3> QED BY <3>1, <3>2 DEF PassInv, PhisInv
  <2>4. ASSUME NEW j \in DOMAIN fn.phis
        PROVE  /\ DOMAIN phis'[j] = {Exit(p) : p \in DOMAIN fn.phis[j]}
               /\ \A p \in DOMAIN fn.phis[j] : phis'[j][Exit(p)] = Renamed(Remap(fn.phis[j][p]), I, Phi)
    <3>1. phis'[j] = [P \in DOMAIN phis[j] |-> Renamed(phis[j][P], I, Phi)]
      BY <1>1, <2>2
    <3>2. /\ DOMAIN phis[j] = {Exit(p) : p \in DOMAIN fn.phis[j]}
          /\ \A p \in DOMAIN fn.phis[j] : phis[j][Exit(p)] = Remap(fn.phis[j][p])
      BY DEF PassInv, PhisInv
    <3> QED BY <3>1, <3>2
  <2>5. ASSUME NEW v \in DOMAIN ReMapper', NEW c \in fn.blocks, v \in fn.insts[c]
        PROVE  /\ DOMAIN phis'[<<v[1], 3>>] = {<<c, 1>>, <<c, 2>>}
               /\ \A P \in {<<c, 1>>, <<c, 2>>} : phis'[<<v[1], 3>>][P] = <<v[1], P[2]>>
    <3>1. CASE v = I
      <4>1. c = b
        BY <1>2, <2>5, <3>1, FunctionsAssumption DEF IsFunction
      <4>2. phis'[Phi] = Incoming(<<I[1], 1>>, <<I[1], 2>>)
        BY <1>1
      <4>3. /\ DOMAIN phis'[Phi] = {<<b, 1>>, <<b, 2>>}
            /\ phis'[Phi][<<b, 1>>] = <<I[1], 1>> /\ phis'[Phi][<<b, 2>>] = <<I[1], 2>>
        BY <1>0, <4>2 DEF Incoming, Clone
      <4> QED BY <3>1, <4>1, <4>3 DEF Phi
    <3>2. CASE v # I
      <4>1. v \in DOMAIN ReMapper
        BY <1>5, <3>2
      <4>2. <<v[1], 3>> # Phi
        BY <1>2, <2>1, <3>2, <4>1 DEF Phi
      <4>3. /\ <<v[1], 3>> \in DOMAIN phis
            /\ DOMAIN phis[<<v[1], 3>>] = {<<c, 1>>, <<c, 2>>}
            /\ \A P \in {<<c, 1>>, <<c, 2>>} : phis[<<v[1], 3>>][P] = <<v[1], P[2]>>
        BY <2>5, <4>1 DEF PassInv, PhisInv
      <4>4. phis'[<<v[1], 3>>] = [P \in {<<c, 1>>, <<c, 2>>} |-> Renamed(phis[<<v[1], 3>>][P], I, Phi)]
        BY <1>1, <4>2, <4>3
      <4>5. \A P \in {<<c, 1>>, <<c, 2>>} : <<v[1], P[2]>> # I
        BY <1>2
      <4> QED BY <4>3, <4>4, <4>5 DEF Renamed
    <3> QED BY <3>1, <3>2
  <2>6. (\A j \in DOMAIN fn.phis :
          /\ DOMAIN phis[j] = {Exit(p) : p \in DOMAIN fn.phis[j]}
          /\ \A p \in DOMAIN fn.phis[j] : phis[j][Exit(p)] = Remap(fn.phis[j][p]))'
    <3>1. \A j \in DOMAIN fn.phis : DOMAIN phis'[j] = {Exit(p)' : p \in DOMAIN fn.phis[j]}
      <4> SUFFICES ASSUME NEW j \in DOMAIN fn.phis
                   PROVE  DOMAIN phis'[j] = {Exit(p)' : p \in DOMAIN fn.phis[j]}
        OBVIOUS
      <4> QED BY ONLY <1>4, <2>4
    <3>2. \A j \in DOMAIN fn.phis : \A p \in DOMAIN fn.phis[j] : \A v : v = fn.phis[j][p] =>
             phis'[j][Exit(p)'] = Remap(v)'
      BY ONLY <1>4, <1>8, <2>2, <2>4, SMTT(20)
    <3> QED BY ONLY <1>3, <3>1, <3>2
  <2>7. (\A v \in DOMAIN ReMapper : \A c \in fn.blocks : v \in fn.insts[c] =>
          /\ DOMAIN phis[<<v[1], 3>>] = {<<c, 1>>, <<c, 2>>}
          /\ \A P \in {<<c, 1>>, <<c, 2>>} : phis[<<v[1], 3>>][P] = <<v[1], P[2]>>)'
    BY ONLY <1>3, <2>5
  <2> QED BY ONLY <1>3, <2>3, <2>6, <2>7 DEF PhisInv
<1>12. OpsInv'
  <2>1. ops' = [j \in (DOMAIN Cloned(I)) \ DOMAIN ReMapper' |-> {Renamed(o, I, Phi) : o \in Cloned(I)[j]}]
    <3>1. \A j \in DOMAIN ReMapper : j \in Insts /\ j = <<j[1], 0>>
      BY <1>2, ValueNames DEF PassInv, ReMapInv, Values
    <3>2. DOMAIN Cloned(I) = DOMAIN ops \cup {<<I[1], 1>>, <<I[1], 2>>}
      BY DEF Cloned
    <3>3. \A j \in DOMAIN ops : j \notin DOMAIN ReMapper
      BY <3>1 DEF PassInv, OpsInv
    <3>4. (DOMAIN Cloned(I)) \ DOMAIN ReMapper' = (DOMAIN Cloned(I)) \ {I}
      BY <1>5, <3>1, <3>2, <3>3
    <3> HIDE DEF Phi
    <3> QED BY <1>1, <3>4
  <2>2. DOMAIN ReMapper \subseteq DOMAIN ReMapper' /\ DOMAIN ReMapper' \subseteq DOMAIN ReMapper \cup {I}
    BY <1>5
  <2>3. AtInstr /\ Advanced /\ I = Instr
    BY <1>0, <1>1
  <2> HIDE DEF Phi
  <2> QED BY <1>8, <2>1, <2>2, <2>3, OpsExtended
<1>13. VMapInv'
  <2>1. /\ DOMAIN VMap = {1, 2}
        /\ \A k \in {1, 2} :
              /\ DOMAIN VMap[k] = {Remap(Body(b, r)) : r \in 1..(IIT - 1)}
              /\ \A v \in DOMAIN VMap[k] : VMap[k][v] = <<v[1], k>>
    BY <1>0, <1>2 DEF PassInv, VMapInv
  <2>2. DOMAIN VMap' = {1, 2} /\ \A k \in {1, 2} : VMap'[k] = RAUW(Entered(k, I), I, Phi)
    BY <1>1
  <2>3. \A r : r \in 1..IIT <=> r \in 1..(IIT - 1) \/ r = IIT
    BY <1>2
  <2>4. \A r \in 1..(IIT - 1) : Body(b, r) # I /\ Body(b, r) = <<Body(b, r)[1], 0>>
    <3> SUFFICES ASSUME NEW r \in 1..(IIT - 1)
                 PROVE  Body(b, r) # I /\ Body(b, r) = <<Body(b, r)[1], 0>>
      OBVIOUS
    <3>1. r \in 1..(Size(b) + 1) /\ r # IIT
      BY <1>2
    <3>2. Body(b, r) \in fn.insts[b]
      BY <1>2, <3>1, FirstFacts
    <3> QED BY <1>2, <3>1, <3>2, ValueNames DEF Values, Insts
  <2>5. ASSUME NEW k \in {1, 2}, NEW v \in DOMAIN VMap[k]
        PROVE  v # I /\ v # Phi
    <3>1. PICK r \in 1..(IIT - 1) : v = Remap(Body(b, r))
      BY <2>1
    <3>2. v = Body(b, r) \/ (v = <<Body(b, r)[1], 3>> /\ Body(b, r) \in DOMAIN ReMapper)
      BY <1>7, <2>4, <3>1, RemapFacts
    <3>3. Body(b, r)[1] # I[1]
      BY <1>2, <2>4
    <3> QED BY <1>2, <2>4, <3>2, <3>3
  <2>6. ASSUME NEW k \in {1, 2}
        PROVE  /\ DOMAIN VMap'[k] = DOMAIN VMap[k] \cup {Phi}
               /\ \A v \in DOMAIN VMap'[k] : VMap'[k][v] = <<v[1], k>>
    <3>1. /\ DOMAIN Entered(k, I) = DOMAIN VMap[k] \cup {I}
          /\ Entered(k, I)[I] = <<I[1], k>>
          /\ \A v \in DOMAIN VMap[k] : Entered(k, I)[v] = <<v[1], k>>
      BY <2>1, <2>5 DEF Entered
    <3> DEFINE D == {Renamed(w, I, Phi) : w \in DOMAIN Entered(k, I)}
    <3>2. D = DOMAIN VMap[k] \cup {Phi}
      BY <2>5, <3>1 DEF Renamed
    <3>3. VMap'[k] = [v \in D |-> Entered(k, I)[IF v = Phi THEN I ELSE v]]
      BY <2>2 DEF RAUW
    <3> HIDE DEF D
    <3>4. DOMAIN VMap'[k] = DOMAIN VMap[k] \cup {Phi}
      BY <3>2, <3>3
    <3>5. VMap'[k][Phi] = <<I[1], k>> /\ Phi[1] = I[1]
      BY <3>1, <3>2, <3>3
    <3>6. \A v \in DOMAIN VMap[k] : VMap'[k][v] = <<v[1], k>>
      <4> HIDE DEF Phi
      <4> QED BY <2>5, <3>1, <3>2, <3>3
    <3> QED
      <4> HIDE DEF Phi
      <4> QED BY <3>4, <3>5, <3>6
  <2>7. \A r \in 1..(IIT - 1) : Remap(Body(b, r))' = Remap(Body(b, r))
    BY <1>4, <1>6, <2>4
  <2>8. Remap(Body(b, IIT)) = I
    BY <1>2, <1>6
  <2>9. \A k \in {1, 2} : DOMAIN VMap'[k] = {Remap(Body(b, r))' : r \in 1..IIT}
    <3>1. \A r \in 1..IIT : Remap(Body(b, r))' = IF r = IIT THEN Phi ELSE Remap(Body(b, r))
      <4>1. \A r : r = IIT => Remap(Body(b, r))' = Phi
        BY <1>2, <1>4, <1>6
      <4> QED BY <2>3, <2>7, <4>1
    <3> HIDE DEF Phi
    <3> QED BY <2>1, <2>3, <2>6, <3>1
  <2>10. IIT' - 1 = IIT
    BY <1>2, <1>3
  <2> QED BY <1>3, <2>2, <2>6, <2>9, <2>10 DEF VMapInv
<1> QED BY <1>3, <1>9, <1>10, <1>11, <1>12, <1>13 DEF PassInv

--------------------------------------------------------------------------------
(* Purging lt-tail. *)

\* The elements of c at the positions of at.
Picked(c, at) == [i \in DOMAIN at |-> c[at[i]]]

\* What is kept of the tail c of n instructions and a terminator is d: the PHIs and then the
\* terminator.
Purged(c, n, d) ==
    /\ Len(d) >= 1 /\ d[Len(d)] = c[n + 1]
    /\ \A p \in 1..(Len(d) - 1) : \E r \in 1..n : c[r] \notin fn.voids /\ d[p] = c[r]
    /\ \A r \in 1..n : c[r] \notin fn.voids => \E p \in 1..(Len(d) - 1) : d[p] = c[r]

LEMMA KeptTail ==
    ASSUME NEW n \in Nat, NEW N, NEW c \in Seq(N), Len(c) = n + 1,
           NEW at \in Ascending(Kept(c)), NEW d, d = Picked(c, at)
    PROVE  d \in Seq(N) /\ Purged(c, n, d)
<1> USE DEF Picked
<1> DEFINE K == Kept(c)
           m == Cardinality(K)
<1>1. DOMAIN c = 1..(n + 1)
  BY LenProperties
<1>2. K = {p \in 1..(n + 1) : c[p] \notin fn.voids \/ p = n + 1}
  BY <1>1 DEF Kept
<1>3. IsFiniteSet(K) /\ m \in Nat
  <2>1. IsFiniteSet(1..(n + 1))
    <3>1. 1 \in Int /\ n + 1 \in Int
      OBVIOUS
    <3> QED BY <3>1, FS_Interval
  <2>2. K \subseteq 1..(n + 1)
    BY <1>2
  <2> HIDE DEF K
  <2> QED BY <2>1, <2>2, FS_Subset, FS_CardinalityType
<1>4. /\ at \in [1..m -> K]
      /\ \A i, j \in DOMAIN at : i < j => at[i] < at[j]
      /\ \A p \in K : \E i \in DOMAIN at : at[i] = p
  BY DEF Ascending
<1> HIDE DEF m
<1>5. DOMAIN d = 1..m /\ \A i \in 1..m : d[i] = c[at[i]] /\ at[i] \in 1..(n + 1)
  BY <1>2, <1>4
<1>6. d \in Seq(N) /\ Len(d) = m
  <2>1. \A i \in 1..m : d[i] \in N
    BY <1>1, <1>5, ElementOfSeq
  <2>2. d \in [1..m -> N]
    <3>1. d = [i \in 1..m |-> c[at[i]]]
      BY <1>4
    <3> QED BY <1>5, <2>1, <3>1
  <2> QED BY <1>3, <2>2
<1>7. PICK i \in 1..m : at[i] = n + 1
  BY <1>2, <1>4
<1>8. i = m
  <2>1. i \in Nat /\ m \in 1..m
    BY <1>3, <1>7
  <2>2. ~ (i < m)
    BY <1>4, <1>5, <1>7, <2>1
  <2> QED BY <1>3, <1>7, <2>1, <2>2
<1>9. m >= 1 /\ at[m] = n + 1
  BY <1>3, <1>7, <1>8
<1>10. ASSUME NEW p \in 1..(m - 1)
       PROVE  \E r \in 1..n : c[r] \notin fn.voids /\ d[p] = c[r]
  <2>1. p \in 1..m /\ p < m /\ m \in 1..m
    BY <1>3, <1>9
  <2>2. at[p] < n + 1
    BY <1>4, <1>9, <2>1
  <2>3. at[p] \in 1..(n + 1) /\ at[p] \in K
    BY <1>4, <1>5, <2>1
  <2>4. at[p] \in 1..n /\ c[at[p]] \notin fn.voids
    BY <1>2, <2>2, <2>3
  <2> QED BY <1>5, <2>1, <2>4
<1>11. ASSUME NEW r \in 1..n, c[r] \notin fn.voids
       PROVE  \E p \in 1..(m - 1) : d[p] = c[r]
  <2>1. r \in K
    BY <1>2, <1>11
  <2>2. PICK p \in 1..m : at[p] = r
    BY <1>4, <2>1
  <2>3. p # m
    BY <1>9, <2>2
  <2>4. p \in 1..(m - 1)
    BY <1>3, <2>3
  <2> QED BY <1>5, <2>2, <2>4
<1>12. d[Len(d)] = c[n + 1] /\ Len(d) >= 1
  <2>1. m \in 1..m
    BY <1>3, <1>9
  <2> QED BY <1>5, <1>6, <1>9, <2>1
<1>13. Len(d) = m /\ d \in Seq(N)
  BY <1>6
<1> QED BY ONLY <1>10, <1>11, <1>12, <1>13 DEF Purged

\* A terminator is never replaced.
LEMMA TerminatorKept ==
    ASSUME IInv, PassInv, NEW b \in fn.blocks
    PROVE  Body(b, Size(b) + 1) \notin DOMAIN ReMapper
<1> SUFFICES ASSUME NEW e \in fn.blocks, NEW r \in 1..Turn(e), Body(b, Size(b) + 1) = Body(e, r)
             PROVE  FALSE
  BY DEF PassInv, ReMapInv, Cloning
<1>1. fn \in Functions /\ Turn(e) \in 0..Size(e) /\ Size(e) \in Nat /\ Size(b) \in Nat
  BY PassFacts, FirstFacts
<1>2. r \in 1..(Size(e) + 1) /\ Size(b) + 1 \in 1..(Size(b) + 1)
  BY <1>1
<1>3. b = e /\ Size(b) + 1 = r
  BY <1>1, <1>2, BodyUnique
<1> QED BY <1>1, <1>3

LEMMA FinishInv ==
    ASSUME IInv, PassInv, FinishBB
    PROVE  PassInv'
<1>0. PICK b : b = BB
  OBVIOUS
<1>1. /\ pc = "tail" /\ pc' = "clone" /\ next' = next + 1 /\ IIT' = 0 /\ IIT = Len(code[<<b, 3>>])
      /\ fn' = fn /\ Targets' = Targets /\ succ' = succ /\ ops' = ops /\ phis' = phis
      /\ ReMapper' = ReMapper
  BY <1>0 DEF FinishBB, LtTail, vars
<1>2. /\ fn \in Functions /\ b \in fn.blocks /\ Split(b) /\ Size(b) \in Nat /\ next \in DOMAIN Targets
      /\ \A t \in DOMAIN Targets : t > next => ~ Split(Targets[t][1])
  <2>1. next \in DOMAIN Targets /\ Split(BB)
        /\ \A t \in DOMAIN Targets : t > next => ~ Split(Targets[t][1])
    BY <1>1 DEF PassInv, TargetsInv
  <2>2. fn \in Functions /\ BB \in fn.blocks
    BY <2>1, PassFacts
  <2> QED BY <1>0, <2>1, <2>2, FirstFacts
<1>3. <<b, 3>> \in Blocks /\ code[<<b, 3>>] \in Seq(Names)
  BY <1>2 DEF PassInv, BlocksInv, CodeInv
<1>4. /\ Len(code[<<b, 3>>]) = Size(b) + 1
      /\ \A r \in 1..(Size(b) + 1) : code[<<b, 3>>][r] = Remap(Body(b, r))
  BY <1>0, <1>1, <1>2 DEF PassInv, CodeInv, TailInv
<1>5. PICK at \in Ascending(Kept(code[<<b, 3>>])) :
         code' = [code EXCEPT ![<<b, 3>>] = Picked(code[<<b, 3>>], at)]
  BY <1>0 DEF FinishBB, LtTail, Picked
<1>6. DOMAIN code' = DOMAIN code /\ \A B \in Blocks : B # <<b, 3>> => code'[B] = code[B]
  BY <1>5 DEF Blocks
<1>7. /\ Insts' = Insts /\ Names' = Names
      /\ \A c : First(c)' = First(c)
      /\ \A c : Size(c)' = Size(c)
      /\ \A c, r : Body(c, r)' = Body(c, r)
  BY <1>1, SameFunction
<1>8. /\ Blocks' = Blocks
      /\ \A c : Split(c)' <=> Split(c)
      /\ \A c : Exit(c)' = Exit(c)
  BY <1>6, SameBlocks
<1>9. /\ \A c : Turn(c)' = Turn(c)
      /\ Turn(b) = Size(b)
      /\ \A v : Remap(v)' = Remap(v)
  <2>1. Turn(b) = Size(b)
    BY <1>0, <1>1, <1>2, <1>4 DEF Turn
  <2>2. \A c : Turn(c) = Size(c)
    BY <1>0, <2>1 DEF Turn
  <2>3. \A c : Turn(c)' = Size(c)
    BY <1>1, <1>7 DEF Turn
  <2>4. \A v : Remap(v)' = Remap(v)
    BY <1>1 DEF Remap
  <2> QED BY <2>1, <2>2, <2>3, <2>4
<1>10. /\ \A c, v : Cloning(c, v)' <=> Cloning(c, v)
       /\ \A c, k, o : CloneOperand(c, k, o)' = CloneOperand(c, k, o)
       /\ \A B : SuccOf(B)' = SuccOf(B)
  BY <1>1, <1>7, <1>8, <1>9 DEF Cloning, CloneOperand, InBody, SuccOf
<1>11. TargetsInv'
  <2>1. next \in Nat
    BY DEF PassInv, TargetsInv
  <2>2. \A t \in DOMAIN Targets : t >= next + 1 => t > next
    <3>1. DOMAIN Targets \subseteq Nat
      BY DEF PassInv, TargetsInv
    <3> QED BY <2>1, <3>1
  <2>3. next + 1 \in Nat
    BY <2>1
  <2> QED BY <1>1, <1>2, <1>8, <2>2, <2>3 DEF PassInv, TargetsInv
<1>12. BlocksInv'
  BY <1>1, <1>8, <1>10 DEF PassInv, BlocksInv
<1>13. ReMapInv'
  BY <1>1, <1>7, <1>10 DEF PassInv, ReMapInv
<1>14. PhisInv'
  BY <1>1, <1>8, <1>9, ZenonT(30) DEF PassInv, PhisInv
<1>15. OpsInv'
  BY <1>1, <1>7, <1>8, <1>9, <1>10 DEF PassInv, OpsInv
<1>16. VMapInv'
  BY <1>1 DEF VMapInv
<1>17. CodeInv'
  <2>1. PICK c : c = code[<<b, 3>>]
    OBVIOUS
  <2>2. PICK d : d = Picked(c, at)
    OBVIOUS
  <2>3. PICK n : n = Size(b)
    OBVIOUS
  <2>4. code'[<<b, 3>>] = d
    BY <1>3, <1>5, <2>1, <2>2 DEF Blocks
  <2>5. /\ d \in Seq(Names) /\ Len(d) >= 1 /\ d[Len(d)] = c[Size(b) + 1]
        /\ \A p \in 1..(Len(d) - 1) : \E r \in 1..Size(b) : c[r] \notin fn.voids /\ d[p] = c[r]
        /\ \A r \in 1..Size(b) : c[r] \notin fn.voids => \E p \in 1..(Len(d) - 1) : d[p] = c[r]
    <3>1. Size(b) \in Nat /\ c \in Seq(Names) /\ Len(c) = Size(b) + 1 /\ at \in Ascending(Kept(c))
      BY <1>2, <1>3, <1>4, <1>5, <2>1
    <3>2. n \in Nat /\ Len(c) = n + 1
      BY <2>3, <3>1
    <3>3. d \in Seq(Names) /\ Purged(c, n, d)
      BY ONLY <2>2, <3>1, <3>2, KeptTail
    <3> QED BY <2>3, <3>3 DEF Purged
  <2>6. \A r \in 1..(Size(b) + 1) :
           c[r] = IF r <= Size(b) /\ Body(b, r) \notin fn.voids THEN <<Body(b, r)[1], 3>> ELSE Body(b, r)
    <3> SUFFICES ASSUME NEW r \in 1..(Size(b) + 1)
                 PROVE  Remap(Body(b, r)) = IF r <= Size(b) /\ Body(b, r) \notin fn.voids
                                            THEN <<Body(b, r)[1], 3>> ELSE Body(b, r)
      BY <1>4, <2>1
    <3>1. Body(b, r) \in Insts
      BY <1>2, FirstFacts DEF Insts
    <3>2. CASE r <= Size(b) /\ Body(b, r) \notin fn.voids
      <4>1. Cloning(b, Body(b, r))
        BY <1>2, <1>9, <3>2 DEF Cloning
      <4>2. Body(b, r) \in DOMAIN ReMapper
        BY <1>2, <3>1, <3>2, <4>1 DEF PassInv, ReMapInv
      <4> QED BY <3>2, <4>2 DEF Remap, PassInv, ReMapInv
    <3>3. CASE Body(b, r) \in fn.voids
      BY <3>3 DEF Remap, PassInv, ReMapInv
    <3>4. CASE r = Size(b) + 1
      <4>1. Body(b, r) \notin DOMAIN ReMapper
        BY <1>2, <3>4, TerminatorKept
      <4> QED BY <1>2, <3>4, <4>1 DEF Remap
    <3> QED BY <1>2, <3>2, <3>3, <3>4
  <2>7. \A r \in 1..Size(b) : c[r] \notin fn.voids <=> Body(b, r) \notin fn.voids
    <3> SUFFICES ASSUME NEW r \in 1..Size(b)
                 PROVE  c[r] \notin fn.voids <=> Body(b, r) \notin fn.voids
      OBVIOUS
    <3>1. \A v \in fn.voids : v = <<v[1], 0>>
      BY <1>2, CodeAssumption, ValueNames DEF IsCode, Values, Insts
    <3>2. <<Body(b, r)[1], 3>> \notin fn.voids
      BY <3>1
    <3>3. r \in 1..(Size(b) + 1) /\ r <= Size(b)
      BY <1>2
    <3> QED BY <2>6, <3>2, <3>3
  <2>8. /\ Len(d) >= 1 /\ d[Len(d)] = Body(b, Size(b) + 1)
        /\ \A p \in 1..(Len(d) - 1) :
              \E r \in 1..Size(b) : Body(b, r) \notin fn.voids /\ d[p] = <<Body(b, r)[1], 3>>
        /\ \A r \in 1..Size(b) : Body(b, r) \notin fn.voids =>
              \E p \in 1..(Len(d) - 1) : d[p] = <<Body(b, r)[1], 3>>
    <3>1. \A r \in 1..Size(b) : r \in 1..(Size(b) + 1) /\ r <= Size(b)
      BY <1>2
    <3>2. c[Size(b) + 1] = Body(b, Size(b) + 1)
      <4>1. Size(b) + 1 \in 1..(Size(b) + 1) /\ ~ (Size(b) + 1 <= Size(b))
        BY <1>2
      <4> QED BY <2>6, <4>1
    <3>3. \A r \in 1..Size(b) : Body(b, r) \notin fn.voids =>
             c[r] \notin fn.voids /\ c[r] = <<Body(b, r)[1], 3>>
      BY <2>6, <2>7, <3>1
    <3> HIDE <1>4, <2>6
    <3> QED BY <2>5, <2>7, <3>2, <3>3, ZenonT(30)
  <2>9. TailInv(b)'
    BY <1>1, <1>7, <2>4, <2>8 DEF TailInv
  <2>10. \A B \in Blocks : code'[B] \in Seq(Names)
    BY <1>6, <2>4, <2>5 DEF PassInv, CodeInv
  <2>11. \A e \in fn.blocks : HeadInv(e)' <=> HeadInv(e)
    <3>1. \A e : <<e, 0>> # <<b, 3>>
      OBVIOUS
    <3>2. \A e \in fn.blocks : <<e, 0>> \in Blocks
      BY DEF PassInv, BlocksInv
    <3>3. \A e \in fn.blocks : code'[<<e, 0>>] = code[<<e, 0>>]
      BY <1>6, <3>1, <3>2
    <3> QED BY <1>1, <1>7, <3>3 DEF HeadInv
  <2>12. \A e \in fn.blocks : \A k \in {1, 2} : Split(e) => (BranchInv(e, k)' <=> BranchInv(e, k))
    <3>1. \A e \in fn.blocks : \A k \in {1, 2} : Split(e) => <<e, k>> \in Blocks /\ <<e, k>> # <<b, 3>>
      BY DEF PassInv, BlocksInv
    <3>2. \A e \in fn.blocks : \A k \in {1, 2} : Split(e) => code'[<<e, k>>] = code[<<e, k>>]
      BY <1>6, <3>1
    <3> QED BY <1>7, <1>9, <3>2 DEF BranchInv
  <2>13. \A e \in fn.blocks : e # b /\ Split(e) /\ TailInv(e) => TailInv(e)'
    <3>1. \A e \in fn.blocks : e # b /\ Split(e) => code'[<<e, 3>>] = code[<<e, 3>>]
      <4>1. \A e : e # b => <<e, 3>> # <<b, 3>>
        OBVIOUS
      <4> QED BY <1>6, <4>1 DEF Split
    <3>2. \A e : e # b => ~ (pc = "tail" /\ e = BB)
      BY <1>0
    <3>3. pc' # "tail"
      BY <1>1
    <3>4. fn' = fn /\ (\A e : Size(e)' = Size(e)) /\ \A e, q : Body(e, q)' = Body(e, q)
      BY <1>1, <1>7
    <3>5. \A e : code'[<<e, 3>>] = code[<<e, 3>>] /\ e # b /\ TailInv(e) => TailInv(e)'
      BY ONLY <3>2, <3>3, <3>4 DEF TailInv
    <3> QED BY <3>1, <3>5
  <2>14. \A e \in fn.blocks : ~ Split(e) => code'[<<e, 0>>] = fn.code[e]
    <3>1. \A e : <<e, 0>> # <<b, 3>>
      OBVIOUS
    <3>2. \A e \in fn.blocks : <<e, 0>> \in Blocks
      BY DEF PassInv, BlocksInv
    <3> QED BY <1>6, <3>1, <3>2 DEF PassInv, CodeInv
  <2>15. \A e \in fn.blocks : Split(e) => HeadInv(e) /\ BranchInv(e, 1) /\ BranchInv(e, 2) /\ TailInv(e)
    BY DEF PassInv, CodeInv
  <2>16. \A e \in fn.blocks : Split(e) => TailInv(e)'
    BY <2>9, <2>13, <2>15
  <2> QED BY <1>1, <1>7, <1>8, <2>10, <2>11, <2>12, <2>14, <2>15, <2>16 DEF CodeInv
<1> QED BY <1>11, <1>12, <1>13, <1>14, <1>15, <1>16, <1>17 DEF PassInv

--------------------------------------------------------------------------------
(* The invariant of the pass. *)

\* While the pass runs, what the analysis does is what it does alone: what is proved of the
\* analysis holds of it here, with the code rewritten around it or not.
THEOREM PassAnalyses == PassSpec => Spec
<1>1. PassInit => Init
  BY DEF PassInit
<1>2. [PassNext]_passVars => [Next]_vars
  BY DEF PassNext, Analyse, FindBB, StartCloning, SplitBB, CloneVoid, CloneValue, FinishBB, Return,
         Finished, Next, passVars, vars
<1> QED BY <1>1, <1>2, PTL DEF PassSpec, Spec

\* From the analysis to the end of the pass, in the midst of a block and between blocks, the
\* code is the function's with the blocks split that have had their turn: which instruction
\* or operand stands where, and where the PHIs take their values from, is known at each step.
THEOREM PassInvariance == PassSpec => [](IInv /\ PassInv)
<1>1. IInv /\ PassInv /\ RIVSound /\ [PassNext]_passVars => PassInv'
  <2> SUFFICES ASSUME IInv, PassInv, RIVSound, [PassNext]_passVars
               PROVE  PassInv'
    OBVIOUS
  <2>1. CASE Analyse
    BY <2>1, AnalyseInv
  <2>2. CASE FindBB
    BY <2>2, FindBBInv
  <2>3. CASE StartCloning
    BY <2>3, StartCloningInv
  <2>4. CASE SplitBB
    BY <2>4, SplitInv
  <2>5. CASE CloneVoid
    BY <2>5, CloneVoidInv
  <2>6. CASE CloneValue
    BY <2>6, CloneValueInv
  <2>7. CASE FinishBB
    BY <2>7, FinishInv
  <2>8. CASE Return
    BY <2>8, ReturnInv
  <2>9. CASE UNCHANGED passVars
    BY <2>9, StutterInv
  <2> QED BY <2>1, <2>2, <2>3, <2>4, <2>5, <2>6, <2>7, <2>8, <2>9 DEF PassNext, Finished
<1> QED BY <1>1, PassAnalyses, Invariance, Soundness, PassInitInv, PTL DEF PassSpec

\* Wherever a step of the pass stops, the analysis and the rewriting have kept to the function.
THEOREM PassTypeCorrect == PassSpec => []PassTypeOK
<1>1. IInv /\ PassInv => PassTypeOK
  <2> SUFFICES ASSUME IInv, PassInv
               PROVE  PassTypeOK
    OBVIOUS
  <2>1. TypeOK /\ pc \in {"analyse", "find", "clone", "tail", "done"} /\ DOMAIN succ = Blocks
    BY DEF IInv, PassInv, TargetsInv, BlocksInv
  <2>2. Targets \in Seq((fn.blocks \ fn.pads) \X (fn.ints \ fn.globals))
    <3> DEFINE S == (Reachable(fn) \ fn.pads) \X ((AllValues(fn) \cap fn.ints) \ fn.globals)
               T == (fn.blocks \ fn.pads) \X (fn.ints \ fn.globals)
    <3>1. S \subseteq T
      BY DEF Reachable, ReachedOver
    <3>2. Targets \in Seq(S)
      BY DEF PassInv, TargetsInv
    <3> HIDE DEF S, T
    <3>3. Targets \in Seq(T)
      BY <3>1, <3>2
    <3> QED BY <3>3 DEF T
  <2>3. ASSUME NEW B \in Blocks
        PROVE  succ[B] \subseteq Blocks
    <3>1. /\ Blocks = {C \in fn.blocks \X (0..3) : C[2] = 0 \/ Split(C[1])}
          /\ succ[B] = SuccOf(B)
      BY DEF PassInv, BlocksInv
    <3>2. B[1] \in fn.blocks /\ B[2] \in 0..3 /\ (B[2] = 0 \/ Split(B[1]))
      BY <3>1
    <3>3. fn.succ[B[1]] \subseteq fn.blocks
      BY <3>2, FunctionsAssumption DEF IInv, IsFunction
    <3>4. CASE B[2] \in {1, 2}
      BY <3>1, <3>2, <3>4 DEF SuccOf
    <3>5. CASE B[2] = 0 /\ Split(B[1])
      BY <3>1, <3>2, <3>5 DEF SuccOf
    <3>6. CASE B[2] \notin {1, 2} /\ ~ (B[2] = 0 /\ Split(B[1]))
      BY <3>1, <3>2, <3>3, <3>6 DEF SuccOf
    <3> QED BY <3>4, <3>5, <3>6
  <2>4. \A v \in DOMAIN ReMapper : ReMapper[v] \in DOMAIN phis
    BY DEF PassInv, ReMapInv, PhisInv
  <2> QED BY <2>1, <2>2, <2>3, <2>4 DEF PassTypeOK
<1> QED BY PassInvariance, <1>1, PTL

--------------------------------------------------------------------------------
(* The PHIs. *)

\* Clones, conditions and the instructions of the function that are none are no PHIs.
LEMMA NoPHIs ==
    ASSUME fn \in Functions, PhisInv
    PROVE  \A i, k : k \in {1, 2, 4} => <<i, k>> \notin DOMAIN phis
<1>1. DOMAIN fn.phis \subseteq Insts
  BY CodeAssumption DEF IsCode, Insts
<1>2. \A v \in DOMAIN fn.phis : v = <<v[1], 0>>
  BY <1>1, ValueNames DEF Values
<1> QED BY <1>2 DEF PhisInv

\* The blocks that lead to a block of the function, and to its lt-tail.
LEMMA Predecessors ==
    ASSUME IInv, PassInv, NEW b \in fn.blocks
    PROVE  /\ {P \in Blocks : <<b, 0>> \in succ[P]} = {Exit(p) : p \in {c \in fn.blocks : b \in fn.succ[c]}}
           /\ Split(b) => {P \in Blocks : <<b, 3>> \in succ[P]} = {<<b, 1>>, <<b, 2>>}
<1>1. Blocks = {C \in fn.blocks \X (0..3) : C[2] = 0 \/ Split(C[1])}
  BY DEF PassInv, BlocksInv
<1>2. \A P \in Blocks : succ[P] = SuccOf(P)
  BY DEF PassInv, BlocksInv
<1>3. \A P : <<b, 0>> \in SuccOf(P) <=>
              P[2] \notin {1, 2} /\ ~ (P[2] = 0 /\ Split(P[1])) /\ b \in fn.succ[P[1]]
  BY DEF SuccOf
<1>4. \A P : <<b, 3>> \in SuccOf(P) <=> P[2] \in {1, 2} /\ P[1] = b
  BY DEF SuccOf
<1>5. ASSUME NEW P \in Blocks, <<b, 0>> \in succ[P]
      PROVE  P \in {Exit(p) : p \in {c \in fn.blocks : b \in fn.succ[c]}}
  <2>1. P = <<P[1], P[2]>> /\ P[1] \in fn.blocks /\ P[2] \in 0..3 /\ (P[2] = 0 \/ Split(P[1]))
    BY <1>1
  <2>2. P[2] \notin {1, 2} /\ ~ (P[2] = 0 /\ Split(P[1])) /\ b \in fn.succ[P[1]]
    BY <1>2, <1>3, <1>5
  <2>3. P[2] = IF Split(P[1]) THEN 3 ELSE 0
    BY <2>1, <2>2
  <2>4. P = Exit(P[1])
    BY <2>1, <2>3 DEF Exit
  <2> QED BY <2>1, <2>2, <2>4
<1>6. ASSUME NEW p \in fn.blocks, b \in fn.succ[p]
      PROVE  Exit(p) \in Blocks /\ <<b, 0>> \in succ[Exit(p)]
  <2> DEFINE P == Exit(p)
  <2>1. P[1] = p /\ P[2] = (IF Split(p) THEN 3 ELSE 0) /\ P \in fn.blocks \X (0..3)
    BY DEF Exit
  <2>2. P \in Blocks
    BY <1>1, <2>1
  <2>3. <<b, 0>> \in SuccOf(P)
    BY <1>3, <1>6, <2>1
  <2> QED BY <1>2, <2>2, <2>3
<1>7. ASSUME Split(b)
      PROVE  {P \in Blocks : <<b, 3>> \in succ[P]} = {<<b, 1>>, <<b, 2>>}
  <2>1. <<b, 1>> \in Blocks /\ <<b, 2>> \in Blocks
    BY <1>1, <1>7
  <2>2. \A P \in Blocks : P = <<P[1], P[2]>>
    BY <1>1
  <2> QED BY <1>2, <1>4, <2>1, <2>2
<1> QED BY <1>5, <1>6, <1>7

\* While a block is not being cloned, the instructions of lt-tail but the last are PHIs of its
\* own, one for each value cloned.
LEMMA TailPHIs ==
    ASSUME IInv, PassInv, pc # "tail", NEW b \in fn.blocks, Split(b),
           NEW c, c = code[<<b, 3>>], NEW p \in DOMAIN c
    PROVE  IF p = Len(c) THEN c[p] = Body(b, Size(b) + 1) /\ c[p] \notin DOMAIN phis
           ELSE /\ \E r \in 1..Size(b) : Body(b, r) \notin fn.voids /\ c[p] = <<Body(b, r)[1], 3>>
                /\ c[p] \in DOMAIN phis /\ DOMAIN phis[c[p]] = {<<b, 1>>, <<b, 2>>}
<1>1. /\ Len(c) >= 1 /\ c[Len(c)] = Body(b, Size(b) + 1)
      /\ \A q \in 1..(Len(c) - 1) :
            \E r \in 1..Size(b) : Body(b, r) \notin fn.voids /\ c[q] = <<Body(b, r)[1], 3>>
  BY DEF PassInv, CodeInv, TailInv
<1>2. <<b, 3>> \in Blocks /\ c \in Seq(Names)
  BY DEF Split, PassInv, CodeInv
<1>3. DOMAIN c = 1..Len(c) /\ Len(c) \in Nat
  BY <1>2, LenProperties
<1>4. fn \in Functions /\ Turn(b) = Size(b) /\ Size(b) \in Nat
  BY FirstFacts DEF Turn, IInv
<1>5. CASE p = Len(c)
  <2>1. c[p] \in fn.insts[b] \ DOMAIN fn.phis
    BY <1>1, <1>4, <1>5, FirstFacts
  <2>2. c[p] = <<c[p][1], 0>>
    BY <1>4, <2>1, ValueNames DEF Values, Insts
  <2>3. c[p] \notin DOMAIN phis
    BY <1>4, <2>1, <2>2, SamePHIs DEF PassInv
  <2> QED BY <1>1, <1>5, <2>3
<1>6. CASE p # Len(c)
  <2>1. PICK r \in 1..Size(b) : Body(b, r) \notin fn.voids /\ c[p] = <<Body(b, r)[1], 3>>
    BY <1>1, <1>3, <1>6
  <2>2. Body(b, r) \in fn.insts[b]
    BY <1>4, FirstFacts
  <2>3. Cloning(b, Body(b, r)) /\ Body(b, r) \in Insts
    BY <1>4, <2>2 DEF Cloning, Insts
  <2>4. Body(b, r) \in DOMAIN ReMapper
    BY <2>1, <2>3 DEF PassInv, ReMapInv
  <2>5. c[p] \in DOMAIN phis /\ DOMAIN phis[c[p]] = {<<b, 1>>, <<b, 2>>}
    BY <2>1, <2>2, <2>4 DEF PassInv, PhisInv
  <2> QED BY <1>6, <2>1, <2>5
<1> QED BY <1>5, <1>6

\* What a head holds: the PHIs of the function, which come first, and, once it is split, the
\* branch on the condition.
LEMMA HeadPHIs ==
    ASSUME IInv, PassInv, NEW b \in fn.blocks, NEW p \in DOMAIN code[<<b, 0>>],
           code[<<b, 0>>][p] \in DOMAIN phis
    PROVE  /\ \A q \in 1..p : code[<<b, 0>>][q] \in DOMAIN phis
           /\ DOMAIN phis[code[<<b, 0>>][p]] = {P \in Blocks : <<b, 0>> \in succ[P]}
<1> DEFINE c == code[<<b, 0>>]
           f == fn.code[b]
<1>1. /\ fn \in Functions /\ DOMAIN f = 1..Len(f) /\ Len(f) = First(b) + Size(b)
      /\ First(b) \in Nat /\ First(b) >= 1 /\ Size(b) \in Nat
      /\ \A q \in DOMAIN f : f[q] \in DOMAIN fn.phis =>
            /\ \A s \in 1..q : f[s] \in DOMAIN fn.phis
            /\ DOMAIN fn.phis[f[q]] = {P \in fn.blocks : b \in fn.succ[P]}
  BY CodeFacts, FirstFacts DEF IInv
<1>2. \A q \in DOMAIN f : f[q] \in DOMAIN phis <=> f[q] \in DOMAIN fn.phis
  <2>1. \A q \in DOMAIN f : f[q] = <<f[q][1], 0>>
    BY <1>1, CodeNames
  <2> QED BY <1>1, <2>1, SamePHIs DEF PassInv
<1>3. <<b, 0>> \in Blocks /\ c \in Seq(Names)
  BY PassFacts DEF PassInv, CodeInv
<1>4. p \in DOMAIN f /\ \A q \in 1..p : c[q] = f[q]
  <2>1. CASE Split(b)
    <3>1. Len(c) = First(b) /\ c[First(b)] = <<b, 4>> /\ \A q \in 1..(First(b) - 1) : c[q] = f[q]
      BY <2>1 DEF PassInv, CodeInv, HeadInv
    <3>2. p \in 1..First(b)
      BY <1>3, <3>1, LenProperties
    <3>3. <<b, 4>> \notin DOMAIN phis
      BY <1>1, NoPHIs DEF PassInv
    <3>4. p # First(b)
      BY <3>1, <3>3
    <3>5. p \in 1..(First(b) - 1) /\ p \in 1..Len(f) /\ 1..p \subseteq 1..(First(b) - 1)
      BY <1>1, <3>2, <3>4
    <3> HIDE DEF c, f
    <3> QED BY <1>1, <3>1, <3>5
  <2>2. CASE ~ Split(b)
    <3>1. c = f
      BY <2>2 DEF PassInv, CodeInv
    <3> QED BY <3>1
  <2> QED BY <2>1, <2>2
<1> HIDE DEF f
<1>5. p \in Nat /\ p >= 1 /\ c[p] = f[p] /\ f[p] \in DOMAIN fn.phis /\ 1..p \subseteq DOMAIN f
  <2>1. p \in 1..Len(f) /\ p \in 1..p
    BY <1>1, <1>4
  <2>2. c[p] = f[p]
    BY <1>4, <2>1
  <2>3. f[p] \in DOMAIN phis
    BY <2>2
  <2>4. 1..p \subseteq 1..Len(f)
    BY <1>1, <2>1
  <2> QED BY <1>1, <1>2, <1>4, <2>1, <2>2, <2>3, <2>4
<1>6. /\ \A q \in 1..p : f[q] \in DOMAIN fn.phis
      /\ DOMAIN fn.phis[f[p]] = {P \in fn.blocks : b \in fn.succ[P]}
  BY <1>1, <1>5
<1>7. DOMAIN phis[f[p]] = {Exit(P) : P \in DOMAIN fn.phis[f[p]]}
  BY <1>5 DEF PassInv, PhisInv
<1>8. {P \in Blocks : <<b, 0>> \in succ[P]} = {Exit(P) : P \in {d \in fn.blocks : b \in fn.succ[d]}}
  BY Predecessors
<1> HIDE DEF c
<1>9. \A q \in 1..p : c[q] \in DOMAIN phis
  BY <1>2, <1>4, <1>5, <1>6
<1>10. DOMAIN phis[c[p]] = {P \in Blocks : <<b, 0>> \in succ[P]}
  BY <1>5, <1>6, <1>7, <1>8
<1> QED BY <1>9, <1>10 DEF c

\* Between blocks the verifier finds nothing wrong with the PHIs, those of the successors of
\* the blocks that were split and those of blocks that are their own successors included.
THEOREM PHIsCorrect == PassSpec => []PHIsWellFormed
<1>1. IInv /\ PassInv => PHIsWellFormed
  <2> SUFFICES ASSUME IInv, PassInv, pc \in {"clone", "done"}, NEW B \in Blocks,
                      NEW p \in DOMAIN code[B], code[B][p] \in DOMAIN phis
               PROVE  /\ \A q \in 1..p : code[B][q] \in DOMAIN phis
                      /\ DOMAIN phis[code[B][p]] = {P \in Blocks : B \in succ[P]}
    BY DEF PHIsWellFormed
  <2>1. PICK b \in fn.blocks, k \in 0..3 : B = <<b, k>> /\ (k = 0 \/ Split(b))
    BY DEF PassInv, BlocksInv
  <2>2. CASE k = 0
    BY <2>1, <2>2, HeadPHIs
  <2>3. CASE k \in {1, 2}
    <3>1. /\ Len(code[B]) = Turn(b) /\ \A r \in 1..Turn(b) : code[B][r] = <<Body(b, r)[1], k>>
          /\ code[B] \in Seq(Names)
      <4>1. BranchInv(b, 1) /\ BranchInv(b, 2) /\ code[B] \in Seq(Names)
        <5>1. Split(b)
          BY <2>1, <2>3
        <5>2. BranchInv(b, 1) /\ BranchInv(b, 2)
          BY <5>1 DEF PassInv, CodeInv
        <5>3. code[B] \in Seq(Names)
          BY DEF PassInv, CodeInv
        <5> QED BY <5>2, <5>3
      <4>2. BranchInv(b, k)
        BY <2>3, <4>1
      <4> QED BY <2>1, <4>1, <4>2 DEF BranchInv
    <3>2. p \in 1..Turn(b)
      BY <3>1, LenProperties
    <3>3. code[B][p] = <<Body(b, p)[1], k>>
      BY <3>1, <3>2
    <3>4. code[B][p] \notin DOMAIN phis
      BY <2>3, <3>3, NoPHIs DEF IInv, PassInv
    <3> QED BY <3>4
  <2>4. CASE k = 3
    <3>1. Split(b) /\ pc # "tail" /\ B = <<b, 3>> /\ Len(code[B]) \in Nat /\ DOMAIN code[B] = 1..Len(code[B])
      BY <2>1, <2>4, LenProperties DEF PassInv, CodeInv
    <3>2. p # Len(code[B]) /\ DOMAIN phis[code[B][p]] = {<<b, 1>>, <<b, 2>>}
      BY <3>1, TailPHIs
    <3>3. \A q \in 1..p : q \in DOMAIN code[B] /\ q # Len(code[B])
      BY <3>1, <3>2
    <3>4. \A q \in 1..p : code[B][q] \in DOMAIN phis
      BY <3>1, <3>3, TailPHIs
    <3>5. {P \in Blocks : <<b, 3>> \in succ[P]} = {<<b, 1>>, <<b, 2>>}
      BY <3>1, Predecessors
    <3> QED BY <3>1, <3>2, <3>4, <3>5
  <2> QED BY <2>1, <2>2, <2>3, <2>4
<1> QED BY PassInvariance, <1>1, PTL

--------------------------------------------------------------------------------
(* What the blocks compute. *)

\* i and its operands are copies of an instruction of the function and its operands.
IsCopy(i) ==
    IF i \in DOMAIN phis
    THEN \A P \in DOMAIN phis[i] : Original(phis[i][P]) = fn.phis[Original(i)][P[1]]
    ELSE {Original(o) : o \in ops[i]} = fn.ops[Original(i)]

\* What stands for a value is a copy of it.
LEMMA RemapCopies ==
    ASSUME fn \in Functions, ReMapInv, NEW v \in Values
    PROVE  Original(Remap(v)) = v /\ \A b, k : Original(CloneOperand(b, k, v)) = v
<1>1. v = <<v[1], 0>>
  BY ValueNames
<1>2. Remap(v)[1] = v[1]
  BY <1>1, RemapFacts
<1> QED BY <1>1, <1>2 DEF Original, CloneOperand

LEMMA KeptCopies ==
    ASSUME IInv, PassInv, NEW i \in Insts \ DOMAIN ReMapper
    PROVE  IsCopy(i)
<1>1. fn \in Functions /\ i = <<i[1], 0>> /\ Original(i) = i
  BY ValueNames DEF IInv, Values, Original
<1>2. i \in DOMAIN phis <=> i \in DOMAIN fn.phis
  BY <1>1, SamePHIs DEF PassInv
<1>3. CASE i \in DOMAIN fn.phis
  <2>1. \A p \in DOMAIN fn.phis[i] : fn.phis[i][p] \in Values
    BY <1>1, <1>3, CodeAssumption DEF IsCode, Values, Insts
  <2>2. ASSUME NEW P \in DOMAIN phis[i]
        PROVE  Original(phis[i][P]) = fn.phis[i][P[1]]
    <3>1. PICK p \in DOMAIN fn.phis[i] : P = Exit(p)
      BY <1>3 DEF PassInv, PhisInv
    <3>2. phis[i][P] = Remap(fn.phis[i][p])
      BY <1>3, <3>1 DEF PassInv, PhisInv
    <3>3. P[1] = p
      BY <3>1 DEF Exit
    <3>4. Original(Remap(fn.phis[i][p])) = fn.phis[i][p]
      BY <1>1, <2>1, RemapCopies DEF PassInv
    <3> QED BY <3>2, <3>3, <3>4
  <2> QED BY <1>1, <1>2, <1>3, <2>2 DEF IsCopy
<1>4. CASE i \notin DOMAIN fn.phis
  <2>1. i \in DOMAIN fn.ops \ DOMAIN ReMapper
    BY <1>1, <1>4, CodeAssumption DEF IsCode, Insts
  <2>2. \A o \in fn.ops[i] : o \in Values
    BY <1>1, <2>1, CodeAssumption DEF IsCode, Values, Insts
  <2>3. ops[i] = {Remap(o) : o \in fn.ops[i]}
    BY <2>1 DEF PassInv, OpsInv
  <2>4. \A o \in fn.ops[i] : Original(Remap(o)) = o
    BY <1>1, <2>2, RemapCopies DEF PassInv
  <2>5. {Original(o) : o \in ops[i]} = fn.ops[i]
    BY <2>3, <2>4
  <2> QED BY <1>1, <1>2, <1>4, <2>5 DEF IsCopy
<1> QED BY <1>3, <1>4

LEMMA CloneCopies ==
    ASSUME IInv, PassInv, NEW b \in fn.blocks, Split(b), NEW k \in {1, 2}, NEW r \in 1..Turn(b)
    PROVE  IsCopy(<<Body(b, r)[1], k>>) /\ Original(<<Body(b, r)[1], k>>) = Body(b, r)
<1> DEFINE i == Body(b, r)
           j == <<i[1], k>>
<1>1. fn \in Functions /\ r \in 1..(Size(b) + 1)
  BY PassFacts, FirstFacts
<1>2. i \in fn.insts[b] \ DOMAIN fn.phis /\ i \in Insts
  BY <1>1, FirstFacts DEF Insts
<1>3. i = <<i[1], 0>>
  BY <1>1, <1>2, ValueNames DEF Values
<1>4. j \notin DOMAIN phis
  BY <1>1, NoPHIs DEF PassInv
<1>5. i \in DOMAIN fn.ops
  BY <1>1, <1>2, CodeAssumption DEF IsCode, Insts
<1>6. \A o \in fn.ops[i] : o \in Values
  BY <1>1, <1>5, CodeAssumption DEF IsCode, Values, Insts
<1>7. ops[j] = {CloneOperand(b, k, o) : o \in fn.ops[i]}
  BY DEF PassInv, OpsInv
<1>8. \A o \in fn.ops[i] : Original(CloneOperand(b, k, o)) = o
  BY <1>1, <1>6, RemapCopies DEF PassInv
<1>9. Original(j) = i
  BY <1>3 DEF Original
<1> HIDE DEF i, j
<1>10. {Original(o) : o \in ops[j]} = fn.ops[i]
  BY <1>7, <1>8
<1> QED BY <1>4, <1>9, <1>10 DEF IsCopy, i, j

\* The way through a block that has been split.
LEMMA PathFacts ==
    ASSUME IInv, PassInv, pc # "tail", NEW b \in fn.blocks, Split(b), NEW k \in {1, 2}, NEW path,
           path = Front(code[<<b, 0>>]) \o code[<<b, k>>] \o <<Last(code[<<b, 3>>])>>
    PROVE  /\ path \in Seq(Names) /\ Len(path) = First(b) + Size(b)
           /\ \A p \in 1..(First(b) - 1) : path[p] = fn.code[b][p]
           /\ \A r \in 1..Size(b) : path[First(b) + r - 1] = <<Body(b, r)[1], k>>
           /\ path[First(b) + Size(b)] = Body(b, Size(b) + 1)
<1> DEFINE h == First(b)
           n == Size(b)
           c == code[<<b, 0>>]
           d == code[<<b, k>>]
           e == code[<<b, 3>>]
<1>1. h \in Nat /\ h >= 1 /\ n \in Nat /\ Turn(b) = n
  BY FirstFacts DEF IInv, Turn
<1>2. c \in Seq(Names) /\ d \in Seq(Names) /\ e \in Seq(Names)
  <2>1. <<b, 0>> \in Blocks /\ <<b, k>> \in Blocks /\ <<b, 3>> \in Blocks
    BY DEF PassInv, BlocksInv
  <2> QED BY <2>1 DEF PassInv, CodeInv
<1>3. Len(c) = h /\ \A p \in 1..(h - 1) : c[p] = fn.code[b][p]
  BY DEF PassInv, CodeInv, HeadInv
<1>4. Len(d) = n /\ \A r \in 1..n : d[r] = <<Body(b, r)[1], k>>
  <2>1. BranchInv(b, 1) /\ BranchInv(b, 2)
    BY DEF PassInv, CodeInv
  <2>2. BranchInv(b, k)
    BY <2>1
  <2> QED BY <1>1, <2>2 DEF BranchInv
<1>5. Len(e) >= 1 /\ e[Len(e)] = Body(b, n + 1)
  BY DEF PassInv, CodeInv, TailInv
<1> HIDE DEF h, n, c, d, e
<1>6. Last(e) = Body(b, n + 1) /\ Last(e) \in Names
  <2>1. Len(e) \in 1..Len(e) /\ DOMAIN e = 1..Len(e)
    BY <1>2, <1>5, LenProperties
  <2>2. e[Len(e)] \in Names
    BY <1>2, <2>1, ElementOfSeq
  <2> QED BY <1>5, <2>2 DEF Last
<1>7. /\ Front(c) \in Seq(Names) /\ Len(Front(c)) = h - 1
      /\ \A p \in 1..(h - 1) : Front(c)[p] = c[p]
  <2>1. \A p \in 1..(h - 1) : c[p] \in Names
    <3>1. \A p \in 1..(h - 1) : p \in 1..Len(c)
      BY <1>1, <1>3
    <3> QED BY <1>2, <3>1, ElementOfSeq
  <2>2. 1 \in Int /\ h - 1 \in Int
    BY <1>1
  <2>3. /\ SubSeq(c, 1, h - 1) \in Seq(Names)
        /\ Len(SubSeq(c, 1, h - 1)) = IF 1 <= h - 1 THEN h - 1 - 1 + 1 ELSE 0
        /\ \A p \in 1..(h - 1 - 1 + 1) : SubSeq(c, 1, h - 1)[p] = c[1 + p - 1]
    BY <2>1, <2>2, SubSeqProperties
  <2>4. Front(c) = SubSeq(c, 1, h - 1)
    BY <1>3 DEF Front
  <2> QED BY <1>1, <2>3, <2>4
<1> DEFINE a == Front(c) \o d
           z == <<Last(e)>>
<1>8. /\ a \in Seq(Names) /\ Len(a) = h - 1 + n
      /\ \A p \in 1..(h - 1 + n) : a[p] = IF p <= h - 1 THEN c[p] ELSE d[p - (h - 1)]
  <2>1. /\ a \in Seq(Names) /\ Len(a) = Len(Front(c)) + Len(d)
        /\ \A p \in 1..(Len(Front(c)) + Len(d)) :
              a[p] = IF p <= Len(Front(c)) THEN Front(c)[p] ELSE d[p - Len(Front(c))]
    BY <1>2, <1>7, ConcatProperties
  <2> HIDE DEF a
  <2> QED BY <1>1, <1>4, <1>7, <2>1
<1>9. z \in Seq(Names) /\ Len(z) = 1 /\ z[1] = Body(b, n + 1)
  BY <1>6
<1>10. path = a \o z
  BY DEF c, d, e
<1> HIDE DEF a, z
<1>11. /\ path \in Seq(Names) /\ Len(path) = h + n
       /\ \A p \in 1..(h + n) : path[p] = IF p <= h - 1 + n THEN a[p] ELSE z[p - (h - 1 + n)]
  <2>1. /\ a \o z \in Seq(Names) /\ Len(a \o z) = Len(a) + Len(z)
        /\ \A p \in 1..(Len(a) + Len(z)) : (a \o z)[p] = IF p <= Len(a) THEN a[p] ELSE z[p - Len(a)]
    BY <1>8, <1>9, ConcatProperties
  <2>2. Len(a) = h - 1 + n /\ Len(z) = 1 /\ Len(a) + Len(z) = h + n
    BY <1>1, <1>8, <1>9
  <2> QED BY ONLY <1>10, <2>1, <2>2
<1>12. ASSUME NEW p \in 1..(h - 1)
       PROVE  path[p] = fn.code[b][p]
  <2>1. p \in 1..(h + n) /\ p \in 1..(h - 1 + n) /\ p <= h - 1 + n /\ p <= h - 1
    BY <1>1
  <2>2. path[p] = a[p]
    BY <1>11, <2>1
  <2>3. a[p] = c[p]
    BY <1>8, <2>1
  <2> QED BY <1>3, <2>2, <2>3
<1>13. ASSUME NEW r \in 1..n
       PROVE  path[h + r - 1] = <<Body(b, r)[1], k>>
  <2>1. /\ h + r - 1 \in 1..(h + n) /\ h + r - 1 <= h - 1 + n /\ h + r - 1 \in 1..(h - 1 + n)
        /\ ~ (h + r - 1 <= h - 1) /\ h + r - 1 - (h - 1) = r
    BY <1>1
  <2>2. PICK p : p = h + r - 1
    OBVIOUS
  <2>3. path[p] = a[p]
    BY <1>11, <2>1, <2>2
  <2>4. a[p] = d[p - (h - 1)]
    BY <1>8, <2>1, <2>2
  <2>5. p - (h - 1) = r
    BY <1>1, <2>2
  <2> QED BY <1>4, <2>2, <2>3, <2>4, <2>5
<1>14. path[h + n] = Body(b, n + 1)
  <2>1. h + n \in 1..(h + n) /\ ~ (h + n <= h - 1 + n) /\ h + n - (h - 1 + n) = 1
    BY <1>1
  <2>2. PICK p : p = h + n
    OBVIOUS
  <2>3. path[p] = z[p - (h - 1 + n)]
    BY <1>11, <2>1, <2>2
  <2>4. p - (h - 1 + n) = 1
    BY <1>1, <2>2
  <2> QED BY <1>9, <2>2, <2>3, <2>4
<1> QED BY <1>11, <1>12, <1>13, <1>14 DEF h, n

\* Whichever of its branches control takes through a duplicated block, it meets copies of the
\* instructions the block had, in their order and with copies of their operands; the other
\* blocks are as they were.
THEOREM BranchesAgree == PassSpec => []SameOnBothPaths
<1>1. IInv /\ PassInv => SameOnBothPaths
  <2> DEFINE Path(b, k) ==
               IF <<b, 3>> \notin Blocks THEN code[<<b, 0>>]
               ELSE Front(code[<<b, 0>>]) \o code[<<b, k>>] \o <<Last(code[<<b, 3>>])>>
  <2> SUFFICES ASSUME IInv, PassInv, pc \in {"clone", "done"}, NEW b \in fn.blocks, NEW k \in {1, 2}
               PROVE  /\ <<b, 3>> \in Blocks => \A p \in 1..(Len(code[<<b, 3>>]) - 1) : code[<<b, 3>>][p][2] = 3
                      /\ [p \in DOMAIN Path(b, k) |-> Original(Path(b, k)[p])] = fn.code[b]
                      /\ \A p \in DOMAIN Path(b, k) : IsCopy(Path(b, k)[p])
    BY Zenon DEF SameOnBothPaths, IsCopy
  <2> DEFINE f == fn.code[b]
             path == Path(b, k)
  <2>1. /\ fn \in Functions /\ f \in Seq(Names) /\ Len(f) = First(b) + Size(b)
        /\ First(b) \in Nat /\ First(b) >= 1 /\ Size(b) \in Nat
        /\ DOMAIN f = 1..Len(f) /\ Turn(b) = Size(b)
        /\ \A p \in DOMAIN f : f[p] \in Insts /\ f[p] = <<f[p][1], 0>>
        /\ \A p \in DOMAIN f : p < First(b) \/ \E r \in 1..(Size(b) + 1) : p = First(b) + r - 1
        /\ \A p \in 1..(First(b) - 1) : f[p] \in DOMAIN fn.phis
    BY CodeNames, FirstFacts, CodeFacts DEF IInv, Turn
  <2>2. /\ DOMAIN path = DOMAIN f
        /\ \A p \in DOMAIN path : IsCopy(path[p]) /\ Original(path[p]) = f[p]
    <3>1. CASE ~ Split(b)
      <4>1. path = f
        BY <3>1 DEF Split, PassInv, CodeInv
      <4>2. ASSUME NEW p \in DOMAIN f
            PROVE  IsCopy(f[p]) /\ Original(f[p]) = f[p]
        <5>1. f[p] \in fn.insts[b]
          BY <2>1, CodeFacts, ElementOfSeq
        <5>2. \A c \in fn.blocks : Turn(c) \in 0..Size(c)
          BY PassFacts
        <5>3. f[p] \notin DOMAIN ReMapper
          BY <2>1, <3>1, <5>1, <5>2, KeptBody DEF PassInv
        <5> QED BY <2>1, <5>3, KeptCopies DEF Original
      <4> QED BY <4>1, <4>2
    <3>2. CASE Split(b)
      <4>1. /\ path \in Seq(Names) /\ Len(path) = First(b) + Size(b)
            /\ \A p \in 1..(First(b) - 1) : path[p] = f[p]
            /\ \A r \in 1..Size(b) : path[First(b) + r - 1] = <<Body(b, r)[1], k>>
            /\ path[First(b) + Size(b)] = Body(b, Size(b) + 1)
        <5>1. path = Front(code[<<b, 0>>]) \o code[<<b, k>>] \o <<Last(code[<<b, 3>>])>>
          BY <3>2 DEF Split
        <5> HIDE DEF path
        <5> QED BY <3>2, <5>1, PathFacts, ZenonT(30)
      <4>2. DOMAIN path = DOMAIN f
        BY <2>1, <4>1, LenProperties
      <4>3. ASSUME NEW p \in DOMAIN f
            PROVE  IsCopy(path[p]) /\ Original(path[p]) = f[p]
        <5>1. CASE p < First(b)
          <6>1. p \in 1..(First(b) - 1)
            BY <2>1, <5>1
          <6>2. path[p] = f[p] /\ f[p] \in DOMAIN fn.phis
            BY <2>1, <4>1, <6>1
          <6>3. f[p] \notin DOMAIN ReMapper
            <7> SUFFICES ASSUME f[p] \in DOMAIN ReMapper
                         PROVE  FALSE
              OBVIOUS
            <7>1. PICK c \in fn.blocks : Cloning(c, f[p])
              BY DEF PassInv, ReMapInv
            <7>2. PICK r \in 1..Turn(c) : f[p] = Body(c, r)
              BY <7>1 DEF Cloning
            <7>3. r \in 1..(Size(c) + 1)
              BY <2>1, PassFacts, FirstFacts
            <7> QED BY <2>1, <6>2, <7>2, <7>3, FirstFacts
          <6> QED BY <2>1, <6>2, <6>3, KeptCopies DEF Original
        <5>2. ASSUME NEW r \in 1..(Size(b) + 1), p = First(b) + r - 1
              PROVE  IsCopy(path[p]) /\ Original(path[p]) = f[p]
          <6>1. f[p] = Body(b, r)
            BY <5>2 DEF Body
          <6>2. CASE r = Size(b) + 1
            <7>1. path[p] = f[p]
              <8>1. p = First(b) + Size(b)
                BY <2>1, <5>2, <6>2
              <8>2. path[p] = Body(b, Size(b) + 1)
                BY <4>1, <8>1
              <8> QED BY <6>1, <6>2, <8>2
            <7>2. f[p] \notin DOMAIN ReMapper
              BY <6>1, <6>2, TerminatorKept
            <7> QED BY <2>1, <7>1, <7>2, KeptCopies DEF Original
          <6>3. CASE r # Size(b) + 1
            <7>1. r \in 1..Size(b) /\ r \in 1..Turn(b)
              BY <2>1, <6>3
            <7>2. path[p] = <<Body(b, r)[1], k>>
              BY <4>1, <5>2, <7>1
            <7> QED BY <3>2, <6>1, <7>1, <7>2, CloneCopies
          <6> QED BY <6>2, <6>3
        <5> QED BY <2>1, <5>1, <5>2
      <4> QED BY <4>2, <4>3
    <3> QED BY <3>1, <3>2
  <2>3. [p \in DOMAIN path |-> Original(path[p])] = f
    <3>1. f = [p \in DOMAIN f |-> f[p]]
      BY <2>1, LenProperties
    <3> HIDE DEF f
    <3> QED BY <2>2, <3>1
  <2>4. ASSUME Split(b), NEW p \in 1..(Len(code[<<b, 3>>]) - 1)
        PROVE  code[<<b, 3>>][p][2] = 3
    <3>1. code[<<b, 3>>] \in Seq(Names)
      BY <2>4 DEF Split, PassInv, CodeInv
    <3>2. p \in DOMAIN code[<<b, 3>>] /\ p # Len(code[<<b, 3>>])
      BY <3>1, LenProperties
    <3>3. \E r \in 1..Size(b) : code[<<b, 3>>][p] = <<Body(b, r)[1], 3>>
      BY <2>4, <3>2, TailPHIs
    <3> QED BY <3>3
  <2> QED BY <2>2, <2>3, <2>4 DEF Split
<1> QED BY PassInvariance, <1>1, PTL

--------------------------------------------------------------------------------
(* Where a value has been computed. *)

\* The rounds of ReachedWithout: from the entry, along the edges that are not in cut.
Round(cut, S) == UNION {{B} \cup {C \in Blocks : <<B, C>> \in Flow \ cut} : B \in S}

LEMMA RoundsExist ==
    ASSUME NEW cut, NEW N \in Nat
    PROVE  \E g : g = [n \in 0..N |-> IF n = 0 THEN {<<fn.entry, 0>>} ELSE Round(cut, g[n - 1])]
<1> DEFINE Ok(g, n) == g = [m \in 0..n |-> IF m = 0 THEN {<<fn.entry, 0>>} ELSE Round(cut, g[m - 1])]
           Bad == {n \in Nat : ~ \E g : Ok(g, n)}
<1>1. CASE Bad = {}
  BY <1>1
<1>2. CASE Bad # {}
  <2>1. Bad \in SUBSET Nat
    OBVIOUS
  <2>2. PICK n \in Bad : \A m \in Bad : n <= m
    <3> HIDE DEF Bad
    <3> QED BY <1>2, <2>1, LeastExists
  <2>3. n \in Nat /\ ~ \E g : Ok(g, n)
    BY <2>2
  <2>4. n # 0
    <3> DEFINE g == [m \in 0..0 |-> {<<fn.entry, 0>>}]
    <3>1. Ok(g, 0)
      OBVIOUS
    <3> QED BY <2>3, <3>1
  <2>5. n - 1 \in Nat /\ n - 1 \notin Bad
    <3>1. n - 1 \in Nat /\ ~ (n <= n - 1)
      BY <2>3, <2>4
    <3> HIDE DEF Bad
    <3> QED BY <2>2, <3>1
  <2>6. PICK g : Ok(g, n - 1)
    BY <2>5
  <2> DEFINE h == [m \in 0..n |-> IF m = 0 THEN {<<fn.entry, 0>>} ELSE Round(cut, g[m - 1])]
  <2>7. \A m \in 0..(n - 1) : h[m] = g[m]
    <3>1. \A m \in 0..(n - 1) : m \in 0..n
      BY <2>3
    <3>2. \A m \in 0..(n - 1) : g[m] = IF m = 0 THEN {<<fn.entry, 0>>} ELSE Round(cut, g[m - 1])
      BY <2>6
    <3> QED BY <3>1, <3>2
  <2>8. \A m \in 0..n : m # 0 => m - 1 \in 0..(n - 1)
    BY <2>3
  <2>9. \A m \in 0..n : h[m] = IF m = 0 THEN {<<fn.entry, 0>>} ELSE Round(cut, h[m - 1])
    <3> SUFFICES ASSUME NEW m \in 0..n
                 PROVE  h[m] = IF m = 0 THEN {<<fn.entry, 0>>} ELSE Round(cut, h[m - 1])
      OBVIOUS
    <3>1. h[m] = IF m = 0 THEN {<<fn.entry, 0>>} ELSE Round(cut, g[m - 1])
      OBVIOUS
    <3>2. m # 0 => h[m - 1] = g[m - 1]
      BY <2>7, <2>8
    <3> HIDE DEF h
    <3> QED BY <3>1, <3>2
  <2>10. h = [m \in 0..n |-> h[m]]
    OBVIOUS
  <2>11. Ok(h, n)
    <3> HIDE DEF h
    <3> QED BY <2>9, <2>10
  <2> QED BY <2>3, <2>11
<1> QED BY <1>1, <1>2

\* What is reached is in every set that has the entry and that no other edge leaves.
LEMMA ReachedIn ==
    ASSUME IsFiniteSet(Blocks), NEW cut, NEW S, <<fn.entry, 0>> \in S,
           \A B \in S : \A C \in Blocks : <<B, C>> \in Flow \ cut => C \in S
    PROVE  ReachedWithout(cut) \subseteq S
<1> DEFINE N == Cardinality(Blocks)
           R == CHOOSE g : g = [n \in 0..N |->
                                  IF n = 0 THEN {<<fn.entry, 0>>}
                                  ELSE UNION {{B} \cup {C \in Blocks : <<B, C>> \in Flow \ cut} : B \in g[n - 1]}]
           Bad == {n \in 0..N : ~ (R[n] \subseteq S)}
<1>1. ReachedWithout(cut) = R[N]
  BY Zenon DEF ReachedWithout
<1>2. N \in Nat
  BY FS_CardinalityType
<1>3. R = [n \in 0..N |-> IF n = 0 THEN {<<fn.entry, 0>>} ELSE Round(cut, R[n - 1])]
  <2>1. \E g : g = [n \in 0..N |-> IF n = 0 THEN {<<fn.entry, 0>>} ELSE Round(cut, g[n - 1])]
    BY <1>2, RoundsExist
  <2>2. R = CHOOSE g : g = [n \in 0..N |-> IF n = 0 THEN {<<fn.entry, 0>>} ELSE Round(cut, g[n - 1])]
    BY Zenon DEF Round
  <2> HIDE DEF R
  <2> QED BY <2>1, <2>2, Zenon
<1> HIDE DEF R, N
<1>4. CASE Bad = {}
  BY <1>1, <1>2, <1>4
<1>5. CASE Bad # {}
  <2>1. Bad \in SUBSET Nat
    BY <1>2
  <2>2. PICK n \in Bad : \A m \in Bad : n <= m
    <3> HIDE DEF Bad
    <3> QED BY <1>5, <2>1, LeastExists
  <2>3. n \in 0..N /\ n \in Nat
    BY <1>2, <2>2
  <2>4. CASE n = 0
    BY <1>3, <2>2, <2>3, <2>4
  <2>5. CASE n # 0
    <3>1. n - 1 \in 0..N /\ ~ (n <= n - 1)
      BY <1>2, <2>3, <2>5
    <3>2. R[n - 1] \subseteq S
      BY <2>2, <3>1
    <3>3. R[n] = Round(cut, R[n - 1])
      BY <1>3, <2>3, <2>5
    <3>4. Round(cut, R[n - 1]) \subseteq S
      BY <3>2 DEF Round
    <3> QED BY <2>2, <3>3, <3>4
  <2> QED BY <2>4, <2>5
<1> QED BY <1>4, <1>5

LEMMA FiniteBlocks ==
    ASSUME IInv, PassInv
    PROVE  IsFiniteSet(Blocks)
<1>1. IsFiniteSet(fn.blocks)
  BY CodeAssumption DEF IInv, IsCode
<1>2. IsFiniteSet(0..3)
  <2>1. 0 \in Int /\ 3 \in Int
    OBVIOUS
  <2> QED BY <2>1, FS_Interval
<1>3. IsFiniteSet(fn.blocks \X (0..3))
  BY <1>1, <1>2, FS_Product
<1>4. Blocks \subseteq fn.blocks \X (0..3)
  BY DEF PassInv, BlocksInv
<1> QED BY <1>3, <1>4, FS_Subset

\* No terminator produces a value.
NoInvokes == \A f \in Functions : \A b \in f.blocks : f.results[b] = {}

\* The block that holds what stands for the instruction w of b.
Home(b, w) == <<b, IF Split(b) /\ \E s \in 1..(Size(b) + 1) : w = Body(b, s) THEN 3 ELSE 0>>

\* A head holds the PHIs it had.
LEMMA HeadHolds ==
    ASSUME IInv, PassInv, NEW b \in fn.blocks, NEW w \in fn.insts[b],
           ~ Split(b) \/ ~ \E s \in 1..(Size(b) + 1) : w = Body(b, s)
    PROVE  /\ \E q \in DOMAIN code[<<b, 0>>] : code[<<b, 0>>][q] = w
           /\ w \notin DOMAIN ReMapper
<1> DEFINE f == fn.code[b]
<1>1. /\ fn \in Functions /\ DOMAIN f = 1..Len(f) /\ Len(f) = First(b) + Size(b) /\ ToSet(f) = fn.insts[b]
      /\ First(b) \in Nat /\ First(b) >= 1 /\ Size(b) \in Nat
      /\ \A q \in DOMAIN f : q < First(b) \/ \E r \in 1..(Size(b) + 1) : q = First(b) + r - 1
  BY CodeFacts, FirstFacts DEF IInv
<1>2. PICK q \in DOMAIN f : f[q] = w
  BY <1>1 DEF ToSet
<1>3. CASE ~ Split(b)
  <2>1. code[<<b, 0>>] = f
    BY <1>3 DEF PassInv, CodeInv
  <2>2. \A c \in fn.blocks : Turn(c) \in 0..Size(c)
    BY PassFacts
  <2>3. w \notin DOMAIN ReMapper
    BY <1>1, <1>3, <2>2, KeptBody DEF PassInv
  <2> QED BY <1>2, <2>1, <2>3
<1>4. CASE Split(b)
  <2>1. q < First(b)
    <3> SUFFICES ASSUME NEW r \in 1..(Size(b) + 1), q = First(b) + r - 1
                 PROVE  FALSE
      BY <1>1
    <3>1. w = Body(b, r)
      BY <1>2 DEF Body
    <3> QED BY <1>4, <3>1
  <2>2. q \in 1..(First(b) - 1) /\ q \in 1..First(b)
    BY <1>1, <2>1
  <2>3. Len(code[<<b, 0>>]) = First(b) /\ code[<<b, 0>>][q] = f[q]
    BY <1>4, <2>2 DEF PassInv, CodeInv, HeadInv
  <2>4. DOMAIN code[<<b, 0>>] = 1..Len(code[<<b, 0>>])
    <3>1. code[<<b, 0>>] \in Seq(Names)
      BY PassFacts DEF PassInv, CodeInv
    <3> QED BY <3>1, LenProperties
  <2>5. w \notin DOMAIN ReMapper
    <3> SUFFICES ASSUME w \in DOMAIN ReMapper
                 PROVE  FALSE
      OBVIOUS
    <3>1. PICK c \in fn.blocks : Cloning(c, w)
      BY DEF PassInv, ReMapInv
    <3>2. PICK r \in 1..Turn(c) : w = Body(c, r)
      BY <3>1 DEF Cloning
    <3>3. r \in 1..(Size(c) + 1)
      BY <1>1, PassFacts, FirstFacts
    <3>4. w \notin DOMAIN fn.phis
      BY <1>1, <3>2, <3>3, FirstFacts
    <3>5. w \in DOMAIN fn.phis
      BY <1>1, <1>2, <2>2, FirstFacts
    <3> QED BY <3>4, <3>5
  <2> QED BY <1>2, <2>2, <2>3, <2>4, <2>5
<1> QED BY <1>3, <1>4

\* An lt-tail holds the rest: an instruction that has not been cloned, or the PHI that stands
\* for it, before anything that follows it.
LEMMA TailHolds ==
    ASSUME IInv, PassInv, NEW b \in fn.blocks, Split(b), NEW s \in 1..(Size(b) + 1),
           NEW w, w = Body(b, s), w \notin fn.voids
    PROVE  \E q \in DOMAIN code[<<b, 3>>] :
              /\ code[<<b, 3>>][q] = Remap(w)
              /\ IF pc = "tail" /\ b = BB THEN q = s ELSE s <= Size(b) => q < Len(code[<<b, 3>>])
<1> DEFINE c == code[<<b, 3>>]
<1>1. fn \in Functions /\ Size(b) \in Nat /\ w \in fn.insts[b] /\ w \in Insts
  BY FirstFacts DEF IInv, Insts
<1>2. c \in Seq(Names) /\ DOMAIN c = 1..Len(c) /\ Len(c) \in Nat
  <2>1. c \in Seq(Names)
    BY DEF Split, PassInv, CodeInv
  <2> QED BY <2>1, LenProperties
<1>3. TailInv(b)
  BY DEF PassInv, CodeInv
<1>4. CASE pc = "tail" /\ b = BB
  BY <1>1, <1>2, <1>3, <1>4 DEF TailInv
<1>5. CASE ~ (pc = "tail" /\ b = BB)
  <2>1. Turn(b) = Size(b)
    BY <1>5 DEF Turn
  <2>2. /\ Len(c) >= 1 /\ c[Len(c)] = Body(b, Size(b) + 1)
        /\ \A r \in 1..Size(b) : Body(b, r) \notin fn.voids =>
              \E p \in 1..(Len(c) - 1) : c[p] = <<Body(b, r)[1], 3>>
    BY <1>3, <1>5 DEF TailInv
  <2> HIDE DEF c
  <2>3. CASE s <= Size(b)
    <3>1. s \in 1..Size(b)
      BY <1>1, <2>3
    <3>2. PICK p \in 1..(Len(c) - 1) : c[p] = <<w[1], 3>>
      BY <2>2, <3>1
    <3>3. Cloning(b, w)
      BY <2>1, <3>1 DEF Cloning
    <3>4. w \in DOMAIN ReMapper
      BY <1>1, <3>3 DEF PassInv, ReMapInv
    <3>5. Remap(w) = <<w[1], 3>>
      BY <3>4 DEF Remap, PassInv, ReMapInv
    <3>6. p \in DOMAIN c /\ p < Len(c)
      BY <1>2, <3>2
    <3> QED BY <1>5, <3>2, <3>5, <3>6 DEF c
  <2>4. CASE s = Size(b) + 1
    <3>1. w \notin DOMAIN ReMapper
      BY <2>4, TerminatorKept
    <3>2. Len(c) \in DOMAIN c /\ c[Len(c)] = w
      BY <1>2, <2>2, <2>4
    <3> QED BY <1>1, <1>5, <2>4, <3>1, <3>2 DEF Remap, c
  <2> QED BY <1>1, <2>3, <2>4
<1> QED BY <1>4, <1>5

\* Without invokes, no terminator computes what stands for a value.
LEMMA LastVoid ==
    ASSUME IInv, PassInv, NoInvokes, NEW b \in fn.blocks, NEW k \in {0, 3}, <<b, k>> \in Blocks
    PROVE  Last(code[<<b, k>>]) \in fn.voids \cup {<<b, 4>>}
<1>1. /\ fn \in Functions /\ fn.results[b] = {} /\ Len(fn.code[b]) = First(b) + Size(b)
      /\ fn.code[b][Len(fn.code[b])] \in fn.voids /\ First(b) \in Nat /\ Size(b) \in Nat
  BY CodeFacts, FirstFacts DEF IInv, NoInvokes
<1>2. Body(b, Size(b) + 1) \in fn.voids
  <2>1. Body(b, Size(b) + 1) = fn.code[b][First(b) + (Size(b) + 1) - 1]
    BY DEF Body
  <2>2. First(b) + (Size(b) + 1) - 1 = First(b) + Size(b)
    BY <1>1
  <2> QED BY <1>1, <2>1, <2>2
<1>3. CASE k = 0 /\ Split(b)
  BY <1>3 DEF Last, PassInv, CodeInv, HeadInv
<1>4. CASE k = 0 /\ ~ Split(b)
  BY <1>1, <1>4 DEF Last, PassInv, CodeInv
<1>5. CASE k = 3
  <2>1. TailInv(b)
    BY <1>5 DEF Split, PassInv, CodeInv
  <2>2. CASE pc = "tail" /\ b = BB
    <3>1. Size(b) + 1 \in 1..(Size(b) + 1)
      BY <1>1
    <3>2. Last(code[<<b, 3>>]) = Remap(Body(b, Size(b) + 1))
      BY <2>1, <2>2, <3>1 DEF TailInv, Last
    <3>3. Body(b, Size(b) + 1) \notin DOMAIN ReMapper
      BY <1>2 DEF PassInv, ReMapInv
    <3> QED BY <1>2, <1>5, <3>2, <3>3 DEF Remap
  <2>3. CASE ~ (pc = "tail" /\ b = BB)
    BY <1>2, <1>5, <2>1, <2>3 DEF TailInv, Last
  <2> QED BY <2>2, <2>3
<1> QED BY <1>3, <1>4, <1>5

\* What stands for w is computed by its home, and by the time its home is left.
LEMMA HomeFacts ==
    ASSUME IInv, PassInv, NoInvokes, NEW b \in fn.blocks, NEW w \in fn.insts[b] \ fn.voids
    PROVE  /\ Home(b, w) \in Blocks
           /\ \E q \in DOMAIN code[Home(b, w)] : code[Home(b, w)][q] = Remap(w)
           /\ Remap(w) # Last(code[Home(b, w)])
<1>1. /\ fn \in Functions /\ w \in Insts /\ w = <<w[1], 0>>
      /\ \A v \in fn.voids : v = <<v[1], 0>>
  <2>1. fn \in Functions /\ fn.voids \subseteq Insts
    BY CodeAssumption DEF IInv, IsCode, Insts
  <2> QED BY <2>1, ValueNames DEF Values, Insts
<1>2. Remap(w) = w \/ Remap(w) = <<w[1], 3>>
  BY <1>1, RemapFacts DEF PassInv
<1>3. Remap(w) \notin fn.voids \cup {<<b, 4>>}
  BY <1>1, <1>2
<1>4. CASE Split(b) /\ \E s \in 1..(Size(b) + 1) : w = Body(b, s)
  <2>1. Home(b, w) = <<b, 3>> /\ <<b, 3>> \in Blocks
    BY <1>4 DEF Home, Split
  <2>2. \E q \in DOMAIN code[<<b, 3>>] : code[<<b, 3>>][q] = Remap(w)
    BY <1>4, TailHolds
  <2>3. Last(code[<<b, 3>>]) \in fn.voids \cup {<<b, 4>>}
    BY <2>1, LastVoid
  <2> QED BY <1>3, <2>1, <2>2, <2>3
<1>5. CASE ~ (Split(b) /\ \E s \in 1..(Size(b) + 1) : w = Body(b, s))
  <2>1. Home(b, w) = <<b, 0>> /\ <<b, 0>> \in Blocks
    BY <1>5, PassFacts DEF Home
  <2>2. /\ \E q \in DOMAIN code[<<b, 0>>] : code[<<b, 0>>][q] = w
        /\ w \notin DOMAIN ReMapper
    BY <1>5, HeadHolds
  <2>3. Last(code[<<b, 0>>]) \in fn.voids \cup {<<b, 4>>}
    BY <2>1, LastVoid
  <2> QED BY <1>3, <2>1, <2>2, <2>3 DEF Remap
<1> QED BY <1>4, <1>5

\* Where w was available what stands for it is, in each part of the block; and so it is in
\* the parts of its own block below its home.
LEMMA CopyAvailable ==
    ASSUME IInv, PassInv, NoInvokes, NEW b \in fn.blocks, NEW w \in fn.insts[b] \ fn.voids,
           NEW B \in UnavailableIn(Remap(w))
    PROVE  /\ B[1] \notin AvailableIn(fn, w)
           /\ B[1] = b /\ Home(b, w) = <<b, 0>> => B[2] = 0
<1> DEFINE E == Edges(fn) \ DefiningEdges(fn, w)
           U == ReachedOver(fn.blocks, E, {fn.entry})
           H == Home(b, w)
           S == {C \in Blocks : C[1] \in U /\ (C[1] = b /\ H = <<b, 0>> => C[2] = 0)}
<1>1. /\ fn \in Functions /\ w \notin fn.args \cup fn.globals /\ fn.entry \in fn.blocks
      /\ fn.succ \in [fn.blocks -> SUBSET fn.blocks]
      /\ \A c \in fn.blocks : w \in fn.insts[c] => c = b
  BY FunctionsAssumption DEF IInv, IsFunction
<1>2. AvailableIn(fn, w) = fn.blocks \ U
  BY <1>1 DEF AvailableIn
<1>3. fn.entry \in U
  BY <1>1 DEF ReachedOver
<1>4. ASSUME NEW c \in U, c # b, NEW d \in fn.succ[c]
      PROVE  d \in U
  <2>1. c \in fn.blocks
    BY DEF ReachedOver
  <2>2. <<c, d>> \in E
    BY <1>1, <1>4, <2>1 DEF Edges, DefiningEdges
  <2> HIDE DEF E
  <2> QED BY <1>1, <2>1, <2>2 DEF ReachedOver, ClosedUnder, Edges
<1> HIDE DEF U
<1>5. H \in Blocks /\ H \in {<<b, 0>>, <<b, 3>>} /\ (H = <<b, 3>> => Split(b))
      /\ (\E q \in DOMAIN code[H] : code[H][q] = Remap(w)) /\ Remap(w) # Last(code[H])
  BY HomeFacts DEF Home
<1> HIDE DEF H
<1>6. \A C \in Blocks : <<H, C>> \in Flow => <<H, C>> \in Defining(Remap(w))
  BY <1>5 DEF Defining, Code, ToSet
<1>7. <<fn.entry, 0>> \in S
  <2>1. <<fn.entry, 0>> \in Blocks
    BY <1>1, PassFacts
  <2> QED BY <1>3, <2>1
<1>8. ASSUME NEW C \in S, NEW D \in Blocks, <<C, D>> \in Flow \ Defining(Remap(w))
      PROVE  D \in S
  <2>1. /\ C \in Blocks /\ C \in fn.blocks \X (0..3) /\ (C[2] = 0 \/ Split(C[1]))
        /\ D \in SuccOf(C) /\ C # H
    <3>1. C \in Blocks /\ D \in succ[C]
      BY <1>8 DEF Flow
    <3>2. C \in fn.blocks \X (0..3) /\ (C[2] = 0 \/ Split(C[1])) /\ succ[C] = SuccOf(C)
      BY <3>1 DEF PassInv, BlocksInv
    <3> QED BY <1>6, <1>8, <3>1, <3>2
  <2>2. CASE C[2] \in {1, 2} \/ (C[2] = 0 /\ Split(C[1]))
    <3>1. D[1] = C[1]
      BY <2>1, <2>2 DEF SuccOf
    <3>2. C[1] = b /\ H = <<b, 0>> => FALSE
      BY <2>1
    <3> QED BY <3>1, <3>2
  <2>3. CASE ~ (C[2] \in {1, 2} \/ (C[2] = 0 /\ Split(C[1])))
    <3>1. D[2] = 0 /\ D[1] \in fn.succ[C[1]]
      BY <2>1, <2>3 DEF SuccOf
    <3>2. C[1] # b
      <4>1. C = <<C[1], IF Split(C[1]) THEN 3 ELSE 0>>
        BY <2>1, <2>3
      <4>2. CASE C[1] = b /\ H = <<b, 0>>
        BY <2>1, <4>2
      <4>3. CASE C[1] = b /\ H = <<b, 3>>
        BY <1>5, <2>1, <4>1, <4>3
      <4> QED BY <1>5, <4>2, <4>3
    <3>3. D[1] \in U
      BY <1>4, <3>1, <3>2
    <3> QED BY <3>1, <3>3
  <2> QED BY <2>2, <2>3
<1> HIDE DEF S
<1>9. ReachedWithout(Defining(Remap(w))) \subseteq S
  BY <1>7, <1>8, FiniteBlocks, ReachedIn
<1>10. B \in S
  BY <1>9 DEF UnavailableIn
<1>11. B[1] \in U /\ (B[1] = b /\ H = <<b, 0>> => B[2] = 0)
  BY <1>10 DEF S
<1> QED BY <1>2, <1>11 DEF H

--------------------------------------------------------------------------------
(* The operands have been computed. *)

\* v has been computed when control comes to position p of B.
InTime(v, B, p) == B \notin UnavailableIn(v) \/ \E q \in 1..(p - 1) : code[B][q] = v

LEMMA OutsideKept ==
    ASSUME IInv, PassInv, NEW w \in Values, Remap(w) \notin Outside
    PROVE  w \in Insts /\ \E b \in fn.blocks : w \in fn.insts[b]
<1>1. \A b \in fn.blocks, u \in fn.args \cup fn.globals : u \notin fn.insts[b]
  BY FunctionsAssumption DEF IInv, IsFunction
<1>2. CASE w \in fn.args \cup fn.globals
  <2>1. w \notin Insts
    BY <1>1, <1>2 DEF Insts
  <2>2. w \notin DOMAIN ReMapper
    BY <2>1 DEF PassInv, ReMapInv
  <2> QED BY <1>2, <2>2 DEF Remap, Outside
<1>3. CASE w \in Insts
  BY <1>3 DEF Insts
<1> QED BY <1>2, <1>3 DEF Values

LEMMA CopyExists ==
    ASSUME IInv, PassInv, NoInvokes, NEW w \in Values \ fn.voids
    PROVE  Exists(Remap(w))
<1>1. CASE Remap(w) \in Outside
  BY <1>1 DEF Exists
<1>2. CASE Remap(w) \notin Outside
  <2>1. PICK b \in fn.blocks : w \in fn.insts[b]
    BY <1>2, OutsideKept
  <2>2. /\ Home(b, w) \in Blocks
        /\ \E q \in DOMAIN code[Home(b, w)] : code[Home(b, w)][q] = Remap(w)
    BY <2>1, HomeFacts
  <2> QED BY <2>2 DEF Exists, Code, ToSet
<1> QED BY <1>1, <1>2

\* Where the clones are.
LEMMA CloneAt ==
    ASSUME IInv, PassInv, NEW b \in fn.blocks, Split(b), NEW k \in {1, 2}, NEW s \in 1..Turn(b)
    PROVE  /\ <<b, k>> \in Blocks /\ s \in DOMAIN code[<<b, k>>]
           /\ code[<<b, k>>][s] = <<Body(b, s)[1], k>>
           /\ Exists(<<Body(b, s)[1], k>>)
<1>1. <<b, k>> \in Blocks
  BY DEF PassInv, BlocksInv
<1>2. code[<<b, k>>] \in Seq(Names)
  BY <1>1 DEF PassInv, CodeInv
<1>3. BranchInv(b, 1) /\ BranchInv(b, 2)
  BY DEF PassInv, CodeInv
<1>4. BranchInv(b, k)
  BY <1>3
<1>5. Len(code[<<b, k>>]) = Turn(b) /\ code[<<b, k>>][s] = <<Body(b, s)[1], k>>
  BY <1>4 DEF BranchInv
<1>6. s \in DOMAIN code[<<b, k>>]
  BY <1>2, <1>5, LenProperties
<1> QED BY <1>1, <1>5, <1>6 DEF Exists, Code, ToSet

\* The block of a target is reached, and its context is available in it.
LEMMA SplitTarget ==
    ASSUME IInv, PassInv, NoInvokes, NEW b \in fn.blocks, Split(b)
    PROVE  /\ b \in Reachable(fn)
           /\ \E w \in Values \ fn.voids : ops[<<b, 4>>] = {Remap(w)} /\ b \in AvailableIn(fn, w)
<1>1. PICK t \in DOMAIN Targets : Targets[t][1] = b
  BY DEF PassInv, BlocksInv
<1> DEFINE w == Targets[t][2]
<1>2. b \in Reachable(fn) /\ w \in AllValues(fn) \cap fn.ints
  BY <1>1, PassFacts
<1>3. w \in Values
  BY <1>2 DEF AllValues, Values, Insts
<1>4. w \notin fn.voids
  BY <1>2, CodeAssumption DEF IInv, IsCode
<1>5. TerminatorResults(fn) = {}
  BY DEF TerminatorResults, NoInvokes, IInv
<1>6. b \in AvailableIn(fn, w)
  BY <1>1, <1>5 DEF PassInv, TargetsInv
<1>7. ops[<<b, 4>>] = {Remap(w)}
  BY <1>1 DEF PassInv, OpsInv
<1> HIDE DEF w
<1> QED BY <1>2, <1>3, <1>4, <1>6, <1>7

\* What is available in a block is, by the value that stands for it, in each part of it.
LEMMA AvailableStays ==
    ASSUME IInv, PassInv, NoInvokes, NEW w \in Values \ fn.voids, Remap(w) \notin Outside,
           NEW b \in AvailableIn(fn, w), NEW k
    PROVE  <<b, k>> \notin UnavailableIn(Remap(w))
<1>1. PICK c \in fn.blocks : w \in fn.insts[c]
  BY OutsideKept
<1> QED BY <1>1, CopyAvailable

\* An operand of an instruction of a block that has been split comes before it in the block
\* or, by the value that stands for it, has been computed by the end of the head.
LEMMA BodyOperand ==
    ASSUME IInv, PassInv, NoInvokes, NEW b \in fn.blocks, Split(b), NEW r \in 1..(Size(b) + 1),
           NEW o \in fn.ops[Body(b, r)]
    PROVE  /\ o \in Values \ fn.voids
           /\ Remap(o) \notin Outside =>
                 \/ \E s \in 1..(Size(b) + 1) : s < r /\ o = Body(b, s)
                 \/ \A k \in {1, 2, 3} : <<b, k>> \notin UnavailableIn(Remap(o))
<1>1. fn \in Functions /\ b \in Reachable(fn)
  BY SplitTarget DEF IInv
<1>2. /\ o \in Values \ fn.voids
      /\ \A s \in 1..(Size(b) + 1) : o = Body(b, s) => s < r
      /\ o \in fn.insts[b] \/ b \in AvailableIn(fn, o)
  BY <1>1, OperandFacts
<1>3. CASE Remap(o) \notin Outside /\ b \in AvailableIn(fn, o)
  BY <1>2, <1>3, AvailableStays
<1>4. CASE o \in fn.insts[b] /\ ~ \E s \in 1..(Size(b) + 1) : o = Body(b, s)
  <2>1. Home(b, o) = <<b, 0>>
    BY <1>4 DEF Home
  <2>2. \A B \in UnavailableIn(Remap(o)) : B[1] = b => B[2] = 0
    BY <1>2, <1>4, <2>1, CopyAvailable
  <2> QED BY <1>2, <2>2
<1>5. CASE o \in fn.insts[b] /\ \E s \in 1..(Size(b) + 1) : o = Body(b, s)
  BY <1>2, <1>5
<1> QED BY <1>2, <1>3, <1>4, <1>5

\* Clones use the clones of their branch, everything else what stands for its operands: all of
\* them are in the function.
LEMMA OperandsExist ==
    ASSUME IInv, PassInv, NoInvokes, NEW i \in DOMAIN ops, NEW v \in ops[i]
    PROVE  Exists(v)
<1>1. CASE i \in (DOMAIN fn.ops) \ DOMAIN ReMapper
  <2>1. PICK o \in fn.ops[i] : v = Remap(o)
    BY <1>1 DEF PassInv, OpsInv
  <2>2. o \in Values \ fn.voids
    BY <1>1, CodeAssumption DEF IInv, IsCode, Values, Insts
  <2> QED BY <2>1, <2>2, CopyExists
<1>2. ASSUME NEW b \in fn.blocks, Split(b), i = <<b, 4>>
      PROVE  Exists(v)
  <2>1. PICK w \in Values \ fn.voids : ops[<<b, 4>>] = {Remap(w)}
    BY <1>2, SplitTarget
  <2> QED BY <1>2, <2>1, CopyExists
<1>3. ASSUME NEW w \in Insts, NEW b \in fn.blocks, Cloning(b, w), NEW k \in {1, 2}, i = <<w[1], k>>
      PROVE  Exists(v)
  <2>1. PICK r \in 1..Turn(b) : w = Body(b, r)
    BY <1>3 DEF Cloning
  <2>2. Split(b) /\ Turn(b) \in 0..Size(b) /\ Size(b) \in Nat
    BY <1>3, PassFacts, FirstFacts DEF Cloning, IInv
  <2>3. r \in 1..(Size(b) + 1)
    BY <2>2
  <2>4. ops[i] = {CloneOperand(b, k, o) : o \in fn.ops[Body(b, r)]}
    BY <1>3, <2>1, <2>2 DEF PassInv, OpsInv
  <2>5. PICK o \in fn.ops[Body(b, r)] : v = CloneOperand(b, k, o)
    BY <2>4
  <2>6. CASE InBody(b, o)
    <3>1. PICK s \in 1..Size(b) : o = Body(b, s)
      BY <2>6 DEF InBody
    <3>2. b \in Reachable(fn) /\ fn \in Functions
      BY <2>2, SplitTarget DEF IInv
    <3>3. s \in 1..(Size(b) + 1)
      BY <2>2
    <3>4. s < r
      BY <2>3, <3>1, <3>2, <3>3, OperandFacts
    <3>5. s \in 1..Turn(b)
      BY <2>2, <3>4
    <3>6. v = <<Body(b, s)[1], k>>
      BY <2>5, <2>6, <3>1 DEF CloneOperand
    <3> QED BY <2>2, <3>5, <3>6, CloneAt
  <2>7. CASE ~ InBody(b, o)
    <3>1. o \in Values \ fn.voids
      BY <2>2, <2>3, BodyOperand
    <3> QED BY <2>5, <2>7, <3>1, CopyExists DEF CloneOperand
  <2> QED BY <2>6, <2>7
<1>4. \/ i \in (DOMAIN fn.ops) \ DOMAIN ReMapper
      \/ \E b \in fn.blocks : Split(b) /\ i = <<b, 4>>
      \/ \E w \in Insts, b \in fn.blocks, k \in {1, 2} : Cloning(b, w) /\ i = <<w[1], k>>
  <2>1. i \in ((DOMAIN fn.ops) \ DOMAIN ReMapper)
              \cup {<<b, 4>> : b \in {c \in fn.blocks : Split(c)}}
              \cup {<<w[1], k>> : w \in {u \in Insts : \E b \in fn.blocks : Cloning(b, u)}, k \in {1, 2}}
    BY DEF PassInv, OpsInv
  <2> QED BY <2>1
<1> QED BY <1>1, <1>2, <1>3, <1>4

\* An operand has been computed where the instruction is.
LEMMA OperandsInTime ==
    ASSUME IInv, PassInv, NoInvokes, NEW B \in Blocks, NEW p \in DOMAIN code[B],
           code[B][p] \notin DOMAIN phis, NEW v \in ops[code[B][p]], v \notin Outside
    PROVE  InTime(v, B, p)
<1>1. PICK b \in fn.blocks, k \in 0..3 : B = <<b, k>> /\ (k = 0 \/ Split(b))
  BY DEF PassInv, BlocksInv
<1>2. /\ fn \in Functions /\ First(b) \in Nat /\ Size(b) \in Nat /\ Turn(b) \in 0..Size(b)
      /\ First(b) >= 1
      /\ code[B] \in Seq(Names) /\ p \in 1..Len(code[B])
  <2>1. code[B] \in Seq(Names)
    BY DEF PassInv, CodeInv
  <2> QED BY <2>1, LenProperties, PassFacts, FirstFacts
<1>3. ASSUME k = 0, ~ Split(b)
      PROVE  InTime(v, B, p)
  <2> DEFINE i == fn.code[b][p]
  <2>1. code[B] = fn.code[b]
    BY <1>1, <1>3 DEF PassInv, CodeInv
  <2>2. i \in fn.insts[b] /\ i = <<i[1], 0>> /\ i \in Insts
    <3>1. i \in fn.insts[b]
      BY <1>2, <2>1, CodeFacts, ElementOfSeq
    <3> QED BY <1>2, <3>1, ValueNames DEF Values, Insts
  <2>3. \A u \in fn.insts[b] : u \notin DOMAIN ReMapper /\ Remap(u) = u
    <3>1. \A c \in fn.blocks : Turn(c) \in 0..Size(c)
      BY PassFacts
    <3> QED BY <1>2, <1>3, <3>1, KeptBody DEF PassInv
  <2>4. i \notin DOMAIN fn.phis
    BY <1>2, <2>1, <2>2, SamePHIs DEF PassInv
  <2>5. i \in DOMAIN fn.ops \ DOMAIN ReMapper
    BY <1>2, <2>2, <2>3, <2>4, CodeAssumption, SMTT(20) DEF IsCode, Insts
  <2>6. PICK o \in fn.ops[i] : v = Remap(o)
    BY <2>1, <2>5 DEF PassInv, OpsInv
  <2>7. o \in Values \ fn.voids
    BY <1>2, <2>5, CodeAssumption DEF IsCode, Values, Insts
  <2>8. (\E q \in 1..(p - 1) : fn.code[b][q] = o) \/ b \in AvailableIn(fn, o)
    <3>1. \A q \in DOMAIN fn.code[b] :
             fn.code[b][q] \notin DOMAIN fn.phis =>
               \A x \in fn.ops[fn.code[b][q]] :
                  (\E m \in 1..(q - 1) : fn.code[b][m] = x) \/ b \in AvailableIn(fn, x)
      BY <1>2, CodeAssumption DEF IsCode
    <3>2. p \in DOMAIN fn.code[b]
      BY <2>1
    <3> HIDE DEF i
    <3>3. i = fn.code[b][p]
      BY DEF i
    <3> QED BY <2>4, <2>6, <3>1, <3>2, <3>3
  <2>9. CASE b \in AvailableIn(fn, o)
    <3>1. <<b, 0>> \notin UnavailableIn(Remap(o))
      BY <2>6, <2>7, <2>9, AvailableStays
    <3> QED BY <1>1, <1>3, <2>6, <3>1 DEF InTime
  <2>10. ASSUME NEW q \in 1..(p - 1), fn.code[b][q] = o
         PROVE  InTime(v, B, p)
    <3>1. q \in 1..Len(fn.code[b])
      BY <1>2, <2>1
    <3>2. o \in fn.insts[b]
      BY <1>2, <2>10, <3>1, CodeFacts, ElementOfSeq
    <3>3. code[B][q] = v
      BY <2>1, <2>3, <2>6, <2>10, <3>2
    <3> QED BY <3>3 DEF InTime
  <2> QED BY <2>8, <2>9, <2>10
<1>4. ASSUME k = 0, Split(b)
      PROVE  InTime(v, B, p)
  <2>1. /\ Len(code[B]) = First(b) /\ code[B][First(b)] = <<b, 4>>
        /\ \A q \in 1..(First(b) - 1) : code[B][q] = fn.code[b][q]
    BY <1>1, <1>4 DEF PassInv, CodeInv, HeadInv
  <2>2. p = First(b)
    <3>1. \A q \in 1..(First(b) - 1) : fn.code[b][q] \in DOMAIN fn.phis
      BY <1>2, FirstFacts
    <3>2. \A q \in 1..(First(b) - 1) : code[B][q] \in DOMAIN phis
      BY <2>1, <3>1 DEF PassInv, PhisInv
    <3>3. p \notin 1..(First(b) - 1)
      BY <3>2
    <3> QED BY <1>2, <2>1, <3>3
  <2>3. PICK w \in Values \ fn.voids : ops[<<b, 4>>] = {Remap(w)} /\ b \in AvailableIn(fn, w)
    BY <1>4, SplitTarget
  <2>4. v = Remap(w)
    BY <2>1, <2>2, <2>3
  <2>5. <<b, 0>> \notin UnavailableIn(Remap(w))
    BY <2>3, <2>4, AvailableStays
  <2> QED BY <1>1, <1>4, <2>4, <2>5 DEF InTime
<1>5. ASSUME k \in {1, 2}, Split(b)
      PROVE  InTime(v, B, p)
  <2>1. Len(code[B]) = Turn(b)
    <3>1. BranchInv(b, 1) /\ BranchInv(b, 2)
      BY <1>5 DEF PassInv, CodeInv
    <3>2. BranchInv(b, k)
      BY <1>5, <3>1
    <3> QED BY <1>1, <3>2 DEF BranchInv
  <2>2. p \in 1..Turn(b) /\ p \in 1..(Size(b) + 1)
    BY <1>2, <2>1
  <2>3. code[B][p] = <<Body(b, p)[1], k>>
    BY <1>1, <1>5, <2>2, CloneAt
  <2>4. ops[code[B][p]] = {CloneOperand(b, k, o) : o \in fn.ops[Body(b, p)]}
    BY <1>5, <2>2, <2>3 DEF PassInv, OpsInv
  <2>5. PICK o \in fn.ops[Body(b, p)] : v = CloneOperand(b, k, o)
    BY <2>4
  <2>6. /\ \A s \in 1..(Size(b) + 1) : o = Body(b, s) => s < p
        /\ o \in Values \ fn.voids
        /\ Remap(o) \notin Outside =>
              \/ \E s \in 1..(Size(b) + 1) : s < p /\ o = Body(b, s)
              \/ \A m \in {1, 2, 3} : <<b, m>> \notin UnavailableIn(Remap(o))
    <3>1. b \in Reachable(fn)
      BY <1>5, SplitTarget
    <3> QED BY <1>2, <1>5, <2>2, <3>1, OperandFacts, BodyOperand
  <2>7. CASE InBody(b, o)
    <3>1. PICK s \in 1..Size(b) : o = Body(b, s)
      BY <2>7 DEF InBody
    <3>2. s \in 1..(Size(b) + 1)
      BY <1>2
    <3>3. s < p
      BY <2>6, <3>1, <3>2
    <3>4. s \in 1..(p - 1) /\ s \in 1..Turn(b)
      BY <1>2, <2>2, <3>3
    <3>5. code[B][s] = v
      BY <1>1, <1>5, <2>5, <2>7, <3>1, <3>4, CloneAt DEF CloneOperand
    <3> QED BY <3>4, <3>5 DEF InTime
  <2>8. CASE ~ InBody(b, o)
    <3>1. v = Remap(o)
      BY <2>5, <2>8 DEF CloneOperand
    <3>2. ~ \E s \in 1..(Size(b) + 1) : s < p /\ o = Body(b, s)
      <4> SUFFICES ASSUME NEW s \in 1..(Size(b) + 1), s < p, o = Body(b, s)
                   PROVE  FALSE
        OBVIOUS
      <4>1. s \in 1..Size(b)
        BY <1>2, <2>2
      <4> QED BY <2>8, <4>1 DEF InBody
    <3>3. <<b, k>> \notin UnavailableIn(Remap(o))
      BY <1>5, <2>6, <3>1, <3>2
    <3> QED BY <1>1, <3>1, <3>3 DEF InTime
  <2> QED BY <2>7, <2>8
<1>6. ASSUME k = 3, Split(b)
      PROVE  InTime(v, B, p)
  <2>1. PICK r \in 1..(Size(b) + 1) :
           /\ code[B][p] = Body(b, r) /\ Body(b, r) \notin DOMAIN ReMapper
           /\ IF pc = "tail" /\ b = BB THEN p = r ELSE p = Len(code[B]) /\ r = Size(b) + 1
    <3>1. TailInv(b)
      BY <1>6 DEF PassInv, CodeInv
    <3>2. CASE pc = "tail" /\ b = BB
      <4>1. Len(code[B]) = Size(b) + 1 /\ \A r \in 1..(Size(b) + 1) : code[B][r] = Remap(Body(b, r))
        BY <1>1, <1>6, <3>1, <3>2 DEF TailInv
      <4>2. p \in 1..(Size(b) + 1) /\ code[B][p] = Remap(Body(b, p))
        BY <1>2, <4>1
      <4>3. Body(b, p) \notin DOMAIN ReMapper
        <5> SUFFICES ASSUME Body(b, p) \in DOMAIN ReMapper
                     PROVE  FALSE
          OBVIOUS
        <5>1. code[B][p] = <<Body(b, p)[1], 3>>
          BY <4>2 DEF Remap, PassInv, ReMapInv
        <5> QED BY <5>1 DEF PassInv, PhisInv
      <4> QED BY <3>2, <4>2, <4>3 DEF Remap
    <3>3. CASE ~ (pc = "tail" /\ b = BB)
      <4>1. /\ Len(code[B]) >= 1 /\ code[B][Len(code[B])] = Body(b, Size(b) + 1)
            /\ \A q \in 1..(Len(code[B]) - 1) :
                  \E r \in 1..Size(b) : Body(b, r) \notin fn.voids /\ code[B][q] = <<Body(b, r)[1], 3>>
        BY <1>1, <1>6, <3>1, <3>3 DEF TailInv
      <4>2. ASSUME p # Len(code[B])
            PROVE  FALSE
        <5>1. p \in 1..(Len(code[B]) - 1)
          BY <1>2, <4>2, LenProperties
        <5>2. PICK r \in 1..Size(b) : Body(b, r) \notin fn.voids /\ code[B][p] = <<Body(b, r)[1], 3>>
          BY <4>1, <5>1
        <5>3. Turn(b) = Size(b)
          BY <3>3 DEF Turn
        <5>4. Cloning(b, Body(b, r))
          BY <1>6, <5>3 DEF Cloning
        <5>5. r \in 1..(Size(b) + 1)
          BY <1>2
        <5>6. Body(b, r) \in Insts
          BY <1>2, <5>5, FirstFacts DEF Insts
        <5>7. Body(b, r) \in DOMAIN ReMapper
          BY <5>2, <5>4, <5>6 DEF PassInv, ReMapInv
        <5> QED BY <5>2, <5>7 DEF PassInv, PhisInv
      <4>3. Body(b, Size(b) + 1) \notin DOMAIN ReMapper
        BY <1>6, TerminatorKept
      <4>4. Size(b) + 1 \in 1..(Size(b) + 1)
        BY <1>2
      <4> QED BY <3>3, <4>1, <4>2, <4>3, <4>4
    <3> QED BY <3>2, <3>3
  <2>2. Body(b, r) \in DOMAIN fn.ops \ DOMAIN ReMapper
    BY <1>2, <2>1, FirstFacts, CodeAssumption, SMTT(20) DEF IsCode, Insts
  <2>3. PICK o \in fn.ops[Body(b, r)] : v = Remap(o)
    BY <2>1, <2>2 DEF PassInv, OpsInv
  <2>4. CASE \A m \in {1, 2, 3} : <<b, m>> \notin UnavailableIn(Remap(o))
    BY <1>1, <1>6, <2>3, <2>4 DEF InTime
  <2>5. ASSUME NEW s \in 1..(Size(b) + 1), s < r, o = Body(b, s)
        PROVE  InTime(v, B, p)
    <3>1. o \notin fn.voids
      BY <1>6, BodyOperand
    <3>2. PICK q \in DOMAIN code[B] :
             /\ code[B][q] = Remap(o)
             /\ IF pc = "tail" /\ b = BB THEN q = s ELSE s <= Size(b) => q < Len(code[B])
      BY <1>1, <1>6, <2>5, <3>1, TailHolds
    <3>3. q \in 1..Len(code[B])
      BY <1>2, LenProperties
    <3>4. q \in 1..(p - 1)
      BY <1>2, <2>1, <2>5, <3>2, <3>3
    <3> QED BY <2>3, <3>2, <3>4 DEF InTime
  <2> QED BY <1>6, <2>3, <2>4, <2>5, BodyOperand
<1> QED BY <1>1, <1>3, <1>4, <1>5, <1>6

\* An incoming value of a PHI has been computed by the end of the block it comes from.
LEMMA IncomingInTime ==
    ASSUME IInv, PassInv, NoInvokes, NEW i \in DOMAIN phis, NEW P \in DOMAIN phis[i],
           phis[i][P] \notin Outside
    PROVE  /\ Exists(phis[i][P])
           /\ P \notin UnavailableIn(phis[i][P]) \/ \E q \in 1..Len(code[P]) : code[P][q] = phis[i][P]
<1> DEFINE v == phis[i][P]
<1>0. fn \in Functions
  BY DEF IInv
<1>1. CASE i \in DOMAIN fn.phis
  <2>1. PICK b \in DOMAIN fn.phis[i] : P = Exit(b) /\ v = Remap(fn.phis[i][b])
    <3>1. PICK b \in DOMAIN fn.phis[i] : P = Exit(b)
      BY <1>1 DEF PassInv, PhisInv
    <3>2. phis[i][Exit(b)] = Remap(fn.phis[i][b])
      BY <1>1 DEF PassInv, PhisInv
    <3> QED BY <3>1, <3>2
  <2> DEFINE o == fn.phis[i][b]
  <2>2. o \in Values \ fn.voids
    BY <1>0, <1>1, CodeAssumption DEF IsCode, Values, Insts
  <2>3. b \in fn.blocks /\ (o \in fn.insts[b] \/ b \in AvailableIn(fn, o))
    <3>1. PICK c \in fn.blocks : i \in fn.insts[c]
      BY <1>0, <1>1, CodeAssumption DEF IsCode
    <3>2. PICK p \in DOMAIN fn.code[c] : fn.code[c][p] = i
      BY <1>0, <3>1, CodeFacts DEF ToSet
    <3>3. DOMAIN fn.phis[i] = {B \in fn.blocks : c \in fn.succ[B]}
      BY <1>0, <1>1, <3>2, CodeFacts
    <3>4. \A q \in DOMAIN fn.code[c] :
             fn.code[c][q] \in DOMAIN fn.phis =>
               \A B \in DOMAIN fn.phis[fn.code[c][q]] :
                  \/ fn.phis[fn.code[c][q]][B] \in fn.insts[B]
                  \/ B \in AvailableIn(fn, fn.phis[fn.code[c][q]][B])
      BY <1>0, CodeAssumption DEF IsCode
    <3> QED BY <1>1, <3>2, <3>3, <3>4
  <2> HIDE DEF o
  <2>4. v = Remap(o)
    BY <2>1 DEF o
  <2>5. Exists(v)
    BY <2>2, <2>4, CopyExists
  <2>6. CASE b \in AvailableIn(fn, o)
    <3>1. \A k : <<b, k>> \notin UnavailableIn(Remap(o))
      BY <2>2, <2>4, <2>6, AvailableStays
    <3> QED BY <2>1, <2>4, <2>5, <3>1 DEF Exit
  <2>7. CASE o \in fn.insts[b]
    <3>1. Home(b, o) \in Blocks /\ \E q \in DOMAIN code[Home(b, o)] : code[Home(b, o)][q] = Remap(o)
      BY <2>2, <2>3, <2>7, HomeFacts
    <3>2. CASE Home(b, o) = P
      <4>1. code[P] \in Seq(Names)
        BY <3>1, <3>2 DEF PassInv, CodeInv
      <4>2. DOMAIN code[P] = 1..Len(code[P])
        BY <4>1, LenProperties
      <4> QED BY <2>4, <2>5, <3>1, <3>2, <4>2
    <3>3. CASE Home(b, o) # P
      <4>1. P = <<b, 3>> /\ Home(b, o) = <<b, 0>>
        BY <2>1, <3>3 DEF Exit, Home
      <4>2. P \notin UnavailableIn(Remap(o))
        <5>1. \A B \in UnavailableIn(Remap(o)) : B[1] = b => B[2] = 0
          BY <2>2, <2>3, <2>7, <4>1, CopyAvailable
        <5> QED BY <4>1, <5>1
      <4> QED BY <2>4, <2>5, <4>2
    <3> QED BY <3>2, <3>3
  <2> QED BY <2>3, <2>6, <2>7
<1>2. CASE i \notin DOMAIN fn.phis
  <2>1. PICK w \in DOMAIN ReMapper : i = <<w[1], 3>>
    BY <1>2 DEF PassInv, PhisInv
  <2>2. PICK b \in fn.blocks : Cloning(b, w)
    BY DEF PassInv, ReMapInv
  <2>3. PICK r \in 1..Turn(b) : w = Body(b, r)
    BY <2>2 DEF Cloning
  <2>4. Split(b) /\ Turn(b) \in 0..Size(b) /\ Size(b) \in Nat
    BY <1>0, <2>2, PassFacts, FirstFacts DEF Cloning
  <2>5. w \in fn.insts[b]
    <3>1. r \in 1..(Size(b) + 1)
      BY <2>4
    <3> QED BY <1>0, <2>3, <3>1, FirstFacts
  <2>6. /\ DOMAIN phis[i] = {<<b, 1>>, <<b, 2>>}
        /\ \A Q \in {<<b, 1>>, <<b, 2>>} : phis[i][Q] = <<w[1], Q[2]>>
    BY <2>1, <2>5 DEF PassInv, PhisInv
  <2>7. PICK k \in {1, 2} : P = <<b, k>> /\ v = <<w[1], k>>
    BY <2>6
  <2>8. /\ <<b, k>> \in Blocks /\ r \in DOMAIN code[<<b, k>>]
        /\ code[<<b, k>>][r] = <<Body(b, r)[1], k>> /\ Exists(<<Body(b, r)[1], k>>)
    BY <2>4, CloneAt
  <2>9. DOMAIN code[<<b, k>>] = 1..Len(code[<<b, k>>])
    <3>1. code[<<b, k>>] \in Seq(Names)
      BY <2>8 DEF PassInv, CodeInv
    <3> QED BY <3>1, LenProperties
  <2> QED BY <2>3, <2>7, <2>8, <2>9
<1> QED BY <1>1, <1>2

\* Without invokes, every operand has been computed when it is used, at each step of the pass:
\* the context values that were picked before the rewriting, and are used as conditions after
\* part of it, among them.
THEOREM OperandsInPlace ==
    ASSUME NoInvokes
    PROVE  PassSpec => []OperandsAvailable
<1>1. IInv /\ PassInv => OperandsAvailable
  <2> SUFFICES ASSUME IInv, PassInv,
                      NEW v \in UNION ({ops[i] : i \in DOMAIN ops} \cup
                                         {{phis[i][P] : P \in DOMAIN phis[i]} : i \in DOMAIN phis}),
                      v \notin Outside
               PROVE  /\ Exists(v)
                      /\ \A B \in Blocks : \A p \in DOMAIN code[B] :
                            IF code[B][p] \in DOMAIN phis
                            THEN \A P \in DOMAIN phis[code[B][p]] :
                                    phis[code[B][p]][P] = v => InTime(v, P, Len(code[P]) + 1)
                            ELSE v \in ops[code[B][p]] => InTime(v, B, p)
    BY Zenon DEF OperandsAvailable, InTime
  <2>1. Exists(v)
    <3>1. (\E i \in DOMAIN ops : v \in ops[i]) \/ \E i \in DOMAIN phis : \E P \in DOMAIN phis[i] : v = phis[i][P]
      OBVIOUS
    <3>2. CASE \E i \in DOMAIN ops : v \in ops[i]
      BY <3>2, OperandsExist
    <3>3. CASE \E i \in DOMAIN phis : \E P \in DOMAIN phis[i] : v = phis[i][P]
      BY <3>3, IncomingInTime
    <3> QED BY <3>1, <3>2, <3>3
  <2>2. ASSUME NEW B \in Blocks, NEW p \in DOMAIN code[B], code[B][p] \in DOMAIN phis,
               NEW P \in DOMAIN phis[code[B][p]], phis[code[B][p]][P] = v
        PROVE  InTime(v, P, Len(code[P]) + 1)
    <3>1. P \notin UnavailableIn(v) \/ \E q \in 1..Len(code[P]) : code[P][q] = v
      BY <2>2, IncomingInTime
    <3>2. \A q \in 1..Len(code[P]) : q \in 1..(Len(code[P]) + 1 - 1)
      OBVIOUS
    <3> QED BY <3>1, <3>2 DEF InTime
  <2>3. ASSUME NEW B \in Blocks, NEW p \in DOMAIN code[B], code[B][p] \notin DOMAIN phis,
               v \in ops[code[B][p]]
        PROVE  InTime(v, B, p)
    BY <2>3, OperandsInTime
  <2> QED BY <2>1, <2>2, <2>3
<1> QED BY PassInvariance, <1>1, PTL
================================================================================
