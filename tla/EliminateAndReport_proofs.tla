------------------------ MODULE EliminateAndReport_proofs ------------------------
(***************************************************************************)
(* The elimination of derived induction variables in every loop nest, its  *)
(* arithmetic in integers no wider than int64_t, and the report of         *)
(* affine-recurrence that follows it.                                      *)
(***************************************************************************)
EXTENDS EliminateAndReport, FiniteSetTheorems, SequenceTheorems, TLAPS

--------------------------------------------------------------------------------
(* Residues. *)

\* Quotient and remainder.
LEMMA Division ==
    ASSUME NEW x \in Int, NEW m \in Nat \ {0}
    PROVE  \E q \in Int : \E r \in 0..(m - 1) : x = m * q + r /\ x % m = r
<1> DEFINE q == x \div m
           r == x % m
           p == m * q
<1>1. q \in Int
  OBVIOUS
<1>2. r \in 0..(m - 1)
  OBVIOUS
<1>3. r = x - p
  OBVIOUS
<1>4. p \in Int
  BY <1>1
<1>5. x = p + r
  <2> HIDE DEF p, r
  <2> QED BY <1>2, <1>3, <1>4
<1> QED BY ONLY <1>1, <1>2, <1>5

\* Factors distribute.
LEMMA Distributive ==
    ASSUME NEW a \in Int, NEW b \in Int, NEW c \in Int
    PROVE  /\ a * b \in Int
           /\ a * (b + c) = a * b + a * c
           /\ (b + c) * a = b * a + c * a
           /\ a * b = b * a
           /\ (a * b) * c = a * (b * c)
OBVIOUS

\* There is one remainder only.
LEMMA RemainderUnique ==
    ASSUME NEW m \in Nat \ {0}, NEW q \in Int, NEW k \in Int,
           NEW r \in 0..(m - 1), NEW s \in 0..(m - 1), m * q + r = m * k + s
    PROVE  r = s
<1>1. m * (q - k) = s - r
  OBVIOUS
<1>2. q - k \in Int /\ s - r < m /\ -m < s - r
  OBVIOUS
<1>3. ~ (q - k >= 1)
  <2> SUFFICES ASSUME q - k >= 1 PROVE FALSE
    OBVIOUS
  <2> DEFINE d == q - k - 1
  <2>1. d \in Nat /\ m * (q - k) = m * d + m
    OBVIOUS
  <2>2. m * d >= 0
    <3> HIDE DEF d
    <3> QED BY <2>1
  <2> QED BY <1>1, <1>2, <2>1, <2>2
<1>4. ~ (q - k <= -1)
  <2> SUFFICES ASSUME q - k <= -1 PROVE FALSE
    OBVIOUS
  <2> DEFINE d == k - q - 1
  <2>1. d \in Nat /\ m * (q - k) = -(m * d) - m
    OBVIOUS
  <2>2. m * d >= 0
    <3> HIDE DEF d
    <3> QED BY <2>1
  <2> QED BY <1>1, <1>2, <2>1, <2>2
<1>5. q - k = 0
  BY <1>2, <1>3, <1>4
<1> QED BY <1>1, <1>5

\* Multiples of the modulus make no difference.
LEMMA Congruent ==
    ASSUME NEW m \in Nat \ {0}, NEW x \in Int, NEW y \in Int, NEW k \in Int, x = y + m * k
    PROVE  x % m = y % m
<1>1. PICK q \in Int, r \in 0..(m - 1) : x = m * q + r /\ x % m = r
  BY Division
<1>2. PICK n \in Int, s \in 0..(m - 1) : y = m * n + s /\ y % m = s
  BY Division
<1>3. m * (n + k) = m * n + m * k /\ n + k \in Int /\ m * n \in Int /\ m * k \in Int
  BY Distributive
<1>4. m * q + r = m * (n + k) + s
  <2> DEFINE u == m * n
             v == m * k
             w == m * q
             z == m * (n + k)
  <2>1. z = u + v /\ u \in Int /\ v \in Int
    BY <1>3
  <2>2. x = w + r /\ y = u + s /\ x = y + v
    BY <1>1, <1>2
  <2> HIDE DEF u, v, w, z
  <2>3. w + r = z + s
    BY <2>1, <2>2
  <2> QED BY ONLY <2>3 DEF w, z
<1>5. r = s
  BY ONLY m \in Nat \ {0}, q \in Int, n + k \in Int, r \in 0..(m - 1), s \in 0..(m - 1), <1>3, <1>4,
     RemainderUnique
<1> QED BY ONLY <1>1, <1>2, <1>5

\* The product of the residues has the residue of the product.
LEMMA ProductOfResidues ==
    ASSUME NEW m \in Nat \ {0}, NEW x \in Int, NEW y \in Int
    PROVE  ((x % m) * (y % m)) % m = (x * y) % m
<1>1. PICK a \in Int, r \in 0..(m - 1) : x = m * a + r /\ x % m = r
  BY Division
<1>2. PICK b \in Int, s \in 0..(m - 1) : y = m * b + s /\ y % m = s
  BY Division
<1> DEFINE k == a * y + r * b
<1>3. r \in Int /\ s \in Int /\ m \in Int /\ r * b \in Int /\ a * y \in Int /\ k \in Int
  BY Distributive
<1>4. x * y = m * (a * y) + r * y
  BY <1>1, <1>3, Distributive
<1>5. r * y = m * (r * b) + r * s
  BY <1>2, <1>3, Distributive
<1>6. x * y = r * s + m * k
  <2> DEFINE u == m * (a * y)
             v == m * (r * b)
             w == r * s
             z == m * k
  <2>1. u \in Int /\ v \in Int /\ w \in Int
    BY <1>3, Distributive
  <2>2. z = u + v
    BY <1>3, Distributive
  <2>3. x * y = u + (v + w)
    BY <1>4, <1>5
  <2> HIDE DEF u, v, w, z
  <2>4. x * y = w + z
    BY <2>1, <2>2, <2>3
  <2> QED BY ONLY <2>4 DEF w, z
<1>7. x * y \in Int /\ r * s \in Int
  BY <1>3, Distributive
<1>8. (x * y) % m = (r * s) % m
  <2> DEFINE u == x * y
             v == r * s
  <2>1. u \in Int /\ v \in Int /\ u = v + m * k /\ k \in Int
    BY <1>3, <1>6, <1>7
  <2> HIDE DEF u, v, k
  <2>2. u % m = v % m
    BY ONLY m \in Nat \ {0}, <2>1, Congruent
  <2> QED BY ONLY <2>2 DEF u, v
<1> QED BY ONLY <1>1, <1>2, <1>8

--------------------------------------------------------------------------------
(* Sequences. *)

\* What the first element of a sequence and the others are.
LEMMA HeadAndTail ==
    ASSUME NEW S, NEW s \in Seq(S), s # <<>>
    PROVE  /\ Head(s) \in S /\ Tail(s) \in Seq(S)
           /\ 1 \in DOMAIN s /\ Head(s) = s[1]
           /\ \A k \in DOMAIN Tail(s) : k + 1 \in DOMAIN s /\ k + 1 # 1 /\ Tail(s)[k] = s[k + 1]
           /\ \A k \in DOMAIN s : k = 1 \/ (k - 1 \in DOMAIN Tail(s) /\ Tail(s)[k - 1] = s[k])
           /\ ToSet(s) = {Head(s)} \cup ToSet(Tail(s))
           /\ IsInjective(s) => IsInjective(Tail(s)) /\ Head(s) \notin ToSet(Tail(s))
<1>1. /\ Len(s) \in Nat /\ Len(s) >= 1 /\ DOMAIN s = 1..Len(s)
      /\ Head(s) = s[1] /\ \A k \in 1..Len(s) : s[k] \in S
  BY LenProperties, EmptySeq, ElementOfSeq, HeadTailProperties
<1>2. /\ Tail(s) \in Seq(S) /\ Len(Tail(s)) = Len(s) - 1
      /\ DOMAIN Tail(s) = 1..Len(s) - 1
      /\ \A k \in 1..Len(s) - 1 : Tail(s)[k] = s[k + 1]
  BY <1>1, HeadTailProperties, LenProperties
<1>3. /\ \A k \in DOMAIN Tail(s) : k + 1 \in DOMAIN s /\ k + 1 # 1 /\ Tail(s)[k] = s[k + 1]
      /\ \A k \in DOMAIN s : k = 1 \/ (k - 1 \in DOMAIN Tail(s) /\ Tail(s)[k - 1] = s[k])
  BY <1>1, <1>2
<1>4. ToSet(s) = {Head(s)} \cup ToSet(Tail(s))
  <2> DEFINE t == Tail(s)
             D == DOMAIN t
  <2>1. \A k \in DOMAIN s : s[k] = s[1] \/ (k - 1 \in D /\ t[k - 1] = s[k])
    BY <1>3
  <2>2. 1 \in DOMAIN s /\ \A k \in D : k + 1 \in DOMAIN s /\ t[k] = s[k + 1]
    BY <1>1, <1>3
  <2> HIDE DEF t, D
  <2>3. {s[k] : k \in DOMAIN s} = {s[1]} \cup {t[k] : k \in D}
    BY <2>1, <2>2
  <2> QED BY <1>1, <2>3 DEF ToSet, t, D
<1>5. ASSUME IsInjective(s) PROVE IsInjective(Tail(s)) /\ Head(s) \notin ToSet(Tail(s))
  <2>1. \A a, b \in DOMAIN s : s[a] = s[b] => a = b
    BY <1>5 DEF IsInjective
  <2>2. \A a, b \in DOMAIN Tail(s) : Tail(s)[a] = Tail(s)[b] => a = b
    BY <1>1, <1>2, <1>3, <2>1
  <2>3. \A a \in DOMAIN Tail(s) : Tail(s)[a] # s[1]
    BY <1>1, <1>3, <2>1
  <2> QED BY <1>1, <2>2, <2>3 DEF IsInjective, ToSet
<1> QED BY <1>1, <1>2, <1>3, <1>4, <1>5

LEMMA Joined ==
    ASSUME NEW S, NEW s \in Seq(S), NEW t \in Seq(S)
    PROVE  s \o t \in Seq(S) /\ ToSet(s \o t) = ToSet(s) \cup ToSet(t)
<1> DEFINE u == s \o t
<1>1. /\ Len(s) \in Nat /\ Len(t) \in Nat /\ DOMAIN s = 1..Len(s) /\ DOMAIN t = 1..Len(t)
      /\ u \in Seq(S) /\ Len(u) = Len(s) + Len(t) /\ DOMAIN u = 1..Len(u)
      /\ \A k \in 1..Len(u) : u[k] = IF k <= Len(s) THEN s[k] ELSE t[k - Len(s)]
  BY ConcatProperties, LenProperties
<1> HIDE DEF u
<1>2. \A k \in DOMAIN u : u[k] \in ToSet(s) \cup ToSet(t)
  <2> SUFFICES ASSUME NEW k \in DOMAIN u PROVE u[k] \in ToSet(s) \cup ToSet(t)
    OBVIOUS
  <2>1. k <= Len(s) => k \in DOMAIN s /\ u[k] = s[k]
    BY <1>1
  <2>2. ~ (k <= Len(s)) => k - Len(s) \in DOMAIN t /\ u[k] = t[k - Len(s)]
    BY <1>1
  <2> QED BY <2>1, <2>2 DEF ToSet
<1>3. \A k \in DOMAIN s : k \in DOMAIN u /\ u[k] = s[k]
  BY <1>1
<1>4. \A k \in DOMAIN t : k + Len(s) \in DOMAIN u /\ u[k + Len(s)] = t[k]
  BY <1>1
<1>5. ToSet(u) = ToSet(s) \cup ToSet(t)
  BY <1>2, <1>3, <1>4 DEF ToSet
<1> QED BY <1>1, <1>5 DEF u

--------------------------------------------------------------------------------
(* The elimination. *)

\* What a function and its PHIs are.
LEMMA FunctionFacts ==
    ASSUME fn \in Functions
    PROVE  /\ fn.top \in Seq(Loops)
           /\ \A l \in Loops : fn.subs[l] \in Seq(Loops) /\ fn.canonical[l] \in Widths \cup {NoIV}
           /\ \A p \in PHIs : /\ p[1] \in Loops /\ p[2] \in DOMAIN fn.phis[p[1]] /\ p = <<p[1], p[2]>>
                              /\ Phi(p).start \in Nat /\ Phi(p).step \in Nat \cup {UnknownStep}
                              /\ Phi(p).width \in Widths
<1> DEFINE R == [affine : BOOLEAN, start : Nat, step : Nat \cup {UnknownStep}, width : Widths]
<1>1. /\ fn.top \in Seq(Loops) /\ fn.subs \in [Loops -> Seq(Loops)]
      /\ fn.canonical \in [Loops -> Widths \cup {NoIV}] /\ fn.phis \in [Loops -> Seq(R)]
  BY FunctionsAssumption DEF IsFunction, Loops
<1>2. ASSUME NEW p \in PHIs
      PROVE  p[1] \in Loops /\ p[2] \in DOMAIN fn.phis[p[1]] /\ p = <<p[1], p[2]>>
  BY DEF PHIs
<1>3. ASSUME NEW p \in PHIs PROVE Phi(p) \in R
  <2> HIDE DEF R
  <2>1. fn.phis[p[1]] \in Seq(R)
    BY <1>1, <1>2
  <2> QED BY <1>2, <2>1 DEF Phi
<1>4. ASSUME NEW p \in PHIs
      PROVE  /\ Phi(p).start \in Nat /\ Phi(p).step \in Nat \cup {UnknownStep}
             /\ Phi(p).width \in Widths
  BY <1>3
<1> QED BY <1>1, <1>2, <1>4

\* The loops in loop l, itself included.
In(l) == ToSet(fn.nest[l])

\* How the loops lie in each other.
LEMMA Forest ==
    ASSUME fn \in Functions
    PROVE  /\ \A l \in Loops : In(l) = {l} \cup UNION {In(s) : s \in ToSet(fn.subs[l])}
           /\ \A l \in Loops : \E t \in ToSet(fn.top) : l \in In(t)
           /\ \A t \in ToSet(fn.top) : \A k \in Loops : t \in In(k) => t = k
           /\ \A l, k \in Loops : \A s \in ToSet(fn.subs[l]) : s \in In(k) => s = k \/ l \in In(k)
<1>1. LoopForest(fn.top, fn.subs, fn.nest) /\ DOMAIN fn.nest = Loops
  BY FunctionsAssumption DEF IsFunction, Loops
<1> DEFINE N(l) == ToSet(fn.nest[l])
<1>2. /\ \A l \in Loops : N(l) = {l} \cup UNION {N(s) : s \in ToSet(fn.subs[l])}
      /\ Loops = UNION {N(t) : t \in ToSet(fn.top)}
      /\ \A k \in Loops :
            /\ \A t \in ToSet(fn.top) : t \in N(k) => t = k
            /\ \A l \in Loops : \A s \in ToSet(fn.subs[l]) : s \in N(k) => s = k \/ l \in N(k)
  BY <1>1 DEF LoopForest
<1>3. \A l \in Loops : \E t \in ToSet(fn.top) : l \in N(t)
  BY <1>2
<1> QED BY <1>2, <1>3 DEF In

\* The PHIs of loop l that can be eliminated.
Due(l) == {p \in Affine(l) : Eliminable(p)}

\* What has been put in the place of a PHI is the multiplier that belongs to it.
Replaced ==
    \A p \in DOMAIN Replacement :
        /\ Eliminable(p) /\ Phi(p).width = fn.canonical[p[1]]
        /\ Replacement[p] = Constant(SExtValue(Phi(p).step, Phi(p).width) * SExtValue(1, Phi(p).width),
                                     Phi(p).width)

\* In the loop at hand every PHI that can be replaced has been or is among those to come.
LoopAtHand ==
    /\ DerivedIVs \subseteq Affine(L)
    /\ DerivedIVs # {} => status \in {"derived", "crashed"}
    /\ status = "derived" => /\ L \in Loops /\ Reached(L)
                             /\ Due(L) \subseteq DOMAIN Replacement \cup DerivedIVs

\* A call of eliminateInLoop for l, or for a loop around it, is to come or being executed.
ToCome(l) ==
    \/ status \in {"loops", "derived"} /\ \E t \in ToSet(todo) : l \in In(t)
    \/ status = "derived" /\ l \in In(L)

\* The calls to come are for loops that nothing hides, and each loop that is reached is done
\* or to come.
LoopsDone ==
    /\ \A p \in DOMAIN Replacement : Reached(p[1])
    /\ \A t \in ToSet(todo) : \A k \in Loops : t \in In(k) => t = k \/ fn.canonical[k] # NoIV
    /\ \A l \in Loops :
          Reached(l) => status = "crashed" \/ ToCome(l) \/ Due(l) \subseteq DOMAIN Replacement

IInv == fn \in Functions /\ TypeOK /\ Replaced /\ LoopAtHand /\ LoopsDone

LEMMA InitInv == Init => IInv
<1> SUFFICES ASSUME Init PROVE IInv
  OBVIOUS
<1>1. fn \in Functions /\ fn.top \in Seq(Loops)
  BY FunctionFacts DEF Init
<1>2. DOMAIN Replacement = {} /\ DerivedIVs = {} /\ status = "loops" /\ todo = fn.top /\ L = 0
  BY DEF Init
<1>3. LoopsDone
  BY <1>1, <1>2, Forest DEF LoopsDone, ToCome
<1> QED BY <1>1, <1>2, <1>3 DEF IInv, TypeOK, Replaced, LoopAtHand

\* The PHIs to come are PHIs of the function.
LEMMA AffinePHIs ==
    ASSUME NEW l \in Loops
    PROVE  /\ Affine(l) \subseteq {p \in PHIs : Phi(p).affine}
           /\ \A p \in Affine(l) : p[1] = l
BY DEF Affine, PHIs

\* What depends on the function alone.
LEMMA SameFunction ==
    ASSUME fn' = fn
    PROVE  /\ Loops' = Loops /\ PHIs' = PHIs
           /\ \A p : Phi(p)' = Phi(p) /\ (Eliminable(p)' <=> Eliminable(p))
           /\ \A l : /\ Affine(l)' = Affine(l) /\ Due(l)' = Due(l)
                     /\ In(l)' = In(l) /\ (Reached(l)' <=> Reached(l))
<1>1. /\ Loops' = Loops /\ PHIs' = PHIs
      /\ \A p : Phi(p)' = Phi(p) /\ (Eliminable(p)' <=> Eliminable(p))
  BY DEF Loops, PHIs, Phi, Eliminable
<1>2. \A l : Affine(l)' = Affine(l)
  BY <1>1 DEF Affine
<1> QED BY <1>1, <1>2 DEF Due, In, Reached, Loops

\* A step that leaves the PHIs to come and what has been replaced as they are.
LEMMA NothingReplaced ==
    ASSUME IInv, UNCHANGED <<fn, L, DerivedIVs, Replacement>>, todo' \in Seq(Loops),
           status' \in {"loops", "derived", "returned", "crashed"},
           DerivedIVs # {} => status' \in {"derived", "crashed"},
           status' = "derived" => status = "derived",
           LoopsDone'
    PROVE  IInv'
<1>1. /\ fn \in Functions /\ TypeOK /\ Replaced /\ LoopAtHand
  BY DEF IInv
<1>2. TypeOK'
  BY <1>1, SameFunction DEF TypeOK
<1>3. Replaced'
  BY <1>1, SameFunction DEF Replaced
<1>4. LoopAtHand'
  BY <1>1, SameFunction DEF LoopAtHand
<1> QED BY <1>1, <1>2, <1>3, <1>4 DEF IInv

\* A step after which the calls to come are for loops nothing hides and lead to all the loops
\* they led to.
LEMMA StillToCome ==
    ASSUME IInv, UNCHANGED <<fn, Replacement>>,
           \A t \in ToSet(todo') : \A k \in Loops : t \in In(k) => t = k \/ fn.canonical[k] # NoIV,
           status = "crashed" => status' = "crashed",
           \A l \in Loops : Reached(l) /\ ToCome(l) =>
               status' = "crashed" \/ ToCome(l)' \/ Due(l) \subseteq DOMAIN Replacement
    PROVE  LoopsDone'
<1>1. LoopsDone
  BY DEF IInv
<1> QED BY <1>1, SameFunction DEF LoopsDone

LEMMA NextInv == IInv /\ [Next]_vars => IInv'
<1> SUFFICES ASSUME IInv, [Next]_vars PROVE IInv'
  OBVIOUS
<1>1. /\ fn \in Functions /\ TypeOK /\ Replaced /\ LoopAtHand /\ LoopsDone
      /\ todo \in Seq(Loops) /\ (todo # <<>> => Head(todo) \in Loops /\ Tail(todo) \in Seq(Loops))
      /\ todo # <<>> => ToSet(todo) = {Head(todo)} \cup ToSet(Tail(todo))
  BY HeadAndTail DEF IInv, TypeOK
<1>2. CASE UNCHANGED vars
  <2>1. UNCHANGED <<fn, todo, L, DerivedIVs, Replacement, status>>
    BY <1>2 DEF vars
  <2>2. LoopsDone'
    BY <1>1, <2>1, SameFunction DEF LoopsDone, ToCome
  <2> QED BY <1>1, <2>1, <2>2, NothingReplaced DEF TypeOK, LoopAtHand
<1>3. CASE NoCanonicalIV
  <2>1. /\ UNCHANGED <<fn, L, DerivedIVs, Replacement, status>> /\ todo # <<>> /\ status = "loops"
        /\ todo' = Tail(todo) /\ fn.canonical[Head(todo)] = NoIV
    BY <1>3 DEF NoCanonicalIV
  <2>2. ASSUME NEW l \in Loops, Reached(l), ToCome(l) PROVE ToCome(l)'
    <3>1. l \notin In(Head(todo))
      BY <1>1, <2>1, <2>2 DEF Reached, In
    <3> QED BY <1>1, <2>1, <2>2, <3>1, SameFunction DEF ToCome
  <2>3. LoopsDone'
    BY <1>1, <2>1, <2>2, StillToCome DEF LoopsDone
  <2> QED BY <1>1, <2>1, <2>3, NothingReplaced DEF TypeOK, LoopAtHand
<1>4. CASE EnterLoop
  <2>1. /\ UNCHANGED <<fn, Replacement>> /\ todo # <<>> /\ todo' = Tail(todo) /\ L' = Head(todo)
        /\ fn.canonical[L'] # NoIV
        /\ DerivedIVs' = Affine(L') /\ status = "loops" /\ status' = "derived" /\ L' \in Loops
    BY <1>1, <1>4 DEF EnterLoop
  <2>2. DerivedIVs' \subseteq PHIs
    BY <2>1, AffinePHIs
  <2>3. TypeOK'
    BY <1>1, <2>1, <2>2 DEF TypeOK, Loops, PHIs, Phi
  <2>4. Replaced'
    BY <1>1, <2>1, SameFunction DEF Replaced
  <2>5. Reached(L')
    BY <1>1, <2>1 DEF LoopsDone, Reached, In
  <2>6. LoopAtHand'
    <3>1. Due(L') \subseteq DerivedIVs'
      BY <2>1 DEF Due
    <3> DEFINE l == L'
    <3>2. Affine(L)' = Affine(l) /\ Due(L)' = Due(l) /\ (Reached(L)' <=> Reached(l)) /\ Loops' = Loops
      BY <2>1 DEF Affine, Due, Reached, Phi, Eliminable, Loops
    <3> QED BY <2>1, <2>5, <3>1, <3>2 DEF LoopAtHand
  <2>7. LoopsDone'
    <3>1. ASSUME NEW l \in Loops, ToCome(l) PROVE ToCome(l)'
      <4>1. (\E t \in ToSet(Tail(todo)) : l \in In(t)) \/ l \in In(L')
        BY <1>1, <2>1, <3>1 DEF ToCome
      <4>2. In(L)' = In(L')
        BY <2>1 DEF In
      <4> QED BY <2>1, <4>1, <4>2, SameFunction DEF ToCome
    <3> QED BY <1>1, <2>1, <3>1, StillToCome DEF LoopsDone
  <2> QED BY <1>1, <2>1, <2>3, <2>4, <2>6, <2>7 DEF IInv
<1>5. ASSUME NEW PN \in DerivedIVs, Eliminate(PN)
      PROVE  IInv'
  <2>1. /\ status = "derived" /\ UNCHANGED <<fn, todo, L, status>>
        /\ DerivedIVs' = DerivedIVs \ {PN} /\ L \in Loops /\ Reached(L)
        /\ Eliminable(PN) => Phi(PN).width = fn.canonical[L]
        /\ Replacement' = IF ~ Eliminable(PN) THEN Replacement
                           ELSE [p \in DOMAIN Replacement \cup {PN} |->
                                   IF p = PN THEN Constant(Multiplier(PN), Phi(PN).width)
                                   ELSE Replacement[p]]
    BY <1>1, <1>5 DEF Eliminate, NextIV, Rest, LoopAtHand
  <2>2. PN \in PHIs /\ Phi(PN).affine /\ PN[1] = L
    BY <1>1, <2>1, AffinePHIs DEF LoopAtHand
  <2>3. \A l : ToCome(l)' <=> ToCome(l)
    BY <2>1, SameFunction DEF ToCome
  <2>4. CASE ~ Eliminable(PN)
    <3>1. Replacement' = Replacement
      BY <2>1, <2>4
    <3>2. TypeOK' /\ Replaced'
      BY <1>1, <2>1, <3>1, SameFunction DEF TypeOK, Replaced
    <3>3. PN \notin Due(L)
      BY <2>4 DEF Due
    <3>4. LoopAtHand'
      BY <1>1, <2>1, <3>1, <3>3, SameFunction DEF LoopAtHand
    <3>5. LoopsDone'
      BY <1>1, <2>1, <2>3, <3>1, SameFunction DEF LoopsDone
    <3> QED BY <1>1, <2>1, <3>2, <3>4, <3>5 DEF IInv
  <2>5. CASE Eliminable(PN)
    <3>1. /\ DOMAIN Replacement' = {PN} \cup DOMAIN Replacement
          /\ Replacement'[PN] = Constant(Multiplier(PN), Phi(PN).width)
          /\ \A q \in DOMAIN Replacement : q # PN => Replacement'[q] = Replacement[q]
      BY <2>1, <2>5
    <3>2. TypeOK'
      BY <1>1, <2>1, <2>2, <3>1 DEF TypeOK, Loops, PHIs, Phi
    <3>3. Replaced'
      <4>1. /\ Phi(PN).width = fn.canonical[PN[1]]
            /\ Multiplier(PN) = SExtValue(Phi(PN).step, Phi(PN).width) * SExtValue(1, Phi(PN).width)
        BY <2>1, <2>2, <2>5 DEF Multiplier
      <4> QED BY <1>1, <2>1, <2>5, <3>1, <4>1, SameFunction DEF Replaced
    <3>4. LoopAtHand'
      BY <1>1, <2>1, <3>1, SameFunction DEF LoopAtHand
    <3>5. LoopsDone'
      BY <1>1, <2>1, <2>2, <2>3, <3>1, SameFunction DEF LoopsDone
    <3> QED BY <1>1, <2>1, <3>2, <3>3, <3>4, <3>5 DEF IInv
  <2> QED BY <2>4, <2>5
<1>6. ASSUME NEW PN \in DerivedIVs, TooWide(PN) \/ MixedTypes(PN)
      PROVE  IInv'
  <2>1. UNCHANGED <<fn, todo, L, DerivedIVs, Replacement>> /\ status' = "crashed"
    BY <1>6 DEF TooWide, MixedTypes
  <2>2. LoopsDone'
    BY <1>1, <2>1, StillToCome DEF LoopsDone
  <2> QED BY <1>1, <2>1, <2>2, NothingReplaced
<1>7. CASE Subloops
  <2>1. /\ UNCHANGED <<fn, L, DerivedIVs, Replacement>> /\ status = "derived" /\ status' = "loops"
        /\ DerivedIVs = {} /\ todo' = fn.subs[L] \o todo
        /\ L \in Loops /\ Reached(L) /\ Due(L) \subseteq DOMAIN Replacement
    BY <1>1, <1>7 DEF Subloops, LoopAtHand
  <2>2. todo' \in Seq(Loops) /\ ToSet(todo') = ToSet(fn.subs[L]) \cup ToSet(todo)
    BY <1>1, <2>1, FunctionFacts, Joined
  <2>3. ASSUME NEW l \in Loops, ToCome(l)
        PROVE  ToCome(l)' \/ Due(l) \subseteq DOMAIN Replacement
    <3>1. CASE l \in In(L) /\ l # L
      <4>1. PICK s \in ToSet(fn.subs[L]) : l \in In(s)
        BY <1>1, <2>1, <3>1, Forest
      <4> QED BY <2>1, <2>2, <4>1, SameFunction DEF ToCome
    <3>2. CASE l \notin In(L)
      BY <2>1, <2>2, <2>3, <3>2, SameFunction DEF ToCome
    <3> QED BY <2>1, <3>1, <3>2
  <2>4. ASSUME NEW t \in ToSet(todo'), NEW k \in Loops, t \in In(k), t # k
        PROVE  fn.canonical[k] # NoIV
    <3>1. CASE t \in ToSet(fn.subs[L])
      <4>1. L \in In(k)
        BY <1>1, <2>1, <2>4, <3>1, Forest
      <4> QED BY <2>1, <4>1 DEF Reached, In
    <3> QED BY <1>1, <2>2, <2>4, <3>1 DEF LoopsDone
  <2>5. LoopsDone'
    BY <2>1, <2>3, <2>4, StillToCome
  <2> QED BY <2>1, <2>2, <2>5, NothingReplaced
<1>8. CASE Return
  <2>1. /\ UNCHANGED <<fn, todo, L, DerivedIVs, Replacement>> /\ status = "loops" /\ status' = "returned"
        /\ DerivedIVs = {} /\ todo = <<>>
    BY <1>1, <1>8 DEF Return, LoopAtHand
  <2>2. \A l : ~ ToCome(l)
    BY <2>1 DEF ToCome, ToSet
  <2>3. LoopsDone'
    BY <1>1, <2>1, <2>2, StillToCome DEF LoopsDone
  <2> QED BY <1>1, <2>1, <2>3, NothingReplaced DEF TypeOK
<1>9. CASE Stopped
  BY <1>2, <1>9 DEF Stopped
<1> QED BY <1>2, <1>3, <1>4, <1>5, <1>6, <1>7, <1>8, <1>9 DEF Next

LEMMA InvHolds == Spec => []IInv
BY InitInv, NextInv, PTL DEF Spec

\* Only affine PHIs of loops of the function are ever among those to come or replaced.
THEOREM TypeCorrect == Spec => []TypeOK
<1>1. IInv => TypeOK
  BY DEF IInv
<1> QED BY <1>1, InvHolds, PTL

\* However the loops lie in each other and whatever stands in their headers: when the pass
\* returns, the PHIs it has replaced are those that are affine with a constant step in the loops
\* it reaches, all of them and no others.
THEOREM ReachedLoopsComplete == Spec => []ReachedLoopsDone
<1>1. IInv => ReachedLoopsDone
  <2> SUFFICES ASSUME IInv, status = "returned", NEW l \in Loops, NEW k \in DOMAIN fn.phis[l]
               PROVE  <<l, k>> \in DOMAIN Replacement <=>
                        Reached(l) /\ fn.phis[l][k].affine /\ fn.phis[l][k].step # UnknownStep
    BY DEF ReachedLoopsDone
  <2> DEFINE q == <<l, k>>
  <2>1. Reached(l) => Due(l) \subseteq DOMAIN Replacement
    BY DEF IInv, LoopsDone, ToCome
  <2>2. q \in DOMAIN Replacement => Reached(l) /\ Phi(q).affine /\ Eliminable(q)
    BY DEF IInv, TypeOK, Replaced, LoopsDone
  <2>3. Phi(q).affine /\ Eliminable(q) => q \in Due(l)
    BY DEF Due, Affine
  <2> QED BY <2>1, <2>2, <2>3 DEF Phi, Eliminable
<1> QED BY <1>1, InvHolds, PTL

\* Reading a number as signed changes it by a multiple of the modulus.
LEMMA SignExtension ==
    ASSUME NEW w \in Widths, NEW v \in Int
    PROVE  \E j \in Int : SExtValue(v, w) = v + 2^w * j
<1> DEFINE m == 2^w
           b == v >= 2^(w - 1)
<1>1. m \in Nat \ {0}
  BY WidthsAssumption
<1>2. SExtValue(v, w) = IF b THEN v - m ELSE v
  BY DEF SExtValue
<1> HIDE DEF m, b
<1>3. v - m = v + m * (-1) /\ v = v + m * 0
  BY <1>1
<1>4. SExtValue(v, w) = v + m * (-1) \/ SExtValue(v, w) = v + m * 0
  BY <1>2, <1>3
<1> QED BY <1>4 DEF m

\* The multiplier is the step, as far as numbers of the width tell.
LEMMA MultiplierIsStep ==
    ASSUME NEW w \in Widths, NEW s \in Int
    PROVE  /\ SExtValue(s, w) * SExtValue(1, w) \in Int
           /\ (SExtValue(s, w) * SExtValue(1, w)) % 2^w = s % 2^w
<1> DEFINE m == 2^w
           a == SExtValue(s, w)
           c == SExtValue(1, w)
<1>1. m \in Nat \ {0}
  BY WidthsAssumption
<1>2. PICK i \in Int : a = s + m * i
  BY SignExtension
<1>3. PICK j \in Int : c = 1 + m * j
  BY SignExtension
<1> HIDE DEF m, a, c
<1>4. /\ m * i \in Int /\ m * j \in Int /\ a \in Int /\ c \in Int
      /\ a * j \in Int /\ i + a * j \in Int
  BY <1>1, <1>2, <1>3, Distributive
<1>5. a * c = s + m * (i + a * j)
  <2>1. a * c = a * 1 + a * (m * j)
    BY <1>3, <1>4, Distributive
  <2>2. a * (m * j) = m * (a * j)
    BY <1>1, <1>4, Distributive
  <2>3. m * (i + a * j) = m * i + m * (a * j)
    BY <1>1, <1>4, Distributive
  <2> DEFINE u == m * i
             v == m * (a * j)
  <2>4. u \in Int /\ v \in Int
    BY <1>1, <1>4, Distributive
  <2>5. a * c = a + v /\ a = s + u /\ m * (i + a * j) = u + v
    BY <1>2, <1>4, <2>1, <2>2, <2>3
  <2> HIDE DEF u, v
  <2> QED BY <2>4, <2>5
<1>6. a * c \in Int
  BY <1>4, Distributive
<1>7. (a * c) % m = s % m
  BY <1>1, <1>4, <1>5, <1>6, Congruent
<1> QED BY <1>6, <1>7 DEF m, a, c

\* The constant that is made of an int64_t is the number, as far as numbers of a width tell that
\* int64_t has too.
LEMMA ConstantIsNumber ==
    ASSUME NEW w \in Widths, w <= Int64Bits, NEW v \in Int
    PROVE  Constant(v, w) = v % 2^w
<1> DEFINE m == 2^w
           k == 2^(Int64Bits - w)
           b == 2^Int64Bits
<1>1. m \in Nat \ {0} /\ k \in Nat \ {0} /\ b = m * k
  BY WidthsAssumption
<1>2. Constant(v, w) = (v % b) % m
  BY DEF Constant
<1> HIDE DEF m, k, b
<1>3. b \in Nat \ {0}
  BY <1>1
<1>4. PICK q \in Int, r \in 0..(b - 1) : v = b * q + r /\ v % b = r
  BY <1>3, Division
<1>5. b * q = m * (k * q) /\ k * q \in Int /\ m * (k * q) \in Int
  BY <1>1, Distributive
<1>6. r \in Int /\ v = r + m * (k * q)
  <2> DEFINE u == b * q
             x == m * (k * q)
  <2>1. u = x /\ x \in Int /\ v = u + r /\ r \in Int
    BY <1>3, <1>4, <1>5
  <2> HIDE DEF u, x
  <2>2. v = r + x
    BY <2>1
  <2> QED BY ONLY <2>1, <2>2 DEF x
<1>7. v % m = r % m
  BY ONLY <1>1, <1>5, <1>6, v \in Int, Congruent
<1> QED BY ONLY <1>2, <1>4, <1>7 DEF m

\* If all PHIs start at zero and no integer is wider than int64_t, what replaces one has its value
\* in every iteration, whatever the width, the step and the number of iterations, after both have
\* wrapped around too.
THEOREM SameValuesFromZero ==
    ASSUME \A f \in Functions : \A l \in DOMAIN f.phis : \A k \in DOMAIN f.phis[l] :
             f.phis[l][k].start = 0 /\ f.phis[l][k].width <= Int64Bits
    PROVE  Spec => []SameValues
<1>1. IInv => SameValues
  <2> SUFFICES ASSUME IInv, NEW p \in DOMAIN Replacement, NEW n \in 0..MaxIteration
               PROVE  (Replacement[p] * (n % 2^fn.canonical[p[1]])) % 2^Phi(p).width
                        = (Phi(p).start + n * Phi(p).step) % 2^Phi(p).width
    BY DEF SameValues
  <2> DEFINE w == Phi(p).width
             m == 2^w
             s == Phi(p).step
             r == Replacement[p]
             c == SExtValue(s, w) * SExtValue(1, w)
  <2>1. p \in PHIs /\ fn \in Functions
    BY DEF IInv, TypeOK
  <2>2. /\ w \in Widths /\ s \in Nat \cup {UnknownStep}
        /\ p[1] \in Loops /\ p[2] \in DOMAIN fn.phis[p[1]]
    BY <2>1, FunctionFacts
  <2>3. Phi(p).start = 0 /\ w <= Int64Bits
    BY <2>1, <2>2 DEF Phi, Loops
  <2>4. s # UnknownStep /\ fn.canonical[p[1]] = w /\ r = Constant(c, w)
    BY DEF IInv, Replaced, Eliminable
  <2>5. m \in Nat \ {0} /\ s \in Int /\ n \in Int
    BY <2>2, <2>4, WidthsAssumption
  <2>6. c \in Int /\ c % m = s % m
    BY <2>2, <2>4, <2>5, MultiplierIsStep
  <2>7. r = s % m
    <3> HIDE DEF c, w, s, r
    <3> QED BY <2>2, <2>3, <2>4, <2>6, ConstantIsNumber
  <2>8. fn.canonical[p[1]] = Phi(p).width
    BY <2>4
  <2> HIDE DEF m, s, r, w, c
  <2>9. ((s % m) * (n % m)) % m = (s * n) % m
    BY <2>5, ProductOfResidues
  <2>10. s * n = n * s /\ n * s \in Int
    BY <2>5, Distributive
  <2>11. s * n = 0 + n * s
    BY <2>10
  <2>12. (r * (n % m)) % m = (0 + n * s) % m
    BY ONLY <2>7, <2>9, <2>11
  <2> QED BY ONLY <2>3, <2>8, <2>12 DEF m, s, r, w
<1> QED BY <1>1, InvHolds, PTL

--------------------------------------------------------------------------------
(* The report. *)

\* The elimination in the pipeline is the elimination.
THEOREM PipelineEliminates == PipelineSpec => Spec
<1>1. PipelineInit => Init
  BY DEF PipelineInit
<1>2. [PipelineNext]_<<vars, report>> => [Next]_vars
  BY DEF PipelineNext, vars
<1> QED BY <1>1, <1>2, PTL DEF PipelineSpec, Spec

\* What is handed to affine-recurrence: the blocks of different outermost loops are different,
\* and so are the instructions of different blocks.
WellFormed(f) ==
    /\ f.top \in Seq(Loops)
    /\ \A l \in Loops : f.blocks[l] \in Seq(Loops) /\ f.header[l] \in Loops /\ IsInjective(f.blocks[l])
    /\ \A i, j \in DOMAIN f.top :
          i # j => ToSet(f.blocks[f.top[i]]) \cap ToSet(f.blocks[f.top[j]]) = {}
    /\ \A A, B \in Loops : A # B => f.recurrences[A] \cap f.recurrences[B] = {}

LEMMA LoopsLeftWellFormed ==
    ASSUME fn \in Functions
    PROVE  WellFormed(LoopsLeft)
<1>1. /\ fn.top \in Seq(Loops) /\ fn.nest \in [Loops -> Seq(Loops)]
      /\ \A l \in Loops : IsInjective(fn.nest[l])
      /\ \A i, j \in DOMAIN fn.top :
            i # j => ToSet(fn.nest[fn.top[i]]) \cap ToSet(fn.nest[fn.top[j]]) = {}
  BY FunctionsAssumption DEF IsFunction, Loops
<1>2. /\ LoopsLeft.top = fn.top /\ LoopsLeft.blocks = fn.nest
      /\ \A l \in Loops : LoopsLeft.header[l] = l /\ LoopsLeft.recurrences[l] = RecurrencesOf(l)
  BY DEF LoopsLeft, Loops
<1>3. \A l \in Loops : \A inst \in RecurrencesOf(l) : inst[1] = l
  BY DEF RecurrencesOf
<1>4. \A A, B \in Loops : A # B => RecurrencesOf(A) \cap RecurrencesOf(B) = {}
  BY <1>3
<1> QED BY <1>1, <1>2, <1>4 DEF WellFormed

\* The blocks whose recurrences are still to be printed.
Waiting ==
    ToSet(Blocks) \cup UNION {ToSet(function.blocks[LoopsToCome[k]]) : k \in DOMAIN LoopsToCome}

Entries == [insts : SUBSET (UNION {function.recurrences[B] : B \in Loops}), header : Loops]

NotPrinted(B) ==
    \A inst \in function.recurrences[B] : \A k \in DOMAIN errs : inst \notin errs[k].insts
Printed(B) ==
    \A inst \in function.recurrences[B] :
        \E k \in DOMAIN errs : \A n \in DOMAIN errs : inst \in errs[n].insts <=> n = k

\* No block is waiting twice.
NoneTwice ==
    /\ IsInjective(Blocks)
    /\ \A k \in DOMAIN LoopsToCome : ToSet(function.blocks[LoopsToCome[k]]) \cap ToSet(Blocks) = {}
    /\ \A i, j \in DOMAIN LoopsToCome :
          i # j => ToSet(function.blocks[LoopsToCome[i]]) \cap ToSet(function.blocks[LoopsToCome[j]]) = {}

ReportTypeOK ==
    /\ WellFormed(function)
    /\ LoopsToCome \in Seq(Loops) /\ Blocks \in Seq(Loops) /\ errs \in Seq(Entries)
    /\ Blocks # <<>> => CurrentLoop \in Loops

LEMMA WaitingLoops == ReportTypeOK => Waiting \subseteq Loops
<1> SUFFICES ASSUME ReportTypeOK PROVE Waiting \subseteq Loops
  OBVIOUS
<1>1. \A s \in Seq(Loops) : ToSet(s) \subseteq Loops
  BY DEF ToSet
<1> QED BY <1>1 DEF ReportTypeOK, WellFormed, Waiting

\* Each block has been printed, once, or is waiting, once, and has not.
ReportInv ==
    IF pass = "idle" THEN errs = <<>> /\ Blocks = <<>>
    ELSE /\ ReportTypeOK /\ NoneTwice
         /\ \A B \in AR!InLoops(function) : B \in Waiting \/ Printed(B)
         /\ \A B \in Waiting : NotPrinted(B)
         /\ pass = "done" => Blocks = <<>> /\ LoopsToCome = <<>>

\* The outermost loops, at first.
LEMMA RunReport ==
    ASSUME fn \in Functions, ReportInv, AR!Run(LoopsLeft), UNCHANGED vars
    PROVE  ReportInv'
<1>1. /\ function' = LoopsLeft /\ LoopsToCome' = LoopsLeft.top /\ pass' = "running"
      /\ errs' = <<>> /\ Blocks' = <<>> /\ Loops' = Loops
  BY DEF AR!Run, AR!TopLevelLoops, ReportInv, vars, Loops
<1>2. WellFormed(LoopsLeft)
  BY LoopsLeftWellFormed
<1>3. ToSet(Blocks') = {} /\ IsInjective(Blocks') /\ Blocks' \in Seq(Loops)
  BY <1>1 DEF ToSet, IsInjective
<1>4. WellFormed(function)'
  BY <1>1, <1>2 DEF WellFormed
<1>5. ReportTypeOK' /\ NoneTwice'
  <2>1. LoopsToCome' \in Seq(Loops) /\ errs' \in Seq(Entries') /\ Blocks' \in Seq(Loops)
    BY <1>1, <1>2, <1>3 DEF WellFormed
  <2>2. ReportTypeOK'
    BY <1>1, <1>4, <2>1 DEF ReportTypeOK
  <2>3. NoneTwice'
    BY <1>1, <1>2, <1>3 DEF NoneTwice, WellFormed
  <2> QED BY <2>2, <2>3
<1>6. AR!InLoops(function)' \subseteq Waiting'
  <2> DEFINE f == function'
             w == UNION {ToSet(f.blocks[f.top[k]]) : k \in DOMAIN f.top}
  <2>1. AR!InLoops(function)' = w
    BY DEF AR!InLoops, AR!ToSet, ToSet
  <2>2. LoopsToCome' = f.top
    BY <1>1
  <2>3. w = UNION {ToSet(f.blocks[LoopsToCome'[k]]) : k \in DOMAIN LoopsToCome'}
    BY <2>2
  <2> QED BY <2>1, <2>3 DEF Waiting
<1>7. \A B \in Waiting' : NotPrinted(B)'
  BY <1>1 DEF NotPrinted
<1> QED BY <1>1, <1>5, <1>6, <1>7 DEF ReportInv

LEMMA AnalyzeLoopReport ==
    ASSUME ReportInv, AR!AnalyzeLoop, UNCHANGED vars
    PROVE  ReportInv'
<1> DEFINE l == Head(LoopsToCome)
           f == function
<1>1. /\ pass = "running" /\ Blocks = <<>> /\ LoopsToCome # <<>>
      /\ CurrentLoop' = l /\ LoopsToCome' = Tail(LoopsToCome) /\ Blocks' = f.blocks[l]
      /\ UNCHANGED <<function, errs, pass>> /\ Loops' = Loops
  BY DEF AR!AnalyzeLoop, vars, Loops
<1>2. /\ ReportTypeOK /\ NoneTwice
      /\ \A B \in AR!InLoops(function) : B \in Waiting \/ Printed(B)
      /\ \A B \in Waiting : NotPrinted(B)
  BY <1>1 DEF ReportInv
<1>3. /\ l \in Loops /\ Tail(LoopsToCome) \in Seq(Loops)
      /\ 1 \in DOMAIN LoopsToCome /\ l = LoopsToCome[1]
      /\ \A k \in DOMAIN LoopsToCome' :
            k + 1 \in DOMAIN LoopsToCome /\ k + 1 # 1 /\ LoopsToCome'[k] = LoopsToCome[k + 1]
      /\ \A k \in DOMAIN LoopsToCome :
            k = 1 \/ (k - 1 \in DOMAIN LoopsToCome' /\ LoopsToCome'[k - 1] = LoopsToCome[k])
      /\ DOMAIN LoopsToCome' \subseteq Int
  <2>1. LoopsToCome \in Seq(Loops)
    BY <1>2 DEF ReportTypeOK
  <2>2. DOMAIN LoopsToCome' \subseteq Int
    BY <1>1, <2>1, HeadAndTail, LenProperties
  <2> QED BY <1>1, <2>1, <2>2, HeadAndTail
<1>4. WellFormed(f) /\ f.blocks[l] \in Seq(Loops) /\ IsInjective(f.blocks[l])
  BY <1>2, <1>3 DEF ReportTypeOK, WellFormed
<1>5. ReportTypeOK'
  <2>1. WellFormed(function)'
    BY <1>1, <1>4 DEF WellFormed
  <2>2. Entries' = Entries
    BY <1>1 DEF Entries
  <2> QED BY <1>1, <1>2, <1>3, <1>4, <2>1, <2>2 DEF ReportTypeOK
<1> DEFINE set(k) == ToSet(f.blocks[LoopsToCome[k]])
<1>6. NoneTwice'
  <2>1. \A i, j \in DOMAIN LoopsToCome : i # j => set(i) \cap set(j) = {}
    BY <1>2 DEF NoneTwice
  <2>2. ASSUME NEW k \in DOMAIN LoopsToCome'
        PROVE  ToSet(f.blocks[LoopsToCome'[k]]) \cap ToSet(Blocks') = {}
    BY <1>1, <1>3, <2>1
  <2>3. ASSUME NEW i \in DOMAIN LoopsToCome', NEW j \in DOMAIN LoopsToCome', i # j
        PROVE  ToSet(f.blocks[LoopsToCome'[i]]) \cap ToSet(f.blocks[LoopsToCome'[j]]) = {}
    <3>1. i + 1 # j + 1 /\ i + 1 \in DOMAIN LoopsToCome /\ j + 1 \in DOMAIN LoopsToCome
      BY <1>3, <2>3
    <3>2. LoopsToCome'[i] = LoopsToCome[i + 1] /\ LoopsToCome'[j] = LoopsToCome[j + 1]
      BY <1>3
    <3> QED BY <2>1, <3>1, <3>2
  <2> QED BY <1>1, <1>4, <2>2, <2>3 DEF NoneTwice
<1>7. Waiting' = Waiting
  <2>1. ToSet(Blocks) = {} /\ ToSet(Blocks') = set(1)
    BY <1>1, <1>3 DEF ToSet
  <2>2. UNION {set(k) : k \in DOMAIN LoopsToCome}
          = set(1) \cup UNION {ToSet(f.blocks[LoopsToCome'[k]]) : k \in DOMAIN LoopsToCome'}
    <3> HIDE DEF f, l
    <3> QED BY <1>3
  <2> QED BY <1>1, <2>1, <2>2 DEF Waiting
<1>8. /\ \A B : NotPrinted(B)' <=> NotPrinted(B)
      /\ \A B : Printed(B)' <=> Printed(B)
      /\ AR!InLoops(function)' = AR!InLoops(function)
  BY <1>1 DEF NotPrinted, Printed, AR!InLoops
<1> QED BY <1>1, <1>2, <1>5, <1>6, <1>7, <1>8 DEF ReportInv

LEMMA VisitBlockReport ==
    ASSUME ReportInv, AR!VisitBlock, UNCHANGED vars
    PROVE  ReportInv'
<1> DEFINE f == function
           B == Head(Blocks)
           e == [insts |-> f.recurrences[B], header |-> f.header[CurrentLoop]]
           last == Len(errs) + 1
<1>1. /\ pass = "running" /\ Blocks # <<>> /\ errs' = Append(errs, e) /\ Blocks' = Tail(Blocks)
      /\ UNCHANGED <<function, LoopsToCome, CurrentLoop, pass>> /\ Loops' = Loops
  BY DEF AR!VisitBlock, vars, Loops
<1>2. /\ ReportTypeOK /\ NoneTwice
      /\ \A A \in AR!InLoops(f) : A \in Waiting \/ Printed(A)
      /\ \A A \in Waiting : NotPrinted(A)
  BY <1>1 DEF ReportInv
<1>3. /\ B \in Loops /\ Blocks' \in Seq(Loops)
      /\ ToSet(Blocks) = {B} \cup ToSet(Blocks') /\ IsInjective(Blocks') /\ B \notin ToSet(Blocks')
  BY <1>1, <1>2, HeadAndTail DEF ReportTypeOK, NoneTwice
<1>4. CurrentLoop \in Loops /\ f.header[CurrentLoop] \in Loops /\ e \in Entries
  BY <1>1, <1>2, <1>3 DEF ReportTypeOK, WellFormed, Entries
<1>5. /\ errs' \in Seq(Entries) /\ last \notin DOMAIN errs /\ DOMAIN errs' = DOMAIN errs \cup {last}
      /\ errs'[last] = e /\ \A k \in DOMAIN errs : errs'[k] = errs[k]
  <2>1. errs \in Seq(Entries)
    BY <1>2 DEF ReportTypeOK
  <2> HIDE DEF e
  <2> QED BY <1>1, <1>4, <2>1, AppendProperties, LenProperties
<1>6. e.insts = f.recurrences[B]
  OBVIOUS
<1> HIDE DEF e, last
<1>7. ReportTypeOK' /\ NoneTwice'
  <2>1. WellFormed(function)'
    BY <1>1, <1>2 DEF WellFormed, ReportTypeOK
  <2>2. Entries' = Entries
    BY <1>1 DEF Entries
  <2>3. ReportTypeOK'
    BY <1>1, <1>2, <1>3, <1>4, <1>5, <2>1, <2>2 DEF ReportTypeOK
  <2> QED BY <1>1, <1>2, <1>3, <2>3 DEF NoneTwice
<1>8. B \in Waiting /\ Waiting' = Waiting \ {B}
  <2>1. \A k \in DOMAIN LoopsToCome : B \notin ToSet(f.blocks[LoopsToCome[k]])
    BY <1>2, <1>3 DEF NoneTwice
  <2> QED BY <1>1, <1>3, <2>1 DEF Waiting
<1>9. ASSUME NEW A \in Loops, A # B
      PROVE  f.recurrences[A] \cap e.insts = {}
  BY <1>2, <1>3, <1>6, <1>9 DEF ReportTypeOK, WellFormed
<1>10. ASSUME NEW A \in Waiting' PROVE NotPrinted(A)'
  <2>1. A \in Waiting /\ A # B
    BY <1>8
  <2>2. A \in Loops
    BY <1>2, <2>1, WaitingLoops
  <2>3. NotPrinted(A)
    BY <1>2, <2>1
  <2> QED BY <1>1, <1>5, <1>9, <2>1, <2>2, <2>3 DEF NotPrinted
<1>11. ASSUME NEW A \in AR!InLoops(f), A \notin Waiting' PROVE Printed(A)'
  <2>1. CASE A = B
    <3>1. NotPrinted(B)
      BY <1>2, <1>8
    <3> QED BY <1>1, <1>5, <1>6, <2>1, <3>1 DEF NotPrinted, Printed
  <2>2. CASE A # B
    <3>1. A \in Loops
      BY <1>2 DEF AR!InLoops, ReportTypeOK, WellFormed, AR!ToSet
    <3>2. Printed(A)
      BY <1>2, <1>8, <1>11, <2>2
    <3> QED BY <1>1, <1>5, <1>9, <2>2, <3>1, <3>2 DEF Printed
  <2> QED BY <2>1, <2>2
<1>12. AR!InLoops(function)' = AR!InLoops(f)
  BY <1>1 DEF AR!InLoops
<1> QED BY <1>1, <1>7, <1>10, <1>11, <1>12 DEF ReportInv

\* Whatever the elimination has left, affine-recurrence prints each recurrence in a loop, however
\* deep the nest, exactly once.
THEOREM ReportedExactlyOnce == PipelineSpec => []ReportedOnce
<1>1. PipelineInit => ReportInv
  BY DEF PipelineInit, AR!Init, ReportInv
<1>2. IInv /\ ReportInv /\ [PipelineNext]_<<vars, report>> => ReportInv'
  <2> SUFFICES ASSUME IInv, ReportInv, [PipelineNext]_<<vars, report>> PROVE ReportInv'
    OBVIOUS
  <2>1. CASE UNCHANGED report /\ fn' = fn
    <3>1. UNCHANGED <<function, LoopsToCome, CurrentLoop, Blocks, errs, pass>> /\ Loops' = Loops
      BY <2>1 DEF report, Loops
    <3>2. /\ Waiting' = Waiting /\ ReportTypeOK' = ReportTypeOK /\ NoneTwice' = NoneTwice
          /\ AR!InLoops(function)' = AR!InLoops(function)
          /\ \A B : (NotPrinted(B)' <=> NotPrinted(B)) /\ (Printed(B)' <=> Printed(B))
      BY <3>1 DEF Waiting, ReportTypeOK, NoneTwice, NotPrinted, Printed, WellFormed, Entries, AR!InLoops
    <3> QED BY <3>1, <3>2 DEF ReportInv
  <2>2. CASE UNCHANGED <<vars, report>>
    BY <2>1, <2>2 DEF vars
  <2>3. CASE Next /\ UNCHANGED report
    BY <2>1, <2>3 DEF Next, NoCanonicalIV, EnterLoop, Eliminate, TooWide, MixedTypes, Subloops, Return, Stopped, vars
  <2>4. CASE AR!Run(LoopsLeft) /\ UNCHANGED vars
    BY <2>4, RunReport DEF IInv
  <2>5. CASE AR!AnalyzeLoop /\ UNCHANGED vars
    BY <2>5, AnalyzeLoopReport
  <2>6. CASE AR!VisitBlock /\ UNCHANGED vars
    BY <2>6, VisitBlockReport
  <2>7. CASE AR!Return /\ UNCHANGED vars
    <3>1. /\ pass = "running" /\ pass' = "done" /\ Blocks = <<>> /\ LoopsToCome = <<>>
          /\ UNCHANGED <<function, LoopsToCome, CurrentLoop, Blocks, errs>> /\ Loops' = Loops
      BY <2>7 DEF AR!Return, vars, Loops
    <3>2. /\ Waiting' = Waiting /\ ReportTypeOK' = ReportTypeOK /\ NoneTwice' = NoneTwice
          /\ AR!InLoops(function)' = AR!InLoops(function)
          /\ \A B : (NotPrinted(B)' <=> NotPrinted(B)) /\ (Printed(B)' <=> Printed(B))
      BY <3>1 DEF Waiting, ReportTypeOK, NoneTwice, NotPrinted, Printed, WellFormed, Entries, AR!InLoops
    <3> QED BY <3>1, <3>2 DEF ReportInv
  <2> QED BY <2>2, <2>3, <2>4, <2>5, <2>6, <2>7 DEF PipelineNext, AR!Continue
<1>3. ReportInv => ReportedOnce
  <2> SUFFICES ASSUME ReportInv, pass = "done",
                      NEW B \in AR!InLoops(function), NEW inst \in function.recurrences[B]
               PROVE  AR!Times(inst) = 1
    BY DEF ReportedOnce, AR!PrintedOnce
  <2>1. Waiting = {}
    BY DEF ReportInv, Waiting, ToSet
  <2>2. Printed(B)
    BY <2>1 DEF ReportInv
  <2>3. PICK k \in DOMAIN errs : \A n \in DOMAIN errs : inst \in errs[n].insts <=> n = k
    BY <2>2 DEF Printed
  <2>4. {n \in DOMAIN errs : inst \in errs[n].insts} = {k}
    BY <2>3
  <2>5. AR!Times(inst) = AR!Cardinality({k})
    BY <2>4 DEF AR!Times
  <2>6. AR!Cardinality({k}) = Cardinality({k})
    BY ONLY Zenon DEF AR!Cardinality, Cardinality
  <2> QED BY <2>5, <2>6, FS_Singleton
<1>4. PipelineSpec => []IInv
  BY PipelineEliminates, InvHolds, PTL
<1> QED BY <1>1, <1>2, <1>3, <1>4, PTL DEF PipelineSpec
================================================================================
