---------------------------- MODULE SimpleLICM_proofs ----------------------------
(***************************************************************************)
(* The loop-invariant code motion of SimpleLICM in every function and loop *)
(* nest: no instruction is lost, the fixpoint is complete, what is hoisted *)
(* is invariant and, while the set fits its array, operands stay first.    *)
(***************************************************************************)
EXTENDS SimpleLICM, SequenceTheorems, FiniteSetTheorems, WellFoundedInduction, TLAPS

USE FunctionsAssumption

--------------------------------------------------------------------------------
(* The least of a set of numbers, and reachability. *)

\* A set of natural numbers that is not empty has a least element.
LEMMA LeastExists ==
    ASSUME NEW S \in SUBSET Nat, S # {}
    PROVE  \E i \in S : \A j \in S : i <= j
<1> DEFINE R == OpToRel(<, Nat)
<1>1. IsWellFoundedOn(R, Nat)
  BY NatLessThanWellFounded
<1>2. PICK i \in S : \A j \in S : <<j, i>> \notin R
  <2> HIDE DEF R
  <2> QED BY <1>1, WFMin
<1>3. \A j \in S : ~ (j < i)
  BY <1>2 DEF OpToRel
<1> QED BY <1>3

\* A block that the walk starts from is reached.
LEMMA StartReached ==
    ASSUME NEW B, NEW E, NEW b \in B
    PROVE  b \in ReachedOver(B, E, {b})
BY DEF ReachedOver

\* An edge leads on.
LEMMA StepReached ==
    ASSUME NEW B, NEW E, NEW From, NEW e \in E,
           e[1] \in ReachedOver(B, E, From), e[2] \in B
    PROVE  e[2] \in ReachedOver(B, E, From)
BY DEF ReachedOver, ClosedUnder

\* A set that the edges do not lead out of holds all that is reached.
LEMMA ReachedLeast ==
    ASSUME NEW B, NEW E, NEW From, NEW S \in SUBSET B,
           From \subseteq S, ClosedUnder(S, E)
    PROVE  ReachedOver(B, E, From) \subseteq S
BY DEF ReachedOver

--------------------------------------------------------------------------------
(* Sequences and places. *)

LEMMA RemoveAtProperties ==
    ASSUME NEW S, NEW s \in Seq(S), NEW p \in 1..Len(s)
    PROVE  /\ RemoveAt(s, p) \in Seq(S)
           /\ Len(RemoveAt(s, p)) = Len(s) - 1
           /\ \A n \in 1..Len(s) - 1 :
                 RemoveAt(s, p)[n] = IF n < p THEN s[n] ELSE s[n + 1]
<1> DEFINE a == SubSeq(s, 1, p - 1)
           c == SubSeq(s, p + 1, Len(s))
<1>1. Len(s) \in Nat /\ p \in Nat /\ 1 <= p /\ p <= Len(s)
  BY LenProperties
<1>2. /\ a \in Seq(S) /\ Len(a) = p - 1
      /\ \A n \in 1..p - 1 : a[n] = s[n]
  <2>1. \A n \in 1..p - 1 : s[n] \in S
    BY <1>1, ElementOfSeq
  <2>2. /\ a \in Seq(S)
        /\ Len(a) = IF 1 <= p - 1 THEN (p - 1) - 1 + 1 ELSE 0
        /\ \A n \in 1..(p - 1) - 1 + 1 : a[n] = s[1 + n - 1]
    BY <1>1, SubSeqProperties
  <2> HIDE DEF a
  <2>3. \A n \in 1..p - 1 : 1 + n - 1 = n
    BY <1>1
  <2>4. (p - 1) - 1 + 1 = p - 1
    BY <1>1
  <2> QED BY <1>1, <2>2, <2>3, <2>4
<1>3. /\ c \in Seq(S) /\ Len(c) = Len(s) - p
      /\ \A n \in 1..Len(s) - p : c[n] = s[p + n]
  <2>1. /\ c \in Seq(S)
        /\ Len(c) = IF p + 1 <= Len(s) THEN Len(s) - (p + 1) + 1 ELSE 0
        /\ \A n \in 1..Len(s) - (p + 1) + 1 : c[n] = s[(p + 1) + n - 1]
    BY <1>1, SubSeqProperties
  <2> HIDE DEF c
  <2>2. \A n \in 1..Len(s) - p : (p + 1) + n - 1 = p + n
    BY <1>1
  <2>3. Len(s) - (p + 1) + 1 = Len(s) - p
    BY <1>1
  <2>4. Len(c) = Len(s) - p
    BY <1>1, <2>1, SMTT(30)
  <2>5. \A n \in 1..Len(s) - p : c[n] = s[(p + 1) + n - 1]
    BY <2>1, <2>3
  <2> QED BY <2>1, <2>2, <2>4, <2>5
<1>4. RemoveAt(s, p) = a \o c
  BY DEF RemoveAt
<1> HIDE DEF a, c
<1>5. /\ a \o c \in Seq(S)
      /\ Len(a \o c) = Len(a) + Len(c)
      /\ \A n \in 1..Len(a) + Len(c) :
            (a \o c)[n] = IF n <= Len(a) THEN a[n] ELSE c[n - Len(a)]
  BY <1>2, <1>3, ConcatProperties
<1>6. Len(a) + Len(c) = Len(s) - 1
  BY <1>1, <1>2, <1>3
<1>7. ASSUME NEW n \in 1..Len(s) - 1
      PROVE  (a \o c)[n] = IF n < p THEN s[n] ELSE s[n + 1]
  <2>1. (a \o c)[n] = IF n <= p - 1 THEN a[n] ELSE c[n - (p - 1)]
    BY <1>2, <1>5, <1>6
  <2>2. CASE n < p
    BY <1>1, <1>2, <2>1, <2>2
  <2>3. CASE ~ (n < p)
    <3>1. n - (p - 1) \in 1..Len(s) - p /\ p + (n - (p - 1)) = n + 1 /\ ~ (n <= p - 1)
      BY <1>1, <2>3
    <3> QED BY <1>3, <2>1, <2>3, <3>1
  <2> QED BY <2>2, <2>3
<1> QED BY <1>4, <1>5, <1>6, <1>7

LEMMA PlaceParts ==
    ASSUME NEW bodies, NEW i, NEW p
    PROVE  p \in Places(bodies, i) <=>
             \E b \in DOMAIN bodies : \E n \in DOMAIN bodies[b] :
                 p = <<b, n>> /\ bodies[b][n] = i
BY DEF Places

--------------------------------------------------------------------------------
(* What a move does to the places of the instructions. *)

IsBody(bodies, S) == DOMAIN bodies \subseteq Nat /\ bodies \in [DOMAIN bodies -> Seq(S)]

\* Instruction i, at place p, is moved to the end of block h.
Moved(bodies, h, p, i) ==
    [b \in DOMAIN bodies |->
        IF b = h THEN Append(bodies[b], i)
        ELSE IF b = p[1] THEN RemoveAt(bodies[b], p[2]) ELSE bodies[b]]

\* Where that leaves what was at place q.
Shifted(p, q) == IF q[1] = p[1] /\ p[2] < q[2] THEN <<q[1], q[2] - 1>> ELSE q

LEMMA PlaceTypes ==
    ASSUME NEW bodies, NEW S, IsBody(bodies, S), NEW i, NEW p \in Places(bodies, i)
    PROVE  /\ p = <<p[1], p[2]>> /\ p[1] \in DOMAIN bodies /\ p[1] \in Nat
           /\ bodies[p[1]] \in Seq(S) /\ Len(bodies[p[1]]) \in Nat
           /\ p[2] \in 1..Len(bodies[p[1]]) /\ p[2] \in Nat
           /\ bodies[p[1]][p[2]] = i
<1>1. PICK b \in DOMAIN bodies : \E n \in DOMAIN bodies[b] :
          p = <<b, n>> /\ bodies[b][n] = i
  BY PlaceParts
<1>2. bodies[b] \in Seq(S) /\ b \in Nat
  BY DEF IsBody
<1>3. Len(bodies[b]) \in Nat /\ DOMAIN bodies[b] = 1..Len(bodies[b])
  BY <1>2, LenProperties
<1> QED BY <1>1, <1>2, <1>3

\* A place is where the block has the instruction.
LEMMA AtPlace ==
    ASSUME NEW bodies, NEW S, IsBody(bodies, S), NEW b \in DOMAIN bodies,
           NEW n \in 1..Len(bodies[b])
    PROVE  <<b, n>> \in Places(bodies, bodies[b][n])
<1>1. n \in DOMAIN bodies[b]
  BY LenProperties DEF IsBody
<1> QED BY <1>1, PlaceParts

LEMMA MovedBlocks ==
    ASSUME NEW bodies, NEW S, IsBody(bodies, S), NEW h \in DOMAIN bodies, NEW i \in S,
           NEW p \in Places(bodies, i), p[1] # h
    PROVE  LET M == Moved(bodies, h, p, i)
           IN  /\ IsBody(M, S) /\ DOMAIN M = DOMAIN bodies
               /\ Len(bodies[h]) \in Nat /\ Len(M[h]) = Len(bodies[h]) + 1
               /\ \A n \in 1..Len(bodies[h]) : M[h][n] = bodies[h][n]
               /\ M[h][Len(bodies[h]) + 1] = i
               /\ Len(M[p[1]]) = Len(bodies[p[1]]) - 1
               /\ \A n \in 1..Len(bodies[p[1]]) - 1 :
                     M[p[1]][n] = IF n < p[2] THEN bodies[p[1]][n] ELSE bodies[p[1]][n + 1]
               /\ \A b \in DOMAIN bodies \ {h, p[1]} : M[b] = bodies[b]
<1> DEFINE M == Moved(bodies, h, p, i)
<1>1. /\ p[1] \in DOMAIN bodies /\ bodies[p[1]] \in Seq(S) /\ p[2] \in 1..Len(bodies[p[1]])
  BY PlaceTypes
<1>2. bodies[h] \in Seq(S) /\ Len(bodies[h]) \in Nat
  BY LenProperties DEF IsBody
<1>3. /\ M[h] = Append(bodies[h], i)
      /\ M[p[1]] = RemoveAt(bodies[p[1]], p[2])
      /\ \A b \in DOMAIN bodies \ {h, p[1]} : M[b] = bodies[b]
      /\ DOMAIN M = DOMAIN bodies
      /\ M = [b \in DOMAIN bodies |-> M[b]]
  BY <1>1 DEF Moved
<1> HIDE DEF M
<1>4. /\ M[h] \in Seq(S) /\ Len(M[h]) = Len(bodies[h]) + 1
      /\ \A n \in 1..Len(bodies[h]) : M[h][n] = bodies[h][n]
      /\ M[h][Len(bodies[h]) + 1] = i
  BY <1>2, <1>3, AppendProperties
<1>5. /\ M[p[1]] \in Seq(S) /\ Len(M[p[1]]) = Len(bodies[p[1]]) - 1
      /\ \A n \in 1..Len(bodies[p[1]]) - 1 :
            M[p[1]][n] = IF n < p[2] THEN bodies[p[1]][n] ELSE bodies[p[1]][n + 1]
  BY <1>1, <1>3, RemoveAtProperties, SMTT(30)
<1>6. \A b \in DOMAIN bodies : M[b] \in Seq(S)
  BY <1>3, <1>4, <1>5 DEF IsBody
<1>7. IsBody(M, S)
  BY <1>3, <1>6 DEF IsBody
<1> QED BY <1>2, <1>3, <1>4, <1>5, <1>7 DEF M

\* The moved instruction is in its new place only.
LEMMA MovedSelf ==
    ASSUME NEW bodies, NEW S, IsBody(bodies, S), NEW h \in DOMAIN bodies, NEW i \in S,
           NEW p, Places(bodies, i) = {p}, p[1] # h
    PROVE  Places(Moved(bodies, h, p, i), i) = {<<h, Len(bodies[h]) + 1>>}
<1> DEFINE M == Moved(bodies, h, p, i)
<1>1. /\ IsBody(M, S) /\ DOMAIN M = DOMAIN bodies
      /\ Len(bodies[h]) \in Nat /\ Len(M[h]) = Len(bodies[h]) + 1
      /\ \A n \in 1..Len(bodies[h]) : M[h][n] = bodies[h][n]
      /\ M[h][Len(bodies[h]) + 1] = i
      /\ Len(M[p[1]]) = Len(bodies[p[1]]) - 1
      /\ \A n \in 1..Len(bodies[p[1]]) - 1 :
            M[p[1]][n] = IF n < p[2] THEN bodies[p[1]][n] ELSE bodies[p[1]][n + 1]
      /\ \A b \in DOMAIN bodies \ {h, p[1]} : M[b] = bodies[b]
  BY MovedBlocks
<1>2. /\ p = <<p[1], p[2]>> /\ p[1] \in DOMAIN bodies
      /\ Len(bodies[p[1]]) \in Nat /\ p[2] \in 1..Len(bodies[p[1]])
  <2>1. p \in Places(bodies, i)
    OBVIOUS
  <2> QED BY ONLY <2>1, IsBody(bodies, S), PlaceTypes
<1> HIDE DEF M
<1>3. <<h, Len(bodies[h]) + 1>> \in Places(M, i)
  BY <1>1, AtPlace
<1>4. ASSUME NEW r \in Places(M, i)
      PROVE  r = <<h, Len(bodies[h]) + 1>>
  <2>1. /\ r = <<r[1], r[2]>> /\ r[1] \in DOMAIN bodies
        /\ r[2] \in 1..Len(M[r[1]]) /\ r[2] \in Nat /\ M[r[1]][r[2]] = i
    BY <1>1, PlaceTypes
  <2>2. \A b \in DOMAIN bodies, n \in Nat :
            n \in 1..Len(bodies[b]) /\ bodies[b][n] = i => <<b, n>> = p
    BY AtPlace
  <2>3. CASE r[1] = h
    BY <1>1, <1>2, <2>1, <2>2, <2>3
  <2>4. CASE r[1] = p[1]
    <3>1. r[2] \in 1..Len(bodies[p[1]]) - 1
      BY <1>1, <2>1, <2>4
    <3>2. CASE r[2] < p[2]
      BY <1>1, <1>2, <2>1, <2>2, <2>4, <3>1, <3>2, SMTT(30)
    <3>3. CASE ~ (r[2] < p[2])
      <4>1. bodies[p[1]][r[2] + 1] = i /\ r[2] + 1 \in 1..Len(bodies[p[1]])
        BY <1>1, <1>2, <2>1, <2>4, <3>1, <3>3
      <4>2. <<p[1], r[2] + 1>> = p
        BY <1>2, <2>2, <4>1
      <4> QED BY <1>2, <2>1, <3>3, <4>2
    <3> QED BY <3>2, <3>3
  <2>5. CASE r[1] \notin {h, p[1]}
    BY <1>1, <2>1, <2>2, <2>5
  <2> QED BY <2>3, <2>4, <2>5
<1> QED BY <1>3, <1>4 DEF M

\* Every other instruction is in its old place, or one position before.
LEMMA MovedOther ==
    ASSUME NEW bodies, NEW S, IsBody(bodies, S), NEW h \in DOMAIN bodies, NEW i \in S,
           NEW p \in Places(bodies, i), p[1] # h,
           NEW j, j # i, NEW q, Places(bodies, j) = {q}
    PROVE  Places(Moved(bodies, h, p, i), j) = {Shifted(p, q)}
<1> DEFINE M == Moved(bodies, h, p, i)
<1>1. /\ IsBody(M, S) /\ DOMAIN M = DOMAIN bodies
      /\ Len(bodies[h]) \in Nat /\ Len(M[h]) = Len(bodies[h]) + 1
      /\ \A n \in 1..Len(bodies[h]) : M[h][n] = bodies[h][n]
      /\ M[h][Len(bodies[h]) + 1] = i
      /\ Len(M[p[1]]) = Len(bodies[p[1]]) - 1
      /\ \A n \in 1..Len(bodies[p[1]]) - 1 :
            M[p[1]][n] = IF n < p[2] THEN bodies[p[1]][n] ELSE bodies[p[1]][n + 1]
      /\ \A b \in DOMAIN bodies \ {h, p[1]} : M[b] = bodies[b]
  BY MovedBlocks
<1>2. /\ p = <<p[1], p[2]>> /\ p[1] \in DOMAIN bodies
      /\ Len(bodies[p[1]]) \in Nat /\ p[2] \in 1..Len(bodies[p[1]])
      /\ bodies[p[1]][p[2]] = i
  BY PlaceTypes
<1>3. /\ q = <<q[1], q[2]>> /\ q[1] \in DOMAIN bodies
      /\ Len(bodies[q[1]]) \in Nat /\ q[2] \in 1..Len(bodies[q[1]])
      /\ bodies[q[1]][q[2]] = j
  <2>1. q \in Places(bodies, j)
    OBVIOUS
  <2> QED BY ONLY <2>1, IsBody(bodies, S), PlaceTypes
<1> HIDE DEF M
<1>4. Shifted(p, q) \in Places(M, j)
  <2>1. CASE q[1] = h
    <3>1. Shifted(p, q) = q
      BY <2>1 DEF Shifted
    <3>2. q[2] \in 1..Len(M[h]) /\ M[h][q[2]] = j
      BY <1>1, <1>3, <2>1
    <3> QED BY <1>1, <1>3, <2>1, <3>1, <3>2, AtPlace
  <2>2. CASE q[1] = p[1] /\ p[2] < q[2]
    <3>1. q[2] - 1 \in 1..Len(bodies[p[1]]) - 1 /\ ~ (q[2] - 1 < p[2]) /\ (q[2] - 1) + 1 = q[2]
      BY <1>2, <1>3, <2>2
    <3>2. q[2] - 1 \in 1..Len(M[p[1]]) /\ M[p[1]][q[2] - 1] = j
      BY <1>1, <1>3, <2>2, <3>1
    <3>3. Shifted(p, q) = <<p[1], q[2] - 1>>
      BY <2>2 DEF Shifted
    <3> QED BY <1>1, <1>2, <3>2, <3>3, AtPlace
  <2>3. CASE q[1] = p[1] /\ ~ (p[2] < q[2])
    <3>1. q[2] # p[2]
      BY <1>2, <1>3, <2>3
    <3>2. q[2] \in 1..Len(bodies[p[1]]) - 1 /\ q[2] < p[2]
      BY <1>2, <1>3, <2>3, <3>1
    <3>3. q[2] \in 1..Len(M[p[1]]) /\ M[p[1]][q[2]] = j
      BY <1>1, <1>3, <2>3, <3>2
    <3>4. Shifted(p, q) = <<p[1], q[2]>>
      BY <1>3, <2>3 DEF Shifted
    <3> QED BY <1>1, <1>2, <3>3, <3>4, AtPlace
  <2>4. CASE q[1] \notin {h, p[1]}
    <3>1. Shifted(p, q) = q
      BY <2>4 DEF Shifted
    <3>2. M[q[1]] = bodies[q[1]]
      BY <1>1, <1>3, <2>4
    <3> QED BY <1>1, <1>3, <3>1, <3>2, AtPlace
  <2> QED BY <2>1, <2>2, <2>3, <2>4
<1>5. ASSUME NEW r \in Places(M, j)
      PROVE  r = Shifted(p, q)
  <2>1. /\ r = <<r[1], r[2]>> /\ r[1] \in DOMAIN bodies
        /\ r[2] \in 1..Len(M[r[1]]) /\ r[2] \in Nat /\ M[r[1]][r[2]] = j
    BY <1>1, PlaceTypes
  <2>2. \A b \in DOMAIN bodies, n \in Nat :
            n \in 1..Len(bodies[b]) /\ bodies[b][n] = j => <<b, n>> = q
    BY AtPlace
  <2>3. CASE r[1] = h
    <3>1. r[2] \in 1..Len(bodies[h])
      BY <1>1, <2>1, <2>3
    <3>2. r = q
      BY <1>1, <2>1, <2>2, <2>3, <3>1
    <3> QED BY <2>3, <3>2 DEF Shifted
  <2>4. CASE r[1] = p[1]
    <3>1. r[2] \in 1..Len(bodies[p[1]]) - 1
      BY <1>1, <2>1, <2>4
    <3>2. CASE r[2] < p[2]
      <4>1. bodies[p[1]][r[2]] = j /\ r[2] \in 1..Len(bodies[p[1]])
        BY <1>1, <1>2, <2>1, <2>4, <3>1, <3>2
      <4>2. r = q
        BY <1>2, <2>1, <2>2, <2>4, <4>1
      <4>3. ~ (p[2] < q[2])
        BY <1>2, <2>1, <3>2, <4>2
      <4> QED BY <4>2, <4>3 DEF Shifted
    <3>3. CASE ~ (r[2] < p[2])
      <4>1. bodies[p[1]][r[2] + 1] = j /\ r[2] + 1 \in 1..Len(bodies[p[1]])
        BY <1>1, <1>2, <2>1, <2>4, <3>1, <3>3, SMTT(30)
      <4>2. <<p[1], r[2] + 1>> = q
        BY <1>2, <2>1, <2>2, <4>1
      <4>3. q[1] = p[1] /\ p[2] < q[2] /\ q[2] - 1 = r[2]
        BY <1>2, <2>1, <3>3, <4>2
      <4> QED BY <2>1, <2>4, <4>3 DEF Shifted
    <3> QED BY <3>2, <3>3
  <2>5. CASE r[1] \notin {h, p[1]}
    <3>1. r = q
      BY <1>1, <2>1, <2>2, <2>5, SMTT(30)
    <3> QED BY <2>5, <3>1 DEF Shifted
  <2> QED BY <2>3, <2>4, <2>5
<1> QED BY <1>4, <1>5 DEF M

\* Each instruction is in one place.
OnePlace(bodies, S) == \A i \in S : \E p \in Places(bodies, i) : Places(bodies, i) = {p}

\* An instruction at p, to be moved to the end of block h.
Movable(bodies, S, h, p, i) ==
    /\ IsBody(bodies, S) /\ OnePlace(bodies, S)
    /\ h \in DOMAIN bodies /\ i \in S /\ Places(bodies, i) = {p} /\ p[1] # h

LEMMA MovedOnePlace ==
    ASSUME NEW bodies, NEW S, NEW h, NEW p, NEW i, Movable(bodies, S, h, p, i)
    PROVE  OnePlace(Moved(bodies, h, p, i), S) /\ IsBody(Moved(bodies, h, p, i), S)
<1>1. /\ IsBody(bodies, S) /\ OnePlace(bodies, S) /\ h \in DOMAIN bodies /\ i \in S
      /\ Places(bodies, i) = {p} /\ p \in Places(bodies, i) /\ p[1] # h
  BY DEF Movable
<1>2. ASSUME NEW j \in S
      PROVE  \E r \in Places(Moved(bodies, h, p, i), j) : Places(Moved(bodies, h, p, i), j) = {r}
  <2>1. CASE j = i
    <3>1. Places(Moved(bodies, h, p, i), i) = {<<h, Len(bodies[h]) + 1>>}
      BY <1>1, MovedSelf
    <3> QED BY <2>1, <3>1
  <2>2. CASE j # i
    <3>1. PICK q : Places(bodies, j) = {q}
      BY <1>1 DEF OnePlace
    <3> QED BY <1>1, <2>2, <3>1, MovedOther, SMTT(30)
  <2> QED BY <2>1, <2>2
<1>3. IsBody(Moved(bodies, h, p, i), S)
  BY <1>1, MovedBlocks
<1> QED BY <1>2, <1>3 DEF OnePlace

\* No other instruction leaves its block.
LEMMA MovedStay ==
    ASSUME NEW bodies, NEW S, NEW h, NEW p, NEW i, Movable(bodies, S, h, p, i),
           NEW j \in S, j # i, NEW q \in Places(bodies, j)
    PROVE  \E r \in Places(Moved(bodies, h, p, i), j) :
              /\ Places(Moved(bodies, h, p, i), j) = {r} /\ r[1] = q[1]
              /\ r = Shifted(p, q)
<1>1. /\ IsBody(bodies, S) /\ OnePlace(bodies, S) /\ h \in DOMAIN bodies /\ i \in S
      /\ p \in Places(bodies, i) /\ p[1] # h
  BY DEF Movable
<1>2. Places(bodies, j) = {q}
  BY <1>1 DEF OnePlace
<1>3. Shifted(p, q)[1] = q[1]
  BY DEF Shifted
<1> QED BY <1>1, <1>2, <1>3, MovedOther

\* The others keep their order.
LEMMA MovedPrecedes ==
    ASSUME NEW bodies, NEW S, NEW h, NEW p, NEW i, Movable(bodies, S, h, p, i),
           NEW j \in S, NEW k \in S, j # i, k # i, Precedes(bodies, j, k)
    PROVE  Precedes(Moved(bodies, h, p, i), j, k)
<1> DEFINE M == Moved(bodies, h, p, i)
<1>1. PICK q \in Places(bodies, j), r \in Places(bodies, k) :
          q[1] < r[1] \/ (q[1] = r[1] /\ q[2] < r[2])
  BY DEF Precedes
<1>2. Shifted(p, q) \in Places(M, j) /\ Shifted(p, r) \in Places(M, k)
  BY MovedStay
<1>3. /\ q = <<q[1], q[2]>> /\ r = <<r[1], r[2]>> /\ p = <<p[1], p[2]>>
      /\ q[2] \in Nat /\ r[2] \in Nat /\ p[2] \in Nat
      /\ bodies[q[1]][q[2]] = j /\ bodies[r[1]][r[2]] = k /\ bodies[p[1]][p[2]] = i
  <2>1. IsBody(bodies, S) /\ p \in Places(bodies, i)
    BY DEF Movable
  <2> QED BY <2>1, PlaceTypes
<1>4. r[1] = p[1] => r[2] # p[2]
  BY <1>3
<1>5. \/ Shifted(p, q)[1] < Shifted(p, r)[1]
      \/ Shifted(p, q)[1] = Shifted(p, r)[1] /\ Shifted(p, q)[2] < Shifted(p, r)[2]
  BY <1>1, <1>3, <1>4 DEF Shifted
<1> HIDE DEF M
<1> QED BY <1>2, <1>5 DEF Precedes, M

\* The moved instruction goes up, and stays before what it was before.
LEMMA MovedUp ==
    ASSUME NEW bodies, NEW S, NEW h, NEW p, NEW i, Movable(bodies, S, h, p, i), h < p[1],
           NEW k \in S, k # i, Precedes(bodies, i, k)
    PROVE  Precedes(Moved(bodies, h, p, i), i, k)
<1> DEFINE M == Moved(bodies, h, p, i)
<1>1. PICK r \in Places(bodies, k) : p[1] < r[1] \/ p[1] = r[1]
  BY DEF Precedes, Movable
<1>2. PICK t \in Places(M, k) : t[1] = r[1]
  BY MovedStay
<1>3. IsBody(bodies, S) /\ h \in DOMAIN bodies /\ p \in Places(bodies, i)
  BY DEF Movable
<1>4. h \in Nat /\ p[1] \in Nat /\ r[1] \in Nat
  BY <1>3, PlaceTypes DEF IsBody
<1>5. <<h, Len(bodies[h]) + 1>> \in Places(M, i)
  BY MovedSelf DEF Movable
<1> HIDE DEF M
<1> QED BY <1>1, <1>2, <1>4, <1>5 DEF Precedes, M

\* It comes after what is in its new block.
LEMMA MovedAfter ==
    ASSUME NEW bodies, NEW S, NEW h, NEW p, NEW i, Movable(bodies, S, h, p, i),
           NEW o \in S, o # i, NEW q \in Places(bodies, o), q[1] = h
    PROVE  Precedes(Moved(bodies, h, p, i), o, i)
<1> DEFINE M == Moved(bodies, h, p, i)
<1>1. IsBody(bodies, S) /\ h \in DOMAIN bodies /\ p[1] # h
  BY DEF Movable
<1>2. q \in Places(M, o)
  <2>1. Shifted(p, q) = q
    BY <1>1 DEF Shifted
  <2> QED BY <2>1, MovedStay
<1>3. q[2] \in 1..Len(bodies[h]) /\ Len(bodies[h]) \in Nat
  BY <1>1, PlaceTypes
<1>4. <<h, Len(bodies[h]) + 1>> \in Places(M, i)
  BY MovedSelf DEF Movable
<1> HIDE DEF M
<1> QED BY <1>2, <1>3, <1>4 DEF Precedes, M

--------------------------------------------------------------------------------
(* The inductive invariant. *)

Distinct(s) == \A m, n \in 1..Len(s) : s[m] = s[n] => m = n

TypeInv ==
    /\ fn \in Functions
    /\ DOMAIN body = DOMAIN fn.body
    /\ IsBody(body, Insts(fn)) /\ OnePlace(body, Insts(fn))
    /\ loop \in 1..Len(fn.loops)
    /\ pc \in {"enter", "while", "scan", "hoist", "done"}
    /\ Changed \in BOOLEAN
    /\ InvariantSet \in Seq(Insts(fn)) /\ todo \in Seq(Insts(fn))
    /\ pc \in {"while", "scan", "hoist"} => L.preheader # NoPreheader
    /\ BB \in Nat /\ (pc = "scan" => BB \in 1..Len(L.blocks))

\* The set holds pure instructions, each after its operands.  While it grows, it and what is
\* left to visit are in the loop, and so is what is left to hoist.
SetInv ==
    /\ Distinct(InvariantSet)
    /\ \A n \in 1..Len(InvariantSet) :
          /\ fn.op[InvariantSet[n]] = "pure"
          /\ \A o \in fn.args[InvariantSet[n]] :
                \E m \in 1..Len(InvariantSet) : m < n /\ InvariantSet[m] = o
    /\ pc \in {"while", "scan"} => \A i \in ToSet(InvariantSet) : i \in Instructions(L)
    /\ pc = "scan" => \A i \in ToSet(todo) : i \in Instructions(L)
    /\ pc = "hoist" =>
          /\ Distinct(todo)
          /\ \A i \in ToSet(todo) : i \in Instructions(L) /\ i \in ToSet(InvariantSet)

\* An instruction that a visit would add.
Addable(i) == fn.op[i] = "pure" /\ AllOperandsInvariant(i) /\ ~ Contains(InvariantSet, i)

\* A sweep that has changed nothing has left nothing to add in what it has visited.
FixInv ==
    /\ pc = "scan" /\ ~ Changed =>
          \A i \in Instructions(L) : Addable(i) =>
              \/ i \in ToSet(todo)
              \/ \E k \in 1..Len(L.blocks) : k > BB /\ i \in ToSet(body[L.blocks[k]])
    /\ pc = "while" /\ ~ Changed => \A i \in Instructions(L) : ~ Addable(i)

\* An instruction computed from one that is not pure stays in its block.
KeptInv ==
    \A i \in Insts(fn) : (\E o \in ComputedFrom(fn, i) : fn.op[o] # "pure") =>
        \A p \in Places(body, i), q \in Places(fn.body, i) : p[1] = q[1]

IInv == TypeInv /\ SetInv /\ FixInv /\ KeptInv

--------------------------------------------------------------------------------
(* What the invariant says of sets and loops. *)

LEMMA SeqSet ==
    ASSUME NEW S, NEW s \in Seq(S)
    PROVE  /\ Len(s) \in Nat
           /\ \A e : e \in ToSet(s) <=> \E n \in 1..Len(s) : s[n] = e
           /\ \A e : Contains(s, e) <=> e \in ToSet(s)
           /\ ToSet(s) \subseteq S
<1>1. Len(s) \in Nat /\ DOMAIN s = 1..Len(s) /\ \A n \in 1..Len(s) : s[n] \in S
  BY LenProperties, ElementOfSeq
<1> QED BY <1>1 DEF ToSet, Contains

LEMMA TailSet ==
    ASSUME NEW S, NEW s \in Seq(S), s # <<>>
    PROVE  /\ Head(s) \in S /\ Head(s) \in ToSet(s) /\ Tail(s) \in Seq(S)
           /\ ToSet(Tail(s)) \subseteq ToSet(s)
           /\ ToSet(s) \subseteq ToSet(Tail(s)) \cup {Head(s)}
           /\ Distinct(s) => Distinct(Tail(s)) /\ Head(s) \notin ToSet(Tail(s))
<1>1. /\ Len(s) \in Nat \ {0} /\ Head(s) = s[1] /\ Head(s) \in S
      /\ Tail(s) \in Seq(S) /\ Len(Tail(s)) = Len(s) - 1
      /\ \A n \in 1..Len(s) - 1 : Tail(s)[n] = s[n + 1]
  BY HeadTailProperties, EmptySeq, LenProperties
<1>2. /\ \A e : e \in ToSet(s) <=> \E n \in 1..Len(s) : s[n] = e
      /\ \A e : e \in ToSet(Tail(s)) <=> \E n \in 1..Len(s) - 1 : Tail(s)[n] = e
  <2>1. \A e : e \in ToSet(s) <=> \E n \in 1..Len(s) : s[n] = e
    BY SeqSet
  <2>2. \A e : e \in ToSet(Tail(s)) <=> \E n \in 1..Len(Tail(s)) : Tail(s)[n] = e
    <3>1. DOMAIN Tail(s) = 1..Len(Tail(s))
      BY <1>1, LenProperties
    <3> QED BY <3>1 DEF ToSet
  <2> QED BY <1>1, <2>1, <2>2
<1>3. Head(s) \in ToSet(s)
  BY <1>1, <1>2
<1>4. ASSUME NEW e \in ToSet(Tail(s)) PROVE e \in ToSet(s)
  <2>1. PICK n \in 1..Len(s) - 1 : Tail(s)[n] = e
    BY <1>2
  <2>2. n + 1 \in 1..Len(s) /\ s[n + 1] = e
    BY <1>1, <2>1
  <2> QED BY <1>2, <2>2
<1>5. ASSUME NEW e \in ToSet(s), e # Head(s) PROVE e \in ToSet(Tail(s))
  <2>1. PICK n \in 1..Len(s) : s[n] = e
    BY <1>2
  <2>2. n - 1 \in 1..Len(s) - 1 /\ (n - 1) + 1 = n
    BY <1>1, <1>5, <2>1
  <2>3. Tail(s)[n - 1] = e
    BY <1>1, <2>1, <2>2
  <2> QED BY <1>2, <2>2, <2>3
<1>6. ASSUME Distinct(s) PROVE Distinct(Tail(s)) /\ Head(s) \notin ToSet(Tail(s))
  <2>1. ASSUME NEW m \in 1..Len(s) - 1, NEW n \in 1..Len(s) - 1, Tail(s)[m] = Tail(s)[n]
        PROVE  m = n
    <3>1. s[m + 1] = s[n + 1] /\ m + 1 \in 1..Len(s) /\ n + 1 \in 1..Len(s)
      BY <1>1, <2>1
    <3>2. m + 1 = n + 1
      BY <1>6, <3>1 DEF Distinct
    <3> QED BY <3>2
  <2>2. ASSUME Head(s) \in ToSet(Tail(s)) PROVE FALSE
    <3>1. PICK n \in 1..Len(s) - 1 : Tail(s)[n] = Head(s)
      BY <1>2, <2>2
    <3>2. s[n + 1] = s[1] /\ n + 1 \in 1..Len(s) /\ 1 \in 1..Len(s) /\ n + 1 # 1
      BY <1>1, <3>1
    <3> QED BY <1>6, <3>2 DEF Distinct
  <2> QED BY <1>1, <2>1, <2>2 DEF Distinct
<1> QED BY <1>1, <1>3, <1>4, <1>5, <1>6

\* The loop at hand.
LEMMA LoopParts ==
    ASSUME TypeInv
    PROVE  /\ IsFunction(fn)
           /\ L.blocks \in Seq(DOMAIN body) /\ L.blocks # <<>>
           /\ L.preheader \in DOMAIN body \cup {NoPreheader}
           /\ L.preheader # NoPreheader =>
                 L.preheader \in DOMAIN body /\ \A b \in ToSet(L.blocks) : L.preheader < b
<1>1. IsFunction(fn) /\ DOMAIN body = DOMAIN fn.body
  BY DEF TypeInv
<1>2. L \in [blocks : Seq(DOMAIN fn.body) \ {<<>>},
             preheader : DOMAIN fn.body \cup {NoPreheader}]
  <2>1. loop \in 1..Len(fn.loops)
    BY DEF TypeInv
  <2>2. fn.loops \in Seq([blocks : Seq(DOMAIN fn.body) \ {<<>>},
                          preheader : DOMAIN fn.body \cup {NoPreheader}])
    BY <1>1 DEF IsFunction
  <2> QED BY <2>1, <2>2, ElementOfSeq DEF L
<1>3. L.preheader # NoPreheader => \A b \in ToSet(L.blocks) : L.preheader < b
  <2>1. loop \in DOMAIN fn.loops
    BY <1>1, LenProperties DEF TypeInv, IsFunction
  <2> QED BY <1>1, <2>1 DEF IsFunction, L
<1> QED BY <1>1, <1>2, <1>3

\* What is in a loop is in one of its blocks.
LEMMA InstructionPlaces ==
    ASSUME NEW bodies, NEW S, IsBody(bodies, S), NEW B, B \subseteq DOMAIN bodies, NEW i
    PROVE  i \in UNION {ToSet(bodies[b]) : b \in B} <=> \E p \in Places(bodies, i) : p[1] \in B
<1>1. ASSUME NEW b \in B, i \in ToSet(bodies[b])
      PROVE  \E p \in Places(bodies, i) : p[1] \in B
  <2>1. bodies[b] \in Seq(S)
    BY DEF IsBody
  <2>2. PICK n \in 1..Len(bodies[b]) : bodies[b][n] = i
    BY <1>1, <2>1, SeqSet
  <2>3. <<b, n>> \in Places(bodies, i)
    BY <2>2, AtPlace
  <2> QED BY <2>3
<1>2. ASSUME NEW p \in Places(bodies, i), p[1] \in B
      PROVE  i \in ToSet(bodies[p[1]])
  <2>1. bodies[p[1]] \in Seq(S) /\ p[2] \in 1..Len(bodies[p[1]]) /\ bodies[p[1]][p[2]] = i
    BY PlaceTypes
  <2> QED BY <2>1, SeqSet
<1> QED BY <1>1, <1>2

\* An operand of an invariant instruction, however indirect, is in the set.
LEMMA ComputedFromSet ==
    ASSUME IInv, NEW i \in ToSet(InvariantSet)
    PROVE  \A o \in ComputedFrom(fn, i) : o \in ToSet(InvariantSet) /\ fn.op[o] = "pure"
<1> DEFINE E == {e \in Insts(fn) \X Insts(fn) : e[2] \in fn.args[e[1]]}
           S == ToSet(InvariantSet)
<1>1. InvariantSet \in Seq(Insts(fn))
  BY DEF IInv, TypeInv
<1>2. \A e : e \in S <=> \E n \in 1..Len(InvariantSet) : InvariantSet[n] = e
  BY <1>1, SeqSet
<1>3. ClosedUnder(S, E)
  <2> SUFFICES ASSUME NEW e \in E, e[1] \in S PROVE e[2] \in S
    BY DEF ClosedUnder
  <2>1. PICK n \in 1..Len(InvariantSet) : InvariantSet[n] = e[1]
    BY <1>2
  <2>2. e[2] \in fn.args[InvariantSet[n]]
    BY <2>1
  <2> QED BY <1>2, <2>2, SMTT(30) DEF IInv, SetInv
<1>4. S \in SUBSET Insts(fn)
  BY <1>1, SeqSet
<1>5. ComputedFrom(fn, i) \subseteq S
  <2> HIDE DEF S, E
  <2>1. ReachedOver(Insts(fn), E, {i}) \subseteq S
    BY <1>3, <1>4, ReachedLeast DEF S
  <2> QED BY <2>1 DEF ComputedFrom, E
<1>6. \A o \in S : fn.op[o] = "pure"
  BY <1>2 DEF IInv, SetInv
<1> QED BY <1>5, <1>6

--------------------------------------------------------------------------------
(* The steps. *)

LEMMA InitInv == Init => IInv
<1> SUFFICES ASSUME Init PROVE IInv
  OBVIOUS
<1>1. fn \in Functions /\ IsFunction(fn)
  BY DEF Init
<1>2. /\ body = fn.body /\ loop = 1 /\ pc = "enter" /\ InvariantSet = <<>>
      /\ BB = 1 /\ todo = <<>>
  BY DEF Init
<1>3. Changed \in BOOLEAN
  BY Zenon DEF Init
<1>4. IsBody(body, Insts(fn)) /\ OnePlace(body, Insts(fn))
  BY <1>1, <1>2 DEF IsFunction, IsBody, OnePlace
<1>5. 1 \in 1..Len(fn.loops)
  <2>1. fn.loops \in Seq([blocks : Seq(DOMAIN fn.body) \ {<<>>},
                          preheader : DOMAIN fn.body \cup {NoPreheader}]) /\ fn.loops # <<>>
    BY <1>1 DEF IsFunction
  <2>2. Len(fn.loops) \in Nat \ {0}
    BY <2>1, EmptySeq
  <2> QED BY <2>2
<1>6. <<>> \in Seq(Insts(fn)) /\ Len(<<>>) = 0
  BY EmptySeq
<1>7. TypeInv
  BY <1>1, <1>2, <1>3, <1>4, <1>5, <1>6 DEF TypeInv
<1>8. SetInv
  BY <1>2, <1>6 DEF SetInv, Distinct
<1>9. FixInv
  BY <1>2 DEF FixInv
<1>10. KeptInv
  BY <1>2, <1>4 DEF KeptInv, OnePlace
<1> QED BY <1>7, <1>8, <1>9, <1>10 DEF IInv

LEMMA NextLoopType == TypeInv /\ NextLoop => loop' \in 1..Len(fn.loops) /\ pc' \in {"enter", "done"}
<1> SUFFICES ASSUME TypeInv, NextLoop PROVE loop' \in 1..Len(fn.loops) /\ pc' \in {"enter", "done"}
  OBVIOUS
<1>1. Len(fn.loops) \in Nat
  BY LenProperties DEF TypeInv, IsFunction
<1> QED BY <1>1 DEF TypeInv, NextLoop

\* Turning to the next loop.
LEMMA LeaveInv ==
    ASSUME IInv, NextLoop, UNCHANGED <<fn, body, InvariantSet, Changed, BB>>,
           todo' = todo
    PROVE  IInv'
<1>1. loop' \in 1..Len(fn.loops) /\ pc' \in {"enter", "done"}
  BY NextLoopType DEF IInv
<1>2. TypeInv'
  BY <1>1 DEF IInv, TypeInv
<1>3. SetInv'
  BY <1>1 DEF IInv, SetInv
<1>4. FixInv'
  BY <1>1 DEF FixInv
<1>5. KeptInv'
  BY DEF IInv, KeptInv
<1> QED BY <1>2, <1>3, <1>4, <1>5 DEF IInv

LEMMA EnterLoopInv == IInv /\ EnterLoop => IInv'
<1> SUFFICES ASSUME IInv, EnterLoop PROVE IInv'
  OBVIOUS
<1>1. /\ UNCHANGED <<fn, body, loop, BB, todo>> /\ pc' = "while" /\ InvariantSet' = <<>>
      /\ L.preheader # NoPreheader
  BY DEF EnterLoop
<1>2. Changed'
  BY DEF EnterLoop
<1>3. <<>> \in Seq(Insts(fn)) /\ Len(<<>>) = 0
  BY EmptySeq
<1>4. Changed' \in BOOLEAN
  BY Zenon DEF EnterLoop
<1>5. TypeInv'
  BY <1>1, <1>3, <1>4 DEF IInv, TypeInv, L
<1>6. SetInv'
  <2>1. Distinct(InvariantSet')
    BY <1>1, <1>3 DEF Distinct
  <2>2. ToSet(<<>>) = {}
    BY DEF ToSet
  <2> QED BY <1>1, <1>3, <2>1, <2>2 DEF SetInv
<1>7. FixInv'
  BY <1>1, <1>2 DEF FixInv
<1>8. KeptInv'
  BY <1>1 DEF IInv, KeptInv
<1> QED BY <1>5, <1>6, <1>7, <1>8 DEF IInv

LEMMA StartSweepInv == IInv /\ StartSweep => IInv'
<1> SUFFICES ASSUME IInv, StartSweep PROVE IInv'
  OBVIOUS
<1>1. /\ UNCHANGED <<fn, body, loop, InvariantSet>> /\ pc = "while" /\ pc' = "scan"
      /\ BB' = 1 /\ todo' = body[L.blocks[1]]
  BY DEF StartSweep
<1>2. Changed' \in BOOLEAN
  BY Zenon DEF StartSweep
<1>3. TypeInv /\ SetInv
  BY DEF IInv
<1>4. /\ L.blocks \in Seq(DOMAIN body) /\ Len(L.blocks) \in Nat \ {0}
      /\ DOMAIN L.blocks = 1..Len(L.blocks)
  BY <1>3, LoopParts, EmptySeq, LenProperties
<1>5. L.blocks[1] \in DOMAIN body /\ L.blocks[1] \in ToSet(L.blocks)
  BY <1>4 DEF ToSet
<1>6. body[L.blocks[1]] \in Seq(Insts(fn))
  BY <1>3, <1>5 DEF TypeInv, IsBody
<1>7. UNCHANGED L
  BY <1>1 DEF L
<1>8. TypeInv'
  BY <1>1, <1>2, <1>3, <1>4, <1>6, <1>7 DEF TypeInv
<1>9. \A i \in ToSet(todo') : i \in Instructions(L)
  BY <1>1, <1>5 DEF Instructions
<1>10. SetInv'
  BY <1>1, <1>3, <1>7, <1>9 DEF SetInv, Instructions
<1>11. FixInv'
  <2> SUFFICES ASSUME NEW i \in Instructions(L)
               PROVE  \/ i \in ToSet(body[L.blocks[1]])
                      \/ \E k \in 1..Len(L.blocks) : k > 1 /\ i \in ToSet(body[L.blocks[k]])
    BY <1>1, <1>7 DEF FixInv, Instructions
  <2>1. PICK b \in ToSet(L.blocks) : i \in ToSet(body[b])
    BY DEF Instructions
  <2>2. PICK k \in 1..Len(L.blocks) : L.blocks[k] = b
    BY <1>4, <2>1 DEF ToSet
  <2> QED BY <1>4, <2>1, <2>2
<1>12. KeptInv'
  BY <1>1 DEF IInv, KeptInv
<1> QED BY <1>8, <1>10, <1>11, <1>12 DEF IInv

LEMMA NextBlockInv == IInv /\ NextBlock => IInv'
<1> SUFFICES ASSUME IInv, NextBlock PROVE IInv'
  OBVIOUS
<1>1. /\ UNCHANGED <<fn, body, loop, pc, InvariantSet, Changed>> /\ pc = "scan"
      /\ BB < Len(L.blocks) /\ BB' = BB + 1 /\ todo = <<>> /\ todo' = body[L.blocks[BB + 1]]
  BY DEF NextBlock
<1>2. TypeInv /\ SetInv /\ FixInv
  BY DEF IInv
<1>3. /\ L.blocks \in Seq(DOMAIN body) /\ Len(L.blocks) \in Nat
      /\ DOMAIN L.blocks = 1..Len(L.blocks)
  BY <1>2, LoopParts, LenProperties
<1>4. BB + 1 \in 1..Len(L.blocks) /\ BB \in Nat
  BY <1>1, <1>2, <1>3 DEF TypeInv
<1>5. L.blocks[BB + 1] \in DOMAIN body /\ L.blocks[BB + 1] \in ToSet(L.blocks)
  BY <1>3, <1>4 DEF ToSet
<1>6. body[L.blocks[BB + 1]] \in Seq(Insts(fn))
  BY <1>2, <1>5 DEF TypeInv, IsBody
<1>7. UNCHANGED L
  BY <1>1 DEF L
<1>8. TypeInv'
  BY <1>1, <1>2, <1>3, <1>4, <1>6, <1>7 DEF TypeInv
<1>9. \A i \in ToSet(todo') : i \in Instructions(L)
  BY <1>1, <1>5 DEF Instructions
<1>10. SetInv'
  BY <1>1, <1>2, <1>7, <1>9 DEF SetInv, Instructions
<1>11. FixInv'
  <2> SUFFICES ASSUME ~ Changed, NEW i \in Instructions(L), Addable(i)
               PROVE  \/ i \in ToSet(body[L.blocks[BB + 1]])
                      \/ \E k \in 1..Len(L.blocks) :
                            k > BB + 1 /\ i \in ToSet(body[L.blocks[k]])
    BY <1>1, <1>7 DEF FixInv, Instructions, Addable, AllOperandsInvariant
  <2>1. ToSet(<<>>) = {}
    BY DEF ToSet
  <2>2. PICK k \in 1..Len(L.blocks) : k > BB /\ i \in ToSet(body[L.blocks[k]])
    BY <1>1, <1>2, <2>1 DEF FixInv
  <2>3. k = BB + 1 \/ k > BB + 1
    BY <1>3, <1>4, <2>2
  <2> QED BY <2>2, <2>3
<1>12. KeptInv'
  BY <1>1 DEF IInv, KeptInv
<1> QED BY <1>8, <1>10, <1>11, <1>12 DEF IInv

LEMMA EndSweepInv == IInv /\ EndSweep => IInv'
<1> SUFFICES ASSUME IInv, EndSweep PROVE IInv'
  OBVIOUS
<1>1. /\ UNCHANGED <<fn, body, loop, InvariantSet, Changed, BB, todo>> /\ pc = "scan"
      /\ pc' = "while" /\ BB = Len(L.blocks) /\ todo = <<>>
  BY DEF EndSweep
<1>2. TypeInv /\ SetInv /\ FixInv
  BY DEF IInv
<1>3. Len(L.blocks) \in Nat
  BY <1>2, LoopParts, LenProperties
<1>4. UNCHANGED L
  BY <1>1 DEF L
<1>5. TypeInv'
  BY <1>1, <1>2, <1>4 DEF TypeInv
<1>6. SetInv'
  BY <1>1, <1>2, <1>4 DEF SetInv, Instructions
<1>7. FixInv'
  <2> SUFFICES ASSUME ~ Changed, NEW i \in Instructions(L), Addable(i) PROVE FALSE
    BY <1>1, <1>4 DEF FixInv, Instructions, Addable, AllOperandsInvariant
  <2>1. ToSet(<<>>) = {}
    BY DEF ToSet
  <2>2. PICK k \in 1..Len(L.blocks) : k > BB
    BY <1>1, <1>2, <2>1 DEF FixInv
  <2> QED BY <1>1, <1>3, <2>2
<1>8. KeptInv'
  BY <1>1 DEF IInv, KeptInv
<1> QED BY <1>5, <1>6, <1>7, <1>8 DEF IInv

\* What adding an instruction to the set does to it.
LEMMA AppendSet ==
    ASSUME NEW S, NEW s \in Seq(S), NEW e \in S
    PROVE  /\ Append(s, e) \in Seq(S)
           /\ ToSet(Append(s, e)) = ToSet(s) \cup {e}
           /\ Distinct(s) /\ e \notin ToSet(s) => Distinct(Append(s, e))
<1> DEFINE t == Append(s, e)
<1>1. /\ t \in Seq(S) /\ Len(s) \in Nat /\ Len(t) = Len(s) + 1
      /\ \A n \in 1..Len(s) : t[n] = s[n]
      /\ t[Len(s) + 1] = e
  BY AppendProperties, LenProperties
<1>2. /\ \A x : x \in ToSet(s) <=> \E n \in 1..Len(s) : s[n] = x
      /\ \A x : x \in ToSet(t) <=> \E n \in 1..Len(t) : t[n] = x
  <2>1. \A x : x \in ToSet(s) <=> \E n \in 1..Len(s) : s[n] = x
    BY SeqSet
  <2> HIDE DEF t
  <2>2. \A x : x \in ToSet(t) <=> \E n \in 1..Len(t) : t[n] = x
    BY <1>1, SeqSet
  <2> QED BY <2>1, <2>2
<1> HIDE DEF t
<1>3. \A n \in 1..Len(t) : n \in 1..Len(s) \/ n = Len(s) + 1
  BY <1>1
<1>4. 1..Len(s) \subseteq 1..Len(t) /\ Len(s) + 1 \in 1..Len(t)
  BY <1>1
<1>5. ToSet(t) = ToSet(s) \cup {e}
  BY <1>1, <1>2, <1>3, <1>4
<1>6. ASSUME Distinct(s), e \notin ToSet(s) PROVE Distinct(t)
  BY <1>1, <1>2, <1>3, <1>6 DEF Distinct
<1> QED BY <1>1, <1>5, <1>6 DEF t

LEMMA ScanInstInv == IInv /\ ScanInst => IInv'
<1> SUFFICES ASSUME IInv, ScanInst PROVE IInv'
  OBVIOUS
<1> DEFINE I == Head(todo)
<1>1. /\ UNCHANGED <<fn, body, loop, pc, BB>> /\ pc = "scan"
      /\ todo # <<>> /\ todo' = Tail(todo)
      /\ \/ Addable(I) /\ InvariantSet' = Append(InvariantSet, I) /\ Changed' = TRUE
         \/ ~ Addable(I) /\ UNCHANGED <<InvariantSet, Changed>>
  BY DEF ScanInst, Addable
<1>2. TypeInv /\ SetInv /\ FixInv /\ KeptInv
  BY DEF IInv
<1>3. InvariantSet \in Seq(Insts(fn)) /\ todo \in Seq(Insts(fn))
  BY <1>2 DEF TypeInv
<1>4. /\ I \in Insts(fn) /\ I \in ToSet(todo) /\ Tail(todo) \in Seq(Insts(fn))
      /\ ToSet(Tail(todo)) \subseteq ToSet(todo)
      /\ ToSet(todo) \subseteq ToSet(Tail(todo)) \cup {I}
  BY <1>1, <1>3, TailSet
<1> HIDE DEF I
<1>5. UNCHANGED L
  BY <1>1 DEF L
<1>6. KeptInv'
  BY <1>1, <1>2 DEF KeptInv
<1>7. CASE ~ Addable(I) /\ UNCHANGED <<InvariantSet, Changed>>
  <2>1. TypeInv'
    BY <1>1, <1>2, <1>4, <1>5, <1>7 DEF TypeInv
  <2>2. SetInv'
    BY <1>1, <1>2, <1>4, <1>5, <1>7 DEF SetInv, Instructions
  <2>3. FixInv'
    <3> SUFFICES ASSUME ~ Changed, NEW i \in Instructions(L), Addable(i)
                 PROVE  \/ i \in ToSet(todo')
                        \/ \E k \in 1..Len(L.blocks) : k > BB /\ i \in ToSet(body[L.blocks[k]])
      BY <1>1, <1>5, <1>7 DEF FixInv, Instructions, Addable, AllOperandsInvariant
    <3>1. \/ i \in ToSet(todo)
          \/ \E k \in 1..Len(L.blocks) : k > BB /\ i \in ToSet(body[L.blocks[k]])
      BY <1>1, <1>2 DEF FixInv
    <3> QED BY <1>1, <1>4, <1>7, <3>1
  <2> QED BY <1>6, <2>1, <2>2, <2>3 DEF IInv
<1>8. CASE Addable(I) /\ InvariantSet' = Append(InvariantSet, I) /\ Changed' = TRUE
  <2> DEFINE s == InvariantSet
             t == Append(InvariantSet, I)
  <2>1. I \notin ToSet(s)
    BY <1>3, <1>8, SeqSet DEF Addable
  <2>2. /\ t \in Seq(Insts(fn)) /\ ToSet(t) = ToSet(s) \cup {I} /\ Distinct(t)
        /\ Len(s) \in Nat /\ Len(t) = Len(s) + 1
        /\ \A n \in 1..Len(s) : t[n] = s[n]
        /\ t[Len(s) + 1] = I
    BY <1>2, <1>3, <1>4, <2>1, AppendSet, AppendProperties, LenProperties DEF SetInv
  <2>3. Changed' \in BOOLEAN
    BY ONLY <1>8, Zenon
  <2> HIDE DEF t
  <2>4. TypeInv'
    BY <1>1, <1>2, <1>4, <1>5, <1>8, <2>2, <2>3 DEF TypeInv, t
  <2>5. ASSUME NEW n \in 1..Len(t)
        PROVE  /\ fn.op[t[n]] = "pure"
               /\ \A o \in fn.args[t[n]] : \E m \in 1..Len(t) : m < n /\ t[m] = o
    <3>1. CASE n \in 1..Len(s)
      <4>1. t[n] = s[n] /\ fn.op[s[n]] = "pure"
        BY <1>2, <2>2, <3>1 DEF SetInv
      <4>2. ASSUME NEW o \in fn.args[s[n]] PROVE \E m \in 1..Len(t) : m < n /\ t[m] = o
        <5>1. PICK m \in 1..Len(s) : m < n /\ s[m] = o
          BY <1>2, <3>1, <4>2 DEF SetInv
        <5>2. m \in 1..Len(t) /\ t[m] = o
          BY <2>2, <5>1
        <5> QED BY <5>1, <5>2
      <4> QED BY <4>1, <4>2
    <3>2. CASE n = Len(s) + 1
      <4>1. t[n] = I /\ fn.op[I] = "pure"
        BY <1>8, <2>2, <3>2 DEF Addable
      <4>2. ASSUME NEW o \in fn.args[I] PROVE \E m \in 1..Len(t) : m < n /\ t[m] = o
        <5>1. Contains(s, o)
          BY <1>8, <4>2 DEF Addable, AllOperandsInvariant
        <5>2. PICK m \in 1..Len(s) : s[m] = o
          BY <5>1 DEF Contains
        <5>3. m \in 1..Len(t) /\ m < n /\ t[m] = o
          BY <2>2, <3>2, <5>2
        <5> QED BY <5>3
      <4> QED BY <4>1, <4>2
    <3> QED BY <2>2, <3>1, <3>2
  <2>6. I \in Instructions(L)
    BY <1>1, <1>2, <1>4 DEF SetInv
  <2>7. SetInv'
    <3>1. InvariantSet' = t
      BY <1>8 DEF t
    <3>2. Distinct(InvariantSet')
      BY <2>2, <3>1
    <3>3. \A i \in ToSet(InvariantSet') : i \in Instructions(L)
      BY <1>1, <1>2, <2>2, <2>6, <3>1 DEF SetInv
    <3>4. \A i \in ToSet(todo') : i \in Instructions(L)
      BY <1>1, <1>2, <1>4 DEF SetInv
    <3>5. UNCHANGED Instructions(L)
      BY <1>1, <1>5 DEF Instructions
    <3>6. pc' = "scan"
      BY <1>1
    <3>7. \A n \in 1..Len(InvariantSet') :
            /\ fn'.op[InvariantSet'[n]] = "pure"
            /\ \A o \in fn'.args[InvariantSet'[n]] :
                  \E m \in 1..Len(InvariantSet') : m < n /\ InvariantSet'[m] = o
      BY <1>1, <2>5, <3>1
    <3> QED BY <3>2, <3>3, <3>4, <3>5, <3>6, <3>7 DEF SetInv
  <2>8. FixInv'
    BY <1>1, <1>8 DEF FixInv
  <2> QED BY <1>6, <2>4, <2>7, <2>8 DEF IInv
<1> QED BY <1>1, <1>7, <1>8

LEMMA StartHoistingInv == IInv /\ StartHoisting => IInv'
<1> SUFFICES ASSUME IInv, StartHoisting PROVE IInv'
  OBVIOUS
<1>1. /\ UNCHANGED <<fn, body, loop, InvariantSet, Changed, BB>> /\ pc = "while"
      /\ pc' = "hoist" /\ todo' \in IterationOrders(InvariantSet)
  BY DEF StartHoisting
<1>2. TypeInv /\ SetInv /\ KeptInv
  BY DEF IInv
<1> DEFINE s == InvariantSet
<1>3. s \in Seq(Insts(fn)) /\ Len(s) \in Nat /\ ToSet(s) \subseteq Insts(fn) /\ Distinct(s)
  BY <1>2, SeqSet DEF TypeInv, SetInv
<1>4. todo' \in Seq(Insts(fn)) /\ Distinct(todo') /\ ToSet(todo') \subseteq ToSet(s)
  <2>1. CASE todo' = s
    BY <1>3, <2>1
  <2>2. CASE todo' \in SetToSeqs(ToSet(s))
    <3> DEFINE D == 1..Cardinality(ToSet(s))
    <3>1. Cardinality(ToSet(s)) \in Nat
      <4>1. s \in [1..Len(s) -> ToSet(s)] /\ DOMAIN s = 1..Len(s)
        BY <1>3, LenProperties DEF ToSet
      <4>2. s \in Surjection(1..Len(s), ToSet(s))
        BY <4>1 DEF Surjection, ToSet
      <4>3. IsFiniteSet(1..Len(s))
        BY <1>3, FS_Interval
      <4>4. IsFiniteSet(ToSet(s))
        BY <4>2, <4>3, FS_Surjection
      <4> QED BY <4>4, FS_CardinalityType
    <3>2. todo' \in [D -> ToSet(s)] /\ \A m, n \in D : m # n => todo'[m] # todo'[n]
      BY <2>2 DEF SetToSeqs
    <3>3. todo' \in Seq(Insts(fn)) /\ Len(todo') = Cardinality(ToSet(s))
      BY <1>3, <3>1, <3>2
    <3>4. ToSet(todo') \subseteq ToSet(s)
      <4>1. \A n \in DOMAIN todo' : todo'[n] \in ToSet(s)
        BY <3>2
      <4> QED BY <4>1 DEF ToSet
    <3> QED BY <3>2, <3>3, <3>4 DEF Distinct
  <2> QED BY <1>1, <2>1, <2>2 DEF IterationOrders
<1>5. UNCHANGED L
  BY <1>1 DEF L
<1>6. TypeInv'
  BY <1>1, <1>2, <1>4, <1>5 DEF TypeInv
<1>7. SetInv'
  BY <1>1, <1>2, <1>4, <1>5 DEF SetInv, Instructions
<1>8. FixInv'
  BY <1>1 DEF FixInv
<1>9. KeptInv'
  BY <1>1, <1>2 DEF KeptInv
<1> QED BY <1>6, <1>7, <1>8, <1>9 DEF IInv

\* What is hoisted comes up from the loop to its preheader.
LEMMA HoistMove ==
    ASSUME IInv, HoistInst, Head(todo) \in fn.safe
    PROVE  \E p : /\ Movable(body, Insts(fn), L.preheader, p, Head(todo))
                  /\ L.preheader < p[1]
                  /\ body' = Moved(body, L.preheader, p, Head(todo))
<1> DEFINE I == Head(todo)
           h == L.preheader
<1>1. /\ pc = "hoist" /\ todo # <<>>
      /\ \E p \in Places(body, I) :
             body' = [b \in DOMAIN body |->
                        CASE b = h -> Append(body[b], I)
                          [] b = p[1] -> RemoveAt(body[b], p[2])
                          [] OTHER -> body[b]]
  BY DEF HoistInst, MoveToPreheader
<1>2. TypeInv /\ SetInv
  BY DEF IInv
<1>3. I \in Insts(fn) /\ I \in ToSet(todo)
  BY <1>1, <1>2, TailSet DEF TypeInv
<1>4. I \in Instructions(L)
  BY <1>1, <1>2, <1>3 DEF SetInv
<1>5. /\ h \in DOMAIN body /\ \A b \in ToSet(L.blocks) : h < b
      /\ L.blocks \in Seq(DOMAIN body) /\ IsBody(body, Insts(fn)) /\ OnePlace(body, Insts(fn))
  BY <1>1, <1>2, LoopParts DEF TypeInv
<1>6. ToSet(L.blocks) \subseteq DOMAIN body
  BY <1>5, SeqSet
<1>7. PICK p \in Places(body, I) :
          body' = [b \in DOMAIN body |->
                     CASE b = h -> Append(body[b], I)
                       [] b = p[1] -> RemoveAt(body[b], p[2])
                       [] OTHER -> body[b]]
  BY <1>1
<1>8. Places(body, I) = {p}
  BY <1>3, <1>5 DEF OnePlace
<1>9. p[1] \in ToSet(L.blocks)
  <2>1. \E q \in Places(body, I) : q[1] \in ToSet(L.blocks)
    <3> DEFINE B == ToSet(L.blocks)
    <3>1. I \in UNION {ToSet(body[b]) : b \in B}
      BY <1>4 DEF Instructions
    <3> HIDE DEF B, I
    <3> QED BY <1>5, <1>6, <3>1, InstructionPlaces DEF B
  <2> QED BY <1>8, <2>1
<1>10. h < p[1] /\ h # p[1]
  <2>1. h < p[1]
    BY <1>5, <1>9
  <2>2. h \in Nat /\ p[1] \in Nat
    BY <1>5, <1>6, <1>9 DEF IsBody
  <2> QED BY <2>1, <2>2
<1> HIDE DEF I, h
<1>11. body' = Moved(body, h, p, I)
  BY <1>7, <1>10 DEF Moved
<1>12. Movable(body, Insts(fn), h, p, I)
  BY <1>3, <1>5, <1>8, <1>10 DEF Movable
<1> QED BY <1>10, <1>11, <1>12 DEF I, h

LEMMA HoistInstInv == IInv /\ HoistInst => IInv'
<1> SUFFICES ASSUME IInv, HoistInst PROVE IInv'
  OBVIOUS
<1> DEFINE I == Head(todo)
<1>1. /\ UNCHANGED <<fn, loop, pc, InvariantSet, Changed, BB>> /\ pc = "hoist"
      /\ todo # <<>> /\ todo' = Tail(todo)
      /\ I \notin fn.safe => UNCHANGED body
  BY DEF HoistInst
<1>2. TypeInv /\ SetInv /\ KeptInv
  BY DEF IInv
<1>3. InvariantSet \in Seq(Insts(fn)) /\ todo \in Seq(Insts(fn))
  BY <1>2 DEF TypeInv
<1>4. /\ I \in Insts(fn) /\ I \in ToSet(todo) /\ Tail(todo) \in Seq(Insts(fn))
      /\ ToSet(Tail(todo)) \subseteq ToSet(todo)
      /\ Distinct(todo) => Distinct(Tail(todo)) /\ I \notin ToSet(Tail(todo))
  BY <1>1, <1>3, TailSet
<1>5. UNCHANGED L
  BY <1>1 DEF L
<1>6. /\ Distinct(Tail(todo)) /\ I \notin ToSet(Tail(todo))
      /\ \A i \in ToSet(Tail(todo)) : i \in Instructions(L) /\ i \in ToSet(InvariantSet)
  BY <1>1, <1>2, <1>4 DEF SetInv
<1>7. ToSet(todo) \subseteq ToSet(InvariantSet)
  BY <1>1, <1>2 DEF SetInv
<1> HIDE DEF I
<1>8. /\ DOMAIN body' = DOMAIN body /\ IsBody(body', Insts(fn)) /\ OnePlace(body', Insts(fn))
      /\ \A j \in Insts(fn) : j # I =>
            \A q \in Places(body, j) : \E r \in Places(body', j) :
                Places(body', j) = {r} /\ r[1] = q[1]
  <2>1. CASE I \notin fn.safe
    <3>1. body' = body
      BY <1>1, <2>1
    <3>2. IsBody(body, Insts(fn)) /\ OnePlace(body, Insts(fn))
      BY <1>2 DEF TypeInv
    <3> QED BY <3>1, <3>2 DEF OnePlace
  <2>2. CASE I \in fn.safe
    <3>1. PICK p : /\ Movable(body, Insts(fn), L.preheader, p, I)
                   /\ body' = Moved(body, L.preheader, p, I)
      BY <2>2, HoistMove DEF I
    <3>2. OnePlace(body', Insts(fn)) /\ IsBody(body', Insts(fn))
      BY <3>1, MovedOnePlace
    <3>3. DOMAIN body' = DOMAIN body
      BY <3>1 DEF Moved
    <3>4. ASSUME NEW j \in Insts(fn), j # I, NEW q \in Places(body, j)
          PROVE  \E r \in Places(body', j) : Places(body', j) = {r} /\ r[1] = q[1]
      BY <3>1, <3>4, MovedStay
    <3> QED BY <3>2, <3>3, <3>4
  <2> QED BY <2>1, <2>2
<1>9. TypeInv'
  BY <1>1, <1>2, <1>4, <1>5, <1>8 DEF TypeInv
<1>10. ASSUME NEW i \in ToSet(todo') PROVE i \in Instructions(L)' /\ i \in ToSet(InvariantSet')
  <2>1. i \in Instructions(L) /\ i \in ToSet(InvariantSet) /\ i # I /\ i \in Insts(fn)
    <3>1. i \in ToSet(Tail(todo))
      BY <1>1, <1>10
    <3> QED BY <1>4, <1>6, <3>1, SeqSet
  <2> DEFINE B == ToSet(L.blocks)
  <2>2. B \subseteq DOMAIN body
    BY <1>2, LoopParts, SeqSet
  <2>3. i \in UNION {ToSet(body[b]) : b \in B}
    BY <2>1 DEF Instructions
  <2>4. IsBody(body, Insts(fn))
    BY <1>2 DEF TypeInv
  <2> HIDE DEF B
  <2>5. PICK q \in Places(body, i) : q[1] \in B
    BY <2>2, <2>3, <2>4, InstructionPlaces
  <2>6. PICK r \in Places(body', i) : r[1] \in B
    BY <1>8, <2>1, <2>5
  <2>7. i \in UNION {ToSet(body'[b]) : b \in B}
    BY <1>8, <2>2, <2>6, InstructionPlaces
  <2> QED BY <1>1, <1>5, <2>1, <2>7 DEF Instructions, B
<1>11. SetInv'
  <2>1. Distinct(todo')
    BY <1>1, <1>6
  <2> QED BY <1>1, <1>2, <1>10, <2>1 DEF SetInv
<1>12. FixInv'
  BY <1>1 DEF FixInv
<1>13. KeptInv'
  <2> SUFFICES ASSUME NEW i \in Insts(fn), NEW o \in ComputedFrom(fn, i), fn.op[o] # "pure",
                      NEW r \in Places(body', i), NEW q \in Places(fn.body, i)
               PROVE  r[1] = q[1]
    BY <1>1 DEF KeptInv
  <2>1. i # I
    <3>1. I \in ToSet(InvariantSet)
      BY <1>4, <1>7
    <3> QED BY <3>1, ComputedFromSet
  <2>2. PICK p : p \in Places(body, i)
    BY <1>2 DEF TypeInv, OnePlace
  <2>3. p[1] = q[1]
    BY <1>2, <2>2 DEF KeptInv
  <2>4. r[1] = p[1]
    BY <1>8, <2>1, <2>2
  <2> QED BY <2>3, <2>4
<1> QED BY <1>9, <1>11, <1>12, <1>13 DEF IInv

LEMMA StepInv == IInv /\ [Next]_vars => IInv'
<1> SUFFICES ASSUME IInv, [Next]_vars PROVE IInv'
  OBVIOUS
<1>1. CASE SkipLoop
  BY <1>1, LeaveInv DEF SkipLoop
<1>2. CASE EnterLoop
  BY <1>2, EnterLoopInv
<1>3. CASE StartSweep
  BY <1>3, StartSweepInv
<1>4. CASE ScanInst
  BY <1>4, ScanInstInv
<1>5. CASE NextBlock
  BY <1>5, NextBlockInv
<1>6. CASE EndSweep
  BY <1>6, EndSweepInv
<1>7. CASE StartHoisting
  BY <1>7, StartHoistingInv
<1>8. CASE HoistInst
  BY <1>8, HoistInstInv
<1>9. CASE ReturnFromLoop
  BY <1>9, LeaveInv DEF ReturnFromLoop
<1>10. CASE UNCHANGED vars
  BY <1>10 DEF vars, IInv, TypeInv, SetInv, FixInv, KeptInv, L, Instructions, Addable,
               AllOperandsInvariant
<1>11. CASE Done
  BY <1>10, <1>11 DEF Done
<1> QED BY <1>1, <1>2, <1>3, <1>4, <1>5, <1>6, <1>7, <1>8, <1>9, <1>10, <1>11 DEF Next

\* The invariant holds in every function, with every set size and iteration order.
THEOREM Invariant == Spec => []IInv
<1>1. Init => IInv
  BY InitInv
<1>2. IInv /\ [Next]_vars => IInv'
  BY StepInv
<1> QED BY <1>1, <1>2, PTL DEF Spec

--------------------------------------------------------------------------------
(* What the runs check. *)

\* TypeOK for every function: no instruction is lost or duplicated by the moves.
THEOREM TypeCorrect == Spec => []TypeOK
<1>1. IInv => TypeOK
  <2> SUFFICES ASSUME IInv PROVE TypeOK
    OBVIOUS
  <2>1. TypeInv /\ IsFunction(fn)
    BY LoopParts DEF IInv
  <2>2. loop \in DOMAIN fn.loops
    BY <2>1, LenProperties DEF TypeInv, IsFunction
  <2>3. ToSet(InvariantSet) \cup ToSet(todo) \subseteq Insts(fn)
    BY <2>1, SeqSet DEF TypeInv
  <2>4. \A i \in Insts(fn) : \E p \in Places(body, i) : Places(body, i) = {p}
    BY <2>1 DEF TypeInv, OnePlace
  <2> QED BY <2>1, <2>2, <2>3, <2>4 DEF TypeInv, TypeOK
<1> QED BY <1>1, Invariant, PTL

\* HoistedInvariant for every function: an instruction that has left a loop is computed, as
\* far as the loop goes, from pure instructions.  The others never leave their block.
THEOREM Hoisted == Spec => []HoistedInvariant
<1>1. IInv => HoistedInvariant
  <2> SUFFICES ASSUME IInv, NEW k \in DOMAIN fn.loops, NEW i \in Insts(fn),
                      WasIn(fn.loops[k], i), i \notin Instructions(fn.loops[k]),
                      NEW o \in ComputedFrom(fn, i), fn.op[o] # "pure"
               PROVE  FALSE
    BY DEF HoistedInvariant
  <2> DEFINE B == ToSet(fn.loops[k].blocks)
  <2>1. /\ DOMAIN body = DOMAIN fn.body /\ IsFunction(fn) /\ KeptInv
        /\ IsBody(body, Insts(fn)) /\ OnePlace(body, Insts(fn))
    BY LoopParts DEF IInv, TypeInv
  <2>2. IsBody(fn.body, Insts(fn))
    BY <2>1 DEF IsFunction, IsBody
  <2>3. B \subseteq DOMAIN fn.body
    <3>1. fn.loops[k].blocks \in Seq(DOMAIN fn.body)
      <4>1. fn.loops \in Seq([blocks : Seq(DOMAIN fn.body) \ {<<>>},
                              preheader : DOMAIN fn.body \cup {NoPreheader}])
        BY <2>1 DEF IsFunction
      <4>2. k \in 1..Len(fn.loops)
        BY <4>1, LenProperties
      <4>3. fn.loops[k] \in [blocks : Seq(DOMAIN fn.body) \ {<<>>},
                              preheader : DOMAIN fn.body \cup {NoPreheader}]
        BY <4>1, <4>2, ElementOfSeq
      <4> QED BY <4>3
    <3> QED BY <3>1, SeqSet
  <2>4. PICK b \in B : Contains(fn.body[b], i)
    BY DEF WasIn
  <2>5. PICK q \in Places(fn.body, i) : q[1] \in B
    <3>1. fn.body[b] \in Seq(Insts(fn))
      BY <2>2, <2>3 DEF IsBody
    <3>2. PICK n \in 1..Len(fn.body[b]) : fn.body[b][n] = i
      BY <2>4, <3>1, SeqSet
    <3>3. <<b, n>> \in Places(fn.body, i)
      BY <2>2, <2>3, <3>2, AtPlace
    <3> QED BY <3>3
  <2>6. PICK p : p \in Places(body, i)
    BY <2>1 DEF OnePlace
  <2>7. p[1] \in B
    BY <2>1, <2>5, <2>6 DEF KeptInv
  <2>8. i \in UNION {ToSet(body[c]) : c \in B}
    <3> HIDE DEF B
    <3> QED BY <2>1, <2>3, <2>6, <2>7, InstructionPlaces
  <2> QED BY <2>8 DEF Instructions
<1> QED BY <1>1, Invariant, PTL

\* What a pure instruction is computed from includes what each operand is computed from.
LEMMA ComputedFromOperand ==
    ASSUME NEW f, NEW i \in Insts(f), NEW o \in Insts(f), o \in f.args[i]
    PROVE  i \in ComputedFrom(f, i) /\ ComputedFrom(f, o) \subseteq ComputedFrom(f, i)
<1> DEFINE E == {e \in Insts(f) \X Insts(f) : e[2] \in f.args[e[1]]}
<1>1. /\ i \in ReachedOver(Insts(f), E, {i})
      /\ o \in ReachedOver(Insts(f), E, {i})
      /\ ReachedOver(Insts(f), E, {i}) \in SUBSET Insts(f)
      /\ ClosedUnder(ReachedOver(Insts(f), E, {i}), E)
  <2>1. i \in ReachedOver(Insts(f), E, {i})
    <3> HIDE DEF E
    <3> QED BY StartReached
  <2>2. ReachedOver(Insts(f), E, {i}) \in SUBSET Insts(f)
    BY DEF ReachedOver
  <2>3. ASSUME NEW e \in E, e[1] \in ReachedOver(Insts(f), E, {i})
        PROVE  e[2] \in ReachedOver(Insts(f), E, {i})
    <3>1. e[2] \in Insts(f)
      OBVIOUS
    <3> HIDE DEF E
    <3> QED BY <2>3, <3>1, StepReached
  <2>4. o \in ReachedOver(Insts(f), E, {i})
    <3>1. <<i, o>> \in E
      OBVIOUS
    <3> HIDE DEF E
    <3> QED BY <2>1, <2>3, <3>1
  <2> HIDE DEF E
  <2> QED BY <2>1, <2>2, <2>3, <2>4 DEF ClosedUnder
<1>2. ReachedOver(Insts(f), E, {o}) \subseteq ReachedOver(Insts(f), E, {i})
  <2> HIDE DEF E
  <2>1. {o} \subseteq ReachedOver(Insts(f), E, {i})
    BY <1>1
  <2> QED BY <1>1, <2>1, ReachedLeast
<1> QED BY <1>1, <1>2 DEF ComputedFrom

\* FixpointComplete for every function.  An instruction that is missing from the set has an
\* operand that is missing, unless a sweep would have added it; operands have smaller
\* numbers, so the missing instruction with the least number would have been added.
THEOREM Fixpoint == Spec => []FixpointComplete
<1>1. IInv => FixpointComplete
  <2> SUFFICES ASSUME IInv, pc = "while", ~ Changed
               PROVE  ToSet(InvariantSet) =
                        {i \in Instructions(L) : \A o \in ComputedFrom(fn, i) :
                                                    fn.op[o] = "pure" /\ o \in Instructions(L)}
    BY DEF FixpointComplete
  <2> DEFINE X == {i \in Instructions(L) : \A o \in ComputedFrom(fn, i) :
                                              fn.op[o] = "pure" /\ o \in Instructions(L)}
             Missing == X \ ToSet(InvariantSet)
  <2>1. /\ IsFunction(fn) /\ IsBody(body, Insts(fn)) /\ InvariantSet \in Seq(Insts(fn))
        /\ SetInv /\ FixInv /\ L.blocks \in Seq(DOMAIN body)
    BY LoopParts DEF IInv, TypeInv
  <2>2. \A i \in ToSet(InvariantSet) : i \in Instructions(L)
    BY <2>1 DEF SetInv
  <2>3. ASSUME NEW i \in ToSet(InvariantSet) PROVE i \in X
    <3>1. \A o \in ComputedFrom(fn, i) : fn.op[o] = "pure" /\ o \in Instructions(L)
      BY <2>2, ComputedFromSet
    <3> QED BY <2>2, <3>1
  <2>4. Instructions(L) \subseteq Insts(fn)
    <3> SUFFICES ASSUME NEW b \in ToSet(L.blocks) PROVE ToSet(body[b]) \subseteq Insts(fn)
      BY DEF Instructions
    <3>1. b \in DOMAIN body
      BY <2>1, SeqSet
    <3>2. body[b] \in Seq(Insts(fn))
      BY <2>1, <3>1 DEF IsBody
    <3> QED BY <3>2, SeqSet
  <2>5. Missing = {}
    <3> SUFFICES ASSUME Missing # {} PROVE FALSE
      OBVIOUS
    <3>1. Missing \in SUBSET Nat
      BY <2>1, <2>4 DEF IsFunction
    <3>2. PICK i \in Missing : \A j \in Missing : i <= j
      <4> HIDE DEF Missing
      <4> QED BY <3>1, LeastExists
    <3>3. i \in Insts(fn) /\ i \in Nat /\ i \in Instructions(L) /\ i \notin ToSet(InvariantSet)
      BY <2>4, <3>1, <3>2
    <3>4. \A o \in ComputedFrom(fn, i) : fn.op[o] = "pure" /\ o \in Instructions(L)
      BY <3>2
    <3>5. i \in ComputedFrom(fn, i)
      <4> DEFINE E == {e \in Insts(fn) \X Insts(fn) : e[2] \in fn.args[e[1]]}
      <4>1. i \in ReachedOver(Insts(fn), E, {i})
        <5> HIDE DEF E
        <5> QED BY <3>3, StartReached
      <4> QED BY <4>1 DEF ComputedFrom
    <3>6. ASSUME NEW o \in fn.args[i] PROVE o \in Instructions(L) /\ o \in ToSet(InvariantSet)
      <4>1. o \in Insts(fn) /\ o < i /\ o \in Nat
        <5>1. fn.op[i] = "pure"
          BY <3>4, <3>5
        <5> QED BY <2>1, <3>3, <5>1 DEF IsFunction
      <4>2. o \in ComputedFrom(fn, o) /\ ComputedFrom(fn, o) \subseteq ComputedFrom(fn, i)
        <5> DEFINE E == {e \in Insts(fn) \X Insts(fn) : e[2] \in fn.args[e[1]]}
        <5>1. o \in ReachedOver(Insts(fn), E, {o})
          <6> HIDE DEF E
          <6> QED BY <4>1, StartReached
        <5>2. o \in ComputedFrom(fn, o)
          BY <5>1 DEF ComputedFrom
        <5> QED BY <3>3, <4>1, <5>2, ComputedFromOperand
      <4>3. o \in X
        BY <3>4, <4>2
      <4>4. o \notin Missing
        BY <3>2, <3>3, <4>1
      <4> QED BY <4>3, <4>4
    <3>7. Addable(i)
      <4>1. \A o \in fn.args[i] : o \in Instructions(L) /\ Contains(InvariantSet, o)
        BY <2>1, <3>6, SeqSet
      <4>2. ~ Contains(InvariantSet, i)
        BY <2>1, <3>3, SeqSet
      <4> QED BY <3>4, <3>5, <4>1, <4>2 DEF Addable, AllOperandsInvariant
    <3> QED BY <2>1, <3>3, <3>7 DEF FixInv
  <2> QED BY <2>3, <2>5
<1> QED BY <1>1, Invariant, PTL

--------------------------------------------------------------------------------
(* The order of the operands, while the set is small. *)

\* The set is still an array, which is iterated in the order of insertion.
SmallSet == Len(InvariantSet) <= SmallSize

\* The first k instructions of the set have been hoisted, those that are safe.
HoistedUpTo(k) ==
    /\ Len(todo) = Len(InvariantSet) - k
    /\ \A n \in 1..Len(todo) : todo[n] = InvariantSet[n + k]
    /\ \A m \in 1..k : InvariantSet[m] \in fn.safe =>
          \E q \in Places(body, InvariantSet[m]) : q[1] = L.preheader

OrderInv ==
    /\ SafeOperandsFirst
    /\ pc = "hoist" => \E k \in 0..Len(InvariantSet) : HoistedUpTo(k)

\* A step of the pass that leaves the body as it is and does not hoist.
LEMMA OrderKept ==
    ASSUME OrderInv, UNCHANGED <<fn, body>>, pc' # "hoist"
    PROVE  OrderInv'
BY DEF OrderInv, SafeOperandsFirst

LEMMA StartHoistingOrder == IInv /\ OrderInv /\ SmallSet /\ StartHoisting => OrderInv'
<1> SUFFICES ASSUME IInv, OrderInv, SmallSet, StartHoisting PROVE OrderInv'
  OBVIOUS
<1>1. /\ UNCHANGED <<fn, body, loop, InvariantSet>> /\ todo' \in IterationOrders(InvariantSet)
  BY DEF StartHoisting
<1>2. todo' = InvariantSet
  BY <1>1 DEF SmallSet, IterationOrders
<1>3. Len(InvariantSet) \in Nat
  BY LenProperties DEF IInv, TypeInv
<1>4. HoistedUpTo(0)'
  <2>1. \A n \in 1..Len(InvariantSet) : n + 0 = n
    OBVIOUS
  <2>2. 1..0 = {}
    OBVIOUS
  <2> QED BY <1>1, <1>2, <1>3, <2>1, <2>2 DEF HoistedUpTo
<1>5. SafeOperandsFirst'
  BY <1>1 DEF OrderInv, SafeOperandsFirst
<1> QED BY <1>1, <1>3, <1>4, <1>5 DEF OrderInv

LEMMA HoistInstOrder == IInv /\ OrderInv /\ HoistInst => OrderInv'
<1> SUFFICES ASSUME IInv, OrderInv, HoistInst PROVE OrderInv'
  OBVIOUS
<1> DEFINE I == Head(todo)
<1>1. /\ UNCHANGED <<fn, loop, pc, InvariantSet>> /\ pc = "hoist" /\ todo # <<>>
      /\ todo' = Tail(todo)
      /\ I \notin fn.safe => UNCHANGED body
  BY DEF HoistInst
<1>2. /\ IsFunction(fn) /\ SetInv /\ InvariantSet \in Seq(Insts(fn)) /\ todo \in Seq(Insts(fn))
      /\ UNCHANGED L
  BY <1>1, LoopParts DEF IInv, TypeInv, L
<1>3. PICK k \in 0..Len(InvariantSet) : HoistedUpTo(k)
  BY <1>1 DEF OrderInv
<1>4. /\ Len(todo) \in Nat \ {0} /\ I = todo[1] /\ Len(InvariantSet) \in Nat
      /\ Tail(todo) \in Seq(Insts(fn)) /\ Len(Tail(todo)) = Len(todo) - 1
      /\ \A n \in 1..Len(todo) - 1 : Tail(todo)[n] = todo[n + 1]
  BY <1>1, <1>2, HeadTailProperties, EmptySeq, LenProperties
<1> HIDE DEF I
<1>5. k + 1 \in 1..Len(InvariantSet) /\ I = InvariantSet[k + 1] /\ k \in Nat
  <2>1. Len(todo) = Len(InvariantSet) - k /\ todo[1] = InvariantSet[1 + k]
    BY <1>3, <1>4 DEF HoistedUpTo
  <2>2. 1 + k = k + 1
    BY <1>3, <1>4
  <2> QED BY <1>3, <1>4, <2>1, <2>2
<1>6. /\ I \in Insts(fn) /\ fn.op[I] = "pure"
      /\ \A o \in fn.args[I] : \E m \in 1..Len(InvariantSet) : m < k + 1 /\ InvariantSet[m] = o
  BY <1>2, <1>5, ElementOfSeq DEF SetInv
<1>7. /\ Len(todo') = Len(InvariantSet) - (k + 1)
      /\ \A n \in 1..Len(todo') : todo'[n] = InvariantSet[n + (k + 1)]
  <2>1. Len(todo) = Len(InvariantSet) - k
    BY <1>3 DEF HoistedUpTo
  <2>2. ASSUME NEW n \in 1..Len(todo) - 1 PROVE Tail(todo)[n] = InvariantSet[n + (k + 1)]
    <3>1. n + 1 \in 1..Len(todo) /\ (n + 1) + k = n + (k + 1)
      BY <1>4, <1>5
    <3>2. todo[n + 1] = InvariantSet[(n + 1) + k]
      BY <1>3, <3>1 DEF HoistedUpTo
    <3> QED BY <1>4, <3>1, <3>2
  <2>3. Len(todo) - 1 = Len(InvariantSet) - (k + 1)
    BY <1>4, <1>5, <2>1
  <2> QED BY <1>1, <1>4, <2>2, <2>3
<1>8. \A m \in 1..k : InvariantSet[m] \in fn.safe =>
         \E q \in Places(body, InvariantSet[m]) : q[1] = L.preheader
  BY <1>3 DEF HoistedUpTo
<1>9. \A m \in 1..k + 1 : m \in 1..k \/ m = k + 1
  BY <1>5
<1>10. CASE I \notin fn.safe
  <2>1. HoistedUpTo(k + 1)'
    BY <1>1, <1>2, <1>5, <1>7, <1>8, <1>9, <1>10 DEF HoistedUpTo
  <2>2. SafeOperandsFirst'
    BY <1>1, <1>10 DEF OrderInv, SafeOperandsFirst
  <2> QED BY <1>1, <1>5, <2>1, <2>2 DEF OrderInv
<1>11. CASE I \in fn.safe
  <2> DEFINE h == L.preheader
             S == Insts(fn)
  <2>1. PICK p : /\ Movable(body, S, h, p, I) /\ h < p[1] /\ body' = Moved(body, h, p, I)
    BY <1>11, HoistMove DEF I
  <2>2. \A m \in 1..k : InvariantSet[m] \in S /\ InvariantSet[m] # I
    <3> SUFFICES ASSUME NEW m \in 1..k PROVE InvariantSet[m] \in S /\ InvariantSet[m] # I
      OBVIOUS
    <3>1. m \in 1..Len(InvariantSet) /\ m # k + 1
      BY <1>4, <1>5
    <3>2. Distinct(InvariantSet)
      BY <1>2 DEF SetInv
    <3> QED BY <1>2, <1>5, <3>1, <3>2, ElementOfSeq DEF Distinct
  <2> HIDE DEF h, S
  <2>3. ASSUME NEW m \in 1..k + 1, InvariantSet[m] \in fn.safe
        PROVE  \E q \in Places(body', InvariantSet[m]) : q[1] = h
    <3>1. CASE m \in 1..k
      <4>1. PICK q \in Places(body, InvariantSet[m]) : q[1] = h
        BY <1>8, <2>3, <3>1 DEF h
      <4> QED BY <2>1, <2>2, <3>1, <4>1, MovedStay
    <3>2. CASE m = k + 1
      <4>1. Places(body', I) = {<<h, Len(body[h]) + 1>>}
        BY <2>1, MovedSelf DEF Movable
      <4> QED BY <1>5, <3>2, <4>1
    <3> QED BY <1>9, <3>1, <3>2
  <2>4. HoistedUpTo(k + 1)'
    BY <1>1, <1>2, <1>7, <2>3 DEF HoistedUpTo, h
  <2>5. SafeOperandsFirst'
    <3> SUFFICES ASSUME NEW u \in S, fn.op[u] # "phi", NEW o \in fn.args[u],
                        fn.op[o] = "pure" => o \in fn.safe
                 PROVE  Precedes(body', o, u)
      BY <1>1 DEF SafeOperandsFirst, S
    <3>1. o \in S /\ o # u
      <4>1. fn.args[u] \in SUBSET S /\ o < u /\ u \in Nat /\ o \in Nat
        BY <1>2 DEF IsFunction, S
      <4> QED BY <4>1
    <3>2. Precedes(body, o, u)
      BY DEF OrderInv, SafeOperandsFirst, S
    <3>3. CASE o # I /\ u # I
      BY <2>1, <3>1, <3>2, <3>3, MovedPrecedes
    <3>4. CASE o = I
      BY <2>1, <3>1, <3>2, <3>4, MovedUp
    <3>5. CASE u = I
      <4>1. PICK m \in 1..Len(InvariantSet) : m < k + 1 /\ InvariantSet[m] = o
        BY <1>6, <3>5
      <4>2. m \in 1..k
        BY <1>4, <1>5, <4>1
      <4>3. o \in fn.safe
        <5>1. fn.op[o] = "pure"
          BY <1>2, <4>1 DEF SetInv
        <5> QED BY <5>1
      <4>4. PICK q \in Places(body, o) : q[1] = h
        BY <1>8, <4>1, <4>2, <4>3 DEF h
      <4> QED BY <2>1, <3>1, <3>5, <4>4, MovedAfter
    <3> QED BY <3>3, <3>4, <3>5
  <2> QED BY <1>1, <1>5, <2>4, <2>5 DEF OrderInv
<1> QED BY <1>10, <1>11

\* SafeOperandsFirst for every function, while no set outgrows its array: what the set was
\* given first is hoisted first, so an operand is in the preheader before its user.
THEOREM OperandsStayFirst == Spec /\ []SmallSet => []SafeOperandsFirst
<1>1. Init => OrderInv
  <2> SUFFICES ASSUME Init PROVE OrderInv
    OBVIOUS
  <2>1. IsFunction(fn) /\ body = fn.body /\ pc = "enter"
    BY DEF Init
  <2>2. SafeOperandsFirst
    BY <2>1 DEF IsFunction, SafeOperandsFirst
  <2> QED BY <2>1, <2>2 DEF OrderInv
<1>2. IInv /\ OrderInv /\ SmallSet /\ [Next]_vars => OrderInv'
  <2> SUFFICES ASSUME IInv, OrderInv, SmallSet, [Next]_vars PROVE OrderInv'
    OBVIOUS
  <2>1. CASE HoistInst
    BY <2>1, HoistInstOrder
  <2>2. CASE StartHoisting
    BY <2>2, StartHoistingOrder
  <2>3. CASE SkipLoop \/ ReturnFromLoop
    BY <2>3, OrderKept DEF SkipLoop, ReturnFromLoop, NextLoop
  <2>4. CASE EnterLoop
    BY <2>4, OrderKept DEF EnterLoop
  <2>5. CASE StartSweep \/ EndSweep
    BY <2>5, OrderKept DEF StartSweep, EndSweep
  <2>6. CASE ScanInst \/ NextBlock
    BY <2>6, OrderKept DEF ScanInst, NextBlock
  <2>7. CASE UNCHANGED vars
    BY <2>7 DEF vars, OrderInv, SafeOperandsFirst, HoistedUpTo, L
  <2>8. CASE Done
    BY <2>7, <2>8 DEF Done
  <2> QED BY <2>1, <2>2, <2>3, <2>4, <2>5, <2>6, <2>7, <2>8 DEF Next
<1>3. OrderInv => SafeOperandsFirst
  BY DEF OrderInv
<1> QED BY <1>1, <1>2, <1>3, Invariant, PTL DEF Spec
================================================================================
