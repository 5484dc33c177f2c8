--------------------------- MODULE Arithmetic_proofs ---------------------------
(***************************************************************************)
(* What MBAAdd and MBASub do to the values of instructions, for integers   *)
(* of every width, any function, any arguments and any sequence of the     *)
(* two passes, and what ConvertFCmpEq does to the outcomes of comparisons, *)
(* for functions of any size, any operands and any number of runs.         *)
(***************************************************************************)
EXTENDS Arithmetic, SequenceTheorems, WellFoundedInduction, TLAPS

--------------------------------------------------------------------------------
(* Numbers. *)

\* A set of natural numbers that is not empty has a least element.
LEMMA LeastExists ==
    ASSUME NEW S \in SUBSET Nat, S # {}
    PROVE  \E i \in S : \A j \in S : i <= j
<1> DEFINE R == OpToRel(<, Nat)
<1>1. IsWellFoundedOn(R, Nat)
  BY NatLessThanWellFounded
<1>2. PICK i \in S : \A j \in S : <<j, i>> \notin R
  <2> HIDE DEF R
  <2> QED BY <1>1, WFMin
<1>3. \A j \in S : ~ (j < i)
  BY <1>2 DEF OpToRel
<1> QED BY <1>3

\* A number that is out of range by less than the modulus, which is added or taken away.
LEMMA Wrapped ==
    ASSUME NEW m \in Nat \ {0}, NEW x \in Int
    PROVE  /\ x % m \in 0..(m - 1)
           /\ x \in 0..(m - 1) => x % m = x
           /\ x \in m..(2 * m - 1) => x % m = x - m
           /\ x \in (-m)..(-1) => x % m = x + m
<1> DEFINE q == x \div m
           r == x % m
           p == m * q
<1>1. q \in Int /\ r \in 0..(m - 1) /\ p \in Int
  <2>1. q \in Int /\ r \in 0..(m - 1)
    OBVIOUS
  <2> HIDE DEF q, r
  <2> QED BY <2>1
<1>2. x = p + r
  <2>1. r = x - p
    OBVIOUS
  <2> HIDE DEF p, r
  <2> QED BY <1>1, <2>1
<1>3. /\ q = 0 => p = 0
      /\ q >= 1 => p >= m
      /\ q >= 2 => p >= 2 * m
      /\ q <= -1 => p <= -m
      /\ q <= -2 => p <= -(2 * m)
      /\ q = 1 => p = m
      /\ q = -1 => p = -m
  <2> HIDE DEF q
  <2>1. /\ q >= 1 => m * (q - 1) >= 0
        /\ q >= 2 => m * (q - 2) >= 0
        /\ q <= -1 => m * (-1 - q) >= 0
        /\ q <= -2 => m * (-2 - q) >= 0
    BY <1>1
  <2>2. /\ m * (q - 1) = p - m /\ m * (q - 2) = p - 2 * m
        /\ m * (-1 - q) = -m - p /\ m * (-2 - q) = -(2 * m) - p
    BY <1>1
  <2>3. (q = 0 => p = 0) /\ (q = 1 => p = m) /\ (q = -1 => p = -m)
    BY <1>1
  <2> HIDE DEF p
  <2> QED BY <1>1, <2>1, <2>2, <2>3
<1>4. q = 0 \/ q = 1 \/ q = -1 \/ q >= 2 \/ q <= -2
  <2> HIDE DEF q
  <2> QED BY <1>1
<1> HIDE DEF q, p, r
<1>5. r = x % m
  BY DEF r
<1>6. /\ r \in 0..(m - 1)
      /\ x \in 0..(m - 1) => r = x
      /\ x \in m..(2 * m - 1) => r = x - m
      /\ x \in (-m)..(-1) => r = x + m
  BY <1>1, <1>2, <1>3, <1>4
<1> QED BY <1>5, <1>6

\* The difference, as MBASub computes it.
LEMMA Difference ==
    ASSUME NEW m \in Nat \ {0, 1}, NEW l \in 0..(m - 1), NEW r \in 0..(m - 1)
    PROVE  (((l + ((m - 1) - r)) % m) + 1) % m = (l - r) % m
<1> DEFINE d == l - r
           z == l + ((m - 1) - r)
<1>1. d \in Int /\ z = d + m - 1 /\ z \in Int /\ -m < d /\ d < m /\ m \in Nat \ {0}
  OBVIOUS
<1>2. \A x \in Int : /\ x \in 0..(m - 1) => x % m = x
                     /\ x \in m..(2 * m - 1) => x % m = x - m
                     /\ x \in (-m)..(-1) => x % m = x + m
  BY Wrapped
<1> HIDE DEF d, z
<1>3. CASE d >= 1
  <2>1. z \in m..(2 * m - 1) /\ d \in 0..(m - 1) /\ z - m = d - 1
    BY <1>1, <1>3
  <2>2. z % m = d - 1 /\ d % m = d
    BY ONLY <1>1, <1>2, <2>1
  <2>3. (d - 1) + 1 = d
    BY <1>1
  <2> QED BY ONLY <2>2, <2>3 DEF d, z
<1>4. CASE d = 0
  <2>1. z = m - 1 /\ z \in 0..(m - 1) /\ z + 1 = m /\ m \in m..(2 * m - 1) /\ m - m = 0 /\ 0 \in 0..(m - 1) /\ m \in Int /\ 0 \in Int
    BY <1>1, <1>4
  <2>2. z % m = z /\ (z + 1) % m = 0 /\ 0 % m = 0
    BY ONLY <1>1, <1>2, <2>1
  <2> QED BY ONLY <1>4, <2>2 DEF d, z
<1>5. CASE d <= -1
  <2>1. /\ z \in 0..(m - 1) /\ d \in (-m)..(-1) /\ z + 1 = d + m
        /\ d + m \in 0..(m - 1) /\ d + m \in Int
    BY <1>1, <1>5
  <2>2. z % m = z /\ d % m = d + m /\ (d + m) % m = d + m
    BY ONLY <1>1, <1>2, <2>1
  <2> QED BY ONLY <2>1, <2>2 DEF d, z
<1>6. d >= 1 \/ d = 0 \/ d <= -1
  BY <1>1
<1> QED BY ONLY <1>3, <1>4, <1>5, <1>6 DEF d, z

--------------------------------------------------------------------------------
(* The values of instructions. *)

Modulus == 2^intFn.width
Numbers == 0..(Modulus - 1)
Ops == {"add", "sub", "mul", "xor", "and", "shl"}

\* What the assumption on widths says of the width at hand.
LEMMA ModulusFacts ==
    ASSUME intFn.width \in Widths
    PROVE  /\ Modulus \in Nat \ {0, 1}
           /\ intFn.width = 8 => Modulus = 256
           /\ \A x, y \in Numbers : /\ BitXor(x, y) \in Numbers /\ BitAnd(x, y) \in Numbers
                                    /\ BitXor(x, y) + 2 * BitAnd(x, y) = x + y
                                    /\ y = Modulus - 1 => BitXor(x, y) = y - x
BY WidthsAssumption DEF M!BitOperations, Modulus, Numbers

\* The operations stay within the numbers of that width.
LEMMA ApplyType ==
    ASSUME intFn.width \in Widths, NEW op \in Ops, NEW x \in Numbers, NEW y \in Numbers
    PROVE  M!Apply(op, x, y, Modulus) \in Numbers
<1>1. x \in Int /\ y \in Int /\ Modulus \in Nat \ {0}
  BY ModulusFacts DEF Numbers
<1>2. x + y \in Int /\ x - y \in Int /\ x * y \in Int /\ x * 2 \in Int
  BY <1>1
<1>3. /\ (x + y) % Modulus \in Numbers /\ (x - y) % Modulus \in Numbers
      /\ (x * y) % Modulus \in Numbers /\ (x * 2) % Modulus \in Numbers
  BY ONLY <1>1, <1>2, Wrapped, Zenon DEF Numbers
<1>4. BitXor(x, y) \in Numbers /\ BitAnd(x, y) \in Numbers
  BY ModulusFacts
<1> HIDE DEF Numbers, Modulus
<1> QED BY <1>3, <1>4 DEF M!Apply, Ops

\* An operand is a constant, an argument or the value of an earlier instruction.
Known(o, code, p) ==
    \/ o[1] = "const" /\ o[2] \in Numbers
    \/ o[1] = "val" /\ (o[2] \in {1, 2} \/ \E q \in 1..(p - 1) : o[2] = code[q].id)

\* The parts of a function's code, and what its operands are.
LEMMA CodeFacts ==
    ASSUME NEW code, M!IsCode(code, intFn.width)
    PROVE  /\ Len(code) \in Nat /\ DOMAIN code = 1..Len(code)
           /\ \A p \in DOMAIN code :
                 /\ code[p].id \in Nat \ (0..2) /\ code[p].op \in Ops
                 /\ Known(code[p].l, code, p) /\ Known(code[p].r, code, p)
           /\ \A p, q \in DOMAIN code : code[p].id = code[q].id => p = q
<1> DEFINE Operand == ({"const"} \X Numbers) \cup ({"val"} \X Nat)
           R == [id : Nat \ (0..2), op : Ops, l : Operand, r : Operand]
<1>1. /\ code \in Seq(R)
      /\ \A p, q \in DOMAIN code : code[p].id = code[q].id => p = q
      /\ \A p \in DOMAIN code : \A o \in {code[p].l, code[p].r} :
            o[1] = "val" => o[2] \in {1, 2} \/ \E q \in 1..(p - 1) : code[q].id = o[2]
  BY DEF M!IsCode, Numbers, Modulus, Ops
<1> HIDE DEF R
<1>2. Len(code) \in Nat /\ DOMAIN code = 1..Len(code) /\ \A p \in DOMAIN code : code[p] \in R
  BY <1>1
<1>3. \A p \in DOMAIN code : code[p].id \in Nat \ (0..2) /\ code[p].op \in Ops
                             /\ code[p].l \in Operand /\ code[p].r \in Operand
  BY <1>2 DEF R
<1>4. ASSUME NEW p \in DOMAIN code, NEW o \in {code[p].l, code[p].r}
      PROVE  Known(o, code, p)
  <2>1. \/ o[1] = "const" /\ o[2] \in Numbers
        \/ o[1] = "val"
    BY <1>3, <1>4
  <2>2. o[1] = "val" => o[2] \in {1, 2} \/ \E q \in 1..(p - 1) : code[q].id = o[2]
    BY <1>1, <1>4
  <2> QED BY <2>1, <2>2 DEF Known
<1> QED BY <1>1, <1>2, <1>3, <1>4

Start(a) == <<a[1] % Modulus, a[2] % Modulus>>
IsFirst(g, code, a, N) ==
    g = [n \in 0..N |-> IF n = 0 THEN Start(a) ELSE M!With(g[n - 1], code[n], Modulus)]

\* There is a function that has the values of the first n instructions, for each n.
LEMMA FirstExists ==
    ASSUME NEW code, NEW a, NEW N \in Nat
    PROVE  \E g : IsFirst(g, code, a, N)
<1> DEFINE Ok(g, n) == IsFirst(g, code, a, n)
           Bad == {n \in Nat : ~ \E g : Ok(g, n)}
<1>1. CASE Bad = {}
  BY <1>1
<1>2. CASE Bad # {}
  <2>1. Bad \in SUBSET Nat
    OBVIOUS
  <2>2. PICK n \in Bad : \A k \in Bad : n <= k
    <3> HIDE DEF Bad
    <3> QED BY <1>2, <2>1, LeastExists
  <2>3. n \in Nat /\ ~ \E g : Ok(g, n)
    BY <2>2
  <2>4. n # 0
    <3> DEFINE g == [k \in 0..0 |-> Start(a)]
    <3>1. Ok(g, 0)
      BY DEF IsFirst
    <3> QED BY <2>3, <3>1
  <2>5. n - 1 \in Nat /\ n - 1 \notin Bad
    <3>1. n - 1 \in Nat /\ ~ (n <= n - 1)
      BY <2>3, <2>4
    <3> HIDE DEF Bad
    <3> QED BY <2>2, <3>1
  <2>6. PICK g : Ok(g, n - 1)
    BY <2>5
  <2> DEFINE h == [k \in 0..n |-> IF k = 0 THEN Start(a) ELSE M!With(g[k - 1], code[k], Modulus)]
  <2>7. \A k \in 0..(n - 1) : h[k] = g[k]
    <3>1. \A k \in 0..(n - 1) : k \in 0..n
      BY <2>3
    <3>2. \A k \in 0..(n - 1) : g[k] = IF k = 0 THEN Start(a) ELSE M!With(g[k - 1], code[k], Modulus)
      BY <2>6 DEF IsFirst
    <3> QED BY <3>1, <3>2
  <2>8. \A k \in 0..n : k # 0 => k - 1 \in 0..(n - 1)
    BY <2>3
  <2>9. \A k \in 0..n : h[k] = IF k = 0 THEN Start(a) ELSE M!With(h[k - 1], code[k], Modulus)
    <3> SUFFICES ASSUME NEW k \in 0..n
                 PROVE  h[k] = IF k = 0 THEN Start(a) ELSE M!With(h[k - 1], code[k], Modulus)
      OBVIOUS
    <3>1. h[k] = IF k = 0 THEN Start(a) ELSE M!With(g[k - 1], code[k], Modulus)
      OBVIOUS
    <3>2. k # 0 => h[k - 1] = g[k - 1]
      BY <2>7, <2>8
    <3> HIDE DEF h
    <3> QED BY <3>1, <3>2
  <2>10. h = [k \in 0..n |-> h[k]]
    OBVIOUS
  <2>11. Ok(h, n)
    <3> HIDE DEF h
    <3> QED BY <2>9, <2>10 DEF IsFirst
  <2> QED BY <2>3, <2>11
<1> QED BY <1>1, <1>2

\* It is what Values goes through.
AllFirst(First, code, a) ==
    /\ M!Values(code, a) = First[Len(code)]
    /\ First[0] = Start(a)
    /\ \A n \in 1..Len(code) : First[n] = M!With(First[n - 1], code[n], Modulus)

LEMMA FirstFacts ==
    ASSUME NEW code, NEW a, Len(code) \in Nat
    PROVE  \E First : AllFirst(First, code, a)
<1> DEFINE N == Len(code)
           First == CHOOSE g : g = [n \in 0..N |-> IF n = 0 THEN Start(a) ELSE M!With(g[n - 1], code[n], Modulus)]
<1>1. M!Values(code, a) = First[N]
  BY Zenon DEF M!Values, Modulus, Start
<1> HIDE DEF N
<1>2. First = [n \in 0..N |-> IF n = 0 THEN Start(a) ELSE M!With(First[n - 1], code[n], Modulus)]
  <2>1. N \in Nat
    BY DEF N
  <2>2. \E g : IsFirst(g, code, a, N)
    BY <2>1, FirstExists
  <2> QED BY <2>2, Zenon DEF IsFirst
<1> HIDE DEF First
<1>3. First[0] = Start(a) /\ \A n \in 1..N : First[n] = M!With(First[n - 1], code[n], Modulus)
  <2>1. N \in Nat
    BY DEF N
  <2>2. 0 \in 0..N /\ \A n \in 1..N : n \in 0..N /\ n # 0
    BY <2>1
  <2> QED BY <1>2, <2>2
<1> QED BY <1>1, <1>3 DEF AllFirst, N

\* env has the values that the arguments a give the first n instructions of code.
Agrees(env, code, a, n) ==
    /\ env[1] = a[1] % Modulus /\ env[2] = a[2] % Modulus
    /\ \A p \in 1..n :
          env[code[p].id] = M!Apply(code[p].op, M!Of(code[p].l, env), M!Of(code[p].r, env), Modulus)

\* What an operand stands for depends on the arguments and the instructions before only.
LEMMA OperandKept ==
    ASSUME NEW env, NEW new, NEW code, NEW p, NEW o, Known(o, code, p),
           new[1] = env[1], new[2] = env[2], \A q \in 1..(p - 1) : new[code[q].id] = env[code[q].id]
    PROVE  M!Of(o, new) = M!Of(o, env)
BY DEF Known, M!Of

\* The value of an operand is a number if those of the instructions before are.
LEMMA OperandType ==
    ASSUME NEW env, NEW code, NEW p, NEW o, Known(o, code, p),
           env[1] \in Numbers, env[2] \in Numbers, \A q \in 1..(p - 1) : env[code[q].id] \in Numbers
    PROVE  M!Of(o, env) \in Numbers
<1> HIDE DEF Numbers
<1> QED BY DEF Known, M!Of

\* Values has the values of all instructions.
LEMMA ValuesFacts ==
    ASSUME intFn.width \in Widths, NEW code, M!IsCode(code, intFn.width), NEW a \in Int \X Int
    PROVE  LET V == M!Values(code, a)
           IN  /\ DOMAIN V = {1, 2} \cup {code[q].id : q \in DOMAIN code}
               /\ \A id \in DOMAIN V : V[id] \in Numbers
               /\ Agrees(V, code, a, Len(code))
<1> DEFINE N == Len(code)
<1>1. PICK First : AllFirst(First, code, a)
  BY CodeFacts, FirstFacts
<1>2. /\ N \in Nat /\ DOMAIN code = 1..N
      /\ \A p \in 1..N :
            /\ code[p].id \in Nat \ (0..2) /\ code[p].op \in Ops
            /\ Known(code[p].l, code, p) /\ Known(code[p].r, code, p)
      /\ \A p, q \in 1..N : code[p].id = code[q].id => p = q
  <2> HIDE DEF Known, Ops
  <2> QED BY CodeFacts
<1> HIDE DEF N
<1> DEFINE Good(n) ==
               /\ DOMAIN First[n] = {1, 2} \cup {code[q].id : q \in 1..n}
               /\ \A id \in DOMAIN First[n] : First[n][id] \in Numbers
               /\ Agrees(First[n], code, a, n)
           Bad == {n \in 0..N : ~ Good(n)}
<1>3. Good(0)
  <2>1. a[1] % Modulus \in Numbers /\ a[2] % Modulus \in Numbers
    <3>1. a[1] \in Int /\ a[2] \in Int /\ Modulus \in Nat \ {0}
      BY ModulusFacts
    <3> QED BY ONLY <3>1, Wrapped DEF Numbers
  <2>2. DOMAIN First[0] = {1, 2} /\ First[0][1] = a[1] % Modulus /\ First[0][2] = a[2] % Modulus
    BY <1>1 DEF AllFirst, Start
  <2>3. 1..0 = {}
    OBVIOUS
  <2> HIDE DEF Numbers, Modulus
  <2> QED BY <2>1, <2>2, <2>3 DEF Agrees
<1>4. ASSUME NEW n \in 1..N, Good(n - 1) PROVE Good(n)
  <2> DEFINE env == First[n - 1]
             new == First[n]
             I == code[n]
             v == M!Apply(I.op, M!Of(I.l, env), M!Of(I.r, env), Modulus)
  <2>1. /\ n - 1 \in Nat /\ \A q \in 1..(n - 1) : q \in 1..N /\ q \in 1..n /\ q # n
        /\ \A q \in 1..n : q = n \/ q \in 1..(n - 1)
        /\ n \in 1..n
    BY <1>2
  <2>2. /\ DOMAIN env = {1, 2} \cup {code[q].id : q \in 1..(n - 1)}
        /\ \A id \in DOMAIN env : env[id] \in Numbers
        /\ Agrees(env, code, a, n - 1)
    BY <1>4
  <2>3. I.id \notin DOMAIN env
    BY <1>2, <2>1, <2>2
  <2>4. new = [id \in DOMAIN env \cup {I.id} |-> IF id = I.id THEN v ELSE env[id]]
    BY <1>1 DEF AllFirst, M!With, N
  <2> HIDE DEF env, new, Numbers, Modulus, Known, Ops
  <2>5. /\ DOMAIN new = DOMAIN env \cup {I.id} /\ new[I.id] = v
        /\ \A id \in DOMAIN env : new[id] = env[id]
    <3> HIDE DEF v, I
    <3> QED BY <2>3, <2>4
  <2>6. DOMAIN new = {1, 2} \cup {code[q].id : q \in 1..n}
    BY <2>1, <2>2, <2>5
  <2>7. \A q \in 1..(n - 1) : code[q].id \in DOMAIN env
    BY <2>2
  <2>8. ASSUME NEW p \in 1..n, NEW o \in {code[p].l, code[p].r}
        PROVE  M!Of(o, new) = M!Of(o, env)
    <3>1. Known(o, code, p)
      BY <1>2, <2>1, <2>8
    <3>2. \A q \in 1..(p - 1) : q \in 1..(n - 1)
      BY <2>8
    <3>3. /\ new[1] = env[1] /\ new[2] = env[2]
          /\ \A q \in 1..(p - 1) : new[code[q].id] = env[code[q].id]
      BY <2>2, <2>5, <2>7, <3>2
    <3> QED BY <3>1, <3>3, OperandKept
  <2>9. v \in Numbers
    <3>1. \A o \in {I.l, I.r} : M!Of(o, env) \in Numbers
      <4> SUFFICES ASSUME NEW o \in {I.l, I.r} PROVE M!Of(o, env) \in Numbers
        OBVIOUS
      <4>1. Known(o, code, n)
        BY <1>2
      <4>2. env[1] \in Numbers /\ env[2] \in Numbers /\ \A q \in 1..(n - 1) : env[code[q].id] \in Numbers
        BY <2>2, <2>7
      <4> QED BY <4>1, <4>2, OperandType
    <3> QED BY <1>2, <3>1, ApplyType
  <2>10. \A id \in DOMAIN new : new[id] \in Numbers
    <3> HIDE DEF v, I
    <3> QED BY <2>2, <2>5, <2>9
  <2>11. Agrees(new, code, a, n)
    <3>1. new[1] = a[1] % Modulus /\ new[2] = a[2] % Modulus
      BY <2>2, <2>5 DEF Agrees
    <3>2. ASSUME NEW p \in 1..n
          PROVE  new[code[p].id] = M!Apply(code[p].op, M!Of(code[p].l, new), M!Of(code[p].r, new), Modulus)
      <4>1. M!Of(code[p].l, new) = M!Of(code[p].l, env) /\ M!Of(code[p].r, new) = M!Of(code[p].r, env)
        BY <2>8
      <4>2. CASE p = n
        BY <2>5, <4>1, <4>2
      <4>3. CASE p \in 1..(n - 1)
        <5>1. env[code[p].id] = M!Apply(code[p].op, M!Of(code[p].l, env), M!Of(code[p].r, env), Modulus)
          BY <2>2, <4>3 DEF Agrees
        <5> QED BY <2>5, <2>7, <4>1, <4>3, <5>1
      <4> QED BY <2>1, <4>2, <4>3
    <3> QED BY <3>1, <3>2 DEF Agrees
  <2> QED BY <2>6, <2>10, <2>11 DEF new
<1> HIDE DEF Good
<1>5. CASE Bad = {}
  <2>1. Good(N)
    BY <1>2, <1>5
  <2> QED BY <1>1, <1>2, <2>1 DEF AllFirst, Good, N
<1>6. CASE Bad # {}
  <2>1. Bad \in SUBSET Nat
    BY <1>2
  <2>2. PICK n \in Bad : \A k \in Bad : n <= k
    <3> HIDE DEF Bad
    <3> QED BY <1>6, <2>1, LeastExists
  <2>3. n \in 0..N /\ ~ Good(n)
    BY <2>2
  <2>4. n # 0
    BY <1>3, <2>3
  <2>5. n \in 1..N /\ n - 1 \in 0..N /\ ~ (n <= n - 1)
    BY <1>2, <2>3, <2>4
  <2>6. Good(n - 1)
    BY <2>2, <2>5
  <2> QED BY <1>4, <2>3, <2>5, <2>6
<1> QED BY <1>5, <1>6

\* There is one value only for each instruction.
LEMMA ValuesUnique ==
    ASSUME NEW code, M!IsCode(code, intFn.width), NEW a, NEW env, NEW new,
           Agrees(env, code, a, Len(code)), Agrees(new, code, a, Len(code)), NEW p \in DOMAIN code
    PROVE  new[code[p].id] = env[code[p].id]
<1> DEFINE N == Len(code)
           Bad == {n \in 1..N : new[code[n].id] # env[code[n].id]}
<1>1. /\ N \in Nat /\ DOMAIN code = 1..N
      /\ \A n \in 1..N : Known(code[n].l, code, n) /\ Known(code[n].r, code, n)
  <2> HIDE DEF Known
  <2> QED BY CodeFacts
<1>2. CASE Bad = {}
  BY <1>1, <1>2
<1>3. CASE Bad # {}
  <2>1. Bad \in SUBSET Nat
    BY <1>1
  <2>2. PICK n \in Bad : \A k \in Bad : n <= k
    <3> HIDE DEF Bad
    <3> QED BY <1>3, <2>1, LeastExists
  <2>3. n \in 1..N /\ new[code[n].id] # env[code[n].id]
    BY <2>2
  <2>4. \A q \in 1..(n - 1) : new[code[q].id] = env[code[q].id]
    <3>1. \A q \in 1..(n - 1) : q \in 1..N /\ ~ (n <= q)
      BY <1>1, <2>3
    <3> QED BY <2>2, <3>1
  <2>5. new[1] = env[1] /\ new[2] = env[2]
    BY DEF Agrees
  <2>6. /\ M!Of(code[n].l, new) = M!Of(code[n].l, env)
        /\ M!Of(code[n].r, new) = M!Of(code[n].r, env)
    BY <1>1, <2>3, <2>4, <2>5, OperandKept
  <2>7. new[code[n].id] = env[code[n].id]
    BY <2>3, <2>6 DEF Agrees
  <2> QED BY <2>3, <2>7
<1> QED BY <1>2, <1>3

--------------------------------------------------------------------------------
(* One substitution. *)

\* Of finitely many numbers one is the greatest.
LEMMA GreatestExists ==
    ASSUME NEW N \in Nat \ {0}, NEW f, \A p \in 1..N : f[p] \in Nat
    PROVE  \E q \in 1..N : \A p \in 1..N : f[p] <= f[q]
<1> DEFINE Good(n) == \E q \in 1..n : \A p \in 1..n : f[p] <= f[q]
           Bad == {n \in 1..N : ~ Good(n)}
<1>1. CASE Bad = {}
  <2>1. N \in 1..N
    OBVIOUS
  <2> QED BY <1>1, <2>1
<1>2. CASE Bad # {}
  <2>1. Bad \in SUBSET Nat
    OBVIOUS
  <2>2. PICK n \in Bad : \A k \in Bad : n <= k
    <3> HIDE DEF Bad
    <3> QED BY <1>2, <2>1, LeastExists
  <2>3. n \in 1..N /\ ~ Good(n)
    BY <2>2
  <2>4. n # 1
    <3>1. f[1] \in Nat
      OBVIOUS
    <3>2. 1..1 = {1} /\ f[1] <= f[1]
      BY <3>1
    <3>3. Good(1)
      BY <3>2
    <3> QED BY <2>3, <3>3
  <2>5. /\ n - 1 \in 1..N /\ ~ (n <= n - 1) /\ n \in 1..n
        /\ \A p \in 1..n : p = n \/ p \in 1..(n - 1)
        /\ \A p \in 1..(n - 1) : p \in 1..n
        /\ \A p \in 1..n : p \in 1..N
    BY <2>3, <2>4
  <2>6. Good(n - 1)
    <3> HIDE DEF Good
    <3> QED BY <2>2, <2>5
  <2>7. PICK q \in 1..(n - 1) : \A p \in 1..(n - 1) : f[p] <= f[q]
    BY <2>6
  <2>8. f[q] \in Nat /\ f[n] \in Nat /\ \A p \in 1..n : f[p] \in Nat
    BY <2>5
  <2>9. CASE f[n] <= f[q]
    <3>1. \A p \in 1..n : f[p] <= f[q]
      BY <2>5, <2>7, <2>9
    <3> QED BY <2>3, <2>5, <3>1
  <2>10. CASE f[q] <= f[n]
    <3>1. \A p \in 1..(n - 1) : f[p] <= f[n]
      BY <2>5, <2>7, <2>8, <2>10
    <3>2. \A p \in 1..n : f[p] <= f[n]
      BY <2>5, <2>8, <3>1
    <3> QED BY <2>3, <2>5, <3>2
  <2> QED BY <2>8, <2>9, <2>10
<1> QED BY <1>1, <1>2

\* The id for the next instruction is above all there are.
LEMMA FreshFacts ==
    ASSUME M!IsCode(insts, intFn.width), 1 \in DOMAIN insts
    PROVE  M!Fresh \in Nat \ (0..2) /\ \A p \in DOMAIN insts : insts[p].id < M!Fresh
<1> DEFINE N == Len(insts)
           S == {I.id : I \in M!ToSet(insts)}
           f == [p \in 1..N |-> insts[p].id]
<1>1. /\ N \in Nat /\ DOMAIN insts = 1..N
      /\ \A p \in 1..N : insts[p].id \in Nat \ (0..2)
  BY CodeFacts
<1>2. S = {insts[p].id : p \in 1..N}
  BY <1>1 DEF M!ToSet
<1>3. S = {f[p] : p \in 1..N} /\ \A p \in 1..N : f[p] = insts[p].id /\ f[p] \in Nat \ (0..2)
  BY <1>1, <1>2
<1>4. N \in Nat \ {0}
  BY <1>1
<1> HIDE DEF f, N, S
<1>5. PICK q \in 1..N : \A p \in 1..N : f[p] <= f[q]
  BY <1>3, <1>4, GreatestExists
<1>6. M!Max(S) \in S /\ \A x \in S : M!Max(S) >= x
  <2>1. f[q] \in S /\ \A x \in S : f[q] >= x
    BY <1>3, <1>5
  <2> QED BY <2>1 DEF M!Max
<1>7. PICK p \in 1..N : M!Max(S) = f[p]
  BY <1>3, <1>6
<1>8. M!Fresh = f[p] + 1
  BY <1>7 DEF M!Fresh, S
<1>9. \A k \in 1..N : f[p] >= f[k]
  BY <1>3, <1>6, <1>7
<1>10. f[p] \in Nat \ (0..2)
  BY <1>3
<1>11. f[p] + 1 \in Nat \ (0..2) /\ \A k \in 1..N : f[k] < f[p] + 1
  BY <1>3, <1>9, <1>10
<1> QED BY <1>1, <1>3, <1>8, <1>11

\* code with new in the place of the instruction at p.
Splice(code, p, new) == SubSeq(code, 1, p - 1) \o new \o SubSeq(code, p + 1, Len(code))

\* The instructions after some have taken the place of one.
LEMMA Spliced ==
    ASSUME NEW R, NEW code \in Seq(R), NEW new \in Seq(R), new # <<>>, NEW p \in DOMAIN code
    PROVE  /\ Splice(code, p, new) \in Seq(R)
           /\ Len(Splice(code, p, new)) = Len(code) + Len(new) - 1 /\ Len(new) \in Nat \ {0}
           /\ \A q \in 1..(p - 1) : Splice(code, p, new)[q] = code[q]
           /\ \A k \in 1..Len(new) : Splice(code, p, new)[p + k - 1] = new[k]
           /\ \A q \in (p + 1)..Len(code) : Splice(code, p, new)[q + Len(new) - 1] = code[q]
<1> DEFINE K == Len(new)
           N == Len(code)
           A == SubSeq(code, 1, p - 1)
           B == SubSeq(code, p + 1, N)
           C == A \o new
<1>1. N \in Nat /\ K \in Nat \ {0} /\ p \in 1..N /\ \A q \in 1..N : code[q] \in R
  BY EmptySeq, LenProperties
<1>2. /\ A \in Seq(R) /\ Len(A) = p - 1 /\ \A q \in 1..(p - 1) : A[q] = code[q]
  <2>1. 1 \in Int /\ p - 1 \in Int /\ \A q \in 1..(p - 1) : code[q] \in R
    BY <1>1
  <2>2. /\ A \in Seq(R) /\ Len(A) = IF 1 <= p - 1 THEN (p - 1) - 1 + 1 ELSE 0
        /\ \A q \in 1..((p - 1) - 1 + 1) : A[q] = code[1 + q - 1]
    BY <2>1, SubSeqProperties
  <2> HIDE DEF A
  <2>3. /\ (IF 1 <= p - 1 THEN (p - 1) - 1 + 1 ELSE 0) = p - 1
        /\ (p - 1) - 1 + 1 = p - 1 /\ \A q \in 1..(p - 1) : 1 + q - 1 = q
    BY <1>1
  <2> QED BY <2>2, <2>3
<1>3. /\ B \in Seq(R) /\ Len(B) = N - p /\ \A q \in 1..(N - p) : B[q] = code[p + q]
  <2>1. p + 1 \in Int /\ N \in Int /\ \A q \in (p + 1)..N : code[q] \in R
    BY <1>1
  <2> HIDE DEF N
  <2>2. /\ B \in Seq(R) /\ Len(B) = IF p + 1 <= N THEN N - (p + 1) + 1 ELSE 0
        /\ \A q \in 1..(N - (p + 1) + 1) : B[q] = code[p + 1 + q - 1]
    BY <2>1, SubSeqProperties
  <2> HIDE DEF B
  <2>3. /\ (IF p + 1 <= N THEN N - (p + 1) + 1 ELSE 0) = N - p
        /\ N - (p + 1) + 1 = N - p /\ \A q \in 1..(N - p) : p + 1 + q - 1 = p + q
    BY <1>1
  <2> QED BY <2>2, <2>3
<1>4. Len(new) = K
  OBVIOUS
<1> HIDE DEF A, B, K, N
<1>5. /\ C \in Seq(R) /\ Len(C) = p - 1 + K
      /\ \A q \in 1..(p - 1 + K) : C[q] = IF q <= p - 1 THEN A[q] ELSE new[q - (p - 1)]
  <2>1. /\ C \in Seq(R) /\ Len(C) = Len(A) + Len(new)
        /\ \A q \in 1..(Len(A) + Len(new)) : C[q] = IF q <= Len(A) THEN A[q] ELSE new[q - Len(A)]
    BY <1>2, ConcatProperties
  <2> QED BY ONLY <1>2, <1>4, <2>1
<1> HIDE DEF C
<1>6. /\ C \o B \in Seq(R) /\ Len(C \o B) = (p - 1 + K) + (N - p)
      /\ \A q \in 1..((p - 1 + K) + (N - p)) :
            (C \o B)[q] = IF q <= p - 1 + K THEN C[q] ELSE B[q - (p - 1 + K)]
  <2>1. /\ C \o B \in Seq(R) /\ Len(C \o B) = Len(C) + Len(B)
        /\ \A q \in 1..(Len(C) + Len(B)) : (C \o B)[q] = IF q <= Len(C) THEN C[q] ELSE B[q - Len(C)]
    BY <1>3, <1>5, ConcatProperties
  <2> QED BY ONLY <1>3, <1>5, <2>1
<1> DEFINE D == C \o B
<1>7. /\ D \in Seq(R) /\ Len(D) = N + K - 1
      /\ \A q \in 1..(N + K - 1) : D[q] = IF q <= p - 1 + K THEN C[q] ELSE B[q - (p - 1 + K)]
  <2>1. (p - 1 + K) + (N - p) = N + K - 1
    BY <1>1
  <2> QED BY <1>6, <2>1
<1> HIDE DEF D
<1>8. ASSUME NEW q \in 1..(p - 1) PROVE D[q] = code[q]
  <2>1. q \in 1..(N + K - 1) /\ q <= p - 1 + K /\ q \in 1..(p - 1 + K) /\ q <= p - 1
    BY <1>1
  <2> QED BY <1>2, <1>5, <1>7, <2>1
<1>9. ASSUME NEW k \in 1..K PROVE D[p + k - 1] = new[k]
  <2>1. p + k - 1 \in 1..(N + K - 1) /\ p + k - 1 <= p - 1 + K /\ ~ (p + k - 1 <= p - 1)
        /\ (p + k - 1) - (p - 1) = k /\ p + k - 1 \in 1..(p - 1 + K)
    BY <1>1
  <2> QED BY <1>5, <1>7, <2>1
<1>10. ASSUME NEW q \in (p + 1)..N PROVE D[q + K - 1] = code[q]
  <2>1. q + K - 1 \in 1..(N + K - 1) /\ ~ (q + K - 1 <= p - 1 + K)
        /\ (q + K - 1) - (p - 1 + K) = q - p /\ q - p \in 1..(N - p) /\ p + (q - p) = q
    BY <1>1
  <2> QED BY <1>3, <1>7, <2>1
<1> QED BY <1>1, <1>7, <1>8, <1>9, <1>10, Zenon DEF A, B, C, D, K, N, Splice

Operand == ({"const"} \X Numbers) \cup ({"val"} \X Nat)
Instrs == [id : Nat \ (0..2), op : Ops, l : Operand, r : Operand]

\* IsCode, by these names.
LEMMA CodeForm ==
    ASSUME NEW code
    PROVE  M!IsCode(code, intFn.width) <=>
              /\ code \in Seq(Instrs)
              /\ \A p, q \in DOMAIN code : code[p].id = code[q].id => p = q
              /\ \A p \in DOMAIN code : \A o \in {code[p].l, code[p].r} :
                    o[1] = "val" => o[2] \in {1, 2} \/ \E q \in 1..(p - 1) : code[q].id = o[2]
BY Zenon DEF M!IsCode, Instrs, Operand, Ops, Numbers, Modulus

\* The constants of the expressions.
LEMMA Constants ==
    ASSUME intFn.width \in Widths
    PROVE  /\ \A c \in Int : M!Const(c) \in Operand /\ M!Const(c)[1] = "const" /\ M!Const(c)[2] \in Numbers
           /\ M!Const(-1) = <<"const", Modulus - 1>> /\ M!Const(1) = <<"const", 1>>
           /\ intFn.width = 8 => \A c \in 0..255 : M!Const(c) = <<"const", c>>
<1>1. /\ Modulus \in Nat \ {0, 1} /\ (intFn.width = 8 => Modulus = 256)
      /\ \A c : M!Const(c) = <<"const", c % Modulus>>
  BY ModulusFacts, Zenon DEF M!Const, Modulus
<1> HIDE DEF Modulus
<1>2. \A c \in Int : c % Modulus \in Numbers
  <2>1. Modulus \in Nat \ {0}
    BY <1>1
  <2> QED BY ONLY <2>1, Wrapped DEF Numbers
<1>3. (-1) % Modulus = Modulus - 1 /\ 1 % Modulus = 1
  <2>1. Modulus \in Nat \ {0} /\ -1 \in (-Modulus)..(-1) /\ 1 \in 0..(Modulus - 1) /\ -1 \in Int /\ 1 \in Int
    BY <1>1
  <2>2. (-1) % Modulus = -1 + Modulus /\ 1 % Modulus = 1
    BY ONLY <2>1, Wrapped, Zenon
  <2> QED BY <1>1, <2>2
<1>4. intFn.width = 8 => \A c \in 0..255 : c % Modulus = c
  <2> SUFFICES ASSUME intFn.width = 8, NEW c \in 0..255 PROVE c % Modulus = c
    OBVIOUS
  <2>1. Modulus = 256
    BY <1>1
  <2> QED BY <2>1
<1> HIDE DEF Numbers
<1> QED BY <1>1, <1>2, <1>3, <1>4 DEF Operand

\* new can take the place of the instruction I: the instructions have ids from F on, the last
\* one that of I, and their operands are constants, those of I and the instructions before.
Replaces(new, I, F) ==
    /\ new \in Seq(Instrs) /\ Len(new) \in Nat \ {0}
    /\ new[Len(new)].id = I.id
    /\ \A k \in 1..(Len(new) - 1) : new[k].id = F + k - 1
    /\ \A k \in 1..Len(new) : \A o \in {new[k].l, new[k].r} :
          \/ o[1] = "const"
          \/ o \in {I.l, I.r}
          \/ \E j \in 1..(k - 1) : o = <<"val", F + j - 1>>

\* env has the values of the instructions new.
Computes(env, new) ==
    \A k \in 1..Len(new) :
        env[new[k].id] = M!Apply(new[k].op, M!Of(new[k].l, env), M!Of(new[k].r, env), Modulus)

\* MBAAdd's expression can take the place of an instruction.
LEMMA AddReplaces ==
    ASSUME intFn.width \in Widths, NEW I \in Instrs, NEW F \in Nat \ (0..2)
    PROVE  Replaces(M!AddExpression(I, F), I, F)
<1> DEFINE new == M!AddExpression(I, F)
           L == {M!Const(c) : c \in {2, 39, 23, 151, 111}}
           T == {M!Val(F + j) : j \in 0..6}
<1>1. L \subseteq Operand /\ \A o \in L : o[1] = "const"
  BY Constants
<1>2. T \subseteq Operand
  <2>1. \A j \in 0..6 : F + j \in Nat
    OBVIOUS
  <2> QED BY <2>1 DEF Operand, M!Val
<1>3. I.id \in Nat \ (0..2) /\ I.l \in Operand /\ I.r \in Operand
  BY DEF Instrs
<1> HIDE DEF L, T
<1>4. \A op \in Ops, id \in Nat \ (0..2), l \in Operand, r \in Operand :
         /\ M!Instr(id, op, l, r) \in Instrs
         /\ M!Instr(id, op, l, r).id = id /\ M!Instr(id, op, l, r).l = l /\ M!Instr(id, op, l, r).r = r
  BY DEF M!Instr, Instrs
<1>5. \A j \in 0..6 : F + j \in Nat \ (0..2) /\ M!Val(F + j) = <<"val", F + j>> /\ M!Val(F + j) \in Operand
  <2>1. \A j \in 0..6 : F + j \in Nat \ (0..2) /\ F + j \in Nat
    OBVIOUS
  <2> QED BY <2>1 DEF M!Val, Operand
<1>6. /\ M!Const(2) \in L /\ M!Const(39) \in L /\ M!Const(23) \in L /\ M!Const(151) \in L /\ M!Const(111) \in L
  BY DEF L
<1>7. F + 0 = F
  OBVIOUS
<1>8. /\ Len(new) = 8
      /\ new[1] = M!Instr(F, "xor", I.l, I.r)
      /\ new[2] = M!Instr(F + 1, "and", I.l, I.r)
      /\ new[3] = M!Instr(F + 2, "mul", M!Const(2), M!Val(F + 1))
      /\ new[4] = M!Instr(F + 3, "add", M!Val(F), M!Val(F + 2))
      /\ new[5] = M!Instr(F + 4, "mul", M!Const(39), M!Val(F + 3))
      /\ new[6] = M!Instr(F + 5, "add", M!Const(23), M!Val(F + 4))
      /\ new[7] = M!Instr(F + 6, "mul", M!Const(151), M!Val(F + 5))
      /\ new[8] = M!Instr(I.id, "add", M!Const(111), M!Val(F + 6))
  BY DEF M!AddExpression
<1>9. new \in Seq(Instrs)
  <2>1. {"xor", "and", "mul", "add"} \subseteq Ops
    BY DEF Ops
  <2>2. /\ M!Instr(F, "xor", I.l, I.r) \in Instrs
        /\ M!Instr(F + 1, "and", I.l, I.r) \in Instrs
        /\ M!Instr(F + 2, "mul", M!Const(2), M!Val(F + 1)) \in Instrs
        /\ M!Instr(F + 3, "add", M!Val(F), M!Val(F + 2)) \in Instrs
        /\ M!Instr(F + 4, "mul", M!Const(39), M!Val(F + 3)) \in Instrs
        /\ M!Instr(F + 5, "add", M!Const(23), M!Val(F + 4)) \in Instrs
        /\ M!Instr(F + 6, "mul", M!Const(151), M!Val(F + 5)) \in Instrs
        /\ M!Instr(I.id, "add", M!Const(111), M!Val(F + 6)) \in Instrs
    <3>1. /\ F + 1 \in Nat \ (0..2) /\ F + 2 \in Nat \ (0..2) /\ F + 3 \in Nat \ (0..2)
          /\ F + 4 \in Nat \ (0..2) /\ F + 5 \in Nat \ (0..2) /\ F + 6 \in Nat \ (0..2)
      OBVIOUS
    <3>2. \A j \in 0..6 : M!Val(F + j) \in Operand
      BY <1>5
    <3>3. /\ M!Val(F) \in Operand /\ M!Val(F + 1) \in Operand /\ M!Val(F + 2) \in Operand
          /\ M!Val(F + 3) \in Operand /\ M!Val(F + 4) \in Operand /\ M!Val(F + 5) \in Operand
          /\ M!Val(F + 6) \in Operand
      <4>1. M!Val(F + 0) \in Operand
        BY <3>2
      <4> QED BY <1>7, <3>2, <4>1
    <3>4. /\ M!Const(2) \in Operand /\ M!Const(39) \in Operand /\ M!Const(23) \in Operand
          /\ M!Const(151) \in Operand /\ M!Const(111) \in Operand
      BY <1>1, <1>6
    <3>5. \A op \in Ops, id \in Nat \ (0..2), l \in Operand, r \in Operand : M!Instr(id, op, l, r) \in Instrs
      BY <1>4
    <3> HIDE DEF Operand, Instrs, Ops
    <3> QED BY <1>3, <2>1, <3>1, <3>3, <3>4, <3>5, Zenon
  <2> HIDE DEF Instrs
  <2> QED BY <2>2 DEF M!AddExpression
<1> HIDE DEF new
<1>10. /\ new[8].id = I.id
       /\ new[1].id = F /\ new[2].id = F + 1 /\ new[3].id = F + 2 /\ new[4].id = F + 3
       /\ new[5].id = F + 4 /\ new[6].id = F + 5 /\ new[7].id = F + 6
  BY <1>8 DEF M!Instr
<1>11. \A k \in 1..7 : new[k].id = F + k - 1
  <2>1. \A k \in 1..7 : k = 1 \/ k = 2 \/ k = 3 \/ k = 4 \/ k = 5 \/ k = 6 \/ k = 7
    OBVIOUS
  <2>2. F + 1 - 1 = F /\ F + 2 - 1 = F + 1 /\ F + 3 - 1 = F + 2 /\ F + 4 - 1 = F + 3 /\ F + 5 - 1 = F + 4
        /\ F + 6 - 1 = F + 5 /\ F + 7 - 1 = F + 6
    OBVIOUS
  <2> QED BY <1>10, <2>1, <2>2
<1> DEFINE Ok(o, k) == \/ o[1] = "const"
                       \/ o \in {I.l, I.r}
                       \/ \E j \in 1..(k - 1) : o = <<"val", F + j - 1>>
<1>12. \A k \in 1..8 : \A o \in {new[k].l, new[k].r} : Ok(o, k)
  <2>1. \A c \in {2, 39, 23, 151, 111}, k \in 1..8 : Ok(M!Const(c), k)
    BY <1>1, <1>6
  <2>2. \A k \in 1..8 : Ok(I.l, k) /\ Ok(I.r, k)
    OBVIOUS
  <2>3. \A k \in 1..8, j \in 0..6 : j + 1 < k => Ok(M!Val(F + j), k)
    <3> SUFFICES ASSUME NEW k \in 1..8, NEW j \in 0..6, j + 1 < k PROVE Ok(M!Val(F + j), k)
      OBVIOUS
    <3>1. j + 1 \in 1..(k - 1) /\ F + (j + 1) - 1 = F + j
      OBVIOUS
    <3>2. M!Val(F + j) = <<"val", F + (j + 1) - 1>>
      BY <1>5, <3>1
    <3> QED BY <3>1, <3>2
  <2> HIDE DEF Ok
  <2>4. /\ Ok(M!Const(2), 3) /\ Ok(M!Const(39), 5) /\ Ok(M!Const(23), 6) /\ Ok(M!Const(151), 7) /\ Ok(M!Const(111), 8)
        /\ Ok(M!Val(F + 1), 3) /\ Ok(M!Val(F + 0), 4) /\ Ok(M!Val(F + 2), 4) /\ Ok(M!Val(F + 3), 5)
        /\ Ok(M!Val(F + 4), 6) /\ Ok(M!Val(F + 5), 7) /\ Ok(M!Val(F + 6), 8)
        /\ Ok(I.l, 1) /\ Ok(I.r, 1) /\ Ok(I.l, 2) /\ Ok(I.r, 2)
    BY <2>1, <2>2, <2>3
  <2>5. /\ new[1].l = I.l /\ new[1].r = I.r /\ new[2].l = I.l /\ new[2].r = I.r
        /\ new[3].l = M!Const(2) /\ new[3].r = M!Val(F + 1)
        /\ new[4].l = M!Val(F + 0) /\ new[4].r = M!Val(F + 2)
        /\ new[5].l = M!Const(39) /\ new[5].r = M!Val(F + 3)
        /\ new[6].l = M!Const(23) /\ new[6].r = M!Val(F + 4)
        /\ new[7].l = M!Const(151) /\ new[7].r = M!Val(F + 5)
        /\ new[8].l = M!Const(111) /\ new[8].r = M!Val(F + 6)
    BY <1>7, <1>8 DEF M!Instr
  <2>6. \A k \in 1..8 : k = 1 \/ k = 2 \/ k = 3 \/ k = 4 \/ k = 5 \/ k = 6 \/ k = 7 \/ k = 8
    OBVIOUS
  <2> QED BY <2>4, <2>5, <2>6
<1>13. Len(new) - 1 = 7 /\ Len(new) \in Nat \ {0}
  BY <1>8
<1> QED BY <1>8, <1>9, <1>10, <1>11, <1>12, <1>13 DEF Replaces, new

\* MBASub's expression can take the place of an instruction.
LEMMA SubReplaces ==
    ASSUME intFn.width \in Widths, NEW I \in Instrs, NEW F \in Nat \ (0..2)
    PROVE  Replaces(M!SubExpression(I, F), I, F)
<1> DEFINE new == M!SubExpression(I, F)
<1>1. M!Const(-1) \in Operand /\ M!Const(1) \in Operand /\ M!Const(-1)[1] = "const" /\ M!Const(1)[1] = "const"
  <2>1. -1 \in Int /\ 1 \in Int
    OBVIOUS
  <2> QED BY <2>1, Constants
<1>2. /\ F + 1 \in Nat \ (0..2) /\ M!Val(F) = <<"val", F>> /\ M!Val(F) \in Operand
      /\ M!Val(F + 1) = <<"val", F + 1>> /\ M!Val(F + 1) \in Operand
      /\ F + 1 - 1 = F /\ F + 2 - 1 = F + 1
  <2>1. F \in Nat /\ F + 1 \in Nat \ (0..2) /\ F + 1 - 1 = F /\ F + 2 - 1 = F + 1
    OBVIOUS
  <2> QED BY <2>1 DEF M!Val, Operand
<1>3. I.id \in Nat \ (0..2) /\ I.l \in Operand /\ I.r \in Operand
  BY DEF Instrs
<1>4. \A op \in Ops, id \in Nat \ (0..2), l \in Operand, r \in Operand : M!Instr(id, op, l, r) \in Instrs
  BY DEF M!Instr, Instrs
<1>5. /\ Len(new) = 3
      /\ new[1] = M!Instr(F, "xor", I.r, M!Const(-1))
      /\ new[2] = M!Instr(F + 1, "add", I.l, M!Val(F))
      /\ new[3] = M!Instr(I.id, "add", M!Val(F + 1), M!Const(1))
  BY DEF M!SubExpression
<1>6. new \in Seq(Instrs)
  <2>1. "xor" \in Ops /\ "add" \in Ops
    BY DEF Ops
  <2>2. /\ M!Instr(F, "xor", I.r, M!Const(-1)) \in Instrs
        /\ M!Instr(F + 1, "add", I.l, M!Val(F)) \in Instrs
        /\ M!Instr(I.id, "add", M!Val(F + 1), M!Const(1)) \in Instrs
    BY <1>1, <1>2, <1>3, <1>4, <2>1
  <2> HIDE DEF Instrs
  <2> QED BY <2>2 DEF M!SubExpression
<1> HIDE DEF new
<1>7. /\ new[1].id = F /\ new[2].id = F + 1 /\ new[3].id = I.id
      /\ new[1].l = I.r /\ new[1].r = M!Const(-1)
      /\ new[2].l = I.l /\ new[2].r = <<"val", F>>
      /\ new[3].l = <<"val", F + 1>> /\ new[3].r = M!Const(1)
  BY <1>2, <1>5 DEF M!Instr
<1>8. \A k \in 1..2 : new[k].id = F + k - 1
  <2>1. \A k \in 1..2 : k = 1 \/ k = 2
    OBVIOUS
  <2> QED BY <1>2, <1>7, <2>1
<1> DEFINE Ok(o, k) == \/ o[1] = "const"
                       \/ o \in {I.l, I.r}
                       \/ \E j \in 1..(k - 1) : o = <<"val", F + j - 1>>
<1>9. \A k \in 1..3 : \A o \in {new[k].l, new[k].r} : Ok(o, k)
  <2>1. \A k \in 1..3 : k = 1 \/ k = 2 \/ k = 3
    OBVIOUS
  <2>2. Ok(I.r, 1) /\ Ok(M!Const(-1), 1) /\ Ok(I.l, 2) /\ Ok(M!Const(1), 3)
    BY <1>1
  <2>3. Ok(<<"val", F>>, 2) /\ Ok(<<"val", F + 1>>, 3)
    <3>1. 1 \in 1..(2 - 1) /\ 2 \in 1..(3 - 1)
      OBVIOUS
    <3> QED BY <1>2, <3>1
  <2> HIDE DEF Ok
  <2> QED BY <1>7, <2>1, <2>2, <2>3
<1>10. Len(new) - 1 = 2 /\ Len(new) \in Nat \ {0}
  BY <1>5
<1> QED BY <1>5, <1>6, <1>7, <1>8, <1>9, <1>10 DEF Replaces, new

\* MBAAdd's expression has the value of the addition of eight bits.
LEMMA AddComputes ==
    ASSUME intFn.width = 8, 8 \in Widths, NEW I \in Instrs, I.op = "add", NEW F \in Nat \ (0..2), NEW env,
           M!Of(I.l, env) \in Numbers, M!Of(I.r, env) \in Numbers, Computes(env, M!AddExpression(I, F))
    PROVE  env[I.id] = M!Apply("add", M!Of(I.l, env), M!Of(I.r, env), Modulus)
<1> DEFINE new == M!AddExpression(I, F)
           l == M!Of(I.l, env)
           r == M!Of(I.r, env)
<1>1. /\ Modulus = 256 /\ l \in 0..255 /\ r \in 0..255
      /\ BitXor(l, r) \in 0..255 /\ BitAnd(l, r) \in 0..255 /\ BitXor(l, r) + 2 * BitAnd(l, r) = l + r
  <2>1. Modulus = 256
    BY ModulusFacts
  <2>2. Numbers = 0..255
    BY <2>1 DEF Numbers
  <2>3. l \in Numbers /\ r \in Numbers /\ intFn.width \in Widths
    OBVIOUS
  <2> HIDE DEF l, r
  <2>4. /\ BitXor(l, r) \in Numbers /\ BitAnd(l, r) \in Numbers
        /\ BitXor(l, r) + 2 * BitAnd(l, r) = l + r
    BY <2>3, ModulusFacts
  <2> QED BY <2>1, <2>2, <2>3, <2>4
<1>2. \A c \in 0..255 : M!Of(M!Const(c), env) = c
  BY Constants DEF M!Of
<1>3. \A id : M!Of(M!Val(id), env) = env[id]
  BY DEF M!Of, M!Val
<1>4. /\ Len(new) = 8
      /\ new[1] = M!Instr(F, "xor", I.l, I.r)
      /\ new[2] = M!Instr(F + 1, "and", I.l, I.r)
      /\ new[3] = M!Instr(F + 2, "mul", M!Const(2), M!Val(F + 1))
      /\ new[4] = M!Instr(F + 3, "add", M!Val(F), M!Val(F + 2))
      /\ new[5] = M!Instr(F + 4, "mul", M!Const(39), M!Val(F + 3))
      /\ new[6] = M!Instr(F + 5, "add", M!Const(23), M!Val(F + 4))
      /\ new[7] = M!Instr(F + 6, "mul", M!Const(151), M!Val(F + 5))
      /\ new[8] = M!Instr(I.id, "add", M!Const(111), M!Val(F + 6))
  BY DEF M!AddExpression
<1>5. Computes(env, new)
  OBVIOUS
<1> HIDE DEF new
<1>6. \A id, op, x, y : /\ M!Instr(id, op, x, y).id = id /\ M!Instr(id, op, x, y).op = op
                        /\ M!Instr(id, op, x, y).l = x /\ M!Instr(id, op, x, y).r = y
  BY DEF M!Instr
<1>7. \A k \in 1..8 : env[new[k].id] = M!Apply(new[k].op, M!Of(new[k].l, env), M!Of(new[k].r, env), Modulus)
  BY <1>4, <1>5 DEF Computes
<1> DEFINE x == env[F]
           y == env[F + 1]
<1>8. /\ x = M!Apply("xor", l, r, Modulus)
      /\ y = M!Apply("and", l, r, Modulus)
      /\ env[F + 2] = M!Apply("mul", M!Of(M!Const(2), env), M!Of(M!Val(F + 1), env), Modulus)
      /\ env[F + 3] = M!Apply("add", M!Of(M!Val(F), env), M!Of(M!Val(F + 2), env), Modulus)
      /\ env[F + 4] = M!Apply("mul", M!Of(M!Const(39), env), M!Of(M!Val(F + 3), env), Modulus)
      /\ env[F + 5] = M!Apply("add", M!Of(M!Const(23), env), M!Of(M!Val(F + 4), env), Modulus)
      /\ env[F + 6] = M!Apply("mul", M!Of(M!Const(151), env), M!Of(M!Val(F + 5), env), Modulus)
      /\ env[I.id] = M!Apply("add", M!Of(M!Const(111), env), M!Of(M!Val(F + 6), env), Modulus)
  <2>1. 1 \in 1..8 /\ 2 \in 1..8 /\ 3 \in 1..8 /\ 4 \in 1..8 /\ 5 \in 1..8 /\ 6 \in 1..8 /\ 7 \in 1..8 /\ 8 \in 1..8
    OBVIOUS
  <2> QED BY ONLY <1>4, <1>6, <1>7, <2>1 DEF l, r, x, y
<1>9. \A m, n, k : /\ M!Apply("add", m, n, k) = (m + n) % k
                   /\ M!Apply("mul", m, n, k) = (m * n) % k
                   /\ M!Apply("xor", m, n, k) = BitXor(m, n)
                   /\ M!Apply("and", m, n, k) = BitAnd(m, n)
  BY DEF M!Apply
<1> HIDE DEF l, r, x, y
<1>10. /\ x = BitXor(l, r) /\ y = BitAnd(l, r)
       /\ env[F + 2] = (2 * y) % 256
       /\ env[F + 3] = (x + env[F + 2]) % 256
       /\ env[F + 4] = (39 * env[F + 3]) % 256
       /\ env[F + 5] = (23 + env[F + 4]) % 256
       /\ env[F + 6] = (151 * env[F + 5]) % 256
       /\ env[I.id] = (111 + env[F + 6]) % 256
  <2>1. /\ 2 \in 0..255 /\ 39 \in 0..255 /\ 23 \in 0..255 /\ 151 \in 0..255 /\ 111 \in 0..255
    OBVIOUS
  <2>2. /\ M!Of(M!Const(2), env) = 2 /\ M!Of(M!Const(39), env) = 39 /\ M!Of(M!Const(23), env) = 23
        /\ M!Of(M!Const(151), env) = 151 /\ M!Of(M!Const(111), env) = 111
    BY <1>2, <2>1
  <2>3. M!Of(M!Val(F), env) = x /\ M!Of(M!Val(F + 1), env) = y
    BY <1>3 DEF x, y
  <2>4. Modulus = 256
    BY <1>1
  <2>5. x = BitXor(l, r) /\ y = BitAnd(l, r)
    BY <1>8, <1>9
  <2>6. env[F + 2] = M!Apply("mul", 2, y, 256)
    BY ONLY <1>8, <2>2, <2>3, <2>4
  <2>7. env[F + 3] = M!Apply("add", x, env[F + 2], 256)
    BY ONLY <1>3, <1>8, <2>3, <2>4
  <2>8. env[F + 4] = M!Apply("mul", 39, env[F + 3], 256)
    BY ONLY <1>3, <1>8, <2>2, <2>4
  <2>9. env[F + 5] = M!Apply("add", 23, env[F + 4], 256)
    BY ONLY <1>3, <1>8, <2>2, <2>4
  <2>10. env[F + 6] = M!Apply("mul", 151, env[F + 5], 256)
    BY ONLY <1>3, <1>8, <2>2, <2>4
  <2>11. env[I.id] = M!Apply("add", 111, env[F + 6], 256)
    BY ONLY <1>3, <1>8, <2>2, <2>4
  <2> QED BY ONLY <1>9, <2>5, <2>6, <2>7, <2>8, <2>9, <2>10, <2>11
<1>11. x \in 0..255 /\ y \in 0..255 /\ x + 2 * y = l + r /\ l \in 0..255 /\ r \in 0..255
  BY <1>1, <1>10
<1>12. env[I.id] = (l + r) % 256
  <2>1. (111 + env[F + 6]) % 256 = (l + r) % 256
    <3> DEFINE d == env[F + 2]
               s == env[F + 3]
               t == env[F + 4]
               u == env[F + 5]
               w == env[F + 6]
    <3>1. /\ d = (2 * y) % 256 /\ s = (x + d) % 256 /\ t = (39 * s) % 256 /\ u = (23 + t) % 256
          /\ w = (151 * u) % 256
      BY <1>10
    <3> HIDE DEF d, s, t, u, w
    \* 39 * 151 and 23 * 151 + 111 are one and zero modulo 256.
    <3>2. (111 + w) % 256 = (l + r) % 256
      BY ONLY <1>11, <3>1
    <3> QED BY <3>2 DEF w
  <2> QED BY <1>10, <2>1
<1>13. M!Apply("add", l, r, Modulus) = (l + r) % 256
  BY <1>1, <1>9
<1> QED BY <1>12, <1>13 DEF l, r

\* MBASub's expression has the value of the subtraction.
LEMMA SubComputes ==
    ASSUME intFn.width \in Widths, NEW I \in Instrs, I.op = "sub", NEW F \in Nat \ (0..2), NEW env,
           M!Of(I.l, env) \in Numbers, M!Of(I.r, env) \in Numbers, Computes(env, M!SubExpression(I, F))
    PROVE  env[I.id] = M!Apply("sub", M!Of(I.l, env), M!Of(I.r, env), Modulus)
<1> DEFINE new == M!SubExpression(I, F)
           l == M!Of(I.l, env)
           r == M!Of(I.r, env)
<1>1. /\ Modulus \in Nat \ {0, 1} /\ l \in Numbers /\ r \in Numbers /\ Modulus - 1 \in Numbers
      /\ BitXor(r, Modulus - 1) = (Modulus - 1) - r
  <2>1. Modulus \in Nat \ {0, 1}
    BY ModulusFacts
  <2>2. Modulus - 1 \in Numbers
    BY <2>1 DEF Numbers
  <2> HIDE DEF Numbers
  <2>3. BitXor(r, Modulus - 1) = (Modulus - 1) - r
    <3> DEFINE top == Modulus - 1
    <3>1. top \in Numbers /\ r \in Numbers /\ top = Modulus - 1
      BY <2>2
    <3> HIDE DEF top, r
    <3>2. BitXor(r, top) = top - r
      BY <3>1, ModulusFacts
    <3> QED BY <3>2 DEF top
  <2> QED BY <2>1, <2>2, <2>3
<1>2. M!Of(M!Const(-1), env) = Modulus - 1 /\ M!Of(M!Const(1), env) = 1
  BY Constants DEF M!Of
<1>3. \A id : M!Of(M!Val(id), env) = env[id]
  BY DEF M!Of, M!Val
<1>4. /\ Len(new) = 3
      /\ new[1] = M!Instr(F, "xor", I.r, M!Const(-1))
      /\ new[2] = M!Instr(F + 1, "add", I.l, M!Val(F))
      /\ new[3] = M!Instr(I.id, "add", M!Val(F + 1), M!Const(1))
  BY DEF M!SubExpression
<1>5. Computes(env, new)
  OBVIOUS
<1> HIDE DEF new
<1>6. \A id, op, x, y : /\ M!Instr(id, op, x, y).id = id /\ M!Instr(id, op, x, y).op = op
                        /\ M!Instr(id, op, x, y).l = x /\ M!Instr(id, op, x, y).r = y
  BY DEF M!Instr
<1>7. \A k \in 1..3 : env[new[k].id] = M!Apply(new[k].op, M!Of(new[k].l, env), M!Of(new[k].r, env), Modulus)
  BY <1>4, <1>5 DEF Computes
<1>8. /\ env[F] = M!Apply("xor", r, M!Of(M!Const(-1), env), Modulus)
      /\ env[F + 1] = M!Apply("add", l, M!Of(M!Val(F), env), Modulus)
      /\ env[I.id] = M!Apply("add", M!Of(M!Val(F + 1), env), M!Of(M!Const(1), env), Modulus)
  <2>1. 1 \in 1..3 /\ 2 \in 1..3 /\ 3 \in 1..3
    OBVIOUS
  <2> QED BY ONLY <1>4, <1>6, <1>7, <2>1 DEF l, r
<1>9. \A m, n, k : /\ M!Apply("add", m, n, k) = (m + n) % k
                   /\ M!Apply("sub", m, n, k) = (m - n) % k
                   /\ M!Apply("xor", m, n, k) = BitXor(m, n)
  BY DEF M!Apply
<1> HIDE DEF l, r
<1>10. env[I.id] = (((l + ((Modulus - 1) - r)) % Modulus) + 1) % Modulus
  <2>1. env[F] = (Modulus - 1) - r
    BY ONLY <1>1, <1>2, <1>8, <1>9
  <2>2. env[F + 1] = (l + ((Modulus - 1) - r)) % Modulus
    BY ONLY <2>1, <1>3, <1>8, <1>9
  <2> QED BY ONLY <2>2, <1>2, <1>3, <1>8, <1>9
<1>11. env[I.id] = (l - r) % Modulus
  <2> HIDE DEF Modulus
  <2>1. l \in 0..(Modulus - 1) /\ r \in 0..(Modulus - 1)
    BY <1>1 DEF Numbers
  <2> QED BY <1>1, <1>10, <2>1, Difference
<1>12. M!Apply("sub", l, r, Modulus) = (l - r) % Modulus
  BY <1>9
<1> QED BY <1>11, <1>12 DEF l, r

\* What takes the place of an instruction may do so, and computes its value.
LEMMA ExpressionFacts ==
    ASSUME intFn.width \in Widths, NEW I \in Instrs, NEW F \in Nat \ (0..2), NEW pass \in {"mba-add", "mba-sub"},
           M!Substitutable(pass, I)
    PROVE  LET new == M!Expression(pass, I, F)
           IN  /\ Replaces(new, I, F)
               /\ \A env : /\ M!Of(I.l, env) \in Numbers /\ M!Of(I.r, env) \in Numbers
                           /\ Computes(env, new)
                           => env[I.id] = M!Apply(I.op, M!Of(I.l, env), M!Of(I.r, env), Modulus)
<1> HIDE DEF Instrs, Numbers, Modulus, Computes
<1>1. CASE pass = "mba-add"
  <2>1. I.op = "add" /\ intFn.width = 8 /\ M!Expression(pass, I, F) = M!AddExpression(I, F)
    BY <1>1 DEF M!Substitutable, M!IsAdd, M!Expression
  <2> QED BY <2>1, AddReplaces, AddComputes
<1>2. CASE pass = "mba-sub"
  <2>1. I.op = "sub" /\ M!Expression(pass, I, F) = M!SubExpression(I, F)
    BY <1>2 DEF M!Substitutable, M!IsSub, M!Expression
  <2> QED BY <2>1, SubReplaces, SubComputes
<1> QED BY <1>1, <1>2

\* Where the instruction at q, or that which has its id, then is.
Moved(q, p, new) == IF q < p THEN q ELSE q + Len(new) - 1

\* Where new takes the place of an instruction, every other one is there still; each
\* instruction is one of these or one of new.
LEMMA SpliceFacts ==
    ASSUME NEW code, M!IsCode(code, intFn.width), NEW p \in DOMAIN code,
           NEW F \in Nat \ (0..2), NEW new, Replaces(new, code[p], F)
    PROVE  /\ Splice(code, p, new) \in Seq(Instrs)
           /\ Len(Splice(code, p, new)) = Len(code) + Len(new) - 1
           /\ DOMAIN Splice(code, p, new) = 1..Len(Splice(code, p, new))
           /\ \A q \in DOMAIN code :
                 /\ Moved(q, p, new) \in DOMAIN Splice(code, p, new)
                 /\ Splice(code, p, new)[Moved(q, p, new)].id = code[q].id
                 /\ q # p => Splice(code, p, new)[Moved(q, p, new)] = code[q]
           /\ \A k \in 1..Len(new) : /\ p + k - 1 \in DOMAIN Splice(code, p, new)
                                     /\ Splice(code, p, new)[p + k - 1] = new[k]
           /\ \A n \in DOMAIN Splice(code, p, new) :
                 \/ \E q \in DOMAIN code \ {p} : n = Moved(q, p, new)
                 \/ \E k \in 1..Len(new) : n = p + k - 1
<1> DEFINE c == Splice(code, p, new)
           N == Len(code)
           K == Len(new)
<1>1. /\ code \in Seq(Instrs) /\ new \in Seq(Instrs) /\ new # <<>> /\ new[K].id = code[p].id
      /\ K \in Nat \ {0}
  BY CodeForm, EmptySeq DEF Replaces
<1>2. N \in Nat /\ DOMAIN code = 1..N /\ p \in 1..N
  <2> HIDE DEF Instrs
  <2> QED BY <1>1, LenProperties
<1> HIDE DEF Instrs
<1>3. /\ c \in Seq(Instrs) /\ Len(c) = N + K - 1
      /\ \A q \in 1..(p - 1) : c[q] = code[q]
      /\ \A k \in 1..K : c[p + k - 1] = new[k]
      /\ \A q \in (p + 1)..N : c[q + K - 1] = code[q]
  <2>1. /\ c \in Seq(Instrs) /\ Len(c) = Len(code) + Len(new) - 1 /\ Len(new) \in Nat \ {0}
        /\ \A q \in 1..(p - 1) : c[q] = code[q]
        /\ \A k \in 1..Len(new) : c[p + k - 1] = new[k]
        /\ \A q \in (p + 1)..Len(code) : c[q + Len(new) - 1] = code[q]
    <3> HIDE DEF Instrs
    <3>1. p \in DOMAIN code
      OBVIOUS
    <3>2. code \in Seq(Instrs) /\ new \in Seq(Instrs) /\ new # <<>>
      BY <1>1
    <3> HIDE DEF c
    <3>3. c = Splice(code, p, new)
      BY DEF c
    <3>4. /\ Splice(code, p, new) \in Seq(Instrs)
    BY ONLY <3>1, <3>2, Spliced
    <3>5. Len(Splice(code, p, new)) = Len(code) + Len(new) - 1 /\ Len(new) \in Nat \ {0}
    BY ONLY <3>1, <3>2, Spliced
    <3>6. \A q \in 1..(p - 1) : Splice(code, p, new)[q] = code[q]
    BY ONLY <3>1, <3>2, Spliced
    <3>7. \A k \in 1..Len(new) : Splice(code, p, new)[p + k - 1] = new[k]
    BY ONLY <3>1, <3>2, Spliced
    <3>8. \A q \in (p + 1)..Len(code) : Splice(code, p, new)[q + Len(new) - 1] = code[q]
    BY ONLY <3>1, <3>2, Spliced
    <3> QED BY <3>3, <3>4, <3>5, <3>6, <3>7, <3>8
  <2> QED BY <2>1
<1>4. DOMAIN c = 1..(N + K - 1)
  <2> HIDE DEF c
  <2> QED BY <1>3, LenProperties
<1> HIDE DEF c, N, K
<1>5. \A q \in 1..N : Moved(q, p, new) = IF q < p THEN q ELSE q + K - 1
  BY DEF Moved, K
<1>6. \A k \in 1..K : p + k - 1 \in 1..(N + K - 1)
  BY <1>1, <1>2
<1>7. ASSUME NEW q \in 1..N
      PROVE  /\ Moved(q, p, new) \in 1..(N + K - 1) /\ c[Moved(q, p, new)].id = code[q].id
             /\ q # p => c[Moved(q, p, new)] = code[q]
  <2>1. CASE q < p
    <3>1. q \in 1..(p - 1) /\ q \in 1..(N + K - 1)
      BY <1>1, <1>2, <2>1
    <3> QED BY <1>3, <1>5, <2>1, <3>1
  <2>2. CASE q = p
    <3>1. q + K - 1 = p + K - 1 /\ K \in 1..K /\ q + K - 1 \in 1..(N + K - 1) /\ ~ (q < p)
      BY <1>1, <1>2, <2>2
    <3>2. Moved(q, p, new) = p + K - 1
      BY <1>5, <3>1
    <3>3. c[p + K - 1] = new[K]
      BY <1>3, <3>1
    <3> QED BY <1>1, <2>2, <3>1, <3>2, <3>3
  <2>3. CASE q > p
    <3>1. q \in (p + 1)..N /\ q + K - 1 \in 1..(N + K - 1) /\ ~ (q < p)
      BY <1>1, <1>2, <2>3
    <3>2. Moved(q, p, new) = q + K - 1
      BY <1>5, <3>1
    <3>3. c[q + K - 1] = code[q]
      BY <1>3, <3>1
    <3> QED BY <3>1, <3>2, <3>3
  <2> QED BY <1>2, <2>1, <2>2, <2>3
<1>8. ASSUME NEW n \in 1..(N + K - 1)
      PROVE  \/ \E q \in (1..N) \ {p} : n = Moved(q, p, new)
             \/ \E k \in 1..K : n = p + k - 1
  <2>1. CASE n < p
    <3>1. n \in 1..N /\ n # p
      BY <1>2, <2>1
    <3>2. Moved(n, p, new) = n
      BY <1>5, <2>1, <3>1
    <3> QED BY <3>1, <3>2
  <2>2. CASE n >= p /\ n <= p + K - 1
    <3>1. n - p + 1 \in 1..K /\ n = p + (n - p + 1) - 1
      BY <1>1, <1>2, <2>2
    <3> QED BY <3>1
  <2>3. CASE n > p + K - 1
    <3>1. n - K + 1 \in 1..N /\ n - K + 1 # p /\ ~ (n - K + 1 < p) /\ n = (n - K + 1) + K - 1
      BY <1>1, <1>2, <2>3
    <3>2. Moved(n - K + 1, p, new) = n
      BY <1>5, <3>1
    <3> QED BY <3>1, <3>2
  <2> QED BY <1>1, <1>2, <2>1, <2>2, <2>3
<1> QED BY <1>2, <1>3, <1>4, <1>6, <1>7, <1>8, Zenon DEF c, N, K

\* Moved keeps the order.
LEMMA MovedOrder ==
    ASSUME NEW N \in Nat, NEW p \in 1..N, NEW new, Len(new) \in Nat \ {0}, NEW q \in 1..N, NEW e \in 1..(q - 1)
    PROVE  Moved(e, p, new) \in 1..(Moved(q, p, new) - 1)
<1> DEFINE K == Len(new)
<1>1. K \in Nat \ {0}
  OBVIOUS
<1>2. /\ Moved(e, p, new) = IF e < p THEN e ELSE e + K - 1
      /\ Moved(q, p, new) = IF q < p THEN q ELSE q + K - 1
  BY DEF Moved
<1> HIDE DEF K
<1> QED BY <1>1, <1>2

\* It is then a function's code still.
LEMMA SpliceIsCode ==
    ASSUME NEW code, M!IsCode(code, intFn.width), NEW p \in DOMAIN code,
           NEW F \in Nat \ (0..2), \A q \in DOMAIN code : code[q].id < F,
           NEW new, Replaces(new, code[p], F)
    PROVE  M!IsCode(Splice(code, p, new), intFn.width)
<1> DEFINE c == Splice(code, p, new)
           N == Len(code)
           K == Len(new)
           At(q) == Moved(q, p, new)
<1>1. /\ N \in Nat /\ DOMAIN code = 1..N /\ p \in 1..N
      /\ \A q \in 1..N : code[q].id \in Nat
      /\ \A q, r \in 1..N : code[q].id = code[r].id => q = r
  BY CodeFacts
<1>2. \A q \in 1..N : \A o \in {code[q].l, code[q].r} :
         o[1] = "val" => o[2] \in {1, 2} \/ \E e \in 1..(q - 1) : code[e].id = o[2]
  BY <1>1, CodeForm, Zenon
<1>3. /\ K \in Nat \ {0} /\ new[K].id = code[p].id
      /\ \A k \in 1..(K - 1) : new[k].id = F + k - 1
      /\ \A k \in 1..K : \A o \in {new[k].l, new[k].r} :
            \/ o[1] = "const"
            \/ o \in {code[p].l, code[p].r}
            \/ \E j \in 1..(k - 1) : o = <<"val", F + j - 1>>
  BY DEF Replaces
<1>4. /\ c \in Seq(Instrs) /\ Len(c) = N + K - 1 /\ DOMAIN c = 1..(N + K - 1)
      /\ \A q \in 1..N : At(q) \in DOMAIN c /\ c[At(q)].id = code[q].id /\ (q # p => c[At(q)] = code[q])
      /\ \A k \in 1..K : p + k - 1 \in DOMAIN c /\ c[p + k - 1] = new[k]
      /\ \A n \in DOMAIN c : \/ \E q \in (1..N) \ {p} : n = At(q)
                             \/ \E k \in 1..K : n = p + k - 1
  <2>1. /\ M!IsCode(code, intFn.width) /\ p \in DOMAIN code /\ F \in Nat \ (0..2)
        /\ Replaces(new, code[p], F)
    OBVIOUS
  <2>2. c \in Seq(Instrs) /\ Len(c) = Len(code) + Len(new) - 1 /\ DOMAIN c = 1..Len(c)
    BY ONLY <2>1, SpliceFacts DEF c
  <2>3. \A q \in DOMAIN code :
           /\ Moved(q, p, new) \in DOMAIN c
           /\ c[Moved(q, p, new)].id = code[q].id
           /\ q # p => c[Moved(q, p, new)] = code[q]
    BY ONLY <2>1, SpliceFacts DEF c
  <2>4. \A k \in 1..Len(new) : p + k - 1 \in DOMAIN c /\ c[p + k - 1] = new[k]
    BY ONLY <2>1, SpliceFacts DEF c
  <2>5. \A n \in DOMAIN c : \/ \E q \in DOMAIN code \ {p} : n = Moved(q, p, new)
                            \/ \E k \in 1..Len(new) : n = p + k - 1
    BY ONLY <2>1, SpliceFacts DEF c
  <2> HIDE DEF c
  <2> QED BY <1>1, <2>2, <2>3, <2>4, <2>5
<1>5. \A q \in 1..N, e \in Nat : e \in 1..(q - 1) => e \in 1..N /\ At(e) \in 1..(At(q) - 1)
  <2> SUFFICES ASSUME NEW q \in 1..N, NEW e \in 1..(q - 1)
               PROVE  e \in 1..N /\ At(e) \in 1..(At(q) - 1)
    BY Zenon
  <2>1. e \in 1..N
    BY <1>1
  <2>2. Len(new) \in Nat \ {0}
    BY <1>3
  <2> QED BY <1>1, <2>1, <2>2, MovedOrder
<1>6. At(p) = p + K - 1
  BY <1>1 DEF Moved
<1> HIDE DEF c, N, K, At
<1>7. ASSUME NEW n \in DOMAIN c
      PROVE  \/ \E q \in 1..N : n = At(q)
             \/ \E k \in 1..(K - 1) : n = p + k - 1
  <2>1. \A k \in 1..K : k = K \/ k \in 1..(K - 1)
    BY <1>3
  <2> QED BY <1>1, <1>4, <1>6, <2>1
<1>8. \A k \in 1..(K - 1) : c[p + k - 1].id = F + k - 1
  <2>1. \A k \in 1..(K - 1) : k \in 1..K
    BY <1>3
  <2> QED BY <1>3, <1>4, <2>1
<1>9. ASSUME NEW n \in DOMAIN c, NEW m \in DOMAIN c, c[n].id = c[m].id
      PROVE  n = m
  <2>1. CASE \E q \in 1..N : n = At(q)
    <3> PICK q \in 1..N : n = At(q)
      BY <2>1
    <3>1. CASE \E r \in 1..N : m = At(r)
      <4> PICK r \in 1..N : m = At(r)
        BY <3>1
      <4>1. code[q].id = code[r].id
        BY <1>4, <1>9
      <4> QED BY <1>1, <4>1
    <3>2. CASE \E k \in 1..(K - 1) : m = p + k - 1
      <4> PICK k \in 1..(K - 1) : m = p + k - 1
        BY <3>2
      <4>1. code[q].id = F + k - 1 /\ code[q].id < F /\ code[q].id \in Nat
        BY <1>1, <1>4, <1>8, <1>9
      <4>2. F + k - 1 >= F
        BY <1>3
      <4> QED BY <4>1, <4>2
    <3> QED BY <1>7, <3>1, <3>2
  <2>2. CASE \E k \in 1..(K - 1) : n = p + k - 1
    <3> PICK k \in 1..(K - 1) : n = p + k - 1
      BY <2>2
    <3>1. CASE \E r \in 1..N : m = At(r)
      <4> PICK r \in 1..N : m = At(r)
        BY <3>1
      <4>1. code[r].id = F + k - 1 /\ code[r].id < F /\ code[r].id \in Nat
        BY <1>1, <1>4, <1>8, <1>9
      <4>2. F + k - 1 >= F
        BY <1>3
      <4> QED BY <4>1, <4>2
    <3>2. CASE \E j \in 1..(K - 1) : m = p + j - 1
      <4> PICK j \in 1..(K - 1) : m = p + j - 1
        BY <3>2
      <4>1. F + k - 1 = F + j - 1
        BY <1>8, <1>9
      <4>2. k = j
        BY <1>3, <4>1
      <4> QED BY <4>2
    <3> QED BY <1>7, <3>1, <3>2
  <2> QED BY <1>7, <2>1, <2>2
<1> DEFINE Ok(o, n) == o[1] = "val" => o[2] \in {1, 2} \/ \E e \in 1..(n - 1) : c[e].id = o[2]
<1>10. ASSUME NEW q \in 1..N, NEW o \in {code[q].l, code[q].r}
       PROVE  Ok(o, At(q))
  <2> SUFFICES ASSUME o[1] = "val", o[2] \notin {1, 2}
               PROVE  \E e \in 1..(At(q) - 1) : c[e].id = o[2]
    OBVIOUS
  <2>1. PICK e \in 1..(q - 1) : code[e].id = o[2]
    BY <1>2
  <2>2. e \in Nat /\ e \in 1..N /\ At(e) \in 1..(At(q) - 1)
    BY <1>5
  <2> QED BY <1>4, <2>1, <2>2
<1>11. ASSUME NEW k \in 1..K, NEW o \in {new[k].l, new[k].r}
       PROVE  Ok(o, p + k - 1)
  <2>1. CASE o[1] = "const"
    BY <2>1
  <2>2. CASE o \in {code[p].l, code[p].r}
    <3> SUFFICES ASSUME o[1] = "val", o[2] \notin {1, 2}
                 PROVE  \E e \in 1..((p + k - 1) - 1) : c[e].id = o[2]
      BY Zenon
    <3>1. PICK e \in 1..(p - 1) : code[e].id = o[2]
      BY <1>1, <1>2, <2>2
    <3>2. At(e) = e /\ e \in 1..N /\ e \in 1..((p + k - 1) - 1)
      <4>1. e \in Int /\ e < p
        BY <1>1
      <4> QED BY <1>1, <1>3, <4>1 DEF At, Moved
    <3> QED BY <1>4, <3>1, <3>2
  <2>3. CASE \E j \in 1..(k - 1) : o = <<"val", F + j - 1>>
    <3> PICK j \in 1..(k - 1) : o = <<"val", F + j - 1>>
      BY <2>3
    <3>1. o[2] = F + j - 1
      OBVIOUS
    <3>2. j \in 1..(K - 1) /\ p + j - 1 \in 1..((p + k - 1) - 1)
      BY <1>1, <1>3
    <3>3. c[p + j - 1].id = o[2]
      BY <1>8, <3>1, <3>2
    <3> QED BY <3>2, <3>3, Zenon
  <2> QED BY <1>3, <2>1, <2>2, <2>3
<1>12. ASSUME NEW n \in DOMAIN c, NEW o \in {c[n].l, c[n].r}
       PROVE  Ok(o, n)
  <2> HIDE DEF Ok
  <2>1. CASE \E q \in (1..N) \ {p} : n = At(q)
    BY <1>4, <1>10, <2>1
  <2>2. CASE \E k \in 1..K : n = p + k - 1
    BY <1>4, <1>11, <2>2
  <2> QED BY <1>4, <2>1, <2>2
<1>13. M!IsCode(c, intFn.width)
  BY <1>4, <1>9, <1>12, CodeForm, Zenon
<1> QED BY <1>13 DEF c

\* The values of the new instructions are values of the ones before.
LEMMA SpliceAgrees ==
    ASSUME NEW code, M!IsCode(code, intFn.width), NEW p \in DOMAIN code,
           NEW F \in Nat \ (0..2), NEW new, Replaces(new, code[p], F), NEW a, NEW env,
           Agrees(env, Splice(code, p, new), a, Len(Splice(code, p, new))),
           env[1] \in Numbers, env[2] \in Numbers, \A q \in DOMAIN code : env[code[q].id] \in Numbers,
           M!Of(code[p].l, env) \in Numbers /\ M!Of(code[p].r, env) \in Numbers /\ Computes(env, new)
              => env[code[p].id] = M!Apply(code[p].op, M!Of(code[p].l, env), M!Of(code[p].r, env), Modulus)
    PROVE  Agrees(env, code, a, Len(code))
<1> DEFINE c == Splice(code, p, new)
           N == Len(code)
           Holds(I) == env[I.id] = M!Apply(I.op, M!Of(I.l, env), M!Of(I.r, env), Modulus)
<1>1. /\ N \in Nat /\ DOMAIN code = 1..N
      /\ Known(code[p].l, code, p) /\ Known(code[p].r, code, p)
  <2> HIDE DEF Known
  <2> QED BY CodeFacts
<1>2. /\ DOMAIN c = 1..Len(c)
      /\ \A q \in DOMAIN code : /\ Moved(q, p, new) \in DOMAIN c
                                /\ q # p => c[Moved(q, p, new)] = code[q]
      /\ \A k \in 1..Len(new) : p + k - 1 \in DOMAIN c /\ c[p + k - 1] = new[k]
  BY SpliceFacts
<1>3. \A n \in DOMAIN c : Holds(c[n])
  <2>1. Agrees(env, c, a, Len(c))
    OBVIOUS
  <2> HIDE DEF c
  <2> QED BY <1>2, <2>1 DEF Agrees
<1> HIDE DEF c
<1>4. \A q \in DOMAIN code : q # p => Holds(code[q])
  <2> HIDE DEF Holds
  <2> QED BY <1>2, <1>3
<1>5. Computes(env, new)
  <2>1. \A k \in 1..Len(new) : Holds(new[k])
    <3> HIDE DEF Holds
    <3> QED BY <1>2, <1>3
  <2> QED BY <2>1 DEF Computes
<1>6. M!Of(code[p].l, env) \in Numbers /\ M!Of(code[p].r, env) \in Numbers
  <2>1. \A q \in 1..(p - 1) : q \in DOMAIN code
    BY <1>1
  <2> HIDE DEF Known, Numbers
  <2> QED BY <1>1, <2>1, OperandType
<1>7. Holds(code[p])
  BY <1>5, <1>6
<1>8. \A q \in 1..N : Holds(code[q])
  <2> HIDE DEF Holds
  <2> QED BY <1>1, <1>4, <1>7
<1>9. env[1] = a[1] % Modulus /\ env[2] = a[2] % Modulus
  BY DEF Agrees
<1> QED BY <1>8, <1>9 DEF Agrees, N

\* A substitution changes no instruction's value.
LEMMA SpliceResults ==
    ASSUME intFn.width \in Widths, NEW code, M!IsCode(code, intFn.width), NEW p \in DOMAIN code,
           NEW F \in Nat \ (0..2), \A q \in DOMAIN code : code[q].id < F,
           NEW pass \in {"mba-add", "mba-sub"}, M!Substitutable(pass, code[p]), NEW a \in Int \X Int,
           NEW new, new = M!Expression(pass, code[p], F), NEW c, c = Splice(code, p, new)
    PROVE  \A id \in DOMAIN M!Values(code, a) :
              id \in DOMAIN M!Values(c, a) /\ M!Values(c, a)[id] = M!Values(code, a)[id]
<1> DEFINE V == M!Values(code, a)
           W == M!Values(c, a)
<1>1. code \in Seq(Instrs)
  BY CodeForm
<1>2. code[p] \in Instrs
  <2> HIDE DEF Instrs
  <2> QED BY <1>1, LenProperties
<1>3. /\ Replaces(new, code[p], F)
      /\ \A env : /\ M!Of(code[p].l, env) \in Numbers /\ M!Of(code[p].r, env) \in Numbers
                  /\ Computes(env, new)
                  => env[code[p].id] = M!Apply(code[p].op, M!Of(code[p].l, env), M!Of(code[p].r, env), Modulus)
  BY <1>2, ExpressionFacts
<1>4. M!IsCode(c, intFn.width)
  BY <1>3, SpliceIsCode
<1>5. /\ DOMAIN V = {1, 2} \cup {code[q].id : q \in DOMAIN code}
      /\ Agrees(V, code, a, Len(code))
  BY ValuesFacts
<1>6. /\ DOMAIN W = {1, 2} \cup {c[q].id : q \in DOMAIN c}
      /\ \A id \in DOMAIN W : W[id] \in Numbers
      /\ Agrees(W, c, a, Len(c))
  <2>1. intFn.width \in Widths /\ a \in Int \X Int
    OBVIOUS
  <2> QED BY ONLY <1>4, <2>1, ValuesFacts
<1>7. \A q \in DOMAIN code : \E n \in DOMAIN c : c[n].id = code[q].id
  BY <1>3, SpliceFacts
<1> HIDE DEF V, W
<1>8. \A q \in DOMAIN code : code[q].id \in DOMAIN W /\ W[code[q].id] \in Numbers
  BY <1>6, <1>7
<1>9. Agrees(W, code, a, Len(code))
  <2>1. W[1] \in Numbers /\ W[2] \in Numbers
    BY <1>6
  <2>2. M!Of(code[p].l, W) \in Numbers /\ M!Of(code[p].r, W) \in Numbers /\ Computes(W, new)
        => W[code[p].id] = M!Apply(code[p].op, M!Of(code[p].l, W), M!Of(code[p].r, W), Modulus)
    BY <1>3
  <2>3. Agrees(W, Splice(code, p, new), a, Len(Splice(code, p, new)))
    BY <1>6
  <2> QED BY <1>3, <1>8, <2>1, <2>2, <2>3, SpliceAgrees
<1>10. \A q \in DOMAIN code : W[code[q].id] = V[code[q].id]
  BY <1>5, <1>9, ValuesUnique
<1>11. W[1] = V[1] /\ W[2] = V[2]
  BY <1>5, <1>9 DEF Agrees
<1>12. \A id \in DOMAIN V : id \in DOMAIN W /\ W[id] = V[id]
  BY <1>5, <1>6, <1>8, <1>10, <1>11
<1> QED BY <1>12 DEF V, W

--------------------------------------------------------------------------------
(* The invariant of MBAAdd and MBASub. *)

\* How many instructions the run has still to visit, and how many of those it was given it
\* has visited.
Rest == Len(insts) - Inst + 1
Visited == Len(entry) - Rest

\* The instructions to be visited are those the run was given.
RestGiven ==
    /\ Inst \in 1..(Len(insts) + 1) /\ Visited \in 0..Len(entry)
    /\ \A i \in 0..(Rest - 1) : insts[Inst + i] = entry[Visited + 1 + i]

\* Of those visited, the substitutable ones have been substituted.
VisitedSubstituted ==
    /\ substituted = {entry[j].id : j \in {j \in 1..Visited : M!Substitutable(Head(passes), entry[j])}}
    /\ Changed <=> substituted # {}
    /\ passes = <<>> => Visited = 0

\* Every instruction that the function had has the value that it had.
ResultsKept ==
    \A a \in Inputs : \A id \in DOMAIN M!Values(intFn.insts, a) :
        /\ id \in DOMAIN M!Values(insts, a)
        /\ M!Values(insts, a)[id] = M!Values(intFn.insts, a)[id]

IntInv ==
    /\ intFn \in IntFunctions /\ passes \in Seq({"mba-add", "mba-sub"})
    /\ M!IsCode(insts, intFn.width) /\ M!IsCode(entry, intFn.width)
    /\ RestGiven
    /\ VisitedSubstituted
    /\ ResultsKept

\* The lengths and positions that the invariant gives.
LEMMA Lengths ==
    ASSUME IntInv
    PROVE  /\ intFn.width \in Widths
           /\ Len(insts) \in Nat /\ DOMAIN insts = 1..Len(insts)
           /\ Len(entry) \in Nat /\ DOMAIN entry = 1..Len(entry)
           /\ Inst \in 1..(Len(insts) + 1)
<1>1. intFn.width \in Widths
  BY IntFunctionsAssumption DEF IntInv, M!IsFunction
<1>2. M!IsCode(insts, intFn.width) /\ M!IsCode(entry, intFn.width) /\ Inst \in 1..(Len(insts) + 1)
  BY DEF IntInv, RestGiven
<1> QED BY ONLY <1>1, <1>2, CodeFacts

\* The invariant holds at first.
LEMMA IntInit ==
    ASSUME PipelineInit PROVE IntInv
<1>1. /\ intFn \in IntFunctions /\ passes \in Pipelines /\ insts = intFn.insts /\ Inst = 1
      /\ Changed = FALSE /\ substituted = {} /\ entry = intFn.insts
  BY DEF PipelineInit, M!Init
<1>2. passes \in Seq({"mba-add", "mba-sub"})
  BY <1>1, PipelinesAssumption
<1>3. M!IsCode(insts, intFn.width) /\ M!IsCode(entry, intFn.width)
  BY <1>1, IntFunctionsAssumption DEF M!IsFunction
<1>4. Len(insts) \in Nat
  BY <1>3, CodeFacts
<1>5. Rest = Len(insts) /\ Visited = 0
  BY <1>1, <1>4 DEF Rest, Visited
<1>6. RestGiven
  <2>1. \A i \in 0..(Rest - 1) : Inst + i = Visited + 1 + i
    BY <1>1, <1>5
  <2> QED BY <1>1, <1>4, <1>5, <2>1 DEF RestGiven
<1>7. VisitedSubstituted
  <2>1. 1..0 = {}
    OBVIOUS
  <2> QED BY <1>1, <1>5, <2>1 DEF VisitedSubstituted
<1>8. ResultsKept
  BY <1>1 DEF ResultsKept
<1> QED BY <1>1, <1>2, <1>3, <1>6, <1>7, <1>8 DEF IntInv

\* The next instruction is the next of those the run was given.
LEMMA NextGiven ==
    ASSUME IntInv, M!Running
    PROVE  /\ Inst \in 1..Len(insts) /\ Rest \in Nat \ {0} /\ Visited \in Nat
           /\ Visited + 1 \in 1..Len(entry) /\ entry[Visited + 1] = insts[Inst]
           /\ Head(passes) \in {"mba-add", "mba-sub"}
<1>1. Inst \in 1..Len(insts) /\ Rest \in Nat \ {0}
  BY Lengths DEF M!Running, Rest
<1>2. Visited \in 0..Len(entry) /\ Visited + 1 \in 1..Len(entry)
  <2>1. Visited \in 0..Len(entry)
    BY DEF IntInv, RestGiven
  <2> QED BY <1>1, <2>1, Lengths DEF Visited
<1>3. entry[Visited + 1] = insts[Inst]
  <2>1. 0 \in 0..(Rest - 1)
    BY <1>1
  <2>2. insts[Inst + 0] = entry[Visited + 1 + 0]
    BY <2>1 DEF IntInv, RestGiven
  <2>3. Inst + 0 = Inst /\ Visited + 1 + 0 = Visited + 1
    BY <1>1, <1>2
  <2> QED BY <2>2, <2>3
<1>4. Head(passes) \in {"mba-add", "mba-sub"}
  BY HeadTailProperties DEF IntInv, M!Running
<1> QED BY <1>1, <1>2, <1>3, <1>4

\* A visit of the next instruction: it is among the visited ones, the others are as before.
LEMMA Visit ==
    ASSUME IntInv, M!Running, passes' = passes, entry' = entry, intFn' = intFn,
           Rest' = Rest - 1, Inst' \in 1..(Len(insts)' + 1),
           \A i \in 0..(Rest - 2) : insts'[Inst' + i] = insts[Inst + 1 + i],
           substituted' = substituted \cup (IF M!Substitutable(Head(passes), insts[Inst])
                                            THEN {insts[Inst].id} ELSE {}),
           Changed' <=> Changed \/ M!Substitutable(Head(passes), insts[Inst])
    PROVE  RestGiven' /\ VisitedSubstituted'
<1>1. /\ Inst \in 1..Len(insts) /\ Rest \in Nat \ {0} /\ Visited \in Nat
      /\ Visited + 1 \in 1..Len(entry) /\ entry[Visited + 1] = insts[Inst] /\ Len(entry) \in Nat
  BY NextGiven, Lengths
<1>2. Visited' = Visited + 1 /\ Visited' \in 0..Len(entry)
  BY <1>1 DEF Visited
<1>3. ASSUME NEW i \in 0..(Rest' - 1)
      PROVE  insts'[Inst' + i] = entry'[Visited' + 1 + i]
  <2>1. i \in 0..(Rest - 2) /\ i + 1 \in 0..(Rest - 1)
    <3>1. Rest \in Nat \ {0} /\ Rest' = Rest - 1 /\ i \in 0..(Rest' - 1)
      BY <1>1
    <3> QED BY ONLY <3>1
  <2>2. insts[Inst + (i + 1)] = entry[Visited + 1 + (i + 1)]
    BY <2>1 DEF IntInv, RestGiven
  <2>3. Inst + (i + 1) = Inst + 1 + i /\ Visited + 1 + (i + 1) = Visited' + 1 + i
    BY <1>1, <1>2
  <2> QED BY <2>1, <2>2, <2>3
<1>4. RestGiven'
  BY <1>2, <1>3 DEF RestGiven
<1>5. VisitedSubstituted
  BY DEF IntInv
<1> DEFINE S(j) == M!Substitutable(Head(passes), entry[j])
<1>6. S(Visited + 1) <=> M!Substitutable(Head(passes), insts[Inst])
  BY <1>1
<1>7. \A j : M!Substitutable(Head(passes), entry[j])' <=> S(j)
  BY DEF M!Substitutable, M!IsAdd, M!IsSub
<1>8. substituted = {entry[j].id : j \in {j \in 1..Visited : S(j)}}
  BY <1>5 DEF VisitedSubstituted
<1>9. (Changed <=> substituted # {})
  BY <1>5 DEF VisitedSubstituted
<1>10. \A j : j \in 1..Visited' <=> j \in 1..Visited \/ j = Visited + 1
  BY <1>1, <1>2
<1>11. substituted' = {entry[j].id : j \in {j \in 1..Visited' : S(j)}}
  <2> HIDE DEF S
  <2>1. CASE S(Visited + 1)
    <3>1. substituted' = substituted \cup {entry[Visited + 1].id}
      BY <1>1, <1>6, <2>1
    <3> QED BY <1>8, <1>10, <2>1, <3>1
  <2>2. CASE ~ S(Visited + 1)
    <3>1. substituted' = substituted
      BY <1>6, <2>2
    <3> QED BY <1>8, <1>10, <2>2, <3>1
  <2> QED BY <2>1, <2>2
<1>12. Changed' <=> substituted' # {}
  <2>1. CASE M!Substitutable(Head(passes), insts[Inst])
    <3>1. insts[Inst].id \in substituted' /\ Changed'
      BY <2>1
    <3> QED BY <3>1
  <2>2. CASE ~ M!Substitutable(Head(passes), insts[Inst])
    <3>1. substituted' = substituted /\ (Changed' <=> Changed)
      BY <2>2
    <3> QED BY <1>9, <3>1, Zenon
  <2> QED BY <2>1, <2>2
<1>13. VisitedSubstituted'
  <2>1. substituted' = {entry[j].id : j \in {j \in 1..Visited' : M!Substitutable(Head(passes), entry[j])'}}
    <3> HIDE DEF S
    <3> QED BY <1>7, <1>11, Zenon
  <2>2. passes' # <<>>
    BY DEF M!Running
  <2> QED BY <1>12, <2>1, <2>2 DEF VisitedSubstituted
<1> QED BY <1>4, <1>13

\* An instruction that is not substituted is left where it is.
LEMMA SkipInv ==
    ASSUME IntInv, M!Skip PROVE IntInv'
<1>1. /\ M!Running /\ ~ M!Substitutable(Head(passes), insts[Inst]) /\ Inst' = Inst + 1
      /\ intFn' = intFn /\ passes' = passes /\ insts' = insts /\ Changed' = Changed
      /\ substituted' = substituted /\ entry' = entry
  BY DEF M!Skip
<1>2. Inst \in 1..Len(insts) /\ Len(insts) \in Nat
  BY <1>1, NextGiven, Lengths
<1>3. Rest' = Rest - 1 /\ Inst' \in 1..(Len(insts)' + 1)
  BY <1>1, <1>2 DEF Rest
<1>4. \A i \in 0..(Rest - 2) : insts'[Inst' + i] = insts[Inst + 1 + i]
  BY <1>1
<1>5. substituted' = substituted \cup (IF M!Substitutable(Head(passes), insts[Inst]) THEN {insts[Inst].id} ELSE {})
  BY <1>1
<1>6. RestGiven' /\ VisitedSubstituted'
  BY <1>1, <1>3, <1>4, <1>5, Visit
<1>7. ResultsKept' <=> ResultsKept
  BY <1>1 DEF ResultsKept, M!Values, M!With, M!Of, M!Apply
<1>8. M!IsCode(insts, intFn.width)' /\ M!IsCode(entry, intFn.width)'
  BY <1>1 DEF IntInv, M!IsCode
<1> QED BY <1>1, <1>6, <1>7, <1>8 DEF IntInv

\* A substitution puts the expression's instructions behind the iterator.
LEMMA SubstituteInv ==
    ASSUME IntInv, M!Substitute PROVE IntInv'
<1> DEFINE p == Inst
           I == insts[Inst]
           pass == Head(passes)
           new == M!Expression(pass, I, M!Fresh)
           K == Len(new)
           N == Len(insts)
<1>1. /\ M!Running /\ M!Substitutable(pass, I) /\ insts' = Splice(insts, p, new) /\ Inst' = Inst + K
      /\ substituted' = substituted \cup {I.id} /\ Changed' = TRUE
      /\ intFn' = intFn /\ passes' = passes /\ entry' = entry
  BY DEF M!Substitute, M!NextInst, Splice
<1>2. /\ p \in 1..N /\ N \in Nat /\ DOMAIN insts = 1..N /\ pass \in {"mba-add", "mba-sub"}
      /\ intFn.width \in Widths /\ M!IsCode(insts, intFn.width)
  BY <1>1, NextGiven, Lengths DEF IntInv
<1>3. M!Fresh \in Nat \ (0..2) /\ \A q \in DOMAIN insts : insts[q].id < M!Fresh
  <2>1. 1 \in DOMAIN insts
    BY <1>2
  <2> QED BY <1>2, <2>1, FreshFacts
<1>4. I \in Instrs /\ insts \in Seq(Instrs)
  <2>1. insts \in Seq(Instrs)
    BY <1>2, CodeForm
  <2> HIDE DEF Instrs
  <2> QED BY <1>2, <2>1, LenProperties
<1>5. Replaces(new, I, M!Fresh)
  BY <1>1, <1>2, <1>3, <1>4, ExpressionFacts
<1> HIDE DEF new
<1>6. M!IsCode(insts', intFn.width)
  BY <1>1, <1>2, <1>3, <1>5, SpliceIsCode
<1>7. /\ K \in Nat \ {0} /\ Len(insts') = N + K - 1
      /\ \A q \in (p + 1)..N : insts'[q + K - 1] = insts[q]
  <2>1. new \in Seq(Instrs) /\ new # <<>> /\ p \in DOMAIN insts
    BY <1>2, <1>5, EmptySeq DEF Replaces
  <2>2. Len(Splice(insts, p, new)) = Len(insts) + Len(new) - 1 /\ Len(new) \in Nat \ {0}
    BY ONLY <1>4, <2>1, Spliced
  <2>3. \A q \in (p + 1)..Len(insts) : Splice(insts, p, new)[q + Len(new) - 1] = insts[q]
    BY ONLY <1>4, <2>1, Spliced
  <2> QED BY <1>1, <2>2, <2>3
<1>8. Rest' = Rest - 1 /\ Inst' \in 1..(Len(insts)' + 1)
  <2> HIDE DEF K, N
  <2>1. Rest = N - p + 1 /\ Rest' = Len(insts') - Inst' + 1
    BY DEF Rest, N
  <2>2. p \in 1..N /\ N \in Nat /\ K \in Nat \ {0} /\ Len(insts)' = N + K - 1 /\ Inst' = p + K
    BY <1>1, <1>2, <1>7
  <2> HIDE DEF p
  <2>3. (N + K - 1) - (p + K) + 1 = N - p + 1 - 1 /\ p + K \in 1..(N + K - 1 + 1)
    BY ONLY <2>2
  <2>4. Rest' = (N + K - 1) - (p + K) + 1
    BY ONLY <2>1, <2>2
  <2> QED BY ONLY <2>1, <2>2, <2>3, <2>4
<1>9. ASSUME NEW i \in 0..(Rest - 2)
      PROVE  insts'[Inst' + i] = insts[Inst + 1 + i]
  <2>1. Rest = N - p + 1
    BY DEF Rest
  <2> HIDE DEF K, N
  <2>2. Inst + 1 + i \in (p + 1)..N /\ (Inst + 1 + i) + K - 1 = Inst' + i
    BY <1>1, <1>2, <1>7, <2>1
  <2> QED BY <1>7, <2>2
<1>10. RestGiven' /\ VisitedSubstituted'
  <2>1. substituted' = substituted \cup (IF M!Substitutable(pass, I) THEN {I.id} ELSE {})
    BY <1>1
  <2>2. Changed' <=> Changed \/ M!Substitutable(pass, I)
    BY <1>1
  <2> QED BY <1>1, <1>8, <1>9, <2>1, <2>2, Visit
<1>11. ResultsKept'
  <2>1. ASSUME NEW a \in Inputs, NEW id \in DOMAIN M!Values(intFn.insts, a)
        PROVE  /\ id \in DOMAIN M!Values(insts', a)
               /\ M!Values(insts', a)[id] = M!Values(intFn.insts, a)[id]
    <3>1. id \in DOMAIN M!Values(insts, a) /\ M!Values(insts, a)[id] = M!Values(intFn.insts, a)[id]
      BY DEF IntInv, ResultsKept
    <3>2. a \in Int \X Int /\ p \in DOMAIN insts
      BY <1>2, InputsAssumption
    <3>3. new = M!Expression(pass, insts[p], M!Fresh)
      BY DEF new
    <3>4. \A x \in DOMAIN M!Values(insts, a) :
             x \in DOMAIN M!Values(insts', a) /\ M!Values(insts', a)[x] = M!Values(insts, a)[x]
      BY <1>1, <1>2, <1>3, <3>2, <3>3, SpliceResults
    <3> QED BY <3>1, <3>4
  <2>2. \A a : M!Values(insts, a)' = M!Values(insts', a)
    BY <1>1 DEF M!Values, M!With, M!Of, M!Apply
  <2>3. \A a : M!Values(intFn.insts, a)' = M!Values(intFn.insts, a)
    BY <1>1 DEF M!Values, M!With, M!Of, M!Apply
  <2> QED BY <2>1, <2>2, <2>3 DEF ResultsKept
<1>12. M!IsCode(insts, intFn.width)' /\ M!IsCode(entry, intFn.width)'
  BY <1>1, <1>6 DEF IntInv, M!IsCode
<1> QED BY <1>1, <1>10, <1>11, <1>12 DEF IntInv

\* The next run is given the instructions as they are.
LEMMA ReturnInv ==
    ASSUME IntInv, M!Return PROVE IntInv'
<1>1. /\ passes # <<>> /\ Inst > Len(insts) /\ passes' = Tail(passes) /\ Inst' = 1 /\ Changed' = FALSE
      /\ substituted' = {} /\ entry' = insts /\ intFn' = intFn /\ insts' = insts
  BY DEF M!Return
<1>2. passes' \in Seq({"mba-add", "mba-sub"})
  BY <1>1, HeadTailProperties DEF IntInv
<1>3. Len(insts) \in Nat
  BY Lengths
<1>4. Rest' = Len(insts) /\ Visited' = 0 /\ Len(entry') = Len(insts)
  BY <1>1, <1>3 DEF Rest, Visited
<1>5. RestGiven'
  <2>1. \A i \in 0..(Rest' - 1) : Inst' + i = Visited' + 1 + i
    BY <1>1, <1>4
  <2> QED BY <1>1, <1>3, <1>4, <2>1 DEF RestGiven
<1>6. VisitedSubstituted'
  <2>1. 1..0 = {}
    OBVIOUS
  <2> QED BY <1>1, <1>4, <2>1 DEF VisitedSubstituted
<1>7. ResultsKept' <=> ResultsKept
  BY <1>1 DEF ResultsKept, M!Values, M!With, M!Of, M!Apply
<1>8. M!IsCode(insts, intFn.width)' /\ M!IsCode(entry, intFn.width)'
  BY <1>1 DEF IntInv, M!IsCode
<1> QED BY <1>1, <1>2, <1>5, <1>6, <1>7, <1>8 DEF IntInv

\* The steps of ConvertFCmpEq leave the integer instructions alone.
LEMMA IntUnchanged ==
    ASSUME IntInv, UNCHANGED mbaVars PROVE IntInv'
<1>1. /\ passes' = passes /\ Inst' = Inst /\ Changed' = Changed
      /\ substituted' = substituted /\ entry' = entry /\ intFn' = intFn /\ insts' = insts
  BY DEF mbaVars
<1>2. RestGiven' /\ VisitedSubstituted'
  BY <1>1 DEF IntInv, RestGiven, VisitedSubstituted, Rest, Visited, M!Substitutable, M!IsAdd, M!IsSub
<1>3. ResultsKept' <=> ResultsKept
  BY <1>1 DEF ResultsKept, M!Values, M!With, M!Of, M!Apply
<1>4. M!IsCode(insts, intFn.width)' /\ M!IsCode(entry, intFn.width)'
  BY <1>1 DEF IntInv, M!IsCode
<1> QED BY <1>1, <1>2, <1>3, <1>4 DEF IntInv

\* MBAAdd and MBASub, in any order and after ConvertFCmpEq, keep their invariant.
THEOREM IntInvariance == PipelineSpec => []IntInv
<1>1. PipelineInit => IntInv
  BY IntInit
<1>2. IntInv /\ [PipelineNext]_<<vars, mbaVars>> => IntInv'
  <2> SUFFICES ASSUME IntInv, [PipelineNext]_<<vars, mbaVars>> PROVE IntInv'
    OBVIOUS
  <2>1. CASE UNCHANGED mbaVars
    BY <2>1, IntUnchanged
  <2>2. CASE M!Skip
    BY <2>2, SkipInv
  <2>3. CASE M!Substitute
    BY <2>3, SubstituteInv
  <2>4. CASE M!Return
    BY <2>4, ReturnInv
  <2>5. M!Done => UNCHANGED mbaVars
    BY DEF M!Done, M!vars, mbaVars
  <2> QED BY <2>1, <2>2, <2>3, <2>4, <2>5 DEF PipelineNext, M!Next
<1> QED BY <1>1, <1>2, PTL DEF PipelineSpec

--------------------------------------------------------------------------------
(* The comparison of a difference with epsilon. *)

USE FunctionsAssumption, MaxRunsAssumption
USE DEF Value, Inf, NaN, Epsilon, Equality

\* The comparisons that the conversion leaves.
LEMMA ConvertedFCmp ==
    ASSUME NEW a, NEW b
    PROVE  /\ FCmp(CmpPred("oeq"), a, b) = (NaN \notin {a, b} /\ Less(a, b))
           /\ FCmp(CmpPred("ueq"), a, b) = (NaN \in {a, b} \/ Less(a, b))
           /\ FCmp(CmpPred("one"), a, b) = (NaN \notin {a, b} /\ ~ Less(a, b))
           /\ FCmp(CmpPred("une"), a, b) = (NaN \in {a, b} \/ ~ Less(a, b))
<1>1. /\ CmpPred("oeq") = "olt" /\ CmpPred("ueq") = "ult"
      /\ CmpPred("one") = "oge" /\ CmpPred("une") = "uge"
  BY DEF CmpPred
<1>2. /\ FCmp("olt", a, b) = (NaN \notin {a, b} /\ Less(a, b))
      /\ FCmp("ult", a, b) = (NaN \in {a, b} \/ Less(a, b))
      /\ FCmp("oge", a, b) = (NaN \notin {a, b} /\ ~ Less(a, b))
      /\ FCmp("uge", a, b) = (NaN \in {a, b} \/ ~ Less(a, b))
  BY DEF FCmp
<1> QED BY <1>1, <1>2

\* The comparisons that it finds.
LEMMA EqualityFCmp ==
    ASSUME NEW a, NEW b
    PROVE  /\ FCmp("oeq", a, b) = (NaN \notin {a, b} /\ a = b)
           /\ FCmp("ueq", a, b) = (NaN \in {a, b} \/ a = b)
           /\ FCmp("one", a, b) = (NaN \notin {a, b} /\ a # b)
           /\ FCmp("une", a, b) = (NaN \in {a, b} \/ a # b)
BY DEF FCmp

\* An unordered comparison depends on the predicate only, and the difference is then
\* unordered as well.
LEMMA KeptUnordered ==
    ASSUME NEW l \in Value, NEW r \in Value, NEW p \in Equality, NaN \in {l, r}
    PROVE  FCmp(CmpPred(p), AbsValue(FSub(l, r)), Epsilon) = FCmp(p, l, r)
<1>1. FSub(l, r) = NaN
  BY DEF FSub
<1>2. AbsValue(NaN) = NaN
  BY DEF AbsValue
<1> QED BY <1>1, <1>2, ConvertedFCmp, EqualityFCmp

\* The difference from an infinity is infinite, and above epsilon.
LEMMA KeptInfinite ==
    ASSUME NEW l \in Value, NEW r \in Value, NEW p \in Equality,
           NaN \notin {l, r}, l # r, "inf" \in {l[1], r[1]}
    PROVE  FCmp(CmpPred(p), AbsValue(FSub(l, r)), Epsilon) = FCmp(p, l, r)
<1>1. FSub(l, r) \in {Inf(1), Inf(-1)}
  <2>1. CASE l[1] = "inf"
    BY <2>1 DEF FSub
  <2>2. CASE l[1] # "inf" /\ r[1] = "inf"
    <3>1. r \in {Inf(1), Inf(-1)}
      BY <2>2
    <3>2. FSub(l, r) = Inf(-r[2])
      BY <2>2 DEF FSub
    <3> QED BY <3>1, <3>2
  <2> QED BY <2>1, <2>2
<1>2. AbsValue(FSub(l, r)) = Inf(1)
  BY <1>1 DEF AbsValue
<1>3. ~ Less(Inf(1), Epsilon) /\ NaN \notin {Inf(1), Epsilon}
  BY DEF Less
<1> QED BY <1>2, <1>3, ConvertedFCmp, EqualityFCmp

\* Finite operands that are equal differ by zero; of the others only those that differ by
\* less than epsilon are taken for equal.
LEMMA KeptFinite ==
    ASSUME NEW a \in Int, NEW b \in Int, NEW p \in Equality
    PROVE  LET l == <<"fin", a>>  r == <<"fin", b>>
           IN  \/ FCmp(CmpPred(p), AbsValue(FSub(l, r)), Epsilon) = FCmp(p, l, r)
               \/ l # r /\ Less(AbsValue(FSub(l, r)), Epsilon)
<1> DEFINE l == <<"fin", a>>  r == <<"fin", b>>
<1>1. FSub(l, r) = <<"fin", a - b>>
  BY DEF FSub
<1>2. PICK d \in Nat : AbsValue(FSub(l, r)) = <<"fin", d>> /\ (a = b => d = 0)
  <2>1. CASE a < b
    <3>1. b - a \in Nat /\ -(a - b) = b - a
      BY <2>1
    <3>2. AbsValue(<<"fin", a - b>>) = <<"fin", b - a>>
      BY <2>1, <3>1 DEF AbsValue
    <3> QED BY <1>1, <2>1, <3>1, <3>2
  <2>2. CASE a >= b
    <3>1. a - b \in Nat /\ AbsValue(<<"fin", a - b>>) = <<"fin", a - b>>
      BY <2>2 DEF AbsValue
    <3> QED BY <1>1, <3>1
  <2>3. a < b \/ a >= b
    OBVIOUS
  <2> QED BY ONLY <2>1, <2>2, <2>3
<1>3. Less(<<"fin", d>>, Epsilon) <=> d < 2
  BY DEF Less
<1>4. NaN \notin {l, r} /\ NaN \notin {<<"fin", d>>, Epsilon}
  OBVIOUS
<1>5. CASE a = b
  <2>1. Less(<<"fin", d>>, Epsilon) /\ l = r
    BY <1>2, <1>3, <1>5
  <2> QED BY <1>2, <1>4, <2>1, ConvertedFCmp, EqualityFCmp
<1>6. CASE a # b /\ ~ Less(<<"fin", d>>, Epsilon)
  <2>1. l # r
    BY <1>6
  <2> QED BY <1>2, <1>4, <1>6, <2>1, ConvertedFCmp, EqualityFCmp
<1> QED BY <1>2, <1>5, <1>6

\* What the conversion of a comparison may change.
LEMMA Kept ==
    ASSUME NEW l \in Value, NEW r \in Value, NEW p \in Equality
    PROVE  \/ FCmp(CmpPred(p), AbsValue(FSub(l, r)), Epsilon) = FCmp(p, l, r)
           \/ l # r /\ Less(AbsValue(FSub(l, r)), Epsilon)
           \/ l = r /\ l[1] = "inf"
<1>1. CASE NaN \in {l, r}
  BY <1>1, KeptUnordered
<1>2. CASE NaN \notin {l, r} /\ "inf" \in {l[1], r[1]}
  BY <1>2, KeptInfinite
<1>3. CASE NaN \notin {l, r} /\ "inf" \notin {l[1], r[1]}
  <2>1. PICK a \in Int, b \in Int : l = <<"fin", a>> /\ r = <<"fin", b>>
    BY <1>3
  <2> QED BY <2>1, KeptFinite
<1> QED BY <1>1, <1>2, <1>3

--------------------------------------------------------------------------------
(* The inductive invariant. *)

USE DEF Insts, isEquality

Equalities == {i \in Insts : isEquality(fn.insts[i].pred)}

\* The converted comparisons are among the equalities and have their new predicate; every
\* other instruction has its own.
ConvertedInv ==
    /\ converted \subseteq Equalities
    /\ \A i \in converted : pred[i] = CmpPred(fn.insts[i].pred)
    /\ \A i \in Insts \ converted : pred[i] = fn.insts[i].pred

\* What is in the vector: nothing in an optnone function, else, while the pass runs, all
\* equalities that are left.  Between runs none or all are converted.
ComparisonsInv ==
    /\ Comparisons \subseteq Equalities \ converted
    /\ fn.optnone => Comparisons = {} /\ converted = {}
    /\ status = "converting" /\ ~ fn.optnone => Equalities \ converted \subseteq Comparisons
    /\ status = "idle" => Comparisons = {} /\ (converted = {} \/ converted = Equalities)

Types ==
    /\ fn \in [optnone : BOOLEAN, insts : Seq(Instruction)]
    /\ pred \in [Insts -> Predicate \cup {"none"}]
    /\ Modified \in BOOLEAN /\ runs \in 0..MaxRuns
    /\ status \in {"idle", "converting", "crashed"}

IInv == Types /\ ConvertedInv /\ ComparisonsInv

LEMMA CmpPredNew ==
    ASSUME NEW p \in Equality
    PROVE  CmpPred(p) \in Predicate \ Equality
BY DEF CmpPred, Predicate

LEMMA InitInv == Init => IInv
<1> SUFFICES ASSUME Init PROVE IInv
  OBVIOUS
<1> USE DEF Init
<1>1. fn \in [optnone : BOOLEAN, insts : Seq(Instruction)]
  OBVIOUS
<1>2. \A i \in Insts : fn.insts[i] \in Instruction
  BY <1>1
<1>3. pred \in [Insts -> Predicate \cup {"none"}]
  BY <1>2 DEF Instruction
<1>4. Types
  <2>1. Modified = FALSE /\ runs = 0 /\ status = "idle"
    OBVIOUS
  <2>2. Modified \in BOOLEAN
    BY ONLY <2>1, Zenon
  <2>3. runs \in 0..MaxRuns
    BY <2>1
  <2> QED BY ONLY <1>1, <1>3, <2>1, <2>2, <2>3 DEF Types
<1>5. ConvertedInv /\ ComparisonsInv
  BY DEF ConvertedInv, ComparisonsInv, Equalities
<1> QED BY <1>4, <1>5 DEF IInv

\* The next comparison is one of the vector's.
LEMMA NextOfComparisons ==
    ASSUME IInv, Comparisons # {}
    PROVE  /\ NextComparison \in Comparisons
           /\ NextComparison \in Equalities \ converted
           /\ pred[NextComparison] = fn.insts[NextComparison].pred
<1>1. Comparisons \subseteq Insts /\ Insts \subseteq Nat
  BY DEF IInv, Types, ComparisonsInv, Equalities
<1>2. \E i \in Comparisons : \A j \in Comparisons : i <= j
  <2> DEFINE R == OpToRel(<, Nat)
  <2>1. IsWellFoundedOn(R, Nat)
    BY NatLessThanWellFounded
  <2>2. PICK i \in Comparisons : \A j \in Comparisons : <<j, i>> \notin R
    <3> HIDE DEF R
    <3> QED BY <1>1, <2>1, WFMin
  <2>3. \A j \in Comparisons : ~ (j < i)
    BY <1>1, <2>2 DEF OpToRel
  <2> QED BY <1>1, <2>3
<1>3. NextComparison \in Comparisons
  BY <1>2 DEF NextComparison
<1> QED BY <1>3 DEF IInv, ComparisonsInv, ConvertedInv, Equalities

LEMMA StepInv == IInv /\ [Next]_vars => IInv'
<1> SUFFICES ASSUME IInv, [Next]_vars PROVE IInv'
  OBVIOUS
<1>1. CASE Run
  <2>1. /\ UNCHANGED <<fn, pred, converted>> /\ status' = "converting"
        /\ Comparisons' = (IF fn.optnone THEN {} ELSE FindFCmpEq)
        /\ converted = {} \/ converted = Equalities
    BY <1>1 DEF Run, Ignored, IInv, ComparisonsInv
  <2>2. Types'
    <3>1. runs' \in 0..MaxRuns /\ Modified' = FALSE
      BY <1>1 DEF Run, IInv, Types
    <3> QED BY <2>1, <3>1 DEF IInv, Types
  <2>3. ConvertedInv'
    BY <2>1 DEF IInv, ConvertedInv, Equalities
  <2>4. FindFCmpEq = Equalities \ converted
    <3>1. \A i \in converted : i \in Insts /\ ~ isEquality(pred[i])
      BY CmpPredNew DEF IInv, ConvertedInv, Equalities
    <3>2. \A i \in Insts \ converted : pred[i] = fn.insts[i].pred
      BY DEF IInv, ConvertedInv
    <3> QED BY <3>1, <3>2 DEF FindFCmpEq, Equalities
  <2>5. ComparisonsInv'
    BY <2>1, <2>4 DEF IInv, ComparisonsInv, Equalities
  <2> QED BY <2>2, <2>3, <2>5 DEF IInv
<1>2. CASE Convert
  <2> DEFINE n == NextComparison
  <2>1. /\ n \in Comparisons /\ n \in Equalities \ converted
        /\ pred[n] = fn.insts[n].pred /\ n \in Insts /\ pred[n] \in Equality
    BY <1>2, NextOfComparisons DEF Convert, Equalities
  <2>2. /\ UNCHANGED <<fn, runs, status>> /\ status = "converting"
        /\ pred' = [pred EXCEPT ![n] = CmpPred(@)]
        /\ converted' = converted \cup {n}
        /\ Comparisons' = Comparisons \ {n}
        /\ Modified' = TRUE
    BY <1>2, <2>1 DEF Convert
  <2> HIDE DEF n
  <2>3. CmpPred(pred[n]) \in Predicate
    BY <2>1, CmpPredNew
  <2>4. Types'
    BY <2>1, <2>2, <2>3 DEF IInv, Types
  <2>5. ConvertedInv'
    BY <2>1, <2>2 DEF IInv, Types, ConvertedInv, Equalities
  <2>6. ComparisonsInv'
    BY <2>1, <2>2 DEF IInv, ComparisonsInv, Equalities
  <2> QED BY <2>4, <2>5, <2>6 DEF IInv
<1>3. CASE InvalidCast
  BY <1>3 DEF InvalidCast, IInv, Types, ConvertedInv, ComparisonsInv, Equalities
<1>4. CASE Return
  <2>1. /\ UNCHANGED <<fn, pred, converted, Comparisons, Modified, runs>>
        /\ status = "converting" /\ Comparisons = {} /\ status' = "idle"
    BY <1>4 DEF Return
  <2>2. converted = {} \/ converted = Equalities
    BY <2>1 DEF IInv, ConvertedInv, ComparisonsInv, Types
  <2> QED BY <2>1, <2>2 DEF IInv, Types, ConvertedInv, ComparisonsInv, Equalities
<1>5. CASE UNCHANGED vars
  BY <1>5 DEF vars, IInv, Types, ConvertedInv, ComparisonsInv, Equalities
<1> QED BY <1>1, <1>2, <1>3, <1>4, <1>5 DEF Next, Stopped

\* The invariant holds for every function, however often the pass is run.
THEOREM Invariant == Spec => []IInv
BY InitInv, StepInv, PTL DEF Spec

--------------------------------------------------------------------------------
(* What it implies. *)

LEMMA InvType == IInv => TypeOK
<1> SUFFICES ASSUME IInv PROVE TypeOK
  OBVIOUS
<1>1. converted \subseteq {i \in FCmps : isEquality(fn.insts[i].pred) /\ ~ fn.optnone}
  BY DEF IInv, ConvertedInv, ComparisonsInv, Equalities, FCmps
<1>2. Comparisons \subseteq {i \in Insts : isEquality(pred[i])}
  BY DEF IInv, ConvertedInv, ComparisonsInv, Equalities
<1> QED BY <1>1, <1>2 DEF TypeOK, IInv, Types, ConvertedInv

\* An instruction and its operands.
LEMMA Operands ==
    ASSUME IInv, NEW i \in Insts
    PROVE  fn.insts[i].lhs \in Value /\ fn.insts[i].rhs \in Value
<1>1. fn.insts \in Seq(Instruction)
  BY DEF IInv, Types
<1>2. fn.insts[i] \in Instruction
  BY <1>1
<1> HIDE DEF Value
<1> QED BY <1>2 DEF Instruction

LEMMA InvOutcomes == IInv => OutcomesKept
<1> SUFFICES ASSUME IInv, NEW i \in FCmps
             PROVE  LET l == fn.insts[i].lhs  r == fn.insts[i].rhs
                    IN  \/ Now(i) = Before(i)
                        \/ l # r /\ Less(AbsValue(FSub(l, r)), Epsilon)
                        \/ l = r /\ l[1] = "inf"
  BY DEF OutcomesKept
<1> DEFINE l == fn.insts[i].lhs  r == fn.insts[i].rhs
<1>1. l \in Value /\ r \in Value
  BY Operands DEF FCmps
<1>2. CASE i \in converted
  <2>1. /\ fn.insts[i].pred \in Equality
        /\ pred[i] = CmpPred(fn.insts[i].pred)
    BY <1>2 DEF IInv, ConvertedInv, Equalities
  <2>2. Now(i) = FCmp(CmpPred(fn.insts[i].pred), AbsValue(FSub(l, r)), Epsilon)
    BY <1>2, <2>1 DEF Now
  <2>3. Before(i) = FCmp(fn.insts[i].pred, l, r)
    BY DEF Before
  <2> HIDE DEF l, r, Value, Equality, Epsilon
  <2> QED BY <1>1, <2>1, <2>2, <2>3, Kept DEF l, r
<1>3. CASE i \notin converted
  <2>1. pred[i] = fn.insts[i].pred
    BY <1>3 DEF IInv, ConvertedInv, FCmps
  <2> QED BY <1>3, <2>1 DEF Now, Before
<1> QED BY <1>2, <1>3

LEMMA InvComplementary == IInv => StillComplementary
<1> SUFFICES ASSUME IInv, status = "idle", NEW i \in FCmps, NEW j \in FCmps,
                    fn.insts[i].lhs = fn.insts[j].lhs, fn.insts[i].rhs = fn.insts[j].rhs,
                    <<fn.insts[i].pred, fn.insts[j].pred>>
                        \in {<<"oeq", "une">>, <<"ueq", "one">>}
             PROVE  Now(i) # Now(j)
  BY DEF StillComplementary
<1> DEFINE l == fn.insts[i].lhs  r == fn.insts[i].rhs
<1>1. \/ fn.insts[i].pred = "oeq" /\ fn.insts[j].pred = "une"
      \/ fn.insts[i].pred = "ueq" /\ fn.insts[j].pred = "one"
  OBVIOUS
<1>2. i \in Equalities /\ j \in Equalities
  BY <1>1 DEF Equalities, FCmps
<1>3. CASE converted = {}
  <2>1. pred[i] = fn.insts[i].pred /\ pred[j] = fn.insts[j].pred
    BY <1>3 DEF IInv, ConvertedInv, FCmps
  <2>2. Now(i) = FCmp(fn.insts[i].pred, l, r) /\ Now(j) = FCmp(fn.insts[j].pred, l, r)
    BY <1>3, <2>1 DEF Now
  <2> HIDE DEF l, r
  <2> QED BY <1>1, <2>2, EqualityFCmp
<1>4. CASE converted = Equalities
  <2> DEFINE d == AbsValue(FSub(l, r))
  <2>1. /\ pred[i] = CmpPred(fn.insts[i].pred) /\ pred[j] = CmpPred(fn.insts[j].pred)
        /\ i \in converted /\ j \in converted
    BY <1>2, <1>4 DEF IInv, ConvertedInv
  <2>2. /\ Now(i) = FCmp(CmpPred(fn.insts[i].pred), d, Epsilon)
        /\ Now(j) = FCmp(CmpPred(fn.insts[j].pred), d, Epsilon)
    BY <2>1 DEF Now
  <2> HIDE DEF d
  <2> QED BY <1>1, <2>2, ConvertedFCmp
<1> QED BY <1>3, <1>4 DEF IInv, ComparisonsInv

\* Only equality comparisons are converted, and none in a function marked optnone.
THEOREM TypeCorrect == Spec => []TypeOK
BY Invariant, InvType, PTL

\* However often the pass runs, it changes the outcome of a comparison only for operands
\* that differ by less than epsilon, and for two infinities of the same sign.
THEOREM Outcomes == Spec => []OutcomesKept
BY Invariant, InvOutcomes, PTL

\* Between runs of the pass, a comparison and its negation still exclude each other.
THEOREM Complementary == Spec => []StillComplementary
BY Invariant, InvComplementary, PTL

--------------------------------------------------------------------------------
(* The pipeline. *)

\* What ConvertFCmpEq does is as without the other passes.
THEOREM PipelineConverts == PipelineSpec => Spec
<1>1. PipelineInit => Init
  BY DEF PipelineInit
<1>2. [PipelineNext]_<<vars, mbaVars>> => [Next]_vars
  BY DEF PipelineNext
<1> QED BY <1>1, <1>2, PTL DEF PipelineSpec, Spec

\* The values of a function's instructions are, whichever passes have been run on each
\* other's output, what they were before, for every width, function and input.
THEOREM ResultsSame == PipelineSpec => []SameResults
<1>1. IntInv => SameResults
  BY DEF IntInv, ResultsKept, SameResults, M!SameResults
<1> QED BY <1>1, IntInvariance, PTL

\* A run of MBAAdd or MBASub that has come to the end of the function has substituted each
\* instruction it was given that it is meant for, and no other.
THEOREM SubstitutesAll == PipelineSpec => []AllSubstituted
<1>1. IntInv => AllSubstituted
  <2> SUFFICES ASSUME IntInv, passes # <<>>, Inst > Len(insts)
               PROVE  substituted = {I.id : I \in {I \in M!ToSet(entry) :
                         IF Head(passes) = "mba-add" THEN I.op = "add" /\ intFn.width = 8
                         ELSE I.op = "sub"}}
    BY Zenon DEF AllSubstituted, M!AllSubstituted
  <2>1. Visited = Len(entry) /\ Len(entry) \in Nat /\ DOMAIN entry = 1..Len(entry)
    BY Lengths DEF Visited, Rest
  <2>2. substituted = {entry[j].id : j \in {j \in 1..Visited : M!Substitutable(Head(passes), entry[j])}}
    BY DEF IntInv, VisitedSubstituted
  <2>3. M!ToSet(entry) = {entry[j] : j \in 1..Visited}
    BY <2>1 DEF M!ToSet
  <2>4. \A I : M!Substitutable(Head(passes), I) <=> IF Head(passes) = "mba-add" THEN I.op = "add" /\ intFn.width = 8
                                                   ELSE I.op = "sub"
    BY DEF M!Substitutable, M!IsAdd, M!IsSub
  <2>5. substituted = {I.id : I \in {I \in M!ToSet(entry) : M!Substitutable(Head(passes), I)}}
    BY <2>2, <2>3
  <2> QED BY <2>4, <2>5, Zenon
<1> QED BY <1>1, IntInvariance, PTL

\* Only equality comparisons are converted, and only instructions that the run was given
\* are substituted; a run is marked as a change if there are any.
THEOREM TypesCorrect == PipelineSpec => []TypesOK
<1>1. IntInv => M!TypeOK
  <2> SUFFICES ASSUME IntInv PROVE M!TypeOK
    OBVIOUS
  <2>1. Inst \in 1..(Len(insts) + 1) /\ \A p, q \in DOMAIN insts : insts[p].id = insts[q].id => p = q
    BY CodeFacts DEF IntInv, RestGiven
  <2>2. Visited \in 0..Len(entry) /\ Len(entry) \in Nat /\ DOMAIN entry = 1..Len(entry)
    BY Lengths DEF IntInv, RestGiven
  <2>3. substituted \subseteq
          {I.id : I \in {I \in M!ToSet(entry) : passes # <<>> /\ M!Substitutable(Head(passes), I)}}
    <3> SUFFICES ASSUME NEW id \in substituted
                 PROVE  \E I \in M!ToSet(entry) :
                            passes # <<>> /\ M!Substitutable(Head(passes), I) /\ I.id = id
      OBVIOUS
    <3>1. PICK j \in 1..Visited : M!Substitutable(Head(passes), entry[j]) /\ entry[j].id = id
      BY DEF IntInv, VisitedSubstituted
    <3>2. entry[j] \in M!ToSet(entry)
      BY <2>2 DEF M!ToSet
    <3>3. passes # <<>>
      <4>1. Visited # 0
        BY <2>2
      <4> QED BY <4>1 DEF IntInv, VisitedSubstituted
    <3> QED BY <3>1, <3>2, <3>3
  <2>4. Changed <=> substituted # {}
    BY DEF IntInv, VisitedSubstituted
  <2> QED BY <2>1, <2>3, <2>4 DEF M!TypeOK
<1>2. IntInv /\ TypeOK => TypesOK
  BY <1>1 DEF TypesOK
<1> QED BY <1>2, IntInvariance, PipelineConverts, TypeCorrect, PTL

================================================================================
