-------------------------- MODULE DynamicCallCounter_proofs -------------------------
(***************************************************************************)
(* What the counters of an instrumented program say, for any number of     *)
(* threads, functions, calls and any width of the counters: bounds under   *)
(* races, exact counts without, and that the program implements            *)
(* CallCounts.                                                             *)
(***************************************************************************)
EXTENDS DynamicCallCounter, FiniteSetTheorems, TLAPS

USE ConstantsAssumption

--------------------------------------------------------------------------------
LEMMA TypeInit == Init => TypeOK
BY DEF Init, TypeOK, Counts, Names, None

\* Every step of the pass and of the program keeps the types.
LEMMA TypeStep == TypeOK /\ [Next]_vars => TypeOK'
<1> SUFFICES ASSUME TypeOK, [Next]_vars PROVE TypeOK'
  OBVIOUS
<1> USE DEF TypeOK, Counts
<1>1. CASE RunPass
  <2>1. passes' = passes + 1 /\ passes' \in 1..MaxPasses
    BY <1>1 DEF RunPass
  <2>2. definitions' \subseteq Names /\ listed' \subseteq definitions' /\ listed \subseteq listed'
    BY <1>1 DEF RunPass, Names
  <2>3. increments' \in [Names -> 0..passes']
    BY <1>1, <2>1 DEF RunPass
  <2>4. dtors' \in 0..passes' /\ dtorsLeft' \in 0..dtors'
    BY <1>1, <2>1 DEF RunPass, exiting
  <2> QED BY <1>1, <2>1, <2>2, <2>3, <2>4 DEF RunPass, exiting
<1>2. CASE Start
  BY <1>2 DEF Start, compiled, exiting
<1>3. CASE Exit
  BY <1>3 DEF Exit, compiled
<1>4. CASE CallWrapper
  <2>1. Wrapper \in Names
    BY DEF Names
  <2>2. increments[Wrapper] \in Nat /\ executed[Wrapper] \in Nat
    BY <2>1
  <2>3. thread' \in [Threads -> [fn : Names, left : Nat, loaded : 0..(Modulus - 1) \cup {None}]]
    BY <1>4, <2>1, <2>2 DEF CallWrapper, Enter
  <2>4. executed' \in [Names -> Nat]
    BY <1>4, <2>1, <2>2 DEF CallWrapper, Enter
  <2>5. dtorsLeft' \in 0..dtors
    BY <1>4 DEF CallWrapper
  <2> QED BY <1>4, <2>3, <2>4, <2>5 DEF CallWrapper, compiled
<1>5. CASE End
  BY <1>5 DEF End, compiled, exiting
<1>6. CASE Abort
  BY <1>6 DEF Abort, compiled, exiting
<1>7. CASE Over \/ UNCHANGED vars
  BY <1>7 DEF Over, vars, compiled, exiting
<1>8. ASSUME NEW t \in Threads, StartThread(t) PROVE TypeOK'
  BY <1>8 DEF StartThread, compiled, exiting
<1>9. ASSUME NEW t \in Threads, Load(t) PROVE TypeOK'
  <2>1. thread[t].fn \in Names /\ counter[thread[t].fn] \in 0..(Modulus - 1)
    OBVIOUS
  <2>2. thread' \in [Threads -> [fn : Names, left : Nat, loaded : 0..(Modulus - 1) \cup {None}]]
    BY <1>9, <2>1 DEF Load, Proceed
  <2> QED BY <1>9, <2>2 DEF Load, Proceed, compiled, exiting
<1>10. ASSUME NEW t \in Threads, Store(t) PROVE TypeOK'
  <2>1. thread[t].left \in Nat \ {0} /\ thread[t].loaded \in 0..(Modulus - 1)
    BY <1>10 DEF Store, Proceed, InBody
  <2>2. (thread[t].loaded + 1) % Modulus \in 0..(Modulus - 1)
    BY <2>1
  <2>3. counter' \in [Names -> 0..(Modulus - 1)]
    BY <1>10, <2>2 DEF Store, Proceed
  <2>4. thread' \in [Threads -> [fn : Names, left : Nat, loaded : 0..(Modulus - 1) \cup {None}]]
    BY <1>10, <2>1 DEF Store, Proceed
  <2> QED BY <1>10, <2>3, <2>4 DEF Store, Proceed, compiled, exiting
<1>11. ASSUME NEW t \in Threads, NEW f \in Defined, Execute(t, f) PROVE TypeOK'
  <2>1. f \in Names
    BY DEF Names
  <2>2. increments[f] \in Nat /\ executed[f] \in Nat
    BY <2>1
  <2>3. thread' \in [Threads -> [fn : Names, left : Nat, loaded : 0..(Modulus - 1) \cup {None}]]
    BY <1>11, <2>1, <2>2 DEF Execute, Enter
  <2>4. executed' \in [Names -> Nat]
    BY <1>11, <2>1, <2>2 DEF Execute, Enter
  <2> QED BY <1>11, <2>3, <2>4 DEF Execute, compiled, exiting
<1>12. ASSUME NEW f \in Names, PrintCount(f) PROVE TypeOK'
  BY <1>12 DEF PrintCount, compiled
<1> QED BY <1>1, <1>2, <1>3, <1>4, <1>5, <1>6, <1>7, <1>8, <1>9, <1>10, <1>11, <1>12 DEF Next

\* Type correctness of the pass and of the program it instruments.
THEOREM CounterTypeCorrect == Spec => []TypeOK
BY TypeInit, TypeStep, PTL DEF Spec

--------------------------------------------------------------------------------
\* The executions of f that are past its prologue.
Past(f) == executed[f] - Cardinality(InFlight(f))

\* The module has not started as a program.
Unstarted ==
    /\ \A f \in Names : counter[f] = 0 /\ executed[f] = 0
    /\ \A t \in Threads : InBody(t)
    /\ DOMAIN printed = {}

\* Thread t, if it is in the prologue of f, has one increment left to do, and has
\* loaded no more than the number of executions past the prologue, its own apart.
Prologue(t, f) ==
    ~ InBody(t) /\ thread[t].fn = f =>
        /\ thread[t].left = 1 /\ increments[f] = 1
        /\ thread[t].loaded # None /\ executed[f] < Modulus => thread[t].loaded <= Past(f)

\* Until the counter of f may wrap around.
Bounded(f) ==
    executed[f] < Modulus =>
        /\ counter[f] <= Past(f)
        /\ (increments[f] > 0 /\ Past(f) > 0) => counter[f] > 0
        /\ f \in DOMAIN printed => printed[f] <= executed[f]

\* Why the bounds hold in a module instrumented at most once: what a thread stores
\* is one more than the executions it found counted, and by then its own is past
\* the prologue as well, however old the value it loaded is.
CountInv ==
    passes <= 1 =>
        /\ phase = "compile" => Unstarted
        /\ \A t \in Threads, f \in Names : Prologue(t, f)
        /\ \A f \in Names : Bounded(f)

LEMMA InFlightFinite ==
    ASSUME NEW f
    PROVE  IsFiniteSet(InFlight(f)) /\ Cardinality(InFlight(f)) \in Nat
BY FS_Subset, FS_CardinalityType DEF InFlight

\* When all that changes of the threads is what one has loaded, or nothing, the same
\* executions are past their prologue.
LEMMA PastSame ==
    ASSUME NEW f, executed' = executed,
           \A t \in Threads : thread'[t].fn = thread[t].fn /\ thread'[t].left = thread[t].left
    PROVE  Past(f)' = Past(f)
BY DEF Past, InFlight, InBody

\* Entering a function that has a prologue leaves as many executions past it; an
\* execution of one that has none is past it at once.
LEMMA PastEnter ==
    ASSUME TypeOK, NEW t \in Threads, NEW f \in Names, InBody(t), Enter(t, f), NEW g \in Names
    PROVE  Past(g)' = IF g = f /\ increments[f] = 0 THEN Past(g) + 1 ELSE Past(g)
<1>1. thread' = [thread EXCEPT ![t] = [fn |-> f, left |-> increments[f], loaded |-> None]]
  BY DEF Enter
<1>2. /\ thread'[t].fn = f /\ thread'[t].left = increments[f]
      /\ \A u \in Threads \ {t} : thread'[u] = thread[u]
  BY <1>1 DEF TypeOK
<1>3. executed' = [executed EXCEPT ![f] = @ + 1] /\ executed \in [Names -> Nat]
  BY DEF Enter, TypeOK
<1>4. t \notin InFlight(g)
  BY DEF InFlight
<1>5. CASE g = f /\ increments[f] # 0
  <2>1. InFlight(g)' = InFlight(g) \cup {t}
    BY <1>2, <1>5 DEF InFlight, InBody
  <2>2. Cardinality(InFlight(g) \cup {t}) = Cardinality(InFlight(g)) + 1
    BY <1>4, InFlightFinite, FS_AddElement
  <2>3. Cardinality(InFlight(g))' = Cardinality(InFlight(g)) + 1
    BY <2>1, <2>2
  <2>4. executed'[g] = executed[g] + 1 /\ executed[g] \in Nat
    BY <1>3, <1>5
  <2> QED BY <2>3, <2>4, <1>5, InFlightFinite DEF Past
<1>6. CASE ~ (g = f /\ increments[f] # 0)
  <2>1. InFlight(g)' = InFlight(g)
    BY <1>2, <1>4, <1>6 DEF InFlight, InBody
  <2>2. executed'[g] = (IF g = f THEN executed[g] + 1 ELSE executed[g]) /\ executed[g] \in Nat
    BY <1>3
  <2> QED BY <2>1, <2>2, <1>6, InFlightFinite DEF Past
<1> QED BY <1>5, <1>6

\* The last increment of a prologue takes one execution past it.
LEMMA PastStore ==
    ASSUME TypeOK, NEW t \in Threads, Store(t), thread[t].left = 1, NEW g \in Names
    PROVE  Past(g)' = IF g = thread[t].fn THEN Past(g) + 1 ELSE Past(g)
<1>1. /\ thread'[t].fn = thread[t].fn /\ thread'[t].left = 0
      /\ \A u \in Threads \ {t} : thread'[u] = thread[u]
  BY DEF TypeOK, Store, Proceed
<1>2. executed' = executed /\ executed[g] \in Nat
  BY DEF Store, Proceed, TypeOK
<1>3. CASE g = thread[t].fn
  <2>1. t \in InFlight(g) /\ InFlight(g)' = InFlight(g) \ {t}
    BY <1>1, <1>3 DEF InFlight, InBody
  <2>2. Cardinality(InFlight(g) \ {t}) = Cardinality(InFlight(g)) - 1
    BY <2>1, InFlightFinite, FS_RemoveElement
  <2>3. Cardinality(InFlight(g))' = Cardinality(InFlight(g)) - 1
    BY <2>1, <2>2
  <2> QED BY <2>3, <1>2, <1>3, InFlightFinite DEF Past
<1>4. CASE g # thread[t].fn
  <2>1. InFlight(g)' = InFlight(g)
    BY <1>1, <1>4 DEF InFlight, InBody
  <2> QED BY <2>1, <1>2, <1>4 DEF Past
<1> QED BY <1>3, <1>4

LEMMA CountInit == Init => CountInv
<1> SUFFICES ASSUME Init PROVE CountInv
  OBVIOUS
<1>1. Unstarted
  BY DEF Init, Unstarted, InBody
<1>2. \A f \in Names : Past(f) = 0
  <2> SUFFICES ASSUME NEW f \in Names PROVE Past(f) = 0
    OBVIOUS
  <2>1. InFlight(f) = {}
    BY <1>1 DEF Unstarted, InFlight
  <2> QED BY <2>1, <1>1, FS_EmptySet DEF Past, Unstarted
<1> QED BY <1>1, <1>2 DEF CountInv, Unstarted, Prologue, Bounded

\* Steps that change neither the counters nor the threads keep the bounds.
LEMMA CountSame ==
    ASSUME CountInv, passes' = passes, increments' = increments, phase' # "compile",
           UNCHANGED <<counter, thread, executed, printed>>
    PROVE  CountInv'
<1>1. \A f \in Names : Past(f)' = Past(f)
  BY PastSame
<1> QED BY <1>1 DEF CountInv, InBody, Prologue, Bounded

LEMMA CountRunPass == TypeOK /\ CountInv /\ RunPass => CountInv'
<1> SUFFICES ASSUME TypeOK, CountInv, RunPass, passes' <= 1 PROVE CountInv'
  BY DEF CountInv
<1>1. passes = 0
  BY DEF RunPass, TypeOK
<1>2. Unstarted /\ Unstarted'
  BY <1>1 DEF CountInv, RunPass, Unstarted, InBody, exiting
<1>3. \A f \in Names : Past(f)' = 0
  <2> SUFFICES ASSUME NEW f \in Names PROVE Past(f)' = 0
    OBVIOUS
  <2>1. InFlight(f)' = {}
    BY <1>2 DEF Unstarted, InFlight
  <2>2. Cardinality(InFlight(f))' = 0
    BY <2>1, FS_EmptySet
  <2> QED BY <1>2, <2>2 DEF Past, Unstarted
<1> QED BY <1>2, <1>3 DEF CountInv, Unstarted, Prologue, Bounded

LEMMA CountEnter ==
    ASSUME TypeOK, CountInv, NEW t \in Threads, NEW f \in Names, InBody(t), Enter(t, f),
           phase # "compile", UNCHANGED <<compiled, phase, counter, printed>>
    PROVE  CountInv'
<1> SUFFICES ASSUME passes <= 1 PROVE CountInv'
  BY DEF CountInv, compiled
<1>1. /\ thread'[t].fn = f /\ thread'[t].left = increments[f] /\ thread'[t].loaded = None
      /\ \A u \in Threads \ {t} : thread'[u] = thread[u]
  BY DEF TypeOK, Enter
<1>2. \A g \in Names : /\ executed[g] \in Nat
                       /\ executed'[g] = IF g = f THEN executed[g] + 1 ELSE executed[g]
  BY DEF TypeOK, Enter
<1>3. \A g \in Names : /\ Past(g)' = IF g = f /\ increments[f] = 0 THEN Past(g) + 1 ELSE Past(g)
                       /\ Past(g) \in Int
  BY <1>2, PastEnter, InFlightFinite DEF Past
<1>4. increments' = increments /\ \A g \in Names : increments[g] \in 0..1
  BY DEF TypeOK, compiled
<1>5. ASSUME NEW u \in Threads, NEW g \in Names PROVE Prologue(u, g)'
  <2>1. CASE u = t
    BY <2>1, <1>1, <1>4 DEF InBody, Prologue
  <2>2. CASE u # t
    <3> SUFFICES ASSUME ~ InBody(u)', thread'[u].fn = g
                 PROVE  /\ thread'[u].left = 1 /\ increments'[g] = 1
                        /\ thread'[u].loaded # None /\ executed'[g] < Modulus =>
                              thread'[u].loaded <= Past(g)'
      BY DEF Prologue
    <3>1. thread'[u] = thread[u] /\ ~ InBody(u)
      BY <2>2, <1>1 DEF InBody
    <3>2. /\ thread[u].left = 1 /\ increments[g] = 1
          /\ thread[u].loaded # None /\ executed[g] < Modulus => thread[u].loaded <= Past(g)
      BY <3>1 DEF CountInv, Prologue
    <3>3. Past(g)' = Past(g)
      BY <3>2, <1>3
    <3>4. executed'[g] < Modulus => executed[g] < Modulus
      BY <1>2
    <3> QED BY <3>1, <3>2, <3>3, <3>4, <1>4
  <2> QED BY <2>1, <2>2
<1>6. ASSUME NEW g \in Names PROVE Bounded(g)'
  <2> SUFFICES ASSUME executed'[g] < Modulus
               PROVE  /\ counter'[g] <= Past(g)'
                      /\ (increments'[g] > 0 /\ Past(g)' > 0) => counter'[g] > 0
                      /\ g \in DOMAIN printed' => printed'[g] <= executed'[g]
    BY DEF Bounded
  <2>1. executed[g] \in Nat /\ executed[g] <= executed'[g] /\ executed[g] < Modulus /\ executed'[g] \in Nat
    BY <1>2
  <2>2. /\ counter[g] <= Past(g)
        /\ (increments[g] > 0 /\ Past(g) > 0) => counter[g] > 0
        /\ g \in DOMAIN printed => printed[g] <= executed[g]
    BY <2>1 DEF CountInv, Bounded
  <2>3. counter[g] \in Nat /\ (g \in DOMAIN printed => printed[g] \in Nat)
    BY DEF TypeOK, Counts
  <2> QED BY <2>1, <2>2, <2>3, <1>3, <1>4
<1> QED BY <1>5, <1>6 DEF CountInv, compiled

LEMMA CountLoad == \A t \in Threads : TypeOK /\ CountInv /\ Load(t) => CountInv'
<1> SUFFICES ASSUME NEW t \in Threads, TypeOK, CountInv, Load(t), passes <= 1 PROVE CountInv'
  BY DEF CountInv, Load, Proceed, compiled
<1>1. /\ thread'[t].fn = thread[t].fn /\ thread'[t].left = thread[t].left
      /\ thread'[t].loaded = counter[thread[t].fn]
      /\ \A u \in Threads \ {t} : thread'[u] = thread[u]
  BY DEF TypeOK, Load, Proceed
<1>2. \A f \in Names : Past(f)' = Past(f)
  BY <1>1, PastSame DEF Load, Proceed
<1>3. UNCHANGED <<passes, increments, phase, counter, executed, printed>> /\ phase # "compile"
  BY DEF Load, Proceed, Running, compiled, exiting
<1>4. ASSUME NEW u \in Threads, NEW f \in Names PROVE Prologue(u, f)'
  <2>1. Prologue(u, f) /\ Bounded(f)
    BY DEF CountInv
  <2>2. CASE u = t
    BY <2>1, <2>2, <1>1, <1>2, <1>3 DEF Prologue, Bounded, InBody
  <2>3. CASE u # t
    BY <2>1, <2>3, <1>1, <1>2, <1>3 DEF Prologue, InBody
  <2> QED BY <2>2, <2>3
<1>5. \A f \in Names : Bounded(f)'
  BY <1>2, <1>3 DEF CountInv, Bounded
<1> QED BY <1>3, <1>4, <1>5 DEF CountInv

LEMMA CountStore == \A t \in Threads : TypeOK /\ CountInv /\ Store(t) => CountInv'
<1> SUFFICES ASSUME NEW t \in Threads, TypeOK, CountInv, Store(t), passes <= 1 PROVE CountInv'
  BY DEF CountInv, Store, Proceed, compiled
<1>0. PICK f \in Names : f = thread[t].fn
  BY DEF TypeOK
<1>1. ~ InBody(t) /\ thread[t].loaded \in 0..(Modulus - 1) /\ executed[f] \in Nat
  BY DEF Store, Proceed, TypeOK
<1>2. /\ thread[t].left = 1 /\ increments[f] = 1
      /\ executed[f] < Modulus => thread[t].loaded <= Past(f)
  BY <1>0, <1>1 DEF CountInv, Prologue, None
<1>3. /\ thread'[t].left = 0
      /\ \A u \in Threads \ {t} : thread'[u] = thread[u]
  BY <1>2 DEF TypeOK, Store, Proceed
<1>4. \A g \in Names : Past(g) \in Int /\ Past(g)' = IF g = f THEN Past(g) + 1 ELSE Past(g)
  BY <1>0, <1>2, PastStore, InFlightFinite DEF TypeOK, Past
<1>5. Past(f) + 1 <= executed[f]
  <2>1. t \in InFlight(f)
    BY <1>0, <1>1 DEF InFlight
  <2>2. Cardinality(InFlight(f) \ {t}) = Cardinality(InFlight(f)) - 1
    BY <2>1, InFlightFinite, FS_RemoveElement
  <2>3. Cardinality(InFlight(f) \ {t}) \in Nat
    BY InFlightFinite, FS_RemoveElement, FS_CardinalityType
  <2> QED BY <2>2, <2>3, <1>1, InFlightFinite DEF Past
\* The addition does not wrap: what is stored is one more than what was loaded.
<1>6. /\ \A g \in Names : g # f => counter'[g] = counter[g]
      /\ executed[f] < Modulus => counter'[f] = thread[t].loaded + 1
  <2>1. /\ counter'[f] = (thread[t].loaded + 1) % Modulus
        /\ \A g \in Names : g # f => counter'[g] = counter[g]
    BY <1>0 DEF Store, Proceed, TypeOK, Counts
  <2>2. executed[f] < Modulus => thread[t].loaded + 1 \in 0..(Modulus - 1)
    BY <1>1, <1>2, <1>4, <1>5
  <2>3. \A k \in 0..(Modulus - 1) : k % Modulus = k
    OBVIOUS
  <2> QED BY <2>1, <2>2, <2>3
<1>7. UNCHANGED <<passes, increments, phase, executed, printed>> /\ phase # "compile"
  BY DEF Store, Proceed, Running, compiled, exiting
<1>8. ASSUME NEW u \in Threads, NEW g \in Names PROVE Prologue(u, g)'
  <2>1. CASE u = t
    BY <2>1, <1>3 DEF Prologue, InBody
  <2>2. CASE u # t
    <3>1. thread'[u] = thread[u] /\ thread[u].loaded \in 0..(Modulus - 1) \cup {None}
      BY <2>2, <1>3 DEF TypeOK
    <3>2. Prologue(u, g)
      BY DEF CountInv
    <3> QED BY <3>1, <3>2, <1>4, <1>7 DEF Prologue, InBody, None
  <2> QED BY <2>1, <2>2
<1>9. ASSUME NEW g \in Names PROVE Bounded(g)'
  <2>1. Bounded(g)
    BY DEF CountInv
  <2>2. CASE g = f
    BY <2>1, <2>2, <1>1, <1>2, <1>4, <1>6, <1>7 DEF Bounded
  <2>3. CASE g # f
    BY <2>1, <2>3, <1>4, <1>6, <1>7 DEF Bounded
  <2> QED BY <2>2, <2>3
<1> QED BY <1>7, <1>8, <1>9 DEF CountInv

LEMMA CountPrint == \A f \in Names : TypeOK /\ CountInv /\ PrintCount(f) => CountInv'
<1> SUFFICES ASSUME NEW f \in Names, TypeOK, CountInv, PrintCount(f) PROVE CountInv'
  OBVIOUS
<1>1. UNCHANGED <<passes, increments, phase, counter, thread, executed>> /\ phase # "compile"
  BY DEF PrintCount, compiled
<1>2. \A g \in Names : Past(g)' = Past(g)
  BY <1>1, PastSame
<1>3. \A g \in Names : passes <= 1 /\ executed[g] < Modulus /\ g \in DOMAIN printed' =>
                          printed'[g] <= executed[g]
  <2> SUFFICES ASSUME NEW g \in Names, passes <= 1, executed[g] < Modulus, g \in DOMAIN printed'
               PROVE  printed'[g] <= executed[g]
    OBVIOUS
  <2>1. CASE g = f
    <3>1. printed'[g] = counter[g] /\ counter[g] \in Nat /\ executed[g] \in Nat
      BY <2>1 DEF PrintCount, TypeOK, Counts
    <3>2. counter[g] <= Past(g)
      BY DEF CountInv, Bounded
    <3> QED BY <3>1, <3>2, InFlightFinite DEF Past
  <2>2. CASE g # f
    <3>1. g \in DOMAIN printed /\ printed'[g] = printed[g]
      BY <2>2 DEF PrintCount
    <3> QED BY <3>1 DEF CountInv, Bounded
  <2> QED BY <2>1, <2>2
<1> QED BY <1>1, <1>2, <1>3 DEF CountInv, InBody, Prologue, Bounded

\* Every step of the pass and of the program keeps the bounds.
LEMMA CountStep == TypeOK /\ CountInv /\ [Next]_vars => CountInv'
<1> SUFFICES ASSUME TypeOK, CountInv, [Next]_vars PROVE CountInv'
  OBVIOUS
<1>1. CASE RunPass
  BY <1>1, CountRunPass
<1>2. CASE Start \/ Exit \/ End \/ Abort
  BY <1>2, CountSame DEF Start, Exit, End, Abort, Running, compiled, exiting
<1>3. CASE Over \/ UNCHANGED vars
  BY <1>3, PastSame DEF Over, vars, compiled, exiting, CountInv, Unstarted, InBody, Prologue, Bounded
<1>4. CASE CallWrapper
  <2>1. Wrapper \in Names /\ InBody(Main) /\ Enter(Main, Wrapper)
    BY <1>4 DEF CallWrapper, Names
  <2> QED BY <1>4, <2>1, CountEnter DEF CallWrapper, compiled
<1>5. ASSUME NEW t \in Threads, StartThread(t) PROVE CountInv'
  BY <1>5, CountSame DEF StartThread, compiled, exiting
<1>6. ASSUME NEW t \in Threads, NEW f \in Defined, Execute(t, f) PROVE CountInv'
  <2>1. f \in Names /\ InBody(t) /\ Enter(t, f)
    BY <1>6 DEF Execute, Names
  <2> QED BY <1>6, <2>1, CountEnter DEF Execute, compiled, exiting
<1> QED BY <1>1, <1>2, <1>3, <1>4, <1>5, <1>6, CountLoad, CountStore, CountPrint DEF Next

\* Races between any number of threads lose executions and never invent any.
THEOREM Bounds == Spec => []CountBounds
<1>1. TypeOK /\ CountInv => CountBounds
  BY DEF CountInv, Bounded, CountBounds, Past
<1> QED BY TypeInit, TypeStep, CountInit, CountStep, <1>1, PTL DEF Spec

--------------------------------------------------------------------------------
\* Quotient and remainder are unique.
LEMMA ModUnique ==
    ASSUME NEW M \in Nat \ {0}, NEW q \in Int, NEW r \in 0..(M - 1)
    PROVE  (M * q + r) % M = r
<1> DEFINE y == M * q + r
           p == y \div M
           s == y % M
<1>1. p \in Int /\ s \in 0..(M - 1) /\ M * p + s = M * q + r
  OBVIOUS
<1> HIDE DEF p, s
<1>2. M * (q - p) = s - r
  BY <1>1
<1>3. CASE q - p >= 1
  <2>1. M * (q - p) >= M
    BY <1>1, <1>3
  <2> QED BY <2>1, <1>1, <1>2
<1>4. CASE q - p <= -1
  <2>1. M * (q - p) <= -M
    BY <1>1, <1>4
  <2> QED BY <2>1, <1>1, <1>2
<1>5. CASE q - p = 0
  BY <1>1, <1>2, <1>5 DEF s
<1> QED BY <1>1, <1>3, <1>4, <1>5

\* Adding one commutes with wrapping around.
LEMMA ModSucc ==
    ASSUME NEW x \in Int, NEW M \in Nat \ {0}
    PROVE  ((x % M) + 1) % M = (x + 1) % M
<1> DEFINE q == x \div M
           r == x % M
<1>1. q \in Int /\ r \in 0..(M - 1) /\ x = M * q + r
  OBVIOUS
<1> HIDE DEF q, r
<1>2. CASE r + 1 < M
  <2>1. x + 1 = M * q + (r + 1) /\ r + 1 \in 0..(M - 1)
    BY <1>1, <1>2
  <2>2. (M * q + (r + 1)) % M = r + 1 /\ (M * 0 + (r + 1)) % M = r + 1
    BY <2>1, <1>1, ModUnique
  <2> QED BY <2>1, <2>2, <1>1 DEF r
<1>3. CASE r + 1 = M
  <2>1. x + 1 = M * (q + 1) + 0 /\ r + 1 = M * 1 + 0
    BY <1>1, <1>3
  <2>2. (M * (q + 1) + 0) % M = 0 /\ (M * 1 + 0) % M = 0
    BY <1>1, ModUnique
  <2> QED BY <2>1, <2>2 DEF r
<1> QED BY <1>1, <1>2, <1>3

LEMMA Distribute ==
    ASSUME NEW e \in Nat, NEW i \in Nat
    PROVE  (e + 1) * i = e * i + i /\ e * i \in Nat
OBVIOUS

--------------------------------------------------------------------------------
\* The increments of f that main, in the prologue of f, has still to do.
Owed(f) == IF ~ InBody(Main) /\ thread[Main].fn = f THEN thread[Main].left ELSE 0

\* In a sequential program a counter is what it should be but for what main owes it,
\* and what main has loaded is what the counter still holds.
SeqInv ==
    started = {Main} =>
        /\ phase = "compile" => Unstarted
        /\ \A t \in Threads \ {Main} : InBody(t)
        /\ ~ InBody(Main) /\ thread[Main].loaded # None =>
              thread[Main].loaded = counter[thread[Main].fn]
        /\ \A f \in Names :
              counter[f] = (executed[f] * increments[f] - Owed(f)) % Modulus

LEMMA SeqInit == Init => SeqInv
<1> SUFFICES ASSUME Init PROVE SeqInv
  OBVIOUS
<1>1. Unstarted
  BY DEF Init, Unstarted, InBody
<1>2. \A f \in Names : Owed(f) = 0 /\ increments[f] = 0
  BY <1>1 DEF Init, Owed, Unstarted
<1>3. (0 * 0 - 0) % Modulus = 0
  OBVIOUS
<1> QED BY <1>1, <1>2, <1>3 DEF SeqInv, Unstarted

LEMMA SeqSame ==
    ASSUME SeqInv, started' = started \/ started' # {Main}, increments' = increments,
           phase' # "compile", UNCHANGED <<counter, thread, executed>>
    PROVE  SeqInv'
<1>1. \A f \in Names : Owed(f)' = Owed(f)
  BY DEF Owed, InBody
<1> QED BY <1>1 DEF SeqInv, InBody

LEMMA SeqRunPass == TypeOK /\ SeqInv /\ RunPass => SeqInv'
<1> SUFFICES ASSUME TypeOK, SeqInv, RunPass, started = {Main} PROVE SeqInv'
  BY DEF SeqInv, RunPass
<1>1. Unstarted /\ Unstarted' /\ Main \in Threads
  BY DEF SeqInv, RunPass, Unstarted, InBody, exiting
<1>2. \A f \in Names : Owed(f)' = 0 /\ increments'[f] \in Nat
  BY <1>1, TypeStep DEF Owed, Unstarted, TypeOK, Next
<1>3. \A k \in Nat : (0 * k - 0) % Modulus = 0
  OBVIOUS
<1> QED BY <1>1, <1>2, <1>3 DEF SeqInv, Unstarted

LEMMA SeqEnter ==
    ASSUME TypeOK, SeqInv, NEW t \in Threads, NEW f \in Names, InBody(t), Enter(t, f),
           started = {Main} => t = Main, phase # "compile",
           UNCHANGED <<compiled, phase, counter, started>>
    PROVE  SeqInv'
<1> SUFFICES ASSUME started = {Main} PROVE SeqInv'
  BY DEF SeqInv
<1>1. /\ t = Main
      /\ thread'[Main].fn = f /\ thread'[Main].left = increments[f] /\ thread'[Main].loaded = None
      /\ \A u \in Threads \ {Main} : thread'[u] = thread[u]
  BY DEF TypeOK, Enter
<1>2. ASSUME NEW g \in Names
      PROVE  executed'[g] * increments'[g] - Owed(g)' = executed[g] * increments[g] - Owed(g)
  <2>1. executed[g] \in Nat /\ increments[g] \in Nat /\ Owed(g) = 0 /\ increments' = increments
    BY <1>1 DEF TypeOK, Owed, compiled
  <2>2. CASE g = f
    <3>1. executed'[g] = executed[g] + 1
      BY <2>2 DEF Enter, TypeOK
    <3>2. Owed(g)' = increments[g]
      BY <2>2, <1>1 DEF Owed, InBody
    <3>3. (executed[g] + 1) * increments[g] = executed[g] * increments[g] + increments[g]
          /\ executed[g] * increments[g] \in Nat
      BY <2>1, Distribute
    <3>4. executed'[g] * increments'[g] = (executed[g] + 1) * increments[g]
      BY <2>1, <3>1
    <3>5. (executed[g] + 1) * increments[g] - increments[g] = executed[g] * increments[g] - 0
      BY <2>1, <3>3
    <3> QED BY <2>1, <3>2, <3>4, <3>5
  <2>3. CASE g # f
    <3>1. executed'[g] = executed[g] /\ Owed(g)' = 0
      BY <2>3, <1>1 DEF Enter, TypeOK, Owed
    <3> QED BY <2>1, <3>1
  <2> QED BY <2>2, <2>3
<1> QED BY <1>1, <1>2 DEF SeqInv, compiled, InBody

LEMMA SeqLoad == \A t \in Threads : TypeOK /\ SeqInv /\ Load(t) => SeqInv'
<1> SUFFICES ASSUME NEW t \in Threads, TypeOK, SeqInv, Load(t), started = {Main} PROVE SeqInv'
  BY DEF SeqInv, Load, Proceed
<1>1. t = Main /\ UNCHANGED <<started, increments, counter, executed, phase>> /\ phase # "compile"
  BY DEF SeqInv, Load, Proceed, Running, compiled
<1>2. /\ thread'[Main].fn = thread[Main].fn /\ thread'[Main].left = thread[Main].left
      /\ thread'[Main].loaded = counter[thread[Main].fn]
      /\ \A u \in Threads \ {Main} : thread'[u] = thread[u]
  BY <1>1 DEF TypeOK, Load, Proceed
<1>3. \A f \in Names : Owed(f)' = Owed(f)
  BY <1>2 DEF Owed, InBody
<1> QED BY <1>1, <1>2, <1>3 DEF SeqInv, InBody

LEMMA SeqStore == \A t \in Threads : TypeOK /\ SeqInv /\ Store(t) => SeqInv'
<1> SUFFICES ASSUME NEW t \in Threads, TypeOK, SeqInv, Store(t), started = {Main} PROVE SeqInv'
  BY DEF SeqInv, Store, Proceed
<1>1. t = Main /\ UNCHANGED <<started, increments, executed, phase>> /\ phase # "compile"
  BY DEF SeqInv, Store, Proceed, Running, compiled
<1>2. /\ thread'[Main].fn = thread[Main].fn /\ thread'[Main].left = thread[Main].left - 1
      /\ thread'[Main].loaded = None
      /\ \A u \in Threads \ {Main} : thread'[u] = thread[u]
  BY <1>1 DEF TypeOK, Store, Proceed
<1>3. PICK f \in Names : f = thread[Main].fn
  BY DEF TypeOK
<1>4. /\ thread[Main].left \in Nat \ {0} /\ ~ InBody(Main) /\ thread[Main].loaded = counter[f]
      /\ executed[f] * increments[f] \in Int
  BY <1>1, <1>3 DEF Store, Proceed, InBody, TypeOK, SeqInv
<1>5. Owed(f) = thread[Main].left /\ Owed(f)' = Owed(f) - 1
  BY <1>2, <1>3, <1>4 DEF Owed, InBody
<1>6. counter'[f] = (executed[f] * increments[f] - Owed(f)') % Modulus
  <2>1. counter'[f] = (counter[f] + 1) % Modulus
    BY <1>1, <1>3, <1>4 DEF Store, Proceed, TypeOK, Counts
  <2>2. counter[f] = (executed[f] * increments[f] - Owed(f)) % Modulus
    BY DEF SeqInv
  <2>3. (executed[f] * increments[f] - Owed(f)) + 1 = executed[f] * increments[f] - Owed(f)'
    BY <1>4, <1>5
  <2>4. executed[f] * increments[f] - Owed(f) \in Int
    BY <1>4, <1>5
  <2> QED BY <2>1, <2>2, <2>3, <2>4, ModSucc
<1>7. \A g \in Names : g # f => counter'[g] = counter[g] /\ Owed(g) = 0 /\ Owed(g)' = 0
  BY <1>1, <1>2, <1>3 DEF Store, Proceed, TypeOK, Counts, Owed
<1> QED BY <1>1, <1>2, <1>6, <1>7 DEF SeqInv, InBody

\* Every step of the pass and of the program keeps the counters of a sequential
\* program in order.
LEMMA SeqStep == TypeOK /\ SeqInv /\ [Next]_vars => SeqInv'
<1> SUFFICES ASSUME TypeOK, SeqInv, [Next]_vars PROVE SeqInv'
  OBVIOUS
<1>1. CASE RunPass
  BY <1>1, SeqRunPass
<1>2. CASE Start \/ Exit \/ End \/ Abort
  BY <1>2, SeqSame DEF Start, Exit, End, Abort, Running, compiled
<1>3. CASE Over \/ UNCHANGED vars
  <2>1. \A f \in Names : Owed(f)' = Owed(f)
    BY <1>3 DEF Over, vars, Owed, InBody
  <2> QED BY <1>3, <2>1 DEF Over, vars, compiled, exiting, SeqInv, Unstarted, InBody
<1>4. CASE CallWrapper
  <2>1. Wrapper \in Names /\ InBody(Main) /\ Enter(Main, Wrapper)
    BY <1>4 DEF CallWrapper, Names
  <2> QED BY <1>4, <2>1, SeqEnter DEF CallWrapper
<1>5. ASSUME NEW t \in Threads, StartThread(t) PROVE SeqInv'
  <2>1. t \in started' /\ t # Main
    BY <1>5 DEF StartThread, TypeOK
  <2> QED BY <1>5, <2>1 DEF SeqInv
<1>6. ASSUME NEW t \in Threads, NEW f \in Defined, Execute(t, f) PROVE SeqInv'
  <2>1. f \in Names /\ InBody(t) /\ Enter(t, f)
    BY <1>6 DEF Execute, Names
  <2> QED BY <1>6, <2>1, SeqEnter DEF Execute
<1>7. ASSUME NEW f \in Names, PrintCount(f) PROVE SeqInv'
  BY <1>7, SeqSame DEF PrintCount, compiled
<1> QED BY <1>1, <1>2, <1>3, <1>4, <1>5, <1>6, <1>7, SeqLoad, SeqStore DEF Next

\* In a sequential program every execution is counted, once per increment.
THEOREM SequentialCounts == Spec => []CountsExecutions
<1>1. TypeOK /\ SeqInv => CountsExecutions
  <2> SUFFICES ASSUME TypeOK, SeqInv, started = {Main}, InBody(Main), NEW f \in Names
               PROVE  counter[f] = (executed[f] * increments[f]) % Modulus
    BY DEF CountsExecutions
  <2>1. Owed(f) = 0 /\ executed[f] * increments[f] \in Int
    BY DEF Owed, TypeOK
  <2> QED BY <2>1 DEF SeqInv
<1> QED BY TypeInit, TypeStep, SeqInit, SeqStep, <1>1, PTL DEF Spec

--------------------------------------------------------------------------------
\* How the report of a module instrumented once comes about: the pass lists every
\* function and adds one destructor; what that has printed and has still to print is
\* what was listed, and in a sequential program what it has printed stays right,
\* nothing but printf_wrapper being executed any more.
ReportInv ==
    /\ printed = [f \in DOMAIN printed |-> printed[f]]
    /\ phase \in {"compile", "run"} => DOMAIN printed = {} /\ toPrint = {}
    /\ passes = 0 => definitions = Defined /\ listed = {}
    /\ passes = 1 =>
         /\ listed = Defined
         /\ dtors = IF Defined = {} THEN 0 ELSE 1
         /\ \A f \in Defined : increments[f] = 1
         /\ phase = "exit" => \/ dtorsLeft = dtors /\ DOMAIN printed = {} /\ toPrint = {}
                              \/ DOMAIN printed \cup toPrint = listed
         /\ phase = "ended" => DOMAIN printed = listed
         /\ started = {Main} => \A f \in DOMAIN printed : printed[f] = executed[f] % Modulus

LEMMA ReportInit == Init => ReportInv
BY DEF Init, ReportInv

\* Every step keeps it, if the program has no printf_wrapper of its own.
LEMMA ReportStep ==
    ASSUME Wrapper \notin Defined, TypeOK, SeqInv, ReportInv, [Next]_vars
    PROVE  ReportInv'
<1>1. CASE RunPass
  <2>1. passes' = passes + 1 /\ passes \in Nat /\ phase = "compile"
        /\ UNCHANGED <<phase, printed, toPrint, dtorsLeft, executed>>
    BY <1>1 DEF RunPass, TypeOK, exiting
  <2>2. CASE passes # 0
    BY <2>1, <2>2 DEF ReportInv
  <2>3. CASE passes = 0
    <3>1. definitions = Defined /\ listed = {} /\ dtors = 0 /\ \A f \in Names : increments[f] = 0
      BY <2>3 DEF ReportInv, TypeOK
    <3>2. listed' = Defined /\ dtors' = (IF Defined = {} THEN 0 ELSE 1)
      BY <1>1, <3>1 DEF RunPass
    <3>3. \A f \in Defined : increments'[f] = 1
      BY <1>1, <3>1 DEF RunPass, Names
    <3> QED BY <2>1, <2>3, <3>2, <3>3 DEF ReportInv
  <2> QED BY <2>2, <2>3
<1>2. CASE Start \/ Over \/ UNCHANGED vars \/ Abort
  BY <1>2 DEF Start, Over, Abort, Running, vars, compiled, exiting, ReportInv
<1>3. CASE Exit
  BY <1>3 DEF Exit, compiled, ReportInv
<1>4. CASE End
  BY <1>4 DEF End, compiled, exiting, ReportInv, TypeOK
<1>5. CASE CallWrapper
  <2>1. \A f \in Defined : executed'[f] = executed[f]
    BY <1>5 DEF CallWrapper, Enter, TypeOK, Names
  <2>2. UNCHANGED <<compiled, phase, started, printed>> /\ phase = "exit" /\ toPrint' = listed
    BY <1>5 DEF CallWrapper
  <2>3. passes = 1 => DOMAIN printed \subseteq Defined
    BY DEF TypeOK, ReportInv
  <2> QED BY <2>1, <2>2, <2>3 DEF compiled, ReportInv, TypeOK
<1>6. ASSUME NEW t \in Threads, StartThread(t) PROVE ReportInv'
  BY <1>6 DEF StartThread, compiled, exiting, ReportInv
<1>7. ASSUME NEW t \in Threads, Load(t) \/ Store(t) PROVE ReportInv'
  BY <1>7 DEF Load, Store, Proceed, Running, compiled, exiting, ReportInv
<1>8. ASSUME NEW t \in Threads, NEW f \in Defined, Execute(t, f) PROVE ReportInv'
  <2>1. started = {Main} => DOMAIN printed = {}
    BY <1>8 DEF Execute, ReportInv
  <2> QED BY <1>8, <2>1 DEF Execute, compiled, exiting, ReportInv
<1>9. ASSUME NEW f \in Names, PrintCount(f) PROVE ReportInv'
  <2>1. /\ DOMAIN printed' = DOMAIN printed \cup {f}
        /\ printed'[f] = counter[f]
        /\ \A g \in DOMAIN printed : g # f => printed'[g] = printed[g]
        /\ printed' = [g \in DOMAIN printed' |-> printed'[g]]
        /\ toPrint' = toPrint \ {f} /\ f \in toPrint /\ phase = "exit" /\ InBody(Main)
        /\ UNCHANGED <<compiled, phase, started, executed, dtorsLeft>>
    BY <1>9 DEF PrintCount
  <2>2. passes = 1 /\ started = {Main} => counter[f] = executed[f] % Modulus
    <3> SUFFICES ASSUME passes = 1, started = {Main} PROVE counter[f] = executed[f] % Modulus
      OBVIOUS
    <3>1. f \in Defined /\ increments[f] = 1
      BY <2>1 DEF ReportInv, TypeOK
    <3>2. counter[f] = (executed[f] * increments[f] - Owed(f)) % Modulus /\ Owed(f) = 0
      BY <2>1 DEF SeqInv, Owed
    <3>3. executed[f] * 1 - 0 = executed[f]
      BY DEF TypeOK
    <3> QED BY <3>1, <3>2, <3>3
  <2> QED BY <2>1, <2>2 DEF ReportInv, compiled
<1> QED BY <1>1, <1>2, <1>3, <1>4, <1>5, <1>6, <1>7, <1>8, <1>9 DEF Next

\* All that is needed to see what the program reports.
RefInv == TypeOK /\ CountInv /\ SeqInv /\ ReportInv

LEMMA RefinedInit == Init => Promise!Init
BY DEF Init, Promise!Init, Promise!NoReport, Names

\* Each step of the pass and of the program is one of CallCounts, or a stutter.
LEMMA RefinedStep ==
    ASSUME Wrapper \notin Defined, RefInv, RefInv', [Next]_vars
    PROVE  [Promise!Next]_Promise!vars
<1> DEFINE Report == IF phase = "ended" /\ passes = 1 THEN printed ELSE [f \in {} |-> 0]
           Counted == [f \in Defined |-> executed[f]]
<1> USE DEF RefInv
<1>1. CASE RunPass
  <2>1. UNCHANGED <<executed, started>> /\ phase = "compile" /\ phase' = phase
    BY <1>1 DEF RunPass, exiting
  <2> QED BY <2>1 DEF Promise!vars
<1>2. CASE Start \/ Abort \/ Exit
  BY <1>2 DEF Start, Abort, Exit, Running, compiled, exiting, Promise!vars
<1>3. CASE Over \/ UNCHANGED vars
  BY <1>3 DEF Over, vars, compiled, exiting, Promise!vars
<1>4. CASE CallWrapper
  <2>1. \A f \in Defined : executed'[f] = executed[f]
    BY <1>4 DEF CallWrapper, Enter, TypeOK, Names
  <2>2. UNCHANGED <<phase, started>> /\ phase = "exit"
    BY <1>4 DEF CallWrapper
  <2> QED BY <2>1, <2>2 DEF Promise!vars
<1>5. CASE End
  <2>1. UNCHANGED <<executed, started, passes, printed>> /\ phase = "exit" /\ phase' = "ended"
    BY <1>5 DEF End, compiled, exiting
  <2>2. CASE passes # 1
    BY <2>1, <2>2 DEF Promise!vars
  <2>3. CASE passes = 1
    <3>1. Report = Promise!NoReport /\ Report' = printed
      BY <2>1, <2>3 DEF Promise!NoReport
    <3>2. DOMAIN printed = Defined /\ printed = [f \in DOMAIN printed |-> printed[f]]
      BY <2>1, <2>3 DEF ReportInv
    <3>3. printed \in [Defined -> 0..(Modulus - 1)]
      BY <3>2 DEF TypeOK
    <3>4. started = {Main} => \A f \in Defined : printed[f] = executed[f] % Modulus
      BY <2>3, <3>2 DEF ReportInv
    <3>5. \A f \in Defined : executed[f] < Modulus => printed[f] <= executed[f]
      BY <2>3, <3>2 DEF CountInv, Bounded, Names
    <3> QED BY <2>1, <3>1, <3>3, <3>4, <3>5 DEF Promise!Next, Promise!Report
  <2> QED BY <2>2, <2>3
<1>6. ASSUME NEW t \in Threads, StartThread(t) PROVE [Promise!Next]_Promise!vars
  <2>1. UNCHANGED <<executed, phase>> /\ phase = "run"
    BY <1>6 DEF StartThread
  <2>2. (started' = {Main}) = FALSE
    BY <1>6 DEF StartThread, TypeOK
  <2> QED BY <2>1, <2>2 DEF Promise!Next, Promise!StartThread, Promise!NoReport
<1>7. ASSUME NEW t \in Threads, Load(t) \/ Store(t) PROVE [Promise!Next]_Promise!vars
  BY <1>7 DEF Load, Store, Proceed, Running, compiled, exiting, Promise!vars
<1>8. ASSUME NEW t \in Threads, NEW f \in Defined, Execute(t, f) PROVE [Promise!Next]_Promise!vars
  <2>1. UNCHANGED <<started, phase>> /\ phase # "ended"
    BY <1>8 DEF Execute
  <2>2. executed' = [executed EXCEPT ![f] = @ + 1] /\ executed \in [Names -> Nat]
    BY <1>8 DEF Execute, Enter, TypeOK
  <2>3. Counted' = [Counted EXCEPT ![f] = @ + 1]
    BY <2>2 DEF Names
  <2> QED BY <2>1, <2>3 DEF Promise!Next, Promise!Execute, Promise!NoReport
<1>9. ASSUME NEW f \in Names, PrintCount(f) PROVE [Promise!Next]_Promise!vars
  BY <1>9 DEF PrintCount, compiled, Promise!vars
<1> QED BY <1>1, <1>2, <1>3, <1>4, <1>5, <1>6, <1>7, <1>8, <1>9 DEF Next

\* The instrumented program implements CallCounts: with any number of threads,
\* functions and calls, what it reports at its end is what was promised, if it has no
\* printf_wrapper of its own.
THEOREM Refinement == Wrapper \notin Defined => (Spec => PromiseKept)
<1> SUFFICES ASSUME Wrapper \notin Defined PROVE Spec => PromiseKept
  OBVIOUS
<1>1. Init => RefInv
  BY TypeInit, CountInit, SeqInit, ReportInit DEF RefInv
<1>2. RefInv /\ [Next]_vars => RefInv'
  BY TypeStep, CountStep, SeqStep, ReportStep DEF RefInv
<1>3. RefInv /\ RefInv' /\ [Next]_vars => [Promise!Next]_Promise!vars
  BY RefinedStep
<1> QED BY RefinedInit, <1>1, <1>2, <1>3, PTL DEF Spec, PromiseKept, Promise!Spec
================================================================================
