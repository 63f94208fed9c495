-------------------------- MODULE IterationTheorems --------------------------
(***************************************************************************)
(* Induction and recursion over the natural numbers in first-order form,   *)
(* for the loops of the code that the model writes as recursive functions. *)
(***************************************************************************)
EXTENDS Integers, WellFoundedInduction, TLAPS

Below == {p \in Nat \X Nat : p[1] < p[2]}

\* The order of the natural numbers, as a set of pairs, has no infinite descent.
LEMMA BelowIsWellFounded == IsWellFoundedOn(Below, Nat)
<1>1. OpToRel(<, Nat) = Below
  BY DEF OpToRel, Below
<1>2. QED
  BY <1>1, NatLessThanWellFounded, Zenon

\* A set of natural numbers that is not empty has a least element: what the
\* scans of the code for the first element find.
THEOREM LeastNumber ==
  ASSUME NEW T \in SUBSET Nat, T # {}
  PROVE  \E n \in T : \A k \in T : n <= k
<1>1. PICK n \in T : \A k \in T : <<k, n>> \notin Below
  BY BelowIsWellFounded, WFMin
<1>2. ASSUME NEW k \in T PROVE n <= k
  <2>1. <<k, n>> \notin Below
    BY <1>1
  <2>2. QED
    BY <2>1 DEF Below
<1>3. QED
  BY <1>2

\* Induction over the rounds of a loop, for a set of rounds.
THEOREM CountUp ==
  ASSUME NEW n \in Nat, NEW T, 0 \in T, \A k \in 1..n : k - 1 \in T => k \in T
  PROVE  \A k \in 0..n : k \in T
<1> DEFINE U == {k \in 0..n : k \notin T}
<1>1. SUFFICES ASSUME U # {} PROVE FALSE
  OBVIOUS
<1>2. PICK k \in U : \A j \in U : k <= j
  <2>1. U \in SUBSET Nat
    OBVIOUS
  <2> HIDE DEF U
  <2>2. QED
    BY <1>1, <2>1, LeastNumber
<1>3. k \in 1..n /\ k - 1 \in 0..n
  BY <1>2
<1>4. k - 1 \in T
  BY <1>2, <1>3
<1>5. QED
  BY <1>2, <1>3, <1>4

-----------------------------------------------------------------------------
\* f is what the rounds 1..m of a loop make of base.
Iterates(f, m, base, step) ==
  f[0] = base /\ \A k \in 1..m : f[k] = step[<<k, f[k - 1]>>]

\* One more round.
LEMMA OneMoreRound ==
  ASSUME NEW V, NEW base \in V, NEW n \in Nat, NEW step \in [(1..n) \X V -> V],
         NEW m \in 1..n, NEW f \in [0..(m - 1) -> V], Iterates(f, m - 1, base, step)
  PROVE  \E g \in [0..m -> V] : Iterates(g, m, base, step)
<1> DEFINE g == [k \in 0..m |-> IF k = m THEN step[<<m, f[m - 1]>>] ELSE f[k]]
<1>1. f[m - 1] \in V /\ step[<<m, f[m - 1]>>] \in V
  OBVIOUS
<1>2. g \in [0..m -> V]
  BY <1>1
<1>3. g[0] = base
  BY DEF Iterates
<1>4. ASSUME NEW k \in 1..m PROVE g[k] = step[<<k, g[k - 1]>>]
  <2>1. k - 1 \in 0..m /\ k - 1 # m /\ g[k - 1] = f[k - 1]
    OBVIOUS
  <2>2. CASE k = m
    BY <2>1, <2>2
  <2>3. CASE k # m
    <3>1. k \in 1..(m - 1)
      BY <2>3
    <3>2. f[k] = step[<<k, f[k - 1]>>]
      BY <3>1 DEF Iterates
    <3>3. QED
      BY <2>1, <2>3, <3>2
  <2>4. QED
    BY <2>2, <2>3
<1>5. QED
  BY <1>2, <1>3, <1>4 DEF Iterates

\* A loop of n rounds over the values V computes a function of the rounds.
THEOREM IterationExists ==
  ASSUME NEW V, NEW base \in V, NEW n \in Nat, NEW step \in [(1..n) \X V -> V]
  PROVE  \E f \in [0..n -> V] : Iterates(f, n, base, step)
<1> DEFINE Computes(m) == \E f \in [0..m -> V] : Iterates(f, m, base, step)
           T == {m \in 0..n : Computes(m)}
<1>1. Computes(0)
  <2>1. [k \in 0..0 |-> base] \in [0..0 -> V]
    OBVIOUS
  <2>2. Iterates([k \in 0..0 |-> base], 0, base, step)
    BY DEF Iterates
  <2>3. QED
    BY <2>1, <2>2, Zenon
<1>2. ASSUME NEW m \in 1..n, Computes(m - 1) PROVE Computes(m)
  <2>1. PICK f \in [0..(m - 1) -> V] : Iterates(f, m - 1, base, step)
    BY <1>2
  <2>2. QED
    BY <2>1, OneMoreRound
<1>3. Computes(n)
  <2> HIDE DEF Computes
  <2>1. 0 \in T /\ \A m \in 1..n : m - 1 \in T => m \in T
    BY <1>1, <1>2
  <2> HIDE DEF T
  <2>2. \A k \in 0..n : k \in T
    BY <2>1, CountUp
  <2>3. QED
    BY <2>2 DEF T
<1>4. QED
  BY <1>3
=============================================================================
