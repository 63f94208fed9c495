--------------------------- MODULE SubmissionProofs ---------------------------
(***************************************************************************)
(* Proofs about the submission of Runs and their routing, for any number   *)
(* of handlers, any agents and requests, and any limits.                   *)
(***************************************************************************)
EXTENDS SubmissionProperties, IterationTheorems, FiniteSetTheorems, TLAPS

-----------------------------------------------------------------------------
(* The order of the agents.                                                *)

\* Utilization is compared by cross-multiplication.
Cross(la, ca, lb, cb) == la * cb - lb * ca

\* It is transitive, since no capacity is 0.
LEMMA UtilizationIsTransitive ==
  ASSUME NEW la \in Nat, NEW lb \in Nat, NEW lc \in Nat,
         NEW ca \in Nat \ {0}, NEW cb \in Nat \ {0}, NEW cc \in Nat \ {0},
         Cross(la, ca, lb, cb) <= 0, Cross(lb, cb, lc, cc) <= 0
  PROVE  /\ Cross(la, ca, lc, cc) <= 0
         /\ Cross(la, ca, lc, cc) = 0 => Cross(la, ca, lb, cb) = 0 /\ Cross(lb, cb, lc, cc) = 0
<1>1. PICK u \in Int, v \in Int, w \in Int :
        u = la * cb - lb * ca /\ v = lb * cc - lc * cb /\ w = la * cc - lc * ca
  OBVIOUS
<1>2. cb * w = cc * u + ca * v
  BY <1>1
<1>3. u <= 0 /\ v <= 0
  BY <1>1 DEF Cross
<1>4. cc * u <= 0 /\ ca * v <= 0 /\ (cc * u = 0 => u = 0) /\ (ca * v = 0 => v = 0)
  BY <1>1, <1>3
<1>5. w <= 0 /\ (w = 0 => u = 0 /\ v = 0)
  BY <1>1, <1>2, <1>4
<1>6. QED
  BY <1>1, <1>5 DEF Cross

\* The numbers that the order compares, one after the other.
Used(a, b, load) == Cross(load[a], EffectiveCapacity(a), load[b], EffectiveCapacity(b))
Slots(a, load) == EffectiveCapacity(a) - load[a]

LEMMA RankedNumbers ==
  ASSUME NEW load \in [Agent -> Nat], NEW a \in Agent
  PROVE  /\ a \in Nat \ {0} /\ load[a] \in Nat /\ EffectiveCapacity(a) \in Nat \ {0}
         /\ Profile[a].priority \in Int /\ Profile[a].createdAt \in Nat /\ Slots(a, load) \in Int
BY AgentAssumption DEF EffectiveCapacity, Slots

LEMMA RankingUnfolded ==
  ASSUME NEW load \in [Agent -> Nat], NEW a \in Agent, NEW b \in Agent
  PROVE  RanksBefore(a, b, load) <=>
           \/ Used(a, b, load) < 0
           \/ /\ Used(a, b, load) = 0
              /\ \/ Profile[b].priority < Profile[a].priority
                 \/ /\ Profile[b].priority = Profile[a].priority
                    /\ \/ Slots(b, load) < Slots(a, load)
                       \/ /\ Slots(b, load) = Slots(a, load)
                          /\ \/ Profile[a].createdAt < Profile[b].createdAt
                             \/ /\ Profile[a].createdAt = Profile[b].createdAt
                                /\ a < b
<1>1. PICK keys : keys = <<load[a] * EffectiveCapacity(b) - load[b] * EffectiveCapacity(a),
                           Profile[b].priority - Profile[a].priority,
                           (EffectiveCapacity(b) - load[b]) - (EffectiveCapacity(a) - load[a]),
                           Profile[a].createdAt - Profile[b].createdAt, a - b>>
  BY Zenon
<1>2. RanksBefore(a, b, load) <=> \E k \in DOMAIN keys : keys[k] < 0 /\ \A j \in 1..(k - 1) : keys[j] = 0
  BY <1>1 DEF RanksBefore
<1>3. /\ DOMAIN keys = 1..5
      /\ keys[1] = Used(a, b, load) /\ keys[2] = Profile[b].priority - Profile[a].priority
      /\ keys[3] = Slots(b, load) - Slots(a, load)
      /\ keys[4] = Profile[a].createdAt - Profile[b].createdAt /\ keys[5] = a - b
  BY <1>1 DEF Used, Cross, Slots
<1>4. (\E k \in DOMAIN keys : keys[k] < 0 /\ \A j \in 1..(k - 1) : keys[j] = 0) <=>
        \/ keys[1] < 0
        \/ keys[1] = 0 /\ keys[2] < 0
        \/ keys[1] = 0 /\ keys[2] = 0 /\ keys[3] < 0
        \/ keys[1] = 0 /\ keys[2] = 0 /\ keys[3] = 0 /\ keys[4] < 0
        \/ keys[1] = 0 /\ keys[2] = 0 /\ keys[3] = 0 /\ keys[4] = 0 /\ keys[5] < 0
  <2>1. DOMAIN keys = {1, 2, 3, 4, 5}
    BY <1>3
  <2>2. /\ 1..(1 - 1) = {} /\ 1..(2 - 1) = {1} /\ 1..(3 - 1) = {1, 2} /\ 1..(4 - 1) = {1, 2, 3}
        /\ 1..(5 - 1) = {1, 2, 3, 4}
    OBVIOUS
  <2>3. QED
    BY <2>1, <2>2
<1>5. QED
  BY <1>2, <1>3, <1>4, RankedNumbers

\* The comparison of rankAvailable is a strict total order of the agents, as
\* sort.Slice needs it: no agent ranks before itself, of two agents one ranks
\* before the other, and the order is transitive, ties of utilization included.
THEOREM RankingIsAnOrder ==
  ASSUME NEW load \in [Agent -> Nat]
  PROVE  /\ \A a \in Agent : ~RanksBefore(a, a, load)
         /\ \A a, b \in Agent : a # b => RanksBefore(a, b, load) \/ RanksBefore(b, a, load)
         /\ \A a, b, c \in Agent :
              RanksBefore(a, b, load) /\ RanksBefore(b, c, load) => RanksBefore(a, c, load)
<1>1. ASSUME NEW a \in Agent PROVE ~RanksBefore(a, a, load)
  <2>1. Used(a, a, load) = 0
    BY RankedNumbers DEF Used, Cross
  <2>2. QED
    BY <2>1, RankedNumbers, RankingUnfolded
<1>2. ASSUME NEW a \in Agent, NEW b \in Agent, a # b
      PROVE  RanksBefore(a, b, load) \/ RanksBefore(b, a, load)
  <2>1. Used(a, b, load) \in Int /\ Used(b, a, load) = 0 - Used(a, b, load)
    BY RankedNumbers DEF Used, Cross
  <2>2. QED
    BY <1>2, <2>1, RankedNumbers, RankingUnfolded
<1>3. ASSUME NEW a \in Agent, NEW b \in Agent, NEW c \in Agent,
             RanksBefore(a, b, load), RanksBefore(b, c, load)
      PROVE  RanksBefore(a, c, load)
  <2>1. /\ Used(a, b, load) \in Int /\ Used(b, c, load) \in Int /\ Used(a, c, load) \in Int
    BY RankedNumbers DEF Used, Cross
  <2>2. Used(a, b, load) <= 0 /\ Used(b, c, load) <= 0
    BY <1>3, <2>1, RankingUnfolded
  <2>3. /\ Used(a, c, load) <= 0
        /\ Used(a, c, load) = 0 => Used(a, b, load) = 0 /\ Used(b, c, load) = 0
    <3>1. /\ load[a] \in Nat /\ load[b] \in Nat /\ load[c] \in Nat
          /\ EffectiveCapacity(a) \in Nat \ {0} /\ EffectiveCapacity(b) \in Nat \ {0}
          /\ EffectiveCapacity(c) \in Nat \ {0}
      BY RankedNumbers
    <3>2. QED
      BY <2>2, <3>1, UtilizationIsTransitive DEF Used
  <2>4. CASE Used(a, c, load) < 0
    BY <2>4, RankingUnfolded
  <2>5. CASE Used(a, c, load) = 0
    BY <1>3, <2>3, <2>5, RankedNumbers, RankingUnfolded
  <2>6. QED
    BY <2>1, <2>3, <2>4, <2>5
<1>4. QED
  BY <1>1, <1>2, <1>3

\* Among finitely many agents one ranks before all others.
LEMMA SomeAgentIsFirst ==
  ASSUME NEW load \in [Agent -> Nat], NEW A \in SUBSET Agent, IsFiniteSet(A), A # {}
  PROVE  \E a \in A : \A b \in A \ {a} : RanksBefore(a, b, load)
<1> DEFINE HasFirst(S) == \E a \in S : \A b \in S \ {a} : RanksBefore(a, b, load)
           T == {Cardinality(S) : S \in {S \in SUBSET A : S # {} /\ ~HasFirst(S)}}
<1>1. SUFFICES ASSUME ~HasFirst(A) PROVE FALSE
  OBVIOUS
<1>2. \A S \in SUBSET A : IsFiniteSet(S) /\ Cardinality(S) \in Nat
  BY FS_Subset, FS_CardinalityType
<1>3. PICK n \in T : \A k \in T : n <= k
  <2>1. T \in SUBSET Nat
    BY <1>2
  <2>2. Cardinality(A) \in T
    BY <1>1
  <2> HIDE DEF T
  <2>3. QED
    BY <2>1, <2>2, LeastNumber
<1>4. PICK S \in SUBSET A : S # {} /\ ~HasFirst(S) /\ Cardinality(S) = n
  BY <1>3
<1>5. PICK s \in S : TRUE
  BY <1>4
<1>6. PICK R \in SUBSET A : R = S \ {s}
  BY Zenon
<1>7. Cardinality(R) = n - 1 /\ n \in Nat
  BY <1>2, <1>4, <1>6, FS_RemoveElement
<1>8. CASE R = {}
  <2>1. S = {s}
    BY <1>6, <1>8
  <2>2. QED
    BY <1>4, <2>1
<1>9. CASE R # {}
  <2>1. HasFirst(R)
    <3>1. ASSUME ~HasFirst(R) PROVE FALSE
      <4>1. Cardinality(R) \in T
        BY <1>9, <3>1
      <4>2. QED
        BY <1>3, <1>7, <4>1
    <3>2. QED
      BY <3>1
  <2>2. PICK a \in R : \A b \in R \ {a} : RanksBefore(a, b, load)
    BY <2>1
  <2>3. a # s /\ a \in Agent /\ s \in Agent
    BY <1>6, <2>2
  <2>4. CASE RanksBefore(a, s, load)
    <3>1. \A b \in S \ {a} : RanksBefore(a, b, load)
      BY <1>6, <2>2, <2>4
    <3>2. a \in S
      BY <1>6
    <3>3. QED
      BY <1>4, <3>1, <3>2
  <2>5. CASE RanksBefore(s, a, load)
    <3>1. ASSUME NEW b \in S \ {s} PROVE RanksBefore(s, b, load)
      <4>1. b \in R /\ b \in Agent
        BY <1>6
      <4>2. b = a \/ RanksBefore(a, b, load)
        BY <2>2, <4>1
      <4>3. QED
        BY <2>3, <2>5, <4>1, <4>2, RankingIsAnOrder
    <3>2. QED
      BY <1>4, <1>5, <3>1
  <2>6. QED
    BY <2>3, <2>4, <2>5, RankingIsAnOrder
<1>10. QED
  BY <1>8, <1>9

\* When an agent is available, the routing has exactly one choice (Select takes
\* the first of what rankAvailable returns).
THEOREM RoutingIsDefinite ==
  ASSUME NEW load \in [Agent -> Nat], NEW S \in SUBSET Agent, IsFiniteSet(S), Available(S, load) # {}
  PROVE  \E a \in Available(S, load) : FirstRanked(S, load) = {a}
<1>1. PICK A \in SUBSET Agent : A = Available(S, load)
  BY Zenon DEF Available
<1>2. IsFiniteSet(A) /\ A # {}
  BY <1>1, FS_Subset DEF Available
<1>3. PICK a \in A : \A b \in A \ {a} : RanksBefore(a, b, load)
  BY <1>2, SomeAgentIsFirst
<1>4. \A c \in A : (\A b \in A \ {c} : RanksBefore(c, b, load)) => c = a
  <2>1. SUFFICES ASSUME NEW c \in A, c # a, \A b \in A \ {c} : RanksBefore(c, b, load) PROVE FALSE
    OBVIOUS
  <2>2. RanksBefore(c, a, load) /\ RanksBefore(a, c, load)
    BY <1>3, <2>1
  <2>3. QED
    BY <2>2, RankingIsAnOrder
<1>5. FirstRanked(S, load) = {a}
  BY <1>1, <1>3, <1>4 DEF FirstRanked
<1>6. QED
  BY <1>1, <1>5

-----------------------------------------------------------------------------
(* The capabilities that a request names.                                  *)

Dropping(kept, c) == IF c \in Range(kept) THEN kept ELSE Append(kept, c)

\* The rounds of the loop of NormalizeRequirements.
NormalizingRounds(f, required, V) ==
  /\ f \in [0..Len(required) -> Seq(V)]
  /\ f[0] = <<>>
  /\ \A k \in 1..Len(required) : f[k] = Dropping(f[k - 1], required[k])

LEMMA NormalizingUnfolds ==
  ASSUME NEW V, NEW required \in Seq(V)
  PROVE  \E f : NormalizingRounds(f, required, V) /\ NormalizeRequirements(required) = f[Len(required)]
<1> DEFINE n == Len(required)
           Body(g) == [k \in 0..n |-> IF k = 0 THEN <<>> ELSE Dropping(g[k - 1], required[k])]
           F == CHOOSE g : g = Body(g)
           step == [p \in (1..n) \X Seq(V) |-> Dropping(p[2], required[p[1]])]
<1>0. n \in Nat
  OBVIOUS
<1>1. \A s \in Seq(V), k \in 1..n : Dropping(s, required[k]) \in Seq(V)
  BY DEF Dropping
<1>2. step \in [(1..n) \X Seq(V) -> Seq(V)]
  BY <1>1
<1>3. PICK f \in [0..n -> Seq(V)] : Iterates(f, n, <<>>, step)
  <2>1. <<>> \in Seq(V)
    OBVIOUS
  <2> HIDE DEF step, n
  <2>2. QED
    BY <1>0, <1>2, <2>1, IterationExists, Zenon
<1>4. ASSUME NEW k \in 1..n PROVE f[k] = Dropping(f[k - 1], required[k])
  <2>1. k - 1 \in 0..n /\ f[k - 1] \in Seq(V)
    BY <1>0
  <2>2. f[k] = step[<<k, f[k - 1]>>]
    BY <1>3, Zenon DEF Iterates
  <2>3. QED
    BY <2>1, <2>2
<1>5. f = Body(f)
  <2>1. f[0] = <<>>
    BY <1>3 DEF Iterates
  <2>2. ASSUME NEW k \in 0..n PROVE f[k] = Body(f)[k]
    <3>1. CASE k = 0
      BY <2>1, <3>1
    <3>2. CASE k # 0
      <4>1. k \in 1..n
        BY <1>0, <3>2
      <4>2. QED
        BY <1>4, <3>2, <4>1
    <3>3. QED
      BY <3>1, <3>2
  <2>3. f = [k \in 0..n |-> f[k]] /\ Body(f) = [k \in 0..n |-> Body(f)[k]]
    OBVIOUS
  <2> HIDE DEF Body, n
  <2>4. QED
    BY <2>2, <2>3, Zenon
<1>6. F = Body(F)
  <2> HIDE DEF Body
  <2>1. QED
    BY <1>5
<1>7. NormalizeRequirements(required) = F[n]
  BY DEF NormalizeRequirements, Dropping
<1> HIDE DEF F
<1>8. F[0] = <<>> /\ \A k \in 1..n : F[k] = Dropping(F[k - 1], required[k])
  <2>1. \A k \in 0..n : F[k] = Body(F)[k]
    BY <1>6, Zenon
  <2>2. QED
    BY <1>0, <2>1
<1>9. ASSUME NEW k \in 0..n PROVE F[k] \in Seq(V)
  <2> DEFINE T == {j \in 0..n : F[j] \in Seq(V)}
  <2>1. 0 \in T
    <3>1. 0 \in 0..n /\ F[0] \in Seq(V)
      <4>1. <<>> \in Seq(V)
        OBVIOUS
      <4>2. 0 \in 0..n
        BY <1>0
      <4>3. QED
        BY <1>8, <4>1, <4>2, Zenon
    <3>2. QED
      BY <3>1
  <2>2. ASSUME NEW j \in 1..n, j - 1 \in T PROVE j \in T
    BY <1>0, <1>1, <1>8, <2>2
  <2>3. k \in T
    <3> HIDE DEF T, n
    <3>1. QED
      BY <1>0, <2>1, <2>2, CountUp, Zenon
  <2>4. QED
    BY <2>3
<1>10. F \in [0..n -> Seq(V)]
  BY <1>6, <1>9
<1>11. QED
  BY <1>7, <1>8, <1>10, Zenon DEF NormalizingRounds

\* Normalization keeps every capability that a request names, and each once
\* (NormalizeRequirements).
THEOREM NormalizedRequirements ==
  ASSUME NEW V, NEW required \in Seq(V)
  PROVE  LET kept == NormalizeRequirements(required)
         IN  /\ kept \in Seq(V)
             /\ Range(kept) = Range(required)
             /\ \A i, j \in DOMAIN kept : kept[i] = kept[j] => i = j
             /\ kept = <<>> <=> required = <<>>
<1>1. PICK f : NormalizingRounds(f, required, V) /\ NormalizeRequirements(required) = f[Len(required)]
  BY NormalizingUnfolds
<1>2. PICK n \in Nat : n = Len(required)
  OBVIOUS
<1> DEFINE Good(k) == /\ f[k] \in Seq(V)
                      /\ Range(f[k]) = {required[i] : i \in 1..k}
                      /\ \A i, j \in DOMAIN f[k] : f[k][i] = f[k][j] => i = j
           T == {k \in 0..n : Good(k)}
<1>3. Good(0)
  <2>1. f[0] = <<>>
    BY <1>1 DEF NormalizingRounds
  <2>2. QED
    BY <2>1 DEF Range
<1>4. ASSUME NEW k \in 1..n, Good(k - 1) PROVE Good(k)
  <2>1. PICK s : s = f[k - 1]
    OBVIOUS
  <2>2. /\ s \in Seq(V) /\ Range(s) = {required[i] : i \in 1..(k - 1)}
        /\ \A i, j \in DOMAIN s : s[i] = s[j] => i = j
    BY <1>4, <2>1
  <2>3. f[k] = Dropping(s, required[k]) /\ required[k] \in V
    BY <1>1, <1>2, <2>1 DEF NormalizingRounds
  <2>4. {required[i] : i \in 1..k} = {required[i] : i \in 1..(k - 1)} \union {required[k]}
    <3>1. 1..k = (1..(k - 1)) \union {k}
      OBVIOUS
    <3>2. QED
      BY <3>1
  <2>5. CASE required[k] \in Range(s)
    <3>1. f[k] = s
      BY <2>3, <2>5 DEF Dropping
    <3>2. QED
      BY <2>2, <2>4, <2>5, <3>1
  <2>6. CASE required[k] \notin Range(s)
    <3>1. f[k] = Append(s, required[k])
      BY <2>3, <2>6 DEF Dropping
    <3>2. /\ f[k] \in Seq(V) /\ DOMAIN f[k] = 1..(Len(s) + 1) /\ Len(s) \in Nat
          /\ f[k][Len(s) + 1] = required[k] /\ \A i \in 1..Len(s) : f[k][i] = s[i]
      BY <2>2, <2>3, <3>1
    <3>3. Range(f[k]) = Range(s) \union {required[k]}
      <4>1. PICK t : t = f[k]
        OBVIOUS
      <4>2. DOMAIN s = 1..Len(s) /\ 1..(Len(s) + 1) = (1..Len(s)) \union {Len(s) + 1}
        BY <2>2, <3>2
      <4>3. Range(s) = {s[i] : i \in 1..Len(s)}
        BY <4>2 DEF Range
      <4>4. Range(t) = {s[i] : i \in 1..Len(s)} \union {required[k]}
        BY <3>2, <4>1, <4>2 DEF Range
      <4>5. QED
        BY <4>1, <4>3, <4>4
    <3>4. \A i \in 1..Len(s) : s[i] # required[k]
      BY <2>2, <2>6 DEF Range
    <3>5. \A i, j \in DOMAIN f[k] : f[k][i] = f[k][j] => i = j
      BY <2>2, <3>2, <3>4
    <3>6. QED
      BY <2>2, <2>4, <3>2, <3>3, <3>5
  <2>7. QED
    BY <2>5, <2>6
<1>5. Good(n)
  <2> HIDE DEF Good
  <2>1. 0 \in T /\ \A k \in 1..n : k - 1 \in T => k \in T
    BY <1>3, <1>4
  <2> HIDE DEF T
  <2>2. \A k \in 0..n : k \in T
    BY <2>1, CountUp
  <2>3. QED
    BY <2>2 DEF T
<1>6. PICK kept : kept = f[n]
  OBVIOUS
<1>7. Range(required) = {required[i] : i \in 1..n}
  BY <1>2 DEF Range
<1>8. /\ kept \in Seq(V) /\ Range(kept) = Range(required)
      /\ \A i, j \in DOMAIN kept : kept[i] = kept[j] => i = j
  BY <1>5, <1>6, <1>7
<1>9. kept = <<>> <=> required = <<>>
  <2>1. ASSUME NEW s \in Seq(V) PROVE Range(s) = {} <=> s = <<>>
    <3>1. s = <<>> => Range(s) = {}
      BY DEF Range
    <3>2. s # <<>> => s[1] \in Range(s)
      BY DEF Range
    <3>3. QED
      BY <3>1, <3>2
  <2>2. QED
    BY <1>8, <2>1
<1>10. QED
  BY <1>1, <1>2, <1>6, <1>8, <1>9

-----------------------------------------------------------------------------
(* Lineage.                                                                *)

\* Every Run comes after its parent.
Ordered(rs) == \A r \in DOMAIN rs : rs[r].parent \in 0..(r - 1)

\* f gives the Runs 1..m of rs their lineage.
Climbs(f, rs, m) ==
  /\ f \in [0..m -> SUBSET Nat]
  /\ \A n \in 0..m : f[n] = IF n = 0 THEN {} ELSE {n} \union f[rs[n].parent]

LEMMA ClimbExists ==
  ASSUME NEW rs \in Seq(Run), Ordered(rs)
  PROVE  \E f : Climbs(f, rs, Len(rs))
<1> DEFINE Has(m) == \E f : Climbs(f, rs, m)
           T == {m \in 0..Len(rs) : Has(m)}
<1>1. Has(0)
  <2>1. PICK f : f = [n \in 0..0 |-> {}]
    BY Zenon
  <2>2. Climbs(f, rs, 0)
    BY <2>1 DEF Climbs
  <2>3. QED
    BY <2>2
<1>2. ASSUME NEW m \in 1..Len(rs), Has(m - 1) PROVE Has(m)
  <2>1. PICK f : Climbs(f, rs, m - 1)
    BY <1>2
  <2>2. rs[m].parent \in 0..(m - 1) /\ m \in Nat
    BY DEF Ordered
  <2>3. PICK g : g = [n \in 0..m |-> IF n = m THEN {m} \union f[rs[m].parent] ELSE f[n]]
    BY Zenon
  <2>4. f[rs[m].parent] \in SUBSET Nat
    BY <2>1, <2>2 DEF Climbs
  <2>5. g \in [0..m -> SUBSET Nat]
    BY <2>1, <2>2, <2>3, <2>4 DEF Climbs
  <2>6. \A n \in 0..(m - 1) : n \in 0..m /\ n # m /\ g[n] = f[n]
    BY <2>2, <2>3
  <2>7. ASSUME NEW n \in 0..m PROVE g[n] = IF n = 0 THEN {} ELSE {n} \union g[rs[n].parent]
    <3>1. CASE n = m
      BY <2>2, <2>3, <2>6, <3>1
    <3>2. CASE n = 0
      BY <2>1, <2>2, <2>6, <3>2 DEF Climbs
    <3>3. CASE n \in 1..(m - 1)
      <4>1. rs[n].parent \in 0..(m - 1)
        BY <2>2, <3>3 DEF Ordered
      <4>2. g[n] = f[n] /\ g[rs[n].parent] = f[rs[n].parent]
        BY <2>6, <3>3, <4>1
      <4>3. n \in 0..(m - 1) /\ n # 0
        BY <3>3
      <4>4. f[n] = {n} \union f[rs[n].parent]
        BY <2>1, <4>3 DEF Climbs
      <4>5. QED
        BY <4>2, <4>3, <4>4
    <3>4. QED
      BY <2>2, <3>1, <3>2, <3>3
  <2>8. QED
    BY <2>5, <2>7 DEF Climbs
<1>3. Has(Len(rs))
  <2> HIDE DEF Has
  <2>1. Len(rs) \in Nat
    OBVIOUS
  <2>2. 0 \in T /\ \A m \in 1..Len(rs) : m - 1 \in T => m \in T
    BY <1>1, <1>2, <2>1
  <2> HIDE DEF T
  <2>3. \A m \in 0..Len(rs) : m \in T
    BY <2>1, <2>2, CountUp, Zenon
  <2>4. QED
    BY <2>1, <2>3 DEF T
<1>4. QED
  BY <1>3

\* The lineage of a Run is the Run and the lineage of its parent.
LEMMA LineageUnfolds ==
  ASSUME NEW rs \in Seq(Run), Ordered(rs)
  PROVE  /\ Lineage(rs, 0) = {}
         /\ \A r \in DOMAIN rs : Lineage(rs, r) = {r} \union Lineage(rs, rs[r].parent)
<1> DEFINE Body(g) == [n \in 0..Len(rs) |-> IF n = 0 THEN {} ELSE {n} \union g[rs[n].parent]]
           F == CHOOSE g : g = Body(g)
<1>1. PICK f : Climbs(f, rs, Len(rs))
  BY ClimbExists
<1>2. f = Body(f)
  BY <1>1 DEF Climbs
<1>3. F = Body(F)
  <2> HIDE DEF Body
  <2>1. QED
    BY <1>2
<1>4. \A r : Lineage(rs, r) = F[r]
  BY DEF Lineage
<1> HIDE DEF F
<1>5. \A n \in 0..Len(rs) : F[n] = IF n = 0 THEN {} ELSE {n} \union F[rs[n].parent]
  <2>1. \A n \in 0..Len(rs) : F[n] = Body(F)[n]
    BY <1>3, Zenon
  <2>2. QED
    BY <2>1, Zenon
<1>6. F[0] = {} /\ \A r \in DOMAIN rs : F[r] = {r} \union F[rs[r].parent]
  <2>1. 0 \in 0..Len(rs) /\ \A r \in DOMAIN rs : r \in 0..Len(rs) /\ r # 0
    OBVIOUS
  <2>2. QED
    BY <1>5, <2>1, Zenon
<1>7. QED
  BY <1>4, <1>6

\* A lineage is a finite set of Runs that are not younger.
LEMMA LineageBelow ==
  ASSUME NEW rs \in Seq(Run), Ordered(rs), NEW r \in 0..Len(rs)
  PROVE  Lineage(rs, r) \subseteq 1..r /\ IsFiniteSet(Lineage(rs, r)) /\ Cardinality(Lineage(rs, r)) \in Nat
<1> DEFINE T == {m \in 0..Len(rs) : \A k \in 0..m : Lineage(rs, k) \subseteq 1..k}
<1>1. Len(rs) \in Nat /\ DOMAIN rs = 1..Len(rs)
  OBVIOUS
<1>2. 0 \in T
  BY <1>1, LineageUnfolds
<1>3. ASSUME NEW m \in 1..Len(rs), m - 1 \in T PROVE m \in T
  <2>1. rs[m].parent \in 0..(m - 1)
    BY <1>1 DEF Ordered
  <2>2. Lineage(rs, rs[m].parent) \subseteq 1..rs[m].parent
    BY <1>3, <2>1
  <2>3. Lineage(rs, m) = {m} \union Lineage(rs, rs[m].parent)
    BY <1>1, LineageUnfolds
  <2>4. Lineage(rs, m) \subseteq 1..m
    BY <2>1, <2>2, <2>3
  <2>5. \A k \in 0..m : Lineage(rs, k) \subseteq 1..k
    BY <1>3, <2>4
  <2>6. QED
    BY <1>1, <2>5
<1>4. r \in T
  <2> HIDE DEF T
  <2>1. \A m \in 0..Len(rs) : m \in T
    BY <1>1, <1>2, <1>3, CountUp, Zenon
  <2>2. QED
    BY <2>1
<1>5. Lineage(rs, r) \subseteq 1..r
  BY <1>1, <1>4
<1>6. IsFiniteSet(1..r)
  <2>1. 1 \in Int /\ r \in Int
    BY <1>1
  <2>2. QED
    BY <2>1, FS_Interval
<1>7. QED
  BY <1>5, <1>6, FS_Subset, FS_CardinalityType

\* What is never changed of a Run, while Runs are added and go on.
Keeps(rs, ts) ==
  /\ rs \in Seq(Run) /\ ts \in Seq(Run) /\ Len(rs) <= Len(ts)
  /\ \A r \in DOMAIN rs :
       /\ ts[r].agent = rs[r].agent /\ ts[r].parent = rs[r].parent /\ ts[r].root = rs[r].root
       /\ ts[r].key = rs[r].key /\ ts[r].kind = rs[r].kind
       /\ ts[r].input = rs[r].input /\ ts[r].required = rs[r].required

LEMMA LineageKept ==
  ASSUME NEW rs, NEW ts, Keeps(rs, ts), Ordered(rs), Ordered(ts), NEW r \in 0..Len(rs)
  PROVE  Lineage(ts, r) = Lineage(rs, r)
<1> DEFINE T == {m \in 0..Len(rs) : \A k \in 0..m : Lineage(ts, k) = Lineage(rs, k)}
<1>1. /\ rs \in Seq(Run) /\ ts \in Seq(Run) /\ Len(rs) \in Nat /\ Len(ts) \in Nat
      /\ DOMAIN rs = 1..Len(rs) /\ DOMAIN ts = 1..Len(ts) /\ Len(rs) <= Len(ts)
  BY DEF Keeps
<1>2. 0 \in T
  <2>1. Lineage(ts, 0) = Lineage(rs, 0)
    BY <1>1, LineageUnfolds
  <2>2. QED
    BY <1>1, <2>1
<1>3. ASSUME NEW m \in 1..Len(rs), m - 1 \in T PROVE m \in T
  <2>1. rs[m].parent \in 0..(m - 1) /\ ts[m].parent = rs[m].parent
    BY <1>1 DEF Ordered, Keeps
  <2>2. Lineage(ts, rs[m].parent) = Lineage(rs, rs[m].parent)
    BY <1>3, <2>1
  <2>3. Lineage(ts, m) = {m} \union Lineage(ts, ts[m].parent)
    <3>1. m \in DOMAIN ts
      BY <1>1
    <3>2. QED
      BY <1>1, <3>1, LineageUnfolds
  <2>4. Lineage(rs, m) = {m} \union Lineage(rs, rs[m].parent)
    BY <1>1, LineageUnfolds
  <2>5. Lineage(ts, m) = Lineage(rs, m)
    BY <2>1, <2>2, <2>3, <2>4
  <2>6. \A k \in 0..m : Lineage(ts, k) = Lineage(rs, k)
    BY <1>3, <2>5
  <2>7. QED
    BY <1>1, <2>6
<1>4. r \in T
  <2> HIDE DEF T
  <2>1. \A m \in 0..Len(rs) : m \in T
    BY <1>1, <1>2, <1>3, CountUp, Zenon
  <2>2. QED
    BY <2>1
<1>5. QED
  BY <1>1, <1>4

\* So a call that was within the limits stays within them.
LEMMA BoundsKept ==
  ASSUME NEW rs, NEW ts, Keeps(rs, ts), Ordered(rs), Ordered(ts), NEW r \in DOMAIN rs
  PROVE  /\ Attached(rs, r) => Attached(ts, r)
         /\ CallIsBounded(rs, r) => CallIsBounded(ts, r)
<1>1. /\ rs \in Seq(Run) /\ ts \in Seq(Run) /\ Len(rs) \in Nat /\ Len(ts) \in Nat
      /\ DOMAIN rs = 1..Len(rs) /\ DOMAIN ts = 1..Len(ts) /\ Len(rs) <= Len(ts) /\ r \in 0..Len(rs)
  BY DEF Keeps
<1>2. Lineage(ts, r) = Lineage(rs, r) /\ Lineage(rs, r) \subseteq 1..r
  BY <1>1, LineageKept, LineageBelow
<1>3. /\ ts[r].agent = rs[r].agent /\ ts[r].parent = rs[r].parent /\ ts[r].root = rs[r].root
      /\ ts[r].kind = rs[r].kind
  BY DEF Keeps
<1>4. \A s \in Lineage(rs, r) : s \in DOMAIN rs /\ ts[s].agent = rs[s].agent /\ ts[s].parent = rs[s].parent
  BY <1>1, <1>2 DEF Keeps
<1>5. {c \in Children(ts, ts[r].parent) : c <= r} = {c \in Children(rs, rs[r].parent) : c <= r}
  <2>1. \A c \in DOMAIN ts : c <= r => c \in DOMAIN rs
    BY <1>1
  <2>2. \A c \in DOMAIN rs : c \in DOMAIN ts /\ ts[c].parent = rs[c].parent
    BY <1>1 DEF Keeps
  <2>3. QED
    BY <1>3, <2>1, <2>2 DEF Children
<1>6. Attached(rs, r) => Attached(ts, r)
  BY <1>2, <1>3, <1>4 DEF Attached
<1>7. CallIsBounded(rs, r) => CallIsBounded(ts, r)
  BY <1>2, <1>3, <1>4, <1>5, Zenon DEF CallIsBounded
<1>8. QED
  BY <1>6, <1>7

-----------------------------------------------------------------------------
(* The invariant.                                                          *)

Choosing == {"agent", "healthy", "unknown"}
PC == Choosing \union {"idle", "parent", "lookup", "create", "enqueue", "fail"}

AtRequest == [pc : PC, req : Request \union {NoRequest}, agent : Nat, run : Nat, running : BOOLEAN]

\* What Run x is to a request that it answers.
Suits(q, x) == /\ Keyed(q) => x.key = StoreKey(q)
               /\ q.kind = "run" => AsksFor(q, x)

\* What a handler has checked, and what Runs rs say of it for good: the parent
\* is there, its chain is short enough, the agent fits and is not in the chain.
Checked(x, rs) ==
  LET q == x.req
  IN  /\ x.pc # "idle" => q \in Request /\ Valid(q)
      /\ x.pc \in {"healthy", "unknown"} => Routed(q)
      /\ x.pc = "lookup" /\ q.kind = "call" => q.parent \in DOMAIN rs
      /\ x.pc \in Choosing \union {"create"} =>
           /\ q.parent # 0 \/ q.kind = "call" => q.parent \in DOMAIN rs
           /\ q.kind = "call" => Cardinality(Lineage(rs, q.parent)) <= MaxDepth
      /\ x.pc = "create" =>
           /\ x.agent \in Agent /\ q.target \in {0, x.agent}
           /\ Range(q.required) \subseteq Profile[x.agent].capabilities
           /\ q.kind = "call" => \A s \in Lineage(rs, q.parent) : rs[s].agent # x.agent
      /\ x.pc \in {"enqueue", "fail"} => x.run \in DOMAIN rs /\ Suits(q, rs[x.run])

\* A Run as it was made, wherever it has come since.
RunOK(rs, r) ==
  /\ Attached(rs, r)
  /\ rs[r].kind = "call" => CallIsBounded(rs, r)
  /\ FittingAgent(rs[r])
  /\ rs[r].status = "queued" => ~rs[r].fenced

RunsOK ==
  /\ runs \in Seq(Run)
  /\ UniqueKeys(runs)
  /\ \A r \in DOMAIN runs : RunOK(runs, r)

HandlersOK ==
  /\ handler \in [Handler -> AtRequest]
  /\ \A h \in Handler : Checked(handler[h], runs)

AgentsOK == registered \subseteq Agent /\ \A r \in DOMAIN runs : runs[r].agent \in registered

AnswersOK ==
  \A x \in answers : x.run \in DOMAIN runs /\ Suits(x.req, runs[x.run])

SubmissionInv == RunsOK /\ HandlersOK /\ AgentsOK /\ AnswersOK /\ NoRunIsStranded

LEMMA RunsAreOrdered == ASSUME NEW rs \in Seq(Run), \A r \in DOMAIN rs : Attached(rs, r)
                        PROVE  Ordered(rs)
<1>1. SUFFICES ASSUME NEW r \in DOMAIN rs PROVE rs[r].parent \in 0..(r - 1)
  BY DEF Ordered
<1>2. rs[r] \in Run /\ r \in Nat
  OBVIOUS
<1>3. rs[r].parent \in Nat /\ rs[r].parent < r
  BY <1>2 DEF Run, Attached
<1>4. QED
  BY <1>2, <1>3

\* What a handler has checked stays true while Runs are added and go on.
LEMMA CheckedKept ==
  ASSUME NEW rs, NEW ts, Keeps(rs, ts), Ordered(rs), Ordered(ts), NEW x, Checked(x, rs)
  PROVE  Checked(x, ts)
<1>1. /\ rs \in Seq(Run) /\ ts \in Seq(Run) /\ Len(rs) \in Nat
      /\ DOMAIN rs = 1..Len(rs) /\ DOMAIN rs \subseteq DOMAIN ts
  BY DEF Keeps
<1>2. ASSUME NEW r \in DOMAIN rs
      PROVE  Lineage(ts, r) = Lineage(rs, r) /\ \A s \in Lineage(rs, r) : ts[s].agent = rs[s].agent
  <2>1. r \in 0..Len(rs)
    BY <1>1
  <2>2. Lineage(ts, r) = Lineage(rs, r) /\ Lineage(rs, r) \subseteq 1..r
    BY <1>1, <2>1, LineageKept, LineageBelow
  <2>3. \A s \in 1..r : s \in DOMAIN rs
    BY <1>1
  <2>4. QED
    BY <2>2, <2>3 DEF Keeps
<1>3. ASSUME NEW r \in DOMAIN rs PROVE Suits(x.req, rs[r]) => Suits(x.req, ts[r])
  BY DEF Suits, AsksFor, Keeps
<1>4. QED
  BY <1>1, <1>2, <1>3 DEF Checked

LEMMA AnswersKept ==
  ASSUME NEW rs, NEW ts, Keeps(rs, ts), NEW r \in DOMAIN rs, NEW q, Suits(q, rs[r])
  PROVE  r \in DOMAIN ts /\ Suits(q, ts[r])
<1>1. r \in DOMAIN ts
  BY DEF Keeps
<1>2. QED
  BY <1>1 DEF Suits, AsksFor, Keeps

\* Runs that go on, while none is added.
LEMMA RunsGoOn ==
  ASSUME SubmissionInv, Keeps(runs, runs'), Len(runs') = Len(runs), registered' = registered,
         \A r \in DOMAIN runs : runs'[r].status = "queued" => ~runs'[r].fenced
  PROVE  /\ RunsOK' /\ AgentsOK'
         /\ \A h \in Handler : Checked(handler[h], runs')
         /\ \A x \in answers : x.run \in DOMAIN runs' /\ Suits(x.req, runs'[x.run])
<1>1. runs \in Seq(Run) /\ runs' \in Seq(Run) /\ DOMAIN runs' = DOMAIN runs
  BY DEF Keeps
<1>2. Ordered(runs)
  BY <1>1, RunsAreOrdered DEF SubmissionInv, RunsOK, RunOK
<1>3. Ordered(runs')
  BY <1>1, <1>2 DEF Ordered, Keeps
<1>4. RunsOK'
  <2>1. UniqueKeys(runs')
    BY <1>1 DEF UniqueKeys, Keeps, SubmissionInv, RunsOK
  <2>2. ASSUME NEW r \in DOMAIN runs PROVE RunOK(runs', r)
    <3>1. RunOK(runs, r)
      BY DEF SubmissionInv, RunsOK
    <3>2. FittingAgent(runs'[r])
      BY <3>1 DEF RunOK, FittingAgent, Keeps
    <3>3. runs'[r].kind = runs[r].kind
      BY DEF Keeps
    <3>4. QED
      BY <1>2, <1>3, <3>1, <3>2, <3>3, BoundsKept DEF RunOK
  <2>3. QED
    BY <1>1, <2>1, <2>2 DEF RunsOK
<1>5. AgentsOK'
  BY <1>1 DEF SubmissionInv, AgentsOK, Keeps
<1>6. \A h \in Handler : Checked(handler[h], runs')
  BY <1>2, <1>3, CheckedKept DEF SubmissionInv, HandlersOK
<1>7. \A x \in answers : x.run \in DOMAIN runs' /\ Suits(x.req, runs'[x.run])
  BY AnswersKept DEF SubmissionInv, AnswersOK
<1>8. QED
  BY <1>4, <1>5, <1>6, <1>7

-----------------------------------------------------------------------------
(* Steps of one handler that leave the Runs alone.                         *)

LEMMA HandlerAt ==
  ASSUME SubmissionInv, NEW h \in Handler
  PROVE  handler[h] \in AtRequest /\ Checked(handler[h], runs)
BY DEF SubmissionInv, HandlersOK

LEMMA FreeIsChecked == Free \in AtRequest /\ Free.pc = "idle" /\ \A rs : Checked(Free, rs)
BY DEF Free, AtRequest, PC, Choosing, Checked

\* Handler h goes on to x, and what it answers suits.
LEMMA HandlerGoes ==
  ASSUME SubmissionInv, NEW h \in Handler, NEW x \in AtRequest, handler' = [handler EXCEPT ![h] = x],
         Checked(x, runs), UNCHANGED <<registered, runs>>, handler[h].pc \notin {"enqueue", "fail"},
         \A y \in answers' : y.run \in DOMAIN runs /\ Suits(y.req, runs[y.run])
  PROVE  SubmissionInv'
<1>1. \A g \in Handler : handler'[g] = IF g = h THEN x ELSE handler[g]
  BY DEF SubmissionInv, HandlersOK
<1>2. HandlersOK'
  <2>1. handler' \in [Handler -> AtRequest]
    BY DEF SubmissionInv, HandlersOK
  <2>2. \A g \in Handler : Checked(handler'[g], runs')
    BY <1>1 DEF SubmissionInv, HandlersOK
  <2>3. QED
    BY <2>1, <2>2 DEF HandlersOK
<1>3. NoRunIsStranded'
  <2>1. SUFFICES ASSUME NEW r \in DOMAIN runs,
                        runs[r].status = "queued" /\ ~runs[r].enqueued /\ ~runs[r].left
                 PROVE  \E g \in Handler : handler'[g].pc \in {"enqueue", "fail"} /\ handler'[g].run = r
    BY DEF NoRunIsStranded
  <2>2. PICK g \in Handler : handler[g].pc \in {"enqueue", "fail"} /\ handler[g].run = r
    BY <2>1 DEF SubmissionInv, NoRunIsStranded
  <2>3. QED
    BY <1>1, <2>2
<1>4. RunsOK' /\ AgentsOK' /\ AnswersOK'
  BY DEF SubmissionInv, RunsOK, AgentsOK, AnswersOK
<1>5. QED
  BY <1>2, <1>3, <1>4 DEF SubmissionInv

LEMMA RefuseStep ==
  ASSUME SubmissionInv, NEW h \in Handler, Refuse(h), UNCHANGED <<registered, runs>>,
         handler[h].pc \notin {"enqueue", "fail"}
  PROVE  SubmissionInv'
<1>1. handler' = [handler EXCEPT ![h] = Free] /\ answers' = answers
  BY DEF Refuse, Become
<1>2. \A y \in answers' : y.run \in DOMAIN runs /\ Suits(y.req, runs[y.run])
  BY <1>1 DEF SubmissionInv, AnswersOK
<1>3. QED
  BY <1>1, <1>2, FreeIsChecked, HandlerGoes, Zenon

LEMMA AnswerStep ==
  ASSUME SubmissionInv, NEW h \in Handler, NEW r \in DOMAIN runs, AnswerRun(h, r),
         UNCHANGED <<registered, runs>>, handler[h].pc \notin {"enqueue", "fail"},
         Suits(handler[h].req, runs[r])
  PROVE  SubmissionInv'
<1>1. handler' = [handler EXCEPT ![h] = Free]
  BY DEF AnswerRun, Become
<1>2. answers' = answers \union {[req |-> handler[h].req, run |-> r]}
  BY DEF AnswerRun
<1>3. ASSUME NEW y \in answers' PROVE y.run \in DOMAIN runs /\ Suits(y.req, runs[y.run])
  <2>1. CASE y \in answers
    BY <2>1 DEF SubmissionInv, AnswersOK
  <2>2. CASE y = [req |-> handler[h].req, run |-> r]
    BY <2>2
  <2>3. QED
    BY <1>2, <2>1, <2>2
<1>4. QED
  BY <1>1, <1>3, FreeIsChecked, HandlerGoes, Zenon

LEMMA GoStep ==
  ASSUME SubmissionInv, NEW h \in Handler, NEW x \in AtRequest, Become(h, x),
         UNCHANGED <<registered, runs, answers>>, handler[h].pc \notin {"enqueue", "fail"},
         Checked(x, runs)
  PROVE  SubmissionInv'
<1>1. handler' = [handler EXCEPT ![h] = x]
  BY DEF Become
<1>2. \A y \in answers' : y.run \in DOMAIN runs /\ Suits(y.req, runs[y.run])
  BY DEF SubmissionInv, AnswersOK
<1>3. QED
  BY <1>1, <1>2, HandlerGoes, Zenon

\* The Run that has the key of a request is the answer when it is what the
\* request asks for.
LEMMA ReplayStep ==
  ASSUME SubmissionInv, NEW h \in Handler, NEW r \in ExistingRun(handler[h].req), Replay(h, r),
         UNCHANGED <<registered, runs>>, handler[h].pc \notin {"enqueue", "fail"}
  PROVE  SubmissionInv'
<1>1. r \in DOMAIN runs /\ runs[r].key = StoreKey(handler[h].req)
  BY DEF ExistingRun
<1>2. CASE SameRequest(handler[h].req, runs[r])
  <2>1. Suits(handler[h].req, runs[r])
    BY <1>1, <1>2 DEF Suits, AsksFor, SameRequest, Routed
  <2>2. AnswerRun(h, r)
    BY <1>2 DEF Replay
  <2>3. QED
    BY <1>1, <2>1, <2>2, AnswerStep
<1>3. CASE ~SameRequest(handler[h].req, runs[r])
  <2>1. Refuse(h)
    BY <1>3 DEF Replay
  <2>2. QED
    BY <2>1, RefuseStep
<1>4. QED
  BY <1>2, <1>3

LEMMA ReceiveStep == ASSUME SubmissionInv, NEW h \in Handler, Receive(h) PROVE SubmissionInv'
<1>1. PICK q \in Requests :
        /\ Valid(q)
        /\ Become(h, [Free EXCEPT !.pc = IF q.kind = "call" THEN "parent" ELSE "lookup",
                                  !.req = [q EXCEPT !.required = NormalizeRequirements(@)]])
  BY Zenon DEF Receive
<1>2. q \in Request
  BY SubmissionAssumption
<1>3. PICK kept : kept = NormalizeRequirements(q.required)
  OBVIOUS
<1>4. kept \in Seq(STRING) /\ (kept = <<>> <=> q.required = <<>>)
  <2>1. q.required \in Seq(STRING)
    BY <1>2 DEF Request
  <2>2. QED
    BY <1>3, <2>1, NormalizedRequirements
<1>5. PICK p : p = [q EXCEPT !.required = kept]
  BY Zenon
<1>6. /\ p \in Request /\ p.required = kept /\ p.target = q.target /\ p.input = q.input
      /\ p.kind = q.kind /\ p.key = q.key
  BY <1>2, <1>4, <1>5 DEF Request
<1>7. Valid(p)
  BY <1>1, <1>4, <1>6, Zenon DEF Valid, Keyed
<1>8. PICK pc, x : /\ pc = IF q.kind = "call" THEN "parent" ELSE "lookup"
                   /\ x = [Free EXCEPT !.pc = pc, !.req = p]
  BY Zenon
<1>9. Become(h, x)
  <2>1. [q EXCEPT !.required = NormalizeRequirements(@)] = p
    BY <1>3, <1>5
  <2>2. QED
    BY <1>1, <1>8, <2>1, Zenon
<1>10. x \in AtRequest /\ x.pc = pc /\ x.req = p
  <2>1. x = [pc |-> pc, req |-> p, agent |-> 0, run |-> 0, running |-> FALSE]
    BY <1>8, Zenon DEF Free
  <2>2. pc \in PC
    BY <1>8 DEF PC
  <2>3. QED
    BY <1>6, <2>1, <2>2 DEF AtRequest
<1>11. Checked(x, runs)
  <2>1. x.req = p /\ x.pc \in {"parent", "lookup"} /\ (x.pc = "lookup" => p.kind # "call")
    BY <1>6, <1>8, <1>10
  <2>2. QED
    BY <1>6, <1>7, <2>1 DEF Checked, Choosing
<1>12. UNCHANGED <<registered, runs, answers>> /\ handler[h].pc \notin {"enqueue", "fail"}
  BY DEF Receive, At
<1>13. QED
  BY <1>9, <1>10, <1>11, <1>12, GoStep

LEMMA LoadParentStep == ASSUME SubmissionInv, NEW h \in Handler, LoadParent(h) PROVE SubmissionInv'
<1>1. PICK q : q = handler[h].req
  OBVIOUS
<1>2. handler[h] \in AtRequest /\ Checked(handler[h], runs) /\ handler[h].pc = "parent"
  BY HandlerAt DEF LoadParent, At
<1>3. q \in Request /\ Valid(q) /\ UNCHANGED <<registered, runs>> /\ handler[h].pc \notin {"enqueue", "fail"}
  BY <1>1, <1>2 DEF Checked, LoadParent
<1>4. CASE Refuse(h)
  BY <1>3, <1>4, RefuseStep
<1>5. CASE /\ q.parent \in DOMAIN runs /\ q.kind = "run" /\ Goto(h, ChooseFrom(q))
           /\ UNCHANGED answers
  <2>1. PICK x : x = [handler[h] EXCEPT !.pc = ChooseFrom(q)]
    BY Zenon
  <2>2. ChooseFrom(q) \in Choosing /\ (ChooseFrom(q) \in {"healthy", "unknown"} => Routed(q))
    BY DEF ChooseFrom, Choosing
  <2>3. x \in AtRequest /\ x.pc = ChooseFrom(q) /\ x.req = q
    BY <1>1, <1>2, <2>1, <2>2, Zenon DEF AtRequest, PC
  <2>4. Checked(x, runs)
    BY <1>3, <1>5, <2>2, <2>3 DEF Checked, Choosing
  <2>5. Become(h, x)
    BY <1>5, <2>1 DEF Goto
  <2>6. QED
    BY <1>3, <1>5, <2>3, <2>4, <2>5, GoStep
<1>6. CASE /\ q.parent \in DOMAIN runs
           /\ Become(h, [handler[h] EXCEPT !.pc = "lookup", !.running = runs[q.parent].status = "running"])
           /\ UNCHANGED answers
  <2>1. PICK b \in BOOLEAN : b = (runs[q.parent].status = "running")
    BY Zenon
  <2>2. PICK x : x = [handler[h] EXCEPT !.pc = "lookup", !.running = b]
    OBVIOUS
  <2>3. x \in AtRequest /\ x.pc = "lookup" /\ x.req = q
    BY <1>1, <1>2, <2>1, <2>2, Zenon DEF AtRequest, PC
  <2>4. Checked(x, runs)
    BY <1>3, <1>6, <2>3 DEF Checked, Choosing
  <2>5. Become(h, x)
    BY <1>6, <2>1, <2>2, Zenon
  <2>6. QED
    BY <1>3, <1>6, <2>3, <2>4, <2>5, GoStep
<1>7. Refuse(h) \/ /\ q.parent \in DOMAIN runs
                   /\ \/ q.kind = "run" /\ Goto(h, ChooseFrom(q))
                      \/ Become(h, [handler[h] EXCEPT !.pc = "lookup",
                                                      !.running = runs[q.parent].status = "running"])
                   /\ UNCHANGED answers
  BY <1>1, Zenon DEF LoadParent
<1>8. QED
  BY <1>4, <1>5, <1>6, <1>7

LEMMA LookupStep == ASSUME SubmissionInv, NEW h \in Handler, Lookup(h) PROVE SubmissionInv'
<1>1. PICK q : q = handler[h].req
  OBVIOUS
<1>2. handler[h] \in AtRequest /\ Checked(handler[h], runs) /\ handler[h].pc = "lookup"
  BY HandlerAt, Zenon DEF Lookup, At
<1>3. q \in Request /\ Valid(q) /\ UNCHANGED <<registered, runs>> /\ handler[h].pc \notin {"enqueue", "fail"}
  BY <1>1, <1>2 DEF Checked, Lookup
<1>4. CASE \E r \in ExistingRun(q) : Replay(h, r)
  BY <1>1, <1>3, <1>4, ReplayStep
<1>5. CASE Refuse(h)
  BY <1>3, <1>5, RefuseStep
<1>6. CASE /\ ~(q.kind = "call" /\ ~MayCall(h)) /\ UNCHANGED answers
           /\ Goto(h, IF q.kind = "run" /\ q.parent # 0 THEN "parent" ELSE ChooseFrom(q))
  <2>1. PICK pc : pc = IF q.kind = "run" /\ q.parent # 0 THEN "parent" ELSE ChooseFrom(q)
    OBVIOUS
  <2>2. PICK x : x = [handler[h] EXCEPT !.pc = pc]
    BY Zenon
  <2>3. /\ pc \in Choosing \union {"parent"} /\ (pc \in {"healthy", "unknown"} => Routed(q))
        /\ pc \in Choosing /\ q.parent # 0 => q.kind = "call"
    <3>1. q.kind \in {"run", "call"}
      BY <1>3 DEF Request
    <3>2. QED
      BY <2>1, <3>1 DEF ChooseFrom, Choosing
  <2>4. x \in AtRequest /\ x.pc = pc /\ x.req = q
    BY <1>1, <1>2, <2>2, <2>3, Zenon DEF AtRequest, PC
  <2>5. q.kind = "call" => q.parent \in DOMAIN runs /\ Cardinality(Lineage(runs, q.parent)) <= MaxDepth
    BY <1>1, <1>2, <1>6, Zenon DEF Checked, MayCall
  <2>6. Checked(x, runs)
    BY <1>3, <2>3, <2>4, <2>5 DEF Checked, Choosing
  <2>7. Become(h, x)
    BY <1>6, <2>1, <2>2 DEF Goto
  <2>8. QED
    BY <1>3, <1>6, <2>4, <2>6, <2>7, GoStep
<1>7. QED
  BY <1>1, <1>4, <1>5, <1>6, Zenon DEF Lookup

\* The agent that a handler takes is in the chain of no call.
LEMMA TakeStep ==
  ASSUME SubmissionInv, NEW h \in Handler, NEW a \in Agent, Take(h, a), UNCHANGED <<registered, runs>>,
         handler[h].pc \in Choosing, handler[h].req.target \in {0, a},
         Range(handler[h].req.required) \subseteq Profile[a].capabilities
  PROVE  SubmissionInv'
<1>1. PICK q : q = handler[h].req
  OBVIOUS
<1>2. handler[h] \in AtRequest /\ Checked(handler[h], runs) /\ handler[h].pc \notin {"enqueue", "fail"}
  BY HandlerAt DEF Choosing
<1>3. CASE Repeats(h, a)
  BY <1>2, <1>3, RefuseStep DEF Take
<1>4. CASE ~Repeats(h, a)
  <2>1. PICK x : x = [handler[h] EXCEPT !.pc = "create", !.agent = a]
    OBVIOUS
  <2>2. Become(h, x) /\ UNCHANGED answers
    BY <1>4, <2>1 DEF Take
  <2>3. a \in Nat
    BY AgentAssumption
  <2>4. x \in AtRequest /\ x.pc = "create" /\ x.agent = a /\ x.req = q
    BY <1>1, <1>2, <2>1, <2>3, Zenon DEF AtRequest, PC
  <2>5. /\ q \in Request /\ Valid(q)
        /\ q.parent # 0 \/ q.kind = "call" => q.parent \in DOMAIN runs
        /\ q.kind = "call" => Cardinality(Lineage(runs, q.parent)) <= MaxDepth
    BY <1>1, <1>2 DEF Checked, Choosing
  <2>6. q.kind = "call" => \A s \in Lineage(runs, q.parent) : runs[s].agent # a
    BY <1>1, <1>4, Zenon DEF Repeats
  <2>7. Checked(x, runs)
    BY <1>1, <2>4, <2>5, <2>6 DEF Checked, Choosing
  <2>8. QED
    BY <1>2, <2>2, <2>4, <2>7, GoStep
<1>5. QED
  BY <1>3, <1>4

LEMMA LoadAgentStep == ASSUME SubmissionInv, NEW h \in Handler, LoadAgent(h) PROVE SubmissionInv'
<1>1. /\ handler[h] \in AtRequest /\ Checked(handler[h], runs) /\ handler[h].pc = "agent"
      /\ UNCHANGED <<registered, runs>>
  BY HandlerAt DEF LoadAgent, At
<1>2. CASE handler[h].req.target \in registered
  <2>1. PICK a : a = handler[h].req.target
    OBVIOUS
  <2>2. a \in Agent /\ a # 0 /\ handler[h].pc \in Choosing
    BY <1>1, <1>2, <2>1, AgentAssumption, Zenon DEF SubmissionInv, AgentsOK, Choosing
  <2>3. handler[h].req.required = <<>>
    BY <1>1, <2>1, <2>2, Zenon DEF Checked, Valid
  <2>4. Range(handler[h].req.required) \subseteq Profile[a].capabilities
    BY <2>3 DEF Range
  <2>5. Take(h, a)
    BY <1>2, <2>1 DEF LoadAgent
  <2>6. QED
    BY <1>1, <2>1, <2>2, <2>4, <2>5, TakeStep
<1>3. CASE handler[h].req.target \notin registered
  BY <1>1, <1>3, RefuseStep DEF LoadAgent
<1>4. QED
  BY <1>2, <1>3

\* The router returns an agent that declares every capability.
LEMMA SelectTierStep ==
  ASSUME SubmissionInv, NEW h \in Handler, NEW tier \in {"healthy", "unknown"}, SelectTier(h, tier)
  PROVE  SubmissionInv'
<1>1. /\ handler[h] \in AtRequest /\ Checked(handler[h], runs) /\ handler[h].pc = tier
      /\ UNCHANGED <<registered, runs>>
  BY HandlerAt DEF SelectTier, At
<1>2. PICK q, candidates, load :
        /\ q = handler[h].req
        /\ candidates = matchingAll(Search(registered, health, q.required[1], tier), q.required)
        /\ load = CountActiveRunsByAgent
  BY ZenonT(30)
<1>3. q \in Request /\ Valid(q) /\ Routed(q)
      /\ (q.parent # 0 \/ q.kind = "call" => q.parent \in DOMAIN runs)
      /\ (q.kind = "call" => Cardinality(Lineage(runs, q.parent)) <= MaxDepth)
  BY <1>1, <1>2, Zenon DEF Checked, Choosing
<1>4. ASSUME NEW a \in FirstRanked(candidates, load), Take(h, a) PROVE SubmissionInv'
  <2>1. a \in candidates
    BY DEF FirstRanked, Available
  <2>2. a \in registered /\ Range(q.required) \subseteq Profile[a].capabilities
    BY <1>2, <2>1 DEF matchingAll, Search
  <2>3. a \in Agent /\ handler[h].pc \in Choosing /\ q.target = 0
    BY <1>1, <1>3, <2>2, Zenon DEF SubmissionInv, AgentsOK, Choosing, Routed
  <2>4. QED
    BY <1>1, <1>2, <1>4, <2>2, <2>3, TakeStep
<1>5. CASE Goto(h, "unknown") /\ UNCHANGED answers
  <2>1. PICK x : x = [handler[h] EXCEPT !.pc = "unknown"]
    BY Zenon
  <2>2. x \in AtRequest /\ x.pc = "unknown" /\ x.req = q
    BY <1>1, <1>2, <2>1 DEF AtRequest, PC, Choosing
  <2>3. Checked(x, runs)
    BY <1>3, <2>2 DEF Checked, Choosing
  <2>4. Become(h, x) /\ handler[h].pc \notin {"enqueue", "fail"}
    BY <1>1, <1>5, <2>1 DEF Goto
  <2>5. QED
    BY <1>1, <1>5, <2>2, <2>3, <2>4, GoStep
<1>6. CASE Refuse(h)
  BY <1>1, <1>6, RefuseStep
<1>7. QED
  BY <1>2, <1>4, <1>5, <1>6, Zenon DEF SelectTier

-----------------------------------------------------------------------------
(* A Run is stored.                                                        *)

\* A child of Run p of rs, or a Run of its own.
Added(rs, y) ==
  /\ y \in Run /\ y.parent \in 0..Len(rs)
  /\ y.root = IF y.parent = 0 THEN 0 ELSE RootOfChild(rs, y.parent)
  /\ y.kind = "call" =>
       /\ y.parent # 0
       /\ Cardinality(Lineage(rs, y.parent)) <= MaxDepth
       /\ \A s \in Lineage(rs, y.parent) : rs[s].agent # y.agent
       /\ Cardinality(Children(rs, y.parent)) < MaxChildren

\* ts is rs with one more Run y, the n-th.
Adds(rs, y, ts, n) == Added(rs, y) /\ ts = Append(rs, y) /\ n = Len(rs) + 1

Longer(rs, y, ts, n) ==
  /\ Keeps(rs, ts) /\ Ordered(ts) /\ ts \in Seq(Run)
  /\ Len(ts) = n /\ DOMAIN ts = (DOMAIN rs) \union {n}
  /\ ts[n] = y /\ \A r \in DOMAIN rs : ts[r] = rs[r]

LEMMA AddedIsOrdered ==
  ASSUME NEW rs \in Seq(Run), Ordered(rs), NEW y, NEW ts, NEW n, Adds(rs, y, ts, n)
  PROVE  Longer(rs, y, ts, n)
<1>1. y \in Run /\ Len(rs) \in Nat /\ DOMAIN rs = 1..Len(rs) /\ n = Len(rs) + 1 /\ Added(rs, y)
  BY DEF Adds, Added
<1>2. ts \in Seq(Run) /\ Len(ts) = n /\ ts[n] = y /\ \A r \in DOMAIN rs : ts[r] = rs[r]
  BY <1>1 DEF Adds
<1>3. DOMAIN ts = (DOMAIN rs) \union {n}
  BY <1>1, <1>2
<1>4. Keeps(rs, ts)
  BY <1>1, <1>2 DEF Keeps
<1>5. Ordered(ts)
  <2>1. SUFFICES ASSUME NEW r \in DOMAIN ts PROVE ts[r].parent \in 0..(r - 1)
    BY DEF Ordered
  <2>2. CASE r \in DOMAIN rs
    BY <1>2, <2>2 DEF Ordered
  <2>3. CASE r = n
    <3>1. r - 1 = Len(rs) /\ y.parent \in 0..Len(rs)
      BY <1>1, <2>3 DEF Added
    <3>2. QED
      BY <1>2, <2>3, <3>1
  <2>4. QED
    BY <1>3, <2>2, <2>3
<1>6. QED
  BY <1>2, <1>3, <1>4, <1>5 DEF Longer

LEMMA AddedIsAttached ==
  ASSUME NEW rs \in Seq(Run), Ordered(rs), \A r \in DOMAIN rs : Attached(rs, r),
         NEW y, NEW ts, NEW n, Adds(rs, y, ts, n)
  PROVE  Attached(ts, n) /\ Lineage(ts, n) = {n} \union Lineage(rs, y.parent)
<1>1. /\ Keeps(rs, ts) /\ Ordered(ts) /\ ts \in Seq(Run) /\ n \in DOMAIN ts
      /\ ts[n] = y /\ \A r \in DOMAIN rs : ts[r] = rs[r]
  <2>1. Longer(rs, y, ts, n)
    BY AddedIsOrdered
  <2>2. QED
    BY <2>1 DEF Longer
<1>2. /\ Added(rs, y) /\ n = Len(rs) + 1
      /\ y.parent \in 0..Len(rs) /\ y.parent < n /\ Len(rs) \in Nat /\ DOMAIN rs = 1..Len(rs)
  BY DEF Adds, Added
<1>3. Lineage(ts, n) = {n} \union Lineage(rs, y.parent)
  <2>1. Lineage(ts, n) = {n} \union Lineage(ts, ts[n].parent)
    BY <1>1, LineageUnfolds
  <2>2. Lineage(ts, y.parent) = Lineage(rs, y.parent)
    BY <1>1, <1>2, LineageKept
  <2>3. QED
    BY <1>1, <2>1, <2>2
<1>4. ASSUME y.parent # 0 PROVE y.root \in Lineage(ts, n) /\ ts[y.root].parent = 0
  <2>1. y.parent \in DOMAIN rs /\ Attached(rs, y.parent)
    BY <1>2, <1>4
  <2>2. y.parent \in Lineage(rs, y.parent)
    BY <2>1, LineageUnfolds
  <2>3. CASE rs[y.parent].parent = 0
    <3>1. y.root = y.parent
      BY <1>2, <1>4, <2>3, Zenon DEF Added, RootOfChild
    <3>2. QED
      BY <1>1, <1>3, <2>1, <2>2, <2>3, <3>1, Zenon
  <2>4. CASE rs[y.parent].parent # 0
    <3>1. y.root = rs[y.parent].root
      BY <1>2, <1>4, <2>4, Zenon DEF Added, RootOfChild
    <3>2. y.root \in Lineage(rs, y.parent) /\ rs[y.root].parent = 0
      BY <2>1, <2>4, <3>1, Zenon DEF Attached
    <3>3. y.root \in DOMAIN rs
      <4>1. Lineage(rs, y.parent) \subseteq 1..y.parent
        BY <1>2, LineageBelow
      <4>2. QED
        BY <1>2, <3>2, <4>1
    <3>4. QED
      BY <1>1, <1>3, <3>2, <3>3, Zenon
  <2>5. QED
    BY <2>3, <2>4
<1>5. y.kind = "call" => y.parent # 0
  BY <1>2 DEF Added
<1>6. Attached(ts, n)
  BY <1>1, <1>2, <1>4, <1>5 DEF Attached
<1>7. QED
  BY <1>3, <1>6

\* The limits that were checked before are kept by the Run that is stored.
LEMMA AddedIsBounded ==
  ASSUME NEW rs \in Seq(Run), Ordered(rs), \A r \in DOMAIN rs : Attached(rs, r),
         NEW y, NEW ts, NEW n, Adds(rs, y, ts, n), y.kind = "call"
  PROVE  CallIsBounded(ts, n)
<1>1. /\ Keeps(rs, ts) /\ Ordered(ts) /\ ts \in Seq(Run) /\ DOMAIN ts = (DOMAIN rs) \union {n}
      /\ ts[n] = y /\ \A r \in DOMAIN rs : ts[r] = rs[r]
  <2>1. Longer(rs, y, ts, n)
    BY AddedIsOrdered
  <2>2. QED
    BY <2>1 DEF Longer
<1>2. Attached(ts, n) /\ Lineage(ts, n) = {n} \union Lineage(rs, y.parent)
  BY AddedIsAttached
<1>3. /\ Added(rs, y) /\ n = Len(rs) + 1
      /\ y.parent \in 0..Len(rs) /\ y.parent # 0 /\ Len(rs) \in Nat /\ DOMAIN rs = 1..Len(rs)
  BY DEF Adds, Added
<1>4. /\ Lineage(rs, y.parent) \subseteq 1..y.parent /\ IsFiniteSet(Lineage(rs, y.parent))
      /\ Cardinality(Lineage(rs, y.parent)) \in Nat
  BY <1>3, LineageBelow
<1>5. n \notin Lineage(rs, y.parent) /\ \A s \in Lineage(rs, y.parent) : s \in DOMAIN rs
  BY <1>3, <1>4
<1>6. Cardinality(Lineage(ts, n)) <= MaxDepth + 1
  <2>1. Cardinality(Lineage(ts, n)) = Cardinality(Lineage(rs, y.parent)) + 1
    <3>1. PICK L : L = Lineage(rs, y.parent)
      OBVIOUS
    <3>2. Cardinality(L \union {n}) = Cardinality(L) + 1
      BY <1>4, <1>5, <3>1, FS_AddElement, Zenon
    <3>3. L \union {n} = Lineage(ts, n)
      BY <1>2, <3>1
    <3>4. QED
      BY <3>1, <3>2, <3>3, Zenon
  <2>2. Cardinality(Lineage(rs, y.parent)) <= MaxDepth /\ MaxDepth \in Nat
    BY <1>3, SubmissionAssumption, Zenon DEF Added
  <2>3. QED
    BY <1>4, <2>1, <2>2
<1>7. \A s \in Lineage(ts, n) \ {n} : ts[s].agent # ts[n].agent
  BY <1>1, <1>2, <1>3, <1>5 DEF Added
<1>8. Cardinality({c \in Children(ts, ts[n].parent) : c <= n}) <= MaxChildren
  <2>1. PICK C : C = Children(rs, y.parent)
    OBVIOUS
  <2>2. IsFiniteSet(C) /\ Cardinality(C) \in Nat /\ n \notin C
    <3>1. C \subseteq 1..Len(rs)
      BY <1>3, <2>1 DEF Children
    <3>2. IsFiniteSet(1..Len(rs))
      <4>1. 1 \in Int /\ Len(rs) \in Int
        BY <1>3
      <4>2. QED
        BY <4>1, FS_Interval
    <3>3. n \notin C
      BY <1>3, <3>1
    <3>4. QED
      BY <3>1, <3>2, <3>3, FS_Subset, FS_CardinalityType, Zenon
  <2>3. {c \in Children(ts, ts[n].parent) : c <= n} = C \union {n}
    <3>1. \A c \in DOMAIN rs : c <= n /\ ts[c].parent = rs[c].parent
      BY <1>1, <1>3
    <3>2. n <= n /\ ts[n].parent = y.parent
      BY <1>1, <1>3
    <3>3. QED
      BY <1>1, <2>1, <3>1, <3>2, Zenon DEF Children
  <2>4. Cardinality(C \union {n}) = Cardinality(C) + 1
    BY <2>2, FS_AddElement, Zenon
  <2>5. Cardinality(C) < MaxChildren /\ MaxChildren \in Nat
    BY <1>3, <2>1, SubmissionAssumption DEF Added
  <2>6. Cardinality(C \union {n}) <= MaxChildren
    BY <2>2, <2>4, <2>5
  <2>7. QED
    BY <2>3, <2>6, Zenon
<1>9. ts[n].root \in Lineage(ts, n) /\ ts[ts[n].root].parent = 0
  BY <1>1, <1>2, <1>3 DEF Attached
<1>10. QED
  BY <1>6, <1>7, <1>8, <1>9 DEF CallIsBounded

\* No Run of rs has the key of y.
Fresh(rs, y) == \A r \in DOMAIN rs : y.key[2] # 0 => rs[r].key # y.key

LEMMA AddedRunsAreOK ==
  ASSUME NEW rs \in Seq(Run), UniqueKeys(rs), \A r \in DOMAIN rs : RunOK(rs, r),
         NEW y, NEW ts, NEW n, Adds(rs, y, ts, n), Fresh(rs, y), FittingAgent(y), ~y.fenced
  PROVE  UniqueKeys(ts) /\ \A r \in DOMAIN ts : RunOK(ts, r)
<1>1. Ordered(rs) /\ \A r \in DOMAIN rs : Attached(rs, r)
  BY RunsAreOrdered DEF RunOK
<1>2. Longer(rs, y, ts, n)
  BY <1>1, AddedIsOrdered, Zenon
<1>3. /\ Keeps(rs, ts) /\ Ordered(ts) /\ DOMAIN ts = (DOMAIN rs) \union {n}
      /\ ts[n] = y /\ \A r \in DOMAIN rs : ts[r] = rs[r]
  BY <1>2, Zenon DEF Longer
<1>4. UniqueKeys(ts)
  <2>1. SUFFICES ASSUME NEW r \in DOMAIN ts, NEW s \in DOMAIN ts, ts[r].key[2] # 0, ts[r].key = ts[s].key
                 PROVE  r = s
    BY Zenon DEF UniqueKeys
  <2>2. CASE r \in DOMAIN rs /\ s \in DOMAIN rs
    BY <1>3, <2>1, <2>2 DEF UniqueKeys
  <2>3. CASE r = n /\ s \in DOMAIN rs
    BY <1>3, <2>1, <2>3, Zenon DEF Fresh
  <2>4. CASE r \in DOMAIN rs /\ s = n
    BY <1>3, <2>1, <2>4 DEF Fresh
  <2>5. QED
    BY <1>3, <2>2, <2>3, <2>4
<1>5. ASSUME NEW r \in DOMAIN ts PROVE RunOK(ts, r)
  <2>1. CASE r \in DOMAIN rs
    BY <1>1, <1>3, <2>1, BoundsKept, Zenon DEF RunOK
  <2>2. CASE r = n
    <3>1. Attached(ts, n)
      BY <1>1, AddedIsAttached
    <3>2. y.kind = "call" => CallIsBounded(ts, n)
      BY <1>1, AddedIsBounded
    <3>3. QED
      BY <1>3, <2>2, <3>1, <3>2, Zenon DEF RunOK
  <2>3. QED
    BY <1>3, <2>1, <2>2, Zenon
<1>6. QED
  BY <1>4, <1>5

LEMMA RunIsStored ==
  ASSUME SubmissionInv, NEW h \in Handler, handler[h].pc = "create",
         NEW y, NEW n, Adds(runs, y, runs', n), Fresh(runs, y), FittingAgent(y), ~y.fenced,
         y.agent \in registered, UNCHANGED <<registered, answers>>,
         NEW x \in AtRequest, handler' = [handler EXCEPT ![h] = x],
         x.pc = "enqueue", x.run = n, x.req \in Request, Valid(x.req), Suits(x.req, y)
  PROVE  SubmissionInv'
<1>1. /\ runs \in Seq(Run) /\ UniqueKeys(runs) /\ \A r \in DOMAIN runs : RunOK(runs, r)
  BY Zenon DEF SubmissionInv, RunsOK
<1>2. Ordered(runs)
  BY <1>1, RunsAreOrdered DEF RunOK
<1>3. Longer(runs, y, runs', n)
  BY <1>1, <1>2, AddedIsOrdered, Zenon
<1>4. /\ Keeps(runs, runs') /\ Ordered(runs') /\ runs' \in Seq(Run)
      /\ DOMAIN runs' = (DOMAIN runs) \union {n}
      /\ runs'[n] = y /\ \A r \in DOMAIN runs : runs'[r] = runs[r]
  BY <1>3 DEF Longer
<1>5. UniqueKeys(runs') /\ \A r \in DOMAIN runs' : RunOK(runs', r)
  BY <1>1, AddedRunsAreOK
<1>6. \A g \in Handler : handler'[g] = IF g = h THEN x ELSE handler[g]
  BY DEF SubmissionInv, HandlersOK
<1>7. HandlersOK'
  <2>1. handler' \in [Handler -> AtRequest]
    BY Zenon DEF SubmissionInv, HandlersOK
  <2>2. Checked(x, runs')
    BY <1>4, Zenon DEF Checked, Choosing
  <2>3. ASSUME NEW g \in Handler, g # h PROVE Checked(handler[g], runs')
    <3>1. Checked(handler[g], runs)
      BY HandlerAt, Zenon
    <3>2. QED
      BY <1>2, <1>4, <3>1, CheckedKept, Zenon
  <2>4. QED
    BY <1>6, <2>1, <2>2, <2>3 DEF HandlersOK
<1>8. NoRunIsStranded'
  <2>1. SUFFICES ASSUME NEW r \in DOMAIN runs',
                        runs'[r].status = "queued" /\ ~runs'[r].enqueued /\ ~runs'[r].left
                 PROVE  \E g \in Handler : handler'[g].pc \in {"enqueue", "fail"} /\ handler'[g].run = r
    BY Zenon DEF NoRunIsStranded
  <2>2. CASE r = n
    BY <1>6, <2>2, Zenon
  <2>3. CASE r \in DOMAIN runs
    <3>1. PICK g \in Handler : handler[g].pc \in {"enqueue", "fail"} /\ handler[g].run = r
      BY <1>4, <2>1, <2>3, Zenon DEF SubmissionInv, NoRunIsStranded
    <3>2. QED
      BY <1>6, <3>1, Zenon
  <2>4. QED
    BY <1>4, <2>2, <2>3, Zenon
<1>9. AgentsOK'
  BY <1>4, Zenon DEF SubmissionInv, AgentsOK
<1>10. AnswersOK'
  BY <1>4, AnswersKept, Zenon DEF SubmissionInv, AnswersOK
<1>11. RunsOK'
  BY <1>4, <1>5, Zenon DEF RunsOK
<1>12. QED
  BY <1>7, <1>8, <1>9, <1>10, <1>11 DEF SubmissionInv

\* The Run that a handler stores is what its request asks for, and within the
\* limits that were checked.
LEMMA NewRunIsAdded ==
  ASSUME SubmissionInv, NEW h \in Handler, handler[h].pc = "create", ExistingRun(handler[h].req) = {},
         ~(handler[h].req.kind = "call" /\ Cardinality(Children(runs, handler[h].req.parent)) >= MaxChildren),
         NEW y, y = NewRun(h)
  PROVE  /\ Added(runs, y) /\ Fresh(runs, y) /\ FittingAgent(y) /\ ~y.fenced
         /\ y.agent = handler[h].agent /\ Suits(handler[h].req, y)
<1>1. PICK q : q = handler[h].req
  OBVIOUS
<1>2. PICK a : a = handler[h].agent
  BY Zenon
<1>3. Checked(handler[h], runs) /\ runs \in Seq(Run) /\ \A r \in DOMAIN runs : Attached(runs, r)
  BY HandlerAt, Zenon DEF SubmissionInv, RunsOK, RunOK
<1>4. /\ q \in Request /\ Valid(q) /\ a \in Agent /\ q.target \in {0, a}
      /\ Range(q.required) \subseteq Profile[a].capabilities
      /\ q.parent # 0 \/ q.kind = "call" => q.parent \in DOMAIN runs
      /\ q.kind = "call" => Cardinality(Lineage(runs, q.parent)) <= MaxDepth
      /\ q.kind = "call" => \A s \in Lineage(runs, q.parent) : runs[s].agent # a
  BY <1>1, <1>2, <1>3, Zenon DEF Checked
<1>5. /\ q.kind \in {"run", "call"} /\ q.key \in Nat /\ q.required \in Seq(STRING)
      /\ q.parent \in Nat /\ q.input \in STRING
  BY <1>4 DEF Request
<1>6. PICK root, key : /\ root = IF q.parent = 0 THEN 0 ELSE RootOfChild(runs, q.parent)
                       /\ key = IF Keyed(q) THEN StoreKey(q) ELSE <<0, 0>>
  BY Zenon
<1>7. y = [agent |-> a, parent |-> q.parent, required |-> q.required, input |-> q.input, root |-> root,
           key |-> key, kind |-> q.kind, status |-> "queued", enqueued |-> FALSE, fenced |-> FALSE,
           left |-> FALSE]
  BY <1>1, <1>2, <1>6, ZenonT(30) DEF NewRun
<1>8. /\ y.agent = a /\ y.parent = q.parent /\ y.required = q.required /\ y.input = q.input
      /\ y.root = root /\ y.key = key /\ y.kind = q.kind /\ ~y.fenced
  <2>1. y.agent = a /\ y.parent = q.parent /\ y.required = q.required /\ y.input = q.input
    BY <1>7
  <2>2. y.root = root /\ y.key = key /\ y.kind = q.kind
    BY <1>7
  <2>3. y.fenced = FALSE
    BY <1>7
  <2>4. QED
    BY <2>1, <2>2, <2>3, Zenon
<1>9. q.parent \in 0..Len(runs)
  <2>1. Len(runs) \in Nat /\ DOMAIN runs = 1..Len(runs)
    BY <1>3
  <2>2. QED
    BY <1>4, <1>5, <2>1
<1>10. root \in Nat
  <2>1. CASE q.parent = 0
    BY <1>6, <2>1
  <2>2. CASE q.parent # 0
    <3>1. q.parent \in DOMAIN runs
      BY <1>4, <2>2, Zenon
    <3>2. runs[q.parent] \in Run
      BY <1>3, <3>1
    <3>3. runs[q.parent].root \in Nat
      BY <3>2 DEF Run
    <3>4. QED
      BY <1>5, <1>6, <2>2, <3>3, Zenon DEF RootOfChild
  <2>3. QED
    BY <2>1, <2>2
<1>11. key \in Nat \X Nat /\ (key[2] # 0 => Keyed(q)) /\ (Keyed(q) => key = StoreKey(q))
  BY <1>5, <1>6, Zenon DEF Keyed, StoreKey
<1>12. y \in Run
  <2>1. a \in Agent /\ q.parent \in Nat /\ q.required \in Seq(STRING) /\ q.input \in STRING
    BY <1>4, <1>5, Zenon
  <2>2. root \in Nat /\ key \in Nat \X Nat /\ q.kind \in {"run", "call"}
    BY <1>5, <1>10, <1>11, Zenon
  <2>3. "queued" \in Status /\ FALSE \in BOOLEAN
    BY Zenon DEF Status
  <2>4. QED
    BY <1>7, <2>1, <2>2, <2>3, SMT DEF Run
<1>13. y.kind = "call" => y.parent \in DOMAIN runs /\ y.parent # 0
  BY <1>3, <1>4, <1>8
<1>14. q.kind = "call" => Cardinality(Children(runs, q.parent)) < MaxChildren
  <2>1. SUFFICES ASSUME q.kind = "call" PROVE Cardinality(Children(runs, q.parent)) < MaxChildren
    OBVIOUS
  <2>2. Len(runs) \in Nat /\ DOMAIN runs = 1..Len(runs)
    BY <1>3
  <2>3. IsFiniteSet(1..Len(runs))
    <3>1. 1 \in Int /\ Len(runs) \in Int
      BY <2>2
    <3>2. QED
      BY <3>1, FS_Interval
  <2>4. Children(runs, q.parent) \subseteq 1..Len(runs)
    BY <2>2 DEF Children
  <2>5. Cardinality(Children(runs, q.parent)) \in Nat
    BY <2>3, <2>4, FS_Subset, FS_CardinalityType
  <2>6. MaxChildren \in Nat
    BY SubmissionAssumption
  <2>7. ~(Cardinality(Children(runs, q.parent)) >= MaxChildren)
    BY <1>1, <2>1, Zenon
  <2>8. QED
    BY <2>5, <2>6, <2>7
<1>15. Added(runs, y)
  BY <1>4, <1>6, <1>8, <1>9, <1>12, <1>13, <1>14, Zenon DEF Added
<1>16. Fresh(runs, y)
  BY <1>1, <1>8, <1>11, Zenon DEF Fresh, ExistingRun
<1>17. FittingAgent(y)
  BY <1>4, <1>8, Zenon DEF FittingAgent
<1>18. Suits(q, y)
  BY <1>4, <1>8, <1>11 DEF Suits, AsksFor
<1>19. QED
  BY <1>1, <1>2, <1>8, <1>15, <1>16, <1>17, <1>18, Zenon

LEMMA CreateRunStep == ASSUME SubmissionInv, NEW h \in Handler, CreateRun(h) PROVE SubmissionInv'
<1>1. PICK q : q = handler[h].req
  OBVIOUS
<1>2. /\ handler[h] \in AtRequest /\ Checked(handler[h], runs) /\ handler[h].pc = "create"
      /\ registered' = registered
  BY HandlerAt, Zenon DEF CreateRun, At
<1>3. q \in Request /\ Valid(q) /\ handler[h].pc \notin {"enqueue", "fail"} /\ runs \in Seq(Run)
  BY <1>1, <1>2, Zenon DEF Checked, SubmissionInv, RunsOK
<1>4. ASSUME NEW r \in ExistingRun(q), IF q.kind = "call" THEN AnswerRun(h, r) ELSE Replay(h, r), runs' = runs
      PROVE  SubmissionInv'
  <2>1. CASE q.kind = "call"
    <3>1. r \in DOMAIN runs /\ Suits(q, runs[r])
      BY <2>1 DEF ExistingRun, Suits
    <3>2. AnswerRun(h, r)
      BY <1>4, <2>1
    <3>3. QED
      BY <1>1, <1>2, <1>3, <1>4, <3>1, <3>2, AnswerStep, Zenon
  <2>2. CASE q.kind # "call"
    BY <1>1, <1>2, <1>3, <1>4, <2>2, ReplayStep
  <2>3. QED
    BY <2>1, <2>2, Zenon
<1>5. CASE Refuse(h) /\ runs' = runs
  BY <1>2, <1>3, <1>5, RefuseStep
<1>6. CASE /\ ExistingRun(q) = {}
           /\ ~(q.kind = "call" /\ Cardinality(Children(runs, q.parent)) >= MaxChildren)
           /\ Inserted(h) /\ UNCHANGED answers
           /\ Become(h, [handler[h] EXCEPT !.pc = "enqueue", !.run = Len(runs) + 1])
  <2>1. PICK y, n, x : /\ y = NewRun(h) /\ n = Len(runs) + 1
                       /\ x = [handler[h] EXCEPT !.pc = "enqueue", !.run = n]
    BY Zenon
  <2>2. n \in Nat
    BY <1>3, <2>1
  <2>3. x \in AtRequest /\ x.pc = "enqueue" /\ x.run = n /\ x.req = q
    BY <1>1, <1>2, <2>1, <2>2, Zenon DEF AtRequest, PC
  <2>4. /\ Added(runs, y) /\ Fresh(runs, y) /\ FittingAgent(y) /\ ~y.fenced
        /\ y.agent = handler[h].agent /\ Suits(q, y)
    BY <1>1, <1>2, <1>6, <2>1, NewRunIsAdded
  <2>5. Adds(runs, y, runs', n) /\ y.agent \in registered
    BY <1>6, <2>1, <2>4 DEF Adds, Inserted
  <2>6. handler' = [handler EXCEPT ![h] = x]
    BY <1>6, <2>1, Zenon DEF Become
  <2>7. QED
    BY <1>2, <1>3, <1>6, <2>3, <2>4, <2>5, <2>6, RunIsStored, Zenon
<1>7. QED
  BY <1>1, <1>4, <1>5, <1>6, Zenon DEF CreateRun, ConflictingRun

-----------------------------------------------------------------------------
(* Steps in which Runs go on.                                              *)

Waits(x) == x.status = "queued" /\ ~x.enqueued /\ ~x.left
GivesUp(h) == handler[h].pc \in {"enqueue", "fail"}

\* The Runs of rs go on to ts.
Advance(rs, ts) ==
  /\ Keeps(rs, ts) /\ Len(ts) = Len(rs)
  /\ \A r \in DOMAIN rs : /\ ts[r].status = "queued" => ~ts[r].fenced
                          /\ Waits(ts[r]) => Waits(rs[r])

LEMMA AllRunsAdvance ==
  ASSUME NEW rs \in Seq(Run), NEW ts, DOMAIN ts = DOMAIN rs, ts = [r \in DOMAIN rs |-> ts[r]],
         \A r \in DOMAIN rs :
           /\ ts[r] \in Run
           /\ ts[r].agent = rs[r].agent /\ ts[r].parent = rs[r].parent /\ ts[r].root = rs[r].root
           /\ ts[r].key = rs[r].key /\ ts[r].kind = rs[r].kind
           /\ ts[r].input = rs[r].input /\ ts[r].required = rs[r].required
           /\ ts[r].status = "queued" => ~ts[r].fenced
           /\ Waits(ts[r]) => Waits(rs[r])
  PROVE  Advance(rs, ts)
<1>1. Len(rs) \in Nat /\ DOMAIN rs = 1..Len(rs)
  OBVIOUS
<1>2. ts \in Seq(Run) /\ Len(ts) = Len(rs)
  BY <1>1
<1>3. Keeps(rs, ts)
  BY <1>1, <1>2 DEF Keeps
<1>4. QED
  BY <1>2, <1>3 DEF Advance

\* Run r goes on to y, which waits for nobody.
GoesOn(rs, r, y, ts) ==
  /\ y \in Run /\ ts = [rs EXCEPT ![r] = y]
  /\ y.agent = rs[r].agent /\ y.parent = rs[r].parent /\ y.root = rs[r].root
  /\ y.key = rs[r].key /\ y.kind = rs[r].kind
  /\ y.input = rs[r].input /\ y.required = rs[r].required
  /\ y.status = "queued" => ~y.fenced
  /\ ~Waits(y)

LEMMA OneRunAdvances ==
  ASSUME NEW rs \in Seq(Run), \A s \in DOMAIN rs : rs[s].status = "queued" => ~rs[s].fenced,
         NEW r \in DOMAIN rs, NEW y, NEW ts, GoesOn(rs, r, y, ts)
  PROVE  Advance(rs, ts) /\ ~Waits(ts[r])
<1>1. ts \in Seq(Run) /\ Len(ts) = Len(rs) /\ Len(rs) \in Nat
  BY DEF GoesOn
<1>2. \A s \in DOMAIN rs : ts[s] = IF s = r THEN y ELSE rs[s]
  BY DEF GoesOn
<1>3. Keeps(rs, ts)
  BY <1>1, <1>2 DEF Keeps, GoesOn
<1>4. QED
  BY <1>1, <1>2, <1>3 DEF Advance, GoesOn

LEMMA RunsAdvance ==
  ASSUME SubmissionInv, Advance(runs, runs'), registered' = registered
  PROVE  /\ RunsOK' /\ AgentsOK' /\ DOMAIN runs' = DOMAIN runs
         /\ \A h \in Handler : Checked(handler[h], runs')
         /\ \A x \in answers : x.run \in DOMAIN runs' /\ Suits(x.req, runs'[x.run])
         /\ \A q : \A r \in DOMAIN runs : Suits(q, runs[r]) => Suits(q, runs'[r])
<1>1. Keeps(runs, runs') /\ DOMAIN runs' = DOMAIN runs
  BY DEF Advance, Keeps
<1>2. /\ RunsOK' /\ AgentsOK'
      /\ \A h \in Handler : Checked(handler[h], runs')
      /\ \A x \in answers : x.run \in DOMAIN runs' /\ Suits(x.req, runs'[x.run])
  BY RunsGoOn DEF Advance
<1>3. \A q : \A r \in DOMAIN runs : Suits(q, runs[r]) => Suits(q, runs'[r])
  BY <1>1, AnswersKept
<1>4. QED
  BY <1>1, <1>2, <1>3

\* The handlers are not at work here.
LEMMA EngineSteps ==
  ASSUME SubmissionInv, Advance(runs, runs'), UNCHANGED <<registered, handler, answers>>
  PROVE  SubmissionInv'
<1>1. /\ RunsOK' /\ AgentsOK' /\ DOMAIN runs' = DOMAIN runs
      /\ \A h \in Handler : Checked(handler[h], runs')
      /\ \A x \in answers : x.run \in DOMAIN runs' /\ Suits(x.req, runs'[x.run])
  BY RunsAdvance, Zenon
<1>2. HandlersOK' /\ AnswersOK'
  BY <1>1 DEF SubmissionInv, HandlersOK, AnswersOK
<1>3. NoRunIsStranded'
  <2>1. SUFFICES ASSUME NEW r \in DOMAIN runs, Waits(runs'[r])
                 PROVE  \E g \in Handler : handler[g].pc \in {"enqueue", "fail"} /\ handler[g].run = r
    BY <1>1 DEF NoRunIsStranded, Waits
  <2>2. Waits(runs[r])
    BY <2>1, Zenon DEF Advance
  <2>3. QED
    BY <2>2, Zenon DEF SubmissionInv, NoRunIsStranded, Waits
<1>4. QED
  BY <1>1, <1>2, <1>3, Zenon DEF SubmissionInv

\* Handler h goes on to x; a Run that it gives up waits for it no longer.
LEMMA HandlerFollows ==
  ASSUME SubmissionInv, Advance(runs, runs'), registered' = registered,
         NEW h \in Handler, NEW x \in AtRequest, handler' = [handler EXCEPT ![h] = x], Checked(x, runs'),
         \A y \in answers' : y \in answers \/ (y.run \in DOMAIN runs /\ Suits(y.req, runs[y.run])),
         \A r \in DOMAIN runs : GivesUp(h) /\ handler[h].run = r /\ Waits(runs'[r]) =>
                                  x.pc \in {"enqueue", "fail"} /\ x.run = r
  PROVE  SubmissionInv'
<1>1. /\ RunsOK' /\ AgentsOK' /\ DOMAIN runs' = DOMAIN runs
      /\ \A g \in Handler : Checked(handler[g], runs')
      /\ \A y \in answers : y.run \in DOMAIN runs' /\ Suits(y.req, runs'[y.run])
      /\ \A q : \A r \in DOMAIN runs : Suits(q, runs[r]) => Suits(q, runs'[r])
  BY RunsAdvance, Zenon
<1>2. \A g \in Handler : handler'[g] = IF g = h THEN x ELSE handler[g]
  BY Zenon DEF SubmissionInv, HandlersOK
<1>3. HandlersOK'
  <2>1. handler' \in [Handler -> AtRequest]
    BY Zenon DEF SubmissionInv, HandlersOK
  <2>2. \A g \in Handler : Checked(handler'[g], runs')
    BY <1>1, <1>2, Zenon
  <2>3. QED
    BY <2>1, <2>2, Zenon DEF HandlersOK
<1>4. AnswersOK'
  BY <1>1, Zenon DEF AnswersOK
<1>5. NoRunIsStranded'
  <2>1. SUFFICES ASSUME NEW r \in DOMAIN runs, Waits(runs'[r])
                 PROVE  \E g \in Handler : handler'[g].pc \in {"enqueue", "fail"} /\ handler'[g].run = r
    BY <1>1, Zenon DEF NoRunIsStranded, Waits
  <2>2. Waits(runs[r])
    BY <2>1, Zenon DEF Advance
  <2>3. PICK g \in Handler : handler[g].pc \in {"enqueue", "fail"} /\ handler[g].run = r
    BY <2>2 DEF SubmissionInv, NoRunIsStranded, Waits
  <2>4. QED
    BY <1>2, <2>1, <2>3, Zenon DEF GivesUp
<1>6. QED
  BY <1>1, <1>3, <1>4, <1>5, Zenon DEF SubmissionInv

LEMMA QueuedAreNotFenced ==
  ASSUME SubmissionInv
  PROVE  runs \in Seq(Run) /\ \A r \in DOMAIN runs : runs[r].status = "queued" => ~runs[r].fenced
BY DEF SubmissionInv, RunsOK, RunOK

LEMMA RunsStay == ASSUME SubmissionInv PROVE Advance(runs, runs)
<1>1. runs \in Seq(Run) /\ Len(runs) \in Nat
  BY DEF SubmissionInv, RunsOK
<1>2. QED
  BY <1>1, QueuedAreNotFenced DEF Advance, Keeps

\* The Run of a handler is in the store and what its request asks for.
LEMMA HandlerHasRun ==
  ASSUME SubmissionInv, NEW h \in Handler, GivesUp(h)
  PROVE  /\ handler[h] \in AtRequest /\ handler[h].run \in DOMAIN runs
         /\ Suits(handler[h].req, runs[handler[h].run])
         /\ handler[h].req \in Request /\ Valid(handler[h].req)
BY HandlerAt DEF GivesUp, Checked

LEMMA EnqueuedRun ==
  ASSUME SubmissionInv, NEW r \in DOMAIN runs, runs' = [runs EXCEPT ![r].enqueued = TRUE]
  PROVE  Advance(runs, runs') /\ ~Waits(runs'[r])
<1>1. PICK y : y = [runs[r] EXCEPT !.enqueued = TRUE]
  OBVIOUS
<1>2. runs' = [runs EXCEPT ![r] = y]
  BY <1>1
<1>3. runs \in Seq(Run) /\ runs[r] \in Run /\ (runs[r].status = "queued" => ~runs[r].fenced)
  BY QueuedAreNotFenced
<1>4. GoesOn(runs, r, y, runs')
  BY <1>1, <1>2, <1>3, Zenon DEF GoesOn, Run, Waits
<1>5. QED
  BY <1>4, QueuedAreNotFenced, OneRunAdvances, Zenon

LEMMA EnqueueStep == ASSUME SubmissionInv, NEW h \in Handler, Enqueue(h) PROVE SubmissionInv'
<1>1. PICK r : r = handler[h].run
  OBVIOUS
<1>2. GivesUp(h) /\ r \in DOMAIN runs /\ Suits(handler[h].req, runs[r])
  BY <1>1, HandlerHasRun DEF GivesUp, Enqueue, At
<1>3. Advance(runs, runs') /\ ~Waits(runs'[r])
  BY <1>1, <1>2, EnqueuedRun, Zenon DEF Enqueue
<1>4. /\ handler' = [handler EXCEPT ![h] = Free] /\ registered' = registered
      /\ answers' = answers \union {[req |-> handler[h].req, run |-> r]}
  BY <1>1 DEF Enqueue, AnswerRun, Become
<1>5. \A y \in answers' : y \in answers \/ (y.run \in DOMAIN runs /\ Suits(y.req, runs[y.run]))
  BY <1>2, <1>4
<1>6. \A s \in DOMAIN runs : GivesUp(h) /\ handler[h].run = s /\ Waits(runs'[s]) =>
                              Free.pc \in {"enqueue", "fail"} /\ Free.run = s
  BY <1>1, <1>3
<1>7. QED
  BY <1>3, <1>4, <1>5, <1>6, FreeIsChecked, HandlerFollows, Zenon

LEMMA EnqueueFailsStep == ASSUME SubmissionInv, NEW h \in Handler, EnqueueFails(h) PROVE SubmissionInv'
<1>1. PICK r, x : r = handler[h].run /\ x = [handler[h] EXCEPT !.pc = "fail"]
  BY Zenon
<1>2. /\ GivesUp(h) /\ r \in DOMAIN runs /\ Suits(handler[h].req, runs[r]) /\ handler[h] \in AtRequest
      /\ handler[h].req \in Request /\ Valid(handler[h].req)
  BY <1>1, HandlerHasRun DEF GivesUp, EnqueueFails, At
<1>3. Advance(runs, runs')
  BY <1>1, <1>2, RunsStay, EnqueuedRun DEF EnqueueFails
<1>4. handler' = [handler EXCEPT ![h] = x] /\ UNCHANGED <<registered, answers>>
  BY <1>1 DEF EnqueueFails, Goto, Become
<1>5. x \in AtRequest /\ x.pc = "fail" /\ x.run = r /\ x.req = handler[h].req
  BY <1>1, <1>2, Zenon DEF AtRequest, PC
<1>6. DOMAIN runs' = DOMAIN runs /\ Suits(x.req, runs'[r])
  BY <1>2, <1>3, <1>4, <1>5, RunsAdvance, Zenon
<1>7. Checked(x, runs')
  BY <1>2, <1>5, <1>6 DEF Checked, Choosing
<1>8. \A s \in DOMAIN runs : GivesUp(h) /\ handler[h].run = s /\ Waits(runs'[s]) =>
                              x.pc \in {"enqueue", "fail"} /\ x.run = s
  BY <1>1, <1>5
<1>9. \A y \in answers' : y \in answers \/ (y.run \in DOMAIN runs /\ Suits(y.req, runs[y.run]))
  BY <1>4
<1>10. QED
  BY <1>3, <1>4, <1>5, <1>7, <1>8, <1>9, HandlerFollows, Zenon

LEMMA FailRunStep == ASSUME SubmissionInv, NEW h \in Handler, FailRun(h) PROVE SubmissionInv'
<1>1. PICK r : r = handler[h].run
  OBVIOUS
<1>2. GivesUp(h) /\ r \in DOMAIN runs
  BY <1>1, HandlerHasRun DEF GivesUp, FailRun, At
<1>3. handler' = [handler EXCEPT ![h] = Free] /\ UNCHANGED <<registered, answers>>
  BY DEF FailRun, Refuse, Become
<1>4. Advance(runs, runs') /\ ~Waits(runs'[r])
  <2>1. CASE runs[r].status = "canceled" \/ runs[r].fenced
    <3>1. runs' = runs
      BY <1>1, <2>1, Zenon DEF FailRun
    <3>2. QED
      BY <1>2, <2>1, <3>1, RunsStay, QueuedAreNotFenced DEF Waits
  <2>2. CASE ~(runs[r].status = "canceled" \/ runs[r].fenced)
    <3>1. PICK y : y = [runs[r] EXCEPT !.status = "failed"]
      BY Zenon
    <3>2. runs' = [runs EXCEPT ![r] = y]
      BY <1>1, <2>2, <3>1 DEF FailRun
    <3>3. runs \in Seq(Run) /\ runs[r] \in Run
      BY <1>2, QueuedAreNotFenced
    <3>4. GoesOn(runs, r, y, runs')
      BY <3>1, <3>2, <3>3, Zenon DEF GoesOn, Run, Waits, Status
    <3>5. QED
      BY <1>2, <3>4, QueuedAreNotFenced, OneRunAdvances
  <2>3. QED
    BY <2>1, <2>2
<1>5. \A s \in DOMAIN runs : GivesUp(h) /\ handler[h].run = s /\ Waits(runs'[s]) =>
                              Free.pc \in {"enqueue", "fail"} /\ Free.run = s
  BY <1>1, <1>4
<1>6. \A y \in answers' : y \in answers \/ (y.run \in DOMAIN runs /\ Suits(y.req, runs[y.run]))
  BY <1>3
<1>7. QED
  BY <1>3, <1>4, <1>5, <1>6, FreeIsChecked, HandlerFollows, Zenon

LEMMA InterruptStep == ASSUME SubmissionInv, NEW h \in Handler, Interrupt(h) PROVE SubmissionInv'
<1>1. PICK k : k = handler[h].run
  OBVIOUS
<1>2. /\ handler' = [handler EXCEPT ![h] = Free] /\ UNCHANGED <<registered, answers>>
      /\ runs' = [r \in DOMAIN runs |-> [runs[r] EXCEPT !.left = @ \/ r = k]]
  BY <1>1 DEF Interrupt, Refuse, Become
<1>3. ASSUME NEW r \in DOMAIN runs
      PROVE  /\ runs'[r] \in Run
             /\ runs'[r].agent = runs[r].agent /\ runs'[r].parent = runs[r].parent
             /\ runs'[r].root = runs[r].root
             /\ runs'[r].key = runs[r].key /\ runs'[r].kind = runs[r].kind
             /\ runs'[r].input = runs[r].input /\ runs'[r].required = runs[r].required
             /\ runs'[r].status = "queued" => ~runs'[r].fenced
             /\ Waits(runs'[r]) => Waits(runs[r])
             /\ r = k => ~Waits(runs'[r])
  <2>1. PICK b \in BOOLEAN : b = (runs[r].left \/ r = k)
    BY Zenon
  <2>2. PICK x, y : x = runs[r] /\ y = [x EXCEPT !.left = b]
    BY Zenon
  <2>3. runs'[r] = y
    <3>1. runs'[r] = [runs[r] EXCEPT !.left = runs[r].left \/ r = k]
      BY <1>2
    <3>2. QED
      BY <2>1, <2>2, <3>1, Zenon
  <2>4. x \in Run /\ (x.status = "queued" => ~x.fenced)
    BY <2>2, QueuedAreNotFenced
  <2>5. /\ y \in Run /\ y.agent = x.agent /\ y.parent = x.parent /\ y.root = x.root
        /\ y.key = x.key /\ y.kind = x.kind /\ y.input = x.input /\ y.required = x.required
        /\ y.status = x.status /\ y.fenced = x.fenced /\ y.enqueued = x.enqueued /\ y.left = b
    BY <2>1, <2>2, <2>4, Zenon DEF Run
  <2>6. (x.left => b) /\ (r = k => b)
    BY <2>1, <2>2, Zenon
  <2>7. (Waits(y) => Waits(x)) /\ (r = k => ~Waits(y))
    BY <2>5, <2>6, Zenon DEF Waits
  <2>8. QED
    BY <2>2, <2>3, <2>4, <2>5, <2>7, Zenon
<1>4. Advance(runs, runs')
  <2>1. runs \in Seq(Run) /\ DOMAIN runs' = DOMAIN runs /\ runs' = [r \in DOMAIN runs |-> runs'[r]]
    BY <1>2, QueuedAreNotFenced, Zenon
  <2>2. QED
    BY <1>3, <2>1, AllRunsAdvance
<1>5. \A s \in DOMAIN runs : GivesUp(h) /\ handler[h].run = s /\ Waits(runs'[s]) =>
                              Free.pc \in {"enqueue", "fail"} /\ Free.run = s
  BY <1>1, <1>3
<1>6. \A y \in answers' : y \in answers \/ (y.run \in DOMAIN runs /\ Suits(y.req, runs[y.run]))
  BY <1>2
<1>7. QED
  BY <1>2, <1>4, <1>5, <1>6, FreeIsChecked, HandlerFollows, Zenon

LEMMA RecoverRunsStep == ASSUME SubmissionInv, RecoverRuns PROVE SubmissionInv'
<1>1. /\ UNCHANGED <<registered, handler, answers>>
      /\ runs' = [r \in DOMAIN runs |-> [runs[r] EXCEPT !.enqueued = @ \/ runs[r].status = "queued"]]
  BY DEF RecoverRuns
<1>2. ASSUME NEW r \in DOMAIN runs
      PROVE  /\ runs'[r] \in Run
             /\ runs'[r].agent = runs[r].agent /\ runs'[r].parent = runs[r].parent
             /\ runs'[r].root = runs[r].root
             /\ runs'[r].key = runs[r].key /\ runs'[r].kind = runs[r].kind
             /\ runs'[r].input = runs[r].input /\ runs'[r].required = runs[r].required
             /\ runs'[r].status = "queued" => ~runs'[r].fenced
             /\ Waits(runs'[r]) => Waits(runs[r])
  <2>1. PICK b \in BOOLEAN : b = (runs[r].enqueued \/ runs[r].status = "queued")
    BY Zenon
  <2>2. PICK x, y : x = runs[r] /\ y = [x EXCEPT !.enqueued = b]
    BY Zenon
  <2>3. runs'[r] = y
    <3>1. runs'[r] = [runs[r] EXCEPT !.enqueued = runs[r].enqueued \/ runs[r].status = "queued"]
      BY <1>1
    <3>2. QED
      BY <2>1, <2>2, <3>1, Zenon
  <2>4. x \in Run /\ (x.status = "queued" => ~x.fenced)
    BY <2>2, QueuedAreNotFenced
  <2>5. /\ y \in Run /\ y.agent = x.agent /\ y.parent = x.parent /\ y.root = x.root
        /\ y.key = x.key /\ y.kind = x.kind /\ y.input = x.input /\ y.required = x.required
        /\ y.status = x.status /\ y.fenced = x.fenced /\ y.enqueued = b
    BY <2>1, <2>2, <2>4, Zenon DEF Run
  <2>6. ~Waits(y)
    BY <2>1, <2>2, <2>5, Zenon DEF Waits
  <2>7. QED
    BY <2>2, <2>3, <2>4, <2>5, <2>6, Zenon
<1>3. Advance(runs, runs')
  <2>1. runs \in Seq(Run) /\ DOMAIN runs' = DOMAIN runs /\ runs' = [r \in DOMAIN runs |-> runs'[r]]
    BY <1>1, QueuedAreNotFenced
  <2>2. QED
    BY <1>2, <2>1, AllRunsAdvance
<1>4. QED
  BY <1>1, <1>3, EngineSteps

\* A Run is started, ends or is canceled.
LEMMA OneRunStep ==
  ASSUME SubmissionInv, NEW r \in DOMAIN runs, EngineStep(r) \/ cancelRun(r)
  PROVE  SubmissionInv'
<1>1. runs \in Seq(Run) /\ runs[r] \in Run /\ UNCHANGED <<registered, handler, answers>>
  BY QueuedAreNotFenced DEF EngineStep, StartRun, EndRun, cancelRun
<1>2. SUFFICES ASSUME TRUE PROVE \E y : GoesOn(runs, r, y, runs')
  BY <1>1, QueuedAreNotFenced, OneRunAdvances, EngineSteps
<1>3. CASE StartRun(r)
  <2>1. PICK y : y = [runs[r] EXCEPT !.status = "running", !.fenced = TRUE]
    OBVIOUS
  <2>2. runs' = [runs EXCEPT ![r] = y]
    BY <1>1, <1>3, <2>1, Zenon DEF StartRun
  <2>3. GoesOn(runs, r, y, runs')
    BY <1>1, <2>1, <2>2, Zenon DEF GoesOn, Run, Waits, Status
  <2>4. QED
    BY <2>3
<1>4. ASSUME NEW s \in {"succeeded", "canceled"}, runs' = [runs EXCEPT ![r].status = s]
      PROVE  \E y : GoesOn(runs, r, y, runs')
  <2>1. PICK y : y = [runs[r] EXCEPT !.status = s]
    BY Zenon
  <2>2. runs' = [runs EXCEPT ![r] = y]
    BY <1>4, <2>1
  <2>3. GoesOn(runs, r, y, runs')
    BY <1>1, <2>1, <2>2, Zenon DEF GoesOn, Run, Waits, Status
  <2>4. QED
    BY <2>3
<1>5. QED
  BY <1>3, <1>4 DEF EngineStep, EndRun, cancelRun

LEMMA DeleteAgentStep == ASSUME SubmissionInv, NEW a \in Agent, DeleteAgent(a) PROVE SubmissionInv'
<1>1. /\ UNCHANGED <<runs, handler, answers>> /\ registered' = registered \ {a}
      /\ \A r \in DOMAIN runs : runs[r].agent # a
  BY DEF DeleteAgent
<1>2. AgentsOK'
  BY <1>1, Zenon DEF SubmissionInv, AgentsOK
<1>3. RunsOK' /\ HandlersOK' /\ AnswersOK' /\ NoRunIsStranded'
  BY <1>1, Zenon DEF SubmissionInv, RunsOK, HandlersOK, AnswersOK, NoRunIsStranded
<1>4. QED
  BY <1>2, <1>3 DEF SubmissionInv

LEMMA NothingHappens ==
  ASSUME SubmissionInv, UNCHANGED <<registered, runs, handler, answers>>
  PROVE  SubmissionInv'
BY DEF SubmissionInv, RunsOK, HandlersOK, AgentsOK, AnswersOK, NoRunIsStranded

LEMMA SubmissionInit == Init => SubmissionInv
<1>1. SUFFICES ASSUME Init PROVE SubmissionInv
  OBVIOUS
<1>2. /\ runs = InitialRuns /\ registered = Agent /\ answers = {}
      /\ handler = [h \in Handler |-> Free]
  BY <1>1 DEF Init
<1>3. runs \in Seq(Run) /\ UniqueKeys(runs)
  <2>1. InitialRuns \in Seq(Run)
    BY SubmissionAssumption
  <2>2. UniqueKeys(InitialRuns)
    BY InitialRunsAssumption, Zenon
  <2>3. QED
    BY <1>2, <2>1, <2>2
<1>4. ASSUME NEW r \in DOMAIN runs
      PROVE  /\ RunOK(runs, r) /\ runs[r].agent \in Agent
             /\ runs[r].status = "queued" => runs[r].enqueued \/ runs[r].left
  <2>1. /\ Attached(runs, r) /\ (runs[r].kind = "call" => CallIsBounded(runs, r))
        /\ FittingAgent(runs[r])
        /\ runs[r].status = "queued" => ~runs[r].fenced /\ (runs[r].enqueued \/ runs[r].left)
    BY <1>2, InitialRunsAssumption, Zenon
  <2>2. runs[r] \in Run
    BY <1>3
  <2>3. runs[r].agent \in Agent
    BY <2>2 DEF Run
  <2>4. QED
    BY <2>1, <2>3 DEF RunOK
<1>5. RunsOK /\ AgentsOK /\ AnswersOK
  BY <1>2, <1>3, <1>4 DEF RunsOK, AgentsOK, AnswersOK
<1>6. HandlersOK
  BY <1>2, FreeIsChecked DEF HandlersOK
<1>7. NoRunIsStranded
  BY <1>4, Zenon DEF NoRunIsStranded
<1>8. QED
  BY <1>5, <1>6, <1>7 DEF SubmissionInv

LEMMA SubmissionNext == SubmissionInv /\ [Next]_vars => SubmissionInv'
<1>1. SUFFICES ASSUME SubmissionInv, [Next]_vars PROVE SubmissionInv'
  OBVIOUS
<1>2. ASSUME NEW h \in Handler, HandlerStep(h) PROVE SubmissionInv'
  <2>1. CASE LoadParent(h)
    BY <1>1, <2>1, LoadParentStep
  <2>2. CASE Lookup(h)
    BY <1>1, <2>2, LookupStep
  <2>3. CASE LoadAgent(h)
    BY <1>1, <2>3, LoadAgentStep
  <2>4. ASSUME NEW tier \in {"healthy", "unknown"}, SelectTier(h, tier) PROVE SubmissionInv'
    BY <1>1, <2>4, SelectTierStep, Zenon
  <2>5. CASE CreateRun(h)
    BY <1>1, <2>5, CreateRunStep
  <2>6. CASE Enqueue(h)
    BY <1>1, <2>6, EnqueueStep
  <2>7. CASE FailRun(h)
    BY <1>1, <2>7, FailRunStep
  <2>8. QED
    BY <1>2, <2>1, <2>2, <2>3, <2>4, <2>5, <2>6, <2>7, Zenon DEF HandlerStep
<1>3. ASSUME NEW h \in Handler, Receive(h) \/ EnqueueFails(h) \/ Interrupt(h) PROVE SubmissionInv'
  BY <1>1, <1>3, ReceiveStep, EnqueueFailsStep, InterruptStep
<1>4. ASSUME NEW r \in DOMAIN runs, EngineStep(r) \/ cancelRun(r) PROVE SubmissionInv'
  BY <1>1, <1>4, OneRunStep
<1>5. CASE RecoverRuns
  BY <1>1, <1>5, RecoverRunsStep
<1>6. ASSUME NEW a \in Agent, DeleteAgent(a) PROVE SubmissionInv'
  BY <1>1, <1>6, DeleteAgentStep
<1>7. ASSUME NEW a \in Agent, ChangeHealth(a) PROVE SubmissionInv'
  BY <1>1, <1>7, NothingHappens DEF ChangeHealth
<1>8. CASE UNCHANGED vars
  BY <1>1, <1>8, NothingHappens DEF vars
<1>9. QED
  BY <1>1, <1>2, <1>3, <1>4, <1>5, <1>6, <1>7, <1>8, Zenon DEF Next

-----------------------------------------------------------------------------
\* Whatever createRun and createAgentChildRun have read before they store a
\* Run is still true when it is stored, or the store refuses the Run.
THEOREM SubmissionInvariant == Spec => []SubmissionInv
<1>1. QED
  BY SubmissionInit, SubmissionNext, PTL DEF Spec

\* For any number of concurrent requests the unique index leaves one Run for a
\* key, and every answer to a request with the key names it (CreateRun,
\* CreateChildRun and the lookups before them).
THEOREM KeysNameOneRun == Spec => []KeyNamesOneRun
<1>1. SubmissionInv => KeyNamesOneRun
  BY DEF SubmissionInv, RunsOK, AnswersOK, Suits, KeyNamesOneRun
<1>2. QED
  BY <1>1, SubmissionInvariant, PTL

\* A submission is only answered with a Run that it asked for, because
\* writeRunReplay compares what the key does not say.
THEOREM SubmissionsGetTheirRuns == Spec => []SubmissionGetsItsRun
<1>1. SubmissionInv => SubmissionGetsItsRun
  BY DEF SubmissionInv, AnswersOK, Suits, SubmissionGetsItsRun
<1>2. QED
  BY <1>1, SubmissionInvariant, PTL

\* The depth, the chain of agents and the root that agentCallAncestry and
\* AttachTo looked at cannot change, and the children are counted in the
\* transaction of CreateChildRun: no interleaving exceeds the limits.
THEOREM CallsStayBounded == Spec => []CallsAreBounded
<1>1. SubmissionInv => CallsAreBounded
  BY DEF SubmissionInv, RunsOK, RunOK, CallsAreBounded
<1>2. QED
  BY <1>1, SubmissionInvariant, PTL

\* The agent that Select returned may be deleted before the Run is stored, and
\* then the Run is not stored (DeleteAgent, CreateRun).
THEOREM AgentsStayFitting == Spec => []RunsHaveFittingAgents
<1>1. SubmissionInv => RunsHaveFittingAgents
  BY DEF SubmissionInv, RunsOK, RunOK, AgentsOK, RunsHaveFittingAgents
<1>2. QED
  BY <1>1, SubmissionInvariant, PTL

\* A Run that is stored and not in the queue has a handler that enqueues or
\* fails it, unless that request was interrupted (createRun).
THEOREM NoRunStaysStranded == Spec => []NoRunIsStranded
<1>1. SubmissionInv => NoRunIsStranded
  BY DEF SubmissionInv
<1>2. QED
  BY <1>1, SubmissionInvariant, PTL
=============================================================================
