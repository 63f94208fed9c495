--------------------------- MODULE WorkflowProofs ---------------------------
(***************************************************************************)
(* The promises of the workflow manager.  What the loops of                *)
(* internal/domain/workflow.go and of internal/workflow/manager.go         *)
(* compute, for definitions and copies of any size, makes the invariant    *)
(* hold at the start; WorkflowManagerProofs and WorkflowWriteProofs show   *)
(* that the steps of the manager keep it.                                  *)
(***************************************************************************)
EXTENDS WorkflowWriteProofs, IterationTheorems, SequenceTheorems, FiniteSetTheorems

-----------------------------------------------------------------------------
(* Ascending.                                                              *)

\* The rounds of the loop behind Ascending.
AscendingRounds(f, n, S) ==
  /\ f \in [0..n -> Seq(Nat)]
  /\ f[0] = <<>>
  /\ \A k \in 1..n : f[k] = IF k \in S THEN Append(f[k - 1], k) ELSE f[k - 1]

\* The recursive function of Ascending is what its rounds compute.
LEMMA AscendingUnfolds ==
  ASSUME NEW n \in Nat, NEW S
  PROVE  \E f : AscendingRounds(f, n, S) /\ Ascending(n, S) = f[n]
<1> DEFINE Body(g) == [k \in 0..n |-> IF k = 0 THEN <<>>
                                      ELSE IF k \in S THEN Append(g[k - 1], k) ELSE g[k - 1]]
           F == CHOOSE g : g = Body(g)
           step == [p \in (1..n) \X Seq(Nat) |-> IF p[1] \in S THEN Append(p[2], p[1]) ELSE p[2]]
<1>1. step \in [(1..n) \X Seq(Nat) -> Seq(Nat)]
  <2>1. ASSUME NEW p \in (1..n) \X Seq(Nat)
        PROVE  (IF p[1] \in S THEN Append(p[2], p[1]) ELSE p[2]) \in Seq(Nat)
    <3>1. p[1] \in Nat /\ p[2] \in Seq(Nat)
      OBVIOUS
    <3>2. Append(p[2], p[1]) \in Seq(Nat)
      BY <3>1, AppendProperties
    <3>3. QED
      BY <3>1, <3>2
  <2>2. QED
    BY <2>1
<1>2. <<>> \in Seq(Nat)
  OBVIOUS
<1>3. PICK f \in [0..n -> Seq(Nat)] : Iterates(f, n, <<>>, step)
  <2> HIDE DEF step
  <2>1. QED
    BY <1>1, <1>2, IterationExists, Zenon
<1>4. ASSUME NEW k \in 1..n
      PROVE  f[k] = IF k \in S THEN Append(f[k - 1], k) ELSE f[k - 1]
  <2>1. k - 1 \in 0..n /\ f[k - 1] \in Seq(Nat)
    OBVIOUS
  <2>2. f[k] = step[<<k, f[k - 1]>>]
    BY <1>3, Zenon DEF Iterates
  <2>3. QED
    BY <2>1, <2>2
<1>5. f = Body(f)
  <2>1. f[0] = <<>>
    BY <1>3 DEF Iterates
  <2>2. ASSUME NEW k \in 0..n PROVE f[k] = Body(f)[k]
    <3>1. CASE k = 0
      BY <2>1, <3>1
    <3>2. CASE k \in 1..n
      <4>1. f[k] = IF k \in S THEN Append(f[k - 1], k) ELSE f[k - 1]
        BY <1>4, <3>2, Zenon
      <4>2. Body(f)[k] = IF k \in S THEN Append(f[k - 1], k) ELSE f[k - 1]
        BY <3>2
      <4>3. QED
        BY <4>1, <4>2, Zenon
    <3>3. QED
      BY <3>1, <3>2
  <2>3. f = [k \in 0..n |-> f[k]] /\ Body(f) = [k \in 0..n |-> Body(f)[k]]
    OBVIOUS
  <2> HIDE DEF Body
  <2>4. QED
    BY <2>2, <2>3
<1>6. F = Body(F)
  <2> HIDE DEF Body
  <2>1. QED
    BY <1>5
<1>7. Ascending(n, S) = F[n]
  BY DEF Ascending
<1> HIDE DEF F
<1>8. F[0] = <<>> /\ \A k \in 1..n : F[k] = IF k \in S THEN Append(F[k - 1], k) ELSE F[k - 1]
  <2>1. \A k \in 0..n : F[k] = Body(F)[k]
    BY <1>6, Zenon
  <2>2. QED
    BY <2>1
<1>9. ASSUME NEW k \in 0..n PROVE F[k] \in Seq(Nat)
  <2> DEFINE T == {j \in 0..n : F[j] \in Seq(Nat)}
  <2>1. 0 \in T
    BY <1>8, SMTT(30)
  <2>2. ASSUME NEW j \in 1..n, j - 1 \in T PROVE j \in T
    <3>1. F[j - 1] \in Seq(Nat)
      BY <2>2
    <3>2. Append(F[j - 1], j) \in Seq(Nat)
      BY <3>1, AppendProperties
    <3>3. F[j] \in Seq(Nat)
      BY <1>8, <3>1, <3>2, Zenon
    <3>4. QED
      BY <3>3
  <2>3. k \in T
    <3> HIDE DEF T
    <3>1. QED
      BY <2>1, <2>2, CountUp, Zenon
  <2>4. QED
    BY <2>3
<1>10. F \in [0..n -> Seq(Nat)]
  BY <1>6, <1>9, Zenon
<1>11. QED
  BY <1>7, <1>8, <1>10, Zenon DEF AscendingRounds

\* Ascending lists the numbers of S up to n, each once, and in order.
LEMMA AscendingLists ==
  ASSUME NEW n \in Nat, NEW S
  PROVE  /\ Ascending(n, S) \in Seq(1..n)
         /\ Range(Ascending(n, S)) = S \intersect 1..n
         /\ \A i, j \in DOMAIN Ascending(n, S) : i < j => Ascending(n, S)[i] < Ascending(n, S)[j]
<1>1. PICK f : AscendingRounds(f, n, S) /\ Ascending(n, S) = f[n]
  BY AscendingUnfolds
<1> DEFINE Good(k) == /\ f[k] \in Seq(1..k)
                      /\ Range(f[k]) = S \intersect 1..k
                      /\ \A i, j \in DOMAIN f[k] : i < j => f[k][i] < f[k][j]
           T == {k \in 0..n : Good(k)}
<1>2. Good(0)
  <2>1. f[0] = <<>>
    BY <1>1 DEF AscendingRounds
  <2>2. QED
    BY <2>1 DEF Range
<1>3. ASSUME NEW k \in 1..n, Good(k - 1) PROVE Good(k)
  <2>1. PICK s : s = f[k - 1]
    OBVIOUS
  <2>2. /\ s \in Seq(1..(k - 1))
        /\ Range(s) = S \intersect 1..(k - 1)
        /\ \A i, j \in DOMAIN s : i < j => s[i] < s[j]
    BY <1>3, <2>1, Zenon
  <2>3. CASE k \notin S
    <3>1. f[k] = s
      BY <1>1, <2>1, <2>3, Zenon DEF AscendingRounds
    <3>2. s \in Seq(1..k)
      BY <2>2
    <3>3. S \intersect 1..k = S \intersect 1..(k - 1)
      BY <2>3
    <3>4. QED
      BY <2>2, <3>1, <3>2, <3>3, Zenon
  <2>4. CASE k \in S
    <3>1. f[k] = Append(s, k)
      BY <1>1, <2>1, <2>4, Zenon DEF AscendingRounds
    <3>2. PICK t : t = Append(s, k)
      BY Zenon
    <3>3. Len(s) \in Nat /\ DOMAIN s = 1..Len(s)
      BY <2>2, LenProperties, Zenon
    <3>4. s \in Seq(1..k)
      BY <2>2
    <3>5. /\ t \in Seq(1..k)
          /\ DOMAIN t = 1..(Len(s) + 1)
          /\ \A i \in 1..Len(s) : t[i] = s[i]
          /\ t[Len(s) + 1] = k
      BY <3>2, <3>3, <3>4, AppendProperties
    <3>6. \A i \in 1..Len(s) : s[i] \in 1..(k - 1)
      BY <2>2, <3>3, ElementOfSeq, Zenon
    <3>7. Range(t) = S \intersect 1..k
      <4>1. Range(t) = {s[i] : i \in 1..Len(s)} \union {k}
        BY <3>3, <3>5, SMTT(30) DEF Range
      <4>2. Range(s) = {s[i] : i \in 1..Len(s)}
        BY <3>3 DEF Range
      <4>3. S \intersect 1..k = (S \intersect 1..(k - 1)) \union {k}
        BY <2>4
      <4>4. QED
        BY <2>2, <4>1, <4>2, <4>3, Zenon
    <3>8. ASSUME NEW i \in DOMAIN t, NEW j \in DOMAIN t, i < j PROVE t[i] < t[j]
      <4>1. i \in 1..Len(s) /\ t[i] = s[i]
        BY <3>3, <3>5, <3>8
      <4>2. CASE j = Len(s) + 1
        BY <3>5, <3>6, <4>1, <4>2
      <4>3. CASE j \in 1..Len(s)
        BY <2>2, <3>3, <3>5, <3>8, <4>1, <4>3, Zenon
      <4>4. QED
        BY <3>3, <3>5, <4>2, <4>3
    <3>9. QED
      BY <3>1, <3>2, <3>5, <3>7, <3>8, Zenon
  <2>5. QED
    BY <2>3, <2>4
<1>4. Good(n)
  <2> HIDE DEF Good
  <2>1. 0 \in T /\ \A k \in 1..n : k - 1 \in T => k \in T
    BY <1>2, <1>3
  <2> HIDE DEF T
  <2>2. \A k \in 0..n : k \in T
    BY <2>1, CountUp, Zenon
  <2>3. QED
    BY <2>2 DEF T
<1>5. QED
  BY <1>1, <1>4, Zenon

-----------------------------------------------------------------------------
(* Normalization.                                                          *)

\* The elements of s at the positions in S, in order.
LEMMA SelectedElements ==
  ASSUME NEW X, NEW s \in Seq(X), NEW S \in SUBSET DOMAIN s,
         NEW t, t = [n \in DOMAIN Ascending(Len(s), S) |-> s[Ascending(Len(s), S)[n]]]
  PROVE  /\ t \in Seq(X)
         /\ Range(t) = {s[k] : k \in S}
<1>1. Len(s) \in Nat /\ DOMAIN s = 1..Len(s)
  BY LenProperties
<1>2. PICK a : a = Ascending(Len(s), S)
  OBVIOUS
<1>3. a \in Seq(1..Len(s)) /\ Range(a) = S \intersect 1..Len(s)
  BY <1>1, <1>2, AscendingLists, Zenon
<1>4. Len(a) \in Nat /\ DOMAIN a = 1..Len(a)
  BY <1>3, LenProperties, Zenon
<1>5. \A n \in 1..Len(a) : a[n] \in 1..Len(s)
  BY <1>3, <1>4, ElementOfSeq, Zenon
<1>6. \A n \in 1..Len(a) : s[a[n]] \in X
  BY <1>1, <1>5, ElementOfSeq, Zenon
<1>7. t = [n \in 1..Len(a) |-> s[a[n]]]
  BY <1>2, <1>4, Zenon
<1>8. t \in Seq(X)
  BY <1>4, <1>6, <1>7
<1>9. Range(a) = S
  BY <1>1, <1>3, Zenon
<1>10. Range(t) = {s[k] : k \in S}
  BY <1>4, <1>7, <1>9 DEF Range
<1>11. QED
  BY <1>8, <1>10, Zenon

\* Normalization keeps every reference that is not blank, once
\* (normalizeWorkflowRefs).
THEOREM NormalizedReferences ==
  ASSUME NEW refs \in Seq(STRING)
  PROVE  /\ normalizeWorkflowRefs(refs) \in Seq(STRING)
         /\ Range(normalizeWorkflowRefs(refs)) = Range(refs) \ {""}
         /\ \A i, j \in DOMAIN normalizeWorkflowRefs(refs) :
              normalizeWorkflowRefs(refs)[i] = normalizeWorkflowRefs(refs)[j] => i = j
<1>1. Len(refs) \in Nat /\ DOMAIN refs = 1..Len(refs)
  BY LenProperties
<1>2. PICK S : S = {k \in DOMAIN refs : refs[k] # "" /\ \A j \in 1..(k - 1) : refs[j] # refs[k]}
  BY Zenon
<1>3. PICK a : a = Ascending(Len(refs), S)
  OBVIOUS
<1>4. PICK t : t = [n \in DOMAIN a |-> refs[a[n]]]
  BY Zenon
<1>5. normalizeWorkflowRefs(refs) = t
  BY <1>2, <1>3, <1>4, Zenon DEF normalizeWorkflowRefs
<1>6. t \in Seq(STRING) /\ Range(t) = {refs[k] : k \in S}
  <2>1. S \in SUBSET DOMAIN refs
    BY <1>2, Zenon
  <2>2. t = [n \in DOMAIN Ascending(Len(refs), S) |-> refs[Ascending(Len(refs), S)[n]]]
    BY <1>3, <1>4, Zenon
  <2>3. QED
    BY <2>1, <2>2, SelectedElements, Zenon
<1>7. {refs[k] : k \in S} = Range(refs) \ {""}
  <2>1. ASSUME NEW k \in DOMAIN refs, refs[k] # "" PROVE \E m \in S : refs[m] = refs[k]
    <3> DEFINE Occurs == {m \in DOMAIN refs : refs[m] = refs[k]}
    <3>1. Occurs \in SUBSET Nat /\ Occurs # {}
      BY <1>1
    <3>2. PICK m \in Occurs : \A j \in Occurs : m <= j
      <4> HIDE DEF Occurs
      <4>1. QED
        BY <3>1, LeastNumber, Zenon
    <3>3. ASSUME NEW j \in 1..(m - 1) PROVE refs[j] # refs[m]
      BY <1>1, <3>2
    <3>4. m \in S
      BY <1>2, <2>1, <3>2, <3>3, Zenon
    <3>5. QED
      BY <3>2, <3>4, Zenon
  <2>2. \A m \in S : m \in DOMAIN refs /\ refs[m] # ""
    BY <1>2, Zenon
  <2>3. QED
    BY <2>1, <2>2, Zenon DEF Range
<1>8. /\ a \in Seq(1..Len(refs)) /\ Range(a) \subseteq S
      /\ \A i, j \in DOMAIN a : i < j => a[i] < a[j]
  <2>1. Range(a) = S \intersect 1..Len(refs)
    BY <1>1, <1>3, AscendingLists, Zenon
  <2>2. QED
    BY <1>1, <1>3, <2>1, AscendingLists, Zenon
<1>9. Len(a) \in Nat /\ DOMAIN a = 1..Len(a) /\ \A n \in DOMAIN a : a[n] \in 1..Len(refs)
  BY <1>8, LenProperties, ElementOfSeq, Zenon
<1>10. ASSUME NEW i \in DOMAIN a, NEW j \in DOMAIN a, i < j PROVE t[i] # t[j]
  <2>1. a[i] < a[j] /\ a[i] \in 1..Len(refs) /\ a[j] \in 1..Len(refs)
    BY <1>8, <1>9, <1>10, Zenon
  <2>2. a[j] \in S
    BY <1>8 DEF Range
  <2>3. a[i] \in 1..(a[j] - 1)
    BY <1>1, <2>1
  <2>4. refs[a[i]] # refs[a[j]]
    BY <1>2, <2>2, <2>3, Zenon
  <2>5. QED
    BY <1>4, <2>4, Zenon
<1>11. ASSUME NEW i \in DOMAIN t, NEW j \in DOMAIN t, t[i] = t[j] PROVE i = j
  <2>1. i \in DOMAIN a /\ j \in DOMAIN a
    BY <1>4
  <2>2. i \in Nat /\ j \in Nat /\ ~(i < j) /\ ~(j < i)
    BY <1>9, <1>10, <1>11, <2>1
  <2>3. QED
    BY <2>2
<1>12. QED
  BY <1>5, <1>6, <1>7, <1>11, Zenon

\* A normalized definition is a definition, and no step repeats a dependency
\* (Normalize).
LEMMA NormalizedDefinition ==
  ASSUME NEW d \in Definition
  PROVE  /\ Normalize(d) \in Definition
         /\ \A i \in Position(Normalize(d)) : IsInjective(Normalize(d).steps[i].dependsOn)
<1>1. d.steps \in Seq(StepDefinition) /\ d.input \in STRING
  BY DEF Definition
<1>2. Len(d.steps) \in Nat /\ DOMAIN d.steps = 1..Len(d.steps)
  BY <1>1, LenProperties
<1>3. ASSUME NEW s \in StepDefinition
      PROVE  NormalizeStep(s) \in StepDefinition /\ IsInjective(NormalizeStep(s).dependsOn)
  <2>1. s.dependsOn \in Seq(STRING) /\ s.inputFrom \in Seq(STRING)
    BY DEF StepDefinition
  <2>2. /\ normalizeWorkflowRefs(s.dependsOn) \in Seq(STRING)
        /\ normalizeWorkflowRefs(s.inputFrom) \in Seq(STRING)
    BY <2>1, NormalizedReferences, Zenon
  <2>3. PICK x \in Seq(STRING) : x = normalizeWorkflowRefs(s.dependsOn)
    BY <2>2
  <2>4. PICK y \in Seq(STRING) : y = normalizeWorkflowRefs(s.inputFrom)
    BY <2>2
  <2>5. NormalizeStep(s) = [s EXCEPT !.dependsOn = x, !.inputFrom = y]
    BY <2>3, <2>4 DEF NormalizeStep
  <2>6. [s EXCEPT !.dependsOn = x] \in StepDefinition
    BY Zenon DEF StepDefinition
  <2>7. [[s EXCEPT !.dependsOn = x] EXCEPT !.inputFrom = y] \in StepDefinition
    BY <2>6, Zenon DEF StepDefinition
  <2>8. NormalizeStep(s).dependsOn = normalizeWorkflowRefs(s.dependsOn)
    BY <2>3, <2>5 DEF StepDefinition
  <2>9. IsInjective(NormalizeStep(s).dependsOn)
    BY <2>1, <2>8, NormalizedReferences, Zenon DEF IsInjective
  <2>10. QED
    BY <2>5, <2>7, <2>9, Zenon
<1>4. \A i \in 1..Len(d.steps) : d.steps[i] \in StepDefinition
  BY <1>1, <1>2, ElementOfSeq, Zenon
<1>5. PICK steps : steps = [i \in 1..Len(d.steps) |-> NormalizeStep(d.steps[i])]
  BY Zenon
<1>6. steps \in Seq(StepDefinition)
  BY <1>2, <1>3, <1>4, <1>5
<1>7. Normalize(d) = [d EXCEPT !.steps = steps]
  BY <1>2, <1>5, Zenon DEF Normalize
<1>8. Normalize(d) \in Definition /\ Normalize(d).steps = steps
  BY <1>6, <1>7, Zenon DEF Definition
<1>9. Position(Normalize(d)) = 1..Len(d.steps)
  BY <1>2, <1>5, <1>6, <1>8, LenProperties, Zenon DEF Position
<1>10. QED
  BY <1>3, <1>4, <1>5, <1>8, <1>9, ZenonT(30)

-----------------------------------------------------------------------------
(* Kahn's traversal.                                                       *)

\* The queue of the traversal after its head is taken and others are added.
LEMMA QueueTurns ==
  ASSUME NEW S, NEW q \in Seq(S), q # <<>>, IsInjective(q),
         NEW t \in Seq(S), IsInjective(t), Range(t) \intersect Range(q) = {},
         NEW u, u = Tail(q) \o t
  PROVE  /\ Head(q) \in S /\ Head(q) \in Range(q)
         /\ u \in Seq(S) /\ IsInjective(u)
         /\ Range(u) = (Range(q) \ {Head(q)}) \union Range(t)
<1>1. PICK a \in Nat : a = Len(q)
  BY LenProperties
<1>2. PICK b \in Nat : b = Len(t)
  BY LenProperties
<1>3. DOMAIN q = 1..a /\ DOMAIN t = 1..b /\ a > 0
  BY <1>1, <1>2, LenProperties, EmptySeq
<1>0. PICK c \in Nat : a = c + 1
  <2>1. a - 1 \in Nat /\ a = (a - 1) + 1
    BY <1>3
  <2>2. QED
    BY <2>1
<1>4. /\ Head(q) \in S /\ Tail(q) \in Seq(S) /\ Len(Tail(q)) = c
      /\ \A i \in 1..c : Tail(q)[i] = q[i + 1]
  BY <1>0, <1>1, HeadTailProperties
<1>5. Head(q) = q[1]
  BY <1>1, <1>3
<1>6. /\ u \in Seq(S) /\ Len(u) = c + b
      /\ \A i \in 1..(c + b) : u[i] = IF i <= c THEN Tail(q)[i] ELSE t[i - c]
  BY <1>2, <1>4, ConcatProperties, ZenonT(30)
<1>7. DOMAIN u = 1..(c + b)
  BY <1>6, LenProperties
<1>8. /\ \A i \in 1..c : u[i] = q[i + 1]
      /\ \A i \in 1..(c + b) : ~(i <= c) => u[i] = t[i - c]
  <2>1. ASSUME NEW i \in 1..c PROVE u[i] = q[i + 1]
    <3>1. i \in 1..(c + b) /\ i <= c
      OBVIOUS
    <3>2. QED
      BY <1>4, <1>6, <3>1
  <2>2. QED
    BY <1>6, <2>1, Zenon
<1>9. \A i \in 1..a, j \in 1..b : q[i] # t[j]
  BY <1>3, Zenon DEF Range
<1>10. IsInjective(u)
  <2> SUFFICES ASSUME NEW i \in 1..(c + b), NEW j \in 1..(c + b), u[i] = u[j] PROVE i = j
    BY <1>7, Zenon DEF IsInjective
  <2>1. CASE i <= c /\ j <= c
    <3>0. i \in 1..c /\ j \in 1..c
      BY <2>1
    <3>1. q[i + 1] = q[j + 1] /\ i + 1 \in 1..a /\ j + 1 \in 1..a
      <4>1. u[i] = q[i + 1] /\ u[j] = q[j + 1]
        BY <1>8, <3>0, Zenon
      <4>2. i + 1 \in 1..a /\ j + 1 \in 1..a
        BY <1>0, <3>0
      <4>3. QED
        BY <4>1, <4>2, Zenon
    <3>2. i + 1 = j + 1
      BY <1>0, <1>3, <3>1, Zenon DEF IsInjective
    <3>3. QED
      BY <3>2
  <2>2. CASE ~(i <= c) /\ ~(j <= c)
    <3>1. t[i - c] = t[j - c] /\ i - c \in 1..b /\ j - c \in 1..b
      BY <1>0, <1>3, <1>8, <2>2
    <3>2. i - c = j - c
      BY <1>0, <1>3, <3>1, Zenon DEF IsInjective
    <3>3. QED
      BY <3>2
  <2>3. CASE i <= c /\ ~(j <= c)
    <3>1. q[i + 1] = t[j - c] /\ i + 1 \in 1..a /\ j - c \in 1..b
      BY <1>0, <1>3, <1>8, <2>3
    <3>2. QED
      BY <1>9, <3>1, Zenon
  <2>4. CASE ~(i <= c) /\ j <= c
    <3>1. t[i - c] = q[j + 1] /\ j + 1 \in 1..a /\ i - c \in 1..b
      BY <1>0, <1>3, <1>8, <2>4
    <3>2. QED
      BY <1>9, <3>1, Zenon
  <2>5. QED
    BY <2>1, <2>2, <2>3, <2>4, Zenon
<1>11. ASSUME NEW x \in Range(u) PROVE x \in (Range(q) \ {Head(q)}) \union Range(t)
  <2>1. PICK i \in 1..(c + b) : x = u[i]
    BY <1>7 DEF Range
  <2>2. CASE i <= c
    <3>1. x = q[i + 1] /\ i + 1 \in 1..a /\ i + 1 # 1 /\ 1 \in 1..a
      BY <1>0, <1>3, <1>8, <2>1, <2>2
    <3>2. x # q[1] /\ x \in Range(q)
      BY <1>0, <1>3, <3>1, Zenon DEF IsInjective, Range
    <3>3. QED
      BY <1>5, <3>2, Zenon
  <2>3. CASE ~(i <= c)
    <3>1. x = t[i - c] /\ i - c \in 1..b
      BY <1>0, <1>3, <1>8, <2>1, <2>3
    <3>2. QED
      BY <1>0, <1>3, <3>1, Zenon DEF Range
  <2>4. QED
    BY <2>2, <2>3, Zenon
<1>12. ASSUME NEW x \in (Range(q) \ {Head(q)}) \union Range(t) PROVE x \in Range(u)
  <2>1. CASE x \in Range(q) /\ x # Head(q)
    <3>1. PICK i \in 1..a : x = q[i]
      BY <1>0, <1>3, <2>1, Zenon DEF Range
    <3>2. i # 1
      BY <1>5, <2>1, <3>1, Zenon
    <3>3. PICK k \in 1..c : i = k + 1
      <4>1. i - 1 \in 1..c /\ i = (i - 1) + 1
        BY <1>0, <1>3, <3>2
      <4>2. QED
        BY <4>1
    <3>4. u[k] = q[i] /\ k \in 1..(c + b)
      <4>1. u[k] = q[k + 1]
        BY <1>8, Zenon
      <4>2. k \in 1..(c + b)
        OBVIOUS
      <4>3. QED
        BY <3>3, <4>1, <4>2, Zenon
    <3>5. QED
      BY <1>7, <3>1, <3>3, <3>4, Zenon DEF Range
  <2>2. CASE x \in Range(t)
    <3>1. PICK i \in 1..b : x = t[i]
      BY <1>0, <1>3, <2>2, Zenon DEF Range
    <3>2. PICK k \in 1..(c + b) : ~(k <= c) /\ k - c = i
      <4>1. i + c \in 1..(c + b) /\ ~(i + c <= c) /\ (i + c) - c = i
        OBVIOUS
      <4>2. QED
        BY <4>1
    <3>3. u[k] = t[i]
      BY <1>8, <3>2, Zenon
    <3>4. QED
      BY <1>7, <3>1, <3>2, <3>3, Zenon DEF Range
  <2>3. QED
    BY <2>1, <2>2, Zenon
<1>13. Head(q) \in Range(q)
  BY <1>0, <1>3, <1>5 DEF Range
<1>14. QED
  BY <1>4, <1>6, <1>10, <1>11, <1>12, <1>13, Zenon

\* An ascending list has no repetitions.
LEMMA AscendingIsInjective ==
  ASSUME NEW n \in Nat, NEW S
  PROVE  IsInjective(Ascending(n, S))
<1>1. PICK a : a = Ascending(n, S)
  OBVIOUS
<1>2. a \in Seq(1..n) /\ \A i, j \in DOMAIN a : i < j => a[i] < a[j]
  BY <1>1, AscendingLists
<1>3. Len(a) \in Nat /\ DOMAIN a = 1..Len(a) /\ \A i \in DOMAIN a : a[i] \in 1..n
  BY <1>2, LenProperties, ElementOfSeq, Zenon
<1>4. ASSUME NEW i \in DOMAIN a, NEW j \in DOMAIN a, a[i] = a[j] PROVE i = j
  <2>1. i \in Nat /\ j \in Nat /\ a[i] \in Nat /\ a[j] \in Nat
    BY <1>3
  <2>2. ~(i < j) /\ ~(j < i)
    BY <1>2, <1>4, <2>1
  <2>3. QED
    BY <2>1, <2>2
<1>5. QED
  BY <1>1, <1>4 DEF IsInjective

\* The references of step i to steps outside of D, by their place.
OpenRefs(d, i, D) ==
  {n \in DOMAIN d.steps[i].dependsOn : \A j \in D : d.steps[j].id # d.steps[i].dependsOn[n]}

\* A step has finitely many references.
LEMMA OpenRefsAreFinite ==
  ASSUME NEW d \in Definition, NEW D, NEW i \in Position(d)
  PROVE  /\ d.steps[i].dependsOn \in Seq(STRING)
         /\ IsFiniteSet(OpenRefs(d, i, D))
         /\ Cardinality(OpenRefs(d, i, D)) \in Nat
         /\ Cardinality(OpenRefs(d, i, D)) = 0 <=> OpenRefs(d, i, D) = {}
<1>1. d.steps[i] \in StepDefinition
  BY LenProperties, ElementOfSeq, Zenon DEF Definition, Position
<1>2. PICK refs \in Seq(STRING) : refs = d.steps[i].dependsOn
  BY <1>1 DEF StepDefinition
<1>3. DOMAIN refs = 1..Len(refs) /\ 1 \in Int /\ Len(refs) \in Int
  BY LenProperties
<1>4. IsFiniteSet(DOMAIN refs)
  BY <1>3, FS_Interval
<1>5. OpenRefs(d, i, D) \in SUBSET DOMAIN refs
  BY <1>2 DEF OpenRefs
<1>6. IsFiniteSet(OpenRefs(d, i, D))
  BY <1>4, <1>5, FS_Subset, Zenon
<1>7. QED
  BY <1>2, <1>6, FS_CardinalityType, FS_EmptySet, Zenon

\* Visiting one more step closes one reference of each of its dependents.
LEMMA VisitClosesOne ==
  ASSUME NEW d \in Definition, WellReferenced(d), NEW D \in SUBSET Position(d),
         NEW current \in Position(d) \ D, NEW i \in Position(d)
  PROVE  /\ DependsOn(d, i, current) =>
              /\ OpenRefs(d, i, D) # {}
              /\ Cardinality(OpenRefs(d, i, D \union {current})) = Cardinality(OpenRefs(d, i, D)) - 1
         /\ ~DependsOn(d, i, current) => OpenRefs(d, i, D \union {current}) = OpenRefs(d, i, D)
<1>1. PICK refs \in Seq(STRING) : refs = d.steps[i].dependsOn
  BY OpenRefsAreFinite
<1>2. IsInjective(refs)
  BY <1>1 DEF WellReferenced
<1>3. PICK O : O = OpenRefs(d, i, D)
  OBVIOUS
<1>4. IsFiniteSet(O)
  BY <1>3, OpenRefsAreFinite
<1>5. ASSUME DependsOn(d, i, current)
      PROVE  O # {} /\ Cardinality(OpenRefs(d, i, D \union {current})) = Cardinality(O) - 1
  <2>1. PICK n \in DOMAIN refs : refs[n] = d.steps[current].id
    BY <1>1, <1>5, Zenon DEF DependsOn, Range
  <2>2. \A j \in D : d.steps[j].id # d.steps[current].id
    BY DEF WellReferenced
  <2>3. n \in O
    BY <1>1, <1>3, <2>1, <2>2, Zenon DEF OpenRefs
  <2>4. OpenRefs(d, i, D \union {current}) = O \ {n}
    <3>1. \A k \in DOMAIN refs : refs[k] = d.steps[current].id <=> k = n
      BY <1>2, <2>1, Zenon DEF IsInjective
    <3>2. QED
      BY <1>1, <1>3, <3>1, Zenon DEF OpenRefs
  <2>5. QED
    BY <1>4, <2>3, <2>4, FS_RemoveElement, Zenon
<1>6. ASSUME ~DependsOn(d, i, current) PROVE OpenRefs(d, i, D \union {current}) = O
  <2>1. \A k \in DOMAIN refs : refs[k] # d.steps[current].id
    BY <1>1, <1>6, Zenon DEF DependsOn, Range
  <2>2. QED
    BY <1>1, <1>3, <2>1, Zenon DEF OpenRefs
<1>7. QED
  BY <1>3, <1>5, <1>6, Zenon

KahnState(d) == [indegree : [Position(d) -> Int], queue : Seq(Position(d)), visited : Nat]

\* D are the steps that were visited, and rank says when.
KahnOK(d, k, D, rank) ==
  /\ k \in KahnState(d)
  /\ D \in SUBSET Position(d)
  /\ k.visited = Cardinality(D)
  /\ IsInjective(k.queue)
  /\ Range(k.queue) \intersect D = {}
  /\ \A i \in Position(d) : k.indegree[i] = Cardinality(OpenRefs(d, i, D))
  /\ \A i \in Position(d) : i \in Range(k.queue) \union D <=> OpenRefs(d, i, D) = {}
  /\ rank \in [D -> 1..k.visited]
  /\ \A i, j \in D : DependsOn(d, i, j) => rank[j] < rank[i]

\* The state after a visit has its type.
LEMMA VisitIsTyped ==
  ASSUME NEW d \in Definition, NEW k \in KahnState(d), k.queue # <<>>
  PROVE  KahnVisit(d, k) \in KahnState(d)
<1>1. Len(d.steps) \in Nat /\ Position(d) = 1..Len(d.steps)
  BY LenProperties, Zenon DEF Definition, Position
<1>2. k.indegree \in [Position(d) -> Int] /\ k.queue \in Seq(Position(d)) /\ k.visited \in Nat
  BY DEF KahnState
<1>3. PICK current : current = Head(k.queue)
  OBVIOUS
<1>4. PICK after : after = [i \in Position(d) |-> IF DependsOn(d, i, current)
                                                  THEN k.indegree[i] - 1 ELSE k.indegree[i]]
  BY Zenon
<1>5. after \in [Position(d) -> Int]
  BY <1>2, <1>4
<1>6. PICK freed : freed = Ascending(Len(d.steps),
                                     {i \in Position(d) : after[i] = 0 /\ DependsOn(d, i, current)})
  BY Zenon
<1>7. freed \in Seq(Position(d))
  BY <1>1, <1>6, AscendingLists, Zenon
<1>8. Tail(k.queue) \o freed \in Seq(Position(d))
  BY <1>2, <1>7, HeadTailProperties, ConcatProperties, Zenon
<1>9. KahnVisit(d, k) = [indegree |-> after, queue |-> Tail(k.queue) \o freed,
                         visited |-> k.visited + 1]
  BY <1>3, <1>4, <1>6, Zenon DEF KahnVisit
<1>10. QED
  BY <1>2, <1>5, <1>8, <1>9 DEF KahnState

\* A visit keeps what is known of the traversal: the step at the head of the
\* queue has no open references, and those that lose their last one are queued.
LEMMA VisitKeeps ==
  ASSUME NEW d \in Definition, WellReferenced(d), NEW k, NEW D, NEW rank, KahnOK(d, k, D, rank),
         k.queue # <<>>
  PROVE  \E r : KahnOK(d, KahnVisit(d, k), D \union {Head(k.queue)}, r)
<1>1. Len(d.steps) \in Nat /\ Position(d) = 1..Len(d.steps)
  BY LenProperties, Zenon DEF Definition, Position
<1>2. /\ k \in KahnState(d) /\ D \in SUBSET Position(d) /\ k.visited = Cardinality(D)
      /\ IsInjective(k.queue) /\ Range(k.queue) \intersect D = {}
  BY DEF KahnOK
<1>3. \A i \in Position(d) : /\ k.indegree[i] = Cardinality(OpenRefs(d, i, D))
                             /\ i \in Range(k.queue) \union D <=> OpenRefs(d, i, D) = {}
  BY DEF KahnOK
<1>4. rank \in [D -> 1..k.visited] /\ \A i, j \in D : DependsOn(d, i, j) => rank[j] < rank[i]
  BY DEF KahnOK
<1>5. k.indegree \in [Position(d) -> Int] /\ k.queue \in Seq(Position(d)) /\ k.visited \in Nat
  BY <1>2 DEF KahnState
<1>6. PICK current : current = Head(k.queue)
  OBVIOUS
<1>7. PICK after : after = [i \in Position(d) |-> IF DependsOn(d, i, current)
                                                  THEN k.indegree[i] - 1 ELSE k.indegree[i]]
  BY Zenon
<1>8. PICK F : F = {i \in Position(d) : after[i] = 0 /\ DependsOn(d, i, current)}
  BY Zenon
<1>9. PICK freed : freed = Ascending(Len(d.steps), F)
  OBVIOUS
<1>10. PICK v : v = KahnVisit(d, k)
  BY SMTT(30)
<1>11. /\ v = [indegree |-> after, queue |-> Tail(k.queue) \o freed, visited |-> k.visited + 1]
       /\ v \in KahnState(d)
  BY <1>2, <1>6, <1>7, <1>8, <1>9, <1>10, VisitIsTyped, Zenon DEF KahnVisit
<1>12. v.indegree = after /\ v.queue = Tail(k.queue) \o freed /\ v.visited = k.visited + 1
  BY <1>11
<1>13. freed \in Seq(Position(d)) /\ Range(freed) = F /\ IsInjective(freed)
  <2>1. F \intersect 1..Len(d.steps) = F
    BY <1>1, <1>8, Zenon
  <2>2. QED
    BY <1>1, <1>9, <2>1, AscendingLists, AscendingIsInjective, Zenon
<1>14. current \in Range(k.queue) /\ current \in Position(d)
  <2>1. DOMAIN k.queue = 1..Len(k.queue) /\ Len(k.queue) \in Nat \ {0}
    BY <1>5, LenProperties, EmptySeq, Zenon
  <2>2. current = k.queue[1]
    BY <1>5, <1>6, <2>1
  <2>3. current \in Position(d)
    BY <1>5, <1>6, HeadTailProperties, Zenon
  <2>4. QED
    BY <2>1, <2>2, <2>3 DEF Range
<1>15. current \in Position(d) \ D
  BY <1>2, <1>14, Zenon
<1>16. PICK E : E = D \union {current}
  BY Zenon
<1>17. ASSUME NEW i \in Position(d)
       PROVE  /\ after[i] = Cardinality(OpenRefs(d, i, E))
              /\ DependsOn(d, i, current) => OpenRefs(d, i, D) # {}
              /\ ~DependsOn(d, i, current) => OpenRefs(d, i, E) = OpenRefs(d, i, D)
  <2>1. /\ DependsOn(d, i, current) =>
             /\ OpenRefs(d, i, D) # {}
             /\ Cardinality(OpenRefs(d, i, E)) = Cardinality(OpenRefs(d, i, D)) - 1
        /\ ~DependsOn(d, i, current) => OpenRefs(d, i, E) = OpenRefs(d, i, D)
    BY <1>2, <1>15, <1>16, VisitClosesOne, ZenonT(30)
  <2>2. k.indegree[i] = Cardinality(OpenRefs(d, i, D))
    BY <1>3
  <2>3. after[i] = IF DependsOn(d, i, current) THEN k.indegree[i] - 1 ELSE k.indegree[i]
    BY <1>7, Zenon
  <2>4. QED
    BY <2>1, <2>2, <2>3, Zenon
<1>18. \A i \in Position(d) : Cardinality(OpenRefs(d, i, E)) = 0 <=> OpenRefs(d, i, E) = {}
  BY OpenRefsAreFinite, Zenon
<1>19. F \intersect (Range(k.queue) \union D) = {}
  BY <1>3, <1>8, <1>17, Zenon
<1>20. /\ v.queue \in Seq(Position(d)) /\ IsInjective(v.queue)
       /\ Range(v.queue) = (Range(k.queue) \ {current}) \union F
  <2>1. Range(freed) \intersect Range(k.queue) = {}
    BY <1>13, <1>19, Zenon
  <2>2. /\ v.queue \in Seq(Position(d)) /\ IsInjective(v.queue)
        /\ Range(v.queue) = (Range(k.queue) \ {Head(k.queue)}) \union Range(freed)
    <3>1. /\ k.queue \in Seq(Position(d)) /\ k.queue # <<>> /\ IsInjective(k.queue)
          /\ freed \in Seq(Position(d)) /\ IsInjective(freed)
          /\ v.queue = Tail(k.queue) \o freed
      BY <1>2, <1>5, <1>12, <1>13
    <3>2. QED
      BY <2>1, <3>1, QueueTurns, ZenonT(30)
  <2>3. QED
    BY <1>6, <1>13, <2>2, Zenon
<1>21. Range(v.queue) \intersect E = {}
  BY <1>2, <1>14, <1>16, <1>19, <1>20, Zenon
<1>22. ASSUME NEW i \in Position(d)
       PROVE  i \in Range(v.queue) \union E <=> OpenRefs(d, i, E) = {}
  <2>1. i \in F <=> DependsOn(d, i, current) /\ OpenRefs(d, i, E) = {}
    BY <1>8, <1>17, <1>18, Zenon
  <2>2. Range(v.queue) \union E = Range(k.queue) \union D \union F
    BY <1>14, <1>16, <1>20, Zenon
  <2>3. OpenRefs(d, i, D) = {} => ~DependsOn(d, i, current)
    BY <1>17
  <2>4. QED
    BY <1>3, <1>17, <2>1, <2>2, <2>3, Zenon
<1>23. v.visited = Cardinality(E)
  <2>1. IsFiniteSet(Position(d))
    BY <1>1, FS_Interval
  <2>2. IsFiniteSet(D)
    BY <1>2, <2>1, FS_Subset, Zenon
  <2>3. QED
    BY <1>2, <1>12, <1>15, <1>16, <2>2, FS_AddElement, Zenon
<1>24. PICK r : r = [i \in E |-> IF i = current THEN v.visited ELSE rank[i]]
  BY Zenon
<1>25. r \in [E -> 1..v.visited]
  BY <1>4, <1>5, <1>12, <1>16, <1>24
<1>26. ASSUME NEW i \in E, NEW j \in E, DependsOn(d, i, j) PROVE r[j] < r[i]
  <2>1. ASSUME NEW h \in Position(d), OpenRefs(d, h, D) = {}, NEW g \in Position(d), DependsOn(d, h, g)
        PROVE  g \in D
    <3>1. PICK n \in DOMAIN d.steps[h].dependsOn : d.steps[h].dependsOn[n] = d.steps[g].id
      BY <2>1, Zenon DEF DependsOn, Range
    <3>2. PICK x \in D : d.steps[x].id = d.steps[g].id
      BY <2>1, <3>1, Zenon DEF OpenRefs
    <3>3. x = g
      BY <1>2, <3>2, Zenon DEF WellReferenced
    <3>4. QED
      BY <3>2, <3>3, Zenon
  <2>2. OpenRefs(d, i, D) = {}
    BY <1>2, <1>3, <1>14, <1>16, Zenon
  <2>3. j \in D /\ j # current
    BY <1>2, <1>15, <1>16, <1>26, <2>1, <2>2, Zenon
  <2>4. r[j] = rank[j] /\ rank[j] \in 1..k.visited
    BY <1>4, <1>24, <2>3, ZenonT(30)
  <2>5. CASE i = current
    BY <1>5, <1>12, <1>24, <2>4, <2>5
  <2>6. CASE i # current
    BY <1>4, <1>16, <1>24, <1>26, <2>3, <2>4, <2>6, Zenon
  <2>7. QED
    BY <2>5, <2>6, Zenon
<1>27. E \in SUBSET Position(d)
  BY <1>2, <1>15, <1>16, Zenon
<1>28. KahnOK(d, v, E, r)
  BY <1>11, <1>12, <1>17, <1>20, <1>21, <1>22, <1>23, <1>25, <1>26, <1>27, Zenon DEF KahnOK
<1>29. QED
  BY <1>6, <1>10, <1>16, <1>28, Zenon

\* The traversal starts with nothing visited.
LEMMA KahnStarts ==
  ASSUME NEW d \in Definition
  PROVE  \E r : KahnOK(d, KahnStart(d), {}, r)
<1>1. Len(d.steps) \in Nat /\ Position(d) = 1..Len(d.steps)
  BY LenProperties DEF Definition, Position
<1>2. PICK indegree : indegree = [i \in Position(d) |-> Len(d.steps[i].dependsOn)]
  BY Zenon
<1>3. PICK F : F = {i \in Position(d) : indegree[i] = 0}
  BY Zenon
<1>4. PICK k : k = KahnStart(d)
  OBVIOUS
<1>5. k = [indegree |-> indegree, queue |-> Ascending(Len(d.steps), F), visited |-> 0]
  BY <1>2, <1>3, <1>4, Zenon DEF KahnStart
<1>6. k.indegree = indegree /\ k.queue = Ascending(Len(d.steps), F) /\ k.visited = 0
  BY <1>5, Zenon
<1>7. k.queue \in Seq(Position(d)) /\ Range(k.queue) = F /\ IsInjective(k.queue)
  <2>1. F \intersect 1..Len(d.steps) = F
    BY <1>1, <1>3, Zenon
  <2>2. PICK a : a = Ascending(Len(d.steps), F)
    OBVIOUS
  <2>3. a \in Seq(1..Len(d.steps)) /\ Range(a) = F /\ IsInjective(a)
    BY <1>1, <2>1, <2>2, AscendingLists, AscendingIsInjective, Zenon
  <2>4. QED
    BY <1>1, <1>6, <2>2, <2>3, Zenon
<1>8. ASSUME NEW i \in Position(d)
      PROVE  indegree[i] = Cardinality(OpenRefs(d, i, {})) /\ indegree[i] \in Nat
  <2>1. PICK refs \in Seq(STRING) : refs = d.steps[i].dependsOn
    BY OpenRefsAreFinite
  <2>2. DOMAIN refs = 1..Len(refs) /\ Len(refs) \in Nat /\ 1 \in Int
    BY LenProperties
  <2>3. OpenRefs(d, i, {}) = 1..Len(refs)
    BY <2>1, <2>2, Zenon DEF OpenRefs
  <2>4. Cardinality(1..Len(refs)) = Len(refs)
    BY <2>2, FS_Interval
  <2>5. QED
    BY <1>2, <2>1, <2>2, <2>3, <2>4, Zenon
<1>9. k \in KahnState(d)
  BY <1>2, <1>5, <1>6, <1>7, <1>8 DEF KahnState
<1>10. \A i \in Position(d) : i \in Range(k.queue) \union {} <=> OpenRefs(d, i, {}) = {}
  BY <1>3, <1>7, <1>8, OpenRefsAreFinite, Zenon
<1>11. PICK r : r = [i \in {} |-> 0]
  BY Zenon
<1>12. KahnOK(d, k, {}, r)
  BY <1>6, <1>7, <1>8, <1>9, <1>10, <1>11, FS_EmptySet, Zenon DEF KahnOK
<1>13. QED
  BY <1>4, <1>12, Zenon

\* The rounds of validateWorkflowDAG.
KahnRound(d, k) == IF k.queue = <<>> THEN k ELSE KahnVisit(d, k)

KahnRounds(f, d) ==
  f[0] = KahnStart(d) /\ \A m \in 1..Len(d.steps) : f[m] = KahnRound(d, f[m - 1])

\* The recursive function of validateWorkflowDAG is what its rounds compute.
LEMMA KahnUnfolds ==
  ASSUME NEW d \in Definition
  PROVE  \E f : /\ KahnRounds(f, d)
                /\ validateWorkflowDAG(d) <=> f[Len(d.steps)].visited = Len(d.steps)
<1>0. PICK n \in Nat : n = Len(d.steps)
  BY LenProperties, Zenon DEF Definition
<1> DEFINE V == KahnState(d)
           Body(g) == [m \in 0..n |-> IF m = 0 THEN KahnStart(d)
                                      ELSE IF g[m - 1].queue = <<>> THEN g[m - 1]
                                      ELSE KahnVisit(d, g[m - 1])]
           F == CHOOSE g : g = Body(g)
           step == [p \in (1..n) \X V |-> KahnRound(d, p[2])]
<1>1. step \in [(1..n) \X V -> V]
  <2>1. ASSUME NEW k \in V PROVE KahnRound(d, k) \in V
    BY VisitIsTyped, Zenon DEF KahnRound
  <2> HIDE DEF V
  <2>2. QED
    BY <2>1
<1>2. KahnStart(d) \in V
  BY KahnStarts DEF KahnOK
<1>3. PICK f \in [0..n -> V] : Iterates(f, n, KahnStart(d), step)
  <2> HIDE DEF step, V
  <2>1. QED
    BY <1>1, <1>2, IterationExists, Zenon
<1>4. ASSUME NEW m \in 1..n PROVE f[m] = KahnRound(d, f[m - 1])
  <2> HIDE DEF V
  <2>1. m - 1 \in 0..n /\ f[m - 1] \in V
    OBVIOUS
  <2>2. f[m] = step[<<m, f[m - 1]>>]
    BY <1>3, Zenon DEF Iterates
  <2>3. QED
    BY <2>1, <2>2, Zenon
<1>5. f = Body(f)
  <2>1. f[0] = KahnStart(d)
    BY <1>3 DEF Iterates
  <2>2. ASSUME NEW m \in 0..n PROVE f[m] = Body(f)[m]
    <3>1. CASE m = 0
      BY <2>1, <3>1, Zenon
    <3>2. CASE m \in 1..n
      <4>1. f[m] = IF f[m - 1].queue = <<>> THEN f[m - 1] ELSE KahnVisit(d, f[m - 1])
        BY <1>4, <3>2, Zenon DEF KahnRound
      <4>2. Body(f)[m] = IF f[m - 1].queue = <<>> THEN f[m - 1] ELSE KahnVisit(d, f[m - 1])
        BY <3>2
      <4>3. QED
        BY <4>1, <4>2, Zenon
    <3>3. QED
      BY <3>1, <3>2
  <2>3. f = [m \in 0..n |-> f[m]] /\ Body(f) = [m \in 0..n |-> Body(f)[m]]
    OBVIOUS
  <2> HIDE DEF Body
  <2>4. QED
    BY <2>2, <2>3, Zenon
<1>6. F = Body(F)
  <2> HIDE DEF Body
  <2>1. QED
    BY <1>5
<1>7. validateWorkflowDAG(d) <=> F[n].visited = n
  BY <1>0, Zenon DEF validateWorkflowDAG
<1> HIDE DEF F
<1>8. /\ F[0] = KahnStart(d)
      /\ \A m \in 1..n : F[m] = IF F[m - 1].queue = <<>> THEN F[m - 1] ELSE KahnVisit(d, F[m - 1])
  <2>1. \A m \in 0..n : F[m] = Body(F)[m]
    BY <1>6
  <2>2. QED
    BY <2>1
<1>9. QED
  BY <1>0, <1>7, <1>8, Zenon DEF KahnRounds, KahnRound

\* What is known after m rounds: the traversal has visited as many steps, or
\* has run out of them.
KahnAfter(d, k, m) ==
  /\ \E D, r : KahnOK(d, k, D, r)
  /\ k.queue = <<>> \/ k.visited = m

\* What is known after the last round.
LEMMA KahnEnds ==
  ASSUME NEW d \in Definition, WellReferenced(d), NEW f, KahnRounds(f, d)
  PROVE  KahnAfter(d, f[Len(d.steps)], Len(d.steps))
<1>1. PICK n \in Nat : n = Len(d.steps)
  BY LenProperties, Zenon DEF Definition
<1> DEFINE Good(m) == KahnAfter(d, f[m], m)
           T == {m \in 0..n : Good(m)}
<1>2. Good(0)
  <2>1. f[0] = KahnStart(d) /\ KahnStart(d).visited = 0
    BY DEF KahnRounds, KahnStart
  <2>2. QED
    BY <2>1, KahnStarts, ZenonT(30) DEF KahnAfter
<1>3. ASSUME NEW m \in 1..n, Good(m - 1) PROVE Good(m)
  <2>1. PICK k : k = f[m - 1]
    OBVIOUS
  <2>2. f[m] = KahnRound(d, k)
    BY <1>1, <2>1, Zenon DEF KahnRounds
  <2>3. KahnAfter(d, k, m - 1)
    BY <1>3, <2>1, Zenon
  <2>4. CASE k.queue = <<>>
    BY <2>2, <2>3, <2>4, Zenon DEF KahnAfter, KahnRound
  <2>5. CASE k.queue # <<>>
    <3>1. PICK D, r : KahnOK(d, k, D, r)
      BY <2>3 DEF KahnAfter
    <3>2. f[m] = KahnVisit(d, k)
      BY <2>2, <2>5, Zenon DEF KahnRound
    <3>3. \E E, q : KahnOK(d, f[m], E, q)
      BY <2>5, <3>1, <3>2, VisitKeeps, ZenonT(30)
    <3>4. f[m].visited = k.visited + 1
      BY <3>2 DEF KahnVisit
    <3>5. k.visited = m - 1
      BY <2>3, <2>5, Zenon DEF KahnAfter
    <3>6. f[m].visited = m
      BY <3>4, <3>5
    <3>7. QED
      BY <3>3, <3>6, Zenon DEF KahnAfter
  <2>6. QED
    BY <2>4, <2>5, Zenon
<1>4. Good(n)
  <2> HIDE DEF Good
  <2>1. 0 \in T /\ \A m \in 1..n : m - 1 \in T => m \in T
    BY <1>2, <1>3
  <2> HIDE DEF T
  <2>2. \A m \in 0..n : m \in T
    BY <2>1, CountUp, Zenon
  <2>3. QED
    BY <2>2 DEF T
<1>5. QED
  BY <1>1, <1>4, Zenon

\* rank puts every step after its dependencies.
OrdersSteps(d, rank) ==
  \A i, j \in Position(d) : DependsOn(d, i, j) => rank[j] < rank[i]

\* Kahn's traversal accepts a definition exactly if its steps can be put in an
\* order in which each comes after its dependencies, for definitions of any size
\* whose references have been checked (validateWorkflowDAG).
THEOREM TraversalIsExact ==
  ASSUME NEW d \in Definition, WellReferenced(d)
  PROVE  validateWorkflowDAG(d) <=>
           \E rank \in [Position(d) -> Position(d)] : OrdersSteps(d, rank)
<1>1. PICK n \in Nat : n = Len(d.steps)
  BY LenProperties DEF Definition
<1>2. Position(d) = 1..n /\ IsFiniteSet(Position(d)) /\ Cardinality(Position(d)) = n
  <2>1. 1 \in Int /\ n \in Int
    OBVIOUS
  <2>2. IsFiniteSet(1..n) /\ Cardinality(1..n) = n
    BY <2>1, FS_Interval
  <2>3. QED
    BY <1>1, <2>2, Zenon DEF Position
<1>3. PICK f : KahnRounds(f, d) /\ (validateWorkflowDAG(d) <=> f[n].visited = n)
  BY <1>1, KahnUnfolds, Zenon
<1>4. PICK k : k = f[n]
  OBVIOUS
<1>5. KahnAfter(d, k, n)
  BY <1>1, <1>3, <1>4, KahnEnds, Zenon
<1>6. PICK D, r : KahnOK(d, k, D, r)
  BY <1>5, Zenon DEF KahnAfter
<1>7. D \in SUBSET Position(d) /\ k.visited = Cardinality(D) /\ r \in [D -> 1..k.visited]
  BY <1>6, Zenon DEF KahnOK
<1>8. ASSUME k.visited = n
      PROVE  \E rank \in [Position(d) -> Position(d)] : OrdersSteps(d, rank)
  <2>1. D = Position(d)
    BY <1>2, <1>7, <1>8, FS_Subset, Zenon
  <2>2. r \in [Position(d) -> Position(d)]
    BY <1>2, <1>7, <1>8, <2>1, Zenon
  <2>3. OrdersSteps(d, r)
    BY <1>6, <2>1, Zenon DEF KahnOK, OrdersSteps
  <2>4. QED
    BY <2>2, <2>3, Zenon
<1>9. ASSUME NEW rank \in [Position(d) -> Position(d)], OrdersSteps(d, rank)
      PROVE  k.visited = n
  <2>1. CASE k.queue # <<>>
    BY <1>5, <2>1, Zenon DEF KahnAfter
  <2>2. CASE k.queue = <<>>
    <3>1. D = Position(d)
      <4> DEFINE U == Position(d) \ D
                 R == {rank[i] : i \in U}
      <4>1. SUFFICES ASSUME U # {} PROVE FALSE
        BY <1>7, Zenon
      <4>2. R \in SUBSET Nat /\ R # {}
        BY <1>2, <4>1
      <4>3. PICK least \in R : \A x \in R : least <= x
        <5> HIDE DEF R
        <5>1. QED
          BY <4>2, LeastNumber, Zenon
      <4>4. PICK i \in U : rank[i] = least
        BY <4>3, Zenon
      <4>5. Range(k.queue) = {}
        BY <2>2 DEF Range
      <4>6. OpenRefs(d, i, D) # {}
        BY <1>6, <4>4, <4>5, Zenon DEF KahnOK
      <4>7. PICK ref \in Range(d.steps[i].dependsOn) : \A j \in D : d.steps[j].id # ref
        BY <4>6, Zenon DEF OpenRefs, Range
      <4>8. PICK j \in Position(d) : d.steps[j].id = ref
        <5>1. DOMAIN d.steps = Position(d)
          BY LenProperties, Zenon DEF Definition, Position
        <5>2. \E t \in Range(d.steps) : t.id = ref
          BY DEF WellReferenced, ValidDependencies
        <5>3. QED
          BY <5>1, <5>2, Zenon DEF Range
      <4>9. j \in U /\ DependsOn(d, i, j)
        BY <4>7, <4>8, Zenon DEF DependsOn
      <4>10. rank[j] < rank[i] /\ rank[j] \in R
        BY <1>9, <4>9, Zenon DEF OrdersSteps
      <4>11. rank[i] \in Nat /\ rank[j] \in Nat /\ rank[i] <= rank[j]
        BY <1>2, <4>3, <4>4, <4>10
      <4>12. QED
        BY <4>10, <4>11
    <3>2. QED
      BY <1>2, <1>7, <3>1, Zenon
  <2>3. QED
    BY <2>1, <2>2, Zenon
<1>10. QED
  BY <1>3, <1>4, <1>8, <1>9, Zenon

\* In an accepted definition some step of any set can go first.
LEMMA SomeStepIsFirst ==
  ASSUME NEW d \in Definition, WellReferenced(d), validateWorkflowDAG(d),
         NEW S \in SUBSET Position(d), S # {}
  PROVE  \E i \in S : \A j \in S : ~DependsOn(d, i, j)
<1>1. PICK rank \in [Position(d) -> Position(d)] : OrdersSteps(d, rank)
  BY TraversalIsExact
<1> DEFINE R == {rank[i] : i \in S}
<1>2. Position(d) \subseteq Nat
  BY LenProperties DEF Definition, Position
<1>3. R \in SUBSET Nat /\ R # {}
  BY <1>2
<1>4. PICK least \in R : \A x \in R : least <= x
  <2> HIDE DEF R
  <2>1. QED
    BY <1>3, LeastNumber, Zenon
<1>5. PICK i \in S : rank[i] = least
  BY <1>4
<1>6. ASSUME NEW j \in S, DependsOn(d, i, j) PROVE FALSE
  <2>1. rank[j] < rank[i] /\ rank[j] \in R
    BY <1>1, <1>6, Zenon DEF OrdersSteps
  <2>2. rank[i] \in Nat /\ rank[j] \in Nat /\ rank[i] <= rank[j]
    BY <1>2, <1>4, <1>5, <2>1, Zenon
  <2>3. QED
    BY <2>1, <2>2
<1>7. QED
  BY <1>6

-----------------------------------------------------------------------------
(* Conditions.                                                             *)

\* Definitions that are accepted have no dangling references (validateStep).
LEMMA ValidDefinitionResolves ==
  ASSUME NEW d \in Definition, ValidDefinition(d)
  PROVE  Resolves(d)
<1> SUFFICES ASSUME NEW i \in Position(d)
             PROVE  /\ \A ref \in Range(d.steps[i].dependsOn) : PositionOf(d, ref) \in Position(d)
                    /\ ValidCondition(d.steps[i])
  BY DEF Resolves
<1>1. validateStep(d, d.steps[i])
  BY Zenon DEF ValidDefinition
<1>2. DOMAIN d.steps = Position(d)
  BY LenProperties DEF Definition, Position
<1>3. ASSUME NEW ref \in Range(d.steps[i].dependsOn) PROVE PositionOf(d, ref) \in Position(d)
  <2>1. \E t \in Range(d.steps) : t.id = ref
    BY <1>1, Zenon DEF validateStep, ValidDependencies
  <2>2. \E j \in Position(d) : d.steps[j].id = ref
    BY <1>2, <2>1, Zenon DEF Range
  <2>3. QED
    BY <2>2 DEF PositionOf
<1>4. QED
  BY <1>1, <1>3, Zenon DEF validateStep

\* What one round of applyConditions does.
LEMMA ConditionRound ==
  ASSUME NEW d \in Definition, NEW a, Fits(d, a), NEW k \in Position(d),
         NEW b, b = ApplyCondition(d, a, k)
  PROVE  /\ Fits(d, b) /\ b.status = a.status /\ b.version = a.version
         /\ \A i \in Position(d) \ {k} : b.steps[i] = a.steps[i]
         /\ b.steps[k] = IF SkipsNow(d, a, k) THEN Skip(a.steps[k]) ELSE a.steps[k]
<1>1. a \in Copy /\ a.steps \in Seq(Step) /\ Len(a.steps) = Len(d.steps) /\ Len(a.steps) \in Nat
  BY LenProperties DEF Fits, Copy
<1>2. DOMAIN a.steps = Position(d) /\ \A i \in Position(d) : a.steps[i] \in Step
  BY <1>1, LenProperties, ElementOfSeq, Zenon DEF Position
<1>3. CASE ~SkipsNow(d, a, k)
  <2>1. b = a
    BY <1>3 DEF ApplyCondition, SkipsNow
  <2>2. QED
    BY <1>3, <2>1, Zenon
<1>4. CASE SkipsNow(d, a, k)
  <2>1. b = [a EXCEPT !.steps[k].status = "skipped"]
    BY <1>4 DEF ApplyCondition, SkipsNow
  <2>2. PICK s : s = [a.steps EXCEPT ![k] = Skip(@)]
    BY Zenon
  <2>3. Skip(a.steps[k]) \in Step
    BY <1>2, Zenon DEF Skip, Step, StepStatus, DoneStep
  <2>4. s \in Seq(Step) /\ Len(s) = Len(a.steps) /\ s[k] = Skip(a.steps[k])
        /\ \A i \in Position(d) \ {k} : s[i] = a.steps[i]
    BY <1>1, <1>2, <2>2, <2>3, ExceptSeq
  <2>5. b = [a EXCEPT !.steps = s]
    BY <2>1, <2>2 DEF Skip
  <2>6. b \in Copy /\ b.steps = s /\ b.status = a.status /\ b.version = a.version
    BY <1>1, <2>4, <2>5, Zenon DEF Copy
  <2>7. QED
    BY <1>1, <1>4, <2>4, <2>6, Zenon DEF Fits
<1>5. QED
  BY <1>3, <1>4, Zenon

\* The rounds of the loop of applyConditions.
ConditionRounds(f, d, c) ==
  /\ f[0] = c
  /\ \A k \in 0..Len(d.steps) : Fits(d, f[k])
  /\ \A k \in 1..Len(d.steps) : f[k] = ApplyCondition(d, f[k - 1], k)

\* The recursive function of applyConditions is what its rounds compute.
LEMMA ApplyConditionsUnfolds ==
  ASSUME NEW d \in Definition, NEW c, Fits(d, c)
  PROVE  \E f : ConditionRounds(f, d, c) /\ applyConditions(d, c) = f[Len(d.steps)]
<1>0. PICK n \in Nat : n = Len(d.steps)
  BY LenProperties DEF Definition
<1> DEFINE V == {a \in Copy : Fits(d, a)}
           Body(g) == [k \in 0..n |-> IF k = 0 THEN c ELSE ApplyCondition(d, g[k - 1], k)]
           F == CHOOSE g : g = Body(g)
           step == [p \in (1..n) \X V |-> ApplyCondition(d, p[2], p[1])]
<1>1. step \in [(1..n) \X V -> V]
  <2>1. ASSUME NEW k \in 1..n, NEW a \in V PROVE ApplyCondition(d, a, k) \in V
    <3>1. k \in Position(d) /\ Fits(d, a)
      BY <1>0, Zenon DEF Position
    <3>2. Fits(d, ApplyCondition(d, a, k))
      BY <3>1, ConditionRound, Zenon
    <3>3. QED
      BY <3>2 DEF Fits
  <2> HIDE DEF V
  <2>2. QED
    BY <2>1
<1>2. c \in V
  BY DEF Fits
<1>3. PICK f \in [0..n -> V] : Iterates(f, n, c, step)
  <2> HIDE DEF step, V
  <2>1. QED
    BY <1>1, <1>2, IterationExists, Zenon
<1>4. ASSUME NEW k \in 1..n PROVE f[k] = ApplyCondition(d, f[k - 1], k)
  <2> HIDE DEF V
  <2>1. k - 1 \in 0..n /\ f[k - 1] \in V
    OBVIOUS
  <2>2. f[k] = step[<<k, f[k - 1]>>]
    BY <1>3, Zenon DEF Iterates
  <2>3. QED
    BY <2>1, <2>2, Zenon
<1>5. f = Body(f)
  <2>1. f[0] = c
    BY <1>3, Zenon DEF Iterates
  <2>2. ASSUME NEW k \in 0..n PROVE f[k] = Body(f)[k]
    <3>1. CASE k = 0
      BY <2>1, <3>1
    <3>2. CASE k \in 1..n
      <4>1. f[k] = ApplyCondition(d, f[k - 1], k)
        BY <1>4, <3>2, Zenon
      <4>2. Body(f)[k] = ApplyCondition(d, f[k - 1], k)
        BY <3>2
      <4>3. QED
        BY <4>1, <4>2, Zenon
    <3>3. QED
      BY <3>1, <3>2
  <2>3. f = [k \in 0..n |-> f[k]] /\ Body(f) = [k \in 0..n |-> Body(f)[k]]
    OBVIOUS
  <2> HIDE DEF Body
  <2>4. QED
    BY <2>2, <2>3, Zenon
<1>6. F = Body(F)
  <2> HIDE DEF Body
  <2>1. QED
    BY <1>5
<1>7. applyConditions(d, c) = F[n]
  BY <1>0 DEF applyConditions
<1> HIDE DEF F
<1>8. F[0] = c /\ \A k \in 1..n : F[k] = ApplyCondition(d, F[k - 1], k)
  <2>1. \A k \in 0..n : F[k] = Body(F)[k]
    BY <1>6
  <2>2. QED
    BY <2>1
<1>9. ASSUME NEW k \in 0..n PROVE Fits(d, F[k])
  <2> DEFINE T == {j \in 0..n : Fits(d, F[j])}
  <2>1. 0 \in T
    BY <1>8
  <2>2. ASSUME NEW j \in 1..n, j - 1 \in T PROVE j \in T
    <3>1. Fits(d, F[j - 1]) /\ F[j] = ApplyCondition(d, F[j - 1], j) /\ j \in Position(d)
      BY <1>0, <1>8, <2>2, ZenonT(30) DEF Position
    <3>2. Fits(d, F[j])
      BY <3>1, ConditionRound
    <3>3. QED
      BY <3>2
  <2>3. k \in T
    <3> HIDE DEF T
    <3>1. QED
      BY <2>1, <2>2, CountUp, Zenon
  <2>4. QED
    BY <2>3
<1>10. QED
  BY <1>0, <1>7, <1>8, <1>9, Zenon DEF ConditionRounds

\* Copies that agree on the dependencies of a step agree on its condition.
LEMMA SameDependencies ==
  ASSUME NEW d, Resolves(d), NEW i \in Position(d), NEW a, NEW b,
         \A ref \in Range(d.steps[i].dependsOn) :
           b.steps[PositionOf(d, ref)] = a.steps[PositionOf(d, ref)]
  PROVE  /\ DependenciesDone(d, b, i) <=> DependenciesDone(d, a, i)
         /\ d.steps[i].condition # NoCondition =>
              ValueOf(d, b, d.steps[i].condition.source) = ValueOf(d, a, d.steps[i].condition.source)
<1>1. DependenciesDone(d, b, i) <=> DependenciesDone(d, a, i)
  BY Zenon DEF DependenciesDone
<1>2. ASSUME d.steps[i].condition # NoCondition
      PROVE  ValueOf(d, b, d.steps[i].condition.source) = ValueOf(d, a, d.steps[i].condition.source)
  <2>1. d.steps[i].condition.source \in Range(d.steps[i].dependsOn) \union {WorkflowInput}
    BY <1>2, Zenon DEF Resolves, ValidCondition
  <2>2. QED
    BY <2>1, Zenon DEF ValueOf
<1>3. QED
  BY <1>1, <1>2, Zenon

\* One more round: what was skipped stays justified.
LEMMA AppliedOneMore ==
  ASSUME NEW d \in Definition, Resolves(d), NEW c, Fits(d, c), NEW k \in Position(d),
         NEW a, AppliedUpTo(d, c, a, k - 1), NEW b, b = ApplyCondition(d, a, k)
  PROVE  AppliedUpTo(d, c, b, k)
<1>0. k \in Nat /\ Position(d) \subseteq Nat
  BY LenProperties DEF Definition, Position
<1>1. /\ Fits(d, a) /\ a.status = c.status /\ a.version = c.version
      /\ \A i \in Position(d) :
           /\ a.steps[i] = c.steps[i] \/ (i <= k - 1 /\ SkippedSince(d, c, a, i))
           /\ i <= k - 1 /\ SkipsNow(d, c, i) => a.steps[i].status = "skipped"
  BY Zenon DEF AppliedUpTo
<1>2. /\ Fits(d, b) /\ b.status = a.status /\ b.version = a.version
      /\ \A i \in Position(d) \ {k} : b.steps[i] = a.steps[i]
      /\ b.steps[k] = IF SkipsNow(d, a, k) THEN Skip(a.steps[k]) ELSE a.steps[k]
  BY <1>1, ConditionRound
<1>3. a.steps[k] = c.steps[k]
  BY <1>0, <1>1
<1>4. ASSUME NEW j \in Position(d), a.steps[j].status \in DoneStep PROVE b.steps[j] = a.steps[j]
  <2>1. CASE j = k
    <3>1. ~SkipsNow(d, a, k)
      BY <1>4, <2>1, Zenon DEF SkipsNow, DoneStep
    <3>2. QED
      BY <1>2, <2>1, <3>1, Zenon
  <2>2. QED
    BY <1>2, <2>1, Zenon
<1>5. ASSUME NEW i \in Position(d), DependenciesDone(d, a, i)
      PROVE  /\ \A ref \in Range(d.steps[i].dependsOn) :
                   b.steps[PositionOf(d, ref)] = a.steps[PositionOf(d, ref)]
             /\ d.steps[i].condition # NoCondition =>
                  ValueOf(d, b, d.steps[i].condition.source) = ValueOf(d, a, d.steps[i].condition.source)
  <2>1. \A ref \in Range(d.steps[i].dependsOn) :
          b.steps[PositionOf(d, ref)] = a.steps[PositionOf(d, ref)]
    BY <1>4, <1>5, Zenon DEF DependenciesDone, Resolves
  <2>2. QED
    BY <2>1, SameDependencies, Zenon
<1>6. ASSUME NEW i \in Position(d), SkippedSince(d, c, a, i) PROVE SkippedSince(d, c, b, i)
  <2>1. DependenciesDone(d, a, i)
    BY <1>6, Zenon DEF SkippedSince, DependenciesDone
  <2>2. b.steps[i] = a.steps[i]
    <3>1. a.steps[i].status \in DoneStep
      <4>1. c.steps[i] \in Step
        BY LenProperties, ElementOfSeq, Zenon DEF Fits, Copy, Position
      <4>2. QED
        BY <1>6, <4>1, Zenon DEF SkippedSince, Skip, Step, DoneStep
    <3>2. QED
      BY <1>4, <3>1, Zenon
  <2>3. QED
    BY <1>5, <1>6, <2>1, <2>2, Zenon DEF SkippedSince
<1>7. ASSUME SkipsNow(d, a, k) PROVE SkippedSince(d, c, b, k)
  <2>1. DependenciesDone(d, a, k) /\ d.steps[k].condition # NoCondition /\ c.steps[k].status = "pending"
    BY <1>3, <1>7, ZenonT(30) DEF SkipsNow
  <2>2. ASSUME NEW ref \in Range(d.steps[k].dependsOn)
        PROVE  /\ b.steps[PositionOf(d, ref)].status \in DoneStep
               /\ b.steps[PositionOf(d, ref)] # c.steps[PositionOf(d, ref)] => PositionOf(d, ref) < k
    <3>1. PICK j \in Position(d) : j = PositionOf(d, ref)
      BY Zenon DEF Resolves
    <3>2. a.steps[j].status \in DoneStep /\ b.steps[j] = a.steps[j]
      BY <1>5, <2>1, <3>1, ZenonT(30) DEF DependenciesDone
    <3>3. a.steps[j] # c.steps[j] => j <= k - 1
      BY <1>1, Zenon
    <3>4. QED
      BY <1>0, <3>1, <3>2, <3>3
  <2>3. ~evaluateCondition(ValueOf(d, b, d.steps[k].condition.source), d.steps[k].condition)
    <3>1. ValueOf(d, b, d.steps[k].condition.source) = ValueOf(d, a, d.steps[k].condition.source)
      BY <1>5, <2>1, Zenon
    <3>2. QED
      BY <1>7, <3>1, Zenon DEF SkipsNow
  <2>4. QED
    BY <1>2, <1>3, <1>7, <2>1, <2>2, <2>3, Zenon DEF SkippedSince
<1>8. ASSUME NEW i \in Position(d) PROVE b.steps[i] = c.steps[i] \/ (i <= k /\ SkippedSince(d, c, b, i))
  <2>1. CASE i = k
    BY <1>0, <1>2, <1>3, <1>7, <2>1
  <2>2. CASE i # k
    BY <1>0, <1>1, <1>2, <1>6, <2>2
  <2>3. QED
    BY <2>1, <2>2, Zenon
<1>9. ASSUME NEW i \in Position(d), i <= k, SkipsNow(d, c, i) PROVE b.steps[i].status = "skipped"
  <2>1. CASE i = k
    <3>1. DependenciesDone(d, c, k)
      BY <1>9, <2>1, Zenon DEF SkipsNow
    <3>2. \A ref \in Range(d.steps[k].dependsOn) :
            a.steps[PositionOf(d, ref)] = c.steps[PositionOf(d, ref)]
      BY <1>1, <3>1, ZenonT(30) DEF DependenciesDone, Resolves, SkippedSince, DoneStep
    <3>3. SkipsNow(d, a, k)
      <4>1. /\ DependenciesDone(d, a, k) <=> DependenciesDone(d, c, k)
            /\ d.steps[k].condition # NoCondition =>
                 ValueOf(d, a, d.steps[k].condition.source) = ValueOf(d, c, d.steps[k].condition.source)
        BY <3>2, SameDependencies, Zenon
      <4>2. QED
        BY <1>3, <1>9, <2>1, <4>1, Zenon DEF SkipsNow
    <3>4. a.steps[k] \in Step
      BY <1>1, LenProperties, ElementOfSeq, ZenonT(30) DEF Fits, Copy, Position
    <3>5. QED
      BY <1>2, <2>1, <3>3, <3>4, Zenon DEF Skip, Step
  <2>2. CASE i # k
    BY <1>0, <1>1, <1>2, <1>9, <2>2
  <2>3. QED
    BY <2>1, <2>2, Zenon
<1>10. QED
  BY <1>1, <1>2, <1>8, <1>9, Zenon DEF AppliedUpTo

\* What applyConditions returns: every step it changes is skipped because its
\* condition is false for the outcome of its dependencies, which it leaves alone
\* or skips first, and no step that could be skipped in c is left out.
THEOREM ConditionsApplied ==
  ASSUME NEW d \in Definition, Resolves(d), NEW c, Fits(d, c)
  PROVE  AppliedUpTo(d, c, applyConditions(d, c), Len(d.steps))
<1>1. PICK f : ConditionRounds(f, d, c) /\ applyConditions(d, c) = f[Len(d.steps)]
  BY ApplyConditionsUnfolds
<1>2. PICK n \in Nat : n = Len(d.steps)
  BY LenProperties, Zenon DEF Definition
<1> DEFINE Good(k) == AppliedUpTo(d, c, f[k], k)
           T == {k \in 0..n : Good(k)}
<1>3. Good(0)
  <2>1. \A i \in Position(d) : ~(i <= 0)
    BY <1>2 DEF Position
  <2>2. QED
    BY <1>1, <2>1, Zenon DEF AppliedUpTo, ConditionRounds
<1>4. ASSUME NEW k \in 1..n, Good(k - 1) PROVE Good(k)
  <2>1. k \in Position(d) /\ f[k] = ApplyCondition(d, f[k - 1], k)
    BY <1>1, <1>2, Zenon DEF ConditionRounds, Position
  <2>2. QED
    BY <1>4, <2>1, AppliedOneMore, Zenon
<1>5. Good(n)
  <2> HIDE DEF Good
  <2>1. 0 \in T /\ \A k \in 1..n : k - 1 \in T => k \in T
    BY <1>3, <1>4
  <2> HIDE DEF T
  <2>2. \A k \in 0..n : k \in T
    BY <2>1, CountUp, Zenon
  <2>3. QED
    BY <2>2 DEF T
<1>6. QED
  BY <1>1, <1>2, <1>5, Zenon

-----------------------------------------------------------------------------
(* All of it.                                                              *)

\* The steps of a definition can be counted.
LEMMA StepsAreCountable ==
  ASSUME NEW d \in Definition
  PROVE  Countable(d)
<1>1. IsFiniteSet(Position(d))
  <2>1. Position(d) = 1..Len(d.steps) /\ Len(d.steps) \in Int /\ 1 \in Int
    BY LenProperties DEF Definition, Position
  <2>2. QED
    BY <2>1, FS_Interval
<1>2. ASSUME NEW A \in SUBSET Position(d)
      PROVE  /\ Cardinality(A) \in Nat /\ (Cardinality(A) = 0 <=> A = {})
             /\ \A B \in SUBSET A : Cardinality(B) <= Cardinality(A)
             /\ \A i \in Position(d) : Cardinality(A \union {i}) <= Cardinality(A) + 1
  <2>1. IsFiniteSet(A)
    BY <1>1, FS_Subset
  <2>2. Cardinality(A) \in Nat
    BY <2>1, FS_CardinalityType, Zenon
  <2>3. Cardinality(A) = 0 <=> A = {}
    BY <2>1, FS_EmptySet, Zenon
  <2>4. \A B \in SUBSET A : Cardinality(B) <= Cardinality(A)
    BY <2>1, FS_Subset, Zenon
  <2>5. ASSUME NEW i \in Position(d) PROVE Cardinality(A \union {i}) <= Cardinality(A) + 1
    <3>1. Cardinality(A \union {i}) = IF i \in A THEN Cardinality(A) ELSE Cardinality(A) + 1
      BY <2>1, FS_AddElement, Zenon
    <3>2. QED
      BY <2>2, <3>1
  <2>6. QED
    BY <2>2, <2>3, <2>4, <2>5, Zenon
<1>3. QED
  BY <1>2 DEF Countable

\* What the client sends, normalized, is a definition for which the functions of
\* the manager compute what they should (InitializeForCreate, applyConditions,
\* activeStepCount).
THEOREM DefinitionsAreSound ==
  ASSUME NEW e \in Definition
  PROVE  Sound(Normalize(e))
<1>1. PICK d : d = Normalize(e)
  OBVIOUS
<1>2. d \in Definition /\ \A i \in Position(d) : IsInjective(d.steps[i].dependsOn)
  BY <1>1, NormalizedDefinition, Zenon
<1>3. ASSUME ValidDefinition(d) PROVE Resolves(d) /\ Unlocked(d)
  <2>1. Resolves(d)
    BY <1>2, <1>3, ValidDefinitionResolves, Zenon
  <2>2. WellReferenced(d) /\ validateWorkflowDAG(d)
    BY <1>2, <1>3, Zenon DEF WellReferenced, ValidDefinition, validateStep
  <2>3. ASSUME NEW S \in SUBSET Position(d), S # {} PROVE \E i \in S : \A j \in S : ~DependsOn(d, i, j)
    BY <1>2, <2>2, <2>3, SomeStepIsFirst, Zenon
  <2>4. QED
    BY <2>1, <2>3, Zenon DEF Unlocked
<1>4. Conditional(d)
  BY <1>2, ConditionsApplied, Zenon DEF Conditional
<1>5. Countable(d)
  BY <1>2, StepsAreCountable, Zenon
<1>6. LoopsAreOrderly
  <2>1. \A S \in SUBSET Nat : S # {} => \E n \in S : \A x \in S : n <= x
    BY LeastNumber
  <2>2. \A n \in Nat : \A S : Ascending(n, S) \in Seq(1..n)
    BY AscendingLists
  <2>3. QED
    BY <2>1, <2>2 DEF LoopsAreOrderly
<1>7. Sound(d)
  BY <1>2, <1>3, <1>4, <1>5, <1>6, Zenon DEF Sound
<1>8. QED
  BY <1>1, <1>7

-----------------------------------------------------------------------------
(* The promises of the manager.                                            *)

\* Copies, requests and Runs are always in order, whatever is read in two
\* statements, cached, lost with a lease, retried or interrupted by a crash.
THEOREM WorkflowInvariant == Spec => []WorkflowInv
<1>1. ASSUME Init PROVE WorkflowInv
  <2>1. PICK d \in Definitions : def = Normalize(d)
    BY <1>1 DEF Init
  <2>2. d \in Definition
    BY DefinitionsAssumption
  <2>3. Sound(def)
    BY <2>1, <2>2, DefinitionsAreSound, Zenon
  <2>4. QED
    BY <1>1, <2>3, InvariantInit, Zenon
<1>2. WorkflowInv /\ [Next]_vars => WorkflowInv'
  BY InvariantNext
<1>3. QED
  BY <1>1, <1>2, PTL DEF Spec

-----------------------------------------------------------------------------
(* What a client can rely on.                                              *)

\* A step never gets a second Run: the idempotency key of reconcile and
\* CreateRun, for any number of managers.
THEOREM StepsRunOnce == Spec => []OneRunPerStep
<1>1. WorkflowInv => OneRunPerStep
  BY Zenon DEF WorkflowInv
<1>2. QED
  BY <1>1, WorkflowInvariant, PTL

\* A Run exists only once the dependencies of its step are really over
\* (readyStep, resolveInput), however stale the copy was that created it.
THEOREM RunsFollowDependencies == Spec => []StepsFollowDependencies
<1>1. WorkflowInv => StepsFollowDependencies
  BY Zenon DEF WorkflowInv, RunsOK, RunOK, DependenciesOver, Over, StepsFollowDependencies
<1>2. QED
  BY <1>1, WorkflowInvariant, PTL

\* A branch is taken or skipped for the final value of its source
\* (applyConditions).
THEOREM BranchesAreRight == Spec => []BranchesFollowConditions
<1>1. WorkflowInv => BranchesFollowConditions
  BY BranchesHold, Zenon
<1>2. QED
  BY <1>1, WorkflowInvariant, PTL

\* A Run starts with the final outputs of its sources, and its parent is the
\* Run of a dependency (resolveInput).
THEOREM InputsAreRight == Spec => []InputsAreFinalOutputs
<1>1. WorkflowInv => InputsAreFinalOutputs
  BY InputsHold
<1>2. QED
  BY <1>1, WorkflowInvariant, PTL

\* The concurrency of a workflow is kept without a lock: the version of the row
\* that was counted is the version that is written (reconcile, UpdateWorkflow).
THEOREM ConcurrencyIsKept == Spec => []ConcurrencyIsBounded
<1>1. WorkflowInv => ConcurrencyIsBounded
  BY Zenon DEF WorkflowInv
<1>2. QED
  BY <1>1, WorkflowInvariant, PTL

\* A workflow ends for a reason, and succeeds only with every Run
\* (refreshSteps, failWorkflow, CancelWorkflow).
THEOREM OutcomesAreExplained == Spec => []OutcomeIsExplained
<1>1. WorkflowInv => OutcomeIsExplained
  BY OutcomeHolds
<1>2. QED
  BY <1>1, WorkflowInvariant, PTL

\* The traversal of the definition decides exactly whether its steps can be
\* ordered (validateWorkflowDAG).
THEOREM AcceptanceIsExact == Spec => []KahnIsExact
<1>1. ASSUME WorkflowInv PROVE KahnIsExact
  <2>1. SUFFICES ASSUME ReferencesAreChecked
                 PROVE  validateWorkflowDAG(def) <=>
                          \E rank \in [Position(def) -> Position(def)] :
                            \A i, j \in Position(def) : DependsOn(def, i, j) => rank[j] < rank[i]
    BY DEF KahnIsExact
  <2>2. /\ def \in Definition
        /\ \A i \in Position(def) : IsInjective(def.steps[i].dependsOn)
    BY <1>1, DefinitionIsNormal, Zenon DEF WorkflowInv
  <2>3. WellReferenced(def)
    BY <2>1, <2>2, Zenon DEF ReferencesAreChecked, WellReferenced
  <2>4. QED
    BY <2>2, <2>3, TraversalIsExact, Zenon DEF OrdersSteps
<1>2. QED
  BY <1>1, WorkflowInvariant, PTL

\* The manager implements the life cycle of a workflow: each step has at most
\* one Run, after its dependencies and before the end, and the end is final
\* (the version check of UpdateWorkflow).
THEOREM ManagerImplementsLifecycle == Spec => WorkflowSpec
<1>1. Init => Lifecycle!WInit
  BY DEF Init, Lifecycle!WInit, Absent
<1>2. WorkflowInv /\ [Next]_vars =>
        [Lifecycle!WNext]_<<def, wf.status, [i \in DOMAIN wf.steps |-> StepOf(wf.steps[i])]>>
  BY StepsAreAllowed
<1>3. QED
  BY <1>1, <1>2, WorkflowInvariant, PTL DEF Spec, WorkflowSpec, Lifecycle!WSpec
=============================================================================
