------------------------- MODULE WorkflowFunctions -------------------------
(***************************************************************************)
(* What the functions of internal/domain/workflow.go and of                *)
(* internal/workflow/manager.go promise about a definition.                *)
(* WorkflowProofs shows that they keep these promises, and                 *)
(* WorkflowManagerProofs relies on them and not on how they are kept.      *)
(***************************************************************************)
EXTENDS WorkflowSteps

\* What InitializeForCreate has checked of the references when it comes to the
\* traversal.
WellReferenced(d) ==
  /\ \A i, j \in Position(d) : d.steps[i].id = d.steps[j].id => i = j
  /\ \A i \in Position(d) : ValidDependencies(d, d.steps[i]) /\ IsInjective(d.steps[i].dependsOn)

\* The references of a definition are references to its steps.
Resolves(d) ==
  \A i \in Position(d) :
    /\ \A ref \in Range(d.steps[i].dependsOn) : PositionOf(d, ref) \in Position(d)
    /\ ValidCondition(d.steps[i])

Fits(d, c) == c \in Copy /\ Len(c.steps) = Len(d.steps)

\* The condition of step i is false for what copy c has of its source.
SkipsNow(d, c, i) ==
  /\ c.steps[i].status = "pending"
  /\ d.steps[i].condition # NoCondition
  /\ DependenciesDone(d, c, i)
  /\ ~evaluateCondition(ValueOf(d, c, d.steps[i].condition.source), d.steps[i].condition)

Skip(s) == [s EXCEPT !.status = "skipped"]

\* Copy a differs from copy c by the skip of step i, which a itself justifies:
\* the condition is false, and dependencies that a skips come before.
SkippedSince(d, c, a, i) ==
  /\ c.steps[i].status = "pending"
  /\ a.steps[i] = Skip(c.steps[i])
  /\ d.steps[i].condition # NoCondition
  /\ ~evaluateCondition(ValueOf(d, a, d.steps[i].condition.source), d.steps[i].condition)
  /\ \A ref \in Range(d.steps[i].dependsOn) :
       /\ a.steps[PositionOf(d, ref)].status \in DoneStep
       /\ a.steps[PositionOf(d, ref)] # c.steps[PositionOf(d, ref)] => PositionOf(d, ref) < i

\* What applyConditions has made of c after the steps up to k.
AppliedUpTo(d, c, a, k) ==
  /\ Fits(d, a) /\ a.status = c.status /\ a.version = c.version
  /\ \A i \in Position(d) :
       /\ a.steps[i] = c.steps[i] \/ (i <= k /\ SkippedSince(d, c, a, i))
       /\ i <= k /\ SkipsNow(d, c, i) => a.steps[i].status = "skipped"

-----------------------------------------------------------------------------
(* The promises.                                                           *)

\* Loops over positions start with the least one and list them in order.
LoopsAreOrderly ==
  /\ \A S \in SUBSET Nat : S # {} => \E n \in S : \A x \in S : n <= x
  /\ \A n \in Nat : \A S : Ascending(n, S) \in Seq(1..n)

\* No dependency of the steps of an accepted definition closes a cycle.
Unlocked(d) ==
  \A S \in SUBSET Position(d) : S # {} => \E i \in S : \A j \in S : ~DependsOn(d, i, j)

\* Steps can be counted (activeStepCount).
Countable(d) ==
  \A A \in SUBSET Position(d) :
    /\ Cardinality(A) \in Nat
    /\ Cardinality(A) = 0 <=> A = {}
    /\ \A B \in SUBSET A : Cardinality(B) <= Cardinality(A)
    /\ \A i \in Position(d) : Cardinality(A \union {i}) <= Cardinality(A) + 1

\* Conditions are applied in one pass (applyConditions).
Conditional(d) ==
  Resolves(d) => \A c : Fits(d, c) => AppliedUpTo(d, c, applyConditions(d, c), Len(d.steps))

\* All that the manager relies on when it has definition d.
Sound(d) ==
  /\ d \in Definition
  /\ \A i \in Position(d) : IsInjective(d.steps[i].dependsOn)
  /\ ValidDefinition(d) => Resolves(d) /\ Unlocked(d)
  /\ Conditional(d)
  /\ Countable(d)
  /\ LoopsAreOrderly

=============================================================================
