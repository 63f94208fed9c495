------------------------- MODULE WorkflowProperties -------------------------
(***************************************************************************)
(* What the workflows of AgentMesh promise, stated over WorkflowManager.   *)
(***************************************************************************)
EXTENDS WorkflowManager

StepOf(s) ==
  CASE s.status = "pending" -> "waiting"
    [] s.status \in ActiveStep \union {"succeeded"} -> "assigned"
    [] s.status = "skipped" -> "skipped"
    [] s.status \in {"failed", "canceled"} -> "lost"

Lifecycle == INSTANCE WorkflowLifecycle WITH
  status <- wf.status,
  step <- [i \in DOMAIN wf.steps |-> StepOf(wf.steps[i])]

\* The manager implements the life cycle, whatever is read in two statements,
\* cached, lost with a lease or interrupted by a crash: no step gets a Run out
\* of order or after the end, and an end is never taken back (the version
\* check of UpdateWorkflow, reconcile, StartWorkflow and CancelWorkflow).
WorkflowSpec == Lifecycle!WSpec

\* What InitializeForCreate checks before the traversal.
ReferencesAreChecked ==
  /\ \A i, j \in Position(def) : def.steps[i].id = def.steps[j].id => i = j
  /\ \A i \in Position(def) : ValidDependencies(def, def.steps[i])

\* Kahn's traversal accepts a definition whose references are references to its
\* steps exactly if the steps can be put in an order in which each comes after
\* its dependencies (validateWorkflowDAG).
KahnIsExact ==
  ReferencesAreChecked =>
    (validateWorkflowDAG(def) <=>
       \E rank \in [Position(def) -> Position(def)] :
         \A i, j \in Position(def) : DependsOn(def, i, j) => rank[j] < rank[i])

-----------------------------------------------------------------------------
(* What the Runs say, whatever copies the managers have.                   *)

SkippedIn(i) == wf.steps[i].status = "skipped"

\* The last word on what a reference stands for.
FinalValue(ref) ==
  IF ref = WorkflowInput THEN def.input
  ELSE LET i == PositionOf(def, ref)
       IN IF SkippedIn(i) THEN "" ELSE runs[Min(RunOfStep(i))].output

\* A Run exists only if every dependency of its step is skipped or has a Run
\* that really succeeded; a stale read of a Run or of the steps never lets a
\* step start early (readyStep, resolveInput).
StepsFollowDependencies ==
  \A r \in DOMAIN runs : \A ref \in Range(def.steps[runs[r].step].dependsOn) :
    LET i == PositionOf(def, ref)
    IN SkippedIn(i) \/ \E s \in RunOfStep(i) : runs[s].status = "succeeded"

\* Two managers, a retry after a conflict or a recovery never create a second
\* Run for a step (the idempotency key in reconcile and CreateRun).
OneRunPerStep == \A r, s \in DOMAIN runs : runs[r].step = runs[s].step => r = s

\* A step with a condition has a Run only if the condition holds for the final
\* output of its source, and is skipped only if it does not (applyConditions).
BranchesFollowConditions ==
  \A i \in DOMAIN wf.steps :
    LET condition == def.steps[i].condition
    IN condition # NoCondition =>
         /\ RunOfStep(i) # {} => evaluateCondition(FinalValue(condition.source), condition)
         /\ SkippedIn(i) => ~evaluateCondition(FinalValue(condition.source), condition)

\* The input of a Run is made of the final outputs of its sources, in their
\* order, and its parent is the Run of a dependency (resolveInput).
InputsAreFinalOutputs ==
  \A r \in DOMAIN runs :
    LET s == def.steps[runs[r].step]
    IN /\ runs[r].input = IF s.inputFrom = <<>> THEN <<s.input>>
                          ELSE [k \in DOMAIN s.inputFrom |-> FinalValue(s.inputFrom[k])]
       /\ runs[r].parent # 0 => \E ref \in Range(s.dependsOn) :
                                  runs[r].parent \in RunOfStep(PositionOf(def, ref))

\* No more steps have a Run that is active than the configured concurrency, also
\* when the owner of the lease changes or a copy is out of date (activeStepCount
\* in reconcile, the version check of UpdateWorkflow).
ConcurrencyIsBounded ==
  Cardinality({i \in DOMAIN wf.steps : /\ wf.steps[i].run # 0
                                       /\ runs[wf.steps[i].run].status \in ActiveRun})
    <= Concurrency

\* The status of a finished workflow is what happened: it succeeded only with
\* every Run succeeded and its output kept, failed only after a Run or a call to
\* the store failed, and was canceled only by the request or by the
\* cancellation of a Run (refreshSteps, failWorkflow, CancelWorkflow).
OutcomeIsExplained ==
  /\ wf.status = "succeeded" =>
       \A i \in DOMAIN wf.steps :
         SkippedIn(i) \/ \E r \in RunOfStep(i) : /\ runs[r].status = "succeeded"
                                                 /\ runs[r].output = wf.steps[i].output
  /\ wf.status = "failed" =>
       \/ "call" \in FaultKinds /\ faults > 0
       \/ \E r \in DOMAIN runs : runs[r].status = "failed"
  /\ wf.status = "canceled" =>
       \/ "cancel" \in Kind /\ req["cancel"].pc # "none"
       \/ \E r \in DOMAIN runs : runs[r].status = "canceled"

\* A started workflow ends, also when the process that reconciles it crashes
\* and is restarted (engine.Recover and Manager.Recover, in this order).
StartedWorkflowFinishes == wf.status = "running" ~> IsTerminal(wf)

-----------------------------------------------------------------------------
(* What the documentation says and the code does not keep.                 *)

\* docs/api.md:327: the events include one terminal event.
OneEndIsAnnounced == Cardinality(events \intersect FinishedWorkflow) <= 1
=============================================================================
