---------------------------- MODULE WorkflowSteps ----------------------------
(***************************************************************************)
(* What internal/workflow/manager.go computes on its copy of a workflow:   *)
(* the functions that look at a copy, or change it, before it is written.  *)
(* A copy is the status, the version and the steps of the workflow, a step *)
(* its status, its Run (0: none) and its output.                           *)
(***************************************************************************)
EXTENDS WorkflowDefinition, FiniteSets, FiniteSetsExt

FinishedWorkflow == {"succeeded", "failed", "canceled"}
ActiveStep == {"queued", "running"}
DoneStep == {"succeeded", "skipped"}

IsTerminal(c) == c.status \in FinishedWorkflow

WorkflowStatus == {"absent", "pending", "running"} \union FinishedWorkflow
StepStatus == {"pending", "failed", "canceled"} \union ActiveStep \union DoneStep

Step == [status : StepStatus, run : Nat, output : STRING]
Copy == [status : WorkflowStatus, version : Nat, steps : Seq(Step)]

NewStep == [status |-> "pending", run |-> 0, output |-> ""]

InitializeForCreate(d) ==
  [status |-> "pending", version |-> 1, steps |-> [i \in Position(d) |-> NewStep]]

\* Every unfinished step ends with the workflow.
cancelNonterminalSteps(steps) ==
  [i \in DOMAIN steps |->
     IF steps[i].status \in {"pending"} \union ActiveStep
     THEN [steps[i] EXCEPT !.status = "canceled"] ELSE steps[i]]

\* The Runs of the steps at the positions in S, in declaration order.
RunsOf(steps, S) ==
  LET chosen == Ascending(Len(steps), S)
  IN [j \in DOMAIN chosen |-> steps[chosen[j]].run]

-----------------------------------------------------------------------------
(* A step takes over what its Run says.                                    *)

\* A plausible slip: a Run that has started counts as done.
RefreshedEarly(step, x) ==
  [step EXCEPT !.status = IF x.status = "running" THEN "succeeded" ELSE x.status,
               !.output = x.output]

\* x is the Run of the step, as GetRun returns it.
Refreshed(step, x) ==
  [step EXCEPT !.status = x.status,
               !.output = IF x.status = "succeeded" THEN x.output
                          ELSE IF x.status \in ActiveStep THEN @ ELSE ""]

-----------------------------------------------------------------------------
(* Conditions.                                                             *)

\* Texts have at most one letter, so one contains another if they are equal
\* or the other is empty.
TextContains(actual, value) == value \in {"", actual}

evaluateCondition(actual, condition) ==
  CASE condition.operator = "equals" -> actual = condition.value
    [] condition.operator = "not-equals" -> actual # condition.value
    [] condition.operator = "contains" -> TextContains(actual, condition.value)
    [] condition.operator = "not-contains" -> ~TextContains(actual, condition.value)

DependenciesDone(d, c, i) ==
  \A ref \in Range(d.steps[i].dependsOn) : c.steps[PositionOf(d, ref)].status \in DoneStep

\* What a reference to the workflow or to a step stands for; a skipped step
\* has an empty output.
ValueOf(d, c, ref) ==
  IF ref = WorkflowInput THEN d.input ELSE c.steps[PositionOf(d, ref)].output

\* A plausible slip: the conditions are left to the steps' dependencies.
ApplyNoCondition(d, c, i) == c

ApplyCondition(d, c, i) ==
  LET condition == d.steps[i].condition
  IN IF /\ c.steps[i].status = "pending"
        /\ condition # NoCondition
        /\ DependenciesDone(d, c, i)
        /\ ~evaluateCondition(ValueOf(d, c, condition.source), condition)
     THEN [c EXCEPT !.steps[i].status = "skipped"]
     ELSE c

\* One pass in declaration order: a step skipped early in the pass counts as
\* done for those after it.
applyConditions(d, c) ==
  LET pass[n \in 0..Len(d.steps)] ==
        IF n = 0 THEN c ELSE ApplyCondition(d, pass[n - 1], n)
  IN pass[Len(d.steps)]

-----------------------------------------------------------------------------
(* The next step to start, and what it starts with.                        *)

\* A plausible slip: a step whose Run waits in the queue does not count.
RunningStepCount(c) == Cardinality({i \in DOMAIN c.steps : c.steps[i].status = "running"})

activeStepCount(c) == Cardinality({i \in DOMAIN c.steps : c.steps[i].status \in ActiveStep})

ReadySteps(d, c) ==
  {i \in Position(d) : c.steps[i].status = "pending" /\ DependenciesDone(d, c, i)}

readyStep(d, c) == Min(ReadySteps(d, c))

\* The first declared dependency that has a Run is the parent.
ParentRun(d, c, i) ==
  LET dependsOn == d.steps[i].dependsOn
      withRun == {k \in DOMAIN dependsOn : c.steps[PositionOf(d, dependsOn[k])].run # 0}
  IN IF withRun = {} THEN 0 ELSE c.steps[PositionOf(d, dependsOn[Min(withRun)])].run

InputIsComplete(d, c, i) ==
  /\ DependenciesDone(d, c, i)
  /\ \A ref \in Range(d.steps[i].inputFrom) :
       ref # WorkflowInput => c.steps[PositionOf(d, ref)].status \in DoneStep

\* A plausible slip: the dependencies stand for the sources.
InputOfDependencies(d, c, i) ==
  LET s == d.steps[i]
  IN IF s.inputFrom = <<>> THEN <<s.input>>
     ELSE [k \in DOMAIN s.dependsOn |-> ValueOf(d, c, s.dependsOn[k])]

\* One source gives its value, several an array in the order of the sources.
ResolvedInput(d, c, i) ==
  LET s == d.steps[i]
  IN IF s.inputFrom = <<>> THEN <<s.input>>
     ELSE [k \in DOMAIN s.inputFrom |-> ValueOf(d, c, s.inputFrom[k])]
=============================================================================
