------------------------- MODULE WorkflowDefinition -------------------------
(***************************************************************************)
(* Definitions of workflows and their validation, the first half of        *)
(* internal/domain/workflow.go.  A definition is its input and its steps   *)
(* in declaration order.  Texts are taken from a small set in which ""     *)
(* stands for a blank one.                                                 *)
(***************************************************************************)
EXTENDS Integers, Sequences, Functions

CONSTANTS
  KnownAgent,         \* the agents that are registered
  MaxWorkflowSteps    \* bound on the steps of a workflow

ASSUME MaxWorkflowStepsAssumption == MaxWorkflowSteps \in Nat \ {0}

\* A blank text is a text.
ASSUME BlankAssumption == "" \in STRING

WorkflowInput == "workflow"      \* the reference to the input of the workflow
NoCondition == [source |-> "", operator |-> "", value |-> ""]
Operator == {"equals", "not-equals", "contains", "not-contains"}

StepDefinition ==
  [id : STRING, agent : STRING, dependsOn : Seq(STRING), input : STRING, inputFrom : Seq(STRING),
   aggregation : STRING, condition : [source : STRING, operator : STRING, value : STRING]]

Definition == [input : STRING, steps : Seq(StepDefinition)]

Position(d) == 1..Len(d.steps)
PositionOf(d, id) == CHOOSE i \in Position(d) : d.steps[i].id = id

\* The numbers of S up to n, in ascending order.
Ascending(n, S) ==
  LET upTo[k \in 0..n] ==
        IF k = 0 THEN <<>>
        ELSE IF k \in S THEN Append(upTo[k - 1], k) ELSE upTo[k - 1]
  IN upTo[n]

\* References to steps lose blanks and repetitions, and keep their order.
normalizeWorkflowRefs(refs) ==
  LET kept == Ascending(Len(refs), {k \in DOMAIN refs :
                                      refs[k] # "" /\ \A j \in 1..(k - 1) : refs[j] # refs[k]})
  IN [n \in DOMAIN kept |-> refs[kept[n]]]

NormalizeStep(s) ==
  [s EXCEPT !.dependsOn = normalizeWorkflowRefs(@), !.inputFrom = normalizeWorkflowRefs(@)]

Normalize(d) == [d EXCEPT !.steps = [i \in DOMAIN @ |-> NormalizeStep(@[i])]]

ValidDependencies(d, s) ==
  \A ref \in Range(s.dependsOn) : ref # s.id /\ \E t \in Range(d.steps) : t.id = ref

ValidCondition(s) ==
  \/ s.condition = NoCondition
  \/ /\ s.condition.source \in Range(s.dependsOn) \union {WorkflowInput}
     /\ s.condition.operator \in Operator

\* Either a literal input, or sources that will be finished when the step runs.
ValidInput(d, s) ==
  \/ /\ s.inputFrom = <<>>
     /\ s.input # ""
     /\ s.aggregation = ""
  \/ /\ s.inputFrom # <<>>
     /\ s.input = ""
     /\ \A ref \in Range(s.inputFrom) :
          IF ref = WorkflowInput THEN d.input # "" ELSE ref \in Range(s.dependsOn)
     /\ IF Len(s.inputFrom) = 1
        THEN s.aggregation \in {"", "single"}
        ELSE s.aggregation = "json-array"

validateStep(d, s) == ValidDependencies(d, s) /\ ValidCondition(s) /\ ValidInput(d, s)

-----------------------------------------------------------------------------
(* Kahn's traversal: steps without open dependencies are taken from a      *)
(* queue, which frees their dependents.                                    *)

DependsOn(d, i, j) == d.steps[j].id \in Range(d.steps[i].dependsOn)

KahnStart(d) ==
  LET indegree == [i \in Position(d) |-> Len(d.steps[i].dependsOn)]
  IN [indegree |-> indegree,
      queue |-> Ascending(Len(d.steps), {i \in Position(d) : indegree[i] = 0}),
      visited |-> 0]

KahnVisit(d, k) ==
  LET current == Head(k.queue)
      after == [i \in Position(d) |->
                  IF DependsOn(d, i, current) THEN k.indegree[i] - 1 ELSE k.indegree[i]]
      freed == Ascending(Len(d.steps),
                         {i \in Position(d) : after[i] = 0 /\ DependsOn(d, i, current)})
  IN [indegree |-> after, queue |-> Tail(k.queue) \o freed, visited |-> k.visited + 1]

\* A plausible slip: one step to begin with is taken for the absence of cycles.
SomeStepIsFree(d) == KahnStart(d).queue # <<>>

\* A step enters the queue at most once, so as many rounds as steps empty it.
validateWorkflowDAG(d) ==
  LET kahn[n \in 0..Len(d.steps)] ==
        IF n = 0 THEN KahnStart(d)
        ELSE IF kahn[n - 1].queue = <<>> THEN kahn[n - 1]
        ELSE KahnVisit(d, kahn[n - 1])
  IN kahn[Len(d.steps)].visited = Len(d.steps)

\* d is normalized.
ValidDefinition(d) ==
  /\ Len(d.steps) \in 1..MaxWorkflowSteps
  /\ \A i \in Position(d) : d.steps[i].id # "" /\ d.steps[i].agent # ""
  /\ \A i, j \in Position(d) : d.steps[i].id = d.steps[j].id => i = j
  /\ \A i \in Position(d) : validateStep(d, d.steps[i])
  /\ validateWorkflowDAG(d)

\* The handler validates the definition and then looks the agents up.
Accepted(d) ==
  /\ ValidDefinition(d)
  /\ \A i \in Position(d) : d.steps[i].agent \in KnownAgent
=============================================================================
