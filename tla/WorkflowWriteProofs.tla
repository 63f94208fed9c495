------------------------ MODULE WorkflowWriteProofs -------------------------
(***************************************************************************)
(* Why the steps that create a Run or write the rows of the workflow keep  *)
(* the invariant of WorkflowManagerProofs, and why the rows move only as   *)
(* the life cycle of a workflow allows.                                    *)
(***************************************************************************)
EXTENDS WorkflowManagerProofs

-----------------------------------------------------------------------------
(* A Run is created.                                                       *)

\* The parent of a Run is the Run of a dependency (resolveInput).
LEMMA ParentIsDependency ==
  ASSUME WorkflowTypes, WorkflowOK, Exists, NEW c, CopyOK(c), NEW i \in Position(def)
  PROVE  ParentRun(def, c, i) \in Nat /\ ParentOK(i, ParentRun(def, c, i))
<1>1. /\ def \in Definition /\ Resolves(def)
      /\ \A j \in Position(def) : c.steps[j] \in Step
  BY DefinitionIsNormal, AcceptedResolves, CopyHasSteps, Zenon DEF CopyOK
<1>2. PICK dependsOn, withRun :
        /\ dependsOn = def.steps[i].dependsOn
        /\ withRun = {k \in DOMAIN dependsOn : c.steps[PositionOf(def, dependsOn[k])].run # 0}
  BY Zenon
<1>3. ParentRun(def, c, i) =
        IF withRun = {} THEN 0 ELSE c.steps[PositionOf(def, dependsOn[Min(withRun)])].run
  BY <1>2, Zenon DEF ParentRun
<1>4. CASE withRun = {}
  BY <1>3, <1>4 DEF ParentOK
<1>5. CASE withRun # {}
  <2>1. dependsOn \in Seq(STRING)
    <3>1. def.steps[i] \in StepDefinition
      BY <1>1, ElementIsTyped, Zenon DEF Definition, Position
    <3>2. QED
      BY <1>2, <3>1, ZenonT(30) DEF StepDefinition
  <2>2. withRun \in SUBSET Nat
    BY <1>2, <2>1, SequenceIsTyped
  <2>3. PICK k \in withRun : k = Min(withRun)
    BY <1>5, <2>2, MinIsLeast, Zenon
  <2>4. PICK ref : ref = dependsOn[k] /\ ref \in Range(def.steps[i].dependsOn)
    BY <1>2, <2>3, Zenon DEF Range
  <2>5. PICK j \in Position(def) : j = PositionOf(def, ref)
    BY <1>1, <2>4, Zenon DEF Resolves
  <2>6. PICK p : p = c.steps[j].run
    BY Zenon
  <2>7. p # 0 /\ ParentRun(def, c, i) = p
    BY <1>2, <1>3, <1>5, <2>3, <2>4, <2>5, <2>6, Zenon
  <2>8. p \in RunOfStep(j) /\ p \in Nat
    <3>1. StepOK(c.steps[j], j) /\ c.steps[j] \in Step
      BY <1>1 DEF CopyOK
    <3>2. p \in RunOfStep(j)
      BY <2>6, <2>7, <3>1, Zenon DEF StepOK, RunOfStep
    <3>3. p \in Nat
      BY <2>6, <3>1 DEF Step
    <3>4. QED
      BY <3>2, <3>3
  <2>9. QED
    BY <2>4, <2>5, <2>7, <2>8 DEF ParentOK
<1>6. QED
  BY <1>4, <1>5

\* The input of a Run is made of final outputs (resolveInput).
LEMMA InputIsFinal ==
  ASSUME Core, Exists, NEW c, SoundCopy(c), NEW i \in Position(def), InputIsComplete(def, c, i)
  PROVE  ResolvedInput(def, c, i) \in Seq(STRING) /\ ResolvedInput(def, c, i) = FinalInput(i)
<1>1. /\ def \in Definition /\ Resolves(def) /\ ValidDefinition(def)
      /\ \A j \in Position(def) : c.steps[j] \in Step
  BY DefinitionIsNormal, AcceptedResolves, CopyHasSteps, Zenon DEF CopyOK, SoundCopy, Core
<1>2. PICK s : s = def.steps[i]
  OBVIOUS
<1>3. s \in StepDefinition
  BY <1>1, <1>2, ElementIsTyped, Zenon DEF Definition, Position
<1>4. s.input \in STRING /\ s.inputFrom \in Seq(STRING) /\ def.input \in STRING
  BY <1>1, <1>3 DEF StepDefinition, Definition
<1>5. CASE s.inputFrom = <<>>
  BY <1>2, <1>4, <1>5 DEF ResolvedInput, FinalInput
<1>6. CASE s.inputFrom # <<>>
  <2>1. ASSUME NEW k \in DOMAIN s.inputFrom
        PROVE  /\ ValueOf(def, c, s.inputFrom[k]) \in STRING
               /\ ValueOf(def, c, s.inputFrom[k]) = FinalValue(s.inputFrom[k])
    <3>1. PICK ref : ref = s.inputFrom[k] /\ ref \in Range(s.inputFrom)
      BY ZenonT(30) DEF Range
    <3>2. ref # WorkflowInput =>
            /\ PositionOf(def, ref) \in Position(def)
            /\ c.steps[PositionOf(def, ref)].status \in DoneStep
      <4>1. ref # WorkflowInput => ref \in Range(s.dependsOn)
        BY <1>1, <1>2, <1>6, <3>1, Zenon DEF ValidDefinition, validateStep, ValidInput
      <4>2. QED
        BY <1>1, <1>2, <3>1, <4>1, Zenon DEF Resolves, InputIsComplete
    <3>3. ValueOf(def, c, ref) = FinalValue(ref)
      BY <3>2, ValuesAreFinal
    <3>4. ValueOf(def, c, ref) \in STRING
      BY <1>1, <1>4, <3>2, ZenonT(30) DEF ValueOf, Step
    <3>5. QED
      BY <3>1, <3>3, <3>4
  <2>2. ResolvedInput(def, c, i) = [k \in DOMAIN s.inputFrom |-> ValueOf(def, c, s.inputFrom[k])]
    BY <1>2, <1>6 DEF ResolvedInput
  <2>3. FinalInput(i) = [k \in DOMAIN s.inputFrom |-> FinalValue(s.inputFrom[k])]
    BY <1>2, <1>6 DEF FinalInput
  <2>4. ResolvedInput(def, c, i) = FinalInput(i)
    BY <2>1, <2>2, <2>3
  <2>5. Len(s.inputFrom) \in Nat /\ DOMAIN s.inputFrom = 1..Len(s.inputFrom)
    BY <1>4, SequenceIsTyped
  <2>6. QED
    BY <2>1, <2>2, <2>4, <2>5
<1>7. QED
  BY <1>5, <1>6, ZenonT(30)

\* The Run that a manager creates for a ready step is right (reconcile).
LEMMA NewRunIsRight ==
  ASSUME WorkflowInv, Started, NEW c, CopyOK(c), CurrentCopy(c), NEW i, ReadyIn(c, i)
  PROVE  /\ RunOK(i, ResolvedInput(def, c, i), ParentRun(def, c, i))
         /\ ResolvedInput(def, c, i) \in Seq(STRING) /\ ParentRun(def, c, i) \in Nat
         /\ ~SkippedIn(i)
<1>1. Core /\ Exists /\ SkipsOK /\ WorkflowTypes /\ WorkflowOK
  BY DEF WorkflowInv, Core, Started, Exists
<1>2. SoundCopy(c) /\ i \in Position(def) /\ InputIsComplete(def, c, i)
  BY ZenonT(30) DEF SoundCopy, CurrentCopy, ReadyIn
<1>3. DependenciesOver(i) /\ ConditionHolds(i)
  BY <1>1, <1>2, DependenciesAreFinal, Zenon DEF InputIsComplete, ReadyIn, ConditionHolds
<1>4. ResolvedInput(def, c, i) \in Seq(STRING) /\ ResolvedInput(def, c, i) = FinalInput(i)
  BY <1>1, <1>2, InputIsFinal
<1>5. ParentRun(def, c, i) \in Nat /\ ParentOK(i, ParentRun(def, c, i))
  BY <1>1, <1>2, ParentIsDependency
<1>6. ~SkippedIn(i)
  BY <1>1, <1>2, <1>3, AcceptedResolves, Zenon DEF SkipsOK, ConditionFails, ConditionHolds
<1>7. QED
  BY <1>2, <1>3, <1>4, <1>5, <1>6 DEF RunOK

\* A Run is inserted for a step that has none (CreateRun).
LEMMA RunIsInserted ==
  ASSUME WorkflowInv, Started, UNCHANGED <<def, wf, req>>, faults' >= faults, WorkflowTypes',
         NEW x \in Run, x.status = "queued", RunOfStep(x.step) = {}, runs' = Append(runs, x),
         ~SkippedIn(x.step), RunOK(x.step, x.input, x.parent)
  PROVE  Evolves /\ DataOK' /\ RunOfStep(x.step)' # {}
<1>1. /\ WorkflowTypes /\ DataOK /\ Core /\ Exists /\ faults \in Nat /\ faults' \in Nat
      /\ runs \in Seq(Run) /\ DOMAIN runs = 1..Len(runs) /\ Len(runs) \in Nat
  BY InvariantParts, RunIsTyped, Zenon DEF WorkflowTypes, Core, DataOK, Started, Exists
<1>2. PICK n : n = Len(runs) + 1
  OBVIOUS
<1>3. /\ n \in Nat /\ n \notin DOMAIN runs /\ DOMAIN runs' = DOMAIN runs \union {n} /\ runs'[n] = x
      /\ \A r \in DOMAIN runs : runs'[r] = runs[r]
  BY <1>1, <1>2, SequenceIsExtended, SMTT(30)
<1>4. \A kind \in FaultKinds : Faulty(kind) => Faulty(kind)'
  BY <1>1 DEF Faulty
<1>5. Evolves
  BY <1>3, <1>4 DEF Evolves, Exists, Started, SkippedIn, CancelRequested
<1>6. \A r \in DOMAIN runs : runs[r].step # x.step
  BY DEF RunOfStep
<1>7. OneRunPerStep'
  <2>1. OneRunPerStep
    BY <1>1 DEF DataOK
  <2>2. QED
    BY <1>3, <1>6, <2>1 DEF OneRunPerStep
<1>8. SkippedHasNoRun'
  <2>1. ASSUME NEW j \in DOMAIN wf.steps, SkippedIn(j) PROVE RunOfStep(j)' = {}
    <3>1. RunOfStep(j) = {} /\ j # x.step
      BY <1>1, <2>1 DEF DataOK, SkippedHasNoRun
    <3>2. QED
      BY <1>3, <3>1 DEF RunOfStep
  <2>2. QED
    BY <2>1 DEF SkippedHasNoRun, SkippedIn
<1>9. RunsOK' /\ SkipsOK'
  <2>1. PICK i, input, parent : i = x.step /\ input = x.input /\ parent = x.parent
    OBVIOUS
  <2>2. RunOK(i, input, parent)'
    BY <1>1, <1>5, <1>7, <1>8, <2>1, RunStaysOK
  <2>3. \A r \in DOMAIN runs' \ DOMAIN runs : RunOK(runs[r].step, runs[r].input, runs[r].parent)'
    BY <1>3, <2>1, <2>2
  <2>4. QED
    BY <1>5, <1>7, <1>8, <2>3, RunsAndSkipsStay DEF SkippedIn
<1>10. WorkflowOK'
  <2>1. CopyOK(wf) => CopyOK(wf)'
    <3>1. PICK c : c = wf
      OBVIOUS
    <3>2. CopyOK(c) => CopyOK(c)'
      BY <1>5, CopyStaysOK
    <3>3. QED
      BY <3>1, <3>2
  <2>2. \A status : SomeRun(status) => SomeRun(status)'
    BY <1>3, Zenon DEF SomeRun
  <2>3. Faulty("call") => Faulty("call")'
    BY <1>4 DEF Faulty
  <2>4. QED
    BY <1>1, <2>1, <2>2, <2>3, Zenon DEF DataOK, WorkflowOK, Exists, CancelRequested
<1>11. ConcurrencyIsBounded'
  BY <1>5, BusyStays
<1>12. RunOfStep(x.step)' # {}
  BY <1>3 DEF RunOfStep
<1>13. QED
  BY <1>5, <1>7, <1>8, <1>9, <1>10, <1>11, <1>12, SMTT(30) DEF DataOK

\* The manager creates the Run of the ready step, or finds it, and goes on;
\* after an error it gives up (CreateStepRun).
LEMMA CreateStep ==
  ASSUME WorkflowInv, NEW m \in Manager, CreateStepRun(m)
  PROVE  WorkflowInv'
<1>1. /\ WorkflowTypes /\ WorkflowOK /\ faults \in Nat /\ mgr[m] \in Local /\ LocalOK(mgr[m])
      /\ Started /\ mgr[m].pc = "create" /\ mgr \in [Manager -> Local]
  BY ManagerIsOK, ZenonT(30) DEF CreateStepRun, At, WorkflowTypes
<1>2. PICK l, c, i : l = mgr[m] /\ c = l.cand /\ i = l.pick
  OBVIOUS
<1>3. /\ l \in Local /\ LocalOK(l) /\ CopyOK(c) /\ CurrentCopy(c) /\ ReadyIn(c, i) /\ i \in Nat
  BY <1>1, <1>2, Zenon DEF LocalOK, Local
<1>4. PICK input, parent : input = ResolvedInput(def, c, i) /\ parent = ParentRun(def, c, i)
  OBVIOUS
<1>5. RunOK(i, input, parent) /\ input \in Seq(STRING) /\ parent \in Nat /\ ~SkippedIn(i)
  BY <1>1, <1>3, <1>4, NewRunIsRight
<1>6. PICK x : x = [step |-> i, status |-> "queued", output |-> "", enqueued |-> FALSE,
                    parent |-> parent, input |-> input]
  BY Zenon
<1>7. x \in Run /\ x.step = i /\ x.status = "queued" /\ x.input = input /\ x.parent = parent
  <2>1. ASSUME NEW status \in RunStatus, NEW blank \in STRING
        PROVE  [step |-> i, status |-> status, output |-> blank, enqueued |-> FALSE,
                parent |-> parent, input |-> input] \in Run
    BY <1>3, <1>5 DEF Run
  <2>2. "queued" \in RunStatus
    BY DEF RunStatus, ActiveRun
  <2>3. x \in Run
    BY <1>6, <2>1, <2>2, BlankAssumption, Zenon
  <2>4. QED
    BY <1>6, <2>3, Zenon
<1>8. /\ UNCHANGED <<def, wf, req>>
      /\ \/ CreateRun(i, x) /\ Goto(m, "assign") /\ UNCHANGED faults
         \/ (CreateRun(i, x) \/ UNCHANGED <<runs, older>>) /\ Goto(m, "fail") /\ Fault("call")
  BY <1>2, <1>4, <1>6, Zenon DEF CreateStepRun
<1>9. PICK pc \in {"assign", "fail"} :
        /\ Goto(m, pc)
        /\ pc = "assign" => CreateRun(i, x) /\ UNCHANGED faults
        /\ pc = "fail" => (CreateRun(i, x) \/ UNCHANGED <<runs, older>>) /\ Fault("call")
  BY <1>8
<1>10. PICK y : y = [l EXCEPT !.pc = pc]
  BY Zenon
<1>11. y \in Local /\ y.pc = pc /\ y.cand = c /\ y.pick = i /\ mgr' = [mgr EXCEPT ![m] = y]
  BY <1>2, <1>3, <1>9, <1>10, Zenon DEF Local, Pc, Goto, Become
<1>12. faults' \in Nat /\ faults' >= faults /\ (pc = "fail" => Faulty("call")')
  BY <1>1, <1>9 DEF Fault, Faulty
<1>13. \/ UNCHANGED <<runs, older>> /\ (pc = "assign" => RunOfStep(i) # {})
       \/ RunOfStep(i) = {} /\ runs' = Append(runs, x) /\ older' = Append(older, None)
  BY <1>9 DEF CreateRun, InsertRun
<1>14. runs' \in Seq(Run) /\ older' \in Seq(ActiveRun \union {None}) /\ Len(older') = Len(runs')
  <2>1. runs \in Seq(Run) /\ older \in Seq(ActiveRun \union {None}) /\ Len(older) = Len(runs)
    BY <1>1 DEF WorkflowTypes
  <2>2. Append(runs, x) \in Seq(Run) /\ Len(Append(runs, x)) = Len(runs) + 1
    BY <1>7, <2>1, SequenceIsExtended
  <2>3. /\ Append(older, None) \in Seq(ActiveRun \union {None})
        /\ Len(Append(older, None)) = Len(older) + 1
    BY <2>1, SequenceIsExtended
  <2>4. QED
    BY <1>13, <2>1, <2>2, <2>3, Zenon
<1>15. WorkflowTypes'
  BY <1>1, <1>8, <1>11, <1>12, <1>14 DEF WorkflowTypes
<1>16. Evolves /\ DataOK' /\ (pc = "assign" => RunOfStep(i)' # {})
  <2>1. CASE UNCHANGED <<runs, older>> /\ (pc = "assign" => RunOfStep(i) # {})
    <3>1. Evolves /\ DataOK'
      BY <1>8, <1>12, <1>15, <2>1, DataUntouched DEF CancelRequested
    <3>2. QED
      BY <2>1, <3>1 DEF RunOfStep
  <2>2. CASE RunOfStep(i) = {} /\ runs' = Append(runs, x)
    BY <1>1, <1>5, <1>7, <1>8, <1>12, <1>15, <2>2, RunIsInserted, Zenon
  <2>3. QED
    BY <1>13, <2>1, <2>2
<1>17. LocalOK(l)'
  BY <1>1, <1>3, <1>15, <1>16, LocalStaysOK, Zenon
<1>18. LocalOK(y)'
  BY <1>1, <1>2, <1>11, <1>12, <1>16, <1>17 DEF LocalOK
<1>19. \A n \in Manager : LocalOK(mgr[n])'
  BY <1>11, <1>15, <1>16, <1>18, ManagersStay, Zenon
<1>20. \A k \in Kind : RequestOK(k, req[k])'
  BY <1>8, <1>15, <1>16, RequestsStay
<1>21. QED
  BY <1>15, <1>16, <1>19, <1>20, Zenon DEF WorkflowInv, DataOK

-----------------------------------------------------------------------------
(* The rows are written.                                                   *)

\* A copy that may be written over the row it was read from.
WriteOK(c) ==
  /\ CopyOK(c) /\ c.status \notin {"absent", "pending"}
  /\ \A i \in Position(def) : /\ SkippedIn(i) => c.steps[i].status = "skipped"
                              /\ c.steps[i].status = "skipped" => SkippedIn(i) \/ SkipIsNew(c, i)
  /\ c.status = "running" => \A i \in Position(def) : c.steps[i].status \notin {"failed", "canceled"}
  /\ c.status = "succeeded" => \A i \in Position(def) : c.steps[i].status \in DoneStep
  /\ c.status = "failed" => Faulty("call") \/ SomeRun("failed")
  /\ c.status = "canceled" => CancelRequested \/ SomeRun("canceled")

\* A step that is skipped has no Run: by the time the values of its sources
\* are known, they are the ones that a Run of it would have gone by.
LEMMA NewSkipHasNoRun ==
  ASSUME WorkflowInv, Exists, NEW c, WriteOK(c)
  PROVE  \A i \in Position(def) : SkipIsNew(c, i) => RunOfStep(i) = {}
<1>1. Core /\ RunsOK /\ WorkflowTypes /\ OneRunPerStep /\ SkippedHasNoRun
  BY DEF WorkflowInv, Core
<1>2. Resolves(def) /\ DOMAIN wf.steps = Position(def) /\ Position(def) \subseteq Nat /\ CopyOK(c)
  BY <1>1, AcceptedResolves DEF Core, Position, WriteOK
<1>3. PICK B : B = {i \in Position(def) : SkipIsNew(c, i) /\ RunOfStep(i) # {}}
  BY Zenon
<1>4. SUFFICES ASSUME B # {} PROVE FALSE
  BY <1>3
<1>5. B \in SUBSET Nat
  BY <1>2, <1>3
<1>6. PICK i \in B : \A j \in B : i <= j
  BY <1>1, <1>4, <1>5, Zenon DEF WorkflowTypes, Sound, LoopsAreOrderly
<1>7. i \in Position(def) /\ SkipIsNew(c, i)
  BY <1>3, <1>6
<1>8. PICK r \in DOMAIN runs : runs[r].step = i
  BY <1>3, <1>6 DEF RunOfStep
<1>9. DependenciesOver(i) /\ ConditionHolds(i)
  BY <1>1, <1>8 DEF RunsOK, RunOK
<1>10. PICK source : source = def.steps[i].condition.source
  BY Zenon
<1>11. /\ def.steps[i].condition # NoCondition
       /\ ~evaluateCondition(ValueOf(def, c, source), def.steps[i].condition)
       /\ evaluateCondition(FinalValue(source), def.steps[i].condition)
  BY <1>7, <1>9, <1>10, Zenon DEF SkipIsNew, ConditionHolds
<1>12. source = WorkflowInput \/ source \in Range(def.steps[i].dependsOn)
  BY <1>2, <1>7, <1>10, <1>11, Zenon DEF Resolves, ValidCondition
<1>13. CASE source = WorkflowInput
  BY <1>11, <1>13 DEF ValueOf, FinalValue
<1>14. CASE source # WorkflowInput
  <2>1. PICK j \in Position(def) : j = PositionOf(def, source)
    BY <1>2, <1>7, <1>12, <1>14, Zenon DEF Resolves
  <2>2. /\ c.steps[j].status \in DoneStep /\ Over(j)
        /\ c.steps[j].status = "skipped" => SkippedIn(j) \/ j < i
    BY <1>7, <1>9, <1>12, <1>14, <2>1, Zenon DEF SkipIsNew, DependenciesOver
  <2>3. StepOK(c.steps[j], j)
    BY <1>2 DEF CopyOK
  <2>4. c.steps[j].output = IF SkippedIn(j) THEN "" ELSE runs[Min(RunOfStep(j))].output
    <3>1. CASE c.steps[j].status = "succeeded"
      <4>1. PICK s \in DOMAIN runs : /\ runs[s].step = j /\ runs[s].output = c.steps[j].output
        BY <2>3, <3>1 DEF StepOK
      <4>2. RunOfStep(j) = {s} /\ Min(RunOfStep(j)) = s
        BY <1>1, <4>1, RunOfStepIsOne
      <4>3. ~SkippedIn(j)
        BY <1>1, <1>2, <4>2 DEF SkippedHasNoRun
      <4>4. QED
        BY <4>1, <4>2, <4>3
    <3>2. CASE c.steps[j].status = "skipped" /\ SkippedIn(j)
      BY <2>3, <3>2, Zenon DEF StepOK
    <3>3. CASE c.steps[j].status = "skipped" /\ ~SkippedIn(j)
      <4>1. SkipIsNew(c, j) /\ j < i
        BY <2>2, <3>3 DEF WriteOK
      <4>2. j \notin B
        BY <1>2, <1>6, <1>7, <4>1
      <4>3. RunOfStep(j) = {}
        BY <1>3, <4>1, <4>2
      <4>4. QED
        BY <2>2, <3>3, <4>3 DEF Over
    <3>4. QED
      BY <2>2, <3>1, <3>2, <3>3, Zenon DEF DoneStep
  <2>5. ValueOf(def, c, source) = FinalValue(source)
    BY <1>14, <2>1, <2>4, Zenon DEF ValueOf, FinalValue
  <2>6. QED
    BY <1>11, <2>5
<1>15. QED
  BY <1>13, <1>14

\* What is done in a copy is final once the copy is written.
LEMMA WrittenIsFinal ==
  ASSUME WorkflowInv, Exists, NEW c, CopyOK(c), UNCHANGED <<def, runs>>, wf'.steps = c.steps,
         NEW ref, PositionOf(def, ref) \in Position(def),
         c.steps[PositionOf(def, ref)].status \in DoneStep
  PROVE  Over(PositionOf(def, ref))' /\ FinalValue(ref)' = ValueOf(def, c, ref)
<1>1. OneRunPerStep /\ WorkflowTypes
  BY DEF WorkflowInv
<1>2. PICK j \in Position(def) : j = PositionOf(def, ref)
  OBVIOUS
<1>3. c.steps[j].status \in DoneStep /\ StepOK(c.steps[j], j) /\ PositionOf(def', ref) = j
  BY <1>2 DEF CopyOK
<1>4. CASE c.steps[j].status = "skipped"
  <2>1. SkippedIn(j)' /\ c.steps[j].output = ""
    BY <1>3, <1>4, Zenon DEF SkippedIn, StepOK
  <2>2. QED
    BY <1>2, <1>3, <2>1, Zenon DEF Over, FinalValue, ValueOf
<1>5. CASE c.steps[j].status = "succeeded"
  <2>1. PICK r \in DOMAIN runs : /\ runs[r].step = j /\ runs[r].status = "succeeded"
                                 /\ runs[r].output = c.steps[j].output
    BY <1>3, <1>5 DEF StepOK
  <2>2. RunOfStep(j) = {r} /\ Min(RunOfStep(j)) = r
    BY <1>1, <2>1, RunOfStepIsOne
  <2>3. RunOfStep(j)' = RunOfStep(j)
    BY DEF RunOfStep
  <2>4. ~SkippedIn(j)'
    BY <1>5 DEF SkippedIn
  <2>5. Over(j)'
    BY <2>1, <2>2, <2>3, Zenon DEF Over
  <2>6. FinalValue(ref)' = IF ref = WorkflowInput THEN def.input ELSE runs[r].output
    BY <1>3, <2>2, <2>3, <2>4, Zenon DEF FinalValue
  <2>7. QED
    BY <1>2, <1>3, <2>1, <2>5, <2>6, Zenon DEF ValueOf
<1>6. QED
  BY <1>3, <1>4, <1>5 DEF DoneStep

\* A row that is written over the version it was read from.
LEMMA RowWritten ==
  ASSUME WorkflowInv, Exists, NEW c, WriteOK(c), c.version = wf.version, wf' = Written(c),
         UNCHANGED <<def, runs>>, faults' \in Nat, faults' >= faults,
         CancelRequested => CancelRequested', WorkflowTypes',
         ConcurrencyIsBounded' \/ \A i \in Position(def) : c.steps[i].run = wf.steps[i].run
  PROVE  Evolves /\ DataOK'
<1>1. /\ WorkflowTypes /\ WorkflowOK /\ DataOK /\ faults \in Nat /\ wf.version \in Nat
      /\ OneRunPerStep /\ SkippedHasNoRun
  BY InvariantParts, Zenon DEF WorkflowTypes, Copy, DataOK
<1>2. /\ CopyOK(c) /\ c \in Copy /\ c.steps \in Seq(Step) /\ DOMAIN c.steps = Position(def)
      /\ \A i \in Position(def) : c.steps[i] \in Step
  BY <1>1, DefinitionIsNormal, CopyHasSteps DEF WriteOK, CopyOK
<1>3. wf'.steps = c.steps /\ wf'.status = c.status /\ wf'.version = wf.version + 1
  BY <1>2 DEF Written, Copy
<1>4. DOMAIN wf.steps = Position(def) /\ Accepted(def) /\ Resolves(def)
  BY <1>1, AcceptedResolves
<1>5. \A kind \in FaultKinds : Faulty(kind) => Faulty(kind)'
  BY <1>1 DEF Faulty
<1>6. Exists' /\ Started'
  BY <1>3 DEF WriteOK, Exists, Started
<1>7. \A i \in Position(def) : SkippedIn(i) => SkippedIn(i)'
  BY <1>3, Zenon DEF WriteOK, SkippedIn
<1>8. Evolves
  BY <1>1, <1>2, <1>3, <1>4, <1>5, <1>6, <1>7 DEF Evolves
<1>9. OneRunPerStep'
  BY <1>1, Zenon DEF OneRunPerStep
<1>10. \A i \in Position(def) : SkippedIn(i)' => SkippedIn(i) \/ SkipIsNew(c, i)
  BY <1>3 DEF WriteOK, SkippedIn
<1>11. SkippedHasNoRun'
  <2>1. \A i : RunOfStep(i)' = RunOfStep(i)
    BY DEF RunOfStep
  <2>2. \A i \in Position(def) : SkippedIn(i) => RunOfStep(i) = {}
    BY <1>1, <1>4 DEF SkippedHasNoRun
  <2>3. \A i \in Position(def) : SkippedIn(i)' => RunOfStep(i) = {}
    BY <1>10, <2>2, NewSkipHasNoRun
  <2>4. QED
    BY <1>2, <1>3, <2>1, <2>3 DEF SkippedHasNoRun
<1>12. ASSUME NEW i \in Position(def), SkipIsNew(c, i)
       PROVE  DependenciesOver(i)' /\ ConditionFails(i)'
  <2>1. ASSUME NEW ref \in Range(def.steps[i].dependsOn)
        PROVE  PositionOf(def, ref) \in Position(def) /\ c.steps[PositionOf(def, ref)].status \in DoneStep
    BY <1>4, <1>12, Zenon DEF SkipIsNew, Resolves
  <2>3. \A ref \in Range(def.steps[i].dependsOn) : Over(PositionOf(def, ref))'
    BY <1>2, <1>3, <2>1, WrittenIsFinal, Zenon
  <2>4. DependenciesOver(i)'
    BY <2>3 DEF DependenciesOver
  <2>5. PICK source : source = def.steps[i].condition.source
    BY Zenon
  <2>6. /\ def.steps[i].condition # NoCondition
        /\ ~evaluateCondition(ValueOf(def, c, source), def.steps[i].condition)
    BY <1>12, <2>5, Zenon DEF SkipIsNew
  <2>7. source = WorkflowInput \/ source \in Range(def.steps[i].dependsOn)
    BY <1>4, <2>5, <2>6, Zenon DEF Resolves, ValidCondition
  <2>8. FinalValue(source)' = ValueOf(def, c, source)
    <3>1. CASE source = WorkflowInput
      BY <3>1 DEF FinalValue, ValueOf
    <3>2. QED
      BY <1>2, <1>3, <2>1, <2>7, <3>1, WrittenIsFinal, Zenon
  <2>9. ConditionFails(i)'
    BY <2>5, <2>6, <2>8 DEF ConditionFails
  <2>10. QED
    BY <2>4, <2>9, Zenon
<1>13. RunsOK' /\ SkipsOK'
  <2>1. \A i \in DOMAIN wf'.steps : SkippedIn(i)' /\ ~(i \in DOMAIN wf.steps /\ SkippedIn(i)) =>
                                     DependenciesOver(i)' /\ ConditionFails(i)'
    BY <1>2, <1>3, <1>4, <1>10, <1>12, Zenon
  <2>2. QED
    BY <1>8, <1>9, <1>11, <2>1, RunsAndSkipsStay, Zenon
<1>14. WorkflowOK'
  <2>1. CopyOK(c)'
    BY <1>2, <1>8, CopyStaysOK
  <2>2. wf' \in Copy
    BY DEF WorkflowTypes
  <2>3. CopyOK(wf)'
    BY <1>3, <2>1, <2>2 DEF CopyOK, Fits
  <2>4. /\ SomeRun("failed")' <=> SomeRun("failed")
        /\ SomeRun("canceled")' <=> SomeRun("canceled")
    BY DEF SomeRun
  <2>5. Faulty("call") => Faulty("call")'
    BY <1>5 DEF Faulty
  <2>6. QED
    BY <1>3, <1>4, <1>6, <2>3, <2>4, <2>5, Zenon DEF WriteOK, WorkflowOK
<1>15. ConcurrencyIsBounded'
  BY <1>3, <1>8, BusyStays
<1>16. QED
  BY <1>8, <1>9, <1>11, <1>13, <1>14, <1>15, Zenon DEF DataOK

\* A call that writes a copy (UpdateWorkflow).
LEMMA UpdateEffect ==
  ASSUME WorkflowTypes, NEW c \in Copy, NEW res, UpdateWorkflow(c, res)
  PROVE  /\ wf' \in Copy /\ faults' \in Nat /\ faults' >= faults
         /\ wf' = wf \/ (c.version = wf.version /\ wf' = Written(c))
         /\ res = "ok" => c.version = wf.version /\ wf' = Written(c)
<1>1. wf \in Copy /\ faults \in Nat /\ c.version \in Nat
  BY DEF WorkflowTypes, Copy
<1>2. PICK v \in Nat : v = c.version + 1
  BY <1>1
<1>3. [c EXCEPT !.version = v] \in Copy
  BY DEF Copy
<1>4. Written(c) \in Copy
  BY <1>2, <1>3 DEF Written
<1>5. faults' \in Nat /\ faults' >= faults
  BY <1>1 DEF UpdateWorkflow, Fault
<1>6. QED
  BY <1>1, <1>4, <1>5 DEF UpdateWorkflow

\* A write that is allowed keeps the rows right, whatever it returns.
LEMMA WriteKeepsData ==
  ASSUME WorkflowInv, Exists, NEW c \in Copy, NEW res, UpdateWorkflow(c, res),
         c.version = wf.version => WriteOK(c),
         UNCHANGED <<def, runs>>, CancelRequested => CancelRequested', WorkflowTypes',
         \/ c.version = wf.version /\ wf' = Written(c) => ConcurrencyIsBounded'
         \/ c.version = wf.version => \A i \in Position(def) : c.steps[i].run = wf.steps[i].run
  PROVE  Evolves /\ DataOK'
<1>1. /\ faults' \in Nat /\ faults' >= faults
      /\ wf' = wf \/ (c.version = wf.version /\ wf' = Written(c))
  BY UpdateEffect DEF WorkflowInv
<1>2. CASE wf' = wf
  BY <1>1, <1>2, DataUntouched, Zenon
<1>3. CASE c.version = wf.version /\ wf' = Written(c)
  BY <1>1, <1>3, RowWritten
<1>4. QED
  BY <1>1, <1>2, <1>3

\* A manager writes its copy and has nothing in hand after that.
LEMMA ManagerWrites ==
  ASSUME WorkflowInv, NEW m \in Manager, Started, NEW c \in Copy, NEW res, UpdateWorkflow(c, res),
         c.version = wf.version => WriteOK(c),
         UNCHANGED <<def, runs, older, req>>,
         \/ c.version = wf.version /\ wf' = Written(c) => ConcurrencyIsBounded'
         \/ c.version = wf.version => \A i \in Position(def) : c.steps[i].run = wf.steps[i].run,
         NEW x \in Local, x.pc \in {"row", "release", "enqueue", "ending"}, Become(m, x)
  PROVE  WorkflowInv'
<1>1. WorkflowTypes /\ mgr \in [Manager -> Local] /\ Exists
  BY DEF WorkflowInv, WorkflowTypes, Started, Exists
<1>2. mgr' = [mgr EXCEPT ![m] = x]
  BY DEF Become
<1>3. wf' \in Copy /\ faults' \in Nat
  BY <1>1, UpdateEffect
<1>4. WorkflowTypes'
  BY <1>1, <1>2, <1>3, Zenon DEF WorkflowTypes
<1>5. Evolves /\ DataOK'
  BY <1>1, <1>4, WriteKeepsData DEF CancelRequested
<1>6. LocalOK(x)
  BY EmptyHands
<1>7. QED
  BY <1>2, <1>4, <1>5, <1>6, ProcessesStay, Zenon

\* No step of a workflow that is not over is lost.
LEMMA RowIsRunning ==
  ASSUME WorkflowTypes, WorkflowOK, wf.status \in {"pending", "running"}, NEW i \in Position(def)
  PROVE  /\ wf.steps[i] \in Step /\ StepOf(wf.steps[i]) \in {"waiting", "assigned", "skipped"}
         /\ SkippedIn(i) <=> StepOf(wf.steps[i]) = "skipped"
<1>1. CopyOK(wf)
  BY AcceptedResolves DEF Exists
<1>2. wf.steps[i] \in Step
  BY <1>1, DefinitionIsNormal, CopyHasSteps DEF CopyOK
<1>3. wf.steps[i].status \notin {"failed", "canceled"}
  BY DEF WorkflowOK
<1>4. QED
  BY <1>2, <1>3, StepOfStatus DEF SkippedIn

\* What the conditions decided, and what the Runs say, is saved (Save).
LEMMA SaveStep ==
  ASSUME WorkflowInv, NEW m \in Manager, Save(m)
  PROVE  WorkflowInv'
<1>1. /\ WorkflowTypes /\ WorkflowOK /\ mgr[m] \in Local /\ LocalOK(mgr[m])
      /\ Started /\ mgr[m].pc = "save"
  BY ManagerIsOK, SMTT(30) DEF Save, At
<1>2. PICK c : c = mgr[m].cand
  BY Zenon
<1>3. c \in Copy /\ CopyOK(c) /\ SavedCopy(c)
  BY <1>1, <1>2 DEF LocalOK, Local
<1>4. UNCHANGED <<def, runs, older, req>>
  BY DEF Save
<1>5. PICK res \in Result :
        /\ UpdateWorkflow(c, res)
        /\ Become(m, CASE res = "ok" -> Again [] res = "conflict" -> Again [] res = "error" -> Leave(m))
  BY <1>2, Zenon DEF Save, WriteThen
<1>6. PICK x \in {Again, Leave(m)} : Become(m, x)
  BY <1>5 DEF Result
<1>7. x \in Local /\ x.pc \in {"row", "release"}
  BY <1>1, <1>6, EmptyHands, LeavingHands, Zenon DEF Again, NotRunning
<1>8. ASSUME c.version = wf.version
      PROVE  WriteOK(c) /\ \A i \in Position(def) : c.steps[i].run = wf.steps[i].run
  <2>1. wf.status = "running" /\ c.status = "running"
    BY <1>3, <1>8, Zenon DEF SavedCopy
  <2>2. ASSUME NEW i \in Position(def)
        PROVE  /\ SkippedIn(i) => c.steps[i].status = "skipped"
               /\ c.steps[i].status = "skipped" => SkippedIn(i) \/ SkipIsNew(c, i)
               /\ c.steps[i].status \notin {"failed", "canceled"}
               /\ c.steps[i].run = wf.steps[i].run
    <3>1. c.steps[i] \in Step
      BY <1>1, <1>3, DefinitionIsNormal, CopyHasSteps, Zenon DEF CopyOK
    <3>2. CASE Tracks(c.steps[i], wf.steps[i])
      <4>1. c.steps[i].run = wf.steps[i].run /\ StepOf(c.steps[i]) = StepOf(wf.steps[i])
        BY <3>2 DEF Tracks
      <4>2. StepOf(wf.steps[i]) # "lost" /\ (SkippedIn(i) <=> StepOf(wf.steps[i]) = "skipped")
        BY <1>1, <2>1, RowIsRunning, Zenon
      <4>3. QED
        BY <3>1, <4>1, <4>2, StepOfStatus, Zenon
    <3>3. CASE SkipIsNew(c, i)
      <4>1. ~SkippedIn(i)
        BY <1>1, <2>1, <3>3, RowIsRunning DEF SkipIsNew
      <4>2. QED
        BY <3>3, <4>1, Zenon DEF SkipIsNew
    <3>4. QED
      BY <1>3, <1>8, <3>2, <3>3, Zenon DEF SavedCopy
  <2>3. QED
    BY <1>3, <2>1, <2>2, Zenon DEF WriteOK
<1>9. QED
  BY <1>1, <1>3, <1>4, <1>5, <1>6, <1>7, <1>8, ManagerWrites, Zenon

\* What a manager has in hand while it ends the workflow.
LEMMA EndingHands ==
  ASSUME NEW todo \in Seq(Nat), NEW status \in WorkflowStatus, NEW x,
         \/ x = [NotRunning EXCEPT !.pc = "ending", !.cand = [Absent EXCEPT !.status = status]]
         \/ x = [NotRunning EXCEPT !.pc = "ending", !.todo = todo,
                                   !.cand = [Absent EXCEPT !.status = status]]
  PROVE  x \in Local /\ x.pc = "ending"
<1>1. PICK l \in Local : l = NotRunning
  BY EmptyHands
<1>2. PICK c \in Copy : c = [Absent EXCEPT !.status = status]
  <2>1. PICK a \in Copy : a = Absent
    BY EmptyHands
  <2>2. [a EXCEPT !.status = status] \in Copy
    BY DEF Copy
  <2>3. QED
    BY <2>1, <2>2
<1>3. x \in {[l EXCEPT !.pc = "ending", !.cand = c], [l EXCEPT !.pc = "ending", !.todo = todo, !.cand = c]}
  BY <1>1, <1>2
<1>4. [l EXCEPT !.pc = "ending", !.cand = c] \in Local /\ [l EXCEPT !.pc = "ending", !.cand = c].pc = "ending"
  BY Zenon DEF Local, Pc
<1>5. /\ [l EXCEPT !.pc = "ending", !.todo = todo, !.cand = c] \in Local
      /\ [l EXCEPT !.pc = "ending", !.todo = todo, !.cand = c].pc = "ending"
  BY Zenon DEF Local, Pc
<1>6. QED
  BY <1>3, <1>4, <1>5, Zenon

\* The copy of a workflow that is over, whatever ended it.
LEMMA EndCanBeWritten ==
  ASSUME WorkflowTypes, WorkflowOK, Started, wf.status = "running", NEW c, CopyOK(c),
         c.status \in FinishedWorkflow,
         \/ /\ c.status = "succeeded"
            /\ \A i \in Position(def) : c.steps[i].status \in DoneStep /\ Tracks(c.steps[i], wf.steps[i])
         \/ /\ c.status = "failed" /\ (Faulty("call") \/ SomeRun("failed"))
            /\ \A i \in Position(def) : GivesUp(c.steps[i], wf.steps[i])
         \/ /\ c.status = "canceled" /\ SomeRun("canceled")
            /\ \A i \in Position(def) : GivesUp(c.steps[i], wf.steps[i])
  PROVE  WriteOK(c) /\ \A i \in Position(def) : c.steps[i].run = wf.steps[i].run
<1>1. ASSUME NEW i \in Position(def)
      PROVE  /\ SkippedIn(i) <=> c.steps[i].status = "skipped"
             /\ c.steps[i].run = wf.steps[i].run
  <2>1. c.steps[i] \in Step
    BY DefinitionIsNormal, CopyHasSteps, Zenon DEF CopyOK
  <2>2. /\ StepOf(wf.steps[i]) \in {"waiting", "assigned", "skipped"}
        /\ SkippedIn(i) <=> StepOf(wf.steps[i]) = "skipped"
    BY RowIsRunning, Zenon
  <2>3. /\ c.steps[i].run = wf.steps[i].run
        /\ StepOf(c.steps[i]) = "skipped" <=> StepOf(wf.steps[i]) = "skipped"
    BY <2>2, Zenon DEF Tracks, GivesUp
  <2>4. QED
    BY <2>1, <2>2, <2>3, StepOfStatus, Zenon
<1>2. c.status \notin {"absent", "pending", "running"}
  BY DEF FinishedWorkflow
<1>3. QED
  BY <1>1, <1>2, Zenon DEF WriteOK

\* The workflow ends with its steps (Finish).
LEMMA FinishStep ==
  ASSUME WorkflowInv, NEW m \in Manager, Finish(m)
  PROVE  WorkflowInv'
<1>1. /\ WorkflowTypes /\ WorkflowOK /\ mgr[m] \in Local /\ LocalOK(mgr[m])
      /\ Started /\ mgr[m].pc = "finish"
  BY ManagerIsOK, Zenon DEF Finish, At
<1>2. PICK c : c = mgr[m].cand
  OBVIOUS
<1>3. c \in Copy /\ CopyOK(c) /\ FinishedCopy(c) /\ c.steps \in Seq(Step) /\ c.status \in WorkflowStatus
  BY <1>1, <1>2, Zenon DEF LocalOK, Local, Copy
<1>4. UNCHANGED <<def, runs, older, req>>
  BY DEF Finish
<1>5. PICK todo \in Seq(Nat) : todo = RunsToCancel(c)
  BY <1>1, <1>3, RunsOfIsTyped, Zenon DEF RunsToCancel
<1>6. PICK y : y = [NotRunning EXCEPT !.pc = "ending", !.todo = todo,
                                     !.cand = [Absent EXCEPT !.status = c.status]]
  OBVIOUS
<1>7. y \in Local /\ y.pc = "ending"
  BY <1>3, <1>6, EndingHands, Zenon
<1>8. PICK res \in Result :
        /\ UpdateWorkflow(c, res)
        /\ Become(m, CASE res = "ok" -> y [] res = "conflict" -> Again [] res = "error" -> Leave(m))
  BY <1>2, <1>5, <1>6, Zenon DEF Finish, WriteThen
<1>9. PICK x \in {y, Again, Leave(m)} : Become(m, x)
  BY <1>8 DEF Result
<1>10. x \in Local /\ x.pc \in {"row", "release", "ending"}
  BY <1>1, <1>7, <1>9, EmptyHands, LeavingHands, Zenon DEF Again, NotRunning
<1>11. ASSUME c.version = wf.version
       PROVE  WriteOK(c) /\ \A i \in Position(def) : c.steps[i].run = wf.steps[i].run
  BY <1>1, <1>3, <1>11, EndCanBeWritten, ZenonT(30) DEF FinishedCopy, FinishedWorkflow
<1>12. QED
  BY <1>1, <1>3, <1>4, <1>8, <1>9, <1>10, <1>11, ManagerWrites, Zenon

\* A workflow that cannot go on fails (Fail).
LEMMA FailStep ==
  ASSUME WorkflowInv, NEW m \in Manager, Fail(m)
  PROVE  WorkflowInv'
<1>1. /\ WorkflowTypes /\ WorkflowOK /\ mgr[m] \in Local /\ LocalOK(mgr[m])
      /\ Started /\ mgr[m].pc = "fail"
  BY ManagerIsOK, Zenon DEF Fail, At
<1>2. PICK c : c = mgr[m].cand
  OBVIOUS
<1>3. /\ c \in Copy /\ CopyOK(c) /\ CurrentCopy(c)
      /\ c.version = wf.version => Faulty("call")
  BY <1>1, <1>2 DEF LocalOK, Local
<1>4. PICK t : t = cancelNonterminalSteps(c.steps)
  OBVIOUS
<1>5. /\ t \in Seq(Step) /\ \A e \in Copy : e.steps = t => CopyOK(e)
      /\ \A j \in Position(def), w \in Step : Tracks(c.steps[j], w) => GivesUp(t[j], w)
  BY <1>1, <1>3, <1>4, GivingUp
<1>6. PICK e : e = [c EXCEPT !.status = "failed", !.steps = t]
  OBVIOUS
<1>7. e \in Copy /\ e.status = "failed" /\ e.version = c.version /\ e.steps = t
  BY <1>3, <1>5, <1>6, Zenon DEF Copy, WorkflowStatus, FinishedWorkflow
<1>8. PICK y : y = [NotRunning EXCEPT !.pc = "ending", !.cand = [Absent EXCEPT !.status = "failed"]]
  OBVIOUS
<1>9. y \in Local /\ y.pc = "ending"
  <2>1. PICK todo \in Seq(Nat), status \in WorkflowStatus : status = "failed"
    BY SequenceIsEmpty, ZenonT(30) DEF WorkflowStatus, FinishedWorkflow
  <2>2. QED
    BY <1>8, <2>1, EndingHands, Zenon
<1>10. UNCHANGED <<def, runs, older, req>>
  BY Zenon DEF Fail
<1>11. PICK res \in Result :
         /\ UpdateWorkflow(e, res)
         /\ Become(m, IF res = "error" THEN Leave(m) ELSE y)
  BY <1>2, <1>4, <1>6, <1>8, Zenon DEF Fail
<1>12. PICK x \in {y, Leave(m)} : Become(m, x)
  BY <1>11
<1>13. x \in Local /\ x.pc \in {"release", "ending"}
  BY <1>1, <1>9, <1>12, LeavingHands, Zenon
<1>14. ASSUME e.version = wf.version
       PROVE  WriteOK(e) /\ \A i \in Position(def) : e.steps[i].run = wf.steps[i].run
  <2>1. wf.status = "running" /\ \A i \in Position(def) : Tracks(c.steps[i], wf.steps[i])
    BY <1>3, <1>7, <1>14, Zenon DEF CurrentCopy
  <2>2. \A i \in Position(def) : wf.steps[i] \in Step
    BY <1>1, <2>1, RowIsRunning, Zenon
  <2>3. \A i \in Position(def) : GivesUp(e.steps[i], wf.steps[i])
    BY <1>5, <1>7, <2>1, <2>2, Zenon
  <2>4. QED
    BY <1>1, <1>3, <1>5, <1>7, <1>14, <2>1, <2>3, EndCanBeWritten, Zenon DEF FinishedWorkflow
<1>15. QED
  BY <1>1, <1>7, <1>10, <1>11, <1>12, <1>13, <1>14, ManagerWrites, Zenon

\* A step that gets its Run keeps the concurrency: the copy counts the active
\* steps, and no other step has an active Run.
LEMMA AssignedIsCounted ==
  ASSUME WorkflowInv, Started, wf.status = "running", NEW c, CopyOK(c), CurrentCopy(c),
         c.version = wf.version, NEW i \in Position(def), activeStepCount(c) < Concurrency,
         UNCHANGED runs, DOMAIN wf'.steps = Position(def),
         \A j \in Position(def) \ {i} : wf'.steps[j] = c.steps[j]
  PROVE  ConcurrencyIsBounded'
<1>1. WorkflowTypes /\ WorkflowOK
  BY DEF WorkflowInv
<1>2. PICK A : A = {j \in Position(def) : c.steps[j].status \in ActiveStep}
  BY Zenon
<1>3. /\ DOMAIN c.steps = Position(def)
      /\ \A j \in Position(def) : c.steps[j] \in Step /\ StepOK(c.steps[j], j)
  BY <1>1, DefinitionIsNormal, CopyHasSteps, Zenon DEF CopyOK
<1>4. Cardinality(A) < Concurrency /\ Concurrency \in Nat
  BY <1>2, <1>3, WorkflowAssumption DEF activeStepCount
<1>5. A \in SUBSET Position(def)
  BY <1>2
<1>6. Cardinality(A) \in Nat
  BY <1>1, <1>5, CountsOfSteps
<1>7. PICK B : B = A \union {i} /\ B \in SUBSET Position(def)
  BY <1>5, Zenon
<1>8. Cardinality(B) \in Nat /\ Cardinality(B) <= Cardinality(A) + 1
  BY <1>1, <1>5, <1>7, CountsOfSteps
<1>9. ASSUME NEW j \in Busy' PROVE j \in B
  <2>1. SUFFICES ASSUME j # i PROVE j \in A
    BY <1>7, Zenon
  <2>2. /\ j \in Position(def) /\ wf'.steps[j] = c.steps[j]
        /\ c.steps[j].run # 0 /\ runs[c.steps[j].run].status \in ActiveRun
    BY <1>9, <2>1, Zenon DEF Busy
  <2>3. c.steps[j] \in Step /\ StepOK(c.steps[j], j) /\ Tracks(c.steps[j], wf.steps[j])
    BY <1>3, <2>2, Zenon DEF CurrentCopy
  <2>4. StepOf(c.steps[j]) # "lost"
    BY <1>1, <2>2, <2>3, RowIsRunning, SMTT(30) DEF Tracks
  <2>5. c.steps[j].status \notin {"pending", "skipped", "succeeded"}
    BY <2>2, <2>3, Zenon DEF StepOK, ActiveRun
  <2>6. c.steps[j].status \in ActiveStep
    BY <2>3, <2>4, <2>5, StepOfStatus DEF StepStatus, DoneStep
  <2>7. QED
    BY <1>2, <2>2, <2>6
<1>10. Busy' \in SUBSET B
  BY <1>9
<1>11. Cardinality(Busy') <= Cardinality(B) /\ Cardinality(Busy') \in Nat
  BY <1>1, <1>7, <1>10, CountsOfSteps, Zenon
<1>12. Cardinality(Busy') <= Concurrency
  BY <1>4, <1>6, <1>8, <1>11, SMTT(30)
<1>13. QED
  BY <1>12 DEF ConcurrencyIsBounded, Busy

\* Copy e is c, where step i, which can start, has got its Run r.
Assigned(c, e, i, r) ==
  /\ c \in Copy /\ CopyOK(c) /\ CurrentCopy(c) /\ ReadyIn(c, i)
  /\ r \in DOMAIN runs /\ runs[r].step = i /\ r \in Nat /\ r # 0
  /\ \A j \in Position(def) : c.steps[j] \in Step
  /\ e \in Copy /\ e.status = c.status /\ e.version = c.version
  /\ DOMAIN e.steps = Position(def) /\ Len(e.steps) = Len(def.steps)
  /\ e.steps[i] \in Step /\ e.steps[i].run = r /\ e.steps[i].status = "queued"
  /\ \A j \in Position(def) \ {i} : e.steps[j] = c.steps[j]

\* Manager m writes e, and goes on with y if that succeeds.
WritesThen(m, e, y) ==
  \E res \in Result :
    /\ UpdateWorkflow(e, res)
    /\ Become(m, CASE res = "ok" -> y [] res = "conflict" -> Again [] res = "error" -> Leave(m))

\* What a manager writes when it assigns a Run (Assign).
LEMMA Assignment ==
  ASSUME WorkflowInv, NEW m \in Manager, Assign(m)
  PROVE  \E c, e, i, r : /\ Assigned(c, e, i, r)
                        /\ WritesThen(m, e, [NotRunning EXCEPT !.pc = "enqueue", !.pick = r])
<1>1. /\ WorkflowTypes /\ WorkflowOK /\ OneRunPerStep /\ mgr[m] \in Local /\ LocalOK(mgr[m])
      /\ Started /\ mgr[m].pc = "assign"
  BY ManagerIsOK DEF Assign, At, WorkflowInv
<1>2. PICK c, i : c = mgr[m].cand /\ i = mgr[m].pick
  BY Zenon
<1>3. /\ c \in Copy /\ CopyOK(c) /\ CurrentCopy(c) /\ ReadyIn(c, i) /\ RunOfStep(i) # {}
  BY <1>1, <1>2, Zenon DEF LocalOK, Local
<1>4. PICK r \in DOMAIN runs : runs[r].step = i
  BY <1>3 DEF RunOfStep
<1>5. Max(RunOfStep(i)) = r /\ r \in Nat /\ r # 0
  BY <1>1, <1>4, RunOfStepIsOne, RunIsTyped, SMTT(30)
<1>6. /\ i \in Position(def) /\ c.steps[i].status = "pending" /\ c.steps \in Seq(Step)
      /\ Len(c.steps) = Len(def.steps) /\ activeStepCount(c) < Concurrency
      /\ DOMAIN c.steps = Position(def) /\ \A j \in Position(def) : c.steps[j] \in Step
  BY <1>1, <1>3, DefinitionIsNormal, CopyHasSteps, Zenon DEF CopyOK, ReadyIn, Fits, Copy
<1>7. PICK s : s = [c.steps[i] EXCEPT !.run = r, !.status = "queued"]
  OBVIOUS
<1>8. s \in Step /\ s.run = r /\ s.status = "queued"
  <2>1. ASSUME NEW q \in Step PROVE [q EXCEPT !.run = r, !.status = "queued"] \in Step
    BY <1>5, Zenon DEF Step, StepStatus, ActiveStep
  <2>2. s \in Step
    BY <1>6, <1>7, <2>1, Zenon
  <2>3. QED
    BY <1>6, <1>7, <2>2 DEF Step
<1>9. PICK t : t = [c.steps EXCEPT ![i] = s]
  BY Zenon
<1>10. /\ t \in Seq(Step) /\ Len(t) = Len(c.steps) /\ DOMAIN t = Position(def)
       /\ t[i] = s /\ \A j \in Position(def) \ {i} : t[j] = c.steps[j]
  <2>1. t \in Seq(Step) /\ Len(t) = Len(c.steps)
    BY <1>6, <1>8, <1>9, SequenceIsUpdated
  <2>2. QED
    BY <1>6, <1>9, <2>1, Zenon
<1>11. PICK e : e = [c EXCEPT !.steps = t]
  BY Zenon
<1>12. e \in Copy /\ e.status = c.status /\ e.version = c.version /\ e.steps = t
  BY <1>3, <1>10, <1>11 DEF Copy
<1>13. [c EXCEPT !.steps[i] = [@ EXCEPT !.run = r, !.status = "queued"]] = e
  BY <1>3, <1>6, <1>7, <1>9, <1>11, Zenon DEF Copy
<1>14. WritesThen(m, e, [NotRunning EXCEPT !.pc = "enqueue", !.pick = r])
  BY <1>2, <1>5, <1>13, Zenon DEF Assign, WritesThen
<1>15. e.steps[i] = s /\ \A j \in Position(def) \ {i} : e.steps[j] = c.steps[j]
  BY <1>10, <1>12, Zenon
<1>16. Assigned(c, e, i, r)
  BY <1>3, <1>4, <1>5, <1>6, <1>8, <1>10, <1>12, <1>15, Zenon DEF Assigned
<1>17. QED
  BY <1>14, <1>16, Zenon

\* A ready step gets the Run that was created for it (Assign).
LEMMA AssignStep ==
  ASSUME WorkflowInv, NEW m \in Manager, Assign(m)
  PROVE  WorkflowInv'
<1>1. WorkflowTypes /\ WorkflowOK /\ Started
  BY ManagerIsOK, SMTT(30) DEF Assign, At, WorkflowInv
<1>2. PICK c, e, i, r : /\ Assigned(c, e, i, r)
                        /\ WritesThen(m, e, [NotRunning EXCEPT !.pc = "enqueue", !.pick = r])
  BY Assignment, Zenon
<1>3. i \in Position(def) /\ c.steps[i].status = "pending" /\ activeStepCount(c) < Concurrency
  BY <1>2 DEF Assigned, ReadyIn
<1>4. PICK y : y = [NotRunning EXCEPT !.pc = "enqueue", !.pick = r]
  OBVIOUS
<1>5. y \in Local /\ y.pc = "enqueue"
  <2>1. PICK l \in Local : l = NotRunning
    BY EmptyHands
  <2>2. [l EXCEPT !.pc = "enqueue", !.pick = r] \in Local
    BY <1>2, Zenon DEF Assigned, Local, Pc
  <2>3. QED
    BY <1>4, <2>1, <2>2 DEF Local
<1>6. UNCHANGED <<def, runs, older, req>>
  BY Zenon DEF Assign
<1>7. PICK res \in Result :
        /\ UpdateWorkflow(e, res)
        /\ Become(m, CASE res = "ok" -> y [] res = "conflict" -> Again [] res = "error" -> Leave(m))
  BY <1>2, <1>4, Zenon DEF WritesThen
<1>8. PICK x \in {y, Again, Leave(m)} : Become(m, x)
  BY <1>7 DEF Result
<1>9. x \in Local /\ x.pc \in {"row", "release", "enqueue"}
  BY <1>1, <1>5, <1>8, EmptyHands, LeavingHands, Zenon DEF Again, NotRunning
<1>10. ASSUME e.version = wf.version PROVE WriteOK(e)
  <2>1. /\ wf.status = "running" /\ e.status = "running"
        /\ \A j \in Position(def) : Tracks(c.steps[j], wf.steps[j])
    BY <1>2, <1>10, Zenon DEF Assigned, CurrentCopy
  <2>2. ASSUME NEW j \in Position(def)
        PROVE  /\ StepOK(e.steps[j], j)
               /\ SkippedIn(j) <=> e.steps[j].status = "skipped"
               /\ e.steps[j].status \notin {"failed", "canceled"}
    <3>1. /\ StepOf(c.steps[j]) = StepOf(wf.steps[j]) /\ StepOf(wf.steps[j]) # "lost"
          /\ SkippedIn(j) <=> StepOf(wf.steps[j]) = "skipped"
      BY <1>1, <2>1, RowIsRunning, Zenon DEF Tracks
    <3>2. (SkippedIn(j) <=> c.steps[j].status = "skipped") /\ c.steps[j].status \notin {"failed", "canceled"}
      BY <1>2, <3>1, StepOfStatus DEF Assigned
    <3>3. CASE j = i
      <4>1. StepOK(e.steps[j], j)
        BY <1>2, <3>3, Zenon DEF Assigned, StepOK, ActiveStep
      <4>2. ~SkippedIn(j)
        BY <1>3, <3>2, <3>3
      <4>3. QED
        BY <1>2, <3>3, <4>1, <4>2 DEF Assigned
    <3>4. CASE j # i
      BY <1>2, <3>2, <3>4 DEF Assigned, CopyOK
    <3>5. QED
      BY <3>3, <3>4, ZenonT(30)
  <2>3. CopyOK(e)
    BY <1>2, <2>2 DEF Assigned, CopyOK, Fits
  <2>4. QED
    BY <2>1, <2>2, <2>3, Zenon DEF WriteOK
<1>11. ASSUME e.version = wf.version, wf' = Written(e) PROVE ConcurrencyIsBounded'
  <2>1. wf'.steps = e.steps
    BY <1>2, <1>11 DEF Assigned, Written, Copy
  <2>2. wf.status = "running" /\ c.version = wf.version
    BY <1>2, <1>11, Zenon DEF Assigned, CurrentCopy
  <2>3. QED
    BY <1>1, <1>2, <1>3, <1>6, <2>1, <2>2, AssignedIsCounted DEF Assigned
<1>12. QED
  BY <1>1, <1>2, <1>6, <1>7, <1>8, <1>9, <1>10, <1>11, ManagerWrites, Zenon DEF Assigned

\* A request writes its copy: the workflow is started, or canceled with its
\* steps (WriteRequest).
LEMMA RequestWriteStep ==
  ASSUME WorkflowInv, NEW k \in Kind, WriteRequest(k)
  PROVE  WorkflowInv'
<1>1. /\ WorkflowTypes /\ WorkflowOK /\ req \in [Kind -> Request] /\ req[k] \in Request
      /\ RequestOK(k, req[k]) /\ wf \in Copy /\ wf.version \in Nat /\ req[k].pc = "write"
  BY Zenon DEF WorkflowInv, WorkflowTypes, Copy, WriteRequest
<1>2. PICK c : c = req[k].cand
  OBVIOUS
<1>3. /\ c \in Copy /\ c.version \in Nat /\ c.version <= wf.version
      /\ c.status = IF k = "start" THEN "running" ELSE "canceled"
      /\ c.version = wf.version =>
           IF k = "start" THEN wf.status = "pending" /\ c.steps = wf.steps
           ELSE wf.status \in {"pending", "running"} /\ c.steps = cancelNonterminalSteps(wf.steps)
  BY <1>1, <1>2 DEF RequestOK, Request, Copy
<1>4. Exists
  <2>1. SUFFICES ASSUME ~Exists PROVE FALSE
    BY Zenon
  <2>2. wf.version = 0 /\ wf.status = "absent"
    BY <1>1, <2>1 DEF WorkflowOK, Absent
  <2>3. c.version = wf.version
    BY <1>3, <2>2
  <2>4. QED
    BY <1>3, <2>2, <2>3
<1>5. UNCHANGED <<def, runs, older, mgr>>
  BY SMTT(30) DEF WriteRequest
<1>6. PICK res \in Result :
        /\ UpdateWorkflow(c, res)
        /\ req' = [req EXCEPT ![k] = [@ EXCEPT !.pc = IF res = "ok" THEN "after" ELSE "over",
                                               !.cand = Absent]]
  BY <1>2, Zenon DEF WriteRequest
<1>7. PICK pc \in {"after", "over"} : pc = IF res = "ok" THEN "after" ELSE "over"
  OBVIOUS
<1>8. PICK q : q = [req[k] EXCEPT !.pc = pc, !.cand = Absent]
  OBVIOUS
<1>9. q \in Request /\ q.pc = pc
  BY <1>1, <1>7, <1>8, EmptyHands, Zenon DEF Request
<1>10. req' = [req EXCEPT ![k] = q]
  BY <1>6, <1>7, <1>8
<1>11. wf' \in Copy /\ faults' \in Nat /\ (res = "ok" => wf' = Written(c))
  BY <1>1, <1>3, <1>6, UpdateEffect, Zenon
<1>12. WorkflowTypes'
  BY <1>1, <1>5, <1>9, <1>10, <1>11, Zenon DEF WorkflowTypes
<1>13. CancelRequested => CancelRequested'
  BY <1>1, <1>7, <1>9, <1>10 DEF CancelRequested
<1>14. CopyOK(wf)
  BY <1>1, <1>4, AcceptedResolves, Zenon
<1>15. ASSUME c.version = wf.version
       PROVE  WriteOK(c) /\ \A i \in Position(def) : c.steps[i].run = wf.steps[i].run
  <2>1. wf.status \in {"pending", "running"}
    BY <1>3, <1>15, Zenon
  <2>2. CASE k = "start"
    <3>1. c.steps = wf.steps /\ c.status = "running"
      BY <1>3, <1>15, <2>2, Zenon
    <3>2. CopyOK(c)
      BY <1>3, <1>14, <3>1, Zenon DEF CopyOK, Fits
    <3>3. \A i \in Position(def) : c.steps[i].status \notin {"failed", "canceled"}
      BY <1>1, <2>1, <3>1, Zenon DEF WorkflowOK
    <3>4. QED
      BY <3>1, <3>2, <3>3, Zenon DEF WriteOK, SkippedIn
  <2>3. CASE k # "start"
    <3>1. c.steps = cancelNonterminalSteps(wf.steps) /\ c.status = "canceled"
      BY <1>3, <1>15, <2>3, Zenon
    <3>2. /\ CopyOK(c)
          /\ \A j \in Position(def), w \in Step : Tracks(wf.steps[j], w) => GivesUp(c.steps[j], w)
      BY <1>1, <1>3, <1>14, <3>1, GivingUp, Zenon
    <3>3. CancelRequested
      BY <1>1, <2>3, WorkflowAssumption, Zenon DEF CancelRequested
    <3>4. ASSUME NEW i \in Position(def)
          PROVE  /\ SkippedIn(i) <=> c.steps[i].status = "skipped"
                 /\ c.steps[i].run = wf.steps[i].run
      <4>1. /\ wf.steps[i] \in Step
            /\ StepOf(wf.steps[i]) \in {"waiting", "assigned", "skipped"}
            /\ SkippedIn(i) <=> StepOf(wf.steps[i]) = "skipped"
        BY <1>1, <2>1, RowIsRunning, Zenon
      <4>2. GivesUp(c.steps[i], wf.steps[i])
        BY <3>2, <4>1, Zenon DEF Tracks
      <4>3. c.steps[i] \in Step
        BY <1>1, <3>2, DefinitionIsNormal, CopyHasSteps, Zenon DEF CopyOK
      <4>4. StepOf(c.steps[i]) = "skipped" <=> StepOf(wf.steps[i]) = "skipped"
        BY <4>1, <4>2 DEF GivesUp
      <4>5. QED
        BY <4>1, <4>2, <4>3, <4>4, StepOfStatus, Zenon DEF GivesUp
    <3>5. QED
      BY <3>1, <3>2, <3>3, <3>4, Zenon DEF WriteOK
  <2>4. QED
    BY <2>2, <2>3
<1>16. Evolves /\ DataOK'
  BY <1>3, <1>4, <1>5, <1>6, <1>12, <1>13, <1>15, WriteKeepsData, Zenon
<1>17. RequestOK(k, q)'
  <2>1. k = "start" /\ pc = "after" => Started'
    BY <1>3, <1>7, <1>11 DEF Started, Written, Copy
  <2>2. QED
    BY <1>7, <1>9, <2>1 DEF RequestOK
<1>18. \A j \in Kind : RequestOK(j, req[j])'
  BY <1>9, <1>10, <1>12, <1>16, <1>17, RequestsStay, Zenon
<1>19. \A n \in Manager : LocalOK(mgr[n])'
  BY <1>5, <1>12, <1>16, ManagersStay, Zenon
<1>20. QED
  BY <1>12, <1>16, <1>18, <1>19, Zenon DEF WorkflowInv, DataOK

\* The client creates the workflow: every step waits (createWorkflow).
LEMMA CreateWorkflowStep ==
  ASSUME WorkflowInv, createWorkflow
  PROVE  WorkflowInv'
<1>1. WorkflowTypes /\ DataOK /\ faults \in Nat
  BY InvariantParts DEF WorkflowTypes
<1>2. /\ wf = Absent /\ Accepted(def) /\ wf' = InitializeForCreate(def)
      /\ UNCHANGED <<def, runs, older, mgr, req, faults>>
  BY DEF createWorkflow
<1>3. ~Exists /\ ~Started /\ runs = <<>> /\ wf.steps = <<>> /\ wf.version = 0
  BY <1>1, <1>2 DEF Exists, Started, Absent, DataOK, WorkflowOK
<1>4. NewStep \in Step
  <2>1. ASSUME NEW status \in StepStatus, NEW blank \in STRING
        PROVE  [status |-> status, run |-> 0, output |-> blank] \in Step
    BY DEF Step
  <2>2. "pending" \in StepStatus
    BY DEF StepStatus
  <2>3. QED
    BY <2>1, <2>2, BlankAssumption, Zenon DEF NewStep
<1>5. PICK n \in Nat : n = Len(def.steps) /\ Position(def) = 1..n
  BY <1>1, DefinitionIsNormal
<1>6. PICK t : t = [i \in Position(def) |-> NewStep]
  BY Zenon
<1>7. t \in Seq(Step) /\ Len(t) = n /\ DOMAIN t = Position(def) /\ \A i \in Position(def) : t[i] = NewStep
  BY <1>4, <1>5, <1>6
<1>8. wf'.status = "pending" /\ wf'.version = 1 /\ wf'.steps = t /\ wf' \in Copy
  BY <1>2, <1>6, <1>7 DEF InitializeForCreate, Copy, WorkflowStatus
<1>9. WorkflowTypes'
  BY <1>1, <1>2, <1>8, Zenon DEF WorkflowTypes
<1>10. Evolves
  BY <1>2, <1>3, <1>8 DEF Evolves, Faulty, CancelRequested
<1>11. /\ NewStep.status = "pending" /\ NewStep.run = 0 /\ NewStep.output = ""
  BY DEF NewStep
<1>12. \A i \in DOMAIN wf'.steps : ~SkippedIn(i)'
  BY <1>7, <1>8, <1>11, Zenon DEF SkippedIn
<1>13. OneRunPerStep' /\ SkippedHasNoRun'
  BY <1>1, <1>2, <1>12, Zenon DEF DataOK, OneRunPerStep, SkippedHasNoRun
<1>14. RunsOK' /\ SkipsOK'
  BY <1>2, <1>9, <1>10, <1>12, <1>13, RunsAndSkipsStay, Zenon
<1>15. WorkflowOK'
  <2>1. \A i \in Position(def) : StepOK(t[i], i)'
    BY <1>7, <1>11, Zenon DEF StepOK, ActiveStep
  <2>2. CopyOK(wf)'
    BY <1>2, <1>5, <1>7, <1>8, <2>1 DEF CopyOK, Fits
  <2>3. \A i \in Position(def) : t[i].status \notin {"failed", "canceled"}
    BY <1>7, <1>11, Zenon
  <2>4. QED
    BY <1>2, <1>8, <2>2, <2>3 DEF WorkflowOK, Exists
<1>16. ConcurrencyIsBounded'
  <2>1. Busy' = {}
    BY <1>7, <1>8, <1>11, Zenon DEF Busy
  <2>2. Cardinality(Busy') <= Concurrency
    BY <1>1, <2>1, CountsOfSteps, WorkflowAssumption
  <2>3. QED
    BY <2>2 DEF ConcurrencyIsBounded, Busy
<1>17. DataOK'
  BY <1>13, <1>14, <1>15, <1>16 DEF DataOK
<1>18. QED
  BY <1>2, <1>9, <1>10, <1>17, ProcessesStay, Zenon

-----------------------------------------------------------------------------
(* The invariant.                                                          *)

\* Nothing is there yet.
LEMMA InvariantInit ==
  ASSUME Init, Sound(def)
  PROVE  WorkflowInv
<1>1. /\ wf = Absent /\ runs = <<>> /\ older = <<>> /\ faults = 0
      /\ mgr = [m \in Manager |-> NotRunning] /\ req = [k \in Kind |-> NoRequest]
  BY DEF Init
<1>2. wf.status = "absent" /\ wf.steps = <<>>
  BY <1>1 DEF Absent
<1>3. NoRequest \in Request /\ NoRequest.pc = "none"
  BY EmptyHands DEF NoRequest, Request
<1>4. NotRunning \in Local /\ NotRunning.pc = "idle" /\ ~NotRunning.done
  BY EmptyHands DEF NotRunning
<1>5. WorkflowTypes
  <2>1. runs \in Seq(Run) /\ older \in Seq(ActiveRun \union {None}) /\ Len(older) = Len(runs)
    BY <1>1
  <2>2. wf \in Copy
    BY <1>1, EmptyHands, Zenon
  <2>3. QED
    BY <1>1, <1>3, <1>4, <2>1, <2>2, Zenon DEF WorkflowTypes
<1>6. WorkflowOK /\ OneRunPerStep /\ SkippedHasNoRun /\ RunsOK /\ SkipsOK
  BY <1>1, <1>2 DEF WorkflowOK, Exists, OneRunPerStep, SkippedHasNoRun, RunsOK, SkipsOK
<1>7. ConcurrencyIsBounded
  <2>1. Busy = {}
    BY <1>2 DEF Busy
  <2>2. Cardinality(Busy) <= Concurrency
    BY <1>5, <2>1, CountsOfSteps, WorkflowAssumption
  <2>3. QED
    BY <2>2 DEF ConcurrencyIsBounded, Busy
<1>8. \A m \in Manager : LocalOK(mgr[m])
  BY <1>1, <1>4, EmptyHands, Zenon
<1>9. \A k \in Kind : RequestOK(k, req[k])
  BY <1>1, <1>3 DEF RequestOK
<1>10. QED
  BY <1>5, <1>6, <1>7, <1>8, <1>9, Zenon DEF WorkflowInv

\* What the invariant says stays so when nothing moves.
LEMMA InvariantStutters ==
  ASSUME WorkflowInv, UNCHANGED vars
  PROVE  WorkflowInv'
<1>1. UNCHANGED <<def, wf, runs, older, mgr, req, faults>>
  BY DEF vars
<1>2. WorkflowTypes' /\ faults' \in Nat /\ faults' >= faults
  BY <1>1 DEF WorkflowInv, WorkflowTypes
<1>3. Evolves /\ DataOK'
  BY <1>1, <1>2, DataUntouched, Zenon DEF CancelRequested
<1>4. QED
  BY <1>1, <1>2, <1>3, ProcessesStay, Zenon

\* Every step of the manager, of the requests, of the engine and of the
\* clients keeps the invariant.
LEMMA InvariantNext ==
  ASSUME WorkflowInv, [Next]_vars
  PROVE  WorkflowInv'
<1>1. CASE UNCHANGED vars
  BY <1>1, InvariantStutters
<1>2. CASE createWorkflow
  BY <1>2, CreateWorkflowStep, Zenon
<1>3. ASSUME NEW k \in Kind,
             RequestStep(k) \/ Disconnect(k) \/ \E m \in Manager : ReceiveRequest(k, m)
      PROVE  WorkflowInv'
  <2>1. CASE WriteRequest(k)
    BY <2>1, RequestWriteStep
  <2>2. CASE CancelRequestRun(k)
    BY <2>2, CancellationSteps
  <2>3. CASE AnswerRequest(k) \/ Disconnect(k)
    BY <2>3, RequestEndSteps
  <2>4. CASE ReadRequestSteps(k) \/ \E m \in Manager : ReceiveRequest(k, m)
    BY <2>4, RequestReadSteps
  <2>5. QED
    BY <1>3, <2>1, <2>2, <2>3, <2>4, Zenon DEF RequestStep
<1>4. ASSUME NEW m \in Manager,
             ManagerStep(m) \/ RenewFails(m) \/ CallFails(m) \/ ExpireHeld(m) \/ Crash(m) \/ Restart(m)
      PROVE  WorkflowInv'
  <2>1. CASE Scan(m) \/ Acquire(m) \/ RenewFails(m) \/ Abort(m) \/ Release(m) \/ CallFails(m)
    BY <2>1, OwnershipSteps, Zenon
  <2>2. CASE LoadRow(m) \/ EmitEnd(m)
    BY <2>2, RoundSteps
  <2>3. CASE LoadSteps(m)
    BY <2>3, LoadStepsStep
  <2>4. CASE RefreshStep(m)
    BY <2>4, RefreshStepStep
  <2>5. CASE Save(m)
    BY <2>5, SaveStep
  <2>6. CASE Finish(m)
    BY <2>6, FinishStep
  <2>7. CASE Fail(m)
    BY <2>7, FailStep
  <2>8. CASE CancelStepRun(m)
    BY <2>8, CancellationSteps, Zenon
  <2>9. CASE CreateStepRun(m)
    BY <2>9, CreateStep
  <2>10. CASE Assign(m)
    BY <2>10, AssignStep
  <2>11. CASE Enqueue(m)
    BY <2>11, EnqueueStep
  <2>12. CASE ExpireHeld(m)
    BY <2>12, OutsideSteps
  <2>13. CASE Crash(m)
    BY <2>13, CrashStep
  <2>14. CASE Restart(m)
    BY <2>14, RestartStep
  <2>15. QED
    BY <1>4, <2>1, <2>2, <2>3, <2>4, <2>5, <2>6, <2>7, <2>8, <2>9, <2>10, <2>11, <2>12, <2>13, <2>14, Zenon
       DEF ManagerStep
<1>5. CASE ExpireAbandoned \/ StreamEvents \/ StreamStatus
  BY <1>5, OutsideSteps
<1>6. ASSUME NEW r \in DOMAIN runs,
             EngineStep(r) \/ RequeueRun(r) \/ CancelRunRequest(r) \/ ExpireCached(r)
      PROVE  WorkflowInv'
  BY <1>6, EngineSteps, OutsideSteps DEF EngineStep
<1>7. QED
  BY <1>1, <1>2, <1>3, <1>4, <1>5, <1>6, Zenon DEF Next

-----------------------------------------------------------------------------
(* What the invariant gives to a client.                                   *)

\* A branch is taken or skipped for the final value of its source.
LEMMA BranchesHold ==
  ASSUME WorkflowInv
  PROVE  BranchesFollowConditions
<1>1. RunsOK /\ SkipsOK
  BY Zenon DEF WorkflowInv
<1>2. ASSUME NEW i \in DOMAIN wf.steps, RunOfStep(i) # {} PROVE ConditionHolds(i)
  <2>1. PICK r \in DOMAIN runs : runs[r].step = i
    BY <1>2 DEF RunOfStep
  <2>2. QED
    BY <1>1, <2>1 DEF RunsOK, RunOK
<1>3. ASSUME NEW i \in DOMAIN wf.steps, SkippedIn(i) PROVE ConditionFails(i)
  BY <1>1, <1>3 DEF SkipsOK
<1>4. QED
  BY <1>2, <1>3, Zenon DEF BranchesFollowConditions, ConditionHolds, ConditionFails

\* A Run has the final outputs of its sources, and the Run of a dependency as parent.
LEMMA InputsHold ==
  ASSUME WorkflowInv
  PROVE  InputsAreFinalOutputs
<1>1. ASSUME NEW r \in DOMAIN runs
      PROVE  /\ runs[r].input = FinalInput(runs[r].step)
             /\ ParentOK(runs[r].step, runs[r].parent)
  BY DEF WorkflowInv, RunsOK, RunOK
<1>2. QED
  BY <1>1, Zenon DEF InputsAreFinalOutputs, FinalInput, ParentOK

\* A workflow ends for a reason.
LEMMA OutcomeHolds ==
  ASSUME WorkflowInv
  PROVE  OutcomeIsExplained
<1>1. WorkflowTypes /\ WorkflowOK
  BY DEF WorkflowInv
<1>2. ASSUME wf.status = "succeeded", NEW i \in DOMAIN wf.steps, ~SkippedIn(i)
      PROVE  \E r \in RunOfStep(i) : /\ runs[r].status = "succeeded"
                                     /\ runs[r].output = wf.steps[i].output
  <2>1. Exists
    BY <1>2 DEF Exists
  <2>2. i \in Position(def) /\ StepOK(wf.steps[i], i)
    BY <1>1, <1>2, <2>1, AcceptedResolves, Zenon DEF CopyOK
  <2>3. wf.steps[i].status = "succeeded"
    BY <1>1, <1>2, <2>2, Zenon DEF WorkflowOK, DoneStep, SkippedIn
  <2>4. PICK r \in DOMAIN runs : r = wf.steps[i].run
    BY <2>2, <2>3, Zenon DEF StepOK
  <2>5. runs[r].step = i /\ runs[r].status = "succeeded" /\ runs[r].output = wf.steps[i].output
    BY <2>2, <2>3, <2>4, Zenon DEF StepOK
  <2>6. QED
    BY <2>5 DEF RunOfStep
<1>3. QED
  BY <1>1, <1>2, Zenon DEF OutcomeIsExplained, WorkflowOK, Faulty, SomeRun, CancelRequested

-----------------------------------------------------------------------------
(* The manager implements the life cycle of a workflow.  Only the writes   *)
(* of the row are steps of it.                                             *)

\* The row before and after it is written, as the life cycle sees it.
LEMMA RowMoves ==
  ASSUME WorkflowTypes, WorkflowOK, Exists, UNCHANGED def,
         NEW c, CopyOK(c), wf' = Written(c), NEW s, NEW t,
         s = [i \in Position(def) |-> StepOf(wf.steps[i])],
         t = [i \in Position(def) |-> StepOf(c.steps[i])]
  PROVE  /\ wf'.status = c.status
         /\ [i \in DOMAIN wf.steps |-> StepOf(wf.steps[i])] = s
         /\ [i \in DOMAIN wf'.steps |-> StepOf(wf'.steps[i])] = t
<1>1. c \in Copy /\ DOMAIN c.steps = Position(def) /\ DOMAIN wf.steps = Position(def)
  BY DefinitionIsNormal, CopyHasSteps, AcceptedResolves, Zenon DEF CopyOK
<1>2. wf'.status = c.status /\ wf'.steps = c.steps
  BY <1>1, Zenon DEF Written, Copy
<1>3. QED
  BY <1>1, <1>2, Zenon

\* The workflow is given up (CancelWorkflow, failWorkflow, refreshSteps).
LEMMA GivingUpIsAllowed ==
  ASSUME WorkflowTypes, WorkflowOK, Exists, UNCHANGED def,
         NEW c, CopyOK(c), wf' = Written(c), c.status \in {"failed", "canceled"},
         wf.status = "running" \/ (wf.status = "pending" /\ c.status = "canceled"),
         \A i \in Position(def) : GivesUp(c.steps[i], wf.steps[i])
  PROVE  Lifecycle!WNext
<1>1. PICK s, t : /\ s = [i \in Position(def) |-> StepOf(wf.steps[i])]
                  /\ t = [i \in Position(def) |-> StepOf(c.steps[i])]
  BY Zenon
<1>2. /\ wf'.status = c.status
      /\ [i \in DOMAIN wf.steps |-> StepOf(wf.steps[i])] = s
      /\ [i \in DOMAIN wf'.steps |-> StepOf(wf'.steps[i])] = t
  BY <1>1, RowMoves
<1>3. PICK S : S = {i \in Position(def) : s[i] = "assigned" /\ t[i] = "lost"}
  BY Zenon
<1>4. ASSUME NEW i \in Position(def)
      PROVE  t[i] = IF i \in S \union {j \in DOMAIN s : s[j] \in {"waiting"}} THEN "lost" ELSE s[i]
  <2>1. GivesUp(c.steps[i], wf.steps[i]) /\ s[i] = StepOf(wf.steps[i]) /\ t[i] = StepOf(c.steps[i])
    BY <1>1, Zenon
  <2>2. s[i] \in {"waiting", "assigned", "skipped"}
    BY <2>1, RowIsRunning, Zenon
  <2>3. QED
    BY <1>1, <1>3, <2>1, <2>2, Zenon DEF GivesUp
<1>5. /\ t = [i \in DOMAIN s |-> IF i \in S \union {j \in DOMAIN s : s[j] \in {"waiting"}}
                                 THEN "lost" ELSE s[i]]
      /\ S \in SUBSET {j \in DOMAIN s : s[j] \in {"assigned"}}
  BY <1>1, <1>3, <1>4, Zenon
<1>6. Lifecycle!WGiveUp
  BY <1>2, <1>5 DEF Lifecycle!WGiveUp, Lifecycle!In
<1>7. QED
  BY <1>6 DEF Lifecycle!WNext

\* A request starts or cancels the workflow.
LEMMA RequestWriteIsAllowed ==
  ASSUME WorkflowInv, NEW k \in Kind, WriteRequest(k), wf' # wf
  PROVE  Lifecycle!WNext
<1>1. /\ WorkflowTypes /\ WorkflowOK /\ req[k] \in Request /\ RequestOK(k, req[k])
      /\ req[k].pc = "write" /\ UNCHANGED def
  BY DEF WorkflowInv, WorkflowTypes, WriteRequest
<1>2. PICK c, res : c = req[k].cand /\ UpdateWorkflow(c, res)
  BY Zenon DEF WriteRequest
<1>3. c \in Copy /\ c.version = wf.version /\ wf' = Written(c)
  BY <1>1, <1>2, UpdateEffect, ZenonT(30) DEF Request
<1>4. /\ c.status = IF k = "start" THEN "running" ELSE "canceled"
      /\ IF k = "start" THEN wf.status = "pending" /\ c.steps = wf.steps
         ELSE wf.status \in {"pending", "running"} /\ c.steps = cancelNonterminalSteps(wf.steps)
  BY <1>1, <1>2, <1>3, Zenon DEF RequestOK
<1>5. Exists /\ CopyOK(wf)
  <2>1. Exists
    BY <1>4 DEF Exists
  <2>2. QED
    BY <1>1, <2>1, AcceptedResolves, Zenon
<1>6. CASE k = "start"
  <2>1. wf'.status = "running" /\ wf'.steps = wf.steps /\ wf.status = "pending"
    BY <1>3, <1>4, <1>6, Zenon DEF Written, Copy
  <2>2. Lifecycle!WStart
    BY <2>1, Zenon DEF Lifecycle!WStart
  <2>3. QED
    BY <1>1, <2>2 DEF Lifecycle!WNext
<1>7. CASE k # "start"
  <2>1. /\ CopyOK(c)
        /\ \A j \in Position(def), w \in Step : Tracks(wf.steps[j], w) => GivesUp(c.steps[j], w)
    BY <1>1, <1>3, <1>4, <1>5, <1>7, GivingUp, Zenon
  <2>2. \A i \in Position(def) : wf.steps[i] \in Step
    BY <1>1, <1>4, <1>7, RowIsRunning, Zenon
  <2>3. \A i \in Position(def) : GivesUp(c.steps[i], wf.steps[i])
    BY <2>1, <2>2, Zenon DEF Tracks
  <2>4. QED
    BY <1>1, <1>3, <1>4, <1>5, <1>7, <2>1, <2>3, GivingUpIsAllowed, Zenon
<1>8. QED
  BY <1>6, <1>7

\* The row a manager writes is the version it read.
LEMMA ManagerWritesRow ==
  ASSUME WorkflowTypes, NEW m \in Manager,
         NEW c \in Copy, \E res \in Result : UpdateWorkflow(c, res), wf' # wf
  PROVE  c.version = wf.version /\ wf' = Written(c)
BY UpdateEffect, Zenon

\* Steps are skipped together with those they wait for (Save).
LEMMA SaveIsAllowed ==
  ASSUME WorkflowInv, NEW m \in Manager, Save(m), wf' # wf
  PROVE  Lifecycle!WNext
<1>1. /\ WorkflowTypes /\ WorkflowOK /\ mgr[m] \in Local /\ LocalOK(mgr[m])
      /\ Started /\ mgr[m].pc = "save" /\ UNCHANGED def
  BY ManagerIsOK DEF Save, At
<1>2. PICK c : c = mgr[m].cand
  BY Zenon
<1>3. c \in Copy /\ CopyOK(c) /\ SavedCopy(c) /\ Exists /\ Resolves(def)
  BY <1>1, <1>2, AcceptedResolves, Zenon DEF LocalOK, Local, Started, Exists
<1>4. c.version = wf.version /\ wf' = Written(c)
  BY <1>1, <1>2, <1>3, ManagerWritesRow, Zenon DEF Save, WriteThen
<1>5. /\ wf.status = "running" /\ c.status = "running"
      /\ \A i \in Position(def) : Tracks(c.steps[i], wf.steps[i]) \/ SkipIsNew(c, i)
  BY <1>3, <1>4, Zenon DEF SavedCopy
<1>6. PICK s, t : /\ s = [i \in Position(def) |-> StepOf(wf.steps[i])]
                  /\ t = [i \in Position(def) |-> StepOf(c.steps[i])]
  BY Zenon
<1>7. /\ wf'.status = c.status
      /\ [i \in DOMAIN wf.steps |-> StepOf(wf.steps[i])] = s
      /\ [i \in DOMAIN wf'.steps |-> StepOf(wf'.steps[i])] = t
  BY <1>1, <1>3, <1>4, <1>6, RowMoves, ZenonT(30)
<1>8. \A i \in Position(def) : c.steps[i] \in Step
  BY <1>1, <1>3, DefinitionIsNormal, CopyHasSteps DEF CopyOK
<1>9. PICK S : S = {i \in Position(def) : SkipIsNew(c, i)}
  BY Zenon
<1>10. ASSUME NEW i \in Position(def)
       PROVE  t[i] = (IF i \in S THEN "skipped" ELSE s[i]) /\ (i \in S => s[i] = "waiting")
  <2>1. CASE i \in S
    <3>1. SkipIsNew(c, i)
      BY <1>9, <2>1, Zenon
    <3>2. StepOf(wf.steps[i]) = "waiting" /\ StepOf(c.steps[i]) = "skipped"
      BY <1>8, <3>1, StepOfStatus, ZenonT(30) DEF SkipIsNew
    <3>3. QED
      BY <1>6, <2>1, <3>2, Zenon
  <2>2. CASE i \notin S
    BY <1>5, <1>6, <1>9, <2>2, Zenon DEF Tracks
  <2>3. QED
    BY <2>1, <2>2, Zenon
<1>11. ASSUME NEW i \in S, NEW k \in DOMAIN def.steps[i].dependsOn
       PROVE  PositionOf(def, def.steps[i].dependsOn[k]) \in
                {j \in DOMAIN s : s[j] \in {"assigned", "skipped"}} \union S
  <2>1. SkipIsNew(c, i) /\ i \in Position(def)
    BY <1>9
  <2>2. PICK ref \in Range(def.steps[i].dependsOn) : ref = def.steps[i].dependsOn[k]
    BY DEF Range
  <2>3. PICK j \in Position(def) : j = PositionOf(def, ref)
    BY <1>3, <2>1, <2>2, Zenon DEF Resolves
  <2>4. c.steps[j].status \in DoneStep
    BY <2>1, <2>2, <2>3, Zenon DEF SkipIsNew
  <2>5. t[j] \in {"assigned", "skipped"}
    BY <1>6, <1>8, <2>4, StepOfStatus, Zenon DEF DoneStep
  <2>6. j \in S \/ s[j] \in {"assigned", "skipped"}
    BY <1>10, <2>5, Zenon
  <2>7. QED
    BY <1>6, <2>2, <2>3, <2>6, Zenon
<1>12. /\ t = [i \in DOMAIN s |-> IF i \in S THEN "skipped" ELSE s[i]]
       /\ S \in SUBSET {j \in DOMAIN s : s[j] \in {"waiting"}}
  BY <1>6, <1>9, <1>10, Zenon
<1>13. \A i \in S : def.steps[i].condition # NoCondition
  BY <1>9, Zenon DEF SkipIsNew
<1>14. wf'.status = wf.status
  BY <1>5, <1>7
<1>15. ASSUME NEW i \in S PROVE Lifecycle!FollowsOnly(i, Lifecycle!In(Lifecycle!Settled) \union S)
  BY <1>7, <1>11, Zenon DEF Lifecycle!In, Lifecycle!FollowsOnly, Lifecycle!Settled
<1>16. Lifecycle!WSkip
  <2>1. S \in SUBSET Lifecycle!In({"waiting"})
    BY <1>7, <1>12, Zenon DEF Lifecycle!In
  <2>2. [i \in DOMAIN wf'.steps |-> StepOf(wf'.steps[i])] =
          [i \in DOMAIN [j \in DOMAIN wf.steps |-> StepOf(wf.steps[j])] |->
             IF i \in S THEN "skipped" ELSE [j \in DOMAIN wf.steps |-> StepOf(wf.steps[j])][i]]
    BY <1>7, <1>12, Zenon
  <2>3. QED
    BY <1>5, <1>13, <1>14, <1>15, <2>1, <2>2, Zenon DEF Lifecycle!WSkip
<1>17. QED
  BY <1>1, <1>16, Zenon DEF Lifecycle!WNext

\* A step gets its Run after its dependencies (Assign).
LEMMA AssignIsAllowed ==
  ASSUME WorkflowInv, NEW m \in Manager, Assign(m), wf' # wf
  PROVE  Lifecycle!WNext
<1>1. WorkflowTypes /\ WorkflowOK /\ Exists /\ Resolves(def) /\ DOMAIN wf.steps = Position(def)
  <2>1. WorkflowTypes /\ WorkflowOK /\ Exists
    BY ManagerIsOK, SMTT(30) DEF Assign, At, Started, Exists
  <2>2. QED
    BY <2>1, AcceptedResolves
<1>2. PICK c, e, i, r : Assigned(c, e, i, r) /\ \E res \in Result : UpdateWorkflow(e, res)
  BY Assignment, Zenon DEF WritesThen
<1>3. UNCHANGED def
  BY ZenonT(30) DEF Assign
<1>4. i \in Position(def) /\ c.steps[i].status = "pending" /\ DependenciesDone(def, c, i)
  BY <1>2, Zenon DEF Assigned, ReadyIn, InputIsComplete
<1>5. e.version = wf.version /\ wf' = Written(e)
  BY <1>1, <1>2, ManagerWritesRow, Zenon DEF Assigned
<1>6. /\ wf.status = "running" /\ e.status = "running"
      /\ \A j \in Position(def) : StepOf(c.steps[j]) = StepOf(wf.steps[j])
  BY <1>2, <1>5, Zenon DEF Assigned, CurrentCopy, Tracks
<1>7. PICK s, t : /\ s = [j \in Position(def) |-> StepOf(wf.steps[j])]
                  /\ t = [j \in Position(def) |-> StepOf(e.steps[j])]
  BY Zenon
<1>8. wf'.status = "running" /\ wf'.steps = e.steps
  BY <1>2, <1>5, <1>6, Zenon DEF Assigned, Written, Copy
<1>9. /\ [j \in DOMAIN wf.steps |-> StepOf(wf.steps[j])] = s
      /\ [j \in DOMAIN wf'.steps |-> StepOf(wf'.steps[j])] = t
  BY <1>1, <1>2, <1>7, <1>8, Zenon DEF Assigned
<1>10. s[i] = "waiting" /\ t[i] = "assigned"
  BY <1>2, <1>4, <1>6, <1>7, StepOfStatus, Zenon DEF Assigned, ActiveStep
<1>11. t = [s EXCEPT ![i] = "assigned"] /\ i \in {j \in DOMAIN s : s[j] \in {"waiting"}}
  BY <1>2, <1>4, <1>6, <1>7, <1>10, Zenon DEF Assigned
<1>12. ASSUME NEW k \in DOMAIN def.steps[i].dependsOn
       PROVE  PositionOf(def, def.steps[i].dependsOn[k]) \in
                {j \in DOMAIN s : s[j] \in {"assigned", "skipped"}}
  <2>1. PICK ref \in Range(def.steps[i].dependsOn) : ref = def.steps[i].dependsOn[k]
    BY Zenon DEF Range
  <2>2. PICK j \in Position(def) : j = PositionOf(def, ref)
    BY <1>1, <1>4, <2>1, Zenon DEF Resolves
  <2>3. c.steps[j].status \in DoneStep
    BY <1>4, <2>1, <2>2, Zenon DEF DependenciesDone
  <2>4. StepOf(c.steps[j]) \in {"assigned", "skipped"}
    BY <1>2, <2>3, StepOfStatus, Zenon DEF Assigned, DoneStep
  <2>5. QED
    BY <1>6, <1>7, <2>1, <2>2, <2>4, Zenon
<1>13. Lifecycle!WAssign
  BY <1>6, <1>8, <1>9, <1>11, <1>12, Zenon
     DEF Lifecycle!WAssign, Lifecycle!In, Lifecycle!FollowsOnly, Lifecycle!Settled
<1>14. QED
  BY <1>3, <1>13 DEF Lifecycle!WNext

\* The workflow ends (Finish, Fail).
LEMMA EndIsAllowed ==
  ASSUME WorkflowInv, NEW m \in Manager, Finish(m) \/ Fail(m), wf' # wf
  PROVE  Lifecycle!WNext
<1>1. /\ WorkflowTypes /\ WorkflowOK /\ mgr[m] \in Local /\ LocalOK(mgr[m])
      /\ Started /\ Exists /\ mgr[m].pc \in {"finish", "fail"}
  BY ManagerIsOK DEF Finish, Fail, At, Started, Exists
<1>2. PICK c : c = mgr[m].cand
  BY Zenon
<1>3. c \in Copy /\ CopyOK(c)
  BY <1>1, <1>2, Zenon DEF LocalOK, Local
<1>4. UNCHANGED def
  BY Zenon DEF Finish, Fail
<1>5. CASE Finish(m)
  <2>1. FinishedCopy(c)
    BY <1>1, <1>2, <1>5 DEF LocalOK, Finish, At
  <2>2. \E res \in Result : UpdateWorkflow(c, res)
    BY <1>2, <1>5, Zenon DEF Finish, WriteThen
  <2>3. c.version = wf.version /\ wf' = Written(c)
    BY <1>1, <1>3, <2>2, ManagerWritesRow, Zenon
  <2>4. /\ wf.status = "running" /\ c.status \in FinishedWorkflow
        /\ c.status = "succeeded" => \A i \in Position(def) : c.steps[i].status \in DoneStep
        /\ \A i \in Position(def) : IF c.status = "succeeded" THEN Tracks(c.steps[i], wf.steps[i])
                                    ELSE GivesUp(c.steps[i], wf.steps[i])
    BY <2>1, <2>3, Zenon DEF FinishedCopy
  <2>5. CASE c.status = "succeeded"
    <3>1. PICK s, t : /\ s = [i \in Position(def) |-> StepOf(wf.steps[i])]
                      /\ t = [i \in Position(def) |-> StepOf(c.steps[i])]
      BY Zenon
    <3>2. /\ wf'.status = c.status
          /\ [i \in DOMAIN wf.steps |-> StepOf(wf.steps[i])] = s
          /\ [i \in DOMAIN wf'.steps |-> StepOf(wf'.steps[i])] = t
      BY <1>1, <1>3, <1>4, <2>3, <3>1, RowMoves, ZenonT(30)
    <3>3. ASSUME NEW i \in Position(def) PROVE s[i] \in {"assigned", "skipped"} /\ t[i] = s[i]
      <4>1. c.steps[i] \in Step /\ c.steps[i].status \in DoneStep
        BY <1>1, <1>3, <2>4, <2>5, DefinitionIsNormal, CopyHasSteps, ZenonT(30) DEF CopyOK
      <4>2. StepOf(c.steps[i]) \in {"assigned", "skipped"} /\ StepOf(c.steps[i]) = StepOf(wf.steps[i])
        BY <2>4, <2>5, <4>1, StepOfStatus, Zenon DEF Tracks, DoneStep
      <4>3. QED
        BY <3>1, <4>2, ZenonT(30)
    <3>4. t = s /\ {i \in DOMAIN s : s[i] \in {"assigned", "skipped"}} = DOMAIN s
      BY <3>1, <3>3
    <3>5. Lifecycle!WSucceed
      BY <2>4, <2>5, <3>2, <3>4, Zenon DEF Lifecycle!WSucceed, Lifecycle!In, Lifecycle!Settled
    <3>6. QED
      BY <1>4, <3>5 DEF Lifecycle!WNext
  <2>6. CASE c.status # "succeeded"
    BY <1>1, <1>3, <1>4, <2>3, <2>4, <2>6, GivingUpIsAllowed, Zenon DEF FinishedWorkflow
  <2>7. QED
    BY <2>5, <2>6
<1>6. CASE Fail(m)
  <2>1. CurrentCopy(c)
    BY <1>1, <1>2, <1>6, Zenon DEF LocalOK, Fail, At
  <2>2. PICK t : t = cancelNonterminalSteps(c.steps)
    BY Zenon
  <2>3. /\ t \in Seq(Step) /\ \A e \in Copy : e.steps = t => CopyOK(e)
        /\ \A j \in Position(def), w \in Step : Tracks(c.steps[j], w) => GivesUp(t[j], w)
    BY <1>1, <1>3, <2>2, GivingUp, Zenon
  <2>4. PICK e : e = [c EXCEPT !.status = "failed", !.steps = t]
    OBVIOUS
  <2>5. e \in Copy /\ e.status = "failed" /\ e.version = c.version /\ e.steps = t
    BY <1>3, <2>3, <2>4, Zenon DEF Copy, WorkflowStatus, FinishedWorkflow
  <2>6. \E res \in Result : UpdateWorkflow(e, res)
    BY <1>2, <1>6, <2>2, <2>4, Zenon DEF Fail
  <2>7. c.version = wf.version /\ wf' = Written(e)
    BY <1>1, <2>5, <2>6, ManagerWritesRow, Zenon
  <2>8. wf.status = "running" /\ \A i \in Position(def) : Tracks(c.steps[i], wf.steps[i])
    BY <2>1, <2>7, Zenon DEF CurrentCopy
  <2>9. \A i \in Position(def) : wf.steps[i] \in Step
    BY <1>1, <2>8, RowIsRunning, Zenon
  <2>10. CopyOK(e) /\ \A i \in Position(def) : GivesUp(e.steps[i], wf.steps[i])
    BY <2>3, <2>5, <2>8, <2>9, Zenon
  <2>11. QED
    BY <1>1, <1>4, <2>5, <2>7, <2>8, <2>10, GivingUpIsAllowed, Zenon
<1>7. QED
  BY <1>5, <1>6

\* The client creates the workflow from a definition that was accepted.
LEMMA CreationIsAllowed ==
  ASSUME WorkflowInv, createWorkflow
  PROVE  Lifecycle!WNext
<1>1. /\ wf = Absent /\ Accepted(def) /\ wf' = InitializeForCreate(def) /\ UNCHANGED def
  BY DEF createWorkflow
<1>2. /\ wf'.status = "pending" /\ DOMAIN wf'.steps = Position(def)
      /\ \A i \in Position(def) : wf'.steps[i] = NewStep
  BY <1>1 DEF InitializeForCreate
<1>3. StepOf(NewStep) = "waiting"
  <2>1. NewStep.status = "pending"
    BY DEF NewStep
  <2>2. QED
    BY <2>1 DEF StepOf, ActiveStep
<1>4. [i \in DOMAIN wf'.steps |-> StepOf(wf'.steps[i])] = [i \in Position(def) |-> "waiting"]
  BY <1>2, <1>3
<1>5. wf.status = "absent"
  BY <1>1 DEF Absent
<1>6. Lifecycle!WCreate
  BY <1>1, <1>2, <1>4, <1>5, Zenon DEF Lifecycle!WCreate
<1>7. QED
  BY <1>1, <1>6 DEF Lifecycle!WNext

\* Every step of the system is a step of the life cycle, or none.
LEMMA StepsAreAllowed ==
  ASSUME WorkflowInv, [Next]_vars
  PROVE  Lifecycle!WNext \/ UNCHANGED <<def, wf>>
<1>1. CASE UNCHANGED vars
  BY <1>1 DEF vars
<1>2. CASE createWorkflow
  BY <1>2, CreationIsAllowed
<1>3. ASSUME NEW k \in Kind,
             RequestStep(k) \/ Disconnect(k) \/ \E m \in Manager : ReceiveRequest(k, m)
      PROVE  Lifecycle!WNext \/ UNCHANGED <<def, wf>>
  <2>1. CASE WriteRequest(k)
    BY <2>1, RequestWriteIsAllowed, Zenon DEF WriteRequest
  <2>2. CASE ReadRequestSteps(k)
    BY <2>2, Zenon DEF ReadRequestSteps
  <2>3. CASE CancelRequestRun(k) \/ AnswerRequest(k) \/ Disconnect(k) \/ \E m \in Manager : ReceiveRequest(k, m)
    BY <2>3, Zenon DEF CancelRequestRun, AnswerRequest, Disconnect, ReceiveRequest
  <2>4. QED
    BY <1>3, <2>1, <2>2, <2>3, SMTT(30) DEF RequestStep
<1>4. ASSUME NEW m \in Manager,
             ManagerStep(m) \/ RenewFails(m) \/ CallFails(m) \/ ExpireHeld(m) \/ Crash(m) \/ Restart(m)
      PROVE  Lifecycle!WNext \/ UNCHANGED <<def, wf>>
  <2>1. CASE Scan(m) \/ Acquire(m) \/ RenewFails(m) \/ Abort(m) \/ Release(m) \/ CallFails(m)
    BY <2>1, Zenon DEF Scan, Acquire, RenewFails, Abort, Release, CallFails
  <2>2. CASE LoadRow(m) \/ EmitEnd(m) \/ LoadSteps(m) \/ CancelStepRun(m) \/ Enqueue(m)
    BY <2>2, Zenon DEF LoadRow, EmitEnd, LoadSteps, CancelStepRun, Enqueue
  <2>3. CASE RefreshStep(m) \/ CreateStepRun(m)
    BY <2>3, Zenon DEF RefreshStep, CreateStepRun
  <2>4. CASE ExpireHeld(m) \/ Crash(m) \/ Restart(m)
    BY <2>4, Zenon DEF ExpireHeld, Crash, Restart
  <2>5. CASE Save(m)
    BY <2>5, SaveIsAllowed DEF Save
  <2>6. CASE Finish(m) \/ Fail(m)
    <3>1. UNCHANGED def
      BY <2>6, Zenon DEF Finish, Fail
    <3>2. QED
      BY <2>6, <3>1, EndIsAllowed
  <2>7. CASE Assign(m)
    <3>1. UNCHANGED def
      BY <2>7, Zenon DEF Assign
    <3>2. QED
      BY <2>7, <3>1, AssignIsAllowed
  <2>8. QED
    BY <1>4, <2>1, <2>2, <2>3, <2>4, <2>5, <2>6, <2>7, Zenon DEF ManagerStep
<1>5. CASE ExpireAbandoned \/ StreamEvents \/ StreamStatus
  BY <1>5, Zenon DEF ExpireAbandoned, StreamEvents, StreamStatus
<1>6. ASSUME NEW r \in DOMAIN runs,
             EngineStep(r) \/ RequeueRun(r) \/ CancelRunRequest(r) \/ ExpireCached(r)
      PROVE  UNCHANGED <<def, wf>>
  BY <1>6, Zenon DEF EngineStep, StartRun, EndRun, RequeueRun, CancelRunRequest, ExpireCached
<1>7. QED
  BY <1>1, <1>2, <1>3, <1>4, <1>5, <1>6, Zenon DEF Next
=============================================================================
