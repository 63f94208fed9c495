----------------------- MODULE WorkflowManagerProofs ------------------------
(***************************************************************************)
(* What the promises of the workflow manager rest on, for every set of     *)
(* definitions, managers, answers and faults, and why the steps that write *)
(* neither the rows of the workflow nor a new Run keep it.  Nothing rests  *)
(* on the lease: a copy is written only over the version it was read from, *)
(* and a step has one idempotency key.                                     *)
(***************************************************************************)
EXTENDS WorkflowProperties, WorkflowFunctions, TLAPS

RunStatus == ActiveRun \union FinishedWorkflow

Run == [step : Nat, status : RunStatus, output : STRING, enqueued : BOOLEAN,
        parent : Nat, input : Seq(STRING)]

Pc == {"idle", "down", "acquire", "release", "row", "steps", "refresh", "save", "create",
       "assign", "enqueue", "fail", "finish", "ending"}

Local == [pc : Pc, cand : Copy, pick : Nat, changed : BOOLEAN, todo : Seq(Nat), done : BOOLEAN]

Request == [pc : {"none", "steps", "write", "after", "over"}, proc : Manager \union {None},
            cand : Copy, todo : Seq(Nat)]

WorkflowTypes ==
  /\ Sound(def)
  /\ wf \in Copy
  /\ runs \in Seq(Run)
  /\ older \in Seq(ActiveRun \union {None})
  /\ Len(older) = Len(runs)
  /\ mgr \in [Manager -> Local]
  /\ req \in [Kind -> Request]
  /\ faults \in Nat

-----------------------------------------------------------------------------
(* The inductive invariant.                                                *)

Exists == wf.status # "absent"
Started == wf.status \notin {"absent", "pending"}

\* Step i is over: it is skipped, or its Run succeeded.
Over(i) == SkippedIn(i) \/ \E r \in RunOfStep(i) : runs[r].status = "succeeded"

DependenciesOver(i) == \A ref \in Range(def.steps[i].dependsOn) : Over(PositionOf(def, ref))

\* What a step of a copy says of its Run is so, however old the copy is.
StepOK(s, i) ==
  /\ s.status \in {"pending", "skipped"} => s.run = 0 /\ s.output = ""
  /\ s.status \in ActiveStep \union {"succeeded"} => s.run # 0
  /\ s.run # 0 => s.run \in DOMAIN runs /\ runs[s.run].step = i
  /\ s.status = "succeeded" => runs[s.run].status = "succeeded" /\ runs[s.run].output = s.output

CopyOK(c) == Fits(def, c) /\ \A i \in Position(def) : StepOK(c.steps[i], i)

Faulty(kind) == kind \in FaultKinds /\ faults > 0
SomeRun(status) == \E r \in DOMAIN runs : runs[r].status = status
CancelRequested == "cancel" \in Kind /\ req["cancel"].pc # "none"

WorkflowOK ==
  /\ ~Exists => wf = Absent /\ runs = <<>>
  /\ Exists => Accepted(def) /\ CopyOK(wf)
  /\ wf.status \in {"pending", "running"} =>
       \A i \in Position(def) : wf.steps[i].status \notin {"failed", "canceled"}
  /\ wf.status = "succeeded" => \A i \in Position(def) : wf.steps[i].status \in DoneStep
  /\ wf.status = "failed" => Faulty("call") \/ SomeRun("failed")
  /\ wf.status = "canceled" => CancelRequested \/ SomeRun("canceled")

\* The condition of step i, if there is one, holds for the final value of its source.
ConditionHolds(i) ==
  def.steps[i].condition # NoCondition =>
    evaluateCondition(FinalValue(def.steps[i].condition.source), def.steps[i].condition)

\* Step i is not to run: its condition fails for the final value of its source.
ConditionFails(i) ==
  /\ def.steps[i].condition # NoCondition
  /\ ~evaluateCondition(FinalValue(def.steps[i].condition.source), def.steps[i].condition)

FinalInput(i) ==
  IF def.steps[i].inputFrom = <<>> THEN <<def.steps[i].input>>
  ELSE [k \in DOMAIN def.steps[i].inputFrom |-> FinalValue(def.steps[i].inputFrom[k])]

ParentOK(i, p) ==
  p # 0 => \E ref \in Range(def.steps[i].dependsOn) : p \in RunOfStep(PositionOf(def, ref))

\* A Run of step i with this input and parent is right.
RunOK(i, input, parent) ==
  /\ i \in Position(def)
  /\ DependenciesOver(i)
  /\ ConditionHolds(i)
  /\ input = FinalInput(i)
  /\ ParentOK(i, parent)

SkippedHasNoRun == \A i \in DOMAIN wf.steps : SkippedIn(i) => RunOfStep(i) = {}

RunsOK == \A r \in DOMAIN runs : RunOK(runs[r].step, runs[r].input, runs[r].parent)
SkipsOK == \A i \in DOMAIN wf.steps : SkippedIn(i) => DependenciesOver(i) /\ ConditionFails(i)

-----------------------------------------------------------------------------
(* What a process may have in hand.  A copy that is as new as the row says *)
(* how far it differs from the row; an older one is never written.         *)

Tracks(s, t) == s.run = t.run /\ StepOf(s) = StepOf(t)

\* A copy that was read, with what its Runs say now.
CurrentCopy(c) ==
  /\ c.status = "running"
  /\ \A i \in Position(def) : c.steps[i].status = "skipped" => SkippedIn(i)
  /\ c.version = wf.version =>
       wf.status = "running" /\ \A i \in Position(def) : Tracks(c.steps[i], wf.steps[i])

\* The copy skips step i, and has the reasons.
SkipIsNew(c, i) ==
  /\ StepOf(wf.steps[i]) = "waiting"
  /\ c.steps[i].status = "skipped"
  /\ c.steps[i].run = wf.steps[i].run
  /\ def.steps[i].condition # NoCondition
  /\ ~evaluateCondition(ValueOf(def, c, def.steps[i].condition.source), def.steps[i].condition)
  /\ \A ref \in Range(def.steps[i].dependsOn) :
       LET j == PositionOf(def, ref)
       IN /\ c.steps[j].status \in DoneStep
          /\ c.steps[j].status = "skipped" => SkippedIn(j) \/ j < i

SavedCopy(c) ==
  /\ c.status = "running"
  /\ c.version = wf.version =>
       /\ wf.status = "running"
       /\ \A i \in Position(def) : Tracks(c.steps[i], wf.steps[i]) \/ SkipIsNew(c, i)

\* The copy gives up what waits and may give up what is assigned.
GivesUp(s, t) ==
  /\ s.run = t.run
  /\ StepOf(t) = "waiting" => StepOf(s) = "lost"
  /\ StepOf(t) = "assigned" => StepOf(s) \in {"assigned", "lost"}
  /\ StepOf(t) = "skipped" => StepOf(s) = "skipped"

FinishedCopy(c) ==
  /\ c.status \in FinishedWorkflow
  /\ c.status = "succeeded" => \A i \in Position(def) : c.steps[i].status \in DoneStep
  /\ c.status \in {"failed", "canceled"} => SomeRun(c.status)
  /\ c.version = wf.version =>
       /\ wf.status = "running"
       /\ \A i \in Position(def) : IF c.status = "succeeded" THEN Tracks(c.steps[i], wf.steps[i])
                                   ELSE GivesUp(c.steps[i], wf.steps[i])

\* Step i can start now, for all the copy knows.
ReadyIn(c, i) ==
  /\ i \in Position(def)
  /\ c.steps[i].status = "pending"
  /\ InputIsComplete(def, c, i)
  /\ def.steps[i].condition # NoCondition =>
       evaluateCondition(ValueOf(def, c, def.steps[i].condition.source), def.steps[i].condition)
  /\ activeStepCount(c) < Concurrency

LocalOK(l) ==
  /\ l.pc \notin {"idle", "down"} \/ l.done => Started
  /\ l.pc = "steps" => /\ l.cand.status = "running"
                       /\ l.cand.version <= wf.version
                       /\ l.cand.version = wf.version => wf.status = "running"
  /\ l.pc \in {"refresh", "save", "create", "assign", "fail", "finish"} =>
       CopyOK(l.cand) /\ l.cand.version <= wf.version
  /\ l.pc \in {"refresh", "create", "assign", "fail"} => CurrentCopy(l.cand)
  /\ l.pc = "refresh" => l.pick \in ToRefresh(l.cand, 1)
  /\ l.pc = "save" => SavedCopy(l.cand)
  /\ l.pc \in {"create", "assign"} => ReadyIn(l.cand, l.pick)
  /\ l.pc = "assign" => RunOfStep(l.pick) # {}
  /\ l.pc = "fail" /\ l.cand.version = wf.version => Faulty("call")
  /\ l.pc = "finish" => FinishedCopy(l.cand)

RequestOK(k, q) ==
  /\ q.pc = "steps" =>
       /\ q.cand.version <= wf.version
       /\ q.cand.version = wf.version =>
            wf.status \in (IF k = "start" THEN {"pending"} ELSE {"pending", "running"})
  /\ q.pc = "write" =>
       /\ q.cand.version <= wf.version
       /\ q.cand.status = IF k = "start" THEN "running" ELSE "canceled"
       /\ q.cand.version = wf.version =>
            IF k = "start" THEN wf.status = "pending" /\ q.cand.steps = wf.steps
            ELSE /\ wf.status \in {"pending", "running"}
                 /\ q.cand.steps = cancelNonterminalSteps(wf.steps)
  /\ k = "start" /\ q.pc = "after" => Started

WorkflowInv ==
  /\ WorkflowTypes
  /\ WorkflowOK
  /\ OneRunPerStep
  /\ SkippedHasNoRun
  /\ RunsOK
  /\ SkipsOK
  /\ ConcurrencyIsBounded
  /\ \A m \in Manager : LocalOK(mgr[m])
  /\ \A k \in Kind : RequestOK(k, req[k])

-----------------------------------------------------------------------------
(* Sequences.                                                              *)

LEMMA SequenceIsTyped ==
  ASSUME NEW T, NEW s \in Seq(T)
  PROVE  Len(s) \in Nat /\ DOMAIN s = 1..Len(s) /\ s \in [1..Len(s) -> T]
OBVIOUS

LEMMA ElementIsTyped ==
  ASSUME NEW T, NEW s \in Seq(T), NEW n \in 1..Len(s)
  PROVE  s[n] \in T
OBVIOUS

LEMMA SequenceIsEmpty ==
  ASSUME NEW T
  PROVE  /\ <<>> \in Seq(T) /\ Len(<<>>) = 0
         /\ \A s \in Seq(T) : s # <<>> => Len(s) \in Nat \ {0}
OBVIOUS

LEMMA SequenceIsUpdated ==
  ASSUME NEW T, NEW s \in Seq(T), NEW i \in 1..Len(s), NEW x \in T
  PROVE  /\ [s EXCEPT ![i] = x] \in Seq(T) /\ Len([s EXCEPT ![i] = x]) = Len(s)
         /\ \A j \in 1..Len(s) : [s EXCEPT ![i] = x][j] = IF j = i THEN x ELSE s[j]
OBVIOUS

LEMMA SequenceIsExtended ==
  ASSUME NEW T, NEW s \in Seq(T), NEW x \in T
  PROVE  /\ Append(s, x) \in Seq(T) /\ Len(Append(s, x)) = Len(s) + 1
         /\ \A i \in 1..Len(s) : Append(s, x)[i] = s[i]
         /\ Append(s, x)[Len(s) + 1] = x
OBVIOUS

LEMMA SequenceIsShortened ==
  ASSUME NEW T, NEW s \in Seq(T), s # <<>>
  PROVE  Head(s) \in T /\ Tail(s) \in Seq(T)
OBVIOUS

-----------------------------------------------------------------------------
(* The functions of the manager on copies of any size.                     *)

\* The definition is what the client sent, normalized (Normalize).
LEMMA DefinitionIsNormal ==
  ASSUME WorkflowTypes
  PROVE  /\ def \in Definition
         /\ \A i \in Position(def) : IsInjective(def.steps[i].dependsOn)
         /\ Len(def.steps) \in Nat /\ Position(def) = 1..Len(def.steps)
<1>1. def \in Definition /\ \A i \in Position(def) : IsInjective(def.steps[i].dependsOn)
  BY DEF WorkflowTypes, Sound
<1>2. QED
  BY <1>1, SequenceIsTyped DEF Definition, Position

\* A copy has one step for each of the definition.
LEMMA CopyHasSteps ==
  ASSUME NEW d \in Definition, NEW c, Fits(d, c)
  PROVE  /\ c \in Copy /\ c.steps \in Seq(Step) /\ Len(c.steps) = Len(d.steps)
         /\ c.status \in WorkflowStatus /\ c.version \in Nat
         /\ DOMAIN c.steps = Position(d) /\ DOMAIN c.steps = 1..Len(c.steps)
         /\ \A i \in Position(d) : c.steps[i] \in Step
<1>1. c \in Copy /\ c.steps \in Seq(Step) /\ Len(c.steps) = Len(d.steps)
  BY DEF Fits, Copy
<1>2. QED
  BY <1>1, SequenceIsTyped, ElementIsTyped DEF Position, Copy

\* What the life cycle calls the status of a step.
LEMMA StepOfStatus ==
  ASSUME NEW s \in Step
  PROVE  /\ s.status \in StepStatus
         /\ StepOf(s) = "waiting" <=> s.status = "pending"
         /\ StepOf(s) = "assigned" <=> s.status \in ActiveStep \union {"succeeded"}
         /\ StepOf(s) = "skipped" <=> s.status = "skipped"
         /\ StepOf(s) = "lost" <=> s.status \in {"failed", "canceled"}
         /\ StepOf(s) \in {"waiting", "assigned", "skipped", "lost"}
<1>1. PICK status : status = s.status
  OBVIOUS
<1>2. status \in {"pending", "failed", "canceled", "queued", "running", "succeeded", "skipped"}
  BY <1>1 DEF Step, StepStatus, ActiveStep, DoneStep
<1>3. CASE status = "pending"
  BY <1>1, <1>3 DEF StepOf, ActiveStep, StepStatus
<1>4. CASE status \in {"queued", "running", "succeeded"}
  BY <1>1, <1>4 DEF StepOf, ActiveStep, StepStatus, DoneStep
<1>5. CASE status = "skipped"
  BY <1>1, <1>5 DEF StepOf, ActiveStep, StepStatus, DoneStep
<1>6. CASE status \in {"failed", "canceled"}
  BY <1>1, <1>6 DEF StepOf, ActiveStep, StepStatus
<1>7. QED
  BY <1>2, <1>3, <1>4, <1>5, <1>6

\* The first element of a set of numbers.
LEMMA MinIsLeast ==
  ASSUME WorkflowTypes, NEW S \in SUBSET Nat, S # {}
  PROVE  Min(S) \in S /\ \A x \in S : Min(S) <= x
<1>1. \E n \in S : \A x \in S : n <= x
  BY DEF WorkflowTypes, Sound, LoopsAreOrderly
<1>2. QED
  BY <1>1, Zenon DEF Min

\* Counting steps.
LEMMA CountsOfSteps ==
  ASSUME WorkflowTypes, NEW A \in SUBSET Position(def)
  PROVE  /\ Cardinality(A) \in Nat /\ (Cardinality(A) = 0 <=> A = {})
         /\ \A B \in SUBSET A : Cardinality(B) \in Nat /\ Cardinality(B) <= Cardinality(A)
         /\ \A i \in Position(def) : Cardinality(A \union {i}) <= Cardinality(A) + 1
         /\ Cardinality({}) = 0
<1>1. Countable(def)
  BY DEF WorkflowTypes, Sound
<1>2. {} \in SUBSET Position(def) /\ \A B \in SUBSET A : B \in SUBSET Position(def)
  OBVIOUS
<1>3. QED
  BY <1>1, <1>2 DEF Countable

\* The only element of a set.
LEMMA OnlyElement ==
  ASSUME NEW r \in Nat
  PROVE  Min({r}) = r /\ Max({r}) = r
<1>1. Min({r}) = r
  <2>1. \E x \in {r} : \A y \in {r} : x <= y
    OBVIOUS
  <2>2. QED
    BY <2>1 DEF Min
<1>2. Max({r}) = r
  <2>1. \E x \in {r} : \A y \in {r} : x >= y
    OBVIOUS
  <2>2. QED
    BY <2>1 DEF Max
<1>3. QED
  BY <1>1, <1>2

\* cancelNonterminalSteps changes the status of the steps that are not finished.
LEMMA StepsAreCanceled ==
  ASSUME NEW steps \in Seq(Step), NEW t, t = cancelNonterminalSteps(steps)
  PROVE  /\ t \in Seq(Step) /\ Len(t) = Len(steps) /\ DOMAIN t = DOMAIN steps
         /\ \A i \in DOMAIN steps :
              IF steps[i].status \in {"pending"} \union ActiveStep
              THEN /\ t[i].status = "canceled"
                   /\ t[i].run = steps[i].run /\ t[i].output = steps[i].output
              ELSE t[i] = steps[i]
<1>1. Len(steps) \in Nat /\ DOMAIN steps = 1..Len(steps) /\ \A i \in DOMAIN steps : steps[i] \in Step
  BY SequenceIsTyped, ElementIsTyped
<1>2. ASSUME NEW s \in Step
      PROVE  /\ [s EXCEPT !.status = "canceled"] \in Step
             /\ [s EXCEPT !.status = "canceled"].status = "canceled"
             /\ [s EXCEPT !.status = "canceled"].run = s.run
             /\ [s EXCEPT !.status = "canceled"].output = s.output
  BY DEF Step, StepStatus
<1>3. t = [i \in 1..Len(steps) |->
             IF steps[i].status \in {"pending"} \union ActiveStep
             THEN [steps[i] EXCEPT !.status = "canceled"] ELSE steps[i]]
  BY <1>1 DEF cancelNonterminalSteps
<1>4. \A i \in 1..Len(steps) : t[i] \in Step
  BY <1>1, <1>2, <1>3
<1>5. t \in Seq(Step) /\ Len(t) = Len(steps) /\ DOMAIN t = 1..Len(steps)
  BY <1>1, <1>3, <1>4
<1>6. QED
  BY <1>1, <1>2, <1>3, <1>5

\* The Runs of some steps.
LEMMA RunsOfIsTyped ==
  ASSUME WorkflowTypes, NEW steps \in Seq(Step), NEW S
  PROVE  RunsOf(steps, S) \in Seq(Nat)
<1>0. Len(steps) \in Nat /\ DOMAIN steps = 1..Len(steps) /\ \A i \in DOMAIN steps : steps[i] \in Step
  BY SequenceIsTyped, ElementIsTyped
<1>1. Len(steps) \in Nat /\ DOMAIN steps = 1..Len(steps) /\ \A i \in DOMAIN steps : steps[i].run \in Nat
  BY <1>0 DEF Step
<1>2. PICK chosen : chosen = Ascending(Len(steps), S)
  OBVIOUS
<1>3. chosen \in Seq(1..Len(steps))
  BY <1>1, <1>2 DEF WorkflowTypes, Sound, LoopsAreOrderly
<1>4. Len(chosen) \in Nat /\ DOMAIN chosen = 1..Len(chosen) /\ \A j \in DOMAIN chosen : chosen[j] \in 1..Len(steps)
  BY <1>3, SequenceIsTyped, ElementIsTyped
<1>5. RunsOf(steps, S) = [j \in 1..Len(chosen) |-> steps[chosen[j]].run]
  BY <1>2, <1>4 DEF RunsOf
<1>6. \A j \in 1..Len(chosen) : steps[chosen[j]].run \in Nat
  BY <1>1, <1>4
<1>7. QED
  BY <1>4, <1>5, <1>6

-----------------------------------------------------------------------------
(* Copies and Runs.                                                        *)

\* What does not depend on the processes.
Core == WorkflowTypes /\ WorkflowOK /\ OneRunPerStep /\ SkippedHasNoRun

\* The references of an accepted definition are references to its steps.
LEMMA AcceptedResolves ==
  ASSUME WorkflowTypes, WorkflowOK, Exists
  PROVE  /\ Accepted(def) /\ ValidDefinition(def) /\ Resolves(def) /\ WellReferenced(def)
         /\ Fits(def, wf) /\ DOMAIN wf.steps = Position(def) /\ CopyOK(wf)
<1>1. Accepted(def) /\ CopyOK(wf)
  BY DEF WorkflowOK
<1>2. ValidDefinition(def) /\ Fits(def, wf)
  BY <1>1 DEF Accepted, CopyOK
<1>3. Resolves(def)
  BY <1>2 DEF WorkflowTypes, Sound
<1>4. WellReferenced(def)
  BY <1>2, DefinitionIsNormal, Zenon DEF WellReferenced, ValidDefinition, validateStep
<1>5. DOMAIN wf.steps = Position(def)
  BY <1>2, DefinitionIsNormal, CopyHasSteps
<1>6. QED
  BY <1>1, <1>2, <1>3, <1>4, <1>5

\* Runs are records with their positions.
LEMMA RunIsTyped ==
  ASSUME WorkflowTypes
  PROVE  /\ DOMAIN runs = 1..Len(runs) /\ Len(runs) \in Nat
         /\ DOMAIN older = DOMAIN runs
         /\ \A r \in DOMAIN runs : runs[r] \in Run /\ older[r] \in ActiveRun \union {None}
         /\ \A i : RunOfStep(i) \in SUBSET Nat
<1>1. runs \in Seq(Run) /\ older \in Seq(ActiveRun \union {None}) /\ Len(older) = Len(runs)
  BY DEF WorkflowTypes
<1>2. DOMAIN runs = 1..Len(runs) /\ Len(runs) \in Nat /\ DOMAIN older = 1..Len(runs)
  BY <1>1, SequenceIsTyped
<1>3. \A r \in DOMAIN runs : runs[r] \in Run /\ older[r] \in ActiveRun \union {None}
  BY <1>1, <1>2, ElementIsTyped
<1>4. \A i : RunOfStep(i) \in SUBSET Nat
  BY <1>2 DEF RunOfStep
<1>5. QED
  BY <1>2, <1>3, <1>4

\* A step that has a Run has only this one.
LEMMA RunOfStepIsOne ==
  ASSUME WorkflowTypes, OneRunPerStep, NEW r \in DOMAIN runs, NEW i, runs[r].step = i
  PROVE  RunOfStep(i) = {r} /\ Min(RunOfStep(i)) = r /\ Max(RunOfStep(i)) = r
<1>1. RunOfStep(i) = {r}
  BY DEF RunOfStep, OneRunPerStep
<1>2. r \in Nat
  BY RunIsTyped
<1>3. QED
  BY <1>1, <1>2, OnlyElement

\* A copy whose skipped steps are skipped, however old it is.
SoundCopy(c) == CopyOK(c) /\ \A i \in Position(def) : c.steps[i].status = "skipped" => SkippedIn(i)

\* What a copy says of a step that is done is final.
LEMMA DoneIsFinal ==
  ASSUME Core, Exists, NEW c, SoundCopy(c), NEW j \in Position(def), c.steps[j].status \in DoneStep
  PROVE  /\ Over(j)
         /\ c.steps[j].output = IF SkippedIn(j) THEN "" ELSE runs[Min(RunOfStep(j))].output
<1>1. StepOK(c.steps[j], j)
  BY DEF SoundCopy, CopyOK
<1>2. CASE c.steps[j].status = "skipped"
  BY <1>1, <1>2, Zenon DEF SoundCopy, StepOK, Over
<1>3. CASE c.steps[j].status = "succeeded"
  <2>1. PICK r \in DOMAIN runs : /\ runs[r].step = j /\ runs[r].status = "succeeded"
                                 /\ runs[r].output = c.steps[j].output
    BY <1>1, <1>3 DEF StepOK
  <2>2. RunOfStep(j) = {r} /\ Min(RunOfStep(j)) = r
    BY <2>1, RunOfStepIsOne DEF Core
  <2>3. ~SkippedIn(j)
    BY <2>2, AcceptedResolves DEF Core, SkippedHasNoRun
  <2>4. QED
    BY <2>1, <2>2, <2>3 DEF Over
<1>4. QED
  BY <1>2, <1>3, Zenon DEF DoneStep

\* The values a copy has of the steps that are done are the final ones.
LEMMA ValuesAreFinal ==
  ASSUME Core, Exists, NEW c, SoundCopy(c), NEW ref,
         ref # WorkflowInput => /\ PositionOf(def, ref) \in Position(def)
                                /\ c.steps[PositionOf(def, ref)].status \in DoneStep
  PROVE  ValueOf(def, c, ref) = FinalValue(ref)
BY DoneIsFinal, Zenon DEF ValueOf, FinalValue

\* A step whose dependencies are done in a copy can go by them.
LEMMA DependenciesAreFinal ==
  ASSUME Core, Exists, NEW c, SoundCopy(c), NEW i \in Position(def), DependenciesDone(def, c, i)
  PROVE  /\ DependenciesOver(i)
         /\ def.steps[i].condition # NoCondition =>
              ValueOf(def, c, def.steps[i].condition.source) = FinalValue(def.steps[i].condition.source)
<1>1. Resolves(def)
  BY AcceptedResolves DEF Core
<1>2. ASSUME NEW ref \in Range(def.steps[i].dependsOn)
      PROVE  PositionOf(def, ref) \in Position(def) /\ c.steps[PositionOf(def, ref)].status \in DoneStep
  BY <1>1 DEF Resolves, DependenciesDone
<1>3. DependenciesOver(i)
  BY <1>2, DoneIsFinal, Zenon DEF DependenciesOver
<1>4. ASSUME def.steps[i].condition # NoCondition
      PROVE  ValueOf(def, c, def.steps[i].condition.source) = FinalValue(def.steps[i].condition.source)
  <2>1. def.steps[i].condition.source \in Range(def.steps[i].dependsOn) \union {WorkflowInput}
    BY <1>1, <1>4 DEF Resolves, ValidCondition
  <2>2. QED
    BY <1>2, <2>1, ValuesAreFinal
<1>5. QED
  BY <1>3, <1>4

-----------------------------------------------------------------------------
(* What every step of the system leaves as it is, and what rests on it.    *)

Evolves ==
  /\ UNCHANGED def
  /\ DOMAIN runs \subseteq DOMAIN runs'
  /\ \A r \in DOMAIN runs :
       /\ runs'[r].step = runs[r].step
       /\ runs'[r].input = runs[r].input
       /\ runs'[r].parent = runs[r].parent
       /\ runs[r].status \notin ActiveRun =>
            runs'[r].status = runs[r].status /\ runs'[r].output = runs[r].output
  /\ wf' = wf \/ wf'.version > wf.version
  /\ Exists => Exists' /\ DOMAIN wf'.steps = DOMAIN wf.steps
  /\ \A i \in DOMAIN wf.steps : SkippedIn(i) => SkippedIn(i)'
  /\ Started => Started'
  /\ \A kind \in FaultKinds : Faulty(kind) => Faulty(kind)'
  /\ CancelRequested => CancelRequested'

\* A copy stays right.
LEMMA CopyStaysOK ==
  ASSUME Evolves, NEW c, CopyOK(c)
  PROVE  CopyOK(c)'
<1>1. ASSUME NEW i \in Position(def), NEW s, StepOK(s, i) PROVE StepOK(s, i)'
  <2>1. s.run # 0 => s.run \in DOMAIN runs' /\ runs'[s.run].step = i
    BY <1>1, Zenon DEF Evolves, StepOK
  <2>2. s.status = "succeeded" => runs'[s.run].status = "succeeded" /\ runs'[s.run].output = s.output
    BY <1>1 DEF Evolves, StepOK, ActiveRun
  <2>3. QED
    BY <1>1, <2>1, <2>2, Zenon DEF StepOK
<1>2. def' = def
  BY DEF Evolves
<1>3. QED
  BY <1>1, <1>2 DEF CopyOK, Fits, Position

\* What a process has in hand stays right while others go on.
LEMMA LocalStaysOK ==
  ASSUME WorkflowTypes, WorkflowTypes', WorkflowOK, Evolves, NEW l \in Local, LocalOK(l)
  PROVE  LocalOK(l)'
<1>1. def' = def /\ (Started => Started')
  BY DEF Evolves
<1>2. wf.version \in Nat /\ wf'.version \in Nat /\ l.cand.version \in Nat
  BY DEF WorkflowTypes, Copy, Local
<1>3. wf' = wf \/ wf'.version > wf.version
  BY DEF Evolves
<1>4. ASSUME l.cand.version <= wf.version
      PROVE  /\ l.cand.version <= wf'.version
             /\ l.cand.version = wf'.version => wf' = wf /\ l.cand.version = wf.version
  BY <1>2, <1>3, <1>4
<1>5. ASSUME NEW i \in Position(def), Started, SkippedIn(i) PROVE SkippedIn(i)'
  <2>1. DOMAIN wf.steps = Position(def)
    BY <1>5, AcceptedResolves DEF Started, Exists
  <2>2. QED
    BY <1>5, <2>1 DEF Evolves
<1>6. \A status \in {"failed", "canceled"} : SomeRun(status) => SomeRun(status)'
  BY DEF SomeRun, Evolves, ActiveRun
<1>7. \A i : RunOfStep(i) # {} => RunOfStep(i)' # {}
  BY DEF RunOfStep, Evolves
<1>8. Faulty("call") => Faulty("call")'
  BY DEF Evolves, Faulty
<1>9. l.pc \notin {"idle", "down"} \/ l.done => Started'
  BY <1>1 DEF LocalOK
<1>10. l.pc = "steps" => /\ l.cand.status = "running"
                         /\ l.cand.version <= wf'.version
                         /\ l.cand.version = wf'.version => wf'.status = "running"
  BY <1>4 DEF LocalOK
<1>11. l.pc \in {"refresh", "save", "create", "assign", "fail", "finish"} =>
         CopyOK(l.cand)' /\ l.cand.version <= wf'.version
  <2>1. CopyOK(l.cand) => CopyOK(l.cand)'
    BY CopyStaysOK
  <2>2. QED
    BY <1>4, <2>1 DEF LocalOK
<1>12. l.pc \in {"refresh", "create", "assign", "fail"} => CurrentCopy(l.cand)'
  <2> SUFFICES ASSUME l.pc \in {"refresh", "create", "assign", "fail"} PROVE CurrentCopy(l.cand)'
    OBVIOUS
  <2>1. CurrentCopy(l.cand) /\ Started /\ l.cand.version <= wf.version
    BY DEF LocalOK
  <2>2. QED
    BY <1>1, <1>4, <1>5, <2>1 DEF CurrentCopy, Position, Tracks
<1>13. l.pc = "save" => SavedCopy(l.cand)'
  <2> SUFFICES ASSUME l.pc = "save" PROVE SavedCopy(l.cand)'
    OBVIOUS
  <2>1. SavedCopy(l.cand) /\ l.cand.version <= wf.version
    BY Zenon DEF LocalOK
  <2>2. QED
    BY <1>1, <1>4, <2>1 DEF SavedCopy, Position, Tracks, SkipIsNew, SkippedIn
<1>14. l.pc \in {"create", "assign"} => ReadyIn(l.cand, l.pick)'
  BY <1>1 DEF LocalOK, ReadyIn
<1>15. l.pc = "fail" /\ l.cand.version = wf'.version => Faulty("call")'
  BY <1>4, <1>8 DEF LocalOK
<1>16. l.pc = "finish" => FinishedCopy(l.cand)'
  <2> SUFFICES ASSUME l.pc = "finish" PROVE FinishedCopy(l.cand)'
    OBVIOUS
  <2>1. FinishedCopy(l.cand) /\ l.cand.version <= wf.version
    BY DEF LocalOK
  <2>2. QED
    BY <1>1, <1>4, <1>6, <2>1 DEF FinishedCopy, Position, Tracks, GivesUp
<1>17. QED
  BY <1>7, <1>9, <1>10, <1>11, <1>12, <1>13, <1>14, <1>15, <1>16 DEF LocalOK

\* What a request has in hand stays right while others go on.
LEMMA RequestStaysOK ==
  ASSUME WorkflowTypes, WorkflowTypes', Evolves, NEW k, NEW q \in Request, RequestOK(k, q)
  PROVE  RequestOK(k, q)'
<1>1. wf.version \in Nat /\ wf'.version \in Nat /\ q.cand.version \in Nat
  BY DEF WorkflowTypes, Copy, Request
<1>2. (wf' = wf \/ wf'.version > wf.version) /\ (Started => Started')
  BY DEF Evolves
<1>3. ASSUME q.cand.version <= wf.version
      PROVE  /\ q.cand.version <= wf'.version
             /\ q.cand.version = wf'.version => wf' = wf /\ q.cand.version = wf.version
  BY <1>1, <1>2, <1>3
<1>4. QED
  BY <1>2, <1>3 DEF RequestOK

\* What is over stays over, with the same output: the status of a Run that
\* succeeded and a skip are final.
LEMMA OverIsFinal ==
  ASSUME Core, Exists, Evolves, WorkflowTypes', OneRunPerStep', SkippedHasNoRun',
         NEW ref, PositionOf(def, ref) \in Position(def), Over(PositionOf(def, ref))
  PROVE  Over(PositionOf(def, ref))' /\ FinalValue(ref)' = FinalValue(ref)
<1>1. PICK j \in Position(def) : j = PositionOf(def, ref)
  OBVIOUS
<1>2. def' = def /\ DOMAIN wf.steps = Position(def) /\ DOMAIN wf'.steps = Position(def)
  BY AcceptedResolves DEF Core, Evolves
<1>3. CASE SkippedIn(j)
  <2>1. SkippedIn(j)'
    BY <1>2, <1>3 DEF Evolves
  <2>2. QED
    BY <1>1, <1>2, <1>3, <2>1 DEF Over, FinalValue, PositionOf, Position
<1>4. CASE ~SkippedIn(j)
  <2>1. PICK r \in DOMAIN runs : runs[r].step = j /\ runs[r].status = "succeeded"
    BY <1>1, <1>4 DEF Over, RunOfStep
  <2>2. Min(RunOfStep(j)) = r /\ r \in Nat
    BY <2>1, RunOfStepIsOne, RunIsTyped DEF Core
  <2>3. /\ r \in DOMAIN runs' /\ runs'[r].step = j /\ runs'[r].status = "succeeded"
        /\ runs'[r].output = runs[r].output
    BY <2>1 DEF Evolves, ActiveRun
  <2>4. RunOfStep(j)' = {r}
    BY <2>3 DEF RunOfStep, OneRunPerStep
  <2>5. Min({r}) = r
    BY <2>2, OnlyElement
  <2>6. ~SkippedIn(j)'
    BY <1>2, <2>4 DEF SkippedHasNoRun
  <2>7. Over(j)'
    BY <2>3, <2>4 DEF Over
  <2>8. Over(PositionOf(def, ref))'
    BY <1>1, <1>2, <2>7 DEF PositionOf, Position
  <2>9. FinalValue(ref) = IF ref = WorkflowInput THEN def.input ELSE runs[r].output
    BY <1>1, <1>4, <2>2 DEF FinalValue
  <2>10. FinalValue(ref)' = IF ref = WorkflowInput THEN def.input ELSE runs[r].output
    <3>1. PositionOf(def', ref) = j
      BY <1>1, <1>2
    <3>2. QED
      BY <1>2, <2>3, <2>4, <2>5, <2>6, <3>1 DEF FinalValue
  <2>11. QED
    BY <2>8, <2>9, <2>10
<1>5. QED
  BY <1>3, <1>4

\* The conditions and the inputs of a step whose dependencies are over are final.
LEMMA StepIsFinal ==
  ASSUME Core, Exists, Evolves, WorkflowTypes', OneRunPerStep', SkippedHasNoRun',
         NEW i \in Position(def), DependenciesOver(i)
  PROVE  /\ DependenciesOver(i)'
         /\ ConditionHolds(i) => ConditionHolds(i)'
         /\ ConditionFails(i) => ConditionFails(i)'
         /\ FinalInput(i)' = FinalInput(i)
<1>1. def' = def
  BY DEF Evolves
<1>2. Resolves(def) /\ validateStep(def, def.steps[i])
  BY AcceptedResolves, Zenon DEF Core, ValidDefinition
<1>3. ASSUME NEW ref \in Range(def.steps[i].dependsOn)
      PROVE  Over(PositionOf(def, ref))' /\ FinalValue(ref)' = FinalValue(ref)
  BY <1>2, OverIsFinal DEF Resolves, DependenciesOver
<1>4. FinalValue(WorkflowInput)' = FinalValue(WorkflowInput)
  BY <1>1 DEF FinalValue
<1>5. DependenciesOver(i)'
  BY <1>1, <1>3 DEF DependenciesOver
<1>6. ASSUME def.steps[i].condition # NoCondition
      PROVE  FinalValue(def.steps[i].condition.source)' = FinalValue(def.steps[i].condition.source)
  <2>1. def.steps[i].condition.source \in Range(def.steps[i].dependsOn) \union {WorkflowInput}
    BY <1>2, <1>6 DEF validateStep, ValidCondition
  <2>2. PICK source : source = def.steps[i].condition.source
    OBVIOUS
  <2>3. FinalValue(source)' = FinalValue(source)
    BY <1>3, <1>4, <2>1, <2>2
  <2>4. QED
    BY <1>1, <2>2, <2>3
<1>7. FinalInput(i)' = FinalInput(i)
  <2>1. ASSUME NEW k \in DOMAIN def.steps[i].inputFrom, def.steps[i].inputFrom # <<>>
        PROVE  FinalValue(def.steps[i].inputFrom[k])' = FinalValue(def.steps[i].inputFrom[k])
    <3>1. PICK ref : ref = def.steps[i].inputFrom[k]
      OBVIOUS
    <3>2. ref \in Range(def.steps[i].inputFrom)
      BY <3>1 DEF Range
    <3>3. ref = WorkflowInput \/ ref \in Range(def.steps[i].dependsOn)
      BY <1>2, <2>1, <3>2, Zenon DEF validateStep, ValidInput
    <3>4. FinalValue(ref)' = FinalValue(ref)
      BY <1>3, <1>4, <3>3
    <3>5. QED
      BY <1>1, <3>1, <3>4
  <2>2. QED
    BY <1>1, <2>1 DEF FinalInput
<1>8. QED
  BY <1>1, <1>5, <1>6, <1>7, Zenon DEF ConditionHolds, ConditionFails

\* A Run that was right stays right.
LEMMA RunStaysOK ==
  ASSUME Core, Exists, Evolves, WorkflowTypes', OneRunPerStep', SkippedHasNoRun',
         NEW i, NEW input, NEW parent, RunOK(i, input, parent)
  PROVE  RunOK(i, input, parent)'
<1>1. def' = def
  BY DEF Evolves
<1>2. i \in Position(def) /\ DependenciesOver(i) /\ ConditionHolds(i) /\ input = FinalInput(i)
  BY DEF RunOK
<1>3. DependenciesOver(i)' /\ ConditionHolds(i)' /\ FinalInput(i)' = FinalInput(i)
  BY <1>2, StepIsFinal
<1>4. ParentOK(i, parent)'
  <2>1. \A j : parent \in RunOfStep(j) => parent \in RunOfStep(j)'
    BY DEF RunOfStep, Evolves
  <2>2. ParentOK(i, parent)
    BY DEF RunOK
  <2>3. QED
    BY <1>1, <2>1, <2>2 DEF ParentOK, PositionOf, Position
<1>5. QED
  BY <1>1, <1>2, <1>3, <1>4 DEF RunOK, Position

-----------------------------------------------------------------------------
(* What a step has to show, by what it changes.                            *)

\* Nothing is forgotten that was in order.
LEMMA RunsAndSkipsStay ==
  ASSUME WorkflowInv, Evolves, WorkflowTypes', OneRunPerStep', SkippedHasNoRun',
         \A r \in DOMAIN runs' \ DOMAIN runs : RunOK(runs[r].step, runs[r].input, runs[r].parent)',
         \A i \in DOMAIN wf'.steps :
           SkippedIn(i)' /\ ~(i \in DOMAIN wf.steps /\ SkippedIn(i)) =>
             DependenciesOver(i)' /\ ConditionFails(i)'
  PROVE  RunsOK' /\ SkipsOK'
<1>1. Core /\ RunsOK /\ SkipsOK
  BY DEF WorkflowInv, Core
<1>2. ASSUME NEW r \in DOMAIN runs PROVE RunOK(runs[r].step, runs[r].input, runs[r].parent)'
  <2>1. Exists
    BY <1>1 DEF Core, WorkflowOK
  <2>2. PICK i, input, parent : i = runs[r].step /\ input = runs[r].input /\ parent = runs[r].parent
    OBVIOUS
  <2>3. RunOK(i, input, parent)'
    BY <1>1, <2>1, <2>2, RunStaysOK DEF RunsOK
  <2>4. runs'[r].step = i /\ runs'[r].input = input /\ runs'[r].parent = parent
    BY <2>2 DEF Evolves
  <2>5. QED
    BY <2>3, <2>4
<1>3. RunsOK'
  BY <1>2, Zenon DEF RunsOK
<1>4. ASSUME NEW i \in DOMAIN wf.steps, SkippedIn(i) PROVE DependenciesOver(i)' /\ ConditionFails(i)'
  <2>1. Exists
    BY <1>1, <1>4 DEF Core, WorkflowOK, Absent
  <2>2. i \in Position(def)
    BY <1>1, <2>1, AcceptedResolves DEF Core
  <2>3. QED
    BY <1>1, <1>4, <2>1, <2>2, StepIsFinal, Zenon DEF SkipsOK
<1>5. SkipsOK'
  BY <1>4 DEF SkipsOK
<1>6. QED
  BY <1>3, <1>5

\* The steps with an active Run.
Busy == {i \in DOMAIN wf.steps : wf.steps[i].run # 0 /\ runs[wf.steps[i].run].status \in ActiveRun}

\* A step that assigns no Run keeps the concurrency.
LEMMA BusyStays ==
  ASSUME WorkflowInv, Evolves,
         wf' = wf \/ (Exists /\ \A i \in Position(def) : wf'.steps[i].run = wf.steps[i].run)
  PROVE  ConcurrencyIsBounded'
<1>1. Core /\ ConcurrencyIsBounded
  BY DEF WorkflowInv, Core
<1>2. CASE ~Exists
  <2>1. wf' = wf /\ wf.steps = <<>> /\ Concurrency \in Nat
    BY <1>1, <1>2, WorkflowAssumption DEF Core, WorkflowOK, Absent
  <2>2. Busy' = {} /\ Busy' = {i \in DOMAIN wf'.steps : /\ wf'.steps[i].run # 0
                                                       /\ runs'[wf'.steps[i].run].status \in ActiveRun}
    BY <2>1 DEF Busy
  <2>3. QED
    BY <1>1, <2>1, <2>2, CountsOfSteps DEF ConcurrencyIsBounded, Busy, Core
<1>3. CASE Exists
  <2>1. /\ DOMAIN wf.steps = Position(def) /\ DOMAIN wf'.steps = Position(def)
        /\ CopyOK(wf)
    BY <1>1, <1>3, AcceptedResolves, Zenon DEF Core, Evolves
  <2>2. ASSUME NEW i \in Busy' PROVE i \in Busy
    <3>1. i \in Position(def) /\ wf'.steps[i].run = wf.steps[i].run /\ wf.steps[i].run # 0
      BY <2>1, <2>2 DEF Busy
    <3>2. PICK r \in DOMAIN runs : r = wf.steps[i].run
      BY <2>1, <3>1, Zenon DEF CopyOK, StepOK
    <3>3. runs'[r].status \in ActiveRun
      BY <2>2, <3>1, <3>2 DEF Busy
    <3>4. runs[r].status \in ActiveRun
      BY <3>3 DEF Evolves
    <3>5. QED
      BY <2>1, <3>1, <3>2, <3>4 DEF Busy
  <2>3. Busy \in SUBSET Position(def) /\ Busy' \in SUBSET Busy
    BY <2>1, <2>2 DEF Busy
  <2>4. Cardinality(Busy') <= Cardinality(Busy) /\ Cardinality(Busy) \in Nat /\ Cardinality(Busy') \in Nat
    BY <1>1, <2>3, CountsOfSteps DEF Core
  <2>5. Cardinality(Busy) <= Concurrency /\ Concurrency \in Nat
    BY <1>1, WorkflowAssumption DEF ConcurrencyIsBounded, Busy
  <2>6. Cardinality(Busy') <= Concurrency
    BY <2>4, <2>5
  <2>7. QED
    BY <2>6 DEF ConcurrencyIsBounded, Busy
<1>4. QED
  BY <1>2, <1>3

\* The workflow with its Runs, as they are after a step.
DataOK == WorkflowOK /\ OneRunPerStep /\ SkippedHasNoRun /\ RunsOK /\ SkipsOK /\ ConcurrencyIsBounded

ProcessesOK == (\A m \in Manager : LocalOK(mgr[m])) /\ (\A k \in Kind : RequestOK(k, req[k]))

\* The invariant is about the data and about the processes.
LEMMA InvariantParts == WorkflowInv <=> WorkflowTypes /\ DataOK /\ ProcessesOK
BY DEF WorkflowInv, DataOK, ProcessesOK

\* A step that leaves the rows alone.
LEMMA DataUntouched ==
  ASSUME WorkflowInv, UNCHANGED <<def, wf, runs>>, faults' \in Nat, faults' >= faults,
         CancelRequested => CancelRequested', WorkflowTypes'
  PROVE  Evolves /\ DataOK'
<1>1. WorkflowTypes /\ DataOK /\ faults \in Nat
  BY InvariantParts DEF WorkflowTypes
<1>2. \A kind \in FaultKinds : Faulty(kind) => Faulty(kind)'
  BY <1>1 DEF Faulty
<1>3. Evolves
  BY <1>2 DEF Evolves, Exists, Started, SkippedIn
<1>4. OneRunPerStep' /\ SkippedHasNoRun'
  BY <1>1, Zenon DEF DataOK, OneRunPerStep, SkippedHasNoRun, SkippedIn, RunOfStep
<1>5. RunsOK' /\ SkipsOK'
  BY <1>3, <1>4, RunsAndSkipsStay DEF SkippedIn
<1>6. WorkflowOK'
  <2>1. CopyOK(wf)' <=> CopyOK(wf)
    BY DEF CopyOK, StepOK
  <2>2. SomeRun("failed")' <=> SomeRun("failed")
    BY DEF SomeRun
  <2>3. SomeRun("canceled")' <=> SomeRun("canceled")
    BY DEF SomeRun
  <2>4. Faulty("call") => Faulty("call")'
    BY <1>2 DEF Faulty
  <2>5. QED
    BY <1>1, <2>1, <2>2, <2>3, <2>4, Zenon DEF DataOK, WorkflowOK, Exists
<1>7. ConcurrencyIsBounded'
  BY <1>3, BusyStays
<1>8. QED
  BY <1>3, <1>4, <1>5, <1>6, <1>7 DEF DataOK

\* One manager moves, or none.
LEMMA ManagersStay ==
  ASSUME WorkflowInv, Evolves, WorkflowTypes',
         mgr' = mgr \/ \E m \in Manager, x \in Local : LocalOK(x)' /\ mgr' = [mgr EXCEPT ![m] = x]
  PROVE  \A n \in Manager : LocalOK(mgr[n])'
<1>1. WorkflowTypes /\ WorkflowOK /\ mgr \in [Manager -> Local] /\ \A n \in Manager : LocalOK(mgr[n])
  BY DEF WorkflowInv, WorkflowTypes
<1>2. ASSUME NEW n \in Manager, mgr'[n] = mgr[n] PROVE LocalOK(mgr[n])'
  <2>1. PICK l \in Local : l = mgr[n]
    BY <1>1
  <2>2. LocalOK(l)'
    BY <1>1, <2>1, LocalStaysOK
  <2>3. QED
    BY <1>2, <2>1, <2>2
<1>3. CASE mgr' = mgr
  BY <1>2, <1>3
<1>4. ASSUME NEW m \in Manager, NEW x \in Local, LocalOK(x)', mgr' = [mgr EXCEPT ![m] = x]
      PROVE  \A n \in Manager : LocalOK(mgr[n])'
  <2>1. mgr'[m] = x /\ \A n \in Manager \ {m} : mgr'[n] = mgr[n]
    BY <1>1, <1>4
  <2>2. LocalOK(mgr[m])'
    BY <1>4, <2>1
  <2>3. QED
    BY <1>2, <2>1, <2>2
<1>5. QED
  BY <1>3, <1>4

\* One request moves, or none.
LEMMA RequestsStay ==
  ASSUME WorkflowInv, Evolves, WorkflowTypes',
         req' = req \/ \E k \in Kind, q \in Request : RequestOK(k, q)' /\ req' = [req EXCEPT ![k] = q]
  PROVE  \A k \in Kind : RequestOK(k, req[k])'
<1>1. WorkflowTypes /\ req \in [Kind -> Request] /\ \A k \in Kind : RequestOK(k, req[k])
  BY DEF WorkflowInv, WorkflowTypes
<1>2. ASSUME NEW k \in Kind, req'[k] = req[k] PROVE RequestOK(k, req[k])'
  <2>1. PICK q \in Request : q = req[k]
    BY <1>1
  <2>2. RequestOK(k, q)'
    BY <1>1, <2>1, RequestStaysOK
  <2>3. QED
    BY <1>2, <2>1, <2>2
<1>3. CASE req' = req
  BY <1>2, <1>3
<1>4. ASSUME NEW h \in Kind, NEW q \in Request, RequestOK(h, q)', req' = [req EXCEPT ![h] = q]
      PROVE  \A k \in Kind : RequestOK(k, req[k])'
  <2>1. req'[h] = q /\ \A k \in Kind \ {h} : req'[k] = req[k]
    BY <1>1, <1>4
  <2>2. RequestOK(h, req[h])'
    BY <1>4, <2>1, Zenon
  <2>3. QED
    BY <1>2, <2>1, <2>2
<1>5. QED
  BY <1>3, <1>4

\* A manager moves and leaves the rows and the requests alone.
LEMMA QuietManagerStep ==
  ASSUME WorkflowInv, UNCHANGED <<def, wf, runs, older, req>>, faults' \in Nat, faults' >= faults,
         NEW m \in Manager, NEW x \in Local, LocalOK(x), Become(m, x)
  PROVE  WorkflowInv'
<1>1. mgr' = [mgr EXCEPT ![m] = x]
  BY DEF Become
<1>2. WorkflowTypes /\ WorkflowOK
  BY DEF WorkflowInv
<1>3. WorkflowTypes'
  BY <1>1, <1>2 DEF WorkflowTypes
<1>4. Evolves /\ DataOK'
  BY <1>3, DataUntouched DEF CancelRequested
<1>5. LocalOK(x)'
  BY <1>2, <1>3, <1>4, LocalStaysOK
<1>6. ProcessesOK'
  BY <1>1, <1>3, <1>4, <1>5, ManagersStay, RequestsStay, Zenon DEF ProcessesOK
<1>7. QED
  BY <1>3, <1>4, <1>6, InvariantParts DEF WorkflowInv, DataOK, ProcessesOK

-----------------------------------------------------------------------------
(* The managers.                                                           *)

\* A manager that has no copy in hand.
LEMMA EmptyHands ==
  /\ Absent \in Copy
  /\ NotRunning \in Local
  /\ \A pc \in Pc : [NotRunning EXCEPT !.pc = pc] \in Local
  /\ Again \in Local
  /\ \A l : /\ l.pc \in {"idle", "down"} /\ ~l.done => LocalOK(l)
            /\ Started /\ l.pc \in {"acquire", "release", "row", "enqueue", "ending"} => LocalOK(l)
<1>1. Absent \in Copy
  BY DEF Absent, Copy, WorkflowStatus
<1>2. NotRunning \in Local
  BY <1>1 DEF NotRunning, Local, Pc
<1>3. \A pc \in Pc : [NotRunning EXCEPT !.pc = pc] \in Local
  BY <1>2 DEF Local
<1>4. Again \in Local
  BY <1>3, Zenon DEF Again, Pc
<1>5. \A l : /\ l.pc \in {"idle", "down"} /\ ~l.done => LocalOK(l)
             /\ Started /\ l.pc \in {"acquire", "release", "row", "enqueue", "ending"} => LocalOK(l)
  BY DEF LocalOK
<1>6. QED
  BY <1>1, <1>2, <1>3, <1>4, <1>5

\* A manager that leaves.
LEMMA LeavingHands ==
  ASSUME WorkflowTypes, NEW m \in Manager
  PROVE  Leave(m) \in Local /\ Leave(m).pc = "release"
<1>1. mgr[m].done \in BOOLEAN
  BY DEF WorkflowTypes, Local
<1>2. [NotRunning EXCEPT !.pc = "release"] \in Local
  BY EmptyHands DEF Pc
<1>3. PICK l \in Local : l = [NotRunning EXCEPT !.pc = "release"] /\ l.pc = "release"
  BY <1>2, Zenon DEF NotRunning
<1>4. Leave(m) = [l EXCEPT !.done = mgr[m].done]
  BY <1>3 DEF Leave, NotRunning
<1>5. [l EXCEPT !.done = mgr[m].done] \in Local
  BY <1>1, Zenon DEF Local
<1>6. QED
  BY <1>3, <1>4, <1>5 DEF Local

\* What is known of the manager of process m.
LEMMA ManagerIsOK ==
  ASSUME WorkflowInv, NEW m \in Manager
  PROVE  /\ WorkflowTypes /\ WorkflowOK /\ faults \in Nat /\ wf \in Copy
         /\ mgr[m] \in Local /\ LocalOK(mgr[m])
         /\ mgr[m].pc \notin {"idle", "down"} \/ mgr[m].done => Started
BY Zenon DEF WorkflowInv, WorkflowTypes, LocalOK

\* Ownership comes and goes without any effect on the rows (Scan, Acquire,
\* RenewFails, Abort, Release, CallFails).
LEMMA OwnershipSteps ==
  ASSUME WorkflowInv, NEW m \in Manager,
         Scan(m) \/ Acquire(m) \/ RenewFails(m) \/ Abort(m) \/ Release(m) \/ CallFails(m)
  PROVE  WorkflowInv'
<1>1. /\ WorkflowTypes /\ faults \in Nat /\ mgr[m] \in Local /\ LocalOK(mgr[m])
      /\ mgr[m].pc \notin {"idle", "down"} \/ mgr[m].done => Started
  BY ManagerIsOK
<1>2. /\ UNCHANGED <<def, wf, runs, older, req>>
      /\ faults' \in Nat /\ faults' >= faults
  BY <1>1 DEF Scan, Acquire, RenewFails, Abort, Release, CallFails, Fault
<1>3. ASSUME NEW x \in Local, LocalOK(x), mgr' = [mgr EXCEPT ![m] = x] PROVE WorkflowInv'
  BY <1>2, <1>3, QuietManagerStep, Zenon DEF Become
<1>4. CASE Scan(m)
  <2>1. PICK x : x = [mgr[m] EXCEPT !.pc = "acquire"]
    BY Zenon
  <2>2. x \in Local /\ x.pc = "acquire"
    BY <1>1, <2>1, Zenon DEF Local, Pc
  <2>3. Started
    BY <1>4 DEF Scan, Started
  <2>4. mgr' = [mgr EXCEPT ![m] = x]
    BY <1>4, <2>1 DEF Scan, Scheduled
  <2>5. QED
    BY <1>3, <2>2, <2>3, <2>4, EmptyHands, Zenon
<1>5. CASE Acquire(m)
  <2>1. Started
    BY <1>1, <1>5 DEF Acquire
  <2>2. mgr' = [mgr EXCEPT ![m] = Again] \/ mgr' = [mgr EXCEPT ![m] = NotRunning]
    BY <1>5 DEF Acquire, Become
  <2>3. Again.pc = "row" /\ NotRunning.pc = "idle" /\ ~NotRunning.done
    BY DEF Again, NotRunning
  <2>4. LocalOK(Again) /\ LocalOK(NotRunning)
    BY <2>1, <2>3, EmptyHands
  <2>5. QED
    BY <1>3, <2>2, <2>4, EmptyHands, Zenon
<1>6. CASE RenewFails(m)
  <2>1. PICK x : x = [mgr[m] EXCEPT !.done = TRUE]
    BY Zenon
  <2>2. x \in Local /\ x.pc = mgr[m].pc /\ x.cand = mgr[m].cand /\ x.pick = mgr[m].pick
    BY <1>1, <2>1, Zenon DEF Local
  <2>3. LocalOK(x)
    BY <1>1, <1>6, <2>2 DEF LocalOK, RenewFails
  <2>4. QED
    BY <1>3, <1>6, <2>1, <2>2, <2>3, Zenon DEF RenewFails, Become
<1>7. CASE Abort(m) \/ CallFails(m)
  <2>1. mgr' = [mgr EXCEPT ![m] = Leave(m)]
    BY <1>7 DEF Abort, CallFails, Become
  <2>2. PICK x \in Local : x = Leave(m) /\ x.pc = "release"
    BY <1>1, LeavingHands
  <2>3. CASE Started
    BY <1>3, <2>1, <2>2, <2>3, EmptyHands, Zenon
  <2>4. CASE ~Started
    BY <1>1, <1>7, <2>4 DEF Abort, CallFails
  <2>5. QED
    BY <2>3, <2>4
<1>8. CASE Release(m)
  <2>1. mgr' = [mgr EXCEPT ![m] = NotRunning]
    BY <1>8 DEF Release, Become
  <2>2. LocalOK(NotRunning)
    BY EmptyHands DEF NotRunning
  <2>3. QED
    BY <1>3, <2>1, <2>2, EmptyHands, Zenon
<1>9. QED
  BY <1>4, <1>5, <1>6, <1>7, <1>8

\* A round begins with the row of the workflow, and ends with the event
\* (LoadRow, EmitEnd).
LEMMA RoundSteps ==
  ASSUME WorkflowInv, NEW m \in Manager, LoadRow(m) \/ EmitEnd(m)
  PROVE  WorkflowInv'
<1>1. /\ WorkflowTypes /\ faults \in Nat /\ mgr[m] \in Local /\ LocalOK(mgr[m]) /\ wf \in Copy
      /\ Started
  BY ManagerIsOK DEF LoadRow, EmitEnd, At
<1>2. UNCHANGED <<def, wf, runs, older, req>> /\ faults' \in Nat /\ faults' >= faults
  BY <1>1 DEF LoadRow, EmitEnd
<1>3. ASSUME NEW x \in Local, LocalOK(x), mgr' = [mgr EXCEPT ![m] = x] PROVE WorkflowInv'
  BY <1>2, <1>3, QuietManagerStep, Zenon DEF Become
<1>4. Leave(m) \in Local /\ LocalOK(Leave(m))
  BY <1>1, LeavingHands, EmptyHands
<1>5. CASE mgr' = [mgr EXCEPT ![m] = Leave(m)]
  BY <1>3, <1>4, <1>5, Zenon
<1>6. CASE LoadRow(m) /\ ~IsTerminal(wf)
  <2>1. PICK c : c = [Absent EXCEPT !.status = wf.status, !.version = wf.version]
    OBVIOUS
  <2>2. wf.status = "running" /\ wf.version \in Nat
    BY <1>1, <1>6 DEF Started, Copy, WorkflowStatus, IsTerminal
  <2>3. c \in Copy /\ c.status = "running" /\ c.version = wf.version
    BY <2>1, <2>2, EmptyHands, Zenon DEF Copy, WorkflowStatus
  <2>4. PICK x : x = [mgr[m] EXCEPT !.pc = "steps", !.cand = c]
    OBVIOUS
  <2>5. x \in Local /\ x.pc = "steps" /\ x.cand = c
    BY <1>1, <2>3, <2>4, Zenon DEF Local, Pc
  <2>6. LocalOK(x)
    <3>1. c.version <= wf.version
      BY <2>2, <2>3
    <3>2. QED
      BY <1>1, <2>2, <2>3, <2>5, <3>1, Zenon DEF LocalOK
  <2>7. mgr' = [mgr EXCEPT ![m] = x]
    BY <1>6, <2>1, <2>4, Zenon DEF LoadRow, Become
  <2>8. QED
    BY <1>3, <2>5, <2>6, <2>7, Zenon
<1>7. QED
  BY <1>5, <1>6 DEF LoadRow, EmitEnd, Become

\* The lease runs out, and the client follows the events (ExpireAbandoned,
\* ExpireHeld, StreamEvents, StreamStatus, ExpireCached).
LEMMA OutsideSteps ==
  ASSUME WorkflowInv,
         \/ ExpireAbandoned \/ \E m \in Manager : ExpireHeld(m)
         \/ StreamEvents \/ StreamStatus \/ \E r \in DOMAIN runs : ExpireCached(r)
  PROVE  WorkflowInv'
<1>1. WorkflowTypes /\ WorkflowOK /\ faults \in Nat
  BY DEF WorkflowInv, WorkflowTypes
<1>2. /\ UNCHANGED <<def, wf, runs, mgr, req>>
      /\ older' = older \/ \E r \in DOMAIN runs : older' = [older EXCEPT ![r] = None]
      /\ faults' \in Nat /\ faults' >= faults
  BY <1>1 DEF ExpireAbandoned, ExpireHeld, StreamEvents, StreamStatus, ExpireCached, Fault
<1>3. older' \in Seq(ActiveRun \union {None}) /\ Len(older') = Len(runs)
  BY <1>1, <1>2, RunIsTyped DEF WorkflowTypes
<1>4. WorkflowTypes'
  BY <1>1, <1>2, <1>3 DEF WorkflowTypes
<1>5. Evolves /\ DataOK'
  BY <1>2, <1>4, DataUntouched DEF CancelRequested
<1>6. ProcessesOK'
  BY <1>2, <1>4, <1>5, ManagersStay, RequestsStay DEF ProcessesOK
<1>7. QED
  BY <1>4, <1>5, <1>6, InvariantParts DEF WorkflowInv, DataOK, ProcessesOK

-----------------------------------------------------------------------------
(* What a round decides (the end of reconcile).                            *)

\* A manager that has read a workflow, and what its Runs say.
RoundOK(l) ==
  /\ l \in Local /\ Started
  /\ CopyOK(l.cand) /\ CurrentCopy(l.cand) /\ l.cand.version <= wf.version

\* What is known of the copy.
LEMMA RoundHasCopy ==
  ASSUME WorkflowInv, NEW l, RoundOK(l)
  PROVE  /\ def \in Definition /\ Resolves(def) /\ WellReferenced(def) /\ ValidDefinition(def)
         /\ Fits(def, l.cand) /\ l.cand \in Copy /\ DOMAIN l.cand.steps = Position(def)
         /\ \A i \in Position(def) : l.cand.steps[i] \in Step
<1>1. Resolves(def) /\ WellReferenced(def) /\ ValidDefinition(def)
  BY AcceptedResolves DEF WorkflowInv, RoundOK, Started, Exists
<1>2. def \in Definition
  BY DefinitionIsNormal DEF WorkflowInv
<1>3. Fits(def, l.cand)
  BY DEF RoundOK, CopyOK
<1>4. QED
  BY <1>1, <1>2, <1>3, CopyHasSteps

\* A copy with new skips can be saved (applyConditions).
LEMMA SkipsCanBeSaved ==
  ASSUME WorkflowInv, NEW l, RoundOK(l), NEW a, a = applyConditions(def, l.cand)
  PROVE  /\ a \in Copy /\ a.version = l.cand.version /\ CopyOK(a) /\ SavedCopy(a)
         /\ a = l.cand => \A i \in Position(def) : ~SkipsNow(def, l.cand, i)
<1>1. PICK c : c = l.cand
  OBVIOUS
<1>2. /\ def \in Definition /\ Resolves(def) /\ Fits(def, c)
      /\ \A i \in Position(def) : c.steps[i] \in Step
  BY <1>1, RoundHasCopy, Zenon
<1>3. AppliedUpTo(def, c, a, Len(def.steps))
  BY <1>1, <1>2, Zenon DEF WorkflowInv, WorkflowTypes, Sound, Conditional
<1>4. /\ Fits(def, a) /\ a.status = c.status /\ a.version = c.version
      /\ \A i \in Position(def) :
           /\ a.steps[i] = c.steps[i] \/ SkippedSince(def, c, a, i)
           /\ SkipsNow(def, c, i) => a.steps[i].status = "skipped"
  BY <1>2, <1>3, SequenceIsTyped DEF AppliedUpTo, Position, Definition
<1>5. CopyOK(c) /\ CurrentCopy(c)
  BY <1>1 DEF RoundOK
<1>6. \A s \in Step : Skip(s).status = "skipped" /\ Skip(s).run = s.run /\ Skip(s).output = s.output
  BY Zenon DEF Skip, Step
<1>7. CopyOK(a)
  <2>1. ASSUME NEW i \in Position(def), SkippedSince(def, c, a, i) PROVE StepOK(a.steps[i], i)
    <3>1. c.steps[i].status = "pending" /\ StepOK(c.steps[i], i)
      BY <1>5, <2>1 DEF SkippedSince, CopyOK
    <3>2. a.steps[i].status = "skipped" /\ a.steps[i].run = 0 /\ a.steps[i].output = ""
      BY <1>2, <1>6, <2>1, <3>1, ZenonT(30) DEF SkippedSince, StepOK
    <3>3. QED
      BY <3>2, Zenon DEF StepOK, ActiveStep
  <2>2. QED
    BY <1>4, <1>5, <2>1 DEF CopyOK
<1>8. ASSUME a.version = wf.version, NEW i \in Position(def)
      PROVE  Tracks(a.steps[i], wf.steps[i]) \/ SkipIsNew(a, i)
  <2>1. Tracks(c.steps[i], wf.steps[i])
    BY <1>4, <1>5, <1>8, SMTT(30) DEF CurrentCopy
  <2>2. CASE SkippedSince(def, c, a, i)
    <3>0. StepOf(c.steps[i]) = "waiting"
      BY <1>2, <2>2, StepOfStatus, Zenon DEF SkippedSince
    <3>1. StepOf(wf.steps[i]) = "waiting" /\ c.steps[i].run = wf.steps[i].run
      BY <2>1, <3>0, Zenon DEF Tracks
    <3>2. a.steps[i].status = "skipped" /\ a.steps[i].run = wf.steps[i].run
      BY <1>2, <1>6, <2>2, <3>1, Zenon DEF SkippedSince
    <3>3. ASSUME NEW ref \in Range(def.steps[i].dependsOn),
                 a.steps[PositionOf(def, ref)].status = "skipped"
          PROVE  SkippedIn(PositionOf(def, ref)) \/ PositionOf(def, ref) < i
      <4>1. PICK j \in Position(def) : j = PositionOf(def, ref)
        BY <1>2, Zenon DEF Resolves
      <4>2. a.steps[j] = c.steps[j] \/ j < i
        BY <2>2, <4>1 DEF SkippedSince
      <4>3. QED
        BY <1>5, <3>3, <4>1, <4>2, Zenon DEF CurrentCopy
    <3>4. QED
      BY <2>2, <3>1, <3>2, <3>3, Zenon DEF SkippedSince, SkipIsNew
  <2>3. QED
    BY <1>4, <2>1, <2>2, Zenon
<1>9. SavedCopy(a)
  BY <1>4, <1>5, <1>8, ZenonT(30) DEF SavedCopy, CurrentCopy
<1>10. ASSUME a = c, NEW i \in Position(def) PROVE ~SkipsNow(def, c, i)
  BY <1>4, <1>10 DEF SkipsNow
<1>11. QED
  BY <1>1, <1>4, <1>7, <1>9, <1>10 DEF Fits

\* A workflow in which nothing is left to wait for and nothing is ready is
\* finished, unless the copy is out of date: its dependencies have no cycle.
LEMMA StuckIsOutOfDate ==
  ASSUME WorkflowInv, NEW l, RoundOK(l), ReadySteps(def, l.cand) = {},
         activeStepCount(l.cand) = 0, \E i \in Position(def) : l.cand.steps[i].status \notin DoneStep
  PROVE  l.cand.version # wf.version
<1> SUFFICES ASSUME l.cand.version = wf.version PROVE FALSE
  OBVIOUS
<1>1. PICK c : c = l.cand
  BY Zenon
<1>2. /\ def \in Definition /\ Resolves(def) /\ WellReferenced(def) /\ ValidDefinition(def)
      /\ DOMAIN c.steps = Position(def)
      /\ \A i \in Position(def) : c.steps[i] \in Step
  BY <1>1, RoundHasCopy, Zenon
<1>3. wf.status = "running" /\ \A i \in Position(def) : Tracks(c.steps[i], wf.steps[i])
  BY <1>1, Zenon DEF RoundOK, CurrentCopy
<1>4. \A i \in Position(def) : c.steps[i].status \notin ActiveStep
  <2>1. PICK S : S = {i \in DOMAIN c.steps : c.steps[i].status \in ActiveStep}
    BY Zenon
  <2>2. S \in SUBSET Position(def)
    BY <1>2, <2>1
  <2>3. Cardinality(S) = 0
    BY <1>1, <2>1 DEF activeStepCount
  <2>4. S = {}
    BY <2>2, <2>3, CountsOfSteps, Zenon DEF WorkflowInv
  <2>5. QED
    BY <1>2, <2>1, <2>4
<1>5. ASSUME NEW i \in Position(def) PROVE c.steps[i].status = "pending" \/ c.steps[i].status \in DoneStep
  <2>1. wf.steps[i] \in Step /\ wf.steps[i].status \notin {"failed", "canceled"}
    <3>1. wf.steps[i].status \notin {"failed", "canceled"}
      BY <1>3, Zenon DEF WorkflowInv, WorkflowOK
    <3>2. Fits(def, wf)
      BY AcceptedResolves, Zenon DEF WorkflowInv, RoundOK, Started, Exists
    <3>3. QED
      BY <1>2, <3>1, <3>2, CopyHasSteps, Zenon
  <2>2. StepOf(c.steps[i]) = StepOf(wf.steps[i])
    BY <1>3, Zenon DEF Tracks
  <2>3. c.steps[i].status \in StepStatus /\ wf.steps[i].status \in StepStatus
    BY <1>2, <2>1, Zenon DEF Step
  <2>4. c.steps[i].status \notin {"failed", "canceled"}
    BY <1>2, <2>1, <2>2, StepOfStatus
  <2>5. QED
    BY <1>4, <2>3, <2>4, Zenon DEF StepStatus
<1>6. PICK S : S = {i \in Position(def) : c.steps[i].status = "pending"}
  BY Zenon
<1>7. S \in SUBSET Position(def) /\ S # {}
  BY <1>1, <1>5, <1>6
<1>8. PICK i \in S : \A j \in S : ~DependsOn(def, i, j)
  <2>1. Unlocked(def)
    BY <1>2, Zenon DEF WorkflowInv, WorkflowTypes, Sound
  <2>2. QED
    BY <1>7, <2>1 DEF Unlocked
<1>9. ASSUME NEW ref \in Range(def.steps[i].dependsOn)
      PROVE  c.steps[PositionOf(def, ref)].status \in DoneStep
  <2>1. PICK j \in Position(def) : j = PositionOf(def, ref) /\ def.steps[j].id = ref
    <3>1. \E t \in Range(def.steps) : t.id = ref
      BY <1>2, <1>7, Zenon DEF ValidDefinition, validateStep, ValidDependencies
    <3>2. \E j \in Position(def) : def.steps[j].id = ref
      BY <1>2, <3>1, SequenceIsTyped, Zenon DEF Range, Position, Definition
    <3>3. QED
      BY <3>2 DEF PositionOf
  <2>2. DependsOn(def, i, j)
    BY <2>1, Zenon DEF DependsOn
  <2>3. QED
    BY <1>5, <1>6, <1>8, <2>1, <2>2, Zenon
<1>10. i \in ReadySteps(def, c)
  BY <1>6, <1>7, <1>9, ZenonT(30) DEF ReadySteps, DependenciesDone
<1>11. QED
  BY <1>1, <1>10

\* A step that is ready, with its condition applied, can start.
LEMMA ReadyCanStart ==
  ASSUME WorkflowInv, NEW l, RoundOK(l), applyConditions(def, l.cand) = l.cand, ~AtCapacity(l.cand),
         NEW i \in ReadySteps(def, l.cand)
  PROVE  ReadyIn(l.cand, i)
<1>1. PICK c : c = l.cand
  OBVIOUS
<1>2. ValidDefinition(def) /\ DOMAIN c.steps = Position(def)
  BY <1>1, RoundHasCopy
<1>3. i \in Position(def) /\ c.steps[i].status = "pending" /\ DependenciesDone(def, c, i)
  BY <1>1, Zenon DEF ReadySteps
<1>4. ~SkipsNow(def, c, i)
  BY <1>1, <1>3, SkipsCanBeSaved
<1>5. ASSUME NEW ref \in Range(def.steps[i].inputFrom), ref # WorkflowInput
      PROVE  ref \in Range(def.steps[i].dependsOn)
  <2>1. def.steps[i].inputFrom # <<>>
    BY <1>5 DEF Range
  <2>2. QED
    BY <1>2, <1>3, <1>5, <2>1, Zenon DEF ValidDefinition, validateStep, ValidInput
<1>6. InputIsComplete(def, c, i)
  BY <1>3, <1>5 DEF InputIsComplete, DependenciesDone
<1>7. activeStepCount(c) < Concurrency
  <2>1. PICK S : S = {j \in DOMAIN c.steps : c.steps[j].status \in ActiveStep}
    BY Zenon
  <2>2. Cardinality(S) \in Nat
    BY <1>2, <2>1, CountsOfSteps DEF WorkflowInv
  <2>3. QED
    BY <1>1, <2>1, <2>2, WorkflowAssumption DEF AtCapacity, activeStepCount
<1>8. QED
  BY <1>1, <1>3, <1>4, <1>6, <1>7 DEF ReadyIn, SkipsNow

\* The decision is sound, whatever it is.
LEMMA DecisionIsSound ==
  ASSUME WorkflowInv, NEW l, RoundOK(l)
  PROVE  Decided(l) \in Local /\ LocalOK(Decided(l))
<1>1. PICK c : c = l.cand
  OBVIOUS
<1>2. PICK applied, next : applied = applyConditions(def, c) /\ next = readyStep(def, c)
  OBVIOUS
<1>3. l \in Local /\ Started /\ c \in Copy /\ CopyOK(c) /\ CurrentCopy(c) /\ c.version <= wf.version
  BY <1>1 DEF RoundOK, Local
<1>4. DOMAIN c.steps = Position(def)
  BY <1>1, RoundHasCopy, Zenon
<1>5. ASSUME NEW y \in Local, y.cand = c, y.pc = "fail", c.version # wf.version PROVE LocalOK(y)
  BY <1>3, <1>5 DEF LocalOK
<1>6. CASE \A i \in DOMAIN c.steps : c.steps[i].status \in DoneStep
  <2>1. PICK cc : cc = [c EXCEPT !.status = "succeeded"]
    BY Zenon
  <2>2. cc \in Copy /\ cc.status = "succeeded" /\ cc.steps = c.steps /\ cc.version = c.version
    BY <1>3, <2>1 DEF Copy, WorkflowStatus, FinishedWorkflow
  <2>3. PICK y : y = [l EXCEPT !.pc = "finish", !.cand = cc]
    OBVIOUS
  <2>4. y \in Local /\ y.pc = "finish" /\ y.cand = cc
    BY <1>3, <2>2, <2>3, Zenon DEF Local, Pc
  <2>5. CopyOK(cc)
    BY <1>3, <2>2, Zenon DEF CopyOK, Fits
  <2>6. FinishedCopy(cc)
    BY <1>3, <1>4, <1>6, <2>2, Zenon DEF FinishedCopy, FinishedWorkflow, CurrentCopy
  <2>7. LocalOK(y)
    BY <1>3, <2>2, <2>4, <2>5, <2>6 DEF LocalOK
  <2>8. Decided(l) = y
    BY <1>1, <1>3, <1>6, <2>1, <2>3 DEF Decided, Local
  <2>9. QED
    BY <2>4, <2>7, <2>8
<1>7. CASE ~(\A i \in DOMAIN c.steps : c.steps[i].status \in DoneStep) /\ (l.changed \/ applied # c)
  <2>1. PICK cc : cc = IF l.changed THEN c ELSE applied
    OBVIOUS
  <2>2. cc \in Copy /\ CopyOK(cc) /\ SavedCopy(cc) /\ cc.version = c.version
    <3>1. SavedCopy(c)
      BY <1>3 DEF SavedCopy, CurrentCopy
    <3>2. applied \in Copy /\ CopyOK(applied) /\ SavedCopy(applied) /\ applied.version = c.version
      BY <1>1, <1>2, SkipsCanBeSaved
    <3>3. QED
      BY <1>3, <2>1, <3>1, <3>2
  <2>3. PICK y : y = [l EXCEPT !.pc = "save", !.cand = cc]
    OBVIOUS
  <2>4. y \in Local /\ y.pc = "save" /\ y.cand = cc
    BY <1>3, <2>2, <2>3, Zenon DEF Local, Pc
  <2>5. LocalOK(y)
    BY <1>3, <2>2, <2>4 DEF LocalOK
  <2>6. Decided(l) = IF l.changed THEN [l EXCEPT !.pc = "save"]
                     ELSE [l EXCEPT !.pc = "save", !.cand = applied]
    BY <1>1, <1>2, <1>7 DEF Decided
  <2>7. [l EXCEPT !.pc = "save"] = [l EXCEPT !.pc = "save", !.cand = c]
    BY <1>1, <1>3, Zenon DEF Local
  <2>8. Decided(l) = y
    BY <2>1, <2>3, <2>6, <2>7, Zenon
  <2>9. QED
    BY <2>4, <2>5, <2>8
<1>8. ASSUME Decided(l) = Again PROVE Decided(l) \in Local /\ LocalOK(Decided(l))
  <2>1. Again.pc = "row"
    BY DEF Again, NotRunning
  <2>2. QED
    BY <1>3, <1>8, <2>1, EmptyHands
<1>9. CASE /\ ~(\A i \in DOMAIN c.steps : c.steps[i].status \in DoneStep)
           /\ ~l.changed /\ applied = c
  <2>1. Decided(l) =
          IF AtCapacity(c) THEN Again
          ELSE IF ReadySteps(def, c) = {}
               THEN IF activeStepCount(c) > 0 THEN Again ELSE [l EXCEPT !.pc = "fail"]
          ELSE [l EXCEPT !.pc = IF InputIsComplete(def, c, next) THEN "create" ELSE "fail",
                         !.pick = next]
    BY <1>1, <1>2, <1>9 DEF Decided
  <2>2. CASE ~AtCapacity(c) /\ ReadySteps(def, c) = {} /\ ~(activeStepCount(c) > 0)
    <3>1. PICK y : y = [l EXCEPT !.pc = "fail"]
      BY Zenon
    <3>2. y \in Local /\ y.pc = "fail" /\ y.cand = c
      BY <1>1, <1>3, <3>1 DEF Local, Pc
    <3>3. activeStepCount(c) = 0
      <4>1. PICK S : S = {i \in DOMAIN c.steps : c.steps[i].status \in ActiveStep}
        BY Zenon
      <4>2. Cardinality(S) \in Nat
        BY <1>4, <4>1, CountsOfSteps, Zenon DEF WorkflowInv
      <4>3. QED
        BY <2>2, <4>1, <4>2 DEF activeStepCount
    <3>4. c.version # wf.version
      BY <1>1, <1>4, <1>9, <2>2, <3>3, StuckIsOutOfDate
    <3>5. QED
      BY <1>5, <2>1, <2>2, <3>1, <3>2, <3>4, Zenon
  <2>3. CASE ~AtCapacity(c) /\ ReadySteps(def, c) # {}
    <3>1. next \in ReadySteps(def, c) /\ next \in Nat
      <4>1. ReadySteps(def, c) \in SUBSET Nat
        BY DEF ReadySteps, Position
      <4>2. QED
        BY <1>2, <2>3, <4>1, MinIsLeast DEF readyStep, WorkflowInv
    <3>2. ReadyIn(c, next)
      BY <1>1, <1>2, <1>9, <2>3, <3>1, ReadyCanStart, Zenon
    <3>3. PICK y : y = [l EXCEPT !.pc = "create", !.pick = next]
      OBVIOUS
    <3>4. y \in Local /\ y.pc = "create" /\ y.cand = c /\ y.pick = next
      BY <1>1, <1>3, <3>1, <3>3, Zenon DEF Local, Pc
    <3>5. LocalOK(y)
      BY <1>3, <3>2, <3>4 DEF LocalOK
    <3>6. Decided(l) = y
      BY <2>1, <2>3, <3>2, <3>3 DEF ReadyIn
    <3>7. QED
      BY <3>4, <3>5, <3>6
  <2>4. QED
    BY <1>8, <2>1, <2>2, <2>3
<1>10. QED
  BY <1>6, <1>7, <1>9

\* The next Run is read, or the round is decided (Continue).
LEMMA RoundGoesOn ==
  ASSUME WorkflowInv, NEW l, RoundOK(l), NEW i \in Nat, i >= 1
  PROVE  Continue(l, i) \in Local /\ LocalOK(Continue(l, i))
<1>1. l \in Local /\ Started /\ CopyOK(l.cand) /\ CurrentCopy(l.cand) /\ l.cand.version <= wf.version
  BY DEF RoundOK
<1>2. PICK S : S = ToRefresh(l.cand, i)
  OBVIOUS
<1>3. CASE S = {}
  <2>1. PICK y : y = [l EXCEPT !.pick = 0]
    BY Zenon
  <2>2. y \in Local /\ y.cand = l.cand
    BY <1>1, <2>1, Zenon DEF Local
  <2>3. RoundOK(y)
    BY <1>1, <2>2 DEF RoundOK
  <2>4. Continue(l, i) = Decided(y)
    BY <1>2, <1>3, <2>1 DEF Continue
  <2>5. QED
    BY <2>3, <2>4, DecisionIsSound
<1>4. CASE S # {}
  <2>1. S \in SUBSET Nat /\ S \subseteq ToRefresh(l.cand, 1)
    <3>1. Len(l.cand.steps) \in Nat
      BY <1>1, SequenceIsTyped DEF Local, Copy
    <3>2. QED
      BY <1>2, <3>1 DEF ToRefresh
  <2>2. PICK n \in Nat : n = Min(S) /\ n \in ToRefresh(l.cand, 1)
    BY <1>4, <2>1, MinIsLeast, Zenon DEF WorkflowInv
  <2>3. PICK y : y = [l EXCEPT !.pc = "refresh", !.pick = n]
    OBVIOUS
  <2>4. y \in Local /\ y.pc = "refresh" /\ y.cand = l.cand /\ y.pick = n
    BY <1>1, <2>3, Zenon DEF Local, Pc
  <2>5. LocalOK(y)
    BY <1>1, <2>2, <2>4 DEF LocalOK
  <2>6. Continue(l, i) = y
    BY <1>2, <1>4, <2>2, <2>3 DEF Continue
  <2>7. QED
    BY <2>4, <2>5, <2>6
<1>5. QED
  BY <1>3, <1>4

\* The steps are read after the row, and the round begins (LoadSteps).
LEMMA LoadStepsStep ==
  ASSUME WorkflowInv, NEW m \in Manager, LoadSteps(m)
  PROVE  WorkflowInv'
<1>1. /\ WorkflowTypes /\ WorkflowOK /\ faults \in Nat /\ mgr[m] \in Local /\ LocalOK(mgr[m])
      /\ wf \in Copy /\ Started /\ mgr[m].pc = "steps"
  BY ManagerIsOK DEF LoadSteps, At
<1>2. UNCHANGED <<def, wf, runs, older, req>> /\ faults' \in Nat /\ faults' >= faults
  BY <1>1 DEF LoadSteps
<1>3. PICK row : row = mgr[m].cand
  OBVIOUS
<1>4. /\ row \in Copy /\ row.status = "running" /\ row.version <= wf.version
      /\ row.version = wf.version => wf.status = "running"
  BY <1>1, <1>3, Zenon DEF Local, LocalOK
<1>5. PICK c : c = WithSteps(row)
  OBVIOUS
<1>6. c \in Copy /\ c.status = "running" /\ c.version = row.version /\ c.steps = wf.steps
  BY <1>1, <1>4, <1>5, Zenon DEF WithSteps, Copy
<1>7. PICK l : l = [mgr[m] EXCEPT !.cand = c]
  BY Zenon
<1>8. l \in Local /\ l.cand = c
  BY <1>1, <1>6, <1>7, Zenon DEF Local
<1>9. RoundOK(l)
  <2>1. CopyOK(wf)
    BY <1>1, AcceptedResolves, Zenon DEF Started, Exists
  <2>2. CopyOK(c)
    BY <1>6, <2>1, Zenon DEF CopyOK, Fits
  <2>3. CurrentCopy(c)
    BY <1>4, <1>6 DEF CurrentCopy, SkippedIn, Tracks
  <2>4. QED
    BY <1>1, <1>4, <1>6, <1>8, <2>2, <2>3, Zenon DEF RoundOK
<1>10. Continue(l, 1) \in Local /\ LocalOK(Continue(l, 1))
  BY <1>9, RoundGoesOn
<1>11. Become(m, Continue(l, 1))
  BY <1>3, <1>5, <1>7, Zenon DEF LoadSteps
<1>12. QED
  BY <1>2, <1>10, <1>11, QuietManagerStep

\* A copy whose unfinished steps are canceled (cancelNonterminalSteps).
LEMMA GivingUp ==
  ASSUME WorkflowTypes, NEW c, CopyOK(c), NEW t, t = cancelNonterminalSteps(c.steps)
  PROVE  /\ t \in Seq(Step)
         /\ \A e \in Copy : e.steps = t => CopyOK(e)
         /\ \A j \in Position(def) :
              /\ t[j].status \in {"failed", "canceled"} \union DoneStep
              /\ c.steps[j].status \in {"failed", "canceled"} => t[j] = c.steps[j]
              /\ \A w \in Step : Tracks(c.steps[j], w) => GivesUp(t[j], w)
<1>1. /\ c \in Copy /\ c.steps \in Seq(Step) /\ Len(c.steps) = Len(def.steps)
      /\ DOMAIN c.steps = Position(def) /\ \A j \in Position(def) : c.steps[j] \in Step
  BY DefinitionIsNormal, CopyHasSteps, Zenon DEF CopyOK
<1>3. /\ t \in Seq(Step) /\ Len(t) = Len(def.steps)
      /\ \A j \in Position(def) :
           IF c.steps[j].status \in {"pending"} \union ActiveStep
           THEN /\ t[j].status = "canceled"
                /\ t[j].run = c.steps[j].run /\ t[j].output = c.steps[j].output
           ELSE t[j] = c.steps[j]
  BY <1>1, StepsAreCanceled
<1>5. \A j \in Position(def) : t[j] \in Step
  BY <1>1, <1>3, ElementIsTyped, Zenon DEF Position
<1>6. ASSUME NEW j \in Position(def) PROVE StepOK(t[j], j)
  <2>1. StepOK(c.steps[j], j)
    BY SMTT(30) DEF CopyOK
  <2>2. CASE c.steps[j].status \in {"pending"} \union ActiveStep
    BY <1>3, <2>1, <2>2, Zenon DEF StepOK, ActiveStep
  <2>3. QED
    BY <1>3, <2>1, <2>2
<1>7. \A e \in Copy : e.steps = t => CopyOK(e)
  BY <1>3, <1>6, Zenon DEF CopyOK, Fits
<1>8. ASSUME NEW j \in Position(def) PROVE t[j].status \in {"failed", "canceled"} \union DoneStep
  <2>1. c.steps[j].status \in StepStatus
    BY <1>1, Zenon DEF Step
  <2>2. QED
    BY <1>3, <2>1, Zenon DEF StepStatus
<1>9. ASSUME NEW j \in Position(def), NEW w \in Step, Tracks(c.steps[j], w) PROVE GivesUp(t[j], w)
  <2>1. c.steps[j].run = w.run /\ StepOf(c.steps[j]) = StepOf(w)
    BY <1>9 DEF Tracks
  <2>2. CASE c.steps[j].status \in {"pending"} \union ActiveStep
    <3>1. StepOf(t[j]) = "lost" /\ t[j].run = w.run
      BY <1>3, <1>5, <2>1, <2>2, StepOfStatus, Zenon
    <3>2. StepOf(w) # "skipped"
      BY <1>1, <2>1, <2>2, StepOfStatus, Zenon DEF ActiveStep
    <3>3. QED
      BY <3>1, <3>2, Zenon DEF GivesUp
  <2>3. CASE c.steps[j].status \notin {"pending"} \union ActiveStep
    <3>1. t[j] = c.steps[j]
      BY <1>3, <2>3, Zenon
    <3>2. StepOf(w) # "waiting"
      BY <1>1, <2>1, <2>3, StepOfStatus, Zenon
    <3>3. QED
      BY <2>1, <3>1, <3>2, Zenon DEF GivesUp
  <2>4. QED
    BY <2>2, <2>3
<1>10. \A j \in Position(def) : c.steps[j].status \in {"failed", "canceled"} => t[j] = c.steps[j]
  BY <1>3, Zenon DEF ActiveStep
<1>11. QED
  BY <1>3, <1>7, <1>8, <1>9, <1>10, Zenon

\* What GetRun returns of a Run that is finished is what the Run says: the
\* cache may be late, but not with an end.
LEMMA RunIsRead ==
  ASSUME WorkflowTypes, NEW r \in DOMAIN runs, NEW x, x = GetRun(r)
  PROVE  /\ x \in Run
         /\ x.status \notin ActiveRun => x.status = runs[r].status /\ x.output = runs[r].output
<1>1. runs[r] \in Run /\ older[r] \in ActiveRun \union {None}
  BY RunIsTyped
<1>2. CASE older[r] = None
  BY <1>1, <1>2 DEF GetRun
<1>3. CASE older[r] # None
  <2>1. PICK status \in ActiveRun : status = older[r]
    BY <1>1, <1>3
  <2>2. x = [runs[r] EXCEPT !.status = status]
    BY <1>3, <2>1, Zenon DEF GetRun
  <2>3. QED
    BY <1>1, <2>1, <2>2 DEF Run, RunStatus
<1>4. QED
  BY <1>2, <1>3

\* A step takes over what its Run says (Refreshed).
LEMMA StepIsRefreshed ==
  ASSUME WorkflowTypes, NEW i, NEW step \in Step, NEW r \in DOMAIN runs, step.run = r, r # 0,
         runs[r].step = i, NEW s, s = Refreshed(step, GetRun(r))
  PROVE  /\ s \in Step /\ s.run = r /\ StepOK(s, i)
         /\ s.status \in ActiveStep \union {"succeeded", "failed", "canceled"}
         /\ s.status \in {"failed", "canceled"} => runs[r].status = s.status
<1>1. PICK x : x = GetRun(r)
  OBVIOUS
<1>2. /\ x.status \in RunStatus /\ x.output \in STRING
      /\ x.status \notin ActiveRun => x.status = runs[r].status /\ x.output = runs[r].output
  BY <1>1, RunIsRead DEF Run
<1>3. PICK output : output = IF x.status = "succeeded" THEN x.output
                            ELSE IF x.status \in ActiveStep THEN step.output ELSE ""
  BY Zenon
<1>4. output \in STRING
  <2>1. step.output \in STRING
    BY DEF Step
  <2>2. QED
    BY <1>2, <1>3, <2>1, BlankAssumption, Zenon
<1>5. x.status \in StepStatus /\ x.status \in ActiveStep \union {"succeeded", "failed", "canceled"}
  BY <1>2 DEF RunStatus, StepStatus, ActiveRun, ActiveStep, DoneStep, FinishedWorkflow
<1>6. s = [step EXCEPT !.status = x.status, !.output = output]
  BY <1>1, <1>3, Zenon DEF Refreshed, Step
<1>7. s \in Step /\ s.status = x.status /\ s.run = r /\ s.output = output
  BY <1>4, <1>5, <1>6, Zenon DEF Step
<1>8. s.status = "succeeded" => runs[r].status = "succeeded" /\ runs[r].output = s.output
  BY <1>2, <1>3, <1>7 DEF ActiveRun
<1>9. StepOK(s, i)
  BY <1>5, <1>7, <1>8, Zenon DEF StepOK, ActiveStep
<1>10. s.status \in {"failed", "canceled"} => runs[r].status = s.status
  BY <1>2, <1>7 DEF ActiveRun
<1>11. QED
  BY <1>5, <1>7, <1>9, <1>10

\* The manager reads the Run of a step and goes on, or ends the workflow
\* (refreshSteps).
LEMMA RefreshStepStep ==
  ASSUME WorkflowInv, NEW m \in Manager, RefreshStep(m)
  PROVE  WorkflowInv'
<1>1. /\ WorkflowTypes /\ WorkflowOK /\ faults \in Nat /\ mgr[m] \in Local /\ LocalOK(mgr[m])
      /\ wf \in Copy /\ Started /\ mgr[m].pc = "refresh"
  BY ManagerIsOK, Zenon DEF RefreshStep, At
<1>2. UNCHANGED <<def, wf, runs, older, req>> /\ faults' \in Nat /\ faults' >= faults
  <2>1. UNCHANGED <<def, wf, runs, older, req, faults>>
    BY Zenon DEF RefreshStep
  <2>2. QED
    BY <1>1, <2>1
<1>3. PICK l, c, i : l = mgr[m] /\ c = l.cand /\ i = l.pick
  OBVIOUS
<1>4. /\ CopyOK(c) /\ CurrentCopy(c) /\ c.version <= wf.version /\ i \in ToRefresh(c, 1)
      /\ l \in Local /\ i \in Nat /\ c \in Copy
  BY <1>1, <1>3, Zenon DEF LocalOK, Local
<1>5. /\ def \in Definition /\ c.steps \in Seq(Step) /\ DOMAIN c.steps = Position(def)
      /\ Position(def) = 1..Len(c.steps) /\ Len(c.steps) = Len(def.steps)
      /\ \A j \in Position(def) : c.steps[j] \in Step
  BY <1>1, <1>4, DefinitionIsNormal, CopyHasSteps, ZenonT(30) DEF CopyOK
<1>6. i \in Position(def) /\ i >= 1 /\ c.steps[i].status # "skipped" /\ c.steps[i].run # 0
  BY <1>4, <1>5 DEF ToRefresh
<1>7. PICK r \in DOMAIN runs : r = c.steps[i].run /\ runs[r].step = i
  BY <1>4, <1>6, Zenon DEF CopyOK, StepOK
<1>8. PICK s : s = Refreshed(c.steps[i], GetRun(r))
  BY ZenonT(30)
<1>9. /\ s \in Step /\ s.run = c.steps[i].run /\ StepOK(s, i)
      /\ s.status \in ActiveStep \union {"succeeded", "failed", "canceled"}
      /\ s.status \in {"failed", "canceled"} => SomeRun(s.status)
  BY <1>1, <1>5, <1>6, <1>7, <1>8, StepIsRefreshed DEF SomeRun
<1>10. PICK t : t = [c.steps EXCEPT ![i] = s]
  BY ZenonT(30)
<1>11. /\ t \in Seq(Step) /\ Len(t) = Len(def.steps) /\ t[i] = s
       /\ \A j \in Position(def) \ {i} : t[j] = c.steps[j]
  BY <1>5, <1>6, <1>9, <1>10, SequenceIsUpdated, SMTT(30)
<1>12. PICK cc : cc = [c EXCEPT !.steps = t]
  BY Zenon
<1>13. cc \in Copy /\ cc.steps = t /\ cc.version = c.version /\ cc.status = c.status
  BY <1>4, <1>11, <1>12 DEF Copy
<1>14. CopyOK(cc)
  BY <1>4, <1>9, <1>11, <1>13, Zenon DEF CopyOK, Fits
<1>15. c.status = "running" /\ \A j \in Position(def) : c.steps[j].status = "skipped" => SkippedIn(j)
  BY <1>4, Zenon DEF CurrentCopy
<1>16. ASSUME c.version = wf.version
       PROVE  /\ wf.status = "running" /\ \A j \in Position(def) : wf.steps[j] \in Step
              /\ \A j \in Position(def) : Tracks(c.steps[j], wf.steps[j])
              /\ StepOf(wf.steps[i]) = "assigned"
  <2>1. wf.status = "running" /\ \A j \in Position(def) : Tracks(c.steps[j], wf.steps[j])
    BY <1>4, <1>16 DEF CurrentCopy
  <2>2. \A j \in Position(def) : wf.steps[j] \in Step
    BY <1>1, <1>5, AcceptedResolves, CopyHasSteps, ZenonT(30) DEF Started, Exists
  <2>3. wf.steps[i].status \notin {"failed", "canceled"}
    BY <1>1, <1>6, <2>1, Zenon DEF WorkflowOK
  <2>4. StepOf(wf.steps[i]) # "lost"
    BY <1>6, <2>2, <2>3, StepOfStatus
  <2>5. c.steps[i].status # "pending"
    BY <1>4, <1>6, Zenon DEF CopyOK, StepOK
  <2>6. StepOf(c.steps[i]) \notin {"waiting", "skipped", "lost"}
    BY <1>5, <1>6, <2>1, <2>4, <2>5, StepOfStatus DEF Tracks
  <2>7. QED
    BY <1>5, <1>6, <2>1, <2>2, <2>6, StepOfStatus, ZenonT(30) DEF Tracks
<1>17. PICK seen : seen = [l EXCEPT !.cand = cc, !.changed = @ \/ s.status # c.steps[i].status]
  OBVIOUS
<1>18. seen \in Local /\ seen.cand = cc
  BY <1>4, <1>13, <1>17, ZenonT(30) DEF Local
<1>19. Become(m, IF s.status \in {"failed", "canceled"}
                 THEN [seen EXCEPT !.pc = "finish", !.cand.status = s.status,
                                   !.cand.steps = cancelNonterminalSteps(@)]
                 ELSE Continue(seen, i + 1))
  <2>1. seen = [l EXCEPT !.cand.steps[i] = s, !.changed = @ \/ s.status # c.steps[i].status]
    BY <1>3, <1>10, <1>12, <1>17
  <2>2. QED
    BY <1>3, <1>7, <1>8, <2>1, Zenon DEF RefreshStep
<1>20. CASE s.status \in {"failed", "canceled"}
  <2>0. PICK status \in WorkflowStatus : status = s.status
    BY <1>20 DEF FinishedWorkflow, WorkflowStatus
  <2>1. PICK w, e : w = cancelNonterminalSteps(t) /\ e = [cc EXCEPT !.status = status, !.steps = w]
    BY Zenon
  <2>2. status \in FinishedWorkflow /\ status # "succeeded" /\ WorkflowTypes
    BY <1>1, <1>20, <2>0, Zenon DEF FinishedWorkflow
  <2>3. /\ e \in Copy /\ e.status = status /\ e.version = cc.version /\ CopyOK(e)
        /\ \A j \in Position(def) :
             /\ cc.steps[j].status \in {"failed", "canceled"} => e.steps[j] = cc.steps[j]
             /\ \A x \in Step : Tracks(cc.steps[j], x) => GivesUp(e.steps[j], x)
    <3>1. /\ w \in Seq(Step) /\ \A x \in Copy : x.steps = w => CopyOK(x)
          /\ \A j \in Position(def) :
               /\ cc.steps[j].status \in {"failed", "canceled"} => w[j] = cc.steps[j]
               /\ \A x \in Step : Tracks(cc.steps[j], x) => GivesUp(w[j], x)
      BY <1>13, <1>14, <2>1, <2>2, GivingUp
    <3>2. e \in Copy /\ e.status = status /\ e.version = cc.version /\ e.steps = w
      BY <1>13, <2>1, <3>1, Zenon DEF Copy
    <3>3. QED
      BY <3>1, <3>2
  <2>4. ASSUME c.version = wf.version, NEW j \in Position(def) PROVE GivesUp(e.steps[j], wf.steps[j])
    <3>1. CASE j = i
      <4>1. e.steps[i] = s /\ s.run = wf.steps[i].run
        BY <1>6, <1>9, <1>11, <1>13, <1>16, <1>20, <2>3, <2>4 DEF Tracks
      <4>2. StepOf(s) = "lost"
        BY <1>9, <1>20, StepOfStatus, ZenonT(30)
      <4>3. QED
        BY <1>16, <2>4, <3>1, <4>1, <4>2, ZenonT(30) DEF GivesUp
    <3>2. CASE j # i
      BY <1>11, <1>13, <1>16, <2>3, <2>4, <3>2, Zenon
    <3>3. QED
      BY <3>1, <3>2, Zenon
  <2>5. FinishedCopy(e)
    BY <1>9, <1>13, <1>16, <1>20, <2>0, <2>2, <2>3, <2>4, Zenon DEF FinishedCopy
  <2>6. PICK y : y = [seen EXCEPT !.pc = "finish", !.cand = e]
    OBVIOUS
  <2>7. y \in Local /\ y.pc = "finish" /\ y.cand = e
    BY <1>18, <2>3, <2>6, Zenon DEF Local, Pc
  <2>8. LocalOK(y)
    BY <1>1, <1>4, <1>13, <2>3, <2>5, <2>7, Zenon DEF LocalOK
  <2>9. Become(m, y)
    <3>1. y = [seen EXCEPT !.pc = "finish", !.cand.status = s.status,
                           !.cand.steps = cancelNonterminalSteps(@)]
      BY <1>13, <1>18, <2>0, <2>1, <2>6, Zenon DEF Local, Copy
    <3>2. QED
      BY <1>19, <1>20, <3>1
  <2>10. QED
    BY <1>2, <2>7, <2>8, <2>9, QuietManagerStep
<1>21. CASE s.status \notin {"failed", "canceled"}
  <2>1. StepOf(s) = "assigned" /\ s.status # "skipped"
    BY <1>9, <1>21, StepOfStatus DEF ActiveStep
  <2>2. ASSUME NEW j \in Position(def), cc.steps[j].status = "skipped" PROVE SkippedIn(j)
    BY <1>11, <1>13, <1>15, <2>1, <2>2, Zenon
  <2>3. ASSUME NEW j \in Position(def), c.version = wf.version PROVE Tracks(cc.steps[j], wf.steps[j])
    BY <1>9, <1>11, <1>13, <1>16, <2>1, <2>3, ZenonT(30) DEF Tracks
  <2>4. CurrentCopy(cc)
    BY <1>13, <1>15, <1>16, <2>2, <2>3, Zenon DEF CurrentCopy
  <2>5. RoundOK(seen)
    BY <1>1, <1>4, <1>13, <1>14, <1>18, <2>4 DEF RoundOK
  <2>6. i + 1 \in Nat /\ i + 1 >= 1
    BY <1>4
  <2>7. Continue(seen, i + 1) \in Local /\ LocalOK(Continue(seen, i + 1))
    BY <2>5, <2>6, RoundGoesOn
  <2>8. Become(m, Continue(seen, i + 1))
    BY <1>19, <1>21
  <2>9. QED
    BY <1>2, <2>7, <2>8, QuietManagerStep, ZenonT(30)
<1>22. QED
  BY <1>20, <1>21

-----------------------------------------------------------------------------
(* Runs move, and the rows of the workflow stay.                           *)

\* A step of the system: what it says of the rows, and one manager or one
\* request that moves.
LEMMA ProcessesStay ==
  ASSUME WorkflowInv, Evolves, DataOK', WorkflowTypes',
         mgr' = mgr \/ \E m \in Manager, x \in Local : LocalOK(x) /\ mgr' = [mgr EXCEPT ![m] = x],
         req' = req \/ \E k \in Kind, q \in Request : RequestOK(k, q) /\ req' = [req EXCEPT ![k] = q]
  PROVE  WorkflowInv'
<1>1. WorkflowTypes /\ WorkflowOK
  BY DEF WorkflowInv
<1>2. \A x \in Local : LocalOK(x) => LocalOK(x)'
  BY <1>1, LocalStaysOK
<1>3. \A k \in Kind, q \in Request : RequestOK(k, q) => RequestOK(k, q)'
  BY <1>1, RequestStaysOK
<1>4. \A m \in Manager : LocalOK(mgr[m])'
  BY <1>2, ManagersStay
<1>5. \A k \in Kind : RequestOK(k, req[k])'
  BY <1>3, RequestsStay
<1>6. QED
  BY <1>4, <1>5 DEF WorkflowInv, DataOK

\* No Run is created, and none that is finished changes.
RunsEvolve ==
  /\ Len(runs') = Len(runs) /\ DOMAIN runs' = DOMAIN runs
  /\ \A r \in DOMAIN runs :
       /\ runs'[r].step = runs[r].step
       /\ runs'[r].input = runs[r].input
       /\ runs'[r].parent = runs[r].parent
       /\ runs[r].status \notin ActiveRun =>
            runs'[r].status = runs[r].status /\ runs'[r].output = runs[r].output

\* Runs move.
LEMMA RunsMove ==
  ASSUME WorkflowInv, UNCHANGED <<def, wf>>, RunsEvolve, faults' >= faults,
         CancelRequested => CancelRequested', WorkflowTypes'
  PROVE  Evolves /\ DataOK'
<1>1. WorkflowTypes /\ DataOK /\ faults \in Nat /\ faults' \in Nat
  BY InvariantParts DEF WorkflowTypes
<1>2. \A kind \in FaultKinds : Faulty(kind) => Faulty(kind)'
  BY <1>1 DEF Faulty
<1>3. Evolves
  BY <1>2 DEF Evolves, RunsEvolve, Exists, Started, SkippedIn
<1>4. \A i : RunOfStep(i)' = RunOfStep(i)
  BY Zenon DEF RunOfStep, RunsEvolve
<1>5. OneRunPerStep' /\ SkippedHasNoRun'
  BY <1>1, <1>4, Zenon DEF DataOK, OneRunPerStep, SkippedHasNoRun, SkippedIn, RunsEvolve
<1>6. RunsOK' /\ SkipsOK'
  BY <1>3, <1>5, RunsAndSkipsStay, ZenonT(30) DEF SkippedIn, RunsEvolve
<1>7. WorkflowOK'
  <2>1. CopyOK(wf) => CopyOK(wf)'
    <3>1. PICK c : c = wf
      OBVIOUS
    <3>2. CopyOK(c) => CopyOK(c)'
      BY <1>3, CopyStaysOK
    <3>3. QED
      BY <3>1, <3>2
  <2>2. \A status \in {"failed", "canceled"} : SomeRun(status) => SomeRun(status)'
    BY DEF SomeRun, RunsEvolve, ActiveRun
  <2>3. Faulty("call") => Faulty("call")'
    BY <1>2 DEF Faulty
  <2>4. runs = <<>> => runs' = <<>>
    <3>1. runs' \in Seq(Run) /\ Len(runs') = Len(runs)
      BY DEF WorkflowTypes, RunsEvolve
    <3>2. QED
      BY <3>1, SequenceIsEmpty, Zenon
  <2>5. QED
    BY <1>1, <2>1, <2>2, <2>3, <2>4 DEF DataOK, WorkflowOK, Exists
<1>8. ConcurrencyIsBounded'
  BY <1>3, BusyStays
<1>9. QED
  BY <1>3, <1>5, <1>6, <1>7, <1>8 DEF DataOK

\* One Run moves.
LEMMA OneRunMoves ==
  ASSUME WorkflowTypes, NEW r \in DOMAIN runs, NEW x \in Run,
         x.step = runs[r].step, x.input = runs[r].input, x.parent = runs[r].parent,
         runs[r].status \in ActiveRun \/ (x.status = runs[r].status /\ x.output = runs[r].output),
         runs' = [runs EXCEPT ![r] = x], NEW o \in ActiveRun \union {None},
         older' = older \/ older' = [older EXCEPT ![r] = o]
  PROVE  /\ RunsEvolve
         /\ runs' \in Seq(Run) /\ older' \in Seq(ActiveRun \union {None}) /\ Len(older') = Len(runs')
<1>1. /\ runs \in Seq(Run) /\ older \in Seq(ActiveRun \union {None}) /\ Len(older) = Len(runs)
      /\ r \in 1..Len(runs) /\ r \in 1..Len(older) /\ DOMAIN runs = 1..Len(runs)
  BY RunIsTyped DEF WorkflowTypes
<1>2. /\ runs' \in Seq(Run) /\ Len(runs') = Len(runs)
      /\ \A s \in 1..Len(runs) : runs'[s] = IF s = r THEN x ELSE runs[s]
  BY <1>1, SequenceIsUpdated
<1>3. older' \in Seq(ActiveRun \union {None}) /\ Len(older') = Len(older)
  BY <1>1, SequenceIsUpdated
<1>4. RunsEvolve
  BY <1>1, <1>2 DEF RunsEvolve
<1>5. QED
  BY <1>1, <1>2, <1>3, <1>4, Zenon

\* A change of a Run with its cached value (RunBecomes).
LEMMA RunBecomesMoves ==
  ASSUME WorkflowTypes, NEW r \in DOMAIN runs, runs[r].status \in ActiveRun, NEW x \in Run,
         x.step = runs[r].step, x.input = runs[r].input, x.parent = runs[r].parent, RunBecomes(r, x)
  PROVE  /\ RunsEvolve /\ faults' \in Nat /\ faults' >= faults
         /\ runs' \in Seq(Run) /\ older' \in Seq(ActiveRun \union {None}) /\ Len(older') = Len(runs')
<1>1. faults \in Nat
  BY DEF WorkflowTypes
<1>2. PICK o \in ActiveRun \union {None} : older' = [older EXCEPT ![r] = o]
  BY DEF RunBecomes
<1>3. runs' = [runs EXCEPT ![r] = x] /\ faults' \in Nat /\ faults' >= faults
  BY <1>1 DEF RunBecomes, Fault
<1>4. QED
  BY <1>2, <1>3, OneRunMoves, Zenon

\* The engine moves one Run (StartRun, EndRun, RequeueRun, CancelRunRequest).
LEMMA EngineSteps ==
  ASSUME WorkflowInv, NEW r \in DOMAIN runs,
         StartRun(r) \/ EndRun(r) \/ RequeueRun(r) \/ CancelRunRequest(r)
  PROVE  WorkflowInv'
<1>1. WorkflowTypes /\ WorkflowOK /\ RunsOK /\ faults \in Nat /\ runs[r] \in Run
  BY RunIsTyped DEF WorkflowInv, WorkflowTypes
<1>2. UNCHANGED <<def, wf, mgr, req>> /\ runs[r].status \in ActiveRun
  BY Zenon DEF StartRun, EndRun, RequeueRun, CancelRunRequest, ActiveRun
<1>3. ASSUME NEW status \in RunStatus, NEW x, x = [runs[r] EXCEPT !.status = status]
      PROVE  /\ x \in Run /\ x.step = runs[r].step /\ x.input = runs[r].input
             /\ x.parent = runs[r].parent
  BY <1>1, <1>3 DEF Run
<1>4. "queued" \in RunStatus /\ "running" \in RunStatus /\ "failed" \in RunStatus
      /\ "succeeded" \in RunStatus /\ "canceled" \in RunStatus
  BY DEF RunStatus, ActiveRun, FinishedWorkflow
<1>5. /\ RunsEvolve /\ faults' \in Nat /\ faults' >= faults
      /\ runs' \in Seq(Run) /\ older' \in Seq(ActiveRun \union {None}) /\ Len(older') = Len(runs')
  <2>1. CASE StartRun(r)
    <3>1. PICK x : x = [runs[r] EXCEPT !.status = "running"] /\ RunBecomes(r, x)
      BY <2>1, SMTT(30) DEF StartRun
    <3>2. QED
      BY <1>1, <1>2, <1>3, <1>4, <3>1, RunBecomesMoves
  <2>2. CASE EndRun(r)
    <3>1. CASE RunBecomes(r, [runs[r] EXCEPT !.status = "failed"])
      <4>1. PICK x : x = [runs[r] EXCEPT !.status = "failed"] /\ RunBecomes(r, x)
        BY <3>1
      <4>2. QED
        BY <1>1, <1>2, <1>3, <1>4, <4>1, RunBecomesMoves
    <3>2. ASSUME NEW t \in Answers[def.steps[runs[r].step].agent],
                 RunBecomes(r, [runs[r] EXCEPT !.status = "succeeded", !.output = t])
          PROVE  /\ RunsEvolve /\ faults' \in Nat /\ faults' >= faults /\ runs' \in Seq(Run)
                 /\ older' \in Seq(ActiveRun \union {None}) /\ Len(older') = Len(runs')
      <4>1. runs # <<>>
        OBVIOUS
      <4>2. Accepted(def) /\ runs[r].step \in Position(def)
        BY <1>1, <4>1, Zenon DEF WorkflowOK, RunsOK, RunOK
      <4>3. t \in STRING
        BY <3>2, <4>2, DefinitionsAssumption DEF Accepted
      <4>4. PICK x : x = [runs[r] EXCEPT !.status = "succeeded", !.output = t] /\ RunBecomes(r, x)
        BY <3>2
      <4>5. x \in Run /\ x.step = runs[r].step /\ x.input = runs[r].input /\ x.parent = runs[r].parent
        BY <1>1, <1>4, <4>3, <4>4, Zenon DEF Run
      <4>6. QED
        BY <1>1, <1>2, <4>4, <4>5, RunBecomesMoves, Zenon
    <3>3. QED
      BY <2>2, <3>1, <3>2, Zenon DEF EndRun
  <2>3. CASE RequeueRun(r) \/ CancelRunRequest(r)
    <3>1. PICK status \in RunStatus : runs' = [runs EXCEPT ![r].status = status]
      BY <1>4, <2>3 DEF RequeueRun, CancelRunRequest
    <3>2. PICK x : x = [runs[r] EXCEPT !.status = status]
      BY Zenon
    <3>3. runs' = [runs EXCEPT ![r] = x] /\ older' = [older EXCEPT ![r] = None]
      BY <2>3, <3>1, <3>2 DEF RequeueRun, CancelRunRequest
    <3>4. faults' \in Nat /\ faults' >= faults
      BY <1>1, <2>3 DEF RequeueRun, CancelRunRequest, Fault
    <3>5. QED
      BY <1>1, <1>2, <1>3, <3>2, <3>3, <3>4, OneRunMoves, Zenon
  <2>4. QED
    BY <2>1, <2>2, <2>3
<1>6. WorkflowTypes'
  BY <1>1, <1>2, <1>5, Zenon DEF WorkflowTypes
<1>7. Evolves /\ DataOK'
  BY <1>2, <1>5, <1>6, RunsMove DEF CancelRequested
<1>8. QED
  BY <1>2, <1>6, <1>7, ProcessesStay, Zenon

\* A Run is canceled, if it is still active (CancelRun).
LEMMA CancelRunMoves ==
  ASSUME WorkflowTypes, NEW h, CancelRun(h)
  PROVE  /\ RunsEvolve /\ faults' \in Nat /\ faults' >= faults
         /\ runs' \in Seq(Run) /\ older' \in Seq(ActiveRun \union {None}) /\ Len(older') = Len(runs')
<1>1. /\ runs \in Seq(Run) /\ older \in Seq(ActiveRun \union {None}) /\ Len(older) = Len(runs)
      /\ faults \in Nat /\ DOMAIN older = DOMAIN runs
  BY RunIsTyped DEF WorkflowTypes
<1>2. CASE UNCHANGED <<runs, older, faults>>
  BY <1>1, <1>2 DEF RunsEvolve
<1>3. CASE h \in DOMAIN runs /\ runs[h].status \in ActiveRun
  <2>1. PICK x : x = [runs[h] EXCEPT !.status = "canceled"] /\ RunBecomes(h, x)
    BY <1>3 DEF CancelRun
  <2>2. runs[h] \in Run
    BY <1>3, RunIsTyped
  <2>3. x \in Run /\ x.step = runs[h].step /\ x.input = runs[h].input /\ x.parent = runs[h].parent
    BY <2>1, <2>2 DEF Run, RunStatus, FinishedWorkflow
  <2>4. QED
    BY <1>3, <2>1, <2>3, RunBecomesMoves, Zenon
<1>4. CASE h \notin DOMAIN runs /\ ~(UNCHANGED <<runs, older, faults>>)
  <2>0. PICK x : RunBecomes(h, x)
    BY <1>4 DEF CancelRun
  <2>1. PICK o : runs' = [runs EXCEPT ![h] = x] /\ older' = [older EXCEPT ![h] = o]
    BY <2>0, Zenon DEF RunBecomes
  <2>2. runs' = runs /\ older' = older
    BY <1>1, <1>4, <2>1
  <2>3. faults' \in Nat /\ faults' >= faults
    BY <1>1, <2>0 DEF RunBecomes, Fault
  <2>4. QED
    BY <1>1, <2>2, <2>3 DEF RunsEvolve
<1>5. QED
  BY <1>2, <1>3, <1>4, Zenon DEF CancelRun

\* The Runs of a workflow that ended are canceled one after the other
\* (CancelRequestRun, CancelStepRun).
LEMMA CancellationSteps ==
  ASSUME WorkflowInv,
         (\E k \in Kind : CancelRequestRun(k)) \/ (\E m \in Manager : CancelStepRun(m))
  PROVE  WorkflowInv'
<1>1. WorkflowTypes /\ mgr \in [Manager -> Local] /\ req \in [Kind -> Request]
  BY DEF WorkflowInv, WorkflowTypes
<1>2. PICK h : CancelRun(h)
  BY Zenon DEF CancelRequestRun, CancelStepRun
<1>3. UNCHANGED <<def, wf>>
  BY Zenon DEF CancelRequestRun, CancelStepRun
<1>4. /\ RunsEvolve /\ faults' \in Nat /\ faults' >= faults
      /\ runs' \in Seq(Run) /\ older' \in Seq(ActiveRun \union {None}) /\ Len(older') = Len(runs')
  BY <1>1, <1>2, CancelRunMoves
<1>5. ASSUME NEW k \in Kind, CancelRequestRun(k) PROVE WorkflowInv'
  <2>1. PICK q : q = [req[k] EXCEPT !.todo = Tail(@)]
    BY Zenon
  <2>2. req[k] \in Request /\ req[k].todo # <<>> /\ RequestOK(k, req[k])
    BY <1>1, <1>5 DEF CancelRequestRun, WorkflowInv
  <2>3. Tail(req[k].todo) \in Seq(Nat)
    BY <2>2, SequenceIsShortened DEF Request
  <2>4. q \in Request /\ q.pc = req[k].pc /\ q.cand = req[k].cand
    BY <2>1, <2>2, <2>3, Zenon DEF Request
  <2>5. RequestOK(k, q)
    BY <2>2, <2>4, Zenon DEF RequestOK
  <2>6. req' = [req EXCEPT ![k] = q] /\ mgr' = mgr
    BY <1>5, <2>1 DEF CancelRequestRun
  <2>7. WorkflowTypes'
    BY <1>1, <1>3, <1>4, <2>4, <2>6 DEF WorkflowTypes
  <2>8. CancelRequested => CancelRequested'
    BY <1>1, <2>4, <2>6 DEF CancelRequested
  <2>9. Evolves /\ DataOK'
    BY <1>3, <1>4, <2>7, <2>8, RunsMove
  <2>10. QED
    BY <2>4, <2>5, <2>6, <2>7, <2>9, ProcessesStay, Zenon
<1>6. ASSUME NEW m \in Manager, CancelStepRun(m) PROVE WorkflowInv'
  <2>1. PICK x : x = [mgr[m] EXCEPT !.todo = Tail(@)]
    BY Zenon
  <2>2. mgr[m] \in Local /\ mgr[m].todo # <<>> /\ mgr[m].pc = "ending" /\ LocalOK(mgr[m])
    BY <1>1, <1>6 DEF CancelStepRun, WorkflowInv, At
  <2>3. Tail(mgr[m].todo) \in Seq(Nat)
    BY <2>2, SequenceIsShortened DEF Local
  <2>4. x \in Local /\ x.pc = "ending"
    BY <2>1, <2>2, <2>3, Zenon DEF Local
  <2>5. LocalOK(x)
    BY <2>2, <2>4, EmptyHands DEF LocalOK
  <2>6. req' = req /\ mgr' = [mgr EXCEPT ![m] = x]
    BY <1>6, <2>1 DEF CancelStepRun, Become
  <2>7. WorkflowTypes'
    BY <1>1, <1>3, <1>4, <2>4, <2>6, Zenon DEF WorkflowTypes
  <2>8. Evolves /\ DataOK'
    BY <1>3, <1>4, <2>6, <2>7, RunsMove DEF CancelRequested
  <2>9. QED
    BY <2>4, <2>5, <2>6, <2>7, <2>8, ProcessesStay, Zenon
<1>7. QED
  BY <1>5, <1>6

\* A Run is handed to the queue (Enqueue).
LEMMA EnqueueStep ==
  ASSUME WorkflowInv, NEW m \in Manager, Enqueue(m)
  PROVE  WorkflowInv'
<1>1. /\ WorkflowTypes /\ faults \in Nat /\ Started /\ mgr \in [Manager -> Local]
      /\ runs \in Seq(Run) /\ older \in Seq(ActiveRun \union {None}) /\ Len(older) = Len(runs)
  BY ManagerIsOK, Zenon DEF Enqueue, At, WorkflowTypes
<1>2. UNCHANGED <<def, wf, older, req, faults>> /\ mgr' = [mgr EXCEPT ![m] = Again]
  BY DEF Enqueue, Become
<1>3. PICK p : runs' = [runs EXCEPT ![p].enqueued = TRUE]
  BY Zenon DEF Enqueue
<1>4. RunsEvolve /\ runs' \in Seq(Run) /\ Len(older) = Len(runs')
  <2>1. CASE p \in DOMAIN runs
    <3>1. PICK x : x = [runs[p] EXCEPT !.enqueued = TRUE]
      BY Zenon
    <3>2. runs' = [runs EXCEPT ![p] = x]
      BY <1>3, <3>1
    <3>3. runs[p] \in Run
      BY <1>1, <2>1, RunIsTyped
    <3>4. /\ x \in Run /\ x.step = runs[p].step /\ x.input = runs[p].input
          /\ x.parent = runs[p].parent /\ x.status = runs[p].status /\ x.output = runs[p].output
      BY <3>1, <3>3, Zenon DEF Run
    <3>5. QED
      BY <1>1, <1>2, <2>1, <3>2, <3>4, OneRunMoves, Zenon
  <2>2. CASE p \notin DOMAIN runs
    <3>1. runs' = runs
      BY <1>1, <1>3, <2>2
    <3>2. QED
      BY <1>1, <3>1 DEF RunsEvolve
  <2>3. QED
    BY <2>1, <2>2
<1>5. Again \in Local /\ LocalOK(Again)
  <2>1. Again.pc = "row"
    BY DEF Again, NotRunning
  <2>2. QED
    BY <1>1, <2>1, EmptyHands
<1>6. WorkflowTypes'
  BY <1>1, <1>2, <1>4, <1>5, Zenon DEF WorkflowTypes
<1>7. Evolves /\ DataOK'
  BY <1>1, <1>2, <1>4, <1>6, RunsMove DEF CancelRequested
<1>8. QED
  BY <1>2, <1>5, <1>6, <1>7, ProcessesStay, Zenon

\* A process starts, and Runs that wait are handed to the queue (Restart).
LEMMA RestartStep ==
  ASSUME WorkflowInv, NEW m \in Manager, Restart(m)
  PROVE  WorkflowInv'
<1>1. /\ WorkflowTypes /\ faults \in Nat /\ mgr \in [Manager -> Local]
      /\ runs \in Seq(Run) /\ older \in Seq(ActiveRun \union {None}) /\ Len(older) = Len(runs)
      /\ DOMAIN runs = 1..Len(runs) /\ Len(runs) \in Nat /\ \A r \in DOMAIN runs : runs[r] \in Run
  BY RunIsTyped DEF WorkflowInv, WorkflowTypes
<1>2. UNCHANGED <<def, wf, older, req, faults>>
  BY DEF Restart
<1>3. PICK handed \in [DOMAIN runs -> BOOLEAN] :
        runs' = [r \in DOMAIN runs |-> [runs[r] EXCEPT !.enqueued = handed[r]]]
  <2>1. PICK handed : handed = [r \in DOMAIN runs |->
                                  runs[r].enqueued \/ (m \in RecoversRuns /\ runs[r].status = "queued")]
    BY Zenon
  <2>2. handed \in [DOMAIN runs -> BOOLEAN]
    BY <2>1
  <2>3. runs' = [r \in DOMAIN runs |-> [runs[r] EXCEPT !.enqueued = handed[r]]]
    BY <2>1 DEF Restart
  <2>4. QED
    BY <2>2, <2>3, Zenon
<1>4. ASSUME NEW r \in DOMAIN runs
      PROVE  /\ runs'[r] \in Run /\ runs'[r].step = runs[r].step /\ runs'[r].input = runs[r].input
             /\ runs'[r].parent = runs[r].parent /\ runs'[r].status = runs[r].status
             /\ runs'[r].output = runs[r].output
  BY <1>1, <1>3, Zenon DEF Run
<1>5. runs' \in Seq(Run) /\ Len(runs') = Len(runs) /\ DOMAIN runs' = DOMAIN runs
  BY <1>1, <1>3, <1>4
<1>6. RunsEvolve
  BY <1>4, <1>5, Zenon DEF RunsEvolve
<1>7. PICK x \in Local : LocalOK(x) /\ mgr' = [mgr EXCEPT ![m] = x]
  <2>1. PICK x : x = IF wf.status = "running" THEN [NotRunning EXCEPT !.pc = "acquire"] ELSE NotRunning
    BY Zenon
  <2>2. x \in Local
    BY <2>1, EmptyHands DEF Pc
  <2>3. IF wf.status = "running" THEN x.pc = "acquire" ELSE x.pc = "idle" /\ ~x.done
    BY <2>1 DEF NotRunning
  <2>4. LocalOK(x)
    BY <2>3, EmptyHands, Zenon DEF Started
  <2>5. QED
    BY <2>1, <2>2, <2>4, Zenon DEF Restart, Become
<1>8. WorkflowTypes'
  BY <1>1, <1>2, <1>5, <1>7 DEF WorkflowTypes
<1>9. Evolves /\ DataOK'
  <2>1. faults' >= faults
    BY <1>1, <1>2
  <2>2. QED
    BY <1>2, <1>6, <1>8, <2>1, RunsMove, Zenon DEF CancelRequested
<1>10. QED
  BY <1>2, <1>7, <1>8, <1>9, ProcessesStay, Zenon

-----------------------------------------------------------------------------
(* Requests, and processes that stop.                                      *)

\* A request that is over asks for nothing.
LEMMA RequestIsOver ==
  /\ NoRequest \in Request
  /\ [NoRequest EXCEPT !.pc = "over"] \in Request /\ [NoRequest EXCEPT !.pc = "over"].pc = "over"
  /\ \A k, q : q.pc = "over" => RequestOK(k, q)
<1>1. NoRequest \in Request
  BY EmptyHands DEF NoRequest, Request
<1>2. [NoRequest EXCEPT !.pc = "over"] \in Request /\ [NoRequest EXCEPT !.pc = "over"].pc = "over"
  BY <1>1 DEF Request
<1>3. QED
  BY <1>1, <1>2 DEF RequestOK

\* A step of a request that leaves the rows alone.
LEMMA QuietRequestStep ==
  ASSUME WorkflowInv, UNCHANGED <<def, wf, runs, older>>, faults' \in Nat, faults' >= faults,
         mgr' = mgr \/ \E m \in Manager, x \in Local : LocalOK(x) /\ mgr' = [mgr EXCEPT ![m] = x],
         NEW k \in Kind, NEW q \in Request, RequestOK(k, q), q.pc # "none", req' = [req EXCEPT ![k] = q]
  PROVE  WorkflowInv'
<1>1. WorkflowTypes /\ req \in [Kind -> Request] /\ mgr \in [Manager -> Local]
  BY DEF WorkflowInv, WorkflowTypes
<1>2. req' \in [Kind -> Request] /\ mgr' \in [Manager -> Local]
  BY <1>1
<1>3. WorkflowTypes'
  BY <1>1, <1>2 DEF WorkflowTypes
<1>4. CancelRequested => CancelRequested'
  BY <1>1 DEF CancelRequested
<1>5. Evolves /\ DataOK'
  BY <1>3, <1>4, DataUntouched
<1>6. QED
  BY <1>3, <1>5, ProcessesStay, Zenon

\* A started workflow is scheduled on a process (Schedule).
LEMMA ScheduledIsOK ==
  ASSUME WorkflowInv, Started, NEW p, mgr' = Scheduled(p)
  PROVE  mgr' = mgr \/ \E m \in Manager, x \in Local : LocalOK(x) /\ mgr' = [mgr EXCEPT ![m] = x]
<1>1. mgr \in [Manager -> Local]
  BY DEF WorkflowInv, WorkflowTypes
<1>2. CASE p \in Manager /\ mgr[p].pc = "idle"
  <2>1. PICK x : x = [mgr[p] EXCEPT !.pc = "acquire"]
    BY Zenon
  <2>2. x \in Local /\ x.pc = "acquire"
    BY <1>1, <1>2, <2>1 DEF Local, Pc
  <2>3. LocalOK(x)
    BY <2>2, EmptyHands
  <2>4. mgr' = [mgr EXCEPT ![p] = x]
    BY <1>2, <2>1 DEF Scheduled
  <2>5. QED
    BY <1>2, <2>2, <2>3, <2>4, Zenon
<1>3. CASE p \notin Manager
  BY <1>1, <1>3 DEF Scheduled
<1>4. QED
  BY <1>2, <1>3, Zenon DEF Scheduled

\* The end of a request, and its loss (AnswerRequest, Disconnect).
LEMMA RequestEndSteps ==
  ASSUME WorkflowInv, NEW k \in Kind, AnswerRequest(k) \/ Disconnect(k)
  PROVE  WorkflowInv'
<1>1. /\ WorkflowTypes /\ faults \in Nat /\ req \in [Kind -> Request] /\ req[k] \in Request
      /\ RequestOK(k, req[k])
  BY DEF WorkflowInv, WorkflowTypes
<1>2. UNCHANGED <<def, wf, runs, older>> /\ faults' \in Nat /\ faults' >= faults
  BY <1>1 DEF AnswerRequest, Disconnect, Fault
<1>3. mgr' = mgr \/ \E m \in Manager, x \in Local : LocalOK(x) /\ mgr' = [mgr EXCEPT ![m] = x]
  <2>1. mgr' = mgr \/ (k = "start" /\ req[k].pc = "after" /\ mgr' = Scheduled(req[k].proc))
    BY Zenon DEF AnswerRequest, Disconnect
  <2>2. k = "start" /\ req[k].pc = "after" => Started
    BY <1>1 DEF RequestOK
  <2>3. QED
    BY <2>1, <2>2, ScheduledIsOK
<1>4. PICK q \in Request : q.pc = "over" /\ req' = [req EXCEPT ![k] = q]
  <2>1. CASE AnswerRequest(k)
    <3>1. PICK q : q = [req[k] EXCEPT !.pc = "over"]
      BY Zenon
    <3>2. q \in Request /\ q.pc = "over"
      BY <1>1, <3>1, Zenon DEF Request
    <3>3. QED
      BY <2>1, <3>1, <3>2, Zenon DEF AnswerRequest
  <2>2. CASE Disconnect(k)
    BY <2>2, RequestIsOver, Zenon DEF Disconnect
  <2>3. QED
    BY <2>1, <2>2
<1>5. RequestOK(k, q)
  BY <1>4, RequestIsOver
<1>6. QED
  BY <1>2, <1>3, <1>4, <1>5, QuietRequestStep, Zenon

\* A request reads the row of the workflow, and later its steps, and prepares
\* its copy (StartWorkflow and CancelWorkflow before they write).
LEMMA RequestReadSteps ==
  ASSUME WorkflowInv, NEW k \in Kind,
         ReadRequestSteps(k) \/ \E m \in Manager : ReceiveRequest(k, m)
  PROVE  WorkflowInv'
<1>1. /\ WorkflowTypes /\ faults \in Nat /\ req \in [Kind -> Request] /\ req[k] \in Request
      /\ RequestOK(k, req[k]) /\ wf \in Copy
  BY DEF WorkflowInv, WorkflowTypes
<1>2. wf.status \in WorkflowStatus /\ wf.version \in Nat /\ wf.steps \in Seq(Step)
  BY <1>1 DEF Copy
<1>3. ASSUME NEW m \in Manager, ReceiveRequest(k, m) PROVE WorkflowInv'
  <2>1. PICK c : c = [Absent EXCEPT !.status = wf.status, !.version = wf.version]
    OBVIOUS
  <2>2. c \in Copy /\ c.version = wf.version
    BY <1>2, <2>1, EmptyHands, Zenon DEF Copy
  <2>3. PICK pc \in {"steps", "over"} :
          /\ pc = IF wf.status \in (IF k = "start" THEN {"pending"} ELSE {"pending", "running"})
                  THEN "steps" ELSE "over"
          /\ req' = [req EXCEPT ![k] = [@ EXCEPT !.pc = pc, !.proc = m, !.cand = c]]
    BY <1>3, <2>1, Zenon DEF ReceiveRequest
  <2>4. PICK q : q = [req[k] EXCEPT !.pc = pc, !.proc = m, !.cand = c]
    OBVIOUS
  <2>5. q \in Request /\ q.pc = pc /\ q.cand = c
    BY <1>1, <2>2, <2>3, <2>4, Zenon DEF Request
  <2>6. RequestOK(k, q)
    BY <1>2, <2>2, <2>3, <2>5 DEF RequestOK
  <2>7. UNCHANGED <<def, wf, runs, older, faults, mgr>>
    BY <1>3, Zenon DEF ReceiveRequest
  <2>8. faults' \in Nat /\ faults' >= faults /\ q.pc # "none"
    BY <1>1, <2>3, <2>5, <2>7
  <2>9. req' = [req EXCEPT ![k] = q]
    BY <2>3, <2>4
  <2>10. QED
    BY <2>5, <2>6, <2>7, <2>8, <2>9, QuietRequestStep, Zenon
<1>4. CASE ReadRequestSteps(k)
  <2>1. PICK row : row = req[k].cand
    OBVIOUS
  <2>2. /\ row \in Copy /\ row.version <= wf.version
        /\ row.version = wf.version =>
             wf.status \in (IF k = "start" THEN {"pending"} ELSE {"pending", "running"})
    BY <1>1, <1>4, <2>1 DEF ReadRequestSteps, RequestOK, Request
  <2>3. PICK c : c = WithSteps(row)
    OBVIOUS
  <2>4. c \in Copy /\ c.steps = wf.steps /\ c.version = row.version
    BY <1>2, <2>2, <2>3 DEF WithSteps, Copy
  <2>5. UNCHANGED <<def, wf, runs, older, faults, mgr>>
    BY <1>4, Zenon DEF ReadRequestSteps
  <2>6. faults' \in Nat /\ faults' >= faults
    BY <1>1, <2>5
  <2>7. CASE k = "start"
    <3>1. PICK e : e = [c EXCEPT !.status = "running"]
      BY Zenon
    <3>2. e \in Copy /\ e.status = "running" /\ e.steps = wf.steps /\ e.version = row.version
      BY <2>4, <3>1 DEF Copy, WorkflowStatus
    <3>3. PICK q : q = [req[k] EXCEPT !.pc = "write", !.cand = e]
      OBVIOUS
    <3>4. q \in Request /\ q.pc = "write" /\ q.cand = e
      BY <1>1, <3>2, <3>3, Zenon DEF Request
    <3>5. RequestOK(k, q)
      BY <2>2, <2>7, <3>2, <3>4 DEF RequestOK
    <3>6. req' = [req EXCEPT ![k] = q]
      BY <1>4, <2>1, <2>3, <2>7, <3>1, <3>3, Zenon DEF ReadRequestSteps
    <3>7. QED
      BY <2>5, <2>6, <3>4, <3>5, <3>6, QuietRequestStep, Zenon
  <2>8. CASE k # "start"
    <3>1. PICK t : t = cancelNonterminalSteps(c.steps)
      BY Zenon
    <3>2. t \in Seq(Step)
      BY <1>2, <2>4, <3>1, StepsAreCanceled
    <3>3. PICK e : e = [c EXCEPT !.status = "canceled", !.steps = t]
      OBVIOUS
    <3>4. e \in Copy /\ e.status = "canceled" /\ e.steps = t /\ e.version = row.version
      BY <2>4, <3>2, <3>3, Zenon DEF Copy, WorkflowStatus, FinishedWorkflow
    <3>5. PICK todo : todo = RunsOf(c.steps, {i \in DOMAIN c.steps : c.steps[i].status \in ActiveStep})
      BY Zenon
    <3>6. todo \in Seq(Nat)
      BY <1>1, <1>2, <2>4, <3>5, RunsOfIsTyped
    <3>7. PICK q : q = [req[k] EXCEPT !.pc = "write", !.cand = e, !.todo = todo]
      OBVIOUS
    <3>8. q \in Request /\ q.pc = "write" /\ q.cand = e
      BY <1>1, <3>4, <3>6, <3>7, Zenon DEF Request
    <3>9. RequestOK(k, q)
      BY <2>2, <2>4, <2>8, <3>1, <3>4, <3>8, Zenon DEF RequestOK
    <3>10. req' = [req EXCEPT ![k] = q]
      BY <1>4, <2>1, <2>3, <2>8, <3>1, <3>3, <3>5, <3>7, Zenon DEF ReadRequestSteps
    <3>11. QED
      BY <2>5, <2>6, <3>8, <3>9, <3>10, QuietRequestStep, Zenon
  <2>9. QED
    BY <2>7, <2>8
<1>5. QED
  BY <1>3, <1>4

\* A process stops, with what it has in hand (Crash).
LEMMA CrashStep ==
  ASSUME WorkflowInv, NEW m \in Manager, Crash(m)
  PROVE  WorkflowInv'
<1>1. /\ WorkflowTypes /\ WorkflowOK /\ faults \in Nat /\ mgr \in [Manager -> Local]
      /\ req \in [Kind -> Request] /\ \A k \in Kind : RequestOK(k, req[k])
  BY DEF WorkflowInv, WorkflowTypes
<1>2. UNCHANGED <<def, wf, runs, older>> /\ faults' \in Nat /\ faults' >= faults
  BY <1>1 DEF Crash, Fault
<1>3. PICK x : x = [NotRunning EXCEPT !.pc = "down"]
  BY Zenon
<1>4. x \in Local /\ x.pc = "down" /\ ~x.done
  <2>1. x \in Local
    BY <1>3, EmptyHands DEF Pc
  <2>2. QED
    BY <1>3, <2>1 DEF NotRunning
<1>5. LocalOK(x) /\ mgr' = [mgr EXCEPT ![m] = x]
  BY <1>3, <1>4, EmptyHands, Zenon DEF Crash, Become
<1>6. PICK lost : lost = [NoRequest EXCEPT !.pc = "over"]
  BY Zenon
<1>7. lost \in Request /\ lost.pc = "over"
  BY <1>6, RequestIsOver
<1>8. req' = [k \in Kind |-> IF req[k].proc = m /\ req[k].pc # "over" THEN lost ELSE req[k]]
  BY <1>6, Zenon DEF Crash
<1>9. WorkflowTypes'
  BY <1>1, <1>2, <1>4, <1>5, <1>7, <1>8, Zenon DEF WorkflowTypes
<1>10. CancelRequested => CancelRequested'
  BY <1>7, <1>8 DEF CancelRequested
<1>11. Evolves /\ DataOK'
  BY <1>2, <1>9, <1>10, DataUntouched, Zenon
<1>12. LocalOK(x)'
  BY <1>1, <1>4, <1>5, <1>9, <1>11, LocalStaysOK
<1>13. \A n \in Manager : LocalOK(mgr[n])'
  BY <1>4, <1>5, <1>9, <1>11, <1>12, ManagersStay, Zenon
<1>14. ASSUME NEW k \in Kind PROVE RequestOK(k, req[k])'
  <2>1. PICK q \in Request : q = req'[k] /\ RequestOK(k, q)
    BY <1>1, <1>7, <1>8, RequestIsOver, Zenon
  <2>2. RequestOK(k, q)'
    BY <1>1, <1>9, <1>11, <2>1, RequestStaysOK
  <2>3. QED
    BY <2>1, <2>2
<1>15. QED
  BY <1>9, <1>11, <1>13, <1>14, Zenon DEF WorkflowInv, DataOK
=============================================================================
