--------------------------- MODULE WorkflowManager ---------------------------
(***************************************************************************)
(* Durable workflows: internal/workflow/manager.go in every process that   *)
(* serves the API, the requests that create, start and cancel a workflow,  *)
(* the stream of its events, and the rows of the workflow in the store.    *)
(*                                                                         *)
(* The model follows one workflow.  The Run engine is reduced to what the  *)
(* manager sees of it: a Run that was enqueued starts, and a started one   *)
(* ends (RunEngine shows when and why).  The Redis cache of Runs appears   *)
(* as reads that return the status before the last change.                 *)
(*                                                                         *)
(* The store is PostgreSQL: a workflow is read in two statements, first    *)
(* the row and then the steps, and written in one transaction.             *)
(***************************************************************************)
EXTENDS WorkflowSteps

CONSTANTS
  Manager,        \* the processes that serve the API
  RecoversRuns,   \* those that also run work, and recover Runs at startup
  Concurrency,    \* AGENTMESH_WORKFLOW_CONCURRENCY
  Definitions,    \* the definitions a client may send
  Answers,        \* Answers[a]: what agent a may answer
  Kind,           \* the requests the client makes: "start" and "cancel"
  Watched,        \* whether a client follows the events of the workflow
  FaultKinds,     \* the kinds of fault that happen
  MaxFaults,      \* bound on their number
  None

ASSUME WorkflowAssumption ==
  /\ RecoversRuns \subseteq Manager
  /\ Concurrency \in Nat \ {0}
  /\ Kind \subseteq {"start", "cancel"}
  /\ Watched \in BOOLEAN
  /\ MaxFaults \in Nat
  /\ None \notin Manager

\* Texts are texts.
ASSUME DefinitionsAssumption ==
  Definitions \subseteq Definition /\ \A a \in KnownAgent : Answers[a] \subseteq STRING

VARIABLES
  def,      \* the definition the client sent, normalized
  wf,       \* the rows of the workflow
  runs,     \* the Runs of its steps, in order of creation
  older,    \* older[r]: a status the cache still has for Run r, or None
  lease,    \* the owner of the scheduler lease, None, or "abandoned"
  mgr,      \* mgr[m]: the reconciliation of the workflow in process m
  req,      \* the requests to start and to cancel the workflow
  stream,   \* the stream of events to a client
  events,   \* the events of the workflow that are stored
  faults    \* how many faults happened

vars == <<def, wf, runs, older, lease, mgr, req, stream, events, faults>>

Absent == [status |-> "absent", version |-> 0, steps |-> <<>>]

\* done: the context of the reconciliation is canceled.
NotRunning == [pc |-> "idle", cand |-> Absent, pick |-> 0, changed |-> FALSE,
               todo |-> <<>>, done |-> FALSE]

NoRequest == [pc |-> "none", proc |-> None, cand |-> Absent, todo |-> <<>>]

Init ==
  /\ def \in {Normalize(d) : d \in Definitions}
  /\ wf = Absent
  /\ runs = <<>>
  /\ older = <<>>
  /\ lease = None
  /\ mgr = [m \in Manager |-> NotRunning]
  /\ req = [k \in Kind |-> NoRequest]
  /\ stream = [pc |-> IF Watched THEN "list" ELSE "none", seen |-> {}]
  /\ events = {}
  /\ faults = 0

-----------------------------------------------------------------------------
(* Faults, and calls to the store.                                         *)

Fault(kind) ==
  /\ kind \in FaultKinds
  /\ faults < MaxFaults
  /\ faults' = faults + 1

Written(c) == [c EXCEPT !.version = @ + 1]

\* A plausible slip: the row is written whatever its version.
UpdateAnyVersion(c, res) ==
  /\ res = "ok"
  /\ wf' = Written(c)
  /\ UNCHANGED faults

\* An error may come before or after the commit: the workflow is read again
\* after it.
UpdateWorkflow(c, res) ==
  \/ /\ res = "ok"
     /\ wf.version = c.version
     /\ wf' = Written(c)
     /\ UNCHANGED faults
  \/ /\ res = "conflict"
     /\ wf.version # c.version
     /\ UNCHANGED <<wf, faults>>
  \/ /\ res = "error"
     /\ Fault("call")
     /\ \/ UNCHANGED wf
        \/ wf.version = c.version /\ wf' = Written(c)

Result == {"ok", "conflict", "error"}

\* Status and version come from the row, the steps from a later statement.
WithSteps(row) == [row EXCEPT !.steps = wf.steps]

\* What GetRun returns, from the cache or from the row.
GetRun(r) == IF older[r] = None THEN runs[r] ELSE [runs[r] EXCEPT !.status = older[r]]

\* Run r changes.  The cache is written as well, unless a reader that missed
\* it puts the row it read before the change there.
RunBecomes(r, x) ==
  /\ runs' = [runs EXCEPT ![r] = x]
  /\ \/ older' = [older EXCEPT ![r] = None] /\ UNCHANGED faults
     \/ older' = [older EXCEPT ![r] = runs[r].status] /\ Fault("cache")

ActiveRun == {"queued", "running"}

\* engine.Cancel; a Run that is finished is left alone.
CancelRun(r) ==
  IF runs[r].status \in ActiveRun
  THEN RunBecomes(r, [runs[r] EXCEPT !.status = "canceled"])
  ELSE UNCHANGED <<runs, older, faults>>

\* The Run with the idempotency key of step i, if there is one.
RunOfStep(i) == {r \in DOMAIN runs : runs[r].step = i}

\* A plausible slip: every call inserts a Run.
InsertRun(i, x) == runs' = Append(runs, x) /\ older' = Append(older, None)

\* CreateRun with the key of step i returns the Run that has the key.
CreateRun(i, x) ==
  IF RunOfStep(i) # {} THEN UNCHANGED <<runs, older>> ELSE InsertRun(i, x)

-----------------------------------------------------------------------------
(* The client creates the workflow.                                        *)

createWorkflow ==
  /\ wf = Absent
  /\ Accepted(def)
  /\ wf' = InitializeForCreate(def)
  /\ UNCHANGED <<def, runs, older, lease, mgr, req, stream, events, faults>>

-----------------------------------------------------------------------------
(* Requests to start and to cancel it, on a process that is up.            *)

Up(m) == mgr[m].pc # "down"

\* GetWorkflow reads the row, and a workflow in another status is refused.
ReceiveRequest(k, m) ==
  /\ req[k] = NoRequest
  /\ wf # Absent
  /\ Up(m)
  /\ req' = [req EXCEPT ![k] =
               [@ EXCEPT !.pc = IF wf.status \in (IF k = "start" THEN {"pending"}
                                                  ELSE {"pending", "running"})
                                THEN "steps" ELSE "over",
                         !.proc = m,
                         !.cand = [Absent EXCEPT !.status = wf.status, !.version = wf.version]]]
  /\ UNCHANGED <<def, wf, runs, older, lease, mgr, stream, events, faults>>

\* StartWorkflow and CancelWorkflow prepare their copy.
ReadRequestSteps(k) ==
  LET c == WithSteps(req[k].cand)
      active == {i \in DOMAIN c.steps : c.steps[i].status \in ActiveStep}
  IN /\ req[k].pc = "steps"
     /\ req' = [req EXCEPT ![k] =
          IF k = "start"
          THEN [@ EXCEPT !.pc = "write", !.cand = [c EXCEPT !.status = "running"]]
          ELSE [@ EXCEPT !.pc = "write",
                         !.cand = [c EXCEPT !.status = "canceled",
                                            !.steps = cancelNonterminalSteps(@)],
                         !.todo = RunsOf(c.steps, active)]]
     /\ UNCHANGED <<def, wf, runs, older, lease, mgr, stream, events, faults>>

\* Only a request whose write succeeds goes on.
WriteRequest(k) ==
  /\ req[k].pc = "write"
  /\ \E res \in Result :
       /\ UpdateWorkflow(req[k].cand, res)
       /\ req' = [req EXCEPT ![k] = [@ EXCEPT !.pc = IF res = "ok" THEN "after" ELSE "over",
                                              !.cand = Absent]]
  /\ UNCHANGED <<def, runs, older, lease, mgr, stream, events>>

\* CancelWorkflow cancels the active Runs one after the other.
CancelRequestRun(k) ==
  /\ req[k].pc = "after"
  /\ req[k].todo # <<>>
  /\ CancelRun(Head(req[k].todo))
  /\ req' = [req EXCEPT ![k].todo = Tail(@)]
  /\ UNCHANGED <<def, wf, lease, mgr, stream, events>>

Scheduled(m) ==
  IF mgr[m].pc = "idle" THEN [mgr EXCEPT ![m].pc = "acquire"] ELSE mgr

\* Last comes the event; a start also schedules the workflow on its process.
AnswerRequest(k) ==
  /\ req[k].pc = "after"
  /\ req[k].todo = <<>>
  /\ events' = events \union {IF k = "start" THEN "started" ELSE "canceled"}
  /\ mgr' = IF k = "start" THEN Scheduled(req[k].proc) ELSE mgr
  /\ req' = [req EXCEPT ![k].pc = "over"]
  /\ UNCHANGED <<def, wf, runs, older, lease, stream, faults>>

\* The client goes away: every call under the context of the request fails,
\* but a started workflow is scheduled all the same.
Disconnect(k) ==
  /\ req[k].pc \in {"steps", "write", "after"}
  /\ Fault("disconnect")
  /\ req' = [req EXCEPT ![k] = [NoRequest EXCEPT !.pc = "over"]]
  /\ mgr' = IF k = "start" /\ req[k].pc = "after" THEN Scheduled(req[k].proc) ELSE mgr
  /\ UNCHANGED <<def, wf, runs, older, lease, stream, events>>

-----------------------------------------------------------------------------
(* The manager: ownership.                                                 *)

At(m, pc) == mgr[m].pc = pc /\ ~mgr[m].done
Become(m, x) == mgr' = [mgr EXCEPT ![m] = x]
Goto(m, pc) == Become(m, [mgr[m] EXCEPT !.pc = pc])

\* Back to the head of the loop, where nothing is remembered.
Again == [NotRunning EXCEPT !.pc = "row"]
Leave(m) == [NotRunning EXCEPT !.pc = "release", !.done = mgr[m].done]

\* The ticker of Run: Recover lists the running workflows and schedules them.
Scan(m) ==
  /\ mgr[m].pc = "idle"
  /\ wf.status = "running"
  /\ mgr' = Scheduled(m)
  /\ UNCHANGED <<def, wf, runs, older, lease, req, stream, events, faults>>

\* A lease whose answer is lost has no owner.
Acquire(m) ==
  /\ mgr[m].pc = "acquire"
  /\ \/ lease = None /\ lease' = m /\ Become(m, Again) /\ UNCHANGED faults
     \/ lease # None /\ Become(m, NotRunning) /\ UNCHANGED <<lease, faults>>
     \/ /\ Fault("call")
        /\ lease' \in {lease, IF lease = None THEN "abandoned" ELSE lease}
        /\ Become(m, NotRunning)
  /\ UNCHANGED <<def, wf, runs, older, req, stream, events>>

\* Renewal fails because the lease is lost, or because the call fails.
RenewFails(m) ==
  /\ mgr[m].pc \notin {"down", "idle", "acquire", "release"}
  /\ ~mgr[m].done
  /\ IF lease # m THEN UNCHANGED faults ELSE Fault("renew")
  /\ Become(m, [mgr[m] EXCEPT !.done = TRUE])
  /\ UNCHANGED <<def, wf, runs, older, lease, req, stream, events>>

\* With its context canceled, the next call of the reconciliation fails.
Abort(m) ==
  /\ mgr[m].done
  /\ mgr[m].pc # "release"
  /\ Become(m, Leave(m))
  /\ UNCHANGED <<def, wf, runs, older, lease, req, stream, events, faults>>

\* Release gives up the lease if it is still this one.
Release(m) ==
  /\ mgr[m].pc = "release"
  /\ \/ lease' = (IF lease = m THEN None ELSE lease) /\ UNCHANGED faults
     \/ lease = m /\ lease' = "abandoned" /\ Fault("call")
  /\ Become(m, NotRunning)
  /\ UNCHANGED <<def, wf, runs, older, req, stream, events>>

\* The TTL passes for a lease that nobody renews.
ExpireAbandoned ==
  /\ lease = "abandoned"
  /\ lease' = None
  /\ UNCHANGED <<def, wf, runs, older, mgr, req, stream, events, faults>>

\* The owner is paused for longer than the TTL, and goes on.
ExpireHeld(m) ==
  /\ lease = m
  /\ Fault("pause")
  /\ lease' = None
  /\ UNCHANGED <<def, wf, runs, older, mgr, req, stream, events>>

-----------------------------------------------------------------------------
(* The manager: one round of reconcile.                                    *)

\* A call to the store fails where the code returns the error.
CallFails(m) ==
  /\ mgr[m].pc \in {"row", "steps", "refresh"}
  /\ ~mgr[m].done
  /\ Fault("call")
  /\ Become(m, Leave(m))
  /\ UNCHANGED <<def, wf, runs, older, lease, req, stream, events>>

LoadRow(m) ==
  /\ At(m, "row")
  /\ Become(m, IF IsTerminal(wf) THEN Leave(m)
               ELSE [mgr[m] EXCEPT !.pc = "steps",
                                   !.cand = [Absent EXCEPT !.status = wf.status,
                                                           !.version = wf.version]])
  /\ UNCHANGED <<def, wf, runs, older, lease, req, stream, events, faults>>

\* The steps from i on whose Run has to be read.
ToRefresh(c, i) == {j \in i..Len(c.steps) : c.steps[j].status # "skipped" /\ c.steps[j].run # 0}

\* A plausible slip: one step too many.
AboveCapacity(c) == activeStepCount(c) > Concurrency

AtCapacity(c) == activeStepCount(c) >= Concurrency

\* What the manager does once it has seen every Run.
Decided(l) ==
  LET c == l.cand
      applied == applyConditions(def, c)
      next == readyStep(def, c)
  IN IF \A i \in DOMAIN c.steps : c.steps[i].status \in DoneStep
     THEN [l EXCEPT !.pc = "finish", !.cand.status = "succeeded"]
     ELSE IF l.changed THEN [l EXCEPT !.pc = "save"]
     ELSE IF applied # c THEN [l EXCEPT !.pc = "save", !.cand = applied]
     ELSE IF AtCapacity(c) THEN Again
     ELSE IF ReadySteps(def, c) = {}
          THEN IF activeStepCount(c) > 0 THEN Again ELSE [l EXCEPT !.pc = "fail"]
     ELSE [l EXCEPT !.pc = IF InputIsComplete(def, c, next) THEN "create" ELSE "fail",
                    !.pick = next]

\* The next Run to read, or the decision.
Continue(l, i) ==
  IF ToRefresh(l.cand, i) = {} THEN Decided([l EXCEPT !.pick = 0])
  ELSE [l EXCEPT !.pc = "refresh", !.pick = Min(ToRefresh(l.cand, i))]

LoadSteps(m) ==
  /\ At(m, "steps")
  /\ Become(m, Continue([mgr[m] EXCEPT !.cand = WithSteps(@)], 1))
  /\ UNCHANGED <<def, wf, runs, older, lease, req, stream, events, faults>>

\* refreshSteps, one GetRun at a time: the first step that failed or was
\* canceled decides the workflow.
RefreshStep(m) ==
  LET l == mgr[m]
      i == l.pick
      s == Refreshed(l.cand.steps[i], GetRun(l.cand.steps[i].run))
      seen == [l EXCEPT !.cand.steps[i] = s,
                        !.changed = @ \/ s.status # l.cand.steps[i].status]
  IN /\ At(m, "refresh")
     /\ Become(m, IF s.status \in {"failed", "canceled"}
                  THEN [seen EXCEPT !.pc = "finish", !.cand.status = s.status,
                                    !.cand.steps = cancelNonterminalSteps(@)]
                  ELSE Continue(seen, i + 1))
     /\ UNCHANGED <<def, wf, runs, older, lease, req, stream, events, faults>>

\* A write that conflicts starts the round again, one that fails ends it.
WriteThen(m, next) ==
  \E res \in Result :
    /\ UpdateWorkflow(mgr[m].cand, res)
    /\ Become(m, CASE res = "ok" -> next [] res = "conflict" -> Again [] res = "error" -> Leave(m))

Save(m) ==
  /\ At(m, "save")
  /\ WriteThen(m, Again)
  /\ UNCHANGED <<def, runs, older, lease, req, stream, events>>

RunsToCancel(c) ==
  RunsOf(c.steps, {i \in DOMAIN c.steps : c.steps[i].status = "canceled" /\ c.steps[i].run # 0})

Finish(m) ==
  /\ At(m, "finish")
  /\ WriteThen(m, [NotRunning EXCEPT !.pc = "ending", !.todo = RunsToCancel(mgr[m].cand),
                                     !.cand = [Absent EXCEPT !.status = mgr[m].cand.status]])
  /\ UNCHANGED <<def, runs, older, lease, req, stream, events>>

\* cancelCanceledStepRuns.
CancelStepRun(m) ==
  /\ At(m, "ending")
  /\ mgr[m].todo # <<>>
  /\ CancelRun(Head(mgr[m].todo))
  /\ Become(m, [mgr[m] EXCEPT !.todo = Tail(@)])
  /\ UNCHANGED <<def, wf, lease, req, stream, events>>

\* The event of the end comes after the status and the cancellations.
EmitEnd(m) ==
  /\ At(m, "ending")
  /\ mgr[m].todo = <<>>
  /\ events' = events \union {mgr[m].cand.status}
  /\ Become(m, Leave(m))
  /\ UNCHANGED <<def, wf, runs, older, lease, req, stream, faults>>

\* failWorkflow: a conflict is ignored, and the event follows all the same.
Fail(m) ==
  LET failed == [mgr[m].cand EXCEPT !.status = "failed", !.steps = cancelNonterminalSteps(@)]
  IN /\ At(m, "fail")
     /\ \E res \in Result :
          /\ UpdateWorkflow(failed, res)
          /\ Become(m, IF res = "error" THEN Leave(m)
                       ELSE [NotRunning EXCEPT !.pc = "ending",
                                               !.cand = [Absent EXCEPT !.status = "failed"]])
     /\ UNCHANGED <<def, runs, older, lease, req, stream, events>>

\* The Run of the ready step; an error, before or after the insertion, fails
\* the workflow.
CreateStepRun(m) ==
  LET c == mgr[m].cand
      i == mgr[m].pick
      x == [step |-> i, status |-> "queued", output |-> "", enqueued |-> FALSE,
            parent |-> ParentRun(def, c, i), input |-> ResolvedInput(def, c, i)]
  IN /\ At(m, "create")
     /\ \/ CreateRun(i, x) /\ Goto(m, "assign") /\ UNCHANGED faults
        \/ /\ CreateRun(i, x) \/ UNCHANGED <<runs, older>>
           /\ Goto(m, "fail") 
           /\ Fault("call")
     /\ UNCHANGED <<def, wf, lease, req, stream, events>>

\* The step gets its Run, and only then is the Run handed to the queue.
Assign(m) ==
  LET l == mgr[m]
      i == l.pick
      r == Max(RunOfStep(i))
      c == [l.cand EXCEPT !.steps[i] = [@ EXCEPT !.run = r, !.status = "queued"]]
  IN /\ At(m, "assign")
     /\ \E res \in Result :
          /\ UpdateWorkflow(c, res)
          /\ Become(m, CASE res = "ok" -> [NotRunning EXCEPT !.pc = "enqueue", !.pick = r]
                         [] res = "conflict" -> Again
                         [] res = "error" -> Leave(m))
     /\ UNCHANGED <<def, runs, older, lease, req, stream, events>>

\* engine.Enqueue is repeated until it succeeds.
Enqueue(m) ==
  /\ At(m, "enqueue")
  /\ runs' = [runs EXCEPT ![mgr[m].pick].enqueued = TRUE]
  /\ Become(m, Again)
  /\ UNCHANGED <<def, wf, older, lease, req, stream, events, faults>>

-----------------------------------------------------------------------------
(* Processes stop and start again.                                         *)

Crash(m) ==
  /\ Up(m)
  /\ Fault("crash")
  /\ Become(m, [NotRunning EXCEPT !.pc = "down"])
  /\ lease' = IF lease = m THEN "abandoned" ELSE lease
  /\ req' = [k \in Kind |-> IF req[k].proc = m /\ req[k].pc # "over"
                            THEN [NoRequest EXCEPT !.pc = "over"] ELSE req[k]]
  /\ UNCHANGED <<def, wf, runs, older, stream, events>>

\* A plausible slip: Runs are left to the queue.
RestartWithoutRuns(m) ==
  /\ ~Up(m)
  /\ Become(m, IF wf.status = "running" THEN [NotRunning EXCEPT !.pc = "acquire"]
               ELSE NotRunning)
  /\ UNCHANGED <<def, wf, runs, older, lease, req, stream, events, faults>>

\* engine.Recover enqueues the queued Runs, if this process runs work, before
\* the workflows are recovered.
Restart(m) ==
  /\ ~Up(m)
  /\ Become(m, IF wf.status = "running" THEN [NotRunning EXCEPT !.pc = "acquire"]
               ELSE NotRunning)
  /\ runs' = [r \in DOMAIN runs |->
                [runs[r] EXCEPT !.enqueued = @ \/ (m \in RecoversRuns /\ runs[r].status = "queued")]]
  /\ UNCHANGED <<def, wf, older, lease, req, stream, events, faults>>

-----------------------------------------------------------------------------
(* The engine, as the manager sees it.                                     *)

StartRun(r) ==
  /\ runs[r].status = "queued"
  /\ runs[r].enqueued
  /\ RunBecomes(r, [runs[r] EXCEPT !.status = "running"])
  /\ UNCHANGED <<def, wf, lease, mgr, req, stream, events>>

EndRun(r) ==
  /\ runs[r].status = "running"
  /\ \/ \E t \in Answers[def.steps[runs[r].step].agent] :
          RunBecomes(r, [runs[r] EXCEPT !.status = "succeeded", !.output = t])
     \/ RunBecomes(r, [runs[r] EXCEPT !.status = "failed"])
  /\ UNCHANGED <<def, wf, lease, mgr, req, stream, events>>

\* Recovery puts a Run that was interrupted back into the queue.
RequeueRun(r) ==
  /\ runs[r].status = "running"
  /\ Fault("requeue")
  /\ runs' = [runs EXCEPT ![r].status = "queued"]
  /\ older' = [older EXCEPT ![r] = None]
  /\ UNCHANGED <<def, wf, lease, mgr, req, stream, events>>

\* A client cancels the Run of a step.
CancelRunRequest(r) ==
  /\ runs[r].status \in ActiveRun
  /\ Fault("cancelRun")
  /\ runs' = [runs EXCEPT ![r].status = "canceled"]
  /\ older' = [older EXCEPT ![r] = None]
  /\ UNCHANGED <<def, wf, lease, mgr, req, stream, events>>

\* The TTL of a cached Run passes.
ExpireCached(r) ==
  /\ older[r] # None
  /\ older' = [older EXCEPT ![r] = None]
  /\ UNCHANGED <<def, wf, runs, lease, mgr, req, stream, events, faults>>

-----------------------------------------------------------------------------
(* The stream of the events: the stored ones that are new to the client,   *)
(* then the status, until the workflow is finished.                        *)

StreamEvents ==
  /\ stream.pc = "list"
  /\ wf # Absent
  /\ stream' = [pc |-> "status", seen |-> stream.seen \union events]
  /\ UNCHANGED <<def, wf, runs, older, lease, mgr, req, events, faults>>

StreamStatus ==
  /\ stream.pc = "status"
  /\ stream' = [stream EXCEPT !.pc = IF IsTerminal(wf) THEN "closed" ELSE "list"]
  /\ UNCHANGED <<def, wf, runs, older, lease, mgr, req, events, faults>>

-----------------------------------------------------------------------------
RequestStep(k) ==
  ReadRequestSteps(k) \/ WriteRequest(k) \/ CancelRequestRun(k) \/ AnswerRequest(k)

ManagerStep(m) ==
  \/ Scan(m) \/ Acquire(m) \/ Abort(m) \/ Release(m)
  \/ LoadRow(m) \/ LoadSteps(m) \/ RefreshStep(m)
  \/ Save(m) \/ Finish(m) \/ CancelStepRun(m) \/ EmitEnd(m) \/ Fail(m)
  \/ CreateStepRun(m) \/ Assign(m) \/ Enqueue(m)

EngineStep(r) == StartRun(r) \/ EndRun(r)

Next ==
  \/ createWorkflow
  \/ \E k \in Kind : RequestStep(k) \/ Disconnect(k) \/ \E m \in Manager : ReceiveRequest(k, m)
  \/ \E m \in Manager : ManagerStep(m) \/ RenewFails(m) \/ CallFails(m) \/ ExpireHeld(m)
                          \/ Crash(m) \/ Restart(m)
  \/ ExpireAbandoned
  \/ \E r \in DOMAIN runs : EngineStep(r) \/ RequeueRun(r) \/ CancelRunRequest(r) \/ ExpireCached(r)
  \/ StreamEvents \/ StreamStatus

Spec == Init /\ [][Next]_vars

\* Goroutines that can run do, workers take what is enqueued, agents answer
\* or time out, leases and cached values expire, and processes are restarted.
Fairness ==
  /\ \A m \in Manager : WF_vars(ManagerStep(m)) /\ WF_vars(RenewFails(m) /\ lease # m)
                          /\ WF_vars(Restart(m))
  /\ \A k \in Kind : WF_vars(RequestStep(k))
  /\ WF_vars(ExpireAbandoned)
  /\ \A r \in 1..MaxWorkflowSteps :
       WF_vars(r \in DOMAIN runs /\ (EngineStep(r) \/ ExpireCached(r)))
  /\ WF_vars(StreamEvents \/ StreamStatus)

FairSpec == Spec /\ Fairness
=============================================================================
