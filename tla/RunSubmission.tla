---------------------------- MODULE RunSubmission ----------------------------
(***************************************************************************)
(* Creation of Runs through the API: createRun and createAgentChildRun of  *)
(* internal/httpapi/server.go over the PostgreSQL store, with the router.  *)
(* Requests are handled concurrently, and every call to the store is a     *)
(* step of its own.  Runs are numbered in the order of their creation, 0   *)
(* stands for none.                                                        *)
(***************************************************************************)
EXTENDS Routing, FiniteSets

CONSTANTS
  Handler,       \* the goroutines that handle requests
  InitialHealth, \* what the health service says of the agents at first
  InitialRuns,   \* the Runs in the store at first
  Requests,      \* the requests clients and agents make
  MaxRequests,   \* bound on their number
  MaxDepth,      \* AGENTMESH_AGENT_CALL_MAX_DEPTH
  MaxChildren,   \* AGENTMESH_AGENT_CALL_MAX_CHILDREN
  FaultKinds,    \* the kinds of fault that happen
  MaxFaults      \* bound on their number

Status == {"queued", "running", "succeeded", "failed", "canceled"}

Run == [agent : Agent, parent : Nat, required : Seq(STRING), input : STRING, root : Nat,
        key : Nat \X Nat, kind : {"run", "call"}, status : Status,
        enqueued : BOOLEAN, fenced : BOOLEAN, left : BOOLEAN]

Request == [kind : {"run", "call"}, key : Nat, target : Nat, required : Seq(STRING), parent : Nat,
            caller : Nat, input : STRING]

ASSUME SubmissionAssumption ==
  /\ Requests \subseteq Request
  /\ InitialRuns \in Seq(Run)
  /\ MaxRequests \in Nat
  /\ MaxDepth \in Nat
  /\ MaxChildren \in Nat
  /\ MaxFaults \in Nat

VARIABLES
  registered,   \* the agents in the store
  health,       \* health[a]: what the health service says of a
  runs,         \* the Runs in the store
  handler,      \* handler[h]: the request h is at
  answers,      \* the answers that named a Run: the request and the Run
  received,     \* how many requests were received
  faults        \* how many faults happened

vars == <<registered, health, runs, handler, answers, received, faults>>

Active == {"queued", "running"}
Tier == {"healthy", "unknown", "unhealthy"}

NoRequest == [kind |-> "none"]
Free == [pc |-> "idle", req |-> NoRequest, agent |-> 0, run |-> 0,
         running |-> FALSE]

Init ==
  /\ registered = Agent
  /\ health = InitialHealth
  /\ runs = InitialRuns
  /\ handler = [h \in Handler |-> Free]
  /\ answers = {}
  /\ received = 0
  /\ faults = 0

Fault(kind) ==
  /\ kind \in FaultKinds
  /\ faults < MaxFaults
  /\ faults' = faults + 1

At(h, pc) == handler[h].pc = pc
Become(h, x) == handler' = [handler EXCEPT ![h] = x]
Goto(h, pc) == Become(h, [handler[h] EXCEPT !.pc = pc])

\* The answer is an error.
Refuse(h) == Become(h, Free) /\ UNCHANGED answers

\* The answer names Run r.
AnswerRun(h, r) ==
  /\ Become(h, Free)
  /\ answers' = answers \union {[req |-> handler[h].req, run |-> r]}

-----------------------------------------------------------------------------
(* Lineage and keys.                                                       *)

\* AttachTo: the root of a child of Run r.
RootOfChild(rs, r) == IF rs[r].parent = 0 THEN r ELSE rs[r].root

\* A Run and the Runs above it.
Lineage(rs, r) ==
  LET above[n \in 0..Len(rs)] == IF n = 0 THEN {} ELSE {n} \union above[rs[n].parent]
  IN above[r]

Children(rs, r) == {c \in DOMAIN rs : rs[c].parent = r}

\* The idempotency key as the store has it; calls are scoped to the parent.
StoreKey(q) == IF q.kind = "call" THEN <<q.parent, q.key>> ELSE <<0, q.key>>
Keyed(q) == q.key # 0
ExistingRun(q) == {r \in DOMAIN runs : Keyed(q) /\ runs[r].key = StoreKey(q)}

Routed(q) == q.target = 0

\* writeRunReplay and the same test in createAgentChildRun, which ignores the
\* capabilities when an agent is named.
SameRequest(q, x) ==
  /\ x.input = q.input
  /\ x.parent = q.parent
  /\ IF Routed(q) THEN x.required = q.required ELSE x.agent = q.target
  /\ q.kind = "run" => x.required = q.required

\* A plausible slip: the key alone decides.
ReplayAnything(h, r) == AnswerRun(h, r)

\* The handler answers with the Run that has its key.
Replay(h, r) ==
  IF SameRequest(handler[h].req, runs[r]) THEN AnswerRun(h, r) ELSE Refuse(h)

-----------------------------------------------------------------------------
(* Handling a request.                                                     *)

\* Either an agent or capabilities; an agent that calls must have a key.
Valid(q) ==
  /\ q.input # ""
  /\ (q.target = 0) # (q.required = <<>>)
  /\ q.kind = "call" => Keyed(q)

Receive(h) ==
  /\ At(h, "idle")
  /\ received < MaxRequests
  /\ received' = received + 1
  /\ \E q \in Requests :
       /\ Valid(q)
       /\ Become(h, [Free EXCEPT
            !.pc = IF q.kind = "call" THEN "parent" ELSE "lookup",
            !.req = [q EXCEPT !.required = NormalizeRequirements(@)]])
  /\ UNCHANGED <<registered, health, runs, answers, faults>>

\* An agent is loaded, capabilities are routed, healthy agents first.
ChooseFrom(q) == IF Routed(q) THEN "healthy" ELSE "agent"

\* GetRun of the parent.  Only its own agent may call in its name, and what
\* is remembered of its status is not looked at again.
LoadParent(h) ==
  LET q == handler[h].req
      refused == IF q.parent \notin DOMAIN runs THEN TRUE
                 ELSE q.kind = "call" /\ runs[q.parent].agent # q.caller
  IN /\ At(h, "parent")
     /\ \/ refused /\ Refuse(h)
        \/ /\ ~refused
           /\ IF q.kind = "run" THEN Goto(h, ChooseFrom(q))
              ELSE Become(h, [handler[h] EXCEPT !.pc = "lookup",
                                                !.running = runs[q.parent].status = "running"])
           /\ UNCHANGED answers
     /\ UNCHANGED <<registered, health, runs, received, faults>>

\* A call needs a parent that was running, and a chain that is short enough.
MayCall(h) ==
  /\ handler[h].running
  /\ Cardinality(Lineage(runs, handler[h].req.parent)) <= MaxDepth

\* GetRunByIdempotencyKey, before anything is created.
Lookup(h) ==
  LET q == handler[h].req
      found == ExistingRun(q)
  IN /\ At(h, "lookup")
     /\ \/ \E r \in found : Replay(h, r)
        \/ /\ found = {}
           /\ IF q.kind = "call" /\ ~MayCall(h) THEN Refuse(h)
              ELSE /\ Goto(h, IF q.kind = "run" /\ q.parent # 0 THEN "parent" ELSE ChooseFrom(q))
                   /\ UNCHANGED answers
     /\ UNCHANGED <<registered, health, runs, received, faults>>

\* A plausible slip: only the agent that calls is looked at.
RepeatsParent(h, a) ==
  handler[h].req.kind = "call" /\ runs[handler[h].req.parent].agent = a

\* An agent is not called twice in one chain.
Repeats(h, a) ==
  /\ handler[h].req.kind = "call"
  /\ \E r \in Lineage(runs, handler[h].req.parent) : runs[r].agent = a

Take(h, a) ==
  IF Repeats(h, a) THEN Refuse(h)
  ELSE Become(h, [handler[h] EXCEPT !.pc = "create", !.agent = a]) /\ UNCHANGED answers

LoadAgent(h) ==
  /\ At(h, "agent")
  /\ IF handler[h].req.target \in registered THEN Take(h, handler[h].req.target) ELSE Refuse(h)
  /\ UNCHANGED <<registered, health, runs, received, faults>>

CountActiveRunsByAgent ==
  [a \in Agent |-> Cardinality({r \in DOMAIN runs : runs[r].agent = a /\ runs[r].status \in Active})]

\* Select, one health tier at a time.
SelectTier(h, tier) ==
  LET q == handler[h].req
      candidates == matchingAll(Search(registered, health, q.required[1], tier), q.required)
      load == CountActiveRunsByAgent
  IN /\ At(h, tier)
     /\ \/ \E a \in FirstRanked(candidates, load) : Take(h, a)
        \/ /\ Available(candidates, load) = {}
           /\ IF tier = "healthy" THEN Goto(h, "unknown") /\ UNCHANGED answers ELSE Refuse(h)
     /\ UNCHANGED <<registered, health, runs, received, faults>>

-----------------------------------------------------------------------------
(* The Run is stored and handed to the queue.                              *)

NewRun(h) ==
  LET q == handler[h].req
  IN [agent |-> handler[h].agent, parent |-> q.parent, required |-> q.required, input |-> q.input,
      root |-> IF q.parent = 0 THEN 0 ELSE RootOfChild(runs, q.parent),
      key |-> IF Keyed(q) THEN StoreKey(q) ELSE <<0, 0>>,
      kind |-> q.kind, status |-> "queued", enqueued |-> FALSE, fenced |-> FALSE,
      left |-> FALSE]

\* A row that refers to an agent that is gone is refused by the database.
Inserted(h) ==
  /\ handler[h].agent \in registered
  /\ runs' = Append(runs, NewRun(h))

\* A plausible slip: the key is only looked up before.
NoConflict(q) == {}

\* The unique index of the keys.
ConflictingRun(q) == ExistingRun(q)

\* CreateRun and CreateChildRun: in one transaction the Run with the key is
\* found, or the limit of children is checked, or the row is inserted.
CreateRun(h) ==
  LET q == handler[h].req
      found == ConflictingRun(q)
      full == q.kind = "call" /\ Cardinality(Children(runs, q.parent)) >= MaxChildren
  IN /\ At(h, "create")
     /\ \/ \E r \in found : /\ IF q.kind = "call" THEN AnswerRun(h, r) ELSE Replay(h, r)
                            /\ UNCHANGED <<runs, faults>>
        \/ /\ found = {}
           /\ full \/ handler[h].agent \notin registered
           /\ Refuse(h)
           /\ UNCHANGED <<runs, faults>>
        \/ /\ found = {} /\ ~full
           /\ Inserted(h)
           /\ Become(h, [handler[h] EXCEPT !.pc = "enqueue", !.run = Len(runs) + 1])
           /\ UNCHANGED <<answers, faults>>
     /\ UNCHANGED <<registered, health, received>>

Enqueue(h) ==
  /\ At(h, "enqueue")
  /\ runs' = [runs EXCEPT ![handler[h].run].enqueued = TRUE]
  /\ AnswerRun(h, handler[h].run)
  /\ UNCHANGED <<registered, health, received, faults>>

\* The call fails, although the queue may have taken the Run.
EnqueueFails(h) ==
  /\ At(h, "enqueue")
  /\ Fault("enqueue")
  /\ runs' \in {runs, [runs EXCEPT ![handler[h].run].enqueued = TRUE]}
  /\ Goto(h, "fail")
  /\ UNCHANGED <<registered, health, answers, received>>

\* A plausible slip: the client learns of the error and the Run does not.
LeaveQueued(h) ==
  /\ At(h, "fail")
  /\ Refuse(h)
  /\ UNCHANGED <<registered, health, runs, received, faults>>

\* UpdateRun leaves a Run that is canceled, or that a worker has begun, alone.
FailRun(h) ==
  LET r == handler[h].run
  IN /\ At(h, "fail")
     /\ runs' = IF runs[r].status = "canceled" \/ runs[r].fenced THEN runs
                ELSE [runs EXCEPT ![r].status = "failed"]
     /\ Refuse(h)
     /\ UNCHANGED <<registered, health, received, faults>>

\* The process stops, or the client leaves: the request ends where it is, and
\* a Run that it has created is left to itself (left says so).
Interrupt(h) ==
  /\ ~At(h, "idle")
  /\ Fault("interrupt")
  /\ runs' = [r \in DOMAIN runs |-> [runs[r] EXCEPT !.left = @ \/ r = handler[h].run]]
  /\ Refuse(h)
  /\ UNCHANGED <<registered, health, received>>

-----------------------------------------------------------------------------
(* The rest of the system.                                                 *)

\* engine.Recover of a worker that starts.
RecoverRuns ==
  /\ \E r \in DOMAIN runs : runs[r].status = "queued" /\ ~runs[r].enqueued
  /\ runs' = [r \in DOMAIN runs |-> [runs[r] EXCEPT !.enqueued = @ \/ runs[r].status = "queued"]]
  /\ UNCHANGED <<registered, health, handler, answers, received, faults>>

StartRun(r) ==
  /\ runs[r].status = "queued"
  /\ runs[r].enqueued
  /\ runs' = [runs EXCEPT ![r].status = "running", ![r].fenced = TRUE]
  /\ UNCHANGED <<registered, health, handler, answers, received, faults>>

EndRun(r) ==
  /\ runs[r].status = "running"
  /\ runs' = [runs EXCEPT ![r].status = "succeeded"]
  /\ UNCHANGED <<registered, health, handler, answers, received, faults>>

cancelRun(r) ==
  /\ runs[r].status \in Active
  /\ Fault("cancel")
  /\ runs' = [runs EXCEPT ![r].status = "canceled"]
  /\ UNCHANGED <<registered, health, handler, answers, received>>

\* A plausible slip: the Runs of the agent are not looked at.
DeleteInUse(a) ==
  /\ a \in registered
  /\ Fault("delete")
  /\ registered' = registered \ {a}
  /\ UNCHANGED <<health, runs, handler, answers, received>>

\* An agent that has Runs cannot be deleted.
DeleteAgent(a) ==
  /\ a \in registered
  /\ \A r \in DOMAIN runs : runs[r].agent # a
  /\ Fault("delete")
  /\ registered' = registered \ {a}
  /\ UNCHANGED <<health, runs, handler, answers, received>>

ChangeHealth(a) ==
  /\ Fault("health")
  /\ \E s \in Tier \ {health[a]} : health' = [health EXCEPT ![a] = s]
  /\ UNCHANGED <<registered, runs, handler, answers, received>>

-----------------------------------------------------------------------------
HandlerStep(h) ==
  \/ LoadParent(h) \/ Lookup(h) \/ LoadAgent(h)
  \/ \E tier \in {"healthy", "unknown"} : SelectTier(h, tier)
  \/ CreateRun(h) \/ Enqueue(h) \/ FailRun(h)

EngineStep(r) == StartRun(r) \/ EndRun(r)

Next ==
  \/ \E h \in Handler : Receive(h) \/ HandlerStep(h) \/ EnqueueFails(h) \/ Interrupt(h)
  \/ \E r \in DOMAIN runs : EngineStep(r) \/ cancelRun(r)
  \/ RecoverRuns
  \/ \E a \in Agent : DeleteAgent(a) \/ ChangeHealth(a)

Spec == Init /\ [][Next]_vars
=============================================================================
