----------------------------- MODULE AgentRegistry -----------------------------
(***************************************************************************)
(* One agent of the registry and its health: the agent handlers of         *)
(* internal/httpapi/server.go over the cached PostgreSQL store, and the     *)
(* health service of one replica.  Handlers of this and of other replicas, *)
(* the scheduler of the health service and its workers run concurrently,   *)
(* and every access to the store, the cache and the service is a step.     *)
(***************************************************************************)
EXTENDS Naturals, Sequences, FiniteSets

CONSTANTS
  Handler,     \* the goroutines that handle requests
  Scheduler,   \* the goroutine of schedule
  Worker,      \* the goroutines of worker
  Target,      \* where the agent may be: runtime, protocol and endpoint
  Probeable,   \* the targets that are probed: remote HTTP endpoints
  InitialRows, \* the agent in the store at first, or none
  QueueSize,   \* the capacity of the queue of checks
  Requests,    \* what clients ask for: a kind of request, a target, and whether
               \* a handler of this replica gets it
  MaxRequests, \* bound on their number
  FaultKinds,  \* the kinds of fault that happen
  MaxFaults,   \* bound on their number
  None         \* no agent, no state

Row == [target : Target, version : Nat]
Kind == {"create", "update", "delete", "health", "read"}

ASSUME AgentAssumption ==
  /\ Scheduler \notin Handler \union Worker /\ Handler \intersect Worker = {}
  /\ Probeable \subseteq Target
  /\ None \notin Target \union Row
  /\ InitialRows \subseteq {None} \union [target : Target, version : {1}]
  /\ Requests \subseteq [kind : Kind, local : BOOLEAN, target : Target \union {None}]
  /\ \A q \in Requests : q.kind \in {"create", "update"} => q.target \in Target
  /\ QueueSize \in Nat \ {0}
  /\ MaxRequests \in Nat /\ MaxFaults \in Nat

VARIABLES
  row,       \* the agent in the store, with its version
  cache,     \* the agent in the cache
  deleted,   \* the agent was deleted
  process,   \* process[p]: what p is at
  state,     \* the target the health service has a state of
  pending,   \* a check of the agent is pending
  queue,     \* the targets to check, None for those of other agents
  written,   \* the versions that updates were based on
  received,  \* how many requests were received
  faults     \* how many faults happened

vars == <<row, cache, deleted, process, state, pending, queue, written, received, faults>>

Process == Handler \union Worker \union {Scheduler}

Free == [pc |-> "idle", kind |-> "none", local |-> FALSE, target |-> None, expected |-> 0,
         agent |-> None]

Init ==
  /\ row \in InitialRows
  /\ cache = None
  /\ deleted = FALSE
  /\ process = [p \in Process |-> Free]
  /\ state = None
  /\ pending = FALSE
  /\ queue = <<>>
  /\ written = <<>>
  /\ received = 0
  /\ faults = 0

Fault(kind) ==
  /\ kind \in FaultKinds
  /\ faults < MaxFaults
  /\ faults' = faults + 1

At(p, pc) == process[p].pc = pc
Become(p, x) == process' = [process EXCEPT ![p] = x]
Goto(p, pc) == Become(p, [process[p] EXCEPT !.pc = pc])
Leave(p) == Become(p, Free)

store == <<row, deleted, written>>
health == <<state, pending, queue>>

-----------------------------------------------------------------------------
(* GetAgent of the cached store.                                           *)

\* What p does with the agent it got.
Goes(p) ==
  CASE process[p].kind = "update" -> "update"
    [] process[p].kind = "delete" -> "delete"
    [] process[p].kind = "health" -> "refresh"
    [] process[p].kind = "check"  -> "store"
    [] process[p].kind = "read"   -> "idle"

Got(p, a) == IF Goes(p) = "idle" THEN Leave(p)
             ELSE Become(p, [process[p] EXCEPT !.pc = Goes(p), !.agent = a])

GetCached(p) ==
  /\ At(p, "get")
  /\ IF cache # None THEN Got(p, cache) ELSE Goto(p, "row")
  /\ UNCHANGED <<store, cache, health, received, faults>>

\* A handler answers that there is no agent; a worker goes on without.
GetRow(p) ==
  /\ At(p, "row")
  /\ IF row # None THEN Become(p, [process[p] EXCEPT !.pc = "fill", !.agent = row])
     ELSE IF p \in Worker THEN Got(p, None)
     ELSE Leave(p)
  /\ UNCHANGED <<store, cache, health, received, faults>>

Fill(p) ==
  /\ At(p, "fill")
  /\ cache' = process[p].agent
  /\ Got(p, process[p].agent)
  /\ UNCHANGED <<store, health, received, faults>>

-----------------------------------------------------------------------------
(* The requests.                                                           *)

Receive(h, q, expected, pc) ==
  /\ At(h, "idle")
  /\ received < MaxRequests
  /\ received' = received + 1
  /\ Become(h, [Free EXCEPT !.pc = pc, !.kind = q.kind, !.local = q.local,
                            !.target = q.target, !.expected = expected])
  /\ UNCHANGED <<store, cache, health, faults>>

\* The versions that were ever stored: clients have seen one of them.
Seen == 1..(Len(written) + 1)

createAgent(h, q) ==
  /\ q.kind = "create"
  /\ row = None /\ ~deleted
  /\ \A g \in Handler : process[g].kind # "create"
  /\ Receive(h, q, 0, "create")

\* Updates and deletions name the version they expect.
updateAgent(h, q) ==
  /\ q.kind = "update"
  /\ \E expected \in Seen : Receive(h, q, expected, "get")

deleteAgent(h, q) ==
  /\ q.kind = "delete"
  /\ \E expected \in Seen : Receive(h, q, expected, "get")

\* The state is returned as it is, and a check is asked for.
getAgentHealth(h, q) == q.kind = "health" /\ Receive(h, q, 0, "get")

getAgent(h, q) == q.kind = "read" /\ Receive(h, q, 0, "get")

CreateAgent(h) ==
  /\ At(h, "create")
  /\ row' = [target |-> process[h].target, version |-> 1]
  /\ Become(h, [process[h] EXCEPT !.pc = "set", !.agent = row'])
  /\ UNCHANGED <<deleted, written, cache, health, received, faults>>

\* A plausible slip: the version in the statement is not compared.
AnyVersion(h) == row # None

Expects(h) == row # None /\ row.version = process[h].expected

UpdateAgent(h) ==
  /\ At(h, "update")
  /\ IF Expects(h)
     THEN /\ row' = [target |-> process[h].target, version |-> row.version + 1]
          /\ written' = Append(written, process[h].expected)
          /\ Become(h, [process[h] EXCEPT !.pc = "set", !.agent = row'])
     ELSE /\ Become(h, [process[h] EXCEPT !.pc = "evict", !.kind = "refused"])
          /\ UNCHANGED <<row, written>>
  /\ UNCHANGED <<deleted, cache, health, received, faults>>

\* An agent with Runs stays, and so does its copy in the cache.
DeleteAgent(h) ==
  /\ At(h, "delete")
  /\ \/ Expects(h) /\ row' = None /\ deleted' = TRUE /\ Goto(h, "evict")
     \/ Expects(h) /\ Leave(h) /\ UNCHANGED <<row, deleted>>
     \/ /\ ~Expects(h)
        /\ Become(h, [process[h] EXCEPT !.pc = "evict", !.kind = "refused"])
        /\ UNCHANGED <<row, deleted>>
  /\ UNCHANGED <<written, cache, health, received, faults>>

\* After the cache the service of the replica that handled the request.
Served(h) ==
  IF ~process[h].local \/ process[h].kind = "refused" THEN Leave(h)
  ELSE Goto(h, IF process[h].kind = "create" THEN "refresh" ELSE "forget")

Set(h) ==
  /\ At(h, "set")
  /\ cache' = process[h].agent
  /\ Served(h)
  /\ UNCHANGED <<store, health, received, faults>>

Evict(h) ==
  /\ At(h, "evict")
  /\ cache' = None
  /\ Served(h)
  /\ UNCHANGED <<store, health, received, faults>>

\* Errors of the cache are logged.  On another replica this is also a crash
\* after the statement.
CacheFails(h) ==
  /\ At(h, "set") \/ At(h, "evict")
  /\ Fault("cache")
  /\ Served(h)
  /\ UNCHANGED <<store, cache, health, received>>

\* A plausible slip: copies are cached for good.
NeverExpire == FALSE /\ UNCHANGED vars

\* AGENTMESH_CACHE_TTL is over.
ExpireCached ==
  /\ cache # None
  /\ cache' = None
  /\ UNCHANGED <<store, process, health, received, faults>>

-----------------------------------------------------------------------------
(* The health service of this replica.                                     *)

Forget(h) ==
  /\ At(h, "forget")
  /\ state' = None
  /\ pending' = FALSE
  /\ IF process[h].kind = "update" THEN Goto(h, "refresh") ELSE Leave(h)
  /\ UNCHANGED <<store, cache, queue, received, faults>>

\* A plausible slip: the state of an agent that is no longer probed stays.
RefreshProbeable(p) ==
  /\ At(p, "refresh")
  /\ IF process[p].agent.target \notin Probeable
     THEN Leave(p) /\ UNCHANGED pending
     ELSE /\ pending' = TRUE
          /\ IF pending THEN Leave(p) ELSE Goto(p, "send")
  /\ UNCHANGED <<store, cache, state, queue, received, faults>>

\* One check is pending at a time.
Refresh(p) ==
  /\ At(p, "refresh")
  /\ IF process[p].agent.target \notin Probeable
     THEN state' = None /\ pending' = FALSE /\ Leave(p)
     ELSE /\ pending' = TRUE
          /\ IF pending THEN Leave(p) ELSE Goto(p, "send")
          /\ UNCHANGED state
  /\ UNCHANGED <<store, cache, queue, received, faults>>

\* A plausible slip: a check that does not fit in the queue stays pending.
SendOrDrop(p) ==
  /\ At(p, "send")
  /\ queue' = IF Len(queue) < QueueSize THEN Append(queue, process[p].agent.target) ELSE queue
  /\ Leave(p)
  /\ UNCHANGED <<store, cache, state, pending, received, faults>>

\* The queue takes the check, or it is full and the check is not pending.
Send(p) ==
  /\ At(p, "send")
  /\ IF Len(queue) < QueueSize
     THEN queue' = Append(queue, process[p].agent.target) /\ UNCHANGED pending
     ELSE pending' = FALSE /\ UNCHANGED queue
  /\ Leave(p)
  /\ UNCHANGED <<store, cache, state, received, faults>>

\* refreshAll lists the agents in the store.
refreshAll(p) ==
  /\ At(p, "idle")
  /\ row # None
  /\ Become(p, [Free EXCEPT !.pc = "refresh", !.kind = "schedule", !.agent = row])
  /\ UNCHANGED <<store, cache, health, received, faults>>

\* A check of some other agent takes a place in the queue.
RefreshOther ==
  /\ Fault("busy")
  /\ Len(queue) < QueueSize
  /\ queue' = Append(queue, None)
  /\ UNCHANGED <<store, cache, process, state, pending, received>>

\* A worker takes a check and probes its target.
check(w) ==
  /\ At(w, "idle")
  /\ queue # <<>>
  /\ queue' = Tail(queue)
  /\ IF Head(queue) = None THEN UNCHANGED process
     ELSE Become(w, [Free EXCEPT !.pc = "get", !.kind = "check", !.target = Head(queue)])
  /\ UNCHANGED <<store, cache, state, pending, received, faults>>

sameTarget(w) == process[w].agent # None /\ process[w].agent.target = process[w].target

\* The result counts when the agent still had the target it was checked at.
StoreState(w) ==
  /\ At(w, "store")
  /\ pending' = FALSE
  /\ state' = IF sameTarget(w) THEN process[w].target ELSE state
  /\ Leave(w)
  /\ UNCHANGED <<store, cache, queue, received, faults>>

-----------------------------------------------------------------------------
RequestStep(h) ==
  \E q \in Requests :
    createAgent(h, q) \/ updateAgent(h, q) \/ deleteAgent(h, q) \/ getAgentHealth(h, q)
      \/ getAgent(h, q)

GetStep(p) == GetCached(p) \/ GetRow(p) \/ Fill(p)

HandlerStep(h) ==
  \/ GetStep(h) \/ CreateAgent(h) \/ UpdateAgent(h) \/ DeleteAgent(h) \/ Set(h) \/ Evict(h)
  \/ Forget(h) \/ Refresh(h) \/ Send(h)

SchedulerStep == refreshAll(Scheduler) \/ Refresh(Scheduler) \/ Send(Scheduler)

WorkerStep(w) == check(w) \/ GetStep(w) \/ StoreState(w)

Next ==
  \/ \E h \in Handler : RequestStep(h) \/ HandlerStep(h) \/ CacheFails(h)
  \/ SchedulerStep
  \/ \E w \in Worker : WorkerStep(w)
  \/ ExpireCached \/ RefreshOther

Spec == Init /\ [][Next]_vars

\* Goroutines go on, the ticker of the scheduler ticks, and what is cached
\* expires: sooner or later the cache is found empty, also by a worker that
\* reads it again and again.
Fairness ==
  /\ \A h \in Handler : WF_vars(HandlerStep(h))
  /\ WF_vars(SchedulerStep)
  /\ \A w \in Worker : WF_vars(WorkerStep(w))
  /\ WF_vars(ExpireCached)

FairSpec == Spec /\ Fairness
=============================================================================
