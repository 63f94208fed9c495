------------------------------ MODULE Approvals ------------------------------
(***************************************************************************)
(* Human approvals of tool calls and the audit log: the approval and tool  *)
(* handlers of internal/httpapi/server.go over the PostgreSQL store.       *)
(* Requests are handled concurrently by several replicas, and every        *)
(* statement is a step of its own.  Requests are numbered as they arrive;  *)
(* an approval has the number of the request that created it, 0 stands for *)
(* none.                                                                   *)
(***************************************************************************)
EXTENDS Naturals, Sequences, FiniteSets

CONSTANTS
  Handler,         \* the goroutines that handle requests, of all replicas
  Operation,       \* what tools can be called for: a tool with its arguments
  Requests,        \* what clients ask for: a kind of request, an operation and
                   \* an approval
  Policy,          \* the MCP server: its allowed, denied and protected tools
  TTL,             \* AGENTMESH_APPROVAL_TTL
  Retention,       \* AGENTMESH_APPROVAL_RETENTION
  AuditRetention,  \* AGENTMESH_AUDIT_RETENTION
  AuditMax,        \* AGENTMESH_AUDIT_MAX_EVENTS
  InitialRequests, \* the requests that were handled before
  InitialApprovals, InitialAudit,  \* and what they left in the store
  MaxTime,         \* bound on the clock
  MaxRequests,     \* bound on the number of requests
  MaxFaults        \* bound on the number of interrupted requests

RequestKind == {"create", "approve", "reject", "call"}
Request == [kind : RequestKind, op : Operation, id : Nat]

\* A request that was received, with the time it was, what it was answered,
\* whether a tool was called for it, and its place in the audit log.
ReceivedRequest ==
  [kind : RequestKind, op : Operation, id : Nat, now : Nat, status : Nat,
   called : BOOLEAN, seq : Nat]
Approval ==
  [op : Operation, status : {"pending", "approved", "rejected", "consumed"}, expires : Nat]
AuditEvent == [seq : Nat, req : Nat, at : Nat]

ASSUME ApprovalAssumption ==
  /\ TTL \in Nat \ {0}
  /\ {Retention, AuditRetention, AuditMax} \subseteq Nat \ {0}
  /\ {MaxTime, MaxRequests, MaxFaults} \subseteq Nat
  /\ Requests \subseteq Request

\* The requests that were handled before asked for approvals and decided some
\* of them, each once; the approvals are still in the store.
ASSUME HistoryAssumption ==
  LET Made(kind) == {r \in DOMAIN InitialRequests : InitialRequests[r].kind = kind}
      Decisions(i) == {r \in Made("approve") \union Made("reject") : InitialRequests[r].id = i}
  IN  /\ InitialRequests \in Seq(ReceivedRequest)
      /\ InitialAudit \subseteq AuditEvent
      /\ Made("call") = {}
      /\ \A r \in DOMAIN InitialRequests :
           /\ InitialRequests[r].status = IF r \in Made("create") THEN 201 ELSE 200
           /\ ~InitialRequests[r].called
           /\ r \notin Made("create") => InitialRequests[r].id \in Made("create")
      /\ \A r, s \in Made("approve") \union Made("reject") :
           InitialRequests[r].id = InitialRequests[s].id => r = s
      /\ InitialApprovals =
           [i \in Made("create") |->
              [op |-> InitialRequests[i].op,
               status |-> IF Decisions(i) = {} THEN "pending"
                          ELSE IF Decisions(i) \subseteq Made("approve") THEN "approved"
                          ELSE "rejected",
               expires |-> InitialRequests[i].now + TTL]]

\* The log holds one event of each of them that was audited, unless as many
\* later ones followed as it keeps.
ASSUME AuditAssumption ==
  LET Later(n) == {s \in DOMAIN InitialRequests : InitialRequests[s].seq > n}
  IN  /\ \A e \in InitialAudit :
           /\ e.req \in DOMAIN InitialRequests
           /\ e.seq = InitialRequests[e.req].seq /\ e.seq # 0
           /\ e.at >= InitialRequests[e.req].now
      /\ \A e, f \in InitialAudit : e.req = f.req => e = f
      /\ \A r \in DOMAIN InitialRequests :
           \/ InitialRequests[r].seq = 0
           \/ \E e \in InitialAudit : e.req = r
           \/ Cardinality(Later(InitialRequests[r].seq)) >= AuditMax

VARIABLES
  clock,      \* the time
  approvals,  \* the approvals in the store, a function on their numbers
  requests,   \* the requests and what became of them
  handler,    \* handler[h]: the request h is at
  audit,      \* the events in the audit log: their sequence, request and time
  sequence,   \* the last sequence given to an audit event
  faults      \* how many requests were interrupted

vars == <<clock, approvals, requests, handler, audit, sequence, faults>>

Free == [pc |-> "idle", req |-> 0, seq |-> 0, at |-> 0, drop |-> {}]

Init ==
  /\ clock = 0
  /\ approvals = InitialApprovals
  /\ requests = InitialRequests
  /\ handler = [h \in Handler |-> Free]
  /\ audit = InitialAudit
  /\ sequence = Len(InitialRequests)
  /\ faults = 0

At(h, pc) == handler[h].pc = pc
Become(h, x) == handler' = [handler EXCEPT ![h] = x]
Goto(h, pc) == Become(h, [handler[h] EXCEPT !.pc = pc])
RequestOf(h) == requests[handler[h].req]

\* The response is written; the middleware goes on to the audit log.
Answer(h, status) ==
  /\ requests' = [requests EXCEPT ![handler[h].req].status = status]
  /\ Goto(h, "audit")

-----------------------------------------------------------------------------
(* The policy of the server and the approvals.                             *)

Allows(tool) ==
  /\ tool \notin Policy.denied
  /\ Policy.allowed = {} \/ tool \in Policy.allowed

RequiresApproval(tool) == tool \in Policy.protected

Expired(approval, now) == now >= approval.expires

\* A fresh approval of an operation.
Initialize(op, now) == [op |-> op, status |-> "pending", expires |-> now + TTL]

\* A plausible slip: approvals are deleted as soon as they expire.
PrunedByExpiry == {i \in DOMAIN approvals : approvals[i].expires < clock}

\* The approvals that CreateApproval deletes.
Pruned == {i \in DOMAIN approvals : approvals[i].expires + Retention < clock}

\* A plausible slip: a decision can be changed while the approval lasts.
DecideAgain(i, now) ==
  i \in DOMAIN approvals /\ ~Expired(approvals[i], now)

\* The row DecideApproval updates.
Decidable(i, now) ==
  /\ i \in DOMAIN approvals
  /\ approvals[i].status = "pending"
  /\ ~Expired(approvals[i], now)

\* A plausible slip: the arguments are not compared.
ConsumeAnyArguments(i, op, now) ==
  /\ i \in DOMAIN approvals
  /\ approvals[i].op.tool = op.tool
  /\ approvals[i].status = "approved"
  /\ ~Expired(approvals[i], now)

\* The row ConsumeApproval updates.
Consumable(i, op, now) ==
  /\ i \in DOMAIN approvals
  /\ approvals[i].op = op
  /\ approvals[i].status = "approved"
  /\ ~Expired(approvals[i], now)

-----------------------------------------------------------------------------
(* The requests.  The time a handler works with is read when it receives   *)
(* the request, before the statement that uses it runs.                    *)

\* The request goes on at pc, with the answer when it is refused at once.
Receive(h, q, pc, status) ==
  /\ At(h, "idle")
  /\ Len(requests) < MaxRequests
  /\ requests' = Append(requests, [kind |-> q.kind, op |-> q.op, id |-> q.id, now |-> clock,
                                   status |-> status, called |-> FALSE, seq |-> 0])
  /\ Become(h, [Free EXCEPT !.pc = pc, !.req = Len(requests) + 1])
  /\ UNCHANGED <<clock, approvals, audit, sequence, faults>>

\* The approvals clients know of.
Known == {r \in DOMAIN requests : requests[r].kind = "create" /\ requests[r].status = 201}

createApproval(h, q) ==
  /\ q.kind = "create"
  /\ IF ~Allows(q.op.tool) THEN Receive(h, q, "audit", 403)
     ELSE IF ~RequiresApproval(q.op.tool) THEN Receive(h, q, "audit", 400)
     ELSE Receive(h, q, "create", 0)

decideApproval(h, q) ==
  /\ q.kind \in {"approve", "reject"}
  /\ q.id \in Known
  /\ Receive(h, q, "decide", 0)

\* A protected tool needs an approval; an approval that is given is used.
callTool(h, q) ==
  /\ q.kind = "call"
  /\ q.id \in Known \union {0}
  /\ IF ~Allows(q.op.tool) THEN Receive(h, q, "audit", 403)
     ELSE IF q.id # 0 THEN Receive(h, q, "consume", 0)
     ELSE IF RequiresApproval(q.op.tool) THEN Receive(h, q, "audit", 428)
     ELSE Receive(h, q, "call", 0)

-----------------------------------------------------------------------------
(* The statements.                                                         *)

\* The insertion and the deletion of old approvals are one transaction.
CreateApproval(h) ==
  LET new == handler[h].req
  IN  /\ At(h, "create")
      /\ approvals' =
           [i \in (DOMAIN approvals \ Pruned) \union {new} |->
              IF i = new THEN Initialize(RequestOf(h).op, RequestOf(h).now) ELSE approvals[i]]
      /\ Answer(h, 201)
      /\ UNCHANGED <<clock, audit, sequence, faults>>

DecideApproval(h) ==
  LET q == RequestOf(h)
  IN  /\ At(h, "decide")
      /\ IF Decidable(q.id, q.now)
         THEN /\ approvals' = [approvals EXCEPT ![q.id].status =
                                 IF q.kind = "approve" THEN "approved" ELSE "rejected"]
              /\ Answer(h, 200)
         ELSE Goto(h, "lookup") /\ UNCHANGED <<approvals, requests>>
      /\ UNCHANGED <<clock, audit, sequence, faults>>

ConsumeApproval(h) ==
  LET q == RequestOf(h)
  IN  /\ At(h, "consume")
      /\ IF Consumable(q.id, q.op, q.now)
         THEN /\ approvals' = [approvals EXCEPT ![q.id].status = "consumed"]
              /\ Goto(h, "call")
         ELSE Goto(h, "lookup") /\ UNCHANGED approvals
      /\ UNCHANGED <<clock, requests, audit, sequence, faults>>

\* Nothing was updated: what the row says now explains it.  A mismatch answers
\* 409 as an approval that is not pending or not approved does.
Explanation(q) ==
  IF q.id \notin DOMAIN approvals THEN 404
  ELSE IF q.kind = "call" /\ approvals[q.id].op # q.op THEN 409
  ELSE IF Expired(approvals[q.id], q.now) THEN 410
  ELSE 409

Lookup(h) ==
  /\ At(h, "lookup")
  /\ Answer(h, Explanation(RequestOf(h)))
  /\ UNCHANGED <<clock, approvals, audit, sequence, faults>>

\* What can come of a call of a tool: it may fail before or after its effect, by
\* a timeout for example; 502 stands for 504 too.
CallResult == {r \in [called : BOOLEAN, status : {200, 502}] : r.status = 200 => r.called}

WithResult(q, result) == [q EXCEPT !.called = result.called, !.status = result.status]

\* A plausible slip: a call that fails gives its approval back.
CallToolOrRelease(h) ==
  /\ At(h, "call")
  /\ \E result \in CallResult :
       /\ requests' = [requests EXCEPT ![handler[h].req] = WithResult(@, result)]
       /\ approvals' = IF result.status = 502 /\ RequestOf(h).id \in DOMAIN approvals
                       THEN [approvals EXCEPT ![RequestOf(h).id].status = "approved"]
                       ELSE approvals
  /\ Goto(h, "audit")
  /\ UNCHANGED <<clock, audit, sequence, faults>>

CallTool(h) ==
  /\ At(h, "call")
  /\ \E result \in CallResult :
       requests' = [requests EXCEPT ![handler[h].req] = WithResult(@, result)]
  /\ Goto(h, "audit")
  /\ UNCHANGED <<clock, approvals, audit, sequence, faults>>

-----------------------------------------------------------------------------
(* The audit log: a transaction of three statements per request.           *)

InsertAuditEvent(h) ==
  /\ At(h, "audit")
  /\ sequence' = sequence + 1
  /\ Become(h, [handler[h] EXCEPT !.pc = "trim", !.seq = sequence + 1, !.at = clock])
  /\ UNCHANGED <<clock, approvals, requests, audit, faults>>

\* A plausible slip: the latest events go.
BeyondFirst(n, log) == {e \in log : Cardinality({f \in log : f.seq < e.seq}) >= n}

\* The events that are more than n events from the end of a log.
Beyond(n, log) == {e \in log : Cardinality({f \in log : f.seq > e.seq}) >= n}

\* The deletions see the events of committed transactions and their own event.
TrimAuditEvents(h) ==
  LET own == [seq |-> handler[h].seq, req |-> handler[h].req, at |-> handler[h].at]
      recent == {e \in audit \union {own} : e.at + AuditRetention >= clock}
  IN  /\ At(h, "trim")
      /\ Become(h, [handler[h] EXCEPT
                      !.pc = "commit",
                      !.drop = ((audit \union {own}) \ recent) \union Beyond(AuditMax, recent)])
      /\ UNCHANGED <<clock, approvals, requests, audit, sequence, faults>>

CommitAuditEvent(h) ==
  LET own == [seq |-> handler[h].seq, req |-> handler[h].req, at |-> handler[h].at]
  IN  /\ At(h, "commit")
      /\ audit' = (audit \union {own}) \ handler[h].drop
      /\ requests' = [requests EXCEPT ![handler[h].req].seq = handler[h].seq]
      /\ Become(h, Free)
      /\ UNCHANGED <<clock, approvals, sequence, faults>>

-----------------------------------------------------------------------------
\* The client goes away or the replica stops: the context of the request ends,
\* the statements that are left fail, and so does the audit event.
Interrupt(h) ==
  /\ ~At(h, "idle")
  /\ faults < MaxFaults
  /\ faults' = faults + 1
  /\ Become(h, Free)
  /\ UNCHANGED <<clock, approvals, requests, audit, sequence>>

Tick ==
  /\ clock < MaxTime
  /\ clock' = clock + 1
  /\ UNCHANGED <<approvals, requests, handler, audit, sequence, faults>>

RequestStep(h) ==
  \E q \in Requests : createApproval(h, q) \/ decideApproval(h, q) \/ callTool(h, q)

StatementStep(h) ==
  \/ CreateApproval(h) \/ DecideApproval(h) \/ ConsumeApproval(h) \/ Lookup(h) \/ CallTool(h)
  \/ InsertAuditEvent(h) \/ TrimAuditEvents(h) \/ CommitAuditEvent(h)
  \/ Interrupt(h)

Next == Tick \/ \E h \in Handler : RequestStep(h) \/ StatementStep(h)

Spec == Init /\ [][Next]_vars
=============================================================================
