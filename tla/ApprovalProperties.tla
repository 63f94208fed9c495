------------------------- MODULE ApprovalProperties -------------------------
(***************************************************************************)
(* What the approvals and the audit log promise, stated over Approvals.    *)
(***************************************************************************)
EXTENDS Approvals

\* The requests that have been let through to the tool, whatever came of them.
Through ==
  {r \in DOMAIN requests : \/ requests[r].called
                           \/ requests[r].kind = "call" /\ requests[r].status \in {200, 502}
                           \/ \E h \in Handler : At(h, "call") /\ handler[h].req = r}

\* An approval lets one request through, however requests with it race on
\* several replicas, and also when the request it let through fails or is
\* interrupted before or after the tool took effect (ConsumeApproval, callTool).
ApprovalIsUsedOnce ==
  \A r, s \in Through : requests[r].id # 0 /\ requests[r].id = requests[s].id => r = s

Approved(i) ==
  \E d \in DOMAIN requests :
    requests[d].kind = "approve" /\ requests[d].id = i /\ requests[d].status = 200

\* A protected tool is called with the very operation that an administrator
\* approved, and by a handler that read the time before the approval ended;
\* a tool that is denied is not called (callTool, DecideApproval,
\* ConsumeApproval).
ToolCallsAreAuthorized ==
  \A r \in Through :
    /\ Allows(requests[r].op.tool)
    /\ RequiresApproval(requests[r].op.tool) =>
         /\ requests[r].id # 0
         /\ requests[requests[r].id].op = requests[r].op
         /\ Approved(requests[r].id)
         /\ requests[r].now < requests[requests[r].id].now + TTL

\* Of the administrators that decide an approval at the same time one is told
\* that the decision is made, and it stays that decision (DecideApproval).
OneDecision ==
  \A c, d \in DOMAIN requests :
    /\ {requests[c].kind, requests[d].kind} \subseteq {"approve", "reject"}
    /\ requests[c].status = 200 /\ requests[d].status = 200
    /\ requests[c].id = requests[d].id
    => /\ c = d
       /\ requests[c].id \in DOMAIN approvals =>
            approvals[requests[c].id].status
              \in IF requests[c].kind = "approve" THEN {"approved", "consumed"} ELSE {"rejected"}

\* Who is told that an approval has expired asked after its time, and an
\* approval is unknown only when its retention is over too, although it is
\* deleted by requests for other approvals (CreateApproval, GetApproval).
RefusalsAreTrue ==
  \A r \in DOMAIN requests :
    LET created == requests[requests[r].id]
    IN  /\ requests[r].status = 410 => requests[r].now >= created.now + TTL
        /\ requests[r].status = 404 => clock > created.now + TTL + Retention

\* An event leaves the log when its retention is over or when as many later
\* ones as the log keeps have entered it (AppendAuditEvent).
AuditKeepsTheLatest ==
  \A r \in DOMAIN requests :
    \/ requests[r].seq = 0
    \/ \E e \in audit : e.req = r
    \/ clock > requests[r].now + AuditRetention
    \/ Cardinality({s \in DOMAIN requests : requests[s].seq > requests[r].seq}) >= AuditMax
=============================================================================
