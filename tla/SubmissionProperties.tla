------------------------ MODULE SubmissionProperties ------------------------
(***************************************************************************)
(* What the submission of Runs promises, stated over RunSubmission.        *)
(***************************************************************************)
EXTENDS RunSubmission

UniqueKeys(rs) == \A r, s \in DOMAIN rs : rs[r].key[2] # 0 /\ rs[r].key = rs[s].key => r = s

\* However concurrent requests with one key interleave, there is one Run for
\* it, and every answer to a request with the key names that Run (createRun,
\* createAgentChildRun, CreateRun, CreateChildRun).
KeyNamesOneRun ==
  /\ UniqueKeys(runs)
  /\ \A x \in answers : Keyed(x.req) => runs[x.run].key = StoreKey(x.req)

AsksFor(q, x) ==
  /\ <<q.input, q.parent, q.required>> = <<x.input, x.parent, x.required>>
  /\ q.target \in {0, x.agent}

\* A submission that is answered with a Run is answered with one that it asked
\* for, also when another request with its key came in between (writeRunReplay).
SubmissionGetsItsRun ==
  \A x \in answers : x.req.kind = "run" => AsksFor(x.req, runs[x.run])

CallIsBounded(rs, r) ==
  /\ Cardinality(Lineage(rs, r)) <= MaxDepth + 1
  /\ \A s \in Lineage(rs, r) \ {r} : rs[s].agent # rs[r].agent
  /\ Cardinality({c \in Children(rs, rs[r].parent) : c <= r}) <= MaxChildren
  /\ rs[r].root \in Lineage(rs, r) /\ rs[rs[r].root].parent = 0

\* Calls of agents stay within the limits, however many are made at once: a
\* chain that ends in a call is not too long and repeats no agent, a call never
\* was one child too many of its parent, and the root that is stored with it is
\* the top of its chain (agentCallAncestry, CreateChildRun, AttachTo).
CallsAreBounded == \A r \in DOMAIN runs : runs[r].kind = "call" => CallIsBounded(runs, r)

FittingAgent(x) == Range(x.required) \subseteq Profile[x.agent].capabilities

\* A Run has an agent that is registered and, if it was routed, that declares
\* every capability it asked for, although the agent was chosen before the Run
\* was stored (DeleteAgent, Select).
RunsHaveFittingAgents ==
  \A r \in DOMAIN runs : runs[r].agent \in registered /\ FittingAgent(runs[r])

\* A Run that waits outside the queue has a handler that will enqueue or fail
\* it, also when the queue refuses it, unless the request that stored it was
\* interrupted (createRun, createAgentChildRun).
NoRunIsStranded ==
  \A r \in DOMAIN runs :
    runs[r].status = "queued" /\ ~runs[r].enqueued /\ ~runs[r].left =>
      \E h \in Handler : handler[h].pc \in {"enqueue", "fail"} /\ handler[h].run = r

-----------------------------------------------------------------------------
\* A child comes after its parent and is stored with the top of its chain.
Attached(rs, r) ==
  /\ rs[r].parent < r
  /\ rs[r].kind = "call" => rs[r].parent # 0
  /\ rs[r].parent # 0 => rs[r].root \in Lineage(rs, r) /\ rs[rs[r].root].parent = 0

\* The Runs in the store at first were made in the same way, and no request is
\* at work for them.
ASSUME InitialRunsAssumption ==
  /\ UniqueKeys(InitialRuns)
  /\ \A r \in DOMAIN InitialRuns :
       LET x == InitialRuns[r]
       IN  /\ Attached(InitialRuns, r)
           /\ x.kind = "call" => CallIsBounded(InitialRuns, r)
           /\ FittingAgent(x)
           /\ x.status = "queued" => ~x.fenced /\ (x.enqueued \/ x.left)
=============================================================================
