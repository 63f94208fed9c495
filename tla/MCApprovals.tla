----------------------------- MODULE MCApprovals -----------------------------
(* An instance of the approvals for TLC. *)
EXTENDS ApprovalProperties, TLC

CONSTANTS h1, h2

Handlers == {h1, h2}
Symmetric == Permutations(Handlers)

ServerPolicy ==
  [allowed |-> {"deploy", "inspect", "drop"}, denied |-> {"drop"}, protected |-> {"deploy"}]

Deploy(n) == [tool |-> "deploy", arguments |-> n]

Handled(n, kind, op, id, status) ==
  [kind |-> kind, op |-> op, id |-> id, now |-> 0, status |-> status, called |-> FALSE,
   seq |-> n]

Tool(name) == [tool |-> name, arguments |-> 1]

Operations == {Deploy(1), Deploy(2), Tool("inspect"), Tool("drop")}

Ask(kind, op, id) == [kind |-> kind, op |-> op, id |-> id]

\* Requests about both approvals, an approval that is used for other arguments,
\* calls without one, and requests the policy refuses.
Asked ==
  {Ask("create", Deploy(1), 0), Ask("create", Tool("inspect"), 0),
   Ask("approve", Deploy(1), 1), Ask("reject", Deploy(1), 1), Ask("reject", Deploy(2), 2),
   Ask("call", Deploy(1), 1), Ask("call", Deploy(1), 2), Ask("call", Deploy(2), 2),
   Ask("call", Deploy(1), 0), Ask("call", Tool("inspect"), 0), Ask("call", Tool("drop"), 0)}

\* Two approvals were asked for, and the second one was approved.
History == <<Handled(1, "create", Deploy(1), 0, 201), Handled(2, "create", Deploy(2), 0, 201),
             Handled(3, "approve", Deploy(2), 2, 200)>>
Stored == <<[op |-> Deploy(1), status |-> "pending", expires |-> 1],
            [op |-> Deploy(2), status |-> "approved", expires |-> 1]>>
Audited == {[seq |-> 3, req |-> 3, at |-> 0]}
=============================================================================
