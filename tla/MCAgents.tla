------------------------------ MODULE MCAgents ------------------------------
(* An instance of the registry of agents for TLC. *)
EXTENDS AgentProperties, TLC

Ask(kind, local, target) == [kind |-> kind, local |-> local, target |-> target]

Rows == {None, [target |-> "x", version |-> 1]}

\* The agent moves to another endpoint and to a target that is not probed.
Asked ==
  {Ask("create", TRUE, "x"), Ask("update", TRUE, "y"), Ask("update", FALSE, "demo"),
   Ask("delete", TRUE, None), Ask("health", TRUE, None),
   Ask("read", FALSE, None)}
=============================================================================
