----------------------------- MODULE MCSubmission -----------------------------
(* Instances of the submission of Runs for TLC. *)
EXTENDS SubmissionProperties, TLC

CONSTANTS h1, h2

Handlers == {h1, h2}
Symmetric == Permutations(Handlers)

Agents == {1, 2, 3}
Profiles ==
  <<[capabilities |-> {"law"}, maxConcurrency |-> 0, priority |-> 0, createdAt |-> 1],
    [capabilities |-> {"law", "tax"}, maxConcurrency |-> 2, priority |-> 1, createdAt |-> 2],
    [capabilities |-> {"law", "tax"}, maxConcurrency |-> 2, priority |-> 1, createdAt |-> 2]>>

Healths == <<"unknown", "healthy", "healthy">>

Direct(key, agent, parent, input) ==
  [kind |-> "run", key |-> key, target |-> agent, required |-> <<>>, parent |-> parent,
   caller |-> 0, input |-> input]

Route(key, required, parent) ==
  [kind |-> "run", key |-> key, target |-> 0, required |-> required, parent |-> parent,
   caller |-> 0, input |-> "x"]

Call(caller, parent, key, agent, input) ==
  [kind |-> "call", key |-> key, target |-> agent, required |-> <<>>, parent |-> parent,
   caller |-> caller, input |-> input]

CallRouted(caller, parent, key, required) ==
  [kind |-> "call", key |-> key, target |-> 0, required |-> required, parent |-> parent,
   caller |-> caller, input |-> "x"]

\* A Run at work and the Run of a call it made.
Parent ==
  [agent |-> 1, parent |-> 0, required |-> <<>>, input |-> "x", root |-> 0, key |-> <<0, 0>>,
   kind |-> "run", status |-> "running", enqueued |-> TRUE, fenced |-> TRUE, left |-> FALSE]
Child == [Parent EXCEPT !.agent = 2, !.parent = 1, !.root = 1, !.key = <<1, 9>>, !.kind = "call"]

Family == <<Parent, Child>>

\* Submissions with and without keys and parents, calls by the two Runs, and by
\* the Run of the first call.
Mixed == {Direct(1, 1, 0, "x"), Direct(1, 1, 0, "y"), Route(1, <<"tax", "law", "tax">>, 2),
          Call(1, 1, 1, 3, "x"), CallRouted(2, 2, 2, <<"law">>), Call(2, 2, 1, 1, "x"),
          Call(3, 3, 1, 1, "x"), Call(3, 3, 2, 2, "x")}
=============================================================================
