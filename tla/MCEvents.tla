------------------------------ MODULE MCEvents ------------------------------
(* An instance of the events of a Run for TLC. *)
EXTENDS EventProperties, TLC

\* A worker that executes the Run on one replica, and a handler on the other
\* that publishes an event of its own.
Homes == [worker |-> "A", api |-> "B"]
Counts == [worker |-> 3, api |-> 1]
=============================================================================
