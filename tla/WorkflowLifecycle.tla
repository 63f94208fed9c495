-------------------------- MODULE WorkflowLifecycle --------------------------
(***************************************************************************)
(* The abstract promise about one workflow: it is created from a valid     *)
(* definition, started once, gives each step at most one Run, in the order *)
(* of the dependencies, and ends once.  Nothing here knows of managers,    *)
(* leases, versions, caches or requests.                                   *)
(***************************************************************************)
CONSTANTS
  NoCondition,        \* no condition
  Accepted(_),        \* whether a definition is accepted
  Position(_),        \* the positions of its steps
  PositionOf(_, _)    \* the position of the step with an ID

VARIABLES
  def,      \* the definition
  status,   \* the status of the workflow
  step      \* step[i]: waiting, assigned, skipped, or lost to a failure or a cancellation

WInit == status = "absent" /\ step = <<>>

Settled == {"assigned", "skipped"}

\* Steps to which step i refers as a dependency are in S.
FollowsOnly(i, S) ==
  \A k \in DOMAIN def.steps[i].dependsOn : PositionOf(def, def.steps[i].dependsOn[k]) \in S

In(state) == {i \in DOMAIN step : step[i] \in state}

WCreate ==
  /\ status = "absent"
  /\ Accepted(def)
  /\ status' = "pending"
  /\ step' = [i \in Position(def) |-> "waiting"]

WStart == status = "pending" /\ status' = "running" /\ UNCHANGED step

WAssign ==
  /\ status = "running"
  /\ \E i \in In({"waiting"}) :
       /\ FollowsOnly(i, In(Settled))
       /\ step' = [step EXCEPT ![i] = "assigned"]
  /\ UNCHANGED status

\* Only steps with a condition are skipped; several may be at once.
WSkip ==
  /\ status = "running"
  /\ \E S \in SUBSET In({"waiting"}) :
       /\ \A i \in S : def.steps[i].condition # NoCondition /\ FollowsOnly(i, In(Settled) \union S)
       /\ step' = [i \in DOMAIN step |-> IF i \in S THEN "skipped" ELSE step[i]]
  /\ UNCHANGED status

WSucceed ==
  /\ status = "running"
  /\ In(Settled) = DOMAIN step
  /\ status' = "succeeded"
  /\ UNCHANGED step

\* Every step that waits is given up; one that has a Run may be.
WGiveUp ==
  /\ status = "running" \/ (status = "pending" /\ status' = "canceled")
  /\ status' \in {"failed", "canceled"}
  /\ \E S \in SUBSET In({"assigned"}) :
       step' = [i \in DOMAIN step |->
                  IF i \in S \union In({"waiting"}) THEN "lost" ELSE step[i]]

WNext == (WCreate \/ WStart \/ WAssign \/ WSkip \/ WSucceed \/ WGiveUp) /\ UNCHANGED def

WSpec == WInit /\ [][WNext]_<<def, status, step>>
=============================================================================
