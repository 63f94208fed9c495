---------------------------- MODULE RunLifecycle ----------------------------
(***************************************************************************)
(* The abstract promise of AgentMesh about one Run: the state machine of   *)
(* internal/domain/run.go, as the row of the Run in the store goes through *)
(* it.  Nothing here knows of caches, leases, fences, queues or workers.   *)
(***************************************************************************)
EXTENDS Integers

CONSTANTS
  Run,          \* the Run identifiers
  MaxAttempts   \* AGENTMESH_MAX_ATTEMPTS, fixed when the Run is created

ASSUME MaxAttemptsAssumption == MaxAttempts \in Nat \ {0}

VARIABLE run    \* run[r] : the persisted Run r

ActiveStatus == {"queued", "running"}
TerminalStatus == {"succeeded", "failed", "canceled"}
RunStatus == {"absent"} \union ActiveStatus \union TerminalStatus

RunRecord == [status : RunStatus, attempt : 0..MaxAttempts]

NoRunYet == [status |-> "absent", attempt |-> 0]
NewRun == [status |-> "queued", attempt |-> 0]

-----------------------------------------------------------------------------
(* The transitions of domain.Run: when each is allowed and what it yields. *)

CanStart(x) == x.status = "queued" /\ x.attempt < MaxAttempts
Start(x) == [status |-> "running", attempt |-> x.attempt + 1]

\* A plausible slip: the attempt limit is left to the caller.
CanRetryUnbounded(x) == x.status = "running"

CanRetry(x) == x.status = "running" /\ x.attempt < MaxAttempts
Retry(x) == [x EXCEPT !.attempt = @ + 1]

CanSucceed(x) == x.status = "running"
Succeed(x) == [x EXCEPT !.status = "succeeded"]

CanFail(x) == x.status \in ActiveStatus
Fail(x) == [x EXCEPT !.status = "failed"]

CanCancel(x) == x.status \in ActiveStatus
Cancel(x) == [x EXCEPT !.status = "canceled"]

\* RecoverRun gives the interrupted attempt back.
CanRequeue(x) == x.status = "running"
Requeue(x) == [status |-> "queued",
               attempt |-> IF x.attempt > 0 THEN x.attempt - 1 ELSE 0]

-----------------------------------------------------------------------------
LInit == run = [r \in Run |-> NoRunYet]

Becomes(r, x) == run' = [run EXCEPT ![r] = x]

\* The number of an attempt that starts, and that of a Run failed before its
\* first attempt, are those of the executor's copy, which may be old.
LStep(r) ==
  \/ run[r] = NoRunYet /\ Becomes(r, NewRun)
  \/ /\ run[r].status \in ActiveStatus
     /\ \E n \in 1..MaxAttempts : Becomes(r, [status |-> "running", attempt |-> n])
  \/ /\ CanFail(run[r])
     /\ \E n \in 0..MaxAttempts : Becomes(r, [status |-> "failed", attempt |-> n])
  \/ CanSucceed(run[r]) /\ Becomes(r, Succeed(run[r]))
  \/ CanCancel(run[r]) /\ Becomes(r, Cancel(run[r]))
  \/ CanRequeue(run[r]) /\ Becomes(r, Requeue(run[r]))

LNext == \E r \in Run : LStep(r)

LSpec == LInit /\ [][LNext]_run
=============================================================================
