------------------------------ MODULE RunStore ------------------------------
(***************************************************************************)
(* The Run table of store.Repository with its execution fence.  Each       *)
(* operation is one critical section of store.Memory, or one statement of  *)
(* the PostgreSQL store; res is the error class it returns.                *)
(***************************************************************************)
EXTENDS RunLifecycle

VARIABLE fence   \* fence[r] : execution_fence of r, 0 until the first claim

storeVars == <<run, fence>>

StoreTypeOK ==
  /\ run \in [Run -> RunRecord]
  /\ fence \in [Run -> Nat]

StoreInit ==
  /\ LInit
  /\ fence = [r \in Run |-> 0]

\* A plausible slip: the lease token is trusted to be newer.
NextFenceFromToken(r, minimumFence) ==
  IF minimumFence > fence[r] THEN minimumFence ELSE fence[r]

\* The fence a claim or a recovery installs: above the stored one and not
\* below the token of the lease that was acquired for it.
NextFence(r, minimumFence) ==
  IF minimumFence > fence[r] + 1 THEN minimumFence ELSE fence[r] + 1

CreateRun(r) ==
  /\ run[r] = NoRunYet
  /\ run' = [run EXCEPT ![r] = NewRun]
  /\ UNCHANGED fence

ClaimRunExecution(r, minimumFence, res) ==
  \/ /\ res = "canceled"
     /\ run[r].status = "canceled"
     /\ UNCHANGED storeVars
  \/ /\ res = "not_executable"
     /\ run[r].status \notin ActiveStatus \union {"canceled"}
     /\ UNCHANGED storeVars
  \/ /\ res = "ok"
     /\ run[r].status \in ActiveStatus
     /\ fence' = [fence EXCEPT ![r] = NextFence(r, minimumFence)]
     /\ UNCHANGED run

\* A plausible slip: the fence is only checked to be one.
UpdateRunFencedOverClaim(r, x, f, res) ==
  \/ /\ res = "canceled"
     /\ run[r].status = "canceled"
     /\ UNCHANGED storeVars
  \/ /\ res = "ok"
     /\ run[r].status # "canceled"
     /\ f > 0
     /\ run' = [run EXCEPT ![r] = x]
     /\ UNCHANGED fence

UpdateRunFenced(r, x, f, res) ==
  \/ /\ res = "canceled"
     /\ run[r].status = "canceled"
     /\ UNCHANGED storeVars
  \/ /\ res = "stale"
     /\ run[r].status # "canceled"
     /\ f <= 0 \/ fence[r] # f
     /\ UNCHANGED storeVars
  \/ /\ res = "ok"
     /\ run[r].status # "canceled"
     /\ f > 0 /\ fence[r] = f
     /\ run' = [run EXCEPT ![r] = x]
     /\ UNCHANGED fence

\* The unfenced write of the submission path: refused once anyone claimed r.
UpdateRun(r, x, res) ==
  \/ /\ res = "refused"
     /\ run[r].status = "canceled" \/ fence[r] # 0
     /\ UNCHANGED storeVars
  \/ /\ res = "ok"
     /\ run[r].status # "canceled" /\ fence[r] = 0
     /\ run' = [run EXCEPT ![r] = x]
     /\ UNCHANGED fence

CancelRun(r) ==
  /\ CanCancel(run[r])
  /\ run' = [run EXCEPT ![r] = Cancel(run[r])]
  /\ UNCHANGED fence

\* A plausible slip: the interrupted attempt stays counted.
RecoverRunKeepsAttempt(r, minimumFence, recovered) ==
  \/ /\ ~recovered
     /\ run[r].status # "running"
     /\ UNCHANGED storeVars
  \/ /\ recovered
     /\ run[r].status = "running"
     /\ fence' = [fence EXCEPT ![r] = NextFence(r, minimumFence)]
     /\ run' = [run EXCEPT ![r].status = "queued"]

RecoverRun(r, minimumFence, recovered) ==
  \/ /\ ~recovered
     /\ run[r].status # "running"
     /\ UNCHANGED storeVars
  \/ /\ recovered
     /\ run[r].status = "running"
     /\ fence' = [fence EXCEPT ![r] = NextFence(r, minimumFence)]
     /\ run' = [run EXCEPT ![r] = Requeue(run[r])]

ListPendingRuns == {<<r, run[r].status>> : r \in {q \in Run : run[q].status \in ActiveStatus}}
=============================================================================
