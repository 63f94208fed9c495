----------------------------- MODULE RunEngine -----------------------------
(***************************************************************************)
(* The execution of Runs: Engine.execute of internal/engine/engine.go, one *)
(* action per access to state another goroutine or process can change,     *)
(* composed with the Run store, its cache, the execution leases and the    *)
(* work queue.                                                             *)
(* Processes crash, shut down and restart; leases expire; calls fail with  *)
(* or without taking effect.                                               *)
(***************************************************************************)
EXTENDS RunStore

CONSTANTS
  Proc,          \* AgentMesh processes that consume work
  Worker,        \* consumer slots of all processes
  ProcOf,        \* the process of each slot
  None,          \* no Run, no slot
  MaxToken,      \* bound on the lease token sequence
  MaxMessages,   \* bound on the queue messages of one Run
  MaxFaults,     \* bound on the environment's faults
  FaultKinds     \* the faults the environment may choose

ASSUME ProcOfAssumption == ProcOf \in [Worker -> Proc]
ASSUME NoneAssumption == None \notin Run \union Worker
ASSUME BoundsAssumption ==
  /\ MaxToken \in Nat
  /\ MaxMessages \in Nat \ {0}
  /\ MaxFaults \in Nat

VARIABLES
  cache,                           \* RunCache
  lease, sequence,                 \* Coordination
  stored, unacked, window, dlq,    \* RunQueue
  reading,     \* reading[r] : the Run a GetRun that missed the cache will store there
  submission,  \* submission[r] : progress of the request that creates r
  proc,        \* proc[p] : life cycle of process p
  todo,        \* todo[p] : ListPendingRuns snapshot p still has to recover
  rpc,         \* rpc[p] : where Recover of p is with its current Run
  rrun, rtok,  \* that Run, and the token of the recovery lease
  canceling,   \* canceling[p] : Runs Cancel of p is at work on, and what it wrote last
  active,      \* active[p][r] : the slot whose cancel function Engine.active holds
  pc,          \* pc[w] : where slot w is in execute
  job, msg,    \* the Run and the message w handles
  local,       \* w's copy of the Run
  tok, fen,    \* w's lease token and execution fence
  ctxDone,     \* w's runCtx was canceled by the keeper, the watcher or Cancel
  keeperErr,   \* w's lease keeper recorded a renewal error
  outcome,     \* result of w's attempt, then of its handler
  faults       \* faults so far

INSTANCE RunCache WITH Key <- Run, Value <- RunRecord, NoEntry <- NoRunYet
INSTANCE Coordination WITH Key <- Run
INSTANCE RunQueue WITH Payload <- Run

cacheVars == <<cache, reading>>
coordVars == <<lease, sequence>>
queueVars == <<stored, unacked, window, dlq>>
procVars == <<proc, todo, rpc, rrun, rtok, canceling>>
jobVars == <<job, msg, local, tok, fen, outcome>>
workerVars == <<active, pc, job, msg, local, tok, fen, ctxDone, keeperErr, outcome>>
vars == <<run, fence, cache, reading, lease, sequence, stored, unacked, window, dlq,
          submission, proc, todo, rpc, rrun, rtok, canceling, active, pc, job, msg,
          local, tok, fen, ctxDone, keeperErr, outcome, faults>>

\* Labels of execute before the execution is registered in Engine.active, and
\* from there until the deferred clean-up; those of a persisted attempt.
UnregisteredPC == {"load", "loadfill", "redletter", "acquire", "claim", "register",
                   "release", "settle"}
RegisteredPC == {"reload", "refill", "resolve", "top", "check", "persist", "persisted",
                 "exec", "post", "postctx", "postrun", "deadletter", "backoff", "wake",
                 "wakectx", "cleanup"}
AttemptPC == {"exec", "post", "postctx", "postrun", "backoff", "wake", "wakectx"}
ExecutePC == {"idle"} \union UnregisteredPC \union RegisteredPC

Outcome == {"none", "ok", "err", "ack", "nak"}
SubmissionState == {"none", "created", "cached", "failing", "failed", "enqueued",
                    "ended"}
ProcState == {"down", "recovering", "up", "stopping"}
RecoverPC == {"idle", "recover", "invalidate", "requeued", "untouched", "enqueue"}
CancelStage == {"store", "cache"}

ReadTypeOK ==
  /\ CacheTypeOK
  /\ reading \in [Run -> RunRecord]

ProcTypeOK ==
  /\ proc \in [Proc -> ProcState]
  /\ todo \in [Proc -> SUBSET (Run \X ActiveStatus)]
  /\ rpc \in [Proc -> RecoverPC]
  /\ rrun \in [Proc -> Run \union {None}]
  /\ rtok \in [Proc -> 0..MaxToken]
  /\ canceling \in [Proc -> SUBSET (Run \X CancelStage)]

JobTypeOK ==
  /\ job \in [Worker -> Run \union {None}]
  /\ msg \in [Worker -> 0..MaxMessages]
  /\ local \in [Worker -> RunRecord]
  /\ tok \in [Worker -> 0..MaxToken]
  /\ fen \in [Worker -> Nat]
  /\ outcome \in [Worker -> Outcome]

ControlTypeOK ==
  /\ submission \in [Run -> SubmissionState]
  /\ active \in [Proc -> [Run -> Worker \union {None}]]
  /\ pc \in [Worker -> ExecutePC]
  /\ ctxDone \in [Worker -> BOOLEAN]
  /\ keeperErr \in [Worker -> BOOLEAN]
  /\ faults \in 0..MaxFaults

\* Every variable stays within its type; in particular no Run counts more
\* attempts than its limit (domain.Run.Start and Retry).
TypeOK ==
  /\ StoreTypeOK
  /\ ReadTypeOK
  /\ CoordTypeOK
  /\ QueueTypeOK
  /\ ProcTypeOK
  /\ JobTypeOK
  /\ ControlTypeOK

Init ==
  /\ StoreInit
  /\ CacheInit
  /\ CoordInit
  /\ QueueInit
  /\ reading = [r \in Run |-> NoRunYet]
  /\ submission = [r \in Run |-> "none"]
  /\ proc = [p \in Proc |-> "up"]
  /\ todo = [p \in Proc |-> {}]
  /\ rpc = [p \in Proc |-> "idle"]
  /\ rrun = [p \in Proc |-> None]
  /\ rtok = [p \in Proc |-> 0]
  /\ canceling = [p \in Proc |-> {}]
  /\ active = [p \in Proc |-> [r \in Run |-> None]]
  /\ pc = [w \in Worker |-> "idle"]
  /\ job = [w \in Worker |-> None]
  /\ msg = [w \in Worker |-> 0]
  /\ local = [w \in Worker |-> NoRunYet]
  /\ tok = [w \in Worker |-> 0]
  /\ fen = [w \in Worker |-> 0]
  /\ ctxDone = [w \in Worker |-> FALSE]
  /\ keeperErr = [w \in Worker |-> FALSE]
  /\ outcome = [w \in Worker |-> "none"]
  /\ faults = 0

Fault(kind) ==
  /\ kind \in FaultKinds
  /\ faults < MaxFaults
  /\ faults' = faults + 1

-----------------------------------------------------------------------------
(* The cache half of an operation of store.Cached.  An error of Redis is   *)
(* logged and ignored; it costs a fault unless the context is canceled.    *)

CacheFails(ctxCanceled) ==
  \/ ctxCanceled /\ UNCHANGED faults
  \/ ~ctxCanceled /\ Fault("cache")

SetEntry(r, x, ctxCanceled) ==
  \/ CacheSet(r, x) /\ UNCHANGED faults
  \/ CacheFails(ctxCanceled) /\ UNCHANGED cache

DeleteEntry(r, ctxCanceled) ==
  \/ CacheDelete(r) /\ UNCHANGED faults
  \/ CacheFails(ctxCanceled) /\ UNCHANGED cache

-----------------------------------------------------------------------------
(* Submission: createRun of the API, which creates the Run, then enqueues. *)

submissionFrame == <<reading, coordVars, procVars, workerVars>>

SubmitCreate(r) ==
  /\ submission[r] = "none"
  /\ CreateRun(r)
  /\ submission' = [submission EXCEPT ![r] = "created"]
  /\ UNCHANGED <<submissionFrame, cache, queueVars, faults>>

\* The cache writes of CreateRun and, after a failed publish, of UpdateRun.
SubmitCache(r) ==
  /\ \/ /\ submission[r] = "created"
        /\ SetEntry(r, NewRun, FALSE)
        /\ submission' = [submission EXCEPT ![r] = "cached"]
     \/ /\ submission[r] = "failed"
        /\ SetEntry(r, Fail(NewRun), FALSE)
        /\ submission' = [submission EXCEPT ![r] = "ended"]
  /\ UNCHANGED <<submissionFrame, storeVars, queueVars>>

SubmitEnqueue(r) ==
  /\ submission[r] = "cached"
  /\ Enqueue(r)
  /\ submission' = [submission EXCEPT ![r] = "enqueued"]
  /\ UNCHANGED <<submissionFrame, storeVars, cache, faults>>

\* The publish reports an error; the message may have been stored all the same.
SubmitEnqueueError(r) ==
  /\ submission[r] = "cached"
  /\ Fault("call")
  /\ Enqueue(r) \/ UNCHANGED queueVars
  /\ submission' = [submission EXCEPT ![r] = "failing"]
  /\ UNCHANGED <<submissionFrame, storeVars, cache>>

SubmitFail(r) ==
  /\ submission[r] = "failing"
  /\ \/ /\ UpdateRun(r, Fail(NewRun), "ok")
        /\ submission' = [submission EXCEPT ![r] = "failed"]
        /\ UNCHANGED <<cache, faults>>
     \/ /\ UpdateRun(r, Fail(NewRun), "refused")
        /\ DeleteEntry(r, FALSE)
        /\ submission' = [submission EXCEPT ![r] = "ended"]
  /\ UNCHANGED <<submissionFrame, queueVars>>

\* The API process dies between two steps of the request, or the write that
\* would fail the Run errs.
SubmitAbandon(r) ==
  /\ \/ submission[r] \in {"created", "cached", "failing", "failed"} /\ Fault("crash")
     \/ submission[r] = "failing" /\ Fault("call")
  /\ submission' = [submission EXCEPT ![r] = "ended"]
  /\ UNCHANGED <<submissionFrame, storeVars, cache, queueVars>>

-----------------------------------------------------------------------------
(* Engine.execute, the handler of one delivered message.                   *)

\* The frame of a step of w that only moves w.
localFrame ==
  <<storeVars, cacheVars, coordVars, queueVars, submission, procVars, faults>>

Goto(w, to) == pc' = [pc EXCEPT ![w] = to]

\* execute returns: nil is "ack", an error "nak"; `to` is the clean-up that is
\* deferred at this point.
Return(w, to, verdict) ==
  /\ Goto(w, to)
  /\ outcome' = [outcome EXCEPT ![w] = verdict]

Stopping(w) == proc[ProcOf[w]] = "stopping"

\* runCtx is a child of the process context.
RunCtxDone(w) == ctxDone[w] \/ Stopping(w)

\* The consumer may still hand out a message after the context was canceled:
\* its select picks between a free slot and ctx.Done at random.
Deliver(w, r, m) ==
  /\ pc[w] = "idle"
  /\ proc[ProcOf[w]] \in {"up", "stopping"}
  /\ m \in unacked[r]
  /\ Goto(w, "load")
  /\ job' = [job EXCEPT ![w] = r]
  /\ msg' = [msg EXCEPT ![w] = m]
  /\ UNCHANGED <<localFrame, active, local, tok, fen, ctxDone, keeperErr, outcome>>

\* A plausible slip: every finished Run is dead-lettered.
DispatchDeadLettersFinished(w, x) ==
  /\ \/ x.status \in TerminalStatus /\ Goto(w, "redletter")
     \/ x.status \in ActiveStatus /\ Goto(w, "acquire")
  /\ UNCHANGED outcome

\* A plausible slip: a running Run is taken for one somebody else handles.
DispatchSkipsRunning(w, x) ==
  \/ x.status \in TerminalStatus \union {"running"} /\ Return(w, "settle", "ack")
  \/ x.status = "queued" /\ Goto(w, "acquire") /\ UNCHANGED outcome

\* What execute does with a delivered Run that GetRun says is x.
Dispatch(w, x) ==
  \/ x.status \in {"succeeded", "canceled"} /\ Return(w, "settle", "ack")
  \/ x.status = "failed" /\ Goto(w, "redletter") /\ UNCHANGED outcome
  \/ x.status \in ActiveStatus /\ Goto(w, "acquire") /\ UNCHANGED outcome

\* GetRun goes past the cache: there is no entry, or Redis does not answer.
Miss(w) ==
  \/ ~Hit(job[w]) /\ UNCHANGED faults
  \/ Hit(job[w]) /\ CacheFails(Stopping(w))

Load(w) ==
  /\ pc[w] = "load"
  /\ \/ /\ Hit(job[w])
        /\ Dispatch(w, cache[job[w]])
        /\ UNCHANGED <<local, faults>>
     \/ /\ Miss(w)
        /\ local' = [local EXCEPT ![w] = run[job[w]]]
        /\ Goto(w, "loadfill")
        /\ UNCHANGED outcome
  /\ UNCHANGED <<storeVars, cacheVars, coordVars, queueVars, submission, procVars,
                 active, job, msg, tok, fen, ctxDone, keeperErr>>

LoadFill(w) ==
  /\ pc[w] = "loadfill"
  /\ SetEntry(job[w], local[w], Stopping(w))
  /\ Dispatch(w, local[w])
  /\ local' = [local EXCEPT ![w] = NoRunYet]
  /\ UNCHANGED <<storeVars, reading, coordVars, queueVars, submission, procVars,
                 active, job, msg, tok, fen, ctxDone, keeperErr>>

Acquire(w) ==
  /\ pc[w] = "acquire"
  /\ \/ /\ \E token \in 1..MaxToken :
             /\ AcquireLease(job[w], token)
             /\ tok' = [tok EXCEPT ![w] = token]
        /\ Goto(w, "claim")
        /\ UNCHANGED outcome
     \/ /\ LeaseBusy(job[w])
        /\ Return(w, "settle", "nak")
        /\ UNCHANGED <<coordVars, tok>>
  /\ UNCHANGED <<storeVars, cacheVars, queueVars, submission, procVars, faults,
                 active, job, msg, local, fen, ctxDone, keeperErr>>

\* A refused claim also drops the cached Run.
Claim(w) ==
  /\ pc[w] = "claim"
  /\ \/ /\ ClaimRunExecution(job[w], tok[w], "ok")
        /\ fen' = [fen EXCEPT ![w] = NextFence(job[w], tok[w])]
        /\ Goto(w, "register")
        /\ UNCHANGED <<outcome, cache, faults>>
     \/ /\ \E res \in {"canceled", "not_executable"} :
             ClaimRunExecution(job[w], tok[w], res)
        /\ DeleteEntry(job[w], Stopping(w))
        /\ Return(w, "release", "ack")
        /\ UNCHANGED fen
  /\ UNCHANGED <<reading, coordVars, queueVars, submission, procVars,
                 active, job, msg, local, tok, ctxDone, keeperErr>>

\* A plausible slip: the cancel function is not registered.
RegisterNothing(w) ==
  /\ pc[w] = "register"
  /\ Goto(w, "reload")
  /\ UNCHANGED <<localFrame, active, jobVars, ctxDone, keeperErr>>

\* The cancel function goes into Engine.active; watcher and keeper start.
Register(w) ==
  /\ pc[w] = "register"
  /\ active' = [active EXCEPT ![ProcOf[w]] = [@ EXCEPT ![job[w]] = w]]
  /\ Goto(w, "reload")
  /\ UNCHANGED <<localFrame, jobVars, ctxDone, keeperErr>>

\* execute goes on with x, what the second GetRun returned.
Continue(w, x) ==
  \/ x.status = "canceled" /\ Return(w, "cleanup", "ack")
  \/ x.status # "canceled" /\ Goto(w, "resolve") /\ UNCHANGED outcome

Reload(w) ==
  /\ pc[w] = "reload"
  /\ \/ /\ Hit(job[w])
        /\ local' = [local EXCEPT ![w] = cache[job[w]]]
        /\ Continue(w, cache[job[w]])
        /\ UNCHANGED faults
     \/ /\ Miss(w)
        /\ local' = [local EXCEPT ![w] = run[job[w]]]
        /\ Goto(w, "refill")
        /\ UNCHANGED outcome
  /\ UNCHANGED <<storeVars, cacheVars, coordVars, queueVars, submission, procVars,
                 active, job, msg, tok, fen, ctxDone, keeperErr>>

ReloadFill(w) ==
  /\ pc[w] = "refill"
  /\ SetEntry(job[w], local[w], Stopping(w))
  /\ Continue(w, local[w])
  /\ UNCHANGED <<storeVars, reading, coordVars, queueVars, submission, procVars,
                 active, job, msg, local, tok, fen, ctxDone, keeperErr>>

\* failRun's in-memory half: an error if the copy is already terminal.
FailLocal(w) ==
  \/ /\ CanFail(local[w])
     /\ local' = [local EXCEPT ![w] = Fail(local[w])]
     /\ Goto(w, "persist")
     /\ UNCHANGED outcome
  \/ /\ ~CanFail(local[w])
     /\ Return(w, "cleanup", "nak")
     /\ UNCHANGED local

\* GetAgent and Resolve: any error of either fails the Run.
Resolve(w) ==
  /\ pc[w] = "resolve"
  /\ \/ Goto(w, "top") /\ UNCHANGED <<local, outcome>>
     \/ FailLocal(w)
  /\ UNCHANGED <<localFrame, active, job, msg, tok, fen, ctxDone, keeperErr>>

\* leaseRenewalError at label `from`.
CheckLease(w, from, to) ==
  /\ pc[w] = from
  /\ \/ keeperErr[w] /\ Return(w, "cleanup", "nak")
     \/ ~keeperErr[w] /\ Goto(w, to) /\ UNCHANGED outcome
  /\ UNCHANGED <<localFrame, active, job, msg, local, tok, fen, ctxDone, keeperErr>>

BeginAttempt(w) ==
  /\ pc[w] = "check"
  /\ \/ /\ RunCtxDone(w)
        /\ Return(w, "cleanup", "ack")
        /\ UNCHANGED local
     \/ /\ ~RunCtxDone(w)
        /\ \/ /\ CanStart(local[w])
              /\ local' = [local EXCEPT ![w] = Start(local[w])]
              /\ Goto(w, "persist")
              /\ UNCHANGED outcome
           \/ /\ CanRetry(local[w])
              /\ local' = [local EXCEPT ![w] = Retry(local[w])]
              /\ Goto(w, "persist")
              /\ UNCHANGED outcome
           \/ /\ ~CanStart(local[w]) /\ ~CanRetry(local[w])
              /\ Return(w, "cleanup", "nak")
              /\ UNCHANGED local
  /\ UNCHANGED <<localFrame, active, job, msg, tok, fen, ctxDone, keeperErr>>

\* A plausible slip: the copy is cached although its write was refused.
PersistCachesRefused(w) ==
  /\ pc[w] = "persist"
  /\ \/ /\ UpdateRunFenced(job[w], local[w], fen[w], "ok")
        /\ Goto(w, "persisted")
        /\ UNCHANGED <<outcome, cache, faults>>
     \/ /\ \E res \in {"canceled", "stale"} :
             /\ UpdateRunFenced(job[w], local[w], fen[w], res)
             /\ Return(w, "cleanup", IF res = "canceled" THEN "ack" ELSE "nak")
        /\ SetEntry(job[w], local[w], Stopping(w))
  /\ UNCHANGED <<reading, coordVars, queueVars, submission, procVars,
                 active, job, msg, local, tok, fen, ctxDone, keeperErr>>

\* UpdateRunFenced of w's copy: an attempt that starts, a success or a
\* failure.  A refused write drops the cached Run.
Persist(w) ==
  /\ pc[w] = "persist"
  /\ \/ /\ UpdateRunFenced(job[w], local[w], fen[w], "ok")
        /\ Goto(w, "persisted")
        /\ UNCHANGED <<outcome, cache, faults>>
     \/ /\ UpdateRunFenced(job[w], local[w], fen[w], "canceled")
        /\ DeleteEntry(job[w], Stopping(w))
        /\ Return(w, "cleanup", "ack")
     \/ /\ UpdateRunFenced(job[w], local[w], fen[w], "stale")
        /\ DeleteEntry(job[w], Stopping(w))
        /\ Return(w, "cleanup", "nak")
  /\ UNCHANGED <<reading, coordVars, queueVars, submission, procVars,
                 active, job, msg, local, tok, fen, ctxDone, keeperErr>>

\* The written copy is cached, and execute goes on with what it wrote.
PersistCache(w) ==
  /\ pc[w] = "persisted"
  /\ SetEntry(job[w], local[w], Stopping(w))
  /\ \/ local[w].status = "running" /\ Return(w, "exec", "none")
     \/ local[w].status = "succeeded" /\ Return(w, "cleanup", "ack")
     \/ local[w].status = "failed" /\ Return(w, "deadletter", "none")
  /\ UNCHANGED <<storeVars, reading, coordVars, queueVars, submission, procVars,
                 active, job, msg, local, tok, fen, ctxDone, keeperErr>>

\* The runtime returns a result, an error, a timeout or a recovered panic; it
\* may do so although its context was canceled.
Execute(w) ==
  /\ pc[w] = "exec"
  /\ \E o \in {"ok", "err"} : Return(w, "post", o)
  /\ UNCHANGED <<localFrame, active, job, msg, local, tok, fen, ctxDone, keeperErr>>

CheckCtx(w) ==
  /\ pc[w] = "postctx"
  /\ \/ Stopping(w) /\ Return(w, "cleanup", "nak")
     \/ ~Stopping(w) /\ Goto(w, "postrun") /\ UNCHANGED outcome
  /\ UNCHANGED <<localFrame, active, job, msg, local, tok, fen, ctxDone, keeperErr>>

AfterAttempt(w) ==
  /\ pc[w] = "postrun"
  /\ \/ /\ RunCtxDone(w)
        /\ Return(w, "cleanup", "ack")
        /\ UNCHANGED local
     \/ /\ ~RunCtxDone(w)
        /\ outcome[w] = "ok"
        /\ local' = [local EXCEPT ![w] = Succeed(local[w])]
        /\ Goto(w, "persist")
        /\ UNCHANGED outcome
     \/ /\ ~RunCtxDone(w)
        /\ outcome[w] = "err"
        /\ local[w].attempt >= MaxAttempts
        /\ FailLocal(w)
     \/ /\ ~RunCtxDone(w)
        /\ outcome[w] = "err"
        /\ local[w].attempt < MaxAttempts
        /\ Goto(w, "backoff")
        /\ UNCHANGED <<local, outcome>>
  /\ UNCHANGED <<localFrame, active, job, msg, tok, fen, ctxDone, keeperErr>>

\* The select between the retry timer and runCtx.
Backoff(w) ==
  /\ pc[w] = "backoff"
  /\ \/ Return(w, "top", "none")
     \/ RunCtxDone(w) /\ Return(w, "wake", "none")
  /\ UNCHANGED <<localFrame, active, job, msg, local, tok, fen, ctxDone, keeperErr>>

WakeCtx(w) ==
  /\ pc[w] = "wakectx"
  /\ \/ Stopping(w) /\ Return(w, "cleanup", "nak")
     \/ ~Stopping(w) /\ Return(w, "cleanup", "ack")
  /\ UNCHANGED <<localFrame, active, job, msg, local, tok, fen, ctxDone, keeperErr>>

\* A plausible slip: a duplicate dead letter is reported as an error.
DeadLetterOnce(w, from, to) ==
  /\ pc[w] = from
  /\ PublishDeadLetter(job[w])
  /\ Return(w, to, IF job[w] \in dlq THEN "nak" ELSE "ack")
  /\ UNCHANGED <<storeVars, cacheVars, coordVars, submission, procVars, faults,
                 active, job, msg, local, tok, fen, ctxDone, keeperErr>>

\* DeadLetter, after failRun or for a Run found failed on delivery.
DeadLetter(w, from, to) ==
  /\ pc[w] = from
  /\ PublishDeadLetter(job[w])
  /\ Return(w, to, "ack")
  /\ UNCHANGED <<storeVars, cacheVars, coordVars, submission, procVars, faults,
                 active, job, msg, local, tok, fen, ctxDone, keeperErr>>

\* A plausible slip: the entry of Engine.active stays.
CleanupKeepsEntry(w) ==
  /\ pc[w] = "cleanup"
  /\ Goto(w, "settle")
  /\ ReleaseLease(job[w], tok[w])
  /\ UNCHANGED <<storeVars, cacheVars, queueVars, submission, procVars, faults, jobVars,
                 active, ctxDone, keeperErr>>

\* A plausible slip: the lease is released with the process context.
CleanupWithContext(w) ==
  /\ pc[w] = "cleanup"
  /\ Goto(w, "settle")
  /\ active' = [active EXCEPT ![ProcOf[w]] = [@ EXCEPT ![job[w]] = None]]
  /\ IF Stopping(w) THEN UNCHANGED coordVars ELSE ReleaseLease(job[w], tok[w])
  /\ UNCHANGED <<storeVars, cacheVars, queueVars, submission, procVars, faults, jobVars,
                 ctxDone, keeperErr>>

\* The deferred functions: stop the keeper and the watcher, delete the entry
\* of the Run in Engine.active, whoever put it there, and release the lease.
Cleanup(w) ==
  /\ pc[w] = "cleanup"
  /\ Goto(w, "settle")
  /\ active' = [active EXCEPT ![ProcOf[w]] = [@ EXCEPT ![job[w]] = None]]
  /\ ReleaseLease(job[w], tok[w])
  /\ UNCHANGED <<storeVars, cacheVars, queueVars, submission, procVars, faults, jobVars,
                 ctxDone, keeperErr>>

\* The same before the execution was registered.
Release(w) ==
  /\ pc[w] = "release"
  /\ Goto(w, "settle")
  /\ ReleaseLease(job[w], tok[w])
  /\ UNCHANGED <<storeVars, cacheVars, queueVars, submission, procVars, faults, jobVars,
                 active, ctxDone, keeperErr>>

\* Every slot of W is free again.
ResetWorkers(W) ==
  /\ pc' = [w \in Worker |-> IF w \in W THEN "idle" ELSE pc[w]]
  /\ job' = [w \in Worker |-> IF w \in W THEN None ELSE job[w]]
  /\ msg' = [w \in Worker |-> IF w \in W THEN 0 ELSE msg[w]]
  /\ local' = [w \in Worker |-> IF w \in W THEN NoRunYet ELSE local[w]]
  /\ tok' = [w \in Worker |-> IF w \in W THEN 0 ELSE tok[w]]
  /\ fen' = [w \in Worker |-> IF w \in W THEN 0 ELSE fen[w]]
  /\ ctxDone' = [w \in Worker |-> IF w \in W THEN FALSE ELSE ctxDone[w]]
  /\ keeperErr' = [w \in Worker |-> IF w \in W THEN FALSE ELSE keeperErr[w]]
  /\ outcome' = [w \in Worker |-> IF w \in W THEN "none" ELSE outcome[w]]

\* The consumer acknowledges a nil, leaves the message unacknowledged on an
\* error; DoubleAck's own error is ignored.
Settle(w) ==
  /\ pc[w] = "settle"
  /\ \/ outcome[w] = "ack" /\ DoubleAck(job[w], msg[w]) /\ UNCHANGED faults
     \/ outcome[w] = "ack" /\ Fault("call") /\ UNCHANGED queueVars
     \/ outcome[w] = "nak" /\ UNCHANGED <<queueVars, faults>>
  /\ ResetWorkers({w})
  /\ UNCHANGED <<storeVars, cacheVars, coordVars, submission, procVars, active>>

-----------------------------------------------------------------------------
(* Goroutines beside execute, and calls that fail.                         *)

\* startLeaseKeeper: a renewal finds another token or none, or Redis does not
\* answer; the error is recorded, then runCtx is canceled.
RenewFails(w) ==
  /\ pc[w] \in RegisteredPC
  /\ ~keeperErr[w] /\ ~Stopping(w)
  /\ \/ ~LeaseHeldBy(job[w], tok[w]) /\ UNCHANGED faults
     \/ LeaseHeldBy(job[w], tok[w]) /\ Fault("renew")
  /\ keeperErr' = [keeperErr EXCEPT ![w] = TRUE]
  /\ ctxDone' = [ctxDone EXCEPT ![w] = TRUE]
  /\ UNCHANGED <<storeVars, cacheVars, coordVars, queueVars, submission, procVars,
                 active, pc, jobVars>>

\* watchCancellation: the run.canceled event or the persisted-state poll.
ObserveCancel(w) ==
  /\ pc[w] \in RegisteredPC
  /\ ~ctxDone[w]
  /\ run[job[w]].status = "canceled"
  /\ ctxDone' = [ctxDone EXCEPT ![w] = TRUE]
  /\ UNCHANGED <<localFrame, active, pc, jobVars, keeperErr>>

\* A plausible slip: an error is logged and swallowed.
ErrorReturnSwallowed(w) ==
  \/ pc[w] \in {"load", "redletter", "acquire"} /\ Return(w, "settle", "ack")
  \/ pc[w] = "claim" /\ Return(w, "release", "ack")
  \/ pc[w] \in {"reload", "persist", "deadletter"} /\ Return(w, "cleanup", "ack")

\* Where execute goes when the call it is making returns an error.
ErrorReturn(w) ==
  \/ pc[w] \in {"load", "redletter", "acquire"} /\ Return(w, "settle", "nak")
  \/ pc[w] = "claim" /\ Return(w, "release", "nak")
  \/ pc[w] \in {"reload", "persist", "deadletter"} /\ Return(w, "cleanup", "nak")

\* A call fails before it takes effect; with a canceled context it costs no
\* fault.  What a failed claim drops from the cache, ExpireEntry may drop.
CallFails(w) ==
  /\ \/ Stopping(w) /\ UNCHANGED faults
     \/ ~Stopping(w) /\ Fault("call")
  /\ ErrorReturn(w)
  /\ UNCHANGED <<storeVars, cacheVars, coordVars, queueVars, submission, procVars,
                 active, job, msg, local, tok, fen, ctxDone, keeperErr>>

\* A call takes effect and its answer is lost.
AnswerLost(w) ==
  /\ Fault("call")
  /\ ErrorReturn(w)
  /\ \/ /\ pc[w] = "acquire"
        /\ \E token \in 1..MaxToken : AcquireLease(job[w], token)
        /\ UNCHANGED <<storeVars, queueVars>>
     \/ /\ pc[w] = "claim"
        /\ ClaimRunExecution(job[w], tok[w], "ok")
        /\ UNCHANGED <<coordVars, queueVars>>
     \/ /\ pc[w] = "persist"
        /\ UpdateRunFenced(job[w], local[w], fen[w], "ok")
        /\ UNCHANGED <<coordVars, queueVars>>
     \/ /\ pc[w] \in {"deadletter", "redletter"}
        /\ PublishDeadLetter(job[w])
        /\ UNCHANGED <<storeVars, coordVars>>
  /\ UNCHANGED <<cacheVars, submission, procVars, active, job, msg, local, tok, fen,
                 ctxDone, keeperErr>>

\* releaseLease fails: logged, and the lease is left to its TTL.
ReleaseFails(w) ==
  /\ Fault("call")
  /\ \/ /\ pc[w] = "cleanup"
        /\ active' = [active EXCEPT ![ProcOf[w]] = [@ EXCEPT ![job[w]] = None]]
     \/ pc[w] = "release" /\ UNCHANGED active
  /\ Goto(w, "settle")
  /\ UNCHANGED <<storeVars, cacheVars, coordVars, queueVars, submission, procVars,
                 jobVars, ctxDone, keeperErr>>

-----------------------------------------------------------------------------
(* Engine.Cancel, called by the API of process p: the store, its cache,    *)
(* then the cancel function this process has registered for the Run.       *)

CancelRequest(p, r) ==
  /\ proc[p] \in {"up", "stopping"}
  /\ CancelRun(r)
  /\ canceling' = [canceling EXCEPT ![p] = @ \union {<<r, "store">>}]
  /\ UNCHANGED <<cacheVars, coordVars, queueVars, submission, proc, todo, rpc, rrun,
                 rtok, workerVars, faults>>

CancelCache(p, r) ==
  /\ <<r, "store">> \in canceling[p]
  /\ SetEntry(r, run[r], FALSE)
  /\ canceling' =
       [canceling EXCEPT ![p] = (@ \ {<<r, "store">>}) \union {<<r, "cache">>}]
  /\ UNCHANGED <<storeVars, reading, coordVars, queueVars, submission, proc, todo, rpc,
                 rrun, rtok, workerVars>>

CancelExecution(p, r) ==
  /\ <<r, "cache">> \in canceling[p]
  /\ canceling' = [canceling EXCEPT ![p] = @ \ {<<r, "cache">>}]
  /\ ctxDone' = [w \in Worker |-> ctxDone[w] \/ active[p][r] = w]
  /\ UNCHANGED <<storeVars, cacheVars, coordVars, queueVars, submission, proc, todo,
                 rpc, rrun, rtok, faults, active, pc, jobVars, keeperErr>>

\* A Run that is already finished is not canceled, and cached as it is.
CancelRefused(p, r) ==
  /\ proc[p] \in {"up", "stopping"}
  /\ run[r].status \in TerminalStatus
  /\ CacheSet(r, run[r])
  /\ UNCHANGED <<storeVars, reading, coordVars, queueVars, submission, procVars,
                 workerVars, faults>>

-----------------------------------------------------------------------------
(* Engine.Recover, once per start of a process and before it consumes.     *)

SlotsOf(p) == {w \in Worker : ProcOf[w] = p}

StartProcess(p) ==
  /\ proc[p] = "down"
  /\ proc' = [proc EXCEPT ![p] = "recovering"]
  /\ todo' = [todo EXCEPT ![p] = ListPendingRuns]
  /\ UNCHANGED <<storeVars, cacheVars, coordVars, queueVars, submission, rpc, rrun,
                 rtok, canceling, workerVars, faults>>

RecoverQueued(p, r) ==
  /\ proc[p] = "recovering" /\ rpc[p] = "idle"
  /\ <<r, "queued">> \in todo[p]
  /\ Enqueue(r)
  /\ todo' = [todo EXCEPT ![p] = @ \ {<<r, "queued">>}]
  /\ UNCHANGED <<storeVars, cacheVars, coordVars, submission, proc, rpc, rrun, rtok,
                 canceling, workerVars, faults>>

RecoverAcquire(p, r) ==
  /\ proc[p] = "recovering" /\ rpc[p] = "idle"
  /\ <<r, "running">> \in todo[p]
  /\ todo' = [todo EXCEPT ![p] = @ \ {<<r, "running">>}]
  /\ \/ /\ \E token \in 1..MaxToken :
             /\ AcquireLease(r, token)
             /\ rtok' = [rtok EXCEPT ![p] = token]
        /\ rpc' = [rpc EXCEPT ![p] = "recover"]
        /\ rrun' = [rrun EXCEPT ![p] = r]
     \/ /\ LeaseBusy(r)
        /\ UNCHANGED <<coordVars, rpc, rrun, rtok>>
  /\ UNCHANGED <<storeVars, cacheVars, queueVars, submission, proc, canceling,
                 workerVars, faults>>

RecoverReset(p) ==
  /\ rpc[p] = "recover"
  /\ \/ /\ RecoverRun(rrun[p], rtok[p], TRUE)
        /\ rpc' = [rpc EXCEPT ![p] = "invalidate"]
     \/ /\ RecoverRun(rrun[p], rtok[p], FALSE)
        /\ rpc' = [rpc EXCEPT ![p] = "untouched"]
  /\ UNCHANGED <<cacheVars, coordVars, queueVars, submission, proc, todo, rrun, rtok,
                 canceling, workerVars, faults>>

RecoverInvalidate(p) ==
  /\ rpc[p] = "invalidate"
  /\ DeleteEntry(rrun[p], FALSE)
  /\ rpc' = [rpc EXCEPT ![p] = "requeued"]
  /\ UNCHANGED <<storeVars, reading, coordVars, queueVars, submission, proc, todo, rrun,
                 rtok, canceling, workerVars>>

RecoverRelease(p) ==
  /\ rpc[p] \in {"requeued", "untouched"}
  /\ ReleaseLease(rrun[p], rtok[p])
  /\ rpc' = [rpc EXCEPT ![p] = IF rpc[p] = "requeued" THEN "enqueue" ELSE "idle"]
  /\ rtok' = [rtok EXCEPT ![p] = 0]
  /\ rrun' = [rrun EXCEPT ![p] = IF rpc[p] = "requeued" THEN @ ELSE None]
  /\ UNCHANGED <<storeVars, cacheVars, queueVars, submission, proc, todo, canceling,
                 workerVars, faults>>

RecoverEnqueue(p) ==
  /\ rpc[p] = "enqueue"
  /\ Enqueue(rrun[p])
  /\ rpc' = [rpc EXCEPT ![p] = "idle"]
  /\ rrun' = [rrun EXCEPT ![p] = None]
  /\ UNCHANGED <<storeVars, cacheVars, coordVars, submission, proc, todo, rtok,
                 canceling, workerVars, faults>>

RecoverDone(p) ==
  /\ proc[p] = "recovering" /\ rpc[p] = "idle" /\ todo[p] = {}
  /\ proc' = [proc EXCEPT ![p] = "up"]
  /\ UNCHANGED <<storeVars, cacheVars, coordVars, queueVars, submission, todo, rpc,
                 rrun, rtok, canceling, workerVars, faults>>

\* A signal cancels the process context; handlers run to their end.
Shutdown(p) ==
  /\ proc[p] = "up"
  /\ Fault("shutdown")
  /\ proc' = [proc EXCEPT ![p] = "stopping"]
  /\ UNCHANGED <<storeVars, cacheVars, coordVars, queueVars, submission, todo, rpc,
                 rrun, rtok, canceling, workerVars>>

StopProcess(p) ==
  /\ proc[p] = "stopping"
  /\ \A w \in SlotsOf(p) : pc[w] = "idle"
  /\ proc' = [proc EXCEPT ![p] = "down"]
  /\ canceling' = [canceling EXCEPT ![p] = {}]
  /\ UNCHANGED <<storeVars, cacheVars, coordVars, queueVars, submission, todo, rpc,
                 rrun, rtok, workerVars, faults>>

\* A crash, or os.Exit on a recovery error: leases and messages stay behind.
Crash(p) ==
  /\ proc[p] # "down"
  /\ Fault("crash")
  /\ proc' = [proc EXCEPT ![p] = "down"]
  /\ canceling' = [canceling EXCEPT ![p] = {}]
  /\ todo' = [todo EXCEPT ![p] = {}]
  /\ rpc' = [rpc EXCEPT ![p] = "idle"]
  /\ rrun' = [rrun EXCEPT ![p] = None]
  /\ rtok' = [rtok EXCEPT ![p] = 0]
  /\ active' = [active EXCEPT ![p] = [r \in Run |-> None]]
  /\ ResetWorkers(SlotsOf(p))
  /\ UNCHANGED <<storeVars, cacheVars, coordVars, queueVars, submission>>

-----------------------------------------------------------------------------
(* The environment of the processes.                                       *)

\* Someone alive holds the lease of r and keeps it: a keeper stops renewing
\* after an error and when its process stops.
LeaseHasHolder(r) ==
  \/ \E w \in Worker :
       /\ job[w] = r /\ tok[w] = lease[r] /\ pc[w] # "settle"
       /\ ~keeperErr[w] /\ ~Stopping(w)
  \/ \E p \in Proc : rrun[p] = r /\ rtok[p] = lease[r]

\* The TTL of an abandoned lease passes; that of a held one only when its
\* holder is paused for longer than the TTL.
ExpireLease(r) ==
  /\ \/ ~LeaseHasHolder(r) /\ UNCHANGED faults
     \/ LeaseHasHolder(r) /\ Fault("pause")
  /\ ExpireKey(r)
  /\ UNCHANGED <<storeVars, cacheVars, queueVars, submission, procVars, workerVars>>

\* Redis comes back from a snapshot older than the cache's TTL.
RestoreCoordinator ==
  /\ Fault("restore")
  /\ RestoreOlderSequence
  /\ cache' = [r \in Run |-> NoRunYet]
  /\ UNCHANGED <<storeVars, reading, queueVars, submission, procVars, workerVars>>

ForgetMessageID(r) ==
  /\ CloseWindow(r)
  /\ UNCHANGED <<storeVars, cacheVars, coordVars, submission, procVars, workerVars,
                 faults>>

\* The TTL of a cached Run passes.
ExpireEntry(r) ==
  /\ Hit(r)
  /\ CacheDelete(r)
  /\ UNCHANGED <<storeVars, reading, coordVars, queueVars, submission, procVars,
                 workerVars, faults>>

\* GetRun of the API, a watcher or the workflow manager misses the cache and
\* reads the Run; later it stores what it read.
ReadMiss(r) ==
  /\ run[r] # NoRunYet /\ reading[r] = NoRunYet
  /\ ~Hit(r)
  /\ Fault("read")
  /\ reading' = [reading EXCEPT ![r] = run[r]]
  /\ UNCHANGED <<storeVars, cache, coordVars, queueVars, submission, procVars,
                 workerVars>>

ReadFill(r) ==
  /\ reading[r] # NoRunYet
  /\ CacheSet(r, reading[r])
  /\ reading' = [reading EXCEPT ![r] = NoRunYet]
  /\ UNCHANGED <<storeVars, coordVars, queueVars, submission, procVars, workerVars,
                 faults>>

-----------------------------------------------------------------------------
Submit(r) ==
  \/ SubmitCreate(r)
  \/ SubmitCache(r)
  \/ SubmitEnqueue(r)
  \/ SubmitEnqueueError(r)
  \/ SubmitFail(r)
  \/ SubmitAbandon(r)

\* A step of execute itself.
WorkerStep(w) ==
  \/ Load(w)
  \/ LoadFill(w)
  \/ Acquire(w)
  \/ Claim(w)
  \/ Register(w)
  \/ Reload(w)
  \/ ReloadFill(w)
  \/ Resolve(w)
  \/ CheckLease(w, "top", "check")
  \/ BeginAttempt(w)
  \/ Persist(w)
  \/ PersistCache(w)
  \/ Execute(w)
  \/ CheckLease(w, "post", "postctx")
  \/ CheckCtx(w)
  \/ AfterAttempt(w)
  \/ DeadLetter(w, "deadletter", "cleanup")
  \/ DeadLetter(w, "redletter", "settle")
  \/ Backoff(w)
  \/ CheckLease(w, "wake", "wakectx")
  \/ WakeCtx(w)
  \/ Cleanup(w)
  \/ Release(w)
  \/ Settle(w)

WorkerFault(w) ==
  \/ RenewFails(w)
  \/ ObserveCancel(w)
  \/ CallFails(w)
  \/ AnswerLost(w)
  \/ ReleaseFails(w)

RecoverStep(p) ==
  \/ \E r \in Run : RecoverQueued(p, r) \/ RecoverAcquire(p, r)
  \/ RecoverReset(p)
  \/ RecoverInvalidate(p)
  \/ RecoverRelease(p)
  \/ RecoverEnqueue(p)
  \/ RecoverDone(p)

ProcStep(p) ==
  \/ \E r \in Run :
       \/ CancelRequest(p, r)
       \/ CancelCache(p, r)
       \/ CancelExecution(p, r)
       \/ CancelRefused(p, r)
  \/ StartProcess(p)
  \/ RecoverStep(p)
  \/ Shutdown(p)
  \/ StopProcess(p)
  \/ Crash(p)

Environment ==
  \/ \E r \in Run :
       \/ ExpireLease(r)
       \/ ForgetMessageID(r)
       \/ ExpireEntry(r)
       \/ ReadMiss(r)
       \/ ReadFill(r)
  \/ RestoreCoordinator

Next ==
  \/ \E r \in Run : Submit(r)
  \/ \E w \in Worker :
       \/ \E r \in Run, m \in 1..MaxMessages : Deliver(w, r, m)
       \/ WorkerStep(w)
       \/ WorkerFault(w)
  \/ \E p \in Proc : ProcStep(p)
  \/ Environment

Spec == Init /\ [][Next]_vars
=============================================================================
