------------------------ MODULE RunEngineProperties ------------------------
(***************************************************************************)
(* What RunEngine guarantees: safety, the inductive invariant behind it,   *)
(* and progress under fair scheduling.                                     *)
(***************************************************************************)
EXTENDS RunEngine

\* Slot w has claimed an execution of the Run it handles.
Claimed(w) == fen[w] > 0

\* w's claim has not been superseded by a later claim or recovery.
Current(w) == Claimed(w) /\ fen[w] = fence[job[w]]

\* A finished Run never changes again: not by a redelivery, a worker that
\* lost its lease, a recovery, or the API failing a submission whose publish
\* seemed to fail (UpdateRunFenced, UpdateRun, RecoverRun, CancelRun).
TerminalIsFinal ==
  [][\A r \in Run : run[r].status \in TerminalStatus => run'[r] = run[r]]_vars

\* No two executions of a Run hold the same fence, even when Redis hands out
\* an old token again: ClaimRunExecution goes above the stored fence.
FencesAreUnique ==
  \A w1, w2 \in Worker :
    (w1 # w2 /\ Claimed(w1) /\ Claimed(w2) /\ job[w1] = job[w2]) => fen[w1] # fen[w2]

\* How w's copy relates to x, the Run in the store.
CopyFollows(w, x) ==
  /\ pc[w] \in AttemptPC => local[w] = x /\ x.status = "running"
  /\ pc[w] = "persisted" => local[w] = x
  /\ pc[w] = "persist" /\ local[w].status = "succeeded"
       => CanSucceed(x) /\ local[w] = Succeed(x)
  /\ pc[w] \in {"register", "reload", "refill", "resolve", "top", "check", "persist"}
       => x.status \in ActiveStatus

InSync(w) ==
  (Current(w) /\ run[job[w]].status # "canceled") => CopyFollows(w, run[job[w]])

\* As long as its fence is current and nobody canceled the Run, the store
\* holds exactly what an execution last wrote to it, and an unfinished Run
\* before its first write: its unconditional full-row writes never undo the
\* work of another, although the copy it began with may come from the cache.
CurrentExecutorIsInSync == \A w \in Worker : InSync(w)

\* The cache may be behind, but a finished Run in it is the one in the store:
\* a message is never acknowledged, and a Run never dead-lettered, on the word
\* of an entry that is wrong about the Run being finished.
CachedTerminalIsStored ==
  \A r \in Run : cache[r].status \in TerminalStatus => run[r] = cache[r]

\* A dead letter is only ever written for a Run that has failed, and stays
\* true of it: an operator replaying the DLQ never replays a succeeded or a
\* canceled Run.
DeadLettersHaveFailed == \A r \in dlq : run[r].status = "failed"

\* While no lease is lost, no message of an unfinished Run is the last to be
\* acknowledged: whatever crashes and whichever calls fail, the queue will
\* deliver the Run again.
EnqueuedRunIsNotLost ==
  \A r \in Run :
    (stored[r] > 0 /\ run[r].status \in ActiveStatus) => unacked[r] # {}

\* While no lease is lost, at most one execution of a Run is past its claim
\* in the whole cluster, although any slot may be delivered its message.
ExclusiveExecution ==
  \A w1, w2 \in Worker :
    (w1 # w2 /\ pc[w1] \in RegisteredPC /\ pc[w2] \in RegisteredPC) => job[w1] # job[w2]

\* An entry of Engine.active belongs to an execution that has not cleaned up,
\* so that Cancel never calls the function of a finished one and the map does
\* not grow.
ActiveEntriesAreLive ==
  \A p \in Proc, r \in Run :
    active[p][r] # None =>
      LET w == active[p][r] IN ProcOf[w] = p /\ job[w] = r /\ pc[w] \in RegisteredPC

\* When Cancel returns, every execution of the Run in its own process has been
\* told to stop, whichever of them registered, cleaned up or started another
\* attempt between the write of the cancellation and the look into Engine.active.
CancelInterruptsExecutions ==
  [][\A p \in Proc, r \in Run :
       (<<r, "cache">> \in canceling[p] \ canceling'[p] /\ proc'[p] # "down") =>
         \A w \in SlotsOf(p) :
           (job[w] = r /\ pc[w] \in RegisteredPC \ {"cleanup"}) => ctxDone'[w]]_vars

\* Unless a process dies, every lease has an owner that will release it: an
\* execution or a recovery, also while its process is shutting down, because
\* releaseLease does not use the canceled context.
LeasesHaveOwners ==
  \A r \in Run : lease[r] # 0 =>
    \/ \E w \in Worker : job[w] = r /\ tok[w] = lease[r] /\ pc[w] # "settle"
    \/ \E p \in Proc : rrun[p] = r /\ rtok[p] = lease[r]

\* A handler whose lease keeper failed before the Run was finished returns an
\* error, so that the message is delivered again.
LostLeaseIsRedelivered ==
  \A w \in Worker :
    (pc[w] = "settle" /\ keeperErr[w] /\ run[job[w]].status \in ActiveStatus)
      => outcome[w] = "nak"

-----------------------------------------------------------------------------
(* The inductive invariant behind the safety properties.                   *)

\* A slot has a Run exactly while it handles a message, a recovery while it
\* holds or has just released a recovery lease, and the stream has room for
\* the next message it may be asked to store.
Bookkeeping ==
  /\ \A w \in Worker : pc[w] = "idle" <=> job[w] = None
  /\ \A p \in Proc : rpc[p] # "idle" => rrun[p] # None
  /\ \A r \in Run : ~window[r] => stored[r] < MaxMessages

\* A fence in use is at most the stored one, and belongs to a slot that has
\* passed its claim.
FenceIsClaimed(w) ==
  /\ pc[w] \in {"idle", "load", "loadfill", "redletter", "acquire", "claim", "release"}
       => fen[w] = 0
  /\ pc[w] \in RegisteredPC \union {"register"} => fen[w] > 0
  /\ fen[w] > 0 => fen[w] <= fence[job[w]]

\* x was read from the store at some time: if finished then, it still is so.
WasStored(r, x) == x.status \in TerminalStatus => run[r] = x

\* A copy about to be cached was stored; one about to be written is the result
\* of a transition; who is about to publish a dead letter saw the Run failed.
CopyIsUsable(w) ==
  /\ pc[w] \in {"loadfill", "refill", "persisted"} => WasStored(job[w], local[w])
  /\ pc[w] \in {"persist", "persisted"}
       => local[w].status \in {"running", "succeeded", "failed"}
  /\ pc[w] = "persist" /\ local[w].status = "running" => local[w].attempt > 0
  /\ pc[w] \in AttemptPC => local[w].status = "running"
  /\ pc[w] \in {"deadletter", "redletter"} => run[job[w]].status = "failed"

SlotOK(w) == FenceIsClaimed(w) /\ CopyIsUsable(w) /\ InSync(w)

\* Until the first claim nobody but a canceling client touches a submitted Run.
UnclaimedIsFresh(r) ==
  /\ submission[r] = "none" => run[r] = NoRunYet /\ fence[r] = 0
  /\ (submission[r] \in {"created", "cached", "failing"} /\ fence[r] = 0)
       => run[r] \in {NewRun, Cancel(NewRun)}
  /\ submission[r] = "failed" => run[r] = Fail(NewRun)

\* Whatever is in the cache, or on its way there, was once stored.
CacheWasStored(r) == WasStored(r, cache[r]) /\ WasStored(r, reading[r])

\* The types, fences, copies and dead letters of all executions together:
\* what every step of every process preserves.
ExecutionInv ==
  /\ TypeOK
  /\ Bookkeeping
  /\ \A w \in Worker : SlotOK(w)
  /\ FencesAreUnique
  /\ \A r \in Run : UnclaimedIsFresh(r) /\ CacheWasStored(r)
  /\ DeadLettersHaveFailed

\* Nothing happens that takes a lease from a living holder: no pause beyond the
\* TTL, no failed renewal, no restored coordinator and no shutdown, after which
\* nobody renews.  Processes may still crash, and calls fail.
LeasesLast == FaultKinds \intersect {"pause", "renew", "restore", "shutdown"} = {}

\* Slot w, or the recovery of p, is between its acquisition and its release.
LeasePC == {"claim", "register", "release"} \union RegisteredPC
HoldsLease(w) == pc[w] \in LeasePC
HoldsRecovery(p) == rpc[p] \in {"recover", "invalidate", "requeued", "untouched"}

\* The token of a holder is the one in the coordinator, and a Run has one holder
\* in the whole cluster.
HoldersAgree ==
  /\ \A w \in Worker : HoldsLease(w) => tok[w] # 0 /\ lease[job[w]] = tok[w]
  /\ \A p \in Proc : HoldsRecovery(p) => rtok[p] # 0 /\ lease[rrun[p]] = rtok[p]
  /\ \A v, w \in Worker : v # w /\ HoldsLease(v) /\ HoldsLease(w) => job[v] # job[w]
  /\ \A p, q \in Proc : p # q /\ HoldsRecovery(p) /\ HoldsRecovery(q) => rrun[p] # rrun[q]
  /\ \A w \in Worker, p \in Proc : HoldsLease(w) /\ HoldsRecovery(p) => job[w] # rrun[p]

\* Every keeper is at work.
KeepersWork ==
  /\ \A w \in Worker : ~keeperErr[w]
  /\ \A p \in Proc : proc[p] # "stopping"

\* While leases last, an execution that is registered finds itself in
\* Engine.active: no other execution of its Run has taken its entry away.
RegisteredIsActive ==
  \A w \in Worker : pc[w] \in RegisteredPC => active[ProcOf[w]][job[w]] = w

\* Who is interrupted, or about to acknowledge a message, knows that the Run is
\* finished.
AckIsEarned(w) ==
  /\ pc[w] \in {"cleanup", "release", "settle"} /\ outcome[w] = "ack"
       => run[job[w]].status \in TerminalStatus
  /\ ctxDone[w] => /\ pc[w] \in RegisteredPC \union {"settle"}
                   /\ run[job[w]].status \in TerminalStatus
  /\ pc[w] \in {"wake", "wakectx"} => ctxDone[w]

\* A Run that Cancel is at work on is canceled in the store.
CancelIsStored ==
  \A p \in Proc, r \in Run, s \in CancelStage :
    <<r, s>> \in canceling[p] => run[r].status = "canceled"

\* Only a Run that was created is enqueued, delivered or recovered.
CreatedFirst ==
  /\ \A r \in Run :
       submission[r] # "none" \/ stored[r] > 0 \/ unacked[r] # {} => run[r].status # "absent"
  /\ \A p \in Proc, r \in Run, s \in ActiveStatus : <<r, s>> \in todo[p] => run[r].status # "absent"
  /\ \A p \in Proc : rrun[p] # None => run[rrun[p]].status # "absent"
  /\ \A w \in Worker : job[w] # None => run[job[w]].status # "absent"

\* What makes sure, while leases last, that a message is only acknowledged for
\* a finished Run.
DeliveryInv ==
  /\ \A w \in Worker : AckIsEarned(w)
  /\ CancelIsStored
  /\ CreatedFirst
  /\ EnqueuedRunIsNotLost

\* Whoever acquires a lease learns of it and lives to release it: no process
\* crashes and no call to the coordinator fails.
LeasesAreReturned == FaultKinds \intersect {"crash", "call"} = {}

\* A token belongs to a holder, or to a slot that has given its lease back.
TokensAreUsed ==
  /\ \A w \in Worker : tok[w] # 0 => HoldsLease(w) \/ pc[w] = "settle"
  /\ \A p \in Proc : rtok[p] # 0 => HoldsRecovery(p)

-----------------------------------------------------------------------------
(* Progress.                                                               *)

\* Goroutines are scheduled and calls return; a runtime ends by its attempt
\* timeout; processes are restarted; unacknowledged messages are delivered
\* again; abandoned leases and cached Runs expire.
Fairness ==
  /\ \A w \in Worker :
       /\ WF_vars(WorkerStep(w))
       /\ WF_vars(\E r \in Run, m \in 1..MaxMessages : Deliver(w, r, m))
  /\ \A p \in Proc :
       /\ WF_vars(StartProcess(p))
       /\ WF_vars(RecoverStep(p))
  /\ \A r \in Run : WF_vars(ExpireLease(r)) /\ WF_vars(ExpireEntry(r))

FairSpec == Spec /\ Fairness

\* r is marked running in its last attempt, and nobody is executing it.
Stranded(r) ==
  /\ run[r].status = "running" /\ run[r].attempt = MaxAttempts
  /\ \A w \in Worker :
       ~(job[w] = r /\ Current(w)
           /\ pc[w] \in {"persist", "persisted", "exec", "post", "postctx", "postrun"})

\* Every Run that reached the queue finishes, whatever crashes and whichever
\* calls fail, unless its last attempt is interrupted.
EnqueuedRunFinishes ==
  \A r \in Run :
    <>Stranded(r) \/ (stored[r] > 0 ~> run[r].status \in TerminalStatus)

\* Everything a finished Run held is given back: its messages are
\* acknowledged and its lease is gone.
FinishedRunDrains ==
  \A r \in Run :
    run[r].status \in TerminalStatus ~> (unacked[r] = {} /\ lease[r] = 0)
=============================================================================
