-------------------------- MODULE RunEngineProofs --------------------------
(***************************************************************************)
(* Type correctness and safety of RunEngine for every number of Runs,      *)
(* processes, slots, attempts and faults of every kind.  First the types:  *)
(* one case per action, and in it one step per component whose state the   *)
(* action changes.  Then ExecutionInv is inductive, and the engine         *)
(* implements RunLifecycle.                                                *)
(***************************************************************************)
EXTENDS RunEngineProperties, TLAPS

-----------------------------------------------------------------------------
(* The transitions of a Run and the operations of the components respect   *)
(* their types.                                                            *)

\* The record of a new Run, and of none, are Runs.
LEMMA FreshRunTypes == NewRun \in RunRecord /\ NoRunYet \in RunRecord
  BY MaxAttemptsAssumption
  DEF RunRecord, RunStatus, ActiveStatus, TerminalStatus, NewRun, NoRunYet

\* What domain.Run's transitions yield is a Run with at most MaxAttempts
\* attempts, provided their guard was checked.
LEMMA TransitionTypes ==
  ASSUME NEW x \in RunRecord
  PROVE  /\ CanStart(x) => Start(x) \in RunRecord
         /\ CanRetry(x) => Retry(x) \in RunRecord
         /\ Succeed(x) \in RunRecord
         /\ Fail(x) \in RunRecord
         /\ Cancel(x) \in RunRecord
         /\ Requeue(x) \in RunRecord
  BY MaxAttemptsAssumption
  DEF RunRecord, RunStatus, ActiveStatus, TerminalStatus,
      CanStart, Start, CanRetry, Retry, Succeed, Fail, Cancel, Requeue

\* The fence installed for an execution is above every fence before it.
LEMMA NextFenceGrows ==
  ASSUME StoreTypeOK, NEW r \in Run, NEW token \in Nat
  PROVE  NextFence(r, token) \in Nat /\ NextFence(r, token) > fence[r]
  BY DEF StoreTypeOK, NextFence

\* Every operation of the Run table keeps it well typed.
LEMMA StoreOperationTypes ==
  ASSUME StoreTypeOK, NEW r \in Run,
         \/ CreateRun(r)
         \/ CancelRun(r)
         \/ \E token \in Nat, res \in {"canceled", "not_executable", "ok"} :
              ClaimRunExecution(r, token, res)
         \/ \E x \in RunRecord, f \in Nat, res \in {"canceled", "stale", "ok"} :
              UpdateRunFenced(r, x, f, res)
         \/ \E x \in RunRecord, res \in {"refused", "ok"} : UpdateRun(r, x, res)
         \/ \E token \in Nat, recovered \in BOOLEAN : RecoverRun(r, token, recovered)
         \/ UNCHANGED storeVars
  PROVE  StoreTypeOK'
<1>1. run[r] \in RunRecord
  BY Zenon DEF StoreTypeOK
<1>2. CASE CreateRun(r)
  BY <1>1, <1>2, FreshRunTypes, Zenon DEF CreateRun, StoreTypeOK
<1>3. CASE CancelRun(r)
  BY <1>1, <1>3, TransitionTypes, Zenon DEF CancelRun, StoreTypeOK
<1>4. CASE \E token \in Nat, res \in {"canceled", "not_executable", "ok"} :
             ClaimRunExecution(r, token, res)
  BY <1>4, NextFenceGrows, Zenon DEF ClaimRunExecution, StoreTypeOK, storeVars
<1>5. CASE \E x \in RunRecord, f \in Nat, res \in {"canceled", "stale", "ok"} :
             UpdateRunFenced(r, x, f, res)
  BY <1>5, Zenon DEF UpdateRunFenced, StoreTypeOK, storeVars
<1>6. CASE \E x \in RunRecord, res \in {"refused", "ok"} : UpdateRun(r, x, res)
  BY <1>6, Zenon DEF UpdateRun, StoreTypeOK, storeVars
<1>7. CASE \E token \in Nat, recovered \in BOOLEAN : RecoverRun(r, token, recovered)
  BY <1>1, <1>7, NextFenceGrows, TransitionTypes, Zenon
  DEF RecoverRun, StoreTypeOK, storeVars
<1>8. CASE UNCHANGED storeVars
  BY <1>8, Zenon DEF StoreTypeOK, storeVars
<1>9. QED
  BY <1>2, <1>3, <1>4, <1>5, <1>6, <1>7, <1>8, Zenon

\* Leases and their tokens stay within the bound on the sequence.
LEMMA CoordOperationTypes ==
  ASSUME CoordTypeOK, NEW r \in Run,
         \/ \E token \in 1..MaxToken : AcquireLease(r, token)
         \/ \E token \in 0..MaxToken : ReleaseLease(r, token)
         \/ ExpireKey(r)
         \/ RestoreOlderSequence
         \/ UNCHANGED coordVars
  PROVE  CoordTypeOK'
  BY BoundsAssumption
  DEF CoordTypeOK, AcquireLease, ReleaseLease, ExpireKey, RestoreOlderSequence, coordVars

\* Publishing never runs out of room, because a closed window leaves some.
LEMMA QueueOperationTypes ==
  ASSUME QueueTypeOK, NEW r \in Run,
         \A q \in Run : ~window[q] => stored[q] < MaxMessages,
         \/ Enqueue(r)
         \/ CloseWindow(r)
         \/ \E m \in 0..MaxMessages : DoubleAck(r, m)
         \/ PublishDeadLetter(r)
         \/ UNCHANGED queueVars
  PROVE  /\ QueueTypeOK'
         /\ (\A q \in Run : ~window[q] => stored[q] < MaxMessages)'
<1>1. CASE Enqueue(r)
  <2>1. CASE window[r]
    BY <1>1, <2>1, Zenon DEF Enqueue, QueueTypeOK
  <2>2. CASE ~window[r]
    <3>1. stored[r] + 1 \in 1..MaxMessages
      BY <2>2, BoundsAssumption DEF QueueTypeOK
    <3>2. /\ stored' = [stored EXCEPT ![r] = stored[r] + 1]
          /\ unacked' = [unacked EXCEPT ![r] = unacked[r] \union {stored[r] + 1}]
          /\ window' = [window EXCEPT ![r] = TRUE]
          /\ dlq' = dlq
      BY <1>1, <2>2, Zenon DEF Enqueue
    <3>3. unacked[r] \union {stored[r] + 1} \in SUBSET (1..MaxMessages)
      BY <3>1, Zenon DEF QueueTypeOK
    <3>4. QueueTypeOK'
      BY <3>1, <3>2, <3>3 DEF QueueTypeOK
    <3>5. QED
      BY <3>2, <3>4, Zenon DEF QueueTypeOK
  <2>3. QED
    BY <2>1, <2>2, Zenon
<1>2. CASE CloseWindow(r)
  BY <1>2, Zenon DEF CloseWindow, QueueTypeOK
<1>3. CASE \E m \in 0..MaxMessages : DoubleAck(r, m)
  BY <1>3, Zenon DEF DoubleAck, QueueTypeOK
<1>4. CASE PublishDeadLetter(r)
  BY <1>4, Zenon DEF PublishDeadLetter, QueueTypeOK
<1>5. CASE UNCHANGED queueVars
  BY <1>5, Zenon DEF queueVars, QueueTypeOK
<1>6. QED
  BY <1>1, <1>2, <1>3, <1>4, <1>5, Zenon

-----------------------------------------------------------------------------
(* Types are preserved.                                                    *)

\* Every closed window of the stream leaves room for a message.
Roomy == \A r \in Run : ~window[r] => stored[r] < MaxMessages

\* A slot has a Run exactly while it handles a message.
Busy == \A w \in Worker : pc[w] = "idle" <=> job[w] = None

\* A recovery at work has a Run.
Recovering == \A p \in Proc : rpc[p] # "idle" => rrun[p] # None

\* Slot w goes on within execute, changing nothing of any other slot.
Moves(w) ==
  /\ pc[w] # "idle"
  /\ \E to \in UnregisteredPC \union RegisteredPC : Goto(w, to)
  /\ outcome' = outcome \/ \E o \in Outcome : outcome' = [outcome EXCEPT ![w] = o]
  /\ local' = local \/ \E x \in RunRecord : local' = [local EXCEPT ![w] = x]
  /\ tok' = tok \/ \E t \in 0..MaxToken : tok' = [tok EXCEPT ![w] = t]
  /\ fen' = fen \/ \E f \in Nat : fen' = [fen EXCEPT ![w] = f]
  /\ UNCHANGED <<job, msg, ctxDone, keeperErr>>

\* Engine.active may get or lose its entry for w's Run.
Registers(w) ==
  \E v \in Worker \union {None} :
    active' = [active EXCEPT ![ProcOf[w]] = [@ EXCEPT ![job[w]] = v]]

\* What a step leaves alone stays well typed.
LEMMA FrameTypes ==
  ASSUME TypeOK, Bookkeeping,
         StoreTypeOK' \/ UNCHANGED storeVars,
         ReadTypeOK' \/ UNCHANGED cacheVars,
         CoordTypeOK' \/ UNCHANGED coordVars,
         (QueueTypeOK' /\ Roomy') \/ UNCHANGED queueVars,
         (ProcTypeOK' /\ Recovering') \/ UNCHANGED procVars,
         JobTypeOK', ControlTypeOK', Busy'
  PROVE  TypeOK' /\ Bookkeeping'
<1>1. StoreTypeOK' /\ CoordTypeOK'
  BY Zenon DEF TypeOK, StoreTypeOK, storeVars, CoordTypeOK, coordVars
<1>2. ReadTypeOK'
  BY Zenon DEF TypeOK, ReadTypeOK, CacheTypeOK, cacheVars
<1>3. QueueTypeOK' /\ Roomy'
  BY Zenon DEF TypeOK, Bookkeeping, QueueTypeOK, queueVars, Roomy
<1>4. ProcTypeOK' /\ Recovering'
  BY Zenon DEF TypeOK, Bookkeeping, ProcTypeOK, procVars, Recovering
<1>5. QED
  BY <1>1, <1>2, <1>3, <1>4, Zenon DEF TypeOK, Bookkeeping, Roomy, Busy, Recovering

\* A fault uses up one of the faults that are left.
LEMMA FaultTypes ==
  ASSUME TypeOK, NEW kind, Fault(kind) \/ UNCHANGED faults
  PROVE  faults' \in 0..MaxFaults
  BY BoundsAssumption DEF Fault, TypeOK, ControlTypeOK

\* A write of a Run into the cache, a delete, and their failures.
LEMMA EntryTypes ==
  ASSUME TypeOK, NEW r \in Run, NEW x \in RunRecord, NEW canceled,
         SetEntry(r, x, canceled) \/ DeleteEntry(r, canceled), UNCHANGED reading
  PROVE  ReadTypeOK' /\ faults' \in 0..MaxFaults
<1>1. Fault("cache") \/ UNCHANGED faults
  BY Zenon DEF SetEntry, DeleteEntry, CacheFails
<1>2. cache' = cache \/ \E y \in RunRecord : cache' = [cache EXCEPT ![r] = y]
  BY FreshRunTypes, Zenon DEF SetEntry, DeleteEntry, CacheFails, CacheSet, CacheDelete
<1>3. ReadTypeOK'
  BY <1>2, Zenon DEF TypeOK, ReadTypeOK, CacheTypeOK
<1>4. QED
  BY <1>1, <1>3, FaultTypes, Zenon

\* A step that moves no slot.
LEMMA RestingTypes ==
  ASSUME TypeOK, Bookkeeping, UNCHANGED workerVars,
         submission' = submission \/ submission' \in [Run -> SubmissionState],
         faults' = faults \/ faults' \in 0..MaxFaults
  PROVE  JobTypeOK' /\ ControlTypeOK' /\ Busy'
  BY Zenon DEF workerVars, TypeOK, JobTypeOK, ControlTypeOK, Bookkeeping, Busy

\* A step that moves one slot within execute.
LEMMA MovingTypes ==
  ASSUME TypeOK, Bookkeeping, NEW w \in Worker, Moves(w),
         active' = active \/ Registers(w),
         submission' = submission, faults' = faults \/ faults' \in 0..MaxFaults
  PROVE  JobTypeOK' /\ ControlTypeOK' /\ Busy'
<1>1. JobTypeOK'
  BY ZenonT(30) DEF Moves, TypeOK, JobTypeOK
<1>2. job[w] \in Run /\ ProcOf[w] \in Proc
  BY ProcOfAssumption, Zenon DEF Moves, TypeOK, JobTypeOK, Bookkeeping
<1>3. active' \in [Proc -> [Run -> Worker \union {None}]]
  <2>1. active \in [Proc -> [Run -> Worker \union {None}]]
    BY Zenon DEF TypeOK, ControlTypeOK
  <2>2. \A v \in Worker \union {None} :
          [active[ProcOf[w]] EXCEPT ![job[w]] = v] \in [Run -> Worker \union {None}]
    BY <1>2, <2>1, Zenon
  <2>3. QED
    BY <1>2, <2>1, <2>2, Zenon DEF Registers
<1>4. PICK to \in UnregisteredPC \union RegisteredPC : Goto(w, to)
  BY Zenon DEF Moves
<1>5. ControlTypeOK'
  BY <1>3, <1>4, Zenon DEF Moves, Goto, TypeOK, ControlTypeOK, ExecutePC
<1>6. to # "idle"
  BY <1>4 DEF UnregisteredPC, RegisteredPC
<1>7. Busy'
  BY <1>4, <1>6, Zenon DEF Moves, Goto, TypeOK, ControlTypeOK, Bookkeeping, Busy
<1>8. QED
  BY <1>1, <1>5, <1>7, Zenon

\* Slots that are reset are well typed.
LEMMA ResetTypes ==
  ASSUME TypeOK, Bookkeeping, NEW W, ResetWorkers(W),
         active' \in [Proc -> [Run -> Worker \union {None}]],
         submission' = submission, faults' \in 0..MaxFaults
  PROVE  JobTypeOK' /\ ControlTypeOK' /\ Busy'
<1>1. JobTypeOK'
  BY FreshRunTypes, BoundsAssumption DEF ResetWorkers, TypeOK, JobTypeOK, Outcome
<1>2. ControlTypeOK'
  BY Zenon DEF ResetWorkers, TypeOK, ControlTypeOK, ExecutePC
<1>3. Busy'
  BY Zenon DEF ResetWorkers, Bookkeeping, Busy
<1>4. QED
  BY <1>1, <1>2, <1>3, Zenon

\* A step of execute that changes nothing but its slot and Engine.active.
LEMMA LocalStepTypes ==
  ASSUME TypeOK, Bookkeeping, NEW w \in Worker, Moves(w),
         active' = active \/ Registers(w), UNCHANGED localFrame
  PROVE  TypeOK' /\ Bookkeeping'
<1>1. /\ UNCHANGED <<storeVars, cacheVars, coordVars, queueVars, procVars>>
      /\ UNCHANGED <<submission, faults>>
  BY Zenon DEF localFrame
<1>2. QED
  BY <1>1, MovingTypes, FrameTypes, Zenon

\* Each statement of execute keeps every variable well typed.
LEMMA WorkerStepTypes ==
  ASSUME TypeOK, Bookkeeping, NEW w \in Worker, WorkerStep(w)
  PROVE  TypeOK' /\ Bookkeeping'
<1>1. pc[w] # "idle" => job[w] \in Run
  BY Zenon DEF TypeOK, JobTypeOK, Bookkeeping
<1>2. /\ local[w] \in RunRecord
      /\ Fail(local[w]) \in RunRecord /\ Succeed(local[w]) \in RunRecord
      /\ CanStart(local[w]) => Start(local[w]) \in RunRecord
      /\ CanRetry(local[w]) => Retry(local[w]) \in RunRecord
  BY TransitionTypes, Zenon DEF TypeOK, JobTypeOK
<1>3. /\ tok[w] \in Nat
      /\ job[w] \in Run => run[job[w]] \in RunRecord /\ cache[job[w]] \in RunRecord
  BY BoundsAssumption DEF TypeOK, JobTypeOK, StoreTypeOK, ReadTypeOK, CacheTypeOK
<1>4. CASE Load(w)
  <2>1. /\ UNCHANGED <<storeVars, cacheVars, coordVars, queueVars, procVars>>
        /\ UNCHANGED <<submission, active>>
    BY <1>4, Zenon DEF Load
  <2>2. Moves(w)
    BY <1>1, <1>2, <1>3, <1>4, Zenon
    DEF Load, Dispatch, Return, Moves, Outcome, UnregisteredPC, RegisteredPC
  <2>3. faults' \in 0..MaxFaults
    BY <1>4, FaultTypes, Zenon DEF Load, Miss, CacheFails
  <2>4. QED
    BY <2>1, <2>2, <2>3, MovingTypes, FrameTypes, Zenon
<1>5. CASE LoadFill(w)
  <2>1. /\ UNCHANGED <<storeVars, coordVars, queueVars, procVars>>
        /\ UNCHANGED <<submission, active>>
    BY <1>5, Zenon DEF LoadFill
  <2>2. Moves(w)
    BY <1>1, <1>2, <1>3, FreshRunTypes, <1>5, Zenon
    DEF LoadFill, Dispatch, Return, Moves, Outcome, UnregisteredPC, RegisteredPC
  <2>3. ReadTypeOK' /\ faults' \in 0..MaxFaults
    BY <1>1, <1>2, <1>5, EntryTypes, Zenon DEF LoadFill
  <2>4. QED
    BY <2>1, <2>2, <2>3, MovingTypes, FrameTypes, Zenon
<1>6. CASE Acquire(w)
  <2>1. /\ UNCHANGED <<storeVars, cacheVars, queueVars, procVars>>
        /\ UNCHANGED <<submission, active, faults>>
    BY <1>6, Zenon DEF Acquire
  <2>2. CoordTypeOK'
    BY <1>1, <1>6, CoordOperationTypes, Zenon DEF Acquire, TypeOK, coordVars
  <2>3. tok' = tok \/ \E t \in 0..MaxToken : tok' = [tok EXCEPT ![w] = t]
    BY <1>6, BoundsAssumption DEF Acquire
  <2>4. Moves(w)
    BY <1>6, <2>3, Zenon
    DEF Acquire, Return, Moves, Outcome, UnregisteredPC, RegisteredPC
  <2>5. QED
    BY <2>1, <2>2, <2>4, MovingTypes, FrameTypes, Zenon
<1>7. CASE Claim(w)
  <2>1. /\ UNCHANGED <<coordVars, queueVars, procVars>>
        /\ UNCHANGED <<submission, active>>
    BY <1>7, Zenon DEF Claim
  <2>2. StoreTypeOK'
    BY <1>1, <1>3, <1>7, StoreOperationTypes, Zenon DEF Claim, TypeOK
  <2>3. ReadTypeOK' /\ faults' \in 0..MaxFaults
    <3>1. CASE UNCHANGED <<cache, faults, reading>>
      BY <3>1, FaultTypes, Zenon DEF TypeOK, ReadTypeOK, CacheTypeOK
    <3>2. CASE DeleteEntry(job[w], Stopping(w)) /\ UNCHANGED reading
      BY <1>1, <1>7, <3>2, FreshRunTypes, EntryTypes, Zenon DEF Claim
    <3>3. QED
      BY <1>7, <3>1, <3>2, Zenon DEF Claim
  <2>4. job[w] \in Run => NextFence(job[w], tok[w]) \in Nat
    BY <1>3, NextFenceGrows, Zenon DEF TypeOK
  <2>5. Moves(w)
    BY <1>1, <1>7, <2>4, Zenon
    DEF Claim, Return, Moves, Outcome, UnregisteredPC, RegisteredPC
  <2>6. QED
    BY <2>1, <2>2, <2>3, <2>5, MovingTypes, FrameTypes, Zenon
<1>8. CASE Register(w)
  <2>1. Moves(w) /\ UNCHANGED localFrame
    BY <1>1, <1>2, <1>3, <1>8, Zenon
    DEF Register, jobVars, Return, Moves, Outcome, UnregisteredPC, RegisteredPC
  <2>2. Registers(w)
    BY <1>8, Zenon DEF Register, Registers
  <2>3. QED
    BY <2>1, <2>2, LocalStepTypes, Zenon
<1>9. CASE Reload(w)
  <2>1. /\ UNCHANGED <<storeVars, cacheVars, coordVars, queueVars, procVars>>
        /\ UNCHANGED <<submission, active>>
    BY <1>9, Zenon DEF Reload
  <2>2. Moves(w)
    BY <1>1, <1>2, <1>3, <1>9, Zenon
    DEF Reload, Continue, Return, Moves, Outcome, UnregisteredPC, RegisteredPC
  <2>3. faults' \in 0..MaxFaults
    BY <1>9, FaultTypes, Zenon DEF Reload, Miss, CacheFails
  <2>4. QED
    BY <2>1, <2>2, <2>3, MovingTypes, FrameTypes, Zenon
<1>10. CASE ReloadFill(w)
  <2>1. /\ UNCHANGED <<storeVars, coordVars, queueVars, procVars>>
        /\ UNCHANGED <<submission, active>>
    BY <1>10, Zenon DEF ReloadFill
  <2>2. Moves(w)
    BY <1>1, <1>2, <1>3, <1>10, Zenon
    DEF ReloadFill, Continue, Return, Moves, Outcome, UnregisteredPC, RegisteredPC
  <2>3. ReadTypeOK' /\ faults' \in 0..MaxFaults
    BY <1>1, <1>2, <1>10, EntryTypes, Zenon DEF ReloadFill
  <2>4. QED
    BY <2>1, <2>2, <2>3, MovingTypes, FrameTypes, Zenon
<1>11. CASE Resolve(w)
  <2>1. Moves(w) /\ active' = active /\ UNCHANGED localFrame
    BY <1>1, <1>2, <1>3, <1>11, Zenon
    DEF Resolve, FailLocal, Return, Moves, Outcome, UnregisteredPC, RegisteredPC
  <2>2. QED
    BY <2>1, LocalStepTypes, Zenon
<1>12. CASE CheckLease(w, "top", "check")
  <2>1. Moves(w) /\ active' = active /\ UNCHANGED localFrame
    BY <1>1, <1>2, <1>3, <1>12, Zenon
    DEF CheckLease, Return, Moves, Outcome, UnregisteredPC, RegisteredPC
  <2>2. QED
    BY <2>1, LocalStepTypes, Zenon
<1>13. CASE BeginAttempt(w)
  <2>1. Moves(w) /\ active' = active /\ UNCHANGED localFrame
    BY <1>1, <1>2, <1>3, <1>13, Zenon
    DEF BeginAttempt, Return, Moves, Outcome, UnregisteredPC, RegisteredPC
  <2>2. QED
    BY <2>1, LocalStepTypes, Zenon
<1>14. CASE Persist(w)
  <2>1. /\ UNCHANGED <<coordVars, queueVars, procVars>>
        /\ UNCHANGED <<submission, active>>
    BY <1>14, Zenon DEF Persist
  <2>2. StoreTypeOK'
    <3>1. fen[w] \in Nat
      BY Zenon DEF TypeOK, JobTypeOK
    <3>2. QED
      BY <1>1, <1>2, <1>14, <3>1, StoreOperationTypes, Zenon DEF Persist, TypeOK
  <2>3. ReadTypeOK' /\ faults' \in 0..MaxFaults
    <3>1. CASE UNCHANGED <<cache, faults, reading>>
      BY <3>1, FaultTypes, Zenon DEF TypeOK, ReadTypeOK, CacheTypeOK
    <3>2. CASE DeleteEntry(job[w], Stopping(w)) /\ UNCHANGED reading
      BY <1>1, <1>14, <3>2, FreshRunTypes, EntryTypes, Zenon DEF Persist
    <3>3. QED
      BY <1>14, <3>1, <3>2, Zenon DEF Persist
  <2>4. Moves(w)
    BY <1>14, Zenon DEF Persist, Return, Moves, Outcome, UnregisteredPC, RegisteredPC
  <2>5. QED
    BY <2>1, <2>2, <2>3, <2>4, MovingTypes, FrameTypes, Zenon
<1>15. CASE PersistCache(w)
  <2>1. /\ UNCHANGED <<storeVars, coordVars, queueVars, procVars>>
        /\ UNCHANGED <<submission, active>>
    BY <1>15, Zenon DEF PersistCache
  <2>2. Moves(w)
    BY <1>1, <1>2, <1>3, <1>15, Zenon
    DEF PersistCache, Return, Moves, Outcome, UnregisteredPC, RegisteredPC
  <2>3. ReadTypeOK' /\ faults' \in 0..MaxFaults
    BY <1>1, <1>2, <1>15, EntryTypes, Zenon DEF PersistCache
  <2>4. QED
    BY <2>1, <2>2, <2>3, MovingTypes, FrameTypes, Zenon
<1>16. CASE Execute(w)
  <2>1. Moves(w) /\ active' = active /\ UNCHANGED localFrame
    BY <1>1, <1>2, <1>3, <1>16, Zenon
    DEF Execute, Return, Moves, Outcome, UnregisteredPC, RegisteredPC
  <2>2. QED
    BY <2>1, LocalStepTypes, Zenon
<1>17. CASE CheckLease(w, "post", "postctx")
  <2>1. Moves(w) /\ active' = active /\ UNCHANGED localFrame
    BY <1>1, <1>2, <1>3, <1>17, Zenon
    DEF CheckLease, Return, Moves, Outcome, UnregisteredPC, RegisteredPC
  <2>2. QED
    BY <2>1, LocalStepTypes, Zenon
<1>18. CASE CheckCtx(w)
  <2>1. Moves(w) /\ active' = active /\ UNCHANGED localFrame
    BY <1>1, <1>2, <1>3, <1>18, Zenon
    DEF CheckCtx, Return, Moves, Outcome, UnregisteredPC, RegisteredPC
  <2>2. QED
    BY <2>1, LocalStepTypes, Zenon
<1>19. CASE AfterAttempt(w)
  <2>1. Moves(w) /\ active' = active /\ UNCHANGED localFrame
    BY <1>1, <1>2, <1>3, <1>19, Zenon
    DEF AfterAttempt, FailLocal, Return, Moves, Outcome, UnregisteredPC, RegisteredPC
  <2>2. QED
    BY <2>1, LocalStepTypes, Zenon
<1>20. CASE DeadLetter(w, "deadletter", "cleanup")
  <2>1. /\ UNCHANGED <<storeVars, cacheVars, coordVars, procVars>>
        /\ UNCHANGED <<submission, active, faults>>
    BY <1>20, Zenon DEF DeadLetter
  <2>2. QueueTypeOK' /\ Roomy'
    BY <1>1, <1>20, QueueOperationTypes, Zenon
    DEF DeadLetter, TypeOK, Bookkeeping, Roomy
  <2>3. Moves(w)
    BY <1>20, Zenon DEF DeadLetter, Return, Moves, Outcome, UnregisteredPC, RegisteredPC
  <2>4. QED
    BY <2>1, <2>2, <2>3, MovingTypes, FrameTypes, Zenon
<1>21. CASE DeadLetter(w, "redletter", "settle")
  <2>1. /\ UNCHANGED <<storeVars, cacheVars, coordVars, procVars>>
        /\ UNCHANGED <<submission, active, faults>>
    BY <1>21, Zenon DEF DeadLetter
  <2>2. QueueTypeOK' /\ Roomy'
    BY <1>1, <1>21, QueueOperationTypes, Zenon
    DEF DeadLetter, TypeOK, Bookkeeping, Roomy
  <2>3. Moves(w)
    BY <1>21, Zenon DEF DeadLetter, Return, Moves, Outcome, UnregisteredPC, RegisteredPC
  <2>4. QED
    BY <2>1, <2>2, <2>3, MovingTypes, FrameTypes, Zenon
<1>22. CASE Backoff(w)
  <2>1. Moves(w) /\ active' = active /\ UNCHANGED localFrame
    BY <1>1, <1>2, <1>3, <1>22, Zenon
    DEF Backoff, Return, Moves, Outcome, UnregisteredPC, RegisteredPC
  <2>2. QED
    BY <2>1, LocalStepTypes, Zenon
<1>23. CASE CheckLease(w, "wake", "wakectx")
  <2>1. Moves(w) /\ active' = active /\ UNCHANGED localFrame
    BY <1>1, <1>2, <1>3, <1>23, Zenon
    DEF CheckLease, Return, Moves, Outcome, UnregisteredPC, RegisteredPC
  <2>2. QED
    BY <2>1, LocalStepTypes, Zenon
<1>24. CASE WakeCtx(w)
  <2>1. Moves(w) /\ active' = active /\ UNCHANGED localFrame
    BY <1>1, <1>2, <1>3, <1>24, Zenon
    DEF WakeCtx, Return, Moves, Outcome, UnregisteredPC, RegisteredPC
  <2>2. QED
    BY <2>1, LocalStepTypes, Zenon
<1>25. CASE Cleanup(w)
  <2>1. UNCHANGED <<storeVars, cacheVars, queueVars, procVars, submission, faults>>
    BY <1>25, Zenon DEF Cleanup
  <2>2. CoordTypeOK'
    BY <1>1, <1>25, CoordOperationTypes, Zenon DEF Cleanup, TypeOK, JobTypeOK
  <2>3. Moves(w)
    BY <1>25, Zenon DEF Cleanup, jobVars, Moves, Outcome, UnregisteredPC, RegisteredPC
  <2>4. active' = active \/ Registers(w)
    BY <1>25, Zenon DEF Cleanup, Registers
  <2>5. QED
    BY <2>1, <2>2, <2>3, <2>4, MovingTypes, FrameTypes, Zenon
<1>26. CASE Release(w)
  <2>1. UNCHANGED <<storeVars, cacheVars, queueVars, procVars, submission, faults>>
    BY <1>26, Zenon DEF Release
  <2>2. CoordTypeOK'
    BY <1>1, <1>26, CoordOperationTypes, Zenon DEF Release, TypeOK, JobTypeOK
  <2>3. Moves(w)
    BY <1>26, Zenon DEF Release, jobVars, Moves, Outcome, UnregisteredPC, RegisteredPC
  <2>4. active' = active \/ Registers(w)
    BY <1>26, Zenon DEF Release, Registers
  <2>5. QED
    BY <2>1, <2>2, <2>3, <2>4, MovingTypes, FrameTypes, Zenon
<1>27. CASE Settle(w)
  <2>1. UNCHANGED <<storeVars, cacheVars, coordVars, procVars, submission, active>>
    BY <1>27, Zenon DEF Settle
  <2>2. QueueTypeOK' /\ Roomy'
    BY <1>1, <1>27, QueueOperationTypes, Zenon
    DEF Settle, TypeOK, JobTypeOK, Bookkeeping, Roomy
  <2>3. faults' \in 0..MaxFaults
    BY <1>27, FaultTypes, Zenon DEF Settle
  <2>4. JobTypeOK' /\ ControlTypeOK' /\ Busy'
    <3>1. active' \in [Proc -> [Run -> Worker \union {None}]]
      BY <2>1, Zenon DEF TypeOK, ControlTypeOK
    <3>2. QED
      BY <1>27, <2>1, <2>3, <3>1, ResetTypes, Zenon DEF Settle
  <2>5. QED
    BY <2>1, <2>2, <2>4, FrameTypes, Zenon
<1>28. QED
  BY <1>4, <1>5, <1>6, <1>7, <1>8, <1>9, <1>10, <1>11, <1>12, <1>13, <1>14, <1>15,
     <1>16, <1>17, <1>18, <1>19, <1>20, <1>21, <1>22, <1>23, <1>24, <1>25, <1>26,
     <1>27, Zenon
  DEF WorkerStep

\* So do the keeper, the watcher and the calls that fail.
LEMMA WorkerFaultTypes ==
  ASSUME TypeOK, Bookkeeping, NEW w \in Worker, WorkerFault(w)
  PROVE  TypeOK' /\ Bookkeeping'
<1>1. pc[w] # "idle" => job[w] \in Run
  BY Zenon DEF TypeOK, JobTypeOK, Bookkeeping
<1>2. CASE RenewFails(w)
  <2>1. UNCHANGED <<storeVars, cacheVars, coordVars, queueVars, procVars>>
    BY <1>2, Zenon DEF RenewFails
  <2>2. faults' \in 0..MaxFaults
    BY <1>2, FaultTypes, Zenon DEF RenewFails
  <2>3. JobTypeOK' /\ ControlTypeOK' /\ Busy'
    BY <1>2, <2>2, Zenon
    DEF RenewFails, jobVars, TypeOK, JobTypeOK, ControlTypeOK, Bookkeeping, Busy
  <2>4. QED
    BY <2>1, <2>3, FrameTypes, Zenon
<1>3. CASE ObserveCancel(w)
  <2>1. UNCHANGED <<storeVars, cacheVars, coordVars, queueVars, procVars>>
    BY <1>3, Zenon DEF ObserveCancel, localFrame
  <2>2. JobTypeOK' /\ ControlTypeOK' /\ Busy'
    BY <1>3, Zenon
    DEF ObserveCancel, localFrame, jobVars, TypeOK, JobTypeOK, ControlTypeOK,
        Bookkeeping, Busy
  <2>3. QED
    BY <2>1, <2>2, FrameTypes, Zenon
<1>4. CASE CallFails(w)
  <2>1. /\ UNCHANGED <<storeVars, cacheVars, coordVars, queueVars, procVars>>
        /\ UNCHANGED <<submission, active>>
    BY <1>4, Zenon DEF CallFails
  <2>2. faults' \in 0..MaxFaults
    BY <1>4, FaultTypes, Zenon DEF CallFails
  <2>3. Moves(w)
    BY <1>4, Zenon
    DEF CallFails, ErrorReturn, Return, Moves, Outcome, UnregisteredPC, RegisteredPC
  <2>4. QED
    BY <2>1, <2>2, <2>3, MovingTypes, FrameTypes, Zenon
<1>5. CASE AnswerLost(w)
  <2>1. UNCHANGED <<cacheVars, procVars, submission, active>>
    BY <1>5, Zenon DEF AnswerLost
  <2>2. StoreTypeOK'
    <3>1. tok[w] \in Nat /\ fen[w] \in Nat /\ local[w] \in RunRecord
      BY BoundsAssumption DEF TypeOK, JobTypeOK
    <3>2. QED
      BY <1>1, <1>5, <3>1, StoreOperationTypes, Zenon DEF AnswerLost, TypeOK
  <2>3. CoordTypeOK'
    BY <1>1, <1>5, CoordOperationTypes, Zenon DEF AnswerLost, TypeOK, coordVars
  <2>4. QueueTypeOK' /\ Roomy'
    BY <1>1, <1>5, QueueOperationTypes, Zenon DEF AnswerLost, TypeOK, Bookkeeping, Roomy
  <2>5. faults' \in 0..MaxFaults
    BY <1>5, FaultTypes, Zenon DEF AnswerLost
  <2>6. Moves(w)
    BY <1>5, Zenon
    DEF AnswerLost, ErrorReturn, Return, Moves, Outcome, UnregisteredPC, RegisteredPC
  <2>7. QED
    BY <2>1, <2>2, <2>3, <2>4, <2>5, <2>6, MovingTypes, FrameTypes, Zenon
<1>6. CASE ReleaseFails(w)
  <2>1. UNCHANGED <<storeVars, cacheVars, coordVars, queueVars, procVars, submission>>
    BY <1>6, Zenon DEF ReleaseFails
  <2>2. faults' \in 0..MaxFaults
    BY <1>6, FaultTypes, Zenon DEF ReleaseFails
  <2>3. Moves(w)
    BY <1>6, Zenon DEF ReleaseFails, jobVars, Moves, Outcome, UnregisteredPC, RegisteredPC
  <2>4. active' = active \/ Registers(w)
    BY <1>6, Zenon DEF ReleaseFails, Registers
  <2>5. QED
    BY <2>1, <2>2, <2>3, <2>4, MovingTypes, FrameTypes, Zenon
<1>7. QED
  BY <1>2, <1>3, <1>4, <1>5, <1>6, Zenon DEF WorkerFault

\* So do the steps of the request that creates a Run.
LEMMA SubmitTypes ==
  ASSUME TypeOK, Bookkeeping, NEW r \in Run, Submit(r)
  PROVE  TypeOK' /\ Bookkeeping'
<1>1. /\ NewRun \in RunRecord /\ Fail(NewRun) \in RunRecord
      /\ submission \in [Run -> SubmissionState]
  BY FreshRunTypes, TransitionTypes, Zenon DEF TypeOK, ControlTypeOK
<1>2. CASE SubmitCreate(r)
  <2>1. UNCHANGED <<cacheVars, coordVars, queueVars, procVars, workerVars, faults>>
    BY <1>2, Zenon DEF SubmitCreate, submissionFrame, cacheVars
  <2>2. StoreTypeOK'
    BY <1>2, StoreOperationTypes, Zenon DEF SubmitCreate, TypeOK
  <2>3. submission' \in [Run -> SubmissionState]
    BY <1>1, <1>2, Zenon DEF SubmitCreate, SubmissionState
  <2>4. QED
    BY <2>1, <2>2, <2>3, RestingTypes, FrameTypes, Zenon
<1>3. CASE SubmitCache(r)
  <2>1. UNCHANGED <<storeVars, coordVars, queueVars, procVars, workerVars>>
    BY <1>3, Zenon DEF SubmitCache, submissionFrame
  <2>2. ReadTypeOK' /\ faults' \in 0..MaxFaults
    BY <1>1, <1>3, EntryTypes, Zenon DEF SubmitCache, submissionFrame
  <2>3. submission' \in [Run -> SubmissionState]
    BY <1>1, <1>3, Zenon DEF SubmitCache, SubmissionState
  <2>4. QED
    BY <2>1, <2>2, <2>3, RestingTypes, FrameTypes, Zenon
<1>4. CASE SubmitEnqueue(r)
  <2>1. UNCHANGED <<storeVars, cacheVars, coordVars, procVars, workerVars, faults>>
    BY <1>4, Zenon DEF SubmitEnqueue, submissionFrame, cacheVars
  <2>2. QueueTypeOK' /\ Roomy'
    BY <1>4, QueueOperationTypes, Zenon DEF SubmitEnqueue, TypeOK, Bookkeeping, Roomy
  <2>3. submission' \in [Run -> SubmissionState]
    BY <1>1, <1>4, Zenon DEF SubmitEnqueue, SubmissionState
  <2>4. QED
    BY <2>1, <2>2, <2>3, RestingTypes, FrameTypes, Zenon
<1>5. CASE SubmitEnqueueError(r)
  <2>1. UNCHANGED <<storeVars, cacheVars, coordVars, procVars, workerVars>>
    BY <1>5, Zenon DEF SubmitEnqueueError, submissionFrame, cacheVars
  <2>2. QueueTypeOK' /\ Roomy'
    BY <1>5, QueueOperationTypes, Zenon
    DEF SubmitEnqueueError, TypeOK, Bookkeeping, Roomy
  <2>3. submission' \in [Run -> SubmissionState] /\ faults' \in 0..MaxFaults
    BY <1>1, <1>5, FaultTypes, Zenon DEF SubmitEnqueueError, SubmissionState
  <2>4. QED
    BY <2>1, <2>2, <2>3, RestingTypes, FrameTypes, Zenon
<1>6. CASE SubmitFail(r)
  <2>1. UNCHANGED <<coordVars, queueVars, procVars, workerVars>>
    BY <1>6, Zenon DEF SubmitFail, submissionFrame
  <2>2. StoreTypeOK'
    BY <1>1, <1>6, StoreOperationTypes, Zenon DEF SubmitFail, TypeOK
  <2>3. ReadTypeOK' /\ faults' \in 0..MaxFaults
    <3>1. CASE UNCHANGED <<cache, faults, reading>>
      BY <3>1, FaultTypes, Zenon DEF TypeOK, ReadTypeOK, CacheTypeOK
    <3>2. CASE DeleteEntry(r, FALSE) /\ UNCHANGED reading
      BY <1>1, <3>2, EntryTypes, Zenon
    <3>3. QED
      BY <1>6, <3>1, <3>2, Zenon DEF SubmitFail, submissionFrame
  <2>4. submission' \in [Run -> SubmissionState]
    BY <1>1, <1>6, Zenon DEF SubmitFail, SubmissionState
  <2>5. QED
    BY <2>1, <2>2, <2>3, <2>4, RestingTypes, FrameTypes, Zenon
<1>7. CASE SubmitAbandon(r)
  <2>1. UNCHANGED <<storeVars, cacheVars, coordVars, queueVars, procVars, workerVars>>
    BY <1>7, Zenon DEF SubmitAbandon, submissionFrame, cacheVars
  <2>2. submission' \in [Run -> SubmissionState] /\ faults' \in 0..MaxFaults
    BY <1>1, <1>7, FaultTypes, Zenon DEF SubmitAbandon, SubmissionState
  <2>3. QED
    BY <2>1, <2>2, RestingTypes, FrameTypes, Zenon
<1>8. QED
  BY <1>2, <1>3, <1>4, <1>5, <1>6, <1>7, Zenon DEF Submit

\* So do cancellation, recovery, shutdown and crashes of a process.
LEMMA ProcStepTypes ==
  ASSUME TypeOK, Bookkeeping, NEW p \in Proc, ProcStep(p)
  PROVE  TypeOK' /\ Bookkeeping'
<1>1. rpc[p] # "idle" => rrun[p] \in Run
  BY Zenon DEF TypeOK, ProcTypeOK, Bookkeeping
<1>2. CASE \E r \in Run : CancelRequest(p, r)
  <2>1. UNCHANGED <<cacheVars, coordVars, queueVars, workerVars, submission, faults>>
    BY <1>2, Zenon DEF CancelRequest
  <2>2. StoreTypeOK'
    BY <1>2, StoreOperationTypes, Zenon DEF CancelRequest, TypeOK
  <2>3. ProcTypeOK' /\ Recovering'
    BY <1>2 DEF CancelRequest, CancelStage, TypeOK, ProcTypeOK, Bookkeeping, Recovering
  <2>4. QED
    BY <2>1, <2>2, <2>3, RestingTypes, FrameTypes, Zenon
<1>3. CASE \E r \in Run : CancelCache(p, r)
  <2>1. UNCHANGED <<storeVars, coordVars, queueVars, workerVars, submission>>
    BY <1>3, Zenon DEF CancelCache
  <2>2. ReadTypeOK' /\ faults' \in 0..MaxFaults
    BY <1>3, EntryTypes, Zenon DEF CancelCache, TypeOK, StoreTypeOK
  <2>3. ProcTypeOK' /\ Recovering'
    BY <1>3 DEF CancelCache, CancelStage, TypeOK, ProcTypeOK, Bookkeeping, Recovering
  <2>4. QED
    BY <2>1, <2>2, <2>3, RestingTypes, FrameTypes, Zenon
<1>4. CASE \E r \in Run : CancelExecution(p, r)
  <2>1. UNCHANGED <<storeVars, cacheVars, coordVars, queueVars>>
    BY <1>4, Zenon DEF CancelExecution
  <2>2. ProcTypeOK' /\ Recovering'
    BY <1>4 DEF CancelExecution, TypeOK, ProcTypeOK, Bookkeeping, Recovering
  <2>3. JobTypeOK' /\ ControlTypeOK' /\ Busy'
    BY <1>4, ZenonT(30)
    DEF CancelExecution, jobVars, TypeOK, JobTypeOK, ControlTypeOK, Bookkeeping, Busy
  <2>4. QED
    BY <2>1, <2>2, <2>3, FrameTypes, Zenon
<1>5. CASE \E r \in Run : CancelRefused(p, r)
  <2>1. /\ UNCHANGED <<storeVars, coordVars, queueVars, procVars, workerVars>>
        /\ UNCHANGED <<submission, faults>>
    BY <1>5, Zenon DEF CancelRefused
  <2>2. ReadTypeOK'
    BY <1>5, Zenon
    DEF CancelRefused, CacheSet, TypeOK, StoreTypeOK, ReadTypeOK, CacheTypeOK
  <2>3. QED
    BY <2>1, <2>2, RestingTypes, FrameTypes, Zenon
<1>6. CASE StartProcess(p)
  <2>1. /\ UNCHANGED <<storeVars, cacheVars, coordVars, queueVars, workerVars>>
        /\ UNCHANGED <<submission, faults>>
    BY <1>6, Zenon DEF StartProcess
  <2>2. ProcTypeOK' /\ Recovering'
    BY <1>6
    DEF StartProcess, ListPendingRuns, TypeOK, ProcTypeOK, ProcState, Bookkeeping,
        Recovering
  <2>3. QED
    BY <2>1, <2>2, RestingTypes, FrameTypes, Zenon
<1>7. CASE \E r \in Run : RecoverQueued(p, r)
  <2>1. UNCHANGED <<storeVars, cacheVars, coordVars, workerVars, submission, faults>>
    BY <1>7, Zenon DEF RecoverQueued
  <2>2. QueueTypeOK' /\ Roomy'
    BY <1>7, QueueOperationTypes, Zenon DEF RecoverQueued, TypeOK, Bookkeeping, Roomy
  <2>3. ProcTypeOK' /\ Recovering'
    BY <1>7, ZenonT(60) DEF RecoverQueued, TypeOK, ProcTypeOK, Bookkeeping, Recovering
  <2>4. QED
    BY <2>1, <2>2, <2>3, RestingTypes, FrameTypes, Zenon
<1>8. CASE \E r \in Run : RecoverAcquire(p, r)
  <2>1. UNCHANGED <<storeVars, cacheVars, queueVars, workerVars, submission, faults>>
    BY <1>8, Zenon DEF RecoverAcquire
  <2>2. CoordTypeOK'
    BY <1>8, CoordOperationTypes, Zenon DEF RecoverAcquire, TypeOK, coordVars
  <2>3. ProcTypeOK' /\ Recovering'
    BY <1>8, NoneAssumption
    DEF RecoverAcquire, TypeOK, ProcTypeOK, RecoverPC, Bookkeeping, Recovering
  <2>4. QED
    BY <2>1, <2>2, <2>3, RestingTypes, FrameTypes, Zenon
<1>9. CASE RecoverReset(p)
  <2>1. UNCHANGED <<cacheVars, coordVars, queueVars, workerVars, submission, faults>>
    BY <1>9, Zenon DEF RecoverReset
  <2>2. StoreTypeOK'
    <3>1. rtok[p] \in Nat
      BY BoundsAssumption DEF TypeOK, ProcTypeOK
    <3>2. QED
      BY <1>1, <1>9, <3>1, StoreOperationTypes, Zenon DEF RecoverReset, TypeOK
  <2>3. ProcTypeOK' /\ Recovering'
    BY <1>1, <1>9, Zenon
    DEF RecoverReset, TypeOK, ProcTypeOK, RecoverPC, Bookkeeping, Recovering
  <2>4. QED
    BY <2>1, <2>2, <2>3, RestingTypes, FrameTypes, Zenon
<1>10. CASE RecoverInvalidate(p)
  <2>1. UNCHANGED <<storeVars, coordVars, queueVars, workerVars, submission>>
    BY <1>10, Zenon DEF RecoverInvalidate
  <2>2. ReadTypeOK' /\ faults' \in 0..MaxFaults
    BY <1>1, <1>10, FreshRunTypes, EntryTypes, Zenon DEF RecoverInvalidate
  <2>3. ProcTypeOK' /\ Recovering'
    BY <1>1, <1>10, Zenon
    DEF RecoverInvalidate, TypeOK, ProcTypeOK, RecoverPC, Bookkeeping, Recovering
  <2>4. QED
    BY <2>1, <2>2, <2>3, RestingTypes, FrameTypes, Zenon
<1>11. CASE RecoverRelease(p)
  <2>1. UNCHANGED <<storeVars, cacheVars, queueVars, workerVars, submission, faults>>
    BY <1>11, Zenon DEF RecoverRelease
  <2>2. CoordTypeOK'
    BY <1>1, <1>11, CoordOperationTypes, Zenon DEF RecoverRelease, TypeOK, ProcTypeOK
  <2>3. ProcTypeOK' /\ Recovering'
    BY <1>1, <1>11, BoundsAssumption
    DEF RecoverRelease, TypeOK, ProcTypeOK, RecoverPC, Bookkeeping, Recovering
  <2>4. QED
    BY <2>1, <2>2, <2>3, RestingTypes, FrameTypes, Zenon
<1>12. CASE RecoverEnqueue(p)
  <2>1. UNCHANGED <<storeVars, cacheVars, coordVars, workerVars, submission, faults>>
    BY <1>12, Zenon DEF RecoverEnqueue
  <2>2. QueueTypeOK' /\ Roomy'
    BY <1>1, <1>12, QueueOperationTypes, Zenon
    DEF RecoverEnqueue, TypeOK, Bookkeeping, Roomy
  <2>3. ProcTypeOK' /\ Recovering'
    BY <1>12, Zenon
    DEF RecoverEnqueue, TypeOK, ProcTypeOK, RecoverPC, Bookkeeping, Recovering
  <2>4. QED
    BY <2>1, <2>2, <2>3, RestingTypes, FrameTypes, Zenon
<1>13. CASE RecoverDone(p) \/ Shutdown(p) \/ StopProcess(p)
  <2>1. UNCHANGED <<storeVars, cacheVars, coordVars, queueVars, workerVars, submission>>
    BY <1>13, Zenon DEF RecoverDone, Shutdown, StopProcess
  <2>2. ProcTypeOK' /\ Recovering'
    BY <1>13, Zenon
    DEF RecoverDone, Shutdown, StopProcess, TypeOK, ProcTypeOK, ProcState, Bookkeeping,
        Recovering
  <2>3. faults' \in 0..MaxFaults
    BY <1>13, FaultTypes, Zenon DEF RecoverDone, Shutdown, StopProcess
  <2>4. QED
    BY <2>1, <2>2, <2>3, RestingTypes, FrameTypes, Zenon
<1>14. CASE Crash(p)
  <2>1. UNCHANGED <<storeVars, cacheVars, coordVars, queueVars, submission>>
    BY <1>14, Zenon DEF Crash
  <2>2. ProcTypeOK' /\ Recovering'
    BY <1>14, NoneAssumption, BoundsAssumption
    DEF Crash, TypeOK, ProcTypeOK, ProcState, RecoverPC, Bookkeeping, Recovering
  <2>3. JobTypeOK' /\ ControlTypeOK' /\ Busy'
    <3>1. faults' \in 0..MaxFaults
      BY <1>14, FaultTypes, Zenon DEF Crash
    <3>2. active' \in [Proc -> [Run -> Worker \union {None}]]
      BY <1>14, Zenon DEF Crash, TypeOK, ControlTypeOK
    <3>3. QED
      BY <1>14, <2>1, <3>1, <3>2, ResetTypes, Zenon DEF Crash
  <2>4. QED
    BY <2>1, <2>2, <2>3, FrameTypes, Zenon
<1>15. QED
  BY <1>2, <1>3, <1>4, <1>5, <1>6, <1>7, <1>8, <1>9, <1>10, <1>11, <1>12, <1>13, <1>14,
     Zenon
  DEF ProcStep, RecoverStep

\* So do deliveries.
LEMMA DeliverTypes ==
  ASSUME TypeOK, Bookkeeping, NEW w \in Worker, NEW r \in Run, NEW m \in 1..MaxMessages,
         Deliver(w, r, m)
  PROVE  TypeOK' /\ Bookkeeping'
<1>1. UNCHANGED <<storeVars, cacheVars, coordVars, queueVars, procVars>>
  BY Zenon DEF Deliver, localFrame
<1>2. JobTypeOK'
  BY DEF Deliver, TypeOK, JobTypeOK
<1>3. ControlTypeOK'
  BY Zenon DEF Deliver, Goto, localFrame, TypeOK, ControlTypeOK, ExecutePC, UnregisteredPC
<1>4. Busy'
  BY NoneAssumption, Zenon
  DEF Deliver, Goto, TypeOK, JobTypeOK, ControlTypeOK, Bookkeeping, Busy
<1>5. QED
  BY <1>1, <1>2, <1>3, <1>4, FrameTypes, Zenon

\* So does the environment.
LEMMA EnvironmentTypes ==
  ASSUME TypeOK, Bookkeeping, Environment
  PROVE  TypeOK' /\ Bookkeeping'
<1>1. ASSUME NEW r \in Run, ExpireLease(r) PROVE TypeOK' /\ Bookkeeping'
  <2>1. UNCHANGED <<storeVars, cacheVars, queueVars, procVars, workerVars, submission>>
    BY <1>1, Zenon DEF ExpireLease
  <2>2. CoordTypeOK'
    BY <1>1, CoordOperationTypes, Zenon DEF ExpireLease, TypeOK
  <2>3. faults' \in 0..MaxFaults
    BY <1>1, FaultTypes, Zenon DEF ExpireLease
  <2>4. QED
    BY <2>1, <2>2, <2>3, RestingTypes, FrameTypes, Zenon
<1>2. ASSUME NEW r \in Run, ForgetMessageID(r) PROVE TypeOK' /\ Bookkeeping'
  <2>1. /\ UNCHANGED <<storeVars, cacheVars, coordVars, procVars, workerVars>>
        /\ UNCHANGED <<submission, faults>>
    BY <1>2, Zenon DEF ForgetMessageID
  <2>2. QueueTypeOK' /\ Roomy'
    BY <1>2, QueueOperationTypes, Zenon DEF ForgetMessageID, TypeOK, Bookkeeping, Roomy
  <2>3. QED
    BY <2>1, <2>2, RestingTypes, FrameTypes, Zenon
<1>3. ASSUME NEW r \in Run, ExpireEntry(r) \/ ReadMiss(r) \/ ReadFill(r)
      PROVE  TypeOK' /\ Bookkeeping'
  <2>1. UNCHANGED <<storeVars, coordVars, queueVars, procVars, workerVars, submission>>
    BY <1>3, Zenon DEF ExpireEntry, ReadMiss, ReadFill
  <2>2. ReadTypeOK'
    BY <1>3, FreshRunTypes, Zenon
    DEF ExpireEntry, ReadMiss, ReadFill, CacheDelete, CacheSet, TypeOK, StoreTypeOK,
        ReadTypeOK, CacheTypeOK
  <2>3. faults' \in 0..MaxFaults
    BY <1>3, FaultTypes, Zenon DEF ExpireEntry, ReadMiss, ReadFill
  <2>4. QED
    BY <2>1, <2>2, <2>3, RestingTypes, FrameTypes, Zenon
<1>4. CASE RestoreCoordinator
  <2>1. UNCHANGED <<storeVars, queueVars, procVars, workerVars, submission>>
    BY <1>4, Zenon DEF RestoreCoordinator
  <2>2. CoordTypeOK'
    BY <1>4, BoundsAssumption
    DEF RestoreCoordinator, RestoreOlderSequence, TypeOK, CoordTypeOK
  <2>3. ReadTypeOK'
    BY <1>4, FreshRunTypes, Zenon DEF RestoreCoordinator, TypeOK, ReadTypeOK, CacheTypeOK
  <2>4. faults' \in 0..MaxFaults
    BY <1>4, FaultTypes, Zenon DEF RestoreCoordinator
  <2>5. QED
    BY <2>1, <2>2, <2>3, <2>4, RestingTypes, FrameTypes, Zenon
<1>5. QED
  BY <1>1, <1>2, <1>3, <1>4, Zenon DEF Environment

\* The initial state is well typed.
LEMMA InitTypes == Init => TypeOK /\ Bookkeeping
<1> SUFFICES ASSUME Init PROVE TypeOK /\ Bookkeeping
  OBVIOUS
<1>1. StoreTypeOK /\ CoordTypeOK /\ QueueTypeOK
  BY FreshRunTypes, BoundsAssumption
  DEF Init, StoreInit, LInit, CoordInit, QueueInit, StoreTypeOK, CoordTypeOK, QueueTypeOK
<1>2. ReadTypeOK
  BY FreshRunTypes, Zenon DEF Init, CacheInit, ReadTypeOK, CacheTypeOK
<1>3. ProcTypeOK /\ ControlTypeOK
  BY BoundsAssumption
  DEF Init, ProcTypeOK, ControlTypeOK, ProcState, RecoverPC, SubmissionState, ExecutePC
<1>4. JobTypeOK
  BY FreshRunTypes, BoundsAssumption DEF Init, JobTypeOK, Outcome
<1>5. Bookkeeping
  BY BoundsAssumption DEF Init, QueueInit, Bookkeeping
<1>6. QED
  BY <1>1, <1>2, <1>3, <1>4, <1>5, Zenon DEF TypeOK

\* So is every state that a step leads to.
LEMMA NextTypes == TypeOK /\ Bookkeeping /\ [Next]_vars => TypeOK' /\ Bookkeeping'
<1> SUFFICES ASSUME TypeOK, Bookkeeping, [Next]_vars PROVE TypeOK' /\ Bookkeeping'
  OBVIOUS
<1>1. CASE UNCHANGED vars
  BY <1>1, Zenon
  DEF vars, TypeOK, Bookkeeping, StoreTypeOK, ReadTypeOK, CacheTypeOK, CoordTypeOK,
      QueueTypeOK, ProcTypeOK, JobTypeOK, ControlTypeOK
<1>2. CASE Next
  BY <1>2, SubmitTypes, WorkerStepTypes, WorkerFaultTypes, ProcStepTypes, DeliverTypes,
     EnvironmentTypes, Zenon
  DEF Next
<1>3. QED
  BY <1>1, <1>2, Zenon

\* Every variable stays within its type: no Run ever counts more attempts than
\* its limit, whatever the processes, the queue and the coordinator do.
THEOREM TypeCorrect == Spec => [](TypeOK /\ Bookkeeping)
  BY InitTypes, NextTypes, PTL DEF Spec

-----------------------------------------------------------------------------
(* Steps that leave the Run table alone.                                   *)

\* A slot that a step does not touch.
Rests(v) ==
  pc'[v] = pc[v] /\ job'[v] = job[v] /\ local'[v] = local[v] /\ fen'[v] = fen[v]

\* Only slot w moves, in the execution it is at, and no Run is written.
Turns(w) ==
  /\ UNCHANGED <<storeVars, submission>>
  /\ fen'[w] = fen[w] /\ job'[w] = job[w]
  /\ \A v \in Worker \ {w} : Rests(v)

\* No finished Run is written.
Finality == \A r \in Run : run[r].status \in TerminalStatus => run'[r] = run[r]

\* What is in the cache, or on its way there, was once stored.
CacheOK == \A r \in Run : CacheWasStored(r)

\* What a slot may have known of a Run survives a step on that Run unless it
\* is the holder of the current fence, because fences only grow.
LEMMA RestingSlot ==
  ASSUME TypeOK, Bookkeeping, StoreTypeOK', NEW v \in Worker, SlotOK(v), Rests(v),
         NEW r \in Run,
         \A q \in Run \ {r} : run'[q] = run[q] /\ fence'[q] = fence[q],
         fence'[r] >= fence[r],
         Finality,
         \/ run'[r] = run[r]
         \/ run'[r].status = "canceled"
         \/ job[v] = r => (fen[v] = 0 \/ fen[v] # fence'[r])
  PROVE  SlotOK(v)'
<1>1. /\ pc[v] # "idle" => job[v] \in Run
      /\ fen[v] \in Nat
      /\ \A q \in Run : fence[q] \in Nat /\ fence'[q] \in Nat
  BY Zenon DEF TypeOK, JobTypeOK, Bookkeeping, StoreTypeOK
<1>2. CASE pc[v] = "idle"
  BY <1>2 DEF Rests, SlotOK, FenceIsClaimed, CopyIsUsable, InSync, Current, Claimed,
              RegisteredPC, AttemptPC
<1>3. CASE pc[v] # "idle" /\ job[v] # r
  BY <1>1, <1>3, ZenonT(30)
  DEF Rests, SlotOK, FenceIsClaimed, CopyIsUsable, WasStored, InSync, Current, Claimed,
      CopyFollows
<1>4. CASE pc[v] # "idle" /\ job[v] = r
  <2>1. FenceIsClaimed(v)'
    BY <1>1, <1>4 DEF Rests, SlotOK, FenceIsClaimed
  <2>2. CopyIsUsable(v)'
    BY <1>1, <1>4, Zenon
    DEF Rests, SlotOK, CopyIsUsable, WasStored, Finality, TerminalStatus
  <2>3. InSync(v)'
    <3>1. CASE run'[r] = run[r]
      BY <1>1, <1>4, <3>1
      DEF Rests, SlotOK, FenceIsClaimed, InSync, Current, Claimed, CopyFollows
    <3>2. CASE run'[r] # run[r]
      BY <1>1, <1>4, <3>2 DEF Rests, InSync, Current, Claimed
    <3>3. QED
      BY <3>1, <3>2, Zenon
  <2>4. QED
    BY <2>1, <2>2, <2>3, Zenon DEF SlotOK
<1>5. QED
  BY <1>2, <1>3, <1>4, Zenon

\* A slot that is free, or frees itself, has nothing to be wrong about.
LEMMA FreeSlot ==
  ASSUME NEW v \in Worker, pc'[v] = "idle", fen'[v] = 0
  PROVE  SlotOK(v)'
  BY DEF SlotOK, FenceIsClaimed, CopyIsUsable, InSync, Current, Claimed, RegisteredPC,
         AttemptPC

\* An entry nobody touches stays right, because finished Runs do not change.
LEMMA RestingCache ==
  ASSUME ExecutionInv, UNCHANGED cacheVars, Finality
  PROVE  CacheOK'
  BY Zenon DEF ExecutionInv, cacheVars, CacheOK, CacheWasStored, WasStored, Finality

\* A Run that was once stored may be cached at any time, and an entry dropped.
LEMMA EntryStep ==
  ASSUME ExecutionInv, run' = run, UNCHANGED reading,
         NEW r \in Run, NEW x, NEW canceled, WasStored(r, x),
         SetEntry(r, x, canceled) \/ DeleteEntry(r, canceled)
  PROVE  CacheOK'
<1>1. cache \in [Run -> RunRecord]
  BY Zenon DEF ExecutionInv, TypeOK, ReadTypeOK, CacheTypeOK
<1>2. WasStored(r, NoRunYet)
  BY DEF WasStored, NoRunYet, TerminalStatus
<1>3. cache' = cache \/ \E y : WasStored(r, y) /\ cache' = [cache EXCEPT ![r] = y]
  BY <1>2, Zenon DEF SetEntry, DeleteEntry, CacheSet, CacheDelete
<1>4. QED
  BY <1>1, <1>3, Zenon DEF ExecutionInv, CacheOK, CacheWasStored, WasStored

\* A step that writes no Run and claims nothing has to answer only for the
\* slots it moves, what it caches and the dead letters it publishes.
LEMMA QuietStep ==
  ASSUME ExecutionInv, TypeOK', Bookkeeping', UNCHANGED <<storeVars, submission>>,
         UNCHANGED cacheVars \/ CacheOK',
         \A r \in dlq' : r \in dlq \/ run[r].status = "failed",
         \A v \in Worker :
           \/ Rests(v)
           \/ SlotOK(v)' /\ (fen'[v] = 0 \/ (fen'[v] = fen[v] /\ job'[v] = job[v]))
  PROVE  ExecutionInv' /\ run' = run
<1>1. run' = run /\ fence' = fence /\ Finality
  BY Zenon DEF storeVars, Finality
<1>2. \A v \in Worker : SlotOK(v)'
  <2> SUFFICES ASSUME NEW v \in Worker, Rests(v) PROVE SlotOK(v)'
    OBVIOUS
  <2>1. CASE pc[v] = "idle"
    BY <2>1 DEF Rests, ExecutionInv, SlotOK, FenceIsClaimed, CopyIsUsable, InSync,
                Current, Claimed, RegisteredPC, AttemptPC
  <2>2. CASE pc[v] # "idle"
    <3>1. job[v] \in Run /\ fence[job[v]] \in Nat /\ SlotOK(v) /\ StoreTypeOK'
      BY <2>2, Zenon DEF ExecutionInv, TypeOK, JobTypeOK, StoreTypeOK, Bookkeeping
    <3>2. fence'[job[v]] >= fence[job[v]]
      BY <1>1, <3>1
    <3>3. QED
      BY <1>1, <3>1, <3>2, RestingSlot, Zenon DEF ExecutionInv
  <2>3. QED
    BY <2>1, <2>2, Zenon
<1>3. FencesAreUnique'
  BY DEF Rests, ExecutionInv, FencesAreUnique, Claimed
<1>4. \A r \in Run : UnclaimedIsFresh(r)'
  BY <1>1, Zenon DEF ExecutionInv, UnclaimedIsFresh
<1>5. CacheOK'
  BY <1>1, RestingCache, Zenon
<1>6. DeadLettersHaveFailed'
  BY <1>1, Zenon DEF ExecutionInv, DeadLettersHaveFailed
<1>7. QED
  BY <1>1, <1>2, <1>3, <1>4, <1>5, <1>6, Zenon DEF ExecutionInv, CacheOK

\* The statements of execute that write no Run and claim nothing.
QuietStatement(w) ==
  \/ Load(w)
  \/ LoadFill(w)
  \/ Acquire(w)
  \/ Register(w)
  \/ Reload(w)
  \/ ReloadFill(w)
  \/ Resolve(w)
  \/ CheckLease(w, "top", "check")
  \/ BeginAttempt(w)
  \/ PersistCache(w)
  \/ Execute(w)
  \/ CheckLease(w, "post", "postctx")
  \/ CheckCtx(w)
  \/ AfterAttempt(w)
  \/ DeadLetter(w, "deadletter", "cleanup")
  \/ DeadLetter(w, "redletter", "settle")
  \/ Backoff(w)
  \/ CheckLease(w, "wake", "wakectx")
  \/ WakeCtx(w)
  \/ Cleanup(w)
  \/ Release(w)

\* They keep the invariant and leave the Run table alone.
LEMMA QuietWorkerSteps ==
  ASSUME ExecutionInv, TypeOK', Bookkeeping', NEW w \in Worker, QuietStatement(w)
  PROVE  ExecutionInv' /\ run' = run
<1>1. /\ pc \in [Worker -> ExecutePC] /\ job \in [Worker -> Run \union {None}]
      /\ local \in [Worker -> RunRecord] /\ fen \in [Worker -> Nat]
      /\ pc[w] # "idle" => job[w] \in Run
      /\ SlotOK(w)
  BY Zenon DEF ExecutionInv, TypeOK, JobTypeOK, ControlTypeOK, Bookkeeping
<1>2. job[w] \in Run => WasStored(job[w], cache[job[w]])
  BY Zenon DEF ExecutionInv, CacheWasStored
<1>3. CASE Load(w)
  <2>1. Turns(w) /\ UNCHANGED cacheVars /\ dlq' = dlq
    BY <1>1, <1>3, Zenon
    DEF Load, Dispatch, Return, Goto, queueVars, Turns, Rests
  <2>2. SlotOK(w)'
    BY <1>1, <1>2, <1>3, Zenon
    DEF Load, Dispatch, Return, Goto, storeVars, SlotOK, FenceIsClaimed, CopyIsUsable,
        WasStored, InSync, Current, Claimed, CopyFollows, TerminalStatus,
        ActiveStatus, RegisteredPC, AttemptPC
  <2>3. QED
    BY <2>1, <2>2, QuietStep, Zenon DEF Turns
<1>4. CASE LoadFill(w)
  <2>1. Turns(w) /\ dlq' = dlq
    BY <1>1, <1>4, Zenon
    DEF LoadFill, Dispatch, Return, Goto, queueVars, Turns, Rests
  <2>2. CacheOK'
    BY <1>1, <1>4, <2>1, EntryStep, Zenon
    DEF LoadFill, Turns, storeVars, SlotOK, CopyIsUsable
  <2>3. SlotOK(w)'
    BY <1>1, <1>4, Zenon
    DEF LoadFill, Dispatch, Return, Goto, storeVars, SlotOK, FenceIsClaimed,
        CopyIsUsable, WasStored, InSync, Current, Claimed, CopyFollows,
        TerminalStatus, ActiveStatus, RegisteredPC, AttemptPC
  <2>4. QED
    BY <2>1, <2>2, <2>3, QuietStep, Zenon DEF Turns
<1>5. CASE Acquire(w)
  <2>1. Turns(w) /\ UNCHANGED cacheVars /\ dlq' = dlq
    BY <1>1, <1>5, Zenon
    DEF Acquire, Return, Goto, queueVars, Turns, Rests
  <2>2. SlotOK(w)'
    BY <1>1, <1>2, <1>5, Zenon
    DEF Acquire, Return, Goto, storeVars, SlotOK, FenceIsClaimed, CopyIsUsable,
        WasStored, InSync, Current, Claimed, CopyFollows, TerminalStatus,
        ActiveStatus, RegisteredPC, AttemptPC
  <2>3. QED
    BY <2>1, <2>2, QuietStep, Zenon DEF Turns
<1>6. CASE Register(w)
  <2>1. Turns(w) /\ UNCHANGED cacheVars /\ dlq' = dlq
    BY <1>1, <1>6, Zenon
    DEF Register, jobVars, Goto, localFrame, queueVars, Turns, Rests
  <2>2. SlotOK(w)'
    BY <1>1, <1>2, <1>6, Zenon
    DEF Register, jobVars, Goto, localFrame, storeVars, SlotOK, FenceIsClaimed,
        CopyIsUsable, WasStored, InSync, Current, Claimed, CopyFollows,
        TerminalStatus, ActiveStatus, RegisteredPC, AttemptPC
  <2>3. QED
    BY <2>1, <2>2, QuietStep, Zenon DEF Turns
<1>7. CASE Reload(w)
  <2>1. Turns(w) /\ UNCHANGED cacheVars /\ dlq' = dlq
    BY <1>1, <1>7, Zenon
    DEF Reload, Continue, Return, Goto, queueVars, Turns, Rests
  <2>2. SlotOK(w)'
    BY <1>1, <1>2, <1>7, Zenon
    DEF Reload, Continue, Return, Goto, storeVars, SlotOK, FenceIsClaimed,
        CopyIsUsable, WasStored, InSync, Current, Claimed, CopyFollows,
        TerminalStatus, ActiveStatus, RegisteredPC, AttemptPC
  <2>3. QED
    BY <2>1, <2>2, QuietStep, Zenon DEF Turns
<1>8. CASE ReloadFill(w)
  <2>1. Turns(w) /\ dlq' = dlq
    BY <1>1, <1>8, Zenon
    DEF ReloadFill, Continue, Return, Goto, queueVars, Turns, Rests
  <2>2. CacheOK'
    BY <1>1, <1>8, <2>1, EntryStep, Zenon
    DEF ReloadFill, Turns, storeVars, SlotOK, CopyIsUsable
  <2>3. SlotOK(w)'
    BY <1>1, <1>8, Zenon
    DEF ReloadFill, Continue, Return, Goto, storeVars, SlotOK, FenceIsClaimed,
        CopyIsUsable, WasStored, InSync, Current, Claimed, CopyFollows,
        TerminalStatus, ActiveStatus, RegisteredPC, AttemptPC
  <2>4. QED
    BY <2>1, <2>2, <2>3, QuietStep, Zenon DEF Turns
<1>9. CASE Resolve(w)
  <2>1. Turns(w) /\ UNCHANGED cacheVars /\ dlq' = dlq
    BY <1>1, <1>9, Zenon
    DEF Resolve, FailLocal, Return, Goto, localFrame, queueVars, Turns, Rests
  <2>2. pc'[w] = "persist" => local'[w].status = "failed"
    BY <1>1, <1>9
    DEF Resolve, FailLocal, Return, Goto, Succeed, Fail, RunRecord
  <2>3. SlotOK(w)'
    BY <1>1, <1>9, <2>2, Zenon
    DEF Resolve, FailLocal, Return, Goto, localFrame, storeVars, SlotOK,
        FenceIsClaimed, CopyIsUsable, WasStored, InSync, Current, Claimed,
        CopyFollows, TerminalStatus, ActiveStatus, RegisteredPC, AttemptPC, CanSucceed
  <2>4. QED
    BY <2>1, <2>3, QuietStep, Zenon DEF Turns
<1>10. CASE CheckLease(w, "top", "check")
  <2>1. Turns(w) /\ UNCHANGED cacheVars /\ dlq' = dlq
    BY <1>1, <1>10, Zenon
    DEF CheckLease, Return, Goto, localFrame, queueVars, Turns, Rests
  <2>2. SlotOK(w)'
    BY <1>1, <1>2, <1>10, Zenon
    DEF CheckLease, Return, Goto, localFrame, storeVars, SlotOK, FenceIsClaimed,
        CopyIsUsable, WasStored, InSync, Current, Claimed, CopyFollows,
        TerminalStatus, ActiveStatus, RegisteredPC, AttemptPC
  <2>3. QED
    BY <2>1, <2>2, QuietStep, Zenon DEF Turns
<1>11. CASE BeginAttempt(w)
  <2>1. Turns(w) /\ UNCHANGED cacheVars /\ dlq' = dlq
    BY <1>1, <1>11, Zenon
    DEF BeginAttempt, Return, Goto, localFrame, queueVars, Turns, Rests
  <2>2. pc'[w] = "persist" => local'[w].status = "running" /\ local'[w].attempt > 0
    BY <1>1, <1>11
    DEF BeginAttempt, Return, Goto, CanRetry, Start, Retry, RunRecord
  <2>3. SlotOK(w)'
    BY <1>1, <1>11, <2>2, Zenon
    DEF BeginAttempt, Return, Goto, localFrame, storeVars, SlotOK, FenceIsClaimed,
        CopyIsUsable, WasStored, InSync, Current, Claimed, CopyFollows,
        TerminalStatus, ActiveStatus, RegisteredPC, AttemptPC
  <2>4. QED
    BY <2>1, <2>3, QuietStep, Zenon DEF Turns
<1>12. CASE PersistCache(w)
  <2>1. Turns(w) /\ dlq' = dlq
    BY <1>1, <1>12, Zenon
    DEF PersistCache, Return, Goto, queueVars, Turns, Rests
  <2>2. CacheOK'
    BY <1>1, <1>12, <2>1, EntryStep, Zenon
    DEF PersistCache, Turns, storeVars, SlotOK, CopyIsUsable
  <2>3. SlotOK(w)'
    BY <1>1, <1>12, Zenon
    DEF PersistCache, Return, Goto, storeVars, SlotOK, FenceIsClaimed, CopyIsUsable,
        WasStored, InSync, Current, Claimed, CopyFollows, TerminalStatus,
        ActiveStatus, RegisteredPC, AttemptPC
  <2>4. QED
    BY <2>1, <2>2, <2>3, QuietStep, Zenon DEF Turns
<1>13. CASE Execute(w)
  <2>1. Turns(w) /\ UNCHANGED cacheVars /\ dlq' = dlq
    BY <1>1, <1>13, Zenon
    DEF Execute, Return, Goto, localFrame, queueVars, Turns, Rests
  <2>2. SlotOK(w)'
    BY <1>1, <1>2, <1>13, Zenon
    DEF Execute, Return, Goto, localFrame, storeVars, SlotOK, FenceIsClaimed,
        CopyIsUsable, WasStored, InSync, Current, Claimed, CopyFollows,
        TerminalStatus, ActiveStatus, RegisteredPC, AttemptPC
  <2>3. QED
    BY <2>1, <2>2, QuietStep, Zenon DEF Turns
<1>14. CASE CheckLease(w, "post", "postctx")
  <2>1. Turns(w) /\ UNCHANGED cacheVars /\ dlq' = dlq
    BY <1>1, <1>14, Zenon
    DEF CheckLease, Return, Goto, localFrame, queueVars, Turns, Rests
  <2>2. SlotOK(w)'
    BY <1>1, <1>2, <1>14, Zenon
    DEF CheckLease, Return, Goto, localFrame, storeVars, SlotOK, FenceIsClaimed,
        CopyIsUsable, WasStored, InSync, Current, Claimed, CopyFollows,
        TerminalStatus, ActiveStatus, RegisteredPC, AttemptPC
  <2>3. QED
    BY <2>1, <2>2, QuietStep, Zenon DEF Turns
<1>15. CASE CheckCtx(w)
  <2>1. Turns(w) /\ UNCHANGED cacheVars /\ dlq' = dlq
    BY <1>1, <1>15, Zenon
    DEF CheckCtx, Return, Goto, localFrame, queueVars, Turns, Rests
  <2>2. SlotOK(w)'
    BY <1>1, <1>2, <1>15, Zenon
    DEF CheckCtx, Return, Goto, localFrame, storeVars, SlotOK, FenceIsClaimed,
        CopyIsUsable, WasStored, InSync, Current, Claimed, CopyFollows,
        TerminalStatus, ActiveStatus, RegisteredPC, AttemptPC
  <2>3. QED
    BY <2>1, <2>2, QuietStep, Zenon DEF Turns
<1>16. CASE AfterAttempt(w)
  <2>1. Turns(w) /\ UNCHANGED cacheVars /\ dlq' = dlq
    BY <1>1, <1>16, Zenon
    DEF AfterAttempt, FailLocal, Return, Goto, localFrame, queueVars, Turns, Rests
  <2>2. pc'[w] = "persist" =>
          \/ local'[w].status = "failed"
          \/ local'[w].status = "succeeded" /\ local'[w] = Succeed(local[w])
    BY <1>1, <1>16
    DEF AfterAttempt, FailLocal, Return, Goto, Succeed, Fail, RunRecord
  <2>3. SlotOK(w)'
    BY <1>1, <1>16, <2>2, Zenon
    DEF AfterAttempt, FailLocal, Return, Goto, localFrame, storeVars, SlotOK,
        FenceIsClaimed, CopyIsUsable, WasStored, InSync, Current, Claimed,
        CopyFollows, TerminalStatus, ActiveStatus, RegisteredPC, AttemptPC, CanSucceed
  <2>4. QED
    BY <2>1, <2>3, QuietStep, Zenon DEF Turns
<1>17. CASE DeadLetter(w, "deadletter", "cleanup")
  <2>1. /\ Turns(w) /\ UNCHANGED cacheVars
        /\ \A r \in dlq' : r \in dlq \/ run[r].status = "failed"
    BY <1>1, <1>17, Zenon
    DEF DeadLetter, Return, Goto, PublishDeadLetter, Turns, Rests, SlotOK,
        CopyIsUsable
  <2>2. SlotOK(w)'
    BY <1>1, <1>17, Zenon
    DEF DeadLetter, Return, Goto, storeVars, SlotOK, FenceIsClaimed, CopyIsUsable,
        WasStored, InSync, Current, Claimed, CopyFollows, TerminalStatus,
        ActiveStatus, RegisteredPC, AttemptPC
  <2>3. QED
    BY <2>1, <2>2, QuietStep, Zenon DEF Turns
<1>18. CASE DeadLetter(w, "redletter", "settle")
  <2>1. /\ Turns(w) /\ UNCHANGED cacheVars
        /\ \A r \in dlq' : r \in dlq \/ run[r].status = "failed"
    BY <1>1, <1>18, Zenon
    DEF DeadLetter, Return, Goto, PublishDeadLetter, Turns, Rests, SlotOK,
        CopyIsUsable
  <2>2. SlotOK(w)'
    BY <1>1, <1>18, Zenon
    DEF DeadLetter, Return, Goto, storeVars, SlotOK, FenceIsClaimed, CopyIsUsable,
        WasStored, InSync, Current, Claimed, CopyFollows, TerminalStatus,
        ActiveStatus, RegisteredPC, AttemptPC
  <2>3. QED
    BY <2>1, <2>2, QuietStep, Zenon DEF Turns
<1>19. CASE Backoff(w)
  <2>1. Turns(w) /\ UNCHANGED cacheVars /\ dlq' = dlq
    BY <1>1, <1>19, Zenon
    DEF Backoff, Return, Goto, localFrame, queueVars, Turns, Rests
  <2>2. SlotOK(w)'
    BY <1>1, <1>2, <1>19, Zenon
    DEF Backoff, Return, Goto, localFrame, storeVars, SlotOK, FenceIsClaimed,
        CopyIsUsable, WasStored, InSync, Current, Claimed, CopyFollows,
        TerminalStatus, ActiveStatus, RegisteredPC, AttemptPC
  <2>3. QED
    BY <2>1, <2>2, QuietStep, Zenon DEF Turns
<1>20. CASE CheckLease(w, "wake", "wakectx")
  <2>1. Turns(w) /\ UNCHANGED cacheVars /\ dlq' = dlq
    BY <1>1, <1>20, Zenon
    DEF CheckLease, Return, Goto, localFrame, queueVars, Turns, Rests
  <2>2. SlotOK(w)'
    BY <1>1, <1>2, <1>20, Zenon
    DEF CheckLease, Return, Goto, localFrame, storeVars, SlotOK, FenceIsClaimed,
        CopyIsUsable, WasStored, InSync, Current, Claimed, CopyFollows,
        TerminalStatus, ActiveStatus, RegisteredPC, AttemptPC
  <2>3. QED
    BY <2>1, <2>2, QuietStep, Zenon DEF Turns
<1>21. CASE WakeCtx(w)
  <2>1. Turns(w) /\ UNCHANGED cacheVars /\ dlq' = dlq
    BY <1>1, <1>21, Zenon
    DEF WakeCtx, Return, Goto, localFrame, queueVars, Turns, Rests
  <2>2. SlotOK(w)'
    BY <1>1, <1>2, <1>21, Zenon
    DEF WakeCtx, Return, Goto, localFrame, storeVars, SlotOK, FenceIsClaimed,
        CopyIsUsable, WasStored, InSync, Current, Claimed, CopyFollows,
        TerminalStatus, ActiveStatus, RegisteredPC, AttemptPC
  <2>3. QED
    BY <2>1, <2>2, QuietStep, Zenon DEF Turns
<1>22. CASE Cleanup(w)
  <2>1. Turns(w) /\ UNCHANGED cacheVars /\ dlq' = dlq
    BY <1>1, <1>22, Zenon
    DEF Cleanup, jobVars, Goto, queueVars, Turns, Rests
  <2>2. SlotOK(w)'
    BY <1>1, <1>2, <1>22, Zenon
    DEF Cleanup, jobVars, Goto, storeVars, SlotOK, FenceIsClaimed, CopyIsUsable,
        WasStored, InSync, Current, Claimed, CopyFollows, TerminalStatus,
        ActiveStatus, RegisteredPC, AttemptPC
  <2>3. QED
    BY <2>1, <2>2, QuietStep, Zenon DEF Turns
<1>23. CASE Release(w)
  <2>1. Turns(w) /\ UNCHANGED cacheVars /\ dlq' = dlq
    BY <1>1, <1>23, Zenon
    DEF Release, jobVars, Goto, queueVars, Turns, Rests
  <2>2. SlotOK(w)'
    BY <1>1, <1>2, <1>23, Zenon
    DEF Release, jobVars, Goto, storeVars, SlotOK, FenceIsClaimed, CopyIsUsable,
        WasStored, InSync, Current, Claimed, CopyFollows, TerminalStatus,
        ActiveStatus, RegisteredPC, AttemptPC
  <2>3. QED
    BY <2>1, <2>2, QuietStep, Zenon DEF Turns
<1>24. QED
  BY <1>3, <1>4, <1>5, <1>6, <1>7, <1>8, <1>9, <1>10, <1>11, <1>12, <1>13, <1>14,
     <1>15, <1>16, <1>17, <1>18, <1>19, <1>20, <1>21, <1>22, <1>23, Zenon
  DEF QuietStatement

-----------------------------------------------------------------------------
(* Steps that write the Run table.                                         *)

\* A write of Run r, by nobody or by the slots that move: it must not touch a
\* finished Run, must leave a fresh Run fresh, and must not change the Run under
\* the holder of its fence unless it cancels it.
LEMMA WriteStep ==
  ASSUME ExecutionInv, TypeOK', Bookkeeping', NEW r \in Run,
         \A q \in Run \ {r} :
           run'[q] = run[q] /\ fence'[q] = fence[q] /\ submission'[q] = submission[q],
         fence'[r] >= fence[r],
         run'[r] # run[r] => run[r].status \notin TerminalStatus,
         UnclaimedIsFresh(r)',
         FencesAreUnique',
         dlq' = dlq,
         UNCHANGED cacheVars \/ CacheOK',
         \A v \in Worker :
           \/ SlotOK(v)'
           \/ /\ Rests(v)
              /\ \/ run'[r] = run[r]
                 \/ run'[r].status = "canceled"
                 \/ job[v] = r => (fen[v] = 0 \/ fen[v] # fence'[r])
  PROVE  ExecutionInv'
<1>1. Finality
  BY Zenon DEF Finality
<1>2. \A v \in Worker : SlotOK(v)'
  BY <1>1, RestingSlot, Zenon DEF ExecutionInv, TypeOK
<1>3. \A q \in Run : UnclaimedIsFresh(q)'
  BY Zenon DEF ExecutionInv, UnclaimedIsFresh
<1>4. CacheOK'
  BY <1>1, RestingCache, Zenon
<1>5. DeadLettersHaveFailed'
  BY <1>1, Zenon
  DEF Finality, TerminalStatus, ExecutionInv, TypeOK, QueueTypeOK, DeadLettersHaveFailed
<1>6. QED
  BY <1>2, <1>3, <1>4, <1>5, Zenon DEF ExecutionInv, CacheOK

\* A claim takes a fence that is above every fence in use, also when its lease
\* token is an old one.
LEMMA ClaimStep ==
  ASSUME ExecutionInv, TypeOK', Bookkeeping', NEW w \in Worker, pc[w] = "claim",
         ClaimRunExecution(job[w], tok[w], "ok"),
         UNCHANGED <<submission, dlq, cacheVars, job, local>>,
         \/ /\ fen' = [fen EXCEPT ![w] = NextFence(job[w], tok[w])]
            /\ pc' = [pc EXCEPT ![w] = "register"]
         \/ fen' = fen /\ pc' = [pc EXCEPT ![w] = "release"]
  PROVE  ExecutionInv'
<1> DEFINE r == job[w]
           f == NextFence(job[w], tok[w])
<1>1. /\ pc \in [Worker -> ExecutePC] /\ job \in [Worker -> Run \union {None}]
      /\ local \in [Worker -> RunRecord] /\ fen \in [Worker -> Nat]
      /\ pc[w] # "idle" => job[w] \in Run
      /\ SlotOK(w)
  BY ZenonT(30) DEF ExecutionInv, TypeOK, JobTypeOK, ControlTypeOK, Bookkeeping
<1>2. r \in Run /\ tok[w] \in Nat /\ fen[w] = 0
  BY <1>1, BoundsAssumption DEF ExecutionInv, TypeOK, JobTypeOK, SlotOK, FenceIsClaimed
<1>3. f \in Nat /\ f > fence[r] /\ fence[r] \in Nat
  BY <1>2, NextFenceGrows, Zenon DEF ExecutionInv, TypeOK, StoreTypeOK
<1>4. run' = run /\ fence' = [fence EXCEPT ![r] = f] /\ run[r].status \in ActiveStatus
  BY Zenon DEF ClaimRunExecution
<1>5. fence'[r] = f /\ \A q \in Run \ {r} : fence'[q] = fence[q]
  BY <1>2, <1>4, Zenon DEF ExecutionInv, TypeOK, StoreTypeOK
<1>6. \A v \in Worker \ {w} : Rests(v)
  BY <1>1, Zenon DEF Rests
<1>7. SlotOK(w)'
  BY <1>1, <1>2, <1>3, <1>4, <1>5
  DEF SlotOK, FenceIsClaimed, CopyIsUsable, InSync, Current, Claimed, CopyFollows,
      RegisteredPC, AttemptPC
<1>8. FencesAreUnique'
  <2>1. \A v \in Worker \ {w} : Claimed(v)' /\ job'[v] = r => fen'[v] < f
    <3> SUFFICES ASSUME NEW v \in Worker \ {w}, Claimed(v)', job'[v] = r
                 PROVE  fen'[v] < f
      OBVIOUS
    <3>1. fen'[v] = fen[v] /\ job[v] = r /\ fen[v] \in Nat /\ fen[v] <= fence[r]
      BY <1>1, <1>6, Zenon DEF Rests, Claimed, ExecutionInv, SlotOK, FenceIsClaimed
    <3>2. QED
      BY <1>3, <3>1
  <2>2. \/ fen'[w] = f
        \/ fen'[w] = 0
    BY <1>1, <1>2, Zenon
  <2>3. \A v \in Worker :
          job'[v] = job[v] /\ (v # w => fen'[v] = fen[v]) /\ fen'[v] \in Nat
    BY <1>1, <1>3, Zenon
  <2>4. FencesAreUnique
    BY Zenon DEF ExecutionInv
  <2>5. QED
    BY <1>3, <2>1, <2>2, <2>3, <2>4 DEF FencesAreUnique, Claimed
<1>9. UnclaimedIsFresh(r)'
  <2>1. submission[r] \notin {"none", "failed"}
    BY <1>2, <1>4
    DEF ExecutionInv, UnclaimedIsFresh, NoRunYet, NewRun, Fail, ActiveStatus
  <2>2. QED
    BY <1>3, <1>5, <2>1 DEF UnclaimedIsFresh
<1>10. QED
  BY <1>2, <1>3, <1>4, <1>5, <1>6, <1>7, <1>8, <1>9, WriteStep

\* The holder of the current fence may write its copy: the write is a legal
\* transition of the Run, and no other slot holds that fence.
LEMMA PersistStep ==
  ASSUME ExecutionInv, TypeOK', Bookkeeping', NEW w \in Worker, pc[w] = "persist",
         UpdateRunFenced(job[w], local[w], fen[w], "ok"),
         UNCHANGED <<submission, dlq, cacheVars, job, local, fen>>,
         \/ pc' = [pc EXCEPT ![w] = "persisted"]
         \/ pc' = [pc EXCEPT ![w] = "cleanup"]
  PROVE  ExecutionInv' /\ LStep(job[w])
<1> DEFINE r == job[w]
<1>1. /\ pc \in [Worker -> ExecutePC] /\ job \in [Worker -> Run \union {None}]
      /\ local \in [Worker -> RunRecord] /\ fen \in [Worker -> Nat]
      /\ pc[w] # "idle" => job[w] \in Run
      /\ SlotOK(w)
  BY ZenonT(30) DEF ExecutionInv, TypeOK, JobTypeOK, ControlTypeOK, Bookkeeping
<1>2. /\ r \in Run /\ fen[w] > 0 /\ fence[r] = fen[w] /\ run[r].status # "canceled"
      /\ run' = [run EXCEPT ![r] = local[w]] /\ fence' = fence
  BY <1>1, Zenon DEF UpdateRunFenced
<1>3. /\ run[r] \in RunRecord /\ run'[r] = local[w]
      /\ \A q \in Run \ {r} : run'[q] = run[q]
      /\ fence[r] \in Nat
  BY <1>2, Zenon DEF ExecutionInv, TypeOK, StoreTypeOK
<1>4. /\ run[r].status \in ActiveStatus
      /\ local[w].status = "succeeded"
           => CanSucceed(run[r]) /\ local[w] = Succeed(run[r])
  BY <1>1, <1>2, Zenon DEF SlotOK, InSync, CopyFollows, Current, Claimed
<1>5. LStep(r)
  <2>1. /\ local[w].attempt \in 0..MaxAttempts
        /\ local[w] = [status |-> local[w].status, attempt |-> local[w].attempt]
    BY <1>1 DEF RunRecord
  <2>2. local[w].status \in {"running", "succeeded", "failed"}
    BY <1>1, Zenon DEF SlotOK, CopyIsUsable
  <2>3. CASE local[w].status = "running"
    <3>1. local[w].attempt > 0
      BY <1>1, <2>3, Zenon DEF SlotOK, CopyIsUsable
    <3>2. local[w].attempt \in 1..MaxAttempts
      BY <2>1, <3>1
    <3>3. QED
      BY <1>2, <1>4, <2>1, <2>3, <3>2, Zenon DEF LStep, Becomes
  <2>4. CASE local[w].status = "succeeded"
    BY <1>2, <1>4, <2>4, Zenon DEF LStep, Becomes
  <2>5. CASE local[w].status = "failed"
    BY <1>2, <1>4, <2>1, <2>5, Zenon DEF LStep, Becomes, CanFail
  <2>6. QED
    BY <2>2, <2>3, <2>4, <2>5, Zenon
<1>6. run[r].status \notin TerminalStatus
  BY <1>4, Zenon DEF ActiveStatus, TerminalStatus
<1>7. \A v \in Worker \ {w} :
        Rests(v) /\ (job[v] = r => (fen[v] = 0 \/ fen[v] # fence'[r]))
  BY <1>1, <1>2, Zenon DEF ExecutionInv, FencesAreUnique, Claimed, Rests
<1>8. SlotOK(w)'
  <2>1. FenceIsClaimed(w)'
    BY <1>1, <1>2, <1>3 DEF FenceIsClaimed, RegisteredPC
  <2>2. QED
    BY <1>1, <1>2, <1>3, <2>1, Zenon
    DEF SlotOK, CopyIsUsable, WasStored, InSync, CopyFollows, AttemptPC
<1>9. FencesAreUnique'
  BY Zenon DEF ExecutionInv, FencesAreUnique, Claimed
<1>10. UnclaimedIsFresh(r)'
  <2>1. submission[r] \notin {"none", "failed"}
    BY <1>2, <1>4
    DEF ExecutionInv, UnclaimedIsFresh, NoRunYet, NewRun, Fail, ActiveStatus
  <2>2. QED
    BY <1>2, <2>1 DEF UnclaimedIsFresh
<1>11. ExecutionInv'
  <2>1. fence'[r] >= fence[r]
    BY <1>2, <1>3
  <2>2. QED
    BY <1>2, <1>3, <1>6, <1>7, <1>8, <1>9, <1>10, <2>1, WriteStep, Zenon
<1>12. QED
  BY <1>5, <1>11, Zenon

-----------------------------------------------------------------------------
(* Every step keeps ExecutionInv and is a step, or a stutter, of the Run's *)
(* life cycle.                                                             *)

\* Each statement of execute.
LEMMA WorkerStepSafe ==
  ASSUME ExecutionInv, TypeOK', Bookkeeping', NEW w \in Worker, WorkerStep(w)
  PROVE  ExecutionInv' /\ [LNext]_run
<1>1. /\ pc \in [Worker -> ExecutePC] /\ job \in [Worker -> Run \union {None}]
      /\ local \in [Worker -> RunRecord] /\ fen \in [Worker -> Nat]
      /\ pc[w] # "idle" => job[w] \in Run
      /\ SlotOK(w)
  BY Zenon DEF ExecutionInv, TypeOK, JobTypeOK, ControlTypeOK, Bookkeeping
<1>2. WasStored(job[w], NoRunYet)
  BY DEF WasStored, NoRunYet, TerminalStatus
<1>3. ASSUME UNCHANGED storeVars, DeleteEntry(job[w], Stopping(w)),
             UNCHANGED <<reading, submission, dlq, job, local, fen>>,
             \/ pc[w] = "claim" /\ pc' = [pc EXCEPT ![w] = "release"]
             \/ pc[w] = "persist" /\ pc' = [pc EXCEPT ![w] = "cleanup"]
      PROVE  ExecutionInv' /\ run' = run
  <2>1. Turns(w) /\ dlq' = dlq
    BY <1>1, <1>3, Zenon DEF Turns, Rests
  <2>2. CacheOK'
    BY <1>1, <1>2, <1>3, EntryStep, Zenon DEF storeVars
  <2>3. SlotOK(w)'
    BY <1>1, <1>3, Zenon
    DEF storeVars, SlotOK, FenceIsClaimed, CopyIsUsable, InSync, Current, CopyFollows,
        RegisteredPC, AttemptPC
  <2>4. QED
    BY <2>1, <2>2, <2>3, QuietStep, Zenon DEF Turns
<1>4. CASE Persist(w)
  <2>1. UNCHANGED <<reading, submission, dlq, job, local, fen>> /\ pc[w] = "persist"
    BY <1>4, Zenon DEF Persist, queueVars
  <2>2. CASE /\ UpdateRunFenced(job[w], local[w], fen[w], "ok")
             /\ Goto(w, "persisted") /\ UNCHANGED cache
    BY <1>1, <2>1, <2>2, PersistStep, Zenon DEF Goto, cacheVars, LNext
  <2>3. CASE /\ DeleteEntry(job[w], Stopping(w)) /\ Goto(w, "cleanup")
             /\ \/ UpdateRunFenced(job[w], local[w], fen[w], "canceled")
                \/ UpdateRunFenced(job[w], local[w], fen[w], "stale")
    <3>1. UNCHANGED storeVars
      BY <2>3, Zenon DEF UpdateRunFenced
    <3>2. QED
      BY <1>3, <2>1, <2>3, <3>1, Zenon DEF Goto
  <2>4. QED
    BY <1>4, <2>2, <2>3, Zenon DEF Persist, Return
<1>5. CASE Claim(w)
  <2>1. UNCHANGED <<reading, submission, dlq, job, local>> /\ pc[w] = "claim"
    BY <1>5, Zenon DEF Claim, queueVars
  <2>2. CASE /\ ClaimRunExecution(job[w], tok[w], "ok")
             /\ fen' = [fen EXCEPT ![w] = NextFence(job[w], tok[w])]
             /\ Goto(w, "register") /\ UNCHANGED cache
    <3>1. run' = run
      BY <2>2, Zenon DEF ClaimRunExecution
    <3>2. QED
      BY <2>1, <2>2, <3>1, ClaimStep, Zenon DEF Goto, cacheVars
  <2>3. CASE /\ DeleteEntry(job[w], Stopping(w)) /\ Goto(w, "release") /\ UNCHANGED fen
             /\ \E res \in {"canceled", "not_executable"} :
                  ClaimRunExecution(job[w], tok[w], res)
    <3>1. UNCHANGED storeVars
      BY <2>3, Zenon DEF ClaimRunExecution
    <3>2. QED
      BY <1>3, <2>1, <2>3, <3>1, Zenon DEF Goto
  <2>4. QED
    BY <1>5, <2>2, <2>3, Zenon DEF Claim, Return
<1>6. CASE Settle(w)
  <2>1. /\ UNCHANGED <<storeVars, submission, cacheVars, dlq>>
        /\ pc'[w] = "idle" /\ fen'[w] = 0
        /\ \A v \in Worker \ {w} : Rests(v)
    BY <1>1, <1>6, Zenon DEF Settle, ResetWorkers, DoubleAck, queueVars, Rests
  <2>2. QED
    BY <2>1, FreeSlot, QuietStep, Zenon
<1>7. QED
  BY <1>4, <1>5, <1>6, QuietWorkerSteps, Zenon DEF WorkerStep, QuietStatement

\* The keeper, the watcher, and calls that fail before or after they took effect.
LEMMA WorkerFaultSafe ==
  ASSUME ExecutionInv, TypeOK', Bookkeeping', NEW w \in Worker, WorkerFault(w)
  PROVE  ExecutionInv' /\ [LNext]_run
<1>1. /\ pc \in [Worker -> ExecutePC] /\ job \in [Worker -> Run \union {None}]
      /\ local \in [Worker -> RunRecord] /\ fen \in [Worker -> Nat]
      /\ pc[w] # "idle" => job[w] \in Run
      /\ SlotOK(w)
  BY Zenon DEF ExecutionInv, TypeOK, JobTypeOK, ControlTypeOK, Bookkeeping
<1>2. CASE RenewFails(w) \/ ObserveCancel(w)
  <2>1. /\ UNCHANGED <<storeVars, submission, cacheVars, dlq>>
        /\ \A v \in Worker : Rests(v)
    BY <1>2, Zenon DEF RenewFails, ObserveCancel, localFrame, jobVars, queueVars, Rests
  <2>2. QED
    BY <2>1, QuietStep, Zenon
<1>3. CASE CallFails(w)
  <2>1. Turns(w) /\ UNCHANGED <<cacheVars, dlq>>
    BY <1>1, <1>3, Zenon
    DEF CallFails, ErrorReturn, Return, Goto, queueVars, Turns, Rests
  <2>2. SlotOK(w)'
    BY <1>1, <1>3, Zenon
    DEF CallFails, ErrorReturn, Return, Goto, storeVars, SlotOK, FenceIsClaimed,
        CopyIsUsable, InSync, Current, Claimed, CopyFollows, RegisteredPC, AttemptPC
  <2>3. QED
    BY <2>1, <2>2, QuietStep, Zenon DEF Turns
<1>4. CASE AnswerLost(w)
  <2>1. /\ UNCHANGED <<submission, cacheVars, job, local, fen>>
        /\ \A v \in Worker \ {w} : Rests(v)
    BY <1>1, <1>4, Zenon DEF AnswerLost, ErrorReturn, Return, Goto, Rests
  <2>2. CASE pc[w] \in {"acquire", "deadletter", "redletter"}
    <3>1. /\ UNCHANGED storeVars
          /\ \A r \in dlq' : r \in dlq \/ run[r].status = "failed"
      BY <1>1, <1>4, <2>2, Zenon
      DEF AnswerLost, PublishDeadLetter, queueVars, SlotOK, CopyIsUsable
    <3>2. SlotOK(w)'
      BY <1>1, <1>4, <2>1, <2>2, <3>1, Zenon
      DEF AnswerLost, ErrorReturn, Return, Goto, storeVars, SlotOK, FenceIsClaimed,
          CopyIsUsable, InSync, Current, Claimed, CopyFollows, RegisteredPC, AttemptPC
    <3>3. QED
      BY <2>1, <3>1, <3>2, QuietStep, Zenon
  <2>3. CASE pc[w] = "claim"
    <3>1. /\ ClaimRunExecution(job[w], tok[w], "ok") /\ run' = run /\ dlq' = dlq
          /\ pc' = [pc EXCEPT ![w] = "release"]
      BY <1>4, <2>3, Zenon
      DEF AnswerLost, ErrorReturn, Return, Goto, ClaimRunExecution, storeVars, queueVars
    <3>2. QED
      BY <2>1, <2>3, <3>1, ClaimStep, Zenon
  <2>4. CASE pc[w] = "persist"
    <3>1. /\ UpdateRunFenced(job[w], local[w], fen[w], "ok") /\ dlq' = dlq
          /\ pc' = [pc EXCEPT ![w] = "cleanup"]
      BY <1>4, <2>4, Zenon DEF AnswerLost, ErrorReturn, Return, Goto, queueVars
    <3>2. QED
      BY <1>1, <2>1, <2>4, <3>1, PersistStep, Zenon DEF LNext
  <2>5. QED
    BY <1>4, <2>2, <2>3, <2>4, Zenon DEF AnswerLost
<1>5. CASE ReleaseFails(w)
  <2>1. Turns(w) /\ UNCHANGED <<cacheVars, dlq>>
    BY <1>1, <1>5, Zenon DEF ReleaseFails, Goto, jobVars, queueVars, Turns, Rests
  <2>2. SlotOK(w)'
    BY <1>1, <1>5, Zenon
    DEF ReleaseFails, Goto, jobVars, storeVars, SlotOK, FenceIsClaimed, CopyIsUsable,
        InSync, Current, Claimed, CopyFollows, RegisteredPC, AttemptPC
  <2>3. QED
    BY <2>1, <2>2, QuietStep, Zenon DEF Turns
<1>6. QED
  BY <1>2, <1>3, <1>4, <1>5, Zenon DEF WorkerFault

\* The request that creates a Run.
LEMMA SubmitSafe ==
  ASSUME ExecutionInv, TypeOK', Bookkeeping', NEW r \in Run, Submit(r)
  PROVE  ExecutionInv' /\ [LNext]_run
<1>1. /\ run \in [Run -> RunRecord] /\ fence \in [Run -> Nat]
      /\ submission \in [Run -> SubmissionState]
      /\ UnclaimedIsFresh(r)
  BY Zenon DEF ExecutionInv, TypeOK, StoreTypeOK, ControlTypeOK
<1>2. /\ UNCHANGED <<fence, reading, pc, job, local, fen, dlq>>
      /\ \A q \in Run \ {r} : run'[q] = run[q] /\ submission'[q] = submission[q]
  BY <1>1, Zenon
  DEF Submit, SubmitCreate, SubmitCache, SubmitEnqueue, SubmitEnqueueError, SubmitFail,
      SubmitAbandon, submissionFrame, workerVars, jobVars, storeVars, queueVars,
      CreateRun, UpdateRun, Enqueue
<1>3. FencesAreUnique' /\ \A v \in Worker : Rests(v)
  BY <1>2, Zenon DEF ExecutionInv, FencesAreUnique, Claimed, Rests
<1>4. fence'[r] = fence[r] /\ fence'[r] >= fence[r]
  BY <1>1, <1>2
<1>5. CASE SubmitCreate(r)
  <2>1. run[r] = NoRunYet /\ fence[r] = 0 /\ run' = [run EXCEPT ![r] = NewRun]
    BY <1>1, <1>5, Zenon DEF SubmitCreate, CreateRun, UnclaimedIsFresh
  <2>2. run'[r] = NewRun /\ submission'[r] = "created" /\ UNCHANGED cacheVars
    BY <1>1, <1>2, <1>5, <2>1, Zenon DEF SubmitCreate, cacheVars
  <2>3. UnclaimedIsFresh(r)'
    BY <2>2, Zenon DEF UnclaimedIsFresh
  <2>4. \A v \in Worker : job[v] = r => (fen[v] = 0 \/ fen[v] # fence'[r])
    BY <1>2, <2>1, Zenon
  <2>5. run[r].status \notin TerminalStatus
    BY <2>1 DEF NoRunYet, TerminalStatus
  <2>6. LNext
    BY <2>1, Zenon DEF LNext, LStep, Becomes
  <2>7. QED
    BY <1>2, <1>3, <1>4, <2>2, <2>3, <2>4, <2>5, <2>6, WriteStep, Zenon
<1>6. CASE SubmitFail(r) /\ UpdateRun(r, Fail(NewRun), "ok") /\ UNCHANGED cache
           /\ submission' = [submission EXCEPT ![r] = "failed"]
  <2>1. /\ run[r].status # "canceled" /\ fence[r] = 0
        /\ run' = [run EXCEPT ![r] = Fail(NewRun)]
        /\ submission'[r] = "failed" /\ submission[r] = "failing"
        /\ UNCHANGED cacheVars
    BY <1>1, <1>2, <1>6, Zenon DEF SubmitFail, UpdateRun, cacheVars
  <2>2. run[r] = NewRun
    BY <1>1, <2>1, Zenon DEF UnclaimedIsFresh, Cancel, NewRun
  <2>3. UnclaimedIsFresh(r)'
    BY <1>1, <2>1, Zenon DEF UnclaimedIsFresh
  <2>4. \A v \in Worker : job[v] = r => (fen[v] = 0 \/ fen[v] # fence'[r])
    BY <1>2, <2>1, Zenon
  <2>5. run[r].status \notin TerminalStatus /\ CanFail(run[r])
    BY <2>2 DEF NewRun, CanFail, ActiveStatus, TerminalStatus
  <2>6. LStep(r)
    <3>1. Fail(NewRun) = [status |-> "failed", attempt |-> 0]
      BY DEF NewRun, Fail
    <3>2. 0 \in 0..MaxAttempts
      BY MaxAttemptsAssumption
    <3>3. QED
      BY <2>1, <2>5, <3>1, <3>2, Zenon DEF LStep, Becomes
  <2>7. QED
    BY <1>2, <1>3, <1>4, <2>1, <2>3, <2>4, <2>5, <2>6, WriteStep, Zenon DEF LNext
<1>7. ASSUME UNCHANGED storeVars, UNCHANGED cache \/ CacheOK',
             \/ submission[r] = "created" /\ submission'[r] = "cached"
             \/ submission[r] = "cached" /\ submission'[r] = "failing"
             \/ submission'[r] \in {"enqueued", "ended"}
      PROVE  ExecutionInv' /\ [LNext]_run
  <2>1. UnclaimedIsFresh(r)'
    BY <1>1, <1>7, Zenon DEF UnclaimedIsFresh, storeVars
  <2>2. QED
    BY <1>2, <1>3, <1>4, <1>7, <2>1, WriteStep, Zenon DEF storeVars, cacheVars
<1>8. CASE SubmitCache(r)
  <2>1. /\ UNCHANGED storeVars
        /\ \/ /\ submission[r] = "created" /\ submission'[r] = "cached"
              /\ SetEntry(r, NewRun, FALSE)
           \/ /\ submission[r] = "failed" /\ submission'[r] = "ended"
              /\ SetEntry(r, Fail(NewRun), FALSE)
    BY <1>1, <1>8, Zenon DEF SubmitCache
  <2>2. WasStored(r, NewRun)
    BY DEF WasStored, NewRun, TerminalStatus
  <2>3. submission[r] = "failed" => WasStored(r, Fail(NewRun))
    BY <1>1, Zenon DEF UnclaimedIsFresh, WasStored
  <2>4. CacheOK'
    BY <1>2, <2>1, <2>2, <2>3, EntryStep, Zenon DEF storeVars
  <2>5. QED
    BY <1>7, <2>1, <2>4, Zenon
<1>9. CASE /\ SubmitFail(r) /\ UpdateRun(r, Fail(NewRun), "refused")
           /\ DeleteEntry(r, FALSE) /\ submission' = [submission EXCEPT ![r] = "ended"]
  <2>1. UNCHANGED storeVars /\ submission'[r] = "ended"
    BY <1>1, <1>9, Zenon DEF UpdateRun
  <2>2. WasStored(r, NoRunYet)
    BY DEF WasStored, NoRunYet, TerminalStatus
  <2>3. CacheOK'
    BY <1>2, <1>9, <2>1, <2>2, EntryStep, Zenon DEF storeVars
  <2>4. QED
    BY <1>7, <2>1, <2>3, Zenon
<1>10. CASE SubmitEnqueue(r) \/ SubmitEnqueueError(r) \/ SubmitAbandon(r)
  <2>1. /\ UNCHANGED <<storeVars, cache>>
        /\ \/ submission[r] = "cached" /\ submission'[r] = "failing"
           \/ submission'[r] \in {"enqueued", "ended"}
    BY <1>1, <1>10, Zenon DEF SubmitEnqueue, SubmitEnqueueError, SubmitAbandon
  <2>2. QED
    BY <1>7, <2>1, Zenon
<1>11. QED
  BY <1>5, <1>6, <1>8, <1>9, <1>10, Zenon DEF Submit, SubmitFail

\* Cancellation and the life of a process.
LEMMA ProcStepSafe ==
  ASSUME ExecutionInv, TypeOK', Bookkeeping', NEW p \in Proc, ProcStep(p)
  PROVE  ExecutionInv' /\ [LNext]_run
<1>1. /\ run \in [Run -> RunRecord] /\ fence \in [Run -> Nat]
      /\ rpc[p] # "idle" => rrun[p] \in Run
      /\ rtok[p] \in Nat
  BY BoundsAssumption DEF ExecutionInv, TypeOK, StoreTypeOK, ProcTypeOK, Bookkeeping
<1>2. ASSUME NEW r \in Run, CancelRequest(p, r)
      PROVE  ExecutionInv' /\ [LNext]_run
  <2>1. /\ UNCHANGED <<fence, submission, cacheVars, dlq, pc, job, local, fen>>
        /\ CanCancel(run[r]) /\ run' = [run EXCEPT ![r] = Cancel(run[r])]
    BY <1>2, Zenon DEF CancelRequest, CancelRun, queueVars, workerVars, jobVars
  <2>2. /\ \A q \in Run \ {r} :
             run'[q] = run[q] /\ fence'[q] = fence[q] /\ submission'[q] = submission[q]
        /\ run'[r] = Cancel(run[r]) /\ run'[r].status = "canceled"
        /\ run[r].status \notin TerminalStatus /\ fence'[r] >= fence[r]
    BY <1>1, <2>1 DEF Cancel, CanCancel, ActiveStatus, TerminalStatus, RunRecord
  <2>3. UnclaimedIsFresh(r)'
    BY <2>1, <2>2
    DEF ExecutionInv, UnclaimedIsFresh, CanCancel, ActiveStatus, NoRunYet, NewRun,
        Cancel, Fail
  <2>4. FencesAreUnique' /\ \A v \in Worker : Rests(v)
    BY <2>1, Zenon DEF ExecutionInv, FencesAreUnique, Claimed, Rests
  <2>5. LNext
    BY <2>1, Zenon DEF LNext, LStep, Becomes
  <2>6. QED
    BY <2>1, <2>2, <2>3, <2>4, <2>5, WriteStep, Zenon
<1>3. CASE RecoverReset(p) /\ ~UNCHANGED storeVars
  <2> PICK r \in Run : r = rrun[p]
    BY <1>1, <1>3, Zenon DEF RecoverReset
  <2> DEFINE f == NextFence(r, rtok[p])
  <2>1. /\ UNCHANGED <<submission, cacheVars, dlq, pc, job, local, fen>>
        /\ run[r].status = "running"
        /\ run' = [run EXCEPT ![r] = Requeue(run[r])]
        /\ fence' = [fence EXCEPT ![r] = f]
    BY <1>3, Zenon DEF RecoverReset, RecoverRun, queueVars, workerVars, jobVars
  <2>2. f \in Nat /\ f > fence[r] /\ fence[r] \in Nat
    BY <1>1, NextFenceGrows, Zenon DEF ExecutionInv, TypeOK
  <2>3. /\ \A q \in Run \ {r} :
             run'[q] = run[q] /\ fence'[q] = fence[q] /\ submission'[q] = submission[q]
        /\ fence'[r] = f /\ fence'[r] >= fence[r]
    BY <1>1, <2>1, <2>2
  <2>4. UnclaimedIsFresh(r)'
    <3>1. submission[r] \notin {"none", "failed"}
      BY <2>1 DEF ExecutionInv, UnclaimedIsFresh, NoRunYet, NewRun, Fail
    <3>2. fence'[r] # 0
      BY <2>2, <2>3
    <3>3. QED
      BY <2>1, <3>1, <3>2, Zenon DEF UnclaimedIsFresh
  <2>5. FencesAreUnique' /\ \A v \in Worker : Rests(v)
    BY <2>1, Zenon DEF ExecutionInv, FencesAreUnique, Claimed, Rests
  <2>6. ASSUME NEW v \in Worker, job[v] = r PROVE fen[v] = 0 \/ fen[v] # fence'[r]
    <3>1. fen \in [Worker -> Nat] /\ FenceIsClaimed(v)
      BY <2>6, Zenon DEF ExecutionInv, TypeOK, JobTypeOK, SlotOK
    <3>2. fen[v] \in Nat /\ (fen[v] > 0 => fen[v] <= fence[r])
      BY <2>6, <3>1, Zenon DEF FenceIsClaimed
    <3>3. QED
      BY <2>2, <2>3, <3>2
  <2>7. LNext
    BY <2>1, Zenon DEF LNext, LStep, Becomes, CanRequeue
  <2>8. run[r].status \notin TerminalStatus
    BY <2>1 DEF TerminalStatus
  <2>9. QED
    BY <2>1, <2>3, <2>4, <2>5, <2>6, <2>7, <2>8, WriteStep, ZenonT(30)
<1>4. CASE Crash(p)
  <2>1. /\ UNCHANGED <<storeVars, submission, cacheVars, dlq>>
        /\ \A v \in Worker : Rests(v) \/ (pc'[v] = "idle" /\ fen'[v] = 0)
    BY <1>4, Zenon DEF Crash, ResetWorkers, queueVars, Rests
  <2>2. QED
    BY <2>1, FreeSlot, QuietStep, Zenon
<1>5. CASE \/ StartProcess(p) \/ RecoverRelease(p) \/ RecoverEnqueue(p)
           \/ \E r \in Run :
                RecoverQueued(p, r) \/ RecoverAcquire(p, r) \/ CancelExecution(p, r)
           \/ RecoverReset(p) /\ UNCHANGED storeVars
           \/ RecoverDone(p) \/ Shutdown(p) \/ StopProcess(p)
  <2>1. /\ UNCHANGED <<storeVars, submission, cacheVars, dlq>>
        /\ \A v \in Worker : Rests(v)
    BY <1>5, Zenon
    DEF StartProcess, RecoverRelease, RecoverEnqueue, RecoverDone, RecoverQueued,
        RecoverAcquire, RecoverReset, CancelExecution, Shutdown, StopProcess, Enqueue,
        queueVars, jobVars, workerVars, Rests
  <2>2. QED
    BY <2>1, QuietStep, Zenon
<1>6. CASE \/ RecoverInvalidate(p)
           \/ \E r \in Run : CancelCache(p, r) \/ CancelRefused(p, r)
  <2>1. /\ UNCHANGED <<storeVars, reading, submission, dlq>>
        /\ \A v \in Worker : Rests(v)
    BY <1>6, Zenon
    DEF RecoverInvalidate, CancelCache, CancelRefused, queueVars, jobVars, workerVars,
        Rests
  <2>2. \E r \in Run : SetEntry(r, run[r], FALSE) \/ DeleteEntry(r, FALSE)
    BY <1>1, <1>6, Zenon DEF RecoverInvalidate, CancelCache, CancelRefused, SetEntry
  <2>3. \A r \in Run : WasStored(r, run[r])
    BY Zenon DEF WasStored
  <2>4. CacheOK'
    BY <2>1, <2>2, <2>3, EntryStep, Zenon DEF storeVars
  <2>5. QED
    BY <2>1, <2>4, QuietStep, Zenon
<1>7. QED
  BY <1>2, <1>3, <1>4, <1>5, <1>6, Zenon DEF ProcStep, RecoverStep

\* A delivery.
LEMMA DeliverSafe ==
  ASSUME ExecutionInv, TypeOK', Bookkeeping', NEW w \in Worker, NEW r \in Run,
         NEW m \in 1..MaxMessages, Deliver(w, r, m)
  PROVE  ExecutionInv' /\ [LNext]_run
<1>1. /\ pc[w] = "idle" /\ fen[w] = 0
      /\ UNCHANGED <<storeVars, submission, cacheVars, dlq, local, fen>>
      /\ pc' = [pc EXCEPT ![w] = "load"] /\ job' = [job EXCEPT ![w] = r]
  BY Zenon
  DEF Deliver, Goto, localFrame, queueVars, ExecutionInv, SlotOK, FenceIsClaimed
<1>2. /\ pc'[w] = "load" /\ fen'[w] = 0
      /\ \A v \in Worker \ {w} : Rests(v)
  <2>1. pc \in [Worker -> ExecutePC] /\ job \in [Worker -> Run \union {None}]
    BY Zenon DEF ExecutionInv, TypeOK, ControlTypeOK, JobTypeOK
  <2>2. QED
    BY <1>1, <2>1, Zenon DEF Rests
<1>3. SlotOK(w)'
  BY <1>2
  DEF SlotOK, FenceIsClaimed, CopyIsUsable, InSync, Current, Claimed, RegisteredPC,
      AttemptPC
<1>4. QED
  BY <1>1, <1>2, <1>3, QuietStep, Zenon

\* Lost leases, a restored Redis, passed windows and TTLs, and other readers.
LEMMA EnvironmentSafe ==
  ASSUME ExecutionInv, TypeOK', Bookkeeping', Environment
  PROVE  ExecutionInv' /\ [LNext]_run
<1>1. /\ UNCHANGED <<storeVars, submission, dlq>>
      /\ \A v \in Worker : Rests(v)
  BY Zenon
  DEF Environment, ExpireLease, ForgetMessageID, RestoreCoordinator, ExpireEntry,
      ReadMiss, ReadFill, CloseWindow, queueVars, jobVars, workerVars, Rests
<1>2. /\ cache \in [Run -> RunRecord] /\ reading \in [Run -> RunRecord]
      /\ CacheOK /\ run' = run
  BY <1>1, Zenon
  DEF ExecutionInv, TypeOK, ReadTypeOK, CacheTypeOK, CacheOK, storeVars
<1>3. \A r \in Run : WasStored(r, NoRunYet) /\ WasStored(r, run[r])
  BY DEF WasStored, NoRunYet, TerminalStatus
<1>4. UNCHANGED cacheVars \/ CacheOK'
  <2>1. CASE \E r \in Run : ExpireLease(r) \/ ForgetMessageID(r)
    BY <2>1, Zenon DEF ExpireLease, ForgetMessageID
  <2>2. CASE RestoreCoordinator
    BY <1>2, <1>3, <2>2, Zenon
    DEF RestoreCoordinator, CacheOK, CacheWasStored, WasStored
  <2>3. CASE \E r \in Run : ExpireEntry(r) \/ ReadMiss(r) \/ ReadFill(r)
    BY <1>2, <1>3, <2>3, Zenon
    DEF ExpireEntry, ReadMiss, ReadFill, CacheDelete, CacheSet, CacheOK, CacheWasStored,
        WasStored
  <2>4. QED
    BY <2>1, <2>2, <2>3, Zenon DEF Environment
<1>5. QED
  BY <1>1, <1>4, QuietStep, Zenon

-----------------------------------------------------------------------------
(* The theorems.                                                           *)

\* Any step at all.
LEMMA NextSafe ==
  ASSUME ExecutionInv, [Next]_vars
  PROVE  ExecutionInv' /\ [LNext]_run
<1>1. TypeOK' /\ Bookkeeping'
  BY NextTypes, Zenon DEF ExecutionInv
<1>2. CASE UNCHANGED vars
  <2>1. /\ UNCHANGED <<storeVars, submission, cacheVars, dlq>>
        /\ \A v \in Worker : Rests(v)
    BY <1>2, Zenon DEF vars, storeVars, cacheVars, queueVars, workerVars, jobVars, Rests
  <2>2. QED
    BY <1>1, <2>1, QuietStep, Zenon
<1>3. CASE Next
  BY <1>1, <1>3, SubmitSafe, WorkerStepSafe, WorkerFaultSafe, ProcStepSafe, DeliverSafe,
     EnvironmentSafe, Zenon
  DEF Next
<1>4. QED
  BY <1>2, <1>3, Zenon

\* Types, fences, copies, cached Runs and dead letters fit together in every
\* reachable state, whatever crashes, is lost, repeated, paused or restored.
THEOREM ExecutionInvariant == Spec => []ExecutionInv
<1>1. Init => ExecutionInv
  <2> SUFFICES ASSUME Init PROVE ExecutionInv
    OBVIOUS
  <2>1. TypeOK /\ Bookkeeping
    BY InitTypes, Zenon
  <2>2. \A w \in Worker : SlotOK(w)
    BY DEF Init, SlotOK, FenceIsClaimed, CopyIsUsable, InSync, Current, Claimed,
           RegisteredPC, AttemptPC
  <2>3. FencesAreUnique
    BY DEF Init, FencesAreUnique, Claimed
  <2>4. (\A r \in Run : UnclaimedIsFresh(r)) /\ DeadLettersHaveFailed
    BY Zenon
    DEF Init, StoreInit, LInit, QueueInit, UnclaimedIsFresh, DeadLettersHaveFailed
  <2>5. \A r \in Run : CacheWasStored(r)
    <3>1. \A r \in Run : cache[r] = NoRunYet /\ reading[r] = NoRunYet
      BY Zenon DEF Init, CacheInit
    <3>2. NoRunYet.status \notin TerminalStatus
      BY DEF NoRunYet, TerminalStatus
    <3>3. QED
      BY <3>1, <3>2, Zenon DEF CacheWasStored, WasStored
  <2>6. QED
    BY <2>1, <2>2, <2>3, <2>4, <2>5, Zenon DEF ExecutionInv
<1>2. ExecutionInv /\ [Next]_vars => ExecutionInv'
  BY NextSafe, Zenon
<1>3. QED
  BY <1>1, <1>2, PTL DEF Spec

\* No two executions of a Run ever hold the same fence (ClaimRunExecution,
\* RecoverRun).
THEOREM UniqueFences == Spec => []FencesAreUnique
<1>1. ExecutionInv => FencesAreUnique
  BY Zenon DEF ExecutionInv
<1>2. QED
  BY <1>1, ExecutionInvariant, PTL

\* An executor with the current fence works on what the store holds, so that
\* its unconditional full-row write is a legal transition (UpdateRunFenced).
THEOREM CurrentCopies == Spec => []CurrentExecutorIsInSync
<1>1. ExecutionInv => CurrentExecutorIsInSync
  BY Zenon DEF ExecutionInv, SlotOK, CurrentExecutorIsInSync
<1>2. QED
  BY <1>1, ExecutionInvariant, PTL

\* A cached Run that is finished is the one in the store, although the cache
\* is written after the store and out of order (store.Cached).
THEOREM CachedRunsAreStored == Spec => []CachedTerminalIsStored
<1>1. ExecutionInv => CachedTerminalIsStored
  BY Zenon DEF ExecutionInv, CacheWasStored, WasStored, CachedTerminalIsStored
<1>2. QED
  BY <1>1, ExecutionInvariant, PTL

\* Only failed Runs are dead-lettered, and they stay failed (failRun, execute).
THEOREM DeadLetters == Spec => []DeadLettersHaveFailed
<1>1. ExecutionInv => DeadLettersHaveFailed
  BY Zenon DEF ExecutionInv
<1>2. QED
  BY <1>1, ExecutionInvariant, PTL

\* The engine with its queue, cache, leases, crashes and retries implements the
\* life cycle of domain.Run: what the store holds of each Run goes through a
\* sequence of legal transitions.
THEOREM EngineImplementsLifecycle == Spec => LSpec
<1>1. Init => LInit
  BY Zenon DEF Init, StoreInit
<1>2. ExecutionInv /\ [Next]_vars => [LNext]_run
  BY NextSafe, Zenon
<1>3. QED
  BY <1>1, <1>2, ExecutionInvariant, PTL DEF Spec, LSpec

\* A finished Run does not change, and a Run that exists stays.
LEMMA RunsAreKept ==
  ASSUME ExecutionInv, [Next]_vars
  PROVE  Finality /\ \A r \in Run : run[r].status # "absent" => run'[r].status # "absent"
<1>1. CASE run' = run
  BY <1>1, Zenon DEF Finality
<1>2. ASSUME NEW q \in Run, LStep(q)
      PROVE  Finality /\ \A r \in Run : run[r].status # "absent" => run'[r].status # "absent"
  <2>1. run[q].status \notin TerminalStatus
    BY <1>2
    DEF LStep, CanSucceed, CanFail, CanCancel, CanRequeue, NoRunYet, ActiveStatus, TerminalStatus
  <2>2. \A r \in Run \ {q} : run'[r] = run[r]
    BY <1>2, Zenon DEF LStep, Becomes, ExecutionInv, TypeOK, StoreTypeOK
  <2>3. run \in [Run -> RunRecord]
    BY DEF ExecutionInv, TypeOK, StoreTypeOK
  <2>4. run'[q].status # "absent"
    BY <1>2, <2>3 DEF LStep, Becomes, NewRun, Succeed, Cancel, Requeue, RunRecord
  <2>5. QED
    BY <2>1, <2>2, <2>4, Zenon DEF Finality
<1>3. QED
  BY <1>1, <1>2, NextSafe, Zenon DEF LNext

\* A finished Run never changes again (UpdateRunFenced, UpdateRun, RecoverRun,
\* CancelRun).
THEOREM FinishedRunsAreFinal == Spec => TerminalIsFinal
<1>1. ASSUME ExecutionInv, [Next]_vars
      PROVE  [\A r \in Run : run[r].status \in TerminalStatus => run'[r] = run[r]]_vars
  BY <1>1, RunsAreKept, Zenon DEF Finality
<1>2. QED
  BY <1>1, ExecutionInvariant, PTL DEF Spec, TerminalIsFinal

-----------------------------------------------------------------------------
(* Engine.active.                                                          *)

\* The entries stay live when no registered execution leaves its Run, except
\* those that a step removes or replaces.
LEMMA RegistryStep ==
  ASSUME TypeOK, ActiveEntriesAreLive,
         \A p \in Proc, r \in Run :
           \/ active'[p][r] = None
           \/ \E w \in Worker : /\ active'[p][r] = w
                                /\ ProcOf[w] = p /\ job'[w] = r /\ pc'[w] \in RegisteredPC
           \/ /\ active'[p][r] = active[p][r]
              /\ \A w \in Worker :
                   active[p][r] = w /\ pc[w] \in RegisteredPC
                     => pc'[w] \in RegisteredPC /\ job'[w] = job[w]
  PROVE  ActiveEntriesAreLive'
<1> SUFFICES ASSUME NEW p \in Proc, NEW r \in Run, active'[p][r] # None
             PROVE  /\ ProcOf[active'[p][r]] = p /\ job'[active'[p][r]] = r
                    /\ pc'[active'[p][r]] \in RegisteredPC
  BY Zenon DEF ActiveEntriesAreLive
<1>1. active[p][r] \in Worker \union {None}
  BY ZenonT(60) DEF TypeOK, ControlTypeOK
<1>2. QED
  BY <1>1 DEF ActiveEntriesAreLive

\* Nobody enters Engine.active or leaves it; slot w enters; slot w leaves.
StaysRegistered ==
  /\ active' = active
  /\ \A v \in Worker : /\ pc'[v] \in RegisteredPC <=> pc[v] \in RegisteredPC
                       /\ pc[v] \in RegisteredPC => job'[v] = job[v]

Enters(w) ==
  /\ pc[w] = "register" /\ pc' = [pc EXCEPT ![w] = "reload"] /\ job' = job
  /\ active' = [active EXCEPT ![ProcOf[w]] = [@ EXCEPT ![job[w]] = w]]

Leaves(w) ==
  /\ pc[w] = "cleanup" /\ pc' = [pc EXCEPT ![w] = "settle"] /\ job' = job
  /\ active' = [active EXCEPT ![ProcOf[w]] = [@ EXCEPT ![job[w]] = None]]

\* A slot registers in one step and leaves the map, with its entry, in another;
\* all its other steps keep it registered.
LEMMA RegistryWorkerSteps ==
  ASSUME TypeOK, Bookkeeping, NEW w \in Worker, WorkerStep(w) \/ WorkerFault(w)
  PROVE  StaysRegistered \/ Enters(w) \/ Leaves(w)
<1>1. /\ pc \in [Worker -> ExecutePC] /\ job \in [Worker -> Run \union {None}]
      /\ active \in [Proc -> [Run -> Worker \union {None}]]
      /\ pc[w] # "idle" => job[w] \in Run
      /\ ProcOf[w] \in Proc
  BY ProcOfAssumption, Zenon DEF TypeOK, JobTypeOK, ControlTypeOK, Bookkeeping
<1>3. CASE Load(w) \/ LoadFill(w) \/ Acquire(w) \/ Claim(w) \/ Release(w)
  <2>1. StaysRegistered
    BY <1>1, <1>3, ZenonT(30)
    DEF Load, LoadFill, Dispatch, Acquire, Claim, Release, Return, Goto, jobVars,
        RegisteredPC, StaysRegistered
  <2>2. QED
    BY <2>1
<1>4. CASE Reload(w) \/ ReloadFill(w) \/ Resolve(w) \/ BeginAttempt(w)
  <2>1. StaysRegistered
    BY <1>1, <1>4, Zenon
    DEF Reload, ReloadFill, Continue, Resolve, FailLocal, BeginAttempt, Return, Goto,
        RegisteredPC, StaysRegistered
  <2>2. QED
    BY <2>1
<1>5. CASE \/ CheckLease(w, "top", "check") \/ CheckLease(w, "post", "postctx")
           \/ CheckLease(w, "wake", "wakectx") \/ Execute(w) \/ CheckCtx(w)
  <2>1. StaysRegistered
    BY <1>1, <1>5, Zenon
    DEF CheckLease, Execute, CheckCtx, Return, Goto, RegisteredPC, StaysRegistered
  <2>2. QED
    BY <2>1
<1>6. CASE AfterAttempt(w) \/ Backoff(w) \/ WakeCtx(w) \/ Persist(w) \/ PersistCache(w)
  <2>1. StaysRegistered
    BY <1>1, <1>6, Zenon
    DEF AfterAttempt, FailLocal, Backoff, WakeCtx, Persist, PersistCache, Return, Goto,
        RegisteredPC, StaysRegistered
  <2>2. QED
    BY <2>1
<1>7. CASE DeadLetter(w, "deadletter", "cleanup") \/ DeadLetter(w, "redletter", "settle")
  <2>1. StaysRegistered
    BY <1>1, <1>7, Zenon DEF DeadLetter, Return, Goto, RegisteredPC, StaysRegistered
  <2>2. QED
    BY <2>1
<1>8. CASE Settle(w)
  <2>1. active' = active /\ pc[w] = "settle" /\ pc'[w] = "idle"
    BY <1>8, Zenon DEF Settle, ResetWorkers
  <2>2. \A v \in Worker \ {w} : pc'[v] = pc[v] /\ job'[v] = job[v]
    BY <1>8, Zenon DEF Settle, ResetWorkers
  <2>3. QED
    BY <2>1, <2>2, Zenon DEF RegisteredPC, StaysRegistered
<1>9. CASE \/ RenewFails(w) \/ ObserveCancel(w) \/ CallFails(w) \/ AnswerLost(w)
           \/ ReleaseFails(w) /\ pc[w] # "cleanup"
  <2>1. StaysRegistered
    BY <1>1, <1>9, Zenon
    DEF RenewFails, ObserveCancel, CallFails, AnswerLost, ErrorReturn, ReleaseFails,
        Return, Goto, jobVars, RegisteredPC, StaysRegistered
  <2>2. QED
    BY <2>1
<1>10. CASE Register(w)
  BY <1>10, Zenon DEF Register, Goto, jobVars, Enters
<1>11. CASE Cleanup(w) \/ (ReleaseFails(w) /\ pc[w] = "cleanup")
  BY <1>11, Zenon DEF Cleanup, ReleaseFails, Goto, jobVars, Leaves
<1>12. QED
  BY <1>3, <1>4, <1>5, <1>6, <1>7, <1>8, <1>9, <1>10, <1>11, Zenon
  DEF WorkerStep, WorkerFault

LEMMA RegistryIsKept ==
  ASSUME TypeOK, Bookkeeping, ActiveEntriesAreLive, NEW w \in Worker,
         StaysRegistered \/ Enters(w) \/ Leaves(w)
  PROVE  ActiveEntriesAreLive'
<1>1. /\ pc \in [Worker -> ExecutePC] /\ active \in [Proc -> [Run -> Worker \union {None}]]
      /\ pc[w] # "idle" => job[w] \in Run
      /\ ProcOf[w] \in Proc
  BY ProcOfAssumption, Zenon DEF TypeOK, JobTypeOK, ControlTypeOK, Bookkeeping
<1>2. CASE StaysRegistered
  <2>1. \A v \in Worker : pc[v] \in RegisteredPC => pc'[v] \in RegisteredPC /\ job'[v] = job[v]
    BY <1>2, Zenon DEF StaysRegistered
  <2>2. active' = active
    BY <1>2, Zenon DEF StaysRegistered
  <2>3. QED
    BY <2>1, <2>2, RegistryStep, Zenon
<1>3. CASE Enters(w)
  <2>1. /\ active' = [active EXCEPT ![ProcOf[w]] = [@ EXCEPT ![job[w]] = w]]
        /\ job' = job /\ pc[w] = "register" /\ pc'[w] \in RegisteredPC
        /\ \A v \in Worker \ {w} : pc'[v] = pc[v]
    BY <1>1, <1>3, Zenon DEF Enters, RegisteredPC
  <2>2. QED
    BY <1>1, <2>1, RegistryStep, Zenon
<1>4. CASE Leaves(w)
  <2>1. /\ active' = [active EXCEPT ![ProcOf[w]] = [@ EXCEPT ![job[w]] = None]]
        /\ job' = job /\ pc[w] = "cleanup"
        /\ \A v \in Worker \ {w} : pc'[v] = pc[v]
    BY <1>1, <1>4, Zenon DEF Leaves
  <2>2. \A p \in Proc, r \in Run : active[p][r] = w => p = ProcOf[w] /\ r = job[w]
    BY NoneAssumption DEF ActiveEntriesAreLive
  <2>3. QED
    BY <1>1, <2>1, <2>2, RegistryStep, Zenon
<1>5. QED
  BY <1>2, <1>3, <1>4

\* Engine.active never holds the cancel function of an execution that is over,
\* in any process, whichever executions overlap in it.
THEOREM RegistryIsLive == Spec => []ActiveEntriesAreLive
<1> DEFINE Inv == TypeOK /\ Bookkeeping /\ ActiveEntriesAreLive
<1>1. Init => Inv
  BY InitTypes DEF Init, ActiveEntriesAreLive
<1>2. ASSUME Inv, [Next]_vars PROVE Inv'
  <2>1. TypeOK' /\ Bookkeeping'
    BY <1>2, NextTypes, Zenon
  <2>2. ASSUME UNCHANGED <<active, pc, job>> PROVE ActiveEntriesAreLive'
    BY <1>2, <2>2, Zenon DEF ActiveEntriesAreLive
  <2>3. ASSUME NEW w \in Worker, WorkerStep(w) \/ WorkerFault(w)
        PROVE  ActiveEntriesAreLive'
    BY <1>2, <2>3, RegistryWorkerSteps, RegistryIsKept, Zenon
  <2>4. ASSUME NEW w \in Worker, NEW r \in Run, NEW m \in 1..MaxMessages, Deliver(w, r, m)
        PROVE  ActiveEntriesAreLive'
    <3>1. /\ pc[w] = "idle" /\ pc'[w] = "load" /\ active' = active
          /\ \A v \in Worker \ {w} : pc'[v] = pc[v] /\ job'[v] = job[v]
      BY <1>2, <2>4, Zenon DEF Deliver, Goto, TypeOK, JobTypeOK, ControlTypeOK
    <3>2. StaysRegistered
      BY <3>1, Zenon DEF RegisteredPC, StaysRegistered
    <3>3. QED
      BY <1>2, <3>2, RegistryIsKept, Zenon
  <2>5. ASSUME NEW p \in Proc, ProcStep(p), ~UNCHANGED <<active, pc, job>>
        PROVE  ActiveEntriesAreLive'
    <3>1. Crash(p)
      BY <2>5, Zenon
      DEF ProcStep, RecoverStep, CancelRequest, CancelCache, CancelExecution,
          CancelRefused, StartProcess, RecoverQueued, RecoverAcquire, RecoverReset,
          RecoverInvalidate, RecoverRelease, RecoverEnqueue, RecoverDone, Shutdown,
          StopProcess, workerVars, jobVars
    <3>2. /\ active' = [active EXCEPT ![p] = [r \in Run |-> None]]
          /\ \A v \in Worker : ProcOf[v] # p => pc'[v] = pc[v] /\ job'[v] = job[v]
      BY <3>1, Zenon DEF Crash, ResetWorkers, SlotsOf
    <3>3. \A q \in Proc \ {p}, r \in Run : active'[q][r] = active[q][r]
      BY <1>2, <3>2, Zenon DEF TypeOK, ControlTypeOK
    <3>4. \A r \in Run : active'[p][r] = None
      BY <1>2, <3>2, Zenon DEF TypeOK, ControlTypeOK
    <3>5. \A q \in Proc \ {p}, r \in Run, w \in Worker : active[q][r] = w => ProcOf[w] = q
      BY <1>2, NoneAssumption DEF ActiveEntriesAreLive
    <3>6. QED
      BY <1>2, <3>2, <3>3, <3>4, <3>5, RegistryStep
  <2>6. ASSUME (\E r \in Run : Submit(r)) \/ Environment
        PROVE  ActiveEntriesAreLive'
    <3>1. UNCHANGED <<active, pc, job>>
      BY <2>6, Zenon
      DEF Submit, SubmitCreate, SubmitCache, SubmitEnqueue, SubmitEnqueueError,
          SubmitFail, SubmitAbandon, submissionFrame, Environment, ExpireLease,
          ForgetMessageID, RestoreCoordinator, ExpireEntry, ReadMiss, ReadFill,
          workerVars, jobVars
    <3>2. QED
      BY <2>2, <3>1, Zenon
  <2>7. QED
    BY <1>2, <2>1, <2>2, <2>3, <2>4, <2>5, <2>6, Zenon DEF Next, vars, workerVars, jobVars
<1>3. QED
  BY <1>1, <1>2, PTL DEF Spec

-----------------------------------------------------------------------------
(* Leases.                                                                 *)

\* What a slot may do to the leases: nothing, take the free one of its Run,
\* give its own back, or, when an answer is lost, leave one behind.
LeasesRest ==
  /\ UNCHANGED <<lease, rpc, rrun, rtok>>
  /\ \A v \in Worker :
       /\ pc'[v] \in LeasePC <=> pc[v] \in LeasePC
       /\ pc[v] \in LeasePC => job'[v] = job[v] /\ tok'[v] = tok[v]
       /\ tok'[v] # 0 => tok'[v] = tok[v] /\ (pc[v] = "settle" => pc'[v] = "settle")

LeaseFrame(w, to) ==
  /\ UNCHANGED <<job, rpc, rrun, rtok>>
  /\ pc' = [pc EXCEPT ![w] = to]

Takes(w) ==
  /\ pc[w] = "acquire" /\ lease[job[w]] = 0
  /\ LeaseFrame(w, "claim")
  /\ \E token \in 1..MaxToken : /\ lease' = [lease EXCEPT ![job[w]] = token]
                                /\ tok' = [tok EXCEPT ![w] = token]

GivesBack(w) ==
  /\ pc[w] \in {"cleanup", "release"}
  /\ LeaseFrame(w, "settle") /\ tok' = tok
  /\ lease' = [lease EXCEPT ![job[w]] = IF @ = tok[w] THEN 0 ELSE @]

LeavesBehind(w) ==
  /\ "call" \in FaultKinds
  /\ LeaseFrame(w, "settle") /\ tok' = tok
  /\ \/ /\ pc[w] = "acquire" /\ lease[job[w]] = 0
        /\ \E token \in 1..MaxToken : lease' = [lease EXCEPT ![job[w]] = token]
     \/ pc[w] \in {"cleanup", "release"} /\ lease' = lease

LEMMA LeaseWorkerSteps ==
  ASSUME TypeOK, Bookkeeping, NEW w \in Worker, WorkerStep(w) \/ WorkerFault(w)
  PROVE  LeasesRest \/ Takes(w) \/ GivesBack(w) \/ LeavesBehind(w)
<1>1. /\ pc \in [Worker -> ExecutePC] /\ job \in [Worker -> Run \union {None}]
      /\ tok \in [Worker -> 0..MaxToken] /\ lease \in [Run -> 0..MaxToken]
      /\ pc[w] # "idle" => job[w] \in Run
  BY Zenon DEF TypeOK, JobTypeOK, ControlTypeOK, CoordTypeOK, Bookkeeping
<1>2. CASE Load(w) \/ LoadFill(w) \/ Register(w) \/ Claim(w)
  <2>1. LeasesRest
    BY <1>1, <1>2, ZenonT(30)
    DEF Load, LoadFill, Dispatch, Claim, Register, Return, Goto, jobVars, localFrame, coordVars,
        procVars, LeasePC, RegisteredPC, LeasesRest
  <2>2. QED
    BY <2>1
<1>3. CASE Acquire(w)
  <2>1. CASE LeaseBusy(job[w]) /\ Return(w, "settle", "nak") /\ UNCHANGED <<coordVars, tok>>
    <3>1. LeasesRest
      BY <1>1, <1>3, <2>1, Zenon
      DEF Acquire, Return, Goto, coordVars, procVars, LeasePC, RegisteredPC, LeasesRest
    <3>2. QED
      BY <3>1
  <2>2. ASSUME NEW token \in 1..MaxToken, AcquireLease(job[w], token),
               tok' = [tok EXCEPT ![w] = token], Goto(w, "claim")
        PROVE  Takes(w)
    BY <1>3, <2>2, Zenon DEF Acquire, AcquireLease, Goto, procVars, LeaseFrame, Takes
  <2>3. QED
    BY <1>3, <2>1, <2>2, Zenon DEF Acquire
<1>4. CASE Reload(w) \/ ReloadFill(w) \/ Resolve(w) \/ BeginAttempt(w)
  <2>1. LeasesRest
    BY <1>1, <1>4, Zenon
    DEF Reload, ReloadFill, Continue, Resolve, FailLocal, BeginAttempt, Return, Goto, localFrame,
        coordVars, procVars, LeasePC, RegisteredPC, LeasesRest
  <2>2. QED
    BY <2>1
<1>5. CASE \/ CheckLease(w, "top", "check") \/ CheckLease(w, "post", "postctx")
           \/ CheckLease(w, "wake", "wakectx") \/ Execute(w) \/ CheckCtx(w)
  <2>1. LeasesRest
    BY <1>1, <1>5, Zenon
    DEF CheckLease, Execute, CheckCtx, Return, Goto, localFrame, coordVars, procVars, LeasePC,
        RegisteredPC, LeasesRest
  <2>2. QED
    BY <2>1
<1>6. CASE AfterAttempt(w) \/ Backoff(w) \/ WakeCtx(w) \/ Persist(w) \/ PersistCache(w)
  <2>1. LeasesRest
    BY <1>1, <1>6, ZenonT(30)
    DEF AfterAttempt, FailLocal, Backoff, WakeCtx, Persist, PersistCache, Return, Goto, localFrame,
        coordVars, procVars, LeasePC, RegisteredPC, LeasesRest
  <2>2. QED
    BY <2>1
<1>7. CASE DeadLetter(w, "deadletter", "cleanup") \/ DeadLetter(w, "redletter", "settle")
  <2>1. LeasesRest
    BY <1>1, <1>7, Zenon
    DEF DeadLetter, Return, Goto, coordVars, procVars, LeasePC, RegisteredPC, LeasesRest
  <2>2. QED
    BY <2>1
<1>8. CASE Settle(w)
  <2>1. /\ UNCHANGED <<lease, rpc, rrun, rtok>> /\ pc[w] = "settle" /\ pc'[w] = "idle" /\ tok'[w] = 0
        /\ \A v \in Worker \ {w} : pc'[v] = pc[v] /\ job'[v] = job[v] /\ tok'[v] = tok[v]
    BY <1>8, Zenon DEF Settle, ResetWorkers, coordVars, procVars
  <2>2. LeasesRest
    BY <2>1, Zenon DEF LeasePC, RegisteredPC, LeasesRest
  <2>3. QED
    BY <2>2
<1>9. CASE Cleanup(w) \/ Release(w)
  <2>1. GivesBack(w)
    BY <1>9, Zenon
    DEF Cleanup, Release, ReleaseLease, LeaseHeldBy, Goto, jobVars, procVars, LeaseFrame, GivesBack
  <2>2. QED
    BY <2>1
<1>10. CASE RenewFails(w) \/ ObserveCancel(w) \/ CallFails(w)
  <2>1. LeasesRest
    BY <1>1, <1>10, Zenon
    DEF RenewFails, ObserveCancel, CallFails, ErrorReturn, Return, Goto, jobVars, localFrame, coordVars,
        procVars, LeasePC, RegisteredPC, LeasesRest
  <2>2. QED
    BY <2>1
<1>11. CASE AnswerLost(w)
  <2>1. "call" \in FaultKinds /\ UNCHANGED <<job, tok, rpc, rrun, rtok>>
    BY <1>11, Zenon DEF AnswerLost, Fault, procVars
  <2>2. CASE pc[w] = "acquire"
    <3>1. PICK token \in 1..MaxToken : AcquireLease(job[w], token)
      BY <1>11, <2>2, Zenon DEF AnswerLost
    <3>2. LeavesBehind(w)
      BY <1>11, <2>1, <2>2, <3>1, Zenon
      DEF AnswerLost, AcquireLease, ErrorReturn, Return, Goto, LeaseFrame, LeavesBehind
    <3>3. QED
      BY <3>2
  <2>3. CASE pc[w] # "acquire"
    <3>1. UNCHANGED <<lease, rpc, rrun, rtok>>
      BY <1>11, <2>1, <2>3, Zenon DEF AnswerLost, coordVars
    <3>2. \/ pc[w] \in {"load", "redletter"} /\ pc' = [pc EXCEPT ![w] = "settle"]
          \/ pc[w] = "claim" /\ pc' = [pc EXCEPT ![w] = "release"]
          \/ pc[w] \in {"reload", "persist", "deadletter"} /\ pc' = [pc EXCEPT ![w] = "cleanup"]
      BY <1>11, <2>3, Zenon DEF AnswerLost, ErrorReturn, Return, Goto
    <3>3. LeasesRest
      BY <1>1, <2>1, <3>1, <3>2, ZenonT(30) DEF LeasePC, RegisteredPC, LeasesRest
    <3>4. QED
      BY <3>3
  <2>4. QED
    BY <2>2, <2>3
<1>12. CASE ReleaseFails(w)
  <2>1. LeavesBehind(w)
    BY <1>12, Zenon
    DEF ReleaseFails, Fault, Goto, jobVars, coordVars, procVars, LeaseFrame, LeavesBehind
  <2>2. QED
    BY <2>1
<1>13. QED
  BY <1>2, <1>3, <1>4, <1>5, <1>6, <1>7, <1>8, <1>9, <1>10, <1>11, <1>12, Zenon
  DEF WorkerStep, WorkerFault

\* Who holds a lease has a Run.
LEMMA HoldersAreTyped ==
  ASSUME TypeOK, Bookkeeping
  PROVE  /\ \A v \in Worker : HoldsLease(v) => job[v] \in Run
         /\ \A p \in Proc : HoldsRecovery(p) => rrun[p] \in Run
  BY Zenon
  DEF Bookkeeping, TypeOK, JobTypeOK, ProcTypeOK, HoldsLease, HoldsRecovery, LeasePC, RegisteredPC

\* A step in which no slot and no recovery becomes a holder keeps the others
\* in agreement unless it touches their leases.
LEMMA HoldersRemain ==
  ASSUME HoldersAgree,
         \A w \in Worker : HoldsLease(w)' => /\ HoldsLease(w) /\ job'[w] = job[w] /\ tok'[w] = tok[w]
                                             /\ lease'[job[w]] = lease[job[w]],
         \A p \in Proc : HoldsRecovery(p)' => /\ HoldsRecovery(p) /\ rrun'[p] = rrun[p]
                                              /\ rtok'[p] = rtok[p] /\ lease'[rrun[p]] = lease[rrun[p]]
  PROVE  HoldersAgree'
<1>1. /\ \A v \in Worker : HoldsLease(v)' => tok'[v] # 0 /\ lease'[job'[v]] = tok'[v]
      /\ \A p \in Proc : HoldsRecovery(p)' => rtok'[p] # 0 /\ lease'[rrun'[p]] = rtok'[p]
  BY SMT DEF HoldersAgree
<1>2. /\ \A u, v \in Worker : u # v /\ HoldsLease(u)' /\ HoldsLease(v)' => job'[u] # job'[v]
      /\ \A p, q \in Proc : p # q /\ HoldsRecovery(p)' /\ HoldsRecovery(q)' => rrun'[p] # rrun'[q]
      /\ \A v \in Worker, p \in Proc : HoldsLease(v)' /\ HoldsRecovery(p)' => job'[v] # rrun'[p]
  BY SMT DEF HoldersAgree
<1>3. QED
  BY <1>1, <1>2, Zenon DEF HoldersAgree

\* The holders keep agreeing with the coordinator, whatever a slot does.
LEMMA HoldersRest == ASSUME HoldersAgree, LeasesRest PROVE HoldersAgree'
<1>1. \A v \in Worker : HoldsLease(v)' => /\ HoldsLease(v) /\ job'[v] = job[v] /\ tok'[v] = tok[v]
                                          /\ lease'[job[v]] = lease[job[v]]
  BY Zenon DEF LeasesRest, HoldsLease
<1>2. \A p \in Proc : HoldsRecovery(p)' => /\ HoldsRecovery(p) /\ rrun'[p] = rrun[p]
                                           /\ rtok'[p] = rtok[p] /\ lease'[rrun[p]] = lease[rrun[p]]
  BY Zenon DEF LeasesRest, HoldsRecovery
<1>3. QED
  BY <1>1, <1>2, HoldersRemain, Zenon

LEMMA HoldersTake ==
  ASSUME TypeOK, Bookkeeping, HoldersAgree, NEW w \in Worker, Takes(w)
  PROVE  HoldersAgree'
<1>1. PICK token \in 1..MaxToken : /\ lease' = [lease EXCEPT ![job[w]] = token]
                                   /\ tok' = [tok EXCEPT ![w] = token]
  BY Zenon DEF Takes
<1>2. /\ pc \in [Worker -> ExecutePC] /\ tok \in [Worker -> 0..MaxToken]
      /\ lease \in [Run -> 0..MaxToken] /\ job[w] \in Run /\ lease[job[w]] = 0
      /\ rpc' = rpc /\ rrun' = rrun /\ rtok' = rtok /\ job' = job /\ pc' = [pc EXCEPT ![w] = "claim"]
      /\ pc[w] \notin LeasePC
  BY Zenon
  DEF TypeOK, JobTypeOK, ControlTypeOK, CoordTypeOK, Bookkeeping, Takes, LeaseFrame, LeasePC,
      RegisteredPC
<1>3. token # 0
  OBVIOUS
<1>4. /\ \A v \in Worker \ {w} : pc'[v] = pc[v] /\ tok'[v] = tok[v]
      /\ tok'[w] = token /\ lease'[job[w]] = token
      /\ \A r \in Run \ {job[w]} : lease'[r] = lease[r]
  BY <1>1, <1>2, Zenon
<1>5. /\ \A v \in Worker : HoldsLease(v) => job[v] # job[w]
      /\ \A p \in Proc : HoldsRecovery(p) => rrun[p] # job[w]
  BY <1>2, Zenon DEF HoldersAgree
<1>6. /\ \A v \in Worker : HoldsLease(v) => job[v] \in Run
      /\ \A p \in Proc : HoldsRecovery(p) => rrun[p] \in Run
  BY HoldersAreTyped, Zenon
<1>7. \A v \in Worker : v # w => (HoldsLease(v)' <=> HoldsLease(v))
  BY <1>4, Zenon DEF HoldsLease
<1>8. \A p \in Proc : HoldsRecovery(p)' <=> HoldsRecovery(p)
  BY <1>2, Zenon DEF HoldsRecovery
<1>9. /\ \A v \in Worker : HoldsLease(v)' => tok'[v] # 0 /\ lease'[job'[v]] = tok'[v]
      /\ \A p \in Proc : HoldsRecovery(p)' => rtok'[p] # 0 /\ lease'[rrun'[p]] = rtok'[p]
  <2>1. ASSUME NEW v \in Worker, HoldsLease(v)' PROVE tok'[v] # 0 /\ lease'[job'[v]] = tok'[v]
    <3>1. CASE v = w
      BY <1>2, <1>3, <1>4, <3>1, Zenon
    <3>2. CASE v # w
      <4>1. HoldsLease(v) /\ job[v] \in Run \ {job[w]} /\ tok'[v] = tok[v]
        BY <1>4, <1>5, <1>6, <1>7, <2>1, <3>2, Zenon
      <4>2. tok[v] # 0 /\ lease[job[v]] = tok[v]
        BY <4>1, Zenon DEF HoldersAgree
      <4>3. QED
        BY <1>2, <1>4, <4>1, <4>2, Zenon
    <3>3. QED
      BY <3>1, <3>2
  <2>2. ASSUME NEW p \in Proc, HoldsRecovery(p)' PROVE rtok'[p] # 0 /\ lease'[rrun'[p]] = rtok'[p]
    <3>1. HoldsRecovery(p) /\ rrun[p] \in Run \ {job[w]}
      BY <1>5, <1>6, <1>8, <2>2, Zenon
    <3>2. rtok[p] # 0 /\ lease[rrun[p]] = rtok[p]
      BY <3>1, Zenon DEF HoldersAgree
    <3>3. QED
      BY <1>2, <1>4, <3>1, <3>2, Zenon
  <2>3. QED
    BY <2>1, <2>2, Zenon
<1>10. /\ \A u, v \in Worker : u # v /\ HoldsLease(u)' /\ HoldsLease(v)' => job'[u] # job'[v]
       /\ \A p, q \in Proc : p # q /\ HoldsRecovery(p)' /\ HoldsRecovery(q)' => rrun'[p] # rrun'[q]
       /\ \A v \in Worker, p \in Proc : HoldsLease(v)' /\ HoldsRecovery(p)' => job'[v] # rrun'[p]
  BY <1>2, <1>5, <1>7, <1>8, Zenon DEF HoldersAgree
<1>11. QED
  BY <1>9, <1>10, Zenon DEF HoldersAgree

LEMMA HoldersGiveBack ==
  ASSUME TypeOK, Bookkeeping, HoldersAgree, NEW w \in Worker, GivesBack(w) \/ LeavesBehind(w)
  PROVE  HoldersAgree'
<1>1. /\ pc \in [Worker -> ExecutePC] /\ lease \in [Run -> 0..MaxToken] /\ job[w] \in Run
      /\ rpc' = rpc /\ rrun' = rrun /\ rtok' = rtok /\ job' = job /\ tok' = tok
      /\ pc' = [pc EXCEPT ![w] = "settle"]
  BY Zenon
  DEF TypeOK, JobTypeOK, ControlTypeOK, CoordTypeOK, Bookkeeping, GivesBack, LeavesBehind, LeaseFrame
<1>2. pc[w] = "acquire" \/ pc[w] \in {"cleanup", "release"}
  BY Zenon DEF GivesBack, LeavesBehind
<1>3. /\ \A v \in Worker : v # w /\ HoldsLease(v) => job[v] # job[w] \/ lease' = lease
      /\ \A p \in Proc : HoldsRecovery(p) => rrun[p] # job[w] \/ lease' = lease
  <2>1. CASE pc[w] = "acquire" /\ lease[job[w]] = 0
    BY <2>1, ZenonT(30) DEF HoldersAgree
  <2>2. CASE pc[w] \in {"cleanup", "release"}
    <3>1. HoldsLease(w)
      BY <2>2, Zenon DEF HoldsLease, LeasePC, RegisteredPC
    <3>2. QED
      BY <3>1, Zenon DEF HoldersAgree
  <2>3. QED
    BY <2>1, <2>2, Zenon DEF GivesBack, LeavesBehind
<1>4. \A r \in Run \ {job[w]} : lease'[r] = lease[r]
  BY <1>1, Zenon DEF GivesBack, LeavesBehind
<1>5. /\ \A v \in Worker : HoldsLease(v) => job[v] \in Run
      /\ \A p \in Proc : HoldsRecovery(p) => rrun[p] \in Run
  BY HoldersAreTyped, Zenon
<1>6. \A v \in Worker : HoldsLease(v)' => v # w /\ HoldsLease(v)
  BY <1>1, Zenon DEF HoldsLease, LeasePC, RegisteredPC
<1>7. \A p \in Proc : HoldsRecovery(p)' <=> HoldsRecovery(p)
  BY <1>1, Zenon DEF HoldsRecovery
<1>8. /\ \A v \in Worker : HoldsLease(v)' => lease'[job[v]] = lease[job[v]]
      /\ \A p \in Proc : HoldsRecovery(p)' => lease'[rrun[p]] = lease[rrun[p]]
  BY <1>3, <1>4, <1>5, <1>6, <1>7, Zenon
<1>9. QED
  BY <1>1, <1>6, <1>7, <1>8, HoldersRemain, Zenon

\* What a step of process p does to the leases: nothing, or its recovery takes
\* a free one, moves on, or gives its own back, or the process dies.
RecoveryTakes(p, r) ==
  /\ rpc[p] = "idle" /\ lease[r] = 0
  /\ UNCHANGED <<pc, job, tok>>
  /\ rpc' = [rpc EXCEPT ![p] = "recover"] /\ rrun' = [rrun EXCEPT ![p] = r]
  /\ \E token \in 1..MaxToken : /\ lease' = [lease EXCEPT ![r] = token]
                                /\ rtok' = [rtok EXCEPT ![p] = token]

RecoveryMoves(p) ==
  /\ UNCHANGED <<lease, rtok, pc, job, tok>>
  /\ \/ /\ rpc[p] \in {"recover", "invalidate"} /\ rrun' = rrun
        /\ \E to \in {"invalidate", "requeued", "untouched"} : rpc' = [rpc EXCEPT ![p] = to]
     \/ /\ rpc[p] = "enqueue" /\ rrun' = [rrun EXCEPT ![p] = None]
        /\ rpc' = [rpc EXCEPT ![p] = "idle"]

RecoveryGivesBack(p) ==
  /\ rpc[p] \in {"requeued", "untouched"}
  /\ UNCHANGED <<pc, job, tok>>
  /\ \E to \in {"enqueue", "idle"}, r \in {rrun[p], None} :
       rpc' = [rpc EXCEPT ![p] = to] /\ rrun' = [rrun EXCEPT ![p] = r]
  /\ rtok' = [rtok EXCEPT ![p] = 0]
  /\ lease' = [lease EXCEPT ![rrun[p]] = IF @ = rtok[p] THEN 0 ELSE @]

LEMMA LeaseProcSteps ==
  ASSUME NEW p \in Proc, ProcStep(p)
  PROVE  \/ UNCHANGED <<lease, rpc, rrun, rtok, pc, job, tok>>
         \/ \E r \in Run : RecoveryTakes(p, r)
         \/ RecoveryMoves(p) \/ RecoveryGivesBack(p) \/ Crash(p)
<1>1. ASSUME NEW r \in Run,
             CancelRequest(p, r) \/ CancelCache(p, r) \/ CancelExecution(p, r) \/ CancelRefused(p, r)
      PROVE  UNCHANGED <<lease, rpc, rrun, rtok, pc, job, tok>>
  BY <1>1, Zenon
  DEF CancelRequest, CancelCache, CancelExecution, CancelRefused, coordVars, procVars, workerVars,
      jobVars
<1>2. CASE StartProcess(p) \/ Shutdown(p) \/ StopProcess(p) \/ RecoverDone(p)
  BY <1>2, Zenon
  DEF StartProcess, Shutdown, StopProcess, RecoverDone, coordVars, workerVars, jobVars
<1>3. ASSUME NEW r \in Run, RecoverQueued(p, r) PROVE UNCHANGED <<lease, rpc, rrun, rtok, pc, job, tok>>
  BY <1>3, Zenon DEF RecoverQueued, coordVars, workerVars, jobVars
<1>4. ASSUME NEW r \in Run, RecoverAcquire(p, r)
      PROVE  UNCHANGED <<lease, rpc, rrun, rtok, pc, job, tok>> \/ RecoveryTakes(p, r)
  BY <1>4, Zenon DEF RecoverAcquire, AcquireLease, coordVars, workerVars, jobVars, RecoveryTakes
<1>5. CASE RecoverReset(p) \/ RecoverInvalidate(p) \/ RecoverEnqueue(p)
  <2>1. RecoveryMoves(p)
    BY <1>5, Zenon
    DEF RecoverReset, RecoverInvalidate, RecoverEnqueue, coordVars, workerVars, jobVars, RecoveryMoves
  <2>2. QED
    BY <2>1
<1>6. CASE RecoverRelease(p)
  <2>1. RecoveryGivesBack(p)
    BY <1>6, Zenon
    DEF RecoverRelease, ReleaseLease, LeaseHeldBy, workerVars, jobVars, RecoveryGivesBack
  <2>2. QED
    BY <2>1
<1>7. QED
  BY <1>1, <1>2, <1>3, <1>4, <1>5, <1>6, Zenon DEF ProcStep, RecoverStep

LEMMA HoldersRecover ==
  ASSUME TypeOK, Bookkeeping, HoldersAgree, NEW p \in Proc, NEW r \in Run, RecoveryTakes(p, r)
  PROVE  HoldersAgree'
<1>1. PICK token \in 1..MaxToken : /\ lease' = [lease EXCEPT ![r] = token]
                                   /\ rtok' = [rtok EXCEPT ![p] = token]
  BY Zenon DEF RecoveryTakes
<1>2. /\ rpc \in [Proc -> RecoverPC] /\ rtok \in [Proc -> 0..MaxToken]
      /\ rrun \in [Proc -> Run \union {None}]
      /\ lease \in [Run -> 0..MaxToken] /\ lease[r] = 0
      /\ pc' = pc /\ job' = job /\ tok' = tok
      /\ rpc' = [rpc EXCEPT ![p] = "recover"] /\ rrun' = [rrun EXCEPT ![p] = r]
  BY Zenon DEF TypeOK, ProcTypeOK, CoordTypeOK, RecoveryTakes
<1>3. token # 0
  OBVIOUS
<1>4. /\ \A q \in Proc \ {p} : rpc'[q] = rpc[q] /\ rtok'[q] = rtok[q] /\ rrun'[q] = rrun[q]
      /\ rtok'[p] = token /\ rrun'[p] = r /\ lease'[r] = token
      /\ \A q \in Run \ {r} : lease'[q] = lease[q]
  BY <1>1, <1>2, Zenon
<1>5. /\ \A v \in Worker : HoldsLease(v) => job[v] # r
      /\ \A q \in Proc : HoldsRecovery(q) => rrun[q] # r
  BY <1>2, ZenonT(30) DEF HoldersAgree
<1>6. /\ \A v \in Worker : HoldsLease(v) => job[v] \in Run
      /\ \A q \in Proc : HoldsRecovery(q) => rrun[q] \in Run
  BY HoldersAreTyped, Zenon
<1>7. \A v \in Worker : HoldsLease(v)' <=> HoldsLease(v)
  BY <1>2, Zenon DEF HoldsLease
<1>8. \A q \in Proc : q # p => (HoldsRecovery(q)' <=> HoldsRecovery(q))
  BY <1>4, Zenon DEF HoldsRecovery
<1>9. ASSUME NEW v \in Worker, HoldsLease(v)' PROVE tok'[v] # 0 /\ lease'[job'[v]] = tok'[v]
  <2>1. HoldsLease(v) /\ job[v] \in Run \ {r}
    BY <1>5, <1>6, <1>7, <1>9, Zenon
  <2>2. tok[v] # 0 /\ lease[job[v]] = tok[v]
    BY <2>1, Zenon DEF HoldersAgree
  <2>3. QED
    BY <1>2, <1>4, <2>1, <2>2, Zenon
<1>10. ASSUME NEW q \in Proc, HoldsRecovery(q)' PROVE rtok'[q] # 0 /\ lease'[rrun'[q]] = rtok'[q]
  <2>1. CASE q = p
    BY <1>3, <1>4, <2>1, Zenon
  <2>2. CASE q # p
    <3>1. HoldsRecovery(q) /\ rrun[q] \in Run \ {r}
      BY <1>5, <1>6, <1>8, <1>10, <2>2, Zenon
    <3>2. rtok[q] # 0 /\ lease[rrun[q]] = rtok[q]
      BY <3>1, Zenon DEF HoldersAgree
    <3>3. QED
      BY <1>4, <2>2, <3>1, <3>2, Zenon
  <2>3. QED
    BY <2>1, <2>2
<1>11. \A u, v \in Worker : u # v /\ HoldsLease(u)' /\ HoldsLease(v)' => job'[u] # job'[v]
  BY <1>2, <1>7, Zenon DEF HoldersAgree
<1>12. ASSUME NEW v \in Worker, NEW q \in Proc, HoldsLease(v)', HoldsRecovery(q)'
       PROVE  job'[v] # rrun'[q]
  <2>1. job'[v] = job[v] /\ job[v] # r
    BY <1>2, <1>5, <1>7, <1>12, Zenon
  <2>2. CASE q = p
    BY <1>4, <2>1, <2>2, Zenon
  <2>3. CASE q # p
    <3>1. HoldsLease(v) /\ HoldsRecovery(q) /\ rrun'[q] = rrun[q]
      BY <1>4, <1>7, <1>8, <1>12, <2>3, Zenon
    <3>2. job[v] # rrun[q]
      BY <3>1, Zenon DEF HoldersAgree
    <3>3. QED
      BY <2>1, <3>1, <3>2, Zenon
  <2>4. QED
    BY <2>2, <2>3
<1>13. ASSUME NEW o \in Proc, NEW q \in Proc, o # q, HoldsRecovery(o)', HoldsRecovery(q)'
       PROVE  rrun'[o] # rrun'[q]
  <2>1. CASE o = p
    BY <1>4, <1>5, <1>8, <1>13, <2>1, Zenon
  <2>2. CASE q = p
    BY <1>4, <1>5, <1>8, <1>13, <2>2, Zenon
  <2>3. CASE o # p /\ q # p
    <3>1. HoldsRecovery(o) /\ HoldsRecovery(q) /\ rrun'[o] = rrun[o] /\ rrun'[q] = rrun[q]
      BY <1>4, <1>8, <1>13, <2>3, Zenon
    <3>2. rrun[o] # rrun[q]
      BY <1>13, <3>1, Zenon DEF HoldersAgree
    <3>3. QED
      BY <3>1, <3>2, Zenon
  <2>4. QED
    BY <2>1, <2>2, <2>3
<1>14. QED
  BY <1>9, <1>10, <1>11, <1>12, <1>13, Zenon DEF HoldersAgree

\* The holders keep agreeing with the coordinator, whatever a process does.
LEMMA HoldersProc ==
  ASSUME TypeOK, Bookkeeping, HoldersAgree, NEW p \in Proc, ProcStep(p)
  PROVE  HoldersAgree'
<1>1. CASE UNCHANGED <<lease, rpc, rrun, rtok, pc, job, tok>>
  BY <1>1, Zenon DEF HoldersAgree, HoldsLease, HoldsRecovery
<1>2. rpc \in [Proc -> RecoverPC] /\ rtok \in [Proc -> 0..MaxToken] /\ lease \in [Run -> 0..MaxToken]
      /\ rrun \in [Proc -> Run \union {None}]
  BY Zenon DEF TypeOK, ProcTypeOK, CoordTypeOK
<1>3. CASE RecoveryMoves(p)
  <2>1. lease' = lease /\ rtok' = rtok /\ pc' = pc /\ job' = job /\ tok' = tok
    BY <1>3, Zenon DEF RecoveryMoves
  <2>2. \A q \in Proc : HoldsRecovery(q)' => HoldsRecovery(q) /\ rrun'[q] = rrun[q]
    <3>1. \A q \in Proc \ {p} : rpc'[q] = rpc[q] /\ rrun'[q] = rrun[q]
      BY <1>2, <1>3, Zenon DEF RecoveryMoves
    <3>2. HoldsRecovery(p)' => HoldsRecovery(p) /\ rrun'[p] = rrun[p]
      BY <1>2, <1>3, Zenon DEF RecoveryMoves, HoldsRecovery
    <3>3. QED
      BY <3>1, <3>2, Zenon DEF HoldsRecovery
  <2>3. \A v \in Worker : HoldsLease(v)' => HoldsLease(v)
    BY <2>1, Zenon DEF HoldsLease
  <2>4. QED
    BY <2>1, <2>2, <2>3, HoldersRemain, Zenon
<1>4. CASE RecoveryGivesBack(p)
  <2>1. HoldsRecovery(p) /\ rrun[p] \in Run /\ pc' = pc /\ job' = job /\ tok' = tok
    BY <1>4, Zenon DEF RecoveryGivesBack, HoldsRecovery, Bookkeeping, TypeOK, ProcTypeOK
  <2>2. /\ \A q \in Proc \ {p} : rpc'[q] = rpc[q] /\ rrun'[q] = rrun[q] /\ rtok'[q] = rtok[q]
        /\ ~HoldsRecovery(p)'
    BY <1>2, <1>4, Zenon DEF RecoveryGivesBack, HoldsRecovery
  <2>3. \A r \in Run \ {rrun[p]} : lease'[r] = lease[r]
    BY <1>2, <1>4, Zenon DEF RecoveryGivesBack
  <2>4. /\ \A v \in Worker : HoldsLease(v) => job[v] \in Run \ {rrun[p]}
        /\ \A q \in Proc \ {p} : HoldsRecovery(q) => rrun[q] \in Run \ {rrun[p]}
    <3>1. /\ \A v \in Worker : HoldsLease(v) => job[v] \in Run
          /\ \A q \in Proc : HoldsRecovery(q) => rrun[q] \in Run
      BY HoldersAreTyped, Zenon
    <3>2. /\ \A v \in Worker : HoldsLease(v) => job[v] # rrun[p]
          /\ \A q \in Proc \ {p} : HoldsRecovery(q) => rrun[q] # rrun[p]
      BY <2>1, SMT DEF HoldersAgree
    <3>3. QED
      BY <3>1, <3>2, Zenon
  <2>5. \A v \in Worker : HoldsLease(v)' => HoldsLease(v)
    BY <2>1, Zenon DEF HoldsLease
  <2>6. \A q \in Proc : HoldsRecovery(q)' => q # p /\ HoldsRecovery(q)
    BY <2>2, Zenon DEF HoldsRecovery
  <2>7. QED
    BY <2>1, <2>2, <2>3, <2>4, <2>5, <2>6, HoldersRemain, Zenon
<1>5. CASE Crash(p)
  <2>1. /\ lease' = lease /\ rpc' = [rpc EXCEPT ![p] = "idle"] /\ rrun' = [rrun EXCEPT ![p] = None]
        /\ rtok' = [rtok EXCEPT ![p] = 0]
    BY <1>5, Zenon DEF Crash, coordVars
  <2>2. \A v \in Worker : /\ v \in SlotsOf(p) => pc'[v] = "idle"
                          /\ v \notin SlotsOf(p) => pc'[v] = pc[v] /\ job'[v] = job[v] /\ tok'[v] = tok[v]
    BY <1>5, Zenon DEF Crash, ResetWorkers
  <2>3. \A v \in Worker : HoldsLease(v)' => HoldsLease(v) /\ job'[v] = job[v] /\ tok'[v] = tok[v]
    BY <2>2, Zenon DEF HoldsLease, LeasePC, RegisteredPC
  <2>4. /\ \A q \in Proc \ {p} : rpc'[q] = rpc[q] /\ rrun'[q] = rrun[q] /\ rtok'[q] = rtok[q]
        /\ rpc'[p] = "idle"
    BY <1>2, <2>1, Zenon
  <2>5. \A q \in Proc : HoldsRecovery(q)' => /\ HoldsRecovery(q) /\ rrun'[q] = rrun[q]
                                             /\ rtok'[q] = rtok[q]
    BY <2>4, Zenon DEF HoldsRecovery
  <2>6. QED
    BY <2>1, <2>3, <2>5, HoldersRemain, Zenon
<1>6. QED
  BY <1>1, <1>3, <1>4, <1>5, LeaseProcSteps, HoldersRecover, Zenon

\* No keeper records an error and no process stops, because no fault makes one.
LEMMA KeepersStep ==
  ASSUME LeasesLast, TypeOK, HoldersAgree, KeepersWork, [Next]_vars
  PROVE  KeepersWork'
<1>1. \A k \in {"pause", "renew", "restore", "shutdown"} : ~Fault(k)
  BY Zenon DEF LeasesLast, Fault
<1>2. keeperErr \in [Worker -> BOOLEAN] /\ proc \in [Proc -> ProcState]
  BY Zenon DEF TypeOK, ControlTypeOK, ProcTypeOK
<1>3. ASSUME UNCHANGED <<keeperErr, proc>> PROVE KeepersWork'
  BY <1>3, Zenon DEF KeepersWork
<1>4. ASSUME NEW w \in Worker, WorkerStep(w) \/ WorkerFault(w) PROVE KeepersWork'
  <2>1. ~RenewFails(w)
    BY <1>1, Zenon DEF RenewFails, LeaseHeldBy, HoldersAgree, HoldsLease, LeasePC
  <2>2. CASE Settle(w)
    BY <2>2, Zenon DEF Settle, ResetWorkers, procVars, KeepersWork
  <2>3. CASE ~Settle(w)
    <3>1. UNCHANGED <<keeperErr, proc>>
      BY <1>4, <2>1, <2>3, Zenon
      DEF WorkerStep, WorkerFault, Load, LoadFill, Acquire, Claim, Register, Reload, ReloadFill, Resolve,
          CheckLease, BeginAttempt, Persist, PersistCache, Execute, CheckCtx, AfterAttempt, DeadLetter,
          Backoff, WakeCtx, Cleanup, Release, ObserveCancel, CallFails, AnswerLost, ReleaseFails,
          localFrame, procVars
    <3>2. QED
      BY <1>3, <3>1
  <2>4. QED
    BY <2>2, <2>3
<1>5. ASSUME NEW p \in Proc, ProcStep(p) PROVE KeepersWork'
  <2>1. ~Shutdown(p) /\ ~StopProcess(p)
    BY <1>1, Zenon DEF Shutdown, StopProcess, KeepersWork
  <2>2. CASE Crash(p)
    <3>1. /\ proc' = [proc EXCEPT ![p] = "down"]
          /\ \A w \in Worker : keeperErr'[w] = FALSE \/ keeperErr'[w] = keeperErr[w]
      BY <2>2, Zenon DEF Crash, ResetWorkers
    <3>2. QED
      BY <1>2, <3>1, Zenon DEF KeepersWork
  <2>3. CASE StartProcess(p) \/ RecoverDone(p)
    <3>1. /\ keeperErr' = keeperErr
          /\ \E to \in {"recovering", "up"} : proc' = [proc EXCEPT ![p] = to]
      BY <2>3, Zenon DEF StartProcess, RecoverDone, workerVars
    <3>2. QED
      BY <1>2, <3>1, Zenon DEF KeepersWork
  <2>4. CASE ~(Crash(p) \/ StartProcess(p) \/ RecoverDone(p))
    <3>1. UNCHANGED <<keeperErr, proc>>
      BY <1>5, <2>1, <2>4, Zenon
      DEF ProcStep, RecoverStep, CancelRequest, CancelCache, CancelExecution, CancelRefused,
          RecoverQueued, RecoverAcquire, RecoverReset, RecoverInvalidate, RecoverRelease, RecoverEnqueue,
          procVars, workerVars
    <3>2. QED
      BY <1>3, <3>1
  <2>5. QED
    BY <2>2, <2>3, <2>4
<1>6. ASSUME NEW w \in Worker, NEW r \in Run, NEW m \in 1..MaxMessages, Deliver(w, r, m)
      PROVE  UNCHANGED <<keeperErr, proc>>
  BY <1>6, Zenon DEF Deliver, localFrame, procVars
<1>7. ASSUME (\E r \in Run : Submit(r)) \/ Environment PROVE UNCHANGED <<keeperErr, proc>>
  BY <1>7, Zenon
  DEF Submit, SubmitCreate, SubmitCache, SubmitEnqueue, SubmitEnqueueError, SubmitFail, SubmitAbandon,
      submissionFrame, Environment, ExpireLease, ForgetMessageID, RestoreCoordinator, ExpireEntry,
      ReadMiss, ReadFill, workerVars, procVars
<1>8. QED
  BY <1>3, <1>4, <1>5, <1>6, <1>7, Zenon DEF Next, vars

\* While leases last, every step keeps one holder per Run: a lease is acquired
\* only when there is none, and expires only when nobody holds it.
LEMMA HoldersStep ==
  ASSUME LeasesLast, TypeOK, Bookkeeping, HoldersAgree, KeepersWork, [Next]_vars
  PROVE  HoldersAgree'
<1>1. ASSUME UNCHANGED <<lease, rpc, rrun, rtok, pc, job, tok>> PROVE HoldersAgree'
  BY <1>1, Zenon DEF HoldersAgree, HoldsLease, HoldsRecovery
<1>2. ASSUME NEW w \in Worker, WorkerStep(w) \/ WorkerFault(w) PROVE HoldersAgree'
  BY <1>2, LeaseWorkerSteps, HoldersRest, HoldersTake, HoldersGiveBack, Zenon
<1>3. ASSUME NEW w \in Worker, NEW r \in Run, NEW m \in 1..MaxMessages, Deliver(w, r, m)
      PROVE  HoldersAgree'
  <2>1. LeasesRest
    BY <1>3, Zenon
    DEF Deliver, Goto, localFrame, coordVars, procVars, TypeOK, JobTypeOK, ControlTypeOK, LeasePC,
        RegisteredPC, LeasesRest
  <2>2. QED
    BY <2>1, HoldersRest, Zenon
<1>4. ASSUME NEW r \in Run, ExpireLease(r) PROVE HoldersAgree'
  <2>1. /\ ~LeaseHasHolder(r) /\ lease' = [lease EXCEPT ![r] = 0]
        /\ UNCHANGED <<rpc, rrun, rtok, pc, job, tok>>
    BY <1>4, Zenon
    DEF ExpireLease, ExpireKey, LeasesLast, Fault, procVars, workerVars, jobVars
  <2>2. \A w \in Worker : HoldsLease(w) => job[w] # r
    <3>1. SUFFICES ASSUME NEW w \in Worker, HoldsLease(w), job[w] = r PROVE FALSE
      BY Zenon
    <3>2. tok[w] = lease[r] /\ pc[w] # "settle"
      BY <3>1, Zenon DEF HoldersAgree, HoldsLease, LeasePC, RegisteredPC
    <3>3. ~keeperErr[w] /\ ~Stopping(w)
      BY ProcOfAssumption, Zenon DEF KeepersWork, Stopping
    <3>4. QED
      BY <2>1, <3>1, <3>2, <3>3, Zenon DEF LeaseHasHolder
  <2>3. \A p \in Proc : HoldsRecovery(p) => rrun[p] # r
    BY <2>1, Zenon DEF LeaseHasHolder, HoldersAgree
  <2>4. \A q \in Run \ {r} : lease'[q] = lease[q]
    BY <2>1, Zenon DEF TypeOK, CoordTypeOK
  <2>5. /\ \A w \in Worker : HoldsLease(w)' => HoldsLease(w) /\ lease'[job[w]] = lease[job[w]]
        /\ \A p \in Proc : HoldsRecovery(p)' => HoldsRecovery(p) /\ lease'[rrun[p]] = lease[rrun[p]]
    <3>1. /\ \A w \in Worker : HoldsLease(w)' => HoldsLease(w)
          /\ \A p \in Proc : HoldsRecovery(p)' => HoldsRecovery(p)
      BY <2>1, Zenon DEF HoldsLease, HoldsRecovery
    <3>2. QED
      BY <2>2, <2>3, <2>4, <3>1, HoldersAreTyped, Zenon
  <2>6. QED
    BY <2>1, <2>5, HoldersRemain, Zenon
<1>5. ASSUME (\E r \in Run : Submit(r)) \/ Environment, ~\E r \in Run : ExpireLease(r)
      PROVE  UNCHANGED <<lease, rpc, rrun, rtok, pc, job, tok>>
  <2>1. ~RestoreCoordinator
    BY Zenon DEF RestoreCoordinator, LeasesLast, Fault
  <2>2. QED
    BY <1>5, <2>1, Zenon
    DEF Submit, SubmitCreate, SubmitCache, SubmitEnqueue, SubmitEnqueueError, SubmitFail, SubmitAbandon,
        submissionFrame, Environment, ForgetMessageID, ExpireEntry, ReadMiss, ReadFill, workerVars,
        jobVars, procVars, coordVars
<1>6. QED
  BY <1>1, <1>2, <1>3, <1>4, <1>5, HoldersProc, Zenon DEF Next, vars

LEMMA LeaseInvariant ==
  ASSUME LeasesLast
  PROVE  Spec => [](TypeOK /\ Bookkeeping /\ HoldersAgree /\ KeepersWork)
<1>1. Init => HoldersAgree /\ KeepersWork
  BY ZenonT(30) DEF Init, HoldersAgree, KeepersWork, HoldsLease, HoldsRecovery, LeasePC, RegisteredPC
<1>2. ASSUME TypeOK, Bookkeeping, HoldersAgree, KeepersWork, [Next]_vars
      PROVE  HoldersAgree' /\ KeepersWork'
  BY <1>2, HoldersStep, KeepersStep, Zenon
<1>3. QED
  BY <1>1, <1>2, InitTypes, NextTypes, PTL DEF Spec

\* While leases last, at most one execution of a Run is past its claim in the
\* whole cluster, whichever processes crash, whichever calls fail and however
\* often its message is delivered (AcquireLease, execute, Recover).
THEOREM OneExecution == ASSUME LeasesLast PROVE Spec => []ExclusiveExecution
<1>1. HoldersAgree => ExclusiveExecution
  BY Zenon DEF HoldersAgree, ExclusiveExecution, HoldsLease, LeasePC
<1>2. QED
  BY <1>1, LeaseInvariant, PTL

-----------------------------------------------------------------------------
(* Cancellation.                                                           *)

\* Every other slot keeps its entry: the one that registers or leaves is alone
\* with its Run.
LEMMA EntriesAreKept ==
  ASSUME TypeOK, Bookkeeping, HoldersAgree, RegisteredIsActive, NEW w \in Worker,
         StaysRegistered \/ Enters(w) \/ Leaves(w)
  PROVE  RegisteredIsActive'
<1>1. /\ pc \in [Worker -> ExecutePC] /\ active \in [Proc -> [Run -> Worker \union {None}]]
      /\ \A v \in Worker : HoldsLease(v) => job[v] \in Run
      /\ \A v \in Worker : ProcOf[v] \in Proc
  BY ProcOfAssumption, HoldersAreTyped, Zenon DEF TypeOK, ControlTypeOK
<1>2. \A v \in Worker : pc[v] \in RegisteredPC => HoldsLease(v)
  BY Zenon DEF HoldsLease, LeasePC
<1>3. CASE StaysRegistered
  <2>1. \A v \in Worker : pc'[v] \in RegisteredPC => pc[v] \in RegisteredPC /\ job'[v] = job[v]
    BY <1>3, Zenon DEF StaysRegistered
  <2>2. active' = active
    BY <1>3, Zenon DEF StaysRegistered
  <2>3. QED
    BY <2>1, <2>2, Zenon DEF RegisteredIsActive
<1>4. ASSUME pc[w] \in {"register", "cleanup"}, NEW x \in Worker \union {None}, job' = job,
             active' = [active EXCEPT ![ProcOf[w]] = [@ EXCEPT ![job[w]] = x]],
             \A v \in Worker \ {w} : pc'[v] = pc[v],
             pc'[w] \in RegisteredPC => x = w
      PROVE  RegisteredIsActive'
  <2>1. HoldsLease(w) /\ job[w] \in Run
    BY <1>1, <1>4, Zenon DEF HoldsLease, LeasePC, RegisteredPC
  <2>2. active'[ProcOf[w]][job[w]] = x
    BY <1>1, <1>4, <2>1, Zenon
  <2>3. ASSUME NEW v \in Worker \ {w}, pc'[v] \in RegisteredPC PROVE active'[ProcOf[v]][job[v]] = v
    <3>1. pc[v] \in RegisteredPC /\ HoldsLease(v)
      BY <1>2, <1>4, <2>3, Zenon
    <3>2. job[v] # job[w] /\ job[v] \in Run /\ active[ProcOf[v]][job[v]] = v
      BY <1>1, <2>1, <3>1, Zenon DEF HoldersAgree, RegisteredIsActive
    <3>3. active'[ProcOf[v]][job[v]] = active[ProcOf[v]][job[v]]
      BY <1>1, <1>4, <2>1, <3>2, Zenon
    <3>4. QED
      BY <3>2, <3>3
  <2>4. QED
    BY <1>4, <2>2, <2>3, Zenon DEF RegisteredIsActive
<1>5. CASE Enters(w)
  BY <1>1, <1>4, <1>5, Zenon DEF Enters
<1>6. CASE Leaves(w)
  <2>1. pc'[w] \notin RegisteredPC
    BY <1>1, <1>6, Zenon DEF Leaves, RegisteredPC
  <2>2. QED
    BY <1>1, <1>4, <1>6, <2>1, Zenon DEF Leaves
<1>7. QED
  BY <1>3, <1>5, <1>6

LEMMA EntriesStep ==
  ASSUME TypeOK, Bookkeeping, HoldersAgree, RegisteredIsActive, [Next]_vars
  PROVE  RegisteredIsActive'
<1>1. ASSUME UNCHANGED <<active, pc, job>> PROVE RegisteredIsActive'
  BY <1>1, Zenon DEF RegisteredIsActive
<1>2. ASSUME NEW w \in Worker, WorkerStep(w) \/ WorkerFault(w) PROVE RegisteredIsActive'
  BY <1>2, RegistryWorkerSteps, EntriesAreKept, Zenon
<1>3. ASSUME NEW w \in Worker, NEW r \in Run, NEW m \in 1..MaxMessages, Deliver(w, r, m)
      PROVE  RegisteredIsActive'
  <2>1. /\ pc[w] = "idle" /\ pc'[w] = "load" /\ active' = active
        /\ \A v \in Worker \ {w} : pc'[v] = pc[v] /\ job'[v] = job[v]
    BY <1>3, Zenon DEF Deliver, Goto, TypeOK, JobTypeOK, ControlTypeOK
  <2>2. StaysRegistered
    BY <2>1, Zenon DEF RegisteredPC, StaysRegistered
  <2>3. QED
    BY <2>2, EntriesAreKept, Zenon
<1>4. ASSUME NEW p \in Proc, Crash(p) PROVE RegisteredIsActive'
  <2>1. /\ active' = [active EXCEPT ![p] = [r \in Run |-> None]]
        /\ \A v \in Worker : /\ ProcOf[v] = p => pc'[v] = "idle"
                             /\ ProcOf[v] # p => pc'[v] = pc[v] /\ job'[v] = job[v]
    BY <1>4, Zenon DEF Crash, ResetWorkers, SlotsOf
  <2>2. \A q \in Proc \ {p} : active'[q] = active[q]
    BY <2>1, Zenon DEF TypeOK, ControlTypeOK
  <2>3. ASSUME NEW v \in Worker, pc'[v] \in RegisteredPC PROVE active'[ProcOf[v]][job'[v]] = v
    <3>1. ProcOf[v] # p /\ ProcOf[v] \in Proc
      BY <2>1, <2>3, ProcOfAssumption, Zenon DEF RegisteredPC
    <3>2. pc[v] \in RegisteredPC /\ job'[v] = job[v] /\ active'[ProcOf[v]] = active[ProcOf[v]]
      BY <2>1, <2>2, <2>3, <3>1, Zenon
    <3>3. QED
      BY <3>2, Zenon DEF RegisteredIsActive
  <2>4. QED
    BY <2>3, Zenon DEF RegisteredIsActive
<1>5. ASSUME NEW p \in Proc, ProcStep(p), ~Crash(p) PROVE UNCHANGED <<active, pc, job>>
  BY <1>5, Zenon
  DEF ProcStep, RecoverStep, CancelRequest, CancelCache, CancelExecution, CancelRefused, StartProcess,
      RecoverQueued, RecoverAcquire, RecoverReset, RecoverInvalidate, RecoverRelease, RecoverEnqueue,
      RecoverDone, Shutdown, StopProcess, workerVars, jobVars
<1>6. ASSUME (\E r \in Run : Submit(r)) \/ Environment PROVE UNCHANGED <<active, pc, job>>
  BY <1>6, Zenon
  DEF Submit, SubmitCreate, SubmitCache, SubmitEnqueue, SubmitEnqueueError, SubmitFail, SubmitAbandon,
      submissionFrame, Environment, ExpireLease, ForgetMessageID, RestoreCoordinator, ExpireEntry,
      ReadMiss, ReadFill, workerVars, jobVars
<1>7. QED
  BY <1>1, <1>2, <1>3, <1>4, <1>5, <1>6, Zenon DEF Next, vars

\* While leases last, Cancel leaves no execution of the Run in its process
\* running: whoever is registered is found in Engine.active, whatever happened
\* between the write of the cancellation and the look into the map.
THEOREM CancelReachesExecutions == ASSUME LeasesLast PROVE Spec => CancelInterruptsExecutions
<1> DEFINE Told ==
      \A p \in Proc, r \in Run :
        (<<r, "cache">> \in canceling[p] \ canceling'[p] /\ proc'[p] # "down") =>
          \A w \in SlotsOf(p) : (job[w] = r /\ pc[w] \in RegisteredPC \ {"cleanup"}) => ctxDone'[w]
<1>1. Init => RegisteredIsActive
  BY Zenon DEF Init, RegisteredIsActive, RegisteredPC
<1>2. ASSUME TypeOK, RegisteredIsActive, [Next]_vars PROVE [Told]_vars
  <2>1. SUFFICES ASSUME NEW p \in Proc, NEW r \in Run, <<r, "cache">> \in canceling[p],
                        <<r, "cache">> \notin canceling'[p], proc'[p] # "down",
                        NEW w \in SlotsOf(p), job[w] = r, pc[w] \in RegisteredPC
                 PROVE  ctxDone'[w]
    BY Zenon
  <2>2. canceling \in [Proc -> SUBSET (Run \X CancelStage)] /\ proc \in [Proc -> ProcState]
    BY <1>2, Zenon DEF TypeOK, ProcTypeOK
  <2>3. canceling' # canceling
    BY <2>1, Zenon
  <2>4. PICK q \in Proc : ProcStep(q)
    <3>1. ASSUME NEW v \in Worker, WorkerStep(v) \/ WorkerFault(v) PROVE canceling' = canceling
      BY <3>1, Zenon
      DEF WorkerStep, WorkerFault, Load, LoadFill, Acquire, Claim, Register, Reload, ReloadFill, Resolve,
          CheckLease, BeginAttempt, Persist, PersistCache, Execute, CheckCtx, AfterAttempt, DeadLetter,
          Backoff, WakeCtx, Cleanup, Release, Settle, RenewFails, ObserveCancel, CallFails, AnswerLost,
          ReleaseFails, localFrame, procVars
    <3>2. ASSUME (\E o \in Run : Submit(o)) \/ Environment PROVE canceling' = canceling
      BY <3>2, Zenon
      DEF Submit, SubmitCreate, SubmitCache, SubmitEnqueue, SubmitEnqueueError, SubmitFail, SubmitAbandon,
          submissionFrame, Environment, ExpireLease, ForgetMessageID, RestoreCoordinator, ExpireEntry,
          ReadMiss, ReadFill, procVars
    <3>3. ASSUME NEW v \in Worker, NEW o \in Run, NEW m \in 1..MaxMessages, Deliver(v, o, m)
          PROVE  canceling' = canceling
      BY <3>3, Zenon DEF Deliver, localFrame, procVars
    <3>4. QED
      BY <1>2, <2>3, <3>1, <3>2, <3>3, Zenon DEF Next, vars
  <2>5. \/ StopProcess(q) \/ Crash(q)
        \/ \E s \in Run : CancelRequest(q, s) \/ CancelCache(q, s) \/ CancelExecution(q, s)
    BY <2>3, <2>4, Zenon
    DEF ProcStep, RecoverStep, CancelRefused, StartProcess, RecoverQueued, RecoverAcquire, RecoverReset,
        RecoverInvalidate, RecoverRelease, RecoverEnqueue, RecoverDone, Shutdown, procVars
  <2>6. ~StopProcess(q) /\ ~Crash(q)
    <3>1. StopProcess(q) \/ Crash(q) => /\ canceling' = [canceling EXCEPT ![q] = {}]
                                        /\ proc' = [proc EXCEPT ![q] = "down"]
      BY Zenon DEF StopProcess, Crash
    <3>2. QED
      BY <2>1, <2>2, <3>1, Zenon
  <2>7. PICK s \in Run : CancelRequest(q, s) \/ CancelCache(q, s) \/ CancelExecution(q, s)
    BY <2>5, <2>6, Zenon
  <2>8. CASE CancelRequest(q, s) \/ CancelCache(q, s)
    <3>1. \/ canceling' = [canceling EXCEPT ![q] = @ \union {<<s, "store">>}]
          \/ canceling' = [canceling EXCEPT ![q] = (@ \ {<<s, "store">>}) \union {<<s, "cache">>}]
      BY <2>8, Zenon DEF CancelRequest, CancelCache
    <3>2. <<r, "cache">> # <<s, "store">>
      BY Zenon
    <3>3. QED
      BY <2>1, <2>2, <3>1, <3>2, Zenon
  <2>9. CASE CancelExecution(q, s)
    <3>1. /\ canceling' = [canceling EXCEPT ![q] = @ \ {<<s, "cache">>}]
          /\ ctxDone' = [v \in Worker |-> ctxDone[v] \/ active[q][s] = v]
      BY <2>9, Zenon DEF CancelExecution
    <3>2. q = p /\ <<r, "cache">> = <<s, "cache">>
      BY <2>1, <2>2, <3>1, Zenon
    <3>3. s = r
      BY <3>2, Zenon
    <3>4. w \in Worker /\ ProcOf[w] = p
      BY Zenon DEF SlotsOf
    <3>5. active[p][r] = w
      BY <1>2, <2>1, <3>4, Zenon DEF RegisteredIsActive
    <3>6. QED
      BY <3>1, <3>2, <3>3, <3>4, <3>5, Zenon
  <2>10. QED
    BY <2>7, <2>8, <2>9
<1>3. ASSUME TypeOK, Bookkeeping, HoldersAgree, RegisteredIsActive, [Next]_vars
      PROVE  RegisteredIsActive'
  BY <1>3, EntriesStep, Zenon
<1>4. QED
  BY <1>1, <1>2, <1>3, LeaseInvariant, PTL DEF Spec, CancelInterruptsExecutions

-----------------------------------------------------------------------------
(* The owners of leases.                                                   *)

\* An owner of the lease of r that will release it.
Owns(w, r) == job[w] = r /\ tok[w] = lease[r] /\ pc[w] # "settle"
OwnsRecovery(p, r) == rrun[p] = r /\ rtok[p] = lease[r]

\* Owners remain when they neither move nor lose their lease.
LEMMA OwnersRemain ==
  ASSUME LeasesHaveOwners, NEW S \in SUBSET Run,
         \A r \in S : lease'[r] = lease[r],
         \A r \in S, w \in Worker : lease[r] # 0 /\ Owns(w, r) => Owns(w, r)',
         \A r \in S, p \in Proc : lease[r] # 0 /\ OwnsRecovery(p, r) => OwnsRecovery(p, r)',
         \A r \in Run \ S : \/ lease'[r] = 0
                            \/ \E w \in Worker : Owns(w, r)'
                            \/ \E p \in Proc : OwnsRecovery(p, r)'
  PROVE  LeasesHaveOwners'
<1>1. \A r \in Run : \/ lease[r] = 0
                     \/ \E w \in Worker : Owns(w, r)
                     \/ \E p \in Proc : OwnsRecovery(p, r)
  BY Zenon DEF LeasesHaveOwners, Owns, OwnsRecovery
<1>2. \A r \in Run : \/ lease'[r] = 0
                     \/ \E w \in Worker : Owns(w, r)'
                     \/ \E p \in Proc : OwnsRecovery(p, r)'
  BY <1>1, Zenon
<1>3. QED
  BY <1>2, Zenon DEF LeasesHaveOwners, Owns, OwnsRecovery

LEMMA OwnersWorker ==
  ASSUME TypeOK, Bookkeeping, TokensAreUsed, LeasesHaveOwners, NEW w \in Worker,
         LeasesRest \/ Takes(w) \/ GivesBack(w)
  PROVE  TokensAreUsed' /\ LeasesHaveOwners'
<1>1. /\ pc \in [Worker -> ExecutePC] /\ tok \in [Worker -> 0..MaxToken] /\ lease \in [Run -> 0..MaxToken]
      /\ pc[w] # "idle" => job[w] \in Run
  BY Zenon DEF TypeOK, JobTypeOK, ControlTypeOK, CoordTypeOK, Bookkeeping
<1>2. \A v \in Worker, r \in Run : lease[r] # 0 /\ Owns(v, r) => pc[v] \in LeasePC
  BY Zenon DEF TokensAreUsed, Owns, HoldsLease
<1>3. rpc' = rpc /\ rrun' = rrun /\ rtok' = rtok
  BY Zenon DEF LeasesRest, Takes, GivesBack, LeaseFrame
<1>4. \A p \in Proc : rtok'[p] # 0 => HoldsRecovery(p)'
  BY <1>3, Zenon DEF TokensAreUsed, HoldsRecovery
<1>5. "settle" \notin LeasePC /\ "acquire" \notin LeasePC
  BY Zenon DEF LeasePC, RegisteredPC
<1>6. CASE LeasesRest
  <2>1. \A v \in Worker : tok'[v] # 0 => HoldsLease(v)' \/ pc'[v] = "settle"
    BY <1>6, Zenon DEF LeasesRest, TokensAreUsed, HoldsLease
  <2>2. \A r \in Run, v \in Worker : lease[r] # 0 /\ Owns(v, r) => Owns(v, r)'
    BY <1>2, <1>5, <1>6, Zenon DEF LeasesRest, Owns
  <2>3. lease' = lease /\ \A r \in Run, p \in Proc : OwnsRecovery(p, r) => OwnsRecovery(p, r)'
    BY <1>3, <1>6, Zenon DEF LeasesRest, OwnsRecovery
  <2>4. LeasesHaveOwners'
    BY <2>2, <2>3, OwnersRemain, Zenon
  <2>5. QED
    BY <1>4, <2>1, <2>4, Zenon DEF TokensAreUsed
<1>7. CASE Takes(w)
  <2>1. PICK token \in 1..MaxToken : /\ lease' = [lease EXCEPT ![job[w]] = token]
                                     /\ tok' = [tok EXCEPT ![w] = token]
    BY <1>7, Zenon DEF Takes
  <2>2. job[w] \in Run /\ job' = job /\ pc' = [pc EXCEPT ![w] = "claim"]
    BY <1>1, <1>7, Zenon DEF Takes, LeaseFrame
  <2>3. /\ lease'[job[w]] = token /\ tok'[w] = token /\ pc'[w] = "claim"
        /\ \A r \in Run \ {job[w]} : lease'[r] = lease[r]
        /\ \A v \in Worker \ {w} : tok'[v] = tok[v] /\ pc'[v] = pc[v]
    BY <1>1, <2>1, <2>2, Zenon
  <2>4. \A v \in Worker : tok'[v] # 0 => HoldsLease(v)' \/ pc'[v] = "settle"
    BY <2>3, Zenon DEF TokensAreUsed, HoldsLease, LeasePC
  <2>5. /\ Owns(w, job[w])'
        /\ \A r \in Run \ {job[w]}, v \in Worker : Owns(v, r) => Owns(v, r)'
        /\ \A r \in Run \ {job[w]}, p \in Proc : OwnsRecovery(p, r) => OwnsRecovery(p, r)'
    BY <1>3, <2>2, <2>3, Zenon DEF Owns, OwnsRecovery
  <2>6. LeasesHaveOwners'
    <3>1. Run \ {job[w]} \in SUBSET Run /\ \A r \in Run \ (Run \ {job[w]}) : \E v \in Worker : Owns(v, r)'
      BY <2>2, <2>5, Zenon
    <3>2. QED
      BY <2>3, <2>5, <3>1, OwnersRemain, Zenon
  <2>7. QED
    BY <1>4, <2>4, <2>6, Zenon DEF TokensAreUsed
<1>8. CASE GivesBack(w)
  <2>1. /\ job[w] \in Run /\ job' = job /\ pc' = [pc EXCEPT ![w] = "settle"] /\ tok' = tok
        /\ lease' = [lease EXCEPT ![job[w]] = IF @ = tok[w] THEN 0 ELSE @]
    BY <1>1, <1>8, Zenon DEF GivesBack, LeaseFrame
  <2>2. /\ \A r \in Run : lease'[r] # 0 => lease'[r] = lease[r] /\ (r = job[w] => lease[r] # tok[w])
        /\ pc'[w] = "settle" /\ \A v \in Worker \ {w} : pc'[v] = pc[v]
    BY <1>1, <2>1, Zenon
  <2>3. \A v \in Worker : tok'[v] # 0 => HoldsLease(v)' \/ pc'[v] = "settle"
    BY <2>1, <2>2, Zenon DEF TokensAreUsed, HoldsLease
  <2>4. \A r \in Run, v \in Worker : lease'[r] # 0 /\ Owns(v, r) => Owns(v, r)'
    BY <2>1, <2>2, Zenon DEF Owns
  <2>5. \A r \in Run, p \in Proc : lease'[r] # 0 /\ OwnsRecovery(p, r) => OwnsRecovery(p, r)'
    BY <1>3, <2>2, Zenon DEF OwnsRecovery
  <2>6. LeasesHaveOwners'
    <3>1. PICK S \in SUBSET Run : \A r \in Run : r \in S <=> lease'[r] # 0
      <4>1. {r \in Run : lease'[r] # 0} \in SUBSET Run
        BY Zenon
      <4>2. QED
        BY <4>1, Zenon
    <3>2. QED
      BY <2>2, <2>4, <2>5, <3>1, OwnersRemain, Zenon
  <2>7. QED
    BY <1>4, <2>3, <2>6, Zenon DEF TokensAreUsed
<1>9. QED
  BY <1>6, <1>7, <1>8

LEMMA OwnersProc ==
  ASSUME TypeOK, Bookkeeping, TokensAreUsed, LeasesHaveOwners, NEW p \in Proc, ProcStep(p), ~Crash(p)
  PROVE  TokensAreUsed' /\ LeasesHaveOwners'
<1>1. CASE UNCHANGED <<lease, rpc, rrun, rtok, pc, job, tok>>
  BY <1>1, Zenon DEF TokensAreUsed, LeasesHaveOwners, HoldsLease, HoldsRecovery
<1>2. rpc \in [Proc -> RecoverPC] /\ rtok \in [Proc -> 0..MaxToken] /\ lease \in [Run -> 0..MaxToken]
      /\ rrun \in [Proc -> Run \union {None}]
  BY Zenon DEF TypeOK, ProcTypeOK, CoordTypeOK
<1>3. ASSUME pc' = pc, job' = job, tok' = tok
      PROVE  /\ \A v \in Worker : tok'[v] # 0 => HoldsLease(v)' \/ pc'[v] = "settle"
             /\ \A r \in Run, v \in Worker : lease'[r] = lease[r] /\ Owns(v, r) => Owns(v, r)'
  BY <1>3, Zenon DEF TokensAreUsed, HoldsLease, Owns
<1>4. ASSUME NEW r \in Run, RecoveryTakes(p, r) PROVE TokensAreUsed' /\ LeasesHaveOwners'
  <2>1. PICK token \in 1..MaxToken : /\ lease' = [lease EXCEPT ![r] = token]
                                     /\ rtok' = [rtok EXCEPT ![p] = token]
    BY <1>4, Zenon DEF RecoveryTakes
  <2>2. /\ rpc[p] = "idle" /\ pc' = pc /\ job' = job /\ tok' = tok
        /\ rpc' = [rpc EXCEPT ![p] = "recover"] /\ rrun' = [rrun EXCEPT ![p] = r]
    BY <1>4, Zenon DEF RecoveryTakes
  <2>3. /\ lease'[r] = token /\ rtok'[p] = token /\ rrun'[p] = r /\ rpc'[p] = "recover"
        /\ \A q \in Run \ {r} : lease'[q] = lease[q]
        /\ \A q \in Proc \ {p} : rpc'[q] = rpc[q] /\ rtok'[q] = rtok[q] /\ rrun'[q] = rrun[q]
    BY <1>2, <2>1, <2>2, Zenon
  <2>4. rtok[p] = 0
    BY <2>2, Zenon DEF TokensAreUsed, HoldsRecovery
  <2>5. \A q \in Proc : rtok'[q] # 0 => HoldsRecovery(q)'
    BY <2>3, Zenon DEF TokensAreUsed, HoldsRecovery
  <2>6. /\ OwnsRecovery(p, r)'
        /\ \A o \in Run \ {r}, q \in Proc : lease[o] # 0 /\ OwnsRecovery(q, o) => OwnsRecovery(q, o)'
    BY <2>3, <2>4, Zenon DEF OwnsRecovery
  <2>7. LeasesHaveOwners'
    <3>1. /\ Run \ {r} \in SUBSET Run
          /\ \A o \in Run \ (Run \ {r}) : \E q \in Proc : OwnsRecovery(q, o)'
          /\ \A o \in Run \ {r}, v \in Worker : Owns(v, o) => Owns(v, o)'
      BY <1>3, <2>2, <2>3, <2>6, Zenon
    <3>2. QED
      BY <2>3, <2>6, <3>1, OwnersRemain, Zenon
  <2>8. QED
    BY <1>3, <2>2, <2>5, <2>7, Zenon DEF TokensAreUsed
<1>5. CASE RecoveryMoves(p)
  <2>1. lease' = lease /\ rtok' = rtok /\ pc' = pc /\ job' = job /\ tok' = tok
    BY <1>5, Zenon DEF RecoveryMoves
  <2>2. \A q \in Proc \ {p} : rpc'[q] = rpc[q] /\ rrun'[q] = rrun[q]
    BY <1>2, <1>5, Zenon DEF RecoveryMoves
  <2>3. rtok[p] = 0 \/ (rrun'[p] = rrun[p] /\ HoldsRecovery(p)')
    BY <1>2, <1>5, Zenon DEF RecoveryMoves, TokensAreUsed, HoldsRecovery
  <2>4. \A q \in Proc : rtok'[q] # 0 => HoldsRecovery(q)'
    BY <2>1, <2>2, <2>3, Zenon DEF TokensAreUsed, HoldsRecovery
  <2>5. \A r \in Run, q \in Proc : lease[r] # 0 /\ OwnsRecovery(q, r) => OwnsRecovery(q, r)'
    BY <2>1, <2>2, <2>3, Zenon DEF OwnsRecovery
  <2>6. LeasesHaveOwners'
    BY <1>3, <2>1, <2>5, OwnersRemain, Zenon
  <2>7. QED
    BY <1>3, <2>1, <2>4, <2>6, Zenon DEF TokensAreUsed
<1>6. CASE RecoveryGivesBack(p)
  <2>1. /\ rrun[p] \in Run /\ pc' = pc /\ job' = job /\ tok' = tok
        /\ rtok' = [rtok EXCEPT ![p] = 0]
        /\ lease' = [lease EXCEPT ![rrun[p]] = IF @ = rtok[p] THEN 0 ELSE @]
    BY <1>6, Zenon DEF RecoveryGivesBack, Bookkeeping, TypeOK, ProcTypeOK
  <2>2. \A q \in Proc \ {p} : rpc'[q] = rpc[q] /\ rrun'[q] = rrun[q] /\ rtok'[q] = rtok[q]
    BY <1>2, <1>6, Zenon DEF RecoveryGivesBack
  <2>3. \A q \in Proc : rtok'[q] # 0 => HoldsRecovery(q)'
    <3>1. rtok'[p] = 0
      BY <1>2, <2>1, Zenon
    <3>2. QED
      BY <2>2, <3>1, Zenon DEF TokensAreUsed, HoldsRecovery
  <2>4. \A r \in Run : lease'[r] # 0 => lease'[r] = lease[r] /\ (r = rrun[p] => lease[r] # rtok[p])
    BY <1>2, <2>1, Zenon
  <2>5. \A r \in Run, q \in Proc : lease'[r] # 0 /\ OwnsRecovery(q, r) => OwnsRecovery(q, r)'
    BY <2>2, <2>4, Zenon DEF OwnsRecovery
  <2>6. LeasesHaveOwners'
    <3>1. PICK S \in SUBSET Run : \A r \in Run : r \in S <=> lease'[r] # 0
      <4>1. {r \in Run : lease'[r] # 0} \in SUBSET Run
        BY Zenon
      <4>2. QED
        BY <4>1, Zenon
    <3>2. QED
      BY <1>3, <2>1, <2>4, <2>5, <3>1, OwnersRemain, Zenon
  <2>7. QED
    BY <1>3, <2>1, <2>3, <2>6, Zenon DEF TokensAreUsed
<1>7. QED
  BY <1>1, <1>4, <1>5, <1>6, LeaseProcSteps, Zenon

\* Unless a process dies or an answer is lost, every lease has an owner that
\* will release it, also after a renewal failed, the coordinator came back from
\* a snapshot, or the process began to stop (releaseLease, Recover).
THEOREM LeasesAreOwned == ASSUME LeasesAreReturned PROVE Spec => []LeasesHaveOwners
<1>1. Init => TokensAreUsed /\ LeasesHaveOwners
  BY SMT DEF Init, CoordInit, TokensAreUsed, LeasesHaveOwners
<1>2. ASSUME TypeOK, Bookkeeping, TokensAreUsed, LeasesHaveOwners, [Next]_vars
      PROVE  TokensAreUsed' /\ LeasesHaveOwners'
  <2>1. ASSUME UNCHANGED <<lease, rpc, rrun, rtok, pc, job, tok>> PROVE TokensAreUsed' /\ LeasesHaveOwners'
    BY <1>2, <2>1, Zenon DEF TokensAreUsed, LeasesHaveOwners, HoldsLease, HoldsRecovery
  <2>2. ASSUME NEW w \in Worker, WorkerStep(w) \/ WorkerFault(w) PROVE TokensAreUsed' /\ LeasesHaveOwners'
    <3>1. ~LeavesBehind(w)
      BY Zenon DEF LeavesBehind, LeasesAreReturned
    <3>2. QED
      BY <1>2, <2>2, <3>1, LeaseWorkerSteps, OwnersWorker, Zenon
  <2>3. ASSUME NEW w \in Worker, NEW r \in Run, NEW m \in 1..MaxMessages, Deliver(w, r, m)
        PROVE  TokensAreUsed' /\ LeasesHaveOwners'
    <3>1. LeasesRest
      BY <1>2, <2>3, Zenon
      DEF Deliver, Goto, localFrame, coordVars, procVars, TypeOK, JobTypeOK, ControlTypeOK, LeasePC,
          RegisteredPC, LeasesRest
    <3>2. QED
      BY <1>2, <3>1, OwnersWorker, Zenon
  <2>4. ASSUME NEW p \in Proc, ProcStep(p) PROVE TokensAreUsed' /\ LeasesHaveOwners'
    <3>1. ~Crash(p)
      BY Zenon DEF Crash, Fault, LeasesAreReturned
    <3>2. QED
      BY <1>2, <2>4, <3>1, OwnersProc, Zenon
  <2>5. ASSUME (\E r \in Run : ExpireLease(r)) \/ RestoreCoordinator
        PROVE  TokensAreUsed' /\ LeasesHaveOwners'
    <3>1. /\ UNCHANGED <<rpc, rrun, rtok, pc, job, tok>>
          /\ \A r \in Run : lease'[r] # 0 => lease'[r] = lease[r]
      BY <1>2, <2>5, Zenon
      DEF ExpireLease, ExpireKey, RestoreCoordinator, RestoreOlderSequence, TypeOK, CoordTypeOK,
          procVars, workerVars, jobVars
    <3>2. TokensAreUsed'
      BY <1>2, <3>1, Zenon DEF TokensAreUsed, HoldsLease, HoldsRecovery
    <3>3. LeasesHaveOwners'
      BY <1>2, <3>1, SMT DEF LeasesHaveOwners
    <3>4. QED
      BY <3>2, <3>3
  <2>6. ASSUME (\E r \in Run : Submit(r)) \/ Environment,
               ~((\E r \in Run : ExpireLease(r)) \/ RestoreCoordinator)
        PROVE  UNCHANGED <<lease, rpc, rrun, rtok, pc, job, tok>>
    BY <2>6, Zenon
    DEF Submit, SubmitCreate, SubmitCache, SubmitEnqueue, SubmitEnqueueError, SubmitFail, SubmitAbandon,
        submissionFrame, Environment, ForgetMessageID, ExpireEntry, ReadMiss, ReadFill, workerVars,
        jobVars, procVars, coordVars
  <2>7. QED
    BY <1>2, <2>1, <2>2, <2>3, <2>4, <2>5, <2>6, Zenon DEF Next, vars
<1>3. QED
  BY <1>1, <1>2, InitTypes, NextTypes, PTL DEF Spec

-----------------------------------------------------------------------------
(* Acknowledgements.                                                       *)

\* What a slot knows of a finished Run stays true while the slot rests.
LEMMA AckIsKept ==
  ASSUME TypeOK, Bookkeeping, Finality, NEW v \in Worker, AckIsEarned(v),
         pc'[v] = pc[v], job'[v] = job[v], outcome'[v] = outcome[v], ctxDone'[v] = ctxDone[v]
  PROVE  AckIsEarned(v)'
<1>1. pc[v] # "idle" => job[v] \in Run
  BY Zenon DEF Bookkeeping, TypeOK, JobTypeOK
<1>2. "idle" \notin {"cleanup", "release", "settle"} \union RegisteredPC
  BY Zenon DEF RegisteredPC
<1>3. /\ pc[v] \in {"cleanup", "release", "settle"} /\ outcome[v] = "ack"
           => run'[job[v]].status \in TerminalStatus
      /\ ctxDone[v] => run'[job[v]].status \in TerminalStatus
  BY <1>1, <1>2, Zenon DEF AckIsEarned, Finality
<1>4. QED
  BY <1>3, Zenon DEF AckIsEarned

\* A step of w on its way through execute that acknowledges only what is
\* finished.
Earns(w) ==
  /\ pc[w] # "settle"
  /\ job'[w] = job[w] /\ ctxDone'[w] = ctxDone[w]
  /\ pc'[w] \in {"cleanup", "release", "settle"} /\ outcome'[w] = "ack"
       => run[job[w]].status \in TerminalStatus
  /\ pc[w] \in RegisteredPC => pc'[w] \in RegisteredPC \union {"settle"}
  /\ pc'[w] \in {"wake", "wakectx"} => ctxDone[w]

LEMMA AckIsEarnedNow ==
  ASSUME Finality, NEW w \in Worker, job[w] \in Run, AckIsEarned(w), Earns(w)
  PROVE  AckIsEarned(w)'
<1>1. run[job[w]].status \in TerminalStatus => run'[job[w]].status \in TerminalStatus
  BY Zenon DEF Finality
<1>2. ctxDone[w] => run[job[w]].status \in TerminalStatus /\ pc[w] \in RegisteredPC
  BY Zenon DEF AckIsEarned, Earns
<1>3. QED
  BY <1>1, <1>2, Zenon DEF AckIsEarned, Earns

\* The steps of execute up to its registration: the Run is acknowledged when
\* the cache or the store says that it is finished.
LEMMA EarlySteps ==
  ASSUME ExecutionInv, NEW w \in Worker, run[job[w]].status # "absent",
         \/ Load(w) \/ LoadFill(w) \/ Acquire(w) \/ Claim(w) \/ Register(w) \/ Reload(w) \/ ReloadFill(w)
         \/ DeadLetter(w, "deadletter", "cleanup") \/ DeadLetter(w, "redletter", "settle")
  PROVE  Earns(w)
<1>1. /\ pc \in [Worker -> ExecutePC] /\ outcome \in [Worker -> Outcome] /\ SlotOK(w)
      /\ pc[w] # "idle" => job[w] \in Run
      /\ run \in [Run -> RunRecord]
      /\ \A r \in Run : CacheWasStored(r)
  BY Zenon DEF ExecutionInv, TypeOK, JobTypeOK, ControlTypeOK, StoreTypeOK, Bookkeeping
<1>3. CASE Load(w)
  <2>1. job[w] \in Run /\ pc[w] = "load" /\ job' = job /\ ctxDone' = ctxDone
    BY <1>1, <1>3, Zenon DEF Load
  <2>2. \/ pc' = [pc EXCEPT ![w] = "loadfill"]
        \/ \E to \in {"redletter", "acquire"} : pc' = [pc EXCEPT ![w] = to]
        \/ /\ pc' = [pc EXCEPT ![w] = "settle"] /\ cache[job[w]].status \in {"succeeded", "canceled"}
    BY <1>3, Zenon DEF Load, Dispatch, Return, Goto
  <2>3. cache[job[w]].status \in {"succeeded", "canceled"} => run[job[w]].status \in TerminalStatus
    BY <1>1, <2>1, SMT DEF CacheWasStored, WasStored, TerminalStatus
  <2>4. QED
    BY <1>1, <2>1, <2>2, <2>3, Zenon DEF Earns, RegisteredPC
<1>4. CASE LoadFill(w)
  <2>1. job[w] \in Run /\ pc[w] = "loadfill" /\ job' = job /\ ctxDone' = ctxDone
    BY <1>1, <1>4, Zenon DEF LoadFill
  <2>2. \/ \E to \in {"redletter", "acquire"} : pc' = [pc EXCEPT ![w] = to]
        \/ pc' = [pc EXCEPT ![w] = "settle"] /\ local[w].status \in {"succeeded", "canceled"}
    BY <1>4, Zenon DEF LoadFill, Dispatch, Return, Goto
  <2>3. local[w].status \in {"succeeded", "canceled"} => run[job[w]].status \in TerminalStatus
    BY <1>1, <2>1, SMT DEF SlotOK, CopyIsUsable, WasStored, TerminalStatus
  <2>4. QED
    BY <1>1, <2>1, <2>2, <2>3, Zenon DEF Earns, RegisteredPC
<1>5. CASE Acquire(w)
  <2>1. pc[w] = "acquire" /\ job' = job /\ ctxDone' = ctxDone
    BY <1>5, Zenon DEF Acquire
  <2>2. \/ pc' = [pc EXCEPT ![w] = "claim"]
        \/ pc' = [pc EXCEPT ![w] = "settle"] /\ outcome' = [outcome EXCEPT ![w] = "nak"]
    BY <1>5, Zenon DEF Acquire, Return, Goto
  <2>3. QED
    BY <1>1, <2>1, <2>2, Zenon DEF Earns, RegisteredPC
<1>6. CASE Claim(w)
  <2>1. pc[w] = "claim" /\ job' = job /\ ctxDone' = ctxDone /\ job[w] \in Run
    BY <1>1, <1>6, Zenon DEF Claim
  <2>2. \/ pc' = [pc EXCEPT ![w] = "register"]
        \/ /\ pc' = [pc EXCEPT ![w] = "release"]
           /\ \/ run[job[w]].status = "canceled"
              \/ run[job[w]].status \notin ActiveStatus \union {"canceled"}
    BY <1>6, Zenon DEF Claim, ClaimRunExecution, Return, Goto
  <2>3. run[job[w]].status \in RunStatus
    BY <1>1, <2>1, Zenon DEF RunRecord
  <2>4. run[job[w]].status \notin ActiveStatus => run[job[w]].status \in TerminalStatus
    BY <2>3, Zenon DEF RunStatus
  <2>5. "canceled" \in TerminalStatus
    BY Zenon DEF TerminalStatus
  <2>6. QED
    BY <1>1, <2>1, <2>2, <2>4, <2>5, Zenon DEF Earns, RegisteredPC
<1>7. CASE Register(w)
  BY <1>1, <1>7, Zenon DEF Register, Goto, jobVars, Earns, RegisteredPC
<1>8. CASE Reload(w)
  <2>1. job[w] \in Run /\ pc[w] = "reload" /\ job' = job /\ ctxDone' = ctxDone
    BY <1>1, <1>8, Zenon DEF Reload
  <2>2. \/ \E to \in {"refill", "resolve"} : pc' = [pc EXCEPT ![w] = to]
        \/ pc' = [pc EXCEPT ![w] = "cleanup"] /\ cache[job[w]].status = "canceled"
    BY <1>8, ZenonT(30) DEF Reload, Continue, Return, Goto
  <2>3. cache[job[w]].status = "canceled" => run[job[w]].status \in TerminalStatus
    BY <1>1, <2>1, SMT DEF CacheWasStored, WasStored, TerminalStatus
  <2>4. QED
    BY <1>1, <2>1, <2>2, <2>3, Zenon DEF Earns, RegisteredPC
<1>9. CASE ReloadFill(w)
  <2>1. job[w] \in Run /\ pc[w] = "refill" /\ job' = job /\ ctxDone' = ctxDone
    BY <1>1, <1>9, Zenon DEF ReloadFill
  <2>2. \/ pc' = [pc EXCEPT ![w] = "resolve"]
        \/ pc' = [pc EXCEPT ![w] = "cleanup"] /\ local[w].status = "canceled"
    BY <1>9, Zenon DEF ReloadFill, Continue, Return, Goto
  <2>3. local[w].status = "canceled" => run[job[w]].status \in TerminalStatus
    BY <1>1, <2>1, SMT DEF SlotOK, CopyIsUsable, WasStored, TerminalStatus
  <2>4. QED
    BY <1>1, <2>1, <2>2, <2>3, Zenon DEF Earns, RegisteredPC
<1>10. CASE DeadLetter(w, "deadletter", "cleanup") \/ DeadLetter(w, "redletter", "settle")
  <2>1. /\ pc[w] \in {"deadletter", "redletter"} /\ job' = job /\ ctxDone' = ctxDone
        /\ \E to \in {"cleanup", "settle"} : pc' = [pc EXCEPT ![w] = to]
    BY <1>10, Zenon DEF DeadLetter, Return, Goto
  <2>2. run[job[w]].status \in TerminalStatus
    BY <1>1, <2>1, Zenon DEF SlotOK, CopyIsUsable, TerminalStatus
  <2>3. QED
    BY <1>1, <2>1, <2>2, Zenon DEF Earns, RegisteredPC
<1>11. QED
  BY <1>3, <1>4, <1>5, <1>6, <1>7, <1>8, <1>9, <1>10

\* The steps of an execution: it is interrupted only when the Run is finished,
\* because no keeper fails and no process stops.
LEMMA LateSteps ==
  ASSUME ExecutionInv, KeepersWork, NEW w \in Worker, AckIsEarned(w),
         \/ Resolve(w) \/ CheckLease(w, "top", "check") \/ BeginAttempt(w) \/ Persist(w)
         \/ PersistCache(w) \/ Execute(w) \/ CheckLease(w, "post", "postctx") \/ CheckCtx(w)
         \/ AfterAttempt(w) \/ Backoff(w) \/ CheckLease(w, "wake", "wakectx") \/ WakeCtx(w)
         \/ Cleanup(w) \/ Release(w) \/ CallFails(w) \/ AnswerLost(w) \/ ReleaseFails(w)
  PROVE  Earns(w)
<1>1. /\ pc \in [Worker -> ExecutePC] /\ outcome \in [Worker -> Outcome] /\ SlotOK(w)
      /\ pc[w] # "idle" => job[w] \in Run
  BY Zenon DEF ExecutionInv, TypeOK, JobTypeOK, ControlTypeOK, Bookkeeping
<1>2. ~Stopping(w) /\ (RunCtxDone(w) => ctxDone[w])
  BY ProcOfAssumption, Zenon DEF KeepersWork, Stopping, RunCtxDone
<1>3. ctxDone[w] => run[job[w]].status \in TerminalStatus
  BY Zenon DEF AckIsEarned
<1>4. ASSUME pc[w] \in RegisteredPC, job' = job, ctxDone' = ctxDone,
             NEW to \in RegisteredPC \ {"wake", "wakectx", "cleanup"}, pc' = [pc EXCEPT ![w] = to]
      PROVE  Earns(w)
  BY <1>1, <1>4, Zenon DEF Earns, RegisteredPC
<1>a. ASSUME pc[w] \in RegisteredPC, job' = job, ctxDone' = ctxDone, pc' = [pc EXCEPT ![w] = "cleanup"],
             outcome' = [outcome EXCEPT ![w] = "nak"] \/ run[job[w]].status \in TerminalStatus
      PROVE  Earns(w)
  <2>1. outcome'[w] = "nak" \/ run[job[w]].status \in TerminalStatus
    BY <1>1, <1>a, Zenon
  <2>2. QED
    BY <1>1, <1>a, <2>1, Zenon DEF Earns, RegisteredPC
<1>5. CASE Resolve(w) \/ CheckLease(w, "top", "check") \/ CheckLease(w, "post", "postctx")
  <2>1. /\ pc[w] \in RegisteredPC /\ job' = job /\ ctxDone' = ctxDone
        /\ \/ \E to \in {"top", "persist", "check", "postctx"} : pc' = [pc EXCEPT ![w] = to]
           \/ pc' = [pc EXCEPT ![w] = "cleanup"] /\ outcome' = [outcome EXCEPT ![w] = "nak"]
    BY <1>5, Zenon DEF Resolve, FailLocal, CheckLease, Return, Goto, RegisteredPC
  <2>2. QED
    BY <1>4, <1>a, <2>1, Zenon DEF RegisteredPC
<1>6. CASE BeginAttempt(w) \/ AfterAttempt(w)
  <2>1. /\ pc[w] \in RegisteredPC /\ job' = job /\ ctxDone' = ctxDone
        /\ \/ \E to \in {"persist", "backoff"} : pc' = [pc EXCEPT ![w] = to]
           \/ pc' = [pc EXCEPT ![w] = "cleanup"] /\ outcome' = [outcome EXCEPT ![w] = "nak"]
           \/ pc' = [pc EXCEPT ![w] = "cleanup"] /\ RunCtxDone(w)
    BY <1>6, Zenon DEF BeginAttempt, AfterAttempt, FailLocal, Return, Goto, RegisteredPC
  <2>2. QED
    BY <1>2, <1>3, <1>4, <1>a, <2>1, Zenon DEF RegisteredPC
<1>7. CASE Persist(w)
  <2>1. /\ pc[w] \in RegisteredPC /\ job' = job /\ ctxDone' = ctxDone
        /\ \/ \E to \in {"persisted"} : pc' = [pc EXCEPT ![w] = to]
           \/ pc' = [pc EXCEPT ![w] = "cleanup"] /\ outcome' = [outcome EXCEPT ![w] = "nak"]
           \/ pc' = [pc EXCEPT ![w] = "cleanup"] /\ run[job[w]].status \in TerminalStatus
    BY <1>7, Zenon DEF Persist, UpdateRunFenced, Return, Goto, RegisteredPC, TerminalStatus
  <2>2. QED
    BY <1>4, <1>a, <2>1, Zenon DEF RegisteredPC
<1>8. CASE PersistCache(w)
  <2>1. /\ pc[w] = "persisted" /\ job' = job /\ ctxDone' = ctxDone
        /\ \/ \E to \in {"exec", "deadletter"} : pc' = [pc EXCEPT ![w] = to]
           \/ pc' = [pc EXCEPT ![w] = "cleanup"] /\ local[w].status = "succeeded"
    BY <1>8, ZenonT(30) DEF PersistCache, Return, Goto
  <2>2. local[w].status = "succeeded" => run[job[w]].status \in TerminalStatus
    BY <1>1, <2>1, SMT DEF SlotOK, CopyIsUsable, WasStored, TerminalStatus
  <2>3. QED
    BY <1>4, <1>a, <2>1, <2>2, Zenon DEF RegisteredPC
<1>9. CASE Execute(w) \/ CheckCtx(w)
  <2>1. /\ pc[w] \in RegisteredPC /\ job' = job /\ ctxDone' = ctxDone
        /\ \E to \in {"post", "postrun"} : pc' = [pc EXCEPT ![w] = to]
    BY <1>2, <1>9, Zenon DEF Execute, CheckCtx, Return, Goto, RegisteredPC
  <2>2. QED
    BY <1>4, <1>a, <2>1, Zenon DEF RegisteredPC
<1>10. CASE Backoff(w) \/ CheckLease(w, "wake", "wakectx")
  <2>1. /\ pc[w] \in {"backoff", "wake"} /\ job' = job /\ ctxDone' = ctxDone
        /\ \/ pc' = [pc EXCEPT ![w] = "top"]
           \/ \E to \in {"wake", "wakectx"} : pc' = [pc EXCEPT ![w] = to] /\ ctxDone[w]
           \/ pc' = [pc EXCEPT ![w] = "cleanup"] /\ outcome' = [outcome EXCEPT ![w] = "nak"]
    BY <1>2, <1>10, Zenon DEF Backoff, CheckLease, Return, Goto, AckIsEarned
  <2>2. QED
    BY <1>1, <2>1, Zenon DEF Earns, RegisteredPC
<1>11. CASE WakeCtx(w)
  <2>1. /\ pc[w] = "wakectx" /\ job' = job /\ ctxDone' = ctxDone
        /\ pc' = [pc EXCEPT ![w] = "cleanup"]
    BY <1>11, Zenon DEF WakeCtx, Return, Goto
  <2>2. run[job[w]].status \in TerminalStatus
    BY <1>3, <2>1, Zenon DEF AckIsEarned
  <2>3. QED
    BY <1>4, <1>a, <2>1, <2>2, Zenon DEF RegisteredPC
<1>12. CASE Cleanup(w) \/ Release(w) \/ ReleaseFails(w)
  <2>1. /\ pc[w] \in {"cleanup", "release"} /\ job' = job /\ ctxDone' = ctxDone /\ outcome' = outcome
        /\ pc' = [pc EXCEPT ![w] = "settle"]
    BY <1>12, Zenon DEF Cleanup, Release, ReleaseFails, Goto, jobVars
  <2>2. QED
    BY <1>1, <2>1, Zenon DEF Earns, AckIsEarned, RegisteredPC
<1>13. CASE CallFails(w) \/ AnswerLost(w)
  <2>1. job' = job /\ ctxDone' = ctxDone /\ ErrorReturn(w)
    BY <1>13, Zenon DEF CallFails, AnswerLost
  <2>2. /\ outcome' = [outcome EXCEPT ![w] = "nak"]
        /\ \/ /\ pc[w] \in {"load", "redletter", "acquire", "claim"}
              /\ \E to \in {"settle", "release"} : pc' = [pc EXCEPT ![w] = to]
           \/ pc[w] \in {"reload", "persist", "deadletter"} /\ pc' = [pc EXCEPT ![w] = "cleanup"]
    BY <2>1, Zenon DEF ErrorReturn, Return, Goto
  <2>3. outcome'[w] = "nak"
    BY <1>1, <2>2, Zenon
  <2>4. QED
    BY <1>1, <2>1, <2>2, <2>3, Zenon DEF Earns, RegisteredPC
<1>14. QED
  BY <1>5, <1>6, <1>7, <1>8, <1>9, <1>10, <1>11, <1>12, <1>13

LEMMA AckWorker ==
  ASSUME ExecutionInv, KeepersWork, HoldersAgree, CreatedFirst, Finality, LeasesLast,
         \A v \in Worker : AckIsEarned(v), NEW w \in Worker, WorkerStep(w) \/ WorkerFault(w)
  PROVE  \A v \in Worker : AckIsEarned(v)'
<1>1. TypeOK /\ Bookkeeping /\ (pc[w] # "idle" => job[w] \in Run)
  BY Zenon DEF ExecutionInv, TypeOK, JobTypeOK, Bookkeeping
<1>2. ASSUME \A v \in Worker \ {w} : /\ pc'[v] = pc[v] /\ job'[v] = job[v]
                                     /\ outcome'[v] = outcome[v] /\ ctxDone'[v] = ctxDone[v],
             AckIsEarned(w)'
      PROVE  \A v \in Worker : AckIsEarned(v)'
  BY <1>1, <1>2, AckIsKept, Zenon
<1>3. CASE Settle(w)
  <2>1. /\ pc'[w] = "idle" /\ ctxDone'[w] = FALSE
        /\ \A v \in Worker \ {w} : /\ pc'[v] = pc[v] /\ job'[v] = job[v]
                                   /\ outcome'[v] = outcome[v] /\ ctxDone'[v] = ctxDone[v]
    BY <1>3, Zenon DEF Settle, ResetWorkers
  <2>2. AckIsEarned(w)'
    BY <2>1, Zenon DEF AckIsEarned
  <2>3. QED
    BY <1>2, <2>1, <2>2, Zenon
<1>4. CASE ObserveCancel(w)
  <2>1. /\ pc' = pc /\ job' = job /\ outcome' = outcome /\ run' = run
        /\ ctxDone' = [ctxDone EXCEPT ![w] = TRUE]
        /\ pc[w] \in RegisteredPC /\ run[job[w]].status = "canceled"
    BY <1>4, Zenon DEF ObserveCancel, localFrame, storeVars, jobVars
  <2>2. ctxDone \in [Worker -> BOOLEAN]
    BY <1>1, Zenon DEF TypeOK, ControlTypeOK
  <2>3. \A v \in Worker \ {w} : ctxDone'[v] = ctxDone[v]
    BY <2>1, <2>2, Zenon
  <2>4. ctxDone'[w]
    BY <2>1, <2>2, Zenon
  <2>5. AckIsEarned(w)'
    BY <2>1, <2>4, Zenon DEF AckIsEarned, TerminalStatus
  <2>6. QED
    BY <1>2, <2>1, <2>3, <2>5, Zenon
<1>5. ~RenewFails(w)
  BY Zenon DEF RenewFails, LeaseHeldBy, HoldersAgree, HoldsLease, LeasePC, LeasesLast, Fault
<1>6. CASE ~(Settle(w) \/ ObserveCancel(w))
  <2>1. job[w] \in Run /\ run[job[w]].status # "absent"
    <3>1. pc[w] # "idle"
      BY <1>5, <1>6, Zenon
      DEF WorkerStep, WorkerFault, Load, LoadFill, Acquire, Claim, Register, Reload, ReloadFill, Resolve,
          CheckLease, BeginAttempt, Persist, PersistCache, Execute, CheckCtx, AfterAttempt, DeadLetter,
          Backoff, WakeCtx, Cleanup, Release, CallFails, AnswerLost, ErrorReturn, ReleaseFails
    <3>2. QED
      BY <1>1, <3>1, NoneAssumption, Zenon DEF CreatedFirst
  <2>2. Earns(w)
    BY <1>5, <1>6, <2>1, EarlySteps, LateSteps, Zenon DEF WorkerStep, WorkerFault
  <2>3. \A v \in Worker \ {w} : /\ pc'[v] = pc[v] /\ job'[v] = job[v]
                                /\ outcome'[v] = outcome[v] /\ ctxDone'[v] = ctxDone[v]
    <3>1. job' = job /\ ctxDone' = ctxDone
      BY <1>5, <1>6, Zenon
      DEF WorkerStep, WorkerFault, Load, LoadFill, Acquire, Claim, Register, Reload, ReloadFill, Resolve,
          CheckLease, BeginAttempt, Persist, PersistCache, Execute, CheckCtx, AfterAttempt, DeadLetter,
          Backoff, WakeCtx, Cleanup, Release, CallFails, AnswerLost, ReleaseFails, jobVars
    <3>2. \E to : pc' = [pc EXCEPT ![w] = to]
      BY <1>5, <1>6, Zenon
      DEF WorkerStep, WorkerFault, Load, Dispatch, LoadFill, Acquire, Claim, Register, Reload, Continue,
          ReloadFill, Resolve, FailLocal, CheckLease, BeginAttempt, Persist, PersistCache, Execute,
          CheckCtx, AfterAttempt, DeadLetter, Backoff, WakeCtx, Cleanup, Release, CallFails, AnswerLost,
          ErrorReturn, ReleaseFails, Return, Goto
    <3>3. outcome' = outcome \/ \E o : outcome' = [outcome EXCEPT ![w] = o]
      BY <1>5, <1>6, Zenon
      DEF WorkerStep, WorkerFault, Load, Dispatch, LoadFill, Acquire, Claim, Register, Reload, Continue,
          ReloadFill, Resolve, FailLocal, CheckLease, BeginAttempt, Persist, PersistCache, Execute,
          CheckCtx, AfterAttempt, DeadLetter, Backoff, WakeCtx, Cleanup, Release, CallFails, AnswerLost,
          ErrorReturn, ReleaseFails, Return, jobVars
    <3>4. pc \in [Worker -> ExecutePC] /\ outcome \in [Worker -> Outcome]
      BY <1>1, Zenon DEF TypeOK, JobTypeOK, ControlTypeOK
    <3>5. QED
      BY <3>1, <3>2, <3>3, <3>4, Zenon
  <2>4. QED
    BY <1>2, <2>1, <2>2, <2>3, AckIsEarnedNow, Zenon
<1>7. QED
  BY <1>3, <1>4, <1>6

\* A process that cancels interrupts only executions of a Run it has canceled
\* in the store; one that crashes leaves nobody interrupted.
LEMMA AckProc ==
  ASSUME TypeOK, Bookkeeping, ActiveEntriesAreLive, Finality, CancelIsStored,
         \A v \in Worker : AckIsEarned(v), NEW p \in Proc, ProcStep(p)
  PROVE  \A v \in Worker : AckIsEarned(v)'
<1>1. CASE \E r \in Run : CancelExecution(p, r)
  <2>1. PICK r \in Run : CancelExecution(p, r)
    BY <1>1
  <2>2. /\ <<r, "cache">> \in canceling[p] /\ run' = run /\ pc' = pc /\ job' = job /\ outcome' = outcome
        /\ ctxDone' = [w \in Worker |-> ctxDone[w] \/ active[p][r] = w]
    BY <2>1, Zenon DEF CancelExecution, storeVars, jobVars
  <2>3. run[r].status \in TerminalStatus
    BY <2>2, Zenon DEF CancelIsStored, CancelStage, TerminalStatus
  <2>4. ASSUME NEW v \in Worker PROVE AckIsEarned(v)'
    <3>1. CASE active[p][r] = v
      <4>1. job[v] = r /\ pc[v] \in RegisteredPC
        BY <3>1, NoneAssumption, Zenon DEF ActiveEntriesAreLive
      <4>2. ctxDone'[v]
        BY <2>2, <3>1, Zenon
      <4>3. QED
        BY <2>2, <2>3, <4>1, <4>2, Zenon DEF AckIsEarned
    <3>2. CASE active[p][r] # v
      <4>1. ctxDone'[v] <=> ctxDone[v]
        BY <2>2, <3>2, Zenon
      <4>2. QED
        BY <2>2, <4>1, Zenon DEF AckIsEarned
    <3>3. QED
      BY <3>1, <3>2
  <2>5. QED
    BY <2>4
<1>2. CASE Crash(p)
  <2>1. ASSUME NEW v \in Worker PROVE AckIsEarned(v)'
    <3>1. CASE v \in SlotsOf(p)
      <4>1. pc'[v] = "idle" /\ ctxDone'[v] = FALSE
        BY <1>2, <3>1, Zenon DEF Crash, ResetWorkers
      <4>2. QED
        BY <4>1, Zenon DEF AckIsEarned
    <3>2. CASE v \notin SlotsOf(p)
      <4>1. pc'[v] = pc[v] /\ job'[v] = job[v] /\ outcome'[v] = outcome[v] /\ ctxDone'[v] = ctxDone[v]
        BY <1>2, <3>2, Zenon DEF Crash, ResetWorkers
      <4>2. QED
        BY <4>1, AckIsKept, Zenon
    <3>3. QED
      BY <3>1, <3>2
  <2>2. QED
    BY <2>1
<1>3. CASE ~((\E r \in Run : CancelExecution(p, r)) \/ Crash(p))
  <2>1. UNCHANGED <<pc, job, outcome, ctxDone>>
    BY <1>3, Zenon
    DEF ProcStep, RecoverStep, CancelRequest, CancelCache, CancelRefused, StartProcess, RecoverQueued,
        RecoverAcquire, RecoverReset, RecoverInvalidate, RecoverRelease, RecoverEnqueue, RecoverDone,
        Shutdown, StopProcess, workerVars, jobVars
  <2>2. QED
    BY <2>1, AckIsKept, Zenon
<1>4. QED
  BY <1>1, <1>2, <1>3

LEMMA AckStep ==
  ASSUME ExecutionInv, ActiveEntriesAreLive, KeepersWork, HoldersAgree, LeasesLast, DeliveryInv,
         [Next]_vars
  PROVE  \A v \in Worker : AckIsEarned(v)'
<1>1. /\ TypeOK /\ Bookkeeping /\ Finality /\ CancelIsStored /\ CreatedFirst
      /\ \A v \in Worker : AckIsEarned(v)
  BY RunsAreKept, Zenon DEF ExecutionInv, DeliveryInv
<1>2. ASSUME UNCHANGED <<pc, job, outcome, ctxDone>> PROVE \A v \in Worker : AckIsEarned(v)'
  BY <1>1, <1>2, AckIsKept, Zenon
<1>3. ASSUME NEW w \in Worker, NEW r \in Run, NEW m \in 1..MaxMessages, Deliver(w, r, m)
      PROVE  \A v \in Worker : AckIsEarned(v)'
  <2>1. /\ pc[w] = "idle" /\ pc' = [pc EXCEPT ![w] = "load"] /\ job' = [job EXCEPT ![w] = r]
        /\ outcome' = outcome /\ ctxDone' = ctxDone
    BY <1>3, Zenon DEF Deliver, Goto
  <2>2. /\ pc'[w] = "load" /\ ~ctxDone[w]
        /\ \A v \in Worker \ {w} : pc'[v] = pc[v] /\ job'[v] = job[v]
    BY <1>1, <2>1, Zenon DEF AckIsEarned, RegisteredPC, TypeOK, ControlTypeOK, JobTypeOK
  <2>3. AckIsEarned(w)'
    BY <2>1, <2>2, Zenon DEF AckIsEarned
  <2>4. QED
    BY <1>1, <2>1, <2>2, <2>3, AckIsKept, Zenon
<1>4. ASSUME (\E r \in Run : Submit(r)) \/ Environment
      PROVE  UNCHANGED <<pc, job, outcome, ctxDone>>
  BY <1>4, Zenon
  DEF Submit, SubmitCreate, SubmitCache, SubmitEnqueue, SubmitEnqueueError, SubmitFail, SubmitAbandon,
      submissionFrame, Environment, ExpireLease, ForgetMessageID, RestoreCoordinator, ExpireEntry,
      ReadMiss, ReadFill, workerVars, jobVars
<1>5. QED
  BY <1>1, <1>2, <1>3, <1>4, AckWorker, AckProc, Zenon DEF Next, vars, workerVars, jobVars

LEMMA CancelStep ==
  ASSUME ExecutionInv, CancelIsStored, [Next]_vars
  PROVE  CancelIsStored'
<1>1. TypeOK /\ Finality /\ run \in [Run -> RunRecord] /\ canceling \in [Proc -> SUBSET (Run \X CancelStage)]
  BY RunsAreKept, Zenon DEF ExecutionInv, TypeOK, StoreTypeOK, ProcTypeOK
<1>2. \A r \in Run : run[r].status = "canceled" => run'[r].status = "canceled"
  BY <1>1, Zenon DEF Finality, TerminalStatus
<1>3. ASSUME \A q \in Proc, r \in Run, s \in CancelStage :
               <<r, s>> \in canceling'[q] => (\E t \in CancelStage : <<r, t>> \in canceling[q])
                                             \/ run'[r].status = "canceled"
      PROVE  CancelIsStored'
  BY <1>2, <1>3, Zenon DEF CancelIsStored
<1>4. ASSUME canceling' = canceling PROVE CancelIsStored'
  BY <1>2, <1>4, Zenon DEF CancelIsStored
<1>5. ASSUME NEW p \in Proc, NEW r \in Run, CancelRequest(p, r) PROVE CancelIsStored'
  <2>1. /\ canceling' = [canceling EXCEPT ![p] = @ \union {<<r, "store">>}]
        /\ run' = [run EXCEPT ![r] = Cancel(run[r])]
    BY <1>5, Zenon DEF CancelRequest, CancelRun
  <2>2. run'[r].status = "canceled"
    BY <1>1, <2>1 DEF Cancel, RunRecord
  <2>3. QED
    BY <1>1, <1>3, <2>1, <2>2
<1>6. ASSUME NEW p \in Proc, NEW r \in Run, CancelCache(p, r) \/ CancelExecution(p, r)
      PROVE  CancelIsStored'
  <2>1. \/ /\ <<r, "store">> \in canceling[p]
           /\ canceling' = [canceling EXCEPT ![p] = (@ \ {<<r, "store">>}) \union {<<r, "cache">>}]
        \/ canceling' = [canceling EXCEPT ![p] = @ \ {<<r, "cache">>}]
    BY <1>6, Zenon DEF CancelCache, CancelExecution
  <2>2. "store" \in CancelStage
    BY DEF CancelStage
  <2>3. QED
    BY <1>1, <1>3, <2>1, <2>2
<1>7. ASSUME NEW p \in Proc, StopProcess(p) \/ Crash(p) PROVE CancelIsStored'
  <2>1. canceling' = [canceling EXCEPT ![p] = {}]
    BY <1>7, Zenon DEF StopProcess, Crash
  <2>2. QED
    BY <1>1, <1>3, <2>1
<1>8. ASSUME NEW p \in Proc, ProcStep(p) PROVE CancelIsStored'
  BY <1>4, <1>5, <1>6, <1>7, <1>8, Zenon
  DEF ProcStep, RecoverStep, CancelRefused, StartProcess, RecoverQueued, RecoverAcquire, RecoverReset,
      RecoverInvalidate, RecoverRelease, RecoverEnqueue, RecoverDone, Shutdown, procVars
<1>9. ASSUME NEW w \in Worker,
             \/ WorkerStep(w) \/ WorkerFault(w)
             \/ \E r \in Run, m \in 1..MaxMessages : Deliver(w, r, m)
      PROVE  canceling' = canceling
  BY <1>9, Zenon
  DEF WorkerStep, WorkerFault, Load, LoadFill, Acquire, Claim, Register, Reload, ReloadFill, Resolve,
      CheckLease, BeginAttempt, Persist, PersistCache, Execute, CheckCtx, AfterAttempt, DeadLetter,
      Backoff, WakeCtx, Cleanup, Release, Settle, RenewFails, ObserveCancel, CallFails, AnswerLost,
      ReleaseFails, Deliver, localFrame, procVars
<1>10. ASSUME (\E r \in Run : Submit(r)) \/ Environment PROVE canceling' = canceling
  BY <1>10, Zenon
  DEF Submit, SubmitCreate, SubmitCache, SubmitEnqueue, SubmitEnqueueError, SubmitFail, SubmitAbandon,
      submissionFrame, Environment, ExpireLease, ForgetMessageID, RestoreCoordinator, ExpireEntry,
      ReadMiss, ReadFill, procVars
<1>11. QED
  BY <1>4, <1>8, <1>9, <1>10, Zenon DEF Next, vars, procVars

\* Nothing is enqueued, listed, recovered or delivered that does not exist.
AddsOnlyCreated ==
  /\ \A r \in Run : (submission'[r] # "none" \/ stored'[r] > 0 \/ unacked'[r] # {})
                      => \/ submission[r] # "none" \/ stored[r] > 0 \/ unacked[r] # {}
                         \/ run'[r].status # "absent"
  /\ \A p \in Proc, r \in Run, s \in ActiveStatus :
       <<r, s>> \in todo'[p] => <<r, s>> \in todo[p] \/ run'[r].status # "absent"
  /\ \A p \in Proc : rrun'[p] \in {None, rrun[p]} \/ run'[rrun'[p]].status # "absent"
  /\ \A w \in Worker : job'[w] \in {None, job[w]} \/ run'[job'[w]].status # "absent"

LEMMA CreatedStays ==
  ASSUME TypeOK, CreatedFirst, AddsOnlyCreated,
         \A r \in Run : run[r].status # "absent" => run'[r].status # "absent"
  PROVE  CreatedFirst'
<1>1. /\ rrun \in [Proc -> Run \union {None}] /\ job \in [Worker -> Run \union {None}]
  BY Zenon DEF TypeOK, ProcTypeOK, JobTypeOK
<1>2. \A r \in Run : submission'[r] # "none" \/ stored'[r] > 0 \/ unacked'[r] # {} => run'[r].status # "absent"
  BY Zenon DEF CreatedFirst, AddsOnlyCreated
<1>3. \A p \in Proc, r \in Run, s \in ActiveStatus : <<r, s>> \in todo'[p] => run'[r].status # "absent"
  BY Zenon DEF CreatedFirst, AddsOnlyCreated
<1>4. \A p \in Proc : rrun'[p] # None => run'[rrun'[p]].status # "absent"
  BY <1>1, Zenon DEF CreatedFirst, AddsOnlyCreated
<1>5. \A w \in Worker : job'[w] # None => run'[job'[w]].status # "absent"
  BY <1>1, Zenon DEF CreatedFirst, AddsOnlyCreated
<1>6. QED
  BY <1>2, <1>3, <1>4, <1>5, Zenon DEF CreatedFirst

\* What a step does to the queue: it stores a message of a Run that exists, or
\* removes a message whose Run is finished, or leaves the messages alone.
Publishes(r) ==
  /\ stored' = [stored EXCEPT ![r] = @ + 1]
  /\ unacked' = [unacked EXCEPT ![r] = @ \union {stored[r] + 1}]
Acknowledges(r) ==
  /\ run[r].status \in TerminalStatus
  /\ stored' = stored
  /\ \E m : unacked' = [unacked EXCEPT ![r] = @ \ {m}]
QueueMoves ==
  \/ UNCHANGED <<stored, unacked>>
  \/ \E r \in Run : Publishes(r) /\ run[r].status # "absent"
  \/ \E r \in Run : Acknowledges(r)

LEMMA QueueStep ==
  ASSUME TypeOK, CreatedFirst, EnqueuedRunIsNotLost, Finality, QueueMoves,
         \A r \in Run : run'[r].status \in ActiveStatus => run[r].status \in ActiveStatus \union {"absent"}
  PROVE  EnqueuedRunIsNotLost'
<1>1. stored \in [Run -> 0..MaxMessages] /\ unacked \in [Run -> SUBSET (1..MaxMessages)]
  BY Zenon DEF TypeOK, QueueTypeOK
<1>2. \A r \in Run : run[r].status = "absent" => ~(stored[r] > 0)
  BY Zenon DEF CreatedFirst
<1>3. SUFFICES ASSUME NEW r \in Run, stored'[r] > 0, run'[r].status \in ActiveStatus
               PROVE  unacked'[r] # {}
  BY Zenon DEF EnqueuedRunIsNotLost
<1>4. CASE UNCHANGED <<stored, unacked>>
  BY <1>2, <1>3, <1>4, Zenon DEF EnqueuedRunIsNotLost
<1>5. ASSUME NEW q \in Run, Publishes(q), run[q].status # "absent" PROVE unacked'[r] # {}
  <2>1. CASE q = r
    BY <1>1, <1>5, <2>1, Zenon DEF Publishes
  <2>2. CASE q # r
    <3>1. stored'[r] = stored[r] /\ unacked'[r] = unacked[r]
      BY <1>1, <1>5, <2>2, Zenon DEF Publishes
    <3>2. QED
      BY <1>2, <1>3, <3>1, Zenon DEF EnqueuedRunIsNotLost
  <2>3. QED
    BY <2>1, <2>2
<1>6. ASSUME NEW q \in Run, Acknowledges(q) PROVE unacked'[r] # {}
  <2>1. q # r
    <3>1. run[q].status \in TerminalStatus => run'[q].status \in TerminalStatus
      BY Zenon DEF Finality
    <3>2. QED
      BY <1>3, <1>6, <3>1 DEF Acknowledges, TerminalStatus, ActiveStatus
  <2>2. stored'[r] = stored[r] /\ unacked'[r] = unacked[r]
    BY <1>1, <1>6, <2>1, Zenon DEF Acknowledges
  <2>3. QED
    BY <1>2, <1>3, <2>2, Zenon DEF EnqueuedRunIsNotLost
<1>7. QED
  BY <1>4, <1>5, <1>6 DEF QueueMoves

LEMMA PublishingMoves ==
  ASSUME TypeOK, NEW r \in Run, Enqueue(r) \/ UNCHANGED queueVars
  PROVE  /\ UNCHANGED <<stored, unacked>> \/ Publishes(r)
         /\ \A q \in Run \ {r} : stored'[q] = stored[q] /\ unacked'[q] = unacked[q]
BY Zenon DEF Enqueue, queueVars, Publishes, TypeOK, QueueTypeOK

LEMMA SubmitQueues ==
  ASSUME TypeOK, CreatedFirst, NEW r \in Run, Submit(r),
         \A q \in Run : run[q].status # "absent" => run'[q].status # "absent"
  PROVE  AddsOnlyCreated /\ QueueMoves
<1>1. submission \in [Run -> SubmissionState] /\ run \in [Run -> RunRecord]
  BY Zenon DEF TypeOK, ControlTypeOK, StoreTypeOK
<1>2. UNCHANGED <<todo, rrun, job>>
  BY Zenon
  DEF Submit, SubmitCreate, SubmitCache, SubmitEnqueue, SubmitEnqueueError, SubmitFail, SubmitAbandon,
      submissionFrame, procVars, workerVars, jobVars
<1>3. /\ Enqueue(r) \/ UNCHANGED queueVars
      /\ \E s : submission' = [submission EXCEPT ![r] = s]
      /\ \/ submission[r] # "none"
         \/ UNCHANGED queueVars /\ run' = [run EXCEPT ![r] = NewRun]
  BY Zenon
  DEF Submit, SubmitCreate, CreateRun, SubmitCache, SubmitEnqueue, SubmitEnqueueError, SubmitFail,
      SubmitAbandon
<1>4. submission[r] # "none" => run[r].status # "absent"
  BY Zenon DEF CreatedFirst
<1>5. run'[r].status # "absent"
  BY <1>1, <1>3, <1>4 DEF NewRun
<1>6. UNCHANGED <<stored, unacked>> \/ (Publishes(r) /\ run[r].status # "absent")
  BY <1>3, <1>4, PublishingMoves, Zenon DEF queueVars
<1>7. \A q \in Run \ {r} : submission'[q] = submission[q] /\ stored'[q] = stored[q] /\ unacked'[q] = unacked[q]
  BY <1>1, <1>3, PublishingMoves, Zenon
<1>8. AddsOnlyCreated
  BY <1>2, <1>5, <1>7, Zenon DEF AddsOnlyCreated
<1>9. QED
  BY <1>6, <1>8, Zenon DEF QueueMoves

LEMMA WorkerQueues ==
  ASSUME TypeOK, Bookkeeping, CreatedFirst, NEW w \in Worker, AckIsEarned(w),
         WorkerStep(w) \/ WorkerFault(w)
  PROVE  AddsOnlyCreated /\ QueueMoves
<1>1. /\ UNCHANGED <<submission, todo, rrun, stored>>
      /\ \A v \in Worker : job'[v] \in {None, job[v]}
  <2>1. CASE Settle(w)
    BY <2>1, Zenon DEF Settle, DoubleAck, ResetWorkers, queueVars, procVars
  <2>2. CASE ~Settle(w)
    <3>1. UNCHANGED <<submission, todo, rrun, stored, job>>
      BY <2>2, Zenon
      DEF WorkerStep, WorkerFault, Load, LoadFill, Acquire, Claim, Register, Reload, ReloadFill, Resolve,
          CheckLease, BeginAttempt, Persist, PersistCache, Execute, CheckCtx, AfterAttempt, DeadLetter,
          PublishDeadLetter, Backoff, WakeCtx, Cleanup, Release, RenewFails, ObserveCancel, CallFails,
          AnswerLost, ReleaseFails, localFrame, queueVars, procVars, jobVars
    <3>2. QED
      BY <3>1, Zenon
  <2>3. QED
    BY <2>1, <2>2
<1>2. UNCHANGED unacked \/ (Acknowledges(job[w]) /\ job[w] \in Run)
  <2>1. CASE Settle(w) /\ unacked' # unacked
    <3>1. pc[w] = "settle" /\ outcome[w] = "ack" /\ unacked' = [unacked EXCEPT ![job[w]] = @ \ {msg[w]}]
      BY <2>1, Zenon DEF Settle, DoubleAck, queueVars
    <3>2. job[w] \in Run
      BY <3>1, Zenon DEF Bookkeeping, TypeOK, JobTypeOK
    <3>3. run[job[w]].status \in TerminalStatus
      BY <3>1, Zenon DEF AckIsEarned
    <3>4. QED
      BY <1>1, <3>1, <3>2, <3>3, Zenon DEF Acknowledges
  <2>2. CASE ~Settle(w)
    <3>1. UNCHANGED unacked
      BY <2>2, Zenon
      DEF WorkerStep, WorkerFault, Load, LoadFill, Acquire, Claim, Register, Reload, ReloadFill, Resolve,
          CheckLease, BeginAttempt, Persist, PersistCache, Execute, CheckCtx, AfterAttempt, DeadLetter,
          PublishDeadLetter, Backoff, WakeCtx, Cleanup, Release, RenewFails, ObserveCancel, CallFails,
          AnswerLost, ReleaseFails, localFrame, queueVars
    <3>2. QED
      BY <3>1
  <2>3. QED
    BY <2>1, <2>2
<1>3. QueueMoves
  BY <1>1, <1>2, Zenon DEF QueueMoves
<1>4. \A r \in Run : unacked'[r] # {} => unacked[r] # {}
  BY <1>2, SMT DEF Acknowledges, TypeOK, QueueTypeOK
<1>5. AddsOnlyCreated
  BY <1>1, <1>4, Zenon DEF AddsOnlyCreated
<1>6. QED
  BY <1>3, <1>5

LEMMA RecoveryQueues ==
  ASSUME TypeOK, Bookkeeping, CreatedFirst, NEW p \in Proc, ProcStep(p),
         \A q \in Run : run[q].status # "absent" => run'[q].status # "absent"
  PROVE  AddsOnlyCreated /\ QueueMoves
<1>1. /\ todo \in [Proc -> SUBSET (Run \X ActiveStatus)] /\ rrun \in [Proc -> Run \union {None}]
  BY Zenon DEF TypeOK, ProcTypeOK
<1>2. /\ submission' = submission
      /\ \A w \in Worker : job'[w] \in {None, job[w]}
  <2>1. CASE Crash(p)
    BY <2>1, Zenon DEF Crash, ResetWorkers
  <2>2. CASE ~Crash(p)
    <3>1. UNCHANGED <<submission, job>>
      BY <2>2, Zenon
      DEF ProcStep, RecoverStep, CancelRequest, CancelCache, CancelExecution, CancelRefused,
          StartProcess, RecoverQueued, RecoverAcquire, RecoverReset, RecoverInvalidate, RecoverRelease,
          RecoverEnqueue, RecoverDone, Shutdown, StopProcess, workerVars, jobVars
    <3>2. QED
      BY <3>1, Zenon
  <2>3. QED
    BY <2>1, <2>2
<1>3. \/ todo' = todo
      \/ todo' = [todo EXCEPT ![p] = {}]
      \/ todo' = [todo EXCEPT ![p] = ListPendingRuns] /\ run' = run
      \/ \E x : todo' = [todo EXCEPT ![p] = @ \ {x}]
  BY Zenon
  DEF ProcStep, RecoverStep, CancelRequest, CancelCache, CancelExecution, CancelRefused,
      StartProcess, RecoverQueued, RecoverAcquire, RecoverReset, RecoverInvalidate, RecoverRelease,
      RecoverEnqueue, RecoverDone, Shutdown, StopProcess, Crash, procVars, storeVars
<1>4. \/ rrun' = rrun
      \/ rrun' = [rrun EXCEPT ![p] = None]
      \/ \E r \in Run : rrun' = [rrun EXCEPT ![p] = r] /\ <<r, "running">> \in todo[p]
  <2>1. CASE RecoverRelease(p)
    <3>1. rrun' = [rrun EXCEPT ![p] = rrun[p]] \/ rrun' = [rrun EXCEPT ![p] = None]
      BY <2>1, Zenon DEF RecoverRelease
    <3>2. [rrun EXCEPT ![p] = rrun[p]] = rrun
      BY <1>1, Zenon
    <3>3. QED
      BY <3>1, <3>2, Zenon
  <2>2. CASE ~RecoverRelease(p)
    BY <2>2, Zenon
    DEF ProcStep, RecoverStep, CancelRequest, CancelCache, CancelExecution, CancelRefused,
        StartProcess, RecoverQueued, RecoverAcquire, RecoverReset, RecoverInvalidate,
        RecoverEnqueue, RecoverDone, Shutdown, StopProcess, Crash, procVars
  <2>3. QED
    BY <2>1, <2>2, Zenon
<1>5. \/ UNCHANGED queueVars
      \/ \E r \in Run : /\ Enqueue(r)
                        /\ rrun[p] = r \/ <<r, "queued">> \in todo[p]
  <2>1. CASE RecoverEnqueue(p)
    BY <1>1, <2>1, Zenon DEF RecoverEnqueue, Bookkeeping
  <2>2. CASE ~RecoverEnqueue(p)
    BY <2>2, Zenon
    DEF ProcStep, RecoverStep, CancelRequest, CancelCache, CancelExecution, CancelRefused,
        StartProcess, RecoverQueued, RecoverAcquire, RecoverReset, RecoverInvalidate, RecoverRelease,
        RecoverDone, Shutdown, StopProcess, Crash
  <2>3. QED
    BY <2>1, <2>2
<1>6. "queued" \in ActiveStatus /\ "running" \in ActiveStatus /\ "absent" \notin ActiveStatus
  BY DEF ActiveStatus
<1>7. \A q \in Proc, r \in Run, s \in ActiveStatus :
        <<r, s>> \in todo'[q] => <<r, s>> \in todo[q] \/ run'[r].status # "absent"
  <2>1. \A r \in Run, s \in ActiveStatus : <<r, s>> \in ListPendingRuns => run[r].status # "absent"
    BY <1>6, Zenon DEF ListPendingRuns
  <2>2. \A q \in Proc \ {p} : todo'[q] = todo[q]
    BY <1>1, <1>3, Zenon
  <2>3. todo'[p] \subseteq todo[p] \/ (todo'[p] = ListPendingRuns /\ run' = run)
    BY <1>1, <1>3, Zenon
  <2>4. QED
    BY <2>1, <2>2, <2>3, Zenon
<1>8. \A q \in Proc : rrun'[q] \in {None, rrun[q]} \/ run'[rrun'[q]].status # "absent"
  <2>1. \A q \in Proc \ {p} : rrun'[q] = rrun[q]
    BY <1>1, <1>4, Zenon
  <2>2. \/ rrun'[p] \in {None, rrun[p]}
        \/ \E r \in Run : rrun'[p] = r /\ <<r, "running">> \in todo[p]
    BY <1>1, <1>4, Zenon
  <2>3. QED
    BY <1>6, <2>1, <2>2, Zenon DEF CreatedFirst
<1>9. CASE UNCHANGED queueVars
  BY <1>2, <1>7, <1>8, <1>9, Zenon DEF queueVars, AddsOnlyCreated, QueueMoves
<1>10. ASSUME NEW r \in Run, Enqueue(r), rrun[p] = r \/ <<r, "queued">> \in todo[p]
       PROVE  AddsOnlyCreated /\ QueueMoves
  <2>1. run[r].status # "absent"
    BY <1>6, <1>10, NoneAssumption, Zenon DEF CreatedFirst
  <2>2. /\ UNCHANGED <<stored, unacked>> \/ Publishes(r)
        /\ \A q \in Run \ {r} : stored'[q] = stored[q] /\ unacked'[q] = unacked[q]
    BY <1>10, PublishingMoves, Zenon
  <2>3. AddsOnlyCreated
    BY <1>2, <1>7, <1>8, <2>1, <2>2, Zenon DEF AddsOnlyCreated
  <2>4. QED
    BY <2>1, <2>2, <2>3, Zenon DEF QueueMoves
<1>11. QED
  BY <1>5, <1>9, <1>10, Zenon

LEMMA DeliveryStep ==
  ASSUME LeasesLast, ExecutionInv, ActiveEntriesAreLive, KeepersWork, HoldersAgree, DeliveryInv,
         [Next]_vars
  PROVE  DeliveryInv'
<1>1. TypeOK /\ Bookkeeping /\ CreatedFirst /\ EnqueuedRunIsNotLost /\ \A w \in Worker : AckIsEarned(w)
  BY Zenon DEF ExecutionInv, DeliveryInv
<1>2. Finality /\ \A r \in Run : run[r].status # "absent" => run'[r].status # "absent"
  BY RunsAreKept, Zenon
<1>3. \A r \in Run : run'[r].status \in ActiveStatus => run[r].status \in ActiveStatus \union {"absent"}
  <2>1. \A r \in Run : run[r].status \in {"absent"} \union ActiveStatus \union TerminalStatus
    BY <1>1 DEF TypeOK, StoreTypeOK, RunRecord, RunStatus
  <2>2. ActiveStatus \intersect TerminalStatus = {}
    BY DEF ActiveStatus, TerminalStatus
  <2>3. QED
    BY <1>2, <2>1, <2>2, Zenon DEF Finality
<1>4. AddsOnlyCreated /\ QueueMoves
  <2>1. ASSUME UNCHANGED <<submission, stored, unacked, todo, rrun, job>>
        PROVE  AddsOnlyCreated /\ QueueMoves
    BY <2>1, Zenon DEF AddsOnlyCreated, QueueMoves
  <2>2. ASSUME NEW w \in Worker, NEW r \in Run, NEW m \in 1..MaxMessages, Deliver(w, r, m)
        PROVE  AddsOnlyCreated /\ QueueMoves
    <3>1. /\ UNCHANGED <<submission, stored, unacked, todo, rrun>>
          /\ m \in unacked[r] /\ job' = [job EXCEPT ![w] = r]
      BY <2>2, Zenon DEF Deliver, localFrame, queueVars, procVars
    <3>2. run'[r].status # "absent"
      BY <1>1, <1>2, <3>1, Zenon DEF CreatedFirst
    <3>3. \A v \in Worker : job'[v] \in {None, job[v]} \/ job'[v] = r
      BY <1>1, <3>1, Zenon DEF TypeOK, JobTypeOK
    <3>4. QED
      BY <3>1, <3>2, <3>3, Zenon DEF AddsOnlyCreated, QueueMoves
  <2>3. ASSUME Environment PROVE UNCHANGED <<submission, stored, unacked, todo, rrun, job>>
    BY <2>3, Zenon
    DEF Environment, ExpireLease, ForgetMessageID, CloseWindow, RestoreCoordinator, ExpireEntry, ReadMiss,
        ReadFill, queueVars, procVars, workerVars, jobVars
  <2>4. QED
    BY <1>1, <1>2, <2>1, <2>2, <2>3, SubmitQueues, WorkerQueues, RecoveryQueues, Zenon
    DEF Next, vars, queueVars, procVars, workerVars, jobVars
<1>5. CreatedFirst' /\ EnqueuedRunIsNotLost'
  BY <1>1, <1>2, <1>3, <1>4, CreatedStays, QueueStep, Zenon
<1>6. CancelIsStored'
  BY CancelStep, Zenon DEF DeliveryInv
<1>7. QED
  BY <1>5, <1>6, AckStep, Zenon DEF DeliveryInv

\* While leases last, an unfinished Run that was enqueued still has a message
\* in the queue, whichever processes crash and whichever calls fail: a message
\* is acknowledged only by an execution that knows its Run to be finished
\* (execute, Consume, Cancel, Recover).
THEOREM QueuedRunsAreKept == ASSUME LeasesLast PROVE Spec => []EnqueuedRunIsNotLost
<1>1. ASSUME Init PROVE DeliveryInv
  <2>1. \A r \in Run : ~(stored[r] > 0) /\ unacked[r] = {}
    <3>1. stored = [r \in Run |-> 0] /\ unacked = [r \in Run |-> {}]
      BY <1>1, Zenon DEF Init, QueueInit
    <3>2. \A r \in Run : stored[r] = 0 /\ unacked[r] = {}
      BY <3>1, Zenon
    <3>3. ~(0 > 0)
      BY SMT
    <3>4. QED
      BY <3>2, <3>3, Zenon
  <2>2. /\ \A w \in Worker : pc[w] = "idle" /\ ctxDone[w] = FALSE /\ job[w] = None
        /\ \A p \in Proc : canceling[p] = {} /\ todo[p] = {} /\ rrun[p] = None
        /\ \A r \in Run : submission[r] = "none"
    BY <1>1, Zenon DEF Init
  <2>3. \A w \in Worker : AckIsEarned(w)
    BY <2>2, Zenon DEF AckIsEarned
  <2>4. CreatedFirst
    BY <2>1, <2>2, Zenon DEF CreatedFirst
  <2>5. QED
    BY <2>1, <2>2, <2>3, <2>4, Zenon DEF DeliveryInv, CancelIsStored, EnqueuedRunIsNotLost
<1>2. ASSUME ExecutionInv, ActiveEntriesAreLive, KeepersWork, HoldersAgree, DeliveryInv, [Next]_vars
      PROVE  DeliveryInv'
  BY <1>2, DeliveryStep, Zenon
<1>3. DeliveryInv => EnqueuedRunIsNotLost
  BY Zenon DEF DeliveryInv
<1>4. QED
  BY <1>1, <1>2, <1>3, ExecutionInvariant, RegistryIsLive, LeaseInvariant, PTL DEF Spec
=============================================================================
