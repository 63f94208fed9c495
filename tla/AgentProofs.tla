----------------------------- MODULE AgentProofs -----------------------------
(***************************************************************************)
(* Proofs about the registry of agents and the health service, for any     *)
(* number of handlers and workers, any targets and any requests.           *)
(***************************************************************************)
EXTENDS AgentProperties, SequenceTheorems, TLAPS

PC == {"idle", "get", "row", "fill", "create", "update", "delete", "set", "evict", "forget",
       "refresh", "send", "store"}
Doing == Kind \union {"none", "refused", "schedule", "check"}
Found == Row \union {None}

AtWork == [pc : PC, kind : Doing, local : BOOLEAN, target : Target \union {None},
           expected : Nat, agent : Found]

\* What the variables hold, and that versions count the updates.
RegistryOK ==
  /\ row \in Found /\ cache \in Found /\ deleted \in BOOLEAN
  /\ process \in [Process -> AtWork]
  /\ written \in Seq(Nat)
  /\ pending \in BOOLEAN
  /\ queue \in Seq(Target \union {None})

\* The version in the store is one more than the number of updates, also when
\* the agent is created late.
VersionsOK ==
  /\ row # None => row.version = Len(written) + 1
  /\ row = None /\ ~deleted => written = <<>>

\* What a process is at says what it does: only handlers create the agent and
\* only workers check it.
Fits(p, x) ==
  /\ p \in Worker => \/ x.pc = "idle" /\ x.kind = "none"
                     \/ x.pc \in {"get", "row", "fill", "store"} /\ x.kind = "check"
  /\ p \notin Worker => x.kind # "check"
  /\ p \notin Handler => x.kind # "create"
  /\ x.pc \in {"get", "row", "fill"} => x.kind \in {"update", "delete", "health", "read", "check"}
  /\ x.kind \in {"create", "update"} => x.target \in Target
  /\ x.pc = "update" => x.kind = "update"
  /\ x.pc = "create" => x.kind = "create"
  /\ x.pc = "send" => x.agent.target \in Probeable

ProcessesOK == \A p \in Process : Fits(p, process[p])

OneCreates ==
  \A p, q \in Process : process[p].kind = "create" /\ process[q].kind = "create" => p = q

\* A handler that is about to create the agent finds none.
CreationsOK == \A p \in Process : At(p, "create") => row = None /\ ~deleted

RegistryInv ==
  /\ RegistryOK
  /\ VersionsOK
  /\ ProcessesOK
  /\ OneCreates
  /\ CreationsOK
  /\ UpdatesAreSerial
  /\ PendingIsUnderWay

-----------------------------------------------------------------------------
(* Steps of one process.                                                   *)

UnderWay(x) == x.pc = "send" \/ x.kind = "check"

\* Process p goes on to x.
Moves(p, x) == x \in AtWork /\ Fits(p, x) /\ process' = [process EXCEPT ![p] = x]

\* A step of one process that creates nothing new keeps what is known of all.
LEMMA MovesFit ==
  ASSUME RegistryInv, NEW p \in Process, NEW x, Moves(p, x),
         x.kind = "create" => process[p].kind = "create"
  PROVE  process' \in [Process -> AtWork] /\ ProcessesOK' /\ OneCreates'
<1>1. \A q \in Process : process'[q] = IF q = p THEN x ELSE process[q]
  BY DEF Moves, RegistryInv, RegistryOK
<1>2. process' \in [Process -> AtWork]
  BY DEF Moves, RegistryInv, RegistryOK
<1>3. ProcessesOK'
  BY <1>1 DEF ProcessesOK, Moves, RegistryInv
<1>4. OneCreates'
  BY <1>1 DEF OneCreates, RegistryInv
<1>5. QED
  BY <1>2, <1>3, <1>4

\* So it does when the agent is left alone.
LEMMA MovesCreate ==
  ASSUME RegistryInv, NEW p \in Process, NEW x, Moves(p, x), UNCHANGED <<row, deleted>>,
         x.pc = "create" => At(p, "create")
  PROVE  CreationsOK'
<1>1. \A q \in Process : process'[q] = IF q = p THEN x ELSE process[q]
  BY DEF Moves, RegistryInv, RegistryOK
<1>2. QED
  BY <1>1 DEF CreationsOK, RegistryInv, At

\* A check that is pending stays under way when p goes on with it.
LEMMA MovesPending ==
  ASSUME RegistryInv, NEW p \in Process, NEW x, Moves(p, x), pending' => pending, UNCHANGED queue,
         UnderWay(process[p]) => UnderWay(x)
  PROVE  PendingIsUnderWay'
<1>1. \A q \in Process : process'[q] = IF q = p THEN x ELSE process[q]
  BY DEF Moves, RegistryInv, RegistryOK
<1>2. SUFFICES ASSUME pending' PROVE PendingIsUnderWay'
  BY DEF PendingIsUnderWay
<1>3. CASE \E i \in DOMAIN queue : queue[i] # None
  BY <1>3 DEF PendingIsUnderWay
<1>4. CASE \E q \in Process : At(q, "send") \/ process[q].kind = "check"
  <2>1. PICK q \in Process : At(q, "send") \/ process[q].kind = "check"
    BY <1>4
  <2>2. At(q, "send")' \/ process'[q].kind = "check"
    BY <1>1, <2>1 DEF At, UnderWay
  <2>3. QED
    BY <2>2 DEF PendingIsUnderWay
<1>5. QED
  BY <1>2, <1>3, <1>4 DEF PendingIsUnderWay, RegistryInv

\* A step of p that leaves the store alone and hands a pending check on.
LEMMA QuietStep ==
  ASSUME RegistryInv, NEW p \in Process, NEW x, Moves(p, x), UNCHANGED <<store, pending, queue>>,
         cache' \in Found, UnderWay(process[p]) => UnderWay(x),
         x.kind = "create" => process[p].kind = "create", x.pc = "create" => At(p, "create")
  PROVE  RegistryInv'
<1>1. UNCHANGED <<row, deleted, written, pending, queue>>
  BY DEF store
<1>2. /\ process' \in [Process -> AtWork] /\ ProcessesOK' /\ OneCreates'
      /\ CreationsOK' /\ PendingIsUnderWay'
  BY <1>1, MovesFit, MovesCreate, MovesPending
<1>3. RegistryOK' /\ VersionsOK' /\ UpdatesAreSerial'
  BY <1>1, <1>2 DEF RegistryInv, RegistryOK, VersionsOK, UpdatesAreSerial
<1>4. QED
  BY <1>2, <1>3 DEF RegistryInv

LEMMA FreeFits == Free \in AtWork /\ \A p \in Process : Fits(p, Free)
BY AgentAssumption DEF Free, AtWork, PC, Doing, Kind, Found, Fits

-----------------------------------------------------------------------------
(* GetAgent of the cached store.                                           *)

\* Whoever got an agent, or none, goes on with it.
LEMMA GotStep ==
  ASSUME RegistryInv, NEW p \in Process, process[p].pc \in {"get", "row", "fill"},
         NEW a \in Found, Got(p, a), cache' \in Found, UNCHANGED <<store, health, received, faults>>
  PROVE  RegistryInv'
<1>1. process[p] \in AtWork /\ Fits(p, process[p])
  BY DEF RegistryInv, RegistryOK, ProcessesOK
<1>2. process[p].kind \in {"update", "delete", "health", "read", "check"}
  BY <1>1 DEF Fits
<1>3. UNCHANGED <<pending, queue>>
  BY DEF health
<1>4. CASE process[p].kind = "read"
  <2>1. Goes(p) = "idle"
    BY <1>4 DEF Goes
  <2>2. process' = [process EXCEPT ![p] = Free]
    BY <2>1 DEF Got, Leave, Become
  <2>3. Moves(p, Free) /\ ~UnderWay(process[p]) /\ Free.kind = "none" /\ Free.pc = "idle"
    BY <1>4, <2>2, FreeFits, Zenon DEF Moves, UnderWay, Free
  <2>4. QED
    BY <1>3, <2>3, QuietStep
<1>5. CASE process[p].kind # "read"
  <2>1. Goes(p) \in {"update", "delete", "refresh", "store"}
        /\ (Goes(p) = "update" <=> process[p].kind = "update")
        /\ (Goes(p) = "store" <=> process[p].kind = "check")
    BY <1>2, <1>5 DEF Goes
  <2>2. PICK x : x = [process[p] EXCEPT !.pc = Goes(p), !.agent = a]
    OBVIOUS
  <2>3. process' = [process EXCEPT ![p] = x]
    BY <2>1, <2>2 DEF Got, Become
  <2>4. x.pc = Goes(p) /\ x.kind = process[p].kind /\ x.target = process[p].target /\ x.agent = a
    BY <1>1, <2>2 DEF AtWork
  <2>5. x \in AtWork
    BY <1>1, <2>1, <2>2, Zenon DEF AtWork, PC
  <2>6. Fits(p, x)
    BY <1>1, <1>2, <2>1, <2>4 DEF Fits
  <2>7. (UnderWay(process[p]) => UnderWay(x)) /\ x.pc # "create"
    BY <2>1, <2>4 DEF UnderWay
  <2>8. QED
    BY <1>3, <2>3, <2>4, <2>5, <2>6, <2>7, QuietStep, Zenon DEF Moves
<1>6. QED
  BY <1>4, <1>5

LEMMA GetCachedStep == ASSUME RegistryInv, NEW p \in Process, GetCached(p) PROVE RegistryInv'
<1>1. process[p] \in AtWork /\ Fits(p, process[p]) /\ At(p, "get") /\ cache \in Found
  BY DEF RegistryInv, RegistryOK, ProcessesOK, GetCached
<1>2. UNCHANGED <<store, cache, health, received, faults>>
  BY DEF GetCached
<1>3. CASE cache # None
  <2>1. Got(p, cache) /\ cache' \in Found /\ process[p].pc \in {"get", "row", "fill"}
    BY <1>1, <1>2, <1>3 DEF GetCached, At
  <2>2. QED
    BY <1>1, <1>2, <2>1, GotStep
<1>4. CASE cache = None
  <2>1. PICK x : x = [process[p] EXCEPT !.pc = "row"]
    BY Zenon
  <2>2. process' = [process EXCEPT ![p] = x] /\ x.pc = "row" /\ x.kind = process[p].kind
    BY <1>1, <1>4, <2>1 DEF GetCached, Goto, Become, AtWork
  <2>3. x \in AtWork /\ Fits(p, x)
    BY <1>1, <2>1 DEF AtWork, PC, Fits, At
  <2>4. (UnderWay(process[p]) => UnderWay(x)) /\ UNCHANGED <<pending, queue>>
    BY <1>1, <1>2, <2>2 DEF UnderWay, At, health
  <2>5. QED
    BY <1>1, <1>2, <2>2, <2>3, <2>4, QuietStep, Zenon DEF Moves
<1>5. QED
  BY <1>3, <1>4

LEMMA GetRowStep == ASSUME RegistryInv, NEW p \in Process, GetRow(p) PROVE RegistryInv'
<1>1. process[p] \in AtWork /\ Fits(p, process[p]) /\ At(p, "row") /\ row \in Found /\ cache \in Found
  BY DEF RegistryInv, RegistryOK, ProcessesOK, GetRow
<1>2. UNCHANGED <<store, cache, health, received, faults>> /\ UNCHANGED <<pending, queue>>
  BY DEF GetRow, health
<1>3. CASE row # None
  <2>1. PICK x : x = [process[p] EXCEPT !.pc = "fill", !.agent = row]
    OBVIOUS
  <2>2. process' = [process EXCEPT ![p] = x] /\ x.pc = "fill" /\ x.kind = process[p].kind
    BY <1>1, <1>3, <2>1 DEF GetRow, Become, AtWork
  <2>3. x \in AtWork /\ Fits(p, x)
    BY <1>1, <2>1, Zenon DEF AtWork, PC, Fits, At
  <2>4. UnderWay(process[p]) => UnderWay(x)
    BY <1>1, <2>2 DEF UnderWay, At
  <2>5. QED
    BY <1>1, <1>2, <2>2, <2>3, <2>4, QuietStep, Zenon DEF Moves
<1>4. CASE row = None /\ p \in Worker
  <2>1. Got(p, None) /\ None \in Found /\ cache' \in Found /\ process[p].pc \in {"get", "row", "fill"}
    BY <1>1, <1>2, <1>4 DEF GetRow, At, Found
  <2>2. QED
    BY <1>2, <2>1, GotStep
<1>5. CASE row = None /\ p \notin Worker
  <2>1. Moves(p, Free) /\ ~UnderWay(process[p]) /\ Free.kind = "none" /\ Free.pc = "idle"
    BY <1>1, <1>5, FreeFits DEF GetRow, Leave, Become, Moves, UnderWay, At, Fits, Free
  <2>2. QED
    BY <1>1, <1>2, <2>1, QuietStep
<1>6. QED
  BY <1>3, <1>4, <1>5

LEMMA GetStepKeeps == ASSUME RegistryInv, NEW p \in Process, GetStep(p) PROVE RegistryInv'
<1>1. CASE Fill(p)
  <2>1. process[p].agent \in Found /\ process[p].pc \in {"get", "row", "fill"}
    BY <1>1 DEF RegistryInv, RegistryOK, AtWork, Fill, At
  <2>2. QED
    BY <1>1, <2>1, GotStep DEF Fill
<1>2. QED
  BY <1>1, GetCachedStep, GetRowStep DEF GetStep

-----------------------------------------------------------------------------
(* The requests.                                                           *)

LEMMA ReceiveMoves ==
  ASSUME RegistryInv, NEW h \in Handler, NEW q \in Requests, NEW expected \in Nat, NEW pc,
         \/ pc = "create" /\ q.kind = "create"
         \/ pc = "get" /\ q.kind \in {"update", "delete", "health", "read"},
         Receive(h, q, expected, pc)
  PROVE  \E x : /\ Moves(h, x) /\ ~UnderWay(process[h])
                /\ x.pc = pc /\ x.kind = q.kind
                /\ UNCHANGED <<store, cache, pending, queue>>
<1>1. process[h] \in AtWork /\ Fits(h, process[h]) /\ At(h, "idle") /\ h \in Process
  BY DEF RegistryInv, RegistryOK, ProcessesOK, Receive, Process
<1>2. PICK x : x = [Free EXCEPT !.pc = pc, !.kind = q.kind, !.local = q.local,
                                !.target = q.target, !.expected = expected]
  OBVIOUS
<1>3. /\ q \in [kind : Kind, local : BOOLEAN, target : Target \union {None}]
      /\ q.kind \in {"create", "update"} => q.target \in Target
      /\ h \notin Worker
  BY AgentAssumption
<1>4. x = [pc |-> pc, kind |-> q.kind, local |-> q.local, target |-> q.target,
           expected |-> expected, agent |-> None]
  BY <1>2, Zenon DEF Free
<1>5. x \in AtWork
  BY <1>3, <1>4 DEF AtWork, PC, Doing, Kind, Found
<1>6. Fits(h, x) /\ ~UnderWay(process[h]) /\ x.pc = pc /\ x.kind = q.kind
  BY <1>1, <1>3, <1>4 DEF Fits, UnderWay, At, Kind
<1>7. process' = [process EXCEPT ![h] = x] /\ UNCHANGED <<store, cache, pending, queue>>
  BY <1>2 DEF Receive, Become, health
<1>8. QED
  BY <1>5, <1>6, <1>7, Zenon DEF Moves

LEMMA RequestKeeps == ASSUME RegistryInv, NEW h \in Handler, RequestStep(h) PROVE RegistryInv'
<1>1. PICK q \in Requests : createAgent(h, q) \/ updateAgent(h, q) \/ deleteAgent(h, q)
                              \/ getAgentHealth(h, q) \/ getAgent(h, q)
  BY DEF RequestStep
<1>2. h \in Process /\ cache \in Found /\ Seen \subseteq Nat
  BY DEF Process, RegistryInv, RegistryOK, Seen
<1>3. CASE createAgent(h, q)
  <2>1. PICK x : /\ Moves(h, x) /\ ~UnderWay(process[h])
                 /\ x.pc = "create" /\ x.kind = "create"
                 /\ UNCHANGED <<store, cache, pending, queue>>
    <3>1. q.kind = "create" /\ Receive(h, q, 0, "create") /\ 0 \in Nat
      BY <1>3 DEF createAgent
    <3>2. QED
      BY <3>1, ReceiveMoves
  <2>2. \A p \in Process : process[p].kind # "create"
    BY <1>3 DEF createAgent, RegistryInv, ProcessesOK, Fits
  <2>3. \A p \in Process : process'[p] = IF p = h THEN x ELSE process[p]
    BY <1>2, <2>1 DEF Moves, RegistryInv, RegistryOK
  <2>4. process' \in [Process -> AtWork] /\ ProcessesOK'
    <3>1. process' \in [Process -> AtWork]
      BY <1>2, <2>1 DEF Moves, RegistryInv, RegistryOK
    <3>2. ProcessesOK'
      BY <2>1, <2>3 DEF ProcessesOK, Moves, RegistryInv
    <3>3. QED
      BY <3>1, <3>2
  <2>5. OneCreates'
    BY <2>2, <2>3 DEF OneCreates
  <2>6. CreationsOK'
    BY <1>3, <2>1, <2>3 DEF CreationsOK, RegistryInv, At, createAgent, store
  <2>7. PendingIsUnderWay'
    BY <1>2, <2>1, MovesPending
  <2>8. RegistryOK' /\ VersionsOK' /\ UpdatesAreSerial'
    BY <2>1, <2>4 DEF RegistryInv, RegistryOK, VersionsOK, UpdatesAreSerial, store
  <2>9. QED
    BY <2>4, <2>5, <2>6, <2>7, <2>8 DEF RegistryInv
<1>4. ASSUME NEW expected \in Nat, q.kind \in {"update", "delete", "health", "read"},
             Receive(h, q, expected, "get")
      PROVE  RegistryInv'
  <2>1. PICK x : /\ Moves(h, x) /\ ~UnderWay(process[h])
                 /\ x.pc = "get" /\ x.kind = q.kind
                 /\ UNCHANGED <<store, cache, pending, queue>>
    BY <1>4, ReceiveMoves
  <2>2. QED
    BY <1>2, <1>4, <2>1, QuietStep
<1>5. CASE updateAgent(h, q) \/ deleteAgent(h, q)
  <2>1. PICK expected \in Nat : Receive(h, q, expected, "get")
    BY <1>2, <1>5 DEF updateAgent, deleteAgent
  <2>2. QED
    BY <1>4, <1>5, <2>1 DEF updateAgent, deleteAgent
<1>6. CASE getAgentHealth(h, q) \/ getAgent(h, q)
  <2>1. Receive(h, q, 0, "get") /\ 0 \in Nat /\ q.kind \in {"health", "read"}
    BY <1>6 DEF getAgentHealth, getAgent
  <2>2. QED
    BY <1>4, <2>1
<1>7. QED
  BY <1>1, <1>3, <1>5, <1>6

-----------------------------------------------------------------------------
(* The store, the cache and the service of the replica.                    *)

\* The agent is created once, with the first version.
LEMMA CreateKeeps == ASSUME RegistryInv, NEW h \in Handler, CreateAgent(h) PROVE RegistryInv'
<1>1. /\ process[h] \in AtWork /\ Fits(h, process[h]) /\ At(h, "create")
      /\ h \in Process /\ h \notin Worker
  BY AgentAssumption DEF RegistryInv, RegistryOK, ProcessesOK, CreateAgent, Process
<1>2. row = None /\ ~deleted /\ written = <<>> /\ process[h].kind = "create" /\ process[h].target \in Target
  BY <1>1 DEF RegistryInv, CreationsOK, VersionsOK, Fits, At
<1>3. PICK x : x = [process[h] EXCEPT !.pc = "set", !.agent = row']
  OBVIOUS
<1>4. row' = [target |-> process[h].target, version |-> 1] /\ process' = [process EXCEPT ![h] = x]
  BY <1>3 DEF CreateAgent, Become
<1>5. row' \in Row /\ row' # None /\ row'.version = 1
  BY <1>2, <1>4, AgentAssumption DEF Row
<1>6. x \in AtWork /\ x.pc = "set" /\ x.kind = "create" /\ x.target = process[h].target
  BY <1>1, <1>2, <1>3, <1>5, Zenon DEF AtWork, PC, Found
<1>7. Moves(h, x)
  BY <1>1, <1>2, <1>4, <1>6 DEF Moves, Fits
<1>8. UNCHANGED <<deleted, written, cache, pending, queue>>
  BY DEF CreateAgent, health
<1>9. process' \in [Process -> AtWork] /\ ProcessesOK' /\ OneCreates' /\ PendingIsUnderWay'
  <2>1. ~UnderWay(process[h])
    BY <1>1, <1>2 DEF UnderWay, At
  <2>2. QED
    BY <1>1, <1>2, <1>7, <1>8, <2>1, MovesFit, MovesPending
<1>10. CreationsOK'
  <2>1. \A p \in Process : process'[p] = IF p = h THEN x ELSE process[p]
    BY <1>1, <1>7 DEF Moves, RegistryInv, RegistryOK
  <2>2. \A p \in Process : process[p].pc = "create" => p = h
    BY <1>1, <1>2 DEF RegistryInv, ProcessesOK, Fits, OneCreates
  <2>3. QED
    BY <1>6, <2>1, <2>2 DEF CreationsOK, At
<1>11. RegistryOK' /\ VersionsOK' /\ UpdatesAreSerial'
  BY <1>2, <1>5, <1>8, <1>9 DEF RegistryInv, RegistryOK, VersionsOK, UpdatesAreSerial, Found
<1>12. QED
  BY <1>9, <1>10, <1>11 DEF RegistryInv

\* An update that is written replaced the version it names.
LEMMA UpdateKeeps == ASSUME RegistryInv, NEW h \in Handler, UpdateAgent(h) PROVE RegistryInv'
<1>1. /\ process[h] \in AtWork /\ Fits(h, process[h]) /\ At(h, "update")
      /\ h \in Process /\ h \notin Worker
  BY AgentAssumption DEF RegistryInv, RegistryOK, ProcessesOK, UpdateAgent, Process
<1>2. process[h].kind = "update" /\ process[h].target \in Target
  BY <1>1 DEF Fits, At
<1>3. UNCHANGED <<deleted, cache, pending, queue>> /\ cache \in Found
  BY DEF UpdateAgent, health, RegistryInv, RegistryOK
<1>4. CASE Expects(h)
  <2>1. row \in Row /\ row # None /\ row.version = Len(written) + 1 /\ process[h].expected = Len(written) + 1
    BY <1>4 DEF Expects, RegistryInv, RegistryOK, VersionsOK, Found
  <2>2. PICK x : x = [process[h] EXCEPT !.pc = "set", !.agent = row']
    OBVIOUS
  <2>3. /\ row' = [target |-> process[h].target, version |-> row.version + 1]
        /\ written' = Append(written, process[h].expected)
        /\ process' = [process EXCEPT ![h] = x]
    BY <1>4, <2>2 DEF UpdateAgent, Become
  <2>4. row' \in Row /\ row' # None /\ row'.version = Len(written) + 2
    BY <1>2, <2>1, <2>3, AgentAssumption DEF Row, RegistryInv, RegistryOK
  <2>5. x \in AtWork /\ x.pc = "set" /\ x.kind = "update" /\ x.target = process[h].target
    BY <1>1, <1>2, <2>2, <2>4, Zenon DEF AtWork, PC, Found
  <2>6. Moves(h, x)
    BY <1>1, <1>2, <2>3, <2>5 DEF Moves, Fits
  <2>7. process' \in [Process -> AtWork] /\ ProcessesOK' /\ OneCreates' /\ PendingIsUnderWay'
    <3>1. ~UnderWay(process[h])
      BY <1>1, <1>2 DEF UnderWay, At
    <3>2. QED
      BY <1>1, <1>3, <2>5, <2>6, <3>1, MovesFit, MovesPending
  <2>8. CreationsOK'
    <3>1. \A p \in Process : process'[p] = IF p = h THEN x ELSE process[p]
      BY <1>1, <2>6 DEF Moves, RegistryInv, RegistryOK
    <3>2. QED
      BY <2>1, <2>5, <3>1 DEF CreationsOK, RegistryInv, At
  <2>9. written' \in Seq(Nat) /\ Len(written') = Len(written) + 1 /\ UpdatesAreSerial'
    BY <2>1, <2>3 DEF RegistryInv, RegistryOK, UpdatesAreSerial
  <2>10. RegistryOK' /\ VersionsOK'
    BY <1>3, <2>4, <2>7, <2>9 DEF RegistryInv, RegistryOK, VersionsOK, Found
  <2>11. QED
    BY <2>7, <2>8, <2>9, <2>10 DEF RegistryInv
<1>5. CASE ~Expects(h)
  <2>1. PICK x : x = [process[h] EXCEPT !.pc = "evict", !.kind = "refused"]
    OBVIOUS
  <2>2. process' = [process EXCEPT ![h] = x] /\ UNCHANGED store
    BY <1>3, <1>5, <2>1 DEF UpdateAgent, Become, store
  <2>3. x \in AtWork /\ x.pc = "evict" /\ x.kind = "refused"
    BY <1>1, <2>1, Zenon DEF AtWork, PC, Doing
  <2>4. Moves(h, x) /\ ~UnderWay(process[h])
    BY <1>1, <1>2, <2>2, <2>3 DEF Moves, Fits, UnderWay, At
  <2>5. QED
    BY <1>1, <1>3, <2>2, <2>3, <2>4, QuietStep
<1>6. QED
  BY <1>4, <1>5

LEMMA DeleteKeeps == ASSUME RegistryInv, NEW h \in Handler, DeleteAgent(h) PROVE RegistryInv'
<1>1. /\ process[h] \in AtWork /\ Fits(h, process[h]) /\ At(h, "delete")
      /\ h \in Process /\ h \notin Worker
  BY AgentAssumption DEF RegistryInv, RegistryOK, ProcessesOK, DeleteAgent, Process
<1>2. UNCHANGED <<written, cache, pending, queue>> /\ cache \in Found /\ ~UnderWay(process[h])
  BY <1>1 DEF DeleteAgent, health, RegistryInv, RegistryOK, UnderWay, At, Fits
<1>3. CASE Expects(h) /\ row' = None /\ deleted' = TRUE /\ Goto(h, "evict")
  <2>1. PICK x : x = [process[h] EXCEPT !.pc = "evict"]
    BY Zenon
  <2>2. x \in AtWork /\ x.pc = "evict" /\ x.kind = process[h].kind /\ x.target = process[h].target
    BY <1>1, <2>1 DEF AtWork, PC
  <2>3. Moves(h, x)
    BY <1>1, <1>3, <2>1, <2>2 DEF Moves, Fits, Goto, Become
  <2>4. process' \in [Process -> AtWork] /\ ProcessesOK' /\ OneCreates' /\ PendingIsUnderWay'
    BY <1>1, <1>2, <2>2, <2>3, MovesFit, MovesPending
  <2>5. CreationsOK'
    <3>1. \A p \in Process : process'[p] = IF p = h THEN x ELSE process[p]
      BY <1>1, <2>3 DEF Moves, RegistryInv, RegistryOK
    <3>2. QED
      BY <1>3, <2>2, <3>1 DEF CreationsOK, RegistryInv, At, Expects
  <2>6. RegistryOK' /\ VersionsOK' /\ UpdatesAreSerial'
    BY <1>2, <1>3, <2>4 DEF RegistryInv, RegistryOK, VersionsOK, UpdatesAreSerial, Found
  <2>7. QED
    BY <2>4, <2>5, <2>6 DEF RegistryInv
<1>4. CASE Leave(h) /\ UNCHANGED <<row, deleted>>
  <2>1. Moves(h, Free) /\ Free.pc = "idle" /\ Free.kind = "none" /\ UNCHANGED store
    BY <1>1, <1>2, <1>4, FreeFits, Zenon DEF Moves, Leave, Become, store, Free
  <2>2. QED
    BY <1>1, <1>2, <2>1, QuietStep
<1>5. CASE /\ Become(h, [process[h] EXCEPT !.pc = "evict", !.kind = "refused"])
           /\ UNCHANGED <<row, deleted>>
  <2>1. PICK x : x = [process[h] EXCEPT !.pc = "evict", !.kind = "refused"]
    OBVIOUS
  <2>2. process' = [process EXCEPT ![h] = x] /\ UNCHANGED store
    BY <1>2, <1>5, <2>1 DEF Become, store
  <2>3. x \in AtWork /\ x.pc = "evict" /\ x.kind = "refused"
    BY <1>1, <2>1, Zenon DEF AtWork, PC, Doing
  <2>4. Moves(h, x)
    BY <1>1, <2>2, <2>3 DEF Moves, Fits
  <2>5. QED
    BY <1>1, <1>2, <2>2, <2>3, <2>4, QuietStep
<1>6. QED
  BY <1>3, <1>4, <1>5, Zenon DEF DeleteAgent

\* A handler that has written to the store leaves, or goes to the service.
LEMMA ServedKeeps ==
  ASSUME RegistryInv, NEW h \in Handler, At(h, "set") \/ At(h, "evict"), Served(h),
         cache' \in Found, UNCHANGED <<store, health>>
  PROVE  RegistryInv'
<1>1. process[h] \in AtWork /\ Fits(h, process[h]) /\ h \in Process /\ h \notin Worker
  BY AgentAssumption DEF RegistryInv, RegistryOK, ProcessesOK, Process
<1>2. UNCHANGED <<pending, queue>> /\ ~UnderWay(process[h])
  BY <1>1 DEF health, UnderWay, At, Fits
<1>3. CASE Leave(h)
  <2>1. Moves(h, Free) /\ Free.pc = "idle" /\ Free.kind = "none"
    BY <1>1, <1>3, FreeFits, Zenon DEF Moves, Leave, Become, Free
  <2>2. QED
    BY <1>1, <1>2, <2>1, QuietStep
<1>4. ASSUME NEW pc \in {"refresh", "forget"}, Goto(h, pc) PROVE RegistryInv'
  <2>1. PICK x : x = [process[h] EXCEPT !.pc = pc]
    BY Zenon
  <2>2. x \in AtWork /\ x.pc = pc /\ x.kind = process[h].kind /\ x.target = process[h].target
    BY <1>1, <2>1 DEF AtWork, PC
  <2>3. Moves(h, x)
    BY <1>1, <1>4, <2>1, <2>2 DEF Moves, Fits, Goto, Become
  <2>4. QED
    BY <1>1, <1>2, <2>2, <2>3, QuietStep
<1>5. QED
  BY <1>3, <1>4 DEF Served

LEMMA CacheKeeps ==
  ASSUME RegistryInv, NEW h \in Handler, Set(h) \/ Evict(h) \/ CacheFails(h)
  PROVE  RegistryInv'
<1>1. process[h].agent \in Found /\ None \in Found /\ cache \in Found
  BY DEF RegistryInv, RegistryOK, AtWork, Process, Found
<1>2. cache' \in Found /\ (At(h, "set") \/ At(h, "evict")) /\ Served(h) /\ UNCHANGED <<store, health>>
  BY <1>1 DEF Set, Evict, CacheFails
<1>3. QED
  BY <1>2, ServedKeeps

\* The service forgets the agent: nothing is pending.
LEMMA ForgetKeeps == ASSUME RegistryInv, NEW h \in Handler, Forget(h) PROVE RegistryInv'
<1>1. /\ process[h] \in AtWork /\ Fits(h, process[h]) /\ At(h, "forget")
      /\ h \in Process /\ h \notin Worker
  BY AgentAssumption DEF RegistryInv, RegistryOK, ProcessesOK, Process, Forget
<1>2. UNCHANGED <<row, deleted, written, cache, queue>> /\ pending' = FALSE
  BY DEF Forget, store
<1>3. ASSUME NEW x, Moves(h, x), x.pc # "create", x.kind = "create" => process[h].kind = "create"
      PROVE  RegistryInv'
  <2>1. process' \in [Process -> AtWork] /\ ProcessesOK' /\ OneCreates' /\ CreationsOK'
    BY <1>1, <1>2, <1>3, MovesFit, MovesCreate
  <2>2. PendingIsUnderWay'
    BY <1>2 DEF PendingIsUnderWay
  <2>3. RegistryOK' /\ VersionsOK' /\ UpdatesAreSerial'
    BY <1>2, <2>1, Zenon DEF RegistryInv, RegistryOK, VersionsOK, UpdatesAreSerial
  <2>4. QED
    BY <2>1, <2>2, <2>3 DEF RegistryInv
<1>4. CASE Leave(h)
  <2>1. Moves(h, Free) /\ Free.pc = "idle" /\ Free.kind = "none"
    BY <1>1, <1>4, FreeFits, Zenon DEF Moves, Leave, Become, Free
  <2>2. QED
    BY <1>3, <2>1
<1>5. CASE Goto(h, "refresh")
  <2>1. PICK x : x = [process[h] EXCEPT !.pc = "refresh"]
    BY Zenon
  <2>2. x \in AtWork /\ x.pc = "refresh" /\ x.kind = process[h].kind /\ x.target = process[h].target
    BY <1>1, <2>1 DEF AtWork, PC
  <2>3. Moves(h, x)
    BY <1>1, <1>5, <2>1, <2>2 DEF Moves, Fits, Goto, Become
  <2>4. QED
    BY <1>3, <2>2, <2>3
<1>6. QED
  BY <1>4, <1>5 DEF Forget

\* Whoever sets pending goes to the queue; whoever finds it set has nothing to do.
LEMMA RefreshKeeps ==
  ASSUME RegistryInv, NEW p \in Process, p \notin Worker, Refresh(p)
  PROVE  RegistryInv'
<1>1. process[p] \in AtWork /\ Fits(p, process[p]) /\ At(p, "refresh")
  BY DEF RegistryInv, RegistryOK, ProcessesOK, Refresh
<1>2. UNCHANGED <<row, deleted, written, cache, queue>> /\ ~UnderWay(process[p])
  BY <1>1 DEF Refresh, store, UnderWay, At, Fits
<1>3. ASSUME NEW x, Moves(p, x), x.pc # "create", x.kind = "create" => process[p].kind = "create",
             pending' \in BOOLEAN, PendingIsUnderWay'
      PROVE  RegistryInv'
  <2>1. process' \in [Process -> AtWork] /\ ProcessesOK' /\ OneCreates' /\ CreationsOK'
    BY <1>1, <1>2, <1>3, MovesFit, MovesCreate
  <2>2. RegistryOK' /\ VersionsOK' /\ UpdatesAreSerial'
    BY <1>2, <1>3, <2>1 DEF RegistryInv, RegistryOK, VersionsOK, UpdatesAreSerial
  <2>3. QED
    BY <1>3, <2>1, <2>2 DEF RegistryInv
<1>4. CASE process[p].agent.target \notin Probeable
  <2>1. Moves(p, Free) /\ Free.pc = "idle" /\ Free.kind = "none" /\ pending' = FALSE
    BY <1>1, <1>4, FreeFits, Zenon DEF Moves, Leave, Become, Free, Refresh
  <2>2. pending' \in BOOLEAN /\ PendingIsUnderWay'
    BY <2>1, Zenon DEF PendingIsUnderWay
  <2>3. QED
    BY <1>3, <2>1, <2>2
<1>5. CASE process[p].agent.target \in Probeable /\ pending
  <2>1. Moves(p, Free) /\ Free.pc = "idle" /\ Free.kind = "none" /\ pending' = TRUE
    BY <1>1, <1>5, FreeFits, Zenon DEF Moves, Leave, Become, Free, Refresh
  <2>2. pending' \in BOOLEAN /\ PendingIsUnderWay'
    BY <1>2, <1>5, <2>1, MovesPending
  <2>3. QED
    BY <1>3, <2>1, <2>2
<1>6. CASE process[p].agent.target \in Probeable /\ ~pending
  <2>1. PICK x : x = [process[p] EXCEPT !.pc = "send"]
    BY Zenon
  <2>2. /\ x \in AtWork /\ x.pc = "send" /\ x.kind = process[p].kind
        /\ x.target = process[p].target /\ x.agent = process[p].agent
    BY <1>1, <2>1 DEF AtWork, PC
  <2>3. Moves(p, x) /\ pending' = TRUE
    BY <1>1, <1>6, <2>1, <2>2 DEF Moves, Fits, Goto, Become, Refresh
  <2>4. process'[p] = x
    BY <2>3 DEF Moves, RegistryInv, RegistryOK
  <2>5. At(p, "send")'
    BY <2>2, <2>4 DEF At
  <2>6. pending' \in BOOLEAN /\ PendingIsUnderWay'
    BY <2>3, <2>5 DEF PendingIsUnderWay
  <2>7. QED
    BY <1>3, <2>2, <2>3, <2>6
<1>7. QED
  BY <1>4, <1>5, <1>6

LEMMA SendKeeps == ASSUME RegistryInv, NEW p \in Process, Send(p) PROVE RegistryInv'
<1>1. process[p] \in AtWork /\ Fits(p, process[p]) /\ At(p, "send")
  BY DEF RegistryInv, RegistryOK, ProcessesOK, Send
<1>2. Moves(p, Free) /\ Free.pc = "idle" /\ Free.kind = "none"
  BY <1>1, FreeFits, Zenon DEF Moves, Leave, Become, Free, Send
<1>3. UNCHANGED <<row, deleted, written, cache>> /\ queue \in Seq(Target \union {None})
  BY DEF Send, store, RegistryInv, RegistryOK
<1>4. process' \in [Process -> AtWork] /\ ProcessesOK' /\ OneCreates' /\ CreationsOK'
  BY <1>2, <1>3, MovesFit, MovesCreate
<1>5. pending' \in BOOLEAN /\ queue' \in Seq(Target \union {None}) /\ PendingIsUnderWay'
  <2>1. CASE Len(queue) < QueueSize
    <3>1. process[p].agent.target \in Target /\ process[p].agent.target # None
      BY <1>1, AgentAssumption DEF Fits, At
    <3>2. queue' = Append(queue, process[p].agent.target) /\ UNCHANGED pending
      BY <2>1 DEF Send
    <3>3. /\ queue' \in Seq(Target \union {None})
          /\ Len(queue) + 1 \in DOMAIN queue' /\ queue'[Len(queue) + 1] # None
      BY <1>3, <3>1, <3>2
    <3>4. QED
      BY <3>2, <3>3 DEF PendingIsUnderWay, RegistryInv, RegistryOK
  <2>2. CASE ~(Len(queue) < QueueSize)
    BY <1>3, <2>2, Zenon DEF Send, PendingIsUnderWay
  <2>3. QED
    BY <2>1, <2>2
<1>6. RegistryOK' /\ VersionsOK' /\ UpdatesAreSerial'
  BY <1>3, <1>4, <1>5 DEF RegistryInv, RegistryOK, VersionsOK, UpdatesAreSerial
<1>7. QED
  BY <1>4, <1>5, <1>6 DEF RegistryInv

LEMMA ScheduleKeeps == ASSUME RegistryInv, refreshAll(Scheduler) PROVE RegistryInv'
<1>1. /\ process[Scheduler] \in AtWork /\ Fits(Scheduler, process[Scheduler]) /\ At(Scheduler, "idle")
      /\ row \in Found /\ cache \in Found
      /\ Scheduler \in Process /\ Scheduler \notin Worker
  BY AgentAssumption DEF RegistryInv, RegistryOK, ProcessesOK, refreshAll, Process
<1>2. PICK x : x = [Free EXCEPT !.pc = "refresh", !.kind = "schedule", !.agent = row]
  OBVIOUS
<1>3. x = [pc |-> "refresh", kind |-> "schedule", local |-> FALSE, target |-> None, expected |-> 0,
           agent |-> row]
  BY <1>2, Zenon DEF Free
<1>4. x \in AtWork /\ Fits(Scheduler, x)
  BY <1>1, <1>3 DEF AtWork, PC, Doing, Fits
<1>5. UNCHANGED <<store, cache, pending, queue>> /\ process' = [process EXCEPT ![Scheduler] = x]
  BY <1>2 DEF refreshAll, Become, health
<1>6. ~UnderWay(process[Scheduler]) /\ x.pc = "refresh" /\ x.kind = "schedule"
  BY <1>1, <1>3 DEF UnderWay, At, Fits
<1>7. QED
  BY <1>1, <1>4, <1>5, <1>6, QuietStep, Zenon DEF Moves

\* A worker that takes a check has it; one that takes a check of another agent
\* leaves those of this one in the queue.
LEMMA CheckKeeps == ASSUME RegistryInv, NEW w \in Worker, check(w) PROVE RegistryInv'
<1>1. /\ process[w] \in AtWork /\ Fits(w, process[w]) /\ At(w, "idle")
      /\ queue \in Seq(Target \union {None}) /\ queue # <<>>
      /\ w \in Process /\ w \notin Handler
  BY AgentAssumption DEF RegistryInv, RegistryOK, ProcessesOK, check, Process
<1>2. UNCHANGED <<row, deleted, written, cache, pending>> /\ queue' = Tail(queue)
  BY DEF check, store
<1>3. queue' \in Seq(Target \union {None}) /\ Head(queue) \in Target \union {None}
  BY <1>1, <1>2
<1>4. CASE Head(queue) = None
  <2>1. UNCHANGED process
    BY <1>4 DEF check
  <2>2. PendingIsUnderWay'
    <3>1. CASE \E i \in DOMAIN queue : queue[i] # None
      <4>1. PICK i \in DOMAIN queue : queue[i] # None
        BY <3>1
      <4>2. i \in 2..Len(queue)
        BY <1>1, <1>4, <4>1
      <4>3. i - 1 \in DOMAIN queue' /\ queue'[i - 1] = queue[i]
        BY <1>1, <1>2, <4>2
      <4>4. QED
        BY <4>1, <4>3 DEF PendingIsUnderWay
    <3>2. CASE \E p \in Process : At(p, "send") \/ process[p].kind = "check"
      BY <2>1, <3>2 DEF PendingIsUnderWay, At
    <3>3. QED
      BY <1>2, <3>1, <3>2 DEF PendingIsUnderWay, RegistryInv
  <2>3. QED
    BY <1>2, <1>3, <2>1, <2>2
       DEF RegistryInv, RegistryOK, VersionsOK, ProcessesOK, OneCreates, CreationsOK, At, UpdatesAreSerial
<1>5. CASE Head(queue) # None
  <2>1. PICK x : x = [Free EXCEPT !.pc = "get", !.kind = "check", !.target = Head(queue)]
    OBVIOUS
  <2>2. x = [pc |-> "get", kind |-> "check", local |-> FALSE, target |-> Head(queue), expected |-> 0,
             agent |-> None]
    BY <2>1, Zenon DEF Free
  <2>3. x \in AtWork /\ Fits(w, x) /\ x.kind = "check" /\ x.pc = "get"
    BY <1>1, <1>3, <2>2 DEF AtWork, PC, Doing, Fits, Found
  <2>4. Moves(w, x)
    BY <1>5, <2>1, <2>3 DEF Moves, check, Become
  <2>5. process' \in [Process -> AtWork] /\ ProcessesOK' /\ OneCreates' /\ CreationsOK'
    BY <1>1, <1>2, <2>3, <2>4, MovesFit, MovesCreate
  <2>6. process'[w] = x
    BY <1>1, <2>4 DEF Moves, RegistryInv, RegistryOK
  <2>7. PendingIsUnderWay'
    BY <1>1, <2>3, <2>6 DEF PendingIsUnderWay
  <2>8. RegistryOK' /\ VersionsOK' /\ UpdatesAreSerial'
    BY <1>2, <1>3, <2>5 DEF RegistryInv, RegistryOK, VersionsOK, UpdatesAreSerial
  <2>9. QED
    BY <2>5, <2>7, <2>8 DEF RegistryInv
<1>6. QED
  BY <1>4, <1>5

LEMMA StoreStateKeeps == ASSUME RegistryInv, NEW w \in Worker, StoreState(w) PROVE RegistryInv'
<1>1. process[w] \in AtWork /\ Fits(w, process[w]) /\ w \in Process
  BY DEF RegistryInv, RegistryOK, ProcessesOK, Process
<1>2. UNCHANGED <<row, deleted, written, cache, queue>> /\ pending' = FALSE
  BY DEF StoreState, store
<1>3. Moves(w, Free) /\ Free.pc = "idle" /\ Free.kind = "none"
  BY <1>1, FreeFits, Zenon DEF Moves, Leave, Become, Free, StoreState
<1>4. process' \in [Process -> AtWork] /\ ProcessesOK' /\ OneCreates' /\ CreationsOK'
  BY <1>1, <1>2, <1>3, MovesFit, MovesCreate
<1>5. PendingIsUnderWay'
  BY <1>2 DEF PendingIsUnderWay
<1>6. RegistryOK' /\ VersionsOK' /\ UpdatesAreSerial'
  BY <1>2, <1>4, Zenon DEF RegistryInv, RegistryOK, VersionsOK, UpdatesAreSerial
<1>7. QED
  BY <1>4, <1>5, <1>6 DEF RegistryInv

\* A copy that expires, and a check of another agent that enters the queue.
LEMMA OthersKeep == ASSUME RegistryInv, ExpireCached \/ RefreshOther PROVE RegistryInv'
<1>1. UNCHANGED <<row, deleted, written, process, pending>> /\ cache' \in Found
  BY DEF ExpireCached, RefreshOther, store, health, RegistryInv, RegistryOK, Found
<1>2. queue' \in Seq(Target \union {None}) /\ PendingIsUnderWay'
  <2>1. queue \in Seq(Target \union {None}) /\ (UNCHANGED queue \/ queue' = Append(queue, None))
    BY DEF ExpireCached, RefreshOther, health, RegistryInv, RegistryOK
  <2>2. queue' \in Seq(Target \union {None}) /\ \A i \in DOMAIN queue : i \in DOMAIN queue' /\ queue'[i] = queue[i]
    BY <2>1
  <2>3. QED
    BY <1>1, <2>2 DEF PendingIsUnderWay, RegistryInv, At
<1>3. QED
  BY <1>1, <1>2
     DEF RegistryInv, RegistryOK, VersionsOK, ProcessesOK, OneCreates, CreationsOK, At, UpdatesAreSerial

-----------------------------------------------------------------------------
LEMMA RegistryInit == Init => RegistryInv
<1>1. SUFFICES ASSUME Init PROVE RegistryInv
  OBVIOUS
<1>2. process \in [Process -> AtWork] /\ \A p \in Process : process[p] = Free
  BY <1>1, FreeFits DEF Init
<1>3. row \in Found /\ (row # None => row.version = 1) /\ None \in Found
  <2>1. row \in {None} \union [target : Target, version : {1}]
    BY <1>1, AgentAssumption DEF Init
  <2>2. CASE row = None
    BY <2>2 DEF Found
  <2>3. CASE row \in [target : Target, version : {1}]
    BY <2>3 DEF Found, Row
  <2>4. QED
    BY <2>1, <2>2, <2>3 DEF Found
<1>4. RegistryOK
  <2>1. written \in Seq(Nat) /\ queue \in Seq(Target \union {None})
    BY <1>1 DEF Init
  <2>2. cache \in Found /\ deleted \in BOOLEAN /\ pending \in BOOLEAN
    BY <1>1, <1>3, Zenon DEF Init
  <2>3. QED
    BY <1>2, <1>3, <2>1, <2>2 DEF RegistryOK
<1>5. VersionsOK /\ UpdatesAreSerial /\ PendingIsUnderWay
  BY <1>1, <1>3 DEF VersionsOK, UpdatesAreSerial, PendingIsUnderWay, Init
<1>6. ProcessesOK /\ OneCreates /\ CreationsOK
  <2>1. Free.kind = "none" /\ Free.pc = "idle"
    BY DEF Free
  <2>2. ProcessesOK
    BY <1>2, FreeFits DEF ProcessesOK
  <2>3. OneCreates /\ CreationsOK
    BY <1>2, <2>1 DEF OneCreates, CreationsOK, At
  <2>4. QED
    BY <2>2, <2>3
<1>7. QED
  BY <1>4, <1>5, <1>6 DEF RegistryInv

LEMMA RegistryNext == RegistryInv /\ [Next]_vars => RegistryInv'
<1>1. SUFFICES ASSUME RegistryInv, [Next]_vars PROVE RegistryInv'
  OBVIOUS
<1>2. Scheduler \in Process /\ Handler \subseteq Process /\ Worker \subseteq Process
      /\ Scheduler \notin Worker /\ Handler \intersect Worker = {}
  BY AgentAssumption DEF Process
<1>3. ASSUME NEW h \in Handler, RequestStep(h) \/ HandlerStep(h) \/ CacheFails(h) PROVE RegistryInv'
  <2>1. h \in Process /\ h \notin Worker
    BY <1>2
  <2>2. QED
    BY <1>1, <1>3, <2>1, RequestKeeps, GetStepKeeps, CreateKeeps, UpdateKeeps, DeleteKeeps, CacheKeeps,
       ForgetKeeps, RefreshKeeps, SendKeeps DEF HandlerStep
<1>4. ASSUME SchedulerStep PROVE RegistryInv'
  BY <1>1, <1>2, <1>4, ScheduleKeeps, RefreshKeeps, SendKeeps DEF SchedulerStep
<1>5. ASSUME NEW w \in Worker, WorkerStep(w) PROVE RegistryInv'
  BY <1>1, <1>2, <1>5, CheckKeeps, GetStepKeeps, StoreStateKeeps DEF WorkerStep
<1>6. CASE UNCHANGED vars
  BY <1>1, <1>6 DEF vars, RegistryInv, RegistryOK, VersionsOK, ProcessesOK, OneCreates, CreationsOK, At,
     UpdatesAreSerial, PendingIsUnderWay
<1>7. QED
  BY <1>1, <1>3, <1>4, <1>5, <1>6, OthersKeep DEF Next

\* The invariant of the registry holds however handlers, workers and the
\* scheduler interleave (every action of AgentRegistry keeps it).
THEOREM RegistryInvariant == Spec => []RegistryInv
<1>1. QED
  BY RegistryInit, RegistryNext, PTL DEF Spec

\* No update of an agent is lost, for any number of handlers of any number of
\* replicas and any requests: UpdateAgent compares the version in the store.
THEOREM UpdatesAreNotLost == Spec => []UpdatesAreSerial
<1>1. RegistryInv => UpdatesAreSerial
  BY DEF RegistryInv
<1>2. QED
  BY <1>1, RegistryInvariant, PTL

\* The health service never waits for a check that nobody makes, for queues of
\* any size and any number of workers (Refresh, Send, Forget and StoreState).
THEOREM PendingChecksAreMade == Spec => []PendingIsUnderWay
<1>1. RegistryInv => PendingIsUnderWay
  BY DEF RegistryInv
<1>2. QED
  BY <1>1, RegistryInvariant, PTL
=============================================================================
