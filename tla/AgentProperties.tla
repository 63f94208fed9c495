--------------------------- MODULE AgentProperties ---------------------------
(***************************************************************************)
(* What the registry of agents and the health service promise, stated over *)
(* AgentRegistry.                                                          *)
(***************************************************************************)
EXTENDS AgentRegistry

\* No update is lost: each one replaced the version its client had seen, so of
\* racing updates with one If-Match a single one succeeds, although the clients
\* read versions from a cache that may be stale (UpdateAgent).
UpdatesAreSerial == \A i \in DOMAIN written : written[i] = i

\* A check that is pending is under way: it is on its way to the queue, in it,
\* or a worker is at it.  Otherwise the agent would not be checked again
\* (Refresh, Forget, worker).
PendingIsUnderWay ==
  pending =>
    \/ \E i \in DOMAIN queue : queue[i] # None
    \/ \E p \in Process : At(p, "send") \/ process[p].kind = "check"

\* A read that races with an update or a deletion leaves an old copy in the
\* cache; in the end the cache has no copy but the one in the store (GetAgent,
\* UpdateAgent, DeleteAgent).
CacheConverges == <>[](cache \in {None, row})

\* Once updates have stopped, the health of an agent is that of its target, and
\* an agent that is not probed has none, whatever late checks of earlier targets
\* report (worker, sameTarget, Refresh).
HealthConverges ==
  <>[](row # None => state = IF row.target \in Probeable THEN row.target ELSE None)
=============================================================================
