---------------------------- MODULE Coordination ----------------------------
(***************************************************************************)
(* Execution leases, internal/coordination/memory.go and the Lua scripts   *)
(* of internal/cache/redis.go.  A lease is the token stored under          *)
(* "run:<id>"; 0 means no lease.  Time is abstracted: a lease whose TTL    *)
(* has passed is one that ExpireLease has removed.                         *)
(***************************************************************************)
EXTENDS Integers

CONSTANTS
  Key,        \* the lease keys
  MaxToken    \* bound on the token sequence

VARIABLES
  lease,      \* lease[k] : token of the unexpired lease of k, or 0
  sequence    \* the last token handed out

CoordTypeOK ==
  /\ lease \in [Key -> 0..MaxToken]
  /\ sequence \in 0..MaxToken

CoordInit ==
  /\ lease = [k \in Key |-> 0]
  /\ sequence = 0

\* A plausible slip: the existing lease is overwritten.
AcquireLeaseAlways(k, token) ==
  /\ sequence < MaxToken
  /\ token = sequence + 1
  /\ sequence' = token
  /\ lease' = [lease EXCEPT ![k] = token]

\* The bound keeps sequence in 0..MaxToken; the code's counter is an int64.
AcquireLease(k, token) ==
  /\ lease[k] = 0
  /\ sequence < MaxToken
  /\ token = sequence + 1
  /\ sequence' = token
  /\ lease' = [lease EXCEPT ![k] = token]

\* Beyond the bound the model's coordinator refuses, as it does a busy key.
LeaseBusy(k) == lease[k] # 0 \/ sequence = MaxToken

\* A lease is renewed, and released, only through the token that created it.
LeaseHeldBy(k, token) == lease[k] = token

ReleaseLease(k, token) ==
  /\ lease' = [lease EXCEPT ![k] = IF LeaseHeldBy(k, token) THEN 0 ELSE @]
  /\ UNCHANGED sequence

ExpireKey(k) ==
  /\ lease[k] # 0
  /\ lease' = [lease EXCEPT ![k] = 0]
  /\ UNCHANGED sequence

\* Redis comes back from an older snapshot: leases are gone and the sequence
\* may be lower than tokens already handed out.
RestoreOlderSequence ==
  /\ sequence' \in 0..sequence
  /\ lease' = [k \in Key |-> 0]
=============================================================================
