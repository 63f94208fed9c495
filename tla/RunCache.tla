------------------------------ MODULE RunCache ------------------------------
(***************************************************************************)
(* The Redis read-through cache in front of the Run table, as              *)
(* internal/store/cached.go uses it.  Every operation of store.Cached is a *)
(* call of the database and then one of these, with other processes free   *)
(* to act in between; the steps that combine the two are in RunEngine.     *)
(***************************************************************************)
CONSTANTS
  Key,       \* the Runs
  Value,     \* what an entry holds: Run records
  NoEntry    \* the value of a key that is not cached

VARIABLE cache   \* cache[k] : the entry of k

CacheTypeOK == cache \in [Key -> Value]

CacheInit == cache = [k \in Key |-> NoEntry]

Hit(k) == cache[k] # NoEntry

CacheSet(k, v) == cache' = [cache EXCEPT ![k] = v]

CacheDelete(k) == cache' = [cache EXCEPT ![k] = NoEntry]
=============================================================================
